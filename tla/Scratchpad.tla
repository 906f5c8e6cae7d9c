---------------------------- MODULE Scratchpad ----------------------------
(* Scratchpad channels (internal/scratchpad): agents on several machines append   *)
(* messages, claim and release resources and close a channel. Everything is a fact *)
(* of the local store and travels by the ordinary sync; what a reader is shown is   *)
(* folded from the facts of its own store.                                         *)
(*                                                                               *)
(* Facts arrive in any order and some never do: a fact is queued for the relay      *)
(* after the commit that appends it (fact.go:60-63), where a stop loses it, the      *)
(* queue goes out by the text of its times, and an administrator may delete blobs.  *)
(*                                                                               *)
(* A command checks and writes in transactions of their own, so steps of other     *)
(* processes and arrivals come in between. A stamp is one number (FactClock has     *)
(* the two parts): any later than the clock of the environment, since the wall      *)
(* clocks of two machines may disagree.                                            *)
EXTENDS Naturals, Sequences, FiniteSets, FiniteSetsExt, SequencesExt, Tables

CONSTANT PadPlans \* instances: machines, the processes on them, commands, bounds

\* Machines are numbers, for the order of facts of one stamp. A process [env, who, run] is a
\* run of the command line by the instance who on a machine; an instance may run it twice at once.
ASSUME PadPlansAssumption ==
  \A p \in PadPlans :
    /\ p.machines \subseteq Nat /\ \A a \in p.agents : a.env \in p.machines
    /\ p.maxStamp \in Nat /\ p.maxSeq \in Nat /\ p.limit \in Nat

VARIABLES
  padPlan,
  padFacts,  \* machine -> facts in its store
  padClock,  \* machine -> [stamp, seq] of its environment, 0 before the first fact
  padNow,    \* the time leases are judged by
  padProc    \* process -> the command it runs and how far it is

padVars == <<padPlan, padFacts, padClock, padNow, padProc>>

PadIdle == [at |-> "idle"]
Machines == padPlan.machines
PadKinds == {"intro", "message", "claim", "release", "close"}

---------------------------------------------------------------------------
(* Reading a channel. *)

FactMatchesChannel(f, ch) == f.kind \in PadKinds /\ f.ch = ch

\* ORDER BY hlc, env_id, id: machines and ids are numbers here.
PadBefore(f, g) == \/ f.stamp < g.stamp
                   \/ f.stamp = g.stamp /\ f.env < g.env
                   \/ f.stamp = g.stamp /\ f.env = g.env /\ f.seq < g.seq
ListChannelFacts(d, ch) == {f \in padFacts[d] : FactMatchesChannel(f, ch)}
InFactOrder(facts) == Listed(facts, PadBefore)

ChannelIsClosed(d, ch) == \E f \in padFacts[d] : FactMatchesChannel(f, ch) /\ f.kind = "close"

RosterKey(f) == <<f.env, f.who>>
ClaimKey(f) == <<f.thing, f.env, f.who>>

\* Mutation: an instance that goes by the same name elsewhere counts as this one.
InstanceIntroduced_ByName(d, ch, who) ==
  \E f \in padFacts[d] : FactMatchesChannel(f, ch) /\ f.kind = "intro" /\ f.who = who

InstanceIntroduced(d, ch, who) ==
  \E f \in padFacts[d] : FactMatchesChannel(f, ch) /\ f.kind = "intro" /\ RosterKey(f) = <<d, who>>

\* The roster after one more fact: an introduction enters, a message refreshes who is in.
Roster(r, f) ==
  IF f.kind = "intro" \/ (f.kind = "message" /\ RosterKey(f) \in DOMAIN r) THEN Upserted(r, RosterKey(f), f.stamp) ELSE r

Newest(s, n) == IF n > 0 /\ Len(s) > n THEN SubSeq(s, Len(s) - n + 1, Len(s)) ELSE s

\* The leases that run; a release of the same key takes one away, whatever came first.
ActiveClaims(facts) ==
  {ClaimKey(f) : f \in {g \in facts : g.kind = "claim" /\ g.until > padNow}}
    \ {ClaimKey(f) : f \in {g \in facts : g.kind = "release"}}

ReadChannel(d, ch, limit) ==
  LET facts == ListChannelFacts(d, ch)
  IN IF ChannelIsClosed(d, ch) THEN [messages |-> <<>>, roster |-> <<>>, claims |-> {}]
     ELSE [messages |-> Newest(InFactOrder({f \in facts : f.kind = "message"}), limit),
           roster |-> FoldLeft(Roster, <<>>, InFactOrder(facts)),
           claims |-> ActiveClaims(facts)]

---------------------------------------------------------------------------
(* The commands of a process of an instance. *)

PadAt(p, step) == padProc[p].at = step
PadGoes(p, step) == padProc' = [padProc EXCEPT ![p].at = step]
PadDone(p) == padProc' = [padProc EXCEPT ![p] = PadIdle]

\* AppendFact: the next number of the environment and a stamp past its clock.
PadAppend(p, kind, c) ==
  /\ padClock[p.env].seq < padPlan.maxSeq
  /\ \E s \in padClock[p.env].stamp + 1 .. padPlan.maxStamp :
       LET f == [kind |-> kind, ch |-> c.ch, env |-> p.env, who |-> p.who, thing |-> c.thing,
                 until |-> IF kind = "claim" THEN padNow + padPlan.lease ELSE 0, seq |-> padClock[p.env].seq + 1, stamp |-> s]
       IN /\ padFacts' = [padFacts EXCEPT ![p.env] = @ \cup {f}]
          /\ padClock' = [padClock EXCEPT ![p.env] = [stamp |-> s, seq |-> f.seq]]

\* ensureChannelOpen, in a transaction of its own; a closed channel refuses every command.
EnsureChannelOpen(p, c) ==
  /\ PadAt(p, "idle")
  /\ ~ChannelIsClosed(p.env, c.ch)
  /\ padProc' = [padProc EXCEPT ![p] = [at |-> IF c.op = "message" THEN "greet" ELSE "write", cmd |-> c]]
  /\ UNCHANGED <<padPlan, padFacts, padClock, padNow>>

\* The first message of an instance is preceded by its introduction.
Introduce(p) ==
  /\ PadAt(p, "greet")
  /\ PadGoes(p, IF InstanceIntroduced(p.env, padProc[p].cmd.ch, p.who) THEN "write" ELSE "intro")
  /\ UNCHANGED <<padPlan, padFacts, padClock, padNow>>
AppendIntro(p) ==
  /\ PadAt(p, "intro")
  /\ PadAppend(p, "intro", padProc[p].cmd)
  /\ PadGoes(p, "write")
  /\ UNCHANGED <<padPlan, padNow>>

\* AppendMessage, Claim, Release and CloseChannel end with their fact.
AppendEntry(p, op) ==
  /\ PadAt(p, "write") /\ padProc[p].cmd.op = op
  /\ PadAppend(p, op, padProc[p].cmd)
  /\ PadDone(p)
  /\ UNCHANGED <<padPlan, padNow>>
AppendMessage(p) == AppendEntry(p, "message")
Claim(p) == AppendEntry(p, "claim")
Release(p) == AppendEntry(p, "release")
CloseChannel(p) == AppendEntry(p, "close")

PadStops(p) == ~PadAt(p, "idle") /\ padPlan.stops /\ PadDone(p) /\ UNCHANGED <<padPlan, padFacts, padClock, padNow>>

\* Sync: a fact of another machine arrives, and the clock of the receiver has seen it.
PadReceive(d, f) ==
  /\ f \notin padFacts[d]
  /\ padFacts' = [padFacts EXCEPT ![d] = @ \cup {f}]
  /\ padClock' = [padClock EXCEPT ![d].stamp = IF padClock[d].seq > 0 THEN Max({@, f.stamp}) ELSE @]
  /\ UNCHANGED <<padPlan, padNow, padProc>>

PadTick == padNow < padPlan.maxNow /\ padNow' = padNow + 1 /\ UNCHANGED <<padPlan, padFacts, padClock, padProc>>

PadInit ==
  /\ padPlan \in PadPlans
  /\ padFacts = [d \in padPlan.machines |-> {}]
  /\ padClock = [d \in padPlan.machines |-> [stamp |-> 0, seq |-> 0]]
  /\ padNow = 0
  /\ padProc = [p \in padPlan.agents |-> PadIdle]

PadNext ==
  \/ \E p \in padPlan.agents :
       \/ \E c \in padPlan.cmds : EnsureChannelOpen(p, c)
       \/ Introduce(p) \/ AppendIntro(p)
       \/ AppendMessage(p) \/ Claim(p) \/ Release(p) \/ CloseChannel(p)
       \/ PadStops(p)
  \/ \E d, e \in Machines : d # e /\ \E f \in padFacts[e] : PadReceive(d, f)
  \/ PadTick

PadSpec == PadInit /\ [][PadNext]_padVars

---------------------------------------------------------------------------
(* Properties. *)

\* The introductions of the author of a message that its own machine wrote before it.
Introductions(f) ==
  {g \in ListChannelFacts(f.env, f.ch) : g.kind = "intro" /\ RosterKey(g) = RosterKey(f) /\ g.seq < f.seq}

\* AppendMessage, ReadChannel: whoever raced to introduce itself and in whatever order and
\* with whatever gaps facts have arrived, a message that a machine shows was introduced
\* before it where it was written; its author is on the roster as soon as one of those
\* introductions is here, and nobody on it was last seen before a message shown of theirs.
AuthorsAreListed ==
  \A d \in Machines, ch \in padPlan.channels :
    LET view == ReadChannel(d, ch, padPlan.limit)
    IN \A f \in Range(view.messages) :
         /\ Introductions(f) # {}
         /\ Introductions(f) \cap padFacts[d] # {} => RosterKey(f) \in DOMAIN view.roster
         /\ RosterKey(f) \in DOMAIN view.roster => view.roster[RosterKey(f)] >= f.stamp
=============================================================================
