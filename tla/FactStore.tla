------------------------------ MODULE FactStore ------------------------------
(***************************************************************************)
(* The grow-only fact stores of one project, internal/state/fact.go and    *)
(* fact_receive.go: what a device's facts table and its environment clocks *)
(* may do, whoever carries the facts from one device to another.  FactSync *)
(* implements this specification with queues, passes and a relay.          *)
(*                                                                         *)
(* A transaction is one step.  Payloads and kinds are left out.            *)
(***************************************************************************)
EXTENDS FactClock, FiniteSets

CONSTANTS
  Device,         \* state homes: one SQLite database each
  EnvId,          \* environment identities
  EnvsOf,         \* the environments a device writes under: its host name
                  \* (localFactEnvID), `--env`, the one of facts born of old rows
  FactId,         \* ids mintFactID can return
  MaxHLCSkewMS,   \* limit of refuseGrossHLCSkewTx
  Drift,          \* how far a host clock may be from real time
  MaxNow          \* bound: the last instant of real time

ASSUME StoreAssumption ==
  /\ EnvsOf \in [Device -> SUBSET EnvId]
  /\ MaxHLCSkewMS \in Nat /\ Drift \in Nat /\ MaxNow \in Nat

VARIABLES
  facts,      \* facts[d]: the rows of d's facts table
  clock,      \* clock[d][e]: d's fact_env_clocks row for e
  now         \* real time

storeVars == <<facts, clock, now>>

Fact == [id : FactId, env : EnvId, seq : Nat \ {0}, hlc : HLC]

\* A fact_env_clocks row; next = 0 stands for "no row".
EnvClock == [hlc : HLC, next : Nat]
NoRow == [hlc |-> ZeroHLC, next |-> 0]

Ids(F) == {f.id : f \in F}

StoreTypeOK ==
  /\ facts \in [Device -> SUBSET Fact]
  /\ clock \in [Device -> [EnvId -> EnvClock]]
  /\ now \in Nat

StoreInit ==
  /\ facts = [d \in Device |-> {}]
  /\ clock = [d \in Device |-> [e \in EnvId |-> NoRow]]
  /\ now = 1

----------------------------------------------------------------------------
(* Writing. *)

\* What a host clock may show: real time, off by at most Drift.
Readings == {w \in 1 .. (now + Drift) : now <= w + Drift}

\* The times a caller may give an append: a fact born of an old row is given
\* the time of that row.
Times == 1 .. (now + Drift)

\* mintFactID: an id nobody has minted before.
FreshIds == FactId \ UNION {Ids(facts[d]) : d \in Device}

\* Mutation of nextFactClock: a new row is seeded one number too low.
nextFactClock_SeedsLow(row, w) ==
  IF row = NoRow
  THEN [hlc |-> advanceHLC(ZeroHLC, w, ZeroHLC), next |-> 1]
  ELSE [hlc |-> advanceHLC(row.hlc, w, row.hlc), next |-> row.next + 1]

\* Mutation of nextFactClock: the stored number is advanced twice.
nextFactClock_SkipsNumbers(row, w) ==
  IF row = NoRow
  THEN [hlc |-> advanceHLC(ZeroHLC, w, ZeroHLC), next |-> 2]
  ELSE [hlc |-> advanceHLC(row.hlc, w, row.hlc), next |-> row.next + 2]

\* nextFactClockTx: the clock row after one append of its environment.
nextFactClock(row, w) ==
  IF row = NoRow
  THEN [hlc |-> advanceHLC(ZeroHLC, w, ZeroHLC), next |-> 2]
  ELSE [hlc |-> advanceHLC(row.hlc, w, row.hlc), next |-> row.next + 1]

\* appendFactTx: stamp a new fact from the environment's clock and insert it.
appendFactTx(d, e, id, w) ==
  LET row == nextFactClock(clock[d][e], w)
  IN  /\ e \in EnvsOf[d]
      /\ id \in FreshIds
      /\ facts' = [facts EXCEPT ![d] = @ \cup
           {[id |-> id, env |-> e, seq |-> row.next - 1, hlc |-> row.hlc]}]
      /\ clock' = [clock EXCEPT ![d][e] = row]

----------------------------------------------------------------------------
(* Receiving. *)

\* maxFactHLCTx: the row its query returns.
IsLatest(d, f) == f \in facts[d] /\ \A g \in facts[d] : NotAfter(g.hlc, f.hlc)

Distance(a, b) == IF a < b THEN b - a ELSE a - b

\* refuseGrossHLCSkewTx
GrosslySkewed(d, f) ==
  \E g \in facts[d] : /\ IsLatest(d, g)
                      /\ g.hlc.wall # 0
                      /\ Distance(f.hlc.wall, g.hlc.wall) > MaxHLCSkewMS

\* The unique index on (project_id, env_id, seq).
SeqTaken(d, f) == \E g \in facts[d] : g.env = f.env /\ g.seq = f.seq

Known(d, f) == f.id \in Ids(facts[d])

\* observeFactHLCTx: every clock row behind the stamp moves up to it.
observeFactHLC(row, h) ==
  IF row # NoRow /\ Before(row.hlc, h)
  THEN [hlc |-> advanceHLC(row.hlc, h.wall, h), next |-> row.next]
  ELSE row

\* Mutation of reconcileEnvClock: an existing row keeps its number.
reconcileEnvClock_KeepsNumber(row, f) ==
  IF row = NoRow
  THEN [hlc |-> f.hlc, next |-> f.seq + 1]
  ELSE [hlc |-> advanceHLC(row.hlc, f.hlc.wall, f.hlc), next |-> row.next]

\* reconcileEnvClockAfterReceiveTx: the row of the fact's own environment.
reconcileEnvClock(row, f) ==
  IF row = NoRow
  THEN [hlc |-> f.hlc, next |-> f.seq + 1]
  ELSE [hlc  |-> advanceHLC(row.hlc, f.hlc.wall, f.hlc),
        next |-> IF f.seq + 1 > row.next THEN f.seq + 1 ELSE row.next]

\* One ReceiveFact transaction that finds nothing to object to.
insertReceived(d, f) ==
  /\ facts' = [facts EXCEPT ![d] = @ \cup {f}]
  /\ clock' = [clock EXCEPT ![d] = [e \in EnvId |->
       IF e = f.env THEN reconcileEnvClock(observeFactHLC(clock[d][e], f.hlc), f)
                    ELSE observeFactHLC(clock[d][e], f.hlc)]]

\* ReceiveFact: a new fact that is not grossly skewed and whose sequence number
\* is free goes in; any other leaves the store as it was.
receivable(d, f) == ~Known(d, f) /\ ~GrosslySkewed(d, f) /\ ~SeqTaken(d, f)

Receive(d, f) ==
  /\ receivable(d, f)
  /\ insertReceived(d, f)
  /\ UNCHANGED now

WriteFact(d, e, id, w) == appendFactTx(d, e, id, w) /\ UNCHANGED now

StoreTick ==
  /\ now < MaxNow
  /\ now' = now + 1
  /\ UNCHANGED <<facts, clock>>

StoreNext ==
  \/ \E d \in Device, e \in EnvId, id \in FactId, w \in Times : WriteFact(d, e, id, w)
  \/ \E d, from \in Device : \E f \in facts[from] : Receive(d, f)
  \/ StoreTick

StoreSpec == StoreInit /\ [][StoreNext]_storeVars

----------------------------------------------------------------------------
(* Safety. *)

\* Only one device writes under e.
SoleWriter(e) == \A d1, d2 \in Device : e \in EnvsOf[d1] /\ e \in EnvsOf[d2] => d1 = d2

\* The number the next append of e on d gets (nextFactClock: the time does not matter).
NextSeq(d, e) == nextFactClock(clock[d][e], 1).next - 1

\* The unique index on (project_id, env_id, seq) refuses no append, even where several
\* devices share a host name: what a device is about to number is past all it has received.
\* It does refuse receives, of a number this device has given or received already; that
\* is so only for an environment several devices write.
OnlyNamesakesCollide ==
  \A d \in Device :
    /\ \A e \in EnvsOf[d] : \A f \in facts[d] : f.env = e => f.seq < NextSeq(d, e)
    /\ \A from \in Device : \A f \in facts[from] :
         ~Known(d, f) /\ SeqTaken(d, f) => ~SoleWriter(f.env)

\* The stream of an environment only one device writes: everywhere, a sequence
\* number names one fact, and stamps rise with sequence numbers, although the
\* host clock may step back (nextFactClockTx, reconcileEnvClockAfterReceiveTx).
EnvStreamOrdered ==
  \A d1, d2 \in Device : \A f \in facts[d1], g \in facts[d2] :
    f.env = g.env /\ SoleWriter(f.env) =>
      /\ f.seq = g.seq => f = g
      /\ f.seq < g.seq => Before(f.hlc, g.hlc)

Seqs(d, e) == {f.seq : f \in {g \in facts[d] : g.env = e}}

\* DetectEnvSeqGaps for one environment: what interiorMissing lists.
InteriorMissing(d, e) == (UNION {a .. b : a, b \in Seqs(d, e)}) \ Seqs(d, e)

\* A reported gap is a real omission: the environment's own device holds a fact
\* under every number the report calls missing, and never sees a gap itself.
GapsAreReal ==
  \A d, home \in Device : \A e \in EnvsOf[home] :
    SoleWriter(e) => InteriorMissing(d, e) \subseteq Seqs(home, e)

----------------------------------------------------------------------------
(* The inductive invariant behind them. *)

\* An id names one fact on all devices.
IdsUnique ==
  \A d1, d2 \in Device : \A f \in facts[d1], g \in facts[d2] : f.id = g.id => f = g

\* A fact is held by a device that writes under its environment.
HeldAtHome ==
  \A d \in Device : \A f \in facts[d] :
    \E home \in Device : f.env \in EnvsOf[home] /\ f \in facts[home]

\* A clock row exists once its number is above one.
RowsWellFormed ==
  \A d \in Device, e \in EnvId : clock[d][e] = NoRow \/ clock[d][e].next > 1

\* A clock row is past every fact of its environment the device holds.
ClockCovers ==
  \A d \in Device : \A f \in facts[d] :
    /\ f.seq < clock[d][f.env].next
    /\ NotAfter(f.hlc, clock[d][f.env].hlc)

\* A store holds one fact under a number of an environment.
SeqUniqueInStore ==
  \A d \in Device : \A f, g \in facts[d] : f.env = g.env /\ f.seq = g.seq => f = g

\* The only writer of an environment holds all of its facts up to the clock.
HomeContiguous ==
  \A h \in Device : \A e \in EnvsOf[h] : SoleWriter(e) =>
    \A s \in 1 .. (clock[h][e].next - 1) : s \in Seqs(h, e)

StoreInv ==
  /\ StoreTypeOK
  /\ IdsUnique
  /\ HeldAtHome
  /\ RowsWellFormed
  /\ ClockCovers
  /\ HomeContiguous
  /\ SeqUniqueInStore
  /\ EnvStreamOrdered

----------------------------------------------------------------------------
(* What the documents say of the program. *)

\* ADR-029, decision 4: the clock is advanced past the highest clock seen on
\* every receive, so a device stamps what it writes after all it has received.
StampsFollowSeen ==
  [][\A d \in Device : \A f \in facts'[d] \ facts[d] : f.env \in EnvsOf[d] =>
       \A g \in facts[d] : g.env \notin EnvsOf[d] => Before(g.hlc, f.hlc)]_storeVars

=============================================================================
