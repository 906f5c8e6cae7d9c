---------------------------- MODULE SyncRecovery ----------------------------
(***************************************************************************)
(* vNext recovery: a host with an empty store joins a channel from its     *)
(* recovery credential (src/vnext/sync/coordinator) and keeps every step   *)
(* it has verified in its own database (src/vnext/continuity/sqlite), so   *)
(* that any process may stop anywhere and another may go on.               *)
(*                                                                         *)
(* Each action is one request to the relay or one transaction of the       *)
(* store.  Membership lists come in pages of one environment, downloads    *)
(* in pages of one arrival, prune inventories in pages of one prune and    *)
(* terminal history in chunks of one frame.  What the relay's list holds   *)
(* at a generation is fixed by that generation, so an authority is its     *)
(* generation and arrival head; signatures, certificates and digests are   *)
(* taken to be those of the honest relay of OpaqueRelay.                   *)
(***************************************************************************)
EXTENDS Naturals, Sequences, FiniteSets

CONSTANTS
  Procs,      \* processes that attach the same store
  Bounds      \* records [events, head, prunes, faults, prepares, first]

\* What a behaviour may use up: membership events, arrivals, prunes, faults and
\* credentials; and the members a channel starts with.
ASSUME BoundsAssumption ==
  Bounds \subseteq [events : Nat, head : Nat, prunes : Nat, faults : Nat, prepares : Nat, first : Nat]

None == [none |-> TRUE]

\* The writer that recovers; other environments are numbered from 1.
Writer == 0

VARIABLES
  bound,      \* the bounds of this behaviour
  members,    \* relay: the channel's membership events, in order
  arrivals,   \* relay: each arrival, "sealed" or "pruned"
  prunes,     \* relay: the arrival each prune erased
  target,     \* the membership generation of the prepared certificate, 0 if none
  canon,      \* store: the canonical authority
  mark,       \* store: the relay watermark
  cand,       \* store: the ordinary authority candidate
  trans,      \* store: the recovery transition with its predecessor and successor
  closed,     \* store: receipts of ended transitions
  prog,       \* store: sync progress
  inbox,      \* store: staged frames by arrival
  pcand,      \* store: the recovery prune candidate
  term,       \* store: the terminal candidate
  facts,      \* store: arrivals held as facts
  tombs,      \* store: arrivals held as tombstones
  pc, loc,    \* each process: its next step and what it has read
  problem,    \* each process: the action its last problem named
  faults,     \* crashes, lost answers and discards so far
  prepares    \* credentials minted so far

relay == <<members, arrivals, prunes>>
store == <<canon, mark, cand, trans, closed, prog, inbox, pcand, term, facts, tombs>>
procs == <<pc, loc, problem>>
vars == <<bound, relay, target, store, procs, faults, prepares>>

----------------------------------------------------------------------------
(* The relay, as the coordinator sees it. *)

Snap(g, h) == [gen |-> g, head |-> h]
NoSnap == Snap(0, 0)

\* What every answer of the relay carries: membership generation and head.
Snapshot == Snap(Len(members), Len(arrivals))

AtLeast(a, b) == a.gen >= b.gen /\ a.head >= b.head

Join(a, b) == Snap(IF a.gen > b.gen THEN a.gen ELSE b.gen,
                   IF a.head > b.head THEN a.head ELSE b.head)

\* The environments listed at a generation, retired ones included.
Environments(g) == Cardinality({k \in 1 .. g : members[k].kind = "join"})

\* The prepared certificate is the channel's event of its own generation.
Registered == target \in DOMAIN members
              /\ members[target] = [kind |-> "join", env |-> Writer]

\* The arrivals the first k prunes erased.
Targets(k) == {prunes[j] : j \in 1 .. k}

Retired(e) == \E k \in DOMAIN members : members[k] = [kind |-> "retire", env |-> e]

\* Other hosts join, and retire, while this one recovers.
OtherJoins ==
  /\ Len(members) < bound.events
  /\ members' = Append(members, [kind |-> "join", env |-> Len(members) + 1])
  /\ UNCHANGED <<bound, arrivals, prunes, target, store, procs, faults, prepares>>

OtherRetires ==
  /\ Len(members) < bound.events
  /\ \E k \in DOMAIN members :
       /\ members[k].kind = "join"
       /\ members[k].env # Writer
       /\ ~Retired(members[k].env)
       /\ members' = Append(members, [kind |-> "retire", env |-> members[k].env])
  /\ UNCHANGED <<bound, arrivals, prunes, target, store, procs, faults, prepares>>

OtherAppends ==
  /\ \E k \in DOMAIN members : members[k].env # Writer /\ ~Retired(members[k].env)
  /\ Len(arrivals) < bound.head
  /\ arrivals' = Append(arrivals, "sealed")
  /\ UNCHANGED <<bound, members, prunes, target, store, procs, faults, prepares>>

\* A prune erases an arrival and moves neither the head nor the membership.
OtherPrunes ==
  /\ Len(prunes) < bound.prunes
  /\ \E i \in DOMAIN arrivals :
       /\ arrivals[i] = "sealed"
       /\ arrivals' = [arrivals EXCEPT ![i] = "pruned"]
       /\ prunes' = Append(prunes, i)
  /\ UNCHANGED <<bound, members, target, store, procs, faults, prepares>>

----------------------------------------------------------------------------
(* Processes. *)

\* What a process keeps between steps.  mode: why the relay is asked; obs, reg:
\* its answer; guard: the candidate the registration rests on; op, pin, n: the
\* scan under way, its snapshot and the pages it has; st: the transition read;
\* bind: the authority that is followed; page, after: the arrival fetched; pr,
\* upto: the prune inventory kept and the relay's last prune.
NoLocal == [mode |-> "first", obs |-> NoSnap, reg |-> FALSE, guard |-> None,
            op |-> "guard", pin |-> None, n |-> 0, st |-> None, bind |-> None,
            page |-> "sealed", after |-> 0, pr |-> None, upto |-> 0, tries |-> 0]

Go(p, step, l) ==
  /\ pc' = [pc EXCEPT ![p] = step]
  /\ loc' = [loc EXCEPT ![p] = l]
  /\ UNCHANGED problem

\* The attempt ends with a problem that names what the caller should do next.
Fail(p, action) ==
  /\ pc' = [pc EXCEPT ![p] = "idle"]
  /\ loc' = [loc EXCEPT ![p] = NoLocal]
  /\ problem' = [problem EXCEPT ![p] = action]

\* Authority work starts again from a fresh classification, once.
Reclassify(p) ==
  IF loc[p].tries = 0
    THEN Go(p, "classify", [NoLocal EXCEPT !.mode = "converge", !.tries = 1])
    ELSE Fail(p, "retry")

At(p, step) == pc[p] = step /\ UNCHANGED <<bound, target, faults, prepares>>

SnapOf(c) == Snap(c.gen, c.head)

Ready(c) == c # None /\ c.ready

Attached == prog # None /\ prog.state = "attached"

\* PrepareRecovery: a credential for the next generation, while the writer is
\* not yet a member.  The processes that held an older one have stopped.
PrepareRecovery ==
  /\ prepares < bound.prepares
  /\ \A p \in Procs : pc[p] = "idle"
  /\ ~Registered
  /\ target' = Len(members) + 1
  /\ prepares' = prepares + 1
  /\ UNCHANGED <<bound, relay, store, procs, faults>>

\* AttachPreparedRecovery up to its first request: an active transition is
\* taken up, an authority already pinned is followed, else the writer registers.
\* A caller that is attached does not call again.
Attach(p) ==
  /\ At(p, "idle") /\ target # 0 /\ ~Attached
  /\ \/ trans # None /\ Go(p, "classify", [NoLocal EXCEPT !.mode = "converge"])
     \/ /\ trans = None /\ cand = None /\ prog # None
        /\ IF canon.gen >= target /\ prog.downloaded <= canon.head
             THEN Go(p, "download", [NoLocal EXCEPT !.bind = canon])
             ELSE Fail(p, "restart")
     \/ trans = None /\ (cand # None \/ prog = None) /\ Go(p, "classify", NoLocal)
  /\ UNCHANGED <<relay, store>>

----------------------------------------------------------------------------
(* Registration, and the authority it makes. *)

\* ClassifyEnvironmentRegistration: the relay's state, and whether it holds
\* exactly this registration.
Classify(p) ==
  /\ At(p, "classify")
  /\ Go(p, "retain", [loc[p] EXCEPT !.obs = Snapshot, !.reg = Registered])
  /\ UNCHANGED <<relay, store>>

\* revalidateRecoveryRegistrationGuard
GuardHolds(g) ==
  /\ canon = None
  /\ IF target = 1 THEN cand = None ELSE cand = g /\ Ready(g) /\ g.gen = target - 1

\* validateRecoveryRegistrationStatus
StatusHolds(l) ==
  /\ IF l.reg THEN l.obs.gen >= target
              ELSE l.obs.gen = target - 1 /\ (l.obs.gen = 0 => l.obs.head = 0)
  /\ l.mode \in {"converge", "promote"} => l.reg
  /\ l.mode = "final" => GuardHolds(l.guard)

\* What an observation that is the greatest so far leads to.
Route(p, l) ==
  CASE l.mode = "first" /\ l.reg ->
         IF GuardHolds(cand) THEN Go(p, "classify", [NoLocal EXCEPT !.mode = "converge"])
                             ELSE Fail(p, "restart")
    [] l.mode = "first" /\ ~l.reg ->
         IF target = 1 \/ ~Ready(cand) THEN Go(p, "guard", l)
         ELSE IF GuardHolds(cand)
                THEN Go(p, "classify", [l EXCEPT !.mode = "final", !.guard = cand])
                ELSE Fail(p, "restart")
    [] l.mode = "final" ->
         IF l.reg THEN Go(p, "classify", [NoLocal EXCEPT !.mode = "converge"])
                  ELSE Go(p, "register", l)
    [] l.mode = "converge" -> Go(p, "decide", l)
    [] l.mode = "promote" ->
         IF l.obs = l.pin THEN Go(p, "promote", l)
         ELSE IF AtLeast(l.obs, l.pin) THEN Reclassify(p) ELSE Fail(p, "restart")

\* Mutant: the last observation is kept, not the greatest.
RetainObservation_Last(p) ==
  LET l == loc[p] IN
  /\ At(p, "retain")
  /\ IF ~StatusHolds(l) THEN Fail(p, "restart") /\ UNCHANGED mark
     ELSE mark' = l.obs /\ Route(p, l)
  /\ UNCHANGED <<relay, canon, cand, trans, closed, prog, inbox, pcand, term, facts, tombs>>

\* The observation is kept whatever it shows (AdvanceSyncRelayWatermark keeps
\* the join) and acted on only when nothing greater is known.
RetainObservation(p) ==
  LET l == loc[p] IN
  /\ At(p, "retain")
  /\ IF ~StatusHolds(l) THEN Fail(p, "restart") /\ UNCHANGED mark
     ELSE /\ mark' = Join(mark, l.obs)
          /\ IF mark' = l.obs THEN Route(p, l) ELSE Fail(p, "restart")
  /\ UNCHANGED <<relay, canon, cand, trans, closed, prog, inbox, pcand, term, facts, tombs>>

\* stageRecoveryRegistrationGuardAtOrAbove before its first page: the list at
\* the generation before ours, resumed at the snapshot of a partial candidate.
\* The first member creates the channel and must find it empty.
StartGuard(p) ==
  LET l == loc[p] IN
  /\ At(p, "guard")
  /\ IF canon # None THEN Fail(p, "restart")
     ELSE IF target = 1
       THEN IF cand = None /\ Snapshot = NoSnap
              THEN Go(p, "classify", [l EXCEPT !.mode = "final"])
              ELSE Fail(p, "restart")
       ELSE IF cand = None THEN Go(p, "scan", [l EXCEPT !.op = "guard"])
       ELSE IF cand.gen = target - 1
              THEN Go(p, "scan", [l EXCEPT !.op = "guard", !.pin = SnapOf(cand)])
              ELSE Fail(p, "restart")
  /\ UNCHANGED <<relay, store>>

\* The relay answers a pinned request while the membership is the same.
SnapshotHolds(s) == s.gen = Len(members) /\ s.head <= Len(arrivals)

\* scanRecoveryInventory: one page; the first fixes the snapshot of the others.
\* A guard must list the generation before ours, at the head observed or later.
Scan(p) ==
  LET l == loc[p]
      s == IF l.pin = None THEN Snapshot ELSE l.pin
  IN  /\ At(p, "scan")
      /\ IF ~SnapshotHolds(s) THEN Fail(p, "retry")
         ELSE IF l.op # "append" /\ ~AtLeast(s, l.obs) THEN Fail(p, "restart")
         ELSE IF l.op = "guard" /\ s.gen # target - 1 THEN Fail(p, "restart")
         ELSE Go(p, IF l.op \in {"begin", "replace"} THEN "note" ELSE "stage",
                 [l EXCEPT !.pin = s])
      /\ UNCHANGED <<relay, store>>

\* The first page of a new successor is an observation of its own.
NotePage(p) ==
  LET l == loc[p] IN
  /\ At(p, "note")
  /\ mark' = Join(mark, l.pin)
  /\ IF mark' = l.pin THEN Go(p, "stage", l) ELSE Fail(p, "restart")
  /\ UNCHANGED <<relay, canon, cand, trans, closed, prog, inbox, pcand, term, facts, tombs>>

\* A candidate that holds the first n pages of the list at snapshot s.
Pages(s, n) == [gen |-> s.gen, head |-> s.head, through |-> n, ready |-> n = Environments(s.gen)]

\* The next page of a scan, or what follows the last one.
NextPage(p, c, l) ==
  IF ~c.ready THEN Go(p, "scan", [l EXCEPT !.n = l.n + 1])
  ELSE IF l.op = "guard"
    THEN Go(p, "classify", [l EXCEPT !.mode = "final", !.guard = c])
    ELSE Go(p, "classify", [l EXCEPT !.mode = "promote"])

\* StageVerifiedSyncAuthorityCandidatePage: a page already held is a replay, the
\* first moves the watermark, and a later one must be at it.
StageGuardPage(p) ==
  LET l     == loc[p]
      fresh == cand = None /\ l.n = 0 /\ AtLeast(l.pin, mark)
      nextp == cand # None /\ l.n = cand.through /\ mark = l.pin
  IN  /\ At(p, "stage") /\ l.op = "guard"
      /\ IF trans # None \/ pcand # None \/ canon # None
              \/ (cand # None /\ SnapOf(cand) # l.pin)
           THEN Fail(p, "restart") /\ UNCHANGED <<cand, mark>>
         ELSE IF cand # None /\ l.n < cand.through
           THEN /\ UNCHANGED <<cand, mark>>
                /\ IF l.n + 1 < Environments(l.pin.gen)
                     THEN Go(p, "scan", [l EXCEPT !.n = l.n + 1])
                     ELSE NextPage(p, cand, l)
         ELSE IF fresh \/ nextp
           THEN /\ cand' = Pages(l.pin, l.n + 1)
                /\ mark' = l.pin
                /\ NextPage(p, cand', l)
         ELSE Fail(p, "repair") /\ UNCHANGED <<cand, mark>>
      /\ UNCHANGED <<relay, canon, trans, closed, prog, inbox, pcand, term, facts, tombs>>

\* RegisterEnvironment at the relay: refused unless the certificate is for the
\* next generation; the same registration again is answered as before.
RegisterEnvironment(p) ==
  LET l == loc[p] IN
  /\ At(p, "register")
  /\ IF Registered \/ Len(members) = target - 1
       THEN /\ members' = IF Registered THEN members
                          ELSE Append(members, [kind |-> "join", env |-> Writer])
            /\ Go(p, "registered", [l EXCEPT !.obs = Snap(Len(members'), Len(arrivals))])
       ELSE Fail(p, "restart") /\ UNCHANGED members
  /\ UNCHANGED <<arrivals, prunes, store>>

\* The answer counts only if the guard survived the call.
RetainRegistration(p) ==
  LET l == loc[p] IN
  /\ At(p, "registered")
  /\ IF GuardHolds(l.guard)
       THEN /\ mark' = Join(mark, l.obs)
            /\ IF mark' = l.obs THEN Go(p, "classify", [NoLocal EXCEPT !.mode = "converge"])
                                ELSE Fail(p, "restart")
       ELSE Fail(p, "restart") /\ UNCHANGED mark
  /\ UNCHANGED <<relay, canon, cand, trans, closed, prog, inbox, pcand, term, facts, tombs>>

\* convergeRegisteredRecoveryAuthorityOnce after its classification: replace a
\* stale successor, promote a ready one, go on with a partial one, begin a
\* transition from the guard, or follow the authority already promoted.
Decide(p) ==
  LET l == loc[p]
      start == [l EXCEPT !.op = "begin", !.guard = cand, !.pin = None, !.n = 0]
  IN  /\ At(p, "decide")
      /\ IF trans # None
           THEN LET s == SnapOf(trans.succ) IN
                IF ~AtLeast(l.obs, s) THEN Fail(p, "restart")
                ELSE IF l.obs # s
                  THEN Go(p, "scan", [l EXCEPT !.op = "replace", !.st = trans, !.pin = None, !.n = 0])
                ELSE IF trans.succ.ready
                  THEN Go(p, "classify", [l EXCEPT !.mode = "promote", !.st = trans, !.pin = s])
                ELSE Go(p, "scan", [l EXCEPT !.op = "append", !.st = trans, !.pin = s,
                                             !.n = trans.succ.through])
         ELSE IF cand # None
           THEN IF target > 1 /\ cand.ready /\ cand.gen = target - 1 /\ cand.head <= l.obs.head
                  THEN Go(p, "scan", start) ELSE Fail(p, "restart")
         ELSE IF canon # None
           THEN IF canon.gen >= target /\ canon = l.obs
                  THEN Go(p, "download", [NoLocal EXCEPT !.bind = canon])
                  ELSE Fail(p, "restart")
         ELSE IF target = 1 THEN Go(p, "scan", start) ELSE Fail(p, "restart")
      /\ UNCHANGED <<relay, store>>

\* The successor holds its first page only, as this process staged it.
FirstPage(p, t, l) ==
  IF t.succ.through = 1 THEN NextPage(p, t.succ, [l EXCEPT !.st = t, !.op = "append"])
                        ELSE Reclassify(p)

\* Mutant: a transition that begins leaves the guard in place.
BeginTransition_KeepsGuard(p) ==
  LET l == loc[p] IN
  /\ At(p, "stage") /\ l.op = "begin"
  /\ IF trans = None /\ AtLeast(l.pin, mark)
       THEN /\ mark' = l.pin
            /\ trans' = [attempt |-> Cardinality(closed) + 1, pred |-> l.guard,
                         succ |-> Pages(l.pin, 1)]
            /\ FirstPage(p, trans', l)
       ELSE Reclassify(p) /\ UNCHANGED <<mark, trans>>
  /\ UNCHANGED <<relay, canon, cand, closed, prog, inbox, pcand, term, facts, tombs>>

\* What a transition may start from: the complete guard that was read, or, for
\* the first member of a channel, a store with no authority at all.
StartsFrom(guard) ==
  IF target = 1 THEN canon = None /\ cand = None /\ prog = None
                ELSE cand # None /\ cand = guard

\* The transition that the same start left.
SameStart(l) == trans # None /\ trans.pred = l.guard /\ SnapOf(trans.succ) = l.pin

\* BeginSyncAuthorityRecoveryTransition: the guard becomes the predecessor of a
\* successor with one page.  The same start again finds what it left.
BeginTransition(p) ==
  LET l == loc[p] IN
  /\ At(p, "stage") /\ l.op = "begin"
  /\ IF pcand = None /\ SameStart(l)
       THEN FirstPage(p, trans, l) /\ UNCHANGED <<mark, cand, trans>>
     ELSE IF pcand = None /\ trans = None /\ StartsFrom(l.guard) /\ AtLeast(l.pin, mark)
       THEN /\ mark' = l.pin
            /\ cand' = None
            /\ trans' = [attempt |-> Cardinality(closed) + 1, pred |-> l.guard,
                         succ |-> Pages(l.pin, 1)]
            /\ FirstPage(p, trans', l)
     ELSE Reclassify(p) /\ UNCHANGED <<mark, cand, trans>>
  /\ UNCHANGED <<relay, canon, closed, prog, inbox, pcand, term, facts, tombs>>

\* The watermark has passed the successor.
Stale(succ) == ~AtLeast(SnapOf(succ), mark)

\* What a replacement of the successor read before left.
SameReplacement(l) ==
  /\ trans # None /\ trans.attempt = l.st.attempt
  /\ SnapOf(trans.succ) = l.pin /\ SnapOf(l.st.succ) # l.pin

\* ReplaceSyncAuthorityRecoverySuccessor: only a successor the watermark has
\* passed is given up, and only for one that is at the watermark.
ReplaceSuccessor(p) ==
  LET l == loc[p] IN
  /\ At(p, "stage") /\ l.op = "replace"
  /\ IF SameReplacement(l)
       THEN FirstPage(p, trans, l) /\ UNCHANGED <<mark, trans>>
     ELSE IF trans # None /\ trans = l.st /\ Stale(trans.succ) /\ AtLeast(l.pin, mark)
       THEN /\ mark' = l.pin
            /\ trans' = [trans EXCEPT !.succ = Pages(l.pin, 1)]
            /\ FirstPage(p, trans', l)
     ELSE Reclassify(p) /\ UNCHANGED <<mark, trans>>
  /\ UNCHANGED <<relay, canon, cand, closed, prog, inbox, pcand, term, facts, tombs>>

\* The attempt read before is active, with the same successor.
SameAttempt(l) ==
  trans # None /\ trans.attempt = l.st.attempt /\ SnapOf(trans.succ) = SnapOf(l.st.succ)

\* AppendVerifiedSyncAuthorityRecoverySuccessorPage: a page the other process
\* staged first is a replay, which counts only if it is still the last one.
AppendSuccessor(p) ==
  LET l == loc[p] IN
  /\ At(p, "stage") /\ l.op = "append"
  /\ IF SameAttempt(l) /\ trans.succ.through = l.n + 1
       THEN NextPage(p, trans.succ, [l EXCEPT !.st = trans]) /\ UNCHANGED trans
     ELSE IF SameAttempt(l) /\ trans.succ.through = l.n /\ mark = l.pin
       THEN /\ trans' = [trans EXCEPT !.succ = Pages(l.pin, l.n + 1)]
            /\ NextPage(p, trans'.succ, [l EXCEPT !.st = trans'])
     ELSE Reclassify(p) /\ UNCHANGED trans
  /\ UNCHANGED <<relay, canon, mark, cand, closed, prog, inbox, pcand, term, facts, tombs>>

\* How an attempt ended, with the snapshot of its successor.
Receipt(a, o, s) == [attempt |-> a, outcome |-> o, snap |-> s]

\* Nothing downloaded, nothing applied.
FreshProgress == [state |-> "staging", applied |-> 0, downloaded |-> 0, head |-> 0]

\* Mutant: a promoted transition is not taken away.
PromoteAuthority_KeepsTransition(p) ==
  LET l == loc[p] IN
  /\ At(p, "promote")
  /\ IF trans # None /\ trans = l.st /\ trans.succ.ready /\ mark = l.pin
       THEN /\ canon' = l.pin
            /\ prog' = FreshProgress
            /\ closed' = closed \cup {Receipt(trans.attempt, "promoted", l.pin)}
            /\ Go(p, "download", [NoLocal EXCEPT !.bind = canon'])
       ELSE Reclassify(p) /\ UNCHANGED <<canon, closed, prog>>
  /\ UNCHANGED <<relay, mark, cand, trans, inbox, pcand, term, facts, tombs>>

\* PromoteSyncAuthorityRecoverySuccessor: the complete successor becomes the
\* canonical authority, with staging progress at zero, if it still is the whole
\* watermark.  An attempt that already ended answers with its receipt.
PromoteAuthority(p) ==
  LET l == loc[p] IN
  /\ At(p, "promote")
  /\ IF Receipt(l.st.attempt, "promoted", l.pin) \in closed
       THEN /\ IF canon = l.pin THEN Go(p, "download", [NoLocal EXCEPT !.bind = canon])
                                ELSE Fail(p, "restart")
            /\ UNCHANGED <<canon, trans, closed, prog>>
     ELSE IF trans # None /\ trans = l.st /\ trans.succ.ready /\ mark = l.pin
             /\ (canon = None => prog = None)
       THEN /\ canon' = l.pin
            /\ trans' = None
            /\ prog' = FreshProgress
            /\ closed' = closed \cup {Receipt(trans.attempt, "promoted", l.pin)}
            /\ Go(p, "download", [NoLocal EXCEPT !.bind = canon'])
     ELSE Reclassify(p) /\ UNCHANGED <<canon, trans, closed, prog>>
  /\ UNCHANGED <<relay, mark, cand, inbox, pcand, term, facts, tombs>>

----------------------------------------------------------------------------
(* Download under the pinned authority. *)

authority == <<canon, cand, trans, closed>>

\* What every store operation under a binding checks: it is still canonical and
\* nothing greater has been seen of the relay.
Fenced(b) == trans = None /\ canon = b /\ mark = b

\* downloadRecoverySnapshot before its first request.
StartDownload(p) ==
  LET l == loc[p] IN
  /\ At(p, "download")
  /\ IF canon # l.bind THEN Fail(p, "retry")
     ELSE IF prog.downloaded = l.bind.head THEN Go(p, "fill", l)
     ELSE Go(p, "fetch", [l EXCEPT !.after = prog.downloaded])
  /\ UNCHANGED <<relay, store>>

\* StageSyncPageUnderAuthority with no frames: everything is already here.
StageNoFrames(p) ==
  LET l == loc[p] IN
  /\ At(p, "fill")
  /\ IF Fenced(l.bind) /\ cand = None
       THEN prog' = [prog EXCEPT !.head = l.bind.head] /\ Go(p, "cutoff", l)
       ELSE Fail(p, "restart") /\ UNCHANGED prog
  /\ UNCHANGED <<relay, authority, mark, inbox, pcand, term, facts, tombs>>

\* Page: one arrival, as the relay holds it now, with the relay's state.
FetchPage(p) ==
  LET l == loc[p] IN
  /\ At(p, "fetch")
  /\ Go(p, "fetched", [l EXCEPT !.obs = Snapshot, !.page = arrivals[l.after + 1]])
  /\ UNCHANGED <<relay, store>>

\* retainAndValidateRecoveryDownloadPageSnapshot: the page must be of the very
\* snapshot that was pinned.  A relay that has moved on is answered "retry".
RetainPage(p) ==
  LET l == loc[p] IN
  /\ At(p, "fetched")
  /\ mark' = Join(mark, l.obs)
  /\ IF mark' # l.obs \/ ~AtLeast(l.obs, l.bind) THEN Fail(p, "restart")
     ELSE IF l.obs = l.bind THEN Go(p, "frame", l)
     ELSE Fail(p, "retry")
  /\ UNCHANGED <<relay, authority, prog, inbox, pcand, term, facts, tombs>>

\* A frame already held, in the inbox or applied, must be the same bytes; a
\* prune that was applied left the digest of its own.
Retainable(i, page) ==
  /\ i \in DOMAIN inbox => inbox[i] = page
  /\ i <= prog.applied => i \in (IF page = "sealed" THEN facts ELSE tombs)

\* StageSyncPageUnderAuthority with the frame that was fetched.
StageFrame(p) ==
  LET l == loc[p]
      i == l.after + 1
      more(d) == IF d = l.bind.head THEN Go(p, "cutoff", l)
                                    ELSE Go(p, "fetch", [l EXCEPT !.after = d])
  IN  /\ At(p, "frame")
      /\ IF ~Fenced(l.bind) \/ cand # None \/ ~Retainable(i, l.page)
           THEN Fail(p, "restart") /\ UNCHANGED <<prog, inbox>>
         ELSE IF prog.downloaded >= i
           THEN /\ prog' = [prog EXCEPT !.head = l.bind.head]
                /\ more(prog.downloaded)
                /\ UNCHANGED inbox
         ELSE /\ prog' = [prog EXCEPT !.downloaded = i, !.head = l.bind.head]
              /\ inbox' = [k \in DOMAIN inbox \cup {i} |-> IF k = i THEN l.page ELSE inbox[k]]
              /\ more(i)
      /\ UNCHANGED <<relay, authority, mark, pcand, term, facts, tombs>>

----------------------------------------------------------------------------
(* The prune inventory and the terminal history. *)

\* recoveryAttachProgressAtCutoff
AtCutoff(b) == prog.applied = b.head /\ prog.downloaded = b.head /\ prog.head = b.head

\* activateConcurrentRecoveryPromotion: a step another process overtook goes on
\* to the activation; any other failure ends the attempt.
OvertakenOr(p, action) ==
  IF AtCutoff(loc[p].bind) THEN Go(p, "activate", loc[p]) ELSE Fail(p, action)

\* AttachPreparedRecovery after the download.
Cutoff(p) ==
  LET l == loc[p] IN
  /\ At(p, "cutoff")
  /\ IF AtCutoff(l.bind) THEN Go(p, "activate", l)
     ELSE IF term = None THEN Go(p, "preflight", l)
     ELSE IF term.auth # l.bind \/ term.start - 1 # prog.applied THEN Fail(p, "restart")
     ELSE IF ~Ready(pcand) \/ pcand.auth # l.bind THEN Fail(p, "repair")
     ELSE Go(p, "revalidate", [l EXCEPT !.pr = pcand, !.after = prog.applied])
  /\ UNCHANGED <<relay, store>>

\* revalidateRecoveryAttachPruneInventory: the relay still lists exactly the
\* prunes the terminal history was staged under.  (One request stands for the
\* pages of the scan.)
Revalidate(p) ==
  LET l == loc[p] IN
  /\ At(p, "revalidate")
  /\ IF Snapshot = l.bind /\ Len(prunes) = l.pr.head /\ pcand = l.pr
       THEN Go(p, "chunk", l) ELSE Fail(p, "restart")
  /\ UNCHANGED <<relay, store>>

\* requireExactSyncRecoveryPruneSnapshotFenceV1 and the checks around it.
PruneFence(b) ==
  /\ Fenced(b) /\ cand = None /\ term = None
  /\ prog.state = "staging" /\ prog.downloaded = b.head /\ prog.head = b.head

\* VerifySyncRecoveryPrunePreflight
Preflight(p) ==
  LET l == loc[p] IN
  /\ At(p, "preflight")
  /\ IF pcand # None /\ pcand.auth # l.bind THEN OvertakenOr(p, "restart")
     ELSE IF PruneFence(l.bind) THEN Go(p, "prunes", [l EXCEPT !.pr = pcand, !.n = 0])
     ELSE OvertakenOr(p, "retry")
  /\ UNCHANGED <<relay, store>>

\* scanRecoveryPruneInventory: the first page fixes the relay's last prune; a
\* candidate kept from before must be of the same inventory, and its pages are
\* read again and compared before the scan goes on.
PrunePage(p) ==
  LET l == loc[p] IN
  /\ At(p, "prunes")
  /\ IF l.n = 0 /\ Snapshot # l.bind THEN OvertakenOr(p, "restart")
     ELSE IF l.n > 0 /\ Len(members) # l.bind.gen THEN OvertakenOr(p, "retry")
     ELSE IF l.n = 0 /\ l.pr # None
       THEN IF Len(prunes) # l.pr.head \/ pcand # l.pr THEN OvertakenOr(p, "restart")
            ELSE IF l.pr.ready THEN Go(p, "chunk", [l EXCEPT !.after = prog.applied])
            ELSE Go(p, "stageprune", [l EXCEPT !.n = l.pr.through + 1, !.upto = l.pr.head])
     ELSE Go(p, "stageprune", [l EXCEPT !.n = l.n + 1,
                                        !.upto = IF l.n = 0 THEN Len(prunes) ELSE l.upto])
  /\ UNCHANGED <<relay, store>>

\* The candidate after the page just read.
PruneCandidate(l) ==
  [auth |-> l.bind, head |-> l.upto, through |-> IF l.upto = 0 THEN 0 ELSE l.n,
   ready |-> l.n >= l.upto]

\* StageVerifiedSyncRecoveryPruneCandidatePage: compare and swap on the last
\* checkpoint; a page the other process staged first is a replay.  The page of
\* an empty inventory is its last one.
StagePrune(p) ==
  LET l    == loc[p]
      next == PruneCandidate(l)
      go   == IF next.ready THEN Go(p, "chunk", [l EXCEPT !.pr = next, !.after = prog.applied])
                            ELSE Go(p, "prunes", [l EXCEPT !.pr = next])
  IN  /\ At(p, "stageprune")
      /\ IF PruneFence(l.bind) /\ prog.applied < l.bind.head /\ pcand = next
           THEN go /\ UNCHANGED pcand
         ELSE IF PruneFence(l.bind) /\ prog.applied < l.bind.head /\ pcand = l.pr
           THEN pcand' = next /\ go
         ELSE OvertakenOr(p, "retry") /\ UNCHANGED pcand
      /\ UNCHANGED <<relay, authority, mark, prog, inbox, term, facts, tombs>>

\* What the prune inventory makes of a frame: its target, or an envelope.
ListedAs(i) == IF i \in Targets(pcand.head) THEN "pruned" ELSE "sealed"

\* The frame is the first after what is applied, or is in or right after what
\* the terminal candidate holds.
Extends(b, i) ==
  IF term = None THEN i = prog.applied + 1
  ELSE term.auth = b /\ term.start - 1 = prog.applied /\ i <= term.through + 1

\* The terminal candidate with the frame; one it has already is a replay.
TerminalWith(b, i) ==
  IF term = None THEN [auth |-> b, start |-> i, through |-> i]
  ELSE IF i <= term.through THEN term ELSE [term EXCEPT !.through = i]

\* StageVerifiedRecoveryTerminalCandidateChunk on the next staged frame: a
\* pruned one must be a target of the inventory, a sealed one must not.
StageChunk(p) ==
  LET l == loc[p]
      i == l.after + 1
      exact == Ready(pcand) /\ pcand = l.pr
  IN  /\ At(p, "chunk") /\ l.after < l.bind.head
      /\ IF l.after < prog.applied THEN Fail(p, "retry") /\ UNCHANGED term
         ELSE IF ~Fenced(l.bind) \/ ~exact \/ prog.head # l.bind.head
           THEN OvertakenOr(p, "retry") /\ UNCHANGED term
         ELSE IF inbox[i] # ListedAs(i) \/ ~Extends(l.bind, i)
           THEN OvertakenOr(p, "restart") /\ UNCHANGED term
         ELSE /\ term' = TerminalWith(l.bind, i)
              /\ Go(p, "chunk", [l EXCEPT !.after = i])
      /\ UNCHANGED <<relay, authority, mark, prog, inbox, pcand, facts, tombs>>

\* The staged frames of a kind.
Staged(kind) == {i \in DOMAIN inbox : inbox[i] = kind}

\* The candidate is the rest of the pinned prefix, all of it downloaded.
CoversPrefix ==
  /\ term.through = canon.head /\ prog.downloaded = canon.head
  /\ prog.head = canon.head /\ prog.applied = term.start - 1

\* The pruned frames are the targets of the complete prune inventory.
PrunesAreExact ==
  /\ Ready(pcand) /\ pcand.auth = canon
  /\ Staged("pruned") \cap (term.start .. term.through) = Targets(pcand.head)

\* Mutant: a pruned frame becomes a fact as well.
ApplyTerminal_PrunedToo ==
  /\ facts' = facts \cup DOMAIN inbox
  /\ tombs' = tombs \cup Staged("pruned")
  /\ inbox' = << >>
  /\ term' = None
  /\ pcand' = None
  /\ prog' = [prog EXCEPT !.applied = term.through]

\* Mutant: the prune candidate outlives the promotion it was for.
ApplyTerminal_KeepsPrunes ==
  /\ facts' = facts \cup Staged("sealed")
  /\ tombs' = tombs \cup Staged("pruned")
  /\ inbox' = << >>
  /\ term' = None
  /\ prog' = [prog EXCEPT !.applied = term.through]
  /\ UNCHANGED pcand

\* Facts and tombstones in, everything staged out.
ApplyTerminal ==
  /\ facts' = facts \cup Staged("sealed")
  /\ tombs' = tombs \cup Staged("pruned")
  /\ inbox' = << >>
  /\ term' = None
  /\ pcand' = None
  /\ prog' = [prog EXCEPT !.applied = term.through]

\* PromoteTerminalCandidate: the whole history becomes facts and tombstones in
\* one transaction, at the pinned cutoff and under the pinned prune inventory,
\* of which every target must be in it.  The same checkpoint again finds its
\* receipt.
PromoteTerminal(p) ==
  LET l == loc[p] IN
  /\ At(p, "chunk") /\ l.after = l.bind.head
  /\ IF term = None /\ AtCutoff(l.bind)
       THEN Go(p, "activate", l) /\ UNCHANGED <<prog, inbox, pcand, term, facts, tombs>>
     ELSE IF term # None /\ Fenced(term.auth) /\ CoversPrefix /\ PrunesAreExact
             /\ facts \cup Staged("sealed") # {}
       THEN ApplyTerminal /\ Go(p, "activate", l)
     ELSE /\ OvertakenOr(p, IF trans # None \/ term = None \/ mark # canon
                            THEN "retry" ELSE "restart")
          /\ UNCHANGED <<prog, inbox, pcand, term, facts, tombs>>
  /\ UNCHANGED <<relay, authority, mark>>

\* Mutant: the channel is activated whatever has been seen of the relay since.
Activate_AnyWatermark(p) ==
  /\ At(p, "activate")
  /\ IF canon = loc[p].bind /\ AtCutoff(loc[p].bind)
       THEN prog' = [prog EXCEPT !.state = "attached"] /\ Fail(p, "none")
       ELSE Fail(p, "retry") /\ UNCHANGED prog
  /\ UNCHANGED <<relay, authority, mark, inbox, pcand, term, facts, tombs>>

\* ActivateStagedSync
Activate(p) ==
  LET l == loc[p] IN
  /\ At(p, "activate")
  /\ IF Fenced(l.bind) /\ AtCutoff(l.bind) /\ pcand = None /\ term = None /\ cand = None
          /\ DOMAIN inbox = {} /\ facts # {}
       THEN /\ prog' = [prog EXCEPT !.state = "attached"]
            /\ pc' = [pc EXCEPT ![p] = "idle"]
            /\ loc' = [loc EXCEPT ![p] = NoLocal]
            /\ problem' = [problem EXCEPT ![p] = "none"]
       ELSE /\ Fail(p, IF trans # None \/ canon # l.bind \/ pcand # None \/ term # None
                       THEN "retry" ELSE "repair")
            /\ UNCHANGED prog
  /\ UNCHANGED <<relay, authority, mark, inbox, pcand, term, facts, tombs>>

----------------------------------------------------------------------------
(* Faults, and what an operator may give up. *)

Fault == faults < bound.faults /\ faults' = faults + 1 /\ UNCHANGED <<bound, target, prepares>>

\* A process stops anywhere; what it had read is lost.
Crash(p) ==
  /\ Fault /\ pc[p] # "idle"
  /\ pc' = [pc EXCEPT ![p] = "idle"]
  /\ loc' = [loc EXCEPT ![p] = NoLocal]
  /\ UNCHANGED <<relay, store, problem>>

\* The registration is made and its answer is lost.
RegistrationLost(p) ==
  /\ Fault /\ pc[p] = "register" /\ ~Registered /\ Len(members) = target - 1
  /\ members' = Append(members, [kind |-> "join", env |-> Writer])
  /\ Fail(p, "retry")
  /\ UNCHANGED <<arrivals, prunes, store>>

\* DiscardSyncAuthorityCandidate
DiscardAuthorityCandidate ==
  /\ Fault /\ cand # None /\ trans = None /\ pcand = None
  /\ cand' = None
  /\ UNCHANGED <<relay, canon, mark, trans, closed, prog, inbox, pcand, term, facts, tombs, procs>>

\* AbortSyncAuthorityRecoveryTransition: a successor that is not complete is
\* given up and its predecessor is an ordinary candidate again.
AbortTransition ==
  /\ Fault /\ trans # None /\ ~trans.succ.ready
  /\ closed' = closed \cup {Receipt(trans.attempt, "aborted", SnapOf(trans.succ))}
  /\ trans' = None
  /\ cand' = trans.pred
  /\ UNCHANGED <<relay, canon, mark, prog, inbox, pcand, term, facts, tombs, procs>>

\* DiscardSyncRecoveryPruneCandidate
DiscardPruneCandidate ==
  /\ Fault /\ pcand # None /\ term = None /\ trans = None
  /\ pcand' = None
  /\ UNCHANGED <<relay, canon, mark, cand, trans, closed, prog, inbox, term, facts, tombs, procs>>

\* DiscardTerminalCandidate
DiscardTerminalCandidate ==
  /\ Fault /\ term # None
  /\ term' = None
  /\ UNCHANGED <<relay, canon, mark, cand, trans, closed, prog, inbox, pcand, facts, tombs, procs>>

----------------------------------------------------------------------------
\* The channel starts with some members and arrivals, none of them this writer.
Init ==
  /\ bound \in Bounds
  /\ members = [k \in 1 .. bound.first |-> [kind |-> "join", env |-> k]]
  /\ arrivals = [k \in 1 .. (IF bound.first = 0 THEN 0 ELSE 1) |-> "sealed"]
  /\ prunes = << >>
  /\ target = 0
  /\ canon = None /\ mark = NoSnap /\ cand = None /\ trans = None /\ closed = {}
  /\ prog = None /\ inbox = << >> /\ pcand = None /\ term = None
  /\ facts = {} /\ tombs = {}
  /\ pc = [p \in Procs |-> "idle"]
  /\ loc = [p \in Procs |-> NoLocal]
  /\ problem = [p \in Procs |-> "none"]
  /\ faults = 0 /\ prepares = 0

RelayMoves == OtherJoins \/ OtherRetires \/ OtherAppends \/ OtherPrunes

Step(p) ==
  \/ Classify(p) \/ RetainObservation(p) \/ StartGuard(p) \/ Scan(p) \/ NotePage(p)
  \/ StageGuardPage(p) \/ RegisterEnvironment(p) \/ RetainRegistration(p) \/ Decide(p)
  \/ BeginTransition(p) \/ ReplaceSuccessor(p) \/ AppendSuccessor(p) \/ PromoteAuthority(p)
  \/ StartDownload(p) \/ StageNoFrames(p) \/ FetchPage(p) \/ RetainPage(p) \/ StageFrame(p)
  \/ Cutoff(p) \/ Revalidate(p) \/ Preflight(p) \/ PrunePage(p) \/ StagePrune(p)
  \/ StageChunk(p) \/ PromoteTerminal(p) \/ Activate(p)

Faults ==
  \/ \E p \in Procs : Crash(p) \/ RegistrationLost(p)
  \/ DiscardAuthorityCandidate \/ AbortTransition
  \/ DiscardPruneCandidate \/ DiscardTerminalCandidate

Next == RelayMoves \/ PrepareRecovery \/ (\E p \in Procs : Attach(p) \/ Step(p)) \/ Faults

Spec == Init /\ [][Next]_vars

\* A caller that has been told to try again does, and a process that runs
\* takes its next step.
Fairness ==
  /\ WF_vars(PrepareRecovery)
  /\ \A p \in Procs : WF_vars(Attach(p)) /\ WF_vars(Step(p))

LiveSpec == Spec /\ Fairness

----------------------------------------------------------------------------
(* What recovery promises. *)

\* A transition under way is the whole of the store's authority: nothing else
\* is pinned or staged beside it, it rests on the complete list of the
\* generation before ours (or on an empty channel), its successor is no older
\* than that, holds our registration and is covered by the watermark.  A store
\* that reads anything else calls itself corrupt
\* (readAndValidateSyncAuthorityRecoveryStateV1).
TransitionCoherent ==
  trans # None =>
    /\ canon = None /\ cand = None /\ prog = None /\ pcand = None
    /\ (trans.pred = None) = (target = 1)
    /\ trans.pred # None => /\ trans.pred.ready /\ trans.pred.gen = target - 1
                            /\ AtLeast(SnapOf(trans.succ), SnapOf(trans.pred))
    /\ Registered /\ trans.succ.gen >= target
    /\ AtLeast(mark, SnapOf(trans.succ))

\* An attempt ends once, in one way; one attempt at most is promoted, and its
\* snapshot is the canonical authority (the terminal receipts of
\* PromoteSyncAuthorityRecoverySuccessor and AbortSyncAuthorityRecoveryTransition).
OneOutcome ==
  /\ \A a, b \in closed : a.attempt = b.attempt => a = b
  /\ \A a, b \in closed : a.outcome = "promoted" /\ b.outcome = "promoted" => a = b
  /\ \A a \in closed : a.outcome = "promoted" => canon = a.snap
  /\ canon # None => \E a \in closed : a.outcome = "promoted"
  /\ trans # None => \A a \in closed : a.attempt # trans.attempt

\* The store never knows less of the relay than it did, nor more than there is,
\* and everything it has staged or pinned is within what it knows: two
\* processes that classify at different times cannot take the store back.
WatermarkCovers ==
  /\ AtLeast(Snapshot, mark)
  /\ canon # None => AtLeast(mark, canon)
  /\ cand # None => AtLeast(mark, SnapOf(cand))
  /\ prog # None => canon # None /\ prog.applied <= prog.downloaded
                    /\ prog.downloaded <= canon.head /\ DOMAIN inbox = prog.applied + 1 .. prog.downloaded

\* "No canonical fact changes until the complete terminal candidate promotes":
\* facts and tombstones change once, from nothing to the whole retained prefix,
\* and what the prune inventory lists comes in as a tombstone, never as a fact.
HistoryIsExact ==
  [][<<facts, tombs>>' # <<facts, tombs>> =>
       /\ facts = {} /\ tombs = {} /\ ~Attached
       /\ facts' \cap tombs' = {}
       /\ facts' \cup tombs' = 1 .. canon.head
       /\ tombs' = Targets(pcand.head)]_vars

\* The channel becomes active only when nothing newer is known of the relay
\* than the authority that was applied, nothing is left staged and the whole
\* prefix is here, whichever process gets there first; and the watermark this is
\* judged by is never taken back.
ActivatesAtWatermark ==
  /\ []WatermarkCovers
  /\ [][Attached' /\ ~Attached =>
          /\ mark = canon /\ canon.gen >= target /\ Registered
          /\ facts \cup tombs = 1 .. canon.head
          /\ cand = None /\ trans = None /\ pcand = None /\ term = None]_vars

\* What the relay holds is still what the store pinned and staged.
Undisturbed ==
  /\ canon # None /\ canon = Snapshot /\ canon.gen >= target
  /\ \A i \in DOMAIN inbox : inbox[i] = arrivals[i]
  /\ pcand # None => pcand.head = Len(prunes)
  /\ \E i \in DOMAIN arrivals : arrivals[i] = "sealed"

\* Once an authority is pinned, and the channel rests, the processes that keep
\* trying get the store attached, whatever stopped before.
Attaches == <>[]Undisturbed => <>Attached

\* "retry" is an action after which a caller may succeed: one that is told
\* nothing else and keeps calling attaches in the end.
RetryConverges ==
  <>[](\A p \in Procs : problem[p] \in {"none", "retry"}) /\ <>[](target # 0) => <>Attached
=============================================================================
