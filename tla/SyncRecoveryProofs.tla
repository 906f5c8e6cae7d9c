------------------------- MODULE SyncRecoveryProofs -------------------------
(***************************************************************************)
(* What vNext recovery guarantees for any number of processes, membership  *)
(* events, arrivals, prunes, faults and prepared credentials.              *)
(* RecoveryInv is inductive: what the store holds (StoreSound) and what a  *)
(* process still knows when it uses it (LocalOK).                          *)
(*                                                                         *)
(* The repairs of a database and their rollback (StateRepairs): RepairInv  *)
(* says that a repair has moved to its manifest what it took away, at      *)
(* every point of it.                                                      *)
(*                                                                         *)
(* Scratchpad channels (Scratchpad): PadInv says that a fact that arrived  *)
(* is the one its environment wrote, that an environment numbers its facts *)
(* once, and that a message comes after an introduction where it was       *)
(* written.                                                                *)
(***************************************************************************)
EXTENDS SyncRecovery, StateRepairs, Scratchpad, ListFacts

----------------------------------------------------------------------------
(* The inductive invariant. *)

IsSnap(s) == s = Snap(s.gen, s.head) /\ s.gen \in Nat /\ s.head \in Nat

\* A state the relay has been in.
Known(s) == IsSnap(s) /\ AtLeast(Snapshot, s)

RelaySound ==
  /\ members \in Seq({members[k] : k \in DOMAIN members})
  /\ arrivals \in Seq({"sealed", "pruned"})
  /\ target \in Nat
  /\ Known(mark)

\* A candidate or a successor is of a snapshot within the watermark.
Within(c) == c.gen \in Nat /\ c.head \in Nat /\ AtLeast(mark, SnapOf(c))

\* The list of the generation before ours, which a transition rests on.
Rests(c) == c.ready /\ c.gen = target - 1

AuthoritySound ==
  /\ canon # None => /\ IsSnap(canon) /\ AtLeast(mark, canon)
                     /\ canon.gen >= target /\ Registered /\ prog # None
  /\ canon = None => prog = None
  /\ cand # None => Within(cand) /\ canon = None
  /\ trans # None => /\ DOMAIN trans = {"attempt", "pred", "succ"}
                     /\ canon = None /\ cand = None /\ pcand = None
                     /\ Within(trans.succ) /\ trans.succ.gen >= target /\ Registered
                     /\ (trans.pred = None) <=> (target = 1)
                     /\ trans.pred # None =>
                          /\ Within(trans.pred) /\ Rests(trans.pred)
                          /\ AtLeast(SnapOf(trans.succ), SnapOf(trans.pred))

\* Receipts are numbered; the attempt under way has the next number.
ReceiptsSound ==
  /\ IsFiniteSet(closed)
  /\ \A a \in closed : a.attempt \in 1 .. Cardinality(closed) /\ IsSnap(a.snap)
  /\ trans # None => trans.attempt = Cardinality(closed) + 1
  /\ OneOutcome

\* Progress counts the frames of the pinned prefix: applied all at once, and the rest
\* of what was downloaded waiting in the inbox.
HistorySound ==
  /\ \A i \in DOMAIN inbox : inbox[i] \in {"sealed", "pruned"}
  /\ prog = None => facts = {} /\ tombs = {} /\ DOMAIN inbox = {}
  /\ prog # None =>
       /\ DOMAIN prog = {"state", "applied", "downloaded", "head"}
       /\ prog.applied \in Nat /\ prog.downloaded \in Nat
       /\ prog.applied <= prog.downloaded /\ prog.downloaded <= canon.head
       /\ DOMAIN inbox = prog.applied + 1 .. prog.downloaded
       /\ facts \cup tombs = 1 .. prog.applied
       /\ prog.applied = 0 \/ prog.applied = canon.head
       /\ prog.state = "attached" => prog.applied # 0
  /\ term # None =>
       /\ DOMAIN term = {"auth", "start", "through"}
       /\ term.start \in Nat /\ term.through \in Nat
       /\ 1 <= term.start /\ term.start <= term.through

StoreSound == RelaySound /\ AuthoritySound /\ ReceiptsSound /\ HistorySound

Fields == {"mode", "obs", "reg", "guard", "op", "pin", "n", "st", "bind", "page", "after",
           "pr", "upto", "tries"}

Downloading == {"download", "fill", "fetch", "fetched", "frame", "cutoff", "preflight",
                "revalidate", "prunes", "stageprune", "chunk", "activate"}

\* The guard a transition is to begin from, read before the scan.
GuardFits(l) ==
  IF target = 1 THEN l.guard = None
  ELSE /\ l.guard # None /\ Rests(l.guard)
       /\ l.guard.gen \in Nat /\ l.guard.head \in Nat /\ l.guard.head <= l.obs.head

\* What a process has read was so.
Read(l) ==
  /\ DOMAIN l = Fields
  /\ l.mode \in {"first", "final", "converge", "promote"}
  /\ Known(l.obs)
  /\ l.pin # None => Known(l.pin)
  /\ l.reg => Registered

\* What a process at a step may rely on of it.
LocalOK(s, l) ==
  /\ Read(l)
  /\ s = "decide" => l.obs.gen >= target /\ Registered
  /\ s \in {"scan", "note", "stage"} /\ l.op \in {"begin", "replace"} =>
       /\ l.obs.gen >= target /\ Registered
       /\ l.op = "begin" => GuardFits(l)
  /\ s \in {"note", "stage"} => l.pin # None /\ (l.op # "append" => AtLeast(l.pin, l.obs))
  /\ s \in Downloading => canon # None /\ l.bind = canon
  /\ s \in {"fetch", "fetched", "frame"} =>
       l.after \in Nat /\ l.after < canon.head /\ l.after <= prog.downloaded
  /\ s \in {"fetched", "frame"} => l.page \in {"sealed", "pruned"}
  /\ s \in {"chunk", "revalidate"} => l.after \in Nat

LocalsSound ==
  /\ DOMAIN pc = Procs /\ DOMAIN loc = Procs
  /\ \A p \in Procs : LocalOK(pc[p], loc[p])

RecoveryInv == StoreSound /\ LocalsSound

----------------------------------------------------------------------------
(* Snapshots. *)

LEMMA SnapFacts ==
  /\ \A g, h \in Nat : IsSnap(Snap(g, h)) /\ Snap(g, h).gen = g /\ Snap(g, h).head = h
  /\ \A s : IsSnap(s) => s # None
<1>1. \A g, h \in Nat : IsSnap(Snap(g, h)) /\ Snap(g, h).gen = g /\ Snap(g, h).head = h
  BY DEF IsSnap, Snap
<1>2. ASSUME NEW s, IsSnap(s) PROVE s # None
  <2>1. DOMAIN s = {"gen", "head"}
    BY <1>2 DEF IsSnap, Snap
  <2>2. DOMAIN None = {"none"}
    BY DEF None
  <2> QED BY <2>1, <2>2
<1> QED BY <1>1, <1>2

\* The relay's state is one.
LEMMA SnapshotKnown ==
  ASSUME RelaySound
  PROVE  /\ Known(Snapshot) /\ Known(NoSnap) /\ Len(members) \in Nat /\ Len(arrivals) \in Nat
         /\ Snapshot.gen = Len(members) /\ Snapshot.head = Len(arrivals)
<1>1. Len(members) \in Nat /\ Len(arrivals) \in Nat
  BY DEF RelaySound
<1>2. /\ IsSnap(Snapshot) /\ Snapshot.gen = Len(members) /\ Snapshot.head = Len(arrivals)
  BY <1>1, SnapFacts DEF Snapshot
<1>3. IsSnap(NoSnap) /\ NoSnap.gen = 0 /\ NoSnap.head = 0
  BY SnapFacts DEF NoSnap
<1> QED BY <1>1, <1>2, <1>3 DEF Known, AtLeast

\* The join of two known states is known and is at least both.
LEMMA JoinKnown ==
  ASSUME RelaySound, NEW s, Known(s)
  PROVE  Known(Join(mark, s)) /\ AtLeast(Join(mark, s), mark) /\ AtLeast(Join(mark, s), s)
<1>1. /\ mark.gen \in Nat /\ mark.head \in Nat /\ s.gen \in Nat /\ s.head \in Nat
      /\ AtLeast(Snapshot, mark) /\ AtLeast(Snapshot, s)
  BY DEF RelaySound, Known, IsSnap
<1> DEFINE g == IF mark.gen > s.gen THEN mark.gen ELSE s.gen
           h == IF mark.head > s.head THEN mark.head ELSE s.head
<1>2. /\ g \in Nat /\ h \in Nat
      /\ g >= mark.gen /\ g >= s.gen /\ h >= mark.head /\ h >= s.head
      /\ Snapshot.gen >= g /\ Snapshot.head >= h
  BY <1>1 DEF AtLeast
<1>3. Join(mark, s) = Snap(g, h)
  BY DEF Join
<1> HIDE DEF g, h
<1>4. /\ IsSnap(Snap(g, h)) /\ Snap(g, h).gen = g /\ Snap(g, h).head = h
  BY <1>2, SnapFacts
<1> QED BY <1>2, <1>3, <1>4 DEF Known, AtLeast

\* Being at least is transitive.
LEMMA AtLeastTrans ==
  ASSUME NEW a, NEW b, NEW c, a.gen \in Nat, a.head \in Nat, b.gen \in Nat, b.head \in Nat,
         c.gen \in Nat, c.head \in Nat, AtLeast(a, b), AtLeast(b, c)
  PROVE  AtLeast(a, c)
BY DEF AtLeast

\* The snapshot of a list's pages, and of a candidate.
LEMMA SnapOfFacts ==
  /\ \A c : SnapOf(c).gen = c.gen /\ SnapOf(c).head = c.head
  /\ \A s, n : /\ Pages(s, n).gen = s.gen /\ Pages(s, n).head = s.head
               /\ DOMAIN Pages(s, n) = {"gen", "head", "through", "ready"}
               /\ Pages(s, n) # None
<1>1. \A c : SnapOf(c).gen = c.gen /\ SnapOf(c).head = c.head
  BY DEF SnapOf, Snap
<1>2. \A s, n : /\ Pages(s, n).gen = s.gen /\ Pages(s, n).head = s.head
                /\ DOMAIN Pages(s, n) = {"gen", "head", "through", "ready"}
  BY DEF Pages
<1>3. DOMAIN None = {"none"}
  BY DEF None
<1>4. \A s, n : Pages(s, n) # None
  BY <1>2, <1>3
<1> QED BY <1>1, <1>2, <1>4

----------------------------------------------------------------------------
(* What every step keeps for the processes. *)

\* The relay grows, the credential stays, an authority once pinned stays, and nothing
\* downloaded is given up.
Forward ==
  /\ Snapshot'.gen \in Nat /\ Snapshot'.head \in Nat
  /\ Snapshot.gen \in Nat /\ Snapshot.head \in Nat
  /\ AtLeast(Snapshot', Snapshot)
  /\ Registered => Registered'
  /\ target' = target
  /\ canon # None => canon' = canon
  /\ canon # None => /\ prog.downloaded \in Nat /\ prog'.downloaded \in Nat
                     /\ prog.downloaded <= prog'.downloaded

\* What a process relies on survives the steps of others.
LEMMA Carried ==
  ASSUME NEW s, NEW l, LocalOK(s, l), Forward
  PROVE  LocalOK(s, l)'
<1>1. \A x : Known(x) => Known(x)'
  BY DEF Known, IsSnap, Forward, AtLeast
<1>2. GuardFits(l) => GuardFits(l)'
  BY DEF GuardFits, Rests, Forward
<1>3. /\ Read(l)'
      /\ s = "decide" => l.obs.gen >= target' /\ Registered'
      /\ s \in {"scan", "note", "stage"} /\ l.op \in {"begin", "replace"} =>
           /\ l.obs.gen >= target' /\ Registered'
           /\ l.op = "begin" => GuardFits(l)'
      /\ s \in {"note", "stage"} => l.pin # None /\ (l.op # "append" => AtLeast(l.pin, l.obs))
  BY <1>1, <1>2 DEF LocalOK, Read, Forward
<1>4. /\ s \in Downloading => canon' # None /\ l.bind = canon'
      /\ s \in {"fetched", "frame"} => l.page \in {"sealed", "pruned"}
      /\ s \in {"chunk", "revalidate"} => l.after \in Nat
  BY DEF LocalOK, Forward
<1>5. s \in {"fetch", "fetched", "frame"} =>
        l.after \in Nat /\ l.after < canon'.head /\ l.after <= prog'.downloaded
  <2> SUFFICES ASSUME s \in {"fetch", "fetched", "frame"}
               PROVE  l.after \in Nat /\ l.after < canon'.head /\ l.after <= prog'.downloaded
    OBVIOUS
  <2>1. canon # None /\ l.after \in Nat /\ l.after < canon.head /\ l.after <= prog.downloaded
    BY DEF LocalOK, Downloading
  <2> QED BY <2>1 DEF Forward
<1> QED BY <1>3, <1>4, <1>5 DEF LocalOK, AtLeast

\* A process that has been told of a problem starts from nothing.
LEMMA IdleOK == RelaySound => LocalOK("idle", NoLocal)
<1> SUFFICES ASSUME RelaySound PROVE LocalOK("idle", NoLocal)
  OBVIOUS
<1>1. Known(NoSnap)
  BY SnapshotKnown
<1> QED BY <1>1 DEF LocalOK, Read, NoLocal, Fields, Downloading

\* One process moves on, to a step and to what it now holds.
LEMMA LocalsMove ==
  ASSUME LocalsSound, Forward, NEW p \in Procs, NEW s, NEW l, Go(p, s, l), LocalOK(s, l)'
  PROVE  LocalsSound'
<1>1. /\ DOMAIN pc' = Procs /\ DOMAIN loc' = Procs /\ pc'[p] = s /\ loc'[p] = l
      /\ \A q \in Procs : q # p => pc'[q] = pc[q] /\ loc'[q] = loc[q]
  BY DEF LocalsSound, Go
<1>2. ASSUME NEW q \in Procs PROVE LocalOK(pc[q], loc[q])'
  <2>1. CASE q = p
    BY <1>1, <2>1 DEF LocalOK, Read
  <2>2. CASE q # p
    <3>1. PICK t, m : t = pc[q] /\ m = loc[q]
      OBVIOUS
    <3>2. LocalOK(t, m)'
      BY <3>1, Carried DEF LocalsSound
    <3> QED BY <1>1, <2>2, <3>1, <3>2 DEF LocalOK, Read
  <2> QED BY <2>1, <2>2
<1> QED BY <1>1, <1>2 DEF LocalsSound

LEMMA LocalsStay ==
  ASSUME LocalsSound, Forward, UNCHANGED <<pc, loc>>
  PROVE  LocalsSound'
<1>1. ASSUME NEW q \in Procs PROVE LocalOK(pc[q], loc[q])'
  <2>1. PICK t, m : t = pc[q] /\ m = loc[q]
    OBVIOUS
  <2>2. LocalOK(t, m)'
    BY <2>1, Carried DEF LocalsSound
  <2> QED BY <2>1, <2>2 DEF LocalOK, Read
<1> QED BY <1>1 DEF LocalsSound

----------------------------------------------------------------------------
(* Where a process may go. *)

\* A process goes on with what it may rely on, or its attempt ends.
Outcome(p) ==
  \/ \E s, l : Go(p, s, l) /\ LocalOK(s, l)
  \/ \E a : Fail(p, a)

LEMMA OutcomeSound ==
  ASSUME LocalsSound, RelaySound, Forward, NEW p \in Procs, Outcome(p)
  PROVE  LocalsSound'
<1>1. CASE \E s, l : Go(p, s, l) /\ LocalOK(s, l)
  <2>1. PICK s, l : Go(p, s, l) /\ LocalOK(s, l)
    BY <1>1
  <2> QED BY <2>1, Carried, LocalsMove
<1>2. CASE \E a : Fail(p, a)
  <2>1. /\ pc' = [pc EXCEPT ![p] = "idle"] /\ loc' = [loc EXCEPT ![p] = NoLocal]
    BY <1>2 DEF Fail
  <2>2. PICK s, l : s = "idle" /\ l = NoLocal
    OBVIOUS
  <2>3. LocalOK(s, l)'
    BY <2>2, IdleOK, Carried
  <2>4. /\ DOMAIN pc' = Procs /\ DOMAIN loc' = Procs /\ pc'[p] = s /\ loc'[p] = l
        /\ \A q \in Procs : q # p => pc'[q] = pc[q] /\ loc'[q] = loc[q]
    BY <2>1, <2>2 DEF LocalsSound
  <2>5. ASSUME NEW q \in Procs PROVE LocalOK(pc[q], loc[q])'
    <3>1. CASE q = p
      BY <2>3, <2>4, <3>1 DEF LocalOK, Read
    <3>2. CASE q # p
      <4>1. PICK t, m : t = pc[q] /\ m = loc[q]
        OBVIOUS
      <4>2. LocalOK(t, m)'
        BY <4>1, Carried DEF LocalsSound
      <4> QED BY <2>4, <3>2, <4>1, <4>2 DEF LocalOK, Read
    <3> QED BY <3>1, <3>2
  <2> QED BY <2>4, <2>5 DEF LocalsSound
<1> QED BY <1>1, <1>2 DEF Outcome

\* Steps at which a process relies on nothing but what it has read.
LEMMA PlainOK ==
  ASSUME NEW l, Read(l), NEW s \in {"classify", "retain", "guard", "register", "registered", "promote"}
  PROVE  LocalOK(s, l)
BY DEF LocalOK, Downloading

\* A fresh start, for the authority or for the download.
LEMMA FreshRead ==
  ASSUME RelaySound
  PROVE  /\ \A m \in {"first", "final", "converge", "promote"} :
              Read([NoLocal EXCEPT !.mode = m]) /\ Read([NoLocal EXCEPT !.mode = m, !.tries = 1])
         /\ Read(NoLocal)
         /\ \A b : /\ Read([NoLocal EXCEPT !.bind = b])
                   /\ [NoLocal EXCEPT !.bind = b].bind = b
<1>1. Known(NoSnap)
  BY SnapshotKnown
<1> QED BY <1>1 DEF Read, NoLocal, Fields

LEMMA ReclassifyOutcome ==
  ASSUME RelaySound, NEW p \in Procs, Reclassify(p)
  PROVE  Outcome(p)
<1>1. CASE loc[p].tries = 0
  <2> DEFINE l == [NoLocal EXCEPT !.mode = "converge", !.tries = 1]
  <2>1. LocalOK("classify", l)
    BY FreshRead, PlainOK
  <2>2. Go(p, "classify", l)
    BY <1>1 DEF Reclassify
  <2> QED BY <2>1, <2>2 DEF Outcome
<1>2. CASE loc[p].tries # 0
  BY <1>2 DEF Reclassify, Outcome
<1> QED BY <1>1, <1>2

\* The pinned authority is followed.
LEMMA FollowOutcome ==
  ASSUME RelaySound, NEW p \in Procs, canon # None, Go(p, "download", [NoLocal EXCEPT !.bind = canon])
  PROVE  Outcome(p)
<1> DEFINE l == [NoLocal EXCEPT !.bind = canon]
<1>1. LocalOK("download", l)
  BY FreshRead DEF LocalOK, Downloading
<1> QED BY <1>1 DEF Outcome

\* A step another process overtook, or a failure.
LEMMA OvertakenOutcome ==
  ASSUME NEW p \in Procs, LocalOK(pc[p], loc[p]), pc[p] \in Downloading, NEW a,
         OvertakenOr(p, a)
  PROVE  Outcome(p)
<1>1. CASE AtCutoff(loc[p].bind)
  <2>1. LocalOK("activate", loc[p])
    BY DEF LocalOK, Downloading
  <2>2. Go(p, "activate", loc[p])
    BY <1>1 DEF OvertakenOr
  <2> QED BY <2>1, <2>2 DEF Outcome
<1>2. CASE ~ AtCutoff(loc[p].bind)
  BY <1>2 DEF OvertakenOr, Outcome
<1> QED BY <1>1, <1>2

\* What follows a page of the guard's list or of a successor's.
LEMMA NextPageOutcome ==
  ASSUME NEW p \in Procs, NEW l, Read(l), l.op \in {"guard", "append"}, NEW c, NextPage(p, c, l)
  PROVE  Outcome(p)
<1>1. CASE ~ c.ready
  <2> DEFINE m == [l EXCEPT !.n = l.n + 1]
  <2>1. /\ DOMAIN m = Fields /\ m.obs = l.obs /\ m.pin = l.pin /\ m.reg = l.reg /\ m.op = l.op
        /\ m.mode = l.mode
    BY DEF Read, Fields
  <2> HIDE DEF m
  <2>2. LocalOK("scan", m)
    BY <2>1 DEF LocalOK, Read, Downloading
  <2>3. Go(p, "scan", m)
    BY <1>1 DEF NextPage, m
  <2> QED BY <2>2, <2>3 DEF Outcome
<1>2. CASE c.ready
  <2>1. \E m : Go(p, "classify", m) /\ Read(m)
    <3>1. CASE l.op = "guard"
      <4>1. Read([l EXCEPT !.mode = "final", !.guard = c])
        BY DEF Read, Fields
      <4> QED BY <1>2, <3>1, <4>1 DEF NextPage
    <3>2. CASE l.op # "guard"
      <4>1. Read([l EXCEPT !.mode = "promote"])
        BY DEF Read, Fields
      <4> QED BY <1>2, <3>2, <4>1 DEF NextPage
    <3> QED BY <3>1, <3>2
  <2> QED BY <2>1, PlainOK DEF Outcome
<1> QED BY <1>1, <1>2

\* What an observation leads to.
LEMMA RouteOutcome ==
  ASSUME RelaySound, NEW p \in Procs, LocalOK(pc[p], loc[p]), StatusHolds(loc[p]),
         Route(p, loc[p])
  PROVE  Outcome(p)
<1> DEFINE l == loc[p]
<1>1. Read(l) /\ l.mode \in {"first", "final", "converge", "promote"}
  BY DEF LocalOK, Read
<1>2. LocalOK("classify", [NoLocal EXCEPT !.mode = "converge"])
  BY FreshRead, PlainOK
<1>3. Read([l EXCEPT !.mode = "final", !.guard = cand])
  BY <1>1 DEF Read, Fields
<1>4. CASE l.mode = "first" /\ l.reg
  BY <1>2, <1>4 DEF Route, Outcome
<1>5. CASE l.mode = "first" /\ ~ l.reg
  <2>1. LocalOK("guard", l) /\ LocalOK("classify", [l EXCEPT !.mode = "final", !.guard = cand])
    BY <1>1, <1>3, PlainOK
  <2>2. \/ Go(p, "guard", l)
        \/ Go(p, "classify", [l EXCEPT !.mode = "final", !.guard = cand])
        \/ Fail(p, "restart")
    BY <1>5 DEF Route
  <2> QED BY <2>1, <2>2 DEF Outcome
<1>6. CASE l.mode = "final"
  <2>1. LocalOK("register", l)
    BY <1>1, PlainOK
  <2>2. \/ Go(p, "register", l)
        \/ Go(p, "classify", [NoLocal EXCEPT !.mode = "converge"])
    BY <1>6 DEF Route
  <2> QED BY <1>2, <2>1, <2>2 DEF Outcome
<1>7. CASE l.mode = "converge"
  <2>1. LocalOK("decide", l)
    BY <1>1, <1>7 DEF LocalOK, StatusHolds, Read, Downloading
  <2>2. Go(p, "decide", l)
    BY <1>7 DEF Route
  <2> QED BY <2>1, <2>2 DEF Outcome
<1>8. CASE l.mode = "promote"
  <2>1. LocalOK("promote", l)
    BY <1>1, PlainOK
  <2>2. Go(p, "promote", l) \/ Reclassify(p) \/ Fail(p, "restart")
    BY <1>8 DEF Route
  <2>3. CASE Reclassify(p)
    BY <2>3, ReclassifyOutcome
  <2> QED BY <2>1, <2>2, <2>3 DEF Outcome
<1> QED BY <1>1, <1>4, <1>5, <1>6, <1>7, <1>8

\* The classification of the registration.
LEMMA ClassifyOutcome ==
  ASSUME RelaySound, NEW p \in Procs, LocalOK(pc[p], loc[p]), Classify(p)
  PROVE  Outcome(p)
<1> DEFINE l == [loc[p] EXCEPT !.obs = Snapshot, !.reg = Registered]
<1>1. Read(l)
  BY SnapshotKnown DEF LocalOK, Read, Fields
<1>2. Go(p, "retain", l)
  BY DEF Classify
<1> QED BY <1>1, <1>2, PlainOK DEF Outcome

\* The scan of the list before ours.
LEMMA StartGuardOutcome ==
  ASSUME RelaySound, AuthoritySound, NEW p \in Procs, LocalOK(pc[p], loc[p]), StartGuard(p)
  PROVE  Outcome(p)
<1> DEFINE l == loc[p]
<1>1. Read(l)
  BY DEF LocalOK
<1>2. LocalOK("classify", [l EXCEPT !.mode = "final"])
  <2>1. Read([l EXCEPT !.mode = "final"])
    BY <1>1 DEF Read, Fields
  <2> QED BY <2>1, PlainOK
<1>3. LocalOK("scan", [l EXCEPT !.op = "guard"])
  <2> DEFINE m == [l EXCEPT !.op = "guard"]
  <2>1. /\ DOMAIN m = Fields /\ m.obs = l.obs /\ m.pin = l.pin /\ m.reg = l.reg
        /\ m.mode = l.mode /\ m.op = "guard"
    BY <1>1 DEF Read, Fields
  <2> HIDE DEF m
  <2> QED BY <1>1, <2>1 DEF LocalOK, Read, Downloading
<1>4. cand # None => LocalOK("scan", [l EXCEPT !.op = "guard", !.pin = SnapOf(cand)])
  <2> SUFFICES ASSUME cand # None
               PROVE  LocalOK("scan", [l EXCEPT !.op = "guard", !.pin = SnapOf(cand)])
    OBVIOUS
  <2> DEFINE m == [l EXCEPT !.op = "guard", !.pin = SnapOf(cand)]
  <2>1. Known(SnapOf(cand))
    <3>1. /\ cand.gen \in Nat /\ cand.head \in Nat /\ AtLeast(mark, SnapOf(cand))
          /\ Known(mark)
      BY DEF AuthoritySound, Within, RelaySound
    <3>2. IsSnap(SnapOf(cand))
      BY <3>1, SnapFacts, SnapOfFacts DEF SnapOf
    <3>3. AtLeast(Snapshot, SnapOf(cand))
      BY <3>1, <3>2, SnapshotKnown, AtLeastTrans DEF Known, IsSnap
    <3> QED BY <3>2, <3>3 DEF Known
  <2>2. /\ DOMAIN m = Fields /\ m.obs = l.obs /\ m.pin = SnapOf(cand) /\ m.reg = l.reg
        /\ m.mode = l.mode /\ m.op = "guard"
    BY <1>1 DEF Read, Fields
  <2> HIDE DEF m
  <2>3. LocalOK("scan", m)
    BY <1>1, <2>1, <2>2 DEF LocalOK, Read, Downloading
  <2> QED BY <2>3 DEF m
<1>5. \/ Go(p, "classify", [l EXCEPT !.mode = "final"])
      \/ Go(p, "scan", [l EXCEPT !.op = "guard"])
      \/ cand # None /\ Go(p, "scan", [l EXCEPT !.op = "guard", !.pin = SnapOf(cand)])
      \/ Fail(p, "restart")
  BY DEF StartGuard
<1> QED BY <1>2, <1>3, <1>4, <1>5 DEF Outcome

\* A page of a list, at the snapshot of the first.
LEMMA ScanOutcome ==
  ASSUME RelaySound, NEW p \in Procs, LocalOK(pc[p], loc[p]), Scan(p)
  PROVE  Outcome(p)
<1> DEFINE l == loc[p]
           s == IF l.pin = None THEN Snapshot ELSE l.pin
           m == [l EXCEPT !.pin = s]
<1>1. pc[p] = "scan" /\ Read(l)
  BY DEF Scan, At, LocalOK
<1>2. Known(s) /\ s # None
  BY <1>1, SnapshotKnown, SnapFacts DEF Read, Known
<1>3. \/ \E a : Fail(p, a)
      \/ /\ Go(p, IF l.op \in {"begin", "replace"} THEN "note" ELSE "stage", m)
         /\ l.op # "append" => AtLeast(s, l.obs)
  BY DEF Scan
<1> HIDE DEF s
<1>4. /\ DOMAIN m = Fields /\ m.obs = l.obs /\ m.pin = s /\ m.reg = l.reg /\ m.op = l.op
      /\ m.mode = l.mode /\ m.guard = l.guard
  BY <1>1 DEF Read, Fields
<1>5. l.op \in {"begin", "replace"} =>
        /\ l.obs.gen >= target /\ Registered
        /\ l.op = "begin" => GuardFits(l)
  BY <1>1 DEF LocalOK
<1> HIDE DEF m
<1>6. l.op = "begin" => GuardFits(m)
  BY <1>4, <1>5 DEF GuardFits
<1>7. ASSUME NEW t \in {"note", "stage"}, l.op # "append" => AtLeast(s, l.obs)
      PROVE  LocalOK(t, m)
  BY <1>1, <1>2, <1>4, <1>5, <1>6, <1>7 DEF LocalOK, Read, Downloading
<1> QED BY <1>3, <1>7 DEF Outcome

\* A transition is taken up, begun or followed.
LEMMA DecideOutcome ==
  ASSUME RelaySound, AuthoritySound, NEW p \in Procs, LocalOK(pc[p], loc[p]), Decide(p)
  PROVE  Outcome(p)
<1> DEFINE l == loc[p]
           sn == SnapOf(trans.succ)
<1>1. pc[p] = "decide" /\ Read(l) /\ l.obs.gen >= target /\ Registered
  BY DEF Decide, At, LocalOK
<1>2. CASE trans # None
  <2>1. Known(sn) /\ sn # None
    <3>1. /\ trans.succ.gen \in Nat /\ trans.succ.head \in Nat /\ AtLeast(mark, sn)
          /\ Known(mark)
      BY <1>2 DEF AuthoritySound, Within, RelaySound
    <3>2. IsSnap(sn)
      BY <3>1, SnapFacts, SnapOfFacts DEF SnapOf
    <3>3. AtLeast(Snapshot, sn)
      BY <3>1, <3>2, SnapshotKnown, AtLeastTrans DEF Known, IsSnap
    <3> QED BY <3>2, <3>3, SnapFacts DEF Known
  <2> DEFINE r == [l EXCEPT !.op = "replace", !.st = trans, !.pin = None, !.n = 0]
             q == [l EXCEPT !.mode = "promote", !.st = trans, !.pin = sn]
             a == [l EXCEPT !.op = "append", !.st = trans, !.pin = sn,
                            !.n = trans.succ.through]
  <2>2. \/ Go(p, "scan", r) \/ Go(p, "classify", q) \/ Go(p, "scan", a) \/ Fail(p, "restart")
    BY <1>2 DEF Decide
  <2> HIDE DEF sn
  <2>3. /\ DOMAIN r = Fields /\ r.obs = l.obs /\ r.pin = None /\ r.reg = l.reg
        /\ r.mode = l.mode /\ r.op = "replace"
    BY <1>1 DEF Read, Fields
  <2>4. /\ DOMAIN q = Fields /\ q.obs = l.obs /\ q.pin = sn /\ q.reg = l.reg
        /\ q.mode = "promote"
    BY <1>1 DEF Read, Fields
  <2>5. /\ DOMAIN a = Fields /\ a.obs = l.obs /\ a.pin = sn /\ a.reg = l.reg
        /\ a.mode = l.mode /\ a.op = "append"
    BY <1>1 DEF Read, Fields
  <2> HIDE DEF r, q, a
  <2>6. LocalOK("scan", r)
    BY <1>1, <2>3 DEF LocalOK, Read, Downloading
  <2>7. LocalOK("classify", q)
    BY <1>1, <2>1, <2>4 DEF LocalOK, Read, Downloading
  <2>8. LocalOK("scan", a)
    BY <1>1, <2>1, <2>5 DEF LocalOK, Read, Downloading
  <2> QED BY <2>2, <2>6, <2>7, <2>8 DEF Outcome
<1>3. CASE trans = None
  <2> DEFINE b == [l EXCEPT !.op = "begin", !.guard = cand, !.pin = None, !.n = 0]
  <2>1. \/ /\ Go(p, "scan", b)
           /\ \/ /\ cand # None /\ target > 1 /\ cand.ready /\ cand.gen = target - 1
                 /\ cand.head <= l.obs.head
              \/ cand = None /\ target = 1
        \/ canon # None /\ Go(p, "download", [NoLocal EXCEPT !.bind = canon])
        \/ Fail(p, "restart")
    BY <1>3 DEF Decide
  <2>2. /\ DOMAIN b = Fields /\ b.obs = l.obs /\ b.pin = None /\ b.reg = l.reg
        /\ b.mode = l.mode /\ b.op = "begin" /\ b.guard = cand
    BY <1>1 DEF Read, Fields
  <2> HIDE DEF b
  <2>3. CASE \/ /\ cand # None /\ target > 1 /\ cand.ready /\ cand.gen = target - 1
                /\ cand.head <= l.obs.head
             \/ cand = None /\ target = 1
    <3>1. GuardFits(b)
      BY <2>2, <2>3 DEF GuardFits, Rests, AuthoritySound, Within
    <3>2. LocalOK("scan", b)
      BY <1>1, <2>2, <3>1 DEF LocalOK, Read, Downloading
    <3> QED BY <2>1, <3>2, FollowOutcome DEF Outcome
  <2> QED BY <2>1, <2>3, FollowOutcome DEF Outcome
<1> QED BY <1>2, <1>3

\* A process goes on with more than it had, its reading of the relay the same.
LEMMA ReadKept ==
  ASSUME NEW l, NEW m, Read(l), DOMAIN m = Fields, m.mode = l.mode, m.obs = l.obs,
         m.pin = l.pin, m.reg = l.reg
  PROVE  Read(m)
BY DEF Read

\* Steps of the download that rely on the pinned authority alone.
LEMMA DownloadOK ==
  ASSUME NEW l, Read(l), canon # None, l.bind = canon,
         NEW s \in {"download", "fill", "cutoff", "preflight", "prunes", "stageprune", "activate"}
  PROVE  LocalOK(s, l)
BY DEF LocalOK, Downloading

\* The first page of a successor, and what follows it.
LEMMA FirstPageOutcome ==
  ASSUME RelaySound, NEW p \in Procs, NEW l, Read(l), NEW t, FirstPage(p, t, l)
  PROVE  Outcome(p)
<1>1. CASE t.succ.through = 1
  <2> DEFINE m == [l EXCEPT !.st = t, !.op = "append"]
  <2>1. NextPage(p, t.succ, m)
    BY <1>1 DEF FirstPage
  <2>2. DOMAIN m = Fields /\ m.mode = l.mode /\ m.obs = l.obs /\ m.pin = l.pin /\ m.reg = l.reg
        /\ m.op = "append"
    BY DEF Read, Fields
  <2> HIDE DEF m
  <2> QED BY <2>1, <2>2, ReadKept, NextPageOutcome
<1>2. CASE t.succ.through # 1
  BY <1>2, ReclassifyOutcome DEF FirstPage
<1> QED BY <1>1, <1>2

\* The attach takes up what the store has.
LEMMA AttachOutcome ==
  ASSUME RelaySound, AuthoritySound, NEW p \in Procs, Attach(p)
  PROVE  Outcome(p)
<1>1. LocalOK("classify", [NoLocal EXCEPT !.mode = "converge"]) /\ LocalOK("classify", NoLocal)
  BY FreshRead, PlainOK
<1>2. \/ Go(p, "classify", [NoLocal EXCEPT !.mode = "converge"])
      \/ Go(p, "classify", NoLocal)
      \/ prog # None /\ Go(p, "download", [NoLocal EXCEPT !.bind = canon])
      \/ Fail(p, "restart")
  BY DEF Attach
<1>3. prog # None => canon # None
  BY DEF AuthoritySound
<1> QED BY <1>1, <1>2, <1>3, FollowOutcome DEF Outcome

\* The watermark is judged as it is after the observation.
LEMMA RetainObservationOutcome ==
  ASSUME RelaySound, NEW p \in Procs, LocalOK(pc[p], loc[p]), RetainObservation(p)
  PROVE  Outcome(p)
<1>1. \/ StatusHolds(loc[p]) /\ Route(p, loc[p])
      \/ Fail(p, "restart")
  BY DEF RetainObservation
<1> QED BY <1>1, RouteOutcome DEF Outcome

LEMMA NotePageOutcome ==
  ASSUME NEW p \in Procs, LocalOK(pc[p], loc[p]), NotePage(p)
  PROVE  Outcome(p)
<1>1. pc[p] = "note" /\ (Go(p, "stage", loc[p]) \/ Fail(p, "restart"))
  BY DEF NotePage, At
<1>2. LocalOK("stage", loc[p])
  BY <1>1 DEF LocalOK, Downloading
<1> QED BY <1>1, <1>2 DEF Outcome

\* The answer of the relay to a registration.
LEMMA RetainRegistrationOutcome ==
  ASSUME RelaySound, NEW p \in Procs, RetainRegistration(p)
  PROVE  Outcome(p)
<1>1. LocalOK("classify", [NoLocal EXCEPT !.mode = "converge"])
  BY FreshRead, PlainOK
<1>2. Go(p, "classify", [NoLocal EXCEPT !.mode = "converge"]) \/ Fail(p, "restart")
  BY DEF RetainRegistration
<1> QED BY <1>1, <1>2 DEF Outcome

\* The download goes on from what is already here.
LEMMA StartDownloadOutcome ==
  ASSUME RelaySound, HistorySound, AuthoritySound, NEW p \in Procs, LocalOK(pc[p], loc[p]),
         StartDownload(p)
  PROVE  Outcome(p)
<1> DEFINE l == loc[p]
           m == [l EXCEPT !.after = prog.downloaded]
<1>1. Read(l) /\ canon # None /\ l.bind = canon
  BY DEF StartDownload, At, LocalOK, Downloading
<1>2. \/ Go(p, "fill", l)
      \/ prog.downloaded # l.bind.head /\ Go(p, "fetch", m)
      \/ Fail(p, "retry")
  BY DEF StartDownload
<1>3. LocalOK("fill", l)
  BY <1>1, DownloadOK
<1>4. /\ DOMAIN m = Fields /\ m.mode = l.mode /\ m.obs = l.obs /\ m.pin = l.pin
      /\ m.reg = l.reg /\ m.bind = l.bind /\ m.after = prog.downloaded
  BY <1>1 DEF Read, Fields
<1>5. prog.downloaded \in Nat /\ canon.head \in Nat /\ prog.downloaded <= canon.head
  BY <1>1 DEF AuthoritySound, HistorySound, IsSnap
<1> HIDE DEF m
<1>6. Read(m)
  BY <1>1, <1>4, ReadKept
<1>7. prog.downloaded # canon.head => LocalOK("fetch", m)
  BY <1>1, <1>4, <1>5, <1>6 DEF LocalOK, Downloading
<1> QED BY <1>1, <1>2, <1>3, <1>7 DEF Outcome

\* The arrival asked for is within the pinned prefix, and so at the relay.
LEMMA FetchPageOutcome ==
  ASSUME RelaySound, AuthoritySound, NEW p \in Procs, LocalOK(pc[p], loc[p]), FetchPage(p)
  PROVE  Outcome(p)
<1> DEFINE l == loc[p]
           m == [l EXCEPT !.obs = Snapshot, !.page = arrivals[l.after + 1]]
<1>1. /\ Read(l) /\ canon # None /\ l.bind = canon
      /\ l.after \in Nat /\ l.after < canon.head /\ l.after <= prog.downloaded
  BY DEF FetchPage, At, LocalOK, Downloading
<1>2. Go(p, "fetched", m)
  BY DEF FetchPage
<1>3. /\ DOMAIN m = Fields /\ m.mode = l.mode /\ m.obs = Snapshot /\ m.pin = l.pin
      /\ m.reg = l.reg /\ m.bind = l.bind /\ m.after = l.after /\ m.page = arrivals[l.after + 1]
  BY <1>1 DEF Read, Fields
<1> HIDE DEF m
<1>4. arrivals[l.after + 1] \in {"sealed", "pruned"}
  <2>1. /\ canon.head \in Nat /\ mark.head \in Nat /\ Len(arrivals) \in Nat
        /\ canon.head <= mark.head /\ mark.head <= Len(arrivals)
    BY <1>1, SnapshotKnown DEF RelaySound, AuthoritySound, Known, IsSnap, AtLeast
  <2>2. l.after + 1 \in 1 .. Len(arrivals)
    BY <1>1, <2>1
  <2> QED BY <2>2 DEF RelaySound
<1>5. Read(m)
  BY <1>1, <1>3, SnapshotKnown DEF Read
<1>6. LocalOK("fetched", m)
  BY <1>1, <1>3, <1>4, <1>5 DEF LocalOK, Downloading
<1> QED BY <1>2, <1>6 DEF Outcome

LEMMA RetainPageOutcome ==
  ASSUME NEW p \in Procs, LocalOK(pc[p], loc[p]), RetainPage(p)
  PROVE  Outcome(p)
<1>1. pc[p] = "fetched" /\ (Go(p, "frame", loc[p]) \/ \E a : Fail(p, a))
  BY DEF RetainPage, At
<1>2. LocalOK("frame", loc[p])
  BY <1>1 DEF LocalOK, Downloading
<1> QED BY <1>1, <1>2 DEF Outcome

\* What a process in the download knows of the pinned authority and of progress.
LEMMA Pinned ==
  ASSUME AuthoritySound, HistorySound, NEW p \in Procs, LocalOK(pc[p], loc[p]),
         pc[p] \in Downloading
  PROVE  /\ Read(loc[p]) /\ canon # None /\ loc[p].bind = canon /\ prog # None
         /\ canon.head \in Nat /\ prog.applied \in Nat /\ prog.downloaded \in Nat
         /\ prog.applied <= prog.downloaded /\ prog.downloaded <= canon.head
BY DEF LocalOK, AuthoritySound, HistorySound, IsSnap

\* The cutoff: the attach goes on where the store's terminal candidate stands.
LEMMA CutoffOutcome ==
  ASSUME AuthoritySound, HistorySound, NEW p \in Procs, LocalOK(pc[p], loc[p]), Cutoff(p)
  PROVE  Outcome(p)
<1> DEFINE l == loc[p]
           m == [l EXCEPT !.pr = pcand, !.after = prog.applied]
<1>1. pc[p] = "cutoff" /\ pc[p] \in Downloading
  BY DEF Cutoff, At, Downloading
<1>2. Read(l) /\ canon # None /\ l.bind = canon /\ prog.applied \in Nat
  BY <1>1, Pinned
<1>3. LocalOK("activate", l) /\ LocalOK("preflight", l)
  BY <1>2, DownloadOK
<1>4. /\ DOMAIN m = Fields /\ m.mode = l.mode /\ m.obs = l.obs /\ m.pin = l.pin
      /\ m.reg = l.reg /\ m.bind = l.bind /\ m.after = prog.applied
  BY <1>2 DEF Read, Fields
<1>5. \/ Go(p, "activate", l) \/ Go(p, "preflight", l) \/ Go(p, "revalidate", m)
      \/ \E a : Fail(p, a)
  BY DEF Cutoff
<1> HIDE DEF m
<1>6. LocalOK("revalidate", m)
  <2>1. Read(m)
    BY <1>2, <1>4, ReadKept
  <2> QED BY <1>2, <1>4, <2>1 DEF LocalOK, Downloading
<1> QED BY <1>3, <1>5, <1>6 DEF Outcome

LEMMA RevalidateOutcome ==
  ASSUME NEW p \in Procs, LocalOK(pc[p], loc[p]), Revalidate(p)
  PROVE  Outcome(p)
<1>1. pc[p] = "revalidate" /\ (Go(p, "chunk", loc[p]) \/ Fail(p, "restart"))
  BY DEF Revalidate, At
<1>2. LocalOK("chunk", loc[p])
  BY <1>1 DEF LocalOK, Downloading
<1> QED BY <1>1, <1>2 DEF Outcome

\* The prune inventory is looked for only under the fence.
LEMMA PreflightOutcome ==
  ASSUME AuthoritySound, HistorySound, NEW p \in Procs, LocalOK(pc[p], loc[p]), Preflight(p)
  PROVE  Outcome(p)
<1> DEFINE l == loc[p]
           m == [l EXCEPT !.pr = pcand, !.n = 0]
<1>1. pc[p] \in Downloading
  BY DEF Preflight, At, Downloading
<1>2. Read(l) /\ canon # None /\ l.bind = canon
  BY <1>1, Pinned
<1>3. /\ DOMAIN m = Fields /\ m.mode = l.mode /\ m.obs = l.obs /\ m.pin = l.pin
      /\ m.reg = l.reg /\ m.bind = l.bind
  BY <1>2 DEF Read, Fields
<1>4. Go(p, "prunes", m) \/ \E a : OvertakenOr(p, a)
  BY DEF Preflight
<1> HIDE DEF m
<1>5. LocalOK("prunes", m)
  BY <1>2, <1>3, ReadKept, DownloadOK
<1>6. CASE Go(p, "prunes", m)
  BY <1>5, <1>6 DEF Outcome
<1>7. CASE \E a : OvertakenOr(p, a)
  BY <1>1, <1>7, OvertakenOutcome
<1> QED BY <1>4, <1>6, <1>7

\* A page of the prune inventory.
LEMMA PrunePageOutcome ==
  ASSUME AuthoritySound, HistorySound, NEW p \in Procs, LocalOK(pc[p], loc[p]), PrunePage(p)
  PROVE  Outcome(p)
<1> DEFINE l == loc[p]
           a == [l EXCEPT !.after = prog.applied]
           b == [l EXCEPT !.n = l.pr.through + 1, !.upto = l.pr.head]
           c == [l EXCEPT !.n = l.n + 1, !.upto = IF l.n = 0 THEN Len(prunes) ELSE l.upto]
<1>1. pc[p] \in Downloading
  BY DEF PrunePage, At, Downloading
<1>2. Read(l) /\ canon # None /\ l.bind = canon /\ prog.applied \in Nat
  BY <1>1, Pinned
<1>3. \/ Go(p, "chunk", a) \/ Go(p, "stageprune", b) \/ Go(p, "stageprune", c)
      \/ \E x : OvertakenOr(p, x)
  BY DEF PrunePage
<1>4. /\ DOMAIN a = Fields /\ a.mode = l.mode /\ a.obs = l.obs /\ a.pin = l.pin
      /\ a.reg = l.reg /\ a.bind = l.bind /\ a.after = prog.applied
  BY <1>2 DEF Read, Fields
<1>5. /\ DOMAIN b = Fields /\ b.mode = l.mode /\ b.obs = l.obs /\ b.pin = l.pin
      /\ b.reg = l.reg /\ b.bind = l.bind
  BY <1>2 DEF Read, Fields
<1>6. /\ DOMAIN c = Fields /\ c.mode = l.mode /\ c.obs = l.obs /\ c.pin = l.pin
      /\ c.reg = l.reg /\ c.bind = l.bind
  BY <1>2 DEF Read, Fields
<1> HIDE DEF a, b, c
<1>7. LocalOK("chunk", a)
  <2>1. Read(a)
    BY <1>2, <1>4, ReadKept
  <2> QED BY <1>2, <1>4, <2>1 DEF LocalOK, Downloading
<1>8. LocalOK("stageprune", b) /\ LocalOK("stageprune", c)
  <2>1. Read(b) /\ Read(c)
    BY <1>2, <1>5, <1>6, ReadKept
  <2> QED BY <1>2, <1>5, <1>6, <2>1, DownloadOK
<1>9. CASE \E x : OvertakenOr(p, x)
  BY <1>1, <1>9, OvertakenOutcome
<1> QED BY <1>3, <1>7, <1>8, <1>9 DEF Outcome

LEMMA StagePruneOutcome ==
  ASSUME AuthoritySound, HistorySound, NEW p \in Procs, LocalOK(pc[p], loc[p]), StagePrune(p)
  PROVE  Outcome(p)
<1> DEFINE l == loc[p]
           n == PruneCandidate(l)
           a == [l EXCEPT !.pr = n, !.after = prog.applied]
           b == [l EXCEPT !.pr = n]
<1>1. pc[p] \in Downloading
  BY DEF StagePrune, At, Downloading
<1>2. Read(l) /\ canon # None /\ l.bind = canon /\ prog.applied \in Nat
  BY <1>1, Pinned
<1>3. \/ Go(p, "chunk", a) \/ Go(p, "prunes", b) \/ \E x : OvertakenOr(p, x)
  BY DEF StagePrune
<1> HIDE DEF n
<1>4. /\ DOMAIN a = Fields /\ a.mode = l.mode /\ a.obs = l.obs /\ a.pin = l.pin
      /\ a.reg = l.reg /\ a.bind = l.bind /\ a.after = prog.applied
  BY <1>2 DEF Read, Fields
<1>5. /\ DOMAIN b = Fields /\ b.mode = l.mode /\ b.obs = l.obs /\ b.pin = l.pin
      /\ b.reg = l.reg /\ b.bind = l.bind
  BY <1>2 DEF Read, Fields
<1> HIDE DEF a, b
<1>6. LocalOK("chunk", a)
  <2>1. Read(a)
    BY <1>2, <1>4, ReadKept
  <2> QED BY <1>2, <1>4, <2>1 DEF LocalOK, Downloading
<1>7. LocalOK("prunes", b)
  BY <1>2, <1>5, ReadKept, DownloadOK
<1>8. CASE \E x : OvertakenOr(p, x)
  BY <1>1, <1>8, OvertakenOutcome
<1> QED BY <1>3, <1>6, <1>7, <1>8 DEF Outcome

LEMMA StageChunkOutcome ==
  ASSUME AuthoritySound, HistorySound, NEW p \in Procs, LocalOK(pc[p], loc[p]), StageChunk(p)
  PROVE  Outcome(p)
<1> DEFINE l == loc[p]
           m == [l EXCEPT !.after = l.after + 1]
<1>1. pc[p] = "chunk" /\ pc[p] \in Downloading
  BY DEF StageChunk, At, Downloading
<1>2. Read(l) /\ canon # None /\ l.bind = canon /\ l.after \in Nat
  BY <1>1, Pinned DEF LocalOK
<1>3. Go(p, "chunk", m) \/ (\E x : OvertakenOr(p, x)) \/ Fail(p, "retry")
  BY DEF StageChunk
<1>4. /\ DOMAIN m = Fields /\ m.mode = l.mode /\ m.obs = l.obs /\ m.pin = l.pin
      /\ m.reg = l.reg /\ m.bind = l.bind /\ m.after = l.after + 1
  BY <1>2 DEF Read, Fields
<1> HIDE DEF m
<1>5. LocalOK("chunk", m)
  <2>1. Read(m)
    BY <1>2, <1>4, ReadKept
  <2> QED BY <1>2, <1>4, <2>1 DEF LocalOK, Downloading
<1>6. CASE \E x : OvertakenOr(p, x)
  BY <1>1, <1>6, OvertakenOutcome
<1> QED BY <1>3, <1>5, <1>6 DEF Outcome

LEMMA PromoteTerminalOutcome ==
  ASSUME AuthoritySound, HistorySound, NEW p \in Procs, LocalOK(pc[p], loc[p]),
         PromoteTerminal(p)
  PROVE  Outcome(p)
<1>1. pc[p] \in Downloading
  BY DEF PromoteTerminal, At, Downloading
<1>2. LocalOK("activate", loc[p])
  BY <1>1, Pinned, DownloadOK
<1>3. Go(p, "activate", loc[p]) \/ \E x : OvertakenOr(p, x)
  BY DEF PromoteTerminal
<1>4. CASE \E x : OvertakenOr(p, x)
  BY <1>1, <1>4, OvertakenOutcome
<1> QED BY <1>2, <1>3, <1>4 DEF Outcome

LEMMA StageNoFramesOutcome ==
  ASSUME AuthoritySound, HistorySound, NEW p \in Procs, LocalOK(pc[p], loc[p]),
         StageNoFrames(p)
  PROVE  Outcome(p)
<1>1. pc[p] \in Downloading
  BY DEF StageNoFrames, At, Downloading
<1>2. LocalOK("cutoff", loc[p])
  BY <1>1, Pinned, DownloadOK
<1>3. Go(p, "cutoff", loc[p]) \/ Fail(p, "restart")
  BY DEF StageNoFrames
<1> QED BY <1>2, <1>3 DEF Outcome

LEMMA ActivateOutcome ==
  ASSUME NEW p \in Procs, Activate(p)
  PROVE  Outcome(p)
<1>1. \E a : Fail(p, a)
  BY DEF Activate, Fail
<1> QED BY <1>1 DEF Outcome

\* A page of the list a registration rests on.
LEMMA StageGuardPageOutcome ==
  ASSUME NEW p \in Procs, LocalOK(pc[p], loc[p]), StageGuardPage(p)
  PROVE  Outcome(p)
<1> DEFINE l == loc[p]
           m == [l EXCEPT !.n = l.n + 1]
<1>1. Read(l) /\ l.op = "guard"
  BY DEF StageGuardPage, LocalOK
<1>2. Go(p, "scan", m) \/ (\E c : NextPage(p, c, l)) \/ (\E a : Fail(p, a))
  BY DEF StageGuardPage
<1>3. /\ DOMAIN m = Fields /\ m.mode = l.mode /\ m.obs = l.obs /\ m.pin = l.pin
      /\ m.reg = l.reg /\ m.op = "guard"
  BY <1>1 DEF Read, Fields
<1> HIDE DEF m
<1>4. LocalOK("scan", m)
  <2>1. Read(m)
    BY <1>1, <1>3, ReadKept
  <2> QED BY <1>3, <2>1 DEF LocalOK, Downloading
<1>5. CASE \E c : NextPage(p, c, l)
  BY <1>1, <1>5, NextPageOutcome
<1> QED BY <1>2, <1>4, <1>5 DEF Outcome

LEMMA BeginTransitionOutcome ==
  ASSUME RelaySound, NEW p \in Procs, LocalOK(pc[p], loc[p]), BeginTransition(p)
  PROVE  Outcome(p)
<1>1. Read(loc[p])
  BY DEF LocalOK
<1>2. (\E t : FirstPage(p, t, loc[p])) \/ Reclassify(p)
  BY DEF BeginTransition
<1> QED BY <1>1, <1>2, FirstPageOutcome, ReclassifyOutcome

LEMMA ReplaceSuccessorOutcome ==
  ASSUME RelaySound, NEW p \in Procs, LocalOK(pc[p], loc[p]), ReplaceSuccessor(p)
  PROVE  Outcome(p)
<1>1. Read(loc[p])
  BY DEF LocalOK
<1>2. (\E t : FirstPage(p, t, loc[p])) \/ Reclassify(p)
  BY DEF ReplaceSuccessor
<1> QED BY <1>1, <1>2, FirstPageOutcome, ReclassifyOutcome

LEMMA AppendSuccessorOutcome ==
  ASSUME RelaySound, NEW p \in Procs, LocalOK(pc[p], loc[p]), AppendSuccessor(p)
  PROVE  Outcome(p)
<1> DEFINE l == loc[p]
<1>1. Read(l) /\ l.op = "append"
  BY DEF AppendSuccessor, LocalOK
<1>2. (\E t, c : NextPage(p, c, [l EXCEPT !.st = t])) \/ Reclassify(p)
  BY DEF AppendSuccessor
<1>3. ASSUME NEW t PROVE Read([l EXCEPT !.st = t]) /\ [l EXCEPT !.st = t].op = "append"
  BY <1>1 DEF Read, Fields
<1>4. CASE \E t, c : NextPage(p, c, [l EXCEPT !.st = t])
  <2>1. PICK t, c : NextPage(p, c, [l EXCEPT !.st = t])
    BY <1>4
  <2>2. PICK m : m = [l EXCEPT !.st = t]
    OBVIOUS
  <2>3. Read(m) /\ m.op \in {"guard", "append"} /\ NextPage(p, c, m)
    BY <1>3, <2>1, <2>2
  <2> QED BY <2>3, NextPageOutcome
<1> QED BY <1>2, <1>4, ReclassifyOutcome

----------------------------------------------------------------------------
(* What a step leaves of the store. *)

\* Nothing of the relay is forgotten and no progress is lost.
LEMMA StillForward ==
  ASSUME StoreSound, UNCHANGED <<members, arrivals, target>>, canon # None => canon' = canon,
         canon # None => prog'.downloaded \in Nat /\ prog.downloaded <= prog'.downloaded
  PROVE  Forward
<1>1. /\ Snapshot.gen \in Nat /\ Snapshot.head \in Nat /\ AtLeast(Snapshot, Snapshot)
  BY SnapshotKnown DEF StoreSound, AtLeast
<1>2. Snapshot' = Snapshot /\ (Registered => Registered')
  BY DEF Snapshot, Registered
<1>3. canon # None => prog.downloaded \in Nat
  BY DEF StoreSound, AuthoritySound, HistorySound
<1> QED BY <1>1, <1>2, <1>3 DEF Forward

\* The authority stays as it is and the watermark does not go back.
LEMMA AuthorityKept ==
  ASSUME StoreSound, UNCHANGED <<canon, cand, trans, target>>, Registered => Registered',
         trans # None => pcand' = None, (prog' = None) <=> (prog = None),
         IsSnap(mark'), AtLeast(mark', mark)
  PROVE  AuthoritySound'
<1>1. /\ mark.gen \in Nat /\ mark.head \in Nat /\ mark'.gen \in Nat /\ mark'.head \in Nat
  BY DEF StoreSound, RelaySound, Known, IsSnap
<1>2. ASSUME NEW c, Within(c) PROVE c.gen \in Nat /\ c.head \in Nat /\ AtLeast(mark', SnapOf(c))
  BY <1>1, <1>2, SnapOfFacts, AtLeastTrans DEF Within
<1>3. canon # None => AtLeast(mark', canon)
  BY <1>1, AtLeastTrans DEF StoreSound, AuthoritySound, IsSnap
<1> QED BY <1>2, <1>3 DEF StoreSound, AuthoritySound, Within, Rests

LEMMA ReceiptsKept ==
  ASSUME ReceiptsSound, UNCHANGED <<closed, trans, canon>>
  PROVE  ReceiptsSound'
BY DEF ReceiptsSound, OneOutcome

LEMMA HistoryKept ==
  ASSUME HistorySound, UNCHANGED <<prog, inbox, facts, tombs, term>>, prog # None => canon' = canon
  PROVE  HistorySound'
BY DEF HistorySound

\* The relay moves, and nothing else.
LEMMA RelayStep ==
  ASSUME StoreSound, RelaySound', AtLeast(Snapshot', Snapshot), Registered => Registered',
         UNCHANGED <<target, store>>
  PROVE  StoreSound' /\ Forward
<1>1. Snapshot'.gen \in Nat /\ Snapshot'.head \in Nat
  <2>1. Len(members)' \in Nat /\ Len(arrivals)' \in Nat
    BY DEF RelaySound
  <2> QED BY <2>1, SnapFacts DEF Snapshot
<1>2. IsSnap(mark') /\ AtLeast(mark', mark)
  BY DEF StoreSound, RelaySound, Known, IsSnap, AtLeast, store
<1>3. AuthoritySound'
  BY <1>2, AuthorityKept DEF store, StoreSound, AuthoritySound
<1>4. ReceiptsSound' /\ HistorySound'
  BY ReceiptsKept, HistoryKept DEF StoreSound, store
<1>5. Snapshot.gen \in Nat /\ Snapshot.head \in Nat
  BY SnapshotKnown DEF StoreSound
<1>6. canon # None => prog.downloaded \in Nat /\ prog'.downloaded \in Nat
                      /\ prog.downloaded <= prog'.downloaded
  BY DEF StoreSound, AuthoritySound, HistorySound, store
<1> QED BY <1>1, <1>3, <1>4, <1>5, <1>6 DEF StoreSound, Forward, store

\* A membership event.
LEMMA MembersGrow ==
  ASSUME StoreSound, NEW e, members' = Append(members, e), UNCHANGED <<arrivals, target, store>>
  PROVE  StoreSound' /\ Forward
<1>1. /\ members' \in Seq({members'[i] : i \in DOMAIN members'})
      /\ Len(members) \in Nat /\ DOMAIN members = 1 .. Len(members)
      /\ Len(members') = Len(members) + 1 /\ DOMAIN members' = 1 .. Len(members) + 1
      /\ \A i \in DOMAIN members : members'[i] = members[i]
  <2>1. /\ members \in Seq({members[i] : i \in DOMAIN members})
        /\ members' = Append(members, e)
    BY DEF StoreSound, RelaySound
  <2> QED BY <2>1, ListGrows
<1>2. Registered => Registered'
  BY <1>1 DEF Registered
<1>3. /\ Snapshot.gen = Len(members) /\ Snapshot.head = Len(arrivals) /\ Len(arrivals) \in Nat
      /\ Snapshot'.gen = Len(members) + 1 /\ Snapshot'.head = Len(arrivals)
  BY <1>1, SnapshotKnown DEF StoreSound, Snapshot, Snap
<1>4. AtLeast(Snapshot', Snapshot)
  BY <1>1, <1>3 DEF AtLeast
<1>5. RelaySound'
  <2>1. Known(mark) /\ mark' = mark
    BY DEF StoreSound, RelaySound, store
  <2>2. IsSnap(mark') /\ AtLeast(Snapshot', mark')
    BY <1>1, <1>3, <2>1 DEF Known, AtLeast, IsSnap
  <2>3. Known(mark)'
    BY <2>2 DEF Known, IsSnap, AtLeast
  <2> QED BY <1>1, <2>3 DEF StoreSound, RelaySound
<1> QED BY <1>2, <1>4, <1>5, RelayStep

\* An arrival, or a prune.
LEMMA ArrivalsMove ==
  ASSUME StoreSound, arrivals' \in Seq({"sealed", "pruned"}), Len(arrivals') >= Len(arrivals),
         UNCHANGED <<members, target, store>>
  PROVE  StoreSound' /\ Forward
<1>1. Len(members) \in Nat /\ Len(arrivals) \in Nat /\ Len(arrivals') \in Nat
  BY DEF StoreSound, RelaySound
<1>2. Registered => Registered'
  BY DEF Registered
<1>3. /\ Snapshot.gen = Len(members) /\ Snapshot.head = Len(arrivals)
      /\ Snapshot'.gen = Len(members) /\ Snapshot'.head = Len(arrivals')
  BY SnapshotKnown DEF StoreSound, Snapshot, Snap
<1>4. AtLeast(Snapshot', Snapshot)
  BY <1>1, <1>3 DEF AtLeast
<1>5. RelaySound'
  <2>1. Known(mark) /\ mark' = mark
    BY DEF StoreSound, RelaySound, store
  <2>2. IsSnap(mark') /\ AtLeast(Snapshot', mark')
    BY <1>1, <1>3, <2>1 DEF Known, AtLeast, IsSnap
  <2>3. Known(mark)'
    BY <2>2 DEF Known, IsSnap, AtLeast
  <2> QED BY <2>3 DEF StoreSound, RelaySound
<1> QED BY <1>2, <1>4, <1>5, RelayStep

\* The watermark moves on, and nothing else.
LEMMA MarkMoves ==
  ASSUME StoreSound, Known(mark'), AtLeast(mark', mark),
         UNCHANGED <<relay, target, canon, cand, trans, closed, prog, inbox, pcand, term, facts, tombs>>
  PROVE  StoreSound' /\ Forward
<1>1. Known(mark)'
  BY DEF Known, Snapshot, relay, IsSnap, AtLeast
<1>2. RelaySound'
  BY <1>1 DEF StoreSound, RelaySound, relay
<1>3. Registered => Registered'
  BY DEF Registered, relay
<1>4. AuthoritySound'
  BY <1>3, AuthorityKept DEF Known, StoreSound, AuthoritySound
<1>5. ReceiptsSound' /\ HistorySound'
  BY ReceiptsKept, HistoryKept DEF StoreSound
<1>6. Forward
  BY StillForward DEF relay, StoreSound, AuthoritySound, HistorySound
<1> QED BY <1>2, <1>4, <1>5, <1>6 DEF StoreSound

\* A step that only reads.
LEMMA StoreStays ==
  ASSUME StoreSound, UNCHANGED <<relay, target, store>>
  PROVE  StoreSound' /\ Forward
<1>1. Known(mark') /\ AtLeast(mark', mark)
  BY DEF StoreSound, RelaySound, Known, IsSnap, AtLeast, store
<1> QED BY <1>1, MarkMoves DEF store

\* An attempt ends: its number is a new one, and one at most is promoted.
LEMMA ReceiptEnds ==
  ASSUME ReceiptsSound, trans # None, canon = None, NEW o \in {"promoted", "aborted"}, NEW s,
         IsSnap(s), closed' = closed \cup {Receipt(trans.attempt, o, s)}, trans' = None,
         canon' = IF o = "promoted" THEN s ELSE None
  PROVE  ReceiptsSound'
<1> DEFINE r == Receipt(trans.attempt, o, s)
           n == Cardinality(closed)
<1>1. n \in Nat /\ IsFiniteSet(closed) /\ trans.attempt = n + 1
  BY FS_CardinalityType DEF ReceiptsSound
<1>2. \A a \in closed : a.attempt \in 1 .. n /\ IsSnap(a.snap) /\ a.snap # None
                        /\ a.outcome # "promoted"
  BY SnapFacts DEF ReceiptsSound, OneOutcome
<1>3. r.attempt = n + 1 /\ r.outcome = o /\ r.snap = s
  BY <1>1 DEF Receipt
<1>4. r \notin closed
  BY <1>1, <1>2, <1>3
<1>5. IsFiniteSet(closed') /\ Cardinality(closed') = n + 1
  BY <1>1, <1>4, FS_AddElement
<1> HIDE DEF r, n
<1>6. \A a \in closed' : a.attempt \in 1 .. n + 1 /\ IsSnap(a.snap)
  BY <1>1, <1>2, <1>3 DEF r
<1>7. \A a, b \in closed' : a.attempt = b.attempt => a = b
  BY <1>1, <1>2, <1>3 DEF r, ReceiptsSound, OneOutcome
<1>8. s # None
  BY SnapFacts
<1>9. OneOutcome'
  <2>1. \A a \in closed' : a.outcome = "promoted" => a = r /\ o = "promoted"
    BY <1>2, <1>3 DEF r
  <2>2. canon' # None => o = "promoted" /\ r \in closed' /\ canon' = s
    BY DEF r
  <2> QED BY <1>3, <1>7, <1>8, <2>1, <2>2 DEF OneOutcome
<1> QED BY <1>5, <1>6, <1>9 DEF ReceiptsSound

LEMMA NothingElse == \A a, b, c : [attempt |-> a, pred |-> b, succ |-> c] # None
BY DEF None

\* A successor is replaced, or gets its next page, at the watermark or beyond.
LEMMA SuccessorMoves ==
  ASSUME StoreSound, trans # None, NEW s, Known(s), AtLeast(s, mark), NEW n,
         trans' = [trans EXCEPT !.succ = Pages(s, n)], mark' = s,
         UNCHANGED <<relay, target, canon, cand, closed, prog, inbox, pcand, term, facts, tombs>>
  PROVE  StoreSound' /\ Forward
<1>1. /\ s.gen \in Nat /\ s.head \in Nat /\ mark.gen \in Nat /\ mark.head \in Nat
  BY DEF Known, IsSnap, StoreSound, RelaySound
<1>2. /\ DOMAIN trans = {"attempt", "pred", "succ"} /\ canon = None /\ cand = None
      /\ pcand = None /\ Within(trans.succ) /\ trans.succ.gen >= target /\ Registered
      /\ (trans.pred = None) <=> (target = 1)
      /\ trans.pred # None => Within(trans.pred) /\ Rests(trans.pred)
      /\ target \in Nat
  BY DEF StoreSound, AuthoritySound, RelaySound
<1>3. /\ trans'.attempt = trans.attempt /\ trans'.pred = trans.pred
      /\ trans'.succ = Pages(s, n) /\ DOMAIN trans' = {"attempt", "pred", "succ"}
  BY <1>2
<1>4. /\ Pages(s, n).gen = s.gen /\ Pages(s, n).head = s.head
      /\ SnapOf(Pages(s, n)).gen = s.gen /\ SnapOf(Pages(s, n)).head = s.head
  BY SnapOfFacts
<1>5. Within(trans.succ)' /\ trans'.succ.gen >= target'
  <2>1. PICK c : c = trans'.succ
    OBVIOUS
  <2>2. c.gen = s.gen /\ c.head = s.head /\ SnapOf(c).gen = s.gen /\ SnapOf(c).head = s.head
    BY <1>3, <1>4, <2>1
  <2>3. Within(c)'
    BY <1>1, <2>2 DEF Within, AtLeast
  <2>4. s.gen >= target
    BY <1>1, <1>2, SnapOfFacts DEF Within, AtLeast
  <2>5. target' = target /\ c.gen >= target
    BY <2>2, <2>4
  <2> QED BY <2>1, <2>3, <2>5 DEF Within
<1>6. trans.pred # None =>
        /\ trans.pred.gen \in Nat /\ trans.pred.head \in Nat
        /\ AtLeast(s, SnapOf(trans.pred)) /\ AtLeast(SnapOf(Pages(s, n)), SnapOf(trans.pred))
  BY <1>1, <1>2, <1>4, SnapOfFacts DEF Within, AtLeast
<1>7. Known(s)'
  BY DEF Known, IsSnap, relay, Snapshot, AtLeast
<1>8. RelaySound'
  BY <1>7 DEF StoreSound, RelaySound, relay, Known, IsSnap
<1>9. Registered'
  BY <1>2 DEF Registered, relay
<1>10. AuthoritySound'
  <2>1. trans' # None
    <3>1. DOMAIN None = {"none"}
      BY DEF None
    <3> QED BY <1>3, <3>1
  <2>2. Within(trans.succ)' /\ trans'.succ.gen >= target'
    BY <1>5
  <2>3. trans'.pred # None => /\ Within(trans.pred)' /\ Rests(trans.pred)'
                              /\ AtLeast(SnapOf(trans'.succ), SnapOf(trans'.pred))
    BY <1>2, <1>3, <1>6 DEF Within, Rests
  <2> QED BY <1>2, <1>3, <1>9, <2>1, <2>2, <2>3 DEF AuthoritySound, StoreSound
<1>11. ReceiptsSound'
  BY <1>3 DEF StoreSound, ReceiptsSound, OneOutcome
<1>12. HistorySound' /\ Forward
  BY <1>2, HistoryKept, StillForward DEF StoreSound, relay
<1> QED BY <1>8, <1>10, <1>11, <1>12 DEF StoreSound

\* A page of the guard: the candidate is of the snapshot that becomes the watermark.
LEMMA GuardMoves ==
  ASSUME StoreSound, trans = None, canon = None, NEW s, Known(s), AtLeast(s, mark), NEW n,
         cand' = Pages(s, n), mark' = s,
         UNCHANGED <<relay, target, canon, trans, closed, prog, inbox, pcand, term, facts, tombs>>
  PROVE  StoreSound' /\ Forward
<1>1. s.gen \in Nat /\ s.head \in Nat
  BY DEF Known, IsSnap
<1>2. Within(cand)'
  BY <1>1, SnapOfFacts DEF Within, AtLeast
<1>3. RelaySound'
  <2>1. Known(s)'
    BY DEF Known, IsSnap, relay, Snapshot, AtLeast
  <2> QED BY <2>1 DEF StoreSound, RelaySound, relay, Known, IsSnap
<1>4. AuthoritySound'
  BY <1>2 DEF AuthoritySound, StoreSound
<1>5. ReceiptsSound' /\ HistorySound' /\ Forward
  BY ReceiptsKept, HistoryKept, StillForward DEF StoreSound, relay
<1> QED BY <1>3, <1>4, <1>5 DEF StoreSound

----------------------------------------------------------------------------
(* Each step keeps the invariant. *)

LEMMA StepSound ==
  ASSUME RecoveryInv, NEW p \in Procs, Outcome(p), StoreSound', Forward
  PROVE  RecoveryInv'
BY OutcomeSound DEF RecoveryInv, StoreSound

\* A process reads the relay or the store.
LEMMA ReadsKeep ==
  ASSUME RecoveryInv, NEW p \in Procs,
         \/ Attach(p) \/ Classify(p) \/ StartGuard(p) \/ Scan(p) \/ Decide(p) \/ StartDownload(p)
         \/ FetchPage(p) \/ Cutoff(p) \/ Revalidate(p) \/ Preflight(p) \/ PrunePage(p)
  PROVE  RecoveryInv'
<1>1. /\ StoreSound /\ RelaySound /\ AuthoritySound /\ HistorySound /\ LocalOK(pc[p], loc[p])
  BY DEF RecoveryInv, StoreSound, LocalsSound
<1>2. UNCHANGED <<relay, target, store>>
  BY DEF Attach, Classify, StartGuard, Scan, Decide, StartDownload, FetchPage, Cutoff, Revalidate,
         Preflight, PrunePage, At
<1>3. Outcome(p)
  BY <1>1, AttachOutcome, ClassifyOutcome, StartGuardOutcome, ScanOutcome, DecideOutcome,
     StartDownloadOutcome, FetchPageOutcome, CutoffOutcome, RevalidateOutcome, PreflightOutcome,
     PrunePageOutcome
<1> QED BY <1>1, <1>2, <1>3, StoreStays, StepSound

\* A process keeps what it has seen of the relay.
LEMMA ObservationsKeep ==
  ASSUME RecoveryInv, NEW p \in Procs,
         RetainObservation(p) \/ NotePage(p) \/ RetainRegistration(p) \/ RetainPage(p)
  PROVE  RecoveryInv'
<1>1. /\ StoreSound /\ RelaySound /\ LocalOK(pc[p], loc[p]) /\ Known(mark)
  BY DEF RecoveryInv, StoreSound, LocalsSound, RelaySound
<1>2. Known(loc[p].obs) /\ (NotePage(p) => Known(loc[p].pin))
  BY <1>1 DEF LocalOK, Read, NotePage, At
<1>3. \/ mark' = mark
      \/ mark' = Join(mark, loc[p].obs)
      \/ NotePage(p) /\ mark' = Join(mark, loc[p].pin)
  BY DEF RetainObservation, NotePage, RetainRegistration, RetainPage
<1>4. Known(mark') /\ AtLeast(mark', mark)
  <2>1. CASE mark' = mark
    BY <1>1, <2>1 DEF Known, IsSnap, AtLeast
  <2>2. CASE mark' = Join(mark, loc[p].obs)
    BY <1>1, <1>2, <2>2, JoinKnown
  <2>3. CASE NotePage(p) /\ mark' = Join(mark, loc[p].pin)
    BY <1>1, <1>2, <2>3, JoinKnown
  <2> QED BY <1>3, <2>1, <2>2, <2>3
<1>5. UNCHANGED <<relay, target, canon, cand, trans, closed, prog, inbox, pcand, term, facts, tombs>>
  BY DEF RetainObservation, NotePage, RetainRegistration, RetainPage, At, authority
<1>6. Outcome(p)
  BY <1>1, RetainObservationOutcome, NotePageOutcome, RetainRegistrationOutcome, RetainPageOutcome
<1> QED BY <1>1, <1>4, <1>5, <1>6, MarkMoves, StepSound

\* What a process holds at a page it is to stage.
LEMMA StagePageFacts ==
  ASSUME RecoveryInv, NEW p \in Procs, pc[p] = "stage"
  PROVE  /\ loc[p].pin # None /\ Known(loc[p].pin) /\ Known(loc[p].obs)
         /\ loc[p].op # "append" => AtLeast(loc[p].pin, loc[p].obs)
         /\ loc[p].op = "begin" => loc[p].obs.gen >= target /\ Registered /\ GuardFits(loc[p])
BY DEF RecoveryInv, LocalsSound, LocalOK, Read

LEMMA StageGuardPageKeeps ==
  ASSUME RecoveryInv, NEW p \in Procs, StageGuardPage(p)
  PROVE  RecoveryInv'
<1> DEFINE l == loc[p]
<1>1. StoreSound /\ LocalOK(pc[p], l) /\ pc[p] = "stage"
  BY DEF RecoveryInv, LocalsSound, StageGuardPage, At
<1>2. Outcome(p)
  BY <1>1, StageGuardPageOutcome
<1>3. \/ UNCHANGED <<cand, mark>>
      \/ /\ trans = None /\ canon = None /\ (AtLeast(l.pin, mark) \/ mark = l.pin)
         /\ cand' = Pages(l.pin, l.n + 1) /\ mark' = l.pin
  BY DEF StageGuardPage
<1>4. /\ UNCHANGED <<relay, target, canon, trans, closed, prog, inbox, pcand, term, facts, tombs>>
  BY DEF StageGuardPage, At
<1>5. Known(l.pin) /\ (mark = l.pin => AtLeast(l.pin, mark))
  BY <1>1, StagePageFacts DEF Known, IsSnap, AtLeast
<1>6. StoreSound' /\ Forward
  <2>1. CASE UNCHANGED <<cand, mark>>
    BY <1>1, <1>4, <2>1, StoreStays DEF store
  <2>2. CASE /\ trans = None /\ canon = None /\ (AtLeast(l.pin, mark) \/ mark = l.pin)
             /\ cand' = Pages(l.pin, l.n + 1) /\ mark' = l.pin
    <3>1. PICK n : n = l.n + 1
      OBVIOUS
    <3> QED BY <1>1, <1>4, <1>5, <2>2, <3>1, GuardMoves
  <2> QED BY <1>3, <2>1, <2>2
<1> QED BY <1>2, <1>6, StepSound

\* A transition begins: the guard it was to begin from is still the candidate.
LEMMA BeginTransitionKeeps ==
  ASSUME RecoveryInv, NEW p \in Procs, BeginTransition(p)
  PROVE  RecoveryInv'
<1> DEFINE l == loc[p]
<1>1. /\ StoreSound /\ RelaySound /\ LocalOK(pc[p], l) /\ pc[p] = "stage" /\ l.op = "begin"
  BY DEF RecoveryInv, StoreSound, LocalsSound, BeginTransition, At
<1>2. Outcome(p)
  BY <1>1, BeginTransitionOutcome
<1>3. \/ UNCHANGED <<mark, cand, trans>>
      \/ /\ pcand = None /\ trans = None /\ StartsFrom(l.guard) /\ AtLeast(l.pin, mark)
         /\ mark' = l.pin /\ cand' = None
         /\ trans' = [attempt |-> Cardinality(closed) + 1, pred |-> l.guard,
                      succ |-> Pages(l.pin, 1)]
  BY DEF BeginTransition
<1>4. UNCHANGED <<relay, target, canon, closed, prog, inbox, pcand, term, facts, tombs>>
  BY DEF BeginTransition, At
<1>5. CASE UNCHANGED <<mark, cand, trans>>
  BY <1>1, <1>2, <1>4, <1>5, StoreStays, StepSound DEF store
<1>6. CASE /\ pcand = None /\ trans = None /\ StartsFrom(l.guard) /\ AtLeast(l.pin, mark)
           /\ mark' = l.pin /\ cand' = None
           /\ trans' = [attempt |-> Cardinality(closed) + 1, pred |-> l.guard,
                        succ |-> Pages(l.pin, 1)]
  <2>1. /\ Known(l.pin) /\ Known(l.obs) /\ AtLeast(l.pin, l.obs) /\ l.obs.gen >= target
        /\ Registered /\ GuardFits(l) /\ target \in Nat
    BY <1>1, StagePageFacts DEF RelaySound
  <2>2. /\ l.pin.gen \in Nat /\ l.pin.head \in Nat /\ l.obs.gen \in Nat
        /\ mark.gen \in Nat /\ mark.head \in Nat
    BY <1>1, <2>1 DEF Known, IsSnap, RelaySound
  <2>3. canon = None
    BY <1>1, <1>6, <2>1 DEF StartsFrom, GuardFits, StoreSound, AuthoritySound
  <2>4. l.guard # None => Within(l.guard) /\ Rests(l.guard)
    BY <1>1, <1>6, <2>1 DEF StartsFrom, GuardFits, StoreSound, AuthoritySound
  <2>5. RelaySound'
    <3>1. PICK s : s = l.pin
      OBVIOUS
    <3>2. Known(s)'
      BY <1>4, <2>1, <3>1 DEF Known, IsSnap, relay, Snapshot, AtLeast
    <3> QED BY <1>1, <1>4, <1>6, <3>1, <3>2 DEF RelaySound, relay, Known, IsSnap
  <2>6. PICK c : c = Pages(l.pin, 1) /\ trans'.succ = c
    BY <1>6
  <2>7. /\ c.gen = l.pin.gen /\ c.head = l.pin.head /\ SnapOf(c).gen = l.pin.gen
        /\ SnapOf(c).head = l.pin.head
    BY <2>6, SnapOfFacts
  <2>8. Within(c)' /\ c.gen >= target
    BY <1>6, <2>1, <2>2, <2>7 DEF Within, AtLeast
  <2>9. /\ trans' # None /\ DOMAIN trans' = {"attempt", "pred", "succ"} /\ trans'.pred = l.guard
        /\ trans'.attempt = Cardinality(closed) + 1
    BY <1>6, NothingElse
  <2>10. l.guard # None =>
           /\ l.guard.gen \in Nat /\ l.guard.head \in Nat
           /\ AtLeast(l.pin, SnapOf(l.guard)) /\ AtLeast(SnapOf(c), SnapOf(l.guard))
    BY <1>6, <2>2, <2>4, <2>7, SnapOfFacts DEF Within, AtLeast
  <2>11. Registered' /\ target' = target
    BY <1>4, <2>1 DEF Registered, relay
  <2>12. AuthoritySound'
    <3>1. Within(trans.succ)' /\ trans'.succ.gen >= target'
      BY <2>6, <2>8, <2>11 DEF Within
    <3>2. trans'.pred # None => /\ Within(trans.pred)' /\ Rests(trans.pred)'
                                /\ AtLeast(SnapOf(trans'.succ), SnapOf(trans'.pred))
      BY <1>6, <2>4, <2>6, <2>9, <2>10, <2>11 DEF Within, Rests
    <3>3. (trans'.pred = None) <=> (target' = 1)
      BY <2>1, <2>9, <2>11 DEF GuardFits
    <3> QED BY <1>1, <1>4, <1>6, <2>3, <2>9, <2>11, <3>1, <3>2, <3>3 DEF AuthoritySound, StoreSound
  <2>13. ReceiptsSound'
    <3>1. /\ IsFiniteSet(closed) /\ Cardinality(closed) \in Nat
          /\ \A a \in closed : a.attempt \in 1 .. Cardinality(closed)
      BY <1>1, FS_CardinalityType DEF StoreSound, ReceiptsSound
    <3>2. \A a \in closed : a.attempt # Cardinality(closed) + 1
      BY <3>1
    <3> QED BY <1>1, <1>4, <2>9, <3>2 DEF StoreSound, ReceiptsSound, OneOutcome
  <2>14. HistorySound' /\ Forward
    BY <1>1, <1>4, <2>3, HistoryKept, StillForward DEF StoreSound, relay
  <2> QED BY <1>2, <2>5, <2>12, <2>13, <2>14, StepSound DEF StoreSound
<1> QED BY <1>3, <1>5, <1>6

\* A successor is given up only for one at the watermark.
LEMMA ReplaceSuccessorKeeps ==
  ASSUME RecoveryInv, NEW p \in Procs, ReplaceSuccessor(p)
  PROVE  RecoveryInv'
<1> DEFINE l == loc[p]
<1>1. StoreSound /\ RelaySound /\ LocalOK(pc[p], l) /\ pc[p] = "stage"
  BY DEF RecoveryInv, StoreSound, LocalsSound, ReplaceSuccessor, At
<1>2. Outcome(p)
  BY <1>1, ReplaceSuccessorOutcome
<1>3. \/ UNCHANGED <<mark, trans>>
      \/ /\ trans # None /\ AtLeast(l.pin, mark) /\ mark' = l.pin
         /\ trans' = [trans EXCEPT !.succ = Pages(l.pin, 1)]
  BY DEF ReplaceSuccessor
<1>4. UNCHANGED <<relay, target, canon, cand, closed, prog, inbox, pcand, term, facts, tombs>>
  BY DEF ReplaceSuccessor, At
<1>5. StoreSound' /\ Forward
  <2>1. CASE UNCHANGED <<mark, trans>>
    BY <1>1, <1>4, <2>1, StoreStays DEF store
  <2>2. CASE /\ trans # None /\ AtLeast(l.pin, mark) /\ mark' = l.pin
             /\ trans' = [trans EXCEPT !.succ = Pages(l.pin, 1)]
    <3>1. Known(l.pin)
      BY <1>1, StagePageFacts
    <3> QED BY <1>1, <1>4, <2>2, <3>1, SuccessorMoves
  <2> QED BY <1>3, <2>1, <2>2
<1> QED BY <1>2, <1>5, StepSound

\* A successor gets its next page only at the watermark.
LEMMA AppendSuccessorKeeps ==
  ASSUME RecoveryInv, NEW p \in Procs, AppendSuccessor(p)
  PROVE  RecoveryInv'
<1> DEFINE l == loc[p]
<1>1. StoreSound /\ RelaySound /\ LocalOK(pc[p], l) /\ pc[p] = "stage"
  BY DEF RecoveryInv, StoreSound, LocalsSound, AppendSuccessor, At
<1>2. Outcome(p)
  BY <1>1, AppendSuccessorOutcome
<1>3. \/ UNCHANGED trans
      \/ /\ trans # None /\ mark = l.pin
         /\ trans' = [trans EXCEPT !.succ = Pages(l.pin, l.n + 1)]
  BY DEF AppendSuccessor, SameAttempt
<1>4. UNCHANGED <<relay, target, canon, mark, cand, closed, prog, inbox, pcand, term, facts, tombs>>
  BY DEF AppendSuccessor, At
<1>5. StoreSound' /\ Forward
  <2>1. CASE UNCHANGED trans
    BY <1>1, <1>4, <2>1, StoreStays DEF store
  <2>2. CASE /\ trans # None /\ mark = l.pin
             /\ trans' = [trans EXCEPT !.succ = Pages(l.pin, l.n + 1)]
    <3>1. Known(l.pin) /\ AtLeast(l.pin, mark) /\ mark' = l.pin
      BY <1>1, <1>4, <2>2, StagePageFacts DEF Known, IsSnap, AtLeast
    <3>2. PICK n : n = l.n + 1
      OBVIOUS
    <3> QED BY <1>1, <1>4, <2>2, <3>1, <3>2, SuccessorMoves
  <2> QED BY <1>3, <2>1, <2>2
<1> QED BY <1>2, <1>5, StepSound

\* What was read stays so.
LEMMA ReadForward ==
  ASSUME NEW l, Read(l), Forward
  PROVE  Read(l)'
BY DEF Read, Known, IsSnap, Forward, AtLeast

\* The successor becomes the canonical authority.
LEMMA PromoteAuthorityKeeps ==
  ASSUME RecoveryInv, NEW p \in Procs, PromoteAuthority(p)
  PROVE  RecoveryInv'
<1> DEFINE l == loc[p]
<1>1. StoreSound /\ RelaySound /\ LocalOK(pc[p], l) /\ pc[p] = "promote"
  BY DEF RecoveryInv, StoreSound, LocalsSound, PromoteAuthority, At
<1>2. UNCHANGED <<relay, target, mark, cand, inbox, pcand, term, facts, tombs>>
  BY DEF PromoteAuthority, At
<1>3. CASE Receipt(l.st.attempt, "promoted", l.pin) \in closed
  <2> DEFINE r == Receipt(l.st.attempt, "promoted", l.pin)
  <2>1. r.outcome = "promoted" /\ r.snap = l.pin
    BY DEF Receipt
  <2>2. canon = l.pin /\ canon # None
    <3> HIDE DEF r
    <3>1. r \in closed
      BY <1>3 DEF r
    <3> QED BY <1>1, <2>1, <3>1, SnapFacts DEF StoreSound, ReceiptsSound, OneOutcome
  <2>3. UNCHANGED <<canon, trans, closed, prog>>
        /\ (Go(p, "download", [NoLocal EXCEPT !.bind = canon]) \/ Fail(p, "restart"))
    BY <1>3 DEF PromoteAuthority
  <2>4. Outcome(p)
    BY <1>1, <2>2, <2>3, FollowOutcome DEF Outcome
  <2> QED BY <1>1, <1>2, <2>3, <2>4, StoreStays, StepSound DEF store
<1>4. CASE UNCHANGED <<canon, trans, closed, prog>> /\ Reclassify(p)
  BY <1>1, <1>2, <1>4, StoreStays, ReclassifyOutcome, StepSound DEF store
<1>5. CASE /\ trans # None /\ trans = l.st /\ trans.succ.ready /\ mark = l.pin
           /\ canon' = l.pin /\ trans' = None /\ prog' = FreshProgress
           /\ closed' = closed \cup {Receipt(trans.attempt, "promoted", l.pin)}
           /\ Go(p, "download", [NoLocal EXCEPT !.bind = canon'])
  <2>1. /\ canon = None /\ cand = None /\ pcand = None /\ prog = None
        /\ Within(trans.succ) /\ trans.succ.gen >= target /\ Registered
        /\ Known(mark) /\ target \in Nat
    BY <1>1, <1>5 DEF StoreSound, AuthoritySound, RelaySound
  <2>2. /\ IsSnap(mark) /\ mark # None /\ mark.gen \in Nat /\ mark.head \in Nat /\ mark.gen >= target
    <3>1. IsSnap(mark) /\ mark # None /\ mark.gen \in Nat /\ mark.head \in Nat
      BY <2>1, SnapFacts DEF Known, IsSnap
    <3> QED BY <2>1, <3>1, SnapOfFacts DEF Within, AtLeast
  <2>3. prog' # None /\ DOMAIN prog' = {"state", "applied", "downloaded", "head"}
        /\ prog'.applied = 0 /\ prog'.downloaded = 0 /\ prog'.state = "staging"
    <3>1. DOMAIN None = {"none"}
      BY DEF None
    <3> QED BY <1>5, <3>1 DEF FreshProgress
  <2>4. Forward
    BY <1>1, <1>2, <2>1, StillForward DEF relay
  <2>5. RelaySound'
    BY <1>1, <1>2 DEF RelaySound, relay, Known, IsSnap, Snapshot, AtLeast
  <2>6. Registered' /\ target' = target
    BY <1>2, <2>1 DEF Registered, relay
  <2>7. AuthoritySound'
    BY <1>2, <1>5, <2>1, <2>2, <2>3, <2>6 DEF AuthoritySound, IsSnap, AtLeast
  <2>8. ReceiptsSound'
    BY <1>1, <1>5, <2>1, <2>2, ReceiptEnds DEF StoreSound
  <2>9. HistorySound'
    <3>1. /\ facts = {} /\ tombs = {} /\ DOMAIN inbox = {}
          /\ \A i \in DOMAIN inbox : inbox[i] \in {"sealed", "pruned"}
      BY <1>1, <2>1 DEF StoreSound, HistorySound
    <3>2. /\ facts' = {} /\ tombs' = {} /\ DOMAIN inbox' = {}
          /\ prog'.applied + 1 .. prog'.downloaded = {} /\ 1 .. prog'.applied = {}
          /\ canon'.head \in Nat
      BY <1>2, <1>5, <2>2, <2>3, <3>1
    <3>3. term' # None =>
            /\ DOMAIN term' = {"auth", "start", "through"}
            /\ term'.start \in Nat /\ term'.through \in Nat
            /\ 1 <= term'.start /\ term'.start <= term'.through
      BY <1>1, <1>2 DEF StoreSound, HistorySound
    <3> QED BY <2>3, <3>2, <3>3 DEF HistorySound
  <2>10. LocalsSound'
    <3>1. PICK m : m = [NoLocal EXCEPT !.bind = canon']
      OBVIOUS
    <3>2. Read(m) /\ m.bind = canon'
      BY <1>1, <3>1, FreshRead
    <3>3. Read(m)'
      BY <2>4, <3>2, ReadForward
    <3>4. LocalOK("download", m)'
      BY <1>5, <2>2, <3>2, <3>3 DEF LocalOK, Downloading
    <3>5. Go(p, "download", m) /\ LocalsSound
      BY <1>5, <3>1 DEF RecoveryInv
    <3> QED BY <2>4, <3>4, <3>5, LocalsMove
  <2> QED BY <2>5, <2>7, <2>8, <2>9, <2>10 DEF RecoveryInv, StoreSound
<1> QED BY <1>3, <1>4, <1>5 DEF PromoteAuthority

\* The writer joins, or is answered as before; the answer may be lost.
LEMMA RegisterEnvironmentKeeps ==
  ASSUME RecoveryInv, NEW p \in Procs, RegisterEnvironment(p)
  PROVE  RecoveryInv'
<1> DEFINE l == loc[p]
<1>1. StoreSound /\ RelaySound /\ LocalsSound /\ LocalOK(pc[p], l)
  BY DEF RecoveryInv, StoreSound, LocalsSound
<1>2. UNCHANGED <<arrivals, target, store>> /\ (UNCHANGED <<relay, target, store>> <=> members' = members)
  BY DEF RegisterEnvironment, At, relay
<1>3. CASE Fail(p, "restart") /\ UNCHANGED members
  <2>1. Outcome(p)
    BY <1>3 DEF Outcome
  <2> QED BY <1>1, <1>2, <1>3, <2>1, StoreStays, StepSound
<1>4. CASE /\ \/ members' = members
              \/ members' = Append(members, [kind |-> "join", env |-> Writer])
           /\ Go(p, "registered", [l EXCEPT !.obs = Snap(Len(members'), Len(arrivals))])
  <2>1. StoreSound' /\ Forward
    <3>1. CASE members' = members
      BY <1>1, <1>2, <3>1, StoreStays
    <3>2. CASE members' = Append(members, [kind |-> "join", env |-> Writer])
      BY <1>1, <1>2, <3>2, MembersGrow
    <3> QED BY <1>4, <3>1, <3>2
  <2>2. PICK m : m = [l EXCEPT !.obs = Snap(Len(members'), Len(arrivals))]
    OBVIOUS
  <2>3. /\ DOMAIN m = Fields /\ m.mode = l.mode /\ m.pin = l.pin /\ m.reg = l.reg
        /\ m.obs = Snap(Len(members'), Len(arrivals))
    BY <1>1, <2>2 DEF LocalOK, Read, Fields
  <2>4. Known(m.obs)'
    <3>1. Len(members)' \in Nat /\ Len(arrivals)' \in Nat /\ arrivals' = arrivals
      BY <1>2, <2>1 DEF StoreSound, RelaySound
    <3>2. /\ IsSnap(m.obs) /\ m.obs.gen = Len(members') /\ m.obs.head = Len(arrivals)
          /\ Snapshot'.gen = Len(members') /\ Snapshot'.head = Len(arrivals)
      BY <2>3, <3>1, SnapFacts DEF Snapshot
    <3> QED BY <3>1, <3>2 DEF Known, AtLeast, IsSnap
  <2>5. Read(m)'
    <3>1. PICK o : o = l
      OBVIOUS
    <3>2. Read(o)'
      BY <1>1, <2>1, <3>1, ReadForward DEF LocalOK
    <3> QED BY <2>3, <2>4, <3>1, <3>2 DEF Read
  <2>6. LocalOK("registered", m)'
    BY <2>5 DEF LocalOK, Downloading
  <2> QED BY <1>1, <1>4, <2>1, <2>2, <2>6, LocalsMove DEF RecoveryInv
<1> QED BY <1>3, <1>4 DEF RegisterEnvironment

LEMMA RegistrationLostKeeps ==
  ASSUME RecoveryInv, NEW p \in Procs, RegistrationLost(p)
  PROVE  RecoveryInv'
<1>1. /\ StoreSound /\ members' = Append(members, [kind |-> "join", env |-> Writer])
      /\ UNCHANGED <<arrivals, target, store>> /\ Fail(p, "retry")
  BY DEF RecoveryInv, RegistrationLost, Fault
<1>2. StoreSound' /\ Forward
  BY <1>1, MembersGrow
<1> QED BY <1>1, <1>2, StepSound DEF Outcome

\* Progress or what is staged moves on under the pinned authority.
LEMMA ProgressMoves ==
  ASSUME StoreSound, canon # None, prog' # None, HistorySound',
         UNCHANGED <<relay, target, canon, mark, cand, trans, closed>>,
         prog'.downloaded \in Nat, prog.downloaded <= prog'.downloaded
  PROVE  StoreSound' /\ Forward
<1>1. trans = None /\ prog # None
  BY DEF StoreSound, AuthoritySound
<1>2. Known(mark') /\ AtLeast(mark', mark)
  BY DEF StoreSound, RelaySound, Known, IsSnap, AtLeast
<1>3. RelaySound'
  <2>1. Known(mark)'
    BY <1>2 DEF Known, Snapshot, relay, IsSnap, AtLeast
  <2> QED BY <2>1 DEF StoreSound, RelaySound, relay
<1>4. Registered => Registered'
  BY DEF Registered, relay
<1>5. AuthoritySound'
  BY <1>1, <1>2, <1>4, AuthorityKept DEF Known
<1>6. ReceiptsSound'
  BY ReceiptsKept DEF StoreSound
<1>7. Forward
  BY StillForward DEF relay
<1> QED BY <1>3, <1>5, <1>6, <1>7 DEF StoreSound

\* Everything is here already: progress notes how far the relay's prefix goes.
LEMMA StageNoFramesKeeps ==
  ASSUME RecoveryInv, NEW p \in Procs, StageNoFrames(p)
  PROVE  RecoveryInv'
<1>1. StoreSound /\ AuthoritySound /\ HistorySound /\ LocalOK(pc[p], loc[p])
      /\ pc[p] \in Downloading
  BY DEF RecoveryInv, StoreSound, LocalsSound, StageNoFrames, At, Downloading
<1>2. Outcome(p) /\ canon # None /\ prog # None
  BY <1>1, StageNoFramesOutcome, Pinned DEF StageNoFrames
<1>3. /\ UNCHANGED <<relay, target, canon, mark, cand, trans, closed, inbox, pcand, term, facts, tombs>>
      /\ prog' = prog \/ prog' = [prog EXCEPT !.head = loc[p].bind.head]
  BY DEF StageNoFrames, At, authority
<1>4. /\ DOMAIN prog' = {"state", "applied", "downloaded", "head"}
      /\ prog'.applied = prog.applied /\ prog'.downloaded = prog.downloaded
      /\ prog'.state = prog.state
      /\ DOMAIN prog = {"state", "applied", "downloaded", "head"}
      /\ prog.downloaded \in Nat /\ prog.downloaded <= prog'.downloaded
  BY <1>1, <1>2, <1>3 DEF HistorySound
<1>5. prog' # None
  <2>1. DOMAIN None = {"none"}
    BY DEF None
  <2> QED BY <1>4, <2>1
<1>6. HistorySound'
  BY <1>1, <1>2, <1>3, <1>4, <1>5 DEF HistorySound
<1>7. StoreSound' /\ Forward
  BY <1>1, <1>2, <1>3, <1>4, <1>5, <1>6, ProgressMoves
<1> QED BY <1>2, <1>7, StepSound

\* A frame is staged right after what is downloaded, or is one that is held already.
LEMMA StageFrameKeeps ==
  ASSUME RecoveryInv, NEW p \in Procs, StageFrame(p)
  PROVE  RecoveryInv'
<1> DEFINE l == loc[p]
           i == l.after + 1
<1>1. /\ StoreSound /\ RelaySound /\ AuthoritySound /\ HistorySound /\ LocalsSound
      /\ LocalOK(pc[p], l) /\ pc[p] = "frame" /\ pc[p] \in Downloading
  BY DEF RecoveryInv, StoreSound, LocalsSound, StageFrame, At, Downloading
<1>2. /\ Read(l) /\ canon # None /\ l.bind = canon /\ prog # None
      /\ canon.head \in Nat /\ prog.applied \in Nat /\ prog.downloaded \in Nat
      /\ prog.applied <= prog.downloaded /\ prog.downloaded <= canon.head
  BY <1>1, Pinned
<1>3. /\ l.after \in Nat /\ l.after < canon.head /\ l.after <= prog.downloaded
      /\ l.page \in {"sealed", "pruned"} /\ i \in Nat
  BY <1>1 DEF LocalOK
<1>4. UNCHANGED <<relay, target, canon, mark, cand, trans, closed, pcand, term, facts, tombs>>
  BY DEF StageFrame, At, authority
<1>5. DOMAIN prog = {"state", "applied", "downloaded", "head"}
  BY <1>1, <1>2 DEF HistorySound
<1>6. DOMAIN None = {"none"}
  BY DEF None
<1>7. ASSUME NEW d \in Nat, prog'.downloaded = d, d <= canon.head, StoreSound', Forward,
             IF d = l.bind.head THEN Go(p, "cutoff", l)
                                ELSE Go(p, "fetch", [l EXCEPT !.after = d])
      PROVE  RecoveryInv'
  <2>1. CASE d = l.bind.head
    <3>1. LocalOK("cutoff", l)
      BY <1>2, DownloadOK
    <3>2. Outcome(p)
      BY <1>7, <2>1, <3>1 DEF Outcome
    <3> QED BY <1>7, <3>2, StepSound
  <2>2. CASE d # l.bind.head
    <3>1. PICK m : m = [l EXCEPT !.after = d]
      OBVIOUS
    <3>2. /\ DOMAIN m = Fields /\ m.mode = l.mode /\ m.obs = l.obs /\ m.pin = l.pin
          /\ m.reg = l.reg /\ m.bind = l.bind /\ m.after = d
      BY <1>2, <3>1 DEF Read, Fields
    <3>3. Read(m)'
      BY <1>2, <1>7, <3>2, ReadKept, ReadForward
    <3>4. LocalOK("fetch", m)'
      <4>1. canon' = canon /\ d < canon.head
        BY <1>2, <1>4, <1>7, <2>2
      <4> QED BY <1>2, <1>7, <3>2, <3>3, <4>1 DEF LocalOK, Downloading
    <3>5. Go(p, "fetch", m)
      BY <1>7, <2>2, <3>1
    <3> QED BY <1>1, <1>7, <3>4, <3>5, LocalsMove DEF RecoveryInv
  <2> QED BY <2>1, <2>2
<1>8. CASE Fail(p, "restart") /\ UNCHANGED <<prog, inbox>>
  <2>1. Outcome(p)
    BY <1>8 DEF Outcome
  <2> QED BY <1>1, <1>4, <1>8, <2>1, StoreStays, StepSound DEF store
<1>9. CASE /\ prog.downloaded >= i
           /\ prog' = [prog EXCEPT !.head = l.bind.head]
           /\ IF prog.downloaded = l.bind.head
                THEN Go(p, "cutoff", l)
                ELSE Go(p, "fetch", [l EXCEPT !.after = prog.downloaded])
           /\ UNCHANGED inbox
  <2>1. /\ DOMAIN prog' = {"state", "applied", "downloaded", "head"}
        /\ prog'.applied = prog.applied /\ prog'.downloaded = prog.downloaded
        /\ prog'.state = prog.state
    BY <1>5, <1>9
  <2>2. prog' # None
    BY <1>6, <2>1
  <2>3. HistorySound'
    BY <1>1, <1>2, <1>4, <1>9, <2>1, <2>2 DEF HistorySound
  <2>4. StoreSound' /\ Forward
    BY <1>1, <1>2, <1>4, <2>1, <2>2, <2>3, ProgressMoves
  <2> QED BY <1>2, <1>7, <1>9, <2>1, <2>4
<1>10. CASE /\ ~ (prog.downloaded >= i)
            /\ prog' = [prog EXCEPT !.downloaded = i, !.head = l.bind.head]
            /\ inbox' = [k \in DOMAIN inbox \cup {i} |-> IF k = i THEN l.page ELSE inbox[k]]
            /\ IF i = l.bind.head THEN Go(p, "cutoff", l)
                                  ELSE Go(p, "fetch", [l EXCEPT !.after = i])
  <2>1. /\ DOMAIN prog' = {"state", "applied", "downloaded", "head"}
        /\ prog'.applied = prog.applied /\ prog'.downloaded = i /\ prog'.state = prog.state
    BY <1>5, <1>10
  <2>2. prog' # None
    BY <1>6, <2>1
  <2>3. i = prog.downloaded + 1 /\ i <= canon.head
    BY <1>2, <1>3, <1>10
  <2>4. HistorySound'
    <3>1. \A k \in DOMAIN inbox' : inbox'[k] \in {"sealed", "pruned"}
      BY <1>1, <1>3, <1>10 DEF HistorySound
    <3>2. DOMAIN inbox' = prog'.applied + 1 .. prog'.downloaded
      <4>1. DOMAIN inbox = prog.applied + 1 .. prog.downloaded /\ DOMAIN inbox' = DOMAIN inbox \cup {i}
        BY <1>1, <1>2, <1>10 DEF HistorySound
      <4> QED BY <1>2, <2>1, <2>3, <4>1
    <3>3. /\ prog'.applied \in Nat /\ prog'.downloaded \in Nat
          /\ prog'.applied <= prog'.downloaded /\ prog'.downloaded <= canon'.head
      BY <1>2, <1>4, <2>1, <2>3
    <3>4. /\ facts' \cup tombs' = 1 .. prog'.applied
          /\ prog'.applied = 0 \/ prog'.applied = canon'.head
          /\ prog'.state = "attached" => prog'.applied # 0
      BY <1>1, <1>2, <1>4, <2>1 DEF HistorySound
    <3>5. term' # None =>
            /\ DOMAIN term' = {"auth", "start", "through"}
            /\ term'.start \in Nat /\ term'.through \in Nat
            /\ 1 <= term'.start /\ term'.start <= term'.through
      BY <1>1, <1>4 DEF HistorySound
    <3> QED BY <2>1, <2>2, <3>1, <3>2, <3>3, <3>4, <3>5 DEF HistorySound
  <2>5. StoreSound' /\ Forward
    <3>1. prog'.downloaded \in Nat /\ prog.downloaded <= prog'.downloaded
      BY <1>2, <2>1, <2>3
    <3> QED BY <1>1, <1>2, <1>4, <2>2, <2>4, <3>1, ProgressMoves
  <2> QED BY <1>3, <1>7, <1>10, <2>1, <2>3, <2>5
<1> QED BY <1>8, <1>9, <1>10 DEF StageFrame

\* A page of the prune inventory is kept.
LEMMA StagePruneKeeps ==
  ASSUME RecoveryInv, NEW p \in Procs, StagePrune(p)
  PROVE  RecoveryInv'
<1>1. StoreSound /\ AuthoritySound /\ HistorySound /\ LocalOK(pc[p], loc[p])
      /\ pc[p] \in Downloading
  BY DEF RecoveryInv, StoreSound, LocalsSound, StagePrune, At, Downloading
<1>2. Outcome(p) /\ canon # None /\ prog # None /\ prog.downloaded \in Nat
  BY <1>1, StagePruneOutcome, Pinned
<1>3. UNCHANGED <<relay, target, canon, mark, cand, trans, closed, prog, inbox, term, facts, tombs>>
  BY DEF StagePrune, At, authority
<1>4. HistorySound'
  BY <1>1, <1>3, HistoryKept
<1>5. StoreSound' /\ Forward
  BY <1>1, <1>2, <1>3, <1>4, ProgressMoves
<1> QED BY <1>2, <1>5, StepSound

\* The terminal candidate starts right after what is applied and grows by a frame.
LEMMA StageChunkKeeps ==
  ASSUME RecoveryInv, NEW p \in Procs, StageChunk(p)
  PROVE  RecoveryInv'
<1> DEFINE l == loc[p]
           i == l.after + 1
<1>1. /\ StoreSound /\ AuthoritySound /\ HistorySound /\ LocalOK(pc[p], loc[p])
      /\ pc[p] = "chunk" /\ pc[p] \in Downloading
  BY DEF RecoveryInv, StoreSound, LocalsSound, StageChunk, At, Downloading
<1>2. Outcome(p) /\ canon # None /\ prog # None /\ prog.downloaded \in Nat
  BY <1>1, StageChunkOutcome, Pinned
<1>3. UNCHANGED <<relay, target, canon, mark, cand, trans, closed, prog, inbox, pcand, facts, tombs>>
      /\ (term' = term \/ term' = TerminalWith(l.bind, i))
  BY DEF StageChunk, At, authority
<1>4. l.after \in Nat
  BY <1>1 DEF LocalOK
<1>5. term' # None =>
        /\ DOMAIN term' = {"auth", "start", "through"}
        /\ term'.start \in Nat /\ term'.through \in Nat
        /\ 1 <= term'.start /\ term'.start <= term'.through
  <2>1. term # None =>
          /\ DOMAIN term = {"auth", "start", "through"}
          /\ term.start \in Nat /\ term.through \in Nat
          /\ 1 <= term.start /\ term.start <= term.through
    BY <1>1 DEF HistorySound
  <2>2. CASE term' = term
    BY <2>1, <2>2
  <2>3. CASE term' = TerminalWith(l.bind, i) /\ term = None
    <3>1. term' = [auth |-> l.bind, start |-> i, through |-> i]
      BY <2>3 DEF TerminalWith
    <3> QED BY <1>4, <3>1
  <2>4. CASE term' = TerminalWith(l.bind, i) /\ term # None /\ i <= term.through
    BY <2>1, <2>4 DEF TerminalWith
  <2>5. CASE term' = TerminalWith(l.bind, i) /\ term # None /\ ~ (i <= term.through)
    <3>1. term' = [term EXCEPT !.through = i]
      BY <2>5 DEF TerminalWith
    <3> QED BY <1>4, <2>1, <2>5, <3>1
  <2> QED BY <1>3, <2>2, <2>3, <2>4, <2>5
<1>6. HistorySound'
  BY <1>1, <1>3, <1>5 DEF HistorySound
<1>7. StoreSound' /\ Forward
  BY <1>1, <1>2, <1>3, <1>6, ProgressMoves
<1> QED BY <1>2, <1>7, StepSound

\* The whole staged history, which is the whole pinned prefix, becomes facts and
\* tombstones: nothing was applied before.
LEMMA TerminalIsWhole ==
  ASSUME HistorySound, canon # None, canon.head \in Nat, prog # None, term # None, CoversPrefix
  PROVE  /\ prog.applied = 0 /\ facts = {} /\ tombs = {} /\ prog.state # "attached"
         /\ DOMAIN inbox = 1 .. canon.head
         /\ term.start = 1 /\ term.through = canon.head /\ prog.downloaded = canon.head
         /\ Staged("sealed") \cup Staged("pruned") = 1 .. canon.head
         /\ Staged("sealed") \cap Staged("pruned") = {}
<1>1. /\ term.start \in Nat /\ term.through \in Nat /\ 1 <= term.start /\ term.start <= term.through
      /\ prog.applied \in Nat /\ (prog.applied = 0 \/ prog.applied = canon.head)
      /\ facts \cup tombs = 1 .. prog.applied
      /\ DOMAIN inbox = prog.applied + 1 .. prog.downloaded
      /\ \A i \in DOMAIN inbox : inbox[i] \in {"sealed", "pruned"}
      /\ prog.state = "attached" => prog.applied # 0
  BY DEF HistorySound
<1>2. term.through = canon.head /\ prog.downloaded = canon.head /\ prog.applied = term.start - 1
  BY DEF CoversPrefix
<1>3. prog.applied = 0 /\ term.start = 1
  BY <1>1, <1>2
<1>4. facts = {} /\ tombs = {} /\ DOMAIN inbox = 1 .. canon.head
  BY <1>1, <1>2, <1>3
<1> QED BY <1>1, <1>2, <1>3, <1>4 DEF Staged

LEMMA PromoteTerminalKeeps ==
  ASSUME RecoveryInv, NEW p \in Procs, PromoteTerminal(p)
  PROVE  RecoveryInv'
<1>1. StoreSound /\ AuthoritySound /\ HistorySound /\ LocalOK(pc[p], loc[p])
      /\ pc[p] \in Downloading
  BY DEF RecoveryInv, StoreSound, LocalsSound, PromoteTerminal, At, Downloading
<1>2. /\ Outcome(p) /\ canon # None /\ prog # None /\ prog.downloaded \in Nat /\ canon.head \in Nat
      /\ prog.downloaded <= canon.head
  BY <1>1, PromoteTerminalOutcome, Pinned
<1>3. UNCHANGED <<relay, target, canon, mark, cand, trans, closed>>
  BY DEF PromoteTerminal, At, authority
<1>4. CASE UNCHANGED <<prog, inbox, pcand, term, facts, tombs>>
  BY <1>1, <1>2, <1>3, <1>4, StoreStays, StepSound DEF store
<1>5. CASE term # None /\ CoversPrefix /\ ApplyTerminal
  <2>1. /\ prog.applied = 0 /\ facts = {} /\ tombs = {} /\ prog.state # "attached"
        /\ term.through = canon.head /\ prog.downloaded = canon.head
        /\ Staged("sealed") \cup Staged("pruned") = 1 .. canon.head
    BY <1>1, <1>2, <1>5, TerminalIsWhole
  <2>2. /\ DOMAIN prog' = {"state", "applied", "downloaded", "head"}
        /\ prog'.applied = canon.head /\ prog'.downloaded = canon.head
        /\ prog'.state # "attached"
    BY <1>1, <1>2, <1>5, <2>1 DEF ApplyTerminal, HistorySound
  <2>3. prog' # None
    <3>1. DOMAIN None = {"none"}
      BY DEF None
    <3> QED BY <2>2, <3>1
  <2>4. /\ facts' \cup tombs' = 1 .. canon.head /\ DOMAIN inbox' = {} /\ term' = None
    BY <1>5, <2>1 DEF ApplyTerminal
  <2>5. canon.head + 1 .. canon.head = {}
    BY <1>2
  <2>6. HistorySound'
    BY <1>2, <1>3, <2>2, <2>3, <2>4, <2>5 DEF HistorySound
  <2>7. StoreSound' /\ Forward
    BY <1>1, <1>2, <1>3, <2>1, <2>2, <2>3, <2>6, ProgressMoves
  <2> QED BY <1>2, <2>7, StepSound
<1> QED BY <1>4, <1>5 DEF PromoteTerminal

\* The channel becomes active.
LEMMA ActivateKeeps ==
  ASSUME RecoveryInv, NEW p \in Procs, Activate(p)
  PROVE  RecoveryInv'
<1>1. StoreSound /\ AuthoritySound /\ HistorySound /\ LocalOK(pc[p], loc[p])
      /\ pc[p] \in Downloading
  BY DEF RecoveryInv, StoreSound, LocalsSound, Activate, At, Downloading
<1>2. Outcome(p) /\ canon # None /\ prog # None
  BY <1>1, ActivateOutcome, Pinned
<1>3. /\ UNCHANGED <<relay, target, canon, mark, cand, trans, closed, inbox, pcand, term, facts, tombs>>
      /\ prog' = prog \/ (facts # {} /\ prog' = [prog EXCEPT !.state = "attached"])
  BY DEF Activate, At, authority
<1>4. /\ DOMAIN prog' = {"state", "applied", "downloaded", "head"}
      /\ prog'.applied = prog.applied /\ prog'.downloaded = prog.downloaded
      /\ prog.downloaded \in Nat /\ prog.downloaded <= prog'.downloaded
  BY <1>1, <1>2, <1>3 DEF HistorySound
<1>5. prog' # None
  <2>1. DOMAIN None = {"none"}
    BY DEF None
  <2> QED BY <1>4, <2>1
<1>6. HistorySound'
  <2>1. prog'.state = "attached" => prog'.applied # 0
    <3>1. CASE prog' = prog
      BY <1>1, <1>2, <3>1 DEF HistorySound
    <3>2. CASE facts # {}
      <4>1. facts \cup tombs = 1 .. prog.applied /\ 1 .. 0 = {}
        BY <1>1, <1>2 DEF HistorySound
      <4> QED BY <1>4, <3>2, <4>1
    <3> QED BY <1>3, <3>1, <3>2
  <2> QED BY <1>1, <1>2, <1>3, <1>4, <1>5, <2>1 DEF HistorySound
<1>7. StoreSound' /\ Forward
  BY <1>1, <1>2, <1>3, <1>4, <1>5, <1>6, ProgressMoves
<1> QED BY <1>2, <1>7, StepSound

\* Faults, and what an operator gives up.
LEMMA FaultsKeep ==
  ASSUME RecoveryInv, Faults
  PROVE  RecoveryInv'
<1>1. StoreSound /\ RelaySound /\ AuthoritySound /\ ReceiptsSound /\ HistorySound /\ LocalsSound
  BY DEF RecoveryInv, StoreSound
<1>2. ASSUME NEW p \in Procs, Crash(p) PROVE RecoveryInv'
  <2>1. UNCHANGED <<relay, target, store>>
    BY <1>2 DEF Crash, Fault
  <2>2. StoreSound' /\ Forward
    BY <1>1, <2>1, StoreStays
  <2>3. Go(p, "idle", NoLocal) /\ LocalOK("idle", NoLocal)
    BY <1>1, <1>2, IdleOK DEF Crash, Go
  <2>4. Outcome(p)
    BY <2>3 DEF Outcome
  <2> QED BY <2>2, <2>4, StepSound
<1>3. ASSUME NEW p \in Procs, RegistrationLost(p) PROVE RecoveryInv'
  BY <1>3, RegistrationLostKeeps
<1>4. ASSUME RelaySound', AuthoritySound', ReceiptsSound', HistorySound', Forward,
             UNCHANGED <<pc, loc>>
      PROVE  RecoveryInv'
  BY <1>1, <1>4, LocalsStay DEF RecoveryInv, StoreSound
<1>5. ASSUME UNCHANGED <<relay, target, mark>> PROVE RelaySound' /\ (Registered => Registered')
  <2>1. Known(mark)'
    BY <1>1, <1>5 DEF RelaySound, Known, Snapshot, relay, IsSnap, AtLeast
  <2> QED BY <1>1, <1>5, <2>1 DEF RelaySound, relay, Registered
<1>6. CASE DiscardAuthorityCandidate
  <2>1. /\ UNCHANGED <<relay, target, canon, mark, trans, closed, prog, inbox, pcand, term, facts, tombs, pc, loc>>
        /\ cand' = None
    BY <1>6 DEF DiscardAuthorityCandidate, Fault, procs
  <2>2. AuthoritySound'
    BY <1>1, <1>5, <2>1 DEF AuthoritySound, Within, Rests
  <2>3. ReceiptsSound' /\ HistorySound' /\ Forward
    BY <1>1, <2>1, ReceiptsKept, HistoryKept, StillForward DEF relay, AuthoritySound, HistorySound
  <2> QED BY <1>4, <1>5, <2>1, <2>2, <2>3
<1>7. CASE AbortTransition
  <2>1. /\ UNCHANGED <<relay, target, canon, mark, prog, inbox, pcand, term, facts, tombs, pc, loc>>
        /\ trans # None /\ trans' = None /\ cand' = trans.pred
        /\ closed' = closed \cup {Receipt(trans.attempt, "aborted", SnapOf(trans.succ))}
    BY <1>7 DEF AbortTransition, Fault, procs
  <2>2. canon = None /\ Within(trans.succ) /\ (trans.pred # None => Within(trans.pred))
    BY <1>1, <2>1 DEF AuthoritySound
  <2>3. AuthoritySound'
    BY <1>1, <2>1, <2>2 DEF AuthoritySound, Within
  <2>4. IsSnap(SnapOf(trans.succ))
    BY <2>2, SnapFacts DEF Within, SnapOf
  <2>5. ReceiptsSound'
    BY <1>1, <2>1, <2>2, <2>4, ReceiptEnds
  <2>6. HistorySound' /\ Forward
    BY <1>1, <2>1, <2>2, HistoryKept, StillForward DEF relay
  <2> QED BY <1>4, <1>5, <2>1, <2>3, <2>5, <2>6
<1>8. CASE DiscardPruneCandidate
  <2>1. /\ UNCHANGED <<relay, target, canon, mark, cand, trans, closed, prog, inbox, term, facts, tombs, pc, loc>>
        /\ trans = None
    BY <1>8 DEF DiscardPruneCandidate, Fault, procs
  <2>2. AuthoritySound'
    BY <1>1, <1>5, <2>1 DEF AuthoritySound, Within, Rests
  <2>3. ReceiptsSound' /\ HistorySound' /\ Forward
    BY <1>1, <2>1, ReceiptsKept, HistoryKept, StillForward DEF relay, AuthoritySound, HistorySound
  <2> QED BY <1>4, <1>5, <2>1, <2>2, <2>3
<1>9. CASE DiscardTerminalCandidate
  <2>1. /\ UNCHANGED <<relay, target, canon, mark, cand, trans, closed, prog, inbox, pcand, facts, tombs, pc, loc>>
        /\ term' = None
    BY <1>9 DEF DiscardTerminalCandidate, Fault, procs
  <2>2. AuthoritySound'
    BY <1>1, <1>5, <2>1 DEF AuthoritySound, Within, Rests
  <2>3. ReceiptsSound' /\ Forward
    BY <1>1, <2>1, ReceiptsKept, StillForward DEF relay, AuthoritySound, HistorySound
  <2>4. HistorySound'
    BY <1>1, <2>1 DEF HistorySound
  <2> QED BY <1>4, <1>5, <2>1, <2>2, <2>3, <2>4
<1> QED BY <1>2, <1>3, <1>6, <1>7, <1>8, <1>9 DEF Faults

\* The relay moves under the processes.
LEMMA RelayMovesKeep ==
  ASSUME RecoveryInv, RelayMoves
  PROVE  RecoveryInv'
<1>1. StoreSound /\ LocalsSound /\ arrivals \in Seq({"sealed", "pruned"})
  BY DEF RecoveryInv, StoreSound, RelaySound
<1>2. UNCHANGED <<target, store, pc, loc>>
  BY DEF RelayMoves, OtherJoins, OtherRetires, OtherAppends, OtherPrunes, procs
<1>3. CASE OtherJoins \/ OtherRetires
  <2>1. PICK e : members' = Append(members, e) /\ UNCHANGED arrivals
    BY <1>3 DEF OtherJoins, OtherRetires
  <2> QED BY <1>1, <1>2, <2>1, MembersGrow, LocalsStay DEF RecoveryInv
<1>4. CASE OtherAppends \/ OtherPrunes
  <2>1. arrivals' \in Seq({"sealed", "pruned"}) /\ Len(arrivals') >= Len(arrivals)
    <3>1. CASE OtherAppends
      BY <1>1, <3>1 DEF OtherAppends
    <3>2. CASE OtherPrunes
      BY <1>1, <3>2 DEF OtherPrunes
    <3> QED BY <1>4, <3>1, <3>2
  <2>2. UNCHANGED members
    BY <1>4 DEF OtherAppends, OtherPrunes
  <2> QED BY <1>1, <1>2, <2>1, <2>2, ArrivalsMove, LocalsStay DEF RecoveryInv
<1> QED BY <1>3, <1>4 DEF RelayMoves

\* A credential for the next generation: no authority rests on the older one.
LEMMA PrepareRecoveryKeeps ==
  ASSUME RecoveryInv, PrepareRecovery
  PROVE  RecoveryInv'
<1>1. StoreSound /\ RelaySound /\ AuthoritySound /\ ReceiptsSound /\ HistorySound /\ LocalsSound
  BY DEF RecoveryInv, StoreSound
<1>2. /\ ~ Registered /\ target' = Len(members) + 1 /\ UNCHANGED <<relay, store, pc, loc>>
      /\ \A p \in Procs : pc[p] = "idle"
  BY DEF PrepareRecovery, procs
<1>3. UNCHANGED <<canon, mark, cand, trans, closed, prog, inbox, pcand, term, facts, tombs>>
  BY <1>2 DEF store
<1>4. Known(mark)' /\ Snapshot' = Snapshot
  BY <1>1, <1>2, <1>3 DEF RelaySound, Known, Snapshot, relay, IsSnap, AtLeast
<1>5. RelaySound'
  BY <1>1, <1>2, <1>4 DEF RelaySound, relay
<1>6. AuthoritySound'
  BY <1>1, <1>2, <1>3 DEF AuthoritySound, Within
<1>7. ReceiptsSound' /\ HistorySound'
  BY <1>1, <1>3, ReceiptsKept, HistoryKept
<1>8. LocalsSound'
  <2>1. ASSUME NEW p \in Procs PROVE LocalOK(pc[p], loc[p])'
    <3>1. PICK l : l = loc[p] /\ l = loc'[p] /\ pc'[p] = "idle"
      BY <1>2
    <3>2. Read(l) /\ ~ l.reg
      BY <1>1, <1>2, <3>1 DEF LocalsSound, LocalOK, Read
    <3>3. Read(l)'
      BY <1>4, <3>2 DEF Read, Known
    <3>4. LocalOK("idle", l)'
      BY <3>3 DEF LocalOK, Downloading
    <3> QED BY <3>1, <3>4 DEF LocalOK, Read
  <2> QED BY <1>1, <1>2, <2>1 DEF LocalsSound
<1> QED BY <1>5, <1>6, <1>7, <1>8 DEF RecoveryInv, StoreSound

LEMMA InvInit == Init => RecoveryInv
<1> SUFFICES ASSUME Init PROVE RecoveryInv
  OBVIOUS
<1>1. bound.first \in Nat
  BY BoundsAssumption DEF Init
<1>2. /\ members \in Seq({members[k] : k \in DOMAIN members})
      /\ arrivals \in Seq({"sealed", "pruned"})
  <2>1. /\ members = [k \in 1 .. bound.first |-> [kind |-> "join", env |-> k]]
        /\ arrivals = [k \in 1 .. (IF bound.first = 0 THEN 0 ELSE 1) |-> "sealed"]
    BY DEF Init
  <2>2. DOMAIN members = 1 .. bound.first
    BY <2>1
  <2>3. members = [k \in 1 .. bound.first |-> members[k]]
    BY <2>1
  <2>4. \A k \in 1 .. bound.first : members[k] \in {members[i] : i \in DOMAIN members}
    BY <2>2
  <2>5. members \in Seq({members[k] : k \in DOMAIN members})
    <3> DEFINE S == {members[k] : k \in DOMAIN members}
    <3>1. members \in [1 .. bound.first -> S]
      BY <2>2, <2>3, <2>4
    <3> HIDE DEF S
    <3>2. members \in Seq(S)
      BY <1>1, <3>1
    <3> QED BY <3>2 DEF S
  <2>6. arrivals \in Seq({"sealed", "pruned"})
    <3> DEFINE n == IF bound.first = 0 THEN 0 ELSE 1
    <3>1. n \in Nat /\ arrivals \in [1 .. n -> {"sealed", "pruned"}]
      BY <2>1
    <3> HIDE DEF n
    <3> QED BY <3>1
  <2> QED BY <2>5, <2>6
<1>3. Len(members) \in Nat /\ Len(arrivals) \in Nat /\ target = 0 /\ mark = NoSnap
  <2>1. Len(members) \in Nat /\ Len(arrivals) \in Nat
    BY <1>2
  <2> QED BY <2>1 DEF Init
<1>4. Known(NoSnap)
  <2>1. IsSnap(NoSnap) /\ NoSnap.gen = 0 /\ NoSnap.head = 0
    BY SnapFacts DEF NoSnap
  <2>2. Snapshot.gen = Len(members) /\ Snapshot.head = Len(arrivals)
    BY <1>3, SnapFacts DEF Snapshot
  <2> QED BY <1>3, <2>1, <2>2 DEF Known, AtLeast
<1>5. RelaySound
  BY <1>2, <1>3, <1>4 DEF RelaySound
<1>6. AuthoritySound
  BY DEF Init, AuthoritySound
<1>7. ReceiptsSound
  BY FS_EmptySet DEF Init, ReceiptsSound, OneOutcome
<1>8. HistorySound
  BY DEF Init, HistorySound
<1>9. LocalsSound
  <2>1. LocalOK("idle", NoLocal)
    BY <1>5, IdleOK
  <2> QED BY <2>1 DEF Init, LocalsSound
<1> QED BY <1>5, <1>6, <1>7, <1>8, <1>9 DEF RecoveryInv, StoreSound

LEMMA InvNext == RecoveryInv /\ [Next]_vars => RecoveryInv'
<1> SUFFICES ASSUME RecoveryInv, [Next]_vars PROVE RecoveryInv'
  OBVIOUS
<1>1. CASE RelayMoves \/ PrepareRecovery \/ Faults
  BY <1>1, RelayMovesKeep, PrepareRecoveryKeeps, FaultsKeep
<1>2. ASSUME NEW p \in Procs, Attach(p) \/ Step(p) PROVE RecoveryInv'
  <2>1. CASE \/ Attach(p) \/ Classify(p) \/ StartGuard(p) \/ Scan(p) \/ Decide(p) \/ StartDownload(p)
             \/ FetchPage(p) \/ Cutoff(p) \/ Revalidate(p) \/ Preflight(p) \/ PrunePage(p)
    BY <2>1, ReadsKeep
  <2>2. CASE RetainObservation(p) \/ NotePage(p) \/ RetainRegistration(p) \/ RetainPage(p)
    BY <2>2, ObservationsKeep
  <2>3. CASE StageGuardPage(p) \/ BeginTransition(p) \/ ReplaceSuccessor(p) \/ AppendSuccessor(p)
             \/ PromoteAuthority(p) \/ RegisterEnvironment(p)
    BY <2>3, StageGuardPageKeeps, BeginTransitionKeeps, ReplaceSuccessorKeeps,
       AppendSuccessorKeeps, PromoteAuthorityKeeps, RegisterEnvironmentKeeps
  <2>4. CASE StageNoFrames(p) \/ StageFrame(p) \/ StagePrune(p) \/ StageChunk(p)
             \/ PromoteTerminal(p) \/ Activate(p)
    BY <2>4, StageNoFramesKeeps, StageFrameKeeps, StagePruneKeeps, StageChunkKeeps,
       PromoteTerminalKeeps, ActivateKeeps
  <2> QED BY <1>2, <2>1, <2>2, <2>3, <2>4 DEF Step
<1>3. CASE UNCHANGED vars
  <2>1. UNCHANGED <<relay, target, store, pc, loc>>
    BY <1>3 DEF vars, procs
  <2>2. StoreSound' /\ Forward
    BY <2>1, StoreStays DEF RecoveryInv
  <2> QED BY <2>1, <2>2, LocalsStay DEF RecoveryInv
<1> QED BY <1>1, <1>2, <1>3 DEF Next

\* The store and the processes keep what RecoveryInv says, whoever stops where.
THEOREM RecoveryInvariant == Spec => []RecoveryInv
<1>1. Init => RecoveryInv
  BY InvInit
<1>2. RecoveryInv /\ [Next]_vars => RecoveryInv'
  BY InvNext
<1> QED BY <1>1, <1>2, PTL DEF Spec

\* An attempt ends once, in one way, and one at most is promoted: its snapshot is the
\* canonical authority (PromoteSyncAuthorityRecoverySuccessor,
\* AbortSyncAuthorityRecoveryTransition).
THEOREM AttemptsEndOnce == Spec => []OneOutcome
<1>1. RecoveryInv => OneOutcome
  BY DEF RecoveryInv, StoreSound, ReceiptsSound
<1> QED BY <1>1, RecoveryInvariant, PTL

\* A store never reads as corrupt: what it keeps beside a transition under way is what
\* readAndValidateSyncAuthorityRecoveryStateV1 asks for.
THEOREM TransitionsAreCoherent == Spec => []TransitionCoherent
<1>1. RecoveryInv => TransitionCoherent
  <2> SUFFICES ASSUME RecoveryInv, trans # None PROVE TransitionCoherent
    BY DEF TransitionCoherent
  <2>1. StoreSound /\ AuthoritySound
    BY DEF RecoveryInv, StoreSound
  <2> QED BY <2>1 DEF AuthoritySound, TransitionCoherent, Within, Rests
<1> QED BY <1>1, RecoveryInvariant, PTL

LEMMA InvCovers == RecoveryInv => WatermarkCovers
<1> SUFFICES ASSUME RecoveryInv PROVE WatermarkCovers
  OBVIOUS
<1>1. RelaySound /\ AuthoritySound /\ HistorySound
  BY DEF RecoveryInv, StoreSound
<1>2. AtLeast(Snapshot, mark)
  BY <1>1 DEF RelaySound, Known
<1>3. /\ canon # None => AtLeast(mark, canon)
      /\ cand # None => AtLeast(mark, SnapOf(cand))
      /\ prog # None => canon # None
  BY <1>1 DEF AuthoritySound, Within
<1>4. prog # None => /\ prog.applied <= prog.downloaded /\ prog.downloaded <= canon.head
                     /\ DOMAIN inbox = prog.applied + 1 .. prog.downloaded
  BY <1>1 DEF HistorySound
<1> QED BY <1>2, <1>3, <1>4 DEF WatermarkCovers

\* The steps that touch progress or the history.
LEMMA OtherSteps ==
  ASSUME [Next]_vars,
         ~ \E p \in Procs : \/ PromoteAuthority(p) \/ StageNoFrames(p) \/ StageFrame(p)
                            \/ PromoteTerminal(p) \/ Activate(p)
  PROVE  UNCHANGED <<prog, facts, tombs>>
<1>1. CASE RelayMoves \/ PrepareRecovery \/ UNCHANGED vars
  BY <1>1 DEF RelayMoves, OtherJoins, OtherRetires, OtherAppends, OtherPrunes, PrepareRecovery,
              store, vars
<1>2. CASE Faults
  BY <1>2 DEF Faults, Crash, RegistrationLost, DiscardAuthorityCandidate, AbortTransition,
              DiscardPruneCandidate, DiscardTerminalCandidate, store
<1>3. ASSUME NEW p \in Procs, Attach(p) \/ Step(p) PROVE UNCHANGED <<prog, facts, tombs>>
  <2>1. CASE \/ Attach(p) \/ Classify(p) \/ StartGuard(p) \/ Scan(p) \/ Decide(p) \/ StartDownload(p)
             \/ FetchPage(p) \/ Cutoff(p) \/ Revalidate(p) \/ Preflight(p) \/ PrunePage(p)
             \/ RegisterEnvironment(p)
    BY <2>1 DEF Attach, Classify, StartGuard, Scan, Decide, StartDownload, FetchPage, Cutoff,
                Revalidate, Preflight, PrunePage, RegisterEnvironment, store
  <2>2. CASE RetainObservation(p) \/ NotePage(p) \/ RetainRegistration(p) \/ RetainPage(p)
    BY <2>2 DEF RetainObservation, NotePage, RetainRegistration, RetainPage
  <2>3. CASE StageGuardPage(p) \/ BeginTransition(p) \/ ReplaceSuccessor(p) \/ AppendSuccessor(p)
             \/ StagePrune(p) \/ StageChunk(p)
    BY <2>3 DEF StageGuardPage, BeginTransition, ReplaceSuccessor, AppendSuccessor, StagePrune,
                StageChunk
  <2> QED BY <1>3, <2>1, <2>2, <2>3 DEF Step
<1> QED BY <1>1, <1>2, <1>3 DEF Next

\* The channel becomes active in one step, ActivateStagedSync.
LEMMA ActivationSound ==
  ASSUME RecoveryInv, [Next]_vars, Attached', ~ Attached
  PROVE  /\ mark = canon /\ canon.gen >= target /\ Registered
         /\ facts \cup tombs = 1 .. canon.head
         /\ cand = None /\ trans = None /\ pcand = None /\ term = None
<1>1. AuthoritySound /\ HistorySound
  BY DEF RecoveryInv, StoreSound
<1>2. prog # None => DOMAIN prog = {"state", "applied", "downloaded", "head"}
  BY <1>1 DEF HistorySound
<1>3. ASSUME NEW p \in Procs, StageNoFrames(p) \/ StageFrame(p) \/ PromoteTerminal(p)
      PROVE  FALSE
  <2>1. pc[p] \in Downloading /\ LocalOK(pc[p], loc[p])
    BY <1>3 DEF StageNoFrames, StageFrame, PromoteTerminal, At, Downloading, RecoveryInv,
                LocalsSound
  <2>2. prog # None
    BY <1>1, <2>1, Pinned
  <2>3. prog'.state = prog.state
    <3>1. CASE StageNoFrames(p)
      BY <1>2, <2>2, <3>1 DEF StageNoFrames
    <3>2. CASE StageFrame(p)
      BY <1>2, <2>2, <3>2 DEF StageFrame
    <3>3. CASE PromoteTerminal(p)
      BY <1>2, <2>2, <3>3 DEF PromoteTerminal, ApplyTerminal
    <3> QED BY <1>3, <3>1, <3>2, <3>3
  <2> QED BY <2>2, <2>3 DEF Attached
<1>4. ASSUME NEW p \in Procs, PromoteAuthority(p) PROVE FALSE
  <2>1. prog' = prog \/ prog' = FreshProgress
    BY <1>4 DEF PromoteAuthority
  <2> QED BY <2>1 DEF FreshProgress, Attached
<1>5. PICK p \in Procs : Activate(p)
  <2>1. ~ UNCHANGED <<prog, facts, tombs>>
    BY DEF Attached
  <2> QED BY <1>3, <1>4, <2>1, OtherSteps
<1>6. pc[p] \in Downloading /\ LocalOK(pc[p], loc[p])
  BY <1>5 DEF Activate, At, Downloading, RecoveryInv, LocalsSound
<1>7. /\ Fenced(loc[p].bind) /\ AtCutoff(loc[p].bind)
      /\ pcand = None /\ term = None /\ cand = None
  BY <1>5 DEF Activate, Attached
<1>8. loc[p].bind = canon /\ prog # None /\ canon # None
  BY <1>1, <1>6, Pinned
<1>9. mark = canon /\ trans = None /\ prog.applied = canon.head
  BY <1>7, <1>8 DEF Fenced, AtCutoff
<1>10. facts \cup tombs = 1 .. canon.head /\ canon.gen >= target /\ Registered
  BY <1>1, <1>8, <1>9 DEF HistorySound, AuthoritySound
<1> QED BY <1>7, <1>9, <1>10

\* Whichever process activates the channel, nothing newer is known of the relay than
\* the authority that was applied, the whole prefix is here, and the watermark this is
\* judged by covers all that is staged or pinned (ActivateStagedSync).
THEOREM ActivationIsAtTheWatermark == Spec => ActivatesAtWatermark
<1>1. RecoveryInv /\ [Next]_vars =>
        (Attached' /\ ~ Attached =>
          /\ mark = canon /\ canon.gen >= target /\ Registered
          /\ facts \cup tombs = 1 .. canon.head
          /\ cand = None /\ trans = None /\ pcand = None /\ term = None)
  BY ActivationSound
<1> QED BY <1>1, InvCovers, RecoveryInvariant, PTL DEF Spec, ActivatesAtWatermark

\* Facts and tombstones are written by the promotion of the whole terminal candidate.
LEMMA PromotionSound ==
  ASSUME RecoveryInv, [Next]_vars, <<facts, tombs>>' # <<facts, tombs>>
  PROVE  /\ facts = {} /\ tombs = {} /\ ~ Attached
         /\ facts' \cap tombs' = {}
         /\ facts' \cup tombs' = 1 .. canon.head
         /\ tombs' = Targets(pcand.head)
<1>1. PICK p \in Procs : PromoteTerminal(p)
  <2>1. \A p \in Procs : /\ PromoteAuthority(p) => UNCHANGED <<facts, tombs>>
                         /\ StageNoFrames(p) => UNCHANGED <<facts, tombs>>
                         /\ StageFrame(p) => UNCHANGED <<facts, tombs>>
                         /\ Activate(p) => UNCHANGED <<facts, tombs>>
    BY DEF PromoteAuthority, StageNoFrames, StageFrame, Activate
  <2> QED BY <2>1, OtherSteps
<1>2. term # None /\ CoversPrefix /\ PrunesAreExact /\ ApplyTerminal
  BY <1>1 DEF PromoteTerminal
<1>3. pc[p] \in Downloading /\ LocalOK(pc[p], loc[p]) /\ AuthoritySound /\ HistorySound
  BY <1>1 DEF PromoteTerminal, At, Downloading, RecoveryInv, LocalsSound, StoreSound
<1>4. canon # None /\ prog # None /\ canon.head \in Nat
  BY <1>3, Pinned
<1>5. /\ facts = {} /\ tombs = {} /\ prog.state # "attached"
      /\ term.start = 1 /\ term.through = canon.head
      /\ Staged("sealed") \cup Staged("pruned") = 1 .. canon.head
      /\ Staged("sealed") \cap Staged("pruned") = {}
  BY <1>2, <1>3, <1>4, TerminalIsWhole
<1>6. Staged("pruned") = Targets(pcand.head)
  BY <1>2, <1>5 DEF PrunesAreExact
<1>7. facts' = Staged("sealed") /\ tombs' = Staged("pruned")
  BY <1>2, <1>5 DEF ApplyTerminal
<1> QED BY <1>5, <1>6, <1>7 DEF Attached

\* "No canonical fact changes until the complete terminal candidate promotes": the
\* history is written once, from nothing to the whole retained prefix, and what the
\* prune inventory lists comes in as a tombstone (PromoteTerminalCandidate).
THEOREM HistoryIsWrittenOnce == Spec => HistoryIsExact
<1>1. RecoveryInv /\ [Next]_vars =>
        (<<facts, tombs>>' # <<facts, tombs>> =>
           /\ facts = {} /\ tombs = {} /\ ~ Attached
           /\ facts' \cap tombs' = {}
           /\ facts' \cup tombs' = 1 .. canon.head
           /\ tombs' = Targets(pcand.head))
  BY PromotionSound
<1> QED BY <1>1, RecoveryInvariant, PTL DEF Spec, HistoryIsExact

---------------------------------------------------------------------------
(* What the steps of a repair do to tables and manifest, field by field. *)

TablesOf(d) == [rows |-> d.rows, alias |-> d.alias, edges |-> d.edges, deferrals |-> d.deferrals,
                links |-> d.links, journal |-> d.journal, sources |-> d.sources, report |-> d.report]
ManifestOf(m) == [rows |-> m.rows, alias |-> m.alias, edges |-> m.edges, deferrals |-> m.deferrals, sources |-> m.sources,
                  journal |-> m.journal, unlinks |-> m.unlinks, repoints |-> m.repoints, inserts |-> m.inserts,
                  statuses |-> m.statuses, report |-> m.report, retirements |-> m.retirements]
Shaped(s) == s.d = TablesOf(s.d) /\ s.m = ManifestOf(s.m)

\* What RepointOrDelete, UnlinkReferences and RetireEntity find of a row.
Mine(s, id) == {k \in DOMAIN s.d.deferrals : s.d.deferrals[k] = id}
Moved(s, id, twin) == IF twin # NoRow /\ (\A k \in DOMAIN s.d.deferrals : s.d.deferrals[k] # twin) /\ Mine(s, id) # {} THEN {Min(Mine(s, id))} ELSE {}
Lost(s, id, twin) == Mine(s, id) \ Moved(s, id, twin)
Hurt(s, id) == {k \in DOMAIN s.d.links : s.d.links[k] = id}
EdgesAt(s, id) == {e \in s.d.edges : id \in {e[1], e[2]}}

\* What they make of a table, and of a column and its two places in the manifest.
LessRow(f, id) == [x \in DOMAIN f \ {id} |-> f[x]]
ColumnsAfter(s, id, twin) == [k \in DOMAIN s.d.deferrals \ Lost(s, id, twin) |-> IF k \in Moved(s, id, twin) THEN twin ELSE s.d.deferrals[k]]
LostAfter(s, id, twin) == Over(s.m.deferrals, [k \in Lost(s, id, twin) |-> id])
MovedAfter(s, id, twin) == Over(s.m.repoints, [k \in Moved(s, id, twin) |-> id])

\* Dead aliases are moved from the tables to the manifest and nothing else changes.
Collected(s, t) ==
  /\ Shaped(t)
    /\ t.d.alias = [n \in DOMAIN s.d.alias \ DeadAliases(s.d) |-> s.d.alias[n]]
    /\ t.d.rows = s.d.rows /\ t.d.edges = s.d.edges /\ t.d.deferrals = s.d.deferrals /\ t.d.links = s.d.links
    /\ t.d.journal = s.d.journal /\ t.d.sources = s.d.sources /\ t.d.report = s.d.report
    /\ t.m.alias = Over(s.m.alias, [n \in DeadAliases(s.d) |-> s.d.alias[n]])
    /\ t.m.rows = s.m.rows /\ t.m.edges = s.m.edges /\ t.m.deferrals = s.m.deferrals /\ t.m.sources = s.m.sources
    /\ t.m.journal = s.m.journal /\ t.m.unlinks = s.m.unlinks /\ t.m.repoints = s.m.repoints /\ t.m.inserts = s.m.inserts
    /\ t.m.statuses = s.m.statuses /\ t.m.report = s.m.report /\ t.m.retirements = s.m.retirements

LEMMA CollectIs ==
  ASSUME NEW s, Shaped(s), NEW t, t = CollectDeadAliases(s)
  PROVE  Collected(s, t)
BY DEF Collected, Shaped, TablesOf, ManifestOf, CollectDeadAliases

\* What RepointOrDelete makes of tables and manifest.
Repointed(s, id, twin, t) ==
  /\ Shaped(t)
    /\ t.d.deferrals = ColumnsAfter(s, id, twin)
    /\ t.d.rows = s.d.rows /\ t.d.alias = s.d.alias /\ t.d.edges = s.d.edges /\ t.d.links = s.d.links
    /\ t.d.journal = s.d.journal /\ t.d.sources = s.d.sources /\ t.d.report = s.d.report
    /\ t.m.deferrals = LostAfter(s, id, twin)
    /\ t.m.repoints = MovedAfter(s, id, twin)
    /\ t.m.rows = s.m.rows /\ t.m.alias = s.m.alias /\ t.m.edges = s.m.edges /\ t.m.sources = s.m.sources
    /\ t.m.journal = s.m.journal /\ t.m.unlinks = s.m.unlinks /\ t.m.inserts = s.m.inserts
    /\ t.m.statuses = s.m.statuses /\ t.m.report = s.m.report /\ t.m.retirements = s.m.retirements

\* A column that named the row is moved to the twin or lost; the manifest has what it named.
LEMMA RepointIs ==
  ASSUME NEW s, Shaped(s), NEW id, NEW twin, NEW t, t = RepointOrDelete(s, id, twin)
  PROVE  Repointed(s, id, twin, t)
<1> DEFINE df == ColumnsAfter(s, id, twin)
           g == LostAfter(s, id, twin)
           r == MovedAfter(s, id, twin)
<1>1. t = [d |-> [s.d EXCEPT !.deferrals = df], m |-> [s.m EXCEPT !.deferrals = g, !.repoints = r]]
  BY Zenon DEF RepointOrDelete, Mine, Moved, Lost, ColumnsAfter, LostAfter, MovedAfter
<1> HIDE DEF df, g, r
<1>2. t.d = [s.d EXCEPT !.deferrals = df] /\ t.m = [s.m EXCEPT !.deferrals = g, !.repoints = r]
  BY <1>1
<1>3. t.d = [rows |-> s.d.rows, alias |-> s.d.alias, edges |-> s.d.edges, deferrals |-> df,
          links |-> s.d.links, journal |-> s.d.journal, sources |-> s.d.sources, report |-> s.d.report]
  BY <1>2 DEF Shaped, TablesOf
<1>4. t.m = [rows |-> s.m.rows, alias |-> s.m.alias, edges |-> s.m.edges, deferrals |-> g,
                   sources |-> s.m.sources, journal |-> s.m.journal, unlinks |-> s.m.unlinks,
                   repoints |-> r, inserts |-> s.m.inserts,
                   statuses |-> s.m.statuses, report |-> s.m.report, retirements |-> s.m.retirements]
  BY <1>2 DEF Shaped, ManifestOf
<1> QED BY <1>3, <1>4 DEF df, g, r, Repointed, Shaped, TablesOf, ManifestOf

\* A column that named the row is NULL; the manifest has what it named.
Unlinked(s, id, t) ==
  /\ Shaped(t)
    /\ t.d.links = [k \in DOMAIN s.d.links |-> IF k \in Hurt(s, id) THEN NoRow ELSE s.d.links[k]]
    /\ t.d.rows = s.d.rows /\ t.d.alias = s.d.alias /\ t.d.edges = s.d.edges /\ t.d.deferrals = s.d.deferrals
    /\ t.d.journal = s.d.journal /\ t.d.sources = s.d.sources /\ t.d.report = s.d.report
    /\ t.m.unlinks = Over(s.m.unlinks, [k \in Hurt(s, id) |-> id])
    /\ t.m.rows = s.m.rows /\ t.m.alias = s.m.alias /\ t.m.edges = s.m.edges /\ t.m.deferrals = s.m.deferrals /\ t.m.sources = s.m.sources
    /\ t.m.journal = s.m.journal /\ t.m.repoints = s.m.repoints /\ t.m.inserts = s.m.inserts
    /\ t.m.statuses = s.m.statuses /\ t.m.report = s.m.report /\ t.m.retirements = s.m.retirements

LEMMA UnlinkIs ==
  ASSUME NEW s, Shaped(s), NEW id, NEW t, t = UnlinkReferences(s, id)
  PROVE  Unlinked(s, id, t)
<1> DEFINE l == [k \in DOMAIN s.d.links |-> IF k \in Hurt(s, id) THEN NoRow ELSE s.d.links[k]]
           u == Over(s.m.unlinks, [k \in Hurt(s, id) |-> id])
<1>1. t = [d |-> [s.d EXCEPT !.links = l], m |-> [s.m EXCEPT !.unlinks = u]]
  BY Zenon DEF UnlinkReferences, Hurt
<1> HIDE DEF l, u
<1> QED BY <1>1 DEF Unlinked, l, u, Shaped, TablesOf, ManifestOf

\* A row is retired: it, what names it and its source are moved to the manifest.
RowRetired(s, id, twin, t) ==
  /\ Shaped(t)
    /\ t.d.rows = LessRow(s.d.rows, id) /\ t.m.rows = Upserted(s.m.rows, id, s.d.rows[id])
    /\ t.d.alias = s.d.alias /\ t.m.alias = s.m.alias
    /\ t.d.edges = s.d.edges \ EdgesAt(s, id) /\ t.m.edges = s.m.edges \cup EdgesAt(s, id)
    /\ t.d.deferrals = ColumnsAfter(s, id, twin)
    /\ t.m.deferrals = LostAfter(s, id, twin)
    /\ t.m.repoints = MovedAfter(s, id, twin)
    /\ t.d.links = [k \in DOMAIN s.d.links |-> IF k \in Hurt(s, id) THEN NoRow ELSE s.d.links[k]]
    /\ t.m.unlinks = Over(s.m.unlinks, [k \in Hurt(s, id) |-> id])
    /\ \E alone \in SUBSET s.d.sources : t.d.sources = s.d.sources \ alone /\ t.m.sources = s.m.sources \cup alone
    /\ t.d.journal = s.d.journal /\ t.m.journal = s.m.journal
    /\ t.d.report = s.d.report /\ t.m.report = s.m.report
    /\ t.m.inserts = s.m.inserts /\ t.m.statuses = s.m.statuses /\ t.m.retirements = s.m.retirements \cup {id}

LEMMA RetireIs ==
  ASSUME NEW s, Shaped(s), NEW id, NEW twin, NEW t, t = RetireEntity(s, id, twin)
  PROVE  RowRetired(s, id, twin, t)
<1> DEFINE a == [d |-> [s.d EXCEPT !.edges = @ \ EdgesAt(s, id)], m |-> [s.m EXCEPT !.edges = @ \cup EdgesAt(s, id)]]
           p == RepointOrDelete(a, id, twin)
           u == UnlinkReferences(p, id)
           left == LessRow(s.d.rows, id)
           alone == {s.d.rows[id].src} \cap {x \in s.d.sources : \A y \in DOMAIN left : left[y].src # x}
           stays == Upserted(u.m.rows, id, s.d.rows[id])
<1>1. t = [d |-> [u.d EXCEPT !.rows = left, !.sources = u.d.sources \ alone],
           m |-> [u.m EXCEPT !.rows = stays, !.sources = u.m.sources \cup alone, !.retirements = u.m.retirements \cup {id}]]
  BY Zenon DEF RetireEntity, EdgesAt, LessRow
<1>2. /\ Shaped(a) /\ a.d.edges = s.d.edges \ EdgesAt(s, id) /\ a.m.edges = s.m.edges \cup EdgesAt(s, id)
      /\ a.d.rows = s.d.rows /\ a.d.alias = s.d.alias /\ a.d.deferrals = s.d.deferrals /\ a.d.links = s.d.links
      /\ a.d.journal = s.d.journal /\ a.d.sources = s.d.sources /\ a.d.report = s.d.report
      /\ a.m.rows = s.m.rows /\ a.m.alias = s.m.alias /\ a.m.deferrals = s.m.deferrals /\ a.m.sources = s.m.sources
      /\ a.m.journal = s.m.journal /\ a.m.unlinks = s.m.unlinks /\ a.m.repoints = s.m.repoints /\ a.m.inserts = s.m.inserts
      /\ a.m.statuses = s.m.statuses /\ a.m.report = s.m.report /\ a.m.retirements = s.m.retirements
  BY DEF Shaped, TablesOf, ManifestOf
<1> HIDE DEF a
<1>3. Mine(a, id) = Mine(s, id) /\ Moved(a, id, twin) = Moved(s, id, twin) /\ Lost(a, id, twin) = Lost(s, id, twin) /\ Hurt(a, id) = Hurt(s, id)
  BY <1>2 DEF Mine, Moved, Lost, Hurt
<1>4. /\ Shaped(p)
      /\ p.d.deferrals = ColumnsAfter(s, id, twin)
      /\ p.d.rows = s.d.rows /\ p.d.alias = s.d.alias /\ p.d.edges = s.d.edges \ EdgesAt(s, id) /\ p.d.links = s.d.links
      /\ p.d.journal = s.d.journal /\ p.d.sources = s.d.sources /\ p.d.report = s.d.report
      /\ p.m.deferrals = LostAfter(s, id, twin)
      /\ p.m.repoints = MovedAfter(s, id, twin)
      /\ p.m.rows = s.m.rows /\ p.m.alias = s.m.alias /\ p.m.edges = s.m.edges \cup EdgesAt(s, id) /\ p.m.sources = s.m.sources
      /\ p.m.journal = s.m.journal /\ p.m.unlinks = s.m.unlinks /\ p.m.inserts = s.m.inserts
      /\ p.m.statuses = s.m.statuses /\ p.m.report = s.m.report /\ p.m.retirements = s.m.retirements
  <2> HIDE DEF p
  <2>1. /\ Shaped(p)
        /\ p.d.deferrals = ColumnsAfter(a, id, twin)
        /\ p.d.rows = a.d.rows /\ p.d.alias = a.d.alias /\ p.d.edges = a.d.edges /\ p.d.links = a.d.links
        /\ p.d.journal = a.d.journal /\ p.d.sources = a.d.sources /\ p.d.report = a.d.report
        /\ p.m.deferrals = LostAfter(a, id, twin)
        /\ p.m.repoints = MovedAfter(a, id, twin)
        /\ p.m.rows = a.m.rows /\ p.m.alias = a.m.alias /\ p.m.edges = a.m.edges /\ p.m.sources = a.m.sources
        /\ p.m.journal = a.m.journal /\ p.m.unlinks = a.m.unlinks /\ p.m.inserts = a.m.inserts
        /\ p.m.statuses = a.m.statuses /\ p.m.report = a.m.report /\ p.m.retirements = a.m.retirements
    <3>1. Shaped(a) /\ p = RepointOrDelete(a, id, twin)
      BY <1>2 DEF p
    <3>2. Repointed(a, id, twin, p)
      BY <3>1, RepointIs
    <3> QED BY <3>2, Zenon DEF Repointed
  <2>2. p.d.deferrals = ColumnsAfter(s, id, twin)
    BY <2>1, <1>2, <1>3, Zenon DEF ColumnsAfter, LostAfter, MovedAfter
  <2>3. p.m.deferrals = LostAfter(s, id, twin) /\ p.m.repoints = MovedAfter(s, id, twin)
    BY <2>1, <1>2, <1>3, Zenon DEF ColumnsAfter, LostAfter, MovedAfter
  <2> QED BY <1>2, <2>1, <2>2, <2>3
<1> HIDE DEF p
<1>5. Hurt(p, id) = Hurt(s, id)
  BY <1>4 DEF Hurt
<1>6. /\ Shaped(u)
      /\ u.d.links = [k \in DOMAIN s.d.links |-> IF k \in Hurt(s, id) THEN NoRow ELSE s.d.links[k]]
      /\ u.d.rows = s.d.rows /\ u.d.alias = s.d.alias /\ u.d.edges = s.d.edges \ EdgesAt(s, id) /\ u.d.deferrals = p.d.deferrals
      /\ u.d.journal = s.d.journal /\ u.d.sources = s.d.sources /\ u.d.report = s.d.report
      /\ u.m.unlinks = Over(s.m.unlinks, [k \in Hurt(s, id) |-> id])
      /\ u.m.rows = s.m.rows /\ u.m.alias = s.m.alias /\ u.m.edges = s.m.edges \cup EdgesAt(s, id) /\ u.m.sources = s.m.sources
      /\ u.m.deferrals = p.m.deferrals /\ u.m.repoints = p.m.repoints
      /\ u.m.journal = s.m.journal /\ u.m.inserts = s.m.inserts
      /\ u.m.statuses = s.m.statuses /\ u.m.report = s.m.report /\ u.m.retirements = s.m.retirements
  <2>1. Unlinked(p, id, u)
    BY <1>4, UnlinkIs
  <2> QED BY <1>4, <1>5, <2>1 DEF Unlinked
<1> HIDE DEF u, left, alone, stays
<1>7. alone \in SUBSET s.d.sources
  BY DEF alone
<1>8. t.d = [u.d EXCEPT !.rows = left, !.sources = u.d.sources \ alone]
  BY <1>1
<1>9. t.m = [u.m EXCEPT !.rows = stays, !.sources = u.m.sources \cup alone, !.retirements = u.m.retirements \cup {id}]
  BY <1>1
<1>10. /\ t.d = [rows |-> left, alias |-> u.d.alias, edges |-> u.d.edges, deferrals |-> u.d.deferrals,
                 links |-> u.d.links, journal |-> u.d.journal, sources |-> u.d.sources \ alone, report |-> u.d.report]
       /\ t.m = [rows |-> stays, alias |-> u.m.alias, edges |-> u.m.edges, deferrals |-> u.m.deferrals, sources |-> u.m.sources \cup alone,
                 journal |-> u.m.journal, unlinks |-> u.m.unlinks, repoints |-> u.m.repoints, inserts |-> u.m.inserts,
                 statuses |-> u.m.statuses, report |-> u.m.report, retirements |-> u.m.retirements \cup {id}]
  <2>1. u.d = TablesOf(u.d) /\ u.m = ManifestOf(u.m)
    BY <1>6 DEF Shaped
  <2> QED BY <2>1, <1>8, <1>9 DEF TablesOf, ManifestOf
<1>11. /\ Shaped(t)
       /\ t.d.rows = left /\ t.m.rows = stays
       /\ t.d.alias = u.d.alias /\ t.m.alias = u.m.alias /\ t.d.edges = u.d.edges /\ t.m.edges = u.m.edges
       /\ t.d.deferrals = u.d.deferrals /\ t.m.deferrals = u.m.deferrals /\ t.m.repoints = u.m.repoints
       /\ t.d.links = u.d.links /\ t.m.unlinks = u.m.unlinks
       /\ t.d.sources = u.d.sources \ alone /\ t.m.sources = u.m.sources \cup alone
       /\ t.d.journal = u.d.journal /\ t.m.journal = u.m.journal /\ t.d.report = u.d.report /\ t.m.report = u.m.report
       /\ t.m.inserts = u.m.inserts /\ t.m.statuses = u.m.statuses /\ t.m.retirements = u.m.retirements \cup {id}
  BY <1>10 DEF Shaped, TablesOf, ManifestOf
<1>12. t.m.rows = Upserted(s.m.rows, id, s.d.rows[id])
  BY <1>6, <1>11 DEF stays
<1>13. t.d.sources = s.d.sources \ alone /\ t.m.sources = s.m.sources \cup alone
  BY <1>6, <1>11
<1>14. \E x \in SUBSET s.d.sources : t.d.sources = s.d.sources \ x /\ t.m.sources = s.m.sources \cup x
  BY <1>7, <1>13
<1> QED BY <1>4, <1>6, <1>11, <1>12, <1>14 DEF RowRetired, left

\* A row that has no alias is given one.
Realiased(s, id, name, t) ==
  /\ Shaped(t)
    /\ t.d.alias = Upserted(s.d.alias, name, id) /\ t.m.inserts = s.m.inserts \cup {name}
    /\ t.d.rows = s.d.rows /\ t.d.edges = s.d.edges /\ t.d.deferrals = s.d.deferrals /\ t.d.links = s.d.links
    /\ t.d.journal = s.d.journal /\ t.d.sources = s.d.sources /\ t.d.report = s.d.report
    /\ t.m.rows = s.m.rows /\ t.m.alias = s.m.alias /\ t.m.edges = s.m.edges /\ t.m.deferrals = s.m.deferrals /\ t.m.sources = s.m.sources
    /\ t.m.journal = s.m.journal /\ t.m.unlinks = s.m.unlinks /\ t.m.repoints = s.m.repoints
    /\ t.m.statuses = s.m.statuses /\ t.m.report = s.m.report /\ t.m.retirements = s.m.retirements

LEMMA RealiasIs ==
  ASSUME NEW s, Shaped(s), NEW id, NEW name, NEW t, t = Realias(s, id, name)
  PROVE  Realiased(s, id, name, t)
BY DEF Realiased, Shaped, TablesOf, ManifestOf, Realias

\* A report that could not be rendered is archived; the manifest has what it was.
Archived(s, t) ==
  /\ Shaped(t)
    /\ \/ t.d.report = s.d.report /\ t.m.report = s.m.report
       \/ s.d.report # "none" /\ t.m.report = s.d.report
    /\ t.d.rows = s.d.rows /\ t.d.alias = s.d.alias /\ t.d.edges = s.d.edges /\ t.d.deferrals = s.d.deferrals /\ t.d.links = s.d.links
    /\ t.d.journal = s.d.journal /\ t.d.sources = s.d.sources
    /\ t.m.rows = s.m.rows /\ t.m.alias = s.m.alias /\ t.m.edges = s.m.edges /\ t.m.deferrals = s.m.deferrals /\ t.m.sources = s.m.sources
    /\ t.m.journal = s.m.journal /\ t.m.unlinks = s.m.unlinks /\ t.m.repoints = s.m.repoints /\ t.m.inserts = s.m.inserts
    /\ t.m.statuses = s.m.statuses /\ t.m.retirements = s.m.retirements

LEMMA ArchiveIs ==
  ASSUME NEW s, Shaped(s), NEW t, t = ArchiveMootReport(s)
  PROVE  Archived(s, t)
BY DEF Archived, Shaped, TablesOf, ManifestOf, ArchiveMootReport

\* A journal entry is retired: it and what names it are moved to the manifest.
JournalRetired(s, id, twin, t) ==
  /\ Shaped(t)
    /\ t.d.journal = LessRow(s.d.journal, id) /\ t.m.journal = Upserted(s.m.journal, id, s.d.journal[id])
    /\ t.d.deferrals = ColumnsAfter(s, id, twin)
    /\ t.m.deferrals = LostAfter(s, id, twin)
    /\ t.m.repoints = MovedAfter(s, id, twin)
    /\ t.d.rows = s.d.rows /\ t.d.alias = s.d.alias /\ t.d.edges = s.d.edges /\ t.d.links = s.d.links
    /\ t.d.sources = s.d.sources /\ t.d.report = s.d.report
    /\ t.m.rows = s.m.rows /\ t.m.alias = s.m.alias /\ t.m.edges = s.m.edges /\ t.m.sources = s.m.sources
    /\ t.m.unlinks = s.m.unlinks /\ t.m.inserts = s.m.inserts
    /\ t.m.statuses = s.m.statuses /\ t.m.report = s.m.report /\ t.m.retirements = s.m.retirements \cup {id}

LEMMA RetireJournalIs ==
  ASSUME NEW s, Shaped(s), NEW id, NEW twin, NEW t, t = RetireJournalDuplicate(s, id, twin)
  PROVE  JournalRetired(s, id, twin, t)
<1> DEFINE p == RepointOrDelete(s, id, twin)
           left == LessRow(p.d.journal, id)
           stays == Upserted(p.m.journal, id, s.d.journal[id])
<1>1. t = [d |-> [p.d EXCEPT !.journal = left], m |-> [p.m EXCEPT !.journal = stays, !.retirements = p.m.retirements \cup {id}]]
  BY Zenon DEF RetireJournalDuplicate, LessRow
<1>2. /\ Shaped(p)
      /\ p.d.deferrals = ColumnsAfter(s, id, twin)
      /\ p.d.rows = s.d.rows /\ p.d.alias = s.d.alias /\ p.d.edges = s.d.edges /\ p.d.links = s.d.links
      /\ p.d.journal = s.d.journal /\ p.d.sources = s.d.sources /\ p.d.report = s.d.report
      /\ p.m.deferrals = LostAfter(s, id, twin)
      /\ p.m.repoints = MovedAfter(s, id, twin)
      /\ p.m.rows = s.m.rows /\ p.m.alias = s.m.alias /\ p.m.edges = s.m.edges /\ p.m.sources = s.m.sources
      /\ p.m.journal = s.m.journal /\ p.m.unlinks = s.m.unlinks /\ p.m.inserts = s.m.inserts
      /\ p.m.statuses = s.m.statuses /\ p.m.report = s.m.report /\ p.m.retirements = s.m.retirements
  <2>1. Repointed(s, id, twin, p)
    BY RepointIs
  <2> QED BY <2>1, Zenon DEF Repointed
<1> HIDE DEF p, left, stays
<1>3. t.d = [p.d EXCEPT !.journal = left] /\ t.m = [p.m EXCEPT !.journal = stays, !.retirements = p.m.retirements \cup {id}]
  BY <1>1
<1>4. /\ t.d = [rows |-> p.d.rows, alias |-> p.d.alias, edges |-> p.d.edges, deferrals |-> p.d.deferrals,
                links |-> p.d.links, journal |-> left, sources |-> p.d.sources, report |-> p.d.report]
      /\ t.m = [rows |-> p.m.rows, alias |-> p.m.alias, edges |-> p.m.edges, deferrals |-> p.m.deferrals, sources |-> p.m.sources,
                journal |-> stays, unlinks |-> p.m.unlinks, repoints |-> p.m.repoints, inserts |-> p.m.inserts,
                statuses |-> p.m.statuses, report |-> p.m.report, retirements |-> p.m.retirements \cup {id}]
  <2>1. p.d = TablesOf(p.d) /\ p.m = ManifestOf(p.m)
    BY <1>2 DEF Shaped
  <2> QED BY <2>1, <1>3 DEF TablesOf, ManifestOf
<1>5. left = LessRow(s.d.journal, id) /\ stays = Upserted(s.m.journal, id, s.d.journal[id])
  BY <1>2, Zenon DEF left, stays
<1> QED BY <1>2, <1>4, <1>5 DEF JournalRetired, Shaped, TablesOf, ManifestOf
---------------------------------------------------------------------------
(* A fold is a list of states, each of which the step makes of the one before. The  *)
(* steps that are folded are told apart by a name, so that one argument by         *)
(* induction on the list serves all of them.                                       *)

FoldStep(step, s, x, c) ==
  IF step = "retire" THEN RetireEntity(s, x, c[x])
  ELSE IF step = "realias" THEN Realias(s, x, c[x])
  ELSE IF step = "prove" THEN ProvedAgain(c.d, c.retire, c.realias, s)
  ELSE IF step = "journal" THEN RetireJournalDuplicate(s, x, c[x])
  ELSE IF step = "roster" THEN Roster(s, x)
  ELSE RetireJournalPairs(s, IF x = 1 THEN c ELSE {})

\* What a fold is of the last index of a set of indices, and of the fold of the others.
FoldBody(step, g, D, b, list, c) == [s \in SUBSET D |-> IF s = {} THEN b ELSE FoldStep(step, g[s \ {Max(s)}], list[Max(s)], c)]

\* The last index of a set of indices is one of them.
LEMMA LastIndex ==
  ASSUME NEW n \in Nat, NEW s \in SUBSET (1 .. n), s # {}
  PROVE  Max(s) \in s /\ \A i \in s : i <= Max(s)
<1>1. s \in SUBSET Nat /\ \A i \in s : i <= n
  OBVIOUS
<1>2. PICK m \in s : \A i \in s : i <= m
  BY <1>1, GreatestMember
<1>3. \A y \in s : m >= y
  BY <1>1, <1>2
<1> DEFINE M == CHOOSE x \in s : \A y \in s : x >= y
<1>4. M \in s /\ \A y \in s : M >= y
  BY <1>3
<1>5. Max(s) = M
  BY Zenon DEF Max
<1> HIDE DEF M
<1> QED BY <1>1, <1>4, <1>5

\* There is such a function of the sets of indices, for every length of the list.
FoldIs(step, n, b, list, c) == \E g : g = FoldBody(step, g, 1 .. n, b, list, c)

LEMMA FoldExists ==
  ASSUME NEW step, NEW n \in Nat, NEW list, NEW b, NEW c
  PROVE  FoldIs(step, n, b, list, c)
<1> DEFINE Body(g, D) == [s \in SUBSET D |-> IF s = {} THEN b ELSE FoldStep(step, g[s \ {Max(s)}], list[Max(s)], c)]
           Ok == {k \in 0 .. n : \E g : g = Body(g, 1 .. k)}
<1>1. 0 \in Ok
  <2> DEFINE g == [s \in SUBSET (1 .. 0) |-> b]
  <2>1. g = Body(g, 1 .. 0)
    <3>1. \A s \in SUBSET (1 .. 0) : s = {}
      OBVIOUS
    <3> QED BY <3>1, Zenon
  <2> QED BY <2>1
<1>2. ASSUME NEW k \in 0 .. n, k \in Ok, k # n PROVE k + 1 \in Ok
  <2>1. PICK g : g = Body(g, 1 .. k)
    BY <1>2
  <2> DEFINE f == Body(g, 1 .. k + 1)
  <2>2. ASSUME NEW s \in SUBSET (1 .. k + 1), s # {} PROVE s \ {Max(s)} \in SUBSET (1 .. k)
    <3> HIDE DEF Body, f, Ok
    <3>0. s \in SUBSET (1 .. (k + 1)) /\ k + 1 \in Nat
      OBVIOUS
    <3>1. Max(s) \in s /\ \A i \in s : i <= Max(s)
      BY LastIndex, <2>2, <3>0
    <3>2. ASSUME NEW i \in s, i # Max(s) PROVE i \in 1 .. k
      <4>1. i \in 1 .. k + 1 /\ Max(s) \in 1 .. k + 1 /\ i <= Max(s)
        BY <3>1
      <4> QED BY <3>2, <4>1
    <3> QED BY <3>2
  <2>3. \A s \in SUBSET (1 .. k) : f[s] = g[s]
    <3>1. SUBSET (1 .. k) \subseteq SUBSET (1 .. k + 1)
      OBVIOUS
    <3>2. \A s \in SUBSET (1 .. k) : g[s] = IF s = {} THEN b ELSE FoldStep(step, g[s \ {Max(s)}], list[Max(s)], c)
      BY <2>1, Zenon
    <3>3. \A s \in SUBSET (1 .. k + 1) : f[s] = IF s = {} THEN b ELSE FoldStep(step, g[s \ {Max(s)}], list[Max(s)], c)
      BY Zenon
    <3> QED BY <3>1, <3>2, <3>3, Zenon
  <2>4. f = Body(f, 1 .. k + 1)
    <3>1. \A s \in SUBSET (1 .. k + 1) : s # {} => f[s \ {Max(s)}] = g[s \ {Max(s)}]
      BY <2>2, <2>3
    <3>2. \A s \in SUBSET (1 .. k + 1) : (IF s = {} THEN b ELSE FoldStep(step, g[s \ {Max(s)}], list[Max(s)], c))
                                          = (IF s = {} THEN b ELSE FoldStep(step, f[s \ {Max(s)}], list[Max(s)], c))
      BY <3>1, Zenon
    <3> QED BY <3>2, Zenon
  <2>5. k + 1 \in 0 .. n
    BY <1>2
  <2> QED BY <2>4, <2>5
<1>3. n \in Ok
  <2> HIDE DEF Ok
  <2>1. \A k \in 0 .. n : k \in Ok /\ k # n => k + 1 \in Ok
    BY <1>2
  <2>2. 0 .. n \subseteq Ok
    BY <1>1, <2>1, CountsUpTo
  <2> QED BY <2>2
<1> QED BY <1>3, Zenon DEF FoldIs, FoldBody

\* The states of a fold, one for each index.
FoldStates(step, h, n, b, list, c) == h[0] = b /\ \A i \in 1 .. n : h[i] = FoldStep(step, h[i - 1], list[i], c)

FoldedBy(step, n, b, list, c, result) == \E h : FoldStates(step, h, n, b, list, c) /\ h[n] = result

LEMMA FoldTrace ==
  ASSUME NEW step, NEW n \in Nat, NEW list, NEW b, NEW c, NEW iter, iter = FoldBody(step, iter, 1 .. n, b, list, c)
  PROVE  FoldedBy(step, n, b, list, c, iter[1 .. n])
<1>1. \A s \in SUBSET (1 .. n) : iter[s] = IF s = {} THEN b ELSE FoldStep(step, iter[s \ {Max(s)}], list[Max(s)], c)
  BY Zenon DEF FoldBody
<1>2. iter[{}] = b
  BY <1>1
<1>3. ASSUME NEW i \in 1 .. n PROVE iter[1 .. i] = FoldStep(step, iter[1 .. i - 1], list[i], c)
  <2>1. 1 .. i \in SUBSET (1 .. n) /\ 1 .. i # {}
    OBVIOUS
  <2>2. Max(1 .. i) = i
    <3>1. Max(1 .. i) \in 1 .. i /\ \A j \in 1 .. i : j <= Max(1 .. i)
      BY LastIndex, <2>1
    <3> QED BY <3>1
  <2>3. (1 .. i) \ {i} = 1 .. i - 1
    OBVIOUS
  <2>4. iter[1 .. i] = FoldStep(step, iter[(1 .. i) \ {Max(1 .. i)}], list[Max(1 .. i)], c)
    BY <1>1, <2>1, Zenon
  <2> QED BY <2>2, <2>3, <2>4
<1> DEFINE h == [i \in 0 .. n |-> iter[1 .. i]]
<1>4. h[0] = b /\ h[n] = iter[1 .. n]
  <2>1. 1 .. 0 = {} /\ 0 \in 0 .. n /\ n \in 0 .. n
    OBVIOUS
  <2> QED BY <2>1, <1>2
<1>5. \A i \in 1 .. n : h[i] = FoldStep(step, h[i - 1], list[i], c)
  <2>1. \A i \in 1 .. n : i \in 0 .. n /\ i - 1 \in 0 .. n
    OBVIOUS
  <2>2. \A i \in 0 .. n : h[i] = iter[1 .. i]
    OBVIOUS
  <2> QED BY <2>1, <2>2, <1>3
<1> HIDE DEF h
<1> QED BY <1>4, <1>5 DEF FoldStates, FoldedBy

\* Rows are retired in order.
RetiredAll(b, list, c) == FoldLeft(LAMBDA s, x : RetireEntity(s, x, c[x]), b, list)

LEMMA RetiringTrace ==
  ASSUME NEW n \in Nat, NEW list, DOMAIN list = 1 .. n, NEW b, NEW c
  PROVE  FoldedBy("retire", n, b, list, c, RetiredAll(b, list, c))
<1> DEFINE Body(g) == [s \in SUBSET (1 .. n) |-> IF s = {} THEN b ELSE RetireEntity(g[s \ {Max(s)}], list[Max(s)], c[list[Max(s)]])]
           iter == CHOOSE g : g = Body(g)
<1>1. \A g : FoldBody("retire", g, 1 .. n, b, list, c) = Body(g)
  BY Zenon DEF FoldBody, FoldStep
<1> HIDE DEF Body
<1>2. PICK g0 : g0 = FoldBody("retire", g0, 1 .. n, b, list, c)
  <2>1. FoldIs("retire", n, b, list, c)
    BY FoldExists
  <2> QED BY <2>1, Zenon DEF FoldIs
<1>3. iter = Body(iter)
  <2>1. g0 = Body(g0)
    BY <1>1, <1>2, Zenon
  <2> QED BY <2>1, Zenon
<1>4. RetiredAll(b, list, c) = iter[1 .. n]
  BY Zenon DEF RetiredAll, FoldLeft, MapThenFoldSet, Body
<1> HIDE DEF iter
<1>5. iter = FoldBody("retire", iter, 1 .. n, b, list, c)
  BY <1>1, <1>3, Zenon
<1>6. FoldedBy("retire", n, b, list, c, iter[1 .. n])
  BY <1>5, FoldTrace
<1> QED BY <1>4, <1>6, Zenon

\* Rows are given an alias in order.
RealiasedAll(b, list, c) == FoldLeft(LAMBDA s, x : Realias(s, x, c[x]), b, list)

LEMMA RealiasingTrace ==
  ASSUME NEW n \in Nat, NEW list, DOMAIN list = 1 .. n, NEW b, NEW c
  PROVE  FoldedBy("realias", n, b, list, c, RealiasedAll(b, list, c))
<1> DEFINE Body(g) == [s \in SUBSET (1 .. n) |-> IF s = {} THEN b ELSE Realias(g[s \ {Max(s)}], list[Max(s)], c[list[Max(s)]])]
           iter == CHOOSE g : g = Body(g)
<1>1. \A g : FoldBody("realias", g, 1 .. n, b, list, c) = Body(g)
  BY Zenon DEF FoldBody, FoldStep
<1> HIDE DEF Body
<1>2. PICK g0 : g0 = FoldBody("realias", g0, 1 .. n, b, list, c)
  <2>1. FoldIs("realias", n, b, list, c)
    BY FoldExists
  <2> QED BY <2>1, Zenon DEF FoldIs
<1>3. iter = Body(iter)
  <2>1. g0 = Body(g0)
    BY <1>1, <1>2, Zenon
  <2> QED BY <2>1, Zenon
<1>4. RealiasedAll(b, list, c) = iter[1 .. n]
  BY Zenon DEF RealiasedAll, FoldLeft, MapThenFoldSet, Body
<1> HIDE DEF iter
<1>5. iter = FoldBody("realias", iter, 1 .. n, b, list, c)
  BY <1>1, <1>3, Zenon
<1>6. FoldedBy("realias", n, b, list, c, iter[1 .. n])
  BY <1>5, FoldTrace
<1> QED BY <1>4, <1>6, Zenon

\* Journal entries are retired in order.
JournalRetiredAll(b, list, c) == FoldLeft(LAMBDA s, x : RetireJournalDuplicate(s, x, c[x]), b, list)

LEMMA JournalTrace ==
  ASSUME NEW n \in Nat, NEW list, DOMAIN list = 1 .. n, NEW b, NEW c
  PROVE  FoldedBy("journal", n, b, list, c, JournalRetiredAll(b, list, c))
<1> DEFINE Body(g) == [s \in SUBSET (1 .. n) |-> IF s = {} THEN b ELSE RetireJournalDuplicate(g[s \ {Max(s)}], list[Max(s)], c[list[Max(s)]])]
           iter == CHOOSE g : g = Body(g)
<1>1. \A g : FoldBody("journal", g, 1 .. n, b, list, c) = Body(g)
  BY Zenon DEF FoldBody, FoldStep
<1> HIDE DEF Body
<1>2. PICK g0 : g0 = FoldBody("journal", g0, 1 .. n, b, list, c)
  <2>1. FoldIs("journal", n, b, list, c)
    BY FoldExists
  <2> QED BY <2>1, Zenon DEF FoldIs
<1>3. iter = Body(iter)
  <2>1. g0 = Body(g0)
    BY <1>1, <1>2, Zenon
  <2> QED BY <2>1, Zenon
<1>4. JournalRetiredAll(b, list, c) = iter[1 .. n]
  BY Zenon DEF JournalRetiredAll, FoldLeft, MapThenFoldSet, Body
<1> HIDE DEF iter
<1>5. iter = FoldBody("journal", iter, 1 .. n, b, list, c)
  BY <1>1, <1>3, Zenon
<1>6. FoldedBy("journal", n, b, list, c, iter[1 .. n])
  BY <1>5, FoldTrace
<1> QED BY <1>4, <1>6, Zenon

\* Orphans are proved again and again.
ProvedAll(d, retire, realias, b, list) == FoldLeft(LAMBDA s, x : ProvedAgain(d, retire, realias, s), b, list)

LEMMA ProvingTrace ==
  ASSUME NEW n \in Nat, NEW list, DOMAIN list = 1 .. n, NEW b, NEW d, NEW retire, NEW realias, NEW c, c = [d |-> d, retire |-> retire, realias |-> realias]
  PROVE  FoldedBy("prove", n, b, list, c, ProvedAll(d, retire, realias, b, list))
<1> DEFINE Body(g) == [s \in SUBSET (1 .. n) |-> IF s = {} THEN b ELSE ProvedAgain(d, retire, realias, g[s \ {Max(s)}])]
           iter == CHOOSE g : g = Body(g)
<1>1. \A g : FoldBody("prove", g, 1 .. n, b, list, c) = Body(g)
  <2>1. c.d = d /\ c.retire = retire /\ c.realias = realias
    OBVIOUS
  <2> QED BY <2>1, Zenon DEF FoldBody, FoldStep
<1> HIDE DEF Body
<1>2. PICK g0 : g0 = FoldBody("prove", g0, 1 .. n, b, list, c)
  <2>1. FoldIs("prove", n, b, list, c)
    BY FoldExists
  <2> QED BY <2>1, Zenon DEF FoldIs
<1>3. iter = Body(iter)
  <2>1. g0 = Body(g0)
    BY <1>1, <1>2, Zenon
  <2> QED BY <2>1, Zenon
<1>4. ProvedAll(d, retire, realias, b, list) = iter[1 .. n]
  BY Zenon DEF ProvedAll, FoldLeft, MapThenFoldSet, Body
<1> HIDE DEF iter
<1>5. iter = FoldBody("prove", iter, 1 .. n, b, list, c)
  BY <1>1, <1>3, Zenon
<1>6. FoldedBy("prove", n, b, list, c, iter[1 .. n])
  BY <1>5, FoldTrace
<1> QED BY <1>4, <1>6, Zenon

\* Pairs are retired again and again.
PairsRetiredAll(b, list, c) == FoldLeft(LAMBDA s, x : RetireJournalPairs(s, IF x = 1 THEN c ELSE {}), b, list)

LEMMA PassesTrace ==
  ASSUME NEW n \in Nat, NEW list, DOMAIN list = 1 .. n, NEW b, NEW c
  PROVE  FoldedBy("passes", n, b, list, c, PairsRetiredAll(b, list, c))
<1> DEFINE Body(g) == [s \in SUBSET (1 .. n) |-> IF s = {} THEN b ELSE RetireJournalPairs(g[s \ {Max(s)}], IF list[Max(s)] = 1 THEN c ELSE {})]
           iter == CHOOSE g : g = Body(g)
<1>1. \A g : FoldBody("passes", g, 1 .. n, b, list, c) = Body(g)
  BY Zenon DEF FoldBody, FoldStep
<1> HIDE DEF Body
<1>2. PICK g0 : g0 = FoldBody("passes", g0, 1 .. n, b, list, c)
  <2>1. FoldIs("passes", n, b, list, c)
    BY FoldExists
  <2> QED BY <2>1, Zenon DEF FoldIs
<1>3. iter = Body(iter)
  <2>1. g0 = Body(g0)
    BY <1>1, <1>2, Zenon
  <2> QED BY <2>1, Zenon
<1>4. PairsRetiredAll(b, list, c) = iter[1 .. n]
  BY Zenon DEF PairsRetiredAll, FoldLeft, MapThenFoldSet, Body
<1> HIDE DEF iter
<1>5. iter = FoldBody("passes", iter, 1 .. n, b, list, c)
  BY <1>1, <1>3, Zenon
<1>6. FoldedBy("passes", n, b, list, c, iter[1 .. n])
  BY <1>5, FoldTrace
<1> QED BY <1>4, <1>6, Zenon

---------------------------------------------------------------------------
(* What a repair has done so far can be undone from its manifest, whatever table it *)
(* is about.                                                                       *)

IsFun(f) == f = [k \in DOMAIN f |-> f[k]]
NatKeys(f) == IsFiniteSet(DOMAIN f) /\ DOMAIN f \subseteq Nat

\* Rows that are gone are in the manifest as they were; the others are as they were.
RowsUndo(was, is, gone) ==
  /\ DOMAIN gone \subseteq DOMAIN was /\ DOMAIN is = DOMAIN was \ DOMAIN gone
  /\ \A id \in DOMAIN gone : gone[id] = was[id]
  /\ \A id \in DOMAIN is : is[id] = was[id]

\* An alias that is neither in the manifest nor inserted is as it was; an inserted one names a row.
AliasesUndo(was, is, gone, inserts, ids) ==
  /\ DOMAIN gone \subseteq DOMAIN was /\ \A n \in DOMAIN gone : gone[n] = was[n]
  /\ \A n \in DOMAIN was : n \in DOMAIN gone \/ (n \in DOMAIN is /\ n \notin inserts)
  /\ \A n \in DOMAIN is : n \in inserts => is[n] \in ids
  /\ \A n \in DOMAIN is : n \notin inserts => n \in DOMAIN was /\ is[n] = was[n]

\* A column is as it was, or the manifest has what it named, which is retired; and none names what is.
DeferralsUndo(was, is, lost, moved, retired) ==
  /\ DOMAIN is \cup DOMAIN lost = DOMAIN was
  /\ \A k \in DOMAIN moved : k \in DOMAIN was /\ moved[k] = was[k] /\ moved[k] \in retired
  /\ \A k \in DOMAIN lost : lost[k] \in retired /\ (k \in DOMAIN moved \/ lost[k] = was[k])
  /\ \A k \in DOMAIN is : is[k] \notin retired /\ (k \in DOMAIN moved \/ is[k] = was[k])

LinksUndo(was, is, unlinked) ==
  /\ DOMAIN is = DOMAIN was
  /\ \A k \in DOMAIN was : (IF k \in DOMAIN unlinked THEN unlinked[k] ELSE is[k]) = was[k]

Tied(d) == \A k \in DOMAIN d.deferrals : d.deferrals[k] \in DOMAIN d.rows \cup DOMAIN d.journal

Undoable(b, s) ==
  /\ Shaped(s)
  /\ IsFun(s.d.rows) /\ IsFun(s.d.alias) /\ IsFun(s.d.deferrals) /\ IsFun(s.d.links) /\ IsFun(s.d.journal)
  /\ NatKeys(s.d.rows) /\ NatKeys(s.d.journal) /\ DOMAIN s.d.deferrals \subseteq Nat
  /\ NatKeys(s.m.rows) /\ NatKeys(s.m.journal) /\ DOMAIN s.m.deferrals \subseteq Nat
  /\ s.m.retirements = DOMAIN s.m.rows \cup DOMAIN s.m.journal
  /\ RowsUndo(b.rows, s.d.rows, s.m.rows)
  /\ RowsUndo(b.journal, s.d.journal, s.m.journal)
  /\ s.d.edges \cup s.m.edges = b.edges /\ s.d.sources \cup s.m.sources = b.sources
  /\ AliasesUndo(b.alias, s.d.alias, s.m.alias, s.m.inserts, DOMAIN s.d.rows)
  /\ DeferralsUndo(b.deferrals, s.d.deferrals, s.m.deferrals, s.m.repoints, s.m.retirements)
  /\ Tied(s.d)
  /\ LinksUndo(b.links, s.d.links, s.m.unlinks)
  /\ (IF s.m.report # "none" THEN s.m.report ELSE s.d.report) = b.report
  /\ DOMAIN s.m.statuses = {}

\* The least of a set of numbers is one of them.
LEMMA FirstIsOne ==
  ASSUME NEW s \in SUBSET Nat, s # {}
  PROVE  Min(s) \in s
<1>1. PICK m \in s : \A i \in s : m <= i
  BY LeastMember
<1> DEFINE M == CHOOSE x \in s : \A y \in s : x <= y
<1>2. M \in s
  BY <1>1
<1>3. Min(s) = M
  BY Zenon DEF Min
<1> HIDE DEF M
<1> QED BY <1>2, <1>3

\* Columns that named the row are moved or lost, and both can be undone.
ColumnsMoved(s, was, id, twin, retired, is, lost, moved) ==
  /\ DeferralsUndo(was, is, lost, moved, retired \cup {id})
  /\ IsFun(is) /\ DOMAIN is \subseteq DOMAIN s.d.deferrals
  /\ \A k \in DOMAIN is : is[k] # id /\ (is[k] = s.d.deferrals[k] \/ (is[k] = twin /\ twin # NoRow))
  /\ DOMAIN lost \subseteq DOMAIN s.m.deferrals \cup DOMAIN s.d.deferrals

LEMMA RepointsUndo ==
  ASSUME NEW s, NEW was, NEW id, NEW twin, NEW retired, DOMAIN s.d.deferrals \subseteq Nat,
         DeferralsUndo(was, s.d.deferrals, s.m.deferrals, s.m.repoints, retired),
         twin # NoRow => twin \notin retired /\ twin # id,
         NEW is, is = ColumnsAfter(s, id, twin),
         NEW lost, lost = LostAfter(s, id, twin),
         NEW moved, moved = MovedAfter(s, id, twin)
  PROVE  ColumnsMoved(s, was, id, twin, retired, is, lost, moved)
<1> DEFINE f == s.d.deferrals
           mine == Mine(s, id)
           mv == Moved(s, id, twin)
           ls == Lost(s, id, twin)
<1>1. mine \in SUBSET DOMAIN f /\ mine \in SUBSET Nat /\ \A k \in DOMAIN f : k \in mine <=> f[k] = id
  BY DEF Mine
<1>2. mv \subseteq mine /\ ls = mine \ mv /\ (mv # {} => twin # NoRow)
  <2>1. mine # {} => Min(mine) \in mine
    BY <1>1, FirstIsOne
  <2> HIDE DEF mine
  <2> QED BY <2>1 DEF Moved, Lost, mine
<1> HIDE DEF mine, mv, ls
<1>3. /\ DOMAIN is = DOMAIN f \ ls /\ \A k \in DOMAIN is : is[k] = IF k \in mv THEN twin ELSE f[k]
      /\ IsFun(is)
  BY DEF ColumnsAfter, mv, ls, IsFun
<1>4. /\ DOMAIN lost = DOMAIN s.m.deferrals \cup ls
      /\ \A k \in DOMAIN lost : lost[k] = IF k \in DOMAIN s.m.deferrals THEN s.m.deferrals[k] ELSE id
  BY DEF LostAfter, Over, ls
<1>5. /\ DOMAIN moved = DOMAIN s.m.repoints \cup mv
      /\ \A k \in DOMAIN moved : moved[k] = IF k \in DOMAIN s.m.repoints THEN s.m.repoints[k] ELSE id
  BY DEF MovedAfter, Over, mv
<1>6. DOMAIN is \cup DOMAIN lost = DOMAIN was
  BY <1>1, <1>2, <1>3, <1>4 DEF DeferralsUndo
<1>7. \A k \in DOMAIN moved : k \in DOMAIN was /\ moved[k] = was[k] /\ moved[k] \in retired \cup {id}
  BY <1>1, <1>2, <1>5 DEF DeferralsUndo
<1>8. \A k \in DOMAIN lost : lost[k] \in retired \cup {id} /\ (k \in DOMAIN moved \/ lost[k] = was[k])
  BY <1>1, <1>2, <1>4, <1>5 DEF DeferralsUndo
<1>9. \A k \in DOMAIN is : is[k] \notin retired \cup {id} /\ (k \in DOMAIN moved \/ is[k] = was[k])
  BY <1>1, <1>2, <1>3, <1>5 DEF DeferralsUndo
<1>10. \A k \in DOMAIN is : is[k] # id /\ (is[k] = f[k] \/ (is[k] = twin /\ twin # NoRow))
  BY <1>1, <1>2, <1>3, <1>9
<1> QED BY <1>1, <1>2, <1>3, <1>4, <1>6, <1>7, <1>8, <1>9, <1>10 DEF ColumnsMoved, DeferralsUndo

\* A row goes to the manifest, and that can be undone.
RowGone(was, is, gone, id, is2, gone2) ==
  /\ RowsUndo(was, is2, gone2) /\ IsFun(is2) /\ NatKeys(is2) /\ NatKeys(gone2)
  /\ DOMAIN is2 = DOMAIN is \ {id} /\ DOMAIN gone2 = DOMAIN gone \cup {id}

LEMMA RowGoes ==
  ASSUME NEW was, NEW is, NEW gone, RowsUndo(was, is, gone), NatKeys(is), NatKeys(gone), NEW id \in DOMAIN is,
         NEW is2, is2 = LessRow(is, id), NEW gone2, gone2 = Upserted(gone, id, is[id])
  PROVE  RowGone(was, is, gone, id, is2, gone2)
<1>1. DOMAIN is2 = DOMAIN is \ {id} /\ DOMAIN gone2 = DOMAIN gone \cup {id}
  BY DEF Upserted, LessRow
<1>2. NatKeys(is2) /\ NatKeys(gone2)
  <2>1. IsFiniteSet(DOMAIN is2) /\ IsFiniteSet(DOMAIN gone2)
    BY <1>1, FS_RemoveElement, FS_AddElement DEF NatKeys
  <2> QED BY <1>1, <2>1 DEF NatKeys
<1>3. RowsUndo(was, is2, gone2)
  <2>1. \A k \in DOMAIN gone2 : gone2[k] = was[k]
    BY DEF RowsUndo, Upserted, LessRow
  <2>2. \A k \in DOMAIN is2 : is2[k] = was[k]
    BY DEF RowsUndo, LessRow
  <2> QED BY <1>1, <2>1, <2>2 DEF RowsUndo
<1> QED BY <1>1, <1>2, <1>3 DEF RowGone, IsFun, LessRow

\* Retiring a row, with a twin that stays, can be undone.
LEMMA RetireUndo ==
  ASSUME NEW b, NEW s, Undoable(b, s), s.m.inserts = {}, NEW id \in DOMAIN s.d.rows, NEW twin,
         twin # NoRow => twin \in DOMAIN s.d.rows /\ twin \notin s.m.retirements /\ twin # id,
         NEW t, t = RetireEntity(s, id, twin)
  PROVE  /\ Undoable(b, t) /\ t.m.inserts = {} /\ DOMAIN t.d.rows = DOMAIN s.d.rows \ {id} /\ t.m.retirements = s.m.retirements \cup {id}
         /\ t.d.alias = s.d.alias /\ t.m.alias = s.m.alias
<1>1. Shaped(s)
  BY DEF Undoable
<1>2. RowRetired(s, id, twin, t)
  BY <1>1, RetireIs
<1>3. /\ RowsUndo(b.rows, t.d.rows, t.m.rows) /\ IsFun(t.d.rows) /\ NatKeys(t.d.rows) /\ NatKeys(t.m.rows)
      /\ DOMAIN t.d.rows = DOMAIN s.d.rows \ {id} /\ DOMAIN t.m.rows = DOMAIN s.m.rows \cup {id}
  <2>1. RowsUndo(b.rows, s.d.rows, s.m.rows) /\ NatKeys(s.d.rows) /\ NatKeys(s.m.rows)
    BY DEF Undoable
  <2>2. t.d.rows = LessRow(s.d.rows, id) /\ t.m.rows = Upserted(s.m.rows, id, s.d.rows[id])
    BY <1>2, Zenon DEF RowRetired
  <2>3. RowGone(b.rows, s.d.rows, s.m.rows, id, t.d.rows, t.m.rows)
    BY <2>1, <2>2, RowGoes
  <2> QED BY <2>3 DEF RowGone
<1>4. /\ DeferralsUndo(b.deferrals, t.d.deferrals, t.m.deferrals, t.m.repoints, t.m.retirements)
      /\ IsFun(t.d.deferrals) /\ DOMAIN t.d.deferrals \subseteq DOMAIN s.d.deferrals
      /\ \A k \in DOMAIN t.d.deferrals : t.d.deferrals[k] # id /\ (t.d.deferrals[k] = s.d.deferrals[k] \/ (t.d.deferrals[k] = twin /\ twin # NoRow))
      /\ DOMAIN t.m.deferrals \subseteq DOMAIN s.m.deferrals \cup DOMAIN s.d.deferrals
  <2>1. DOMAIN s.d.deferrals \subseteq Nat /\ DeferralsUndo(b.deferrals, s.d.deferrals, s.m.deferrals, s.m.repoints, s.m.retirements)
    BY DEF Undoable
  <2>2. twin # NoRow => twin \notin s.m.retirements /\ twin # id
    OBVIOUS
  <2>3. t.m.retirements = s.m.retirements \cup {id}
    BY <1>2 DEF RowRetired
  <2>4. /\ t.d.deferrals = ColumnsAfter(s, id, twin)
        /\ t.m.deferrals = LostAfter(s, id, twin)
        /\ t.m.repoints = MovedAfter(s, id, twin)
    BY <1>2, Zenon DEF RowRetired
  <2>5. ColumnsMoved(s, b.deferrals, id, twin, s.m.retirements, t.d.deferrals, t.m.deferrals, t.m.repoints)
    BY <2>1, <2>2, <2>4, RepointsUndo
  <2> QED BY <2>3, <2>5, Zenon DEF ColumnsMoved
<1>5. LinksUndo(b.links, t.d.links, t.m.unlinks) /\ IsFun(t.d.links)
  <2> DEFINE hurt == Hurt(s, id)
  <2>1. DOMAIN s.d.links = DOMAIN b.links /\ \A k \in DOMAIN b.links : (IF k \in DOMAIN s.m.unlinks THEN s.m.unlinks[k] ELSE s.d.links[k]) = b.links[k]
    BY DEF Undoable, LinksUndo
  <2>2. \A k \in DOMAIN s.d.links : k \in hurt <=> s.d.links[k] = id
    BY DEF Hurt
  <2>3. hurt \subseteq DOMAIN s.d.links
    BY DEF Hurt
  <2> HIDE DEF hurt
  <2>4. DOMAIN t.d.links = DOMAIN s.d.links /\ IsFun(t.d.links) /\ \A k \in DOMAIN s.d.links : k \notin hurt => t.d.links[k] = s.d.links[k]
    BY <1>2 DEF RowRetired, hurt, IsFun
  <2>5. DOMAIN t.m.unlinks = DOMAIN s.m.unlinks \cup hurt /\ \A k \in DOMAIN t.m.unlinks : t.m.unlinks[k] = IF k \in DOMAIN s.m.unlinks THEN s.m.unlinks[k] ELSE id
    BY <1>2 DEF RowRetired, hurt, Over
  <2> QED BY <2>1, <2>2, <2>3, <2>4, <2>5 DEF LinksUndo
<1>6. Tied(t.d)
  <2>1. t.d.journal = s.d.journal
    BY <1>2 DEF RowRetired
  <2> QED BY <1>3, <1>4, <2>1 DEF Tied, Undoable
<1>7. t.d.edges \cup t.m.edges = b.edges /\ t.d.sources \cup t.m.sources = b.sources
  <2>1. EdgesAt(s, id) \subseteq s.d.edges
    BY DEF EdgesAt
  <2> QED BY <1>2, <2>1 DEF RowRetired, Undoable
<1>8. AliasesUndo(b.alias, t.d.alias, t.m.alias, t.m.inserts, DOMAIN t.d.rows)
  BY <1>2 DEF RowRetired, Undoable, AliasesUndo
<1>9. t.m.retirements = DOMAIN t.m.rows \cup DOMAIN t.m.journal
  BY <1>2, <1>3 DEF RowRetired, Undoable
<1>10. /\ IsFun(t.d.alias) /\ IsFun(t.d.journal) /\ NatKeys(t.d.journal) /\ NatKeys(t.m.journal)
       /\ RowsUndo(b.journal, t.d.journal, t.m.journal) /\ DOMAIN t.m.statuses = {}
       /\ (IF t.m.report # "none" THEN t.m.report ELSE t.d.report) = b.report
  BY <1>2 DEF RowRetired, Undoable
<1>11. DOMAIN t.d.deferrals \subseteq Nat /\ DOMAIN t.m.deferrals \subseteq Nat
  BY <1>4 DEF Undoable
<1>12. Shaped(t) /\ t.m.inserts = {} /\ t.m.retirements = s.m.retirements \cup {id} /\ t.d.alias = s.d.alias /\ t.m.alias = s.m.alias
  BY <1>2 DEF RowRetired
<1> QED BY <1>3, <1>4, <1>5, <1>6, <1>7, <1>8, <1>9, <1>10, <1>11, <1>12 DEF Undoable

\* Collecting dead aliases can be undone: none that was inserted is dead.
LEMMA CollectUndo ==
  ASSUME NEW b, NEW s, Undoable(b, s), NEW t, t = CollectDeadAliases(s)
  PROVE  /\ Undoable(b, t) /\ t.d.rows = s.d.rows /\ t.d.journal = s.d.journal /\ t.m.inserts = s.m.inserts
         /\ t.m.retirements = s.m.retirements /\ t.m.rows = s.m.rows /\ t.m.journal = s.m.journal
<1>1. Collected(s, t)
  BY CollectIs DEF Undoable
<1>2. DeadAliases(s.d) \subseteq DOMAIN s.d.alias /\ \A n \in DeadAliases(s.d) : s.d.alias[n] \notin DOMAIN s.d.rows
  BY DEF DeadAliases
<1> DEFINE dead == DeadAliases(s.d)
<1> HIDE DEF dead
<1>3. /\ DOMAIN t.d.alias = DOMAIN s.d.alias \ dead /\ \A n \in DOMAIN t.d.alias : t.d.alias[n] = s.d.alias[n]
      /\ IsFun(t.d.alias)
  BY <1>1 DEF Collected, dead, IsFun
<1>4. /\ DOMAIN t.m.alias = DOMAIN s.m.alias \cup dead
      /\ \A n \in DOMAIN t.m.alias : t.m.alias[n] = IF n \in DOMAIN s.m.alias THEN s.m.alias[n] ELSE s.d.alias[n]
  BY <1>1 DEF Collected, dead, Over
<1>5. AliasesUndo(b.alias, t.d.alias, t.m.alias, s.m.inserts, DOMAIN s.d.rows)
  <2>1. AliasesUndo(b.alias, s.d.alias, s.m.alias, s.m.inserts, DOMAIN s.d.rows)
    BY DEF Undoable
  <2>2. \A n \in dead : n \in DOMAIN s.d.alias /\ n \notin s.m.inserts
    BY <1>2, <2>1 DEF AliasesUndo, dead
  <2> QED BY <1>3, <1>4, <2>1, <2>2 DEF AliasesUndo
<1> QED BY <1>1, <1>3, <1>5 DEF Collected, Undoable, Tied

\* Archiving the report can be undone.
LEMMA ArchiveUndo ==
  ASSUME NEW b, NEW s, Undoable(b, s), s.m.report = "none", NEW t, t = ArchiveMootReport(s)
  PROVE  /\ Undoable(b, t) /\ t.d.rows = s.d.rows /\ t.d.alias = s.d.alias /\ t.m.inserts = s.m.inserts
         /\ t.m.retirements = s.m.retirements
<1>1. Archived(s, t)
  BY ArchiveIs DEF Undoable
<1>2. (IF t.m.report # "none" THEN t.m.report ELSE t.d.report) = b.report
  BY <1>1 DEF Archived, Undoable
<1> QED BY <1>1, <1>2 DEF Archived, Undoable, Tied

\* An alias for a row can be undone when it is in no use.
LEMMA RealiasUndo ==
  ASSUME NEW b, NEW s, Undoable(b, s), NEW id \in DOMAIN s.d.rows, NEW name, name \in DOMAIN s.d.alias => name \in s.m.inserts,
         NEW t, t = Realias(s, id, name)
  PROVE  /\ Undoable(b, t) /\ t.d.rows = s.d.rows
         /\ DOMAIN t.d.alias \ t.m.inserts \subseteq DOMAIN s.d.alias \ s.m.inserts
<1>1. Realiased(s, id, name, t)
  BY RealiasIs DEF Undoable
<1>2. /\ DOMAIN t.d.alias = DOMAIN s.d.alias \cup {name} /\ IsFun(t.d.alias)
      /\ \A n \in DOMAIN t.d.alias : t.d.alias[n] = IF n = name THEN id ELSE s.d.alias[n]
      /\ t.m.inserts = s.m.inserts \cup {name}
  BY <1>1 DEF Realiased, Upserted, IsFun
<1>3. AliasesUndo(b.alias, t.d.alias, s.m.alias, t.m.inserts, DOMAIN s.d.rows)
  <2>1. AliasesUndo(b.alias, s.d.alias, s.m.alias, s.m.inserts, DOMAIN s.d.rows)
    BY DEF Undoable
  <2> QED BY <1>2, <2>1 DEF AliasesUndo
<1> QED BY <1>1, <1>2, <1>3 DEF Realiased, Undoable, Tied

\* Retiring a journal entry, with a twin that stays, can be undone.
LEMMA JournalUndo ==
  ASSUME NEW b, NEW s, Undoable(b, s), NEW id \in DOMAIN s.d.journal, NEW twin,
         twin # NoRow => twin \in DOMAIN s.d.journal /\ twin \notin s.m.retirements /\ twin # id,
         NEW t, t = RetireJournalDuplicate(s, id, twin)
  PROVE  /\ Undoable(b, t) /\ t.m.rows = s.m.rows /\ t.d.rows = s.d.rows
         /\ t.d.journal = LessRow(s.d.journal, id) /\ DOMAIN t.d.journal = DOMAIN s.d.journal \ {id}
         /\ t.m.retirements = s.m.retirements \cup {id}
<1>1. JournalRetired(s, id, twin, t)
  BY RetireJournalIs DEF Undoable
<1>2. /\ RowsUndo(b.journal, t.d.journal, t.m.journal) /\ IsFun(t.d.journal) /\ NatKeys(t.d.journal) /\ NatKeys(t.m.journal)
      /\ DOMAIN t.d.journal = DOMAIN s.d.journal \ {id} /\ DOMAIN t.m.journal = DOMAIN s.m.journal \cup {id}
  <2>1. RowsUndo(b.journal, s.d.journal, s.m.journal) /\ NatKeys(s.d.journal) /\ NatKeys(s.m.journal)
    BY DEF Undoable
  <2>2. t.d.journal = LessRow(s.d.journal, id) /\ t.m.journal = Upserted(s.m.journal, id, s.d.journal[id])
    BY <1>1, Zenon DEF JournalRetired
  <2>3. RowGone(b.journal, s.d.journal, s.m.journal, id, t.d.journal, t.m.journal)
    BY <2>1, <2>2, RowGoes
  <2> QED BY <2>3 DEF RowGone
<1>3. /\ DeferralsUndo(b.deferrals, t.d.deferrals, t.m.deferrals, t.m.repoints, t.m.retirements)
      /\ IsFun(t.d.deferrals) /\ DOMAIN t.d.deferrals \subseteq DOMAIN s.d.deferrals
      /\ \A k \in DOMAIN t.d.deferrals : t.d.deferrals[k] # id /\ (t.d.deferrals[k] = s.d.deferrals[k] \/ (t.d.deferrals[k] = twin /\ twin # NoRow))
      /\ DOMAIN t.m.deferrals \subseteq DOMAIN s.m.deferrals \cup DOMAIN s.d.deferrals
  <2>1. DOMAIN s.d.deferrals \subseteq Nat /\ DeferralsUndo(b.deferrals, s.d.deferrals, s.m.deferrals, s.m.repoints, s.m.retirements)
    BY DEF Undoable
  <2>2. twin # NoRow => twin \notin s.m.retirements /\ twin # id
    OBVIOUS
  <2>3. t.m.retirements = s.m.retirements \cup {id}
    BY <1>1 DEF JournalRetired
  <2>4. t.d.deferrals = ColumnsAfter(s, id, twin) /\ t.m.deferrals = LostAfter(s, id, twin) /\ t.m.repoints = MovedAfter(s, id, twin)
    BY <1>1, Zenon DEF JournalRetired
  <2>5. ColumnsMoved(s, b.deferrals, id, twin, s.m.retirements, t.d.deferrals, t.m.deferrals, t.m.repoints)
    BY <2>1, <2>2, <2>4, RepointsUndo
  <2> QED BY <2>3, <2>5, Zenon DEF ColumnsMoved
<1>4. Tied(t.d)
  <2>1. t.d.rows = s.d.rows
    BY <1>1 DEF JournalRetired
  <2> QED BY <1>2, <1>3, <2>1 DEF Tied, Undoable
<1>5. t.m.retirements = DOMAIN t.m.rows \cup DOMAIN t.m.journal
  BY <1>1, <1>2 DEF JournalRetired, Undoable
<1>6. DOMAIN t.d.deferrals \subseteq Nat /\ DOMAIN t.m.deferrals \subseteq Nat
  BY <1>3 DEF Undoable
<1> QED BY <1>1, <1>2, <1>3, <1>4, <1>5, <1>6 DEF JournalRetired, Undoable

\* Tables a repair begins with.
Sound(b) == IsTables(b) /\ Tied(b)

\* Nothing has been done yet.
LEMMA NothingUndo ==
  ASSUME NEW b, Sound(b)
  PROVE  /\ Undoable(b, [d |-> b, m |-> NoWork]) /\ [d |-> b, m |-> NoWork].d = b
         /\ LET m == [d |-> b, m |-> NoWork].m IN m.inserts = {} /\ m.report = "none" /\ m.retirements = {} /\ m.rows = EmptyTable(0) /\ m.journal = EmptyTable(0)
<1> DEFINE s == [d |-> b, m |-> NoWork]
<1>1. s.d = b /\ s.m = NoWork
  OBVIOUS
<1>2. /\ NoWork.rows = EmptyTable(0) /\ NoWork.alias = EmptyTable(0) /\ NoWork.edges = {} /\ NoWork.deferrals = EmptyTable(0) /\ NoWork.sources = {}
      /\ NoWork.journal = EmptyTable(0) /\ NoWork.unlinks = EmptyTable(0) /\ NoWork.repoints = EmptyTable(0) /\ NoWork.inserts = {} /\ NoWork.statuses = EmptyTable(0)
      /\ NoWork.report = "none" /\ NoWork.retirements = {} /\ NoWork = ManifestOf(NoWork)
  BY DEF NoWork, ManifestOf
<1>3. DOMAIN EmptyTable(0) = {}
  BY DEF EmptyTable
<1>4. NatKeys(EmptyTable(0))
  BY <1>3, FS_EmptySet DEF NatKeys
<1>5. Shaped(s)
  BY <1>1, <1>2 DEF Shaped, Sound, IsTables, TablesOf
<1>6. /\ IsFun(b.rows) /\ IsFun(b.alias) /\ IsFun(b.deferrals) /\ IsFun(b.links) /\ IsFun(b.journal)
      /\ NatKeys(b.rows) /\ NatKeys(b.journal) /\ DOMAIN b.deferrals \subseteq Nat
  BY DEF Sound, IsTables, IsFun, NatKeys
<1>7. RowsUndo(b.rows, b.rows, EmptyTable(0)) /\ RowsUndo(b.journal, b.journal, EmptyTable(0))
  BY <1>3 DEF RowsUndo
<1>8. AliasesUndo(b.alias, b.alias, EmptyTable(0), {}, DOMAIN b.rows) /\ DeferralsUndo(b.deferrals, b.deferrals, EmptyTable(0), EmptyTable(0), {}) /\ LinksUndo(b.links, b.links, EmptyTable(0))
  BY <1>3 DEF AliasesUndo, DeferralsUndo, LinksUndo
<1> HIDE DEF s
<1>9. Undoable(b, s)
  BY <1>1, <1>2, <1>3, <1>4, <1>5, <1>6, <1>7, <1>8 DEF Undoable, Sound
<1> QED BY <1>1, <1>2, <1>9 DEF s

---------------------------------------------------------------------------
(* Rollback, table by table. *)

AliasesBack(d, m) == Over(m.alias, [n \in DOMAIN d.alias \ m.inserts |-> d.alias[n]])
RowsBack(d, m) == [id \in DOMAIN m.rows \cup DOMAIN d.rows |->
                   IF id \in DOMAIN m.rows THEN m.rows[id] ELSE IF id \in DOMAIN m.statuses THEN [d.rows[id] EXCEPT !.status = m.statuses[id]] ELSE d.rows[id]]
ColumnsKept(d, m) == [k \in {x \in DOMAIN d.deferrals : \A y \in DOMAIN m.deferrals : m.deferrals[y] # d.deferrals[x]} |-> d.deferrals[k]]
ColumnsBack(d, m) == LET all == Over(m.deferrals, ColumnsKept(d, m)) IN [k \in DOMAIN all |-> IF k \in DOMAIN m.repoints THEN m.repoints[k] ELSE all[k]]
LinksBack(d, m) == [k \in DOMAIN d.links |-> IF k \in DOMAIN m.unlinks THEN m.unlinks[k] ELSE d.links[k]]

RolledBack(d, m, r) ==
  r = [rows |-> RowsBack(d, m), alias |-> AliasesBack(d, m), edges |-> d.edges \cup m.edges, deferrals |-> ColumnsBack(d, m),
       links |-> LinksBack(d, m), journal |-> Over(m.journal, d.journal), sources |-> d.sources \cup m.sources,
       report |-> IF m.report # "none" THEN m.report ELSE d.report]

LEMMA RollBackIs ==
  ASSUME NEW d, d = TablesOf(d), NEW m
  PROVE  RolledBack(d, m, RollBackManifest(d, m))
<1> DEFINE r == RollBackManifest(d, m)
           a == AliasesBack(d, m)
           w == RowsBack(d, m)
           c == ColumnsBack(d, m)
           l == LinksBack(d, m)
           j == Over(m.journal, d.journal)
           e == d.edges \cup m.edges
           o == d.sources \cup m.sources
           p == IF m.report # "none" THEN m.report ELSE d.report
<1>1. r = [d EXCEPT !.alias = a, !.rows = w, !.report = p, !.edges = e, !.sources = o, !.journal = j, !.deferrals = c, !.links = l]
  BY Zenon DEF RollBackManifest, AliasesBack, RowsBack, ColumnsKept, ColumnsBack, LinksBack
<1> HIDE DEF r, a, w, c, l, j, e, o, p
<1>2. r = [rows |-> w, alias |-> a, edges |-> e, deferrals |-> c, links |-> l, journal |-> j, sources |-> o, report |-> p]
  BY <1>1 DEF TablesOf
<1> QED BY <1>2, Zenon DEF RolledBack, r, a, w, c, l, j, e, o, p

\* What a repair did is undone by its manifest, to the last table.
THEOREM RepairIsUndone ==
  ASSUME NEW b, Sound(b), NEW s, Undoable(b, s)
  PROVE  RollBackManifest(s.d, s.m) = b
<1> DEFINE d == s.d
           m == s.m
<1>1. RolledBack(d, m, RollBackManifest(d, m))
  BY RollBackIs DEF Undoable, Shaped
<1>2. RowsBack(d, m) = b.rows
  <2>1. RowsUndo(b.rows, d.rows, m.rows) /\ DOMAIN m.statuses = {}
    BY DEF Undoable
  <2>2. DOMAIN b.rows = DOMAIN m.rows \cup DOMAIN d.rows /\ b.rows = [id \in DOMAIN b.rows |-> b.rows[id]]
    BY <2>1 DEF RowsUndo, Sound, IsTables
  <2>3. \A id \in DOMAIN b.rows : b.rows[id] = RowsBack(d, m)[id]
    BY <2>1, <2>2 DEF RowsUndo, RowsBack
  <2>4. DOMAIN RowsBack(d, m) = DOMAIN b.rows /\ IsFun(RowsBack(d, m))
    BY <2>2 DEF RowsBack, IsFun
  <2> QED BY <2>2, <2>3, <2>4 DEF IsFun
<1>3. AliasesBack(d, m) = b.alias
  <2> DEFINE left == [n \in DOMAIN d.alias \ m.inserts |-> d.alias[n]]
  <2>1. AliasesUndo(b.alias, d.alias, m.alias, m.inserts, DOMAIN d.rows)
    BY DEF Undoable
  <2>2. DOMAIN left = DOMAIN d.alias \ m.inserts /\ \A n \in DOMAIN left : left[n] = d.alias[n]
    OBVIOUS
  <2>3. AliasesBack(d, m) = Over(m.alias, left)
    BY Zenon DEF AliasesBack
  <2> HIDE DEF left
  <2>4. DOMAIN m.alias \cup DOMAIN left = DOMAIN b.alias
    BY <2>1, <2>2 DEF AliasesUndo
  <2>5. \A n \in DOMAIN b.alias : (IF n \in DOMAIN m.alias THEN m.alias[n] ELSE left[n]) = b.alias[n]
    BY <2>1, <2>2, <2>4 DEF AliasesUndo
  <2>6. b.alias = [n \in DOMAIN b.alias |-> b.alias[n]]
    BY DEF Sound, IsTables
  <2> QED BY <2>3, <2>4, <2>5, <2>6 DEF Over
<1>4. ColumnsBack(d, m) = b.deferrals
  <2> DEFINE stays == ColumnsKept(d, m)
             all == Over(m.deferrals, stays)
  <2>1. DeferralsUndo(b.deferrals, d.deferrals, m.deferrals, m.repoints, m.retirements)
    BY DEF Undoable
  <2>2. DOMAIN stays = DOMAIN d.deferrals /\ \A k \in DOMAIN stays : stays[k] = d.deferrals[k]
    BY <2>1 DEF ColumnsKept, DeferralsUndo
  <2> HIDE DEF stays
  <2>3. DOMAIN all = DOMAIN b.deferrals /\ \A k \in DOMAIN all : all[k] = IF k \in DOMAIN m.deferrals THEN m.deferrals[k] ELSE d.deferrals[k]
    BY <2>1, <2>2 DEF Over, DeferralsUndo
  <2>4. ColumnsBack(d, m) = [k \in DOMAIN all |-> IF k \in DOMAIN m.repoints THEN m.repoints[k] ELSE all[k]]
    BY Zenon DEF ColumnsBack, stays
  <2> HIDE DEF all
  <2>5. \A k \in DOMAIN b.deferrals : (IF k \in DOMAIN m.repoints THEN m.repoints[k] ELSE all[k]) = b.deferrals[k]
    BY <2>1, <2>3 DEF DeferralsUndo
  <2>6. b.deferrals = [k \in DOMAIN b.deferrals |-> b.deferrals[k]]
    BY DEF Sound, IsTables
  <2> QED BY <2>3, <2>4, <2>5, <2>6
<1>5. LinksBack(d, m) = b.links
  <2>1. LinksUndo(b.links, d.links, m.unlinks) /\ b.links = [k \in DOMAIN b.links |-> b.links[k]]
    BY DEF Undoable, Sound, IsTables
  <2> QED BY <2>1 DEF LinksUndo, LinksBack
<1>6. Over(m.journal, d.journal) = b.journal
  <2>1. RowsUndo(b.journal, d.journal, m.journal) /\ b.journal = [k \in DOMAIN b.journal |-> b.journal[k]]
    BY DEF Undoable, Sound, IsTables
  <2>2. DOMAIN m.journal \cup DOMAIN d.journal = DOMAIN b.journal
    BY <2>1 DEF RowsUndo
  <2>3. \A k \in DOMAIN b.journal : (IF k \in DOMAIN m.journal THEN m.journal[k] ELSE d.journal[k]) = b.journal[k]
    BY <2>1, <2>2 DEF RowsUndo
  <2> QED BY <2>1, <2>2, <2>3 DEF Over
<1>7. d.edges \cup m.edges = b.edges /\ d.sources \cup m.sources = b.sources /\ (IF m.report # "none" THEN m.report ELSE d.report) = b.report
  BY DEF Undoable
<1>8. b = [rows |-> b.rows, alias |-> b.alias, edges |-> b.edges, deferrals |-> b.deferrals,
           links |-> b.links, journal |-> b.journal, sources |-> b.sources, report |-> b.report]
  BY DEF Sound, IsTables
<1> HIDE DEF d, m
<1>9. RollBackManifest(d, m) = b
  BY <1>1, <1>2, <1>3, <1>4, <1>5, <1>6, <1>7, <1>8, Zenon DEF RolledBack
<1> QED BY <1>9 DEF d, m

---------------------------------------------------------------------------
(* The repair of the orphans. *)

\* A list of numbers in their order, each once.
InOrder(S, list) ==
  /\ Cardinality(S) \in Nat /\ DOMAIN list = 1 .. Cardinality(S)
  /\ \A i \in DOMAIN list : list[i] \in S
  /\ \A i, j \in DOMAIN list : i < j => list[i] # list[j]

InTurn(S) == Listed(S, <)

LEMMA NumbersListed ==
  ASSUME NEW S \in SUBSET Nat, IsFiniteSet(S)
  PROVE  InOrder(S, InTurn(S))
<1> DEFINE R == {p \in S \X S : p[1] < p[2]}
           list == InTurn(S)
           N == Cardinality(S)
<1>1. \A x, y \in S : <<x, y>> \in R <=> x < y
  OBVIOUS
<1>2. \A x \in S : <<x, x>> \notin R
  BY <1>1
<1>3. \A x, y, z \in S : <<x, y>> \in R /\ <<y, z>> \in R => <<x, z>> \in R
  BY <1>1
<1>4. \A x, y \in S : x # y => <<x, y>> \in R \/ <<y, x>> \in R
  BY <1>1
<1>5. ASSUME NEW n \in 1 .. N, NEW x \in S, Cardinality({y \in S : <<y, x>> \in R}) = n - 1
      PROVE  list[n] \in S /\ Cardinality({y \in S : <<y, list[n]>> \in R}) = n - 1
  <2>1. \A z \in S : {y \in S : y < z} = {y \in S : <<y, z>> \in R}
    BY <1>1
  <2>2. Cardinality({y \in S : y < x}) = n - 1
    BY <1>5, <2>1
  <2>3. list[n] = CHOOSE z \in S : Cardinality({y \in S : y < z}) = n - 1
    BY Zenon DEF InTurn, Listed
  <2> HIDE DEF list, R
  <2>4. list[n] \in S /\ Cardinality({y \in S : y < list[n]}) = n - 1
    BY <2>2, <2>3, Zenon
  <2> QED BY <2>1, <2>4
<1>6. DOMAIN list = 1 .. N
  BY DEF InTurn, Listed
<1> HIDE DEF list, R, N
<1>7. /\ Cardinality(S) \in Nat
      /\ \A i \in 1 .. Cardinality(S) : list[i] \in S
      /\ \A x \in S : \E i \in 1 .. Cardinality(S) : list[i] = x
      /\ \A i, j \in 1 .. Cardinality(S) : i < j => <<list[i], list[j]>> \in R
  <2>1. \A n \in 1 .. Cardinality(S) : (\E x \in S : Cardinality({y \in S : <<y, x>> \in R}) = n - 1)
            => list[n] \in S /\ Cardinality({y \in S : <<y, list[n]>> \in R}) = n - 1
    BY <1>5 DEF N
  <2> QED BY <1>2, <1>3, <1>4, <2>1, MembersInOrder
<1>8. \A i, j \in 1 .. Cardinality(S) : i < j => list[i] # list[j]
  BY <1>2, <1>7
<1> QED BY <1>6, <1>7, <1>8 DEF InOrder, N, list

\* Rows to retire are orphans that are not to be stays, and each one's twin is no orphan.
FoundOk(d, realias, found) ==
  /\ DOMAIN found \subseteq AliasOrphanRows(d) \ DOMAIN realias
  /\ \A o \in DOMAIN found : found[o] = NoRow \/ found[o] \in Holders(d)

LEMMA TwinHolds ==
  ASSUME NEW d, NEW o, NEW pool
  PROVE  TwinOf(d, o, pool) = NoRow \/ TwinOf(d, o, pool) \in Holders(d)
<1> DEFINE proofs == <<DerivationTwin(d, o), SourceSaltTwin(d, o, pool), ContentIdentityTwin(d, o, pool)>>
           found == {i \in DOMAIN proofs : proofs[i] # {}}
<1>1. DOMAIN proofs = 1 .. 3 /\ proofs[1] = DerivationTwin(d, o) /\ proofs[2] = SourceSaltTwin(d, o, pool) /\ proofs[3] = ContentIdentityTwin(d, o, pool)
  OBVIOUS
<1>2. DerivationTwin(d, o) \subseteq Holders(d) /\ SourceSaltTwin(d, o, pool) \subseteq Holders(d) /\ ContentIdentityTwin(d, o, pool) \subseteq Holders(d)
  <2>1. DerivationTwin(d, o) \subseteq Holders(d)
    BY DEF DerivationTwin
  <2>2. SourceSaltTwin(d, o, pool) \subseteq Holders(d)
    BY DEF SourceSaltTwin
  <2>3. ContentIdentityTwin(d, o, pool) \subseteq Holders(d)
    BY DEF ContentIdentityTwin
  <2> QED BY <2>1, <2>2, <2>3
<1>3. TwinOf(d, o, pool) = IF found = {} THEN NoRow ELSE CHOOSE h \in proofs[Min(found)] : TRUE
  BY Zenon DEF TwinOf
<1>4. ASSUME found # {} PROVE Min(found) \in found
  <2>1. found \in SUBSET Nat
    BY <1>1
  <2> HIDE DEF found
  <2> QED BY <1>4, <2>1, FirstIsOne
<1>5. \A i \in 1 .. 3 : proofs[i] \subseteq Holders(d)
  <2> HIDE DEF proofs
  <2>1. \A i \in 1 .. 3 : i = 1 \/ i = 2 \/ i = 3
    OBVIOUS
  <2> QED BY <1>1, <1>2, <2>1
<1>6. \A i \in found : i \in 1 .. 3 /\ proofs[i] # {}
  BY <1>1
<1> HIDE DEF proofs, found
<1>7. ASSUME found # {} PROVE (CHOOSE h \in proofs[Min(found)] : TRUE) \in Holders(d)
  BY <1>4, <1>5, <1>6, <1>7
<1> QED BY <1>3, <1>7

LEMMA ProvedStep ==
  ASSUME NEW d, NEW retire, NEW realias, NEW found, FoundOk(d, realias, found)
  PROVE  FoundOk(d, realias, ProvedAgain(d, retire, realias, found))
<1> DEFINE orphans == AliasOrphanRows(d)
           pool == orphans \ (DOMAIN found \cup retire)
           twins == [o \in orphans \ (DOMAIN found \cup DOMAIN realias) |-> TwinOf(d, o, pool)]
           more == [o \in {x \in DOMAIN twins : twins[x] # NoRow \/ x \in retire} |-> twins[o]]
<1>1. ProvedAgain(d, retire, realias, found) = Over(found, more)
  BY Zenon DEF ProvedAgain
<1>2. DOMAIN twins = orphans \ (DOMAIN found \cup DOMAIN realias) /\ \A o \in DOMAIN twins : twins[o] = NoRow \/ twins[o] \in Holders(d)
  BY TwinHolds
<1> HIDE DEF twins
<1>3. DOMAIN more \subseteq DOMAIN twins /\ \A o \in DOMAIN more : more[o] = twins[o]
  OBVIOUS
<1> HIDE DEF more, orphans
<1>4. DOMAIN Over(found, more) = DOMAIN found \cup DOMAIN more
  BY DEF Over
<1>5. \A o \in DOMAIN Over(found, more) : Over(found, more)[o] = IF o \in DOMAIN found THEN found[o] ELSE more[o]
  BY <1>4 DEF Over
<1> QED BY <1>1, <1>2, <1>3, <1>4, <1>5 DEF FoundOk, orphans

LEMMA ClassifiedOk ==
  ASSUME NEW d, NatKeys(d.rows), NEW retire, NEW realias
  PROVE  FoundOk(d, realias, ClassifyAliasOrphans(d, retire, realias))
<1> DEFINE n == Cardinality(AliasOrphanRows(d)) + 1
           list == [k \in 1 .. n |-> k]
           c == [d |-> d, retire |-> retire, realias |-> realias]
           b == EmptyTable(NoRow)
<1>1. n \in Nat
  <2>1. AliasOrphanRows(d) \in SUBSET DOMAIN d.rows
    BY DEF AliasOrphanRows
  <2>2. IsFiniteSet(AliasOrphanRows(d))
    BY <2>1, FS_Subset DEF NatKeys
  <2> QED BY <2>2, FS_CardinalityType
<1>2. ClassifyAliasOrphans(d, retire, realias) = ProvedAll(d, retire, realias, b, list)
  BY Zenon DEF ClassifyAliasOrphans, ProvedAll
<1>3. DOMAIN list = 1 .. n
  OBVIOUS
<1>4. c = [d |-> d, retire |-> retire, realias |-> realias]
  OBVIOUS
<1>5. c.d = d /\ c.retire = retire /\ c.realias = realias
  OBVIOUS
<1>6. FoundOk(d, realias, b)
  BY DEF FoundOk, EmptyTable
<1> HIDE DEF n, list, c, b
<1>7. PICK h : FoldStates("prove", h, n, b, list, c) /\ h[n] = ProvedAll(d, retire, realias, b, list)
  <2>1. FoldedBy("prove", n, b, list, c, ProvedAll(d, retire, realias, b, list))
    BY <1>1, <1>3, <1>4, ProvingTrace
  <2> QED BY <2>1 DEF FoldedBy
<1> DEFINE Ok == {k \in 0 .. n : FoundOk(d, realias, h[k])}
<1>8. 0 \in Ok
  BY <1>1, <1>6, <1>7 DEF FoldStates
<1>9. ASSUME NEW k \in 0 .. n, k \in Ok, k # n PROVE k + 1 \in Ok
  <2>1. k + 1 \in 1 .. n /\ k + 1 \in 0 .. n /\ (k + 1) - 1 = k
    BY <1>1, <1>9
  <2>2. h[k + 1] = FoldStep("prove", h[k], list[k + 1], c)
    BY <1>7, <2>1 DEF FoldStates
  <2>3. h[k + 1] = ProvedAgain(d, retire, realias, h[k])
    BY <1>5, <2>2 DEF FoldStep
  <2>4. FoundOk(d, realias, h[k + 1])
    BY <1>9, <2>3, ProvedStep
  <2> QED BY <2>1, <2>4
<1> HIDE DEF Ok
<1>10. 0 .. n \subseteq Ok
  BY <1>1, <1>8, <1>9, CountsUpTo
<1>11. FoundOk(d, realias, h[n])
  BY <1>1, <1>10 DEF Ok
<1> QED BY <1>2, <1>7, <1>11

\* Retiring the rows that were found, one after the other, can be undone.
LEMMA RetireAllUndo ==
  ASSUME NEW b, NEW s, Undoable(b, s), s.m.inserts = {}, s.m.retirements = {}, NEW realias, NEW found, FoundOk(s.d, realias, found),
         NEW t, t = RetiredAll(s, InTurn(DOMAIN found), found)
  PROVE  /\ Undoable(b, t) /\ t.m.inserts = {} /\ t.d.alias = s.d.alias
         /\ \A o \in DOMAIN s.d.rows : o \notin DOMAIN found => o \in DOMAIN t.d.rows
<1> DEFINE list == InTurn(DOMAIN found)
           n == Cardinality(DOMAIN found)
           upto(i) == {list[j] : j \in 1 .. i}
<1>1. /\ DOMAIN found \subseteq AliasOrphanRows(s.d) /\ AliasOrphanRows(s.d) \subseteq DOMAIN s.d.rows /\ NatKeys(s.d.rows)
      /\ \A o \in DOMAIN found : found[o] = NoRow \/ (found[o] \in DOMAIN s.d.rows /\ found[o] \notin DOMAIN found)
  BY DEF FoundOk, AliasOrphanRows, Holders, Undoable
<1>2. InOrder(DOMAIN found, list)
  <2>1. DOMAIN found \in SUBSET Nat /\ DOMAIN found \in SUBSET DOMAIN s.d.rows /\ IsFiniteSet(DOMAIN s.d.rows)
    BY <1>1 DEF NatKeys
  <2>2. IsFiniteSet(DOMAIN found)
    BY <2>1, FS_Subset
  <2> QED BY <2>1, <2>2, NumbersListed
<1> HIDE DEF list, n
<1>3. n \in Nat /\ DOMAIN list = 1 .. n /\ (\A i \in 1 .. n : list[i] \in DOMAIN found) /\ \A i, j \in 1 .. n : i < j => list[i] # list[j]
  BY <1>2 DEF InOrder, n
<1>4. PICK h : FoldStates("retire", h, n, s, list, found) /\ h[n] = t
  <2>1. FoldedBy("retire", n, s, list, found, RetiredAll(s, list, found))
    BY <1>3, RetiringTrace
  <2> QED BY <2>1 DEF FoldedBy, list
<1> DEFINE Ok == {k \in 0 .. n : /\ Undoable(b, h[k]) /\ h[k].m.inserts = {} /\ h[k].d.alias = s.d.alias
                                 /\ DOMAIN h[k].d.rows = DOMAIN s.d.rows \ upto(k) /\ h[k].m.retirements = upto(k)}
<1>5. 0 \in Ok
  <2>1. upto(0) = {}
    OBVIOUS
  <2>2. h[0] = s
    BY <1>4 DEF FoldStates
  <2> QED BY <1>3, <2>1, <2>2
<1>6. ASSUME NEW k \in 0 .. n, k \in Ok, k # n PROVE k + 1 \in Ok
  <2>1. k + 1 \in 1 .. n /\ k + 1 \in 0 .. n /\ (k + 1) - 1 = k
    BY <1>3, <1>6
  <2> DEFINE id == list[k + 1]
             twin == found[id]
  <2>2. h[k + 1] = FoldStep("retire", h[k], list[k + 1], found)
    BY <1>4, <2>1 DEF FoldStates
  <2>3. h[k + 1] = RetireEntity(h[k], id, twin)
    BY <2>2 DEF FoldStep
  <2>4. upto(k + 1) = upto(k) \cup {id}
    <3>1. 1 .. k + 1 = (1 .. k) \cup {k + 1}
      BY <1>3
    <3> QED BY <3>1
  <2>5. upto(k) \subseteq DOMAIN found /\ id \in DOMAIN found /\ id \notin upto(k)
    <3>1. \A j \in 1 .. k : j \in 1 .. n /\ j < k + 1
      BY <1>3, <2>1
    <3> QED BY <1>3, <2>1, <3>1
  <2>6. /\ Undoable(b, h[k]) /\ h[k].m.inserts = {} /\ h[k].d.alias = s.d.alias
        /\ DOMAIN h[k].d.rows = DOMAIN s.d.rows \ upto(k) /\ h[k].m.retirements = upto(k)
    BY <1>6
  <2> HIDE DEF upto, Ok
  <2>7. id \in DOMAIN h[k].d.rows
    BY <1>1, <2>5, <2>6
  <2>8. twin # NoRow => twin \in DOMAIN h[k].d.rows /\ twin \notin h[k].m.retirements /\ twin # id
    BY <1>1, <2>5, <2>6
  <2> HIDE DEF id, twin
  <2>9. /\ Undoable(b, h[k + 1]) /\ h[k + 1].m.inserts = {} /\ DOMAIN h[k + 1].d.rows = DOMAIN h[k].d.rows \ {id}
        /\ h[k + 1].m.retirements = h[k].m.retirements \cup {id} /\ h[k + 1].d.alias = h[k].d.alias
    BY <2>3, <2>6, <2>7, <2>8, RetireUndo
  <2>10. /\ DOMAIN h[k + 1].d.rows = DOMAIN s.d.rows \ upto(k + 1) /\ h[k + 1].m.retirements = upto(k + 1) /\ h[k + 1].d.alias = s.d.alias
    BY <2>4, <2>6, <2>9
  <2> QED BY <2>1, <2>9, <2>10 DEF Ok
<1> HIDE DEF Ok, upto
<1>7. 0 .. n \subseteq Ok
  BY <1>3, <1>5, <1>6, CountsUpTo
<1>8. n \in Ok
  BY <1>3, <1>7
<1>9. upto(n) \subseteq DOMAIN found
  BY <1>3 DEF upto
<1> QED BY <1>4, <1>8, <1>9 DEF Ok

\* Giving aliases that are in no use, one after the other, can be undone.
LEMMA RealiasAllUndo ==
  ASSUME NEW b, NEW s, Undoable(b, s), s.m.inserts = {}, NEW S \in SUBSET DOMAIN s.d.rows, NEW names,
         \A o \in S : names[o] \notin DOMAIN s.d.alias,
         NEW t, t = RealiasedAll(s, InTurn(S), names)
  PROVE  Undoable(b, t)
<1> DEFINE list == InTurn(S)
           n == Cardinality(S)
<1>1. InOrder(S, list)
  <2>1. S \in SUBSET Nat /\ IsFiniteSet(DOMAIN s.d.rows)
    BY DEF Undoable, NatKeys
  <2>2. IsFiniteSet(S)
    BY <2>1, FS_Subset
  <2> QED BY <2>1, <2>2, NumbersListed
<1> HIDE DEF list, n
<1>2. n \in Nat /\ DOMAIN list = 1 .. n /\ \A i \in 1 .. n : list[i] \in S
  BY <1>1 DEF InOrder, n
<1>3. PICK h : FoldStates("realias", h, n, s, list, names) /\ h[n] = t
  <2>1. FoldedBy("realias", n, s, list, names, RealiasedAll(s, list, names))
    BY <1>2, RealiasingTrace
  <2> QED BY <2>1 DEF FoldedBy, list
<1> DEFINE Ok == {k \in 0 .. n : Undoable(b, h[k]) /\ h[k].d.rows = s.d.rows /\ DOMAIN h[k].d.alias \ h[k].m.inserts \subseteq DOMAIN s.d.alias}
<1>4. 0 \in Ok
  BY <1>2, <1>3 DEF FoldStates
<1>5. ASSUME NEW k \in 0 .. n, k \in Ok, k # n PROVE k + 1 \in Ok
  <2>1. k + 1 \in 1 .. n /\ k + 1 \in 0 .. n /\ (k + 1) - 1 = k
    BY <1>2, <1>5
  <2> DEFINE id == list[k + 1]
             name == names[id]
  <2>2. h[k + 1] = FoldStep("realias", h[k], list[k + 1], names)
    BY <1>3, <2>1 DEF FoldStates
  <2>3. h[k + 1] = Realias(h[k], id, name)
    BY <2>2 DEF FoldStep
  <2>4. Undoable(b, h[k]) /\ h[k].d.rows = s.d.rows /\ DOMAIN h[k].d.alias \ h[k].m.inserts \subseteq DOMAIN s.d.alias
    BY <1>5
  <2>5. id \in DOMAIN h[k].d.rows /\ (name \in DOMAIN h[k].d.alias => name \in h[k].m.inserts)
    BY <1>2, <2>1, <2>4
  <2> HIDE DEF id, name, Ok
  <2>6. /\ Undoable(b, h[k + 1]) /\ h[k + 1].d.rows = h[k].d.rows
        /\ DOMAIN h[k + 1].d.alias \ h[k + 1].m.inserts \subseteq DOMAIN h[k].d.alias \ h[k].m.inserts
    BY <2>3, <2>4, <2>5, RealiasUndo
  <2> QED BY <2>1, <2>4, <2>6 DEF Ok
<1> HIDE DEF Ok
<1>6. 0 .. n \subseteq Ok
  BY <1>2, <1>4, <1>5, CountsUpTo
<1> QED BY <1>2, <1>3, <1>6 DEF Ok

\* The whole repair can be undone.
LEMMA OrphansUndo ==
  ASSUME NEW b, Sound(b), NEW retire, NEW realias,
         ~ RealiasTaken(CollectDeadAliases([d |-> b, m |-> NoWork]).d, realias),
         NEW t, t = ApplyAliasOrphanMigration(b, retire, realias)
  PROVE  Undoable(b, t)
<1> DEFINE s == [d |-> b, m |-> NoWork]
           s0 == CollectDeadAliases(s)
           found == ClassifyAliasOrphans(s0.d, retire, realias)
           s00 == ArchiveMootReport(s0)
           s1 == RetiredAll(s00, InTurn(DOMAIN found), found)
           stays == DOMAIN realias \cap AliasOrphanRows(s0.d)
           s2 == RealiasedAll(s1, InTurn(stays), realias)
<1>1. t = CollectDeadAliases(s2)
  BY Zenon DEF ApplyAliasOrphanMigration, RetiredAll, RealiasedAll, InTurn
<1>2. Undoable(b, s) /\ s.m.inserts = {} /\ s.m.report = "none" /\ s.m.retirements = {}
  BY NothingUndo
<1>3. Undoable(b, s0) /\ s0.m.inserts = {} /\ s0.m.report = "none" /\ s0.m.retirements = {}
  <2>1. s0 = CollectDeadAliases(s)
    OBVIOUS
  <2>2. Shaped(s)
    BY <1>2 DEF Undoable
  <2> HIDE DEF s, s0
  <2>3. Collected(s, s0)
    BY <2>1, <2>2, CollectIs
  <2> QED BY <1>2, <2>1, <2>3, CollectUndo DEF Collected
<1>4. ~ RealiasTaken(s0.d, realias)
  OBVIOUS
<1> HIDE DEF s, s0
<1>5. FoundOk(s0.d, realias, found)
  <2>1. NatKeys(s0.d.rows)
    BY <1>3 DEF Undoable
  <2> QED BY <2>1, ClassifiedOk
<1> HIDE DEF found
<1>6. /\ Undoable(b, s00) /\ s00.d.rows = s0.d.rows /\ s00.d.alias = s0.d.alias /\ s00.m.inserts = {} /\ s00.m.retirements = {}
  BY <1>3, ArchiveUndo
<1> HIDE DEF s00
<1>7. AliasOrphanRows(s00.d) = AliasOrphanRows(s0.d) /\ FoundOk(s00.d, realias, found)
  BY <1>5, <1>6 DEF AliasOrphanRows, NamedBy, FoundOk, Holders
<1>8. /\ Undoable(b, s1) /\ s1.m.inserts = {} /\ s1.d.alias = s00.d.alias
      /\ \A o \in DOMAIN s00.d.rows : o \notin DOMAIN found => o \in DOMAIN s1.d.rows
  BY <1>6, <1>7, RetireAllUndo
<1> HIDE DEF s1
<1>9. stays \in SUBSET DOMAIN s1.d.rows /\ \A o \in stays : realias[o] \notin DOMAIN s1.d.alias
  <2>1. \A o \in stays : o \in DOMAIN s1.d.rows
    BY <1>5, <1>6, <1>8 DEF FoundOk, AliasOrphanRows
  <2>2. ASSUME NEW o \in stays, realias[o] \in DOMAIN s0.d.alias PROVE FALSE
    <3>1. o \in DOMAIN realias \cap AliasOrphanRows(s0.d)
      OBVIOUS
    <3>2. s0.d.alias[realias[o]] = o
      BY <1>4, <2>2, <3>1 DEF RealiasTaken
    <3>3. realias[o] \in NamedBy(s0.d, o)
      BY <2>2, <3>2 DEF NamedBy
    <3> QED BY <3>1, <3>3 DEF AliasOrphanRows
  <2> HIDE DEF stays
  <2> QED BY <1>6, <1>8, <2>1, <2>2
<1> HIDE DEF stays
<1>10. Undoable(b, s2)
  BY <1>8, <1>9, RealiasAllUndo
<1> HIDE DEF s2
<1> QED BY <1>1, <1>10, CollectUndo

---------------------------------------------------------------------------
(* The repair of the journal. *)

\* Entries to retire are there, and each one's twin is there and stays.
JournalFoundOk(d, found) ==
  /\ DOMAIN found \subseteq DOMAIN d.journal
  /\ \A e \in DOMAIN found : found[e] = NoRow \/ (found[e] \in DOMAIN d.journal /\ found[e] \notin DOMAIN found)

LEMMA JournalClassifiedOk ==
  ASSUME NEW d, NEW retire
  PROVE  JournalFoundOk(d, ClassifyJournalDuplicates(d, retire))
<1> DEFINE keys == {k \in {d.journal[e].key : e \in DOMAIN d.journal} : InBoth(d, k).l # {} /\ InBoth(d, k).r # {}}
           pair(k) == Cardinality(InBoth(d, k).l) = 1 /\ Cardinality(InBoth(d, k).r) = 1
           paired == UNION {InBoth(d, k).l : k \in {x \in keys : pair(x)}}
           named == retire \cap UNION {InBoth(d, k).l \cup InBoth(d, k).r : k \in {x \in keys : ~pair(x)}}
           found == [e \in paired \cup named |-> IF e \in paired THEN CHOOSE t \in InBoth(d, d.journal[e].key).r : TRUE ELSE NoRow]
<1>1. ClassifyJournalDuplicates(d, retire) = found
  BY Zenon DEF ClassifyJournalDuplicates
<1>2. \A k, e : e \in InBoth(d, k).l <=> e \in DOMAIN d.journal /\ d.journal[e].key = k /\ FirstImport(d.journal[e].made)
  BY DEF InBoth
<1>3. \A k, e : e \in InBoth(d, k).r <=> e \in DOMAIN d.journal /\ d.journal[e].key = k /\ Reimport(d.journal[e].made)
  BY DEF InBoth
<1> HIDE DEF pair
<1>4. \A e \in paired : e \in DOMAIN d.journal /\ FirstImport(d.journal[e].made) /\ d.journal[e].key \in keys /\ pair(d.journal[e].key)
  BY <1>2
<1>5. \A e \in named : e \in DOMAIN d.journal /\ ~ pair(d.journal[e].key)
  BY <1>2, <1>3
<1>6. \A k \in keys : InBoth(d, k).r # {}
  OBVIOUS
<1> HIDE DEF paired, named, keys
<1>7. DOMAIN found = paired \cup named /\ \A e \in DOMAIN found : found[e] = IF e \in paired THEN CHOOSE t \in InBoth(d, d.journal[e].key).r : TRUE ELSE NoRow
  OBVIOUS
<1> HIDE DEF found
<1>8. ASSUME NEW e \in paired PROVE found[e] \in InBoth(d, d.journal[e].key).r
  <2>1. InBoth(d, d.journal[e].key).r # {}
    BY <1>4, <1>6
  <2>2. (CHOOSE t \in InBoth(d, d.journal[e].key).r : TRUE) \in InBoth(d, d.journal[e].key).r
    BY <2>1
  <2> QED BY <1>7, <2>2
<1>9. ASSUME NEW e \in paired PROVE found[e] \in DOMAIN d.journal /\ found[e] \notin paired /\ found[e] \notin named
  <2>1. found[e] \in DOMAIN d.journal /\ d.journal[found[e]].key = d.journal[e].key /\ Reimport(d.journal[found[e]].made)
    BY <1>3, <1>8
  <2>2. \A x : ~ (FirstImport(x) /\ Reimport(x))
    BY DEF FirstImport, Reimport
  <2> QED BY <1>4, <1>5, <2>1, <2>2
<1>10. JournalFoundOk(d, found)
  BY <1>4, <1>5, <1>7, <1>9 DEF JournalFoundOk
<1> QED BY <1>1, <1>10

\* Nothing but journal entries is retired.
JournalOnly(b, s) == Undoable(b, s) /\ s.m.rows = EmptyTable(0)

\* One pass can be undone.
LEMMA PairsUndo ==
  ASSUME NEW b, NEW s, JournalOnly(b, s), NEW retire, NEW t, t = RetireJournalPairs(s, retire)
  PROVE  JournalOnly(b, t)
<1> DEFINE found == ClassifyJournalDuplicates(s.d, retire)
           list == InTurn(DOMAIN found)
           n == Cardinality(DOMAIN found)
           upto(i) == {list[j] : j \in 1 .. i}
<1>1. t = JournalRetiredAll(s, list, found)
  BY Zenon DEF RetireJournalPairs, JournalRetiredAll, InTurn
<1>2. JournalFoundOk(s.d, found)
  BY JournalClassifiedOk
<1> HIDE DEF found
<1>3. InOrder(DOMAIN found, list)
  <2>1. DOMAIN found \in SUBSET DOMAIN s.d.journal /\ NatKeys(s.d.journal)
    BY <1>2 DEF JournalFoundOk, JournalOnly, Undoable
  <2>2. DOMAIN found \in SUBSET Nat /\ IsFiniteSet(DOMAIN s.d.journal)
    BY <2>1 DEF NatKeys
  <2>3. IsFiniteSet(DOMAIN found)
    BY <2>1, <2>2, FS_Subset
  <2> QED BY <2>2, <2>3, NumbersListed
<1> HIDE DEF list, n
<1>4. n \in Nat /\ DOMAIN list = 1 .. n /\ (\A i \in 1 .. n : list[i] \in DOMAIN found) /\ \A i, j \in 1 .. n : i < j => list[i] # list[j]
  BY <1>3 DEF InOrder, n
<1>5. PICK h : FoldStates("journal", h, n, s, list, found) /\ h[n] = t
  <2>1. FoldedBy("journal", n, s, list, found, JournalRetiredAll(s, list, found))
    BY <1>4, JournalTrace
  <2> QED BY <1>1, <2>1 DEF FoldedBy
<1> DEFINE Ok == {k \in 0 .. n : JournalOnly(b, h[k]) /\ DOMAIN h[k].d.journal = DOMAIN s.d.journal \ upto(k)}
<1>6. 0 \in Ok
  <2>1. upto(0) = {}
    OBVIOUS
  <2>2. h[0] = s
    BY <1>5 DEF FoldStates
  <2> QED BY <1>4, <2>1, <2>2
<1>7. ASSUME NEW k \in 0 .. n, k \in Ok, k # n PROVE k + 1 \in Ok
  <2>1. k + 1 \in 1 .. n /\ k + 1 \in 0 .. n /\ (k + 1) - 1 = k
    BY <1>4, <1>7
  <2> DEFINE id == list[k + 1]
             twin == found[id]
  <2>2. h[k + 1] = FoldStep("journal", h[k], list[k + 1], found)
    BY <1>5, <2>1 DEF FoldStates
  <2>3. h[k + 1] = RetireJournalDuplicate(h[k], id, twin)
    BY <2>2 DEF FoldStep
  <2>4. upto(k + 1) = upto(k) \cup {id}
    <3>1. 1 .. k + 1 = (1 .. k) \cup {k + 1}
      BY <1>4
    <3> QED BY <3>1
  <2>5. upto(k) \subseteq DOMAIN found /\ id \in DOMAIN found /\ id \notin upto(k)
    <3>1. \A j \in 1 .. k : j \in 1 .. n /\ j < k + 1
      BY <1>4, <2>1
    <3> QED BY <1>4, <2>1, <3>1
  <2>6. JournalOnly(b, h[k]) /\ DOMAIN h[k].d.journal = DOMAIN s.d.journal \ upto(k)
    BY <1>7
  <2> HIDE DEF upto, Ok
  <2>7. id \in DOMAIN h[k].d.journal
    BY <1>2, <2>5, <2>6 DEF JournalFoundOk
  <2>8. twin # NoRow => twin \in DOMAIN h[k].d.journal /\ twin # id
    BY <1>2, <2>5, <2>6 DEF JournalFoundOk
  <2>9. h[k].m.retirements \cap DOMAIN h[k].d.journal = {}
    BY <2>6 DEF JournalOnly, EmptyTable, Undoable, RowsUndo
  <2> HIDE DEF id, twin
  <2>10. Undoable(b, h[k])
    BY <2>6 DEF JournalOnly
  <2>11. /\ Undoable(b, h[k + 1]) /\ h[k + 1].m.rows = h[k].m.rows /\ DOMAIN h[k + 1].d.journal = DOMAIN h[k].d.journal \ {id}
    BY <2>3, <2>7, <2>8, <2>9, <2>10, JournalUndo
  <2>12. DOMAIN h[k + 1].d.journal = DOMAIN s.d.journal \ upto(k + 1)
    BY <2>4, <2>6, <2>11
  <2> QED BY <2>1, <2>6, <2>11, <2>12 DEF Ok, JournalOnly
<1> HIDE DEF Ok, upto
<1>8. 0 .. n \subseteq Ok
  BY <1>4, <1>6, <1>7, CountsUpTo
<1> QED BY <1>4, <1>5, <1>8 DEF Ok

\* All of them can.
LEMMA JournalRepairUndo ==
  ASSUME NEW b, Sound(b), NEW retire, NEW t, t = ApplyJournalDuplicateMigration(b, retire)
  PROVE  Undoable(b, t)
<1> DEFINE s == [d |-> b, m |-> NoWork]
           n == Cardinality(DOMAIN b.journal) + 1
           list == [k \in 1 .. n |-> k]
<1>1. t = PairsRetiredAll(s, list, retire)
  BY Zenon DEF ApplyJournalDuplicateMigration, PairsRetiredAll
<1>2. n \in Nat
  BY FS_CardinalityType DEF Sound, IsTables
<1>3. JournalOnly(b, s)
  BY NothingUndo DEF JournalOnly
<1>4. DOMAIN list = 1 .. n
  OBVIOUS
<1> HIDE DEF s, n, list
<1>5. PICK h : FoldStates("passes", h, n, s, list, retire) /\ h[n] = t
  <2>1. FoldedBy("passes", n, s, list, retire, PairsRetiredAll(s, list, retire))
    BY <1>2, <1>4, PassesTrace
  <2> QED BY <1>1, <2>1 DEF FoldedBy
<1> DEFINE Ok == {k \in 0 .. n : JournalOnly(b, h[k])}
<1>6. 0 \in Ok
  BY <1>2, <1>3, <1>5 DEF FoldStates
<1>7. ASSUME NEW k \in 0 .. n, k \in Ok, k # n PROVE k + 1 \in Ok
  <2>1. k + 1 \in 1 .. n /\ k + 1 \in 0 .. n /\ (k + 1) - 1 = k
    BY <1>2, <1>7
  <2>2. h[k + 1] = FoldStep("passes", h[k], list[k + 1], retire)
    BY <1>5, <2>1 DEF FoldStates
  <2>3. h[k + 1] = RetireJournalPairs(h[k], IF list[k + 1] = 1 THEN retire ELSE {})
    BY <2>2 DEF FoldStep
  <2>4. JournalOnly(b, h[k + 1])
    BY <1>7, <2>3, PairsUndo
  <2> QED BY <2>1, <2>4
<1> HIDE DEF Ok
<1>8. 0 .. n \subseteq Ok
  BY <1>2, <1>6, <1>7, CountsUpTo
<1> QED BY <1>2, <1>5, <1>8 DEF Ok, JournalOnly

---------------------------------------------------------------------------
(* Repairs, rollbacks and other commands, in any order and with any stops. *)

\* A manifest names rows by numbers, and what it says a column named is a row it has.
\* One of a repair that deletes is of what was done since the picture beside it.
Recorded(x) ==
  /\ NatKeys(x.m.rows) /\ NatKeys(x.m.journal) /\ DOMAIN x.m.deferrals \subseteq Nat
  /\ \A k \in DOMAIN x.m.deferrals : x.m.deferrals[k] \in DOMAIN x.m.rows \cup DOMAIN x.m.journal
  /\ \A k \in DOMAIN x.m.repoints : x.m.repoints[k] \in DOMAIN x.m.rows \cup DOMAIN x.m.journal
  /\ x.by # "statuses" => RollBackManifest(x.now, x.m) = x.was

Tracked(first, d, ms) ==
  \A id \in DOMAIN first.db.rows \cup DOMAIN first.db.journal :
    \/ id \in DOMAIN d.rows \cup DOMAIN d.journal
    \/ \E i \in DOMAIN ms : id \in DOMAIN ms[i].m.rows \cup DOMAIN ms[i].m.journal

Manifested(ms) ==
  /\ ms \in Seq({ms[i] : i \in DOMAIN ms})
  /\ \A i \in DOMAIN ms : Recorded(ms[i])

RepairInv ==
  /\ repairPlan \in RepairPlans
  /\ Sound(db)
  /\ Manifested(manifests)
  /\ Tracked(repairPlan, db, manifests)

\* What a repair leaves can be repaired again, and its manifest is one.
LEMMA UndoableIsSound ==
  ASSUME NEW b, Sound(b), NEW s, Undoable(b, s)
  PROVE  /\ Sound(s.d)
         /\ DOMAIN b.rows = DOMAIN s.d.rows \cup DOMAIN s.m.rows /\ DOMAIN b.journal = DOMAIN s.d.journal \cup DOMAIN s.m.journal
         /\ ~ HasWork(s.m) => DOMAIN s.m.rows = {} /\ DOMAIN s.m.journal = {}
         /\ \A c : Recorded([by |-> c, m |-> s.m, was |-> b, now |-> s.d])
<1>1. IsTables(s.d) /\ Tied(s.d)
  BY DEF Undoable, Shaped, TablesOf, IsFun, NatKeys, IsTables
<1>2. DOMAIN b.rows = DOMAIN s.d.rows \cup DOMAIN s.m.rows /\ DOMAIN b.journal = DOMAIN s.d.journal \cup DOMAIN s.m.journal
  BY DEF Undoable, RowsUndo
<1>3. ~ HasWork(s.m) => DOMAIN s.m.rows = {} /\ DOMAIN s.m.journal = {}
  <2>1. DOMAIN NoWork.rows = {} /\ DOMAIN NoWork.journal = {}
    BY DEF NoWork, EmptyTable
  <2> QED BY <2>1 DEF HasWork
<1>4. RollBackManifest(s.d, s.m) = b
  BY RepairIsUndone
<1>5. ASSUME NEW c PROVE Recorded([by |-> c, m |-> s.m, was |-> b, now |-> s.d])
  <2> DEFINE x == [by |-> c, m |-> s.m, was |-> b, now |-> s.d]
  <2>1. x.m = s.m /\ x.now = s.d /\ x.was = b
    OBVIOUS
  <2> HIDE DEF x
  <2>2. RollBackManifest(x.now, x.m) = x.was
    BY <1>4, <2>1
  <2>3. /\ NatKeys(s.m.rows) /\ NatKeys(s.m.journal) /\ DOMAIN s.m.deferrals \subseteq Nat
        /\ \A k \in DOMAIN s.m.deferrals : s.m.deferrals[k] \in DOMAIN s.m.rows \cup DOMAIN s.m.journal
        /\ \A k \in DOMAIN s.m.repoints : s.m.repoints[k] \in DOMAIN s.m.rows \cup DOMAIN s.m.journal
    BY DEF Undoable, DeferralsUndo
  <2>4. Recorded(x)
    BY <2>1, <2>2, <2>3 DEF Recorded
  <2> QED BY <2>4 DEF x
<1> QED BY <1>1, <1>2, <1>3, <1>4, <1>5 DEF Sound

\* A rollback of any manifest, over whatever there is, leaves tables to repair.
LEMMA RollBackIsSound ==
  ASSUME NEW d, Sound(d), NEW x, Recorded(x), NEW r, r = RollBackManifest(d, x.m)
  PROVE  /\ Sound(r) /\ DOMAIN d.rows \subseteq DOMAIN r.rows /\ DOMAIN d.journal \subseteq DOMAIN r.journal
<1> DEFINE m == x.m
<1>1. d = TablesOf(d)
  BY DEF Sound, IsTables, TablesOf
<1>2. RolledBack(d, m, r)
  BY <1>1, RollBackIs
<1> HIDE DEF m
<1>3. /\ r = TablesOf(r)
      /\ r.rows = RowsBack(d, m) /\ r.alias = AliasesBack(d, m) /\ r.deferrals = ColumnsBack(d, m)
      /\ r.links = LinksBack(d, m) /\ r.journal = Over(m.journal, d.journal)
  BY <1>2 DEF RolledBack, TablesOf
<1>4. DOMAIN r.rows = DOMAIN m.rows \cup DOMAIN d.rows /\ IsFun(r.rows) /\ DOMAIN r.journal = DOMAIN m.journal \cup DOMAIN d.journal /\ IsFun(r.journal)
  BY <1>3 DEF RowsBack, Over, IsFun
<1>5. NatKeys(r.rows) /\ NatKeys(r.journal)
  <2>1. NatKeys(m.rows) /\ NatKeys(m.journal) /\ NatKeys(d.rows) /\ NatKeys(d.journal)
    BY DEF Recorded, Sound, IsTables, NatKeys, m
  <2>2. IsFiniteSet(DOMAIN m.rows \cup DOMAIN d.rows) /\ IsFiniteSet(DOMAIN m.journal \cup DOMAIN d.journal)
    BY <2>1, FS_Union DEF NatKeys
  <2> QED BY <1>4, <2>1, <2>2 DEF NatKeys
<1>6. IsFun(r.alias) /\ IsFun(r.links)
  BY <1>3 DEF AliasesBack, LinksBack, Over, IsFun
<1>7. /\ IsFun(r.deferrals) /\ DOMAIN r.deferrals \subseteq DOMAIN m.deferrals \cup DOMAIN d.deferrals
      /\ \A k \in DOMAIN r.deferrals : \/ k \in DOMAIN m.repoints /\ r.deferrals[k] = m.repoints[k]
                                       \/ k \in DOMAIN m.deferrals /\ r.deferrals[k] = m.deferrals[k]
                                       \/ k \in DOMAIN d.deferrals /\ r.deferrals[k] = d.deferrals[k]
  <2> DEFINE stays == ColumnsKept(d, m)
             all == Over(m.deferrals, stays)
  <2>1. DOMAIN stays \subseteq DOMAIN d.deferrals /\ \A k \in DOMAIN stays : stays[k] = d.deferrals[k]
    BY DEF ColumnsKept
  <2> HIDE DEF stays
  <2>2. DOMAIN all = DOMAIN m.deferrals \cup DOMAIN stays /\ \A k \in DOMAIN all : all[k] = IF k \in DOMAIN m.deferrals THEN m.deferrals[k] ELSE stays[k]
    BY DEF Over
  <2>3. r.deferrals = [k \in DOMAIN all |-> IF k \in DOMAIN m.repoints THEN m.repoints[k] ELSE all[k]]
    BY <1>3, Zenon DEF ColumnsBack, stays
  <2> HIDE DEF all
  <2> QED BY <2>1, <2>2, <2>3 DEF IsFun
<1>8. DOMAIN m.deferrals \subseteq Nat /\ DOMAIN d.deferrals \subseteq Nat
  BY DEF Recorded, Sound, IsTables, m
<1>9. Tied(r)
  <2>1. \A k \in DOMAIN d.deferrals : d.deferrals[k] \in DOMAIN d.rows \cup DOMAIN d.journal
    BY DEF Sound, Tied
  <2>2. /\ \A k \in DOMAIN m.deferrals : m.deferrals[k] \in DOMAIN m.rows \cup DOMAIN m.journal
        /\ \A k \in DOMAIN m.repoints : m.repoints[k] \in DOMAIN m.rows \cup DOMAIN m.journal
    BY DEF Recorded, m
  <2> QED BY <1>4, <1>7, <2>1, <2>2 DEF Tied
<1>10. IsTables(r)
  BY <1>3, <1>4, <1>5, <1>6, <1>7, <1>8 DEF IsTables, TablesOf, IsFun, NatKeys
<1> QED BY <1>4, <1>9, <1>10 DEF Sound

\* Rows that others write, in tables to repair.
LEMMA RowsReplaced ==
  ASSUME NEW d, Sound(d), NEW rows, IsFun(rows), NatKeys(rows), DOMAIN d.rows \subseteq DOMAIN rows, NEW r, r = [d EXCEPT !.rows = rows]
  PROVE  Sound(r) /\ DOMAIN d.rows \subseteq DOMAIN r.rows /\ r.journal = d.journal
<1>1. r = [rows |-> rows, alias |-> d.alias, edges |-> d.edges, deferrals |-> d.deferrals,
           links |-> d.links, journal |-> d.journal, sources |-> d.sources, report |-> d.report]
  BY DEF Sound, IsTables
<1>2. IsTables(r)
  BY <1>1 DEF Sound, IsTables, IsFun, NatKeys
<1> QED BY <1>1, <1>2 DEF Sound, Tied

\* Whatever is written to a manifest or the tables, what was there can be found again.
LEMMA StillTracked ==
  ASSUME NEW first, NEW d, NEW ms, Tracked(first, d, ms), NEW e, NEW ns,
         \A i \in DOMAIN ms : i \in DOMAIN ns /\ ns[i] = ms[i],
         \A id \in DOMAIN d.rows \cup DOMAIN d.journal :
           \/ id \in DOMAIN e.rows \cup DOMAIN e.journal
           \/ \E i \in DOMAIN ns : id \in DOMAIN ns[i].m.rows \cup DOMAIN ns[i].m.journal
  PROVE  Tracked(first, e, ns)
BY DEF Tracked

\* The database a plan begins with can be repaired, and nothing is gone from it.
LEMMA RepairInvInit ==
  ASSUME RepairInit
  PROVE  RepairInv
<1>1. repairPlan \in RepairPlans /\ db = repairPlan.db /\ manifests = <<>>
  BY DEF RepairInit
<1>2. Sound(db)
  BY <1>1, RepairPlansAssumption DEF Sound, Tied
<1>3. manifests \in Seq({manifests[i] : i \in DOMAIN manifests}) /\ DOMAIN manifests = {}
  BY <1>1
<1>4. Tracked(repairPlan, db, manifests)
  BY <1>1 DEF Tracked
<1> QED BY <1>1, <1>2, <1>3, <1>4 DEF RepairInv, Manifested

\* A manifest is added, and the tables become what the repair makes of them or stay.
LEMMA ManifestWritten ==
  ASSUME RepairInv, NEW x, Recorded(x), NEW ns, ns = Append(manifests, x)
  PROVE  /\ Manifested(ns)
         /\ \A i \in DOMAIN manifests : i \in DOMAIN ns /\ ns[i] = manifests[i]
         /\ \E i \in DOMAIN ns : ns[i] = x
<1>1. manifests \in Seq({manifests[i] : i \in DOMAIN manifests}) /\ \A i \in DOMAIN manifests : Recorded(manifests[i])
  BY DEF RepairInv, Manifested
<1>2. /\ ns \in Seq({ns[i] : i \in DOMAIN ns})
      /\ Len(manifests) \in Nat /\ DOMAIN manifests = 1 .. Len(manifests)
      /\ DOMAIN ns = 1 .. Len(manifests) + 1
      /\ \A i \in DOMAIN manifests : ns[i] = manifests[i]
      /\ ns[Len(manifests) + 1] = x
  BY <1>1, ListGrows
<1>3. \A i \in DOMAIN ns : i \in DOMAIN manifests \/ i = Len(manifests) + 1
  BY <1>2
<1>4. Len(manifests) + 1 \in DOMAIN ns /\ DOMAIN manifests \subseteq DOMAIN ns
  BY <1>2
<1>5. \A i \in DOMAIN ns : Recorded(ns[i])
  BY <1>1, <1>2, <1>3
<1> QED BY <1>2, <1>4, <1>5 DEF Manifested

\* ApplyRepair (applyAliasOrphanMigration, applyJournalDuplicateMigration).
LEMMA RepairInvApply ==
  ASSUME RepairInv, NEW p, ApplyRepair(p)
  PROVE  RepairInv'
<1> DEFINE s == Applied(p)
           r == repairProc[p]
           taken == r.cmd = "orphans" /\ RealiasTaken(CollectDeadAliases([d |-> db, m |-> NoWork]).d, r.realias)
           x == [by |-> r.cmd, m |-> s.m, was |-> db, now |-> s.d]
<1>1. /\ repairPlan' = repairPlan
      /\ \/ taken /\ UNCHANGED <<db, manifests>>
         \/ /\ ~ taken
            /\ manifests' = IF HasWork(s.m) THEN Append(manifests, x) ELSE manifests
            /\ db' = s.d \/ db' = db
  BY Zenon DEF ApplyRepair, WithManifest
<1>2. CASE taken /\ UNCHANGED <<db, manifests>>
  BY <1>1, <1>2 DEF RepairInv
<1>3. CASE ~ taken /\ (manifests' = IF HasWork(s.m) THEN Append(manifests, x) ELSE manifests) /\ (db' = s.d \/ db' = db)
  <2>1. Sound(db) /\ Tracked(repairPlan, db, manifests) /\ repairPlan \in RepairPlans
    BY DEF RepairInv
  <2>2. Undoable(db, s)
    <3>1. CASE r.cmd = "orphans"
      <4>1. s = ApplyAliasOrphanMigration(db, r.retire, r.realias)
        BY <3>1, Zenon DEF Applied
      <4>2. ~ RealiasTaken(CollectDeadAliases([d |-> db, m |-> NoWork]).d, r.realias)
        BY <1>3, <3>1
      <4> HIDE DEF s, r
      <4> QED BY <2>1, <4>1, <4>2, OrphansUndo, Zenon
    <3>2. CASE r.cmd # "orphans"
      <4>1. s = ApplyJournalDuplicateMigration(db, r.retire)
        BY <3>2, Zenon DEF Applied
      <4> HIDE DEF s, r
      <4> QED BY <2>1, <4>1, JournalRepairUndo, Zenon
    <3> QED BY <3>1, <3>2
  <2> HIDE DEF s
  <2>3. /\ Sound(s.d)
        /\ DOMAIN db.rows = DOMAIN s.d.rows \cup DOMAIN s.m.rows /\ DOMAIN db.journal = DOMAIN s.d.journal \cup DOMAIN s.m.journal
        /\ ~ HasWork(s.m) => DOMAIN s.m.rows = {} /\ DOMAIN s.m.journal = {}
        /\ Recorded(x)
    BY <2>1, <2>2, UndoableIsSound
  <2>4. Sound(db')
    BY <1>3, <2>1, <2>3
  <2>5. /\ Manifested(manifests')
        /\ \A i \in DOMAIN manifests : i \in DOMAIN manifests' /\ manifests'[i] = manifests[i]
        /\ HasWork(s.m) => \E i \in DOMAIN manifests' : manifests'[i].m = s.m
    <3> HIDE DEF x
    <3>1. CASE HasWork(s.m)
      <4>1. manifests' = Append(manifests, x)
        BY <1>3, <3>1
      <4>2. x.m = s.m
        BY DEF x
      <4>3. Manifested(manifests')
        BY <2>3, <4>1, ManifestWritten
      <4>4. \A i \in DOMAIN manifests : i \in DOMAIN manifests' /\ manifests'[i] = manifests[i]
        BY <2>3, <4>1, ManifestWritten
      <4>5. PICK i \in DOMAIN manifests' : manifests'[i] = x
        BY <2>3, <4>1, ManifestWritten
      <4>6. manifests'[i].m = s.m
        BY <4>2, <4>5
      <4> QED BY <4>3, <4>4, <4>6
    <3>2. CASE ~ HasWork(s.m)
      BY <1>3, <3>2 DEF RepairInv
    <3> QED BY <3>1, <3>2
  <2>6. \A id \in DOMAIN db.rows \cup DOMAIN db.journal :
          \/ id \in DOMAIN db'.rows \cup DOMAIN db'.journal
          \/ \E i \in DOMAIN manifests' : id \in DOMAIN manifests'[i].m.rows \cup DOMAIN manifests'[i].m.journal
    <3> HIDE DEF x
    <3>1. CASE db' = db
      BY <3>1
    <3>2. CASE db' = s.d
      BY <2>3, <2>5, <3>2
    <3> QED BY <1>3, <3>1, <3>2
  <2>7. Tracked(repairPlan, db', manifests')
    BY <2>1, <2>5, <2>6, StillTracked
  <2> HIDE DEF x
  <2> QED BY <1>1, <2>1, <2>4, <2>5, <2>7 DEF RepairInv
<1> QED BY <1>1, <1>2, <1>3

\* WriteStatusManifest (applyLifecycleStatusMigration): a manifest of statuses only.
LEMMA RepairInvStatusManifest ==
  ASSUME RepairInv, NEW p, WriteStatusManifest(p)
  PROVE  RepairInv'
<1> DEFINE m == [NoWork EXCEPT !.statuses = repairProc[p].statuses]
           x == [by |-> repairProc[p].cmd, m |-> m, was |-> db, now |-> db]
<1>1. /\ repairPlan' = repairPlan /\ db' = db /\ repairProc[p].cmd = "statuses"
      /\ manifests' = Append(manifests, x) \/ manifests' = manifests
  BY Zenon DEF WriteStatusManifest, WithManifest
<1>2. Recorded(x)
  <2>1. m.rows = EmptyTable(0) /\ m.journal = EmptyTable(0) /\ m.deferrals = EmptyTable(0) /\ m.repoints = EmptyTable(0)
    BY DEF NoWork
  <2>2. x.m = m /\ x.by = "statuses"
    BY <1>1
  <2> HIDE DEF m, x
  <2>3. DOMAIN EmptyTable(0) = {} /\ IsFiniteSet({})
    BY FS_EmptySet DEF EmptyTable
  <2> QED BY <2>1, <2>2, <2>3 DEF Recorded, NatKeys
<1> HIDE DEF x
<1>3. /\ Manifested(manifests')
      /\ \A i \in DOMAIN manifests : i \in DOMAIN manifests' /\ manifests'[i] = manifests[i]
  <2>1. CASE manifests' = Append(manifests, x)
    BY <1>2, <2>1, ManifestWritten
  <2>2. CASE manifests' = manifests
    BY <2>2 DEF RepairInv
  <2> QED BY <1>1, <2>1, <2>2
<1>4. Tracked(repairPlan, db', manifests')
  <2>1. Tracked(repairPlan, db, manifests)
    BY DEF RepairInv
  <2> QED BY <1>1, <1>3, <2>1, StillTracked
<1> QED BY <1>1, <1>3, <1>4 DEF RepairInv

\* Tables change and what names their rows stays right; no row and no entry goes.
LEMMA TablesWritten ==
  ASSUME RepairInv, UNCHANGED <<repairPlan, manifests>>,
         Sound(db'), DOMAIN db.rows \subseteq DOMAIN db'.rows, DOMAIN db.journal \subseteq DOMAIN db'.journal
  PROVE  RepairInv'
<1>1. Tracked(repairPlan, db', manifests')
  <2>1. Tracked(repairPlan, db, manifests)
    BY DEF RepairInv
  <2> QED BY <2>1, StillTracked
<1> QED BY <1>1 DEF RepairInv

\* ApplyStatuses and SetRowStatus: rows change and none comes or goes.
LEMMA RepairInvStatuses ==
  ASSUME RepairInv, UNCHANGED <<repairPlan, manifests>>, NEW rows, IsFun(rows), DOMAIN rows = DOMAIN db.rows, db' = [db EXCEPT !.rows = rows]
  PROVE  RepairInv'
<1>1. Sound(db)
  BY DEF RepairInv
<1>2. NatKeys(rows)
  BY <1>1 DEF Sound, IsTables, NatKeys
<1>3. Sound(db') /\ DOMAIN db.rows \subseteq DOMAIN db'.rows /\ db'.journal = db.journal
  BY <1>1, <1>2, RowsReplaced
<1> QED BY <1>3, TablesWritten

\* RollBackRepair (rollBack* of each repair): any manifest, over whatever there is.
LEMMA RepairInvRollBack ==
  ASSUME RepairInv, NEW p, NEW i \in DOMAIN manifests, RollBackRepair(p, i)
  PROVE  RepairInv'
<1>1. db' = RollBackManifest(db, manifests[i].m) /\ UNCHANGED <<repairPlan, manifests>>
  BY DEF RollBackRepair
<1>2. Sound(db) /\ Recorded(manifests[i])
  BY DEF RepairInv, Manifested
<1>3. Sound(db') /\ DOMAIN db.rows \subseteq DOMAIN db'.rows /\ DOMAIN db.journal \subseteq DOMAIN db'.journal
  BY <1>1, <1>2, RollBackIsSound
<1> QED BY <1>1, <1>3, TablesWritten

\* CreateEntity: a row, its alias and its source.
LEMMA RepairInvCreate ==
  ASSUME RepairInv, NEW id \in Nat, NEW name, CreateEntity(id, name)
  PROVE  RepairInv'
<1> DEFINE rows == Upserted(db.rows, id, [repairPlan.fresh EXCEPT !.src = id])
           alias == Upserted(db.alias, name, id)
<1>1. db' = [db EXCEPT !.rows = rows, !.alias = alias, !.sources = @ \cup {id}] /\ UNCHANGED <<repairPlan, manifests>>
  BY DEF CreateEntity
<1>2. Sound(db)
  BY DEF RepairInv
<1>3. DOMAIN rows = DOMAIN db.rows \cup {id} /\ IsFun(rows) /\ IsFun(alias)
  BY DEF Upserted, IsFun
<1>4. NatKeys(rows)
  <2>1. IsFiniteSet(DOMAIN db.rows \cup {id})
    BY <1>2, FS_AddElement DEF Sound, IsTables
  <2> QED BY <1>2, <1>3, <2>1 DEF NatKeys, Sound, IsTables
<1> HIDE DEF rows, alias
<1>5. db' = [rows |-> rows, alias |-> alias, edges |-> db.edges, deferrals |-> db.deferrals,
             links |-> db.links, journal |-> db.journal, sources |-> db.sources \cup {id}, report |-> db.report]
  BY <1>1, <1>2 DEF Sound, IsTables
<1> DEFINE d == db'
<1>6. d = [rows |-> rows, alias |-> alias, edges |-> db.edges, deferrals |-> db.deferrals,
             links |-> db.links, journal |-> db.journal, sources |-> db.sources \cup {id}, report |-> db.report]
  BY <1>5
<1> HIDE DEF d
<1>7. d.rows = rows /\ d.alias = alias /\ d.deferrals = db.deferrals /\ d.links = db.links /\ d.journal = db.journal
  BY <1>6
<1>8. IsTables(d)
  BY <1>2, <1>3, <1>4, <1>6 DEF Sound, IsTables, IsFun, NatKeys
<1>9. Sound(d)
  BY <1>2, <1>3, <1>7, <1>8 DEF Sound, Tied
<1> QED BY <1>1, <1>3, <1>7, <1>9, TablesWritten DEF d

\* Unrelate: a relationship goes.
LEMMA RepairInvUnrelate ==
  ASSUME RepairInv, NEW e, Unrelate(e)
  PROVE  RepairInv'
<1> DEFINE d == db'
<1>1. db' = [db EXCEPT !.edges = @ \ {e}] /\ UNCHANGED <<repairPlan, manifests>>
  BY DEF Unrelate
<1>2. Sound(db)
  BY DEF RepairInv
<1>3. d = [rows |-> db.rows, alias |-> db.alias, edges |-> db.edges \ {e}, deferrals |-> db.deferrals,
           links |-> db.links, journal |-> db.journal, sources |-> db.sources, report |-> db.report]
  BY <1>1, <1>2 DEF Sound, IsTables
<1> HIDE DEF d
<1>4. Sound(d) /\ d.rows = db.rows /\ d.journal = db.journal
  BY <1>2, <1>3 DEF Sound, IsTables, Tied
<1> QED BY <1>1, <1>4, TablesWritten DEF d

\* Defer: a column that must name a row names one that is there.
LEMMA RepairInvDefer ==
  ASSUME RepairInv, NEW k \in Nat, NEW id \in DOMAIN db.rows \cup DOMAIN db.journal, Defer(k, id)
  PROVE  RepairInv'
<1> DEFINE d == db'
           columns == Upserted(db.deferrals, k, id)
<1>1. db' = [db EXCEPT !.deferrals = columns] /\ UNCHANGED <<repairPlan, manifests>>
  BY DEF Defer
<1>2. Sound(db)
  BY DEF RepairInv
<1>3. /\ DOMAIN columns = DOMAIN db.deferrals \cup {k} /\ IsFun(columns)
      /\ \A x \in DOMAIN columns : columns[x] = IF x = k THEN id ELSE db.deferrals[x]
  BY DEF Upserted, IsFun
<1> HIDE DEF columns
<1>4. d = [rows |-> db.rows, alias |-> db.alias, edges |-> db.edges, deferrals |-> columns,
           links |-> db.links, journal |-> db.journal, sources |-> db.sources, report |-> db.report]
  BY <1>1, <1>2 DEF Sound, IsTables
<1> HIDE DEF d
<1>5. d.rows = db.rows /\ d.journal = db.journal /\ d.deferrals = columns
  BY <1>4
<1>6. IsTables(d)
  BY <1>2, <1>3, <1>4 DEF Sound, IsTables, IsFun
<1>7. Tied(d)
  BY <1>2, <1>3, <1>5 DEF Sound, Tied
<1> QED BY <1>1, <1>5, <1>6, <1>7, TablesWritten DEF d, Sound

LEMMA RepairInvNext ==
  ASSUME RepairInv, RepairNext
  PROVE  RepairInv'
<1>1. \A new \in repairPlan.creates : new[1] \in Nat
  BY RepairPlansAssumption DEF RepairInv
<1>2. repairPlan.defers \subseteq Nat
  BY RepairPlansAssumption DEF RepairInv
<1>3. ASSUME NEW p, RepairStep(p) PROVE RepairInv'
  <2>1. ASSUME NEW c, NEW retire, NEW realias, PlanRepair(p, c, retire, realias) PROVE RepairInv'
    BY <2>1 DEF PlanRepair, RepairInv
  <2>2. CASE ApplyRepair(p)
    BY <2>2, RepairInvApply
  <2>3. CASE WriteStatusManifest(p)
    BY <2>3, RepairInvStatusManifest
  <2>4. CASE ApplyStatuses(p)
    <3> DEFINE rows == [id \in DOMAIN db.rows |-> IF id \in DOMAIN repairProc[p].statuses
                          THEN [db.rows[id] EXCEPT !.status = Canonical(repairProc[p].statuses[id])] ELSE db.rows[id]]
    <3>1. db' = [db EXCEPT !.rows = rows] /\ UNCHANGED <<repairPlan, manifests>>
      BY <2>4 DEF ApplyStatuses
    <3>2. IsFun(rows) /\ DOMAIN rows = DOMAIN db.rows
      BY DEF IsFun
    <3> HIDE DEF rows
    <3> QED BY <3>1, <3>2, RepairInvStatuses
  <2>5. ASSUME NEW i \in DOMAIN manifests, RollBackRepair(p, i) PROVE RepairInv'
    BY <2>5, RepairInvRollBack
  <2> QED BY <1>3, <2>1, <2>2, <2>3, <2>4, <2>5, Zenon DEF RepairStep
<1>4. ASSUME Others PROVE RepairInv'
  <2>1. ASSUME NEW new \in repairPlan.creates, CreateEntity(new[1], new[2]) PROVE RepairInv'
    BY <1>1, <2>1, RepairInvCreate
  <2>2. ASSUME NEW e, Unrelate(e) PROVE RepairInv'
    BY <2>2, RepairInvUnrelate
  <2>3. ASSUME NEW k \in repairPlan.defers, NEW id \in DOMAIN db.rows \cup DOMAIN db.journal, Defer(k, id) PROVE RepairInv'
    BY <1>2, <2>3, RepairInvDefer
  <2>4. ASSUME NEW id \in DOMAIN db.rows, SetRowStatus(id) PROVE RepairInv'
    <3> DEFINE rows == [db.rows EXCEPT ![id].status = "archived"]
    <3>1. db' = [db EXCEPT !.rows = rows] /\ UNCHANGED <<repairPlan, manifests>>
      BY <2>4 DEF SetRowStatus
    <3>2. IsFun(rows) /\ DOMAIN rows = DOMAIN db.rows
      BY DEF IsFun, RepairInv, Sound, IsTables
    <3> HIDE DEF rows
    <3> QED BY <3>1, <3>2, RepairInvStatuses
  <2> QED BY <1>4, <2>1, <2>2, <2>3, <2>4, Zenon DEF Others
<1> QED BY <1>3, <1>4, Zenon DEF RepairNext

\* The invariant of the repairs: tables that can be repaired, manifests that can be
\* rolled back, and nothing of the first database that is in neither.
THEOREM RepairInvHolds == RepairSpec => []RepairInv
<1>1. RepairInit => RepairInv
  BY RepairInvInit
<1>2. RepairInv /\ [RepairNext]_repairVars => RepairInv'
  <2>1. RepairInv /\ UNCHANGED repairVars => RepairInv'
    BY DEF RepairInv, repairVars
  <2> QED BY <2>1, RepairInvNext
<1> QED BY <1>1, <1>2, PTL DEF RepairSpec

\* No deletion without its record, and no column that names a row that is gone, after any
\* repairs, rollbacks, stops around a commit and commands of others in between.
THEOREM RepairsLoseNothingHolds == RepairSpec => []RepairsLoseNothing
<1>1. RepairInv => RepairsLoseNothing
  BY DEF RepairInv, Tracked, Sound, Tied, RepairsLoseNothing, NothingGoesUnrecorded, DeferralsNameRows
<1> QED BY <1>1, RepairInvHolds, PTL

\* Rolling back the manifest of a repair, with nothing in between, makes every table what
\* it was before the repair.
THEOREM RollbackUndoesHolds == RepairSpec => RollbackUndoes
<1> DEFINE A == \A i \in DOMAIN manifests : (db = manifests[i].now /\ db' = RollBackManifest(db, manifests[i].m) /\ manifests' = manifests
                                   /\ repairProc' = repairProc /\ manifests[i].by # "statuses")
                     => db' = manifests[i].was
<1>1. RepairInv => A
  BY DEF RepairInv, Manifested, Recorded
<1>2. RepairInv /\ [RepairNext]_repairVars => [A]_repairVars
  BY <1>1
<1> QED BY <1>2, RepairInvHolds, PTL DEF RepairSpec, RollbackUndoes

---------------------------------------------------------------------------
(* Scratchpad channels, whatever the order in which facts are written and arrive. *)

\* InstanceIntroduced, of facts.
Greeted(F, d, ch, who) == \E f \in F : FactMatchesChannel(f, ch) /\ f.kind = "intro" /\ RosterKey(f) = <<d, who>>

\* A process that runs a command has it; one that is to write a message is introduced.
PadProcesses ==
  /\ padProc = [p \in padPlan.agents |-> padProc[p]]
  /\ \A p \in padPlan.agents : ~ PadAt(p, "idle") => padProc[p] = [at |-> padProc[p].at, cmd |-> padProc[p].cmd]
  /\ \A p \in padPlan.agents : PadAt(p, "write") /\ padProc[p].cmd.op = "message" => Greeted(padFacts[p.env], p.env, padProc[p].cmd.ch, p.who)

\* Every fact of a store is in the store of its environment too, not past its clock.
PadStreams ==
  \A d \in Machines :
    /\ IsFiniteSet(padFacts[d])
    /\ \A f \in padFacts[d] :
         /\ f.env \in Machines /\ f \in padFacts[f.env] /\ f.seq \in Nat /\ f.seq >= 1 /\ f.stamp \in Nat
         /\ f.seq <= padClock[f.env].seq /\ f.stamp <= padClock[f.env].stamp

\* An environment numbers its facts once, in the order of their stamps, and a message
\* comes after an introduction of its author.
Introduced(d, f) == \E g \in padFacts[d] : g.kind = "intro" /\ g.env = d /\ g.who = f.who /\ g.ch = f.ch /\ g.seq < f.seq

PadNumbers ==
  \A d \in Machines : \A f \in padFacts[d] : f.env = d =>
    /\ \A g \in padFacts[d] : g.env = d => (f.seq < g.seq => f.stamp < g.stamp) /\ (f.seq = g.seq => f = g)
    /\ f.kind = "message" => Introduced(d, f)

PadClocks ==
  /\ padFacts = [d \in Machines |-> padFacts[d]]
  /\ padClock = [d \in Machines |-> [stamp |-> padClock[d].stamp, seq |-> padClock[d].seq]]
  /\ \A d \in Machines : padClock[d].stamp \in Nat /\ padClock[d].seq \in Nat

\* The last number of an environment is that of its last fact.
PadLast == \A d \in Machines : \A n \in 1 .. padClock[d].seq : \E g \in padFacts[d] : g.env = d /\ g.seq = n

PadInv == padPlan \in PadPlans /\ PadClocks /\ PadStreams /\ PadNumbers /\ PadLast /\ PadProcesses

LEMMA PadInvInit ==
  ASSUME PadInit
  PROVE  PadInv
<1>1. padPlan \in PadPlans /\ \A d \in Machines : padFacts[d] = {}
  BY DEF PadInit, Machines
<1>2. PadClocks
  BY DEF PadInit, PadClocks, Machines
<1>3. PadStreams
  BY <1>1, FS_EmptySet DEF PadStreams
<1>4. PadNumbers
  BY <1>1 DEF PadNumbers
<1>5. PadProcesses
  BY DEF PadInit, PadProcesses, PadAt, PadIdle
<1>6. PadLast
  <2>1. \A d \in Machines : padClock[d].seq = 0
    BY DEF PadInit, Machines
  <2> QED BY <2>1 DEF PadLast
<1> QED BY <1>1, <1>2, <1>3, <1>4, <1>5, <1>6 DEF PadInv

\* The greater of two numbers.
LEMMA GreaterOfTwo ==
  ASSUME NEW a \in Nat, NEW b \in Nat
  PROVE  Max({a, b}) \in Nat /\ a <= Max({a, b}) /\ b <= Max({a, b})
<1> DEFINE s == {a, b}
           M == CHOOSE x \in s : \A y \in s : x >= y
<1>1. \E x \in s : \A y \in s : x >= y
  OBVIOUS
<1>2. M \in s /\ \A y \in s : M >= y
  BY <1>1, Zenon
<1>3. Max(s) = M
  BY Zenon DEF Max
<1> HIDE DEF M
<1> QED BY <1>2, <1>3

\* The steps that write nothing.
LEMMA PadInvQuiet ==
  ASSUME PadInv, UNCHANGED <<padPlan, padFacts, padClock>>, PadProcesses'
  PROVE  PadInv'
<1>1. Machines' = Machines
  BY DEF Machines
<1>2. PadClocks'
  BY <1>1 DEF PadInv, PadClocks
<1>3. PadStreams'
  BY <1>1 DEF PadInv, PadStreams
<1>4. PadNumbers'
  BY <1>1 DEF PadInv, PadNumbers, Introduced
<1>5. PadLast'
  BY <1>1 DEF PadInv, PadLast
<1> QED BY <1>2, <1>3, <1>4, <1>5 DEF PadInv

\* A process goes on, or is done, and no fact is taken away.
LEMMA PadGoesOn ==
  ASSUME PadInv, NEW p \in padPlan.agents, padPlan' = padPlan,
         \A d \in Machines : padFacts[d] \subseteq padFacts'[d],
         NEW r, padProc' = [padProc EXCEPT ![p] = r],
         r.at # "idle" => r = [at |-> r.at, cmd |-> r.cmd],
         r.at = "write" /\ r.cmd.op = "message" => Greeted(padFacts'[p.env], p.env, r.cmd.ch, p.who)
  PROVE  PadProcesses'
<1>1. /\ padProc = [q \in padPlan.agents |-> padProc[q]]
      /\ \A q \in padPlan.agents : ~ PadAt(q, "idle") => padProc[q] = [at |-> padProc[q].at, cmd |-> padProc[q].cmd]
      /\ \A q \in padPlan.agents : PadAt(q, "write") /\ padProc[q].cmd.op = "message" => Greeted(padFacts[q.env], q.env, padProc[q].cmd.ch, q.who)
  BY DEF PadInv, PadProcesses
<1>2. /\ padProc' = [q \in padPlan.agents |-> padProc'[q]]
      /\ padProc'[p] = r /\ \A q \in padPlan.agents : q # p => padProc'[q] = padProc[q]
  BY <1>1
<1>3. \A q \in padPlan.agents : q.env \in Machines
  BY PadPlansAssumption DEF PadInv, Machines
<1>4. \A q \in padPlan.agents : \A ch : Greeted(padFacts[q.env], q.env, ch, q.who) => Greeted(padFacts'[q.env], q.env, ch, q.who)
  BY <1>3 DEF Greeted
<1>5. ASSUME NEW q \in padPlan.agents, padProc'[q].at = "write", padProc'[q].cmd.op = "message"
      PROVE  Greeted(padFacts'[q.env], q.env, padProc'[q].cmd.ch, q.who)
  <2>1. CASE q = p
    BY <1>2, <1>5, <2>1
  <2>2. CASE q # p
    <3>1. padProc'[q] = padProc[q] /\ PadAt(q, "write")
      BY <1>2, <1>5, <2>2 DEF PadAt
    <3> QED BY <1>1, <1>4, <1>5, <3>1
  <2> QED BY <2>1, <2>2
<1>6. \A q \in padPlan.agents : padProc'[q].at # "idle" => padProc'[q] = [at |-> padProc'[q].at, cmd |-> padProc'[q].cmd]
  BY <1>1, <1>2 DEF PadAt
<1> QED BY <1>2, <1>5, <1>6 DEF PadProcesses, PadAt

\* What the stores are after a fact of an environment is appended to its own.
Wrote(p, kind, c, f) ==
  /\ f.kind = kind /\ f.ch = c.ch /\ f.env = p.env /\ f.who = p.who
  /\ f.seq = padClock[p.env].seq + 1 /\ f.stamp \in Nat /\ f.stamp > padClock[p.env].stamp
  /\ padFacts' = [padFacts EXCEPT ![p.env] = @ \cup {f}]
  /\ padClock' = [padClock EXCEPT ![p.env] = [stamp |-> f.stamp, seq |-> f.seq]]

LEMMA AppendIs ==
  ASSUME PadInv, NEW p \in padPlan.agents, NEW kind, NEW c, PadAppend(p, kind, c)
  PROVE  \E f : Wrote(p, kind, c, f)
<1>1. p.env \in Machines /\ padPlan.maxStamp \in Nat
  BY PadPlansAssumption DEF PadInv, Machines
<1>2. padClock[p.env].stamp \in Nat /\ padClock[p.env].seq \in Nat
  BY <1>1 DEF PadInv, PadClocks
<1>3. PICK s \in padClock[p.env].stamp + 1 .. padPlan.maxStamp :
       LET f == [kind |-> kind, ch |-> c.ch, env |-> p.env, who |-> p.who, thing |-> c.thing,
                 until |-> IF kind = "claim" THEN padNow + padPlan.lease ELSE 0, seq |-> padClock[p.env].seq + 1, stamp |-> s]
       IN /\ padFacts' = [padFacts EXCEPT ![p.env] = @ \cup {f}]
          /\ padClock' = [padClock EXCEPT ![p.env] = [stamp |-> s, seq |-> f.seq]]
  BY DEF PadAppend
<1> DEFINE f == [kind |-> kind, ch |-> c.ch, env |-> p.env, who |-> p.who, thing |-> c.thing,
                 until |-> IF kind = "claim" THEN padNow + padPlan.lease ELSE 0, seq |-> padClock[p.env].seq + 1, stamp |-> s]
<1>4. /\ f.kind = kind /\ f.ch = c.ch /\ f.env = p.env /\ f.who = p.who
      /\ f.seq = padClock[p.env].seq + 1 /\ f.stamp = s
  OBVIOUS
<1>5. /\ padFacts' = [padFacts EXCEPT ![p.env] = @ \cup {f}]
      /\ padClock' = [padClock EXCEPT ![p.env] = [stamp |-> s, seq |-> f.seq]]
  BY <1>3
<1> HIDE DEF f
<1>6. s \in Nat /\ s > padClock[p.env].stamp
  BY <1>1, <1>2
<1> QED BY <1>4, <1>5, <1>6 DEF Wrote

LEMMA PadWrites ==
  ASSUME PadInv, NEW p \in padPlan.agents, NEW kind, NEW c, PadAppend(p, kind, c), padPlan' = padPlan,
         kind = "message" => Greeted(padFacts[p.env], p.env, c.ch, p.who)
  PROVE  /\ PadClocks' /\ PadStreams' /\ PadNumbers' /\ PadLast'
         /\ \A d \in Machines : padFacts[d] \subseteq padFacts'[d]
         /\ kind = "intro" => Greeted(padFacts'[p.env], p.env, c.ch, p.who)
<1> DEFINE e == p.env
<1>0. e \in Machines /\ Machines' = Machines
  BY PadPlansAssumption DEF PadInv, Machines
<1>1. PICK f : Wrote(p, kind, c, f)
  BY AppendIs
<1> HIDE DEF e
<1>2. /\ f.kind = kind /\ f.ch = c.ch /\ f.env = e /\ f.who = p.who
      /\ f.seq = padClock[e].seq + 1 /\ f.stamp \in Nat /\ f.stamp > padClock[e].stamp
      /\ padFacts' = [padFacts EXCEPT ![e] = @ \cup {f}]
      /\ padClock' = [padClock EXCEPT ![e] = [stamp |-> f.stamp, seq |-> f.seq]]
  BY <1>1 DEF Wrote, e
<1>3. /\ padFacts = [d \in Machines |-> padFacts[d]]
      /\ padClock = [d \in Machines |-> [stamp |-> padClock[d].stamp, seq |-> padClock[d].seq]]
      /\ \A d \in Machines : padClock[d].stamp \in Nat /\ padClock[d].seq \in Nat
  BY DEF PadInv, PadClocks
<1>4. /\ padFacts' = [d \in Machines |-> padFacts'[d]]
      /\ padFacts'[e] = padFacts[e] \cup {f} /\ \A d \in Machines : d # e => padFacts'[d] = padFacts[d]
  BY <1>0, <1>2, <1>3
<1>5. /\ padClock' = [d \in Machines |-> padClock'[d]]
      /\ padClock'[e] = [stamp |-> f.stamp, seq |-> f.seq] /\ \A d \in Machines : d # e => padClock'[d] = padClock[d]
  BY <1>0, <1>2, <1>3
<1>6. \A d \in Machines : /\ padClock'[d] = [stamp |-> padClock'[d].stamp, seq |-> padClock'[d].seq]
                          /\ padClock'[d].stamp \in Nat /\ padClock'[d].seq \in Nat
                          /\ padClock[d].stamp <= padClock'[d].stamp /\ padClock[d].seq <= padClock'[d].seq
  <2>1. padClock'[e].stamp = f.stamp /\ padClock'[e].seq = f.seq
    BY <1>5
  <2>2. ASSUME NEW d \in Machines, d # e PROVE padClock'[d] = [stamp |-> padClock[d].stamp, seq |-> padClock[d].seq]
    BY <1>3, <1>5, <2>2
  <2> QED BY <1>0, <1>2, <1>3, <1>5, <2>1, <2>2
<1>7. PadClocks'
  BY <1>0, <1>4, <1>5, <1>6 DEF PadClocks
<1>8. \A d \in Machines : padFacts[d] \subseteq padFacts'[d]
  BY <1>4
<1>9. padClock'[e].stamp = f.stamp /\ padClock'[e].seq = f.seq
  BY <1>5
<1>10. /\ f.env \in Machines /\ f.seq \in Nat /\ f.seq >= 1 /\ f \in padFacts'[f.env]
       /\ f.seq <= padClock'[f.env].seq /\ f.stamp <= padClock'[f.env].stamp
  BY <1>0, <1>2, <1>3, <1>4, <1>9
<1>11. \A g \in padFacts[e] : g.seq \in Nat /\ g.stamp \in Nat /\ g.env \in Machines
                            /\ (g.env = e => g.seq < f.seq /\ g.stamp < f.stamp)
  <2> SUFFICES ASSUME NEW g \in padFacts[e] PROVE g.seq \in Nat /\ g.stamp \in Nat /\ g.env \in Machines
                            /\ (g.env = e => g.seq < f.seq /\ g.stamp < f.stamp)
    OBVIOUS
  <2>1. /\ g.seq \in Nat /\ g.stamp \in Nat /\ g.env \in Machines
        /\ g.seq <= padClock[g.env].seq /\ g.stamp <= padClock[g.env].stamp
    BY <1>0 DEF PadInv, PadStreams
  <2> QED BY <1>0, <1>2, <1>3, <2>1
<1>13. PadStreams'
  <2>1. ASSUME NEW d \in Machines PROVE IsFiniteSet(padFacts'[d])
    <3>1. IsFiniteSet(padFacts[d]) /\ IsFiniteSet(padFacts[d] \cup {f})
      BY FS_AddElement DEF PadInv, PadStreams
    <3> QED BY <1>4, <3>1
  <2>2. ASSUME NEW d \in Machines, NEW g \in padFacts[d]
        PROVE  /\ g.env \in Machines /\ g \in padFacts'[g.env] /\ g.seq \in Nat /\ g.seq >= 1 /\ g.stamp \in Nat
               /\ g.seq <= padClock'[g.env].seq /\ g.stamp <= padClock'[g.env].stamp
    <3>1. /\ g.env \in Machines /\ g \in padFacts[g.env] /\ g.seq \in Nat /\ g.seq >= 1 /\ g.stamp \in Nat
          /\ g.seq <= padClock[g.env].seq /\ g.stamp <= padClock[g.env].stamp
      BY DEF PadInv, PadStreams
    <3>2. /\ padClock[g.env].seq \in Nat /\ padClock'[g.env].seq \in Nat /\ padClock[g.env].stamp \in Nat /\ padClock'[g.env].stamp \in Nat
          /\ padClock[g.env].seq <= padClock'[g.env].seq /\ padClock[g.env].stamp <= padClock'[g.env].stamp
      BY <1>3, <1>6, <3>1
    <3>3. g.seq <= padClock'[g.env].seq /\ g.stamp <= padClock'[g.env].stamp
      BY <3>1, <3>2
    <3>4. g \in padFacts'[g.env]
      BY <1>8, <3>1
    <3> QED BY <3>1, <3>3, <3>4
  <2>4. \A d \in Machines : \A g \in padFacts'[d] : g \in padFacts[d] \/ (d = e /\ g = f)
    BY <1>4
  <2>5. ASSUME NEW d \in Machines, NEW g \in padFacts'[d]
        PROVE  /\ g.env \in Machines /\ g \in padFacts'[g.env] /\ g.seq \in Nat /\ g.seq >= 1 /\ g.stamp \in Nat
               /\ g.seq <= padClock'[g.env].seq /\ g.stamp <= padClock'[g.env].stamp
    <3>1. CASE g \in padFacts[d]
      BY <2>2, <3>1
    <3>2. CASE d = e /\ g = f
      BY <1>2, <1>10, <3>2
    <3> QED BY <2>4, <3>1, <3>2
  <2> QED BY <1>0, <2>1, <2>5 DEF PadStreams
<1>14. PadNumbers'
  <2>1. ASSUME NEW d \in Machines, NEW x \in padFacts'[d], x.env = d, x.kind = "message" PROVE Introduced(d, x)'
    <3>1. CASE x \in padFacts[d]
      <4>1. Introduced(d, x)
        BY <2>1, <3>1 DEF PadInv, PadNumbers
      <4> QED BY <1>8, <4>1 DEF Introduced
    <3>2. CASE d = e /\ x = f
      <4>1. PICK g \in padFacts[e] : FactMatchesChannel(g, c.ch) /\ g.kind = "intro" /\ RosterKey(g) = <<e, p.who>>
        BY <1>2, <2>1, <3>2 DEF Greeted, e
      <4>2. g.env = e /\ g.who = p.who /\ g.ch = c.ch
        BY <4>1 DEF RosterKey, FactMatchesChannel
      <4>3. g.seq < f.seq /\ g \in padFacts'[e]
        BY <1>0, <1>8, <1>11, <4>2
      <4> QED BY <1>2, <3>2, <4>1, <4>2, <4>3 DEF Introduced
    <3> QED BY <1>4, <3>1, <3>2
  <2>2. ASSUME NEW d \in Machines, NEW x \in padFacts'[d], x.env = d, NEW g \in padFacts'[d], g.env = d
        PROVE  (x.seq < g.seq => x.stamp < g.stamp) /\ (x.seq = g.seq => x = g)
    <3>1. CASE x \in padFacts[d] /\ g \in padFacts[d]
      BY <2>2, <3>1 DEF PadInv, PadNumbers
    <3>2. CASE d = e /\ x = f /\ g \in padFacts[d]
      BY <1>2, <1>10, <1>11, <2>2, <3>2
    <3>3. CASE d = e /\ g = f /\ x \in padFacts[d]
      BY <1>2, <1>10, <1>11, <2>2, <3>3
    <3>4. CASE x = f /\ g = f
      BY <1>10, <3>4
    <3> QED BY <1>4, <3>1, <3>2, <3>3, <3>4
  <2> QED BY <1>0, <2>1, <2>2 DEF PadNumbers
<1>15. kind = "intro" => Greeted(padFacts'[p.env], p.env, c.ch, p.who)
  BY <1>2, <1>4 DEF Greeted, e, RosterKey, FactMatchesChannel, PadKinds
<1>16. PadLast'
  <2> SUFFICES ASSUME NEW d \in Machines, NEW n \in 1 .. padClock'[d].seq PROVE \E g \in padFacts'[d] : g.env = d /\ g.seq = n
    BY <1>0 DEF PadLast
  <2>1. CASE d # e \/ n \in 1 .. padClock[d].seq
    <3>1. n \in 1 .. padClock[d].seq
      BY <1>5, <2>1
    <3>2. PICK g \in padFacts[d] : g.env = d /\ g.seq = n
      BY <3>1 DEF PadInv, PadLast
    <3> QED BY <1>8, <3>2
  <2>2. CASE d = e /\ n \notin 1 .. padClock[d].seq
    <3>1. n = f.seq
      BY <1>0, <1>2, <1>3, <1>9, <2>2
    <3> QED BY <1>2, <1>4, <2>2, <3>1
  <2> QED BY <2>1, <2>2
<1> QED BY <1>7, <1>8, <1>13, <1>14, <1>15, <1>16

\* What the stores are after a fact arrives: nobody's own store changes.
LEMMA PadArrives ==
  ASSUME PadInv, NEW d \in Machines, NEW e \in Machines, d # e, NEW f \in padFacts[e], PadReceive(d, f)
  PROVE  PadInv'
<1>1. /\ f \notin padFacts[d]
      /\ padFacts' = [padFacts EXCEPT ![d] = @ \cup {f}]
      /\ padClock' = [padClock EXCEPT ![d].stamp = IF padClock[d].seq > 0 THEN Max({@, f.stamp}) ELSE @]
      /\ UNCHANGED <<padPlan, padProc>>
  BY DEF PadReceive
<1>2. /\ padFacts = [x \in Machines |-> padFacts[x]]
      /\ padClock = [x \in Machines |-> [stamp |-> padClock[x].stamp, seq |-> padClock[x].seq]]
      /\ \A x \in Machines : padClock[x].stamp \in Nat /\ padClock[x].seq \in Nat
  BY DEF PadInv, PadClocks
<1>3. Machines' = Machines
  BY <1>1 DEF Machines
<1>4. /\ f.env \in Machines /\ f \in padFacts[f.env] /\ f.seq \in Nat /\ f.seq >= 1 /\ f.stamp \in Nat
      /\ f.seq <= padClock[f.env].seq /\ f.stamp <= padClock[f.env].stamp
  BY DEF PadInv, PadStreams
<1>5. f.env # d
  BY <1>1, <1>4
<1>6. /\ padFacts' = [x \in Machines |-> padFacts'[x]]
      /\ padFacts'[d] = padFacts[d] \cup {f} /\ \A x \in Machines : x # d => padFacts'[x] = padFacts[x]
  BY <1>1, <1>2
<1> DEFINE later == IF padClock[d].seq > 0 THEN Max({padClock[d].stamp, f.stamp}) ELSE padClock[d].stamp
<1>7. later \in Nat /\ padClock[d].stamp <= later
  <2>1. padClock[d].stamp \in Nat /\ Max({padClock[d].stamp, f.stamp}) \in Nat /\ padClock[d].stamp <= Max({padClock[d].stamp, f.stamp})
    BY <1>2, <1>4, GreaterOfTwo
  <2> QED BY <2>1
<1>8. padClock' = [padClock EXCEPT ![d] = [stamp |-> later, seq |-> padClock[d].seq]]
  <2>1. padClock' = [padClock EXCEPT ![d].stamp = later]
    BY <1>1
  <2>2. padClock[d] = [stamp |-> padClock[d].stamp, seq |-> padClock[d].seq]
    BY <1>2
  <2> HIDE DEF later
  <2>3. [padClock[d] EXCEPT !.stamp = later] = [stamp |-> later, seq |-> padClock[d].seq]
    BY <2>2
  <2> QED BY <2>1, <2>3
<1> HIDE DEF later
<1>9. /\ padClock' = [x \in Machines |-> padClock'[x]]
      /\ padClock'[d] = [stamp |-> later, seq |-> padClock[d].seq] /\ \A x \in Machines : x # d => padClock'[x] = padClock[x]
  BY <1>2, <1>8
<1>10. \A x \in Machines : /\ padClock'[x] = [stamp |-> padClock'[x].stamp, seq |-> padClock'[x].seq]
                           /\ padClock'[x].stamp \in Nat /\ padClock'[x].seq = padClock[x].seq
                           /\ padClock[x].stamp <= padClock'[x].stamp
  <2>1. padClock'[d].stamp = later /\ padClock'[d].seq = padClock[d].seq
    BY <1>9
  <2>2. ASSUME NEW x \in Machines, x # d PROVE padClock'[x] = [stamp |-> padClock[x].stamp, seq |-> padClock[x].seq]
    BY <1>2, <1>9, <2>2
  <2> QED BY <1>2, <1>7, <1>9, <2>1, <2>2
<1>11. PadClocks'
  BY <1>2, <1>3, <1>6, <1>9, <1>10 DEF PadClocks
<1>12. \A x \in Machines : padFacts[x] \subseteq padFacts'[x] /\ \A g \in padFacts'[x] : g \in padFacts[x] \/ (x = d /\ g = f)
  BY <1>6
<1>13. PadStreams'
  <2>1. ASSUME NEW x \in Machines PROVE IsFiniteSet(padFacts'[x])
    <3>1. IsFiniteSet(padFacts[x]) /\ IsFiniteSet(padFacts[x] \cup {f})
      BY FS_AddElement DEF PadInv, PadStreams
    <3> QED BY <1>6, <3>1
  <2>2. ASSUME NEW x \in Machines, NEW g \in padFacts'[x]
        PROVE  /\ g.env \in Machines /\ g \in padFacts'[g.env] /\ g.seq \in Nat /\ g.seq >= 1 /\ g.stamp \in Nat
               /\ g.seq <= padClock'[g.env].seq /\ g.stamp <= padClock'[g.env].stamp
    <3>1. /\ g.env \in Machines /\ g \in padFacts[g.env] /\ g.seq \in Nat /\ g.seq >= 1 /\ g.stamp \in Nat
          /\ g.seq <= padClock[g.env].seq /\ g.stamp <= padClock[g.env].stamp
      BY <1>4, <1>12 DEF PadInv, PadStreams
    <3>3. /\ padClock[g.env].stamp \in Nat /\ padClock'[g.env].stamp \in Nat /\ padClock'[g.env].seq = padClock[g.env].seq
          /\ padClock[g.env].stamp <= padClock'[g.env].stamp
      BY <1>2, <1>10, <3>1
    <3>4. g.seq <= padClock'[g.env].seq /\ g.stamp <= padClock'[g.env].stamp
      BY <3>1, <3>3
    <3>5. g \in padFacts'[g.env]
      BY <1>12, <3>1
    <3> QED BY <3>1, <3>4, <3>5
  <2> QED BY <1>3, <2>1, <2>2 DEF PadStreams
<1>14. PadNumbers'
  <2>1. \A x \in Machines : \A g \in padFacts'[x] : g.env = x => g \in padFacts[x]
    BY <1>5, <1>12
  <2>2. ASSUME NEW x \in Machines, NEW g \in padFacts'[x], g.env = x, g.kind = "message" PROVE Introduced(x, g)'
    <3>1. Introduced(x, g)
      BY <2>1, <2>2 DEF PadInv, PadNumbers
    <3> QED BY <1>12, <3>1 DEF Introduced
  <2>3. ASSUME NEW x \in Machines, NEW g \in padFacts'[x], g.env = x, NEW h \in padFacts'[x], h.env = x
        PROVE  (g.seq < h.seq => g.stamp < h.stamp) /\ (g.seq = h.seq => g = h)
    BY <2>1, <2>3 DEF PadInv, PadNumbers
  <2> QED BY <1>3, <2>2, <2>3 DEF PadNumbers
<1>15. PadLast'
  <2> SUFFICES ASSUME NEW x \in Machines, NEW n \in 1 .. padClock'[x].seq PROVE \E g \in padFacts'[x] : g.env = x /\ g.seq = n
    BY <1>3 DEF PadLast
  <2>1. n \in 1 .. padClock[x].seq
    BY <1>10
  <2>2. PICK g \in padFacts[x] : g.env = x /\ g.seq = n
    BY <2>1 DEF PadInv, PadLast
  <2> QED BY <1>12, <2>2
<1>16. PadProcesses'
  <2>1. \A p \in padPlan.agents : p.env \in Machines
    BY PadPlansAssumption DEF PadInv, Machines
  <2>2. \A p \in padPlan.agents : \A ch : Greeted(padFacts[p.env], p.env, ch, p.who) => Greeted(padFacts'[p.env], p.env, ch, p.who)
    BY <1>12, <2>1 DEF Greeted
  <2> QED BY <1>1, <2>2 DEF PadInv, PadProcesses, PadAt
<1> QED BY <1>1, <1>11, <1>13, <1>14, <1>15, <1>16 DEF PadInv

\* A process writes a fact and goes on.
LEMMA PadInvWrites ==
  ASSUME PadInv, NEW p \in padPlan.agents, NEW kind, NEW c, PadAppend(p, kind, c), padPlan' = padPlan,
         kind = "message" => Greeted(padFacts[p.env], p.env, c.ch, p.who),
         NEW r, padProc' = [padProc EXCEPT ![p] = r],
         r.at = "idle" \/ (kind = "intro" /\ r = [at |-> "write", cmd |-> c])
  PROVE  PadInv'
<1>1. /\ PadClocks' /\ PadStreams' /\ PadNumbers' /\ PadLast'
      /\ \A d \in Machines : padFacts[d] \subseteq padFacts'[d]
      /\ kind = "intro" => Greeted(padFacts'[p.env], p.env, c.ch, p.who)
  BY PadWrites
<1>2. r.at # "idle" => r = [at |-> r.at, cmd |-> r.cmd] /\ r.cmd = c /\ kind = "intro"
  OBVIOUS
<1>3. PadProcesses'
  BY <1>1, <1>2, PadGoesOn
<1> QED BY <1>1, <1>3 DEF PadInv

\* A process goes on and nothing is written.
LEMMA PadInvGoes ==
  ASSUME PadInv, NEW p \in padPlan.agents, UNCHANGED <<padPlan, padFacts, padClock>>,
         NEW r, padProc' = [padProc EXCEPT ![p] = r],
         r.at # "idle" => r = [at |-> r.at, cmd |-> r.cmd],
         r.at = "write" /\ r.cmd.op = "message" => Greeted(padFacts[p.env], p.env, r.cmd.ch, p.who)
  PROVE  PadInv'
<1>1. PadProcesses'
  BY PadGoesOn
<1> QED BY <1>1, PadInvQuiet

\* PadGoes of a process that runs a command.
LEMMA GoesIs ==
  ASSUME PadInv, NEW p \in padPlan.agents, ~ PadAt(p, "idle"), NEW step, PadGoes(p, step)
  PROVE  padProc' = [padProc EXCEPT ![p] = [at |-> step, cmd |-> padProc[p].cmd]]
<1>1. padProc[p] = [at |-> padProc[p].at, cmd |-> padProc[p].cmd]
  BY DEF PadInv, PadProcesses
<1>2. [padProc[p] EXCEPT !.at = step] = [at |-> step, cmd |-> padProc[p].cmd]
  BY <1>1
<1>3. padProc' = [padProc EXCEPT ![p].at = step]
  BY DEF PadGoes
<1> QED BY <1>2, <1>3

LEMMA PadInvNext ==
  ASSUME PadInv, PadNext
  PROVE  PadInv'
<1>1. ASSUME NEW p \in padPlan.agents, NEW c, EnsureChannelOpen(p, c) PROVE PadInv'
  <2> DEFINE r == [at |-> IF c.op = "message" THEN "greet" ELSE "write", cmd |-> c]
  <2>1. padProc' = [padProc EXCEPT ![p] = r] /\ UNCHANGED <<padPlan, padFacts, padClock>>
    BY <1>1 DEF EnsureChannelOpen
  <2>2. r = [at |-> r.at, cmd |-> r.cmd] /\ ~ (r.at = "write" /\ r.cmd.op = "message")
    OBVIOUS
  <2> HIDE DEF r
  <2> QED BY <2>1, <2>2, PadInvGoes
<1>2. ASSUME NEW p \in padPlan.agents, Introduce(p) PROVE PadInv'
  <2> DEFINE step == IF InstanceIntroduced(p.env, padProc[p].cmd.ch, p.who) THEN "write" ELSE "intro"
             r == [at |-> step, cmd |-> padProc[p].cmd]
  <2>1. ~ PadAt(p, "idle") /\ PadGoes(p, step) /\ UNCHANGED <<padPlan, padFacts, padClock>>
    BY <1>2 DEF Introduce, PadAt
  <2>2. step = "write" => Greeted(padFacts[p.env], p.env, padProc[p].cmd.ch, p.who)
    BY DEF InstanceIntroduced, Greeted
  <2> HIDE DEF step
  <2>3. padProc' = [padProc EXCEPT ![p] = r]
    BY <2>1, GoesIs
  <2>4. r.at = step /\ r.cmd = padProc[p].cmd /\ r = [at |-> r.at, cmd |-> r.cmd]
    OBVIOUS
  <2> HIDE DEF r
  <2> QED BY <2>1, <2>2, <2>3, <2>4, PadInvGoes
<1>3. ASSUME NEW p \in padPlan.agents, AppendIntro(p) PROVE PadInv'
  <2> DEFINE c == padProc[p].cmd
             r == [at |-> "write", cmd |-> c]
  <2>1. ~ PadAt(p, "idle") /\ PadGoes(p, "write") /\ padPlan' = padPlan /\ PadAppend(p, "intro", c)
    BY <1>3 DEF AppendIntro, PadAt
  <2>2. padProc' = [padProc EXCEPT ![p] = r]
    BY <2>1, GoesIs
  <2> HIDE DEF c
  <2> QED BY <2>1, <2>2, PadInvWrites
<1>4. ASSUME NEW p \in padPlan.agents, NEW op, AppendEntry(p, op) PROVE PadInv'
  <2> DEFINE c == padProc[p].cmd
  <2>1. PadAt(p, "write") /\ c.op = op /\ padPlan' = padPlan /\ PadAppend(p, op, c) /\ padProc' = [padProc EXCEPT ![p] = PadIdle]
    BY <1>4 DEF AppendEntry, PadDone
  <2>2. op = "message" => Greeted(padFacts[p.env], p.env, c.ch, p.who)
    BY <2>1 DEF PadInv, PadProcesses
  <2>3. PadIdle.at = "idle"
    BY DEF PadIdle
  <2> HIDE DEF c
  <2> QED BY <2>1, <2>2, <2>3, PadInvWrites
<1>5. ASSUME NEW p \in padPlan.agents, PadStops(p) PROVE PadInv'
  <2>1. padProc' = [padProc EXCEPT ![p] = PadIdle] /\ UNCHANGED <<padPlan, padFacts, padClock>>
    BY <1>5 DEF PadStops, PadDone
  <2>2. PadIdle.at = "idle"
    BY DEF PadIdle
  <2> QED BY <2>1, <2>2, PadInvGoes
<1>6. ASSUME NEW d \in Machines, NEW e \in Machines, d # e, NEW f \in padFacts[e], PadReceive(d, f) PROVE PadInv'
  BY <1>6, PadArrives
<1>7. CASE PadTick
  <2>1. UNCHANGED <<padPlan, padFacts, padClock, padProc>>
    BY <1>7 DEF PadTick
  <2>2. PadProcesses'
    BY <2>1 DEF PadInv, PadProcesses, PadAt
  <2> QED BY <2>1, <2>2, PadInvQuiet
<1> QED BY <1>1, <1>2, <1>3, <1>4, <1>5, <1>6, <1>7, Zenon DEF PadNext, AppendMessage, Claim, Release, CloseChannel

\* Streams, clocks and processes of the channels.
THEOREM PadInvHolds == PadSpec => []PadInv
<1>1. PadInit => PadInv
  BY PadInvInit
<1>2. PadInv /\ [PadNext]_padVars => PadInv'
  <2>1. PadInv /\ UNCHANGED padVars => PadInv'
    <3> SUFFICES ASSUME PadInv, UNCHANGED padVars PROVE PadInv'
      OBVIOUS
    <3>1. UNCHANGED <<padPlan, padFacts, padClock, padProc>>
      BY DEF padVars
    <3>2. PadProcesses'
      BY <3>1 DEF PadInv, PadProcesses, PadAt
    <3> QED BY <3>1, <3>2, PadInvQuiet
  <2> QED BY <2>1, PadInvNext
<1> QED BY <1>1, <1>2, PTL DEF PadSpec

\* The roster of a list of facts.
RosterOf(list) == FoldLeft(Roster, <<>>, list)

LEMMA RosterTrace ==
  ASSUME NEW n \in Nat, NEW list, DOMAIN list = 1 .. n
  PROVE  FoldedBy("roster", n, <<>>, list, 0, RosterOf(list))
<1> DEFINE Body(g) == [s \in SUBSET (1 .. n) |-> IF s = {} THEN <<>> ELSE Roster(g[s \ {Max(s)}], list[Max(s)])]
           iter == CHOOSE g : g = Body(g)
<1>1. \A g : FoldBody("roster", g, 1 .. n, <<>>, list, 0) = Body(g)
  BY Zenon DEF FoldBody, FoldStep
<1> HIDE DEF Body
<1>2. PICK g0 : g0 = FoldBody("roster", g0, 1 .. n, <<>>, list, 0)
  <2>1. FoldIs("roster", n, <<>>, list, 0)
    BY FoldExists
  <2> QED BY <2>1, Zenon DEF FoldIs
<1>3. iter = Body(iter)
  <2>1. g0 = Body(g0)
    BY <1>1, <1>2, Zenon
  <2> QED BY <2>1, Zenon
<1>4. RosterOf(list) = iter[1 .. n]
  BY Zenon DEF RosterOf, FoldLeft, MapThenFoldSet, Body
<1> HIDE DEF iter
<1>5. iter = FoldBody("roster", iter, 1 .. n, <<>>, list, 0)
  BY <1>1, <1>3, Zenon
<1>6. FoldedBy("roster", n, <<>>, list, 0, iter[1 .. n])
  BY <1>5, FoldTrace
<1> QED BY <1>4, <1>6, Zenon

\* Facts that are in the order of their stamps, one before the other.
FactsOrdered(S, list) ==
  /\ IsFun(list)
  /\ Cardinality(S) \in Nat /\ DOMAIN list = 1 .. Cardinality(S)
  /\ \A i \in DOMAIN list : list[i] \in S
  /\ \A x \in S : \E i \in DOMAIN list : list[i] = x
  /\ \A i, j \in DOMAIN list : i < j => PadBefore(list[i], list[j])

ListedFacts(S) == InFactOrder(S)

\* Facts of streams are told apart by environment and number, so that the order is total.
LEMMA FactsListed ==
  ASSUME NEW S, IsFiniteSet(S),
         \A f \in S : f.stamp \in Nat /\ f.env \in Nat /\ f.seq \in Nat,
         \A f, g \in S : f.env = g.env /\ f.seq = g.seq => f = g
  PROVE  FactsOrdered(S, ListedFacts(S))
<1> DEFINE R == {p \in S \X S : PadBefore(p[1], p[2])}
           list == ListedFacts(S)
           N == Cardinality(S)
<1>1. \A x, y \in S : <<x, y>> \in R <=> PadBefore(x, y)
  OBVIOUS
<1> HIDE DEF R
<1>2. \A x \in S : <<x, x>> \notin R
  BY <1>1 DEF PadBefore
<1>3. \A x, y, z \in S : <<x, y>> \in R /\ <<y, z>> \in R => <<x, z>> \in R
  BY <1>1 DEF PadBefore
<1>4. \A x, y \in S : x # y => <<x, y>> \in R \/ <<y, x>> \in R
  BY <1>1 DEF PadBefore
<1>5. ASSUME NEW n \in 1 .. N, NEW x \in S, Cardinality({y \in S : <<y, x>> \in R}) = n - 1
      PROVE  list[n] \in S /\ Cardinality({y \in S : <<y, list[n]>> \in R}) = n - 1
  <2>1. \A z \in S : {y \in S : PadBefore(y, z)} = {y \in S : <<y, z>> \in R}
    BY <1>1
  <2>2. Cardinality({y \in S : PadBefore(y, x)}) = n - 1
    BY <1>5, <2>1
  <2>3. list[n] = CHOOSE z \in S : Cardinality({y \in S : PadBefore(y, z)}) = n - 1
    BY Zenon DEF ListedFacts, InFactOrder, Listed
  <2> HIDE DEF list
  <2>4. list[n] \in S /\ Cardinality({y \in S : PadBefore(y, list[n])}) = n - 1
    BY <2>2, <2>3, Zenon
  <2> QED BY <2>1, <2>4
<1>6. DOMAIN list = 1 .. N
  BY DEF ListedFacts, InFactOrder, Listed
<1>8. IsFun(list)
  <2> DEFINE Place(n) == CHOOSE z \in S : Cardinality({y \in S : PadBefore(y, z)}) = n - 1
  <2>1. list = [n \in 1 .. N |-> Place(n)]
    BY Zenon DEF ListedFacts, InFactOrder, Listed
  <2> HIDE DEF Place, list
  <2> QED BY <2>1 DEF IsFun
<1> HIDE DEF list, N
<1>7. /\ Cardinality(S) \in Nat
      /\ \A i \in 1 .. Cardinality(S) : list[i] \in S
      /\ \A x \in S : \E i \in 1 .. Cardinality(S) : list[i] = x
      /\ \A i, j \in 1 .. Cardinality(S) : i < j => <<list[i], list[j]>> \in R
  <2>1. \A n \in 1 .. Cardinality(S) : (\E x \in S : Cardinality({y \in S : <<y, x>> \in R}) = n - 1)
            => list[n] \in S /\ Cardinality({y \in S : <<y, list[n]>> \in R}) = n - 1
    BY <1>5 DEF N
  <2> QED BY <1>2, <1>3, <1>4, <2>1, MembersInOrder
<1> QED BY <1>1, <1>6, <1>7, <1>8 DEF FactsOrdered, N, list

\* Who is on the roster was not last seen before a fact of theirs.
Seen(r, f) == RosterKey(f) \in DOMAIN r => r[RosterKey(f)] \in Nat /\ r[RosterKey(f)] >= f.stamp
Speaks(f) == f.kind \in {"intro", "message"}

\* What a roster says of a fact it was folded over: an introduction is on it, and neither
\* its author nor that of a message was last seen before it.
Told(r, f) ==
  /\ f.kind = "intro" => RosterKey(f) \in DOMAIN r
  /\ Speaks(f) => Seen(r, f)

\* The roster of facts in the order of their stamps.
LEMMA RosterLists ==
  ASSUME NEW S, NEW list, FactsOrdered(S, list),
         \A f \in S : f.stamp \in Nat /\ f.env \in Nat /\ f.seq \in Nat
  PROVE  \A f \in S : Told(RosterOf(list), f)
<1> DEFINE n == Cardinality(S)
<1>1. /\ n \in Nat /\ DOMAIN list = 1 .. n /\ \A i \in 1 .. n : list[i] \in S
      /\ \A x \in S : \E i \in 1 .. n : list[i] = x
      /\ \A i, j \in 1 .. n : i < j => PadBefore(list[i], list[j])
  BY DEF FactsOrdered
<1> HIDE DEF n
<1>2. PICK h : FoldStates("roster", h, n, <<>>, list, 0) /\ h[n] = RosterOf(list)
  <2>1. FoldedBy("roster", n, <<>>, list, 0, RosterOf(list))
    BY <1>1, RosterTrace
  <2> QED BY <2>1 DEF FoldedBy
<1> DEFINE Ok == {k \in 0 .. n : \A j \in 1 .. k : Told(h[k], list[j])}
<1>3. 0 \in Ok
  BY <1>1
<1>4. ASSUME NEW k \in 0 .. n, k \in Ok, k # n PROVE k + 1 \in Ok
  <2>1. k + 1 \in 1 .. n /\ k + 1 \in 0 .. n /\ (k + 1) - 1 = k
    BY <1>1, <1>4
  <2> DEFINE f == list[k + 1]
             key == RosterKey(f)
             enters == f.kind = "intro" \/ (f.kind = "message" /\ key \in DOMAIN h[k])
  <2>2. h[k + 1] = Roster(h[k], f)
    BY <1>2, <2>1 DEF FoldStates, FoldStep
  <2>3. \A j \in 1 .. k : j \in 1 .. n /\ list[j] \in S /\ Told(h[k], list[j])
    <3>1. \A j \in 1 .. k : j \in 1 .. n
      BY <1>1
    <3>2. \A j \in 1 .. k : Told(h[k], list[j])
      BY <1>4
    <3> QED BY <1>1, <3>1, <3>2
  <2>4. f \in S /\ f.stamp \in Nat /\ \A j \in 1 .. k : list[j].stamp \in Nat /\ list[j].stamp <= f.stamp
    <3>1. ASSUME NEW j \in 1 .. k PROVE PadBefore(list[j], f)
      <4>1. j \in 1 .. n /\ k + 1 \in 1 .. n /\ j < k + 1
        BY <2>1, <2>3
      <4> QED BY <1>1, <4>1
    <3>2. f \in S /\ f.stamp \in Nat /\ \A j \in 1 .. k : list[j].stamp \in Nat
      BY <1>1, <2>1, <2>3
    <3> HIDE DEF f
    <3> QED BY <3>1, <3>2 DEF PadBefore
  <2>5. \A j \in 1 .. k + 1 : j \in 1 .. k \/ list[j] = f
    BY <1>1
  <2> HIDE DEF f, Ok
  <2>6. CASE enters
    <3>1. h[k + 1] = Upserted(h[k], key, f.stamp)
      BY <2>2, <2>6 DEF Roster
    <3>2. /\ DOMAIN h[k + 1] = DOMAIN h[k] \cup {key} /\ h[k + 1][key] = f.stamp
          /\ \A x \in DOMAIN h[k] : x # key => h[k + 1][x] = h[k][x]
      BY <3>1 DEF Upserted
    <3> HIDE DEF enters
    <3>3. Told(h[k + 1], f)
      BY <2>4, <3>2 DEF Told, Seen
    <3>4. ASSUME NEW j \in 1 .. k PROVE Told(h[k + 1], list[j])
      <4>1. Told(h[k], list[j]) /\ list[j].stamp \in Nat /\ list[j].stamp <= f.stamp
        BY <2>3, <2>4
      <4>2. CASE RosterKey(list[j]) = key
        BY <2>4, <3>2, <4>1, <4>2 DEF Told, Seen
      <4>3. CASE RosterKey(list[j]) # key
        BY <3>2, <4>1, <4>3 DEF Told, Seen
      <4> QED BY <4>2, <4>3
    <3> QED BY <2>1, <2>5, <3>3, <3>4 DEF Ok
  <2>7. CASE ~ enters
    <3>1. h[k + 1] = h[k] /\ f.kind # "intro" /\ (f.kind = "message" => key \notin DOMAIN h[k])
      BY <2>2, <2>7 DEF Roster
    <3>2. Told(h[k + 1], f)
      BY <3>1 DEF Told, Seen, Speaks
    <3> QED BY <2>1, <2>3, <2>5, <3>1, <3>2 DEF Ok
  <2> QED BY <2>6, <2>7
<1> HIDE DEF Ok
<1>5. 0 .. n \subseteq Ok
  BY <1>1, <1>3, <1>4, CountsUpTo
<1>6. \A j \in 1 .. n : Told(h[n], list[j])
  BY <1>1, <1>5 DEF Ok
<1> QED BY <1>1, <1>2, <1>6

\* The facts of a channel in one store: told apart, and each message introduced where it
\* was written.
LEMMA ChannelFacts ==
  ASSUME PadInv, NEW d \in Machines, NEW ch, NEW S, S = ListChannelFacts(d, ch)
  PROVE  /\ IsFiniteSet(S)
         /\ \A f \in S : f.stamp \in Nat /\ f.env \in Nat /\ f.seq \in Nat
         /\ \A f, g \in S : f.env = g.env /\ f.seq = g.seq => f = g
         /\ \A f \in S : f.kind = "message" => Introductions(f) # {}
         /\ \A f \in S : Introductions(f) \cap padFacts[d] \subseteq S
<1>1. S \subseteq padFacts[d] /\ \A f \in padFacts[d] : f \in S <=> FactMatchesChannel(f, ch)
  BY DEF ListChannelFacts
<1>2. IsFiniteSet(S)
  BY <1>1, FS_Subset DEF PadInv, PadStreams
<1>3. Machines \subseteq Nat
  BY PadPlansAssumption DEF PadInv, Machines
<1>4. \A f \in padFacts[d] : f.env \in Machines /\ f \in padFacts[f.env] /\ f.stamp \in Nat /\ f.env \in Nat /\ f.seq \in Nat /\ f.seq >= 1
  BY <1>3 DEF PadInv, PadStreams
<1>5. \A f, g \in padFacts[d] : f.env = g.env /\ f.seq = g.seq => f = g
  BY <1>4 DEF PadInv, PadNumbers
<1>6. ASSUME NEW f \in S, f.kind = "message" PROVE Introductions(f) # {}
  <2>1. f \in padFacts[d] /\ f.env \in Machines /\ f \in padFacts[f.env]
    BY <1>1, <1>4
  <2>2. Introduced(f.env, f)
    BY <1>6, <2>1 DEF PadInv, PadNumbers
  <2>3. PICK g \in padFacts[f.env] : g.kind = "intro" /\ g.env = f.env /\ g.who = f.who /\ g.ch = f.ch /\ g.seq < f.seq
    BY <2>2 DEF Introduced
  <2>4. g \in ListChannelFacts(f.env, f.ch) /\ RosterKey(g) = RosterKey(f)
    BY <2>3 DEF ListChannelFacts, FactMatchesChannel, PadKinds, RosterKey
  <2> QED BY <2>3, <2>4 DEF Introductions
<1>7. ASSUME NEW f \in S, NEW g \in Introductions(f), g \in padFacts[d] PROVE g \in S
  <2>1. FactMatchesChannel(g, f.ch) /\ FactMatchesChannel(f, ch)
    BY <1>1, <1>7 DEF Introductions, ListChannelFacts
  <2>2. FactMatchesChannel(g, ch)
    BY <2>1 DEF FactMatchesChannel
  <2> QED BY <1>1, <1>7, <2>2
<1> QED BY <1>1, <1>2, <1>4, <1>5, <1>6, <1>7

\* The newest of a list are of it.
LEMMA NewestAre ==
  ASSUME NEW S, NEW s \in Seq(S), NEW n \in Nat, NEW x \in Range(Newest(s, n))
  PROVE  x \in S
<1>1. PICK i \in DOMAIN Newest(s, n) : x = Newest(s, n)[i]
  BY DEF Range
<1>2. CASE ~ (n > 0 /\ Len(s) > n)
  BY <1>1, <1>2 DEF Newest
<1>3. CASE n > 0 /\ Len(s) > n
  <2>1. Newest(s, n) = SubSeq(s, Len(s) - n + 1, Len(s))
    BY <1>3 DEF Newest
  <2>2. SubSeq(s, Len(s) - n + 1, Len(s)) \in Seq(S)
    BY <1>3
  <2> QED BY <1>1, <2>1, <2>2
<1> QED BY <1>2, <1>3

\* Whoever raced to introduce itself and in whatever order and with whatever gaps facts have
\* arrived, a message shown was introduced where it was written, its author is on the roster
\* once such an introduction is here, and nobody on it was last seen before a message of theirs.
THEOREM AuthorsAreListedHolds == PadSpec => []AuthorsAreListed
<1>1. PadInv => AuthorsAreListed
  <2> SUFFICES ASSUME PadInv, NEW d \in Machines, NEW ch \in padPlan.channels, NEW f \in Range(ReadChannel(d, ch, padPlan.limit).messages)
               PROVE  LET r == ReadChannel(d, ch, padPlan.limit).roster
                      IN /\ Introductions(f) # {}
                         /\ Introductions(f) \cap padFacts[d] # {} => RosterKey(f) \in DOMAIN r
                         /\ RosterKey(f) \in DOMAIN r => r[RosterKey(f)] >= f.stamp
    BY Zenon DEF AuthorsAreListed
  <2> DEFINE S == ListChannelFacts(d, ch)
             M == {x \in S : x.kind = "message"}
             view == ReadChannel(d, ch, padPlan.limit)
  <2>1. /\ IsFiniteSet(S)
        /\ \A x \in S : x.stamp \in Nat /\ x.env \in Nat /\ x.seq \in Nat
        /\ \A x, y \in S : x.env = y.env /\ x.seq = y.seq => x = y
        /\ \A x \in S : x.kind = "message" => Introductions(x) # {}
        /\ \A x \in S : Introductions(x) \cap padFacts[d] \subseteq S
    BY ChannelFacts
  <2>2. CASE ChannelIsClosed(d, ch)
    <3>1. view.messages = <<>>
      BY <2>2 DEF ReadChannel
    <3>2. Range(<<>>) = {}
      BY DEF Range
    <3> QED BY <3>1, <3>2
  <2>3. CASE ~ ChannelIsClosed(d, ch)
    <3>1. view.messages = Newest(ListedFacts(M), padPlan.limit) /\ view.roster = RosterOf(ListedFacts(S))
      BY <2>3, Zenon DEF ReadChannel, RosterOf, ListedFacts
    <3> HIDE DEF view, S
    <3>2. FactsOrdered(S, ListedFacts(S))
      BY <2>1, FactsListed
    <3>3. FactsOrdered(M, ListedFacts(M))
      <4>1. IsFiniteSet(M)
        BY <2>1, FS_Subset
      <4> QED BY <2>1, <4>1, FactsListed
    <3>4. ListedFacts(M) \in Seq(M)
      <4>1. ListedFacts(M) = [i \in DOMAIN ListedFacts(M) |-> ListedFacts(M)[i]]
        BY <3>3 DEF FactsOrdered, IsFun
      <4> HIDE DEF M
      <4>2. Cardinality(M) \in Nat /\ DOMAIN ListedFacts(M) = 1 .. Cardinality(M) /\ \A i \in 1 .. Cardinality(M) : ListedFacts(M)[i] \in M
        BY <3>3 DEF FactsOrdered
      <4> QED BY <4>1, <4>2
    <3>5. padPlan.limit \in Nat
      BY PadPlansAssumption DEF PadInv
    <3>6. f \in M
      <4> HIDE DEF M
      <4> QED BY <3>1, <3>4, <3>5, NewestAre DEF view
    <3>7. f \in S /\ Speaks(f) /\ Introductions(f) # {}
      BY <2>1, <3>6 DEF Speaks
    <3> DEFINE r == RosterOf(ListedFacts(S))
    <3>8. \A x \in S : Told(r, x)
      BY <2>1, <3>2, RosterLists
    <3> HIDE DEF r
    <3>9. ASSUME NEW g \in Introductions(f), g \in padFacts[d] PROVE RosterKey(f) \in DOMAIN r
      <4>1. g \in S /\ g.kind = "intro" /\ RosterKey(g) = RosterKey(f)
        BY <2>1, <3>7, <3>9 DEF Introductions
      <4> QED BY <3>8, <4>1 DEF Told
    <3>10. RosterKey(f) \in DOMAIN r => r[RosterKey(f)] >= f.stamp
      BY <3>7, <3>8 DEF Told, Seen
    <3>11. view.roster = r
      BY <3>1 DEF r
    <3> QED BY <3>7, <3>9, <3>10, <3>11 DEF view
  <2> QED BY <2>2, <2>3
<1> QED BY <1>1, PadInvHolds, PTL
=============================================================================
