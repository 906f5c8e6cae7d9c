---------------------------- MODULE RecordProofs ----------------------------
(***************************************************************************)
(* What a vNext store keeps: its database while it is opened and upgraded  *)
(* (ContinuitySchema), the facts stores write and exchange, and what the   *)
(* folds and the derived context make of them (ContinuityRecords).  Then    *)
(* the records of issues: the board (Issues), and the worktrees of the      *)
(* issues that are started (IssueWorktrees): TreeInv is inductive, a row    *)
(* names a directory nobody else names, when one process at a time stops    *)
(* issues.  Last the names of issues and their tracker (IssueTracker).      *)
(***************************************************************************)
EXTENDS ContinuitySchema, ContinuityRecords, Issues, IssueWorktrees, IssueTracker,
        FiniteSetTheorems, FunctionTheorems, ListFacts

----------------------------------------------------------------------------
(* Opening a continuity database, for any number of openers and any        *)
(* database they may find: openers do not make each other fail, and the    *)
(* rows of a store that is open are made of the rows it was found with.    *)
(*                                                                         *)
(* The invariant has two parts.  OpenersFit says what each opener may      *)
(* believe at each place of its upgrade, although every look it takes is   *)
(* outside of a transaction; RowsKept says what the steps have done to the *)
(* rows at each version on the way from the one that was found.            *)

----------------------------------------------------------------------------
(* The invariant. *)

Empty(x) == x.version = 0 /\ x.objects = {}

\* The database is as it was found, or one this build made of it.
DatabaseFits ==
  /\ origin \in Starts
  /\ DOMAIN db = {"version", "row", "objects", "data"}
  /\ db.version \in Int
  /\ \/ db = origin
     \/ /\ Known(db)
        /\ \/ Known(origin) /\ origin.version <= db.version
           \/ Empty(origin) /\ db.version = SchemaVersion

\* What an opener may believe.
Upgrading(o) == opener[o].from \in 1 .. SchemaVersion - 1 /\ opener[o].from <= db.version

Looking(o) ==
  /\ opener[o].from \in 1 .. SchemaVersion
  /\ opener[o].saw \in opener[o].from .. SchemaVersion
  /\ opener[o].saw <= db.version /\ db.version <= SchemaVersion

Places == {"start", "empty", "migrate", "preflight", "identity", "objects", "recheck", "step",
           "open", "failed", "dead"}

OpenerFits(o) ==
  LET at == opener[o].at IN
  /\ at \notin {"start", "empty", "failed", "dead"} => db.objects # {}
  /\ at = "empty" => origin.objects = {}
  /\ at = "preflight" => Upgrading(o) /\ db.version <= SchemaVersion
  /\ at \in {"identity", "objects", "recheck"} => Looking(o)
  /\ at = "objects" /\ db.version = opener[o].saw => db.row = db.version
  /\ at = "recheck" /\ db.version = opener[o].saw => ~ Known(db)
  /\ at = "step" => Upgrading(o)
  /\ at = "open" => Known(db) /\ db.version = SchemaVersion
  /\ at = "failed" =>
       \/ ~ Known(db) /\ db = origin /\ ~ Empty(origin)
       \/ db.version < SchemaVersion /\ ~ Audit(db.version, db.data)

OpenersFit ==
  /\ opener \in [Openers -> [at : Places, from : Int, saw : Int]]
  /\ \A o \in Openers : OpenerFits(o)

\* What the steps up to version v have made of the rows found at version v0.
Sightings(d) == ProjectSightings(d) \cup CandidateSightings(d)

Covers(watermarks, S) == \A s \in S : \E w \in watermarks : w.relay = s.relay /\ w.head >= s.head

FactsKept(v0, was, v, is) ==
  /\ is.facts = was.facts
  /\ {i.arrival : i \in is.inbox} = {i.arrival : i \in was.inbox}
  /\ v0 = 1 /\ v > 1 =>
       \A f \in is.facts : \E h \in is.heads : h.env = f.env /\ h.seq >= f.seq
  /\ v0 < 11 /\ v >= 11 => is.prunes = {}
  /\ v0 < 9 /\ v >= 9 => \A t \in is.tombstones : t.digest = 0

WatermarksKept(v0, was, v, is) ==
  /\ v0 >= 4 => ProjectSightings(is) = ProjectSightings(was) /\ CandidateSightings(is) = CandidateSightings(was)
  /\ (v < 8 /\ v0 >= 5) \/ v0 >= 8 => is.watermarks = was.watermarks
  /\ (v >= 5 /\ v0 = 4) \/ (v >= 8 /\ v0 \in 4 .. 7) =>
       Covers(is.watermarks, Sightings(was) \cup was.watermarks)
  /\ \A w \in is.watermarks : \E s \in Sightings(is) \cup was.watermarks :
       s.relay = w.relay /\ s.head = w.head
  /\ v >= 5 /\ v < 8 /\ v0 <= 4 =>
       \A s \in Sightings(is) : \E w \in is.watermarks : w.relay = s.relay
  /\ v >= 8 /\ v0 < 8 =>
       \A w \in is.watermarks : w.known => v0 > 4 /\ ~ \E s \in was.watermarks : s.relay = w.relay

RowsKept ==
  /\ RowsFit(db.version, db.data)
  /\ Known(origin) => /\ FactsKept(origin.version, origin.data, db.version, db.data)
                      /\ WatermarksKept(origin.version, origin.data, db.version, db.data)
  /\ Empty(origin) => db.data = origin.data

SchemaInv == DatabaseFits /\ OpenersFit /\ RowsKept

----------------------------------------------------------------------------
(* Openers. *)

LEMMA VersionsHaveTables ==
  ASSUME NEW v \in Int, v >= 1
  PROVE  ObjectsOf(v) # {}
<1>1. "facts" \in ObjectsOf(v)
  BY DEF ObjectsOf, FactObjects
<1> QED BY <1>1

\* What a step of one opener leaves of the others' beliefs: versions only grow,
\* and a transaction that changed the database left one this build knows.
LEMMA OthersKeepTheirView ==
  ASSUME DatabaseFits, DatabaseFits', OpenersFit, NEW o \in Openers,
         NEW r \in [at : Places, from : Int, saw : Int], opener' = [opener EXCEPT ![o] = r],
         origin' = origin,
         \/ db' = db
         \/ Known(db) /\ Known(db)' /\ db'.version = db.version + 1 /\ Audit(db.version, db.data)
         \/ db.objects = {} /\ db.version = 0 /\ Known(db)' /\ db'.version = SchemaVersion,
         OpenerFits(o)'
  PROVE  OpenersFit'
<1>1. opener' \in [Openers -> [at : Places, from : Int, saw : Int]]
  BY DEF OpenersFit
<1>2. ASSUME NEW p \in Openers PROVE OpenerFits(p)'
  <2>1. CASE p = o
    BY <2>1
  <2>2. CASE p # o
    <3>1. /\ opener'[p] = opener[p] /\ opener[p] \in [at : Places, from : Int, saw : Int]
          /\ OpenerFits(p)
      BY <2>2 DEF OpenersFit
    <3>2. db.version \in Int /\ db'.version \in Int
      BY DEF DatabaseFits
    <3>3. CASE db' = db
      BY <3>1, <3>3 DEF OpenerFits, Looking, Upgrading, Known
    <3>4. CASE Known(db) /\ Known(db)' /\ db'.version = db.version + 1 /\ Audit(db.version, db.data)
      <4>1. db'.objects # {} /\ db'.row = db'.version /\ db'.version <= SchemaVersion
        BY <3>2, <3>4, VersionsHaveTables DEF Known, SchemaVersion
      <4> QED BY <3>1, <3>2, <3>4, <4>1 DEF OpenerFits, Looking, Upgrading, SchemaVersion
    <3>5. CASE db.objects = {} /\ db.version = 0 /\ Known(db)' /\ db'.version = SchemaVersion
      <4>1. ~ Known(db) /\ db = origin /\ Empty(origin)
        <5>1. ~ Known(db)
          BY <3>5 DEF Known, SchemaVersion
        <5> QED BY <3>5, <5>1 DEF DatabaseFits, Empty
      <4>2. Audit(0, db.data)
        BY DEF Audit
      <4>3. opener[p].at \in {"start", "empty", "failed", "dead"}
        BY <3>1, <3>5 DEF OpenerFits
      <4>4. opener[p].at # "failed"
        BY <3>1, <3>5, <4>1, <4>2 DEF OpenerFits
      <4> QED BY <3>1, <4>3, <4>4 DEF OpenerFits
    <3> QED BY <3>3, <3>4, <3>5
  <2> QED BY <2>1, <2>2
<1> QED BY <1>1, <1>2 DEF OpenersFit

\* A step keeps the database one that this build knows.
LEMMA StepUpgrades ==
  ASSUME DatabaseFits, Known(db), NEW v \in 1 .. SchemaVersion - 1, db.version = v,
         db' = Upgraded(db), origin' = origin
  PROVE  DatabaseFits' /\ Known(db)' /\ db'.version = v + 1
<1>1. /\ db' = [version |-> v + 1, row |-> v + 1, objects |-> ObjectsOf(v + 1),
                data |-> StepOf(v, db.data)]
      /\ db'.version = v + 1 /\ db'.row = v + 1 /\ db'.objects = ObjectsOf(v + 1)
  BY DEF Upgraded
<1>2. v + 1 \in 1 .. SchemaVersion
  BY DEF SchemaVersion
<1>3. Known(db')
  BY <1>1, <1>2 DEF Known
<1>4. Known(origin) /\ origin.version <= v
  BY DEF DatabaseFits, SchemaVersion
<1>5. DOMAIN db' = {"version", "row", "objects", "data"} /\ db'.version \in Int
  BY <1>1
<1> QED BY <1>1, <1>3, <1>4, <1>5 DEF DatabaseFits, Known, SchemaVersion

\* Every action leaves the openers' beliefs true.
LEMMA OpenersStayFit ==
  ASSUME DatabaseFits, OpenersFit, SchemaNext
  PROVE  DatabaseFits' /\ OpenersFit'
<1> PICK o \in Openers :
      \/ Inspect(o) \/ Initialize(o) \/ ReadVersion(o) \/ Preflight(o) \/ ReadIdentity(o)
      \/ ReadObjects(o) \/ Recheck(o) \/ Step(o) \/ Die(o)
  BY DEF SchemaNext
<1> DEFINE at == opener[o].at
           from == opener[o].from
           saw == opener[o].saw
<1> DEFINE Goes(a, f, s) ==
             /\ opener' = [opener EXCEPT ![o] = [at |-> a, from |-> f, saw |-> s]]
             /\ opener'[o].at = a /\ opener'[o].from = f /\ opener'[o].saw = s
             /\ [at |-> a, from |-> f, saw |-> s] \in [at : Places, from : Int, saw : Int]
<1>a. /\ opener \in [Openers -> [at : Places, from : Int, saw : Int]]
      /\ at \in Places /\ from \in Int /\ saw \in Int /\ OpenerFits(o)
      /\ db.version \in Int
      /\ \/ db = origin
         \/ Known(db)
  BY DEF OpenersFit, DatabaseFits
<1>b. ASSUME NEW a \in Places, NEW f \in Int, NEW s \in Int, Go(o, a, f, s)
      PROVE  Goes(a, f, s)
  BY <1>a, <1>b DEF Go
<1>c. ASSUME UNCHANGED <<origin, db>> PROVE DatabaseFits'
  BY <1>c DEF DatabaseFits
<1>d. ASSUME UNCHANGED <<origin, db>>, NEW a \in Places, NEW f \in Int, NEW s \in Int,
             Goes(a, f, s), OpenerFits(o)'
      PROVE  DatabaseFits' /\ OpenersFit'
  BY <1>c, <1>d, OthersKeepTheirView
<1> HIDE DEF Goes
<1>1. CASE Inspect(o)
  <2>1. CASE db.objects = {}
    <3>1. Goes("empty", 0, 0)
      <4>1. Go(o, "empty", 0, 0)
        BY <1>1, <2>1 DEF Inspect
      <4> QED BY <1>b, <4>1 DEF Places
    <3>2. origin.objects = {}
      BY <1>a, <2>1, VersionsHaveTables DEF Known
    <3>3. OpenerFits(o)'
      BY <1>1, <3>1, <3>2 DEF OpenerFits, Goes, Inspect
    <3> QED BY <1>1, <1>d, <3>1, <3>3 DEF Inspect, Places
  <2>2. CASE db.objects # {}
    <3>1. Goes("migrate", 0, 0)
      BY <1>1, <1>b, <2>2 DEF Inspect, Places
    <3>2. OpenerFits(o)'
      BY <1>1, <2>2, <3>1 DEF OpenerFits, Goes, Inspect
    <3> QED BY <1>1, <1>d, <3>1, <3>2 DEF Inspect, Places
  <2> QED BY <2>1, <2>2
<1>2. CASE Initialize(o)
  <2>1. origin.objects = {} /\ at = "empty" /\ origin' = origin
    BY <1>2, <1>a DEF OpenerFits, Initialize
  <2>2. ~ Known(origin)
    BY <2>1, VersionsHaveTables DEF Known
  <2>3. CASE db.objects # {}
    <3>1. Goes("identity", SchemaVersion, SchemaVersion) /\ UNCHANGED <<origin, db>>
      <4>1. Go(o, "identity", SchemaVersion, SchemaVersion) /\ UNCHANGED <<origin, db>>
        BY <1>2, <2>3 DEF Initialize
      <4>2. SchemaVersion \in Int
        BY DEF SchemaVersion
      <4> QED BY <1>b, <4>1, <4>2 DEF Places
    <3>2. db.version = SchemaVersion
      BY <2>1, <2>2, <2>3 DEF DatabaseFits
    <3>3. OpenerFits(o)'
      BY <2>3, <3>1, <3>2 DEF OpenerFits, Goes, Looking, SchemaVersion
    <3> QED BY <1>d, <3>1, <3>3 DEF Places, SchemaVersion
  <2>4. CASE db.objects = {} /\ db.version # 0
    <3>1. Goes("failed", 0, 0) /\ UNCHANGED <<origin, db>>
      <4>1. Go(o, "failed", 0, 0) /\ UNCHANGED <<origin, db>>
        BY <1>2, <2>4 DEF Initialize
      <4> QED BY <1>b, <4>1 DEF Places
    <3>2. ~ Known(db) /\ db = origin /\ ~ Empty(origin)
      BY <1>a, <2>4, VersionsHaveTables DEF Known, Empty
    <3>3. OpenerFits(o)'
      BY <3>1, <3>2 DEF OpenerFits, Goes, Known, Empty
    <3> QED BY <1>d, <3>1, <3>3 DEF Places
  <2>5. CASE db.objects = {} /\ db.version = 0
    <3>1. Goes("identity", SchemaVersion, SchemaVersion)
      <4>1. Go(o, "identity", SchemaVersion, SchemaVersion)
        BY <1>2, <2>5 DEF Initialize
      <4>2. SchemaVersion \in Int
        BY DEF SchemaVersion
      <4> QED BY <1>b, <4>1, <4>2 DEF Places
    <3>2. db' = [db EXCEPT !.version = SchemaVersion, !.row = SchemaVersion,
                           !.objects = ObjectsOf(SchemaVersion)]
      BY <1>2, <2>5 DEF Initialize
    <3>3. DOMAIN db = {"version", "row", "objects", "data"} /\ db = origin /\ Empty(origin)
      BY <1>a, <2>5, VersionsHaveTables DEF DatabaseFits, Known, Empty
    <3>4. /\ DOMAIN db' = {"version", "row", "objects", "data"}
          /\ db'.version = SchemaVersion /\ db'.row = SchemaVersion
          /\ db'.objects = ObjectsOf(SchemaVersion)
      BY <3>2, <3>3
    <3>5. Known(db)'
      BY <3>4 DEF Known, SchemaVersion
    <3>6. DatabaseFits'
      BY <2>1, <3>3, <3>4, <3>5 DEF DatabaseFits, Empty, SchemaVersion
    <3>7. OpenerFits(o)'
      <4>1. db'.objects # {}
        BY <3>4, VersionsHaveTables DEF SchemaVersion
      <4> QED BY <3>1, <3>4, <4>1 DEF OpenerFits, Goes, Looking, SchemaVersion
    <3> QED BY <2>1, <2>5, <3>1, <3>4, <3>5, <3>6, <3>7, OthersKeepTheirView DEF Goes
  <2> QED BY <2>3, <2>4, <2>5
<1>3. CASE ReadVersion(o)
  <2>1. at = "migrate" /\ db.objects # {} /\ UNCHANGED <<origin, db>>
    BY <1>3, <1>a DEF ReadVersion, OpenerFits
  <2>2. CASE db.version = SchemaVersion
    <3>1. Goes("identity", db.version, db.version)
      <4>1. Go(o, "identity", db.version, db.version)
        BY <1>3, <2>2 DEF ReadVersion, SchemaVersion
      <4> QED BY <1>a, <1>b, <4>1 DEF Places
    <3>2. OpenerFits(o)'
      BY <2>1, <2>2, <3>1 DEF OpenerFits, Goes, Looking, SchemaVersion
    <3> QED BY <1>a, <1>d, <2>1, <3>1, <3>2 DEF Places
  <2>3. CASE db.version \in 1 .. SchemaVersion - 1
    <3>1. Goes("preflight", db.version, db.version)
      BY <1>3, <1>a, <1>b, <2>3 DEF ReadVersion, Places, SchemaVersion
    <3>2. OpenerFits(o)'
      BY <2>1, <2>3, <3>1 DEF OpenerFits, Goes, Upgrading, SchemaVersion
    <3> QED BY <1>a, <1>d, <2>1, <3>1, <3>2 DEF Places
  <2>4. CASE db.version \notin 1 .. SchemaVersion
    <3>1. Goes("failed", db.version, db.version)
      BY <1>3, <1>a, <1>b, <2>4 DEF ReadVersion, Places, SchemaVersion
    <3>2. ~ Known(db) /\ db = origin /\ ~ Empty(origin)
      BY <1>a, <2>1, <2>4 DEF Known, Empty
    <3>3. OpenerFits(o)'
      BY <2>1, <3>1, <3>2 DEF OpenerFits, Goes, Known, Empty
    <3> QED BY <1>a, <1>d, <2>1, <3>1, <3>3 DEF Places
  <2> QED BY <1>a, <2>2, <2>3, <2>4 DEF SchemaVersion
<1>4. CASE Preflight(o)
  <2>1. /\ at = "preflight" /\ db.objects # {} /\ UNCHANGED <<origin, db>>
        /\ from \in 1 .. SchemaVersion - 1 /\ db.version \in from .. SchemaVersion
    BY <1>4, <1>a DEF Preflight, OpenerFits, Upgrading, SchemaVersion
  <2>2. Goes("identity", from, db.version)
    BY <1>4, <1>a, <1>b, <2>1 DEF Preflight, Places
  <2>3. OpenerFits(o)'
    BY <2>1, <2>2 DEF OpenerFits, Goes, Looking, SchemaVersion
  <2> QED BY <1>a, <1>d, <2>1, <2>2, <2>3 DEF Places
<1>5. CASE ReadIdentity(o)
  <2>1. at = "identity" /\ db.objects # {} /\ UNCHANGED <<origin, db>> /\ Looking(o)
    BY <1>5, <1>a DEF ReadIdentity, OpenerFits
  <2>2. CASE db.version = saw /\ db.row = saw
    <3>1. Goes("objects", from, saw)
      BY <1>5, <1>a, <1>b, <2>2 DEF ReadIdentity, Places
    <3>2. OpenerFits(o)'
      BY <2>1, <2>2, <3>1 DEF OpenerFits, Goes, Looking
    <3> QED BY <1>a, <1>d, <2>1, <3>1, <3>2 DEF Places
  <2>3. CASE ~ (db.version = saw /\ db.row = saw)
    <3>1. Goes("recheck", from, saw)
      BY <1>5, <1>a, <1>b, <2>3 DEF ReadIdentity, Places
    <3>2. OpenerFits(o)'
      BY <2>1, <2>3, <3>1 DEF OpenerFits, Goes, Looking, Known
    <3> QED BY <1>a, <1>d, <2>1, <3>1, <3>2 DEF Places
  <2> QED BY <2>2, <2>3
<1>6. CASE ReadObjects(o)
  <2>1. /\ at = "objects" /\ db.objects # {} /\ UNCHANGED <<origin, db>> /\ Looking(o)
        /\ db.version = saw => db.row = db.version
    BY <1>6, <1>a DEF ReadObjects, OpenerFits
  <2>2. CASE db.objects # ObjectsOf(saw)
    <3>1. Goes("recheck", from, saw)
      BY <1>6, <1>a, <1>b, <2>2 DEF ReadObjects, Places
    <3>2. OpenerFits(o)'
      BY <2>1, <2>2, <3>1 DEF OpenerFits, Goes, Looking, Known
    <3> QED BY <1>a, <1>d, <2>1, <3>1, <3>2 DEF Places
  <2>3. CASE db.objects = ObjectsOf(saw) /\ from = SchemaVersion
    <3>1. Goes("open", from, saw)
      BY <1>6, <1>a, <1>b, <2>3 DEF ReadObjects, Places
    <3>2. Known(db) /\ db.version = SchemaVersion
      BY <1>a, <2>1, <2>3 DEF Looking, Known, SchemaVersion
    <3>3. OpenerFits(o)'
      BY <2>1, <3>1, <3>2 DEF OpenerFits, Goes, Known
    <3> QED BY <1>a, <1>d, <2>1, <3>1, <3>3 DEF Places
  <2>4. CASE db.objects = ObjectsOf(saw) /\ from # SchemaVersion /\ from = saw
    <3>1. Goes("step", from, saw)
      BY <1>6, <1>a, <1>b, <2>4 DEF ReadObjects, Places
    <3>2. OpenerFits(o)'
      BY <2>1, <2>4, <3>1 DEF OpenerFits, Goes, Looking, Upgrading, SchemaVersion
    <3> QED BY <1>a, <1>d, <2>1, <3>1, <3>2 DEF Places
  <2>5. CASE db.objects = ObjectsOf(saw) /\ from # SchemaVersion /\ from # saw
    <3>1. Goes("migrate", from, saw)
      BY <1>6, <1>a, <1>b, <2>5 DEF ReadObjects, Places
    <3>2. OpenerFits(o)'
      BY <2>1, <3>1 DEF OpenerFits, Goes
    <3> QED BY <1>a, <1>d, <2>1, <3>1, <3>2 DEF Places
  <2> QED BY <2>2, <2>3, <2>4, <2>5
<1>7. CASE Recheck(o)
  <2>1. /\ at = "recheck" /\ db.objects # {} /\ UNCHANGED <<origin, db>> /\ Looking(o)
        /\ db.version = saw => ~ Known(db)
    BY <1>7, <1>a DEF Recheck, OpenerFits
  <2>2. CASE from # SchemaVersion /\ db.version # saw
    <3>1. Goes("preflight", from, 0)
      BY <1>7, <1>a, <1>b, <2>2 DEF Recheck, Places
    <3>2. OpenerFits(o)'
      <4>1. from \in 1 .. SchemaVersion - 1 /\ from <= db.version
        BY <1>a, <2>1, <2>2 DEF Looking, SchemaVersion
      <4> QED BY <2>1, <3>1, <4>1 DEF OpenerFits, Goes, Looking, Upgrading
    <3> QED BY <1>a, <1>d, <2>1, <3>1, <3>2 DEF Places
  <2>3. CASE ~ (from # SchemaVersion /\ db.version # saw)
    <3>1. Goes("failed", 0, 0)
      BY <1>7, <1>a, <1>b, <2>3 DEF Recheck, Places
    <3>2. db.version = saw
      BY <1>a, <2>1, <2>3 DEF Looking, SchemaVersion
    <3>3. ~ Known(db) /\ db = origin /\ ~ Empty(origin)
      BY <1>a, <2>1, <3>2 DEF Looking, Empty
    <3>4. OpenerFits(o)'
      <4>1. db' = db /\ origin' = origin /\ opener'[o].at = "failed"
        BY <2>1, <3>1 DEF Goes
      <4>2. ~ Known(db') /\ db' = origin' /\ ~ Empty(origin')
        BY <4>1, <3>3
      <4> QED BY <4>1, <4>2 DEF OpenerFits
    <3>5. UNCHANGED <<origin, db>> /\ "failed" \in Places
      BY <2>1 DEF Places
    <3> QED BY <1>d, <3>1, <3>4, <3>5
  <2> QED BY <2>2, <2>3
<1>8. CASE Step(o)
  <2>1. /\ at = "step" /\ db.objects # {} /\ origin' = origin
        /\ from \in 1 .. SchemaVersion - 1 /\ from <= db.version
    BY <1>8, <1>a DEF Step, OpenerFits, Upgrading
  <2>2. CASE ~ Known(db)
    <3>1. Goes("failed", 0, 0) /\ UNCHANGED <<origin, db>>
      BY <1>8, <1>a, <1>b, <2>2 DEF Step, Places
    <3>2. db = origin /\ ~ Empty(origin)
      BY <1>a, <2>1, <2>2 DEF Empty
    <3>3. OpenerFits(o)'
      BY <2>2, <3>1, <3>2 DEF OpenerFits, Goes, Known, Empty
    <3> QED BY <1>a, <1>d, <2>1, <3>1, <3>3 DEF Places
  <2>3. CASE Known(db) /\ db.version > from
    <3>1. Goes("migrate", 0, 0) /\ UNCHANGED <<origin, db>>
      BY <1>8, <1>a, <1>b, <2>3 DEF Step, Places
    <3>2. OpenerFits(o)'
      BY <2>1, <3>1 DEF OpenerFits, Goes
    <3> QED BY <1>a, <1>d, <2>1, <3>1, <3>2 DEF Places
  <2>4. CASE Known(db) /\ db.version = from /\ ~ Audit(from, db.data)
    <3>1. Goes("failed", 0, 0) /\ UNCHANGED <<origin, db>>
      BY <1>8, <1>a, <1>b, <2>4 DEF Step, Places
    <3>2. OpenerFits(o)'
      BY <2>1, <2>4, <3>1 DEF OpenerFits, Goes, SchemaVersion
    <3> QED BY <1>a, <1>d, <2>1, <3>1, <3>2 DEF Places
  <2>5. CASE Known(db) /\ db.version = from /\ Audit(from, db.data)
    <3>1. Goes("migrate", 0, 0) /\ db' = Upgraded(db)
      BY <1>8, <1>a, <1>b, <2>5 DEF Step, Places
    <3>2. DatabaseFits' /\ Known(db)' /\ db'.version = from + 1
      BY <2>1, <2>5, <3>1, StepUpgrades
    <3>3. OpenerFits(o)'
      <4>1. db'.objects # {}
        BY <1>a, <2>1, <3>2, VersionsHaveTables DEF Known, SchemaVersion
      <4> QED BY <3>1, <4>1 DEF OpenerFits, Goes
    <3> QED BY <2>1, <2>5, <3>1, <3>2, <3>3, OthersKeepTheirView DEF Goes
  <2> QED BY <1>a, <2>1, <2>2, <2>3, <2>4, <2>5
<1>9. CASE Die(o)
  <2>1. Goes("dead", 0, 0) /\ UNCHANGED <<origin, db>>
    BY <1>9, <1>b DEF Die, Places
  <2>2. OpenerFits(o)'
    BY <2>1 DEF OpenerFits, Goes
  <2> QED BY <1>d, <2>1, <2>2 DEF Places
<1> QED BY <1>1, <1>2, <1>3, <1>4, <1>5, <1>6, <1>7, <1>8, <1>9

\* Safety of SchemaSpec: openers that race each other through the upgrades, or die
\* in the middle of one, never make another one fail (Open, migrateSchema and
\* validateMigrationPreflight of store.go); whoever is refused has found a database
\* of another build, or rows that the audit of a step refuses.
THEOREM OnlyTheUnsoundIsRefused == SchemaSpec => []RefusesOnlyTheUnsound
<1>1. SchemaInit => DatabaseFits /\ OpenersFit
  <2> SUFFICES ASSUME SchemaInit PROVE DatabaseFits /\ OpenersFit
    OBVIOUS
  <2>1. DatabaseFits
    BY StartsAssumption DEF SchemaInit, DatabaseFits
  <2>2. OpenersFit
    BY DEF SchemaInit, OpenersFit, OpenerFits, Places
  <2> QED BY <2>1, <2>2
<1>2. DatabaseFits /\ OpenersFit /\ [SchemaNext]_schemaVars => (DatabaseFits /\ OpenersFit)'
  <2> SUFFICES ASSUME DatabaseFits, OpenersFit, [SchemaNext]_schemaVars
               PROVE  DatabaseFits' /\ OpenersFit'
    OBVIOUS
  <2>1. CASE SchemaNext
    BY <2>1, OpenersStayFit
  <2>2. CASE UNCHANGED schemaVars
    BY <2>2 DEF schemaVars, DatabaseFits, OpenersFit, OpenerFits, Looking, Upgrading, Known
  <2> QED BY <2>1, <2>2
<1>3. DatabaseFits /\ OpenersFit => RefusesOnlyTheUnsound
  BY DEF OpenersFit, OpenerFits, RefusesOnlyTheUnsound
<1> QED BY <1>1, <1>2, <1>3, PTL DEF SchemaSpec

----------------------------------------------------------------------------
(* Rows. *)

LEMMA FiniteImage ==
  ASSUME NEW S, IsFiniteSet(S), NEW f, DOMAIN f = S, f = [x \in S |-> f[x]]
  PROVE  IsFiniteSet({f[x] : x \in S})
<1> DEFINE T == {f[x] : x \in S}
<1>1. f \in Surjection(S, T)
  BY DEF Surjection
<1> HIDE DEF T
<1>2. IsFiniteSet(T)
  BY <1>1, FS_Surjection
<1> QED BY <1>2 DEF T

\* A finite set of positions has a highest one: the position that a watermark keeps.
LEMMA HighestPosition ==
  ASSUME NEW S \in SUBSET Nat, S # {}, IsFiniteSet(S)
  PROVE  Max(S) \in S /\ \A s \in S : s <= Max(S)
<1> DEFINE Higher(s) == {t \in S : t > s}
<1> DEFINE C == {Cardinality(Higher(s)) : s \in S}
<1>1. \A s \in S : IsFiniteSet(Higher(s)) /\ Cardinality(Higher(s)) \in Nat
  <2> TAKE s \in S
  <2>1. IsFiniteSet(Higher(s))
    BY FS_Subset, Higher(s) \in SUBSET S
  <2> QED BY <2>1, FS_CardinalityType
<1>2. C \in SUBSET Nat /\ C # {}
  BY <1>1
<1>3. PICK m \in S : \A s \in S : Cardinality(Higher(m)) <= Cardinality(Higher(s))
  <2>1. PICK c \in C : \A x \in C : c <= x
    <3> HIDE DEF C
    <3> QED BY <1>2, LeastMember
  <2>2. PICK m \in S : c = Cardinality(Higher(m))
    OBVIOUS
  <2>3. \A s \in S : Cardinality(Higher(s)) \in C
    OBVIOUS
  <2> QED BY <2>1, <2>2, <2>3
<1>4. ASSUME NEW s \in S PROVE s <= m
  <2> SUFFICES ASSUME s > m PROVE FALSE
    OBVIOUS
  <2>1. Higher(s) \in SUBSET Higher(m) /\ s \in Higher(m) /\ s \notin Higher(s)
    <3>1. \A t \in S : t \in Nat
      OBVIOUS
    <3>2. \A t \in S : t > s => t > m
      BY <3>1
    <3>3. s \in Nat /\ ~ (s > s)
      BY <3>1
    <3> QED BY <3>2, <3>3
  <2>2. Cardinality(Higher(s)) <= Cardinality(Higher(m)) /\ Cardinality(Higher(s)) # Cardinality(Higher(m))
    <3> HIDE DEF Higher
    <3>1. IsFiniteSet(Higher(m))
      BY <1>1
    <3>2. /\ Cardinality(Higher(s)) <= Cardinality(Higher(m))
          /\ Cardinality(Higher(m)) = Cardinality(Higher(s)) => Higher(m) = Higher(s)
      BY <2>1, <3>1, FS_Subset
    <3> QED BY <2>1, <3>2
  <2> HIDE DEF Higher
  <2> QED BY <1>1, <1>3, <2>2
<1>5. \E x \in S : \A y \in S : x >= y
  BY <1>4
<1>6. Max(S) \in S /\ \A y \in S : Max(S) >= y
  BY <1>5 DEF Max
<1> QED BY <1>6

\* The same for the positions of rows.
LEMMA HighestRow ==
  ASSUME NEW R, IsFiniteSet(R), NEW r \in R, \A t \in R : t.head \in Nat
  PROVE  LET top == Max({t.head : t \in R}) IN
         /\ top \in Nat
         /\ \E t \in R : t.head = top
         /\ \A t \in R : t.head <= top
<1> DEFINE f == [t \in R |-> t.head]
           H == {f[t] : t \in R}
<1>1. H = {t.head : t \in R}
  OBVIOUS
<1>2. IsFiniteSet(H)
  BY FiniteImage
<1>3. H \in SUBSET Nat /\ r.head \in H
  OBVIOUS
<1>4. Max(H) \in H /\ \A s \in H : s <= Max(H)
  <2> HIDE DEF H
  <2> QED BY <1>2, <1>3, HighestPosition
<1>5. \A t \in R : t.head \in H
  OBVIOUS
<1> QED BY <1>1, <1>3, <1>4, <1>5

\* One table changes, the others do not.
LEMMA OneTable ==
  ASSUME NEW d, DOMAIN d = Tables, NEW t \in Tables, NEW rows
  PROVE  LET e == [d EXCEPT ![t] = rows] IN
         /\ DOMAIN e = Tables
         /\ e[t] = rows
         /\ \A u \in Tables : u # t => e[u] = d[u]
  OBVIOUS

\* What the rows of a file have seen of its relays is finite, and so are the heads.
LEMMA SightingsFit ==
  ASSUME NEW v, NEW d, RowsFit(v, d)
  PROVE  /\ IsFiniteSet(Sightings(d)) /\ \A s \in Sightings(d) : s.head \in Nat
         /\ IsFiniteSet(JoinSightings(d)) /\ \A s \in JoinSightings(d) : s.head \in Nat
<1>1. /\ IsFiniteSet(d.projects) /\ IsFiniteSet(d.authorities) /\ IsFiniteSet(d.candidates)
      /\ IsFiniteSet(d.watermarks)
      /\ \A a \in d.authorities : a.head \in Nat
      /\ \A c \in d.candidates : c.head \in Nat
      /\ \A w \in d.watermarks : w.head \in Nat
  BY DEF RowsFit
<1> DEFINE pairs == {y \in d.projects \X d.authorities : y[1].project = y[2].project}
           P == {Sighting(p.relay, p.admin, p.gen, 0, TRUE) : p \in d.projects}
           A == {Sighting(x[1].relay, x[1].admin, x[1].gen, x[2].head, TRUE) : x \in pairs}
           C == {Sighting(c.relay, c.admin, c.gen, c.head, TRUE) : c \in d.candidates}
<1>2. IsFiniteSet(P) /\ \A s \in P : s.head \in Nat
  <2> DEFINE f == [p \in d.projects |-> Sighting(p.relay, p.admin, p.gen, 0, TRUE)]
  <2>1. IsFiniteSet({f[p] : p \in d.projects})
    BY <1>1, FiniteImage
  <2>2. P = {f[p] : p \in d.projects}
    OBVIOUS
  <2>3. \A s \in P : s.head = 0
    BY DEF Sighting
  <2> HIDE DEF P, f
  <2> QED BY <2>1, <2>2, <2>3
<1>3. IsFiniteSet(A) /\ \A s \in A : s.head \in Nat
  <2> DEFINE f == [x \in pairs |-> Sighting(x[1].relay, x[1].admin, x[1].gen, x[2].head, TRUE)]
  <2>1. IsFiniteSet(pairs)
    <3>1. IsFiniteSet(d.projects \X d.authorities)
      BY <1>1, FS_Product
    <3> QED BY <3>1, FS_Subset, pairs \in SUBSET (d.projects \X d.authorities)
  <2>2. \A x \in pairs : x[2] \in d.authorities
    OBVIOUS
  <2>3. IsFiniteSet({f[x] : x \in pairs})
    <3> HIDE DEF pairs
    <3> QED BY <2>1, FiniteImage
  <2>4. A = {f[x] : x \in pairs}
    OBVIOUS
  <2>5. \A s \in A : s.head \in Nat
    <3> HIDE DEF pairs
    <3> QED BY <1>1, <2>2 DEF Sighting
  <2> QED BY <2>3, <2>4, <2>5
<1>4. IsFiniteSet(C) /\ \A s \in C : s.head \in Nat
  <2> DEFINE f == [c \in d.candidates |-> Sighting(c.relay, c.admin, c.gen, c.head, TRUE)]
  <2>1. IsFiniteSet({f[c] : c \in d.candidates})
    BY <1>1, FiniteImage
  <2>2. C = {f[c] : c \in d.candidates}
    OBVIOUS
  <2>3. \A s \in C : s.head \in Nat
    BY <1>1 DEF Sighting
  <2> HIDE DEF C, f
  <2> QED BY <2>1, <2>2, <2>3
<1>5. Sightings(d) = (P \cup A) \cup C /\ JoinSightings(d) = ((P \cup A) \cup C) \cup d.watermarks
  BY Zenon DEF Sightings, JoinSightings, ProjectSightings, CandidateSightings
<1> HIDE DEF P, A, C
<1>6. IsFiniteSet((P \cup A) \cup C)
  BY <1>2, <1>3, <1>4, FS_Union
<1>7. IsFiniteSet(((P \cup A) \cup C) \cup d.watermarks)
  BY <1>1, <1>6, FS_Union
<1> QED BY <1>1, <1>2, <1>3, <1>4, <1>5, <1>6, <1>7

\* The highest head among the sightings of one relay.
LEMMA TopOfRelay ==
  ASSUME NEW S, IsFiniteSet(S), \A t \in S : t.head \in Nat, NEW s \in S
  PROVE  LET top == Max({t.head : t \in {u \in S : u.relay = s.relay}}) IN
         /\ top \in Nat /\ s.head <= top
         /\ \E t \in S : t.relay = s.relay /\ t.head = top
<1> DEFINE R == {u \in S : u.relay = s.relay}
<1>1. IsFiniteSet(R)
  BY FS_Subset, R \in SUBSET S
<1>2. s \in R /\ \A t \in R : t \in S /\ t.relay = s.relay /\ t.head \in Nat
  OBVIOUS
<1> HIDE DEF R
<1>3. LET top == Max({t.head : t \in R}) IN
      top \in Nat /\ (\E t \in R : t.head = top) /\ (\A t \in R : t.head <= top)
  BY <1>1, <1>2, HighestRow
<1>4. LET top == Max({t.head : t \in R}) IN
      /\ top \in Nat /\ s.head <= top
      /\ \E t \in S : t.relay = s.relay /\ t.head = top
  BY <1>2, <1>3
<1> QED BY <1>4 DEF R

\* migrateSchemaV4ToV5: a watermark per relay seen, at its highest head.
LEMMA SeededWatermarks ==
  ASSUME NEW v, NEW d, RowsFit(v, d)
  PROVE  LET W == SeedWatermarks(d) IN
         /\ IsFiniteSet(W)
         /\ \A s \in Sightings(d) : \E w \in W : w.relay = s.relay /\ w.head >= s.head
         /\ \A w \in W : /\ w.head \in Nat /\ ~ w.known
                         /\ \E s \in Sightings(d) : s.relay = w.relay /\ s.head = w.head
<1> DEFINE S == ProjectSightings(d) \cup CandidateSightings(d)
           Top(s) == Max({t.head : t \in {u \in S : u.relay = s.relay}})
           mark == [s \in S |-> Sighting(s.relay, s.admin, 0, Top(s), FALSE)]
           W == {mark[s] : s \in S}
<1>1. S = Sightings(d) /\ W = SeedWatermarks(d)
  BY DEF Sightings, SeedWatermarks
<1>2. IsFiniteSet(S) /\ \A s \in S : s.head \in Nat
  BY <1>1, SightingsFit
<1> HIDE DEF S
<1>3. IsFiniteSet(W)
  BY <1>2, FiniteImage
<1>4. ASSUME NEW s \in S
      PROVE  Top(s) \in Nat /\ s.head <= Top(s) /\ \E t \in S : t.relay = s.relay /\ t.head = Top(s)
  BY <1>2, TopOfRelay
<1> HIDE DEF Top
<1>5. \A s \in S : /\ mark[s].relay = s.relay /\ mark[s].head = Top(s) /\ mark[s].known = FALSE
  BY DEF Sighting
<1> HIDE DEF mark
<1>6. \A s \in S : \E w \in W : w.relay = s.relay /\ w.head >= s.head
  BY <1>2, <1>4, <1>5
<1>7. \A w \in W : /\ w.head \in Nat /\ ~ w.known
                   /\ \E s \in S : s.relay = w.relay /\ s.head = w.head
  BY <1>4, <1>5
<1> HIDE DEF W
<1> QED BY <1>1, <1>3, <1>6, <1>7

\* migrateSchemaV7ToV8: the join of the watermarks and what was seen since; a relay's
\* floor is known when none of the rows it comes from was an unknown one.
LEMMA JoinedWatermarks ==
  ASSUME NEW v, NEW d, RowsFit(v, d)
  PROVE  LET W == JoinWatermarks(d)
             S == JoinSightings(d) IN
         /\ IsFiniteSet(W)
         /\ \A s \in S : \E w \in W : w.relay = s.relay /\ w.head >= s.head
         /\ \A w \in W : /\ w.head \in Nat
                         /\ \E s \in S : s.relay = w.relay /\ s.head = w.head
                         /\ w.known => \A t \in S : t.relay = w.relay => t.known
<1> DEFINE S == JoinSightings(d)
           Of(s) == {t \in S : t.relay = s.relay}
           Top(s) == Max({t.head : t \in {u \in S : u.relay = s.relay}})
           Gen(s) == Max({t.gen : t \in Of(s)})
           mark == [s \in S |-> Sighting(s.relay, s.admin, Gen(s), Top(s), \A t \in Of(s) : t.known)]
           W == {mark[s] : s \in S}
<1>1. W = JoinWatermarks(d)
  BY DEF JoinWatermarks
<1>2. IsFiniteSet(S) /\ \A s \in S : s.head \in Nat
  BY SightingsFit
<1> HIDE DEF S
<1>3. IsFiniteSet(W)
  <2>1. DOMAIN mark = S /\ mark = [s \in S |-> mark[s]]
    BY Zenon
  <2> HIDE DEF mark
  <2> QED BY <1>2, <2>1, FiniteImage
<1>4. ASSUME NEW s \in S
      PROVE  Top(s) \in Nat /\ s.head <= Top(s) /\ \E t \in S : t.relay = s.relay /\ t.head = Top(s)
  BY <1>2, TopOfRelay
<1> HIDE DEF Top, Gen
<1>5. ASSUME NEW s \in S
      PROVE  /\ mark[s].relay = s.relay /\ mark[s].head = Top(s)
             /\ mark[s].known => \A t \in S : t.relay = s.relay => t.known
  <2>1. mark[s] = Sighting(s.relay, s.admin, Gen(s), Top(s), \A t \in Of(s) : t.known)
    OBVIOUS
  <2>2. mark[s].relay = s.relay /\ mark[s].head = Top(s)
    <3> HIDE DEF Of, mark
    <3> QED BY <2>1 DEF Sighting
  <2>3. mark[s].known = (\A t \in Of(s) : t.known)
    <3> DEFINE all == \A t \in Of(s) : t.known
    <3>1. all \in BOOLEAN
      OBVIOUS
    <3>2. mark[s] = Sighting(s.relay, s.admin, Gen(s), Top(s), all)
      BY <2>1
    <3> HIDE DEF all, mark
    <3>3. mark[s].known = all
      BY <3>1, <3>2 DEF Sighting
    <3> QED BY <3>3 DEF all
  <2>4. (\A t \in Of(s) : t.known) => \A t \in S : t.relay = s.relay => t.known
    OBVIOUS
  <2> HIDE DEF mark, Of
  <2> QED BY <2>2, <2>3, <2>4, Zenon
<1> HIDE DEF mark
<1>6. \A s \in S : \E w \in W : w.relay = s.relay /\ w.head >= s.head
  BY <1>2, <1>4, <1>5
<1>7. \A w \in W : /\ w.head \in Nat
                   /\ \E s \in S : s.relay = w.relay /\ s.head = w.head
                   /\ w.known => \A t \in S : t.relay = w.relay => t.known
  <2> TAKE w \in W
  <2>1. PICK s \in S : w = mark[s]
    OBVIOUS
  <2>2. w.head \in Nat /\ \E t \in S : t.relay = w.relay /\ t.head = w.head
    BY <1>4, <1>5, <2>1
  <2>3. w.known => \A t \in S : t.relay = w.relay => t.known
    BY <1>5, <2>1, Zenon
  <2> QED BY <2>2, <2>3, Zenon
<1> HIDE DEF W
<1>8. /\ IsFiniteSet(W)
      /\ \A s \in S : \E w \in W : w.relay = s.relay /\ w.head >= s.head
      /\ \A w \in W : /\ w.head \in Nat
                      /\ \E s \in S : s.relay = w.relay /\ s.head = w.head
                      /\ w.known => \A t \in S : t.relay = w.relay => t.known
  BY <1>3, <1>6, <1>7, Zenon
<1> QED BY <1>1, <1>8, Zenon DEF S

\* Steps that leave the facts alone but for the table they are about.
LEMMA FactsStay ==
  ASSUME NEW v \in 1 .. SchemaVersion - 1, NEW v0 \in 1 .. v, NEW was, NEW d, NEW e,
         FactsKept(v0, was, v, d), e.facts = d.facts,
         {i.arrival : i \in e.inbox} = {i.arrival : i \in d.inbox},
         IF v = 1 THEN \A f \in d.facts : \E h \in e.heads : h.env = f.env /\ h.seq >= f.seq
                  ELSE e.heads = d.heads,
         IF v = 8 THEN \A t \in e.tombstones : t.digest = 0 ELSE e.tombstones = d.tombstones,
         v = 10 => e.prunes = {}
  PROVE  FactsKept(v0, was, v + 1, e)
<1>1. e.facts = was.facts /\ {i.arrival : i \in e.inbox} = {i.arrival : i \in was.inbox}
  BY DEF FactsKept
<1>2. v0 = 1 => \A f \in e.facts : \E h \in e.heads : h.env = f.env /\ h.seq >= f.seq
  BY DEF FactsKept
<1>3. v0 < 11 /\ v + 1 >= 11 => e.prunes = {}
  BY DEF SchemaVersion
<1>4. v0 < 9 /\ v + 1 >= 9 => \A t \in e.tombstones : t.digest = 0
  BY DEF FactsKept
<1> QED BY <1>1, <1>2, <1>3, <1>4 DEF FactsKept

LEMMA FactsUntouched ==
  ASSUME NEW v \in 2 .. SchemaVersion - 1, v \notin {8, 10}, NEW v0 \in 1 .. v, NEW was, NEW d, NEW e,
         FactsKept(v0, was, v, d), e.facts = d.facts, e.inbox = d.inbox, e.heads = d.heads,
         e.tombstones = d.tombstones
  PROVE  FactsKept(v0, was, v + 1, e)
<1>1. v \in 1 .. SchemaVersion - 1 /\ v # 1 /\ v # 8 /\ v # 10
  OBVIOUS
<1> QED BY <1>1, FactsStay, Zenon

\* Before version 4 there are neither authorities nor watermarks to keep.
LEMMA NoWatermarksYet ==
  ASSUME NEW v \in 1 .. 3, NEW v0 \in 1 .. v, NEW was, NEW e, e.watermarks = {}
  PROVE  WatermarksKept(v0, was, v + 1, e)
BY DEF WatermarksKept

\* From then on only two steps touch them.
LEMMA WatermarksStay ==
  ASSUME NEW v \in 5 .. SchemaVersion - 1, v # 7, NEW v0 \in 1 .. v, NEW was, NEW d, NEW e,
         WatermarksKept(v0, was, v, d), e.watermarks = d.watermarks,
         ProjectSightings(e) = ProjectSightings(d), CandidateSightings(e) = CandidateSightings(d)
  PROVE  WatermarksKept(v0, was, v + 1, e)
<1>1. Sightings(e) = Sightings(d)
  BY DEF Sightings
<1>2. v \in Int /\ v0 \in Int /\ v0 <= v
  BY DEF SchemaVersion
<1>3. (v + 1 < 8 /\ v0 >= 5) \/ v0 >= 8 => e.watermarks = was.watermarks
  BY <1>2 DEF WatermarksKept
<1>4. (v + 1 >= 5 /\ v0 = 4) \/ (v + 1 >= 8 /\ v0 \in 4 .. 7)
        => Covers(e.watermarks, Sightings(was) \cup was.watermarks)
  BY <1>2 DEF WatermarksKept
<1>5. v + 1 >= 5 /\ v + 1 < 8 /\ v0 <= 4 =>
        \A s \in Sightings(e) : \E w \in e.watermarks : w.relay = s.relay
  BY <1>1, <1>2 DEF WatermarksKept
<1>6. v + 1 >= 8 /\ v0 < 8 =>
        \A w \in e.watermarks : w.known => v0 > 4 /\ ~ \E s \in was.watermarks : s.relay = w.relay
  BY <1>2 DEF WatermarksKept
<1>7. v0 >= 4 => /\ ProjectSightings(e) = ProjectSightings(was)
                 /\ CandidateSightings(e) = CandidateSightings(was)
  BY DEF WatermarksKept
<1>8. \A w \in e.watermarks : \E s \in Sightings(e) \cup was.watermarks :
        s.relay = w.relay /\ s.head = w.head
  BY <1>1 DEF WatermarksKept
<1> QED BY <1>3, <1>4, <1>5, <1>6, <1>7, <1>8 DEF WatermarksKept

LEMMA SameSightings ==
  ASSUME NEW d, NEW e, e.projects = d.projects, e.authorities = d.authorities
  PROVE  /\ ProjectSightings(e) = ProjectSightings(d)
         /\ e.candidates = d.candidates => CandidateSightings(e) = CandidateSightings(d)
BY DEF ProjectSightings, CandidateSightings

\* migrateSchemaV4ToV5 takes up every head that had been seen ...
LEMMA WatermarksStart ==
  ASSUME NEW v0 \in 1 .. 4, NEW was, NEW d, NEW e,
         RowsFit(4, d), RowsFit(v0, was), WatermarksKept(v0, was, 4, d),
         e.watermarks = SeedWatermarks(d),
         ProjectSightings(e) = ProjectSightings(d), CandidateSightings(e) = CandidateSightings(d)
  PROVE  WatermarksKept(v0, was, 5, e)
<1>1. Sightings(e) = Sightings(d)
  BY DEF Sightings
<1>2. was.watermarks = {}
  BY DEF RowsFit
<1>3. v0 = 4 => Covers(e.watermarks, Sightings(was) \cup was.watermarks)
  <2>1. v0 = 4 => Sightings(was) = Sightings(d)
    BY DEF Sightings, WatermarksKept
  <2>2. Covers(e.watermarks, Sightings(d))
    BY SeededWatermarks DEF Covers
  <2>3. Sightings(was) \cup was.watermarks = Sightings(was)
    BY <1>2
  <2> QED BY <2>1, <2>2, <2>3
<1>4. \A w \in e.watermarks : \E s \in Sightings(e) \cup was.watermarks :
        s.relay = w.relay /\ s.head = w.head
  BY <1>1, SeededWatermarks
<1>5. \A s \in Sightings(e) : \E w \in e.watermarks : w.relay = s.relay
  BY <1>1, SeededWatermarks
<1>6. v0 >= 4 => /\ ProjectSightings(e) = ProjectSightings(was)
                 /\ CandidateSightings(e) = CandidateSightings(was)
  BY DEF WatermarksKept
<1> QED BY <1>3, <1>4, <1>5, <1>6 DEF WatermarksKept

\* ... and migrateSchemaV7ToV8 joins them with what was seen since.
LEMMA WatermarksJoin ==
  ASSUME NEW v0 \in 1 .. 7, NEW was, NEW d, NEW e,
         RowsFit(7, d), RowsFit(v0, was), WatermarksKept(v0, was, 7, d),
         e.watermarks = JoinWatermarks(d),
         ProjectSightings(e) = ProjectSightings(d), CandidateSightings(e) = CandidateSightings(d)
  PROVE  WatermarksKept(v0, was, 8, e)
<1> DEFINE W == JoinWatermarks(d)
           S == JoinSightings(d)
<1>1. Sightings(e) = Sightings(d) /\ S = d.watermarks \cup Sightings(d)
  BY Zenon DEF Sightings, JoinSightings
<1>2. v0 <= 4 => \A s \in Sightings(d) : \E w \in d.watermarks : w.relay = s.relay
  BY DEF WatermarksKept
<1>3. v0 > 4 => d.watermarks = was.watermarks
  BY DEF WatermarksKept
<1>4. /\ \A s \in S : \E w \in W : w.relay = s.relay /\ w.head >= s.head
      /\ \A w \in W : /\ w.head \in Nat
                      /\ \E s \in S : s.relay = w.relay /\ s.head = w.head
                      /\ w.known => \A t \in S : t.relay = w.relay => t.known
  BY JoinedWatermarks, Zenon
<1> HIDE DEF W, S
<1>5. e.watermarks = W
  BY DEF W
<1>6. \A t \in d.watermarks : t.head \in Nat /\ ~ t.known
  BY DEF RowsFit
<1>7. v0 >= 4 => Covers(W, Sightings(was) \cup was.watermarks)
  <2>1. CASE v0 > 4
    <3>1. Sightings(was) \cup was.watermarks = S
      BY <1>1, <1>3, <2>1 DEF WatermarksKept, Sightings
    <3> QED BY <1>4, <3>1 DEF Covers
  <2>2. CASE v0 = 4
    <3>1. Sightings(was) = Sightings(d) /\ was.watermarks = {}
      BY <2>2 DEF WatermarksKept, Sightings, RowsFit
    <3>2. \A s \in Sightings(d) : s \in S
      BY <1>1
    <3> QED BY <1>4, <3>1, <3>2 DEF Covers
  <2> QED BY <2>1, <2>2
<1>8. \A w \in W : \E s \in Sightings(e) \cup was.watermarks : s.relay = w.relay /\ s.head = w.head
  <2> TAKE w \in W
  <2>1. PICK s \in S : s.relay = w.relay /\ s.head = w.head
    BY <1>4
  <2>2. CASE s \in Sightings(d)
    BY <1>1, <2>1, <2>2
  <2>3. CASE s \in d.watermarks
    <3>1. PICK t \in Sightings(d) \cup was.watermarks : t.relay = s.relay /\ t.head = s.head
      BY <2>3 DEF WatermarksKept
    <3> QED BY <1>1, <2>1, <3>1
  <2> QED BY <1>1, <2>1, <2>2, <2>3
<1>9. ASSUME NEW w \in W, w.known
      PROVE  v0 > 4 /\ ~ \E s \in was.watermarks : s.relay = w.relay
  <2>1. \A t \in d.watermarks : t.relay # w.relay
    BY <1>1, <1>4, <1>6, <1>9, Zenon
  <2>2. v0 > 4
    <3> SUFFICES ASSUME v0 <= 4 PROVE FALSE
      OBVIOUS
    <3>1. PICK s \in S : s.relay = w.relay
      BY <1>4, Zenon
    <3>2. \E t \in d.watermarks : t.relay = s.relay
      BY <1>1, <1>2, <3>1
    <3> QED BY <2>1, <3>1, <3>2
  <2> QED BY <1>3, <2>1, <2>2
<1>10. v0 >= 4 => /\ ProjectSightings(e) = ProjectSightings(was)
                  /\ CandidateSightings(e) = CandidateSightings(was)
  BY DEF WatermarksKept
<1> QED BY <1>5, <1>7, <1>8, <1>9, <1>10 DEF WatermarksKept

\* migrateSchemaV1ToV2: the last fact of an environment is a head, so no fact is
\* past its environment's head.
LEMMA HeadsAreSeeded ==
  ASSUME NEW R, IsFiniteSet(R), \A f \in R : f.seq \in Nat
  PROVE  \A f \in R : \E h \in SeedHeads(R) : h.env = f.env /\ h.seq >= f.seq
<1> TAKE f \in R
<1> DEFINE own == {g \in R : g.env = f.env}
           seqs == [g \in own |-> g.seq]
           Q == {seqs[g] : g \in own}
<1>1. IsFiniteSet(own) /\ f \in own
  BY FS_Subset, own \in SUBSET R
<1>2. IsFiniteSet(Q)
  <2>1. DOMAIN seqs = own /\ seqs = [g \in own |-> seqs[g]]
    OBVIOUS
  <2> HIDE DEF seqs, own
  <2> QED BY <1>1, <2>1, FiniteImage
<1>3. Q \in SUBSET Nat /\ f.seq \in Q /\ \A g \in own : g.seq \in Q
  OBVIOUS
<1>4. Max(Q) \in Q /\ \A s \in Q : s <= Max(Q)
  <2> HIDE DEF Q
  <2> QED BY <1>2, <1>3, HighestPosition
<1>5. PICK g \in own : g.seq = Max(Q)
  <2>1. \A s \in Q : \E g \in own : s = g.seq
    OBVIOUS
  <2> QED BY <1>4, <2>1
<1>6. g \in R /\ g.env = f.env /\ g.seq >= f.seq
  BY <1>3, <1>4, <1>5
<1>7. \A h \in R : h.env = g.env => h.seq <= g.seq
  <2>1. \A h \in R : h.env = g.env => h \in own
    BY <1>6
  <2> QED BY <1>3, <1>4, <1>5, <2>1
<1> HIDE DEF Q, own
<1>8. [env |-> g.env, seq |-> g.seq, time |-> g.time, sealed |-> 0] \in SeedHeads(R)
  BY <1>6, <1>7 DEF SeedHeads
<1> QED BY <1>6, <1>8

\* The other tables that steps fill stay finite and keep their columns.
LEMMA AuthoritiesAreSeeded ==
  ASSUME NEW projects, IsFiniteSet(projects)
  PROVE  IsFiniteSet(SeedAuthorities(projects)) /\ \A a \in SeedAuthorities(projects) : a.head = 0
<1> DEFINE f == [p \in projects |-> [project |-> p.project, digest |-> p.digest, head |-> 0]]
<1>1. IsFiniteSet({f[p] : p \in projects})
  <2>1. DOMAIN f = projects /\ f = [p \in projects |-> f[p]]
    OBVIOUS
  <2> HIDE DEF f
  <2> QED BY <2>1, FiniteImage
<1>2. SeedAuthorities(projects) = {f[p] : p \in projects}
  BY DEF SeedAuthorities
<1>3. \A a \in SeedAuthorities(projects) : a.head = 0
  BY DEF SeedAuthorities
<1> QED BY <1>1, <1>2, <1>3

LEMMA CandidatesGetARole ==
  ASSUME NEW C, IsFiniteSet(C), \A c \in C : c.head \in Nat /\ {"relay", "admin", "gen", "head"} \subseteq DOMAIN c
  PROVE  LET D == {[c EXCEPT !.role = "ordinary"] : c \in C} IN
         /\ IsFiniteSet(D)
         /\ \A c \in D : c.head \in Nat /\ {"relay", "admin", "gen", "head"} \subseteq DOMAIN c
         /\ {Sighting(c.relay, c.admin, c.gen, c.head, TRUE) : c \in D}
              = {Sighting(c.relay, c.admin, c.gen, c.head, TRUE) : c \in C}
<1> DEFINE r == [c \in C |-> [c EXCEPT !.role = "ordinary"]]
           D == {r[c] : c \in C}
<1>1. IsFiniteSet(D)
  <2>1. DOMAIN r = C /\ r = [c \in C |-> r[c]]
    OBVIOUS
  <2> HIDE DEF r
  <2> QED BY <2>1, FiniteImage
<1>2. \A c \in C : /\ r[c].relay = c.relay /\ r[c].admin = c.admin /\ r[c].gen = c.gen
                   /\ r[c].head = c.head /\ DOMAIN r[c] = DOMAIN c
  OBVIOUS
<1>3. D = {[c EXCEPT !.role = "ordinary"] : c \in C}
  OBVIOUS
<1> HIDE DEF r
<1>4. \A c \in D : c.head \in Nat /\ {"relay", "admin", "gen", "head"} \subseteq DOMAIN c
  BY <1>2
<1>5. {Sighting(c.relay, c.admin, c.gen, c.head, TRUE) : c \in D}
        = {Sighting(c.relay, c.admin, c.gen, c.head, TRUE) : c \in C}
  <2> DEFINE of(c) == Sighting(c.relay, c.admin, c.gen, c.head, TRUE)
  <2>1. \A c \in C : of(r[c]) = of(c)
    BY <1>2
  <2> HIDE DEF of
  <2>2. {of(c) : c \in D} = {of(c) : c \in C}
    BY <2>1
  <2> QED BY <2>2 DEF of
<1> HIDE DEF D
<1> QED BY <1>1, <1>3, <1>4, <1>5

\* Each step of migrateSchema, one after the other.
LEMMA StepKeepsRows ==
  ASSUME NEW v \in 1 .. SchemaVersion - 1, NEW v0 \in 1 .. v, NEW was, NEW d, NEW e,
         e = StepOf(v, d), RowsFit(v, d), RowsFit(v0, was),
         FactsKept(v0, was, v, d), WatermarksKept(v0, was, v, d)
  PROVE  RowsFit(v + 1, e) /\ FactsKept(v0, was, v + 1, e) /\ WatermarksKept(v0, was, v + 1, e)
<1>0. v \in {1, 2, 3, 4, 5, 6, 7, 8, 9, 10} /\ v0 \in Int /\ v0 <= v /\ v0 >= 1
  BY DEF SchemaVersion
<1>a. /\ DOMAIN d = Tables
      /\ IsFiniteSet(d.facts) /\ IsFiniteSet(d.projects) /\ IsFiniteSet(d.candidates)
      /\ \A f \in d.facts : f.seq \in Nat
      /\ \A c \in d.candidates : c.head \in Nat /\ {"relay", "admin", "gen", "head"} \subseteq DOMAIN c
      /\ \A t \in d.tombstones : "digest" \in DOMAIN t
      /\ v < 5 => d.watermarks = {}
  BY DEF RowsFit
<1>1. CASE v = 1
  <2>1. e = [d EXCEPT !.heads = SeedHeads(d.facts)]
    BY <1>1 DEF StepOf, V1ToV2
  <2>2. DOMAIN e = Tables /\ e.heads = SeedHeads(d.facts) /\ \A u \in Tables : u # "heads" => e[u] = d[u]
    BY <1>a, <2>1, OneTable DEF Tables
  <2>3. RowsFit(2, e)
    BY <1>1, <2>2 DEF RowsFit, Tables
  <2>4. FactsKept(v0, was, 2, e)
    BY <1>1, <1>a, <2>2, HeadsAreSeeded, FactsStay DEF Tables
  <2>5. WatermarksKept(v0, was, 2, e)
    BY <1>1, <1>a, <2>2, NoWatermarksYet DEF Tables
  <2> QED BY <1>1, <2>3, <2>4, <2>5
<1>2. CASE v = 2
  <2>1. e = [d EXCEPT !.inbox = {[arrival |-> i.arrival, kind |-> "sealed"] : i \in d.inbox}]
    BY <1>2 DEF StepOf, V2ToV3
  <2>2. /\ DOMAIN e = Tables
        /\ e.inbox = {[arrival |-> i.arrival, kind |-> "sealed"] : i \in d.inbox}
        /\ \A u \in Tables : u # "inbox" => e[u] = d[u]
    BY <1>a, <2>1, OneTable DEF Tables
  <2>3. RowsFit(3, e)
    BY <1>2, <2>2 DEF RowsFit, Tables
  <2>4. {i.arrival : i \in e.inbox} = {i.arrival : i \in d.inbox}
    <3>1. \A i \in e.inbox : \E j \in d.inbox : i.arrival = j.arrival
      BY <2>2
    <3>2. ASSUME NEW j \in d.inbox PROVE \E i \in e.inbox : i.arrival = j.arrival
      <4>1. [arrival |-> j.arrival, kind |-> "sealed"] \in e.inbox
        BY <2>2
      <4> QED BY <4>1
    <3> HIDE DEF Tables
    <3> QED BY <3>1, <3>2
  <2>5. FactsKept(v0, was, 3, e)
    BY <1>2, <2>2, <2>4, FactsStay DEF Tables
  <2>6. WatermarksKept(v0, was, 3, e)
    BY <1>2, <1>a, <2>2, NoWatermarksYet DEF Tables
  <2> QED BY <1>2, <2>3, <2>5, <2>6
<1>3. CASE v = 3
  <2>1. e = [d EXCEPT !.authorities = SeedAuthorities(d.projects)]
    BY <1>3 DEF StepOf, V3ToV4
  <2>2. /\ DOMAIN e = Tables /\ e.authorities = SeedAuthorities(d.projects)
        /\ \A u \in Tables : u # "authorities" => e[u] = d[u]
    BY <1>a, <2>1, OneTable DEF Tables
  <2>3. IsFiniteSet(e.authorities) /\ \A a \in e.authorities : a.head \in Nat
    BY <1>a, <2>2, AuthoritiesAreSeeded
  <2>4. RowsFit(4, e)
    BY <1>3, <2>2, <2>3 DEF RowsFit, Tables
  <2>5. FactsKept(v0, was, 4, e)
    <3>1. /\ e.facts = d.facts /\ e.inbox = d.inbox /\ e.heads = d.heads
          /\ e.tombstones = d.tombstones
      BY <2>2 DEF Tables
    <3>2. v \in 2 .. SchemaVersion - 1 /\ v \notin {8, 10}
      BY <1>3 DEF SchemaVersion
    <3>3. FactsKept(v0, was, v + 1, e)
      BY <3>1, <3>2, FactsUntouched
    <3> QED BY <1>3, <3>3
  <2>6. WatermarksKept(v0, was, 4, e)
    BY <1>3, <1>a, <2>2, NoWatermarksYet DEF Tables
  <2> QED BY <1>3, <2>4, <2>5, <2>6
<1>4. CASE v = 4
  <2>1. e = [d EXCEPT !.watermarks = SeedWatermarks(d)]
    BY <1>4 DEF StepOf, V4ToV5
  <2>2. /\ DOMAIN e = Tables /\ e.watermarks = SeedWatermarks(d)
        /\ \A u \in Tables : u # "watermarks" => e[u] = d[u]
    BY <1>a, <2>1, OneTable DEF Tables
  <2>3. IsFiniteSet(e.watermarks) /\ \A w \in e.watermarks : w.head \in Nat /\ ~ w.known
    BY <2>2, SeededWatermarks
  <2>4. RowsFit(5, e)
    BY <1>4, <2>2, <2>3 DEF RowsFit, Tables
  <2>5. FactsKept(v0, was, 5, e)
    <3>1. /\ e.facts = d.facts /\ e.inbox = d.inbox /\ e.heads = d.heads
          /\ e.tombstones = d.tombstones
      BY <2>2 DEF Tables
    <3>2. v \in 2 .. SchemaVersion - 1 /\ v \notin {8, 10}
      BY <1>4 DEF SchemaVersion
    <3>3. FactsKept(v0, was, v + 1, e)
      BY <3>1, <3>2, FactsUntouched
    <3> QED BY <1>4, <3>3
  <2>6. ProjectSightings(e) = ProjectSightings(d) /\ CandidateSightings(e) = CandidateSightings(d)
    BY <2>2, SameSightings DEF Tables
  <2>7. WatermarksKept(v0, was, 5, e)
    BY <1>0, <1>4, <2>2, <2>6, WatermarksStart
  <2> QED BY <1>4, <2>4, <2>5, <2>7
<1>5. CASE v = 5
  <2>1. e = [d EXCEPT !.candidates = {[c EXCEPT !.role = "ordinary"] : c \in d.candidates}]
    BY <1>5 DEF StepOf, V5ToV6
  <2>2. /\ DOMAIN e = Tables
        /\ e.candidates = {[c EXCEPT !.role = "ordinary"] : c \in d.candidates}
        /\ \A u \in Tables : u # "candidates" => e[u] = d[u]
    BY <1>a, <2>1, OneTable DEF Tables
  <2>3. /\ IsFiniteSet(e.candidates)
        /\ \A c \in e.candidates : c.head \in Nat /\ {"relay", "admin", "gen", "head"} \subseteq DOMAIN c
        /\ CandidateSightings(e) = CandidateSightings(d)
    BY <1>a, <2>2, CandidatesGetARole DEF CandidateSightings
  <2>4. RowsFit(6, e)
    BY <1>5, <2>2, <2>3 DEF RowsFit, Tables
  <2>5. FactsKept(v0, was, 6, e)
    <3>1. /\ e.facts = d.facts /\ e.inbox = d.inbox /\ e.heads = d.heads
          /\ e.tombstones = d.tombstones
      BY <2>2 DEF Tables
    <3>2. v \in 2 .. SchemaVersion - 1 /\ v \notin {8, 10}
      BY <1>5 DEF SchemaVersion
    <3>3. FactsKept(v0, was, v + 1, e)
      BY <3>1, <3>2, FactsUntouched
    <3> QED BY <1>5, <3>3
  <2>6. WatermarksKept(v0, was, 6, e)
    <3>1. ProjectSightings(e) = ProjectSightings(d) /\ e.watermarks = d.watermarks
      BY <2>2, SameSightings DEF Tables
    <3> QED BY <1>0, <1>5, <2>3, <3>1, WatermarksStay
  <2> QED BY <1>5, <2>4, <2>5, <2>6
<1>6. CASE v = 6
  <2>1. e = [d EXCEPT !.transitions = {[t EXCEPT !.attempt = t.successor] : t \in d.transitions}]
    BY <1>6 DEF StepOf, V6ToV7
  <2>2. DOMAIN e = Tables /\ \A u \in Tables : u # "transitions" => e[u] = d[u]
    BY <1>a, <2>1, OneTable DEF Tables
  <2>3. RowsFit(7, e)
    BY <1>6, <2>2 DEF RowsFit, Tables
  <2>4. FactsKept(v0, was, 7, e)
    <3>1. /\ e.facts = d.facts /\ e.inbox = d.inbox /\ e.heads = d.heads
          /\ e.tombstones = d.tombstones
      BY <2>2 DEF Tables
    <3>2. v \in 2 .. SchemaVersion - 1 /\ v \notin {8, 10}
      BY <1>6 DEF SchemaVersion
    <3>3. FactsKept(v0, was, v + 1, e)
      BY <3>1, <3>2, FactsUntouched
    <3> QED BY <1>6, <3>3
  <2>5. WatermarksKept(v0, was, 7, e)
    <3>1. /\ ProjectSightings(e) = ProjectSightings(d) /\ CandidateSightings(e) = CandidateSightings(d)
          /\ e.watermarks = d.watermarks
      BY <2>2, SameSightings DEF Tables
    <3> QED BY <1>0, <1>6, <3>1, WatermarksStay
  <2> QED BY <1>6, <2>3, <2>4, <2>5
<1>7. CASE v = 7
  <2>1. e = [d EXCEPT !.watermarks = JoinWatermarks(d)]
    BY <1>7 DEF StepOf, V7ToV8
  <2>2. /\ DOMAIN e = Tables /\ e.watermarks = JoinWatermarks(d)
        /\ \A u \in Tables : u # "watermarks" => e[u] = d[u]
    BY <1>a, <2>1, OneTable DEF Tables
  <2>3. IsFiniteSet(e.watermarks) /\ \A w \in e.watermarks : w.head \in Nat
    BY <2>2, JoinedWatermarks
  <2>4. RowsFit(8, e)
    BY <1>7, <2>2, <2>3 DEF RowsFit, Tables
  <2>5. FactsKept(v0, was, 8, e)
    <3>1. /\ e.facts = d.facts /\ e.inbox = d.inbox /\ e.heads = d.heads
          /\ e.tombstones = d.tombstones
      BY <2>2 DEF Tables
    <3>2. v \in 2 .. SchemaVersion - 1 /\ v \notin {8, 10}
      BY <1>7 DEF SchemaVersion
    <3>3. FactsKept(v0, was, v + 1, e)
      BY <3>1, <3>2, FactsUntouched
    <3> QED BY <1>7, <3>3
  <2>6. ProjectSightings(e) = ProjectSightings(d) /\ CandidateSightings(e) = CandidateSightings(d)
    BY <2>2, SameSightings DEF Tables
  <2>7. WatermarksKept(v0, was, 8, e)
    BY <1>0, <1>7, <2>2, <2>6, WatermarksJoin
  <2> QED BY <1>7, <2>4, <2>5, <2>7
<1>8. CASE v = 8
  <2>1. e = [d EXCEPT !.tombstones = {[t EXCEPT !.digest = 0] : t \in d.tombstones}]
    BY <1>8 DEF StepOf, V8ToV9
  <2>2. /\ DOMAIN e = Tables /\ e.tombstones = {[t EXCEPT !.digest = 0] : t \in d.tombstones}
        /\ \A u \in Tables : u # "tombstones" => e[u] = d[u]
    BY <1>a, <2>1, OneTable DEF Tables
  <2>3. \A t \in e.tombstones : "digest" \in DOMAIN t /\ t.digest = 0
    BY <1>a, <2>2
  <2>4. RowsFit(9, e)
    BY <1>8, <2>2, <2>3 DEF RowsFit, Tables
  <2>5. FactsKept(v0, was, 9, e)
    <3>1. e.facts = d.facts /\ e.inbox = d.inbox /\ e.heads = d.heads
      BY <2>2 DEF Tables
    <3> QED BY <1>8, <2>3, <3>1, FactsStay
  <2>6. WatermarksKept(v0, was, 9, e)
    <3>1. /\ ProjectSightings(e) = ProjectSightings(d) /\ CandidateSightings(e) = CandidateSightings(d)
          /\ e.watermarks = d.watermarks
      BY <2>2, SameSightings DEF Tables
    <3> QED BY <1>0, <1>8, <3>1, WatermarksStay
  <2> QED BY <1>8, <2>4, <2>5, <2>6
<1>9. CASE v \in {9, 10}
  <2>1. e = [d EXCEPT !.prunes = {}]
    BY <1>9 DEF StepOf, V9ToV10, V10ToV11
  <2>2. DOMAIN e = Tables /\ e.prunes = {} /\ \A u \in Tables : u # "prunes" => e[u] = d[u]
    BY <1>a, <2>1, OneTable DEF Tables
  <2>3. RowsFit(v + 1, e)
    BY <1>9, <2>2 DEF RowsFit, Tables
  <2>4. FactsKept(v0, was, v + 1, e)
    BY <1>9, <2>2, FactsStay DEF Tables
  <2>5. WatermarksKept(v0, was, v + 1, e)
    <3>1. /\ ProjectSightings(e) = ProjectSightings(d) /\ CandidateSightings(e) = CandidateSightings(d)
          /\ e.watermarks = d.watermarks
      BY <2>2, SameSightings DEF Tables
    <3>2. v \in 5 .. SchemaVersion - 1 /\ v # 7
      BY <1>9 DEF SchemaVersion
    <3> QED BY <3>1, <3>2, WatermarksStay
  <2> QED BY <2>3, <2>4, <2>5
<1> QED BY <1>0, <1>1, <1>2, <1>3, <1>4, <1>5, <1>6, <1>7, <1>8, <1>9

\* Only Initialize and Step touch the rows.
LEMMA RowsStayKept ==
  ASSUME SchemaInv, SchemaNext, DatabaseFits', OpenersFit'
  PROVE  RowsKept'
<1> PICK o \in Openers :
      \/ Inspect(o) \/ Initialize(o) \/ ReadVersion(o) \/ Preflight(o) \/ ReadIdentity(o)
      \/ ReadObjects(o) \/ Recheck(o) \/ Step(o) \/ Die(o)
  BY DEF SchemaNext
<1>1. origin' = origin
  BY DEF Inspect, Initialize, ReadVersion, Preflight, ReadIdentity, ReadObjects, Recheck, Step, Die
<1>2. CASE db' = db
  BY <1>1, <1>2 DEF SchemaInv, RowsKept, Known, Empty
<1>3. CASE db' # db
  <2>1. Initialize(o) \/ Step(o)
    BY <1>3 DEF Inspect, ReadVersion, Preflight, ReadIdentity, ReadObjects, Recheck, Die
  <2>2. CASE Initialize(o)
    <3>1. /\ db.objects = {} /\ db.version = 0
          /\ db' = [db EXCEPT !.version = SchemaVersion, !.row = SchemaVersion,
                              !.objects = ObjectsOf(SchemaVersion)]
      BY <1>3, <2>2 DEF Initialize
    <3>2. /\ DOMAIN db = {"version", "row", "objects", "data"}
          /\ ~ Known(db) /\ db = origin /\ Empty(origin) /\ ~ Known(origin) /\ origin \in Starts
      BY <3>1 DEF SchemaInv, DatabaseFits, Known, Empty, SchemaVersion
    <3>3. db'.data = db.data /\ db'.version = SchemaVersion
      BY <3>1, <3>2
    <3>4. \A t \in Tables : db.data[t] = {}
      BY <3>1, <3>2, StartsAssumption
    <3>5. RowsFit(0, db.data)
      BY <3>1 DEF SchemaInv, RowsKept
    <3>6. RowsFit(SchemaVersion, db.data)
      BY <3>4, <3>5 DEF RowsFit, Tables, SchemaVersion
    <3>7. RowsFit(db'.version, db'.data)
      BY <3>3, <3>6
    <3> QED BY <1>1, <3>2, <3>3, <3>7 DEF RowsKept, Known, Empty
  <2>3. CASE Step(o)
    <3> DEFINE v == db.version
    <3>1. Known(db) /\ db' = Upgraded(db) /\ opener[o].from = v /\ opener[o].from \in 1 .. SchemaVersion - 1
      <4>1. /\ opener[o].from \in 1 .. SchemaVersion - 1 /\ opener[o].from <= db.version
            /\ db.version \in Int
        BY <2>3 DEF SchemaInv, OpenersFit, OpenerFits, Upgrading, Step, DatabaseFits
      <4>2. Known(db) /\ db' = Upgraded(db) /\ ~ (db.version > opener[o].from)
        BY <1>3, <2>3 DEF Step
      <4> QED BY <4>1, <4>2
    <3>2. v \in 1 .. SchemaVersion - 1
      BY <3>1
    <3>3. Known(origin) /\ origin.version \in 1 .. v /\ origin \in Starts
      BY <3>1, <3>2 DEF SchemaInv, DatabaseFits, Known, SchemaVersion
    <3>4. RowsFit(origin.version, origin.data)
      BY <3>3, StartsAssumption
    <3>5. /\ RowsFit(v, db.data)
          /\ FactsKept(origin.version, origin.data, v, db.data)
          /\ WatermarksKept(origin.version, origin.data, v, db.data)
      BY <3>3 DEF SchemaInv, RowsKept
    <3>6. db'.version = v + 1 /\ db'.data = StepOf(v, db.data)
      BY <3>1 DEF Upgraded
    <3>7. /\ RowsFit(v + 1, db'.data)
          /\ FactsKept(origin.version, origin.data, v + 1, db'.data)
          /\ WatermarksKept(origin.version, origin.data, v + 1, db'.data)
      BY <3>2, <3>3, <3>4, <3>5, <3>6, StepKeepsRows
    <3>8. ~ Empty(origin)
      BY <3>3 DEF Empty
    <3> QED BY <1>1, <3>6, <3>7, <3>8 DEF RowsKept, Known, Empty
  <2> QED BY <2>1, <2>2, <2>3
<1> QED BY <1>2, <1>3

LEMMA InvariantHolds == SchemaSpec => []SchemaInv
<1>1. SchemaInit => SchemaInv
  <2> SUFFICES ASSUME SchemaInit PROVE SchemaInv
    OBVIOUS
  <2>1. DatabaseFits
    BY StartsAssumption DEF SchemaInit, DatabaseFits
  <2>2. OpenersFit
    BY DEF SchemaInit, OpenersFit, OpenerFits, Places
  <2>3. RowsKept
    <3>1. origin \in Starts /\ db = origin
      BY DEF SchemaInit
    <3>2. RowsFit(origin.version, origin.data)
      BY <3>1, StartsAssumption
    <3>3. ASSUME Known(origin)
          PROVE  /\ FactsKept(origin.version, origin.data, origin.version, origin.data)
                 /\ WatermarksKept(origin.version, origin.data, origin.version, origin.data)
      <4>1. origin.version \in 1 .. SchemaVersion
        BY <3>3 DEF Known
      <4>2. FactsKept(origin.version, origin.data, origin.version, origin.data)
        BY <4>1 DEF FactsKept, SchemaVersion
      <4>3. WatermarksKept(origin.version, origin.data, origin.version, origin.data)
        BY <3>2, <4>1 DEF WatermarksKept, RowsFit, SchemaVersion
      <4> QED BY <4>2, <4>3
    <3> QED BY <3>1, <3>2, <3>3 DEF RowsKept
  <2> QED BY <2>1, <2>2, <2>3 DEF SchemaInv
<1>2. SchemaInv /\ [SchemaNext]_schemaVars => SchemaInv'
  <2> SUFFICES ASSUME SchemaInv, [SchemaNext]_schemaVars PROVE SchemaInv'
    OBVIOUS
  <2>1. CASE SchemaNext
    <3>1. DatabaseFits' /\ OpenersFit'
      BY <2>1, OpenersStayFit DEF SchemaInv
    <3> QED BY <2>1, <3>1, RowsStayKept DEF SchemaInv
  <2>2. CASE UNCHANGED schemaVars
    BY <2>2 DEF schemaVars, SchemaInv, DatabaseFits, OpenersFit, OpenerFits, Looking, Upgrading, Known,
                RowsKept, Empty
  <2> QED BY <2>1, <2>2
<1> QED BY <1>1, <1>2, PTL DEF SchemaSpec

\* Safety of SchemaSpec: whatever processes upgraded a file in whatever order, and
\* wherever they died, the store that Open returns holds every fact that was found,
\* heads that are not behind a fact, and for every relay a watermark that is not
\* below any head its rows had seen; and what no older version kept (receipts,
\* digests, prune candidates, a watermark's floor) is not made up
\* (migrateSchemaV1ToV2 to migrateSchemaV10ToV11).
THEOREM UpgradesKeepTheRows == SchemaSpec => []MigrationKeeps
<1>1. SchemaInv => MigrationKeeps
  <2> SUFFICES ASSUME SchemaInv, NEW o \in Openers, opener[o].at = "open" PROVE MigrationKeeps
    BY DEF MigrationKeeps
  <2> DEFINE was == origin.data
             is == db.data
             v0 == origin.version
  <2>1. Known(db) /\ db.version = SchemaVersion
    BY DEF SchemaInv, OpenersFit, OpenerFits
  <2>2. origin \in Starts /\ ((Known(origin) /\ v0 \in 1 .. 11) \/ Empty(origin))
    BY <2>1 DEF SchemaInv, DatabaseFits, Known, SchemaVersion
  <2> DEFINE Kept ==
    /\ is.facts = was.facts
    /\ {i.arrival : i \in is.inbox} = {i.arrival : i \in was.inbox}
    /\ v0 = 1 => \A f \in is.facts : \E h \in is.heads : h.env = f.env /\ h.seq >= f.seq
    /\ v0 \in 4 .. 7 => Covers(is.watermarks, Sightings(was) \cup was.watermarks)
    /\ \A w \in is.watermarks :
         /\ \E s \in Sightings(is) \cup was.watermarks : s.relay = w.relay /\ s.head = w.head
         /\ w.known /\ v0 < 8 => v0 > 4 /\ ~ \E s \in was.watermarks : s.relay = w.relay
    /\ v0 < 11 => is.prunes = {}
    /\ v0 < 9 => \A t \in is.tombstones : t.digest = 0
  <2>3. Kept
    <3>1. CASE Known(origin) /\ v0 \in 1 .. 11
      <4>1. FactsKept(v0, was, 11, is) /\ WatermarksKept(v0, was, 11, is)
        BY <2>1, <3>1 DEF SchemaInv, RowsKept, SchemaVersion
      <4> HIDE DEF was, is, v0
      <4>2. /\ is.facts = was.facts
            /\ {i.arrival : i \in is.inbox} = {i.arrival : i \in was.inbox}
            /\ v0 = 1 => \A f \in is.facts : \E h \in is.heads : h.env = f.env /\ h.seq >= f.seq
            /\ v0 < 11 => is.prunes = {}
            /\ v0 < 9 => \A t \in is.tombstones : t.digest = 0
        <5>1. is.facts = was.facts /\ {i.arrival : i \in is.inbox} = {i.arrival : i \in was.inbox}
          BY <4>1, Zenon DEF FactsKept
        <5>2. /\ v0 = 1 => \A f \in is.facts : \E h \in is.heads : h.env = f.env /\ h.seq >= f.seq
              /\ v0 < 11 => is.prunes = {}
              /\ v0 < 9 => \A t \in is.tombstones : t.digest = 0
          <6>1. 11 > 1 /\ 11 >= 11 /\ 11 >= 9
            OBVIOUS
          <6> QED BY <4>1, <6>1, Zenon DEF FactsKept
        <5> QED BY <5>1, <5>2, Zenon
      <4>3. /\ v0 \in 4 .. 7 => Covers(is.watermarks, Sightings(was) \cup was.watermarks)
            /\ \A w \in is.watermarks :
                 \E s \in Sightings(is) \cup was.watermarks : s.relay = w.relay /\ s.head = w.head
            /\ v0 < 8 => \A w \in is.watermarks : w.known =>
                 v0 > 4 /\ ~ \E s \in was.watermarks : s.relay = w.relay
        BY <3>1, <4>1 DEF WatermarksKept
      <4> QED BY <4>2, <4>3, Zenon
    <3>2. CASE Empty(origin)
      <4>1. is = was
        BY <3>2 DEF SchemaInv, RowsKept
      <4>2. \A t \in Tables : was[t] = {}
        BY <2>2, <3>2, StartsAssumption DEF Empty
      <4>3. v0 = 0
        BY <3>2 DEF Empty
      <4>4. /\ was.facts = {} /\ was.inbox = {} /\ was.watermarks = {} /\ was.prunes = {}
            /\ was.tombstones = {}
        BY <4>2 DEF Tables
      <4> HIDE DEF was, is, v0
      <4> QED BY <4>1, <4>3, <4>4
    <3> QED BY <2>2, <3>1, <3>2
  <2> HIDE DEF v0, was, is
  <2> QED BY <2>1, <2>3 DEF MigrationKeeps, Covers, Sightings, v0, was, is
<1> QED BY <1>1, InvariantHolds, PTL

----------------------------------------------------------------------------
(* Exchanging facts: ContinuityRecords.                                    *)
(*                                                                         *)
(* What admission makes sure of is true of the store that writes, and only *)
(* there.  The invariant says it of every fact on the log: what the fact   *)
(* rests on is older and held by its writer.  A store that applies the log *)
(* in order holds that, too, before the fact reaches it.                   *)

(* The order of facts: time, then environment, then fact. *)

Stamped(f) == f.time \in Nat /\ f.env \in Range(Envs) /\ f.id \in Nat

\* Facts that are told apart by their ids.
Told(F) == (\A f \in F : Stamped(f)) /\ \A f, g \in F : f.id = g.id => f = g

LEMMA EnvPlaces ==
  ASSUME NEW e \in Range(Envs)
  PROVE  EnvIndex(e) \in Nat /\ EnvIndex(e) \in DOMAIN Envs /\ Envs[EnvIndex(e)] = e
<1>1. \E i \in DOMAIN Envs : Envs[i] = e
  BY DEF Range
<1>2. EnvIndex(e) \in DOMAIN Envs /\ Envs[EnvIndex(e)] = e
  BY <1>1 DEF EnvIndex
<1>3. DOMAIN Envs \subseteq Nat
  BY EnvsAssumption
<1> QED BY <1>2, <1>3

LEMMA LessIsTransitive ==
  ASSUME NEW f, NEW g, NEW h, Stamped(f), Stamped(g), Stamped(h), Less(f, g), Less(g, h)
  PROVE  Less(f, h)
<1>1. EnvIndex(f.env) \in Nat /\ EnvIndex(g.env) \in Nat /\ EnvIndex(h.env) \in Nat
  BY EnvPlaces DEF Stamped
<1> QED BY <1>1 DEF Less, Stamped

\* The first of some facts, and the last of finitely many.
LEMMA LeastIsFirst ==
  ASSUME NEW S, S # {}, Told(S)
  PROVE  Least(S) \in S /\ \A g \in S \ {Least(S)} : Less(Least(S), g)
<1> DEFINE T == {f.time : f \in S}
<1>1. T \in SUBSET Nat /\ T # {}
  BY DEF Told, Stamped
<1>2. PICK t \in T : \A x \in T : t <= x
  <2> HIDE DEF T
  <2> QED BY <1>1, LeastMember
<1> DEFINE U == {f \in S : f.time = t}
           E == {EnvIndex(f.env) : f \in U}
<1>3. U # {} /\ \A f \in U : f \in S /\ Stamped(f)
  BY DEF Told
<1>4. E \in SUBSET Nat /\ E # {}
  BY <1>3, EnvPlaces DEF Stamped
<1>5. PICK e \in E : \A x \in E : e <= x
  <2> HIDE DEF E
  <2> QED BY <1>4, LeastMember
<1> DEFINE V == {f \in U : EnvIndex(f.env) = e}
           I == {f.id : f \in V}
<1>6. V # {} /\ I # {} /\ I \in SUBSET Nat
  BY <1>3 DEF Stamped
<1>7. PICK i \in I : \A x \in I : i <= x
  <2> HIDE DEF I
  <2> QED BY <1>6, LeastMember
<1>8. PICK f \in V : f.id = i
  OBVIOUS
<1>9. ASSUME NEW g \in S, g # f PROVE Less(f, g)
  <2>1. f \in S /\ f.time = t /\ EnvIndex(f.env) = e /\ f.id \in Nat /\ f.env \in Range(Envs)
    BY <1>3, <1>8 DEF Stamped
  <2>2. g.time \in Nat /\ g.env \in Range(Envs) /\ g.id \in Nat /\ g.time \in T
    BY DEF Told, Stamped
  <2>3. t <= g.time /\ t \in Nat
    BY <1>1, <1>2, <2>2
  <2>4. g.time = t => EnvIndex(g.env) \in E
    OBVIOUS
  <2>5. g.time = t => e <= EnvIndex(g.env) /\ e \in Nat /\ EnvIndex(g.env) \in Nat
    BY <1>4, <1>5, <2>2, <2>4, EnvPlaces
  <2>6. g.time = t /\ EnvIndex(g.env) = e => g.id \in I /\ g.env = f.env
    BY <2>1, <2>2, EnvPlaces
  <2>7. g.id # f.id
    BY <1>9, <2>1 DEF Told
  <2>8. g.time = t /\ EnvIndex(g.env) = e => f.id <= g.id
    BY <1>7, <1>8, <2>6
  <2> HIDE DEF T, U, E, V, I
  <2> QED BY <2>1, <2>2, <2>3, <2>5, <2>6, <2>7, <2>8 DEF Less
<1>10. \E x \in S : \A g \in S \ {x} : Less(x, g)
  BY <1>3, <1>8, <1>9
<1> QED BY <1>10 DEF Least

LEMMA GreatestIsLast ==
  ASSUME NEW S, S # {}, IsFiniteSet(S), Told(S)
  PROVE  Greatest(S) \in S /\ \A g \in S \ {Greatest(S)} : Less(g, Greatest(S))
<1> DEFINE time == [f \in S |-> f.time]
           T == {time[f] : f \in S}
<1>1. T \in SUBSET Nat /\ T # {} /\ IsFiniteSet(T)
  <2>1. T \in SUBSET Nat /\ T # {}
    BY DEF Told, Stamped
  <2>2. DOMAIN time = S /\ time = [f \in S |-> time[f]]
    OBVIOUS
  <2> HIDE DEF time
  <2>3. IsFiniteSet(T)
    BY <2>2, FiniteImage
  <2> QED BY <2>1, <2>3
<1>2. PICK t \in T : \A x \in T : x <= t
  <2> HIDE DEF T
  <2> QED BY <1>1, HighestPosition
<1> DEFINE U == {f \in S : f.time = t}
           E == {EnvIndex(f.env) : f \in U}
<1>3. U # {} /\ \A f \in U : f \in S /\ Stamped(f)
  BY DEF Told
<1>4. E \in SUBSET Nat /\ E # {} /\ \A x \in E : x <= Len(Envs) /\ Len(Envs) \in Nat
  <2>1. Len(Envs) \in Nat /\ DOMAIN Envs = 1 .. Len(Envs)
    BY EnvsAssumption
  <2>2. \A f \in U : EnvIndex(f.env) \in Nat /\ EnvIndex(f.env) \in DOMAIN Envs
    BY <1>3, EnvPlaces DEF Stamped
  <2> QED BY <1>3, <2>1, <2>2
<1>5. PICK e \in E : \A x \in E : x <= e
  <2> HIDE DEF E
  <2>1. Len(Envs) \in Nat
    BY EnvsAssumption
  <2> QED BY <1>4, <2>1, GreatestMember
<1> DEFINE V == {f \in U : EnvIndex(f.env) = e}
           name == [f \in V |-> f.id]
           I == {name[f] : f \in V}
<1>6. V # {} /\ I # {} /\ I \in SUBSET Nat
  BY <1>3 DEF Stamped
<1>7. IsFiniteSet(I)
  <2>1. V \in SUBSET S
    OBVIOUS
  <2>2. IsFiniteSet(V)
    BY <2>1, FS_Subset
  <2> HIDE DEF V
  <2> QED BY <2>2, FiniteImage
<1>8. PICK i \in I : \A x \in I : x <= i
  <2> HIDE DEF I
  <2> QED BY <1>6, <1>7, HighestPosition
<1>9. PICK f \in V : f.id = i
  OBVIOUS
<1>10. ASSUME NEW g \in S, g # f PROVE Less(g, f)
  <2>1. f \in S /\ f.time = t /\ EnvIndex(f.env) = e /\ f.id \in Nat /\ f.env \in Range(Envs)
    BY <1>3, <1>9 DEF Stamped
  <2>2. g.time \in Nat /\ g.env \in Range(Envs) /\ g.id \in Nat /\ g.time \in T
    BY DEF Told, Stamped
  <2>3. g.time <= t /\ t \in Nat
    BY <1>1, <1>2, <2>2
  <2>4. g.time = t => EnvIndex(g.env) \in E
    OBVIOUS
  <2>5. g.time = t => EnvIndex(g.env) <= e /\ e \in Nat /\ EnvIndex(g.env) \in Nat
    BY <1>4, <1>5, <2>2, <2>4, EnvPlaces
  <2>6. g.time = t /\ EnvIndex(g.env) = e => g.id \in I /\ g.env = f.env
    BY <2>1, <2>2, EnvPlaces
  <2>7. g.id # f.id
    BY <1>10, <2>1 DEF Told
  <2>8. g.time = t /\ EnvIndex(g.env) = e => g.id <= f.id
    BY <1>8, <1>9, <2>6
  <2> HIDE DEF T, U, E, V, I
  <2> QED BY <2>1, <2>2, <2>3, <2>5, <2>6, <2>7, <2>8 DEF Less
<1>11. \E x \in S : \A g \in S \ {x} : Less(g, x)
  BY <1>3, <1>9, <1>10
<1> QED BY <1>11 DEF Greatest
----------------------------------------------------------------------------
(* The invariant. *)

\* What the writer of a fact held when he wrote it is among these.
Before(f) == {g \in facts[f.env] : g.id < f.id /\ g.time < f.time}

\* What admission has made sure of, said of the facts that came before.
FoundedOn(B, f) ==
  /\ f.kind # RootKind[f.subject.rec] =>
       /\ Roots(B, f.subject) # {}
       /\ \/ f.kind = "ReferenceAttached" /\ f.pred = 0
          \/ \E g \in B :
               /\ g.id = f.pred /\ g.subject = f.subject
               /\ IF f.kind \in Edges THEN g.kind \in Edges \ {f.kind} /\ g.ref = f.ref
                                      ELSE g.kind \in Catalog[f.kind].active
  /\ f.kind \in Edges => f.kind # RootKind[f.subject.rec]
  /\ f.ref # None => Roots(B, f.ref) # {}
  /\ f.kind = "DecisionSuperseded" => f.ref # f.subject
  /\ \/ f.subject = Project /\ f.kind = RootKind[Project.rec]
     \/ Roots(B, Project) # {}

Founded(f) == FoundedOn(Before(f), f)

\* A store holds the arrivals it has applied and what it has written.
HeldAt(e) == {log[k] : k \in {n \in DOMAIN log : n <= read[e] \/ log[n].env = e}}

LogFits ==
  /\ minted \in Nat /\ log = [k \in 1 .. minted |-> log[k]] /\ Len(log) = minted /\ DOMAIN log = 1 .. minted
  /\ \A k \in DOMAIN log : log[k].id = k /\ Stamped(log[k])
  /\ \A k \in DOMAIN log : log[k].subject.rec = "project" => log[k].subject = Project
  /\ bound \in Bounds

StoresFit ==
  /\ read \in [Range(Envs) -> Nat]
  /\ facts = [e \in Range(Envs) |-> facts[e]]
  /\ \A e \in Range(Envs) : read[e] <= Len(log) /\ facts[e] = HeldAt(e)

Written == {log[k] : k \in DOMAIN log}

RecordInv == LogFits /\ StoresFit /\ \A f \in Written : Founded(f)

\* The facts of the log are told apart, and finitely many.
LEMMA HeldAreTold ==
  ASSUME LogFits, NEW F \in SUBSET Written
  PROVE  Told(F) /\ IsFiniteSet(F)
<1>1. Told(F)
  BY DEF Told, LogFits, Written
<1>2. IsFiniteSet(DOMAIN log)
  BY FS_Interval DEF LogFits
<1>3. IsFiniteSet(Written)
  BY <1>2, FiniteImage DEF LogFits, Written
<1> QED BY <1>1, <1>3, FS_Subset

LEMMA RootIsEarlier ==
  ASSUME NEW F, Told(F), NEW s, NEW f, Stamped(f), NEW g \in Roots(F, s), g.time < f.time
  PROVE  Earlier(F, f, s)
<1>1. Roots(F, s) # {} /\ Told(Roots(F, s)) /\ Stamped(g)
  BY DEF Told, Roots, OfSubject
<1>2. CanonicalRoot(F, s) \in Roots(F, s)
      /\ (g # CanonicalRoot(F, s) => Less(CanonicalRoot(F, s), g))
  BY <1>1, LeastIsFirst DEF CanonicalRoot
<1>3. Less(g, f)
  BY DEF Less
<1>4. Stamped(CanonicalRoot(F, s))
  BY <1>1, <1>2 DEF Told
<1>5. Less(CanonicalRoot(F, s), f)
  BY <1>1, <1>2, <1>3, <1>4, LessIsTransitive
<1> QED BY <1>1, <1>5 DEF Earlier

\* What keeps a snapshot from being corrupt: with every fact it holds what its
\* writer held.
LEMMA ClosedFolds ==
  ASSUME RecordInv, NEW F \in SUBSET Written, F # {},
         \A f \in F : Before(f) \subseteq F
  PROVE  Folds(F)
<1>1. Told(F)
  BY HeldAreTold DEF RecordInv
<1>2. \A f \in F : Founded(f) /\ Stamped(f)
  BY DEF RecordInv, LogFits, Written
<1>3. ASSUME NEW f \in F, NEW s, Roots(Before(f), s) # {} PROVE Earlier(F, f, s)
  <2>1. PICK g \in Roots(Before(f), s) : TRUE
    BY <1>3
  <2>2. g \in Roots(F, s) /\ g.time < f.time
    BY <2>1 DEF Roots, OfSubject, Before
  <2> QED BY <1>1, <1>2, <2>2, RootIsEarlier
<1>4. Roots(F, Project) # {}
  <2>1. PICK f \in F : TRUE
    OBVIOUS
  <2>2. CASE f.subject = Project /\ f.kind = RootKind[Project.rec]
    <3>1. f \in Roots(F, Project)
      BY <2>2 DEF Roots, OfSubject
    <3> QED BY <3>1
  <2>3. CASE Roots(Before(f), Project) # {}
    BY <1>3, <2>3 DEF Earlier
  <2> QED BY <1>2, <2>2, <2>3 DEF Founded, FoundedOn
<1>5. ASSUME NEW s \in Subjects(F) PROVE Roots(F, s) # {}
  <2>1. PICK f \in F : f.subject = s
    BY DEF Subjects
  <2>2. CASE f.kind = RootKind[f.subject.rec]
    <3>1. f \in Roots(F, s)
      BY <2>1, <2>2 DEF Roots, OfSubject
    <3> QED BY <3>1
  <2>3. CASE f.kind # RootKind[f.subject.rec]
    BY <1>2, <1>3, <2>1, <2>3 DEF Founded, FoundedOn, Earlier
  <2> QED BY <2>2, <2>3
<1>6. ASSUME NEW f \in F
      PROVE  /\ f.kind # RootKind[f.subject.rec] => PredecessorHolds(F, f)
             /\ f.ref # None => Earlier(F, f, f.ref)
             /\ f.kind = "DecisionSuperseded" => f.ref # f.subject
             /\ f.kind \in Edges => Less(CanonicalRoot(F, f.subject), f)
  <2>1. \A g \in Before(f) : g \in F /\ Less(g, f)
    BY DEF Before, Less
  <2>2. f.kind # RootKind[f.subject.rec] => PredecessorHolds(F, f)
    BY <1>2, <2>1 DEF Founded, FoundedOn, PredecessorHolds
  <2>3. f.kind \in Edges => Earlier(F, f, f.subject)
    BY <1>2, <1>3 DEF Founded, FoundedOn
  <2> QED BY <1>2, <1>3, <2>2, <2>3 DEF Founded, FoundedOn, Earlier
<1> QED BY <1>4, <1>5, <1>6 DEF Folds

\* What every store holds, and with the next arrival, is such a set.
HeldThrough(e, r) == facts[e] \cup {log[k] : k \in 1 .. r}

LEMMA StoresAreClosed ==
  ASSUME RecordInv, NEW e \in Range(Envs), NEW r, r = read[e] \/ (r = read[e] + 1 /\ r <= Len(log))
  PROVE  HeldThrough(e, r) \in SUBSET Written /\ \A f \in HeldThrough(e, r) : Before(f) \subseteq HeldThrough(e, r)
<1>0. PICK F : F = facts[e] \cup {log[k] : k \in 1 .. r}
  OBVIOUS
<1>1. facts[e] = HeldAt(e) /\ read[e] \in Nat /\ r \in Nat /\ r <= minted /\ minted \in Nat
  BY DEF RecordInv, StoresFit, LogFits
<1>2. DOMAIN log = 1 .. minted /\ \A k \in DOMAIN log : log[k].id = k /\ Stamped(log[k])
  BY DEF RecordInv, LogFits, Written
<1>3. F \in SUBSET Written
  BY <1>0, <1>1, <1>2 DEF HeldAt, Written
<1>4. ASSUME NEW f \in F, NEW g \in Before(f) PROVE g \in F
  <2>1. PICK k \in DOMAIN log : f = log[k] /\ (k <= r \/ log[k].env = e)
    <3>1. CASE f \in facts[e]
      <4>1. PICK k \in {n \in DOMAIN log : n <= read[e] \/ log[n].env = e} : f = log[k]
        BY <1>1, <3>1 DEF HeldAt
      <4> QED BY <1>1, <1>2, <4>1
    <3>2. CASE f \in {log[k] : k \in 1 .. r}
      BY <1>1, <1>2, <3>2
    <3> QED BY <1>0, <3>1, <3>2
  <2>2. CASE log[k].env = e
    BY <1>0, <2>1, <2>2 DEF Before
  <2>3. CASE k <= r
    <3>1. f.env \in Range(Envs) /\ g \in facts[f.env] /\ g.id < f.id
      BY <1>2, <2>1 DEF Before, Stamped
    <3>2. g \in HeldAt(f.env)
      BY <3>1 DEF RecordInv, StoresFit
    <3>3. PICK j \in DOMAIN log : g = log[j]
      BY <3>2 DEF HeldAt
    <3>4. j < k /\ j \in 1 .. r
      BY <1>1, <1>2, <2>1, <2>3, <3>1, <3>3
    <3> QED BY <1>0, <3>3, <3>4
  <2> QED BY <2>1, <2>2, <2>3
<1> QED BY <1>0, <1>3, <1>4 DEF HeldThrough

----------------------------------------------------------------------------
(* The steps. *)

\* What was founded stays so while stores only gain facts.
LEMMA FoundedStays ==
  ASSUME NEW f, f.env \in Range(Envs), \A e \in Range(Envs) : facts[e] \subseteq facts'[e], Founded(f)
  PROVE  Founded(f)'
<1>1. Before(f) \subseteq Before(f)'
  BY DEF Before
<1>2. \A s : Roots(Before(f), s) \subseteq Roots(Before(f)', s)
  BY <1>1 DEF Roots, OfSubject
<1>3. Roots(Before(f)', f.subject) = Roots(Before(f), f.subject)' /\ Roots(Before(f)', f.ref) = Roots(Before(f), f.ref)'
      /\ Roots(Before(f)', Project) = Roots(Before(f), Project)'
  BY DEF Roots, OfSubject
<1> QED BY <1>1, <1>2, <1>3 DEF Founded, FoundedOn

\* A stamp is above all the store holds.
LEMMA StampIsAbove ==
  ASSUME RecordInv, NEW e \in Range(Envs), NEW w \in Nat
  PROVE  Allocate(e, w) \in Nat /\ \A g \in facts[e] : g.time < Allocate(e, w)
<1> DEFINE F == facts[e]
           time == [g \in F |-> g.time]
           held == {time[g] : g \in F}
<1>1. F \in SUBSET Written
  BY DEF RecordInv, StoresFit, HeldAt, Written
<1>2. Told(F) /\ IsFiniteSet(F)
  BY <1>1, HeldAreTold DEF RecordInv
<1>3. held = {g.time : g \in F} /\ held \in SUBSET Nat /\ \A g \in F : g.time \in held
  BY <1>2 DEF Told, Stamped
<1>4. IsFiniteSet(held)
  <2>1. DOMAIN time = F /\ time = [g \in F |-> time[g]]
    OBVIOUS
  <2> HIDE DEF time
  <2> QED BY <1>2, <2>1, FiniteImage
<1> HIDE DEF held
<1>5. held # {} => Max(held) \in held /\ \A x \in held : x <= Max(held)
  BY <1>3, <1>4, HighestPosition
<1>6. Allocate(e, w) = IF held = {} \/ w > Max(held) THEN w ELSE Max(held) + 1
  BY <1>3 DEF Allocate
<1>7. CASE held = {}
  <2>1. Allocate(e, w) = w
    BY <1>6, <1>7
  <2>2. \A g \in F : FALSE
    BY <1>3, <1>7
  <2> QED BY <2>1, <2>2
<1>8. CASE held # {}
  <2>1. Max(held) \in Nat /\ \A x \in held : x \in Nat /\ x <= Max(held)
    BY <1>3, <1>5, <1>8
  <2>2. CASE w > Max(held)
    <3>1. Allocate(e, w) = w
      BY <1>6, <2>2
    <3>2. \A x \in held : x < w
      BY <2>1, <2>2
    <3> QED BY <1>3, <3>1, <3>2
  <2>3. CASE ~ (w > Max(held))
    <3>1. Allocate(e, w) = Max(held) + 1
      BY <1>6, <1>8, <2>3
    <3>2. \A x \in held : x < Max(held) + 1
      BY <2>1
    <3>3. Max(held) + 1 \in Nat
      BY <2>1
    <3>4. \A g \in facts[e] : g.time < Max(held) + 1
      BY <1>3, <3>2
    <3> QED BY <3>1, <3>3, <3>4
  <2> QED BY <2>2, <2>3
<1> QED BY <1>7, <1>8

\* What admission makes sure of.
LEMMA AdmittedIsFounded ==
  ASSUME NEW F, Told(F), IsFiniteSet(F), NEW i, Admits(F, i),
         i.kind # RootKind[i.subject.rec] => i.kind \in DOMAIN Catalog \cup Edges
  PROVE  /\ i.kind # RootKind[i.subject.rec] =>
              /\ Roots(F, i.subject) # {}
              /\ \/ i.kind = "ReferenceAttached" /\ i.pred = 0
                 \/ \E g \in F :
                      /\ g.id = i.pred /\ g.subject = i.subject
                      /\ IF i.kind \in Edges THEN g.kind \in Edges \ {i.kind} /\ g.ref = i.ref
                                             ELSE g.kind \in Catalog[i.kind].active
         /\ i.ref # None => Roots(F, i.ref) # {}
         /\ i.kind = "DecisionSuperseded" => i.ref # i.subject
         /\ i.kind # "ProjectRegistered" => Roots(F, Project) # {}
<1>1. \A s : OfSubject(F, s) # {} /\ HistoryHolds(F, s) => Roots(F, s) # {}
  BY DEF HistoryHolds
<1>2. \A S \in SUBSET F : S # {} => Greatest(S) \in S
  <2> TAKE S \in SUBSET F
  <2> HAVE S # {}
  <2>1. Told(S) /\ IsFiniteSet(S)
    BY FS_Subset DEF Told
  <2> QED BY <2>1, GreatestIsLast
<1>3. i.ref # None => Roots(F, i.ref) # {}
  BY <1>1 DEF Admits, ReferenceExists
<1>4. i.kind = "DecisionSuperseded" => i.ref # i.subject
  BY DEF Admits, SuccessorAdmits
<1>5. i.kind # "ProjectRegistered" => Roots(F, Project) # {}
  BY <1>1 DEF Admits, HasProject
<1>6. ASSUME i.kind \in DOMAIN Catalog
      PROVE  /\ Roots(F, i.subject) # {} /\ i.kind \notin Edges
             /\ \E g \in F : g.id = i.pred /\ g.subject = i.subject /\ g.kind \in Catalog[i.kind].active
  <2>1. ActivePredecessor(F, i)
    BY <1>6 DEF Admits
  <2>2. OfSubject(F, i.subject) \in SUBSET F
    BY DEF OfSubject
  <2>3. LastFact(F, i.subject) \in OfSubject(F, i.subject)
    BY <1>2, <2>1, <2>2 DEF ActivePredecessor, LastFact
  <2>4. LastFact(F, i.subject) \in F /\ LastFact(F, i.subject).subject = i.subject
    BY <2>3 DEF OfSubject
  <2>5. i.kind \notin Edges
    BY <1>6 DEF Catalog, Edges
  <2>6. Roots(F, i.subject) # {}
    BY <1>1, <2>1 DEF ActivePredecessor
  <2> QED BY <2>1, <2>4, <2>5, <2>6 DEF ActivePredecessor
<1>7. ASSUME i.kind \in Edges
      PROVE  /\ Roots(F, i.subject) # {}
             /\ \/ i.kind = "ReferenceAttached" /\ i.pred = 0
                \/ \E g \in F : g.id = i.pred /\ g.subject = i.subject
                               /\ g.kind \in Edges \ {i.kind} /\ g.ref = i.ref
  <2> DEFINE edge == EdgeFacts(F, i.subject, i.ref)
  <2>1. EdgeAdmits(F, i)
    BY <1>7 DEF Admits
  <2>2. edge \in SUBSET F /\ \A g \in edge : g.subject = i.subject /\ g.kind \in Edges /\ g.ref = i.ref
    BY DEF EdgeFacts, OfSubject
  <2>3. Roots(F, i.subject) # {}
    BY <1>1, <2>1 DEF EdgeAdmits
  <2> HIDE DEF edge
  <2>4. (edge # {} /\ Greatest(edge).kind = "ReferenceAttached") = (i.kind = "ReferenceDetached")
    BY <2>1 DEF EdgeAdmits, edge
  <2>5. i.pred = IF edge = {} THEN 0 ELSE Greatest(edge).id
    BY <2>1 DEF EdgeAdmits, edge
  <2>6. CASE edge = {}
    BY <1>7, <2>3, <2>4, <2>5, <2>6 DEF Edges
  <2>7. CASE edge # {}
    <3>1. Greatest(edge) \in edge
      BY <1>2, <2>2, <2>7
    <3>2. Greatest(edge).kind # i.kind
      BY <1>7, <2>2, <2>4, <2>7, <3>1 DEF Edges
    <3> QED BY <2>2, <2>3, <2>5, <2>7, <3>1, <3>2
  <2> QED BY <2>6, <2>7
<1> QED BY <1>3, <1>4, <1>5, <1>6, <1>7

LEMMA AppendKeeps ==
  ASSUME RecordInv, NEW e \in Range(Envs), NEW w \in Nat, NEW i, AppendFact(e, i, w),
         i.kind # RootKind[i.subject.rec] => i.kind \in DOMAIN Catalog \cup Edges,
         i.kind \in Edges => i.kind # RootKind[i.subject.rec],
         i.subject.rec = "project" => i.subject = Project,
         i.kind = "ProjectRegistered" => i.subject = Project
  PROVE  RecordInv'
<1>0. PICK f : f = [id |-> minted + 1, env |-> e, time |-> Allocate(e, w), subject |-> i.subject,
                    kind |-> i.kind, pred |-> i.pred, ref |-> i.ref, scope |-> i.scope,
                    branch |-> i.branch]
  OBVIOUS
<1>1. /\ minted' = minted + 1 /\ bound' = bound /\ read' = read
      /\ facts' = [facts EXCEPT ![e] = @ \cup {f}]
      /\ log' = log \o <<f>>
      /\ Admits(facts[e], i)
  BY <1>0 DEF AppendFact
<1>2. /\ minted \in Nat /\ DOMAIN log = 1 .. minted /\ Len(log) = minted
      /\ log \in Seq({log[k] : k \in DOMAIN log})
  BY DEF RecordInv, LogFits, Written
<1>3. /\ f.id = minted + 1 /\ f.env = e /\ f.time = Allocate(e, w) /\ f.subject = i.subject
      /\ f.kind = i.kind /\ f.pred = i.pred /\ f.ref = i.ref
  BY <1>0
<1>4. log' = Append(log, f)
  <2> DEFINE S == {log[k] : k \in DOMAIN log} \cup {f}
  <2>1. log \in Seq(S)
    BY <1>2
  <2> QED BY <1>1, <2>1
<1>5. /\ Len(log') = minted + 1 /\ DOMAIN log' = 1 .. minted + 1
      /\ \A k \in DOMAIN log : log'[k] = log[k]
      /\ log'[minted + 1] = f
      /\ log' \in Seq({log'[k] : k \in DOMAIN log'})
  BY <1>2, <1>4, ListGrows
<1>6. Allocate(e, w) \in Nat /\ \A g \in facts[e] : g.time < Allocate(e, w)
  BY StampIsAbove
<1>7. LogFits'
  <2>1. ASSUME NEW k \in DOMAIN log' PROVE (k \in DOMAIN log /\ log'[k] = log[k]) \/ (k = minted + 1 /\ log'[k] = f)
    BY <1>2, <1>5
  <2>2. Stamped(f)
    BY <1>2, <1>3, <1>6 DEF Stamped
  <2>3. \A k \in DOMAIN log' : log'[k].subject.rec = "project" => log'[k].subject = Project
    BY <1>3, <2>1 DEF RecordInv, LogFits
  <2>4. log' = [k \in 1 .. minted' |-> log'[k]]
    BY <1>1, <1>2, <1>5
  <2>5. \A k \in DOMAIN log' : log'[k].id = k /\ Stamped(log'[k])
    BY <1>3, <2>1, <2>2 DEF RecordInv, LogFits
  <2>6. minted' \in Nat /\ bound' \in Bounds /\ Len(log') = minted' /\ DOMAIN log' = 1 .. minted'
    BY <1>1, <1>2, <1>5 DEF RecordInv, LogFits
  <2> QED BY <2>3, <2>4, <2>5, <2>6 DEF LogFits, Stamped
<1>8. \A d \in Range(Envs) : facts'[d] = IF d = e THEN facts[e] \cup {f} ELSE facts[d]
  BY <1>1 DEF RecordInv, StoresFit
<1>9. StoresFit'
  <2>1. read' \in [Range(Envs) -> Nat] /\ facts' = [d \in Range(Envs) |-> facts'[d]]
    BY <1>1 DEF RecordInv, StoresFit
  <2>2. ASSUME NEW d \in Range(Envs) PROVE read'[d] <= Len(log') /\ facts'[d] = HeldAt(d)'
    <3>1. read[d] \in Nat /\ read[d] <= minted /\ facts[d] = HeldAt(d)
      BY <1>2 DEF RecordInv, StoresFit
    <3>2. ~ (minted + 1 <= read[d])
      BY <1>2, <3>1
    <3>3. HeldAt(d)' = HeldAt(d) \cup (IF d = e THEN {f} ELSE {})
      <4> DEFINE P == {n \in DOMAIN log : n <= read[d] \/ log[n].env = d}
                 Q == {n \in DOMAIN log' : n <= read[d] \/ log'[n].env = d}
      <4>1. Q = P \cup (IF d = e THEN {minted + 1} ELSE {})
        BY <1>2, <1>3, <1>5, <3>2
      <4>2. \A n \in P : log'[n] = log[n]
        BY <1>5
      <4>3. HeldAt(d) = {log[n] : n \in P} /\ HeldAt(d)' = {log'[n] : n \in Q}
        BY <1>1 DEF HeldAt
      <4> HIDE DEF P, Q
      <4> QED BY <1>5, <4>1, <4>2, <4>3
    <3>4. read'[d] = read[d] /\ read[d] <= minted + 1
      BY <1>1, <1>2, <3>1
    <3>5. facts'[d] = HeldAt(d)'
      BY <1>8, <3>1, <3>3
    <3> QED BY <1>5, <3>4, <3>5
  <2> QED BY <2>1, <2>2 DEF StoresFit
<1>10. Founded(f)'
  <2> DEFINE F == facts[e]
             B == Before(f)'
  <2>1. F \in SUBSET Written
    BY DEF RecordInv, StoresFit, HeldAt, Written
  <2>2. Told(F) /\ IsFiniteSet(F)
    BY <2>1, HeldAreTold DEF RecordInv
  <2>3. \A g \in F : g \in B
    <3> TAKE g \in F
    <3>1. PICK k \in DOMAIN log : g = log[k]
      BY <2>1 DEF Written
    <3>2. g.id = k /\ k <= minted
      BY <1>2, <3>1 DEF RecordInv, LogFits
    <3>3. g.id < f.id /\ g.time < f.time
      BY <1>2, <1>3, <1>6, <3>2
    <3>4. g \in facts'[f.env]
      BY <1>3, <1>8
    <3> QED BY <3>3, <3>4 DEF Before
  <2>4. \A s : Roots(F, s) \subseteq Roots(B, s)
    BY <2>3 DEF Roots, OfSubject
  <2> HIDE DEF F, B
  <2>5. Admits(F, i)
    BY <1>1 DEF F
  <2>6. /\ f.kind # RootKind[f.subject.rec] =>
             /\ Roots(B, f.subject) # {}
             /\ \/ f.kind = "ReferenceAttached" /\ f.pred = 0
                \/ \E g \in B :
                     /\ g.id = f.pred /\ g.subject = f.subject
                     /\ IF f.kind \in Edges THEN g.kind \in Edges \ {f.kind} /\ g.ref = f.ref
                                            ELSE g.kind \in Catalog[f.kind].active
        /\ f.ref # None => Roots(B, f.ref) # {}
        /\ f.kind = "DecisionSuperseded" => f.ref # f.subject
        /\ f.kind # "ProjectRegistered" => Roots(B, Project) # {}
    BY <1>3, <2>2, <2>3, <2>4, <2>5, AdmittedIsFounded
  <2>7. f.kind \in Edges => f.kind # RootKind[f.subject.rec]
    BY <1>3
  <2>8. f.kind = "ProjectRegistered" => f.subject = Project /\ f.kind = RootKind[Project.rec]
    BY <1>3 DEF Project, RootKind
  <2>9. FoundedOn(B, f)
    <3>1. f.kind = "ProjectRegistered" \/ Roots(B, Project) # {}
      BY <2>6
    <3>2. (f.subject = Project /\ f.kind = RootKind[Project.rec]) \/ Roots(B, Project) # {}
      BY <2>8, <3>1
    <3> QED BY <2>6, <2>7, <3>2, Zenon DEF FoundedOn
  <2> QED BY <2>9 DEF Founded, B
<1>11. ASSUME NEW g \in Written' PROVE Founded(g)'
  <2>0. PICK k \in DOMAIN log' : g = log'[k]
    BY DEF Written
  <2>1. CASE k = minted + 1
    BY <1>5, <1>10, <2>0, <2>1
  <2>2. CASE k # minted + 1
    <3>1. k \in DOMAIN log /\ g = log[k]
      BY <1>2, <1>5, <2>0, <2>2
    <3>2. Founded(g) /\ g.env \in Range(Envs)
      BY <3>1 DEF RecordInv, LogFits, Stamped, Written
    <3>3. \A d \in Range(Envs) : facts[d] \subseteq facts'[d]
      BY <1>8
    <3> QED BY <3>2, <3>3, FoundedStays
  <2> QED BY <2>1, <2>2
<1> QED BY <1>7, <1>9, <1>11 DEF RecordInv

\* An arrival is applied.
LEMMA ReceiveKeeps ==
  ASSUME RecordInv, NEW e \in Range(Envs), Receive(e)
  PROVE  RecordInv'
<1>1. /\ read[e] < Len(log) /\ log' = log /\ minted' = minted /\ bound' = bound
      /\ facts' = [facts EXCEPT ![e] = @ \cup {log[read[e] + 1]}]
      /\ read' = [read EXCEPT ![e] = @ + 1]
  BY DEF Receive
<1>2. /\ DOMAIN log = 1 .. minted /\ Len(log) = minted /\ minted \in Nat
      /\ read \in [Range(Envs) -> Nat]
      /\ \A d \in Range(Envs) : read[d] <= Len(log) /\ facts[d] = HeldAt(d)
  BY DEF RecordInv, LogFits, StoresFit
<1>3. LogFits' /\ Written' = Written
  <2>1. LogFits' = LogFits
    BY <1>1 DEF LogFits, Stamped
  <2> QED BY <1>1, <2>1 DEF RecordInv, Written
<1>4. \A d \in Range(Envs) :
        /\ facts'[d] = IF d = e THEN facts[e] \cup {log[read[e] + 1]} ELSE facts[d]
        /\ read'[d] = IF d = e THEN read[e] + 1 ELSE read[d]
  BY <1>1, <1>2 DEF RecordInv, StoresFit
<1>5. ASSUME NEW d \in Range(Envs) PROVE read'[d] <= Len(log') /\ facts'[d] = HeldAt(d)'
  <2>1. read[d] \in Nat /\ read[d] <= minted /\ (d = e => read[d] + 1 <= minted)
    BY <1>1, <1>2
  <2> DEFINE P == {n \in DOMAIN log : n <= read[d] \/ log[n].env = d}
             Q == {n \in DOMAIN log : n <= read'[d] \/ log[n].env = d}
  <2>2. HeldAt(d) = {log[n] : n \in P} /\ HeldAt(d)' = {log[n] : n \in Q}
    BY <1>1 DEF HeldAt
  <2>3. CASE d = e
    <3>1. Q = P \cup {read[e] + 1}
      BY <1>2, <1>4, <2>1, <2>3
    <3> HIDE DEF P, Q
    <3>2. HeldAt(d)' = HeldAt(d) \cup {log[read[e] + 1]}
      BY <2>2, <3>1
    <3> QED BY <1>1, <1>2, <1>4, <2>1, <2>3, <3>2
  <2>4. CASE d # e
    <3>1. Q = P
      BY <1>4, <2>4
    <3> HIDE DEF P, Q
    <3> QED BY <1>1, <1>2, <1>4, <2>2, <2>4, <3>1
  <2> QED BY <2>3, <2>4
<1>6. StoresFit'
  <2>1. read' \in [Range(Envs) -> Nat] /\ facts' = [d \in Range(Envs) |-> facts'[d]]
    <3>1. facts = [d \in Range(Envs) |-> facts[d]]
      BY DEF RecordInv, StoresFit
    <3>2. facts' = [d \in Range(Envs) |-> facts'[d]]
      BY <1>1, <3>1
    <3>3. read[e] + 1 \in Nat
      BY <1>2
    <3>4. read' \in [Range(Envs) -> Nat]
      BY <1>1, <1>2, <3>3
    <3> QED BY <3>2, <3>4
  <2> QED BY <1>5, <2>1 DEF StoresFit
<1>7. ASSUME NEW g \in Written' PROVE Founded(g)'
  <2>1. Founded(g) /\ g.env \in Range(Envs)
    BY <1>3 DEF RecordInv, LogFits, Stamped, Written
  <2>2. \A d \in Range(Envs) : facts[d] \subseteq facts'[d]
    BY <1>4
  <2> QED BY <2>1, <2>2, FoundedStays
<1> QED BY <1>3, <1>6, <1>7 DEF RecordInv

\* The subjects a store knows are subjects of written facts.
LEMMA KnownSubjects ==
  ASSUME RecordInv, NEW e \in Range(Envs), NEW s \in Subjects(facts[e]), s.rec = "project"
  PROVE  s = Project
<1>1. PICK f \in facts[e] : f.subject = s
  BY DEF Subjects
<1>2. f \in HeldAt(e)
  BY DEF RecordInv, StoresFit
<1>3. PICK k \in DOMAIN log : f = log[k]
  BY <1>2 DEF HeldAt
<1> QED BY <1>1, <1>3 DEF RecordInv, LogFits

LEMMA MintableFits ==
  ASSUME RecordInv, NEW rec, NEW s \in Mintable(rec)
  PROVE  s.rec = rec /\ (rec = "project" => s = Project)
<1>1. CASE s = [rec |-> rec, id |-> IF rec = "project" THEN 1 ELSE minted + 1]
  BY <1>1 DEF Project
<1>2. CASE \E e \in Range(Envs) : s \in Subjects(facts[e]) /\ s.rec = rec
  BY <1>2, KnownSubjects
<1> QED BY <1>1, <1>2 DEF Mintable

\* The catalog: roots are no edges, and only the project has its root.
LEMMA RootsOfTheCatalog ==
  /\ \A rec \in DOMAIN RootKind :
       RootKind[rec] \notin Edges /\ (RootKind[rec] = "ProjectRegistered" => rec = "project")
  /\ DOMAIN Catalog \cap Edges = {} /\ "ProjectRegistered" \notin DOMAIN Catalog \cup Edges
<1>1. \A rec \in DOMAIN RootKind :
        RootKind[rec] \notin Edges /\ (RootKind[rec] = "ProjectRegistered" => rec = "project")
  BY DEF RootKind, Edges
<1>2. DOMAIN Catalog \cap Edges = {} /\ "ProjectRegistered" \notin DOMAIN Catalog \cup Edges
  BY DEF Catalog, Edges
<1> QED BY <1>1, <1>2

LEMMA RecordsStart == Init => RecordInv
<1> SUFFICES ASSUME Init PROVE RecordInv
  OBVIOUS
<1>0. PICK first : first = [id |-> 1, env |-> Envs[1], time |-> 1, subject |-> Project,
                   kind |-> "ProjectRegistered", pred |-> 0, ref |-> None, scope |-> 0, branch |-> 0]
  OBVIOUS
<1>1. Envs[1] \in Range(Envs)
  <2>1. 1 \in DOMAIN Envs
    BY EnvsAssumption
  <2> QED BY <2>1 DEF Range
<1>2. /\ first.id = 1 /\ Stamped(first) /\ first.subject = Project /\ first.ref = None
      /\ first.kind = "ProjectRegistered"
  BY <1>0, <1>1 DEF Stamped
<1>3. PICK start : /\ start = IF bound.registered THEN <<first>> ELSE << >>
                   /\ facts = [e \in Range(Envs) |-> Range(start)] /\ log = start
                   /\ read = [e \in Range(Envs) |-> Len(start)] /\ minted = Len(start)
  BY <1>0 DEF Init
<1>4. CASE ~ bound.registered
  <2>1. log = << >> /\ minted = 0 /\ DOMAIN log = {} /\ Len(log) = 0 /\ Range(start) = {}
    BY <1>3, <1>4 DEF Range
  <2>2. LogFits
    BY <2>1 DEF LogFits, Init
  <2>3. \A e \in Range(Envs) : HeldAt(e) = {} /\ facts[e] = {} /\ read[e] = 0
    BY <1>3, <2>1 DEF HeldAt
  <2>4. StoresFit
    <3>1. facts = [e \in Range(Envs) |-> facts[e]]
      BY <1>3
    <3>2. read = [e \in Range(Envs) |-> Len(log)] /\ Len(log) \in Nat
      BY <1>3, <2>1
    <3>3. read \in [Range(Envs) -> Nat]
      BY <3>2
    <3>4. ASSUME NEW e \in Range(Envs) PROVE read[e] <= Len(log) /\ facts[e] = HeldAt(e)
      <4>1. facts[e] = HeldAt(e) /\ read[e] = 0
        BY <2>3, Zenon
      <4>2. Len(log) = 0
        BY <2>1, Zenon
      <4> QED BY <4>1, <4>2
    <3> QED BY <3>1, <3>3, <3>4 DEF StoresFit
  <2> QED BY <2>1, <2>2, <2>4 DEF RecordInv, Written
<1>5. CASE bound.registered
  <2>1. /\ log = <<first>> /\ minted = 1 /\ DOMAIN log = 1 .. 1 /\ Len(log) = 1 /\ log[1] = first
        /\ Range(start) = {first}
    BY <1>3, <1>5 DEF Range
  <2>2. LogFits
    BY <1>2, <2>1 DEF LogFits, Init
  <2>3. \A e \in Range(Envs) : HeldAt(e) = {first} /\ facts[e] = {first} /\ read[e] = 1
    BY <1>3, <2>1 DEF HeldAt
  <2>4. StoresFit
    <3>1. facts = [e \in Range(Envs) |-> facts[e]]
      BY <1>3
    <3>2. read = [e \in Range(Envs) |-> Len(log)] /\ Len(log) \in Nat
      BY <1>3, <2>1
    <3> QED BY <2>1, <2>3, <3>1, <3>2 DEF StoresFit
  <2>5. Written = {first}
    BY <2>1 DEF Written
  <2>6. Founded(first)
    <3>1. RootKind[Project.rec] = "ProjectRegistered" /\ first.kind \notin Edges
      BY <1>2 DEF RootKind, Project, Edges
    <3> QED BY <1>2, <3>1 DEF Founded, FoundedOn
  <2> QED BY <2>2, <2>4, <2>5, <2>6 DEF RecordInv
<1> QED BY <1>4, <1>5

LEMMA RecordStep == RecordInv /\ [Next]_vars => RecordInv'
<1> SUFFICES ASSUME RecordInv, [Next]_vars PROVE RecordInv'
  OBVIOUS
<1> USE RootsOfTheCatalog
<1>0. bound.records \subseteq DOMAIN RootKind /\ bound.walls \subseteq Nat
  BY BoundsAssumption DEF RecordInv, LogFits
<1>1. ASSUME NEW e \in Range(Envs), NEW w \in bound.walls, Mint(e, w) PROVE RecordInv'
  <2>1. PICK rec \in bound.records, sc \in bound.scopes, b \in bound.branches :
          \E s \in Mintable(rec) : AppendFact(e, Intent(s, RootKind[rec], 0, None, sc, b), w)
    BY <1>1 DEF Mint
  <2>3. PICK s \in Mintable(rec) : AppendFact(e, Intent(s, RootKind[rec], 0, None, sc, b), w)
    BY <2>1
  <2> DEFINE i == Intent(s, RootKind[rec], 0, None, sc, b)
  <2>2. i.subject = s /\ i.kind = RootKind[rec] /\ s.rec = rec /\ (rec = "project" => s = Project)
    BY MintableFits DEF Intent
  <2> HIDE DEF i
  <2> QED BY <1>0, <2>2, <2>3, AppendKeeps DEF i
<1>2. ASSUME NEW e \in Range(Envs), NEW w \in bound.walls, MintAbout(e, w) PROVE RecordInv'
  <2>1. PICK rec \in bound.records, r \in Subjects(facts[e]) \cup {None} :
          \E s \in Mintable(rec) : AppendFact(e, Intent(s, RootKind[rec], 0, r, 0, 0), w)
    BY <1>2 DEF MintAbout
  <2>3. PICK s \in Mintable(rec) : AppendFact(e, Intent(s, RootKind[rec], 0, r, 0, 0), w)
    BY <2>1
  <2> DEFINE i == Intent(s, RootKind[rec], 0, r, 0, 0)
  <2>2. i.subject = s /\ i.kind = RootKind[rec] /\ s.rec = rec /\ (rec = "project" => s = Project)
    BY MintableFits DEF Intent
  <2> HIDE DEF i
  <2> QED BY <1>0, <2>2, <2>3, AppendKeeps DEF i
<1>3. ASSUME NEW e \in Range(Envs), NEW w \in bound.walls, Succeed(e, w) PROVE RecordInv'
  <2>1. PICK k \in DOMAIN Catalog, s \in Subjects(facts[e]), r \in Subjects(facts[e]) \cup {None},
             p \in Ids(facts[e]), sc \in bound.scopes, b \in bound.branches :
          AppendFact(e, Intent(s, k, p, r, sc, b), w)
    BY <1>3 DEF Succeed
  <2> DEFINE i == Intent(s, k, p, r, sc, b)
  <2>2. i.subject = s /\ i.kind = k /\ (s.rec = "project" => s = Project)
    BY KnownSubjects DEF Intent
  <2> HIDE DEF i
  <2> QED BY <1>0, <2>1, <2>2, AppendKeeps DEF i
<1>4. ASSUME NEW e \in Range(Envs), NEW w \in bound.walls, Edge(e, w) PROVE RecordInv'
  <2>1. PICK k \in Edges, s \in Subjects(facts[e]), r \in Subjects(facts[e]), p \in Ids(facts[e]) \cup {0} :
          s.rec = "reference" /\ AppendFact(e, Intent(s, k, p, r, 0, 0), w)
    BY <1>4 DEF Edge
  <2> DEFINE i == Intent(s, k, p, r, 0, 0)
  <2>2. i.subject = s /\ i.kind = k
    BY DEF Intent
  <2>3. RootKind["reference"] \notin Edges
    BY DEF RootKind, Edges
  <2> HIDE DEF i
  <2> QED BY <1>0, <2>1, <2>2, <2>3, AppendKeeps DEF i
<1>5. ASSUME NEW e \in Range(Envs), Receive(e) PROVE RecordInv'
  BY <1>5, ReceiveKeeps
<1>6. CASE UNCHANGED vars
  <2>1. \A e : HeldAt(e)' = HeldAt(e)
    BY <1>6 DEF vars, HeldAt
  <2>2. LogFits' /\ StoresFit' /\ Written' = Written
    BY <1>6, <2>1 DEF vars, LogFits, StoresFit, Written, RecordInv, Stamped
  <2>3. \A f : Founded(f)' = Founded(f)
    BY <1>6 DEF vars, Founded, Before
  <2> QED BY <2>2, <2>3 DEF RecordInv
<1> QED BY <1>1, <1>2, <1>3, <1>4, <1>5, <1>6 DEF Next

\* For any number of stores that write, send and receive in any order: no store gets
\* to a history its snapshot refuses, and no arrival is refused by the store it
\* reaches, even when two stores have minted the same subject.
THEOREM NoArrivalIsStuck == Spec => []SnapshotFolds
<1>1. RecordInv => SnapshotFolds
  <2> SUFFICES ASSUME RecordInv, NEW e \in Range(Envs)
               PROVE  /\ facts[e] # {} => Folds(facts[e])
                      /\ read[e] < Len(log) => Folds(facts[e] \cup {log[read[e] + 1]})
    BY DEF SnapshotFolds
  <2>1. /\ read[e] \in Nat /\ facts[e] = HeldAt(e)
        /\ Len(log) = minted /\ minted \in Nat /\ DOMAIN log = 1 .. minted /\ read[e] <= minted
    BY DEF RecordInv, StoresFit, LogFits
  <2>2. \A k \in 1 .. read[e] : log[k] \in facts[e]
    BY <2>1 DEF HeldAt
  <2>3. facts[e] # {} => Folds(facts[e])
    <3> DEFINE F == HeldThrough(e, read[e])
    <3>1. F = facts[e]
      BY <2>2 DEF HeldThrough
    <3>2. F \in SUBSET Written /\ \A f \in F : Before(f) \subseteq F
      BY StoresAreClosed
    <3> QED BY <3>1, <3>2, ClosedFolds
  <2>4. read[e] < Len(log) => Folds(facts[e] \cup {log[read[e] + 1]})
    <3> SUFFICES ASSUME read[e] < Len(log) PROVE Folds(facts[e] \cup {log[read[e] + 1]})
      OBVIOUS
    <3> DEFINE r == read[e] + 1
               F == HeldThrough(e, r)
    <3>1. F = facts[e] \cup {log[read[e] + 1]}
      <4>1. 1 .. r = (1 .. read[e]) \cup {read[e] + 1}
        BY <2>1
      <4> QED BY <2>2, <4>1 DEF HeldThrough
    <3>2. r <= Len(log)
      BY <2>1
    <3>3. F \in SUBSET Written /\ \A f \in F : Before(f) \subseteq F
      <4> HIDE DEF r
      <4> QED BY <3>2, StoresAreClosed DEF r
    <3> HIDE DEF F
    <3> QED BY <3>1, <3>3, ClosedFolds
  <2> QED BY <2>3, <2>4
<1> QED BY <1>1, RecordsStart, RecordStep, PTL DEF Spec

----------------------------------------------------------------------------
(* What the folds make of a history. *)

\* The facts whose line of predecessors starts at the root are those the rule of
\* the folds admits, applied once more.
LEMMA EligibleFits ==
  ASSUME NEW F, Told(F), Folds(F)
  PROVE  /\ Eligible(F) \subseteq F
         /\ \A f \in F : (f \in Eligible(F)) =
              IF f.kind = RootKind[f.subject.rec] THEN f = CanonicalRoot(F, f.subject)
              ELSE f.pred = 0 \/ ById(F, f.pred) \in Eligible(F)
<1> DEFINE Root(f) == f.kind = RootKind[f.subject.rec]
           First(f) == f = CanonicalRoot(F, f.subject)
           Pred(f) == ById(F, f.pred)
           Made(h) == [f \in F |-> IF Root(f) THEN First(f) ELSE f.pred = 0 \/ h[Pred(f)]]
           el == CHOOSE h : h = Made(h)
           Closed(T) == \A f \in F : (IF Root(f) THEN First(f) ELSE f.pred = 0 \/ Pred(f) \in T) => f \in T
           L == {f \in F : \A T \in SUBSET F : Closed(T) => f \in T}
           g == [f \in F |-> f \in L]
<1>1. Eligible(F) = {f \in F : el[f]}
  BY DEF Eligible
<1>2. \A f \in F : ~ Root(f) /\ f.pred # 0 => Pred(f) \in F
  <2> SUFFICES ASSUME NEW f \in F, ~ Root(f), f.pred # 0 PROVE Pred(f) \in F
    OBVIOUS
  <2>1. PredecessorHolds(F, f)
    BY DEF Folds, Looked
  <2>2. \E x \in F : x.id = f.pred
    BY <2>1 DEF PredecessorHolds
  <2> QED BY <2>2 DEF ById
<1> HIDE DEF Root, First, Pred
<1>3. Closed(L)
  OBVIOUS
<1>4. ASSUME NEW f \in L PROVE IF Root(f) THEN First(f) ELSE f.pred = 0 \/ Pred(f) \in L
  <2> SUFFICES ASSUME ~ (IF Root(f) THEN First(f) ELSE f.pred = 0 \/ Pred(f) \in L) PROVE FALSE
    OBVIOUS
  <2> DEFINE T == L \ {f}
  <2>1. Closed(T)
    <3> SUFFICES ASSUME NEW x \in F, IF Root(x) THEN First(x) ELSE x.pred = 0 \/ Pred(x) \in T
                 PROVE  x \in T
      OBVIOUS
    <3>1. IF Root(x) THEN First(x) ELSE x.pred = 0 \/ Pred(x) \in L
      OBVIOUS
    <3>2. x \in L /\ x # f
      BY <1>3, <3>1
    <3> QED BY <3>2
  <2>2. T \in SUBSET F
    OBVIOUS
  <2> QED BY <2>1, <2>2
<1>5. \A f \in F : (f \in L) = (IF Root(f) THEN First(f) ELSE f.pred = 0 \/ Pred(f) \in L)
  <2> SUFFICES ASSUME NEW f \in F
               PROVE  (f \in L) = (IF Root(f) THEN First(f) ELSE f.pred = 0 \/ Pred(f) \in L)
    OBVIOUS
  <2>1. First(f) \in BOOLEAN
    BY DEF First
  <2> HIDE DEF L
  <2> QED BY <1>3, <1>4, <2>1
<1> HIDE DEF L, Closed
<1>6. g = Made(g)
  <2>1. \A f \in F : g[f] = (f \in L)
    OBVIOUS
  <2>2. \A f \in F : ~ Root(f) /\ f.pred # 0 => g[Pred(f)] = (Pred(f) \in L)
    BY <1>2
  <2>3. \A f \in F : (f \in L) = (IF Root(f) THEN First(f) ELSE f.pred = 0 \/ g[Pred(f)])
    BY <1>5, <2>2
  <2> HIDE DEF g
  <2>4. g = [f \in F |-> f \in L]
    BY DEF g
  <2> QED BY <2>3, <2>4
<1> HIDE DEF g
<1>7. el = Made(el)
  BY <1>6
<1> HIDE DEF el
<1>8. \A f \in F : el[f] = (IF Root(f) THEN First(f) ELSE f.pred = 0 \/ el[Pred(f)])
  BY <1>7
<1>9. \A f \in F : ~ Root(f) /\ f.pred # 0 => el[Pred(f)] = (Pred(f) \in Eligible(F))
  <2>1. \A f \in F : el[f] \in BOOLEAN
    BY <1>7 DEF First
  <2> QED BY <1>1, <1>2, <2>1
<1>10. \A f \in F : (f \in Eligible(F)) = el[f]
  <2>1. \A f \in F : el[f] \in BOOLEAN
    BY <1>7 DEF First
  <2> QED BY <1>1, <2>1
<1>11. \A f \in F : (f \in Eligible(F)) = IF Root(f) THEN First(f) ELSE f.pred = 0 \/ Pred(f) \in Eligible(F)
  BY <1>8, <1>9, <1>10
<1> QED BY <1>1, <1>11 DEF Root, First, Pred

\* With one mint, all that is written about a record counts.
LEMMA AllCount ==
  ASSUME NEW F, Told(F), Folds(F), NEW s, Cardinality(Roots(F, s)) = 1, IsFiniteSet(F)
  PROVE  OfSubject(F, s) \subseteq Eligible(F)
<1> DEFINE bad == {f \in OfSubject(F, s) : f \notin Eligible(F)}
<1> SUFFICES ASSUME bad # {} PROVE FALSE
  OBVIOUS
<1>1. bad \subseteq F /\ Told(bad) /\ Roots(F, s) \subseteq F /\ IsFiniteSet(Roots(F, s))
  <2>1. bad \subseteq F /\ Roots(F, s) \subseteq F
    BY DEF Roots, OfSubject
  <2> QED BY <2>1, FS_Subset DEF Told
<1>2. PICK f : f \in bad /\ \A g \in bad \ {f} : Less(f, g)
  <2> HIDE DEF bad
  <2> QED BY <1>1, LeastIsFirst
<1>3. f \in F /\ f.subject = s /\ f \notin Eligible(F) /\ Stamped(f)
  BY <1>1, <1>2 DEF OfSubject, Told
<1>4. (f \in Eligible(F)) = IF f.kind = RootKind[f.subject.rec] THEN f = CanonicalRoot(F, f.subject)
                            ELSE f.pred = 0 \/ ById(F, f.pred) \in Eligible(F)
  BY <1>3, EligibleFits
<1>5. CASE f.kind = RootKind[f.subject.rec]
  <2>1. f \in Roots(F, s)
    BY <1>3, <1>5 DEF Roots, OfSubject
  <2>2. Told(Roots(F, s))
    BY <1>1 DEF Told
  <2>3. CanonicalRoot(F, s) \in Roots(F, s)
    BY <2>1, <2>2, LeastIsFirst DEF CanonicalRoot
  <2>4. PICK x : Roots(F, s) = {x}
    BY <1>1, FS_Singleton
  <2> QED BY <1>3, <1>4, <1>5, <2>1, <2>3, <2>4
<1>6. CASE f.kind # RootKind[f.subject.rec]
  <2>1. PredecessorHolds(F, f) /\ f.pred # 0
    BY <1>3, <1>4, <1>6 DEF Folds, Looked
  <2>2. PICK g \in F : g.id = f.pred /\ g.subject = f.subject /\ Less(g, f)
    BY <2>1 DEF PredecessorHolds
  <2>3. ById(F, f.pred) = g
    BY <2>2 DEF ById, Told
  <2>4. g \notin Eligible(F)
    BY <1>3, <1>4, <1>6, <2>3
  <2>5. g \in bad /\ Stamped(g)
    BY <1>3, <2>2, <2>4 DEF OfSubject, Told
  <2>6. g = f \/ Less(f, g)
    BY <1>2, <2>5
  <2>7. ~ Less(f, f)
    BY <1>3, EnvPlaces DEF Less, Stamped
  <2> QED BY <1>3, <2>2, <2>5, <2>6, <2>7, LessIsTransitive
<1> QED BY <1>5, <1>6

LEMMA ClassesOfTheCatalog == ASSUME NEW f PROVE Class(f) \in 0 .. 2
<1>1. \A k \in DOMAIN Catalog : Catalog[k].class \in 0 .. 2
  BY DEF Catalog, Successor
<1> QED BY <1>1 DEF Class

\* The fact that wins counts, and no fact that counts is of a greater class.
LEMMA WinnerWins ==
  ASSUME NEW F, Told(F), Folds(F), IsFiniteSet(F), NEW s \in Subjects(F)
  PROVE  /\ Winner(F, s) \in Eligible(F) \cap OfSubject(F, s)
         /\ \A f \in Eligible(F) \cap OfSubject(F, s) : Class(f) <= Class(Winner(F, s))
<1> DEFINE E == Eligible(F) \cap OfSubject(F, s)
           C == {Class(f) : f \in E}
           top == CHOOSE c \in C : \A f \in E : Class(f) <= c
           T == {f \in E : Class(f) = top}
<1>1. E \subseteq F
  BY DEF OfSubject
<1>2. E # {}
  <2>1. Roots(F, s) # {} /\ Roots(F, s) \subseteq F
    BY DEF Folds, Roots, OfSubject
  <2>2. Told(Roots(F, s))
    BY <2>1 DEF Told
  <2>3. CanonicalRoot(F, s) \in Roots(F, s)
    BY <2>1, <2>2, LeastIsFirst DEF CanonicalRoot
  <2>4. CanonicalRoot(F, s) \in OfSubject(F, s) /\ CanonicalRoot(F, s) \in F
        /\ CanonicalRoot(F, s).subject = s /\ CanonicalRoot(F, s).kind = RootKind[s.rec]
    BY <2>3 DEF Roots, OfSubject
  <2>5. CanonicalRoot(F, s) \in Eligible(F)
    BY <2>4, EligibleFits
  <2> QED BY <2>4, <2>5
<1>3. \E c \in C : \A f \in E : Class(f) <= c
  <2>1. C \subseteq 0 .. 2 /\ C # {}
    BY <1>2, ClassesOfTheCatalog
  <2>2. \E c \in C : \A x \in C : x <= c
    <3> HIDE DEF C
    <3> QED BY <2>1, GreatestMember
  <2> QED BY <2>2
<1>4. top \in C /\ \A f \in E : Class(f) <= top
  BY <1>3
<1>5. T # {} /\ T \subseteq F
  BY <1>1, <1>4
<1>6. Told(T) /\ IsFiniteSet(T)
  BY <1>5, FS_Subset DEF Told
<1>7. Winner(F, s) = Greatest(T)
  BY DEF Winner
<1>8. Winner(F, s) \in T
  <2> HIDE DEF T
  <2> QED BY <1>5, <1>6, <1>7, GreatestIsLast
<1> QED BY <1>4, <1>8

\* A record of one mint is closed exactly when a fact that closes it has been written.
LEMMA ClosedByOne ==
  ASSUME NEW F, Told(F), Folds(F), IsFiniteSet(F), NEW s \in Subjects(F)
  PROVE  /\ Terminal(F, s) => \E f \in OfSubject(F, s) : Class(f) = 2
         /\ Cardinality(Roots(F, s)) = 1 /\ (\E f \in OfSubject(F, s) : Class(f) = 2) => Terminal(F, s)
<1>1. /\ Winner(F, s) \in Eligible(F) \cap OfSubject(F, s)
      /\ \A f \in Eligible(F) \cap OfSubject(F, s) : Class(f) <= Class(Winner(F, s))
  BY WinnerWins
<1>2. Terminal(F, s) => \E f \in OfSubject(F, s) : Class(f) = 2
  BY <1>1 DEF Terminal
<1>3. ASSUME Cardinality(Roots(F, s)) = 1, NEW f \in OfSubject(F, s), Class(f) = 2 PROVE Terminal(F, s)
  <2>1. f \in Eligible(F) \cap OfSubject(F, s)
    BY <1>3, AllCount
  <2> QED BY <1>1, <1>3, <2>1, ClassesOfTheCatalog DEF Terminal
<1> QED BY <1>2, <1>3

\* A store that holds facts folds them, tells them apart, and has finitely many.
StoresFold ==
  \A e \in Range(Envs) : Told(facts[e]) /\ IsFiniteSet(facts[e]) /\ (facts[e] # {} => Folds(facts[e]))

LEMMA StoreFolds == RecordInv => StoresFold
<1> SUFFICES ASSUME RecordInv, NEW e \in Range(Envs)
             PROVE  Told(facts[e]) /\ IsFiniteSet(facts[e]) /\ (facts[e] # {} => Folds(facts[e]))
  BY DEF StoresFold
<1>1. facts[e] \in SUBSET Written
  BY DEF RecordInv, StoresFit, HeldAt, Written
<1>2. HeldThrough(e, read[e]) = facts[e]
  <2>1. facts[e] = HeldAt(e) /\ read[e] \in Nat /\ read[e] <= minted /\ DOMAIN log = 1 .. minted /\ minted \in Nat
    BY DEF RecordInv, StoresFit, LogFits
  <2>2. \A k \in 1 .. read[e] : log[k] \in facts[e]
    BY <2>1 DEF HeldAt
  <2> QED BY <2>2 DEF HeldThrough
<1>3. facts[e] # {} => Folds(facts[e])
  BY <1>1, <1>2, StoresAreClosed, ClosedFolds
<1> QED BY <1>1, <1>3, HeldAreTold DEF RecordInv

\* Stores only gain facts.
LEMMA StoresGain ==
  ASSUME RecordInv, [Next]_vars, NEW e \in Range(Envs)
  PROVE  facts[e] \subseteq facts'[e]
<1>1. facts = [x \in Range(Envs) |-> facts[x]]
  BY DEF RecordInv, StoresFit
<1>2. ASSUME NEW x \in Range(Envs), NEW i, NEW w, AppendFact(x, i, w) PROVE facts[e] \subseteq facts'[e]
  <2>1. PICK f : facts' = [facts EXCEPT ![x] = @ \cup {f}]
    BY <1>2 DEF AppendFact
  <2> QED BY <1>1, <2>1
<1>3. ASSUME NEW x \in Range(Envs), Receive(x) PROVE facts[e] \subseteq facts'[e]
  BY <1>1, <1>3 DEF Receive
<1>4. CASE UNCHANGED vars
  BY <1>4 DEF vars
<1> QED BY <1>2, <1>3, <1>4 DEF Next, Mint, MintAbout, Succeed, Edge

\* Whatever two stores write, send and receive, and however late: what closes a record
\* of one mint closes it for good, at every store that has shown it closed.
THEOREM DispositionsStand == Spec => DispositionStands
<1>1. ASSUME RecordInv, StoresFold, StoresFold', [Next]_vars
      PROVE  \A e \in Range(Envs) : \A s \in Subjects(facts[e]) :
               Cardinality(Roots(facts'[e], s)) = 1 /\ Folds(facts[e]) /\ Terminal(facts[e], s)
                 => Terminal(facts'[e], s)
  <2> SUFFICES ASSUME NEW e \in Range(Envs), NEW s \in Subjects(facts[e]),
                      Cardinality(Roots(facts'[e], s)) = 1, Folds(facts[e]), Terminal(facts[e], s)
               PROVE  Terminal(facts'[e], s)
    OBVIOUS
  <2>1. PICK F, G : F = facts[e] /\ G = facts'[e]
    OBVIOUS
  <2>2. Told(F) /\ IsFiniteSet(F) /\ Folds(F) /\ s \in Subjects(F) /\ Terminal(F, s)
    BY <1>1, <2>1 DEF StoresFold
  <2>3. Told(G) /\ IsFiniteSet(G) /\ (G # {} => Folds(G))
    BY <1>1, <2>1 DEF StoresFold
  <2>4. F \subseteq G
    BY <1>1, <2>1, StoresGain
  <2>5. PICK f \in OfSubject(F, s) : Class(f) = 2
    BY <2>2, ClosedByOne
  <2>6. f \in OfSubject(G, s) /\ s \in Subjects(G) /\ G # {}
    BY <2>4, <2>5 DEF OfSubject, Subjects
  <2>7. Terminal(G, s)
    BY <2>1, <2>3, <2>5, <2>6, ClosedByOne
  <2> QED BY <2>1, <2>7
<1>2. RecordInv /\ StoresFold /\ StoresFold' /\ [Next]_vars
        => [\A e \in Range(Envs) : \A s \in Subjects(facts[e]) :
              Cardinality(Roots(facts[e]', s)) = 1 /\ Folds(facts[e]) /\ Terminal(facts[e], s)
                => Terminal(facts[e]', s)]_vars
  BY <1>1
<1> QED BY <1>2, RecordsStart, RecordStep, StoreFolds, PTL DEF Spec, DispositionStands

----------------------------------------------------------------------------
(* The derived context. *)

\* A cap of c lets at most c records of a layer through.
KeepsCaps(layer) ==
  \A c \in Nat : /\ IsFiniteSet({s \in DOMAIN layer : layer[s] <= c})
                 /\ Cardinality({s \in DOMAIN layer : layer[s] <= c}) <= c

LEMMA PlacesApart ==
  ASSUME NEW D, IsFiniteSet(D), NEW R, NEW place,
         \A x \in D : <<x, x>> \notin R,
         \A x, y, z \in D : <<x, y>> \in R /\ <<y, z>> \in R => <<x, z>> \in R,
         \A x, y \in D : x # y => <<x, y>> \in R \/ <<y, x>> \in R,
         place = [x \in D |-> Cardinality({y \in D : <<y, x>> \in R}) + 1]
  PROVE  KeepsCaps(place)
<1> DEFINE Below(x) == {y \in D : <<y, x>> \in R}
<1>1. ASSUME NEW x \in D PROVE IsFiniteSet(Below(x)) /\ Cardinality(Below(x)) \in Nat
  <2>1. Below(x) \in SUBSET D
    OBVIOUS
  <2> QED BY <2>1, FS_Subset, FS_CardinalityType
<1>2. ASSUME NEW x \in D, NEW y \in D, <<x, y>> \in R PROVE Cardinality(Below(x)) < Cardinality(Below(y))
  <2>1. Below(x) \in SUBSET Below(y) /\ x \in Below(y) /\ x \notin Below(x)
    BY <1>2
  <2>2. Cardinality(Below(x)) <= Cardinality(Below(y)) /\ (Cardinality(Below(y)) = Cardinality(Below(x)) => Below(y) = Below(x))
    BY <1>1, <2>1, FS_Subset
  <2>3. Cardinality(Below(x)) \in Nat /\ Cardinality(Below(y)) \in Nat
    BY <1>1
  <2> HIDE DEF Below
  <2> QED BY <2>1, <2>2, <2>3
<1>3. \A x \in D : place[x] = Cardinality(Below(x)) + 1
  OBVIOUS
<1>4. DOMAIN place = D
  OBVIOUS
<1> HIDE DEF Below
<1>5. \A x, y \in D : place[x] = place[y] => x = y
  <2> SUFFICES ASSUME NEW x \in D, NEW y \in D, place[x] = place[y], x # y PROVE FALSE
    OBVIOUS
  <2>1. Cardinality(Below(x)) < Cardinality(Below(y)) \/ Cardinality(Below(y)) < Cardinality(Below(x))
    BY <1>2
  <2> QED BY <1>1, <1>3, <2>1
<1>6. \A x \in D : place[x] \in Nat /\ place[x] >= 1
  BY <1>1, <1>3
<1>7. ASSUME NEW c \in Nat
      PROVE  /\ IsFiniteSet({s \in DOMAIN place : place[s] <= c})
             /\ Cardinality({s \in DOMAIN place : place[s] <= c}) <= c
  <2> DEFINE S == {s \in D : place[s] <= c}
             f == [s \in S |-> place[s]]
  <2>1. S \in SUBSET D /\ IsFiniteSet(S)
    <3>1. S \in SUBSET D
      OBVIOUS
    <3> QED BY <3>1, FS_Subset
  <2>2. f \in [S -> 1 .. c] /\ \A x, y \in S : f[x] = f[y] => x = y
    BY <1>5, <1>6
  <2>3. IsFiniteSet(1 .. c) /\ Cardinality(1 .. c) = c
    BY FS_Interval
  <2> HIDE DEF S, f
  <2>4. f \in Injection(S, 1 .. c)
    BY <2>2 DEF Injection, IsInjective
  <2>5. Cardinality(S) <= c
    BY <2>3, <2>4, FS_Injection
  <2> QED BY <1>4, <2>1, <2>5 DEF S
<1> QED BY <1>7 DEF KeepsCaps

\* A list whose entries are told apart by the facts they are listed by.
IsList(F, list) ==
  /\ IsFiniteSet(DOMAIN list)
  /\ \A s \in DOMAIN list : list[s] \in F
  /\ \A s, t \in DOMAIN list : list[s] = list[t] => s = t

LEMMA LessIsTotal ==
  ASSUME NEW F, Told(F), NEW f \in F, NEW g \in F
  PROVE  ~ Less(f, f) /\ (f # g => Less(f, g) \/ Less(g, f))
<1>1. Stamped(f) /\ Stamped(g) /\ (f # g => f.id # g.id)
  BY DEF Told
<1>2. /\ EnvIndex(f.env) \in Nat /\ EnvIndex(g.env) \in Nat
      /\ (EnvIndex(f.env) = EnvIndex(g.env) => f.env = g.env)
  BY <1>1, EnvPlaces DEF Stamped
<1> QED BY <1>1, <1>2 DEF Less, Stamped

\* A layer takes what passes a test, keeps to every cap, and a test that only one entry
\* passes, if it is the first, puts that entry first.
TakesInTiers(list, tests) ==
  /\ DOMAIN Tiered(list, tests) = {x \in DOMAIN list : \E k \in DOMAIN tests : x \in tests[k]}
  /\ KeepsCaps(Tiered(list, tests))
  /\ \A x \in DOMAIN list : 1 \in DOMAIN tests /\ tests[1] = {x} => Tiered(list, tests)[x] = 1

LEMMA TieredFits ==
  ASSUME NEW F, Told(F), NEW list, IsList(F, list), NEW m \in Nat, NEW tests, DOMAIN tests = 1 .. m
  PROVE  TakesInTiers(list, tests)
<1> DEFINE D == {x \in DOMAIN list : \E k \in 1 .. m : x \in tests[k]}
           tier == [s \in D |-> Min({k \in 1 .. m : s \in tests[k]})]
           Ahead(s) == {t \in D : tier[t] < tier[s] \/ (tier[t] = tier[s] /\ Less(list[s], list[t]))}
           place == [s \in D |-> Cardinality(Ahead(s)) + 1]
           R == {p \in D \X D : tier[p[1]] < tier[p[2]] \/ (tier[p[1]] = tier[p[2]] /\ Less(list[p[2]], list[p[1]]))}
<1>1. Tiered(list, tests) = place
  BY Zenon DEF Tiered
<1>2. \A s \in D : tier[s] \in 1 .. m /\ s \in tests[tier[s]] /\ \A k \in 1 .. m : s \in tests[k] => tier[s] <= k
  <2> SUFFICES ASSUME NEW s \in D
               PROVE  tier[s] \in 1 .. m /\ s \in tests[tier[s]] /\ \A k \in 1 .. m : s \in tests[k] => tier[s] <= k
    OBVIOUS
  <2> DEFINE K == {k \in 1 .. m : s \in tests[k]}
  <2>1. \E k \in 1 .. m : s \in tests[k]
    OBVIOUS
  <2>2. tier[s] = Min(K)
    OBVIOUS
  <2>3. K \in SUBSET Nat /\ K # {}
    BY <2>1
  <2>4. \E x \in K : \A y \in K : x <= y
    <3> HIDE DEF K
    <3> QED BY <2>3, LeastMember
  <2>5. Min(K) \in K /\ \A y \in K : Min(K) <= y
    BY <2>4 DEF Min
  <2> QED BY <2>3, <2>5, <2>2
<1>3. \A s \in D : s \in DOMAIN list /\ list[s] \in F /\ Stamped(list[s])
  BY DEF IsList, Told
<1>4. IsFiniteSet(D)
  <2>1. D \in SUBSET DOMAIN list
    OBVIOUS
  <2> HIDE DEF D
  <2> QED BY <2>1, FS_Subset DEF IsList
<1> HIDE DEF tier
<1>5. \A x, y \in D : (<<x, y>> \in R) = (tier[x] < tier[y] \/ (tier[x] = tier[y] /\ Less(list[y], list[x])))
  OBVIOUS
<1>6. \A x \in D : Ahead(x) = {y \in D : <<y, x>> \in R}
  <2> HIDE DEF R, D
  <2> QED BY <1>5
<1> HIDE DEF R, D, Ahead
<1>7. \A x \in D : <<x, x>> \notin R
  BY <1>2, <1>3, <1>5, LessIsTotal
<1>8. \A x, y, z \in D : <<x, y>> \in R /\ <<y, z>> \in R => <<x, z>> \in R
  <2> SUFFICES ASSUME NEW x \in D, NEW y \in D, NEW z \in D, <<x, y>> \in R, <<y, z>> \in R PROVE <<x, z>> \in R
    OBVIOUS
  <2>1. tier[x] \in Nat /\ tier[y] \in Nat /\ tier[z] \in Nat
    BY <1>2
  <2>2. Less(list[z], list[y]) /\ Less(list[y], list[x]) => Less(list[z], list[x])
    BY <1>3, LessIsTransitive
  <2> QED BY <1>5, <2>1, <2>2
<1>9. \A x, y \in D : x # y => <<x, y>> \in R \/ <<y, x>> \in R
  <2> SUFFICES ASSUME NEW x \in D, NEW y \in D, x # y PROVE <<x, y>> \in R \/ <<y, x>> \in R
    OBVIOUS
  <2>1. tier[x] \in Nat /\ tier[y] \in Nat
    BY <1>2
  <2>2. list[x] # list[y]
    BY <1>3 DEF IsList
  <2>3. Less(list[x], list[y]) \/ Less(list[y], list[x])
    BY <1>3, <2>2, LessIsTotal
  <2> QED BY <1>5, <2>1, <2>3
<1>10. KeepsCaps(place)
  <2>1. place = [x \in D |-> Cardinality({y \in D : <<y, x>> \in R}) + 1]
    BY <1>6
  <2> HIDE DEF place
  <2> QED BY <1>4, <1>7, <1>8, <1>9, <2>1, PlacesApart
<1>11. ASSUME NEW x \in DOMAIN list, 1 \in DOMAIN tests, tests[1] = {x} PROVE place[x] = 1
  <2>1. x \in D /\ 1 \in 1 .. m
    BY <1>11 DEF D
  <2>2. tier[x] = 1
    <3>1. tier[x] <= 1 /\ tier[x] \in 1 .. m
      BY <1>2, <1>11, <2>1
    <3> QED BY <3>1
  <2>3. Ahead(x) = {}
    <3> SUFFICES ASSUME NEW t \in Ahead(x) PROVE FALSE
      OBVIOUS
    <3>1. t \in D /\ (tier[t] < 1 \/ (tier[t] = 1 /\ Less(list[x], list[t])))
      BY <2>2 DEF Ahead
    <3>2. tier[t] \in 1 .. m /\ t \in tests[tier[t]]
      BY <1>2, <3>1
    <3>3. tier[t] = 1 /\ t = x
      BY <1>11, <3>1, <3>2
    <3> QED BY <1>3, <2>1, <3>1, <3>3, LessIsTotal
  <2>4. Cardinality({}) = 0
    BY FS_EmptySet
  <2> QED BY <2>1, <2>3, <2>4
<1>12. DOMAIN place = D
  OBVIOUS
<1> HIDE DEF place
<1> QED BY <1>1, <1>10, <1>11, <1>12 DEF D, TakesInTiers

LEMMA SubjectsAreFinite ==
  ASSUME NEW F, IsFiniteSet(F)
  PROVE  IsFiniteSet(Subjects(F))
<1> DEFINE name == [f \in F |-> f.subject]
<1>1. Subjects(F) = {name[f] : f \in F}
  BY DEF Subjects
<1>2. DOMAIN name = F /\ name = [f \in F |-> name[f]]
  OBVIOUS
<1> HIDE DEF name
<1> QED BY <1>1, <1>2, FiniteImage

\* The families' lists are lists, and so are parts of them.
LEMMA FamiliesAreLists ==
  ASSUME NEW F, Told(F), Folds(F), IsFiniteSet(F), NEW S, S \subseteq Subjects(F)
  PROVE  /\ IsList(F, ByRoot(F, S)) /\ DOMAIN ByRoot(F, S) = S
         /\ IsList(F, ByHead(F, S)) /\ DOMAIN ByHead(F, S) = S
<1>1. IsFiniteSet(S)
  BY SubjectsAreFinite, FS_Subset
<1>2. \A s \in S : CanonicalRoot(F, s) \in F /\ CanonicalRoot(F, s).subject = s
  <2> SUFFICES ASSUME NEW s \in S PROVE CanonicalRoot(F, s) \in F /\ CanonicalRoot(F, s).subject = s
    OBVIOUS
  <2>1. Roots(F, s) # {} /\ Roots(F, s) \subseteq F
    BY DEF Folds, Roots, OfSubject
  <2>2. Told(Roots(F, s))
    BY <2>1 DEF Told
  <2>3. CanonicalRoot(F, s) \in Roots(F, s)
    BY <2>1, <2>2, LeastIsFirst DEF CanonicalRoot
  <2> QED BY <2>3 DEF Roots, OfSubject
<1>3. \A s \in S : Winner(F, s) \in F /\ Winner(F, s).subject = s
  BY WinnerWins DEF OfSubject
<1>4. IsList(F, ByRoot(F, S)) /\ DOMAIN ByRoot(F, S) = S
  <2> DEFINE list == ByRoot(F, S)
  <2>1. DOMAIN list = S /\ \A s \in S : list[s] = CanonicalRoot(F, s)
    BY DEF ByRoot
  <2> HIDE DEF list
  <2>2. IsList(F, list)
    BY <1>1, <1>2, <2>1 DEF IsList
  <2> QED BY <2>1, <2>2 DEF list
<1>5. IsList(F, ByHead(F, S)) /\ DOMAIN ByHead(F, S) = S
  <2> DEFINE list == ByHead(F, S)
  <2>1. DOMAIN list = S /\ \A s \in S : list[s] = Winner(F, s)
    BY DEF ByHead
  <2> HIDE DEF list
  <2>2. IsList(F, list)
    BY <1>1, <1>3, <2>1 DEF IsList
  <2> QED BY <2>1, <2>2 DEF list
<1> QED BY <1>4, <1>5

LEMMA PartsAreLists ==
  ASSUME NEW F, NEW list, IsList(F, list), NEW S \in SUBSET DOMAIN list
  PROVE  IsList(F, Restrict(list, S)) /\ DOMAIN Restrict(list, S) = S
<1> DEFINE part == Restrict(list, S)
<1>1. DOMAIN part = S /\ \A s \in S : part[s] = list[s]
  BY DEF Restrict
<1>2. IsFiniteSet(S)
  BY FS_Subset DEF IsList
<1> HIDE DEF part
<1>3. IsList(F, part)
  BY <1>1, <1>2 DEF IsList
<1> QED BY <1>1, <1>3 DEF part

\* A layer of one, two or three tests.
LEMMA LayersKeepCaps ==
  ASSUME NEW F, Told(F), NEW list, IsList(F, list), NEW A, NEW B, NEW C
  PROVE  /\ KeepsCaps(Tiered(list, <<A>>)) /\ DOMAIN Tiered(list, <<A>>) = DOMAIN list \cap A
         /\ KeepsCaps(Tiered(list, <<A, B>>))
         /\ KeepsCaps(Tiered(list, <<A, B, C>>))
         /\ \A x \in DOMAIN list : A = {x} =>
              /\ x \in DOMAIN Tiered(list, <<A>>) /\ Tiered(list, <<A>>)[x] = 1
              /\ x \in DOMAIN Tiered(list, <<A, B, C>>) /\ Tiered(list, <<A, B, C>>)[x] = 1
<1>1. PICK t1, t2, t3 : t1 = <<A>> /\ t2 = <<A, B>> /\ t3 = <<A, B, C>>
  OBVIOUS
<1>2. /\ DOMAIN t1 = 1 .. 1 /\ t1[1] = A /\ 1 \in DOMAIN t1
      /\ DOMAIN t2 = 1 .. 2
      /\ DOMAIN t3 = 1 .. 3 /\ t3[1] = A /\ 1 \in DOMAIN t3
  BY <1>1
<1>3. TakesInTiers(list, t1) /\ TakesInTiers(list, t2) /\ TakesInTiers(list, t3)
  BY <1>2, 1 \in Nat, 2 \in Nat, 3 \in Nat, TieredFits
<1>4. KeepsCaps(Tiered(list, t1)) /\ KeepsCaps(Tiered(list, t2)) /\ KeepsCaps(Tiered(list, t3))
  BY <1>3 DEF TakesInTiers
<1>5. \A x \in DOMAIN list : A = {x} => Tiered(list, t1)[x] = 1 /\ Tiered(list, t3)[x] = 1
  BY <1>2, <1>3 DEF TakesInTiers
<1>6. DOMAIN Tiered(list, t1) = DOMAIN list \cap A
  BY <1>2, <1>3 DEF TakesInTiers
<1>7. ASSUME NEW x \in DOMAIN list, A = {x}
      PROVE  x \in DOMAIN Tiered(list, t1) /\ x \in DOMAIN Tiered(list, t3)
  BY <1>2, <1>3, <1>7 DEF TakesInTiers
<1> QED BY <1>1, <1>4, <1>5, <1>6, <1>7

\* One entry before the others.
Heads(t, x, s) == DOMAIN t = 1 .. Len(s) + 1 /\ t[1] = x /\ \A k \in 1 .. Len(s) : t[k + 1] = s[k]

LEMMA OneAhead ==
  ASSUME NEW X, NEW x \in X, NEW s \in Seq(X), NEW t, t = <<x>> \o s
  PROVE  Heads(t, x, s)
<1>1. PICK one : one = <<x>>
  OBVIOUS
<1>2. one \in Seq(X) /\ Len(one) = 1 /\ one[1] = x /\ t = one \o s /\ Len(s) \in Nat
  BY <1>1
<1>3. t \in Seq(X) /\ Len(t) = Len(s) + 1
  BY <1>2
<1>4. \A k \in 1 .. Len(s) + 1 : t[k] = IF k <= 1 THEN one[k] ELSE s[k - 1]
  BY <1>2
<1>5. \A k \in 1 .. Len(s) : k + 1 \in 1 .. Len(s) + 1 /\ ~ (k + 1 <= 1) /\ (k + 1) - 1 = k
  BY <1>2
<1> QED BY <1>2, <1>3, <1>4, <1>5 DEF Heads

\* What hangs on shown records, by the best of their ranks.
LEMMA ReferencesHang ==
  ASSUME NEW F, Told(F), Folds(F), IsFiniteSet(F), NEW q
  PROVE  /\ KeepsCaps(References(F, q))
         /\ \A s \in DOMAIN References(F, q) : s = q.focus \/ Attachments(F, s) \cap Selected(F, q) # {}
         /\ q.focus \in OfFamily(F, "reference") =>
              q.focus \in DOMAIN References(F, q) /\ References(F, q)[q.focus] = 1
<1> DEFINE S == OfFamily(F, "reference")
           hanging == {s \in S : Attachments(F, s) \cap Selected(F, q) # {}}
           rank == [s \in hanging |-> BestRank(F, q, Attachments(F, s), Selected(F, q))]
           hop == [k \in 1 .. 4 |-> {s \in DOMAIN rank : rank[s] = k - 1}]
           tests == <<{q.focus}>> \o hop
           list == ExternalReferences(F)
<1>1. References(F, q) = Tiered(list, tests)
  BY Zenon DEF References, OneHop
<1>2. DOMAIN hop = 1 .. 4 /\ \A k \in 1 .. 4 : hop[k] \in SUBSET hanging
  OBVIOUS
<1>3. hop \in [1 .. 4 -> SUBSET hanging]
  OBVIOUS
<1>4. IsList(F, list) /\ DOMAIN list = S
  <2>1. S \subseteq Subjects(F)
    BY DEF OfFamily
  <2> HIDE DEF S
  <2> QED BY <2>1, FamiliesAreLists DEF ExternalReferences, S
<1> HIDE DEF hop, list
<1>5. DOMAIN tests = 1 .. 5 /\ tests[1] = {q.focus} /\ \A k \in 1 .. 5 : k = 1 \/ tests[k] \in SUBSET hanging
  <2>1. PICK X : X = SUBSET (hanging \cup {q.focus})
    OBVIOUS
  <2>2. hop \in Seq(X) /\ Len(hop) = 4
    <3>1. hop \in [1 .. 4 -> X] /\ 4 \in Nat
      BY <1>3, <2>1
    <3>2. hop \in Seq(X)
      BY <3>1
    <3> QED BY <3>1, <3>2
  <2>3. <<{q.focus}>> \in Seq(X) /\ Len(<<{q.focus}>>) = 1
    BY <2>1
  <2>4. DOMAIN tests = 1 .. 5 /\ tests[1] = {q.focus} /\ \A k \in 2 .. 5 : tests[k] = hop[k - 1]
    <3>1. {q.focus} \in X
      BY <2>1
    <3>2. Heads(tests, {q.focus}, hop)
      BY <2>2, <3>1, OneAhead
    <3>3. \A k \in 2 .. 5 : k - 1 \in 1 .. 4 /\ (k - 1) + 1 = k
      OBVIOUS
    <3> HIDE DEF tests
    <3> QED BY <2>2, <3>2, <3>3 DEF Heads
  <2>5. \A k \in 2 .. 5 : k - 1 \in 1 .. 4
    OBVIOUS
  <2>6. \A k \in 2 .. 5 : tests[k] \in SUBSET hanging
    BY <1>2, <2>4, <2>5
  <2>7. \A k \in 1 .. 5 : k = 1 \/ k \in 2 .. 5
    OBVIOUS
  <2> HIDE DEF tests, hanging
  <2> QED BY <2>4, <2>6, <2>7
<1> HIDE DEF tests
<1>6. TakesInTiers(list, tests)
  BY <1>4, <1>5, 5 \in Nat, TieredFits
<1>7. KeepsCaps(References(F, q))
  BY <1>1, <1>6 DEF TakesInTiers
<1>8. ASSUME NEW s \in DOMAIN References(F, q) PROVE s = q.focus \/ Attachments(F, s) \cap Selected(F, q) # {}
  <2>1. PICK k \in 1 .. 5 : s \in tests[k]
    BY <1>1, <1>5, <1>6, <1>8 DEF TakesInTiers
  <2>2. s = q.focus \/ s \in hanging
    BY <1>5, <2>1
  <2> QED BY <2>2
<1>9. ASSUME q.focus \in S PROVE q.focus \in DOMAIN References(F, q) /\ References(F, q)[q.focus] = 1
  <2>1. 1 \in DOMAIN tests /\ q.focus \in tests[1]
    BY <1>5
  <2> HIDE DEF S
  <2> QED BY <1>1, <1>4, <1>5, <1>6, <1>9, <2>1 DEF TakesInTiers
<1> QED BY <1>7, <1>8, <1>9

LEMMA EvidenceHangs ==
  ASSUME NEW F, Told(F), Folds(F), IsFiniteSet(F), NEW q
  PROVE  /\ KeepsCaps(Evidence(F, q))
         /\ \A s \in DOMAIN Evidence(F, q) : CanonicalRoot(F, s).ref \in Selected(F, q)
<1> DEFINE S == OfFamily(F, "evidence")
           hanging == {s \in S : {CanonicalRoot(F, s).ref} \cap Selected(F, q) # {}}
           rank == [s \in hanging |-> BestRank(F, q, {CanonicalRoot(F, s).ref}, Selected(F, q))]
           tests == [k \in 1 .. 4 |-> {s \in DOMAIN rank : rank[s] = k - 1}]
           list == VerificationEvidence(F)
<1>1. Evidence(F, q) = Tiered(list, tests)
  BY Zenon DEF Evidence, OneHop
<1>2. DOMAIN tests = 1 .. 4 /\ \A k \in 1 .. 4 : tests[k] \in SUBSET hanging
  OBVIOUS
<1>3. IsList(F, list)
  <2>1. S \subseteq Subjects(F)
    BY DEF OfFamily
  <2> HIDE DEF S
  <2> QED BY <2>1, FamiliesAreLists DEF VerificationEvidence, S
<1> HIDE DEF tests, list
<1>4. TakesInTiers(list, tests)
  BY <1>2, <1>3, 4 \in Nat, TieredFits
<1>5. ASSUME NEW s \in DOMAIN Evidence(F, q) PROVE CanonicalRoot(F, s).ref \in Selected(F, q)
  <2>1. s \in hanging
    BY <1>1, <1>2, <1>4 DEF TakesInTiers
  <2> QED BY <2>1
<1> QED BY <1>1, <1>4, <1>5 DEF TakesInTiers

\* The layers of records.
LEMMA LayersFit ==
  ASSUME NEW F, Told(F), Folds(F), IsFiniteSet(F), NEW q
  PROVE  /\ KeepsCaps(SelectFocusedJournal(F, q)) /\ KeepsCaps(SelectProjectJournal(F, q))
         /\ KeepsCaps(SelectWraps(F, q)) /\ KeepsCaps(SelectSparks(F, q)) /\ KeepsCaps(SelectIdeas(F, q))
         /\ KeepsCaps(SelectDecisions(F, q)) /\ KeepsCaps(SelectCheckpoints(F, q))
         /\ KeepsCaps(SelectFindings(F, q)) /\ KeepsCaps(SelectHandoffs(F, q))
<1>1. \A rec : OfFamily(F, rec) \subseteq Subjects(F) /\ LatestPerRef(F, OfFamily(F, rec)) \subseteq Subjects(F)
  BY DEF OfFamily, LatestPerRef
<1>2. /\ IsList(F, EffectiveJournal(F)) /\ DOMAIN EffectiveJournal(F) = OfFamily(F, "journal")
      /\ IsList(F, LatestWraps(F)) /\ IsList(F, CurrentDecisions(F)) /\ IsList(F, LatestCheckpoints(F))
      /\ IsList(F, CurrentIdeas(F)) /\ DOMAIN CurrentIdeas(F) = OfFamily(F, "idea")
      /\ IsList(F, CurrentFindings(F)) /\ IsList(F, LatestHandoffs(F))
  BY <1>1, FamiliesAreLists
     DEF EffectiveJournal, LatestWraps, CurrentDecisions, LatestCheckpoints, CurrentIdeas, CurrentFindings, LatestHandoffs
<1>3. IsList(F, ActiveSparks(F))
  <2> DEFINE S == {s \in OfFamily(F, "spark") : ~Terminal(F, s)}
  <2>1. S \subseteq Subjects(F)
    BY <1>1
  <2> HIDE DEF S
  <2> QED BY <2>1, FamiliesAreLists DEF ActiveSparks, S
<1>4. KeepsCaps(SelectFocusedJournal(F, q)) /\ KeepsCaps(SelectHandoffs(F, q))
  BY <1>2, LayersKeepCaps DEF SelectFocusedJournal, SelectHandoffs
<1>5. KeepsCaps(SelectProjectJournal(F, q))
  <2>1. OfFamily(F, "journal") \ {q.focus} \in SUBSET DOMAIN EffectiveJournal(F)
    BY <1>2
  <2>2. IsList(F, Restrict(EffectiveJournal(F), OfFamily(F, "journal") \ {q.focus}))
    BY <1>2, <2>1, PartsAreLists
  <2> QED BY <2>2, LayersKeepCaps DEF SelectProjectJournal
<1>6. KeepsCaps(SelectIdeas(F, q))
  <2> DEFINE S == {s \in OfFamily(F, "idea") : ~Terminal(F, s)}
  <2>1. S \in SUBSET DOMAIN CurrentIdeas(F)
    BY <1>2
  <2> HIDE DEF S
  <2>2. IsList(F, Restrict(CurrentIdeas(F), S))
    BY <1>2, <2>1, PartsAreLists
  <2> QED BY <2>2, LayersKeepCaps DEF SelectIdeas, S
<1>7. KeepsCaps(SelectWraps(F, q))
  BY <1>2, LayersKeepCaps DEF SelectWraps
<1>8. KeepsCaps(SelectSparks(F, q)) /\ KeepsCaps(SelectDecisions(F, q)) /\ KeepsCaps(SelectFindings(F, q))
  BY <1>2, <1>3, LayersKeepCaps DEF SelectSparks, SelectDecisions, SelectFindings
<1>9. KeepsCaps(SelectCheckpoints(F, q))
  <2>1. CASE FocusExploration(F, q) # None
    BY <1>2, <2>1, LayersKeepCaps DEF SelectCheckpoints
  <2>2. CASE FocusExploration(F, q) = None
    <3> DEFINE layer == Tiered(LatestCheckpoints(F), <<Subjects(F)>>)
               first == {s \in DOMAIN layer : layer[s] = 1}
               only == Restrict(layer, first)
    <3>1. SelectCheckpoints(F, q) = only
      BY <2>2 DEF SelectCheckpoints
    <3>2. KeepsCaps(layer)
      BY <1>2, LayersKeepCaps
    <3>3. DOMAIN only = first /\ \A s \in first : only[s] = 1 /\ layer[s] = 1 /\ s \in DOMAIN layer
      BY DEF Restrict
    <3>4. \A s \in DOMAIN layer : layer[s] = 1 => s \in first
      OBVIOUS
    <3>5. PICK all : all = {s \in DOMAIN layer : layer[s] <= 1}
      OBVIOUS
    <3> HIDE DEF only, first
    <3>6. KeepsCaps(only)
      <4> SUFFICES ASSUME NEW c \in Nat
                   PROVE  /\ IsFiniteSet({s \in DOMAIN only : only[s] <= c})
                          /\ Cardinality({s \in DOMAIN only : only[s] <= c}) <= c
        BY DEF KeepsCaps
      <4> DEFINE T == {s \in DOMAIN only : only[s] <= c}
      <4>1. CASE c = 0
        <5>1. T = {}
          BY <3>3, <4>1
        <5> QED BY <4>1, <5>1, FS_EmptySet
      <4>2. CASE c >= 1
        <5>1. T = first
          BY <3>3, <4>2
        <5>2. first \subseteq all
          BY <3>3, <3>5
        <5>3. IsFiniteSet(all) /\ Cardinality(all) <= 1
          BY <3>2, <3>5 DEF KeepsCaps
        <5>4. IsFiniteSet(first) /\ Cardinality(first) <= Cardinality(all) /\ Cardinality(first) \in Nat /\ Cardinality(all) \in Nat
          BY <5>2, <5>3, FS_Subset, FS_CardinalityType
        <5> HIDE DEF T
        <5> QED BY <4>2, <5>1, <5>3, <5>4 DEF T
      <4> QED BY <4>1, <4>2
    <3> QED BY <3>1, <3>6
  <2> QED BY <2>1, <2>2
<1> QED BY <1>4, <1>5, <1>6, <1>7, <1>8, <1>9

\* A record that is the first of a layer.
FirstOf(layer, s) == s \in DOMAIN layer /\ layer[s] = 1

LEMMA FocusFirst ==
  ASSUME NEW F, Told(F), NEW list, IsList(F, list), NEW s \in DOMAIN list, NEW B, NEW C
  PROVE  FirstOf(Tiered(list, <<{s}, B, C>>), s)
<1>1. PICK t : t = <<{s}, B, C>>
  OBVIOUS
<1>2. DOMAIN t = 1 .. 3 /\ t[1] = {s} /\ 1 \in DOMAIN t
  BY <1>1
<1>3. TakesInTiers(list, t)
  BY <1>2, 3 \in Nat, TieredFits
<1>4. s \in DOMAIN Tiered(list, t) /\ Tiered(list, t)[s] = 1
  BY <1>2, <1>3 DEF TakesInTiers
<1> QED BY <1>1, <1>4 DEF FirstOf

\* The same with two tests.
LEMMA FocusFirstOfTwo ==
  ASSUME NEW F, Told(F), NEW list, IsList(F, list), NEW s \in DOMAIN list, NEW B
  PROVE  FirstOf(Tiered(list, <<{s}, B>>), s)
<1>1. PICK t : t = <<{s}, B>>
  OBVIOUS
<1>2. DOMAIN t = 1 .. 2 /\ t[1] = {s} /\ 1 \in DOMAIN t
  BY <1>1
<1>3. TakesInTiers(list, t)
  BY <1>2, 2 \in Nat, TieredFits
<1>4. s \in DOMAIN Tiered(list, t) /\ Tiered(list, t)[s] = 1
  BY <1>2, <1>3 DEF TakesInTiers
<1> QED BY <1>1, <1>4 DEF FirstOf

\* A spark or an idea in focus that has not been disposed of.
LEMMA ActiveFocusLeads ==
  ASSUME NEW F, Told(F), Folds(F), IsFiniteSet(F), NEW q, q.focus \in Subjects(F), ~Terminal(F, q.focus)
  PROVE  /\ q.focus.rec = "spark" => FirstOf(SelectSparks(F, q), q.focus)
         /\ q.focus.rec = "idea" => FirstOf(SelectIdeas(F, q), q.focus)
<1>1. ASSUME q.focus.rec = "spark" PROVE FirstOf(SelectSparks(F, q), q.focus)
  <2> DEFINE S == {s \in OfFamily(F, "spark") : ~Terminal(F, s)}
  <2>1. S \subseteq Subjects(F) /\ q.focus \in S
    BY <1>1 DEF OfFamily
  <2>2. IsList(F, ActiveSparks(F)) /\ DOMAIN ActiveSparks(F) = S
    <3> HIDE DEF S
    <3>1. IsList(F, ByRoot(F, S)) /\ DOMAIN ByRoot(F, S) = S
      BY <2>1, FamiliesAreLists
    <3> QED BY <3>1 DEF ActiveSparks, S
  <2> HIDE DEF S
  <2>3. \A B, C : FirstOf(Tiered(ActiveSparks(F), <<{q.focus}, B, C>>), q.focus)
    <3> SUFFICES ASSUME NEW B, NEW C PROVE FirstOf(Tiered(ActiveSparks(F), <<{q.focus}, B, C>>), q.focus)
      OBVIOUS
    <3> QED BY <2>1, <2>2, FocusFirst
  <2> QED BY <2>3 DEF SelectSparks
<1>2. ASSUME q.focus.rec = "idea" PROVE FirstOf(SelectIdeas(F, q), q.focus)
  <2> DEFINE S == {s \in OfFamily(F, "idea") : ~Terminal(F, s)}
             list == Restrict(CurrentIdeas(F), S)
  <2>1. S \subseteq OfFamily(F, "idea") /\ OfFamily(F, "idea") \subseteq Subjects(F) /\ q.focus \in S
    BY <1>2 DEF OfFamily
  <2> HIDE DEF S
  <2>2. IsList(F, CurrentIdeas(F)) /\ DOMAIN CurrentIdeas(F) = OfFamily(F, "idea")
    BY <2>1, FamiliesAreLists DEF CurrentIdeas
  <2>3. IsList(F, list) /\ DOMAIN list = S
    <3>1. S \in SUBSET DOMAIN CurrentIdeas(F)
      BY <2>1, <2>2
    <3> QED BY <2>2, <3>1, PartsAreLists
  <2> HIDE DEF list
  <2>4. \A B : FirstOf(Tiered(list, <<{q.focus}, B>>), q.focus)
    <3> SUFFICES ASSUME NEW B PROVE FirstOf(Tiered(list, <<{q.focus}, B>>), q.focus)
      OBVIOUS
    <3> QED BY <2>1, <2>3, FocusFirstOfTwo
  <2> QED BY <2>4 DEF SelectIdeas, list, S
<1> QED BY <1>1, <1>2

\* The families whose focus is always a candidate.
LEMMA FocusLeads ==
  ASSUME NEW F, Told(F), Folds(F), IsFiniteSet(F), NEW q, q.focus \in Subjects(F)
  PROVE  /\ q.focus.rec = "journal" =>
              q.focus \in DOMAIN SelectFocusedJournal(F, q) /\ SelectFocusedJournal(F, q)[q.focus] = 1
         /\ q.focus.rec = "decision" =>
              q.focus \in DOMAIN SelectDecisions(F, q) /\ SelectDecisions(F, q)[q.focus] = 1
         /\ q.focus.rec = "finding" =>
              q.focus \in DOMAIN SelectFindings(F, q) /\ SelectFindings(F, q)[q.focus] = 1
<1>1. \A rec : OfFamily(F, rec) \subseteq Subjects(F) /\ (q.focus.rec = rec => q.focus \in OfFamily(F, rec))
  BY DEF OfFamily
<1>2. /\ IsList(F, EffectiveJournal(F)) /\ DOMAIN EffectiveJournal(F) = OfFamily(F, "journal")
      /\ IsList(F, CurrentDecisions(F)) /\ DOMAIN CurrentDecisions(F) = OfFamily(F, "decision")
      /\ IsList(F, CurrentFindings(F)) /\ DOMAIN CurrentFindings(F) = OfFamily(F, "finding")
  BY <1>1, FamiliesAreLists DEF EffectiveJournal, CurrentDecisions, CurrentFindings
<1>3. ASSUME q.focus.rec = "journal"
      PROVE  q.focus \in DOMAIN SelectFocusedJournal(F, q) /\ SelectFocusedJournal(F, q)[q.focus] = 1
  BY <1>1, <1>2, <1>3, LayersKeepCaps DEF SelectFocusedJournal
<1>4. ASSUME q.focus.rec = "decision"
      PROVE  q.focus \in DOMAIN SelectDecisions(F, q) /\ SelectDecisions(F, q)[q.focus] = 1
  <2>1. \A B, C : FirstOf(Tiered(CurrentDecisions(F), <<{q.focus}, B, C>>), q.focus)
    <3> SUFFICES ASSUME NEW B, NEW C PROVE FirstOf(Tiered(CurrentDecisions(F), <<{q.focus}, B, C>>), q.focus)
      OBVIOUS
    <3> QED BY <1>1, <1>2, <1>4, FocusFirst
  <2> QED BY <2>1 DEF SelectDecisions, FirstOf
<1>5. ASSUME q.focus.rec = "finding"
      PROVE  q.focus \in DOMAIN SelectFindings(F, q) /\ SelectFindings(F, q)[q.focus] = 1
  <2>1. \A B, C : FirstOf(Tiered(CurrentFindings(F), <<{q.focus}, B, C>>), q.focus)
    <3> SUFFICES ASSUME NEW B, NEW C PROVE FirstOf(Tiered(CurrentFindings(F), <<{q.focus}, B, C>>), q.focus)
      OBVIOUS
    <3> QED BY <1>1, <1>2, <1>5, FocusFirst
  <2> QED BY <2>1 DEF SelectFindings, FirstOf
<1> QED BY <1>3, <1>4, <1>5

LayerNames == {"focused", "journal", "wrap", "spark", "idea", "decision", "checkpoint", "finding", "handoff"}

\* The digest of a history, whatever is asked.
LEMMA DigestIsClosed ==
  ASSUME NEW F, Told(F), Folds(F), IsFiniteSet(F), NEW q, q.focus \in Subjects(F) \cup {None},
         NEW digest, digest = Digest(F, q)
  PROVE  IsClosed(F, q, digest)
<1> DEFINE shown == {Project} \cup ({q.focus} \ {None})
                    \cup UNION {Capped(digest[l], l) : l \in DOMAIN digest \ {"reference", "evidence"}}
<1>1. PICK layers : layers = Layers(F, q)
  OBVIOUS
<1>2. /\ DOMAIN layers = LayerNames
      /\ layers.focused = SelectFocusedJournal(F, q) /\ layers.journal = SelectProjectJournal(F, q)
      /\ layers.wrap = SelectWraps(F, q) /\ layers.spark = SelectSparks(F, q)
      /\ layers.idea = SelectIdeas(F, q) /\ layers.decision = SelectDecisions(F, q)
      /\ layers.checkpoint = SelectCheckpoints(F, q) /\ layers.finding = SelectFindings(F, q)
      /\ layers.handoff = SelectHandoffs(F, q)
  BY <1>1 DEF Layers, LayerNames
<1>3. /\ DOMAIN digest = LayerNames \cup {"reference", "evidence"}
      /\ digest.reference = References(F, q) /\ digest.evidence = Evidence(F, q)
      /\ \A l \in LayerNames : digest[l] = layers[l]
  BY <1>1 DEF Digest, LayerNames
<1>4. shown = Selected(F, q)
  <2>1. DOMAIN digest \ {"reference", "evidence"} = DOMAIN layers
    BY <1>2, <1>3 DEF LayerNames
  <2>2. {Capped(digest[l], l) : l \in DOMAIN digest \ {"reference", "evidence"}}
          = {Capped(layers[l], l) : l \in DOMAIN layers}
    BY <1>2, <1>3, <2>1
  <2> QED BY <1>1, <2>2 DEF Selected
<1>5. ASSUME NEW l \in LayerNames PROVE KeepsCaps(layers[l])
  <2>1. /\ KeepsCaps(layers.focused) /\ KeepsCaps(layers.journal) /\ KeepsCaps(layers.wrap)
        /\ KeepsCaps(layers.spark) /\ KeepsCaps(layers.idea) /\ KeepsCaps(layers.decision)
        /\ KeepsCaps(layers.checkpoint) /\ KeepsCaps(layers.finding) /\ KeepsCaps(layers.handoff)
    BY <1>2, LayersFit
  <2> QED BY <2>1 DEF LayerNames
<1>6. \A l \in DOMAIN digest : KeepsCaps(digest[l])
  <2>1. KeepsCaps(digest.reference) /\ KeepsCaps(digest.evidence)
    BY <1>3, ReferencesHang, EvidenceHangs
  <2> QED BY <1>3, <1>5, <2>1
<1>7. \A l \in LayerNames \cup {"reference", "evidence"} : Limits[l] \in Nat /\ Limits[l] >= 1
  <2>1. LayerNames \cup {"reference", "evidence"} \subseteq DOMAIN RootKind \cup {"focused"}
    BY DEF LayerNames, RootKind
  <2> QED BY <2>1, LimitsAssumption
<1>8. ASSUME NEW l \in DOMAIN digest PROVE Cardinality(Capped(digest[l], l)) <= Limits[l]
  <2>1. KeepsCaps(digest[l]) /\ Limits[l] \in Nat
    BY <1>3, <1>6, <1>7
  <2>2. Capped(digest[l], l) = {s \in DOMAIN digest[l] : digest[l][s] <= Limits[l]}
    BY DEF Capped
  <2> QED BY <2>1, <2>2 DEF KeepsCaps
<1>9. ASSUME NEW l \in {"focused", "decision", "finding", "reference"}, q.focus # None,
             q.focus.rec = IF l = "focused" THEN "journal" ELSE l
      PROVE  Leads(digest, l, q.focus)
  <2>1. q.focus \in Subjects(F)
    BY <1>9
  <2>2. q.focus \in DOMAIN digest[l] /\ digest[l][q.focus] = 1
    <3>1. CASE l \in {"focused", "decision", "finding"}
      BY <1>2, <1>3, <1>9, <2>1, <3>1, FocusLeads DEF LayerNames
    <3>2. CASE l = "reference"
      <4>1. q.focus \in OfFamily(F, "reference")
        BY <1>9, <2>1, <3>2 DEF OfFamily
      <4> QED BY <1>3, <3>2, <4>1, ReferencesHang
    <3> QED BY <1>9, <3>1, <3>2
  <2>3. Limits[l] \in Nat /\ Limits[l] >= 1
    BY <1>7, <1>9 DEF LayerNames
  <2> QED BY <2>2, <2>3 DEF Capped, Leads
<1>10. ASSUME NEW l \in {"spark", "idea"}, q.focus # None, q.focus.rec = l, ~Terminal(F, q.focus)
       PROVE  Leads(digest, l, q.focus)
  <2>1. q.focus \in Subjects(F)
    BY <1>10
  <2>2. FirstOf(digest[l], q.focus)
    BY <1>2, <1>3, <1>10, <2>1, ActiveFocusLeads DEF LayerNames
  <2>3. Limits[l] \in Nat /\ Limits[l] >= 1
    BY <1>7, <1>10 DEF LayerNames
  <2> QED BY <2>2, <2>3 DEF Capped, Leads, FirstOf
<1>11. \A s \in DOMAIN digest.reference : s = q.focus \/ Attachments(F, s) \cap shown # {}
  BY <1>3, <1>4, ReferencesHang
<1>12. \A s \in DOMAIN digest.evidence : CanonicalRoot(F, s).ref \in shown
  BY <1>3, <1>4, EvidenceHangs
<1> HIDE DEF shown
<1> QED BY <1>8, <1>9, <1>10, <1>11, <1>12 DEF IsClosed, shown

\* Whatever the history two stores have come to, whatever the caps of the layers, and
\* whatever focus, scope and branch are asked for: references and evidence hang on
\* what is shown, no layer exceeds its cap, and a focus that is listed leads its layer.
THEOREM ContextsAreClosed == Spec => []ContextIsClosed
<1>1. StoresFold => ContextIsClosed
  <2> SUFFICES ASSUME StoresFold, NEW e \in Range(Envs), Folds(facts[e]), NEW q \in Requests(facts[e])
               PROVE  IsClosed(facts[e], q, Digest(facts[e], q))
    BY DEF ContextIsClosed
  <2>1. Told(facts[e]) /\ IsFiniteSet(facts[e])
    BY DEF StoresFold
  <2>2. q.focus \in Subjects(facts[e]) \cup {None}
    BY DEF Requests
  <2> QED BY <2>1, <2>2, DigestIsClosed
<1> QED BY <1>1, RecordsStart, RecordStep, StoreFolds, PTL DEF Spec

----------------------------------------------------------------------------
(* What admission and the snapshot say of one record. *)

\* A fact is of its subject's family: the mint, a successor or an edge.
Kinded(f) ==
  \/ f.kind = RootKind[f.subject.rec] /\ f.subject.rec \in DOMAIN RootKind
  \/ f.kind \in DOMAIN Catalog /\ Catalog[f.kind].rec = f.subject.rec
  \/ f.kind \in Edges /\ f.subject.rec = "reference"

KindsFit == \A k \in DOMAIN log : Kinded(log[k])

LEMMA KindsOfTheCatalog ==
  /\ \A k \in DOMAIN Catalog : Catalog[k].class = 1 => Catalog[k].rec = "decision" /\ Catalog[k].active = {"DecisionOpened"}
  /\ \A k \in DOMAIN Catalog : Catalog[k].rec = "decision" => Catalog[k].class # 0
  /\ \A k \in DOMAIN Catalog : Catalog[k].class \in 0 .. 2
  /\ \A r \in DOMAIN RootKind : RootKind[r] \notin DOMAIN Catalog \cup Edges
  /\ Edges \cap DOMAIN Catalog = {}
  /\ RootKind["decision"] = "DecisionOpened"
BY DEF Catalog, Successor, RootKind, Edges

LEMMA KindsAppended ==
  ASSUME RecordInv, KindsFit, NEW e \in Range(Envs), NEW w, NEW i, AppendFact(e, i, w), Kinded(i)
  PROVE  KindsFit'
<1>1. PICK f : f.subject = i.subject /\ f.kind = i.kind /\ log' = log \o <<f>>
  <2>1. PICK f : /\ f = [id |-> minted', env |-> e, time |-> Allocate(e, w), subject |-> i.subject,
                         kind |-> i.kind, pred |-> i.pred, ref |-> i.ref, scope |-> i.scope, branch |-> i.branch]
                 /\ log' = log \o <<f>>
    BY DEF AppendFact
  <2> QED BY <2>1
<1>2. DOMAIN log = 1 .. Len(log) /\ Len(log) \in Nat /\ log \in Seq({log[k] : k \in DOMAIN log})
  BY DEF RecordInv, LogFits
<1>3. log' = Append(log, f) /\ f \in {f}
  <2> DEFINE S == {log[k] : k \in DOMAIN log} \cup {f}
  <2>1. log \in Seq(S)
    BY <1>2
  <2> QED BY <1>1, <2>1
<1>4. DOMAIN log' = 1 .. Len(log) + 1 /\ log'[Len(log) + 1] = f /\ \A k \in 1 .. Len(log) : log'[k] = log[k]
  BY <1>2, <1>3
<1>5. Kinded(f)
  BY <1>1 DEF Kinded
<1> QED BY <1>2, <1>4, <1>5 DEF KindsFit

LEMMA KindsStay == RecordInv /\ KindsFit /\ [Next]_vars => KindsFit'
<1> SUFFICES ASSUME RecordInv, KindsFit, [Next]_vars PROVE KindsFit'
  OBVIOUS
<1>0. bound.records \subseteq DOMAIN RootKind
  BY BoundsAssumption DEF RecordInv, LogFits
<1>1. ASSUME NEW e \in Range(Envs), NEW w \in bound.walls, Mint(e, w) PROVE KindsFit'
  <2>1. PICK rec \in bound.records, sc \in bound.scopes, b \in bound.branches :
          \E s \in Mintable(rec) : AppendFact(e, Intent(s, RootKind[rec], 0, None, sc, b), w)
    BY <1>1 DEF Mint
  <2>2. PICK s \in Mintable(rec) : AppendFact(e, Intent(s, RootKind[rec], 0, None, sc, b), w)
    BY <2>1
  <2> DEFINE i == Intent(s, RootKind[rec], 0, None, sc, b)
  <2>3. Kinded(i)
    BY <1>0, MintableFits DEF Kinded, Intent
  <2> HIDE DEF i
  <2> QED BY <2>2, <2>3, KindsAppended DEF i
<1>2. ASSUME NEW e \in Range(Envs), NEW w \in bound.walls, MintAbout(e, w) PROVE KindsFit'
  <2>1. PICK rec \in bound.records, r \in Subjects(facts[e]) \cup {None} :
          \E s \in Mintable(rec) : AppendFact(e, Intent(s, RootKind[rec], 0, r, 0, 0), w)
    BY <1>2 DEF MintAbout
  <2>2. PICK s \in Mintable(rec) : AppendFact(e, Intent(s, RootKind[rec], 0, r, 0, 0), w)
    BY <2>1
  <2> DEFINE i == Intent(s, RootKind[rec], 0, r, 0, 0)
  <2>3. Kinded(i)
    BY <1>0, MintableFits DEF Kinded, Intent
  <2> HIDE DEF i
  <2> QED BY <2>2, <2>3, KindsAppended DEF i
<1>3. ASSUME NEW e \in Range(Envs), NEW w \in bound.walls, Succeed(e, w) PROVE KindsFit'
  <2>1. PICK k \in DOMAIN Catalog, s \in Subjects(facts[e]), r \in Subjects(facts[e]) \cup {None} :
          /\ Catalog[k].rec = s.rec
          /\ \E p \in Ids(facts[e]), sc \in bound.scopes, b \in bound.branches :
               AppendFact(e, Intent(s, k, p, r, sc, b), w)
    BY <1>3 DEF Succeed
  <2>2. PICK p \in Ids(facts[e]), sc \in bound.scopes, b \in bound.branches : AppendFact(e, Intent(s, k, p, r, sc, b), w)
    BY <2>1
  <2> DEFINE i == Intent(s, k, p, r, sc, b)
  <2>3. Kinded(i)
    BY <2>1 DEF Kinded, Intent
  <2> HIDE DEF i
  <2> QED BY <2>2, <2>3, KindsAppended DEF i
<1>4. ASSUME NEW e \in Range(Envs), NEW w \in bound.walls, Edge(e, w) PROVE KindsFit'
  <2>1. PICK k \in Edges, s \in Subjects(facts[e]), r \in Subjects(facts[e]) :
          s.rec = "reference" /\ \E p \in Ids(facts[e]) \cup {0} : AppendFact(e, Intent(s, k, p, r, 0, 0), w)
    BY <1>4 DEF Edge
  <2>2. PICK p \in Ids(facts[e]) \cup {0} : AppendFact(e, Intent(s, k, p, r, 0, 0), w)
    BY <2>1
  <2> DEFINE i == Intent(s, k, p, r, 0, 0)
  <2>3. Kinded(i)
    BY <2>1 DEF Kinded, Intent
  <2> HIDE DEF i
  <2> QED BY <2>2, <2>3, KindsAppended DEF i
<1>5. ASSUME NEW e \in Range(Envs), Receive(e) PROVE KindsFit'
  BY <1>5 DEF Receive, KindsFit
<1>6. CASE UNCHANGED vars
  BY <1>6 DEF vars, KindsFit
<1> QED BY <1>1, <1>2, <1>3, <1>4, <1>5, <1>6 DEF Next

LEMMA KindsStart == Init => KindsFit
<1> SUFFICES ASSUME Init PROVE KindsFit
  OBVIOUS
<1>1. PICK first : /\ first = [id |-> 1, env |-> Envs[1], time |-> 1, subject |-> Project,
                               kind |-> "ProjectRegistered", pred |-> 0, ref |-> None, scope |-> 0, branch |-> 0]
                   /\ log = IF bound.registered THEN <<first>> ELSE << >>
  BY DEF Init
<1>2. Kinded(first)
  BY <1>1 DEF Kinded, Project, RootKind
<1> QED BY <1>1, <1>2 DEF KindsFit

\* The last of some facts is the last of the part that comes after all the others.
LEMMA LastOfThePart ==
  ASSUME NEW S, IsFiniteSet(S), Told(S), NEW T \in SUBSET S, T # {},
         \A g \in S \ T : \A f \in T : Less(g, f)
  PROVE  Greatest(S) = Greatest(T)
<1>1. Told(T) /\ IsFiniteSet(T)
  BY FS_Subset DEF Told
<1>2. Greatest(T) \in T /\ \A g \in T \ {Greatest(T)} : Less(g, Greatest(T))
  BY <1>1, GreatestIsLast
<1>3. Greatest(S) \in S /\ \A g \in S \ {Greatest(S)} : Less(g, Greatest(S))
  BY GreatestIsLast
<1>4. ASSUME Greatest(S) # Greatest(T) PROVE FALSE
  <2>1. PICK x, y : x = Greatest(S) /\ y = Greatest(T)
    OBVIOUS
  <2>2. x \in S /\ y \in S /\ Stamped(x) /\ Stamped(y) /\ Less(y, x)
    BY <1>2, <1>3, <1>4, <2>1 DEF Told
  <2>3. Less(x, y)
    BY <1>2, <1>4, <2>1, <2>2
  <2>4. ~ Less(x, x)
    BY <2>2, EnvPlaces DEF Less, Stamped
  <2> QED BY <2>2, <2>3, <2>4, LessIsTransitive
<1> QED BY <1>4

\* The snapshot's head of a record of one mint that is not closed is the last fact about it.
LEMMA HeadIsLast ==
  ASSUME NEW F, Told(F), Folds(F), IsFiniteSet(F), \A f \in F : Kinded(f), NEW s \in Subjects(F),
         Cardinality(Roots(F, s)) = 1, s.rec # "reference", ~ Terminal(F, s)
  PROVE  LastFact(F, s) = Winner(F, s)
<1> DEFINE S == OfSubject(F, s)
           C == {Class(f) : f \in S}
           top == CHOOSE c \in C : \A f \in S : Class(f) <= c
           T == {f \in S : Class(f) = top}
<1>1. Eligible(F) \cap S = S /\ S \subseteq F
  BY AllCount DEF OfSubject
<1>2. Winner(F, s) = Greatest(T)
  <2>1. PICK E : E = Eligible(F) \cap OfSubject(F, s)
    OBVIOUS
  <2>2. Winner(F, s) = Greatest({f \in E : Class(f) = CHOOSE c \in {Class(x) : x \in E} : \A x \in E : Class(x) <= c})
    BY <2>1 DEF Winner
  <2>3. E = S
    BY <1>1, <2>1
  <2> QED BY <2>2, <2>3
<1>3. /\ Winner(F, s) \in S /\ \A f \in S : Class(f) <= Class(Winner(F, s))
      /\ Class(Winner(F, s)) \in 0 .. 1
  <2>1. Winner(F, s) \in S /\ \A f \in S : Class(f) <= Class(Winner(F, s))
    BY <1>1, WinnerWins
  <2>2. Class(Winner(F, s)) \in 0 .. 2 /\ Class(Winner(F, s)) # 2
    BY ClassesOfTheCatalog DEF Terminal
  <2> QED BY <2>1, <2>2
<1>4. top \in C /\ \A f \in S : Class(f) <= top
  <2>1. \E c \in C : \A f \in S : Class(f) <= c
    BY <1>3
  <2> QED BY <2>1
<1>5. top = Class(Winner(F, s)) /\ T # {}
  <2>1. top \in 0 .. 2
    BY <1>4, ClassesOfTheCatalog
  <2>2. top <= Class(Winner(F, s))
    BY <1>3, <1>4
  <2> QED BY <1>3, <1>4, <2>1, <2>2
<1>6. ASSUME NEW g \in S \ T, NEW f \in T PROVE Less(g, f)
  <2>1. Class(f) = 1 /\ Class(g) = 0
    <3>1. Class(g) <= top /\ Class(g) # top /\ Class(f) = top /\ top \in 0 .. 1 /\ Class(g) \in 0 .. 2
      BY <1>3, <1>4, <1>5, ClassesOfTheCatalog
    <3> QED BY <3>1
  <2>2. f \in F /\ g \in F /\ f.subject = s /\ g.subject = s /\ Kinded(f) /\ Kinded(g)
    BY <1>1 DEF OfSubject
  <2>3. f.kind \in DOMAIN Catalog /\ Catalog[f.kind].active = {"DecisionOpened"} /\ Catalog[f.kind].rec = "decision"
    BY <2>1, KindsOfTheCatalog DEF Class
  <2>4. f.kind # RootKind[s.rec] /\ f.kind \notin Edges /\ s.rec = "decision"
    <3>1. f.kind \notin Edges
      BY <2>3, KindsOfTheCatalog
    <3>2. ~ (f.kind = RootKind[f.subject.rec] /\ f.subject.rec \in DOMAIN RootKind)
      BY <2>3, KindsOfTheCatalog
    <3>3. s.rec = "decision"
      BY <2>2, <2>3, <3>1, <3>2 DEF Kinded
    <3>4. f.kind # "DecisionOpened"
      BY <2>3 DEF Catalog
    <3> QED BY <3>1, <3>3, <3>4, KindsOfTheCatalog
  <2>5. g.kind = RootKind[s.rec]
    BY <2>1, <2>2, <2>4, KindsOfTheCatalog DEF Kinded, Class
  <2>6. PICK h \in F : h.subject = f.subject /\ Less(h, f) /\ h.kind = "DecisionOpened"
    <3>1. PredecessorHolds(F, f)
      BY <2>2, <2>4 DEF Folds, Looked
    <3>2. f.kind # "ReferenceAttached"
      BY <2>4 DEF Edges
    <3> QED BY <2>3, <2>4, <3>1, <3>2 DEF PredecessorHolds
  <2>7. h \in Roots(F, s) /\ g \in Roots(F, s)
    BY <2>2, <2>4, <2>5, <2>6, KindsOfTheCatalog DEF Roots, OfSubject
  <2>8. h = g
    <3>1. IsFiniteSet(Roots(F, s))
      <4>1. Roots(F, s) \subseteq F
        BY DEF Roots, OfSubject
      <4> QED BY <4>1, FS_Subset
    <3>2. PICK x : Roots(F, s) = {x}
      BY <3>1, FS_Singleton
    <3> QED BY <2>7, <3>2
  <2> QED BY <2>6, <2>8
<1>7. Told(S) /\ IsFiniteSet(S) /\ T \in SUBSET S
  BY <1>1, FS_Subset DEF Told
<1> HIDE DEF T, S
<1>8. Greatest(S) = Greatest(T)
  BY <1>5, <1>6, <1>7, LastOfThePart
<1> QED BY <1>2, <1>8 DEF LastFact, S

\* The snapshot attaches a reference to what admission takes it to be attached to.
LEMMA EdgesAgree ==
  ASSUME NEW F, Told(F), Folds(F), IsFiniteSet(F), NEW s \in Subjects(F), Cardinality(Roots(F, s)) = 1, NEW t
  PROVE  (t \in Attachments(F, s)) = (EdgeFacts(F, s, t) # {} /\ Greatest(EdgeFacts(F, s, t)).kind = "ReferenceAttached")
<1>1. OfSubject(F, s) \subseteq Eligible(F)
  BY AllCount
<1>2. OfSubject(F, s) \cap Eligible(F) = OfSubject(F, s)
      /\ EdgeFacts(F, s, t) \cap Eligible(F) = EdgeFacts(F, s, t)
  BY <1>1 DEF EdgeFacts
<1>3. (t \in {f.ref : f \in {g \in OfSubject(F, s) : g.kind \in Edges}}) = (EdgeFacts(F, s, t) # {})
  BY DEF EdgeFacts
<1>4. (t \in Attachments(F, s)) =
        (/\ t \in {f.ref : f \in {g \in OfSubject(F, s) \cap Eligible(F) : g.kind \in Edges}}
         /\ Greatest(EdgeFacts(F, s, t) \cap Eligible(F)).kind = "ReferenceAttached")
  <2> DEFINE D == {f.ref : f \in {g \in OfSubject(F, s) \cap Eligible(F) : g.kind \in Edges}}
             P(x) == Greatest(EdgeFacts(F, s, x) \cap Eligible(F)).kind = "ReferenceAttached"
  <2>1. Attachments(F, s) = {x \in D : P(x)}
    BY Zenon DEF Attachments
  <2> HIDE DEF D, P
  <2>2. (t \in Attachments(F, s)) = (t \in D /\ P(t))
    <3>1. t \in {x \in D : P(x)} <=> t \in D /\ P(t)
      OBVIOUS
    <3>2. P(t) \in BOOLEAN
      BY DEF P
    <3> QED BY <2>1, <3>1, <3>2
  <2> QED BY <2>2 DEF D, P
<1> QED BY <1>2, <1>3, <1>4

\* At every store, whatever has arrived there: the predecessor that admission asks a writer
\* for is the head the snapshot has shown it, and both see the same edges.
THEOREM SnapshotHeadsAreAdmitted == Spec => []HeadsAgree
<1>1. ASSUME RecordInv, KindsFit, StoresFold PROVE HeadsAgree
  <2> SUFFICES ASSUME NEW e \in Range(Envs), NEW s \in Subjects(facts[e]),
                      Folds(facts[e]), Cardinality(Roots(facts[e], s)) = 1
               PROVE  /\ s.rec # "reference" /\ ~ Terminal(facts[e], s) => LastFact(facts[e], s) = Winner(facts[e], s)
                      /\ s.rec = "reference" => \A t \in Subjects(facts[e]) :
                           (t \in Attachments(facts[e], s)) =
                             (EdgeFacts(facts[e], s, t) # {} /\ Greatest(EdgeFacts(facts[e], s, t)).kind = "ReferenceAttached")
    BY DEF HeadsAgree
  <2>1. PICK F : F = facts[e]
    OBVIOUS
  <2>2. Told(F) /\ IsFiniteSet(F)
    BY <1>1, <2>1 DEF StoresFold
  <2>3. \A f \in F : Kinded(f)
    <3>1. facts[e] = HeldAt(e)
      BY <1>1 DEF RecordInv, StoresFit
    <3> QED BY <1>1, <2>1, <3>1 DEF HeldAt, KindsFit
  <2>4. s.rec # "reference" /\ ~ Terminal(F, s) => LastFact(F, s) = Winner(F, s)
    BY <2>1, <2>2, <2>3, HeadIsLast
  <2>5. \A t : (t \in Attachments(F, s)) = (EdgeFacts(F, s, t) # {} /\ Greatest(EdgeFacts(F, s, t)).kind = "ReferenceAttached")
    BY <2>1, <2>2, EdgesAgree
  <2> QED BY <2>1, <2>4, <2>5
<1> QED BY <1>1, RecordsStart, RecordStep, KindsStart, KindsStay, StoreFolds, PTL DEF Spec

----------------------------------------------------------------------------
(* The board: Issues.                                                      *)
(*                                                                         *)
(* That a walk up ends is said without a recursion: no set of issues has   *)
(* all its parents inside itself.  A re-parenting keeps that because the   *)
(* refused parents are the ones below the issue.                           *)

IssueFields == {"parent", "kind", "asks", "body", "status", "archived", "started"}

IssueRowsFit ==
  /\ plan \in Plans
  /\ NoParent \notin Issues
  /\ \A i \in Issues : DOMAIN issue[i] = IssueFields
  /\ \A i \in Issues : issue[i].parent \in Issues \cup {NoParent}
  /\ Issues \subseteq DOMAIN criteria

\* Every set of issues has one whose parent is outside.
NoCycles == \A S \in SUBSET Issues : S # {} => \E i \in S : issue[i].parent \notin S

EventsFit == \A i \in Issues : i \in DOMAIN lastEvent /\ issue[i].status = lastEvent[i]

\* Questions come from issues that had events, and an id with events is not drawn again.
OriginsFit ==
  \A f \in ledger : /\ f.origin \in DOMAIN lastEvent \cup {NoParent}
                    /\ f.origin \in Issues => issue[f.origin].archived

\* n criteria, each with a position of its own.
NumberedTo(crit, n) ==
  /\ Positions(crit) = 1 .. n
  /\ \A c \in crit : DOMAIN c = {"id", "pos"}
  /\ \A c, d \in crit : c.pos = d.pos => c = d

Numbered(crit) == \E n \in Nat : NumberedTo(crit, n)

IssuesInv ==
  /\ IssueRowsFit
  /\ NoCycles
  /\ EventsFit
  /\ OriginsFit
  /\ \A o \in DOMAIN criteria : Numbered(criteria[o])

\* Parents are rows, so the ids named are the ids stored.
LEMMA NamedAreIssues == IssueRowsFit => Named = Issues
BY DEF IssueRowsFit, Named

\* What a walk up from i is: it starts at i, stays among the rows, goes on to
\* every parent, and to nothing else.
LEMMA LineageFits ==
  ASSUME IssueRowsFit, NEW i \in Issues
  PROVE  /\ i \in Lineage(i)
         /\ Lineage(i) \subseteq Issues
         /\ \A k \in Lineage(i) : issue[k].parent \in Lineage(i) \cup {NoParent}
         /\ \A up \in SUBSET Issues : i \in up /\ ClosedUpward(up) => Lineage(i) \subseteq up
<1>1. Lineage(i) = {j \in Issues : \A up \in SUBSET Issues : i \in up /\ ClosedUpward(up) => j \in up}
  BY NamedAreIssues DEF Lineage
<1>2. \A up \in SUBSET Issues : up \cap Issues = up
  OBVIOUS
<1>3. ASSUME NEW k \in Lineage(i), issue[k].parent # NoParent PROVE issue[k].parent \in Lineage(i)
  <2>1. k \in Issues /\ issue[k].parent \in Issues
    BY <1>1, <1>3 DEF IssueRowsFit
  <2>2. ASSUME NEW up \in SUBSET Issues, i \in up, ClosedUpward(up) PROVE issue[k].parent \in up
    <3>1. k \in up
      BY <1>1, <2>2
    <3> QED BY <3>1, <2>1, <2>2, <1>3 DEF ClosedUpward
  <2> QED BY <1>1, <2>1, <2>2
<1> QED BY <1>1, <1>3

\* The walk from an ancestor is the rest of the walk.
LEMMA LineageGoesOn ==
  ASSUME IssueRowsFit, NEW i \in Issues, NEW j \in Lineage(i)
  PROVE  Lineage(j) \subseteq Lineage(i)
<1>1. j \in Issues /\ Lineage(i) \in SUBSET Issues
  BY LineageFits
<1>2. ClosedUpward(Lineage(i))
  BY LineageFits DEF ClosedUpward
<1> QED BY <1>1, <1>2, LineageFits

\* What is above i is the parent of i or above it.
LEMMA LineageOfParent ==
  ASSUME IssueRowsFit, NEW i \in Issues, NEW a \in Lineage(i), a # i
  PROVE  issue[i].parent \in Issues /\ a \in Lineage(issue[i].parent)
<1>1. issue[i].parent \in Issues
  <2> SUFFICES ASSUME issue[i].parent = NoParent PROVE FALSE
    BY DEF IssueRowsFit
  <2>1. ClosedUpward({i})
    BY DEF ClosedUpward
  <2> QED BY <2>1, LineageFits
<1> DEFINE p == issue[i].parent
<1>2. ClosedUpward({i} \cup Lineage(p))
  BY <1>1, LineageFits DEF ClosedUpward
<1>3. {i} \cup Lineage(p) \in SUBSET Issues
  BY <1>1, LineageFits
<1>4. Lineage(i) \subseteq {i} \cup Lineage(p)
  <2> HIDE DEF p
  <2> QED BY <1>2, <1>3, LineageFits
<1> QED BY <1>1, <1>4

\* Every walk up ends at an issue without a parent.
LEMMA WalksEnd ==
  ASSUME IssueRowsFit, NoCycles, NEW i \in Issues
  PROVE  \E r \in Lineage(i) : issue[r].parent = NoParent
<1>1. Lineage(i) \in SUBSET Issues /\ Lineage(i) # {}
  BY LineageFits
<1>2. PICK r \in Lineage(i) : issue[r].parent \notin Lineage(i)
  BY <1>1 DEF NoCycles
<1> QED BY <1>2, LineageFits

\* Two issues above each other are the same.
LEMMA LineageIsAnOrder ==
  ASSUME IssueRowsFit, NoCycles, NEW a \in Issues, NEW b \in Issues, a \in Lineage(b), b \in Lineage(a)
  PROVE  a = b
<1> SUFFICES ASSUME a # b PROVE FALSE
  OBVIOUS
<1> DEFINE S == {x \in Issues : x \in Lineage(a) /\ a \in Lineage(x)}
<1>1. a \in S /\ b \in S
  BY LineageFits
<1>2. PICK k \in S : issue[k].parent \notin S
  BY <1>1 DEF NoCycles
<1>3. CASE k # a
  <2>1. issue[k].parent \in Issues /\ a \in Lineage(issue[k].parent)
    BY <1>2, <1>3, LineageOfParent
  <2>2. issue[k].parent \in Lineage(a)
    BY <2>1, <1>2, LineageFits DEF IssueRowsFit
  <2> QED BY <2>1, <2>2, <1>2
<1>4. CASE k = a
  <2>1. issue[a].parent \in Issues /\ b \in Lineage(issue[a].parent)
    BY LineageOfParent
  <2>2. a \in Lineage(issue[a].parent)
    BY <2>1, LineageGoesOn
  <2>3. issue[a].parent \in Lineage(a)
    BY <2>1, LineageFits DEF IssueRowsFit
  <2> QED BY <2>1, <2>2, <2>3, <1>2, <1>4
<1> QED BY <1>3, <1>4

\* A started ancestor that is the last before the others leave the walk is the nearest.
LEMMA OneIsNearest ==
  ASSUME IssueRowsFit, NoCycles, NEW i \in Issues, StartedAncestors(i) # {}
  PROVE  Cardinality(NearestStartedAncestor(i)) = 1
<1> DEFINE T == StartedAncestors(i)
           U == {x \in Lineage(i) : T \subseteq Lineage(x)}
<1>1. T \subseteq Lineage(i) /\ Lineage(i) \subseteq Issues
  BY LineageFits DEF StartedAncestors
<1>2. i \in U /\ U \in SUBSET Issues
  BY <1>1, LineageFits
<1>3. PICK k \in U : issue[k].parent \notin U
  BY <1>2 DEF NoCycles
<1>4. k \in T
  <2> SUFFICES ASSUME k \notin T PROVE FALSE
    OBVIOUS
  <2>1. k \in Issues /\ \A t \in T : t \in Lineage(k) /\ t # k
    BY <1>2, <1>3
  <2>2. issue[k].parent \in Issues /\ \A t \in T : t \in Lineage(issue[k].parent)
    <3>1. PICK t \in T : TRUE
      OBVIOUS
    <3> QED BY <2>1, <3>1, LineageOfParent
  <2>3. issue[k].parent \in Lineage(i)
    BY <2>2, <1>3, LineageFits DEF IssueRowsFit
  <2> QED BY <2>2, <2>3, <1>3
<1>5. k \in NearestStartedAncestor(i)
  BY <1>3, <1>4 DEF NearestStartedAncestor
<1>6. ASSUME NEW b \in NearestStartedAncestor(i) PROVE b = k
  <2>1. b \in Issues /\ k \in Issues /\ b \in Lineage(k) /\ k \in Lineage(b)
    BY <1>1, <1>3, <1>4, <1>6 DEF NearestStartedAncestor
  <2> QED BY <2>1, LineageIsAnOrder
<1>7. NearestStartedAncestor(i) = {k}
  BY <1>5, <1>6
<1> QED BY <1>7, FS_Singleton

\* The forest, from the two facts about rows.
LEMMA RowsFormForest == IssueRowsFit /\ NoCycles => IssuesFormForest
<1> SUFFICES ASSUME IssueRowsFit, NoCycles PROVE IssuesFormForest
  OBVIOUS
<1>1. TreeShown(TRUE) = Issues
  BY LineageFits DEF TreeShown
<1> QED BY <1>1, WalksEnd, OneIsNearest DEF IssuesFormForest, IssueRowsFit

----------------------------------------------------------------------------
(* Criteria. *)

\* What the positions are.
LEMMA PositionsAre ==
  ASSUME NEW crit, NEW y
  PROVE  y \in Positions(crit) <=> \E c \in crit : c.pos = y
BY DEF Positions

\* Criteria with positions of their own are as many as their positions.
LEMMA PositionsCount ==
  ASSUME NEW crit, IsFiniteSet(Positions(crit)), \A c, d \in crit : c.pos = d.pos => c = d
  PROVE  IsFiniteSet(crit) /\ Cardinality(crit) = Cardinality(Positions(crit))
<1> DEFINE f == [p \in Positions(crit) |-> CHOOSE c \in crit : c.pos = p]
<1>1. \A p \in Positions(crit) : f[p] \in crit /\ f[p].pos = p
  BY DEF Positions
<1>2. \A c \in crit : c.pos \in Positions(crit)
  BY DEF Positions
<1>3. f \in [Positions(crit) -> crit]
  BY <1>1
<1> HIDE DEF f
<1>4. f \in Bijection(Positions(crit), crit)
  BY <1>1, <1>2, <1>3 DEF Bijection, Injection, Surjection, IsInjective
<1>5. ExistsBijection(Positions(crit), crit)
  BY <1>4 DEF ExistsBijection
<1> QED BY <1>5, FS_Bijection

\* Criteria 1 to n are n.
LEMMA NumberedCount ==
  ASSUME NEW crit, NEW n \in Nat, NumberedTo(crit, n)
  PROVE  IsFiniteSet(crit) /\ Cardinality(crit) = n
<1>1. IsFiniteSet(1 .. n) /\ Cardinality(1 .. n) = n
  BY FS_Interval
<1> QED BY <1>1, PositionsCount DEF NumberedTo

\* Counting criteria up to a position counts positions.
LEMMA CountUpTo ==
  ASSUME NEW crit, NEW n \in Nat, NEW x \in Nat, Positions(crit) \subseteq 1 .. n,
         \A c, d \in crit : c.pos = d.pos => c = d
  PROVE  Cardinality({d \in crit : d.pos <= x}) = Cardinality({q \in Positions(crit) : q <= x})
<1> DEFINE low == {d \in crit : d.pos <= x}
<1>1. Positions(low) = {q \in Positions(crit) : q <= x}
  BY DEF Positions
<1>2. IsFiniteSet(Positions(low))
  <2>1. IsFiniteSet(1 .. n)
    BY FS_Interval
  <2> QED BY <1>1, <2>1, FS_Subset
<1>3. \A c, d \in low : c.pos = d.pos => c = d
  OBVIOUS
<1> HIDE DEF low
<1>4. Cardinality(low) = Cardinality(Positions(low))
  BY <1>2, <1>3, PositionsCount
<1> QED BY <1>1, <1>4 DEF low

\* Closing gaps leaves numbers without a gap as they are.
LEMMA CompactedStays ==
  ASSUME NEW crit, NEW n \in Nat, NumberedTo(crit, n)
  PROVE  NumberedTo(Compacted(crit), n)
<1>1. \A c \in crit : c.pos \in 1 .. n
  BY DEF NumberedTo, Positions
<1>2. ASSUME NEW c \in crit PROVE Cardinality({d \in crit : d.pos <= c.pos}) = c.pos
  <2>1. c.pos \in 1 .. n
    BY <1>1
  <2>2. {q \in 1 .. n : q <= c.pos} = 1 .. c.pos
    BY <2>1
  <2>3. Cardinality(1 .. c.pos) = c.pos
    BY <2>1, FS_Interval
  <2>4. Cardinality({d \in crit : d.pos <= c.pos}) = Cardinality({q \in Positions(crit) : q <= c.pos})
    BY <2>1, CountUpTo DEF NumberedTo
  <2> QED BY <2>2, <2>3, <2>4 DEF NumberedTo
<1> DEFINE same(c) == [c EXCEPT !.pos = c.pos]
<1>3. Compacted(crit) = {same(c) : c \in crit}
  BY <1>2 DEF Compacted
<1>4. \A c \in crit : DOMAIN same(c) = {"id", "pos"} /\ same(c).pos = c.pos
  BY DEF NumberedTo
<1> HIDE DEF same
<1>5. \A y : y \in Positions(Compacted(crit)) <=> y \in Positions(crit)
  BY <1>3, <1>4, PositionsAre
<1>6. Positions(Compacted(crit)) = 1 .. n
  BY <1>5 DEF NumberedTo
<1>7. \A c, d \in Compacted(crit) : c.pos = d.pos => c = d
  BY <1>3, <1>4 DEF NumberedTo
<1> QED BY <1>3, <1>4, <1>6, <1>7 DEF NumberedTo

\* Removing one and closing the gap leaves the numbers 1 to n - 1.
LEMMA CompactedWithout ==
  ASSUME NEW crit, NEW n \in Nat, NumberedTo(crit, n), NEW p \in 1 .. n
  PROVE  NumberedTo(Compacted(crit \ {c \in crit : c.pos = p}), n - 1)
<1> DEFINE rest == crit \ {c \in crit : c.pos = p}
           moved(x) == IF x > p THEN x - 1 ELSE x
<1>1. \A c \in crit : c.pos \in 1 .. n
  BY DEF NumberedTo, Positions
<1>2. Positions(rest) = (1 .. n) \ {p}
  BY DEF NumberedTo, Positions
<1>3. \A c, d \in rest : c.pos = d.pos => c = d
  BY DEF NumberedTo
<1>4. \A c \in rest : DOMAIN c = {"id", "pos"}
  BY DEF NumberedTo
<1>5. \A c \in rest : c.pos \in (1 .. n) \ {p}
  BY <1>1
<1> HIDE DEF rest
<1>6. ASSUME NEW c \in rest PROVE Cardinality({d \in rest : d.pos <= c.pos}) = moved(c.pos)
  <2>1. c.pos \in 1 .. n /\ c.pos # p
    BY <1>5
  <2>2. {q \in Positions(rest) : q <= c.pos} = (1 .. c.pos) \ {p}
    BY <1>2, <2>1
  <2>3. IsFiniteSet(1 .. c.pos) /\ Cardinality(1 .. c.pos) = c.pos
    BY <2>1, FS_Interval
  <2>4. Cardinality((1 .. c.pos) \ {p}) = IF p \in 1 .. c.pos THEN c.pos - 1 ELSE c.pos
    BY <2>3, FS_RemoveElement
  <2>5. Cardinality({d \in rest : d.pos <= c.pos}) = Cardinality({q \in Positions(rest) : q <= c.pos})
    <3>1. Positions(rest) \subseteq 1 .. n /\ c.pos \in Nat
      BY <1>2, <2>1
    <3> QED BY <3>1, <1>3, CountUpTo
  <2>6. p \in 1 .. c.pos <=> c.pos > p
    BY <2>1
  <2> QED BY <2>2, <2>4, <2>5, <2>6
<1> DEFINE down(c) == [c EXCEPT !.pos = moved(c.pos)]
<1>7. Compacted(rest) = {down(c) : c \in rest}
  BY <1>6 DEF Compacted
<1>8. \A c \in rest : DOMAIN down(c) = {"id", "pos"} /\ down(c).pos = moved(c.pos)
  BY <1>4
<1>9. Positions(Compacted(rest)) = 1 .. n - 1
  <2>1. Positions(Compacted(rest)) = {moved(q) : q \in Positions(rest)}
    <3> HIDE DEF down, moved
    <3>1. ASSUME NEW y \in Positions(Compacted(rest)) PROVE \E q \in Positions(rest) : y = moved(q)
      BY <1>7, <1>8, PositionsAre
    <3>2. ASSUME NEW q \in Positions(rest) PROVE moved(q) \in Positions(Compacted(rest))
      BY <1>7, <1>8, PositionsAre
    <3> QED BY <3>1, <3>2
  <2>3. {moved(q) : q \in (1 .. n) \ {p}} = 1 .. n - 1
    <3>1. ASSUME NEW q \in (1 .. n) \ {p} PROVE moved(q) \in 1 .. n - 1
      OBVIOUS
    <3>2. ASSUME NEW y \in 1 .. n - 1 PROVE \E q \in (1 .. n) \ {p} : moved(q) = y
      <4>1. CASE y < p
        <5>1. y \in (1 .. n) \ {p} /\ moved(y) = y
          BY <4>1
        <5> QED BY <5>1
      <4>2. CASE ~(y < p)
        <5>1. y + 1 \in (1 .. n) \ {p} /\ moved(y + 1) = y
          BY <4>2
        <5> QED BY <5>1
      <4> QED BY <4>1, <4>2
    <3> QED BY <3>1, <3>2
  <2> QED BY <2>1, <2>3, <1>2
<1>10. \A c \in Compacted(rest) : DOMAIN c = {"id", "pos"}
  BY <1>7, <1>8
<1>11. ASSUME NEW c \in Compacted(rest), NEW d \in Compacted(rest), c.pos = d.pos PROVE c = d
  <2>1. PICK a \in rest : c = down(a)
    BY <1>7
  <2>2. PICK b \in rest : d = down(b)
    BY <1>7
  <2>3. moved(a.pos) = moved(b.pos)
    BY <1>8, <1>11, <2>1, <2>2
  <2>4. a.pos = b.pos
    <3>1. a.pos \in (1 .. n) \ {p} /\ b.pos \in (1 .. n) \ {p}
      BY <1>5
    <3> QED BY <2>3, <3>1
  <2> QED BY <1>3, <2>1, <2>2, <2>4
<1> QED BY <1>9, <1>10, <1>11 DEF NumberedTo, rest

\* One more criterion at the end.
LEMMA OneMore ==
  ASSUME NEW crit, NEW n \in Nat, NumberedTo(crit, n), NEW x
  PROVE  NumberedTo(crit \cup {[id |-> x, pos |-> n + 1]}, n + 1)
<1> DEFINE last == [id |-> x, pos |-> n + 1]
           more == crit \cup {last}
<1>1. last.pos = n + 1 /\ DOMAIN last = {"id", "pos"}
  OBVIOUS
<1> HIDE DEF last
<1>2. Positions(more) = 1 .. n + 1
  <2>1. \A y : y \in Positions(more) <=> \E c \in crit \cup {last} : c.pos = y
    BY PositionsAre
  <2>2. \A y : y \in Positions(more) <=> y \in Positions(crit) \/ y = n + 1
    BY <1>1, <2>1, PositionsAre
  <2>3. \A y : y \in 1 .. n + 1 <=> y \in 1 .. n \/ y = n + 1
    OBVIOUS
  <2> QED BY <2>2, <2>3 DEF NumberedTo
<1>3. \A c \in crit : c.pos \in 1 .. n
  BY DEF NumberedTo, Positions
<1>4. \A c, d \in more : c.pos = d.pos => c = d
  BY <1>1, <1>3 DEF NumberedTo
<1>5. \A c \in more : DOMAIN c = {"id", "pos"}
  BY <1>1 DEF NumberedTo
<1> HIDE DEF more
<1>6. NumberedTo(more, n + 1)
  BY <1>2, <1>4, <1>5 DEF NumberedTo
<1> QED BY <1>6 DEF more, last

\* The position after the largest.
LEMMA NextIsNext ==
  ASSUME NEW crit, NEW n \in Nat, NumberedTo(crit, n)
  PROVE  NextPosition(crit) = n + 1
<1>1. CASE crit = {}
  <2>1. Positions(crit) = {}
    BY <1>1 DEF Positions
  <2>2. n = 0
    <3> SUFFICES ASSUME n # 0 PROVE FALSE
      OBVIOUS
    <3>1. 1 \in 1 .. n
      OBVIOUS
    <3> QED BY <2>1, <3>1 DEF NumberedTo
  <2> QED BY <1>1, <2>2 DEF NextPosition
<1>2. CASE crit # {}
  <2>1. n \in 1 .. n
    <3>1. PICK c \in crit : TRUE
      BY <1>2
    <3>2. c.pos \in 1 .. n
      BY DEF NumberedTo, Positions
    <3> QED BY <3>2
  <2>2. Max(1 .. n) = n
    <3>1. \A y \in 1 .. n : n >= y
      OBVIOUS
    <3>2. ASSUME NEW y \in 1 .. n, \A z \in 1 .. n : y >= z PROVE y = n
      BY <2>1, <3>2
    <3> QED BY <2>1, <3>1, <3>2 DEF Max
  <2> QED BY <1>2, <2>2 DEF NextPosition, NumberedTo
<1> QED BY <1>1, <1>2

\* A list that was rewritten is numbered.
LEMMA ReplacedNumbered ==
  ASSUME NEW crit, NEW n \in Nat, NumberedTo(crit, n), NEW m \in 0 .. n + 1
  PROVE  Numbered(Replaced(crit, m))
<1> DEFINE all == Compacted(crit)
           stay == {c \in all : c.pos <= m}
<1>1. NumberedTo(all, n)
  BY CompactedStays
<1> HIDE DEF all
<1>2. CASE m <= n
  <2>1. NumberedTo(stay, m)
    BY <1>1, <1>2 DEF NumberedTo, Positions
  <2>2. Cardinality(stay) = m
    BY <2>1, NumberedCount
  <2>3. Replaced(crit, m) = stay
    BY <2>2 DEF Replaced, all
  <2> QED BY <2>1, <2>3 DEF Numbered
<1>3. CASE m = n + 1
  <2>1. NumberedTo(stay, n)
    BY <1>1, <1>3 DEF NumberedTo, Positions
  <2>2. Cardinality(stay) = n
    BY <2>1, NumberedCount
  <2>3. Replaced(crit, m) = stay \cup {[id |-> FreshCriterion, pos |-> n + 1]}
    <3>1. Replaced(crit, m) = stay \cup (IF m > Cardinality(stay)
                                        THEN {[id |-> FreshCriterion, pos |-> Cardinality(stay) + 1]} ELSE {})
      BY DEF Replaced, all
    <3> HIDE DEF stay
    <3> QED BY <3>1, <2>2, <1>3
  <2> HIDE DEF stay
  <2>4. NumberedTo(stay \cup {[id |-> FreshCriterion, pos |-> n + 1]}, n + 1)
    BY <2>1, OneMore
  <2> QED BY <2>3, <2>4 DEF Numbered
<1> QED BY <1>2, <1>3

\* So is one written anew at the positions 1 to n, whatever ids it gets.
LEMMA FreshNumbered ==
  ASSUME NEW n \in Nat
  PROVE  Numbered(FreshAt(1 .. n))
<1> DEFINE positions == 1 .. n
           ids == CHOOSE s \in SUBSET (1..(Cardinality(CriterionIds) + Cardinality(positions))) :
                    s \cap CriterionIds = {} /\ Cardinality(s) = Cardinality(positions)
           rank(S, x) == Cardinality({y \in S : y <= x})
           row(p) == [id |-> CHOOSE x \in ids : rank(ids, x) = rank(positions, p), pos |-> p]
<1>1. FreshAt(1 .. n) = {row(p) : p \in 1 .. n}
  BY DEF FreshAt
<1>3. \A p \in 1 .. n : row(p).pos = p /\ DOMAIN row(p) = {"id", "pos"}
  OBVIOUS
<1> HIDE DEF row
<1>4. \A y : y \in Positions(FreshAt(1 .. n)) <=> y \in 1 .. n
  BY <1>1, <1>3, PositionsAre
<1>5. Positions(FreshAt(1 .. n)) = 1 .. n
  BY <1>4
<1>6. NumberedTo(FreshAt(1 .. n), n)
  BY <1>1, <1>3, <1>5 DEF NumberedTo
<1> QED BY <1>6 DEF Numbered

\* No criteria, and one criterion.
LEMMA FewNumbered ==
  /\ Numbered({})
  /\ \A x : Numbered({[id |-> x, pos |-> 1]})
<1>1. NumberedTo({}, 0)
  BY DEF NumberedTo, Positions
<1>2. ASSUME NEW x PROVE NumberedTo({[id |-> x, pos |-> 1]}, 1)
  BY DEF NumberedTo, Positions
<1> QED BY <1>1, <1>2 DEF Numbered

----------------------------------------------------------------------------
(* The steps. *)

CriteriaFit == \A o \in DOMAIN criteria : Numbered(criteria[o])

\* An id that is drawn has no events and is no row's.
LEMMA NewIdIsNew ==
  ASSUME IssuesInv, CanCreate
  PROVE  NewIssueId \notin Issues /\ NewIssueId \notin DOMAIN lastEvent /\ NewIssueId # NoParent
<1> DEFINE free == plan.ids \ DOMAIN lastEvent
<1>1. free \subseteq Nat \ {NoParent} /\ free # {}
  BY PlansAssumption DEF IssuesInv, IssueRowsFit, CanCreate
<1>2. PICK m \in free : \A x \in free : m <= x
  BY <1>1, LeastMember
<1>3. NewIssueId = CHOOSE x \in free : \A y \in free : x <= y
  BY DEF NewIssueId, Min
<1>4. NewIssueId \in free
  BY <1>2, <1>3
<1> QED BY <1>1, <1>4 DEF IssuesInv, EventsFit

\* A command that writes no row of an issue.
LEMMA RowsUntouched ==
  ASSUME IssuesInv, UNCHANGED <<plan, issue, lastEvent>>, OriginsFit', CriteriaFit',
         Issues \subseteq DOMAIN criteria'
  PROVE  IssuesInv'
<1>1. Issues' = Issues
  BY DEF Issues
<1>2. IssueRowsFit'
  BY <1>1 DEF IssuesInv, IssueRowsFit
<1>3. NoCycles'
  BY <1>1 DEF IssuesInv, NoCycles
<1>4. EventsFit'
  BY <1>1 DEF IssuesInv, EventsFit
<1> QED BY <1>2, <1>3, <1>4 DEF IssuesInv, CriteriaFit

\* A command that writes rows but moves none.
LEMMA RowsUnmoved ==
  ASSUME IssuesInv, plan' = plan, DOMAIN issue' = Issues,
         \A i \in Issues : DOMAIN issue'[i] = IssueFields /\ issue'[i].parent = issue[i].parent,
         EventsFit', OriginsFit', CriteriaFit', Issues \subseteq DOMAIN criteria'
  PROVE  IssuesInv'
<1>1. Issues' = Issues
  BY DEF Issues
<1>2. IssueRowsFit'
  BY <1>1 DEF IssuesInv, IssueRowsFit
<1>3. NoCycles'
  BY <1>1 DEF IssuesInv, NoCycles
<1> QED BY <1>2, <1>3 DEF IssuesInv, CriteriaFit

\* The event goes with the status.
LEMMA EventsFollow ==
  ASSUME IssuesInv, NEW i \in Issues, NEW status, DOMAIN issue' = Issues,
         issue'[i].status = status, \A j \in Issues \ {i} : issue'[j] = issue[j],
         lastEvent' = IF status # issue[i].status THEN StatusEvent(i, status) ELSE lastEvent
  PROVE  EventsFit' /\ DOMAIN lastEvent' = DOMAIN lastEvent
<1>1. Issues' = Issues
  BY DEF Issues
<1>2. i \in DOMAIN lastEvent
  BY DEF IssuesInv, EventsFit
<1> QED BY <1>1, <1>2 DEF IssuesInv, EventsFit, StatusEvent, Upserted

\* Questions stay where they came from.
LEMMA OriginsStay ==
  ASSUME IssuesInv, ledger' = ledger, Issues' \subseteq Issues, DOMAIN lastEvent \subseteq DOMAIN lastEvent',
         \A i \in Issues' : issue[i].archived => issue'[i].archived
  PROVE  OriginsFit'
BY DEF IssuesInv, OriginsFit

\* A command that takes one status, and writes no parent and no question.
LEMMA RowWritten ==
  ASSUME IssuesInv, NEW i \in Issues, NEW status, plan' = plan, ledger' = ledger,
         DOMAIN issue' = Issues, \A j \in Issues \ {i} : issue'[j] = issue[j],
         DOMAIN issue'[i] = IssueFields, issue'[i].parent = issue[i].parent,
         issue'[i].status = status, issue[i].archived => issue'[i].archived,
         lastEvent' = IF status # issue[i].status THEN StatusEvent(i, status) ELSE lastEvent,
         CriteriaFit', Issues \subseteq DOMAIN criteria'
  PROVE  IssuesInv'
<1>1. EventsFit' /\ DOMAIN lastEvent' = DOMAIN lastEvent
  BY EventsFollow
<1>2. OriginsFit'
  <2>1. Issues' = Issues
    BY DEF Issues
  <2> QED BY <1>1, <2>1, OriginsStay
<1>3. \A j \in Issues : DOMAIN issue'[j] = IssueFields /\ issue'[j].parent = issue[j].parent
  BY DEF IssuesInv, IssueRowsFit
<1> QED BY <1>1, <1>2, <1>3, RowsUnmoved

\* Without a word about criteria.
LEMMA CriteriaStay ==
  ASSUME IssuesInv, UNCHANGED criteria
  PROVE  CriteriaFit' /\ Issues \subseteq DOMAIN criteria'
BY DEF IssuesInv, CriteriaFit, IssueRowsFit

\* One list changes.
LEMMA OneListWritten ==
  ASSUME IssuesInv, NEW o, NEW list,
         \/ criteria' = Upserted(criteria, o, list) /\ Numbered(list)
         \/ criteria' = [criteria EXCEPT ![o] = list] /\ (o \in DOMAIN criteria => Numbered(list))
  PROVE  CriteriaFit' /\ Issues \subseteq DOMAIN criteria'
<1>1. \A x \in DOMAIN criteria' : \/ criteria'[x] = list /\ Numbered(list)
                                  \/ x \in DOMAIN criteria /\ criteria'[x] = criteria[x]
  BY DEF Upserted
<1>2. DOMAIN criteria \subseteq DOMAIN criteria'
  BY DEF Upserted
<1> QED BY <1>1, <1>2 DEF IssuesInv, CriteriaFit, IssueRowsFit

\* A new row with its first event, under an issue or under none.
LEMMA RowAdded ==
  ASSUME IssuesInv, CanCreate, NEW row, NEW list, Numbered(list),
         DOMAIN row = IssueFields, row.parent \in Issues \cup {NoParent}, row.status = "triage",
         issue' = Upserted(issue, NewIssueId, row), criteria' = Upserted(criteria, NewIssueId, list),
         lastEvent' = StatusEvent(NewIssueId, "triage"), UNCHANGED <<plan, ledger>>
  PROVE  IssuesInv'
<1> DEFINE n == NewIssueId
<1>1. n \notin Issues /\ n \notin DOMAIN lastEvent /\ n # NoParent
  BY NewIdIsNew
<1> HIDE DEF n
<1>2. Issues' = Issues \cup {n} /\ issue'[n] = row /\ \A i \in Issues : issue'[i] = issue[i]
  BY <1>1 DEF Issues, Upserted, n
<1>3. DOMAIN lastEvent' = DOMAIN lastEvent \cup {n} /\ lastEvent'[n] = "triage"
      /\ \A i \in Issues : lastEvent'[i] = lastEvent[i]
  BY <1>1 DEF StatusEvent, Upserted, n, IssuesInv, EventsFit
<1>4. CriteriaFit' /\ Issues \cup {n} \subseteq DOMAIN criteria'
  BY OneListWritten DEF Upserted, n
<1>5. IssueRowsFit'
  BY <1>1, <1>2, <1>4 DEF IssuesInv, IssueRowsFit
<1>6. NoCycles'
  <2> SUFFICES ASSUME NEW S \in SUBSET (Issues \cup {n}), S # {}
               PROVE  \E i \in S : issue'[i].parent \notin S
    BY <1>2 DEF NoCycles
  <2>1. CASE S \cap Issues = {}
    <3>1. S = {n}
      BY <2>1
    <3>2. row.parent # n
      BY <1>1
    <3> QED BY <1>2, <3>1, <3>2
  <2>2. CASE S \cap Issues # {}
    <3>1. PICK i \in S \cap Issues : issue[i].parent \notin S \cap Issues
      BY <2>2 DEF IssuesInv, NoCycles
    <3>2. issue[i].parent \in Issues \cup {NoParent}
      BY DEF IssuesInv, IssueRowsFit
    <3>3. issue[i].parent \notin S
      BY <1>1, <3>1, <3>2 DEF IssuesInv, IssueRowsFit
    <3> QED BY <1>2, <3>1, <3>3
  <2> QED BY <2>1, <2>2
<1>7. EventsFit'
  BY <1>1, <1>2, <1>3 DEF IssuesInv, EventsFit
<1>8. OriginsFit'
  BY <1>1, <1>2, <1>3 DEF IssuesInv, OriginsFit
<1> QED BY <1>4, <1>5, <1>6, <1>7, <1>8 DEF IssuesInv, CriteriaFit

\* A move that the walk up from the new parent has allowed makes no cycle.
LEMMA MoveStep ==
  ASSUME IssuesInv, NEW i \in Issues, NEW parent, UpdateIssueParent(i, parent)
  PROVE  IssuesInv'
<1> USE DEF UpdateIssueParent
<1>1. Issues' = Issues /\ \A j \in Issues \ {i} : issue'[j] = issue[j]
  BY DEF Issues
<1>2. issue'[i] = [issue[i] EXCEPT !.parent = parent]
  BY DEF Issues
<1>3. DOMAIN issue'[i] = IssueFields /\ issue'[i].parent = parent
      /\ issue'[i].status = issue[i].status /\ issue'[i].archived = issue[i].archived
  BY <1>2 DEF IssuesInv, IssueRowsFit, IssueFields
<1>4. parent \in Issues \cup {NoParent}
  OBVIOUS
<1>5. IssueRowsFit'
  BY <1>1, <1>3, <1>4 DEF IssuesInv, IssueRowsFit
<1>6. NoCycles'
  <2> SUFFICES ASSUME NEW S \in SUBSET Issues, S # {}, \A j \in S : issue'[j].parent \in S
               PROVE  FALSE
    BY <1>1 DEF NoCycles
  <2>1. i \in S
    BY <1>1 DEF IssuesInv, NoCycles
  <2>2. parent \in S /\ parent # NoParent /\ parent \in Issues
    BY <2>1, <1>3 DEF IssuesInv, IssueRowsFit
  <2>3. PICK up \in SUBSET Issues : parent \in up /\ ClosedUpward(up) /\ i \notin up
    <3>1. i \notin Lineage(parent)
      BY <2>2 DEF ParentAllowed
    <3> QED BY <3>1, NamedAreIssues DEF Lineage, IssuesInv
  <2>4. S \cap up # {}
    BY <2>2, <2>3
  <2>5. PICK k \in S \cap up : issue[k].parent \notin S \cap up
    BY <2>4 DEF IssuesInv, NoCycles
  <2>6. k # i /\ k \in Issues
    BY <2>3
  <2>7. issue[k].parent \in S
    BY <1>1, <2>6
  <2>8. issue[k].parent \in up
    BY <2>3, <2>6, <2>7 DEF ClosedUpward, IssuesInv, IssueRowsFit
  <2> QED BY <2>5, <2>7, <2>8
<1>7. EventsFit'
  BY <1>1, <1>3 DEF IssuesInv, EventsFit
<1>8. OriginsFit'
  BY <1>1, <1>3, OriginsStay
<1> QED BY <1>5, <1>6, <1>7, <1>8, CriteriaStay DEF IssuesInv, CriteriaFit

\* Deleting a row detaches its children.
LEMMA DeleteStep ==
  ASSUME IssuesInv, NEW i \in Issues, HardDeleteIssue(i)
  PROVE  IssuesInv'
<1> USE DEF HardDeleteIssue
<1> DEFINE moved(j) == IF issue[j].parent = i THEN [issue[j] EXCEPT !.parent = NoParent] ELSE issue[j]
<1>1. Issues' = Issues \ {i} /\ \A j \in Issues \ {i} : issue'[j] = moved(j)
  BY DEF Issues
<1>2. ASSUME NEW j \in Issues
      PROVE  /\ DOMAIN moved(j) = IssueFields
             /\ moved(j).parent = IF issue[j].parent = i THEN NoParent ELSE issue[j].parent
             /\ moved(j).status = issue[j].status /\ moved(j).archived = issue[j].archived
  BY DEF IssuesInv, IssueRowsFit, IssueFields
<1> HIDE DEF moved
<1>3. DOMAIN criteria' = DOMAIN criteria \ {i} /\ \A o \in DOMAIN criteria \ {i} : criteria'[o] = criteria[o]
  BY DEF Restrict
<1>4. IssueRowsFit'
  BY <1>1, <1>2, <1>3 DEF IssuesInv, IssueRowsFit
<1>5. NoCycles'
  <2> SUFFICES ASSUME NEW S \in SUBSET (Issues \ {i}), S # {}
               PROVE  \E j \in S : issue'[j].parent \notin S
    BY <1>1 DEF NoCycles
  <2>1. PICK j \in S : issue[j].parent \notin S
    BY DEF IssuesInv, NoCycles
  <2> QED BY <1>1, <1>2, <2>1 DEF IssuesInv, IssueRowsFit
<1>6. EventsFit'
  BY <1>1, <1>2 DEF IssuesInv, EventsFit
<1>7. OriginsFit'
  BY <1>1, <1>2, OriginsStay
<1>8. CriteriaFit'
  BY <1>3 DEF IssuesInv, CriteriaFit
<1> QED BY <1>4, <1>5, <1>6, <1>7, <1>8 DEF IssuesInv, CriteriaFit

\* The commands of the tree.
LEMMA TreeStep ==
  ASSUME IssuesInv, TreeNext
  PROVE  IssuesInv'
<1> USE DEF Issues
<1>1. ASSUME NEW p \in Issues \cup {NoParent}, NEW b, NEW c \in BOOLEAN, CreateIssue(p, b, c) PROVE IssuesInv'
  <2> USE <1>1 DEF CreateIssue
  <2>1. DOMAIN NewRow(p, "delivery", FALSE, b) = IssueFields
        /\ NewRow(p, "delivery", FALSE, b).parent = p /\ NewRow(p, "delivery", FALSE, b).status = "triage"
    BY DEF NewRow, IssueFields
  <2>2. Numbered(IF c THEN {[id |-> FreshCriterion, pos |-> 1]} ELSE {})
    BY FewNumbered
  <2> QED BY <2>1, <2>2, RowAdded
<1>2. ASSUME NEW p \in Issues \cup {NoParent}, NEW a, NEW b, CreateLegacyDecision(p, a, b) PROVE IssuesInv'
  <2> USE <1>2 DEF CreateLegacyDecision
  <2>1. DOMAIN NewRow(p, "decision", a, b) = IssueFields
        /\ NewRow(p, "decision", a, b).parent = p /\ NewRow(p, "decision", a, b).status = "triage"
    BY DEF NewRow, IssueFields
  <2> QED BY <2>1, FewNumbered, RowAdded
<1>3. ASSUME NEW p, NEW a, NEW b, CreateDecision(a, b, p) PROVE IssuesInv'
  <2> USE <1>3 DEF CreateDecision, RecordDecisionQuestion
  <2>1. OriginsFit'
    BY DEF IssuesInv, OriginsFit, IssueRowsFit
  <2> QED BY <2>1, CriteriaStay, RowsUntouched
<1>4. ASSUME NEW i \in Issues, NEW p, UpdateIssueParent(i, p) PROVE IssuesInv'
  BY <1>4, MoveStep
<1>5. ASSUME NEW i \in Issues, NEW s, UpdateIssueStatus(i, s) PROVE IssuesInv'
  <2> USE <1>5 DEF UpdateIssueStatus
  <2>1. issue'[i] = [issue[i] EXCEPT !.status = s] /\ DOMAIN issue[i] = IssueFields
    BY DEF IssuesInv, IssueRowsFit
  <2>2. DOMAIN issue'[i] = IssueFields /\ issue'[i].parent = issue[i].parent
        /\ issue'[i].status = s /\ issue'[i].archived = issue[i].archived
    BY <2>1 DEF IssueFields
  <2> QED BY <2>2, CriteriaStay, RowWritten
<1>6. ASSUME NEW i \in Issues, NEW k, NEW b, UpdateIssueText(i, k, b) PROVE IssuesInv'
  <2> USE <1>6 DEF UpdateIssueText
  <2>1. issue'[i] = [issue[i] EXCEPT !.kind = k, !.body = b] /\ DOMAIN issue[i] = IssueFields
    BY DEF IssuesInv, IssueRowsFit
  <2>2. DOMAIN issue'[i] = IssueFields /\ issue'[i].parent = issue[i].parent
        /\ issue'[i].status = issue[i].status /\ issue'[i].archived = issue[i].archived
    BY <2>1 DEF IssueFields
  <2> QED BY <2>2, CriteriaStay, RowWritten
<1>7. ASSUME NEW i \in Issues, UpdateIssueStarted(i) PROVE IssuesInv'
  <2> USE <1>7 DEF UpdateIssueStarted
  <2>1. issue'[i] = [issue[i] EXCEPT !.started = "branch", !.status = "active"] /\ DOMAIN issue[i] = IssueFields
    BY DEF IssuesInv, IssueRowsFit
  <2>2. DOMAIN issue'[i] = IssueFields /\ issue'[i].parent = issue[i].parent
        /\ issue'[i].status = "active" /\ issue'[i].archived = issue[i].archived
    BY <2>1 DEF IssueFields
  <2>3. lastEvent' = IF "active" # issue[i].status THEN StatusEvent(i, "active") ELSE lastEvent
    OBVIOUS
  <2> QED BY <2>2, <2>3, CriteriaStay, RowWritten
<1>8. ASSUME NEW i \in Issues, UpdateIssueStopped(i) PROVE IssuesInv'
  <2> USE <1>8 DEF UpdateIssueStopped
  <2>1. issue'[i] = [issue[i] EXCEPT !.started = "no"] /\ DOMAIN issue[i] = IssueFields
    BY DEF IssuesInv, IssueRowsFit
  <2>2. DOMAIN issue'[i] = IssueFields /\ issue'[i].parent = issue[i].parent
        /\ issue'[i].status = issue[i].status /\ issue'[i].archived = issue[i].archived
    BY <2>1 DEF IssueFields
  <2> QED BY <2>2, CriteriaStay, RowWritten
<1>9. ASSUME NEW i \in Issues, HardDeleteIssue(i) PROVE IssuesInv'
  BY <1>9, DeleteStep
<1>10. ASSUME NEW i \in Issues, NEW s, NEW j, RemoveIssue(i, s, j) PROVE IssuesInv'
  <2> USE <1>10 DEF RemoveIssue
  <2>1. issue'[i] = [issue[i] EXCEPT !.status = s, !.archived = TRUE] /\ DOMAIN issue[i] = IssueFields
    BY DEF IssuesInv, IssueRowsFit
  <2>2. DOMAIN issue'[i] = IssueFields /\ issue'[i].parent = issue[i].parent
        /\ issue'[i].status = s /\ issue'[i].archived = TRUE
    BY <2>1 DEF IssueFields
  <2> QED BY <2>2, CriteriaStay, RowWritten
<1>11. ASSUME UNCHANGED <<plan, issue, lastEvent, criteria, ledger>> PROVE IssuesInv'
  <2>1. OriginsFit'
    BY <1>11 DEF IssuesInv, OriginsFit
  <2> QED BY <1>11, <2>1, CriteriaStay, RowsUntouched
<1>12. ASSUME NEW i \in Issues, NEW r \in BOOLEAN, ReHomeDecisionIssue(i, r) PROVE IssuesInv'
  <2> USE <1>12 DEF ReHomeDecisionIssue, Retire
  <2>1. issue'[i] = [issue[i] EXCEPT !.status = "cancelled", !.archived = TRUE] /\ DOMAIN issue[i] = IssueFields
    BY DEF IssuesInv, IssueRowsFit
  <2>2. DOMAIN issue'[i] = IssueFields /\ issue'[i].parent = issue[i].parent
        /\ issue'[i].status = "cancelled" /\ issue'[i].archived = TRUE
    BY <2>1 DEF IssueFields
  <2>3. DOMAIN issue' = Issues /\ \A j \in Issues \ {i} : issue'[j] = issue[j]
    OBVIOUS
  <2>4. lastEvent' = IF "cancelled" # issue[i].status THEN StatusEvent(i, "cancelled") ELSE lastEvent
    OBVIOUS
  <2>5. EventsFit' /\ DOMAIN lastEvent' = DOMAIN lastEvent
    BY <2>2, <2>3, <2>4, EventsFollow
  <2>6. OriginsFit'
    <3>1. \A f \in ledger' : f \in ledger \/ f.origin = i
      OBVIOUS
    <3>2. i \in DOMAIN lastEvent
      BY DEF IssuesInv, EventsFit
    <3>3. \A f \in ledger' : f.origin \in DOMAIN lastEvent' \cup {NoParent}
      BY <3>1, <3>2, <2>5 DEF IssuesInv, OriginsFit
    <3>4. ASSUME NEW f \in ledger', f.origin \in Issues PROVE issue'[f.origin].archived
      BY <3>1, <3>4, <2>2, <2>3 DEF IssuesInv, OriginsFit
    <3> QED BY <3>3, <3>4, <2>3 DEF OriginsFit
  <2>7. \A j \in Issues : DOMAIN issue'[j] = IssueFields /\ issue'[j].parent = issue[j].parent
    BY <2>2, <2>3 DEF IssuesInv, IssueRowsFit
  <2> HIDE DEF ReHomeDecisionIssue, Retire
  <2>8. plan' = plan /\ criteria' = criteria
    BY DEF ReHomeDecisionIssue
  <2> QED BY <2>3, <2>5, <2>6, <2>7, <2>8, CriteriaStay, RowsUnmoved
<1> QED
  BY <1>1, <1>2, <1>3, <1>4, <1>5, <1>6, <1>7, <1>8, <1>9, <1>10, <1>11, <1>12
  DEF TreeNext, CreateIssueLink, RemoveIssueLink, SetIssueBucket

\* Commands on criteria, of issues and of contracts, write one list and no question.
LEMMA ListWritten ==
  ASSUME IssuesInv, UNCHANGED <<plan, issue, lastEvent, ledger>>, NEW o, NEW list,
         \/ criteria' = Upserted(criteria, o, list) /\ Numbered(list)
         \/ criteria' = [criteria EXCEPT ![o] = list] /\ (o \in DOMAIN criteria => Numbered(list))
  PROVE  IssuesInv'
<1>1. OriginsFit'
  BY DEF IssuesInv, OriginsFit, Issues
<1> QED BY <1>1, OneListWritten, RowsUntouched

\* The three ways a list changes.
LEMMA ListsNumbered ==
  ASSUME IssuesInv, NEW o \in DOMAIN criteria
  PROVE  /\ \A m \in Nat : m <= Cardinality(criteria[o]) + 1 => Numbered(Replaced(criteria[o], m))
         /\ \A x : Numbered(criteria[o] \cup {[id |-> x, pos |-> NextPosition(criteria[o])]})
         /\ \A x : Numbered(criteria[o] \cup {[id |-> x, pos |-> Cardinality(criteria[o]) + 1]})
         /\ \A p : CriterionAt(o, p) # {} => Numbered(Compacted(criteria[o] \ CriterionAt(o, p)))
<1>1. PICK n \in Nat : NumberedTo(criteria[o], n)
  BY DEF IssuesInv, Numbered
<1>2. Cardinality(criteria[o]) = n /\ NextPosition(criteria[o]) = n + 1
  BY <1>1, NumberedCount, NextIsNext
<1>3. ASSUME NEW m \in Nat, m <= n + 1 PROVE Numbered(Replaced(criteria[o], m))
  BY <1>1, <1>3, ReplacedNumbered
<1>4. ASSUME NEW x PROVE Numbered(criteria[o] \cup {[id |-> x, pos |-> n + 1]})
  BY <1>1, OneMore DEF Numbered
<1>5. ASSUME NEW p, CriterionAt(o, p) # {} PROVE Numbered(Compacted(criteria[o] \ CriterionAt(o, p)))
  <2>1. p \in 1 .. n
    BY <1>1, <1>5 DEF CriterionAt, NumberedTo, Positions
  <2>2. NumberedTo(Compacted(criteria[o] \ {c \in criteria[o] : c.pos = p}), n - 1)
    BY <1>1, <2>1, CompactedWithout
  <2>3. CriterionAt(o, p) = {c \in criteria[o] : c.pos = p}
    BY DEF CriterionAt
  <2>4. n - 1 \in Nat
    BY <2>1
  <2> QED BY <2>2, <2>3, <2>4 DEF Numbered
<1> QED BY <1>2, <1>3, <1>4, <1>5

\* The commands on an issue's criteria.
LEMMA CriteriaStep ==
  ASSUME IssuesInv, CriteriaNext
  PROVE  IssuesInv'
<1> SUFFICES ASSUME NEW i \in Issues, NEW p \in Nat,
                    \/ ReplaceIssueCriteria(i, p)
                    \/ AddIssueCriterion(i, p)
                    \/ RemoveIssueCriterion(i, p)
                    \/ PromoteIssueCriterion(i, p)
                    \/ \E q : ClaimIssueCriterion(i, p, q) \/ UnclaimIssueCriterion(i, p, q)
             PROVE  IssuesInv'
  BY PlansAssumption DEF CriteriaNext, IssuesInv, IssueRowsFit
<1>1. i \in DOMAIN criteria
  BY DEF IssuesInv, IssueRowsFit
<1>2. CASE ReplaceIssueCriteria(i, p)
  BY <1>1, <1>2, ListsNumbered, ListWritten DEF ReplaceIssueCriteria
<1>3. CASE AddIssueCriterion(i, p)
  BY <1>1, <1>3, ListsNumbered, ListWritten DEF AddIssueCriterion
<1>4. CASE RemoveIssueCriterion(i, p)
  BY <1>1, <1>4, ListsNumbered, ListWritten DEF RemoveIssueCriterion
<1>5. CASE PromoteIssueCriterion(i, p)
  <2> USE <1>5 DEF PromoteIssueCriterion
  <2>1. DOMAIN NewRow(i, "delivery", FALSE, "empty") = IssueFields
        /\ NewRow(i, "delivery", FALSE, "empty").parent = i /\ NewRow(i, "delivery", FALSE, "empty").status = "triage"
    BY DEF NewRow, IssueFields
  <2> QED BY <2>1, FewNumbered, RowAdded
<1>6. CASE \E q : ClaimIssueCriterion(i, p, q) \/ UnclaimIssueCriterion(i, p, q)
  <2>1. UNCHANGED <<plan, issue, lastEvent, criteria, ledger>>
    BY <1>6 DEF ClaimIssueCriterion, UnclaimIssueCriterion
  <2>2. OriginsFit'
    BY <2>1 DEF IssuesInv, OriginsFit, Issues
  <2> QED BY <2>1, <2>2, CriteriaStay, RowsUntouched
<1> QED BY <1>2, <1>3, <1>4, <1>5, <1>6

\* The commands on contracts, and an issue rendered out to one.
LEMMA ContractStep ==
  ASSUME IssuesInv, ContractNext
  PROVE  IssuesInv'
<1>1. ASSUME NEW r, NEW p, NEW n \in 0 .. 1, CreateWorkContract(r, p, n) PROVE IssuesInv'
  <2>1. Numbered(IF n = 0 THEN {} ELSE {[id |-> FreshCriterion, pos |-> 1]})
    BY FewNumbered
  <2> QED BY <1>1, <2>1, ListWritten DEF CreateWorkContract
<1>2. ASSUME NEW r, NEW n \in Nat, ReplaceWorkContractCriteria(r, n) PROVE IssuesInv'
  BY <1>2, FreshNumbered, ListWritten DEF ReplaceWorkContractCriteria
<1>3. ASSUME NEW r, NEW p, RemoveWorkContractCriterion(r, p) PROVE IssuesInv'
  BY <1>3, ListsNumbered, ListWritten DEF RemoveWorkContractCriterion
<1>4. ASSUME NEW r, AddWorkContractCriterion(r) PROVE IssuesInv'
  BY <1>4, ListsNumbered, ListWritten DEF AddWorkContractCriterion
<1>5. ASSUME UNCHANGED <<plan, issue, lastEvent, criteria, ledger>> PROVE IssuesInv'
  <2>1. OriginsFit'
    BY <1>5 DEF IssuesInv, OriginsFit, Issues
  <2> QED BY <1>5, <2>1, CriteriaStay, RowsUntouched
<1>6. ASSUME NEW i \in Issues, NEW r, NEW b \in BOOLEAN, RenderOutIssue(i, r, b) PROVE IssuesInv'
  <2> DEFINE list == FreshAt(Positions(criteria[i]))
  <2>1. Numbered(list)
    <3>1. PICK n \in Nat : NumberedTo(criteria[i], n)
      BY DEF IssuesInv, Numbered, IssueRowsFit
    <3> QED BY <3>1, FreshNumbered DEF NumberedTo
  <2>2. criteria' = Upserted(criteria, r, list) /\ plan' = plan /\ ledger' = ledger
        /\ (IF b THEN Retire(i) ELSE UNCHANGED <<issue, lastEvent>>)
    BY <1>6 DEF RenderOutIssue
  <2> HIDE DEF list
  <2>3. CASE ~b
    BY <2>1, <2>2, <2>3, ListWritten
  <2>4. CASE b
    <3>1. CriteriaFit' /\ Issues \subseteq DOMAIN criteria'
      BY <2>1, <2>2, OneListWritten
    <3>2. Retire(i)
      BY <2>2, <2>4
    <3>3. issue'[i] = [issue[i] EXCEPT !.status = "cancelled", !.archived = TRUE] /\ DOMAIN issue[i] = IssueFields
      BY <3>2 DEF Retire, IssuesInv, IssueRowsFit, Issues
    <3>4. DOMAIN issue'[i] = IssueFields /\ issue'[i].parent = issue[i].parent
          /\ issue'[i].status = "cancelled" /\ issue'[i].archived = TRUE
      BY <3>3 DEF IssueFields
    <3>5. DOMAIN issue' = Issues /\ \A j \in Issues \ {i} : issue'[j] = issue[j]
      BY <3>2 DEF Retire, Issues
    <3> QED BY <3>1, <3>2, <3>4, <3>5, <2>2, RowWritten DEF Retire
  <2> QED BY <2>3, <2>4
<1>7. \A p \in 0 .. plan.crits : p \in Nat
  BY PlansAssumption DEF IssuesInv, IssueRowsFit
<1> QED
  BY <1>1, <1>2, <1>3, <1>4, <1>5, <1>6, <1>7
  DEF ContractNext, ClaimWorkContractCriterion, UnclaimWorkContractCriterion, UpdateWorkContract

\* What the invariant says of the board.
LEMMA BoardAgrees == IssuesInv => IssuesConsistent
<1> SUFFICES ASSUME IssuesInv PROVE IssuesConsistent
  OBVIOUS
<1>1. IssuesFormForest
  BY RowsFormForest DEF IssuesInv
<1>2. StatusIsLastEvent
  BY DEF IssuesInv, EventsFit, StatusIsLastEvent, ParityMismatches
<1>3. CriteriaAreNumbered
  <2> SUFFICES ASSUME NEW o \in DOMAIN criteria
               PROVE  Positions(criteria[o]) = 1 .. Cardinality(criteria[o])
    BY DEF CriteriaAreNumbered
  <2>1. PICK n \in Nat : NumberedTo(criteria[o], n)
    BY DEF IssuesInv, Numbered
  <2> QED BY <2>1, NumberedCount DEF NumberedTo
<1>4. ReHomedIsArchived
  BY DEF IssuesInv, OriginsFit, ReHomedIsArchived
<1> QED BY <1>1, <1>2, <1>3, <1>4 DEF IssuesConsistent

\* Rows, events, criteria and the ledger keep fitting each other, whichever
\* commands of the tree, of criteria and of contracts run (issue.go,
\* issue_criteria.go, issue_decision.go, issue_render_out.go).
THEOREM BoardKeepsFitting == IssuesSpec => []IssuesInv
<1>1. IssuesInit => IssuesInv
  <2> SUFFICES ASSUME IssuesInit PROVE IssuesInv
    OBVIOUS
  <2>1. Issues = {} /\ DOMAIN criteria = {} /\ ledger = {} /\ plan \in Plans
    BY DEF IssuesInit, Issues
  <2> QED BY <2>1 DEF IssuesInv, IssueRowsFit, NoCycles, EventsFit, OriginsFit
<1>2. IssuesInv /\ [IssuesNext]_issueVars => IssuesInv'
  <2> SUFFICES ASSUME IssuesInv, [IssuesNext]_issueVars PROVE IssuesInv'
    OBVIOUS
  <2>1. CASE UNCHANGED issueVars
    <3>1. OriginsFit'
      BY <2>1 DEF IssuesInv, OriginsFit, Issues, issueVars
    <3> QED BY <2>1, <3>1, CriteriaStay, RowsUntouched DEF issueVars
  <2>2. CASE IssuesNext
    BY <2>2, TreeStep, CriteriaStep, ContractStep DEF IssuesNext
  <2> QED BY <2>1, <2>2
<1> QED BY <1>1, <1>2, PTL DEF IssuesSpec

\* Issues form a forest in which every walk up ends and one started ancestor is the
\* nearest, the status column says what the last event says, criteria are numbered
\* without a gap, and a decision that went to the ledger stays off the board
\* (rejectIssueParentCycle, CheckIssueStatusParity, replaceIssueCriteriaTx).
THEOREM BoardIsConsistent == IssuesSpec => []IssuesConsistent
BY BoardKeepsFitting, BoardAgrees, PTL

----------------------------------------------------------------------------
(* Worktrees of started issues, however starts race and stop, when no two    *)
(* processes stop issues at once.                                            *)

OneStops == \A p, q \in treePlan.stoppers : p = q

TreeTyped ==
  /\ owner = [i \in DOMAIN owner |-> owner[i]]
  /\ \A i \in DOMAIN owner : IsOwner(owner[i])
  /\ trees = [t \in DOMAIN trees |-> trees[t]]
  /\ \A t \in DOMAIN trees : trees[t] = [x \in {"branch", "dirty"} |-> trees[t][x]]
  /\ treeFaults = [x \in {"commands", "stops", "writes", "gone"} |-> treeFaults[x]]
  /\ treeProc = [p \in treePlan.starters \cup treePlan.stoppers |-> treeProc[p]]
  /\ \A p \in DOMAIN treeProc : "at" \in DOMAIN treeProc[p]

\* A branch is checked out in its directory only; a directory deleted by hand was of a
\* branch, and branches with work are there.
TreesFit ==
  /\ \A t \in DOMAIN trees : t = WorktreePath(trees[t].branch) /\ trees[t].branch \in branches
  /\ \A t \in treeFaults.gone : \E b \in branches : t = WorktreePath(b)
  /\ worked \subseteq branches

\* The rows that name a directory.
Naming(t) == {i \in DOMAIN owner : owner[i].tree = t}

\* A directory, deleted by hand once, or there and named by these rows at most.
Standing(t, named) == t \notin treeFaults.gone => t \in DOMAIN trees /\ Naming(t) \subseteq named

TreeRowsFit ==
  \A i \in DOMAIN owner : IsStarted(owner[i]) =>
    /\ owner[i].tree = WorktreePath(owner[i].branch) /\ owner[i].branch \in branches
    /\ Standing(owner[i].tree, {i})

\* What a stop has read of a row, and what still holds of the directory: only its row
\* names it, and none after the row was cleared.
StopSteps == {"stopping", "cleared", "restore"}
StopFits(p) ==
  LET c == treeProc[p] IN
  c.at \in StopSteps =>
    /\ p \in treePlan.stoppers /\ DOMAIN c = {"at", "own", "force", "branch", "tree"}
    /\ c.tree = WorktreePath(c.branch) /\ c.branch \in branches
    /\ Standing(c.tree, IF c.at = "stopping" THEN {c.own} ELSE {})

\* What a start has added and not yet recorded: nobody else knows of it, and of a branch
\* it made.
AddFits(p) ==
  LET t == WorktreePath(treeProc[p].branch) IN
  treeProc[p].at = "added" =>
    /\ treeProc[p].branch \in branches
    /\ Standing(t, {})
    /\ t \notin treeFaults.gone => \A q \in DOMAIN treeProc \ {p} :
         /\ treeProc[q].at = "added" => treeProc[q].branch # treeProc[p].branch
         /\ treeProc[q].at \in StopSteps => treeProc[q].tree # t
    /\ treeProc[p].made => t \notin treeFaults.gone /\ treeProc[p].branch \notin worked

TreeBody == TreesFit /\ TreeRowsFit /\ \A p \in DOMAIN treeProc : StopFits(p) /\ AddFits(p)

TreeInv == treePlan \in TreePlans /\ TreeTyped /\ (OneStops => TreeBody)

LEMMA TreeInvInit ==
  ASSUME TreeInit PROVE TreeInv
<1>1. /\ treePlan \in TreePlans /\ owner = treePlan.owner /\ trees = [t \in {} |-> t] /\ worked = {}
      /\ treeProc = [p \in treePlan.starters \cup treePlan.stoppers |-> TreeIdle] /\ treeFaults = treePlan.faults
  BY DEF TreeInit
<1>2. TreeTyped
  BY <1>1, TreePlansAssumption DEF TreeTyped, TreeIdle
<1>3. /\ treeFaults.gone = {} /\ DOMAIN trees = {}
      /\ \A i \in DOMAIN owner : ~ IsStarted(owner[i])
      /\ \A p \in DOMAIN treeProc : treeProc[p].at = "idle"
  BY <1>1, TreePlansAssumption DEF IsStarted, TreeIdle
<1>4. TreesFit /\ TreeRowsFit
  BY <1>1, <1>3 DEF TreesFit, TreeRowsFit
<1>5. \A p \in DOMAIN treeProc : StopFits(p) /\ AddFits(p)
  BY <1>3 DEF StopFits, AddFits, StopSteps
<1> QED BY <1>1, <1>2, <1>4, <1>5 DEF TreeInv, TreeBody

\* A process goes on, and nothing it shares with others changes.
Alone(p, c) ==
  /\ UNCHANGED <<treePlan, owner, branches, trees, worked>>
  /\ treeFaults' = [x \in {"commands", "stops", "writes", "gone"} |-> treeFaults'[x]] /\ treeFaults'.gone = treeFaults.gone
  /\ treeProc' = [treeProc EXCEPT ![p] = c] /\ "at" \in DOMAIN c

LEMMA SpentIsTyped ==
  ASSUME TreeTyped, NEW kind \in {"commands", "stops", "writes"}, Spend(kind)
  PROVE  treeFaults' = [x \in {"commands", "stops", "writes", "gone"} |-> treeFaults'[x]] /\ treeFaults'.gone = treeFaults.gone
BY DEF TreeTyped, Spend

\* A process that goes on adds nothing, and stops only what a row names or it holds.
LEMMA AloneKeeps ==
  ASSUME TreeInv, NEW p \in DOMAIN treeProc, NEW c, Alone(p, c), c.at # "added",
         OneStops /\ TreeBody /\ c.at \in StopSteps =>
           /\ StopFits(p)'
           /\ Naming(c.tree) # {} \/ (treeProc[p].at \in StopSteps /\ treeProc[p].tree = c.tree)
  PROVE  TreeInv'
<1>1. TreeTyped'
  BY DEF TreeInv, TreeTyped, Alone
<1>2. ASSUME OneStops, TreeBody PROVE TreeBody'
  <2>0. /\ UNCHANGED <<owner, branches, trees, worked, treePlan>> /\ treeFaults'.gone = treeFaults.gone
        /\ DOMAIN treeProc' = DOMAIN treeProc
        /\ treeProc'[p] = c /\ \A q \in DOMAIN treeProc \ {p} : treeProc'[q] = treeProc[q]
    BY DEF TreeInv, TreeTyped, Alone
  <2>1. TreesFit' /\ TreeRowsFit'
    BY <1>2, <2>0 DEF TreeBody, TreesFit, TreeRowsFit, Standing, Naming
  <2>2. ASSUME NEW q \in DOMAIN treeProc' PROVE StopFits(q)'
    <3>1. CASE q = p
      BY <1>2, <2>0, <3>1 DEF StopFits
    <3>2. CASE q # p
      BY <1>2, <2>0, <2>2, <3>2 DEF TreeBody, StopFits, Standing, Naming
    <3> QED BY <3>1, <3>2
  <2>3. ASSUME NEW q \in DOMAIN treeProc' PROVE AddFits(q)'
    <3>1. CASE q = p
      BY <2>0, <3>1 DEF AddFits
    <3>2. CASE q # p
      <4> DEFINE t == WorktreePath(treeProc[q].branch)
      <4>1. AddFits(q) /\ treeProc'[q] = treeProc[q]
        BY <1>2, <2>0, <2>3, <3>2 DEF TreeBody
      <4>2. ASSUME treeProc[q].at = "added", t \notin treeFaults.gone, c.at \in StopSteps PROVE c.tree # t
        BY <1>2, <2>0, <3>2, <4>1, <4>2 DEF AddFits, Standing
      <4> QED BY <2>0, <3>2, <4>1, <4>2 DEF AddFits, Standing, Naming
    <3> QED BY <3>1, <3>2
  <2> QED BY <2>1, <2>2, <2>3 DEF TreeBody
<1> QED BY <1>1, <1>2 DEF TreeInv, OneStops, Alone

LEMMA TreeGoesAlone ==
  ASSUME TreeInv, NEW p \in DOMAIN treeProc,
         \/ (\E i \in treePlan.asks : AskStart(p, i)) \/ FindOwner(p) \/ NameWorktree(p) \/ TreeStop(p)
  PROVE  TreeInv'
<1>1. treeFaults' = treeFaults => treeFaults' = [x \in {"commands", "stops", "writes", "gone"} |-> treeFaults'[x]] /\ treeFaults'.gone = treeFaults.gone
  BY DEF TreeInv, TreeTyped
<1>2. PICK c : Alone(p, c) /\ c.at \in {"idle", "asked", "activate", "owned", "named"}
  <2>1. ASSUME NEW i, AskStart(p, i) PROVE \E c : Alone(p, c) /\ c.at \in {"idle", "asked", "activate", "owned", "named"}
    <3> DEFINE d == [at |-> "asked", asked |-> i]
    <3>1. TreeTyped /\ Spend("commands")
      BY <2>1 DEF AskStart, TreeInv
    <3>2. Alone(p, d)
      BY <2>1, <3>1, SpentIsTyped DEF AskStart, Alone
    <3> QED BY <3>2
  <2>2. CASE FindOwner(p)
    BY <1>1, <2>2 DEF FindOwner, Alone, TreeDone, TreeIdle
  <2>3. CASE NameWorktree(p)
    BY <1>1, <2>3 DEF NameWorktree, Alone, TreeDone, TreeIdle
  <2>4. CASE TreeStop(p)
    <3>1. TreeTyped /\ Spend("stops")
      BY <2>4 DEF TreeStop, TreeInv
    <3>2. Alone(p, TreeIdle)
      BY <2>4, <3>1, SpentIsTyped DEF TreeStop, TreeDone, Alone, TreeIdle
    <3> QED BY <3>2 DEF TreeIdle
  <2> QED BY <2>1, <2>2, <2>3, <2>4
<1> QED BY <1>2, AloneKeeps DEF StopSteps

\* runIssueStop reads the row.
LEMMA AskStopKeeps ==
  ASSUME TreeInv, NEW p \in treePlan.stoppers, NEW i \in DOMAIN owner, NEW force, AskStop(p, i, force)
  PROVE  TreeInv'
<1> DEFINE c == [at |-> "stopping", own |-> i, force |-> force, branch |-> owner[i].branch, tree |-> owner[i].tree]
<1>1. Alone(p, c) /\ IsStarted(owner[i]) /\ p \in DOMAIN treeProc
  BY SpentIsTyped DEF AskStop, Alone, TreeInv, TreeTyped
<1>2. ASSUME OneStops, TreeBody PROVE StopFits(p)' /\ Naming(c.tree) # {}
  <2>1. treeProc'[p] = c /\ UNCHANGED <<treePlan, owner, branches, trees>> /\ treeFaults'.gone = treeFaults.gone
    BY <1>1 DEF Alone, TreeInv, TreeTyped
  <2>2. /\ owner[i].tree = WorktreePath(owner[i].branch) /\ owner[i].branch \in branches
        /\ Standing(owner[i].tree, {i})
    BY <1>1, <1>2 DEF TreeBody, TreeRowsFit
  <2> QED BY <2>1, <2>2 DEF StopFits, Standing, Naming
<1> QED BY <1>1, <1>2, AloneKeeps

\* git worktree add: nobody names the directory that was not there, unless one was deleted.
LEMMA AddKeeps ==
  ASSUME TreeInv, NEW p \in DOMAIN treeProc, AddIssueWorktree(p)
  PROVE  TreeInv'
<1> DEFINE b == treeProc[p].branch
           t == WorktreePath(b)
           row == [branch |-> b, dirty |-> FALSE]
           c == [at |-> "added", asked |-> treeProc[p].asked, own |-> treeProc[p].own, branch |-> b, made |-> b \notin branches]
<1>0. treeFaults' = treeFaults /\ treeFaults' = [x \in {"commands", "stops", "writes", "gone"} |-> treeFaults'[x]]
  BY DEF TreeInv, TreeTyped, AddIssueWorktree
<1>1. CASE TreeDone(p) /\ UNCHANGED <<branches, trees>>
  <2>1. Alone(p, TreeIdle) /\ TreeIdle.at \notin StopSteps \cup {"added"}
    BY <1>0, <1>1 DEF Alone, AddIssueWorktree, TreeDone, TreeIdle, StopSteps
  <2> QED BY <2>1, AloneKeeps
<1>2. CASE /\ t \notin DOMAIN trees
           /\ trees' = Upserted(trees, t, row) /\ branches' = branches \cup {b} /\ treeProc' = [treeProc EXCEPT ![p] = c]
  <2>1. /\ DOMAIN trees' = DOMAIN trees \cup {t} /\ trees'[t] = row /\ \A u \in DOMAIN trees : trees'[u] = trees[u]
        /\ trees' = [u \in DOMAIN trees' |-> trees'[u]]
    BY <1>2 DEF Upserted
  <2>2. UNCHANGED <<treePlan, owner, worked>>
    BY DEF AddIssueWorktree
  <2>3. /\ DOMAIN treeProc' = DOMAIN treeProc /\ treeProc'[p] = c /\ \A q \in DOMAIN treeProc \ {p} : treeProc'[q] = treeProc[q]
        /\ c.at = "added" /\ c.branch = b /\ c.made = (b \notin branches)
    BY <1>2 DEF TreeInv, TreeTyped
  <2>4. TreeTyped'
    <3>1. \A u \in DOMAIN trees' : trees'[u] = [x \in {"branch", "dirty"} |-> trees'[u][x]]
      <4>1. row = [x \in {"branch", "dirty"} |-> row[x]]
        OBVIOUS
      <4> HIDE DEF row
      <4> QED BY <2>1, <4>1 DEF TreeInv, TreeTyped
    <3>0. "at" \in DOMAIN c
      OBVIOUS
    <3> HIDE DEF c
    <3>2. treeProc' = [q \in treePlan.starters \cup treePlan.stoppers |-> treeProc'[q]]
          /\ \A q \in DOMAIN treeProc' : "at" \in DOMAIN treeProc'[q]
      BY <1>2, <3>0 DEF TreeInv, TreeTyped
    <3> HIDE DEF row, t
    <3> QED BY <1>0, <2>1, <2>2, <3>1, <3>2 DEF TreeInv, TreeTyped
  <2>5. ASSUME OneStops, TreeBody PROVE TreeBody'
    <3> HIDE DEF c
    <3>1. TreesFit'
      <4>1. ASSUME NEW u \in DOMAIN trees' PROVE u = WorktreePath(trees'[u].branch) /\ trees'[u].branch \in branches'
        <5>1. CASE u = t
          <6>1. trees'[u].branch = b
            BY <2>1, <5>1
          <6> QED BY <1>2, <5>1, <6>1
        <5>2. CASE u # t
          BY <1>2, <2>1, <2>5, <4>1, <5>2 DEF TreeBody, TreesFit
        <5> QED BY <5>1, <5>2
      <4>2. \A u \in treeFaults'.gone : \E x \in branches' : u = WorktreePath(x)
        BY <1>0, <1>2, <2>5 DEF TreeBody, TreesFit
      <4>3. worked' \subseteq branches'
        BY <1>2, <2>2, <2>5 DEF TreeBody, TreesFit
      <4> QED BY <4>1, <4>2, <4>3 DEF TreesFit
    <3>2. TreeRowsFit'
      BY <1>0, <1>2, <2>1, <2>2, <2>5 DEF TreeBody, TreeRowsFit, Standing, Naming
    <3>3. ASSUME NEW q \in DOMAIN treeProc' PROVE StopFits(q)'
      <4>1. CASE q = p
        BY <2>3, <4>1 DEF StopFits, StopSteps
      <4>2. CASE q # p
        BY <1>0, <1>2, <2>1, <2>2, <2>3, <2>5, <3>3, <4>2 DEF TreeBody, StopFits, Standing, Naming
      <4> QED BY <4>1, <4>2
    <3>4. t \notin treeFaults.gone =>
            /\ Naming(t) = {}
            /\ \A q \in DOMAIN treeProc :
                 /\ treeProc[q].at = "added" => treeProc[q].branch # b
                 /\ treeProc[q].at \in StopSteps => treeProc[q].tree # t
      <4> SUFFICES ASSUME t \notin treeFaults.gone
                   PROVE  /\ Naming(t) = {}
                          /\ \A q \in DOMAIN treeProc :
                               /\ treeProc[q].at = "added" => treeProc[q].branch # b
                               /\ treeProc[q].at \in StopSteps => treeProc[q].tree # t
        OBVIOUS
      <4>1. Naming(t) = {}
        <5>1. t # NoTree
          BY DEF WorktreePath, NoTree
        <5> QED BY <1>2, <2>5, <5>1 DEF TreeBody, TreeRowsFit, Standing, Naming, IsStarted
      <4>2. ASSUME NEW q \in DOMAIN treeProc PROVE treeProc[q].at = "added" => treeProc[q].branch # b
        BY <1>2, <2>5 DEF TreeBody, AddFits, Standing
      <4>3. ASSUME NEW q \in DOMAIN treeProc PROVE treeProc[q].at \in StopSteps => treeProc[q].tree # t
        BY <1>2, <2>5 DEF TreeBody, StopFits, Standing
      <4> QED BY <4>1, <4>2, <4>3
    <3>5. ASSUME NEW q \in DOMAIN treeProc' PROVE AddFits(q)'
      <4>1. CASE q = p
        <5>1. b \notin branches => t \notin treeFaults.gone /\ b \notin worked
          BY <2>5 DEF TreeBody, TreesFit, WorktreePath
        <5> QED BY <1>0, <1>2, <2>1, <2>2, <2>3, <3>4, <4>1, <5>1 DEF AddFits, Standing, Naming
      <4>2. CASE q # p
        <5>1. AddFits(q) /\ treeProc'[q] = treeProc[q]
          BY <2>3, <2>5, <3>5, <4>2 DEF TreeBody
        <5>2. treeProc[q].at = "added" /\ WorktreePath(treeProc[q].branch) \notin treeFaults.gone => treeProc[q].branch # b
          BY <2>3, <3>4, <3>5 DEF WorktreePath
        <5> QED BY <1>0, <1>2, <2>1, <2>2, <2>3, <4>2, <5>1, <5>2 DEF AddFits, Standing, Naming, StopSteps
      <4> QED BY <4>1, <4>2
    <3> QED BY <3>1, <3>2, <3>3, <3>5 DEF TreeBody
  <2> QED BY <2>2, <2>4, <2>5 DEF TreeInv, OneStops
<1> QED BY <1>1, <1>2 DEF AddIssueWorktree

\* One row gets another branch and directory, and the others keep theirs.
RowsNow(i, b, t) ==
  /\ DOMAIN owner' = DOMAIN owner /\ owner' = [j \in DOMAIN owner' |-> owner'[j]]
  /\ \A j \in DOMAIN owner' : IsOwner(owner'[j])
  /\ \A j \in DOMAIN owner \ {i} : owner'[j].branch = owner[j].branch /\ owner'[j].tree = owner[j].tree
  /\ i \in DOMAIN owner => owner'[i].branch = b /\ owner'[i].tree = t

RowPut(i, b, t) ==
  /\ UNCHANGED <<treePlan, branches, trees, worked>>
  /\ RowsNow(i, b, t)
  /\ treeFaults' = [x \in {"commands", "stops", "writes", "gone"} |-> treeFaults'[x]] /\ treeFaults'.gone = treeFaults.gone

\* A row is given nothing, or what the process has and nobody else.
LEMMA RowPutKeeps ==
  ASSUME TreeInv, NEW p \in DOMAIN treeProc, NEW c, treeProc' = [treeProc EXCEPT ![p] = c], NEW i, NEW b, NEW t, RowPut(i, b, t),
         c.at # "added", "at" \in DOMAIN c,
         OneStops /\ TreeBody =>
           /\ \/ t = NoTree /\ b = NoTree
              \/ /\ t = WorktreePath(b) /\ b \in branches /\ Standing(t, {})
                 /\ t \notin treeFaults.gone => \A q \in DOMAIN treeProc \ {p} :
                      /\ treeProc[q].at = "added" => WorktreePath(treeProc[q].branch) # t
                      /\ treeProc[q].at \in StopSteps => treeProc[q].tree # t
           /\ c.at \in StopSteps => StopFits(p)' /\ treeProc[p].at \in StopSteps /\ treeProc[p].tree = c.tree
  PROVE  TreeInv'
<1>1. TreeTyped'
  BY DEF TreeInv, TreeTyped, RowPut, RowsNow
<1>2. ASSUME OneStops, TreeBody PROVE TreeBody'
  <2>0. /\ UNCHANGED <<branches, trees, worked, treePlan>> /\ treeFaults'.gone = treeFaults.gone
        /\ DOMAIN treeProc' = DOMAIN treeProc
        /\ treeProc'[p] = c /\ \A q \in DOMAIN treeProc \ {p} : treeProc'[q] = treeProc[q]
    BY DEF TreeInv, TreeTyped, RowPut, RowsNow
  <2>1. /\ DOMAIN owner' = DOMAIN owner
        /\ \A j \in DOMAIN owner \ {i} : owner'[j].branch = owner[j].branch /\ owner'[j].tree = owner[j].tree
        /\ i \in DOMAIN owner => owner'[i].branch = b /\ owner'[i].tree = t
    BY DEF RowPut, RowsNow
  <2>2. \A u, S : u # t \/ u \in treeFaults.gone => (Standing(u, S) => Standing(u, S)')
    BY <2>0, <2>1 DEF Standing, Naming
  <2>3. TreesFit'
    BY <1>2, <2>0 DEF TreeBody, TreesFit
  <2>4. \A x : WorktreePath(x) # NoTree
    BY DEF WorktreePath, NoTree
  <2>5. ASSUME NEW j \in DOMAIN owner', IsStarted(owner'[j])
        PROVE  /\ owner'[j].tree = WorktreePath(owner'[j].branch) /\ owner'[j].branch \in branches'
               /\ Standing(owner[j].tree, {j})'
    <3>1. CASE j # i
      <4>1. /\ owner'[j].tree = owner[j].tree /\ owner'[j].branch = owner[j].branch /\ j \in DOMAIN owner /\ IsStarted(owner[j])
        BY <2>1, <2>5, <3>1 DEF IsStarted
      <4>2. /\ owner[j].tree = WorktreePath(owner[j].branch) /\ owner[j].branch \in branches /\ Standing(owner[j].tree, {j})
        BY <1>2, <4>1 DEF TreeBody, TreeRowsFit
      <4>3. owner[j].tree # t \/ owner[j].tree \in treeFaults.gone
        <5>1. CASE t = NoTree
          BY <2>4, <4>2, <5>1
        <5>2. CASE Standing(t, {})
          BY <4>1, <5>2 DEF Standing, Naming
        <5> QED BY <1>2, <5>1, <5>2
      <4>4. PICK u : u = owner[j].tree
        OBVIOUS
      <4>5. Standing(u, {j})' /\ owner'[j].tree = u
        BY <2>2, <4>1, <4>2, <4>3, <4>4
      <4> QED BY <2>0, <4>1, <4>2, <4>5
    <3>2. CASE j = i
      <4>1. t = WorktreePath(b) /\ b \in branches /\ Standing(t, {}) /\ owner'[i].tree = t /\ owner'[i].branch = b
        BY <1>2, <2>1, <2>5, <3>2 DEF IsStarted
      <4>2. Standing(t, {i})'
        BY <2>0, <2>1, <4>1 DEF Standing, Naming
      <4> QED BY <2>0, <2>5, <3>2, <4>1, <4>2
    <3> QED BY <3>1, <3>2
  <2>6. ASSUME NEW q \in DOMAIN treeProc' PROVE StopFits(q)'
    <3>1. CASE q = p
      BY <1>2, <2>0, <3>1 DEF StopFits
    <3>2. CASE q # p
      <4>1. StopFits(q) /\ treeProc'[q] = treeProc[q]
        BY <1>2, <2>0, <2>6, <3>2 DEF TreeBody
      <4>2. treeProc[q].at \in StopSteps => treeProc[q].tree # t \/ treeProc[q].tree \in treeFaults.gone
        BY <1>2, <2>0, <2>4, <2>6, <3>2, <4>1 DEF StopFits
      <4> QED BY <2>0, <2>2, <4>1, <4>2 DEF StopFits, Standing
    <3> QED BY <3>1, <3>2
  <2>7. ASSUME NEW q \in DOMAIN treeProc' PROVE AddFits(q)'
    <3>1. CASE q = p
      BY <2>0, <3>1 DEF AddFits
    <3>2. CASE q # p
      <4> DEFINE u == WorktreePath(treeProc[q].branch)
      <4>1. AddFits(q) /\ treeProc'[q] = treeProc[q]
        BY <1>2, <2>0, <2>7, <3>2 DEF TreeBody
      <4>2. treeProc[q].at = "added" => u # t \/ u \in treeFaults.gone
        BY <1>2, <2>0, <2>4, <2>7, <3>2
      <4>3. treeProc[q].at = "added" /\ u \notin treeFaults.gone /\ c.at \in StopSteps => c.tree # u
        BY <1>2, <2>0, <3>2, <4>1 DEF AddFits
      <4> QED BY <2>0, <2>2, <3>2, <4>1, <4>2, <4>3 DEF AddFits, Standing
    <3> QED BY <3>1, <3>2
  <2> QED BY <2>3, <2>5, <2>6, <2>7 DEF TreeBody, TreeRowsFit
<1> QED BY <1>1, <1>2 DEF TreeInv, OneStops, RowPut

\* What the columns of the started rows are after an update of them, and of the status.
LEMMA RowIsPut ==
  ASSUME TreeTyped, NEW i, NEW b, NEW t,
         \/ owner' = WithStarted(i, b, t)
         \/ owner' = [WithStarted(i, b, t) EXCEPT ![i].status = "active"]
  PROVE  RowsNow(i, b, t)
<1>1. CASE i \notin DOMAIN owner
  <2>1. owner' = owner
    BY <1>1 DEF WithStarted, TreeTyped
  <2> QED BY <1>1, <2>1 DEF TreeTyped, RowsNow
<1>2. CASE i \in DOMAIN owner
  <2> DEFINE r == [owner[i] EXCEPT !.branch = b, !.tree = t]
             s == [r EXCEPT !.status = "active"]
  <2>1. IsOwner(owner[i])
    BY <1>2 DEF TreeTyped
  <2>2. IsOwner(r) /\ r.branch = b /\ r.tree = t
    BY <2>1 DEF IsOwner, OwnerColumns
  <2>3. IsOwner(s) /\ s.branch = b /\ s.tree = t
    <3> HIDE DEF r
    <3> QED BY <2>2 DEF IsOwner, OwnerColumns
  <2>4. owner' = [owner EXCEPT ![i] = r] \/ owner' = [owner EXCEPT ![i] = s]
    BY <1>2 DEF WithStarted, TreeTyped
  <2>5. PICK x : owner' = [owner EXCEPT ![i] = x] /\ IsOwner(x) /\ x.branch = b /\ x.tree = t
    <3> HIDE DEF r, s
    <3> QED BY <2>2, <2>3, <2>4
  <2>6. DOMAIN owner' = DOMAIN owner /\ owner' = [j \in DOMAIN owner |-> IF j = i THEN x ELSE owner[j]]
    BY <2>5 DEF TreeTyped
  <2> HIDE DEF r, s
  <2> QED BY <1>2, <2>5, <2>6 DEF TreeTyped, RowsNow
<1> QED BY <1>1, <1>2

\* RecordStart: the row names what was added.
LEMMA RecordStartKeeps ==
  ASSUME TreeInv, NEW p \in DOMAIN treeProc, RecordStart(p)
  PROVE  TreeInv'
<1> DEFINE i == treeProc[p].own
           b == treeProc[p].branch
<1>1. RowPut(i, b, WorktreePath(b))
  <2>1. TreeTyped /\ owner' = [WithStarted(i, b, WorktreePath(b)) EXCEPT ![i].status = "active"]
        /\ UNCHANGED <<treePlan, branches, trees, worked, treeFaults>>
    BY DEF RecordStart, TreeInv
  <2>2. treeFaults' = [x \in {"commands", "stops", "writes", "gone"} |-> treeFaults'[x]] /\ treeFaults'.gone = treeFaults.gone
    BY <2>1 DEF TreeTyped
  <2> QED BY <2>1, <2>2, RowIsPut DEF RowPut
<1>2. PICK c : treeProc' = [treeProc EXCEPT ![p] = c] /\ c.at \in {"idle", "activate"} /\ "at" \in DOMAIN c
  <2> DEFINE d == [treeProc[p] EXCEPT !.at = "activate"]
  <2>1. d.at = "activate" /\ "at" \in DOMAIN d
    BY DEF TreeInv, TreeTyped
  <2>2. TreeIdle.at = "idle" /\ "at" \in DOMAIN TreeIdle
    BY DEF TreeIdle
  <2>3. treeProc' = [treeProc EXCEPT ![p] = TreeIdle] \/ treeProc' = [treeProc EXCEPT ![p] = d]
    BY DEF RecordStart, TreeDone, TreeGoes
  <2> HIDE DEF d
  <2> QED BY <2>1, <2>2, <2>3
<1>3. ASSUME OneStops, TreeBody
      PROVE  /\ b \in branches /\ Standing(WorktreePath(b), {})
             /\ WorktreePath(b) \notin treeFaults.gone => \A q \in DOMAIN treeProc \ {p} :
                  /\ treeProc[q].at = "added" => WorktreePath(treeProc[q].branch) # WorktreePath(b)
                  /\ treeProc[q].at \in StopSteps => treeProc[q].tree # WorktreePath(b)
  <2>1. AddFits(p) /\ treeProc[p].at = "added"
    BY <1>3 DEF TreeBody, RecordStart, TreeAt
  <2> QED BY <2>1 DEF AddFits, WorktreePath
<1>4. c.at \notin StopSteps \cup {"added"}
  BY <1>2 DEF StopSteps
<1> HIDE DEF i, b
<1> QED BY <1>1, <1>2, <1>3, <1>4, RowPutKeeps

\* ClearStarted: the row names nothing.
LEMMA ClearStartedKeeps ==
  ASSUME TreeInv, NEW p \in DOMAIN treeProc, ClearStarted(p)
  PROVE  TreeInv'
<1> DEFINE c == [treeProc[p] EXCEPT !.at = "cleared"]
<1>1. treeProc[p].at = "stopping" /\ UNCHANGED <<treePlan, branches, trees, worked>>
  BY DEF ClearStarted, TreeAt
<1>2. CASE TreeDone(p) /\ UNCHANGED owner /\ Spend("writes")
  <2>1. Alone(p, TreeIdle) /\ TreeIdle.at \notin StopSteps \cup {"added"}
    BY <1>1, <1>2, SpentIsTyped DEF Alone, TreeDone, TreeIdle, StopSteps, TreeInv
  <2> QED BY <2>1, AloneKeeps
<1>3. CASE owner' = WithStarted(treeProc[p].own, NoTree, NoTree) /\ TreeGoes(p, "cleared") /\ UNCHANGED treeFaults
  <2>1. RowPut(treeProc[p].own, NoTree, NoTree)
    <3>1. TreeTyped
      BY DEF TreeInv
    <3>2. treeFaults' = [x \in {"commands", "stops", "writes", "gone"} |-> treeFaults'[x]] /\ treeFaults'.gone = treeFaults.gone
      BY <1>3, <3>1 DEF TreeTyped
    <3> QED BY <1>1, <1>3, <3>1, <3>2, RowIsPut DEF RowPut
  <2>2. treeProc' = [treeProc EXCEPT ![p] = c] /\ c.at = "cleared" /\ "at" \in DOMAIN c
    BY <1>3 DEF TreeGoes, TreeInv, TreeTyped
  <2>3. ASSUME OneStops, TreeBody PROVE StopFits(p)' /\ c.tree = treeProc[p].tree /\ treeProc[p].at \in StopSteps
    <3>1. /\ p \in treePlan.stoppers /\ DOMAIN treeProc[p] = {"at", "own", "force", "branch", "tree"}
          /\ treeProc[p].tree = WorktreePath(treeProc[p].branch) /\ treeProc[p].branch \in branches
          /\ Standing(treeProc[p].tree, {treeProc[p].own})
      BY <1>1, <2>3 DEF TreeBody, StopFits, StopSteps
    <3>2. treeProc'[p] = c /\ UNCHANGED <<treePlan, branches, trees>> /\ treeFaults' = treeFaults
      BY <1>1, <1>3, <2>2 DEF TreeInv, TreeTyped
    <3>3. c.tree = treeProc[p].tree /\ c.branch = treeProc[p].branch /\ DOMAIN c = DOMAIN treeProc[p]
      BY <3>1
    <3> HIDE DEF c
    <3>4. PICK t : t = treeProc[p].tree /\ t # NoTree
      BY <3>1 DEF WorktreePath, NoTree
    <3>5. Standing(t, {})'
      BY <2>1, <3>1, <3>2, <3>4 DEF Standing, Naming, RowPut, RowsNow
    <3>6. treeProc'[p].tree = t
      BY <3>2, <3>3, <3>4
    <3> QED BY <1>1, <2>2, <3>1, <3>2, <3>3, <3>5, <3>6 DEF StopFits, StopSteps
  <2> HIDE DEF c
  <2> QED BY <2>1, <2>2, <2>3, RowPutKeeps
<1> QED BY <1>1, <1>2, <1>3 DEF ClearStarted

\* RestoreStarted: the row names its directory again.
LEMMA RestoreStartedKeeps ==
  ASSUME TreeInv, NEW p \in DOMAIN treeProc, RestoreStarted(p)
  PROVE  TreeInv'
<1> DEFINE i == treeProc[p].own
           b == treeProc[p].branch
           t == treeProc[p].tree
<1>1. treeProc[p].at = "restore" /\ UNCHANGED <<treePlan, branches, trees, worked>> /\ TreeTyped
      /\ treeProc' = [treeProc EXCEPT ![p] = TreeIdle] /\ TreeIdle.at \notin StopSteps \cup {"added"} /\ "at" \in DOMAIN TreeIdle
  BY DEF RestoreStarted, TreeAt, TreeDone, TreeIdle, StopSteps, TreeInv
<1>2. CASE Spend("writes") /\ UNCHANGED owner
  <2>1. Alone(p, TreeIdle)
    BY <1>1, <1>2, SpentIsTyped DEF Alone
  <2> QED BY <1>1, <2>1, AloneKeeps
<1>3. CASE owner' = WithStarted(i, b, t) /\ UNCHANGED treeFaults
  <2>1. RowPut(i, b, t)
    <3>1. treeFaults' = [x \in {"commands", "stops", "writes", "gone"} |-> treeFaults'[x]] /\ treeFaults'.gone = treeFaults.gone
      BY <1>1, <1>3 DEF TreeTyped
    <3> QED BY <1>1, <1>3, <3>1, RowIsPut DEF RowPut
  <2>2. ASSUME OneStops, TreeBody
        PROVE  /\ t = WorktreePath(b) /\ b \in branches /\ Standing(t, {})
               /\ t \notin treeFaults.gone => \A q \in DOMAIN treeProc \ {p} :
                    /\ treeProc[q].at = "added" => WorktreePath(treeProc[q].branch) # t
                    /\ treeProc[q].at \in StopSteps => treeProc[q].tree # t
    <3>1. t = WorktreePath(b) /\ b \in branches /\ Standing(t, {}) /\ p \in treePlan.stoppers
      BY <1>1, <2>2 DEF TreeBody, StopFits, StopSteps
    <3>2. ASSUME NEW q \in DOMAIN treeProc \ {p}, treeProc[q].at \in StopSteps PROVE FALSE
      BY <2>2, <3>1, <3>2 DEF TreeBody, StopFits, OneStops
    <3>3. ASSUME NEW q \in DOMAIN treeProc \ {p}, treeProc[q].at = "added", t \notin treeFaults.gone
          PROVE  WorktreePath(treeProc[q].branch) # t
      BY <1>1, <2>2, <3>3 DEF TreeBody, AddFits, StopSteps
    <3> QED BY <3>1, <3>2, <3>3
  <2> HIDE DEF i, b, t
  <2> QED BY <1>1, <2>1, <2>2, RowPutKeeps
<1> QED BY <1>2, <1>3 DEF RestoreStarted

\* Rows that name what they named.
RowsSame ==
  /\ DOMAIN owner' = DOMAIN owner /\ owner' = [j \in DOMAIN owner' |-> owner'[j]]
  /\ \A j \in DOMAIN owner' : IsOwner(owner'[j])
  /\ \A j \in DOMAIN owner : owner'[j].branch = owner[j].branch /\ owner'[j].tree = owner[j].tree

LEMMA UpdateIsSame ==
  ASSUME TreeTyped, NEW i, NEW r, owner' = [owner EXCEPT ![i] = r],
         i \in DOMAIN owner => IsOwner(r) /\ r.branch = owner[i].branch /\ r.tree = owner[i].tree
  PROVE  RowsSame
<1>1. owner' = [j \in DOMAIN owner |-> IF j = i THEN r ELSE owner[j]] /\ DOMAIN owner' = DOMAIN owner
  BY DEF TreeTyped
<1> QED BY <1>1 DEF TreeTyped, RowsSame

LEMMA SameNamesKeep ==
  ASSUME TreeInv, RowsSame, UNCHANGED <<treePlan, branches, trees, worked, treeFaults>>,
         treeProc' = treeProc \/ \E p \in DOMAIN treeProc : treeProc' = [treeProc EXCEPT ![p] = TreeIdle]
  PROVE  TreeInv'
<1>0. /\ DOMAIN treeProc' = DOMAIN treeProc /\ treeProc' = [q \in treePlan.starters \cup treePlan.stoppers |-> treeProc'[q]]
      /\ \A q \in DOMAIN treeProc : treeProc'[q] = treeProc[q] \/ treeProc'[q] = TreeIdle
      /\ TreeIdle.at \notin StopSteps \cup {"added"} /\ "at" \in DOMAIN TreeIdle
  BY DEF TreeInv, TreeTyped, TreeIdle, StopSteps
<1>1. TreeTyped'
  <2>1. \A q \in DOMAIN treeProc' : "at" \in DOMAIN treeProc'[q]
    BY <1>0 DEF TreeInv, TreeTyped
  <2>2. treeFaults' = [x \in {"commands", "stops", "writes", "gone"} |-> treeFaults'[x]]
    BY DEF TreeInv, TreeTyped
  <2> QED BY <1>0, <2>1, <2>2 DEF TreeInv, TreeTyped, RowsSame
<1>2. ASSUME OneStops, TreeBody PROVE TreeBody'
  <2>1. \A u, S : Standing(u, S) => Standing(u, S)'
    BY DEF Standing, Naming, RowsSame
  <2>2. TreesFit'
    BY <1>2 DEF TreeBody, TreesFit
  <2>3. TreeRowsFit'
    <3> SUFFICES ASSUME NEW i \in DOMAIN owner, IsStarted(owner'[i])
                 PROVE  /\ owner'[i].tree = WorktreePath(owner'[i].branch) /\ owner'[i].branch \in branches'
                        /\ Standing(owner[i].tree, {i})'
      BY DEF TreeRowsFit, RowsSame
    <3>1. PICK u : u = owner[i].tree
      OBVIOUS
    <3>2. owner'[i].tree = u /\ owner'[i].branch = owner[i].branch /\ IsStarted(owner[i])
      BY <3>1 DEF RowsSame, IsStarted
    <3>3. owner[i].tree = WorktreePath(owner[i].branch) /\ owner[i].branch \in branches /\ Standing(u, {i})
      BY <1>2, <3>1, <3>2 DEF TreeBody, TreeRowsFit
    <3>4. Standing(u, {i})'
      BY <2>1, <3>3
    <3> QED BY <3>1, <3>2, <3>3, <3>4
  <2>4. ASSUME NEW q \in DOMAIN treeProc' PROVE StopFits(q)'
    <3>1. CASE treeProc'[q] = treeProc[q]
      BY <1>0, <1>2, <2>1, <2>4, <3>1 DEF TreeBody, StopFits
    <3> QED BY <1>0, <2>4, <3>1 DEF StopFits
  <2>5. ASSUME NEW q \in DOMAIN treeProc' PROVE AddFits(q)'
    <3>1. CASE treeProc'[q] = treeProc[q]
      <4>1. AddFits(q)
        BY <1>0, <1>2, <2>5 DEF TreeBody
      <4> QED BY <1>0, <2>1, <3>1, <4>1 DEF AddFits
    <3> QED BY <1>0, <2>5, <3>1 DEF AddFits
  <2> QED BY <2>2, <2>3, <2>4, <2>5 DEF TreeBody
<1> QED BY <1>1, <1>2 DEF TreeInv, OneStops

\* ActivateIssue, and the updates of others.
LEMMA UpdatesKeep ==
  ASSUME TreeInv, (\E p \in DOMAIN treeProc : ActivateIssue(p)) \/ \E i, row : OtherUpdate(i, row)
  PROVE  TreeInv'
<1>0. TreeTyped
  BY DEF TreeInv
<1>1. ASSUME NEW p \in DOMAIN treeProc, ActivateIssue(p) PROVE TreeInv'
  <2> DEFINE j == treeProc[p].asked
             r == [owner[j] EXCEPT !.status = "active"]
  <2>1. owner' = [owner EXCEPT ![j] = r]
    BY <1>1 DEF ActivateIssue
  <2>2. j \in DOMAIN owner => IsOwner(r) /\ r.branch = owner[j].branch /\ r.tree = owner[j].tree
    <3>1. j \in DOMAIN owner => IsOwner(owner[j])
      BY <1>0 DEF TreeTyped
    <3> QED BY <3>1 DEF IsOwner, OwnerColumns
  <2>3. RowsSame
    <3> HIDE DEF r, j
    <3> QED BY <1>0, <2>1, <2>2, UpdateIsSame
  <2> QED BY <1>1, <2>3, SameNamesKeep DEF ActivateIssue, TreeDone
<1>2. ASSUME NEW i, NEW row, OtherUpdate(i, row) PROVE TreeInv'
  <2> DEFINE r == [owner[i] EXCEPT !.status = row.status, !.slug = row.slug, !.parent = row.parent]
  <2>1. owner' = [owner EXCEPT ![i] = r]
    BY <1>0, <1>2 DEF OtherUpdate, TreeTyped
  <2>2. i \in DOMAIN owner => IsOwner(r) /\ r.branch = owner[i].branch /\ r.tree = owner[i].tree
    <3>1. i \in DOMAIN owner => IsOwner(owner[i])
      BY <1>0 DEF TreeTyped
    <3> QED BY <3>1 DEF IsOwner, OwnerColumns
  <2>3. RowsSame
    <3> HIDE DEF r
    <3> QED BY <1>0, <2>1, <2>2, UpdateIsSame
  <2> QED BY <1>2, <2>3, SameNamesKeep DEF OtherUpdate
<1> QED BY <1>1, <1>2

\* A directory goes, that nobody names or has added unless it was deleted by hand.
LEMMA TreesLostKeep ==
  ASSUME TreeInv, NEW t, trees' = TreesWithout(t), UNCHANGED <<treePlan, owner, worked>>,
         treeProc' = treeProc \/ \E p \in DOMAIN treeProc : treeProc' = [treeProc EXCEPT ![p] = TreeIdle],
         treeFaults' = [x \in {"commands", "stops", "writes", "gone"} |-> treeFaults'[x]],
         OneStops /\ TreeBody =>
           /\ \/ treeFaults'.gone = treeFaults.gone
              \/ treeFaults'.gone = treeFaults.gone \cup {t} /\ \E x \in branches : t = WorktreePath(x)
           /\ t \notin treeFaults'.gone => Naming(t) = {}
           /\ \A q \in DOMAIN treeProc : treeProc'[q] = treeProc[q] =>
                /\ treeProc[q].at = "added" /\ t = WorktreePath(treeProc[q].branch) => t \in treeFaults.gone
                /\ treeProc[q].at \in StopSteps /\ t = treeProc[q].tree => t \in treeFaults'.gone
           /\ branches' \subseteq branches
           /\ \A x \in branches \ branches' : t = WorktreePath(x) /\ t \notin treeFaults'.gone /\ x \notin worked
  PROVE  TreeInv'
<1>0. /\ DOMAIN treeProc' = DOMAIN treeProc /\ treeProc' = [q \in treePlan.starters \cup treePlan.stoppers |-> treeProc'[q]]
      /\ \A q \in DOMAIN treeProc : treeProc'[q] = treeProc[q] \/ treeProc'[q] = TreeIdle
      /\ TreeIdle.at \notin StopSteps \cup {"added"} /\ "at" \in DOMAIN TreeIdle
  BY DEF TreeInv, TreeTyped, TreeIdle, StopSteps
<1>1. /\ DOMAIN trees' = DOMAIN trees \ {t} /\ trees' = [u \in DOMAIN trees' |-> trees'[u]]
      /\ \A u \in DOMAIN trees' : trees'[u] = trees[u]
  BY DEF TreesWithout
<1>2. TreeTyped'
  <2>1. \A q \in DOMAIN treeProc' : "at" \in DOMAIN treeProc'[q]
    BY <1>0 DEF TreeInv, TreeTyped
  <2>2. \A u \in DOMAIN trees' : trees'[u] = [x \in {"branch", "dirty"} |-> trees'[u][x]]
    BY <1>1 DEF TreeInv, TreeTyped
  <2> QED BY <1>0, <1>1, <2>1, <2>2 DEF TreeInv, TreeTyped
<1>3. ASSUME OneStops, TreeBody PROVE TreeBody'
  <2>1. \A u, S : u # t \/ u \in treeFaults'.gone => (Standing(u, S) => Standing(u, S)')
    BY <1>1, <1>3 DEF Standing, Naming
  <2>2. TreesFit'
    <3>1. ASSUME NEW u \in DOMAIN trees' PROVE u = WorktreePath(trees'[u].branch) /\ trees'[u].branch \in branches'
      <4>1. u # t /\ u \in DOMAIN trees /\ trees'[u] = trees[u] /\ u = WorktreePath(trees[u].branch) /\ trees[u].branch \in branches
        BY <1>1, <1>3, <3>1 DEF TreeBody, TreesFit
      <4> QED BY <1>3, <4>1
    <3>2. ASSUME NEW u \in treeFaults'.gone PROVE \E b \in branches' : u = WorktreePath(b)
      <4>1. PICK b \in branches : u = WorktreePath(b)
        BY <1>3, <3>2 DEF TreeBody, TreesFit
      <4> QED BY <1>3, <3>2, <4>1
    <3>3. worked' \subseteq branches'
      BY <1>3 DEF TreeBody, TreesFit
    <3> QED BY <3>1, <3>2, <3>3 DEF TreesFit
  <2>3. TreeRowsFit'
    <3> SUFFICES ASSUME NEW i \in DOMAIN owner, IsStarted(owner[i])
                 PROVE  /\ owner[i].tree = WorktreePath(owner[i].branch) /\ owner[i].branch \in branches'
                        /\ Standing(owner[i].tree, {i})'
      BY DEF TreeRowsFit
    <3>1. PICK u : u = owner[i].tree
      OBVIOUS
    <3>2. u = WorktreePath(owner[i].branch) /\ owner[i].branch \in branches /\ Standing(u, {i})
      BY <1>3, <3>1 DEF TreeBody, TreeRowsFit
    <3>3. u # t \/ u \in treeFaults'.gone
      BY <1>3, <3>1 DEF Naming
    <3>4. Standing(u, {i})'
      BY <2>1, <3>2, <3>3
    <3> QED BY <1>3, <3>1, <3>2, <3>3, <3>4
  <2>4. ASSUME NEW q \in DOMAIN treeProc' PROVE StopFits(q)'
    <3>1. CASE treeProc'[q] = treeProc[q] /\ treeProc[q].at \in StopSteps
      <4>1. StopFits(q)
        BY <1>0, <1>3, <2>4 DEF TreeBody
      <4>2. treeProc[q].tree # t \/ t \in treeFaults'.gone
        BY <1>0, <1>3, <2>4, <3>1
      <4>3. treeProc[q].branch \in branches'
        BY <1>3, <3>1, <4>1, <4>2 DEF StopFits
      <4>4. PICK u, S : u = treeProc[q].tree /\ S = IF treeProc[q].at = "stopping" THEN {treeProc[q].own} ELSE {}
        OBVIOUS
      <4>5. Standing(u, S)'
        BY <2>1, <3>1, <4>1, <4>2, <4>4 DEF StopFits
      <4> QED BY <3>1, <4>1, <4>3, <4>4, <4>5 DEF StopFits
    <3>2. CASE treeProc'[q].at \notin StopSteps
      BY <3>2 DEF StopFits
    <3> QED BY <1>0, <2>4, <3>1, <3>2
  <2>5. ASSUME NEW q \in DOMAIN treeProc' PROVE AddFits(q)'
    <3>1. CASE treeProc'[q] = treeProc[q] /\ treeProc[q].at = "added"
      <4>0. PICK u : u = WorktreePath(treeProc[q].branch)
        OBVIOUS
      <4>1. /\ treeProc[q].branch \in branches /\ Standing(u, {})
            /\ u \notin treeFaults.gone => \A r \in DOMAIN treeProc \ {q} :
                 /\ treeProc[r].at = "added" => treeProc[r].branch # treeProc[q].branch
                 /\ treeProc[r].at \in StopSteps => treeProc[r].tree # u
            /\ treeProc[q].made => u \notin treeFaults.gone /\ treeProc[q].branch \notin worked
        BY <1>0, <1>3, <2>5, <3>1, <4>0 DEF TreeBody, AddFits
      <4>2. u # t \/ t \in treeFaults.gone
        BY <1>0, <1>3, <2>5, <3>1, <4>0
      <4>3. treeFaults.gone \subseteq treeFaults'.gone
        BY <1>3
      <4>4. treeProc[q].branch \in branches'
        BY <1>3, <4>0, <4>1, <4>2, <4>3
      <4>5. Standing(u, {})'
        BY <2>1, <4>1, <4>2, <4>3
      <4>6. u \in treeFaults'.gone => u \in treeFaults.gone
        BY <1>3, <4>2
      <4>7. /\ WorktreePath(treeProc'[q].branch) = u /\ treeProc'[q].branch = treeProc[q].branch
        BY <3>1, <4>0
      <4> QED BY <1>0, <3>1, <4>0, <4>1, <4>3, <4>4, <4>5, <4>6, <4>7 DEF AddFits
    <3>2. CASE treeProc'[q].at # "added"
      BY <3>2 DEF AddFits
    <3> QED BY <1>0, <2>5, <3>1, <3>2
  <2> QED BY <2>2, <2>3, <2>4, <2>5 DEF TreeBody
<1> QED BY <1>2, <1>3 DEF TreeInv, OneStops

\* RollbackIssueWorktree: what a start added goes, with a branch it made.
LEMMA RollbackKeeps ==
  ASSUME TreeInv, NEW p \in DOMAIN treeProc, RollbackIssueWorktree(p)
  PROVE  TreeInv'
<1> DEFINE b == treeProc[p].branch
           t == WorktreePath(b)
<1>1. /\ treeProc[p].at = "added" /\ trees' = TreesWithout(t) /\ UNCHANGED <<treePlan, owner, worked>>
      /\ branches' = branches \ (IF treeProc[p].made THEN {b} ELSE {})
      /\ treeProc' = [treeProc EXCEPT ![p] = TreeIdle]
  BY DEF RollbackIssueWorktree, TreeAt, TreeDone
<1>2. TreeTyped /\ Spend("writes")
  BY DEF TreeInv, RollbackIssueWorktree
<1>3. treeFaults' = [x \in {"commands", "stops", "writes", "gone"} |-> treeFaults'[x]] /\ treeFaults'.gone = treeFaults.gone
  BY <1>2, SpentIsTyped
<1>4. ASSUME OneStops, TreeBody
      PROVE  /\ t \notin treeFaults'.gone => Naming(t) = {}
             /\ \A q \in DOMAIN treeProc : treeProc'[q] = treeProc[q] =>
                  /\ treeProc[q].at = "added" /\ t = WorktreePath(treeProc[q].branch) => t \in treeFaults.gone
                  /\ treeProc[q].at \in StopSteps /\ t = treeProc[q].tree => t \in treeFaults'.gone
             /\ branches' \subseteq branches
             /\ \A x \in branches \ branches' : t = WorktreePath(x) /\ t \notin treeFaults'.gone /\ x \notin worked
  <2>1. AddFits(p)
    BY <1>4 DEF TreeBody
  <2>2. treeProc'[p] # treeProc[p]
    BY <1>1, <1>2 DEF TreeTyped, TreeIdle
  <2>3. t \notin treeFaults'.gone => Naming(t) = {}
    BY <1>1, <1>3, <2>1 DEF AddFits, Standing
  <2>4. ASSUME NEW q \in DOMAIN treeProc, treeProc'[q] = treeProc[q]
        PROVE  /\ treeProc[q].at = "added" /\ t = WorktreePath(treeProc[q].branch) => t \in treeFaults.gone
               /\ treeProc[q].at \in StopSteps /\ t = treeProc[q].tree => t \in treeFaults'.gone
    <3>1. q # p
      BY <2>2, <2>4
    <3>2. WorktreePath(treeProc[q].branch) = t => treeProc[q].branch = b
      BY DEF WorktreePath
    <3> QED BY <1>1, <1>3, <2>1, <2>4, <3>1, <3>2 DEF AddFits
  <2>5. \A x \in branches \ branches' : x = b /\ treeProc[p].made
    BY <1>1
  <2>6. treeProc[p].made => t \notin treeFaults'.gone /\ b \notin worked
    BY <1>1, <1>3, <2>1 DEF AddFits
  <2> QED BY <1>1, <2>3, <2>4, <2>5, <2>6
<1> HIDE DEF t, b
<1> QED BY <1>1, <1>3, <1>4, TreesLostKeep

\* RemoveIssueWorktree: only the process that stops held the directory.
LEMMA RemoveKeeps ==
  ASSUME TreeInv, NEW p \in DOMAIN treeProc, RemoveIssueWorktree(p)
  PROVE  TreeInv'
<1> DEFINE t == treeProc[p].tree
           c == [treeProc[p] EXCEPT !.at = "restore"]
<1>0. /\ treeProc[p].at = "cleared" /\ UNCHANGED <<treePlan, owner, branches, treeFaults, worked>> /\ TreeTyped
  BY DEF RemoveIssueWorktree, TreeAt, TreeInv
<1>1. treeFaults' = [x \in {"commands", "stops", "writes", "gone"} |-> treeFaults'[x]] /\ treeFaults'.gone = treeFaults.gone
  BY <1>0 DEF TreeTyped
<1>2. ASSUME OneStops, TreeBody
      PROVE  /\ p \in treePlan.stoppers /\ DOMAIN treeProc[p] = {"at", "own", "force", "branch", "tree"}
             /\ t = WorktreePath(treeProc[p].branch) /\ treeProc[p].branch \in branches /\ Standing(t, {})
  BY <1>0, <1>2 DEF TreeBody, StopFits, StopSteps
<1>3. CASE TreeGoes(p, "restore") /\ UNCHANGED trees
  <2>1. treeProc' = [treeProc EXCEPT ![p] = c] /\ c.at = "restore" /\ "at" \in DOMAIN c
    BY <1>0, <1>3 DEF TreeGoes, TreeTyped
  <2>2. Alone(p, c)
    BY <1>0, <1>1, <1>3, <2>1 DEF Alone
  <2>3. ASSUME OneStops, TreeBody PROVE StopFits(p)' /\ c.tree = t /\ treeProc[p].at \in StopSteps
    <3>1. treeProc'[p] = c
      BY <1>0, <2>1 DEF TreeTyped
    <3>2. c.tree = t /\ c.branch = treeProc[p].branch /\ DOMAIN c = DOMAIN treeProc[p]
      BY <1>2, <2>3
    <3>3. PICK u : u = t
      OBVIOUS
    <3>4. Standing(u, {})'
      BY <1>0, <1>2, <1>3, <2>3, <3>3 DEF Standing, Naming
    <3> HIDE DEF c, t
    <3> QED BY <1>0, <1>2, <2>1, <2>3, <3>1, <3>2, <3>3, <3>4 DEF StopFits, StopSteps
  <2> HIDE DEF c
  <2> QED BY <2>1, <2>2, <2>3, AloneKeeps
<1>4. CASE trees' = TreesWithout(t) /\ TreeDone(p)
  <2>1. treeProc' = [treeProc EXCEPT ![p] = TreeIdle]
    BY <1>4 DEF TreeDone
  <2>2. treeProc'[p] # treeProc[p]
    BY <1>0, <2>1 DEF TreeTyped, TreeIdle
  <2>3. ASSUME OneStops, TreeBody
        PROVE  /\ t \notin treeFaults'.gone => Naming(t) = {}
               /\ \A q \in DOMAIN treeProc : treeProc'[q] = treeProc[q] =>
                    /\ treeProc[q].at = "added" /\ t = WorktreePath(treeProc[q].branch) => t \in treeFaults.gone
                    /\ treeProc[q].at \in StopSteps /\ t = treeProc[q].tree => t \in treeFaults'.gone
    <3>1. t \notin treeFaults'.gone => Naming(t) = {}
      BY <1>1, <1>2, <2>3 DEF Standing
    <3>2. ASSUME NEW q \in DOMAIN treeProc, treeProc'[q] = treeProc[q], treeProc[q].at = "added", t = WorktreePath(treeProc[q].branch)
          PROVE  t \in treeFaults.gone
      <4>1. AddFits(q) /\ q # p
        BY <2>2, <2>3, <3>2 DEF TreeBody
      <4>2. treeProc[p].at \in StopSteps
        BY <1>0 DEF StopSteps
      <4> QED BY <3>2, <4>1, <4>2 DEF AddFits
    <3>3. ASSUME NEW q \in DOMAIN treeProc, treeProc'[q] = treeProc[q], treeProc[q].at \in StopSteps PROVE FALSE
      <4>1. q \in treePlan.stoppers
        BY <2>3, <3>3 DEF TreeBody, StopFits
      <4> QED BY <1>2, <2>2, <2>3, <3>3, <4>1 DEF OneStops
    <3> QED BY <3>1, <3>2, <3>3
  <2> HIDE DEF t
  <2> QED BY <1>0, <1>1, <1>4, <2>1, <2>3, TreesLostKeep
<1> QED BY <1>3, <1>4 DEF RemoveIssueWorktree

LEMMA DeleteByHandKeeps ==
  ASSUME TreeInv, NEW t \in DOMAIN trees, DeleteByHand(t)
  PROVE  TreeInv'
<1>1. /\ t \notin treeFaults.gone /\ trees' = TreesWithout(t) /\ UNCHANGED <<treePlan, owner, branches, worked, treeProc>>
      /\ Naming(t) # {}
  BY DEF DeleteByHand, Naming
<1>2. treeFaults' = [x \in {"commands", "stops", "writes", "gone"} |-> treeFaults'[x]] /\ treeFaults'.gone = treeFaults.gone \cup {t}
  BY DEF DeleteByHand, TreeInv, TreeTyped
<1>3. ASSUME OneStops, TreeBody
      PROVE  /\ \E x \in branches : t = WorktreePath(x)
             /\ \A q \in DOMAIN treeProc : treeProc[q].at = "added" => t # WorktreePath(treeProc[q].branch)
  <2>1. \E x \in branches : t = WorktreePath(x)
    BY <1>3 DEF TreeBody, TreesFit
  <2>2. ASSUME NEW q \in DOMAIN treeProc, treeProc[q].at = "added" PROVE t # WorktreePath(treeProc[q].branch)
    BY <1>1, <1>3, <2>2 DEF TreeBody, AddFits, Standing
  <2> QED BY <2>1, <2>2
<1> QED BY <1>1, <1>2, <1>3, TreesLostKeep

\* Directories of the branches they were of, and work on a branch of a directory a row names.
LEMMA TreesWorkedKeep ==
  ASSUME TreeInv, NEW t \in DOMAIN trees, Dirty(t) \/ CommitWork(t)
  PROVE  TreeInv'
<1>1. /\ UNCHANGED <<treePlan, owner, branches, treeProc, treeFaults>>
      /\ DOMAIN trees' = DOMAIN trees /\ trees' = [u \in DOMAIN trees' |-> trees'[u]]
      /\ \A u \in DOMAIN trees : trees'[u].branch = trees[u].branch /\ trees'[u] = [x \in {"branch", "dirty"} |-> trees'[u][x]]
      /\ worked' = worked \/ (worked' = worked \cup {trees[t].branch} /\ Naming(t) # {})
  <2>1. CASE Dirty(t)
    <3>1. /\ UNCHANGED <<treePlan, owner, branches, treeProc, treeFaults, worked>> /\ DOMAIN trees' = DOMAIN trees
          /\ \A u \in DOMAIN trees \ {t} : trees'[u] = trees[u]
          /\ trees' = [u \in DOMAIN trees' |-> trees'[u]]
      BY <2>1 DEF Dirty, TreeInv, TreeTyped
    <3>2. trees'[t].branch = trees[t].branch /\ trees'[t] = [x \in {"branch", "dirty"} |-> trees'[t][x]]
      BY <2>1 DEF Dirty, TreeInv, TreeTyped
    <3>3. \A u \in DOMAIN trees : trees[u] = [x \in {"branch", "dirty"} |-> trees[u][x]]
      BY DEF TreeInv, TreeTyped
    <3> QED BY <3>1, <3>2, <3>3
  <2>2. CASE CommitWork(t)
    BY <2>2 DEF CommitWork, Naming, TreeInv, TreeTyped
  <2> QED BY <2>1, <2>2
<1>2. TreeTyped'
  BY <1>1 DEF TreeInv, TreeTyped
<1>3. ASSUME OneStops, TreeBody PROVE TreeBody'
  <2>1. \A u, S : Standing(u, S) => Standing(u, S)'
    BY <1>1 DEF Standing, Naming
  <2>2. TreesFit'
    BY <1>1, <1>3 DEF TreeBody, TreesFit
  <2>3. TreeRowsFit'
    BY <1>1, <1>3 DEF TreeBody, TreeRowsFit, Standing, Naming
  <2>4. ASSUME NEW q \in DOMAIN treeProc' PROVE StopFits(q)'
    BY <1>1, <1>3, <2>4 DEF TreeBody, StopFits, Standing, Naming
  <2>5. ASSUME NEW q \in DOMAIN treeProc' PROVE AddFits(q)'
    <3>1. AddFits(q) /\ treeProc'[q] = treeProc[q]
      BY <1>1, <1>3, <2>5 DEF TreeBody
    <3>2. ASSUME treeProc[q].at = "added", treeProc[q].made PROVE treeProc[q].branch \notin worked'
      <4> DEFINE u == WorktreePath(treeProc[q].branch)
      <4>1. u \notin treeFaults.gone /\ Naming(u) = {} /\ treeProc[q].branch \notin worked
        BY <3>1, <3>2 DEF AddFits, Standing
      <4>2. treeProc[q].branch = trees[t].branch => u = t
        BY <1>3 DEF TreeBody, TreesFit
      <4> QED BY <1>1, <4>1, <4>2
    <3> QED BY <1>1, <3>1, <3>2 DEF AddFits, Standing, Naming
  <2> QED BY <2>2, <2>3, <2>4, <2>5 DEF TreeBody
<1> QED BY <1>1, <1>2, <1>3 DEF TreeInv, OneStops

LEMMA TreeInvStep ==
  ASSUME TreeInv, [WorktreeNext]_treeVars PROVE TreeInv'
<1>0. DOMAIN treeProc = treePlan.starters \cup treePlan.stoppers
  BY DEF TreeInv, TreeTyped
<1>1. CASE \E p \in treePlan.starters, i \in treePlan.asks : AskStart(p, i)
  BY <1>0, <1>1, TreeGoesAlone
<1>2. CASE \E p \in treePlan.starters :
             \/ FindOwner(p) \/ NameWorktree(p) \/ AddIssueWorktree(p) \/ RecordStart(p) \/ RollbackIssueWorktree(p) \/ ActivateIssue(p)
  <2>1. PICK p \in DOMAIN treeProc :
          \/ FindOwner(p) \/ NameWorktree(p) \/ AddIssueWorktree(p) \/ RecordStart(p) \/ RollbackIssueWorktree(p) \/ ActivateIssue(p)
    BY <1>0, <1>2
  <2>2. CASE FindOwner(p) \/ NameWorktree(p)
    BY <2>2, TreeGoesAlone
  <2>3. CASE AddIssueWorktree(p)
    BY <2>3, AddKeeps
  <2>4. CASE RecordStart(p)
    BY <2>4, RecordStartKeeps
  <2>5. CASE RollbackIssueWorktree(p)
    BY <2>5, RollbackKeeps
  <2>6. CASE ActivateIssue(p)
    BY <2>6, UpdatesKeep
  <2> QED BY <2>1, <2>2, <2>3, <2>4, <2>5, <2>6
<1>3. CASE \E p \in treePlan.stoppers, i \in DOMAIN owner, force \in BOOLEAN : AskStop(p, i, force)
  BY <1>3, AskStopKeeps
<1>4. CASE \E p \in treePlan.stoppers : ClearStarted(p) \/ RemoveIssueWorktree(p) \/ RestoreStarted(p)
  BY <1>0, <1>4, ClearStartedKeeps, RemoveKeeps, RestoreStartedKeeps
<1>5. CASE \E p \in DOMAIN treeProc : TreeStop(p)
  BY <1>5, TreeGoesAlone
<1>6. CASE \E t \in DOMAIN trees : Dirty(t) \/ CommitWork(t) \/ DeleteByHand(t)
  BY <1>6, TreesWorkedKeep, DeleteByHandKeeps
<1>7. CASE \E u \in treePlan.updates : OtherUpdate(u[1], u[2])
  <2>1. PICK i, row : OtherUpdate(i, row)
    BY <1>7
  <2> QED BY <2>1, UpdatesKeep
<1>8. CASE UNCHANGED treeVars
  <2>1. RowsSame /\ UNCHANGED <<treePlan, branches, trees, worked, treeFaults, treeProc>>
    BY <1>8 DEF treeVars, TreeInv, TreeTyped, RowsSame
  <2> QED BY <2>1, SameNamesKeep
<1> QED BY <1>1, <1>2, <1>3, <1>4, <1>5, <1>6, <1>7, <1>8 DEF WorktreeNext

\* StartedTreesExist, of projects where one process stops issues: two stops can remove a
\* directory that was started again in between.
THEOREM StartedTreesStay == TreeSpec => [](OneStops => StartedTreesExist)
<1>1. ASSUME TreeInv, OneStops PROVE StartedTreesExist
  <2>1. TreeBody
    BY <1>1 DEF TreeInv
  <2>2. ASSUME NEW i \in DOMAIN owner, IsStarted(owner[i]), owner[i].tree \notin treeFaults.gone
        PROVE  /\ owner[i].tree \in DOMAIN trees /\ trees[owner[i].tree].branch = owner[i].branch
               /\ \A j \in DOMAIN owner \ {i} : owner[j].tree # owner[i].tree
    <3>1. owner[i].tree = WorktreePath(owner[i].branch) /\ Standing(owner[i].tree, {i})
      BY <2>1, <2>2 DEF TreeBody, TreeRowsFit
    <3>2. owner[i].tree \in DOMAIN trees /\ Naming(owner[i].tree) \subseteq {i}
      BY <2>2, <3>1 DEF Standing
    <3>3. owner[i].tree = WorktreePath(trees[owner[i].tree].branch)
      BY <2>1, <3>2 DEF TreeBody, TreesFit
    <3>4. trees[owner[i].tree].branch = owner[i].branch
      BY <3>1, <3>3 DEF WorktreePath
    <3> QED BY <3>2, <3>4 DEF Naming
  <2> QED BY <2>1, <2>2 DEF StartedTreesExist, TreeBody, TreesFit
<1> QED BY <1>1, TreeInvInit, TreeInvStep, PTL DEF TreeSpec

----------------------------------------------------------------------------
(* Names of issues and their tracker, for any plan: a name never goes over *)
(* to another issue and its number never changes, and a Linear issue has   *)
(* one local issue as long as the renames of the prefix spare the names of *)
(* issues that are being adopted.                                          *)
(*                                                                         *)
(* TrackerInv says that whatever a command goes on with, the issue it took *)
(* for a key may have that key: it has names of that number only, and it   *)
(* was made for that key or for none.  Ids with a name are never drawn     *)
(* again, so this stays true although the issue may be deleted, renamed or *)
(* adopted by somebody else before the command writes.                     *)

----------------------------------------------------------------------------
(* The invariant. *)

IsIssueRow(row) ==
  row = [status |-> row.status, parent |-> row.parent, changed |-> row.changed, key |-> row.key,
         number |-> row.number]

\* An issue is made for a key Linear drew, or for none.
RowsMade(ts, rm) == \A i \in DOMAIN ts : IsIssueRow(ts[i]) /\ ts[i].key \in DOMAIN rm \cup {NoName}

\* The names of an issue have one number, the one of its key if it has one.
NamesFit(ts, al) ==
  /\ al = [a \in DOMAIN al |-> al[a]]
  /\ \A a \in DOMAIN al : a = <<a[1], a[2]>>
  /\ \A a, b \in DOMAIN al : al[a] = al[b] => a[2] = b[2]
  /\ \A a \in DOMAIN al : al[a] \in DOMAIN ts /\ ts[al[a]].key # NoName => a[2] = ts[al[a]].key[2]

\* A command may go on with this issue for that key.
MayTake(i, k, ts, al, rm) ==
  /\ k \in DOMAIN rm
  /\ i \in Range(al)
  /\ \A a \in DOMAIN al : al[a] = i => a[2] = k[2]
  /\ i \in DOMAIN ts => ts[i].key \in {k, NoName}

MappingFits(mp, ts, al, rm, time) ==
  \A k \in DOMAIN mp : MayTake(mp[k].issue, k, ts, al, rm) /\ mp[k].at \in Nat /\ mp[k].at <= time

\* The shapes of a command.
PullPlaces == {"read", "lookup", "create", "bind", "parent", "alias", "status", "next"}

Queue(todo, keys) == todo \in Seq(keys \X (keys \cup {NoName}))

Pulling(J, keys) ==
  /\ J.op = "pull" /\ J.pc \in PullPlaces /\ {"op", "pc", "todo", "tree"} \subseteq DOMAIN J
  /\ Queue(J.todo, keys) /\ (J.pc = "read" => J.todo # <<>>)
  /\ J.pc # "read" => {"key", "under", "seen"} \subseteq DOMAIN J /\ J.key \in keys
  /\ J.pc = "create" => "parent" \in DOMAIN J

Making(J, keys) ==
  /\ J.op = "new" /\ J.pc \in {"mint", "create", "bind", "status"} /\ {"op", "pc", "key", "status"} \subseteq DOMAIN J
  /\ J.key \in keys \cup {NoName}
  /\ J.pc = "bind" => "made" \in DOMAIN J /\ J.made

Syncing(J) ==
  /\ J.op \in {"push", "reconcile"} /\ J.pc \in {"remote", "write", "map", "report"}
  /\ {"op", "pc", "key", "id"} \subseteq DOMAIN J

Setting(J) == J.op \in {"define", "apply"} /\ J.pc \in {"team", "config"} /\ {"op", "pc"} \subseteq DOMAIN J

\* The places at which a command goes on with an issue it took for its key.
Holds(J, ts, al, rm) ==
  J.pc \in {"bind", "parent", "alias", "remote", "write", "map"} => "id" \in DOMAIN J /\ MayTake(J.id, J.key, ts, al, rm)

CommandFits(J, ts, al, rm) ==
  \/ J = Asleep
  \/ /\ J # Asleep
     /\ Pulling(J, DOMAIN rm) \/ Making(J, DOMAIN rm) \/ Syncing(J) \/ Setting(J)
     /\ Holds(J, ts, al, rm)

JobsAreOf(jobs, procs) == jobs = [p \in procs |-> jobs[p]]

TrackerInv ==
  /\ tplan \in TrackerPlans
  /\ KeysDrawn(remote)
  /\ RowsMade(tissue, remote)
  /\ NamesFit(tissue, alias)
  /\ now \in Nat
  /\ MappingFits(mapping, tissue, alias, remote, now)
  /\ JobsAreOf(job, tplan.procs)
  /\ \A p \in tplan.procs : CommandFits(job[p], tissue, alias, remote)

\* What every step does to the tables: ids that have a name keep one of the same
\* number, no name goes over to another issue, and no named id is drawn again.
Grows ==
  /\ DOMAIN remote \subseteq DOMAIN remote'
  /\ Range(alias) \subseteq Range(alias')
  /\ \A a \in DOMAIN alias' : alias'[a] \in Range(alias) => \E b \in DOMAIN alias : alias[b] = alias'[a] /\ b[2] = a[2]
  /\ \A a \in DOMAIN alias \cap DOMAIN alias' : alias[a] = alias'[a]
  /\ \A i \in DOMAIN tissue' : i \in Range(alias) => i \in DOMAIN tissue /\ tissue'[i].key = tissue[i].key

\* A command is about to create an issue for that key.
Creating(J, k) == k # NoName /\ J # Asleep /\ J.pc = "create" /\ J.key = k

\* No issue is made in this step, no mapping row goes, and a command that gets to
\* its create has just found its key without a mapping row, or drawn it.
MakesNone ==
  /\ \A i \in DOMAIN tissue' : i \in DOMAIN tissue /\ tissue'[i].key = tissue[i].key
  /\ DOMAIN mapping \subseteq DOMAIN mapping'
  /\ \A p \in tplan.procs : \A k :
       Creating(job'[p], k) =>
         Creating(job[p], k) \/ (alias' = alias /\ (k \notin DOMAIN mapping \/ k \notin DOMAIN remote))

\* Or one is made by a command that is at its create, under the key it has.
MakesOne ==
  \E p \in tplan.procs : \E i, row :
    /\ i \notin DOMAIN tissue \cup Range(alias)
    /\ tissue' = Upserted(tissue, i, row)
    /\ mapping' = mapping
    /\ row.key # NoName => /\ Creating(job[p], row.key)
                           /\ row.key \notin DOMAIN alias
                           /\ row.key \in DOMAIN alias' /\ alias'[row.key] = i
    /\ \A a \in DOMAIN alias : a \in DOMAIN alias' /\ alias'[a] = alias[a]
    /\ \A q \in tplan.procs : \A k : Creating(job'[q], k) => Creating(job[q], k)

StepFits == UNCHANGED tplan /\ TrackerInv' /\ Grows /\ (MakesNone \/ MakesOne)

----------------------------------------------------------------------------
(* What steps keep. *)

\* What a command may take stays takeable.
LEMMA MayTakeStays ==
  ASSUME Grows, NEW i, NEW k, MayTake(i, k, tissue, alias, remote)
  PROVE  MayTake(i, k, tissue', alias', remote')
<1>1. k \in DOMAIN remote' /\ i \in Range(alias')
  BY DEF MayTake, Grows
<1>2. ASSUME NEW a \in DOMAIN alias', alias'[a] = i PROVE a[2] = k[2]
  <2>1. PICK b \in DOMAIN alias : alias[b] = alias'[a] /\ b[2] = a[2]
    BY <1>2 DEF MayTake, Grows
  <2> QED BY <1>2, <2>1 DEF MayTake
<1>3. i \in DOMAIN tissue' => tissue'[i].key \in {k, NoName}
  BY DEF MayTake, Grows
<1> QED BY <1>1, <1>2, <1>3 DEF MayTake

\* A queue of keys stays one when more keys are drawn.
LEMMA QueueStays ==
  ASSUME NEW K, NEW L, K \subseteq L, NEW todo, Queue(todo, K)
  PROVE  Queue(todo, L)
<1> DEFINE S == K \X (K \cup {NoName})
           T == L \X (L \cup {NoName})
<1>1. S \subseteq T /\ todo \in Seq(S)
  BY DEF Queue
<1>2. todo \in Seq(T)
  <2> HIDE DEF S, T
  <2> QED BY <1>1
<1> QED BY <1>2 DEF Queue

\* A command that takes no step fits as before.
LEMMA CommandStays ==
  ASSUME Grows, NEW J, CommandFits(J, tissue, alias, remote)
  PROVE  CommandFits(J, tissue', alias', remote')
<1>1. DOMAIN remote \subseteq DOMAIN remote'
  BY DEF Grows
<1>2. Pulling(J, DOMAIN remote) => Pulling(J, DOMAIN remote')
  <2> SUFFICES ASSUME Pulling(J, DOMAIN remote) PROVE Pulling(J, DOMAIN remote')
    OBVIOUS
  <2>1. Queue(J.todo, DOMAIN remote)
    BY DEF Pulling
  <2>2. Queue(J.todo, DOMAIN remote')
    BY <1>1, <2>1, QueueStays
  <2> QED BY <1>1, <2>2 DEF Pulling
<1>3. Making(J, DOMAIN remote) => Making(J, DOMAIN remote')
  BY <1>1 DEF Making
<1>4. Holds(J, tissue, alias, remote) => Holds(J, tissue', alias', remote')
  BY MayTakeStays DEF Holds
<1> QED BY <1>2, <1>3, <1>4 DEF CommandFits

\* So do the mapping rows that stay as they are.
LEMMA MappingStays ==
  ASSUME Grows, now \in Nat, now' \in Nat, now <= now', MappingFits(mapping, tissue, alias, remote, now),
         \A k \in DOMAIN mapping' :
           \/ k \in DOMAIN mapping /\ mapping'[k] = mapping[k]
           \/ MayTake(mapping'[k].issue, k, tissue', alias', remote') /\ mapping'[k].at \in Nat /\ mapping'[k].at <= now'
  PROVE  MappingFits(mapping, tissue, alias, remote, now)'
<1> SUFFICES ASSUME NEW k \in DOMAIN mapping', k \in DOMAIN mapping, mapping'[k] = mapping[k]
             PROVE  /\ MayTake(mapping'[k].issue, k, tissue', alias', remote')
                    /\ mapping'[k].at \in Nat /\ mapping'[k].at <= now'
  BY DEF MappingFits
<1>1. MayTake(mapping[k].issue, k, tissue, alias, remote) /\ mapping[k].at \in Nat /\ mapping[k].at <= now
  BY DEF MappingFits
<1>2. MayTake(mapping[k].issue, k, tissue', alias', remote')
  BY <1>1, MayTakeStays
<1> QED BY <1>1, <1>2

\* A step of one command.
LEMMA StepKeeps ==
  ASSUME TrackerInv, Grows, UNCHANGED tplan, NEW p,
         KeysDrawn(remote'), RowsMade(tissue', remote'), NamesFit(tissue', alias'),
         now' \in Nat, now <= now',
         \A k \in DOMAIN mapping' :
           \/ k \in DOMAIN mapping /\ mapping'[k] = mapping[k]
           \/ MayTake(mapping'[k].issue, k, tissue', alias', remote') /\ mapping'[k].at \in Nat /\ mapping'[k].at <= now',
         JobsAreOf(job', tplan.procs), \A q \in tplan.procs : q # p => job'[q] = job[q],
         p \in tplan.procs => CommandFits(job'[p], tissue', alias', remote')
  PROVE  TrackerInv'
<1>1. MappingFits(mapping, tissue, alias, remote, now)'
  BY MappingStays DEF TrackerInv
<1>2. ASSUME NEW q \in tplan.procs PROVE CommandFits(job'[q], tissue', alias', remote')
  <2>1. CommandFits(job[q], tissue, alias, remote)
    BY DEF TrackerInv
  <2> QED BY <2>1, CommandStays
<1>3. tplan' \in TrackerPlans
  BY DEF TrackerInv
<1> QED BY <1>1, <1>2, <1>3 DEF TrackerInv

\* Most steps leave the names, the rows' keys and Linear's keys alone.
LEMMA NamesAlone ==
  ASSUME TrackerInv, UNCHANGED alias, KeysDrawn(remote'), DOMAIN remote \subseteq DOMAIN remote',
         \A i \in DOMAIN tissue' : i \in DOMAIN tissue /\ IsIssueRow(tissue'[i]) /\ tissue'[i].key = tissue[i].key
  PROVE  Grows /\ RowsMade(tissue', remote') /\ NamesFit(tissue', alias')
<1>1. Grows
  BY DEF Grows
<1>2. RowsMade(tissue', remote')
  BY DEF RowsMade, TrackerInv
<1>3. NamesFit(tissue', alias')
  BY DEF NamesFit, TrackerInv
<1> QED BY <1>1, <1>2, <1>3

\* A step of one command that leaves the names alone.
LEMMA PlainStep ==
  ASSUME TrackerInv, UNCHANGED <<tplan, alias>>, NEW p \in tplan.procs, NEW J,
         KeysDrawn(remote'), DOMAIN remote \subseteq DOMAIN remote',
         \A i \in DOMAIN tissue' : i \in DOMAIN tissue /\ IsIssueRow(tissue'[i]) /\ tissue'[i].key = tissue[i].key,
         now' \in Nat, now <= now', DOMAIN mapping \subseteq DOMAIN mapping',
         \A k \in DOMAIN mapping' :
           \/ k \in DOMAIN mapping /\ mapping'[k] = mapping[k]
           \/ MayTake(mapping'[k].issue, k, tissue, alias, remote) /\ mapping'[k].at \in Nat /\ mapping'[k].at <= now',
         job' = [job EXCEPT ![p] = J], CommandFits(J, tissue, alias, remote) \/ CommandFits(J, tissue', alias', remote'),
         \A k : Creating(J, k) => Creating(job[p], k) \/ k \notin DOMAIN mapping \/ k \notin DOMAIN remote
  PROVE  StepFits
<1>1. Grows /\ RowsMade(tissue', remote') /\ NamesFit(tissue', alias')
  BY NamesAlone
<1>2. JobsAreOf(job, tplan.procs)
  BY DEF TrackerInv
<1>3. JobsAreOf(job', tplan.procs) /\ job'[p] = J /\ \A q \in tplan.procs : q # p => job'[q] = job[q]
  BY <1>2 DEF JobsAreOf
<1>4. CommandFits(job'[p], tissue', alias', remote')
  BY <1>1, <1>3, CommandStays
<1>5. \A k \in DOMAIN mapping' :
        \/ k \in DOMAIN mapping /\ mapping'[k] = mapping[k]
        \/ MayTake(mapping'[k].issue, k, tissue', alias', remote') /\ mapping'[k].at \in Nat /\ mapping'[k].at <= now'
  BY <1>1, MayTakeStays
<1>6. TrackerInv'
  BY <1>1, <1>3, <1>4, <1>5, StepKeeps
<1>7. MakesNone
  BY <1>3 DEF MakesNone
<1> QED BY <1>1, <1>6, <1>7 DEF StepFits

\* A step that changes no table, only what a command knows.
LEMMA CommandOnly ==
  ASSUME TrackerInv, UNCHANGED <<tplan, alias, tissue, mapping, remote, now>>, NEW p \in tplan.procs, NEW J,
         job' = [job EXCEPT ![p] = J], CommandFits(J, tissue, alias, remote),
         \A k : Creating(J, k) => Creating(job[p], k) \/ k \notin DOMAIN mapping \/ k \notin DOMAIN remote
  PROVE  StepFits
<1>1. now \in Nat /\ KeysDrawn(remote')
  BY DEF TrackerInv
<1>2. \A i \in DOMAIN tissue' : i \in DOMAIN tissue /\ IsIssueRow(tissue'[i]) /\ tissue'[i].key = tissue[i].key
  BY DEF TrackerInv, RowsMade
<1>3. DOMAIN remote \subseteq DOMAIN remote' /\ now' \in Nat /\ now <= now'
  BY <1>1
<1>4. DOMAIN mapping \subseteq DOMAIN mapping' /\ \A k \in DOMAIN mapping' : k \in DOMAIN mapping /\ mapping'[k] = mapping[k]
  OBVIOUS
<1> QED BY <1>1, <1>2, <1>3, <1>4, PlainStep

\* A command ends, whatever became of it.
LEMMA CommandEnds ==
  ASSUME TrackerInv, UNCHANGED <<tplan, alias, tissue, mapping, remote, now>>, NEW p \in tplan.procs, Done(p)
  PROVE  StepFits
<1>1. CommandFits(Asleep, tissue, alias, remote) /\ \A k : ~ Creating(Asleep, k)
  BY DEF CommandFits, Creating
<1> QED BY <1>1, CommandOnly DEF Done

----------------------------------------------------------------------------
(* Commands that settle the identity, and those that begin or end. *)

\* A command that settles who names issues knows no issue.
LEMMA SettingFits ==
  ASSUME NEW J, J.op \in {"define", "apply"}, J.pc \in {"team", "config"}, {"op", "pc"} \subseteq DOMAIN J
  PROVE  CommandFits(J, tissue, alias, remote) /\ \A k : ~ Creating(J, k)
<1>1. J # Asleep
  BY DEF Asleep
<1> QED BY <1>1 DEF CommandFits, Setting, Holds, Creating

LEMMA SettingSteps ==
  ASSUME TrackerInv, NEW p \in tplan.procs,
         DefineTeam(p) \/ WriteConfig(p) \/ BootstrapTrackerSteering(p) \/ ApplyIssueProjectConfig(p)
  PROVE  StepFits
<1>1. CASE DefineTeam(p)
  <2>1. CASE job[p].op = "apply"
    <3>1. Done(p) /\ UNCHANGED <<tplan, alias, tissue, mapping, remote, now>>
      BY <1>1, <2>1 DEF DefineTeam, Done
    <3> QED BY <3>1, CommandEnds
  <2>2. CASE job[p].op # "apply"
    <3> DEFINE J == [job[p] EXCEPT !.pc = "config"]
    <3>1. job' = [job EXCEPT ![p] = J] /\ UNCHANGED <<tplan, alias, tissue, mapping, remote, now>>
      BY <1>1, <2>2 DEF DefineTeam
    <3>2. job[p].op = "define" /\ job[p].pc = "team" /\ job[p] # Asleep /\ CommandFits(job[p], tissue, alias, remote)
      BY <1>1, <2>2 DEF DefineTeam, Awake, TrackerInv
    <3>3. {"op", "pc"} \subseteq DOMAIN job[p]
      BY <3>2 DEF CommandFits, Setting, Pulling, Making, Syncing
    <3>4. J.op = "define" /\ J.pc = "config" /\ {"op", "pc"} \subseteq DOMAIN J
      BY <3>2, <3>3
    <3> HIDE DEF J
    <3>5. CommandFits(J, tissue, alias, remote) /\ \A k : ~ Creating(J, k)
      BY <3>4, SettingFits
    <3> QED BY <3>1, <3>5, CommandOnly
  <2> QED BY <2>1, <2>2
<1>2. CASE WriteConfig(p)
  BY <1>2, CommandEnds DEF WriteConfig
<1>3. CASE BootstrapTrackerSteering(p)
  <2>1. PICK prefix : job' = [job EXCEPT ![p] = [op |-> "define", pc |-> "config", authority |-> "linear", prefix |-> prefix]]
    BY <1>3 DEF BootstrapTrackerSteering
  <2> DEFINE J == [op |-> "define", pc |-> "config", authority |-> "linear", prefix |-> prefix]
  <2>2. J.op = "define" /\ J.pc = "config" /\ {"op", "pc"} \subseteq DOMAIN J
    OBVIOUS
  <2>3. UNCHANGED <<tplan, alias, tissue, mapping, remote, now>> /\ job' = [job EXCEPT ![p] = J]
    BY <1>3, <2>1 DEF BootstrapTrackerSteering
  <2> HIDE DEF J
  <2>4. CommandFits(J, tissue, alias, remote) /\ \A k : ~ Creating(J, k)
    BY <2>2, SettingFits
  <2> QED BY <2>3, <2>4, CommandOnly
<1>4. CASE ApplyIssueProjectConfig(p)
  <2>1. UNCHANGED <<tplan, alias, tissue, mapping, remote, now>>
    BY <1>4 DEF ApplyIssueProjectConfig
  <2>2. CASE config.authority # "linear"
    <3>1. job' = [job EXCEPT ![p] = job[p]]
      BY <1>4, <2>2 DEF ApplyIssueProjectConfig, TrackerInv, JobsAreOf
    <3>2. CommandFits(job[p], tissue, alias, remote)
      BY DEF TrackerInv
    <3> QED BY <2>1, <3>1, <3>2, CommandOnly
  <2>3. CASE config.authority = "linear"
    <3> DEFINE J == [op |-> "apply", pc |-> "team", authority |-> "linear", prefix |-> config.prefix]
    <3>1. job' = [job EXCEPT ![p] = J]
      BY <1>4, <2>3 DEF ApplyIssueProjectConfig
    <3>2. J.op = "apply" /\ J.pc = "team" /\ {"op", "pc"} \subseteq DOMAIN J
      OBVIOUS
    <3> HIDE DEF J
    <3>3. CommandFits(J, tissue, alias, remote) /\ \A k : ~ Creating(J, k)
      BY <3>2, SettingFits
    <3> QED BY <2>1, <3>1, <3>3, CommandOnly
  <2> QED BY <2>2, <2>3
<1> QED BY <1>1, <1>2, <1>3, <1>4

\* A queue loses its first, or gets a list of keys before it.
LEMMA QueueMoves ==
  ASSUME NEW K, NEW todo, Queue(todo, K)
  PROVE  /\ todo # <<>> => Head(todo)[1] \in K /\ Queue(Tail(todo), K)
         /\ \A k \in K : Queue(<<<<k, NoName>>>>, K) /\ <<<<k, NoName>>>> # <<>>
         /\ \A list : Queue(list, K) => Queue(list \o todo, K)
<1> DEFINE S == K \X (K \cup {NoName})
<1>1. todo \in Seq(S)
  BY DEF Queue
<1>2. \A x \in S : x[1] \in K
  OBVIOUS
<1>3. \A k \in K : <<k, NoName>> \in S
  OBVIOUS
<1>4. \A list : Queue(list, K) <=> list \in Seq(S)
  BY DEF Queue
<1> HIDE DEF S
<1>5. todo # <<>> => Head(todo) \in S /\ Tail(todo) \in Seq(S)
  BY <1>1
<1>6. \A x \in S : <<x>> \in Seq(S) /\ <<x>> # <<>>
  OBVIOUS
<1>7. \A list \in Seq(S) : list \o todo \in Seq(S)
  BY <1>1
<1> QED BY <1>2, <1>3, <1>4, <1>5, <1>6, <1>7

LEMMA PullIsPulling ==
  ASSUME TrackerInv, NEW p \in tplan.procs, NEW pc, Awake(p, "pull", pc)
  PROVE  Pulling(job[p], DOMAIN remote) /\ Holds(job[p], tissue, alias, remote) /\ job[p].pc = pc /\ job[p] # Asleep
BY DEF TrackerInv, CommandFits, Awake, Making, Syncing, Setting

\* Pulling begins, and goes on with the next key.
LEMMA PullBegins ==
  ASSUME TrackerInv, NEW p \in tplan.procs, NEW k \in DOMAIN remote, NEW t, Pull(p, k, t)
  PROVE  StepFits
<1> DEFINE J == [op |-> "pull", pc |-> "read", todo |-> <<<<k, NoName>>>>, tree |-> t]
<1>1. job' = [job EXCEPT ![p] = J] /\ UNCHANGED <<tplan, alias, tissue, mapping, remote, now>>
  BY DEF Pull
<1>2. Queue(<<>>, DOMAIN remote)
  BY DEF Queue
<1>3. Queue(J.todo, DOMAIN remote) /\ J.todo # <<>>
  BY <1>2, QueueMoves
<1>4. J.op = "pull" /\ J.pc = "read" /\ {"op", "pc", "todo", "tree"} \subseteq DOMAIN J
  OBVIOUS
<1> HIDE DEF J
<1>5. J # Asleep
  BY <1>4 DEF Asleep
<1>6. CommandFits(J, tissue, alias, remote) /\ \A l : ~ Creating(J, l)
  BY <1>3, <1>4, <1>5 DEF CommandFits, Pulling, PullPlaces, Holds, Creating
<1> QED BY <1>1, <1>6, CommandOnly

LEMMA PullReads ==
  ASSUME TrackerInv, NEW p \in tplan.procs, AdoptRead(p)
  PROVE  StepFits
<1> DEFINE k == Head(job[p].todo)[1]
           J == [op |-> "pull", pc |-> "lookup", todo |-> Tail(job[p].todo), tree |-> job[p].tree,
                 key |-> k, under |-> Head(job[p].todo)[2], seen |-> remote[k]]
<1>1. job' = [job EXCEPT ![p] = J] /\ UNCHANGED <<tplan, alias, tissue, mapping, remote, now>>
  BY DEF AdoptRead
<1>2. Queue(job[p].todo, DOMAIN remote) /\ job[p].todo # <<>>
  BY PullIsPulling DEF AdoptRead, Pulling
<1>3. k \in DOMAIN remote /\ Queue(J.todo, DOMAIN remote)
  BY <1>2, QueueMoves
<1>4. J.op = "pull" /\ J.pc = "lookup" /\ J.key = k /\ {"op", "pc", "todo", "tree", "key", "under", "seen"} \subseteq DOMAIN J
  OBVIOUS
<1> HIDE DEF J, k
<1>5. J # Asleep
  BY <1>4 DEF Asleep
<1>6. CommandFits(J, tissue, alias, remote) /\ \A l : ~ Creating(J, l)
  BY <1>3, <1>4, <1>5 DEF CommandFits, Pulling, PullPlaces, Holds, Creating
<1> QED BY <1>1, <1>6, CommandOnly

\* The children are in the order of their numbers, whatever Linear returned first.
LEMMA ChildrenListed ==
  ASSUME KeysDrawn(remote), NEW below \in SUBSET DOMAIN remote, NEW list, NEW k \in DOMAIN remote,
         list = [n \in 1..Cardinality(below) |->
                   CHOOSE x \in below : Cardinality({y \in below : y[2] < x[2]}) = n - 1]
  PROVE  Queue([n \in DOMAIN list |-> <<list[n], k>>], DOMAIN remote)
<1> DEFINE R == {q \in below \X below : q[1][2] < q[2][2]}
           N == Cardinality(below)
<1>1. IsFiniteSet(below) /\ Cardinality(below) \in Nat
  BY FS_Subset, FS_CardinalityType DEF KeysDrawn
<1>2. \A x \in below : x = <<Team, x[2]>> /\ x[2] \in Int
  BY DEF KeysDrawn
<1>3. \A x \in below : {y \in below : <<y, x>> \in R} = {y \in below : y[2] < x[2]}
  OBVIOUS
<1>4. \A x, y \in below : <<x, y>> \in R <=> x[2] < y[2]
  OBVIOUS
<1> HIDE DEF R
<1>5. \A x \in below : <<x, x>> \notin R
  BY <1>2, <1>4
<1>6. \A x, y, z \in below : <<x, y>> \in R /\ <<y, z>> \in R => <<x, z>> \in R
  BY <1>2, <1>4
<1>7. \A x, y \in below : x # y => <<x, y>> \in R \/ <<y, x>> \in R
  <2> SUFFICES ASSUME NEW x \in below, NEW y \in below, x # y PROVE <<x, y>> \in R \/ <<y, x>> \in R
    OBVIOUS
  <2>1. x[2] # y[2] /\ x[2] \in Int /\ y[2] \in Int
    BY <1>2
  <2> QED BY <1>4, <2>1
<1>8. ASSUME NEW n \in 1 .. Cardinality(below), \E x \in below : Cardinality({y \in below : <<y, x>> \in R}) = n - 1
      PROVE  list[n] \in below /\ Cardinality({y \in below : <<y, list[n]>> \in R}) = n - 1
  <2>1. \E x \in below : Cardinality({y \in below : y[2] < x[2]}) = n - 1
    BY <1>3, <1>8
  <2>2. list[n] = CHOOSE x \in below : Cardinality({y \in below : y[2] < x[2]}) = n - 1
    OBVIOUS
  <2>3. list[n] \in below /\ Cardinality({y \in below : y[2] < list[n][2]}) = n - 1
    BY <2>1, <2>2, Zenon
  <2> QED BY <1>3, <2>3
<1>9. DOMAIN list = 1 .. N
  OBVIOUS
<1>10. \A n \in 1 .. Cardinality(below) :
         (\E x \in below : Cardinality({y \in below : <<y, x>> \in R}) = n - 1)
           => list[n] \in below /\ Cardinality({y \in below : <<y, list[n]>> \in R}) = n - 1
  BY <1>8
<1> HIDE DEF N
<1>11. \A n \in 1 .. Cardinality(below) : list[n] \in below
  <2> QED BY ONLY <1>1, <1>5, <1>6, <1>7, <1>10, MembersInOrder
<1>12. \A n \in 1 .. N : list[n] \in DOMAIN remote
  BY ONLY <1>11, below \in SUBSET DOMAIN remote DEF N
<1> DEFINE S == (DOMAIN remote) \X (DOMAIN remote \cup {NoName})
           keyed == [n \in DOMAIN list |-> <<list[n], k>>]
<1>13. \A x \in DOMAIN remote : <<x, k>> \in S
  OBVIOUS
<1> HIDE DEF S
<1>14. keyed \in [1 .. N -> S]
  BY ONLY <1>9, <1>12, <1>13
<1>15. N \in Nat
  BY <1>1 DEF N
<1> HIDE DEF keyed
<1>16. keyed \in Seq(S)
  BY ONLY <1>14, <1>15
<1> QED BY <1>16 DEF Queue, S, keyed

LEMMA PullGoesOn ==
  ASSUME TrackerInv, NEW p \in tplan.procs, PullChildren(p)
  PROVE  StepFits
<1> DEFINE k == job[p].key
           below == IF job[p].tree THEN {c \in DOMAIN remote : remote[c].parent = k} ELSE {}
           list == [n \in 1..Cardinality(below) |->
                      CHOOSE x \in below : Cardinality({y \in below : y[2] < x[2]}) = n - 1]
           todo == [n \in DOMAIN list |-> <<list[n], k>>] \o job[p].todo
           J == [op |-> "pull", pc |-> "read", todo |-> todo, tree |-> job[p].tree]
<1>1. UNCHANGED <<tplan, alias, tissue, mapping, remote, now>>
  BY DEF PullChildren
<1>2. IF todo = <<>> THEN Done(p) ELSE job' = [job EXCEPT ![p] = J]
  BY Zenon DEF PullChildren, Listed
<1>3. Queue(job[p].todo, DOMAIN remote) /\ k \in DOMAIN remote
  <2>1. Awake(p, "pull", "next")
    BY Zenon DEF PullChildren
  <2>2. Pulling(job[p], DOMAIN remote) /\ job[p].pc = "next"
    BY <2>1, PullIsPulling
  <2> QED BY <2>2 DEF Pulling
<1>4. below \in SUBSET DOMAIN remote
  OBVIOUS
<1>5. Queue([n \in DOMAIN list |-> <<list[n], k>>], DOMAIN remote)
  <2> HIDE DEF below, k
  <2> QED BY <1>3, <1>4, ChildrenListed DEF TrackerInv
<1>6. Queue(todo, DOMAIN remote)
  <2> HIDE DEF list
  <2> QED BY <1>3, <1>5, QueueMoves
<1>7. CASE todo = <<>>
  BY <1>1, <1>2, <1>7, CommandEnds
<1>8. CASE todo # <<>>
  <2> HIDE DEF todo
  <2>1. J.op = "pull" /\ J.pc = "read" /\ J.todo = todo /\ {"op", "pc", "todo", "tree"} \subseteq DOMAIN J
    OBVIOUS
  <2>2. job' = [job EXCEPT ![p] = J]
    BY <1>2, <1>8
  <2> HIDE DEF J
  <2>3. J # Asleep
    BY <2>1 DEF Asleep
  <2>4. CommandFits(J, tissue, alias, remote) /\ \A l : ~ Creating(J, l)
    BY <1>6, <1>8, <2>1, <2>3 DEF CommandFits, Pulling, PullPlaces, Holds, Creating
  <2> QED BY <1>1, <2>2, <2>4, CommandOnly
<1> QED BY <1>7, <1>8

----------------------------------------------------------------------------
(* A command goes on, and knows a little more. *)

Went(I, pc, more) == Over(more, [I EXCEPT !.pc = pc])

PullFields == {"op", "pc", "todo", "tree", "key", "under", "seen"}

LEMMA PullMoves ==
  ASSUME NEW I, NEW J, NEW K, Pulling(I, K), J.pc \in PullPlaces \ {"read"},
         J.op = I.op, J.todo = I.todo, J.key = I.key, J.key \in K,
         PullFields \subseteq DOMAIN J,
         J.pc = "create" => "parent" \in DOMAIN J
  PROVE  Pulling(J, K) /\ J # Asleep
<1>1. J # Asleep
  BY DEF Asleep, Pulling
<1> QED BY <1>1 DEF Pulling, PullFields

\* Whoever holds a mapping row may go on with its issue.
LEMMA MappedMayBeTaken ==
  ASSUME TrackerInv, NEW k \in DOMAIN mapping
  PROVE  MayTake(mapping[k].issue, k, tissue, alias, remote)
BY DEF TrackerInv, MappingFits

LEMMA PullLooksUp ==
  ASSUME TrackerInv, NEW p \in tplan.procs, AdoptLookup(p)
  PROVE  StepFits
<1> DEFINE k == job[p].key
<1>1. UNCHANGED <<tplan, alias, tissue, mapping, remote, now>> /\ Awake(p, "pull", "lookup")
  BY DEF AdoptLookup
<1>2. Pulling(job[p], DOMAIN remote) /\ job[p].pc = "lookup"
  BY <1>1, PullIsPulling
<1>3. CASE k \in DOMAIN mapping /\ mapping[k].issue \in DOMAIN tissue
  <2> DEFINE more == [id |-> mapping[k].issue, made |-> FALSE, row |-> Row(mapping[k].issue)]
             J == Went(job[p], "parent", more)
  <2>1. job' = [job EXCEPT ![p] = J]
    BY <1>3 DEF AdoptLookup, At, Went
  <2>2. PullFields \subseteq DOMAIN job[p] /\ job[p].key \in DOMAIN remote
    BY <1>2 DEF Pulling, PullFields
  <2>3. /\ PullFields \subseteq DOMAIN J /\ "id" \in DOMAIN J
        /\ J.op = job[p].op /\ J.todo = job[p].todo /\ J.key = job[p].key /\ J.pc = "parent"
        /\ J.id = mapping[k].issue
    BY <2>2 DEF Went, Over, PullFields
  <2>4. J.pc \in PullPlaces \ {"read"} /\ J.pc # "create"
    BY <2>3 DEF PullPlaces
  <2> HIDE DEF J
  <2>5. Pulling(J, DOMAIN remote) /\ J # Asleep
    BY <1>2, <2>2, <2>3, <2>4, PullMoves
  <2>7. MayTake(mapping[k].issue, k, tissue, alias, remote)
    BY <1>3, MappedMayBeTaken
  <2>8. CommandFits(J, tissue, alias, remote) /\ \A l : ~ Creating(J, l)
    BY <2>3, <2>5, <2>7 DEF CommandFits, Holds, Creating
  <2> QED BY <1>1, <2>1, <2>8, CommandOnly
<1>4. CASE k \in DOMAIN mapping /\ mapping[k].issue \notin DOMAIN tissue
  BY <1>1, <1>4, CommandEnds DEF AdoptLookup
<1>5. CASE k \notin DOMAIN mapping
  <2> DEFINE more == [parent |-> LocalParent(job[p].under, job[p].seen)]
             J == Went(job[p], "create", more)
  <2>1. job' = [job EXCEPT ![p] = J]
    BY <1>5 DEF AdoptLookup, At, Went
  <2>2. PullFields \subseteq DOMAIN job[p] /\ job[p].key \in DOMAIN remote
    BY <1>2 DEF Pulling, PullFields
  <2>3. /\ PullFields \subseteq DOMAIN J /\ "parent" \in DOMAIN J
        /\ J.op = job[p].op /\ J.todo = job[p].todo /\ J.key = job[p].key /\ J.pc = "create"
    BY <2>2 DEF Went, Over, PullFields
  <2> HIDE DEF J
  <2>4. Pulling(J, DOMAIN remote) /\ J # Asleep
    BY <1>2, <2>2, <2>3, PullMoves DEF PullPlaces
  <2>5. CommandFits(J, tissue, alias, remote) /\ \A l : Creating(J, l) => l \notin DOMAIN mapping
    BY <1>5, <2>3, <2>4 DEF CommandFits, Holds, Creating
  <2> QED BY <1>1, <2>1, <2>5, CommandOnly
<1> QED BY <1>3, <1>4, <1>5

\* A command that makes an issue begins without a key.
LEMMA MakingBegins ==
  ASSUME TrackerInv, NEW p \in tplan.procs, NEW s, New(p, s)
  PROVE  StepFits
<1> DEFINE J == [op |-> "new", pc |-> IF identity.authority = "linear" THEN "mint" ELSE "create",
                 key |-> NoName, status |-> s]
<1>1. job' = [job EXCEPT ![p] = J] /\ UNCHANGED <<tplan, alias, tissue, mapping, remote, now>>
  BY DEF New
<1>2. J.op = "new" /\ J.pc \in {"mint", "create"} /\ J.key = NoName /\ {"op", "pc", "key", "status"} \subseteq DOMAIN J
  OBVIOUS
<1> HIDE DEF J
<1>3. J # Asleep
  BY <1>2 DEF Asleep
<1>4. CommandFits(J, tissue, alias, remote) /\ \A l : ~ Creating(J, l)
  BY <1>2, <1>3 DEF CommandFits, Making, Holds, Creating
<1> QED BY <1>1, <1>4, CommandOnly

LEMMA MakeIsMaking ==
  ASSUME TrackerInv, NEW p \in tplan.procs, NEW pc, Awake(p, "new", pc)
  PROVE  Making(job[p], DOMAIN remote) /\ Holds(job[p], tissue, alias, remote) /\ job[p].pc = pc /\ job[p] # Asleep
BY DEF TrackerInv, CommandFits, Awake, Pulling, Syncing, Setting

LEMMA MakeMoves ==
  ASSUME NEW I, NEW J, NEW K, Making(I, K), J.pc \in {"create", "bind", "status"},
         J.op = I.op, J.key \in K \cup {NoName}, {"op", "pc", "key", "status"} \subseteq DOMAIN J,
         J.pc = "bind" => "made" \in DOMAIN J /\ J.made
  PROVE  Making(J, K) /\ J # Asleep
<1>1. J # Asleep
  BY DEF Asleep, Making
<1> QED BY <1>1 DEF Making

\* The clock.
LEMMA StampFits == ASSUME now \in Nat PROVE Stamp \in Nat /\ now <= Stamp
BY DEF Stamp

LEMMA KeysAdded ==
  ASSUME KeysDrawn(remote), NEW n, n = Cardinality(DOMAIN remote) + 1, NEW row, remote' = Upserted(remote, <<Team, n>>, row)
  PROVE  KeysDrawn(remote') /\ DOMAIN remote \subseteq DOMAIN remote' /\ <<Team, n>> \in DOMAIN remote' \ DOMAIN remote
<1>1. Cardinality(DOMAIN remote) \in Nat /\ DOMAIN remote = {Team} \X (1..Cardinality(DOMAIN remote))
  BY FS_CardinalityType DEF KeysDrawn
<1>2. DOMAIN remote' = DOMAIN remote \cup {<<Team, n>>}
  BY DEF Upserted
<1>3. <<Team, n>> \notin DOMAIN remote
  BY <1>1
<1>4. IsFiniteSet(DOMAIN remote') /\ Cardinality(DOMAIN remote') = n
  BY <1>2, <1>3, FS_AddElement DEF KeysDrawn
<1>5. DOMAIN remote' = {Team} \X (1..n)
  BY <1>1, <1>2
<1> QED BY <1>2, <1>3, <1>4, <1>5 DEF KeysDrawn

LEMMA MintFits ==
  ASSUME TrackerInv, NEW p \in tplan.procs, MintLinearIssue(p)
  PROVE  StepFits
<1>1. UNCHANGED <<tplan, alias, tissue, mapping>> /\ Awake(p, "new", "mint")
  BY DEF MintLinearIssue
<1>2. CASE ~HasTeam
  <2>1. Done(p) /\ UNCHANGED <<remote, now>>
    BY <1>2 DEF MintLinearIssue
  <2> QED BY <1>1, <2>1, CommandEnds
<1>3. CASE HasTeam
  <2> DEFINE n == Cardinality(DOMAIN remote) + 1
             row == [status |-> "backlog", parent |-> NoName, at |-> Stamp]
             more == [key |-> <<Team, n>>]
             J == Went(job[p], "create", more)
  <2>1. remote' = Upserted(remote, <<Team, n>>, row) /\ now' = Stamp /\ job' = [job EXCEPT ![p] = J]
    BY <1>3 DEF MintLinearIssue, At, Went
  <2>2. Making(job[p], DOMAIN remote) /\ job[p].pc = "mint"
    BY <1>1, MakeIsMaking
  <2>3. /\ {"op", "pc", "key", "status"} \subseteq DOMAIN J
        /\ J.op = job[p].op /\ J.pc = "create" /\ J.key = <<Team, n>>
    <3>1. {"op", "pc", "key", "status"} \subseteq DOMAIN job[p]
      BY <2>2 DEF Making
    <3> HIDE DEF n
    <3> QED BY <3>1 DEF Went, Over
  <2>4. now \in Nat /\ now' \in Nat /\ now <= now'
    BY <2>1, StampFits DEF TrackerInv
  <2> HIDE DEF row, J, n
  <2>5. KeysDrawn(remote') /\ DOMAIN remote \subseteq DOMAIN remote' /\ <<Team, n>> \in DOMAIN remote' \ DOMAIN remote
    BY <2>1, KeysAdded DEF TrackerInv, n
  <2>6. Making(job[p], DOMAIN remote')
    BY <2>2, <2>5 DEF Making
  <2>7. Making(J, DOMAIN remote') /\ J # Asleep
    BY <2>3, <2>5, <2>6, MakeMoves
  <2>8. CommandFits(J, tissue', alias', remote') /\ \A l : Creating(J, l) => l \notin DOMAIN remote
    BY <2>3, <2>5, <2>7 DEF CommandFits, Holds, Creating
  <2>9. \A i \in DOMAIN tissue' : i \in DOMAIN tissue /\ IsIssueRow(tissue'[i]) /\ tissue'[i].key = tissue[i].key
    BY <1>1 DEF TrackerInv, RowsMade
  <2>10. DOMAIN mapping \subseteq DOMAIN mapping' /\ \A k \in DOMAIN mapping' : k \in DOMAIN mapping /\ mapping'[k] = mapping[k]
    BY <1>1
  <2> QED BY <1>1, <2>1, <2>4, <2>5, <2>8, <2>9, <2>10, PlainStep
<1> QED BY <1>2, <1>3

----------------------------------------------------------------------------
(* Rows that change, and the people who change them. *)

RowsKeepKeys == \A i \in DOMAIN tissue' : i \in DOMAIN tissue /\ IsIssueRow(tissue'[i]) /\ tissue'[i].key = tissue[i].key

LEMMA RowsStay ==
  ASSUME RowsMade(tissue, remote), UNCHANGED tissue
  PROVE  RowsKeepKeys
BY DEF RowsMade, RowsKeepKeys

LEMMA StatusChanges ==
  ASSUME RowsMade(tissue, remote), NEW i, NEW s, NEW c, tissue' = [tissue EXCEPT ![i].status = s, ![i].changed = c]
  PROVE  RowsKeepKeys
<1> SUFFICES ASSUME NEW j \in DOMAIN tissue' PROVE j \in DOMAIN tissue /\ IsIssueRow(tissue'[j]) /\ tissue'[j].key = tissue[j].key
  BY DEF RowsKeepKeys
<1>1. j \in DOMAIN tissue /\ IsIssueRow(tissue[j])
  BY DEF RowsMade
<1>2. CASE i = j
  <2> DEFINE row == [status |-> s, parent |-> tissue[j].parent, changed |-> c, key |-> tissue[j].key, number |-> tissue[j].number]
  <2>1. tissue'[j] = row
    BY <1>1, <1>2 DEF IsIssueRow
  <2>2. IsIssueRow(row) /\ row.key = tissue[j].key
    BY DEF IsIssueRow
  <2> QED BY <1>1, <2>1, <2>2
<1>3. CASE i # j
  BY <1>1, <1>3
<1> QED BY <1>2, <1>3

LEMMA ParentChanges ==
  ASSUME RowsMade(tissue, remote), NEW i, NEW q, tissue' = [tissue EXCEPT ![i].parent = q]
  PROVE  RowsKeepKeys
<1> SUFFICES ASSUME NEW j \in DOMAIN tissue' PROVE j \in DOMAIN tissue /\ IsIssueRow(tissue'[j]) /\ tissue'[j].key = tissue[j].key
  BY DEF RowsKeepKeys
<1>1. j \in DOMAIN tissue /\ IsIssueRow(tissue[j])
  BY DEF RowsMade
<1>2. CASE i = j
  <2> DEFINE row == [status |-> tissue[j].status, parent |-> q, changed |-> tissue[j].changed, key |-> tissue[j].key,
                     number |-> tissue[j].number]
  <2>1. tissue'[j] = row
    BY <1>1, <1>2 DEF IsIssueRow
  <2>2. IsIssueRow(row) /\ row.key = tissue[j].key
    BY DEF IsIssueRow
  <2> QED BY <1>1, <2>1, <2>2
<1>3. CASE i # j
  BY <1>1, <1>3
<1> QED BY <1>2, <1>3

LEMMA StatusApplied ==
  ASSUME TrackerInv, NEW i, NEW s, ApplyStatus(i, s)
  PROVE  RowsKeepKeys /\ now' \in Nat /\ now <= now'
<1>1. RowsMade(tissue, remote) /\ now \in Nat
  BY DEF TrackerInv
<1>2. CASE UNCHANGED <<tissue, now>>
  BY <1>1, <1>2, RowsStay
<1>3. CASE tissue' = [tissue EXCEPT ![i].status = s, ![i].changed = Stamp] /\ now' = Stamp
  BY <1>1, <1>3, StatusChanges, StampFits
<1> QED BY <1>2, <1>3 DEF ApplyStatus

\* A step that writes rows or Linear, and leaves names and mapping alone.
LEMMA WriteStep ==
  ASSUME TrackerInv, UNCHANGED <<tplan, alias, mapping>>, RowsKeepKeys, DOMAIN remote' = DOMAIN remote,
         now' \in Nat, now <= now', NEW p \in tplan.procs, NEW J, job' = [job EXCEPT ![p] = J],
         CommandFits(J, tissue, alias, remote), \A k : ~ Creating(J, k)
  PROVE  StepFits
<1>1. KeysDrawn(remote') /\ DOMAIN remote \subseteq DOMAIN remote'
  BY DEF TrackerInv, KeysDrawn
<1>2. DOMAIN mapping \subseteq DOMAIN mapping' /\ \A k \in DOMAIN mapping' : k \in DOMAIN mapping /\ mapping'[k] = mapping[k]
  OBVIOUS
<1> QED BY <1>1, <1>2, PlainStep DEF RowsKeepKeys

\* One of the people at either side: no command takes a step.
LEMMA PeopleStep ==
  ASSUME TrackerInv, UNCHANGED <<tplan, alias, mapping, job>>, RowsKeepKeys, DOMAIN remote' = DOMAIN remote,
         now' \in Nat, now <= now'
  PROVE  StepFits
<1>1. KeysDrawn(remote') /\ DOMAIN remote \subseteq DOMAIN remote'
  BY DEF TrackerInv, KeysDrawn
<1>2. Grows /\ RowsMade(tissue', remote') /\ NamesFit(tissue', alias')
  BY <1>1, NamesAlone DEF RowsKeepKeys
<1>3. DOMAIN mapping \subseteq DOMAIN mapping' /\ \A k \in DOMAIN mapping' : k \in DOMAIN mapping /\ mapping'[k] = mapping[k]
  OBVIOUS
<1>4. MappingFits(mapping, tissue, alias, remote, now)'
  BY <1>2, <1>3, MappingStays DEF TrackerInv
<1>5. \A p \in tplan.procs : CommandFits(job[p], tissue', alias', remote')
  BY <1>2, CommandStays DEF TrackerInv
<1>6. tplan' \in TrackerPlans /\ JobsAreOf(job', tplan'.procs) /\ \A p \in tplan'.procs : CommandFits(job'[p], tissue', alias', remote')
  BY <1>5 DEF TrackerInv
<1>7. TrackerInv'
  BY <1>1, <1>2, <1>4, <1>6 DEF TrackerInv
<1>8. MakesNone
  BY DEF MakesNone, RowsKeepKeys
<1> QED BY <1>2, <1>7, <1>8 DEF StepFits

LEMMA PeopleFit ==
  ASSUME TrackerInv,
         \/ \E i \in DOMAIN tissue, s \in tplan.statuses : SetStatus(i, s)
         \/ \E i \in DOMAIN tissue : Delete(i)
         \/ \E k \in DOMAIN remote, s \in tplan.statuses \ {"duplicate"}, q \in {NoName} \cup DOMAIN remote :
              EditRemote(k, s, q)
  PROVE  StepFits
<1>1. RowsMade(tissue, remote) /\ now \in Nat
  BY DEF TrackerInv
<1>2. CASE \E i \in DOMAIN tissue, s \in tplan.statuses : SetStatus(i, s)
  <2>1. PICK i \in DOMAIN tissue, s \in tplan.statuses : SetStatus(i, s)
    BY <1>2
  <2>2. tissue' = [tissue EXCEPT ![i].status = s, ![i].changed = Stamp] /\ now' = Stamp
        /\ UNCHANGED <<tplan, alias, mapping, job, remote>>
    BY <2>1 DEF SetStatus
  <2> QED BY <1>1, <2>2, StatusChanges, StampFits, PeopleStep
<1>3. CASE \E i \in DOMAIN tissue : Delete(i)
  <2>1. PICK i \in DOMAIN tissue : Delete(i)
    BY <1>3
  <2>2. UNCHANGED <<tplan, alias, mapping, job, remote, now>>
    BY <2>1 DEF Delete
  <2>3. tissue' = [j \in DOMAIN tissue \ {i} |->
                     IF tissue[j].parent = i THEN [tissue[j] EXCEPT !.parent = NoIssue] ELSE tissue[j]]
    BY <2>1 DEF Delete
  <2>4. ASSUME NEW j \in DOMAIN tissue' PROVE j \in DOMAIN tissue /\ IsIssueRow(tissue'[j]) /\ tissue'[j].key = tissue[j].key
    <3>1. j \in DOMAIN tissue /\ IsIssueRow(tissue[j])
      BY <1>1, <2>3 DEF RowsMade
    <3>2. CASE tissue[j].parent = i
      <4> DEFINE row == [status |-> tissue[j].status, parent |-> NoIssue, changed |-> tissue[j].changed,
                         key |-> tissue[j].key, number |-> tissue[j].number]
      <4>1. tissue'[j] = row
        BY <2>3, <3>1, <3>2 DEF IsIssueRow
      <4>2. IsIssueRow(row) /\ row.key = tissue[j].key
        BY DEF IsIssueRow
      <4> QED BY <3>1, <4>1, <4>2
    <3>3. CASE tissue[j].parent # i
      BY <2>3, <3>1, <3>3
    <3> QED BY <3>2, <3>3
  <2>5. RowsKeepKeys
    BY <2>4 DEF RowsKeepKeys
  <2> QED BY <1>1, <2>2, <2>5, PeopleStep
<1>4. CASE \E k \in DOMAIN remote, s \in tplan.statuses \ {"duplicate"}, q \in {NoName} \cup DOMAIN remote :
             EditRemote(k, s, q)
  <2>1. UNCHANGED <<tplan, alias, mapping, job, tissue>> /\ now' = Stamp /\ DOMAIN remote' = DOMAIN remote
    BY <1>4 DEF EditRemote
  <2> QED BY <1>1, <2>1, RowsStay, StampFits, PeopleStep
<1> QED BY <1>2, <1>3, <1>4

----------------------------------------------------------------------------
(* Pushing, reconciling and the last steps of a command. *)

\* The key a push or reconciliation uses is one of the keys of the issue.
LEMMA KeyForFits ==
  ASSUME TrackerInv, NEW i, KeysFor(i) # {}
  PROVE  KeyFor(i) \in KeysFor(i)
<1>1. CASE KeysFor(i) \cap NamesOf(i) # {}
  <2>1. \E k \in KeysFor(i) \cap NamesOf(i) : TRUE
    BY <1>1
  <2> HIDE DEF KeysFor, NamesOf
  <2>2. (CHOOSE k \in KeysFor(i) \cap NamesOf(i) : TRUE) \in KeysFor(i) \cap NamesOf(i)
    BY <2>1
  <2> QED BY <1>1, <2>2 DEF KeyFor
<1>2. CASE KeysFor(i) \cap NamesOf(i) = {}
  <2> DEFINE ats == {mapping[k].at : k \in KeysFor(i)}
  <2>1. now \in Nat /\ \A k \in KeysFor(i) : mapping[k].at \in Nat /\ mapping[k].at <= now
    BY DEF TrackerInv, MappingFits, KeysFor
  <2>2. ats \in SUBSET Nat /\ ats # {} /\ \A a \in ats : a <= now
    BY <2>1
  <2>3. \E m \in ats : \A a \in ats : a <= m
    <3> HIDE DEF ats
    <3> QED BY <2>1, <2>2, GreatestMember
  <2>4. \E k \in KeysFor(i) : \A l \in KeysFor(i) : mapping[l].at <= mapping[k].at
    BY <2>3
  <2> HIDE DEF ats
  <2>5. (CHOOSE k \in KeysFor(i) : \A l \in KeysFor(i) : mapping[l].at <= mapping[k].at) \in KeysFor(i)
    BY <2>4, Zenon
  <2> QED BY <1>2, <2>5 DEF KeyFor
<1> QED BY <1>1, <1>2

LEMMA KeysMayTake ==
  ASSUME TrackerInv, NEW i \in DOMAIN tissue, NEW k \in KeysFor(i)
  PROVE  MayTake(i, k, tissue, alias, remote)
<1>1. k \in DOMAIN mapping /\ MayTake(mapping[k].issue, k, tissue, alias, remote)
  BY MappedMayBeTaken DEF KeysFor
<1>2. CASE mapping[k].issue = i
  BY <1>1, <1>2
<1>3. CASE k \in NamesOf(i)
  <2>1. k \in DOMAIN alias /\ alias[k] = i /\ NamesFit(tissue, alias) /\ k \in DOMAIN remote
    BY <1>1, <1>3 DEF NamesOf, TrackerInv, MayTake
  <2>2. i \in Range(alias)
    BY <2>1 DEF Range
  <2>3. \A a \in DOMAIN alias : alias[a] = i => a[2] = k[2]
    BY <2>1 DEF NamesFit
  <2>4. tissue[i].key # NoName => tissue[i].key = k
    <3> SUFFICES ASSUME tissue[i].key # NoName PROVE tissue[i].key = k
      OBVIOUS
    <3>1. tissue[i].key \in DOMAIN remote /\ k[2] = tissue[i].key[2]
      BY <2>1 DEF TrackerInv, RowsMade, NamesFit
    <3>2. \A x \in DOMAIN remote : x = <<Team, x[2]>>
      BY DEF TrackerInv, KeysDrawn
    <3> QED BY <2>1, <3>1, <3>2
  <2> QED BY <2>1, <2>2, <2>3, <2>4 DEF MayTake
<1> QED BY <1>2, <1>3 DEF KeysFor

LEMMA SyncIsSyncing ==
  ASSUME TrackerInv, NEW p \in tplan.procs, job[p] # Asleep,
         job[p].op \in {"push", "reconcile"} \/ job[p].pc \in {"map", "report"}
  PROVE  Syncing(job[p]) /\ Holds(job[p], tissue, alias, remote)
BY DEF TrackerInv, CommandFits, Pulling, PullPlaces, Making, Setting

LEMMA SyncMoves ==
  ASSUME NEW I, NEW J, Syncing(I), Holds(I, tissue, alias, remote), I.pc # "report",
         J.op = I.op, J.key = I.key, J.id = I.id, J.pc \in {"write", "map", "report"}, {"op", "pc", "key", "id"} \subseteq DOMAIN J
  PROVE  CommandFits(J, tissue, alias, remote) /\ \A k : ~ Creating(J, k)
<1>1. J # Asleep
  BY DEF Asleep, Syncing
<1>2. MayTake(I.id, I.key, tissue, alias, remote)
  BY DEF Syncing, Holds
<1> QED BY <1>1, <1>2 DEF CommandFits, Syncing, Holds, Creating

LEMMA SyncBegins ==
  ASSUME TrackerInv, NEW p \in tplan.procs, NEW op \in {"push", "reconcile"}, NEW i \in DOMAIN tissue, NEW t,
         ReadLocal(p, op, i, t)
  PROVE  StepFits
<1> DEFINE J == [op |-> op, pc |-> "remote", id |-> i, take |-> t, key |-> KeyFor(i),
                 status |-> tissue[i].status, changed |-> tissue[i].changed]
<1>1. job' = [job EXCEPT ![p] = J] /\ UNCHANGED <<tplan, alias, tissue, mapping, remote, now>> /\ KeysFor(i) # {}
  BY DEF ReadLocal
<1>2. KeyFor(i) \in KeysFor(i)
  BY <1>1, KeyForFits
<1>3. MayTake(i, KeyFor(i), tissue, alias, remote)
  BY <1>2, KeysMayTake
<1> HIDE DEF KeyFor, KeysFor
<1>4. J.op = op /\ J.pc = "remote" /\ J.id = i /\ J.key = KeyFor(i) /\ {"op", "pc", "key", "id"} \subseteq DOMAIN J
  OBVIOUS
<1> HIDE DEF J
<1>5. J # Asleep
  BY <1>4 DEF Asleep
<1>6. CommandFits(J, tissue, alias, remote) /\ \A k : ~ Creating(J, k)
  BY <1>3, <1>4, <1>5 DEF CommandFits, Syncing, Holds, Creating
<1> QED BY <1>1, <1>6, CommandOnly

LEMMA SyncReads ==
  ASSUME TrackerInv, NEW p \in tplan.procs, ReadRemote(p)
  PROVE  StepFits
<1> DEFINE J == Went(job[p], "write", [seen |-> remote[job[p].key]])
<1>1. job' = [job EXCEPT ![p] = J] /\ UNCHANGED <<tplan, alias, tissue, mapping, remote, now>>
  BY DEF ReadRemote, At, Went
<1>2. job[p] # Asleep /\ job[p].op \in {"push", "reconcile"} /\ job[p].pc = "remote"
  BY DEF ReadRemote, Awake
<1>3. Syncing(job[p]) /\ Holds(job[p], tissue, alias, remote)
  BY <1>2, SyncIsSyncing
<1>4. {"op", "pc", "key", "id"} \subseteq DOMAIN job[p]
  BY <1>3 DEF Syncing
<1>5. J.op = job[p].op /\ J.pc = "write" /\ J.id = job[p].id /\ J.key = job[p].key /\ {"op", "pc", "key", "id"} \subseteq DOMAIN J
  BY <1>4 DEF Went, Over
<1> HIDE DEF J
<1>6. CommandFits(J, tissue, alias, remote) /\ \A k : ~ Creating(J, k)
  BY <1>2, <1>3, <1>5, SyncMoves
<1> QED BY <1>1, <1>6, CommandOnly

\* Both writers go on to the mapping row, with what they will report.
LEMMA SyncGoesToMap ==
  ASSUME TrackerInv, NEW p \in tplan.procs, NEW b, Awake(p, "push", "write") \/ Awake(p, "reconcile", "write"),
         At(p, "map", [insync |-> b])
  PROVE  \E J : /\ job' = [job EXCEPT ![p] = J]
                /\ CommandFits(J, tissue, alias, remote) /\ \A k : ~ Creating(J, k)
<1> DEFINE J == Went(job[p], "map", [insync |-> b])
<1>1. job' = [job EXCEPT ![p] = J]
  BY DEF At, Went
<1>2. job[p] # Asleep /\ job[p].op \in {"push", "reconcile"} /\ job[p].pc = "write"
  BY DEF Awake
<1>3. Syncing(job[p]) /\ Holds(job[p], tissue, alias, remote)
  BY <1>2, SyncIsSyncing
<1>4. {"op", "pc", "key", "id"} \subseteq DOMAIN job[p]
  BY <1>3 DEF Syncing
<1>5. J.op = job[p].op /\ J.pc = "map" /\ J.id = job[p].id /\ J.key = job[p].key /\ {"op", "pc", "key", "id"} \subseteq DOMAIN J
  BY <1>4 DEF Went, Over
<1> HIDE DEF J
<1>6. CommandFits(J, tissue, alias, remote) /\ \A k : ~ Creating(J, k)
  BY <1>2, <1>3, <1>5, SyncMoves
<1> QED BY <1>1, <1>6

LEMMA PushFits ==
  ASSUME TrackerInv, NEW p \in tplan.procs, PushWrite(p)
  PROVE  StepFits
<1> DEFINE newer == job[p].status # job[p].seen.status /\ job[p].changed > job[p].seen.at
<1>1. UNCHANGED <<tplan, alias, tissue, mapping>> /\ Awake(p, "push", "write")
  BY DEF PushWrite
<1>2. CASE newer /\ ~HasTeam
  <2>1. Done(p) /\ UNCHANGED <<remote, now>>
    BY <1>2 DEF PushWrite
  <2> QED BY <1>1, <2>1, CommandEnds
<1>3. CASE ~(newer /\ ~HasTeam)
  <2>1. now' = Stamp /\ At(p, "map", [insync |-> FALSE]) /\ DOMAIN remote' = DOMAIN remote
    BY <1>3 DEF PushWrite
  <2>2. PICK J : /\ job' = [job EXCEPT ![p] = J]
                 /\ CommandFits(J, tissue, alias, remote) /\ \A k : ~ Creating(J, k)
    BY <1>1, <2>1, SyncGoesToMap
  <2>3. now \in Nat /\ now' \in Nat /\ now <= now' /\ RowsKeepKeys
    BY <1>1, <2>1, StampFits, RowsStay DEF TrackerInv
  <2> QED BY <1>1, <2>1, <2>2, <2>3, WriteStep
<1> QED BY <1>2, <1>3

LEMMA ReconcileFits ==
  ASSUME TrackerInv, NEW p \in tplan.procs, ReconcileWrite(p)
  PROVE  StepFits
<1> DEFINE differ == job[p].status # job[p].seen.status
           b == differ => job[p].take # "none"
<1>1. UNCHANGED <<tplan, alias, mapping>> /\ Awake(p, "reconcile", "write")
  BY DEF ReconcileWrite
<1>2. \/ /\ \/ now' = Stamp /\ DOMAIN remote' = DOMAIN remote /\ UNCHANGED tissue
            \/ ApplyStatus(job[p].id, job[p].seen.status) /\ UNCHANGED remote
            \/ UNCHANGED <<remote, tissue, now>>
         /\ At(p, "map", [insync |-> b])
      \/ Done(p) /\ UNCHANGED <<remote, tissue, now>>
  BY Zenon DEF ReconcileWrite
<1> HIDE DEF b
<1>3. CASE Done(p) /\ UNCHANGED <<remote, tissue, now>>
  BY <1>1, <1>3, CommandEnds
<1>4. CASE /\ \/ now' = Stamp /\ DOMAIN remote' = DOMAIN remote /\ UNCHANGED tissue
              \/ ApplyStatus(job[p].id, job[p].seen.status) /\ UNCHANGED remote
              \/ UNCHANGED <<remote, tissue, now>>
           /\ At(p, "map", [insync |-> b])
  <2>1. PICK J : /\ job' = [job EXCEPT ![p] = J]
                 /\ CommandFits(J, tissue, alias, remote) /\ \A k : ~ Creating(J, k)
    BY <1>1, <1>4, SyncGoesToMap
  <2>2. now \in Nat /\ RowsMade(tissue, remote)
    BY DEF TrackerInv
  <2>3. DOMAIN remote' = DOMAIN remote
    BY <1>4
  <2>4. now' \in Nat /\ now <= now' /\ RowsKeepKeys
    BY <1>4, <2>2, StampFits, RowsStay, StatusApplied
  <2> QED BY <1>1, <2>1, <2>3, <2>4, WriteStep
<1> QED BY <1>2, <1>3, <1>4

LEMMA TouchFits ==
  ASSUME TrackerInv, NEW p \in tplan.procs, TouchMapping(p)
  PROVE  StepFits
<1> DEFINE J == Went(job[p], "report", <<>>)
           k == job[p].key
           i == job[p].id
<1>1. /\ UNCHANGED <<tplan, alias, tissue, remote>> /\ job' = [job EXCEPT ![p] = J]
      /\ now' = Stamp /\ mapping' = Upserted(mapping, k, [issue |-> i, at |-> Stamp])
  BY DEF TouchMapping, At, Went, Mapped
<1>2. job[p] # Asleep /\ job[p].pc = "map"
  BY DEF TouchMapping
<1>3. Syncing(job[p]) /\ Holds(job[p], tissue, alias, remote)
  BY <1>2, SyncIsSyncing
<1>4. {"op", "pc", "key", "id"} \subseteq DOMAIN job[p] /\ MayTake(i, k, tissue, alias, remote)
  BY <1>2, <1>3 DEF Syncing, Holds
<1>5. J.op = job[p].op /\ J.pc = "report" /\ J.id = i /\ J.key = k /\ {"op", "pc", "key", "id"} \subseteq DOMAIN J
  BY <1>4 DEF Went, Over
<1> HIDE DEF J, k, i
<1>6. CommandFits(J, tissue, alias, remote) /\ \A l : ~ Creating(J, l)
  BY <1>2, <1>3, <1>5, SyncMoves DEF k, i
<1>7. now \in Nat /\ now' \in Nat /\ now <= now' /\ RowsKeepKeys /\ KeysDrawn(remote')
  BY <1>1, StampFits, RowsStay DEF TrackerInv
<1>8. DOMAIN mapping \subseteq DOMAIN mapping'
  BY <1>1 DEF Upserted
<1>9. \A l \in DOMAIN mapping' :
        \/ l \in DOMAIN mapping /\ mapping'[l] = mapping[l]
        \/ MayTake(mapping'[l].issue, l, tissue, alias, remote) /\ mapping'[l].at \in Nat /\ mapping'[l].at <= now'
  BY <1>1, <1>4, <1>7 DEF Upserted
<1> QED BY <1>1, <1>6, <1>7, <1>8, <1>9, PlainStep DEF RowsKeepKeys

LEMMA Ending ==
  ASSUME TrackerInv, NEW p \in tplan.procs, Report(p) \/ Kill(p)
  PROVE  StepFits
BY CommandEnds DEF Report, Kill

LEMMA PullsOn ==
  ASSUME NEW I, NEW J, Pulling(I, DOMAIN remote), I.pc # "read",
         PullFields \subseteq DOMAIN J, J.op = I.op, J.todo = I.todo, J.key = I.key,
         J.pc \in {"bind", "parent", "alias", "status", "next"},
         J.pc \in {"bind", "parent", "alias"} => "id" \in DOMAIN J /\ MayTake(J.id, J.key, tissue, alias, remote)
  PROVE  CommandFits(J, tissue, alias, remote) /\ \A k : ~ Creating(J, k)
<1>1. J.key \in DOMAIN remote /\ J.pc \in PullPlaces \ {"read"} /\ J.pc # "create"
  BY DEF Pulling, PullPlaces
<1>2. Pulling(J, DOMAIN remote) /\ J # Asleep
  BY <1>1, PullMoves
<1>3. Holds(J, tissue, alias, remote)
  BY DEF Holds
<1> QED BY <1>1, <1>2, <1>3 DEF CommandFits, Creating

LEMMA ParentFits ==
  ASSUME TrackerInv, NEW p \in tplan.procs, RefreshParent(p)
  PROVE  StepFits
<1> DEFINE I == job[p]
<1>1. UNCHANGED <<tplan, alias, mapping, remote, now>> /\ Awake(p, "pull", "parent")
  BY DEF RefreshParent
<1>2. Pulling(I, DOMAIN remote) /\ Holds(I, tissue, alias, remote) /\ I.pc = "parent"
  BY <1>1, PullIsPulling
<1>3. PullFields \cup {"id"} \subseteq DOMAIN I /\ MayTake(I.id, I.key, tissue, alias, remote)
  BY <1>2 DEF Pulling, Holds, PullFields
<1>4. RowsMade(tissue, remote) /\ now \in Nat
  BY DEF TrackerInv
<1>5. \/ At(p, "alias", <<>>) /\ UNCHANGED tissue
      \/ \E i, parent, row : At(p, "alias", [row |-> row]) /\ tissue' = [tissue EXCEPT ![i].parent = parent]
      \/ Done(p) /\ UNCHANGED tissue
  BY Zenon DEF RefreshParent
<1>6. CASE At(p, "alias", <<>>) /\ UNCHANGED tissue
  <2> DEFINE J == Went(I, "alias", <<>>)
  <2>1. job' = [job EXCEPT ![p] = J]
    BY <1>6 DEF At, Went
  <2>2. /\ PullFields \subseteq DOMAIN J /\ "id" \in DOMAIN J
        /\ J.op = I.op /\ J.todo = I.todo /\ J.key = I.key /\ J.pc = "alias" /\ J.id = I.id
    BY <1>3 DEF Went, Over, PullFields
  <2> HIDE DEF J
  <2>3. CommandFits(J, tissue, alias, remote) /\ \A k : ~ Creating(J, k)
    BY <1>2, <1>3, <2>2, PullsOn
  <2> QED BY <1>1, <1>4, <1>6, <2>1, <2>3, CommandOnly
<1>7. CASE \E i, parent, row : At(p, "alias", [row |-> row]) /\ tissue' = [tissue EXCEPT ![i].parent = parent]
  <2>1. PICK i, parent, row : At(p, "alias", [row |-> row]) /\ tissue' = [tissue EXCEPT ![i].parent = parent]
    BY <1>7
  <2> DEFINE J == Went(I, "alias", [row |-> row])
  <2>2. job' = [job EXCEPT ![p] = J]
    BY <2>1 DEF At, Went
  <2>3. /\ PullFields \subseteq DOMAIN J /\ "id" \in DOMAIN J
        /\ J.op = I.op /\ J.todo = I.todo /\ J.key = I.key /\ J.pc = "alias" /\ J.id = I.id
    BY <1>3 DEF Went, Over, PullFields
  <2> HIDE DEF J
  <2>4. CommandFits(J, tissue, alias, remote) /\ \A k : ~ Creating(J, k)
    BY <1>2, <1>3, <2>3, PullsOn
  <2>5. RowsKeepKeys
    BY <1>4, <2>1, ParentChanges
  <2>6. DOMAIN remote' = DOMAIN remote /\ now' \in Nat /\ now <= now'
    BY <1>1, <1>4
  <2> HIDE DEF I
  <2> QED BY <1>1, <2>2, <2>4, <2>5, <2>6, WriteStep
<1>8. CASE Done(p) /\ UNCHANGED tissue
  BY <1>1, <1>8, CommandEnds
<1> QED BY <1>5, <1>6, <1>7, <1>8

LEMMA StatusFits ==
  ASSUME TrackerInv, NEW p \in tplan.procs, AdoptStatus(p)
  PROVE  StepFits
<1> DEFINE I == job[p]
           J == Went(I, "next", <<>>)
<1>1. UNCHANGED <<tplan, alias, mapping, remote>> /\ Awake(p, "pull", "status")
  BY DEF AdoptStatus
<1>2. Pulling(I, DOMAIN remote) /\ I.pc = "status"
  BY <1>1, PullIsPulling
<1>3. PullFields \subseteq DOMAIN I
  BY <1>2 DEF Pulling, PullFields
<1>4. /\ PullFields \subseteq DOMAIN J
      /\ J.op = I.op /\ J.todo = I.todo /\ J.key = I.key /\ J.pc = "next"
  BY <1>3 DEF Went, Over, PullFields
<1>5. \/ job' = [job EXCEPT ![p] = J] /\ (UNCHANGED <<tissue, now>> \/ ApplyStatus(I.id, I.seen.status))
      \/ Done(p) /\ UNCHANGED <<tissue, now>>
  BY DEF AdoptStatus, At, Went
<1> HIDE DEF J
<1>6. CommandFits(J, tissue, alias, remote) /\ \A k : ~ Creating(J, k)
  BY <1>2, <1>4, PullsOn
<1>7. RowsMade(tissue, remote) /\ now \in Nat
  BY DEF TrackerInv
<1>8. UNCHANGED <<tissue, now>> \/ ApplyStatus(I.id, I.seen.status) => RowsKeepKeys /\ now' \in Nat /\ now <= now'
  BY <1>7, RowsStay, StatusApplied
<1>9. CASE job' = [job EXCEPT ![p] = J] /\ (UNCHANGED <<tissue, now>> \/ ApplyStatus(I.id, I.seen.status))
  BY <1>1, <1>6, <1>8, <1>9, WriteStep
<1>10. CASE Done(p) /\ UNCHANGED <<tissue, now>>
  BY <1>1, <1>10, CommandEnds
<1> QED BY <1>5, <1>9, <1>10

LEMMA NewStatusFits ==
  ASSUME TrackerInv, NEW p \in tplan.procs, NewStatus(p)
  PROVE  StepFits
<1>1. UNCHANGED <<tplan, alias, mapping, remote>> /\ job' = [job EXCEPT ![p] = Asleep]
  BY DEF NewStatus, Done
<1>2. UNCHANGED <<tissue, now>> \/ ApplyStatus(job[p].id, job[p].status)
  BY DEF NewStatus
<1>3. RowsMade(tissue, remote) /\ now \in Nat
  BY DEF TrackerInv
<1>4. RowsKeepKeys /\ now' \in Nat /\ now <= now'
  BY <1>2, <1>3, RowsStay, StatusApplied
<1>5. CommandFits(Asleep, tissue, alias, remote) /\ \A k : ~ Creating(Asleep, k)
  BY DEF CommandFits, Creating
<1>6. \E J : job' = [job EXCEPT ![p] = J] /\ CommandFits(J, tissue, alias, remote) /\ \A k : ~ Creating(J, k)
  BY <1>1, <1>5
<1>7. DOMAIN remote' = DOMAIN remote
  BY <1>1
<1> QED BY <1>1, <1>4, <1>6, <1>7, WriteStep

----------------------------------------------------------------------------
(* Names that change. *)

LEMMA NamesStep ==
  ASSUME TrackerInv, UNCHANGED <<tplan, tissue, remote>>, Grows, NamesFit(tissue', alias'),
         now' \in Nat, now <= now', DOMAIN mapping \subseteq DOMAIN mapping',
         \A k \in DOMAIN mapping' :
           \/ k \in DOMAIN mapping /\ mapping'[k] = mapping[k]
           \/ MayTake(mapping'[k].issue, k, tissue, alias, remote) /\ mapping'[k].at \in Nat /\ mapping'[k].at <= now',
         NEW p \in tplan.procs, NEW J, job' = [job EXCEPT ![p] = J],
         CommandFits(J, tissue, alias, remote), \A k : ~ Creating(J, k)
  PROVE  StepFits
<1>1. KeysDrawn(remote') /\ RowsMade(tissue', remote')
  BY DEF TrackerInv
<1>2. JobsAreOf(job, tplan.procs)
  BY DEF TrackerInv
<1>3. JobsAreOf(job', tplan.procs) /\ job'[p] = J /\ \A q \in tplan.procs : q # p => job'[q] = job[q]
  BY <1>2 DEF JobsAreOf
<1>4. CommandFits(job'[p], tissue', alias', remote')
  BY <1>3, CommandStays
<1>5. \A k \in DOMAIN mapping' :
        \/ k \in DOMAIN mapping /\ mapping'[k] = mapping[k]
        \/ MayTake(mapping'[k].issue, k, tissue', alias', remote') /\ mapping'[k].at \in Nat /\ mapping'[k].at <= now'
  BY MayTakeStays
<1>6. TrackerInv'
  BY <1>1, <1>3, <1>4, <1>5, StepKeeps
<1>7. MakesNone
  BY <1>3 DEF MakesNone
<1> QED BY <1>6, <1>7 DEF StepFits

\* A rename of the prefix moves every name, with its number, and none onto another.
LEMMA RenamesFit ==
  ASSUME NamesFit(tissue, alias), UNCHANGED <<tissue, remote>>, NEW from, NEW to, CanRewrite(from, to),
         alias' = RewrittenAlias(from, to)
  PROVE  Grows /\ NamesFit(tissue', alias')
<1> DEFINE R(a) == Renamed(a, from, to)
<1>1. \A a \in DOMAIN alias : a = <<a[1], a[2]>>
  BY DEF NamesFit
<1>2. \A a \in DOMAIN alias : R(a) = <<R(a)[1], R(a)[2]>> /\ R(a)[2] = a[2]
  BY <1>1 DEF Renamed
<1>3. \A a \in DOMAIN alias : R(a) = a \/ (R(a) = <<to, a[2]>> /\ R(a) \notin DOMAIN alias)
  BY <1>1 DEF Renamed, CanRewrite
<1>4. \A a, b \in DOMAIN alias : R(a) = R(b) => a = b
  <2> SUFFICES ASSUME NEW a \in DOMAIN alias, NEW b \in DOMAIN alias, R(a) = R(b) PROVE a = b
    OBVIOUS
  <2>1. a = <<a[1], a[2]>> /\ b = <<b[1], b[2]>> /\ a[2] = b[2]
    BY <1>1, <1>2
  <2>2. CASE a[1] = from /\ b[1] = from
    BY <2>1, <2>2
  <2>3. CASE a[1] # from
    BY <1>3, <2>3 DEF Renamed
  <2>4. CASE b[1] # from
    BY <1>3, <2>4 DEF Renamed
  <2> QED BY <2>2, <2>3, <2>4
<1>5. /\ \A a \in DOMAIN alias : R(a) \in DOMAIN alias'
      /\ \A b \in DOMAIN alias' : \E a \in DOMAIN alias : b = R(a)
      /\ \A b \in DOMAIN alias' : alias'[b] = alias[CHOOSE a \in DOMAIN alias : R(a) = b]
      /\ alias' = [b \in DOMAIN alias' |-> alias'[b]]
  <2> DEFINE names == {R(a) : a \in DOMAIN alias}
             F(b) == alias[CHOOSE a \in DOMAIN alias : R(a) = b]
  <2>1. alias' = [b \in names |-> F(b)]
    BY DEF RewrittenAlias
  <2> HIDE DEF F
  <2>2. DOMAIN alias' = names /\ (\A b \in names : alias'[b] = F(b)) /\ alias' = [b \in DOMAIN alias' |-> alias'[b]]
    BY <2>1
  <2> QED BY <2>2 DEF F
<1> HIDE DEF R
<1>6. \A a \in DOMAIN alias : alias'[R(a)] = alias[a]
  <2> SUFFICES ASSUME NEW a \in DOMAIN alias PROVE alias'[R(a)] = alias[a]
    OBVIOUS
  <2>1. (CHOOSE x \in DOMAIN alias : R(x) = R(a)) = a
    BY <1>4
  <2> QED BY <1>5, <2>1
<1>7. \A b \in DOMAIN alias' : \E a \in DOMAIN alias : b = R(a) /\ alias'[b] = alias[a] /\ b[2] = a[2] /\ b = <<b[1], b[2]>>
  BY <1>2, <1>5, <1>6
<1>8. Range(alias) \subseteq Range(alias')
  BY <1>5, <1>6 DEF Range
<1>9. \A a \in DOMAIN alias \cap DOMAIN alias' : alias[a] = alias'[a]
  BY <1>3, <1>7
<1>10. Grows
  BY <1>7, <1>8, <1>9 DEF Grows
<1>11. \A a, b \in DOMAIN alias' : alias'[a] = alias'[b] => a[2] = b[2]
  BY <1>7 DEF NamesFit
<1>12. \A a \in DOMAIN alias' : alias'[a] \in DOMAIN tissue /\ tissue[alias'[a]].key # NoName => a[2] = tissue[alias'[a]].key[2]
  BY <1>7 DEF NamesFit
<1>13. NamesFit(tissue', alias')
  BY <1>5, <1>7, <1>11, <1>12 DEF NamesFit
<1> QED BY <1>10, <1>13

LEMMA NamesSame ==
  ASSUME TrackerInv, UNCHANGED <<tissue, alias, remote>>
  PROVE  Grows /\ NamesFit(tissue', alias')
BY DEF Grows, TrackerInv

\* DefineIdentity and the alignment of a leaked prefix.
LEMMA RenamingSteps ==
  ASSUME TrackerInv, NEW p \in tplan.procs,
         AlignLeakedIssuePrefix(p) \/ \E d \in tplan.defines : DefineIdentity(p, d[1], d[2])
  PROVE  StepFits
<1>1. /\ UNCHANGED <<tplan, tissue, mapping, remote, now>>
      /\ UNCHANGED alias \/ \E from, to : CanRewrite(from, to) /\ alias' = RewrittenAlias(from, to)
  BY Zenon DEF AlignLeakedIssuePrefix, DefineIdentity
<1>2. NamesFit(tissue, alias) /\ now \in Nat
  BY DEF TrackerInv
<1>3. Grows /\ NamesFit(tissue', alias')
  BY <1>1, <1>2, RenamesFit, NamesSame
<1>4. \E J : job' = [job EXCEPT ![p] = J] /\ CommandFits(J, tissue, alias, remote) /\ \A k : ~ Creating(J, k)
  <2>1. \E pc \in {"team", "config"} : \E a, x : job' = [job EXCEPT ![p] = [op |-> "define", pc |-> pc, authority |-> a, prefix |-> x]]
    <3>1. CASE AlignLeakedIssuePrefix(p)
      <4>1. job' = [job EXCEPT ![p] = [op |-> "define", pc |-> "config", authority |-> identity.authority,
                                       prefix |-> tplan.derived]]
        BY <3>1 DEF AlignLeakedIssuePrefix
      <4> QED BY <4>1, "config" \in {"team", "config"}
    <3>2. CASE \E d \in tplan.defines : DefineIdentity(p, d[1], d[2])
      <4>1. PICK d \in tplan.defines : DefineIdentity(p, d[1], d[2])
        BY <3>2
      <4> DEFINE at == IF d[1] = "linear" THEN "team" ELSE "config"
      <4>2. job' = [job EXCEPT ![p] = [op |-> "define", pc |-> at, authority |-> d[1], prefix |-> d[2]]]
        BY <4>1 DEF DefineIdentity
      <4>3. at \in {"team", "config"}
        OBVIOUS
      <4> HIDE DEF at
      <4> QED BY <4>2, <4>3
    <3> QED BY <3>1, <3>2
  <2>2. PICK pc \in {"team", "config"} : \E a, x : job' = [job EXCEPT ![p] = [op |-> "define", pc |-> pc, authority |-> a, prefix |-> x]]
    BY <2>1
  <2>3. PICK a, x : job' = [job EXCEPT ![p] = [op |-> "define", pc |-> pc, authority |-> a, prefix |-> x]]
    BY <2>2
  <2> DEFINE J == [op |-> "define", pc |-> pc, authority |-> a, prefix |-> x]
  <2>4. J.op = "define" /\ J.pc = pc /\ {"op", "pc"} \subseteq DOMAIN J
    OBVIOUS
  <2> HIDE DEF J
  <2>5. CommandFits(J, tissue, alias, remote) /\ \A k : ~ Creating(J, k)
    BY <2>4, SettingFits
  <2> QED BY <2>3, <2>5 DEF J
<1>5. PICK J : job' = [job EXCEPT ![p] = J] /\ CommandFits(J, tissue, alias, remote) /\ \A k : ~ Creating(J, k)
  BY <1>4
<1>6. DOMAIN mapping \subseteq DOMAIN mapping' /\ \A k \in DOMAIN mapping' : k \in DOMAIN mapping /\ mapping'[k] = mapping[k]
  BY <1>1
<1>7. now' \in Nat /\ now <= now'
  BY <1>1, <1>2
<1> QED BY <1>1, <1>3, <1>5, <1>6, <1>7, NamesStep

LEMMA BindIsHeld ==
  ASSUME TrackerInv, NEW p \in tplan.procs, job[p] # Asleep, job[p].pc = "bind"
  PROVE  /\ Pulling(job[p], DOMAIN remote) \/ Making(job[p], DOMAIN remote)
         /\ "id" \in DOMAIN job[p] /\ MayTake(job[p].id, job[p].key, tissue, alias, remote)
BY DEF TrackerInv, CommandFits, Holds, Syncing, Setting

LEMMA BindFits ==
  ASSUME TrackerInv, NEW p \in tplan.procs, Bind(p)
  PROVE  StepFits
<1> DEFINE I == job[p]
           k == I.key
           i == I.id
           isBound == NamesOf(i) = {k} \/ (NamesOf(i) = {} /\ k \notin DOMAIN alias)
           pc == IF I.made THEN "status" ELSE "parent"
           J == Went(I, pc, <<>>)
<1>1. UNCHANGED <<tplan, tissue, remote>> /\ I # Asleep /\ I.pc = "bind"
  BY DEF Bind
<1>2. /\ Pulling(I, DOMAIN remote) \/ Making(I, DOMAIN remote)
      /\ "id" \in DOMAIN I /\ MayTake(i, k, tissue, alias, remote)
  BY <1>1, BindIsHeld
<1>3. CASE ~ isBound
  <2>1. Done(p) /\ UNCHANGED <<alias, mapping, now>>
    BY <1>3 DEF Bind
  <2> QED BY <1>1, <2>1, CommandEnds
<1>4. CASE isBound
  <2>1. /\ alias' = Upserted(alias, k, i) /\ mapping' = Upserted(mapping, k, [issue |-> i, at |-> Stamp])
        /\ now' = Stamp /\ job' = [job EXCEPT ![p] = J]
    BY <1>4 DEF Bind, Mapped, At, Went
  <2>2. k \in DOMAIN alias /\ alias[k] = i
    BY <1>2, <1>4 DEF MayTake, Range, NamesOf
  <2>3. alias' = alias
    <3>1. alias = [a \in DOMAIN alias |-> alias[a]]
      BY DEF TrackerInv, NamesFit
    <3>2. DOMAIN alias' = DOMAIN alias /\ alias' = [a \in DOMAIN alias |-> alias'[a]] /\ \A a \in DOMAIN alias : alias'[a] = alias[a]
      BY <2>1, <2>2 DEF Upserted
    <3> HIDE DEF i, k
    <3> QED BY ONLY <3>1, <3>2
  <2>4. pc \in {"status", "parent"}
    OBVIOUS
  <2> HIDE DEF pc
  <2>5. CommandFits(J, tissue, alias, remote) /\ \A l : ~ Creating(J, l)
    <3>1. CASE Pulling(I, DOMAIN remote)
      <4>1. PullFields \subseteq DOMAIN I
        BY <1>1, <3>1 DEF Pulling, PullFields
      <4>2. /\ PullFields \subseteq DOMAIN J /\ "id" \in DOMAIN J
            /\ J.op = I.op /\ J.todo = I.todo /\ J.key = I.key /\ J.pc = pc /\ J.id = I.id
        BY <1>2, <4>1 DEF Went, Over, PullFields
      <4> HIDE DEF J
      <4> QED BY <1>1, <1>2, <2>4, <3>1, <4>2, PullsOn
    <3>2. CASE Making(I, DOMAIN remote)
      <4>1. {"op", "pc", "key", "status"} \subseteq DOMAIN I /\ I.made /\ I.key \in DOMAIN remote \cup {NoName}
        BY <1>1, <3>2 DEF Making
      <4>2. pc = "status"
        BY <4>1 DEF pc
      <4>3. {"op", "pc", "key", "status"} \subseteq DOMAIN J /\ J.op = I.op /\ J.pc = "status" /\ J.key = I.key
        BY <4>1, <4>2 DEF Went, Over
      <4> HIDE DEF J
      <4>4. Making(J, DOMAIN remote) /\ J # Asleep
        BY <3>2, <4>1, <4>3, MakeMoves
      <4> QED BY <4>3, <4>4 DEF CommandFits, Holds, Creating
    <3> QED BY <1>2, <3>1, <3>2
  <2> HIDE DEF J, isBound
  <2>6. now \in Nat /\ now' \in Nat /\ now <= now' /\ RowsKeepKeys /\ KeysDrawn(remote') /\ DOMAIN remote' = DOMAIN remote
    BY <1>1, <2>1, StampFits, RowsStay DEF TrackerInv
  <2> HIDE DEF i, k, I
  <2>7. DOMAIN mapping \subseteq DOMAIN mapping'
    BY <2>1 DEF Upserted
  <2>8. \A l \in DOMAIN mapping' :
          \/ l \in DOMAIN mapping /\ mapping'[l] = mapping[l]
          \/ MayTake(mapping'[l].issue, l, tissue, alias, remote) /\ mapping'[l].at \in Nat /\ mapping'[l].at <= now'
    BY <1>2, <2>1, <2>6 DEF Upserted
  <2> QED BY <1>1, <2>1, <2>3, <2>5, <2>6, <2>7, <2>8, PlainStep DEF RowsKeepKeys
<1> QED BY <1>3, <1>4

\* An issue gets its key back: of its other names none has another number.
LEMMA KeyGivenBack ==
  ASSUME TrackerInv, UNCHANGED <<tissue, remote>>, NEW i, NEW k, MayTake(i, k, tissue, alias, remote),
         NEW others, others = Restrict(alias, DOMAIN alias \ NamesOf(i)), k \notin DOMAIN others,
         alias' = Upserted(others, k, i)
  PROVE  Grows /\ NamesFit(tissue', alias')
<1>1. /\ DOMAIN others = {a \in DOMAIN alias : alias[a] # i}
      /\ \A a \in DOMAIN others : others[a] = alias[a]
  BY DEF Restrict, NamesOf
<1>2. /\ DOMAIN alias' = DOMAIN others \cup {k} /\ alias'[k] = i
      /\ \A a \in DOMAIN alias' : a # k => a \in DOMAIN alias /\ alias[a] # i /\ alias'[a] = alias[a]
      /\ alias' = [a \in DOMAIN alias' |-> alias'[a]]
  BY <1>1 DEF Upserted
<1>3. /\ k \in DOMAIN remote /\ i \in Range(alias) /\ k = <<k[1], k[2]>>
      /\ \A a \in DOMAIN alias : alias[a] = i => a[2] = k[2]
      /\ i \in DOMAIN tissue => tissue[i].key \in {k, NoName}
  BY DEF MayTake, TrackerInv, KeysDrawn
<1>4. PICK own \in DOMAIN alias : alias[own] = i
  BY <1>3 DEF Range
<1>5. k \in DOMAIN alias => alias[k] = i
  BY <1>1
<1>6. Range(alias) \subseteq Range(alias')
  <2> SUFFICES ASSUME NEW a \in DOMAIN alias PROVE alias[a] \in Range(alias')
    BY DEF Range
  <2>1. CASE alias[a] = i
    BY <1>2, <2>1 DEF Range
  <2>2. CASE alias[a] # i
    <3>1. a \in DOMAIN alias' /\ a # k /\ alias'[a] = alias[a]
      BY <1>1, <1>2, <1>5, <2>2
    <3> QED BY <3>1 DEF Range
  <2> QED BY <2>1, <2>2
<1>7. \A a \in DOMAIN alias' : \E b \in DOMAIN alias : alias[b] = alias'[a] /\ b[2] = a[2]
  BY <1>2, <1>3, <1>4
<1>8. \A a \in DOMAIN alias \cap DOMAIN alias' : alias[a] = alias'[a]
  BY <1>2, <1>5
<1>9. Grows
  BY <1>6, <1>7, <1>8 DEF Grows
<1>10. /\ \A a \in DOMAIN alias : a = <<a[1], a[2]>>
       /\ \A a, b \in DOMAIN alias : alias[a] = alias[b] => a[2] = b[2]
       /\ \A a \in DOMAIN alias : alias[a] \in DOMAIN tissue /\ tissue[alias[a]].key # NoName => a[2] = tissue[alias[a]].key[2]
  BY DEF TrackerInv, NamesFit
<1>11. \A a \in DOMAIN alias' : a = <<a[1], a[2]>>
  BY <1>2, <1>3, <1>10
<1>12. \A a, b \in DOMAIN alias' : alias'[a] = alias'[b] => a[2] = b[2]
  BY ONLY <1>7, <1>10
<1>13. \A a \in DOMAIN alias' : alias'[a] \in DOMAIN tissue /\ tissue[alias'[a]].key # NoName => a[2] = tissue[alias'[a]].key[2]
  BY ONLY <1>7, <1>10
<1>14. NamesFit(tissue', alias')
  BY <1>2, <1>11, <1>12, <1>13 DEF NamesFit
<1> QED BY <1>9, <1>14

LEMMA AliasFits ==
  ASSUME TrackerInv, NEW p \in tplan.procs, RefreshAlias(p)
  PROVE  StepFits
<1> DEFINE I == job[p]
           k == I.key
           i == I.id
           others == Restrict(alias, DOMAIN alias \ NamesOf(i))
<1>1. UNCHANGED <<tplan, tissue, remote>> /\ Awake(p, "pull", "alias")
  BY DEF RefreshAlias
<1>2. Pulling(I, DOMAIN remote) /\ Holds(I, tissue, alias, remote) /\ I.pc = "alias"
  BY <1>1, PullIsPulling
<1>3. PullFields \cup {"id"} \subseteq DOMAIN I /\ MayTake(i, k, tissue, alias, remote)
  BY <1>2 DEF Pulling, Holds, PullFields
<1>4. now \in Nat
  BY DEF TrackerInv
<1>5. \/ At(p, "status", <<>>) /\ UNCHANGED <<alias, mapping, now>>
      \/ Done(p) /\ UNCHANGED <<alias, mapping, now>>
      \/ /\ k \notin DOMAIN others /\ alias' = Upserted(others, k, i) /\ mapping' = Mapped(k, i) /\ now' = Stamp
         /\ At(p, "status", [row |-> Row(i)])
  BY Zenon DEF RefreshAlias
<1>6. CASE At(p, "status", <<>>) /\ UNCHANGED <<alias, mapping, now>>
  <2> DEFINE J == Went(I, "status", <<>>)
  <2>1. job' = [job EXCEPT ![p] = J]
    BY <1>6 DEF At, Went
  <2>2. PullFields \subseteq DOMAIN J /\ J.op = I.op /\ J.todo = I.todo /\ J.key = I.key /\ J.pc = "status"
    BY <1>3 DEF Went, Over, PullFields
  <2> HIDE DEF J
  <2>3. CommandFits(J, tissue, alias, remote) /\ \A l : ~ Creating(J, l)
    BY <1>2, <2>2, PullsOn
  <2> QED BY <1>1, <1>6, <2>1, <2>3, CommandOnly
<1>7. CASE Done(p) /\ UNCHANGED <<alias, mapping, now>>
  BY <1>1, <1>7, CommandEnds
<1>8. CASE /\ k \notin DOMAIN others /\ alias' = Upserted(others, k, i) /\ mapping' = Mapped(k, i) /\ now' = Stamp
           /\ At(p, "status", [row |-> Row(i)])
  <2> DEFINE J == Went(I, "status", [row |-> Row(i)])
  <2>1. job' = [job EXCEPT ![p] = J]
    BY <1>8 DEF At, Went
  <2>2. PullFields \subseteq DOMAIN J /\ J.op = I.op /\ J.todo = I.todo /\ J.key = I.key /\ J.pc = "status"
    BY <1>3 DEF Went, Over, PullFields
  <2> HIDE DEF J
  <2>3. CommandFits(J, tissue, alias, remote) /\ \A l : ~ Creating(J, l)
    BY <1>2, <2>2, PullsOn
  <2>4. Grows /\ NamesFit(tissue', alias')
    <3> HIDE DEF i, k
    <3> QED BY <1>1, <1>3, <1>8, KeyGivenBack
  <2>5. now' \in Nat /\ now <= now' /\ mapping' = Upserted(mapping, k, [issue |-> i, at |-> now'])
    BY <1>4, <1>8, StampFits DEF Mapped
  <2> HIDE DEF i, k, I, others
  <2>6. DOMAIN mapping \subseteq DOMAIN mapping'
    BY <2>5 DEF Upserted
  <2>7. \A l \in DOMAIN mapping' :
          \/ l \in DOMAIN mapping /\ mapping'[l] = mapping[l]
          \/ MayTake(mapping'[l].issue, l, tissue, alias, remote) /\ mapping'[l].at \in Nat /\ mapping'[l].at <= now'
    BY <1>3, <2>5 DEF Upserted
  <2> QED BY <1>1, <2>1, <2>3, <2>4, <2>5, <2>6, <2>7, NamesStep
<1> QED BY <1>5, <1>6, <1>7, <1>8

----------------------------------------------------------------------------
(* Issues that are made. *)

LEMMA IdIsNew ==
  ASSUME TrackerInv, UnusedIds # {}
  PROVE  NextId \notin DOMAIN tissue \cup Range(alias)
<1>1. UnusedIds \in SUBSET Nat
  BY TrackerPlansAssumption DEF TrackerInv, UnusedIds
<1>2. \E m \in UnusedIds : \A s \in UnusedIds : m <= s
  BY <1>1, LeastMember
<1> HIDE DEF UnusedIds
<1>3. NextId \in UnusedIds
  BY <1>2, Zenon DEF NextId, Min
<1> QED BY <1>3 DEF UnusedIds

\* What creating an issue under a key, or under a number of our own, leaves.
Made(i, row, name) ==
  /\ i \notin DOMAIN tissue \cup Range(alias)
  /\ tissue' = Upserted(tissue, i, row) /\ row.key = name
  /\ name # NoName => name \notin DOMAIN alias /\ name \in DOMAIN alias' /\ alias'[name] = i
  /\ \A a \in DOMAIN alias : a \in DOMAIN alias' /\ alias'[a] = alias[a]

\* The name, if it has one, is a new one, and of its key's number.
LEMMA NameAdded ==
  ASSUME NamesFit(tissue, alias), RowsMade(tissue, remote), KeysDrawn(remote), UNCHANGED remote,
         NEW i, i \notin DOMAIN tissue \cup Range(alias), NEW row, IsIssueRow(row), NEW name \in DOMAIN remote \cup {NoName},
         row.key = name, tissue' = Upserted(tissue, i, row),
         NEW given, given = <<given[1], given[2]>>, given \notin DOMAIN alias, name # NoName => given = name,
         alias' = alias \/ alias' = Upserted(alias, given, i)
  PROVE  /\ Grows /\ RowsMade(tissue', remote') /\ NamesFit(tissue', alias')
         /\ \A a \in DOMAIN alias : a \in DOMAIN alias' /\ alias'[a] = alias[a]
<1>1. /\ DOMAIN tissue' = DOMAIN tissue \cup {i} /\ tissue'[i] = row
      /\ \A j \in DOMAIN tissue : tissue'[j] = tissue[j]
  BY DEF Upserted
<1>2. \A a \in DOMAIN alias : a \in DOMAIN alias' /\ alias'[a] = alias[a]
  BY DEF Upserted
<1>3. \A a \in DOMAIN alias' : a \in DOMAIN alias \/ (a = given /\ alias'[a] = i)
  BY DEF Upserted
<1>4. alias' = [a \in DOMAIN alias' |-> alias'[a]]
  <2>1. CASE alias' = alias
    BY <2>1 DEF NamesFit
  <2>2. CASE alias' = Upserted(alias, given, i)
    BY <2>2 DEF Upserted
  <2> QED BY <2>1, <2>2
<1>5. /\ \A a \in DOMAIN alias : a = <<a[1], a[2]>> /\ alias[a] # i
      /\ \A a, b \in DOMAIN alias : alias[a] = alias[b] => a[2] = b[2]
      /\ \A a \in DOMAIN alias : alias[a] \in DOMAIN tissue /\ tissue[alias[a]].key # NoName => a[2] = tissue[alias[a]].key[2]
  BY DEF NamesFit, Range
<1>6. Range(alias) \subseteq Range(alias')
  BY <1>2 DEF Range
<1>7. \A a \in DOMAIN alias' : alias'[a] \in Range(alias) => \E b \in DOMAIN alias : alias[b] = alias'[a] /\ b[2] = a[2]
  BY <1>2, <1>3
<1>8. \A j \in DOMAIN tissue' : j \in Range(alias) => j \in DOMAIN tissue /\ tissue'[j].key = tissue[j].key
  BY <1>1
<1>9. Grows
  BY <1>2, <1>6, <1>7, <1>8 DEF Grows
<1>10. RowsMade(tissue', remote')
  <2> SUFFICES ASSUME NEW j \in DOMAIN tissue' PROVE IsIssueRow(tissue'[j]) /\ tissue'[j].key \in DOMAIN remote \cup {NoName}
    BY DEF RowsMade
  <2>1. CASE j = i
    BY <1>1, <2>1
  <2>2. CASE j # i
    BY <1>1, <2>2 DEF RowsMade
  <2> QED BY <2>1, <2>2
<1>11. \A a \in DOMAIN alias' : a = <<a[1], a[2]>>
  BY <1>3, <1>5
<1>12. \A a, b \in DOMAIN alias' : alias'[a] = alias'[b] => a[2] = b[2]
  BY ONLY <1>2, <1>3, <1>5
<1>13. \A a \in DOMAIN alias' : alias'[a] \in DOMAIN tissue' /\ tissue'[alias'[a]].key # NoName => a[2] = tissue'[alias'[a]].key[2]
  <2> SUFFICES ASSUME NEW a \in DOMAIN alias', alias'[a] \in DOMAIN tissue', tissue'[alias'[a]].key # NoName
               PROVE  a[2] = tissue'[alias'[a]].key[2]
    OBVIOUS
  <2>1. CASE a \in DOMAIN alias
    BY <1>1, <1>2, <1>5, <2>1
  <2>2. CASE a = given /\ alias'[a] = i
    BY <1>1, <2>2
  <2> QED BY <1>3, <2>1, <2>2
<1>14. NamesFit(tissue', alias')
  BY <1>4, <1>11, <1>12, <1>13 DEF NamesFit
<1> QED BY <1>2, <1>9, <1>10, <1>14

LEMMA IssueMade ==
  ASSUME TrackerInv, UNCHANGED remote, NEW name \in DOMAIN remote \cup {NoName}, NEW parent,
         CanCreateNamed(parent, name), CreateNamed(parent, name)
  PROVE  /\ Grows /\ RowsMade(tissue', remote') /\ NamesFit(tissue', alias')
         /\ \E row : Made(NextId, row, name)
         /\ now' \in Nat /\ now <= now'
         /\ name # NoName => MayTake(NextId, name, tissue', alias', remote')
<1> DEFINE given == IF name = NoName THEN MintedName(EnsuredIdentity) ELSE GivenName(name)
           number == IF name = NoName /\ given # NoName THEN given[2] ELSE 0
           row == [status |-> "triage", parent |-> parent, changed |-> Stamp, key |-> name, number |-> number]
           i == NextId
<1>1. UnusedIds # {} /\ given \notin DOMAIN alias
  BY DEF CanCreateNamed
<1>2. /\ tissue' = Upserted(tissue, i, row) /\ now' = Stamp
      /\ alias' = IF given = NoName THEN alias ELSE Upserted(alias, given, i)
  BY DEF CreateNamed
<1>3. i \notin DOMAIN tissue \cup Range(alias)
  BY <1>1, IdIsNew
<1>4. name # NoName => name = <<name[1], name[2]>>
  BY DEF TrackerInv, KeysDrawn
<1>5. given = <<given[1], given[2]>> /\ (name # NoName => given = name)
  BY <1>4 DEF MintedName, GivenName, NoName
<1> HIDE DEF given, number, i
<1>6. IsIssueRow(row) /\ row.key = name
  BY DEF IsIssueRow
<1> HIDE DEF row
<1>7. NamesFit(tissue, alias) /\ RowsMade(tissue, remote) /\ KeysDrawn(remote) /\ now \in Nat
  BY DEF TrackerInv
<1>8. alias' = alias \/ alias' = Upserted(alias, given, i)
  BY <1>2
<1>9. given # NoName => given \in DOMAIN alias' /\ alias'[given] = i
  BY <1>2 DEF Upserted
<1>10. /\ Grows /\ RowsMade(tissue', remote') /\ NamesFit(tissue', alias')
       /\ \A a \in DOMAIN alias : a \in DOMAIN alias' /\ alias'[a] = alias[a]
  BY <1>1, <1>2, <1>3, <1>5, <1>6, <1>7, <1>8, NameAdded
<1>11. name # NoName => name \notin DOMAIN alias /\ name \in DOMAIN alias' /\ alias'[name] = i
  BY <1>1, <1>5, <1>9
<1>12. Made(i, row, name)
  BY <1>2, <1>3, <1>6, <1>10, <1>11 DEF Made
<1>13. ASSUME name # NoName PROVE MayTake(i, name, tissue', alias', remote')
  <2>1. name \in DOMAIN remote' /\ i \in Range(alias')
    BY <1>11, <1>13 DEF Range
  <2>2. \A a \in DOMAIN alias' : alias'[a] = i => a[2] = name[2]
    BY <1>10, <1>11, <1>13 DEF NamesFit
  <2>3. tissue'[i].key = name
    BY <1>2, <1>6 DEF Upserted
  <2> QED BY <2>1, <2>2, <2>3 DEF MayTake
<1> QED BY <1>2, <1>7, <1>10, <1>12, <1>13, StampFits DEF i

LEMMA MakingStep ==
  ASSUME TrackerInv, UNCHANGED <<tplan, mapping, remote>>, Grows, RowsMade(tissue', remote'), NamesFit(tissue', alias'),
         now' \in Nat, now <= now', NEW i, NEW row, NEW name, Made(i, row, name),
         NEW p \in tplan.procs, name # NoName => Creating(job[p], name),
         NEW J, job' = [job EXCEPT ![p] = J], CommandFits(J, tissue', alias', remote'), \A k : ~ Creating(J, k)
  PROVE  StepFits
<1>1. JobsAreOf(job, tplan.procs) /\ KeysDrawn(remote')
  BY DEF TrackerInv
<1>2. JobsAreOf(job', tplan.procs) /\ job'[p] = J /\ \A q \in tplan.procs : q # p => job'[q] = job[q]
  BY <1>1 DEF JobsAreOf
<1>3. \A k \in DOMAIN mapping' : k \in DOMAIN mapping /\ mapping'[k] = mapping[k]
  OBVIOUS
<1>4. TrackerInv'
  BY <1>1, <1>2, <1>3, StepKeeps
<1>5. \A q \in tplan.procs : \A k : Creating(job'[q], k) => Creating(job[q], k)
  BY <1>2
<1>6. MakesOne
  BY <1>5 DEF MakesOne, Made
<1> QED BY <1>4, <1>6 DEF StepFits

LEMMA AdoptCreateFits ==
  ASSUME TrackerInv, NEW p \in tplan.procs, AdoptCreate(p)
  PROVE  StepFits
<1> DEFINE I == job[p]
           k == I.key
<1>1. UNCHANGED <<tplan, mapping, remote>> /\ Awake(p, "pull", "create")
  BY DEF AdoptCreate
<1>2. Pulling(I, DOMAIN remote) /\ I.pc = "create" /\ I # Asleep
  BY <1>1, PullIsPulling
<1>3. PullFields \subseteq DOMAIN I /\ k \in DOMAIN remote /\ k # NoName
  BY <1>2 DEF Pulling, PullFields, TrackerInv, KeysDrawn, NoName, Team
<1>4. CASE CanCreateNamed(I.parent, k)
  <2> DEFINE J == Went(I, "bind", [id |-> NextId, made |-> TRUE])
  <2>1. CreateNamed(I.parent, k) /\ job' = [job EXCEPT ![p] = J]
    BY <1>4 DEF AdoptCreate, At, Went
  <2>2. /\ PullFields \subseteq DOMAIN J /\ "id" \in DOMAIN J
        /\ J.op = I.op /\ J.todo = I.todo /\ J.key = k /\ J.pc = "bind" /\ J.id = NextId
    <3> HIDE DEF NextId
    <3> QED BY <1>3 DEF Went, Over, PullFields
  <2> HIDE DEF J
  <2>3. /\ Grows /\ RowsMade(tissue', remote') /\ NamesFit(tissue', alias')
        /\ \E row : Made(NextId, row, k)
        /\ now' \in Nat /\ now <= now' /\ MayTake(NextId, k, tissue', alias', remote')
    BY <1>1, <1>3, <1>4, <2>1, IssueMade
  <2>4. J.key \in DOMAIN remote /\ J.pc \in PullPlaces \ {"read"} /\ J.pc # "create"
    BY <1>3, <2>2 DEF PullPlaces
  <2>5. Pulling(J, DOMAIN remote) /\ J # Asleep
    BY <1>2, <2>2, <2>4, PullMoves
  <2>6. CommandFits(J, tissue', alias', remote') /\ \A l : ~ Creating(J, l)
    BY <1>1, <2>2, <2>3, <2>5 DEF CommandFits, Holds, Creating
  <2>7. Creating(I, k)
    BY <1>2, <1>3 DEF Creating
  <2>8. PICK row : Made(NextId, row, k)
    BY <2>3
  <2> HIDE DEF k
  <2> QED BY <1>1, <2>1, <2>3, <2>6, <2>7, <2>8, MakingStep
<1>5. CASE ~ CanCreateNamed(I.parent, k) /\ k \in DOMAIN alias /\ alias[k] \in DOMAIN tissue
  <2> DEFINE J == Went(I, "bind", [id |-> alias[k], made |-> FALSE, row |-> Row(alias[k])])
  <2>1. UNCHANGED <<tissue, alias, now>> /\ job' = [job EXCEPT ![p] = J]
    BY <1>5 DEF AdoptCreate, At, Went
  <2>2. /\ PullFields \subseteq DOMAIN J /\ "id" \in DOMAIN J
        /\ J.op = I.op /\ J.todo = I.todo /\ J.key = k /\ J.pc = "bind" /\ J.id = alias[k]
    BY <1>3 DEF Went, Over, PullFields
  <2> HIDE DEF J
  <2>3. MayTake(alias[k], k, tissue, alias, remote)
    <3> HIDE DEF k
    <3>1. NamesFit(tissue, alias) /\ \A x \in DOMAIN remote : x = <<Team, x[2]>>
      BY DEF TrackerInv, KeysDrawn
    <3>2. alias[k] \in Range(alias)
      BY <1>5 DEF Range
    <3>3. \A a \in DOMAIN alias : alias[a] = alias[k] => a[2] = k[2]
      BY <1>5, <3>1 DEF NamesFit
    <3>4. ASSUME tissue[alias[k]].key # NoName PROVE tissue[alias[k]].key = k
      <4>1. tissue[alias[k]].key \in DOMAIN remote /\ k[2] = tissue[alias[k]].key[2]
        BY <1>5, <3>1, <3>4 DEF TrackerInv, RowsMade, NamesFit
      <4> QED BY <1>3, <3>1, <4>1
    <3> QED BY <1>3, <3>2, <3>3, <3>4 DEF MayTake
  <2>4. CommandFits(J, tissue, alias, remote) /\ \A l : ~ Creating(J, l)
    BY <1>2, <2>2, <2>3, PullsOn
  <2> QED BY <1>1, <2>1, <2>4, CommandOnly
<1>6. CASE ~ CanCreateNamed(I.parent, k) /\ ~ (k \in DOMAIN alias /\ alias[k] \in DOMAIN tissue)
  <2>1. Done(p) /\ UNCHANGED <<tissue, alias, now>>
    BY <1>6 DEF AdoptCreate
  <2> QED BY <1>1, <2>1, CommandEnds
<1> QED BY <1>4, <1>5, <1>6

LEMMA NewCreateFits ==
  ASSUME TrackerInv, NEW p \in tplan.procs, NewCreate(p)
  PROVE  StepFits
<1> DEFINE I == job[p]
           k == I.key
           pc == IF k = NoName THEN "status" ELSE "bind"
<1>1. UNCHANGED <<tplan, mapping, remote>> /\ Awake(p, "new", "create")
  BY DEF NewCreate
<1>2. Making(I, DOMAIN remote) /\ I.pc = "create" /\ I # Asleep
  BY <1>1, MakeIsMaking
<1>3. {"op", "pc", "key", "status"} \subseteq DOMAIN I /\ k \in DOMAIN remote \cup {NoName}
  BY <1>2 DEF Making
<1>4. CASE CanCreateNamed(NoIssue, k)
  <2> DEFINE J == Went(I, pc, [id |-> NextId, made |-> TRUE])
  <2>1. CreateNamed(NoIssue, k) /\ job' = [job EXCEPT ![p] = J]
    BY <1>4 DEF NewCreate, At, Went
  <2>2. pc \in {"status", "bind"} /\ (pc = "bind" => k # NoName)
    OBVIOUS
  <2>3. /\ {"op", "pc", "key", "status", "id", "made"} \subseteq DOMAIN J
        /\ J.op = I.op /\ J.key = k /\ J.pc = pc /\ J.id = NextId /\ J.made
    <3> HIDE DEF NextId, pc
    <3> QED BY <1>3 DEF Went, Over
  <2> HIDE DEF J, pc
  <2>4. /\ Grows /\ RowsMade(tissue', remote') /\ NamesFit(tissue', alias')
        /\ \E row : Made(NextId, row, k)
        /\ now' \in Nat /\ now <= now' /\ (k # NoName => MayTake(NextId, k, tissue', alias', remote'))
    BY <1>1, <1>3, <1>4, <2>1, IssueMade
  <2>5. Making(J, DOMAIN remote) /\ J # Asleep
    BY <1>2, <1>3, <2>2, <2>3, MakeMoves
  <2>6. CommandFits(J, tissue', alias', remote') /\ \A l : ~ Creating(J, l)
    BY <1>1, <2>2, <2>3, <2>4, <2>5 DEF CommandFits, Holds, Creating
  <2>7. k # NoName => Creating(I, k)
    BY <1>2 DEF Creating
  <2>8. PICK row : Made(NextId, row, k)
    BY <2>4
  <2> HIDE DEF k
  <2> QED BY <1>1, <2>1, <2>4, <2>6, <2>7, <2>8, MakingStep
<1>5. CASE ~ CanCreateNamed(NoIssue, k)
  <2>1. Done(p) /\ UNCHANGED <<tissue, alias, now>>
    BY <1>5 DEF NewCreate
  <2> QED BY <1>1, <2>1, CommandEnds
<1> QED BY <1>4, <1>5

----------------------------------------------------------------------------
(* Every step. *)

LEMMA CommandStepsFit ==
  ASSUME TrackerInv, NEW p \in tplan.procs, CommandStep(p)
  PROVE  StepFits
<1>1. CASE DefineTeam(p) \/ WriteConfig(p)
  BY <1>1, SettingSteps
<1>2. CASE AdoptRead(p)
  BY <1>2, PullReads
<1>3. CASE AdoptLookup(p)
  BY <1>3, PullLooksUp
<1>4. CASE AdoptCreate(p)
  BY <1>4, AdoptCreateFits
<1>5. CASE Bind(p)
  BY <1>5, BindFits
<1>6. CASE RefreshParent(p)
  BY <1>6, ParentFits
<1>7. CASE RefreshAlias(p)
  BY <1>7, AliasFits
<1>8. CASE AdoptStatus(p)
  BY <1>8, StatusFits
<1>9. CASE PullChildren(p)
  BY <1>9, PullGoesOn
<1>10. CASE MintLinearIssue(p)
  BY <1>10, MintFits
<1>11. CASE NewCreate(p)
  BY <1>11, NewCreateFits
<1>12. CASE NewStatus(p)
  BY <1>12, NewStatusFits
<1>13. CASE ReadRemote(p)
  BY <1>13, SyncReads
<1>14. CASE PushWrite(p)
  BY <1>14, PushFits
<1>15. CASE ReconcileWrite(p)
  BY <1>15, ReconcileFits
<1>16. CASE TouchMapping(p)
  BY <1>16, TouchFits
<1>17. CASE Report(p)
  BY <1>17, Ending
<1> QED BY <1>1, <1>2, <1>3, <1>4, <1>5, <1>6, <1>7, <1>8, <1>9, <1>10, <1>11, <1>12, <1>13, <1>14, <1>15, <1>16, <1>17
        DEF CommandStep

LEMMA StepsFit == ASSUME TrackerInv, TrackerNext PROVE StepFits
<1>1. ASSUME NEW p \in tplan.procs,
             \/ CommandStep(p)
             \/ BootstrapTrackerSteering(p) \/ AlignLeakedIssuePrefix(p) \/ ApplyIssueProjectConfig(p)
             \/ \E d \in tplan.defines : DefineIdentity(p, d[1], d[2])
             \/ \E k \in DOMAIN remote, t \in BOOLEAN : Pull(p, k, t)
             \/ \E s \in {"triage", "todo"} : New(p, s)
             \/ \E i \in DOMAIN tissue : ReadLocal(p, "push", i, "none")
             \/ \E i \in DOMAIN tissue, t \in {"none", "local", "tracker"} : ReadLocal(p, "reconcile", i, t)
             \/ Kill(p)
      PROVE  StepFits
  <2>1. CASE CommandStep(p)
    BY <2>1, CommandStepsFit
  <2>2. CASE BootstrapTrackerSteering(p) \/ ApplyIssueProjectConfig(p)
    BY <2>2, SettingSteps
  <2>3. CASE AlignLeakedIssuePrefix(p) \/ \E d \in tplan.defines : DefineIdentity(p, d[1], d[2])
    BY <2>3, RenamingSteps
  <2>4. CASE \E k \in DOMAIN remote, t \in BOOLEAN : Pull(p, k, t)
    BY <2>4, PullBegins
  <2>5. CASE \E s \in {"triage", "todo"} : New(p, s)
    BY <2>5, MakingBegins
  <2>6. CASE \E i \in DOMAIN tissue : ReadLocal(p, "push", i, "none")
    BY <2>6, SyncBegins, "push" \in {"push", "reconcile"}
  <2>7. CASE \E i \in DOMAIN tissue, t \in {"none", "local", "tracker"} : ReadLocal(p, "reconcile", i, t)
    BY <2>7, SyncBegins, "reconcile" \in {"push", "reconcile"}
  <2>8. CASE Kill(p)
    BY <2>8, Ending
  <2> QED BY <1>1, <2>1, <2>2, <2>3, <2>4, <2>5, <2>6, <2>7, <2>8
<1>2. CASE \/ \E i \in DOMAIN tissue, s \in tplan.statuses : SetStatus(i, s)
           \/ \E i \in DOMAIN tissue : Delete(i)
           \/ \E k \in DOMAIN remote, s \in tplan.statuses \ {"duplicate"}, q \in {NoName} \cup DOMAIN remote :
                EditRemote(k, s, q)
  BY <1>2, PeopleFit
<1> QED BY <1>1, <1>2 DEF TrackerNext

LEMMA TrackerStarts == ASSUME TrackerInit PROVE TrackerInv
<1>1. tplan \in TrackerPlans /\ KeysDrawn(remote) /\ now \in Nat
  BY TrackerPlansAssumption DEF TrackerInit
<1>2. RowsMade(tissue, remote) /\ NamesFit(tissue, alias) /\ MappingFits(mapping, tissue, alias, remote, now)
  BY DEF TrackerInit, RowsMade, NamesFit, MappingFits
<1>3. JobsAreOf(job, tplan.procs) /\ \A p \in tplan.procs : CommandFits(job[p], tissue, alias, remote)
  BY DEF TrackerInit, JobsAreOf, CommandFits
<1> QED BY <1>1, <1>2, <1>3 DEF TrackerInv

LEMMA TrackerStays == ASSUME TrackerInv, UNCHANGED trackerVars PROVE TrackerInv'
<1>1. UNCHANGED <<tplan, tissue, alias, mapping, remote, now, job>>
  BY DEF trackerVars
<1> QED BY <1>1 DEF TrackerInv

\* What a command goes on with is the issue of its key, whatever happened meanwhile.
THEOREM TrackerInvHolds == TrackerSpec => []TrackerInv
<1>1. TrackerInit => TrackerInv
  BY TrackerStarts
<1>2. TrackerInv /\ [TrackerNext]_trackerVars => TrackerInv'
  <2> SUFFICES ASSUME TrackerInv, [TrackerNext]_trackerVars PROVE TrackerInv'
    OBVIOUS
  <2>1. CASE TrackerNext
    BY <2>1, StepsFit DEF StepFits
  <2>2. CASE UNCHANGED trackerVars
    BY <2>2, TrackerStays
  <2> QED BY <2>1, <2>2
<1> QED BY <1>1, <1>2, PTL DEF TrackerSpec

\* A name never goes over to another issue, and an issue that has a name keeps one
\* of the same number, whatever is renamed, adopted or given back its key.
THEOREM NamesStayWithIssues == TrackerSpec => NamesKeepTheirIssue
<1> DEFINE Keep == /\ \A i \in DOMAIN tissue \cap DOMAIN tissue' :
                        {a[2] : a \in NamesOf(i)} \subseteq {a[2] : a \in NamesOf(i)'}
                   /\ \A a \in DOMAIN alias \cap DOMAIN alias' : alias[a] = alias'[a]
<1>1. TrackerInv /\ TrackerNext => Keep
  <2> SUFFICES ASSUME TrackerInv, TrackerNext PROVE Keep
    OBVIOUS
  <2>1. Grows /\ NamesFit(tissue, alias)
    BY StepsFit DEF StepFits, TrackerInv
  <2>2. ASSUME NEW i, NEW a \in NamesOf(i) PROVE \E b \in NamesOf(i)' : b[2] = a[2]
    <3>1. a \in DOMAIN alias /\ alias[a] = i
      BY <2>2 DEF NamesOf
    <3>2. i \in Range(alias) /\ i \in Range(alias')
      BY <2>1, <3>1 DEF Grows, Range
    <3>3. PICK b \in DOMAIN alias' : alias'[b] = i
      BY <3>2 DEF Range
    <3>4. PICK c \in DOMAIN alias : alias[c] = alias'[b] /\ c[2] = b[2]
      BY <2>1, <3>2, <3>3 DEF Grows
    <3>5. c[2] = a[2]
      BY <2>1, <3>1, <3>3, <3>4 DEF NamesFit
    <3> QED BY <3>3, <3>4, <3>5 DEF NamesOf
  <2>3. \A i : {a[2] : a \in NamesOf(i)} \subseteq {a[2] : a \in NamesOf(i)'}
    BY <2>2
  <2> QED BY <2>1, <2>3 DEF Grows
<1>2. TrackerInv /\ [TrackerNext]_trackerVars => [Keep]_trackerVars
  <2> HIDE DEF Keep
  <2> QED BY <1>1
<1> QED BY <1>2, TrackerInvHolds, PTL DEF TrackerSpec, NamesKeepTheirIssue

----------------------------------------------------------------------------
(* One issue for a key. *)

\* The issue that was made for a key has it as its name until the mapping row is
\* there, and whoever is about to make an issue for that key will find it taken.
KeyInv ==
  /\ \A i, j \in DOMAIN tissue : tissue[i].key = tissue[j].key /\ tissue[i].key # NoName => i = j
  /\ \A j \in DOMAIN tissue :
       tissue[j].key # NoName =>
         \/ tissue[j].key \in DOMAIN mapping
         \/ tissue[j].key \in DOMAIN alias /\ alias[tissue[j].key] = j
  /\ \A p \in tplan.procs : \A j \in DOMAIN tissue :
       Creating(job[p], tissue[j].key) => tissue[j].key \in DOMAIN alias /\ alias[tissue[j].key] = j

\* An adopted name that goes has its mapping row, and no command is at its create.
LEMMA NamesSpared ==
  ASSUME RenamesSpareKeys, Grows, NEW j \in DOMAIN tissue, NEW k, k = tissue[j].key, k # NoName,
         k \in DOMAIN alias, alias[k] = j
  PROVE  \/ k \in DOMAIN alias' /\ alias'[k] = j
         \/ k \in DOMAIN mapping /\ \A p \in tplan.procs : ~ Creating(job[p], k)
<1>1. CASE k \in DOMAIN alias'
  BY <1>1 DEF Grows
<1>2. CASE k \notin DOMAIN alias'
  BY <1>2 DEF RenamesSpareKeys, Creating
<1> QED BY <1>1, <1>2

LEMMA KeyKeptMakingNone ==
  ASSUME TrackerInv, KeyInv, UNCHANGED tplan, Grows, MakesNone, RenamesSpareKeys
  PROVE  KeyInv'
<1>1. \A j \in DOMAIN tissue' : j \in DOMAIN tissue /\ tissue'[j].key = tissue[j].key
  BY DEF MakesNone
<1>2. \A i, j \in DOMAIN tissue' : tissue'[i].key = tissue'[j].key /\ tissue'[i].key # NoName => i = j
  BY <1>1 DEF KeyInv
<1>3. ASSUME NEW j \in DOMAIN tissue', tissue'[j].key # NoName
      PROVE  \/ tissue'[j].key \in DOMAIN mapping'
             \/ tissue'[j].key \in DOMAIN alias' /\ alias'[tissue'[j].key] = j
  <2> DEFINE k == tissue[j].key
  <2>1. j \in DOMAIN tissue /\ tissue'[j].key = k /\ DOMAIN mapping \subseteq DOMAIN mapping'
    BY <1>1 DEF MakesNone
  <2>2. k \in DOMAIN mapping \/ (k \in DOMAIN alias /\ alias[k] = j)
    BY <1>3, <2>1 DEF KeyInv
  <2> HIDE DEF k
  <2>3. k \in DOMAIN mapping \/ (k \in DOMAIN alias' /\ alias'[k] = j)
    BY <1>3, <2>1, <2>2, NamesSpared DEF k
  <2> QED BY <2>1, <2>3
<1>4. ASSUME NEW p \in tplan.procs, NEW j \in DOMAIN tissue', Creating(job'[p], tissue'[j].key)
      PROVE  tissue'[j].key \in DOMAIN alias' /\ alias'[tissue'[j].key] = j
  <2> DEFINE k == tissue[j].key
  <2>1. j \in DOMAIN tissue /\ tissue'[j].key = k /\ k # NoName
    BY <1>1, <1>4 DEF Creating
  <2>2. k \in DOMAIN remote
    BY <2>1 DEF TrackerInv, RowsMade
  <2>3. Creating(job[p], k) \/ (alias' = alias /\ k \notin DOMAIN mapping)
    BY <1>4, <2>1, <2>2 DEF MakesNone
  <2>4. k \in DOMAIN alias /\ alias[k] = j
    BY <2>1, <2>3 DEF KeyInv
  <2> HIDE DEF k
  <2>5. k \in DOMAIN alias' /\ alias'[k] = j
    BY <2>1, <2>3, <2>4, NamesSpared DEF k
  <2> QED BY <2>1, <2>5
<1> QED BY <1>2, <1>3, <1>4 DEF KeyInv

LEMMA KeyKeptMakingOne ==
  ASSUME TrackerInv, KeyInv, UNCHANGED tplan, MakesOne
  PROVE  KeyInv'
<1>1. PICK p \in tplan.procs : \E i, row :
        /\ i \notin DOMAIN tissue \cup Range(alias)
        /\ tissue' = Upserted(tissue, i, row)
        /\ mapping' = mapping
        /\ row.key # NoName => /\ Creating(job[p], row.key)
                               /\ row.key \notin DOMAIN alias
                               /\ row.key \in DOMAIN alias' /\ alias'[row.key] = i
        /\ \A a \in DOMAIN alias : a \in DOMAIN alias' /\ alias'[a] = alias[a]
        /\ \A q \in tplan.procs : \A k : Creating(job'[q], k) => Creating(job[q], k)
  BY DEF MakesOne
<1>2. PICK i, row :
        /\ i \notin DOMAIN tissue \cup Range(alias)
        /\ tissue' = Upserted(tissue, i, row)
        /\ mapping' = mapping
        /\ row.key # NoName => /\ Creating(job[p], row.key)
                               /\ row.key \notin DOMAIN alias
                               /\ row.key \in DOMAIN alias' /\ alias'[row.key] = i
        /\ \A a \in DOMAIN alias : a \in DOMAIN alias' /\ alias'[a] = alias[a]
        /\ \A q \in tplan.procs : \A k : Creating(job'[q], k) => Creating(job[q], k)
  BY <1>1
<1>3. /\ DOMAIN tissue' = DOMAIN tissue \cup {i} /\ tissue'[i] = row
      /\ \A j \in DOMAIN tissue : tissue'[j] = tissue[j]
  BY <1>2 DEF Upserted
<1>4. \A j \in DOMAIN tissue : tissue[j].key # NoName => tissue[j].key # row.key
  BY <1>2 DEF KeyInv
<1>5. \A x, y \in DOMAIN tissue' : tissue'[x].key = tissue'[y].key /\ tissue'[x].key # NoName => x = y
  <2> SUFFICES ASSUME NEW x \in DOMAIN tissue', NEW y \in DOMAIN tissue',
                      tissue'[x].key = tissue'[y].key, tissue'[x].key # NoName
               PROVE  x = y
    OBVIOUS
  <2>1. CASE x \in DOMAIN tissue /\ y \in DOMAIN tissue
    BY <1>3, <2>1 DEF KeyInv
  <2>2. CASE x = i \/ y = i
    BY <1>3, <1>4, <2>2
  <2> QED BY <1>3, <2>1, <2>2
<1>6. ASSUME NEW j \in DOMAIN tissue', tissue'[j].key # NoName
      PROVE  \/ tissue'[j].key \in DOMAIN mapping'
             \/ tissue'[j].key \in DOMAIN alias' /\ alias'[tissue'[j].key] = j
  <2>1. CASE j = i
    BY <1>2, <1>3, <1>6, <2>1
  <2>2. CASE j \in DOMAIN tissue
    <3>1. tissue[j].key \in DOMAIN mapping \/ (tissue[j].key \in DOMAIN alias /\ alias[tissue[j].key] = j)
      BY <1>3, <1>6, <2>2 DEF KeyInv
    <3> QED BY <1>2, <1>3, <2>2, <3>1
  <2> QED BY <1>3, <2>1, <2>2
<1>7. ASSUME NEW q \in tplan.procs, NEW j \in DOMAIN tissue', Creating(job'[q], tissue'[j].key)
      PROVE  tissue'[j].key \in DOMAIN alias' /\ alias'[tissue'[j].key] = j
  <2>1. Creating(job[q], tissue'[j].key) /\ tissue'[j].key # NoName
    BY <1>2, <1>7 DEF Creating
  <2>2. CASE j = i
    BY <1>2, <1>3, <2>1, <2>2
  <2>3. CASE j \in DOMAIN tissue
    <3>1. tissue[j].key \in DOMAIN alias /\ alias[tissue[j].key] = j
      BY <1>3, <2>1, <2>3 DEF KeyInv
    <3> QED BY <1>2, <1>3, <2>3, <3>1
  <2> QED BY <1>3, <2>2, <2>3
<1> QED BY <1>5, <1>6, <1>7 DEF KeyInv

LEMMA OneForAKey == ASSUME TrackerInv, KeyInv PROVE OneIssuePerKey
<1>1. ASSUME NEW k \in DOMAIN mapping, mapping[k].issue \in DOMAIN tissue PROVE tissue[mapping[k].issue].key \in {k, NoName}
  <2>1. MayTake(mapping[k].issue, k, tissue, alias, remote)
    BY MappedMayBeTaken
  <2> QED BY <1>1, <2>1 DEF MayTake
<1> QED BY <1>1 DEF OneIssuePerKey, KeyInv

\* However commands that adopt, make, push and rename are interleaved, killed and run
\* again, a Linear issue has one local issue and its mapping row names it, as long as
\* the renames of the prefix spare the names of issues that are being adopted.
THEOREM OneIssueWhileKeysAreSpared ==
  TrackerSpec /\ [][RenamesSpareKeys]_trackerVars => []OneIssuePerKey
<1>1. TrackerInit => TrackerInv /\ KeyInv
  <2> SUFFICES ASSUME TrackerInit PROVE TrackerInv /\ KeyInv
    OBVIOUS
  <2>1. DOMAIN tissue = {}
    BY DEF TrackerInit
  <2> QED BY <2>1, TrackerStarts DEF KeyInv
<1>2. TrackerInv /\ KeyInv /\ [TrackerNext]_trackerVars /\ [RenamesSpareKeys]_trackerVars => (TrackerInv /\ KeyInv)'
  <2> SUFFICES ASSUME TrackerInv, KeyInv, [TrackerNext]_trackerVars, [RenamesSpareKeys]_trackerVars
               PROVE  TrackerInv' /\ KeyInv'
    OBVIOUS
  <2>1. CASE TrackerNext /\ RenamesSpareKeys
    <3>1. StepFits
      BY <2>1, StepsFit
    <3> QED BY <2>1, <3>1, KeyKeptMakingNone, KeyKeptMakingOne DEF StepFits
  <2>2. CASE UNCHANGED trackerVars
    <3>1. UNCHANGED <<tplan, tissue, alias, mapping, job>>
      BY <2>2 DEF trackerVars
    <3> QED BY <2>2, <3>1, TrackerStays DEF KeyInv
  <2> QED BY <2>1, <2>2
<1>3. TrackerInv /\ KeyInv => OneIssuePerKey
  BY OneForAKey
<1> QED BY <1>1, <1>2, <1>3, PTL DEF TrackerSpec
====
