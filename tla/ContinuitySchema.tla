-------------------------- MODULE ContinuitySchema --------------------------
(***************************************************************************)
(* The vNext continuity database is created, validated and upgraded when a *)
(* process opens it (src/vnext/continuity/sqlite/store.go, schema.go and   *)
(* relay_watermark_migration.go).  Several processes may open one file at  *)
(* the same time, and any of them may die.  An upgrade step is one         *)
(* immediate transaction; the preflight before it reads the version, the   *)
(* identity row and the objects one after the other, outside of any.       *)
(***************************************************************************)
EXTENDS Integers, FiniteSets, FiniteSetsExt

CONSTANTS
  Openers,    \* processes that open the database
  Starts      \* the databases they may find

VARIABLES
  origin,     \* the database as it was found
  db,         \* the database
  opener      \* where each process is: [at, from, saw]

schemaVars == <<origin, db, opener>>

SchemaVersion == 11

----------------------------------------------------------------------------
(* The objects of each version. *)

\* The tables of version 1: the facts.
FactObjects == {"facts"}

\* Version 2: progress, heads, outbox, receipts, inbox, tombstones, certificates.
ProgressObjects == {"projects", "inbox", "receipts"}
HeadObjects == {"heads", "outbox", "tombstones"}
CertificateObjects == {"certificates"}

\* Version 3: staged terminal candidates.
TerminalObjects == {"terminal_candidates", "terminal_candidate_frames"}

\* Version 4: authorities and their candidates.
AuthorityObjects == {"authorities", "authority_candidates"}
CandidatePageObjects == {"candidate_pages", "candidate_environments", "membership_events"}

\* Version 5: relay watermarks.
WatermarkObjects == {"watermarks"}

\* Versions 6 and 7: recovery transitions and their receipts.
TransitionObjects == {"recovery_transitions"}
ReceiptObjects == {"recovery_terminal_receipts"}

\* Versions 10 and 11: recovery prune candidates and their index.
PruneCandidateObjects == {"prune_candidates"}
PruneIndexObjects == {"prune_records", "prune_targets"}

\* expectedSchemaV1Objects to expectedSchemaObjects.  A table whose columns
\* change between two versions carries the version it changed in.
Changed(v) ==
  (IF v >= 3 THEN {"inbox v3"} ELSE {}) \cup (IF v >= 6 THEN {"authority_candidates v6"} ELSE {})
    \cup (IF v >= 7 THEN {"recovery_transitions v7"} ELSE {})
    \cup (IF v >= 8 THEN {"watermarks v8"} ELSE {}) \cup (IF v >= 9 THEN {"tombstones v9"} ELSE {})

ObjectsOf(v) ==
  (IF v >= 1 THEN FactObjects ELSE {})
    \cup (IF v >= 2 THEN ProgressObjects \cup HeadObjects \cup CertificateObjects ELSE {})
    \cup (IF v >= 3 THEN TerminalObjects ELSE {})
    \cup (IF v >= 4 THEN AuthorityObjects \cup CandidatePageObjects ELSE {})
    \cup (IF v >= 5 THEN WatermarkObjects ELSE {})
    \cup (IF v >= 6 THEN TransitionObjects ELSE {})
    \cup (IF v >= 7 THEN ReceiptObjects ELSE {})
    \cup (IF v >= 10 THEN PruneCandidateObjects ELSE {})
    \cup (IF v >= 11 THEN PruneIndexObjects ELSE {})
    \cup Changed(v)

----------------------------------------------------------------------------
(* The rows the steps read and write. *)

\* What a file may hold: tables are finite, a version has no rows in tables it does
\* not know (watermarks come with version 5 and know their floor from version 8 on),
\* and a file without tables has no rows.
Tables == {"facts", "heads", "inbox", "projects", "authorities", "terminals", "candidates",
           "watermarks", "transitions", "tombstones", "prunes"}

RowsFit(v, d) ==
  /\ DOMAIN d = Tables
  /\ \A t \in {"facts", "projects", "authorities", "candidates", "watermarks"} : IsFiniteSet(d[t])
  /\ \A f \in d.facts : f.seq \in Nat
  /\ \A t \in {"authorities", "candidates", "watermarks"} : \A r \in d[t] : r.head \in Nat
  /\ \A c \in d.candidates : {"relay", "admin", "gen", "head"} \subseteq DOMAIN c
  /\ \A t \in d.tombstones : "digest" \in DOMAIN t
  /\ v < 5 => d.watermarks = {}
  /\ v < 8 => \A w \in d.watermarks : ~ w.known

ASSUME StartsAssumption ==
  \A x \in Starts :
    /\ DOMAIN x = {"version", "row", "objects", "data"} /\ x.version \in Int
    /\ RowsFit(x.version, x.data)
    /\ x.objects = {} => \A t \in Tables : x.data[t] = {}

\* A relay's key in a project's rows: its channel, its generation and its
\* administrator.  Two rows may name one relay and different administrators.
Relay(r) == r.relay

\* validateV1EnvironmentHistory: every environment's sequence starts at 1, has
\* no gap, and its times rise.
HistoryIsWhole(facts) ==
  \A f \in facts :
    LET own == {g \in facts : g.env = f.env} IN
    /\ {g.seq : g \in own} = 1 .. Cardinality(own)
    /\ \A g \in own : g.seq > f.seq => g.time > f.time

\* migrateSchemaV1ToV2: the last fact of each environment, nothing sealed yet.
SeedHeads(facts) ==
  {[env |-> f.env, seq |-> f.seq, time |-> f.time, sealed |-> 0] :
     f \in {g \in facts : \A h \in facts : h.env = g.env => h.seq <= g.seq}}

\* seedV3SyncAuthorityMetadata: each project's authority, its head unknown.
SeedAuthorities(projects) == {[project |-> p.project, digest |-> p.digest, head |-> 0] : p \in projects}

\* ... and a staging terminal candidate has to be of that authority.
TerminalsMatch(d) ==
  \A c \in d.terminals, p \in d.projects :
    c.project = p.project /\ c.staging => c.digest = p.digest

\* Where rows tell the relay's position: projects through their authority, and
\* the authority candidates.
Sighting(relay, admin, gen, head, known) ==
  [relay |-> relay, admin |-> admin, gen |-> gen, head |-> head, known |-> known]

ProjectSightings(d) ==
  {Sighting(p.relay, p.admin, p.gen, 0, TRUE) : p \in d.projects}
    \cup {Sighting(x[1].relay, x[1].admin, x[1].gen, x[2].head, TRUE) :
            x \in {y \in d.projects \X d.authorities : y[1].project = y[2].project}}

CandidateSightings(d) ==
  {Sighting(c.relay, c.admin, c.gen, c.head, TRUE) : c \in d.candidates}

\* Rows about one relay have to name one administrator.
OneAdmin(S) == \A s, t \in S : s.relay = t.relay => s.admin = t.admin

\* Mutant: the watermark of a relay is that of its project.
SeedWatermarks_Projects(d) ==
  {Sighting(s.relay, s.admin, 0, Max({t.head : t \in {u \in ProjectSightings(d) : u.relay = s.relay}}),
            FALSE) : s \in ProjectSightings(d)}

\* collectV4SyncRelayWatermarkSeeds: the highest head seen of each relay; the
\* generation is not kept yet.
SeedWatermarks(d) ==
  LET S == ProjectSightings(d) \cup CandidateSightings(d) IN
  {Sighting(s.relay, s.admin, 0, Max({t.head : t \in {u \in S : u.relay = s.relay}}), FALSE) : s \in S}

\* collectV7SyncRelayWatermarkSeeds: the join of the watermarks and all that has
\* been seen since.  The floor of a relay with a watermark stays unknown.
JoinSightings(d) == d.watermarks \cup ProjectSightings(d) \cup CandidateSightings(d)
JoinWatermarks(d) ==
  LET S == JoinSightings(d)
      of(s) == {t \in S : t.relay = s.relay}
  IN  {Sighting(s.relay, s.admin, Max({t.gen : t \in of(s)}), Max({t.head : t \in of(s)}),
                \A t \in of(s) : t.known) : s \in S}

----------------------------------------------------------------------------
(* The steps, as functions of the rows; a step that refuses changes nothing. *)

Audit(v, d) ==
  CASE v = 1 -> HistoryIsWhole(d.facts)
    [] v = 3 -> TerminalsMatch(d)
    [] v = 4 -> OneAdmin(ProjectSightings(d) \cup CandidateSightings(d))
    [] v = 7 -> OneAdmin(JoinSightings(d))
    [] OTHER -> TRUE

\* migrateSchemaV1ToV2
V1ToV2(d) == [d EXCEPT !.heads = SeedHeads(d.facts)]

\* migrateSchemaV2ToV3: every inbox row is a sealed one.
V2ToV3(d) == [d EXCEPT !.inbox = {[arrival |-> i.arrival, kind |-> "sealed"] : i \in @}]

\* migrateSchemaV3ToV4
V3ToV4(d) == [d EXCEPT !.authorities = SeedAuthorities(d.projects)]

\* migrateSchemaV4ToV5
V4ToV5(d) == [d EXCEPT !.watermarks = SeedWatermarks(d)]

\* migrateSchemaV5ToV6: candidates get the role they had.
V5ToV6(d) == [d EXCEPT !.candidates = {[c EXCEPT !.role = "ordinary"] : c \in @}]

\* migrateSchemaV6ToV7: an attempt is named after its successor.
V6ToV7(d) == [d EXCEPT !.transitions = {[t EXCEPT !.attempt = t.successor] : t \in @}]

\* migrateSchemaV7ToV8
V7ToV8(d) == [d EXCEPT !.watermarks = JoinWatermarks(d)]

\* migrateSchemaV8ToV9: no tombstone has a digest yet.
V8ToV9(d) == [d EXCEPT !.tombstones = {[t EXCEPT !.digest = 0] : t \in @}]

\* migrateSchemaV9ToV10: an empty table.
V9ToV10(d) == [d EXCEPT !.prunes = {}]

\* migrateSchemaV10ToV11: candidates without an index are dropped.
V10ToV11(d) == [d EXCEPT !.prunes = {}]

StepOf(v, d) ==
  CASE v = 1 -> V1ToV2(d)
    [] v = 2 -> V2ToV3(d)
    [] v = 3 -> V3ToV4(d)
    [] v = 4 -> V4ToV5(d)
    [] v = 5 -> V5ToV6(d)
    [] v = 6 -> V6ToV7(d)
    [] v = 7 -> V7ToV8(d)
    [] v = 8 -> V8ToV9(d)
    [] v = 9 -> V9ToV10(d)
    [] v = 10 -> V10ToV11(d)

\* The database a step leaves behind.
Upgraded(x) ==
  [version |-> x.version + 1, row |-> x.version + 1, objects |-> ObjectsOf(x.version + 1),
   data |-> StepOf(x.version, x.data)]

\* A database that this build knows.
Known(x) == x.version \in 1 .. SchemaVersion /\ x.row = x.version /\ x.objects = ObjectsOf(x.version)

----------------------------------------------------------------------------
(* Open. *)

Go(o, at, from, saw) == opener' = [opener EXCEPT ![o] = [at |-> at, from |-> from, saw |-> saw]]

\* schemaIsEmpty
Inspect(o) ==
  /\ opener[o].at = "start"
  /\ Go(o, IF db.objects = {} THEN "empty" ELSE "migrate", 0, 0)
  /\ UNCHANGED <<origin, db>>

\* initializeSchemaIfEmpty: looked at again inside the transaction.
Initialize(o) ==
  /\ opener[o].at = "empty"
  /\ IF db.objects # {} THEN Go(o, "identity", SchemaVersion, SchemaVersion) /\ UNCHANGED db
     ELSE IF db.version # 0 THEN Go(o, "failed", 0, 0) /\ UNCHANGED db
     ELSE /\ db' = [db EXCEPT !.version = SchemaVersion, !.row = SchemaVersion,
                              !.objects = ObjectsOf(SchemaVersion)]
          /\ Go(o, "identity", SchemaVersion, SchemaVersion)
  /\ UNCHANGED origin

\* migrateSchema: the version decides what is next.
ReadVersion(o) ==
  /\ opener[o].at = "migrate"
  /\ Go(o, CASE db.version = SchemaVersion -> "identity"
             [] db.version \in 1 .. SchemaVersion - 1 -> "preflight"
             [] OTHER -> "failed", db.version, db.version)
  /\ UNCHANGED <<origin, db>>

\* validateMigrationPreflight: the version that the file has now.
Preflight(o) ==
  /\ opener[o].at = "preflight"
  /\ IF db.version \in opener[o].from .. SchemaVersion
       THEN Go(o, "identity", opener[o].from, db.version) ELSE Go(o, "failed", 0, 0)
  /\ UNCHANGED <<origin, db>>

\* validateSchemaVersion: the version once more and the identity row ...
ReadIdentity(o) ==
  /\ opener[o].at = "identity"
  /\ Go(o, IF db.version = opener[o].saw /\ db.row = opener[o].saw THEN "objects" ELSE "recheck",
        opener[o].from, opener[o].saw)
  /\ UNCHANGED <<origin, db>>

\* ... and then the objects.  Of the current version it is the last look; of an
\* earlier one it decides between the step and a version someone else has reached.
ReadObjects(o) ==
  /\ opener[o].at = "objects"
  /\ Go(o, IF db.objects # ObjectsOf(opener[o].saw) THEN "recheck"
           ELSE IF opener[o].from = SchemaVersion THEN "open"
           ELSE IF opener[o].from = opener[o].saw THEN "step"
           ELSE "migrate", opener[o].from, opener[o].saw)
  /\ UNCHANGED <<origin, db>>

\* Mutant: a failed look is final.
Recheck_Final(o) ==
  /\ opener[o].at = "recheck"
  /\ Go(o, "failed", 0, 0)
  /\ UNCHANGED <<origin, db>>

\* validateMigrationPreflight: a look that failed because the version moved
\* meanwhile is taken again; the last look of Open is not.
Recheck(o) ==
  /\ opener[o].at = "recheck"
  /\ IF opener[o].from # SchemaVersion /\ db.version # opener[o].saw
       THEN Go(o, "preflight", opener[o].from, 0) ELSE Go(o, "failed", 0, 0)
  /\ UNCHANGED <<origin, db>>

\* migrateSchemaV1ToV2 to migrateSchemaV10ToV11: the transaction.
Step(o) ==
  LET v == opener[o].from IN
  /\ opener[o].at = "step"
  /\ IF ~Known(db) THEN Go(o, "failed", 0, 0) /\ UNCHANGED db
     ELSE IF db.version > v THEN Go(o, "migrate", 0, 0) /\ UNCHANGED db
     ELSE IF ~Audit(v, db.data) THEN Go(o, "failed", 0, 0) /\ UNCHANGED db
     ELSE db' = Upgraded(db) /\ Go(o, "migrate", 0, 0)
  /\ UNCHANGED origin

\* A process dies; what it had not committed is gone.
Die(o) ==
  /\ opener[o].at \notin {"open", "failed", "dead"}
  /\ Go(o, "dead", 0, 0)
  /\ UNCHANGED <<origin, db>>

SchemaInit ==
  /\ origin \in Starts
  /\ db = origin
  /\ opener = [o \in Openers |-> [at |-> "start", from |-> 0, saw |-> 0]]

SchemaNext ==
  \E o \in Openers :
    \/ Inspect(o) \/ Initialize(o) \/ ReadVersion(o) \/ Preflight(o) \/ ReadIdentity(o)
    \/ ReadObjects(o) \/ Recheck(o) \/ Step(o) \/ Die(o)

SchemaSpec == SchemaInit /\ [][SchemaNext]_schemaVars

----------------------------------------------------------------------------
(* What opening promises. *)

\* Openers that race each other through the upgrades, or die in the middle of
\* them, do not make each other fail: one that is refused has found a database
\* that this build does not know, or rows that a step's audit refuses.
RefusesOnlyTheUnsound ==
  \A o \in Openers : opener[o].at = "failed" =>
    \/ ~Known(db) /\ db = origin
    \/ db.version < SchemaVersion /\ ~Audit(db.version, db.data)

\* A store that is open has the current schema and rows made of the ones found:
\* no fact is lost, the heads are the last facts, no relay's watermark is below a
\* head that any row had seen, and nothing is made up: digests of tombstones, prune
\* candidates and known floors come from no older version (receipts are not modelled).
MigrationKeeps ==
  (\E o \in Openers : opener[o].at = "open") =>
    LET was == origin.data
        is == db.data
        seen == ProjectSightings(was) \cup CandidateSightings(was) \cup was.watermarks
    IN  /\ Known(db) /\ db.version = SchemaVersion
        /\ is.facts = was.facts
        /\ {i.arrival : i \in is.inbox} = {i.arrival : i \in was.inbox}
        /\ origin.version = 1 => \A f \in is.facts : \E h \in is.heads : h.env = f.env /\ h.seq >= f.seq
        /\ origin.version \in 4 .. 7 =>
             \A s \in seen : \E w \in is.watermarks : w.relay = s.relay /\ w.head >= s.head
        /\ \A w \in is.watermarks :
             /\ \E s \in ProjectSightings(is) \cup CandidateSightings(is) \cup was.watermarks :
                  s.relay = w.relay /\ s.head = w.head
             /\ w.known /\ origin.version < 8 =>
                  origin.version > 4 /\ ~\E s \in was.watermarks : s.relay = w.relay
        /\ origin.version < 11 => is.prunes = {}
        /\ origin.version < 9 => \A t \in is.tombstones : t.digest = 0
=============================================================================
