------------------------ MODULE MCContinuityRecords ------------------------
(* Instances for TLC of ContinuityRecords, what two stores do with facts, and   *)
(* of ContinuitySchema, how a store's database is opened and migrated. They     *)
(* share no state, so a behaviour is one of one of them: `part' says which.      *)
EXTENDS ContinuityRecords, ContinuitySchema

VARIABLE part

TwoEnvs == <<"a", "b">>

SmallLimits == [l \in DOMAIN RootKind \cup {"focused"} |-> 1]

B(records, n, walls, twice, scopes, branches) ==
  [records |-> records, facts |-> n, walls |-> walls, twice |-> twice,
   scopes |-> scopes, branches |-> branches, registered |-> "project" \notin records]

RecordBounds ==
  {B({"idea"}, 4, {1, 3}, FALSE, {0}, {0}),
   B({"reference"}, 4, {1}, FALSE, {0}, {0}),
   B({"evidence", "decision"}, 4, {1}, FALSE, {0}, {0}),
   B({"decision"}, 5, {1}, FALSE, {0}, {0}),
   B({"spark", "idea", "reference"}, 4, {1}, FALSE, {0}, {0}),
   B({"journal"}, 3, {1}, FALSE, {0, 1}, {0, 1}),
   B({"journal", "finding"}, 4, {1}, FALSE, {0}, {0}),
   B({"finding"}, 3, {1, 3}, FALSE, {0, 1}, {0}),
   B({"exploration", "checkpoint", "wrap"}, 4, {1}, FALSE, {0}, {0}),
   B({"handoff"}, 3, {1}, FALSE, {0}, {0}),
   B({"idea"}, 4, {1, 3}, TRUE, {0}, {0}),
   B({"project", "spark"}, 3, {1, 3}, TRUE, {0}, {0})}

---------------------------------------------------------------------------
(* Openers of a database, and the databases they find. *)

TwoOpeners == {"p", "q"}

NoRows == [facts |-> {}, heads |-> {}, inbox |-> {}, projects |-> {}, authorities |-> {},
           terminals |-> {}, candidates |-> {}, watermarks |-> {}, transitions |-> {},
           tombstones |-> {}, prunes |-> {}]

At(v, rows) == [version |-> v, row |-> v, objects |-> ObjectsOf(v), data |-> rows]

SomeFacts == {[env |-> "a", seq |-> 1, time |-> 1], [env |-> "a", seq |-> 2, time |-> 2],
              [env |-> "b", seq |-> 1, time |-> 2]}

OneProject == {[project |-> 1, relay |-> "r", admin |-> "k", gen |-> 2, digest |-> 1]}

ACandidate(relay, admin, head) ==
  [relay |-> relay, admin |-> admin, gen |-> 3, head |-> head, role |-> "none"]

Synced == [NoRows EXCEPT !.facts = SomeFacts, !.heads = SeedHeads(SomeFacts), !.projects = OneProject,
                         !.inbox = {[arrival |-> 1, kind |-> "none"]},
                         !.tombstones = {[digest |-> 0]}]

Staged(c) == [Synced EXCEPT !.authorities = {[project |-> 1, digest |-> 1, head |-> 2]},
                            !.candidates = c,
                            !.transitions = {[attempt |-> 0, successor |-> 1]}]

SomeStarts ==
  {[version |-> 0, row |-> 0, objects |-> {}, data |-> NoRows],
   [version |-> 0, row |-> 0, objects |-> {"foreign"}, data |-> NoRows],
   [version |-> 7, row |-> 0, objects |-> {}, data |-> NoRows],
   [version |-> 5, row |-> 5, objects |-> ObjectsOf(4), data |-> NoRows],
   At(12, NoRows),
   At(1, [NoRows EXCEPT !.facts = SomeFacts]),
   At(1, [NoRows EXCEPT !.facts = {[env |-> "a", seq |-> 2, time |-> 1]}]),
   At(3, Synced),
   At(3, [Synced EXCEPT !.terminals = {[project |-> 1, staging |-> TRUE, digest |-> 2]}]),
   At(4, Staged({ACandidate("r", "k", 3), ACandidate("s", "k", 1)})),
   At(4, Staged({ACandidate("r", "l", 3)})),
   At(7, [Staged({ACandidate("s", "k", 1)}) EXCEPT !.watermarks = {Sighting("r", "k", 0, 5, FALSE)}]),
   At(8, Staged({ACandidate("s", "k", 1)})),
   At(10, [Staged({}) EXCEPT !.prunes = {1}]),
   At(11, [Staged({}) EXCEPT !.prunes = {1}])}

---------------------------------------------------------------------------

PartInit ==
  /\ part \in {"records", "schema"}
  /\ Init /\ (part # "records" => bound = CHOOSE b \in Bounds : TRUE)
  /\ SchemaInit /\ (part # "schema" => origin = CHOOSE d \in Starts : TRUE)

PartNext ==
  \/ part = "records" /\ Next /\ UNCHANGED <<part, schemaVars>>
  \/ part = "schema" /\ SchemaNext /\ UNCHANGED <<part, vars>>

StoresSpec == PartInit /\ [][PartNext]_<<part, vars, schemaVars>>
=============================================================================
