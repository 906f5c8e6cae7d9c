--------------------------- MODULE StateRepairs ---------------------------
(* The one-time repairs of a project's database (internal/state): entities that   *)
(* lost their alias when the markdown was imported a second time                  *)
(* (alias_orphan_migration.go), journal entries of both imports                   *)
(* (journal_duplicate_migration.go), old lifecycle statuses                       *)
(* (lifecycle_status_migration.go). Each backs up, plans, writes a manifest of     *)
(* what it takes away, and has a rollback that reads the manifest.                *)
(*                                                                               *)
(* One table of entities stands for the five, and one kind of reference for each   *)
(* way a row is named by others: relationships, columns that may become NULL, and  *)
(* columns that may not. Times are numbers: 1 is in the window of the first import, *)
(* 3 and 4 in that of the second.                                                 *)
EXTENDS Naturals, Sequences, FiniteSets, FiniteSetsExt, SequencesExt, Tables

CONSTANT RepairPlans \* instances: first database, flags, processes, bounds

\* A project's tables: ids and the keys of deferrals are numbers, and there are finitely many.
IsTables(d) ==
  /\ d = [rows |-> d.rows, alias |-> d.alias, edges |-> d.edges, deferrals |-> d.deferrals,
          links |-> d.links, journal |-> d.journal, sources |-> d.sources, report |-> d.report]
  /\ d.rows = [k \in DOMAIN d.rows |-> d.rows[k]] /\ d.alias = [k \in DOMAIN d.alias |-> d.alias[k]]
  /\ d.deferrals = [k \in DOMAIN d.deferrals |-> d.deferrals[k]] /\ d.links = [k \in DOMAIN d.links |-> d.links[k]]
  /\ d.journal = [k \in DOMAIN d.journal |-> d.journal[k]]
  /\ IsFiniteSet(DOMAIN d.rows) /\ DOMAIN d.rows \subseteq Nat
  /\ IsFiniteSet(DOMAIN d.journal) /\ DOMAIN d.journal \subseteq Nat
  /\ DOMAIN d.deferrals \subseteq Nat

\* What SQLite's foreign keys guarantee of the first database, and of what others write.
ASSUME RepairPlansAssumption ==
  \A p \in RepairPlans :
    /\ IsTables(p.db)
    /\ \A k \in DOMAIN p.db.deferrals : p.db.deferrals[k] \in DOMAIN p.db.rows \cup DOMAIN p.db.journal
    /\ \A new \in p.creates : new[1] \in Nat
    /\ p.defers \subseteq Nat

VARIABLES
  repairPlan,
  db,           \* the project's tables
  manifests,    \* rollback manifests beside the backups, in the order written
  repairProc,   \* process -> what it is doing
  repairFaults  \* stops still to come

repairVars == <<repairPlan, db, manifests, repairProc, repairFaults>>

NoRow == 0
EmptyTable(row) == [k \in {} |-> row]

FirstImport(t) == t = 1
Reimport(t) == t \in {3, 4}

\* Legacy statuses and what they are called now.
Canonical(s) == IF s = "completed" THEN "done" ELSE s

---------------------------------------------------------------------------
(* What a row that has no alias is a copy of. *)

NamedBy(d, id) == {n \in DOMAIN d.alias : d.alias[n] = id}
AliasOrphanRows(d) == {id \in DOMAIN d.rows : NamedBy(d, id) = {}}
Holders(d) == DOMAIN d.rows \ AliasOrphanRows(d)

\* An alias is dead when it names no row and no relationship names what it names.
DeadAliases(d) == {n \in DOMAIN d.alias : d.alias[n] \notin DOMAIN d.rows /\ \A e \in d.edges : d.alias[n] \notin {e[1], e[2]}}

\* Its id is what an older id of the project makes of the holder's alias.
DerivationTwin(d, o) ==
  {h \in Holders(d) : /\ d.rows[o].bornAs \in NamedBy(d, h)
                      /\ d.rows[h].title = d.rows[o].title /\ d.rows[o].made < d.rows[h].made}

SourceKey(r) == <<r.title, r.path>>

\* Its source was recorded under an older id, and one holder has title and path.
SourceSaltTwin(d, o, pool) ==
  LET r == d.rows[o]
      same == {h \in Holders(d) : SourceKey(d.rows[h]) = SourceKey(r)}
  IN IF r.salted /\ Cardinality({x \in pool : SourceKey(d.rows[x]) = SourceKey(r)}) = 1 /\ Cardinality(same) = 1
     THEN {h \in same : Reimport(d.rows[h].made) /\ r.made < d.rows[h].made} ELSE {}

\* One orphan and one holder with the title; the bodies agree, or neither has one and
\* the orphan is of the first import.
ContentIdentityTwin(d, o, pool) ==
  LET r == d.rows[o]
      same == {h \in Holders(d) : d.rows[h].title = r.title}
  IN IF Cardinality({x \in pool : d.rows[x].title = r.title}) = 1 /\ Cardinality(same) = 1
     THEN {h \in same : /\ Reimport(d.rows[h].made) /\ r.made < d.rows[h].made
                        /\ d.rows[h].body = r.body /\ (r.body = "" => FirstImport(r.made))} ELSE {}

TwinOf(d, o, pool) ==
  LET proofs == <<DerivationTwin(d, o), SourceSaltTwin(d, o, pool), ContentIdentityTwin(d, o, pool)>>
      found == {i \in DOMAIN proofs : proofs[i] # {}}
  IN IF found = {} THEN NoRow ELSE CHOOSE h \in proofs[Min(found)] : TRUE

\* Rows an operator names are retired whatever is proved of them. Uniqueness is
\* among the rows that stay, so retiring one may prove another: again until none is.
ProvedAgain(d, retire, realias, found) ==
  LET orphans == AliasOrphanRows(d)
      pool == orphans \ (DOMAIN found \cup retire)
      twins == [o \in orphans \ (DOMAIN found \cup DOMAIN realias) |-> TwinOf(d, o, pool)]
  IN Over(found, [o \in {x \in DOMAIN twins : twins[x] # NoRow \/ x \in retire} |-> twins[o]])

ClassifyAliasOrphans(d, retire, realias) ==
  FoldLeft(LAMBDA found, k : ProvedAgain(d, retire, realias, found), EmptyTable(NoRow), [k \in 1..(Cardinality(AliasOrphanRows(d)) + 1) |-> k])

---------------------------------------------------------------------------
(* What a repair takes away goes into its manifest. *)

NoWork == [rows |-> EmptyTable(0), alias |-> EmptyTable(0), edges |-> {}, deferrals |-> EmptyTable(0), sources |-> {},
           journal |-> EmptyTable(0), unlinks |-> EmptyTable(0), repoints |-> EmptyTable(0), inserts |-> {}, statuses |-> EmptyTable(0), report |-> "none", retirements |-> {}]
HasWork(m) == m # NoWork

CollectDeadAliases(s) ==
  LET dead == DeadAliases(s.d)
  IN [d |-> [s.d EXCEPT !.alias = [n \in DOMAIN @ \ dead |-> @[n]]],
      m |-> [s.m EXCEPT !.alias = Over(@, [n \in dead |-> s.d.alias[n]])]]

\* Mutant: a row that named the retired one keeps naming it.
RepointOrDelete_Leaves(s, id, twin) == s

\* Columns that must name a row: to the twin, which only one row may name, else away.
RepointOrDelete(s, id, twin) ==
  LET mine == {k \in DOMAIN s.d.deferrals : s.d.deferrals[k] = id}
      free == twin # NoRow /\ \A k \in DOMAIN s.d.deferrals : s.d.deferrals[k] # twin
      moved == IF free /\ mine # {} THEN {Min(mine)} ELSE {}
  IN [d |-> [s.d EXCEPT !.deferrals = [k \in DOMAIN @ \ (mine \ moved) |-> IF k \in moved THEN twin ELSE @[k]]],
      m |-> [s.m EXCEPT !.deferrals = Over(@, [k \in mine \ moved |-> id]), !.repoints = Over(@, [k \in moved |-> id])]]

UnlinkReferences(s, id) ==
  LET mine == {k \in DOMAIN s.d.links : s.d.links[k] = id}
  IN [d |-> [s.d EXCEPT !.links = [k \in DOMAIN @ |-> IF k \in mine THEN NoRow ELSE @[k]]],
      m |-> [s.m EXCEPT !.unlinks = Over(@, [k \in mine |-> id])]]

\* A row goes with its body, with what names it, and with its source if no other has it.
RetireEntity(s, id, twin) ==
  LET edges == {e \in s.d.edges : id \in {e[1], e[2]}}
      apart == [d |-> [s.d EXCEPT !.edges = @ \ edges], m |-> [s.m EXCEPT !.edges = @ \cup edges]]
      t == UnlinkReferences(RepointOrDelete(apart, id, twin), id)
      row == s.d.rows[id]
      rows == [x \in DOMAIN s.d.rows \ {id} |-> s.d.rows[x]]
      alone == {row.src} \cap {x \in s.d.sources : \A y \in DOMAIN rows : rows[y].src # x}
  IN [d |-> [t.d EXCEPT !.rows = rows, !.sources = @ \ alone],
      m |-> [t.m EXCEPT !.rows = Upserted(@, id, row), !.sources = @ \cup alone, !.retirements = @ \cup {id}]]

Realias(s, id, name) ==
  [d |-> [s.d EXCEPT !.alias = Upserted(@, name, id)], m |-> [s.m EXCEPT !.inserts = @ \cup {name}]]

\* The report that could not be rendered is archived whatever else there is.
ArchiveMootReport(s) ==
  IF s.d.report \notin {"none", "archived"}
  THEN [d |-> [s.d EXCEPT !.report = "archived"], m |-> [s.m EXCEPT !.report = s.d.report]] ELSE s

RealiasTaken(d, realias) == \E o \in DOMAIN realias \cap AliasOrphanRows(d) : realias[o] \in DOMAIN d.alias /\ d.alias[realias[o]] # o

\* The repair, from what the tables are in its transaction.
ApplyAliasOrphanMigration(d, retire, realias) ==
  LET s0 == CollectDeadAliases([d |-> d, m |-> NoWork])
      found == ClassifyAliasOrphans(s0.d, retire, realias)
      s1 == FoldLeft(LAMBDA s, o : RetireEntity(s, o, found[o]), ArchiveMootReport(s0), Listed(DOMAIN found, <))
      s2 == FoldLeft(LAMBDA s, o : Realias(s, o, realias[o]), s1, Listed(DOMAIN realias \cap AliasOrphanRows(s0.d), <))
  IN CollectDeadAliases(s2)

---------------------------------------------------------------------------
(* Journal entries of both imports. *)

InBoth(d, key) == [l |-> {e \in DOMAIN d.journal : d.journal[e].key = key /\ FirstImport(d.journal[e].made)},
                   r |-> {e \in DOMAIN d.journal : d.journal[e].key = key /\ Reimport(d.journal[e].made)}]

\* One of each is a pair, and the first goes; with more, only those the operator names.
ClassifyJournalDuplicates(d, retire) ==
  LET keys == {k \in {d.journal[e].key : e \in DOMAIN d.journal} : InBoth(d, k).l # {} /\ InBoth(d, k).r # {}}
      pair(k) == Cardinality(InBoth(d, k).l) = 1 /\ Cardinality(InBoth(d, k).r) = 1
      paired == UNION {InBoth(d, k).l : k \in {x \in keys : pair(x)}}
      named == retire \cap UNION {InBoth(d, k).l \cup InBoth(d, k).r : k \in {x \in keys : ~pair(x)}}
  IN [e \in paired \cup named |-> IF e \in paired THEN CHOOSE t \in InBoth(d, d.journal[e].key).r : TRUE ELSE NoRow]

RetireJournalDuplicate(s, e, twin) ==
  LET t == RepointOrDelete(s, e, twin)
  IN [d |-> [t.d EXCEPT !.journal = [x \in DOMAIN @ \ {e} |-> @[x]]],
      m |-> [t.m EXCEPT !.journal = Upserted(@, e, s.d.journal[e]), !.retirements = @ \cup {e}]]

RetireJournalPairs(s, retire) ==
  LET found == ClassifyJournalDuplicates(s.d, retire)
  IN FoldLeft(LAMBDA t, e : RetireJournalDuplicate(t, e, found[e]), s, Listed(DOMAIN found, <))

\* Retiring one of several may leave a pair of one and one: again until none is left.
ApplyJournalDuplicateMigration(d, retire) ==
  FoldLeft(LAMBDA s, k : RetireJournalPairs(s, IF k = 1 THEN retire ELSE {}), [d |-> d, m |-> NoWork],
           [k \in 1..(Cardinality(DOMAIN d.journal) + 1) |-> k])

---------------------------------------------------------------------------
(* Rollback: what was inserted goes, statuses and rows come back over what is there, *)
(* then the references.                                                            *)

\* Mutant: columns that were pointed at the twin stay there.
RollBackManifest_KeepsTwins(d, m) ==
  [d EXCEPT !.alias = Over(m.alias, [n \in DOMAIN d.alias \ m.inserts |-> d.alias[n]]), !.rows = Over(m.rows, @),
            !.report = IF m.report # "none" THEN m.report ELSE @, !.edges = @ \cup m.edges, !.sources = @ \cup m.sources,
            !.journal = Over(m.journal, @), !.deferrals = Over(m.deferrals, @),
            !.links = [k \in DOMAIN @ |-> IF k \in DOMAIN m.unlinks THEN m.unlinks[k] ELSE @[k]]]

RollBackManifest(d, m) ==
  LET alias == [n \in DOMAIN d.alias \ m.inserts |-> d.alias[n]]
      \* a row comes back over every other that is unique with it
      deferrals == [k \in {x \in DOMAIN d.deferrals : \A y \in DOMAIN m.deferrals : m.deferrals[y] # d.deferrals[x]} |-> d.deferrals[k]]
  IN [d EXCEPT !.alias = Over(m.alias, alias), !.rows = [id \in DOMAIN m.rows \cup DOMAIN @ |->
                   IF id \in DOMAIN m.rows THEN m.rows[id] ELSE IF id \in DOMAIN m.statuses THEN [@[id] EXCEPT !.status = m.statuses[id]] ELSE @[id]],
               !.report = IF m.report # "none" THEN m.report ELSE @,
               !.edges = @ \cup m.edges, !.sources = @ \cup m.sources, !.journal = Over(m.journal, @),
               !.deferrals = LET all == Over(m.deferrals, deferrals) IN [k \in DOMAIN all |-> IF k \in DOMAIN m.repoints THEN m.repoints[k] ELSE all[k]],
               !.links = [k \in DOMAIN @ |-> IF k \in DOMAIN m.unlinks THEN m.unlinks[k] ELSE @[k]]]

---------------------------------------------------------------------------
(* Commands. *)

RepairIdle == [at |-> "idle"]
RepairAt(p, where) == repairProc[p].at = where
RepairDone(p) == repairProc' = [repairProc EXCEPT ![p] = RepairIdle]

\* Flags that match nothing and were not carried out before are refused.
Matched(c, retire, realias) ==
  LET orphans == IF c = "orphans" THEN AliasOrphanRows(db) ELSE DOMAIN ClassifyJournalDuplicates(db, retire)
      carried == (UNION {manifests[i].m.retirements : i \in DOMAIN manifests}) \ (DOMAIN db.rows \cup DOMAIN db.journal)
  IN /\ retire \subseteq orphans \cup carried
     /\ \A o \in DOMAIN realias : o \in orphans \/ (realias[o] \in DOMAIN db.alias /\ db.alias[realias[o]] = o)

\* Backup and plan; the plan of the statuses is what will be written.
PlanRepair(p, c, retire, realias) ==
  /\ RepairAt(p, "idle")
  /\ c # "statuses" => Matched(c, retire, realias)
  /\ repairProc' = [repairProc EXCEPT ![p] = [at |-> "planned", cmd |-> c, retire |-> retire, realias |-> realias,
                     statuses |-> [id \in {x \in DOMAIN db.rows : db.rows[x].status # Canonical(db.rows[x].status)} |-> db.rows[id].status]]]
  /\ UNCHANGED <<repairPlan, db, manifests, repairFaults>>

Applied(p) ==
  LET r == repairProc[p]
  IN IF r.cmd = "orphans" THEN ApplyAliasOrphanMigration(db, r.retire, r.realias) ELSE ApplyJournalDuplicateMigration(db, r.retire)

WithManifest(p, m, after) == Append(manifests, [by |-> repairProc[p].cmd, m |-> m, was |-> db, now |-> after])

\* Mutant: the manifest is written after the transaction.
ApplyRepair_RecordsLate(p) ==
  /\ RepairAt(p, "planned") /\ repairProc[p].cmd # "statuses"
  /\ db' = Applied(p).d
  /\ \/ manifests' = WithManifest(p, Applied(p).m, Applied(p).d) /\ UNCHANGED repairFaults
     \/ repairFaults.stops > 0 /\ repairFaults' = [repairFaults EXCEPT !.stops = @ - 1] /\ UNCHANGED manifests
  /\ RepairDone(p)
  /\ UNCHANGED repairPlan

\* The transaction; its manifest is on disk before it commits, so a stop in between
\* leaves a manifest of nothing.
ApplyRepair(p) ==
  /\ RepairAt(p, "planned") /\ repairProc[p].cmd # "statuses"
  /\ LET s == Applied(p) IN
     IF repairProc[p].cmd = "orphans" /\ RealiasTaken(CollectDeadAliases([d |-> db, m |-> NoWork]).d, repairProc[p].realias)
     THEN UNCHANGED <<db, manifests, repairFaults>>
     ELSE /\ manifests' = IF HasWork(s.m) THEN WithManifest(p, s.m, s.d) ELSE manifests
          /\ \/ db' = s.d /\ UNCHANGED repairFaults
             \/ repairFaults.stops > 0 /\ repairFaults' = [repairFaults EXCEPT !.stops = @ - 1] /\ UNCHANGED db
  /\ RepairDone(p)
  /\ UNCHANGED repairPlan

\* Statuses: the manifest of what the plan saw, then what it planned.
WriteStatusManifest(p) ==
  /\ RepairAt(p, "planned") /\ repairProc[p].cmd = "statuses"
  /\ LET m == [NoWork EXCEPT !.statuses = repairProc[p].statuses] IN
     IF HasWork(m) THEN manifests' = WithManifest(p, m, db) /\ repairProc' = [repairProc EXCEPT ![p].at = "recorded"]
     ELSE RepairDone(p) /\ UNCHANGED manifests
  /\ UNCHANGED <<repairPlan, db, repairFaults>>
ApplyStatuses(p) ==
  /\ RepairAt(p, "recorded")
  /\ db' = [db EXCEPT !.rows = [id \in DOMAIN @ |-> IF id \in DOMAIN repairProc[p].statuses
                                  THEN [@[id] EXCEPT !.status = Canonical(repairProc[p].statuses[id])] ELSE @[id]]]
  /\ RepairDone(p)
  /\ UNCHANGED <<repairPlan, manifests, repairFaults>>

RollBackRepair(p, i) ==
  /\ RepairAt(p, "idle") /\ repairPlan.rollbacks
  /\ db' = RollBackManifest(db, manifests[i].m)
  /\ UNCHANGED <<repairPlan, manifests, repairProc, repairFaults>>

\* Other commands meanwhile: an entity with the next free alias, a relationship taken
\* away, a spark deferred, a status.
CreateEntity(id, name) ==
  /\ id \notin DOMAIN db.rows /\ name \notin DOMAIN db.alias
  /\ \A i \in DOMAIN manifests : id \notin manifests[i].m.retirements
  /\ db' = [db EXCEPT !.rows = Upserted(@, id, [repairPlan.fresh EXCEPT !.src = id]), !.alias = Upserted(@, name, id), !.sources = @ \cup {id}]
  /\ UNCHANGED <<repairPlan, manifests, repairProc, repairFaults>>
Unrelate(e) ==
  /\ db' = [db EXCEPT !.edges = @ \ {e}]
  /\ UNCHANGED <<repairPlan, manifests, repairProc, repairFaults>>
Defer(k, id) ==
  /\ k \notin DOMAIN db.deferrals /\ \A x \in DOMAIN db.deferrals : db.deferrals[x] # id
  /\ db' = [db EXCEPT !.deferrals = Upserted(@, k, id)]
  /\ UNCHANGED <<repairPlan, manifests, repairProc, repairFaults>>
SetRowStatus(id) ==
  /\ db.rows[id].status # "archived"
  /\ db' = [db EXCEPT !.rows[id].status = "archived"]
  /\ UNCHANGED <<repairPlan, manifests, repairProc, repairFaults>>

RepairStep(p) ==
  \/ \E c \in repairPlan.cmds, retire \in repairPlan.retires, realias \in repairPlan.realiases : PlanRepair(p, c, retire, realias)
  \/ ApplyRepair(p)
  \/ WriteStatusManifest(p)
  \/ ApplyStatuses(p)
  \/ \E i \in DOMAIN manifests : RollBackRepair(p, i)

Others ==
  \/ \E new \in repairPlan.creates : CreateEntity(new[1], new[2])
  \/ \E e \in db.edges : Unrelate(e)
  \/ \E k \in repairPlan.defers, id \in DOMAIN db.rows \cup DOMAIN db.journal : Defer(k, id)
  \/ \E id \in DOMAIN db.rows : repairPlan.archives /\ SetRowStatus(id)

RepairInit ==
  /\ repairPlan \in RepairPlans
  /\ db = repairPlan.db
  /\ manifests = <<>>
  /\ repairProc = [p \in repairPlan.procs |-> RepairIdle]
  /\ repairFaults = [stops |-> repairPlan.stops]

RepairNext == \/ Len(manifests) < repairPlan.maxManifests /\ \E p \in repairPlan.procs : RepairStep(p)
              \/ repairPlan.others /\ Others

RepairSpec == RepairInit /\ [][RepairNext]_repairVars

---------------------------------------------------------------------------
(* Properties. *)

\* "No deletion is ever visible without its restore record": whatever was in the
\* tables when a repair ran, or is in a manifest's picture of them, is in the tables or
\* in a manifest, also when the process stopped around its commit.
NothingGoesUnrecorded ==
  \A id \in DOMAIN repairPlan.db.rows \cup DOMAIN repairPlan.db.journal :
    \/ id \in DOMAIN db.rows \cup DOMAIN db.journal
    \/ \E i \in DOMAIN manifests : id \in DOMAIN manifests[i].m.rows \cup DOMAIN manifests[i].m.journal

\* No retirement and no rollback, in any order, leaves a column that must name a row
\* naming none.
DeferralsNameRows == \A k \in DOMAIN db.deferrals : db.deferrals[k] \in DOMAIN db.rows \cup DOMAIN db.journal

\* Both of them: a repair loses no row without a record of it and leaves no column dangling.
RepairsLoseNothing == NothingGoesUnrecorded /\ DeferralsNameRows

\* A rollback with nothing in between is an undo: every table is what it was. The repair of
\* the statuses is left out, whose rollback restores the old words whatever the rows say now.
RollbackUndoes ==
  [][\A i \in DOMAIN manifests : (db = manifests[i].now /\ db' = RollBackManifest(db, manifests[i].m) /\ manifests' = manifests
                                   /\ repairProc' = repairProc /\ manifests[i].by # "statuses")
         => db' = manifests[i].was]_repairVars
=============================================================================
