---------------------------- MODULE StateHome ----------------------------
(* Where a project's state lives (internal/state): the global database, the      *)
(* database older versions committed per project, and the commands that bring one      *)
(* into the other, upgrade, repair, back up and archive them (init,               *)
(* storage_home_migration.go, schema_upgrade.go, repair.go, backup.go,            *)
(* recovery.go), each a sequence of reads and transactions between which other     *)
(* processes of this and of older versions write.                                 *)
(*                                                                               *)
(* The content of a database is one project's journal: entries, the facts they are *)
(* folded from with their numbers, the search index and the origins. Two schemas   *)
(* stand for all: Old has no facts and no origins. A file that is there without     *)
(* a schema is Empty. The project keeps its path, and every legacy database has it. *)
EXTENDS Naturals, Sequences, FiniteSets, FiniteSetsExt, Tables

CONSTANT HomePlans \* instances: first databases, commands, processes, bounds

VARIABLES
  homePlan,  \* the instance
  global,    \* the global database
  legacy,    \* the project's old database
  backups,   \* backup files: path -> content
  restored,  \* the file a rehearsal restores to: [by, of]
  archived,  \* entries of the legacy database when it was archived
  committed,      \* entries that were committed to the global database
  homeProc,  \* process -> what it is doing
  homeFaults \* stops and foreign writes still to come

homeVars == <<homePlan, global, legacy, backups, restored, archived, committed, homeProc, homeFaults>>

Host == "host"         \* the environment of this machine
LegacyHost == "legacy" \* the one entries without facts are given

NoDatabase == [there |-> FALSE, ver |-> "empty", project |-> FALSE, rows |-> <<>>, facts |-> <<>>,
               clock |-> <<>>, origins |-> {}, index |-> <<>>]
EmptyFile == [NoDatabase EXCEPT !.there = TRUE]
Bootstrapped == [EmptyFile EXCEPT !.ver = "current"]

---------------------------------------------------------------------------
(* A database's content. *)

\* A table with a row put.
WithRow(table, key, row) == [k \in DOMAIN table \cup {key} |-> IF k = key THEN row ELSE table[k]]

\* nextFactClockTx: an environment without a clock starts at one.
NextSeq(clock, env) == IF env \in DOMAIN clock THEN clock[env] ELSE 1

Fold(d) == [id \in {d.facts[k].id : k \in DOMAIN d.facts} |->
              (CHOOSE k \in DOMAIN d.facts : d.facts[k].id = id)]

\* An entry, its fact, its index row and its origin are one transaction; the number
\* is taken from the clock, and a number that is taken refuses it.
CanLog(d, id) == d.there /\ d.project /\ d.ver # "empty" /\ id \notin DOMAIN d.rows
                 /\ (d.ver = "current" => <<Host, NextSeq(d.clock, Host)>> \notin DOMAIN d.facts)
Logged(d, id) ==
  LET n == NextSeq(d.clock, Host) IN
  IF d.ver = "old" THEN [d EXCEPT !.rows = WithRow(@, id, "new"), !.index = WithRow(@, id, "new")]
  ELSE [d EXCEPT !.rows = WithRow(@, id, "new"), !.index = WithRow(@, id, "new"), !.origins = @ \cup {id},
                 !.facts = WithRow(@, <<Host, n>>, [id |-> id, text |-> "new"]), !.clock = WithRow(@, Host, n + 1)]

\* Facts for the entries that have none, numbered in the order they were made.
Rank(ids, id) == Cardinality({x \in ids : x < id})
WithBackfilledFacts(d) ==
  LET bare == DOMAIN d.rows \ DOMAIN Fold(d)
      base == NextSeq(d.clock, LegacyHost)
      number(id) == <<LegacyHost, base + Rank(bare, id)>>
      owner(k) == CHOOSE id \in bare : number(id) = k
  IN [d EXCEPT !.facts = Over([k \in {number(id) : id \in bare} |-> [id |-> owner(k), text |-> d.rows[owner(k)]]], @),
               !.clock = IF bare = {} THEN @ ELSE WithRow(@, LegacyHost, base + Cardinality(bare))]

\* The migrations from Old: origins and facts of the entries there are.
Upgraded(d) == IF d.ver = "current" THEN d
               ELSE [WithBackfilledFacts(d) EXCEPT !.ver = "current", !.origins = DOMAIN d.rows]

SearchParity(d) == d.index = d.rows
FactParity(d) == /\ DOMAIN Fold(d) = DOMAIN d.rows
                 /\ \A id \in DOMAIN d.rows : d.facts[Fold(d)[id]].text = d.rows[id]
ProvenanceReady(d) == d.origins \subseteq DOMAIN d.rows

Searchable(d) == [d EXCEPT !.index = d.rows]

\* The journal is deleted and written again from its facts, and the index with it; a
\* project without facts is left alone.
FromFacts(d) ==
  IF d.facts = <<>> THEN d
  ELSE LET rows == [id \in DOMAIN Fold(d) |-> d.facts[Fold(d)[id]].text]
       IN [d EXCEPT !.rows = rows, !.index = rows]

\* The next number of an environment is free: its clock is past its facts.
NumbersFree(d) == \A k \in DOMAIN d.facts : k[2] < NextSeq(d.clock, k[1])

IsDatabase(d) ==
  d = [there |-> d.there, ver |-> d.ver, project |-> d.project, rows |-> d.rows, facts |-> d.facts,
       clock |-> d.clock, origins |-> d.origins, index |-> d.index]

\* A database as the program leaves it. Entries and facts have ids, facts numbers of
\* environments; there is nothing before there is a schema, and since facts are
\* written an entry has one, from its writer or from the migration.
DatabaseSound(d) ==
  /\ IsDatabase(d)
  /\ d.ver \in {"empty", "old", "current"}
  /\ DOMAIN d.rows \subseteq Nat /\ IsFiniteSet(DOMAIN d.rows)
  /\ DOMAIN Fold(d) \subseteq Nat /\ IsFiniteSet(DOMAIN Fold(d))
  /\ \A k \in DOMAIN d.facts : k = <<k[1], k[2]>> /\ k[2] \in Nat
  /\ \A e \in DOMAIN d.clock : d.clock[e] \in Nat
  /\ NumbersFree(d)
  /\ ~ d.there => d.ver = "empty"
  /\ d.ver = "empty" => DOMAIN d.rows = {}
  /\ d.ver = "current" => DOMAIN d.rows \subseteq DOMAIN Fold(d)

\* The databases that are found were written by the program.
ASSUME HomeAssumption ==
  \A x \in HomePlans : DatabaseSound(x.global) /\ DatabaseSound(x.legacy) /\ x.ids \subseteq Nat

---------------------------------------------------------------------------
(* Merging the legacy database into the global one: one transaction. *)

\* Rows of both must be the same; so must facts, and a number is one fact's.
MergeRefused(g, l) ==
  \/ \E id \in DOMAIN g.rows \cap DOMAIN l.rows : g.rows[id] # l.rows[id]
  \/ \E k \in DOMAIN g.facts, j \in DOMAIN l.facts :
        (k = j \/ g.facts[k].id = l.facts[j].id) /\ ~ (k = j /\ g.facts[k] = l.facts[j])

\* A clock never stays behind the facts that have been copied.
ReconcileClocks(clock, facts) ==
  LET envs == {k[1] : k \in DOMAIN facts}
      past(e) == 1 + Max({k[2] : k \in {x \in DOMAIN facts : x[1] = e}})
  IN [e \in DOMAIN clock \cup envs |->
        IF e \in envs THEN Max({past(e), NextSeq(clock, e)}) ELSE clock[e]]

CopyRows(g, l) ==
  LET facts == Over(g.facts, l.facts)
  IN [g EXCEPT !.rows = Over(@, l.rows), !.facts = facts,
               !.clock = ReconcileClocks(Over(g.clock, l.clock), facts),
               !.origins = @ \cup IF l.ver = "old" THEN DOMAIN l.rows ELSE l.origins]

Merged(g, l) == Searchable([WithBackfilledFacts(CopyRows(g, l)) EXCEPT !.project = TRUE])

---------------------------------------------------------------------------
(* Commands. *)

HomeAt(p, where) == homeProc[p].at = where
HomeIdle == [at |-> "idle"]
HomeDone(p) == homeProc' = [homeProc EXCEPT ![p] = HomeIdle]
HomeGo(p, where) == homeProc' = [homeProc EXCEPT ![p].at = where]

\* PreviewStorageHomeMigration.
StorageHomeAction ==
  IF global.there
  THEN IF legacy.there /\ ~global.project THEN "merge" ELSE "already"
  ELSE IF legacy.there THEN "copy" ELSE "none"

BeginCommand(p, c) ==
  /\ HomeAt(p, "idle")
  /\ \/ c \in {"log", "log-old", "init", "upgrade", "search", "facts", "backup", "rehearse"} /\ homeProc' = [homeProc EXCEPT ![p] = [at |-> c, saw |-> NoDatabase]]
     \/ c = "migrate" /\ homeProc' = [homeProc EXCEPT ![p] = [at |-> StorageHomeAction, saw |-> NoDatabase]]
     \/ /\ c = "archive" /\ legacy.there
        /\ StorageHomeAction = "already" /\ global.ver = "current"
        /\ homeProc' = [homeProc EXCEPT ![p] = [at |-> "archive", saw |-> NoDatabase]]
  /\ UNCHANGED <<homePlan, global, legacy, backups, restored, archived, committed, homeFaults>>

\* A migration that has nothing to do.
NothingToMigrate(p) ==
  /\ homeProc[p].at \in {"already", "none"} /\ HomeDone(p)
  /\ UNCHANGED <<homePlan, global, legacy, backups, restored, archived, committed, homeFaults>>

\* A journal entry is written by this version, or by one that still uses the old place.
LogEntry(p, id) ==
  /\ \/ /\ HomeAt(p, "log")
        /\ IF CanLog(global, id) THEN global' = Logged(global, id) /\ committed' = committed \cup {id} ELSE UNCHANGED <<global, committed>>
        /\ UNCHANGED legacy
     \/ /\ HomeAt(p, "log-old")
        /\ legacy' = IF CanLog(legacy, id) THEN Logged(legacy, id) ELSE legacy
        /\ UNCHANGED <<global, committed>>
  /\ HomeDone(p)
  /\ UNCHANGED <<homePlan, backups, restored, archived, homeFaults>>

\* Initialize: opening makes the file, a transaction makes the schema if there is
\* nothing, another registers the project.
OpenStore(p) ==
  /\ HomeAt(p, "init")
  /\ global' = IF global.there THEN global ELSE EmptyFile
  /\ HomeGo(p, "bootstrap")
  /\ UNCHANGED <<homePlan, legacy, backups, restored, archived, committed, homeFaults>>
BootstrapIfEmpty(p) ==
  /\ HomeAt(p, "bootstrap")
  /\ global' = IF global.ver = "empty" THEN Bootstrapped ELSE global
  /\ IF global.ver = "old" THEN HomeDone(p) ELSE HomeGo(p, "register")
  /\ UNCHANGED <<homePlan, legacy, backups, restored, archived, committed, homeFaults>>
UpsertProject(p) ==
  /\ HomeAt(p, "register")
  /\ global' = [global EXCEPT !.project = TRUE]
  /\ HomeDone(p)
  /\ UNCHANGED <<homePlan, legacy, backups, restored, archived, committed, homeFaults>>

\* The legacy database is copied, upgraded and verified beside the place it goes to.
StageCopy(p) ==
  LET staged == Searchable([Upgraded(legacy) EXCEPT !.project = TRUE]) IN
  /\ HomeAt(p, "copy")
  /\ IF legacy.there /\ ProvenanceReady(staged)
     THEN homeProc' = [homeProc EXCEPT ![p] = [at |-> "publish", saw |-> staged]]
     ELSE HomeDone(p)
  /\ UNCHANGED <<homePlan, global, legacy, backups, restored, archived, committed, homeFaults>>

\* Mutant: the staged copy replaces what is there.
PublishStaging_Rename(p) ==
  /\ HomeAt(p, "publish")
  /\ global' = homeProc[p].saw /\ committed' = committed \cup DOMAIN homeProc[p].saw.rows
  /\ HomeDone(p)
  /\ UNCHANGED <<homePlan, legacy, backups, restored, archived, homeFaults>>

\* The staged copy is linked to its place, unless another database got there first.
PublishStaging(p) ==
  /\ HomeAt(p, "publish")
  /\ IF global.there THEN UNCHANGED <<global, committed>>
     ELSE global' = homeProc[p].saw /\ committed' = committed \cup DOMAIN homeProc[p].saw.rows
  /\ HomeDone(p)
  /\ UNCHANGED <<homePlan, legacy, backups, restored, archived, homeFaults>>

MergeProjectDatabase(p) ==
  /\ HomeAt(p, "merge")
  /\ IF global.ver # "current" \/ ~legacy.there \/ MergeRefused(global, legacy) THEN UNCHANGED <<global, committed>>
     ELSE global' = Merged(global, legacy) /\ committed' = committed \cup DOMAIN legacy.rows
  /\ HomeDone(p)
  /\ UNCHANGED <<homePlan, legacy, backups, restored, archived, homeFaults>>

\* The files of the old database are moved away.
ArchiveLegacyProjectDatabase(p) ==
  /\ HomeAt(p, "archive")
  /\ archived' = archived \cup DOMAIN legacy.rows
  /\ legacy' = NoDatabase
  /\ HomeDone(p)
  /\ UNCHANGED <<homePlan, global, backups, restored, committed, homeFaults>>

\* classifySchemaUpgradeSource: a sound database behind the schema, with its index.
UpgradeSource(d) == d.ver = "old" /\ d.project /\ SearchParity(d)

\* A backup gets a name of its own; what it holds must be what was classified.
BackupPath == 1 + Cardinality(DOMAIN backups)
CreateSchemaUpgradeBackup(p) ==
  /\ HomeAt(p, "upgrade")
  /\ IF UpgradeSource(global)
     THEN backups' = WithRow(backups, BackupPath, global) /\ homeProc' = [homeProc EXCEPT ![p] = [at |-> "revalidate", saw |-> global]]
     ELSE HomeDone(p) /\ UNCHANGED backups
  /\ UNCHANGED <<homePlan, global, legacy, restored, archived, committed, homeFaults>>
RevalidateUpgradeSource(p) ==
  /\ HomeAt(p, "revalidate")
  /\ IF global = homeProc[p].saw THEN HomeGo(p, "apply") ELSE HomeDone(p)
  /\ UNCHANGED <<homePlan, global, legacy, backups, restored, archived, committed, homeFaults>>

\* The transaction applies what its ledger lacks, to what is there by then.
ApplySchemaUpgradeMigrations(p) ==
  /\ HomeAt(p, "apply")
  /\ global' = Upgraded(global)
  /\ HomeDone(p)
  /\ UNCHANGED <<homePlan, legacy, backups, restored, archived, committed, homeFaults>>

\* A repair holds the write lock from its inspection to its commit; the backup is made
\* by another connection and must show the same damage.
RepairJournalSearch(p) ==
  /\ HomeAt(p, "search")
  /\ IF global.ver = "current" /\ global.project /\ ~SearchParity(global)
     THEN global' = Searchable(global) /\ backups' = WithRow(backups, BackupPath, global)
     ELSE UNCHANGED <<global, backups>>
  /\ HomeDone(p)
  /\ UNCHANGED <<homePlan, legacy, restored, archived, committed, homeFaults>>
RepairJournalFacts(p) ==
  /\ HomeAt(p, "facts")
  /\ IF global.ver = "current" /\ ~FactParity(global) /\ FactParity(FromFacts(global))
     THEN global' = FromFacts(global) /\ backups' = WithRow(backups, BackupPath, global)
     ELSE UNCHANGED <<global, backups>>
  /\ HomeDone(p)
  /\ UNCHANGED <<homePlan, legacy, restored, archived, committed, homeFaults>>

BackupState(p) ==
  /\ HomeAt(p, "backup")
  /\ backups' = IF global.ver = "current" /\ global.project THEN WithRow(backups, BackupPath, global) ELSE backups
  /\ HomeDone(p)
  /\ UNCHANGED <<homePlan, global, legacy, restored, archived, committed, homeFaults>>

---------------------------------------------------------------------------
(* A rehearsal restores a backup to a new file and proves it equal. *)

NoFile == [by |-> "nobody", of |-> NoDatabase]

RecoveryReady(d) == d.ver = "current" /\ SearchParity(d) /\ ProvenanceReady(d)

\* validateRestoreDestination, and the exclusive creation of the target.
CreateRestore(p, b) ==
  /\ HomeAt(p, "rehearse")
  /\ IF RecoveryReady(backups[b]) /\ restored = NoFile
     THEN restored' = [by |-> p, of |-> EmptyFile] /\ homeProc' = [homeProc EXCEPT ![p] = [at |-> "restore", saw |-> backups[b]]]
     ELSE HomeDone(p) /\ UNCHANGED restored
  /\ UNCHANGED <<homePlan, global, legacy, backups, archived, committed, homeFaults>>
\* The bytes go through the open file, whatever its name stands for by now.
CopyRestoreBytes(p) ==
  /\ HomeAt(p, "restore")
  /\ restored' = IF restored.by = p THEN [restored EXCEPT !.of = homeProc[p].saw] ELSE restored
  /\ HomeGo(p, "verify")
  /\ UNCHANGED <<homePlan, global, legacy, backups, archived, committed, homeFaults>>

\* Only a file that is still its own is removed.
CleanupOwnedPath(p) == restored' = IF restored.by = p THEN NoFile ELSE restored

\* Checksums and rows of the target and of its source; a copy that differs goes.
VerifyRestore(p) ==
  /\ HomeAt(p, "verify")
  /\ IF restored.by = p /\ restored.of = homeProc[p].saw
     THEN HomeGo(p, "certify") /\ UNCHANGED restored
     ELSE CleanupOwnedPath(p) /\ HomeDone(p)
  /\ UNCHANGED <<homePlan, global, legacy, backups, archived, committed, homeFaults>>

\* The last check is of the file's identity and checksum once more.
CertifyRestore(p) ==
  /\ HomeAt(p, "certify")
  /\ IF restored.by = p /\ restored.of = homeProc[p].saw THEN UNCHANGED restored ELSE CleanupOwnedPath(p)
  /\ HomeDone(p)
  /\ UNCHANGED <<homePlan, global, legacy, backups, archived, committed, homeFaults>>

\* Somebody else writes the target, or puts a file of his own in its place.
DisturbRestore ==
  /\ homeFaults.writes > 0 /\ restored # NoFile
  /\ homeFaults' = [homeFaults EXCEPT !.writes = @ - 1]
  /\ \/ restored' = [restored EXCEPT !.of = EmptyFile]
     \/ restored' = [by |-> "somebody", of |-> EmptyFile]
  /\ UNCHANGED <<homePlan, global, legacy, backups, archived, committed, homeProc>>

\* A stop between two steps leaves what was committed, and the temporary file.
HomeProcessStops(p) ==
  /\ ~HomeAt(p, "idle") /\ homeFaults.stops > 0
  /\ homeFaults' = [homeFaults EXCEPT !.stops = @ - 1]
  /\ HomeDone(p)
  /\ UNCHANGED <<homePlan, global, legacy, backups, restored, archived, committed>>

HomeStep(p) ==
  \/ \E c \in homePlan.cmds : BeginCommand(p, c)
  \/ NothingToMigrate(p)
  \/ \E id \in homePlan.ids \ (DOMAIN global.rows \cup DOMAIN legacy.rows \cup archived) : LogEntry(p, id)
  \/ OpenStore(p)
  \/ BootstrapIfEmpty(p)
  \/ UpsertProject(p)
  \/ StageCopy(p)
  \/ PublishStaging(p)
  \/ MergeProjectDatabase(p)
  \/ ArchiveLegacyProjectDatabase(p)
  \/ CreateSchemaUpgradeBackup(p)
  \/ RevalidateUpgradeSource(p)
  \/ ApplySchemaUpgradeMigrations(p)
  \/ Cardinality(DOMAIN backups) < homePlan.maxBackups /\ (RepairJournalSearch(p) \/ RepairJournalFacts(p) \/ BackupState(p))
  \/ \E b \in DOMAIN backups : CreateRestore(p, b)
  \/ CopyRestoreBytes(p)
  \/ VerifyRestore(p)
  \/ CertifyRestore(p)
  \/ HomeProcessStops(p)

HomeInit ==
  /\ homePlan \in HomePlans
  /\ global = homePlan.global /\ legacy = homePlan.legacy
  /\ backups = <<>> /\ restored = NoFile /\ archived = {}
  /\ committed = DOMAIN homePlan.global.rows
  /\ homeProc = [p \in homePlan.procs |-> HomeIdle]
  /\ homeFaults = [stops |-> homePlan.stops, writes |-> homePlan.writes]

HomeNext == \/ \E p \in homePlan.procs : HomeStep(p)
            \/ DisturbRestore

HomeSpec == HomeInit /\ [][HomeNext]_homeVars

---------------------------------------------------------------------------
(* Properties. *)

\* Nothing that was committed to the global database or brought into it is lost
\* again: not by a migration that loses the race for the place, not by an upgrade
\* with writers around it, not by a rebuild of the journal from its facts.
CommittedEntriesStay == committed \subseteq DOMAIN global.rows

\* Logging keeps working: the next number of this machine is free, however facts of
\* the same machine have come into one database from two.
NumbersAreFree == NumbersFree(global)

\* Both of them: what the global database has taken in stays in it, and it goes on
\* taking in more.
EntriesAreKept == CommittedEntriesStay /\ NumbersAreFree

=============================================================================
