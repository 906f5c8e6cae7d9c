# Loaf: TLA+ models of its state, and what is checked and proved of them

Loaf is a command-line tool that keeps an agent's working memory (journal, sparks, ideas, tasks, issues, handoffs,
releases, scratchpad channels) in one SQLite database per machine, installs its skills and hooks into the harnesses
of that machine, and shares what has to be shared as grow-only *facts* through a self-hosted relay. A second
generation of all this, `vnext`, is in the repository beside it. This directory specifies the parts of both that
keep state, model-checks them with TLC on small instances, and proves their main safety properties with TLAPS for
every value of the constants.

All paths below are relative to `src/`; `cli`, `state`, `sync`, `syncserver`, `auth`, `scratchpad` are packages of
`internal`, and `sqlite` is `vnext/continuity/sqlite`. `PROJECT.json` maps every definition that models code to its
lines, lists the hazards of the code with the properties that cover them, and names a mutation for every property.

## 1. Inventory

| Component | Code | State | Operations | Model |
|---|---|---|---|---|
| Fact store | `state/fact*.go` | tables `facts`, `fact_env_clocks` | append, receive | `FactClock`, `FactStore` |
| Sync engine | `sync`, `state/sync_hook.go` | outbound queue, arrival cursor | push, pull, gap report; refresh | `FactSync`; `CoreEvents` for the refresh of the core tables |
| Attach | `auth/provision.go`, `sync/probe.go` | the same database | receive the whole stream | `FactSync`, the probe only |
| Relay: facts | `syncserver/{store,server}.go` | `fact_blobs`, arrival numbers | push, pull, delete | `FactSync` |
| Relay: scratchpad channels | `syncserver/scratchpad_*.go` | numbered messages | publish, long poll, stream, prune | `RelayAccess` |
| Connection tokens, accounts | `syncserver/store.go`, `auth` | accounts, token rows, the admin's files | setup, link, list, revoke; check a request | `RelayAccess` |
| Core events | `state/event_fact*.go`, `spark`, `idea`, `release`, `handoff`, ... | seven read tables beside the facts | write row and fact, backfill, fold, rebuild, parity | `CoreEvents` |
| Scratchpad channels | `scratchpad` | a view folded from facts | message, claim, release, close | `Scratchpad` |
| Issues, work contracts | `state/issue*.go`, `work_contract*.go` | a forest of issues with events, criteria, claims | create, re-parent, archive, link, render, decide | `Issues` |
| Issue tracker | `state/{linear,issue_identity,issue_prefix,issue_bootstrap}.go` | identity row, names, mapping to a Linear team | mint, pull, push, reconcile, switch authority | `IssueTracker`, less releases and readiness |
| Tasks, specs, bundles, intents | `state/{task,spec,bundle,intent,issue_absorb}*.go` | rows, events, bodies, index, links, tags | create, change, delete, absorb | `Artifacts` |
| Installing on a machine | `cli/{install_target,build_manifest,harness_reconcile,install_codex_rules}.go` | shelf, artifacts, rule, manifests | install, upgrade, reconcile, roll back, dry run | `HostInstall`, less the rendering and the deprecation tables |
| Hooks | `cli/hook*.go`, `state/hook_enablement.go` | the harness's hook file, enablement rows, trust | reconcile, enable, disable | `HookReconcile` |
| Storage home, backups | `state/{storage_home_migration,schema_upgrade,backup,recovery,repair}.go` | global and old databases, backups | init, migrate, upgrade, archive, back up, rehearse, repair | `StateHome` |
| Repairs of a database | `state/{alias_orphan,lifecycle_status,journal_duplicate}_migration.go` | the project's rows, rollback manifests | plan, apply, roll back | `StateRepairs` |
| Issue worktrees | `cli/issue_worktree.go`, `issue_contract.go` | rows, branches, directories | start, stop | `IssueWorktrees` |
| Markdown tasks | `cli/cli.go` (`loaf task` without a database) | task files, `TASKS.json` | create, update, archive, refresh, import, push | `MarkdownTasks` |
| vNext continuity | `sqlite/{admission,append_*,snapshot_*,context,schema,store}.go` | facts and heads, the schema | append, merge, fold, context; open and upgrade | `ContinuityRecords`, `ContinuitySchema` |
| vNext sync | `sqlite/sync*.go` | inbox, outbox, receipts, cursors, binding | seal, stage, apply, promote, activate | `SyncStore`, abstractly `SharedLog` |
| vNext recovery | `vnext/sync/coordinator`, `sqlite/*recovery*`, `sqlite/terminal_*` | candidates, transition, inventory, terminal candidate | converge, register, download, promote, activate | `SyncRecovery` |
| vNext relay store | `vnext/sync/relay` | one channel: environments, arrivals, prunes | register, send, acknowledge, prune, inventory | `OpaqueRelay` |
| Attach gate, environment enrolment, project identity, Markdown import and export, credentials and envelopes, the command line itself, content and build scripts | | | | not modelled (section 7) |

### How they interact

Writers append facts to the local database in transactions of their own; `loaf sync` carries them to the relay and
back, and then rebuilds the read tables from them. `loaf attach` receives the whole stream once. The scratchpad and
the core tables are folds of facts, so what they show depends on which facts have arrived, not on when. Issues,
tasks, specs and intents are rows of the same database that do not travel; Linear is the other side of the issue
tracker. The commands that install, move, repair or back up the database and the host's files run beside all this,
in other processes and in other versions of Loaf, without a common lock. The relay's admin commands open the relay's
database file while its server is running.

In vNext every environment has a store of its own; facts are sealed into envelopes, numbered by a relay that cannot
read them, staged into an inbox and applied. A coordinator recovers an environment from its credential, following
the relay's membership list while others change it.

### What is hard here

* processes interleaving on one database without a lock: two sync passes, an attach and a writer; two migrations;
  two pulls from Linear; two openers that upgrade one store;
* values read in one transaction, or before a lock, and written in a later one: planned repairs, absorbed tasks,
  promoted ideas, the authority of a channel, a skill compared before it is swapped in;
* a stop between any two steps, and the command that is run again afterwards;
* answers of the relay that are lost, late or doubled, and a relay that moves on meanwhile (members, arrivals, prunes);
* numbers handed out as `MAX + 1`, cursors that others rewind, clocks that stand still or run ahead;
* a user who edits the same files.

`PROJECT.json` lists these as hazards, each at its line.

## 2. The modules

| Module | Models |
|---|---|
| `FactClock` | the hybrid logical clock: `compareHLC`, `advanceHLC` |
| `FactStore` | the stores of all devices, facts travelling in any order: the abstract specification of fact sync |
| `FactSync` | extends `FactStore` with queues, cursors, the relay, passes, attaches, interruptions and late requests |
| `RelayAccess` | accounts, tokens and scratchpad channels of the relay, requests served in several steps |
| `CoreEvents` | seven tables folded from facts on several machines |
| `Scratchpad` | channels folded from facts, agents on several machines |
| `Issues`, `IssueTracker`, `Artifacts` | the work a project keeps in its database |
| `HostInstall`, `HookReconcile`, `StateHome`, `StateRepairs`, `IssueWorktrees`, `MarkdownTasks` | what is kept on one machine, with stops and edits |
| `ContinuityRecords` | vNext: admission, the snapshot fold, contexts |
| `ContinuitySchema` | vNext: opening, validating and upgrading a store of any version |
| `SharedLog` | what vNext sync promises: numbered writers, one log, replicas that hold prefixes |
| `SyncStore` | vNext: the store of each environment between append and apply |
| `SyncRecovery` | vNext: recovery of one environment by several processes |
| `OpaqueRelay` | vNext: one channel of the relay |
| `Tables` | an INSERT into a table that may hold the key, and one row over another, for the modules of one machine and of a project |
| `ListFacts` | lemmas about numbers and lists: least members, counting up, a finite set in an order |
| `FactSyncProofs` (of `FactStore`, `FactSync` and `CoreEvents`), `RelayAccessProofs`, `OpaqueRelayProofs`, `SyncStoreProofs`, `SyncRecoveryProofs` (and of `StateRepairs` and `Scratchpad`), `RecordProofs` (of `ContinuitySchema`, `ContinuityRecords`, `Issues` and `IssueWorktrees`), `MachineProofs` (of `StateHome`, `HostInstall`, `HookReconcile` and `Artifacts`) | the theorems |
| `MCFactStore`, `MCFactSync`, `MCRelayAccess`, `MCOpaqueRelay`, `MCSyncStore`, `MCSyncRecovery`, `MCContinuityRecords` | instances for TLC |
| `MCWorkspace`, `MCMachine` | instances of several modules that share no state: a behaviour is one of one of them, and the variable `part` says which |

An action is a transaction, an autocommit statement, a request or a change of a file: what another process can see.
What a process has read and not yet written back is a variable of its own, so the steps of others come in between. A
conversion is modelled by what it does, payloads by what the code asks of them. Variables are named after tables and
files; each module's head says what is left out, and the comments beside an operator name the function it stands for.

A few of the correspondences that are not evident from names:

* `FactSync`: `pc`, `batch`, `toMark`, `seen`, `page` are the local variables of `pushPending`, `pullSinceCursor` and
  `ProbeRemote`. `late` holds requests whose client has gone; they may reach the relay at any later time. A push
  numbers its facts in any order, which allows more than the code and on which no property depends.
* `RelayAccess`: a request is a `Client` with the token check and the service as separate steps; `stream` and `poll`
  keep the cursor the handler keeps.
* `SyncStore`: `authority[e]` is what `ApplySyncBatch` asks of an authority and its surroundings: the certificates under
  the binding (`pins`, for `validateOrdinarySyncFrameAuthorityV2`), the membership kept beside the watermark (`floor`), and
  which candidates and transitions are under way (its gates). `members` and `pruned` are the relay's: an arrival whose
  ciphertext is gone is of another frame kind and can only be had through a terminal history. `held[e][p]` is what process `p` read (a fact being sealed, a page downloaded) before the transaction
  that uses it. Digests are the envelopes themselves: no two sealings give the same bytes.
* `SyncRecovery`: an authority is its generation and head; a process's local record has what its functions carry from
  one request to the next. The relay's moves (register, send, prune, retire) are actions of their own.
* `ContinuitySchema`: `db` is version, identity row, objects and the rows the upgrade steps read; `opener[o]` is what
  a process has seen so far. `ObjectsOf(v)` stands for the set of tables the validator of version `v` compares with.
* `Scratchpad`: a fact arrives alone, before or after the facts its environment wrote earlier, or never. An agent may run
  two commands at once.
* `CoreEvents`, `Issues`, `IssueTracker`, `Artifacts`, and the modules of `MCMachine`: one *plan* is chosen at the
  start; it names the commands in use, the first state and the bounds. Nothing else restricts a behaviour.

## 3. What TLC checks

Every run lists exactly the properties of its configuration; the counts are distinct states with two workers.

| Run | Instance | Shows | States |
|---|---|---|---|
| `store` | 2 devices of one host name, one with a second name; 4 facts, drift 1, 3 instants | `EnvStreamOrdered`, `GapsAreReal`, `OnlyNamesakesCollide` | 43 012 |
| `sync` | 2 devices of one name, two processes on the first and one on the second; 2 facts, batch limit 1, no pass cut short | `CursorSound`, `PushedIsOnRelay`, `AttachHoldsAll`, and `StoreSpec`: the passes implement the fact stores | 708 273 |
| `sync_live` | 2 devices with a process each, 2 facts, batches that fit, skew never met, one deletion or interruption | `PendingIsPushed`, `RelayedIsDelivered` | 193 926 |
| `relay_access` | 1 account, 1 connection name, 1 channel, 2 requests at a time, 2 messages, the prune command in use | `SkipsOnlyAfterPrune`, `RevocationSettles`, `StreamDelivers` | 34 638 |
| `opaque_relay` | 3 environments, 4 credentials, pages of one; three mixes of operations | `PrunesLoseNothing`, `InventoryIsOneSnapshot` | 30 762 |
| `sync_store` | 2 environments: two processes on each store; a chain of two facts in pages of two; a clock two units ahead with quarantine; an environment that comes late, to pruned arrivals; one that is retired and a store that is reinstalled; one that expires while candidates and transitions come and go | `NothingStagedIsRefused`, and `ImplementsSharedLog` | 479 387 |
| `recovery` | 2 processes, three mixes of membership events, arrivals, prunes and faults | `OneOutcome`, `ActivatesAtWatermark`, `HistoryIsExact` | 1 545 795 |
| `recovery_live` | 1 process, a fault, two mixes of moves of the relay | `Attaches` | 139 045 |
| `records` | `ContinuityRecords`: 2 environments, 12 mixes of record kinds, up to 5 facts; `ContinuitySchema`: 2 openers, 15 databases of all versions, sound, damaged and foreign | `SnapshotFolds`, `ContextIsClosed`, `DispositionStands`; `RefusesOnlyTheUnsound`, `MigrationKeeps` | 114 723 |
| `workspace` | `Issues` (7 plans), `IssueTracker` (7), `CoreEvents` (9), `Artifacts` (7) | `IssuesConsistent`, `OneIssuePerKey`, `TablesFollowFacts`, `AbsorbedOnce` | 939 044 |
| `machine` | `HostInstall` (7 plans), `HookReconcile` (3), `StateHome` (7), `StateRepairs` (4), `Scratchpad` (3), `IssueWorktrees` (3), `MarkdownTasks` (4) | `OwnWorkIsKept`, `InterruptedInstallsResume`, `ReconcileNeverDowngrades`; `HooksFollowTheUser`, `ForeignHooksStay`; `EntriesAreKept`; `RepairsLoseNothing`, `RollbackUndoes`; `AuthorsAreListed`; `StartedTreesExist`; `RefreshesAreTrue` | 783 398 |
| `core_rebuild` | the `CoreEvents` plans | violates `RebuildCannotFail` (section 4) | |

Each property is stated in words above its definition. What they amount to:

* **Facts.** Whatever passes race, a pull that starts at the stored cursor skips nothing, nothing is marked as sent that
  the relay has not had, no append meets the unique index and a receive meets it only for an environment that several
  devices write, streams stay ordered, a gap report names only what was really written, and a successful attach holds
  everything. What is queued and relayed arrives, also where a pass is cut short (`sync_live`; that the safety properties
  hold then as well is proved, the instance of `sync` has no room for it).
* **Relay.** A stream passes over a message only if the channel was pruned after the stream was opened; from some
  moment on a revoked token is served nothing but streams already open; messages beyond a cursor are delivered.
* **Read tables.** After a rebuild the tables are what the facts fold to. A message that is shown was introduced where it
  was written, and its author is on the roster as soon as that introduction is in the same store, in whatever order and
  with whatever gaps facts arrive.
* **Work records.** Issues stay a forest, their status is their last event, criteria are numbered, a Linear issue has
  one local issue through killed and racing pulls, a task is absorbed once.
* **The machine.** What the user wrote is not overwritten by an install, also where there is no manifest yet (only a skill
  that a version 1 manifest names is exempt), a background reconcile never takes a newer installation back, hook entries that are not Loaf's stay, hooks
  follow the user's choice, an interrupted install can be run again, no migration or merge loses a committed journal
  entry or leaves its numbering unusable, no repair deletes without a
  record and a rollback is an undo, started issues have their worktree, a quiet refresh mirrors the task files.
* **vNext.** No staged frame is refused for what it says or for who wrote it: a batch that is not applied waits for a newer
  authority, for a candidate or transition under way, or for a terminal history, and the protected state is always fit
  for a promotion; replicas implement one shared log, a prune takes away nothing
  that is still needed, an inventory read in pages is one snapshot, an attempt of a recovery ends once, activation
  happens only at the watermark, the recovered history is written once and exactly; merged histories always fold,
  contexts are closed, dispositions stand; openers do not make each other fail and upgrades keep the rows.

**Bounds.** `MaxNow`, `MaxDeletions`, `MaxInterruptions`, `MaxFaults`, `MaxMsg` are guards of their own actions.
Elsewhere an instance is chosen in the initial state from a set: `Bounds` (`OpaqueRelay`, `SyncStore`, `SyncRecovery`,
`ContinuityRecords`), `Starts` (`ContinuitySchema`), `Plans`, `TrackerPlans`, `CorePlans`, `ArtifactPlans`,
`InstallPlans`, `HookPlans`, `HomePlans`, `RepairPlans`, `PadPlans`, `TreePlans`, `TaskPlans`. A record of bounds says how many
facts, members, prunes, edits, stops and processes a behaviour may have, and the plans divide the commands into groups
that touch the same state, since all at once would be too large. Two facts give a partial page, a partial mark, a partly duplicate
batch and a taken number; two processes on one store give every race of two; one stop may fall anywhere. Three
environments are what an inventory needs to change on both sides of its cursor; two versions and a third process of the
older one are what installs and upgrades need. Two plans are narrower than the code: `IssueWorktrees` has one stopping process, and
`MarkdownTasks` deletes files by hand only with one process (section 5 says what happens otherwise). What is proved holds without any of these bounds.

Deadlock checking is off where an instance uses its bounds up. Symmetry is used for ids, nonces, credentials and processes that are
only compared, never in a run with liveness.

**Fairness.** `sync_live`: a pass that has begun goes on (weak), since its loop waits only for its own statements and
requests, and a request whose connection breaks is an interruption; a pass is started again and again (strong, since
an attach may come first): nothing in the code starts `loaf sync`, so this is an assumption about its users.
`relay_access`: a goroutine that can go on does, and a long poll ends at its deadline; clients, admins and prunes have
no fairness. `recovery_live`: a caller that was told to try again does, and a running process takes its next step;
the relay's moves and faults have no fairness and are finitely many.

**Mutants.** Every property of a passing run is violated by a named mutation of a definition that models code; the
mutations stand before the definitions they change.

## 4. Where the documents and the code part ways

`core_rebuild`: `state/event_fact_fold.go:594` says that rows whose issue is missing are skipped "so a remote fact
cannot fail the whole rebuild". The fold of releases inserts the members of a release through `insertReleaseMemberTx`,
which refuses an issue this machine does not have: after such a release has arrived, no rebuild succeeds.

## 5. What else came up while modelling

These are behaviours of the code the models have (or plainly exclude, where said); no run is spent on them.

*Facts and relay.* ADR-029 says the clock is advanced past the highest stamp on every receive; only clock rows that
exist are, so a device's first fact may be stamped before facts it has received. Facts appended inside a writer's own
transaction are never queued for a push, though ADR-029 has one chokepoint. A queue above the relay's batch limit is
refused whole, for ever. A fact refused for skew ends every later pull at the same place. A deleted blob has no
tombstone: a late or retried push brings it back. Any valid token prunes channels of any project. The sync client
sets no timeout.

*Core events.* Promoting an idea repeats the status it read before (`state/idea.go:463`), so a racing archive is undone
by the next rebuild. Capturing the same words on two machines fails or reopens a resolved spark after a sync. Release
and worktree facts for issues a machine lacks count as missing for good. `CoreEvents` assumes clocks that agree.

*Issues.* Cancelled or re-parented children still count in the readiness of a parent; an unarchived child of an
archived parent disappears from `issue tree`; replacing a contract's criteria drops every claim, a repeated render-out
too; exporting reads in two transactions; an archived issue may be set active and stay archived.

*Tracker.* A pull takes a local issue that was minted under the team's prefix for the Linear issue of that name; a
prefix rewritten between create and bind of a killed pull lets a second issue be made (section 6 proves that nothing
else does); `reconcile --take-tracker` on a
Linear issue in triage leaves the two unequal; minting is stuck after a switch from tracker to local under the same
prefix; a duplicate becomes cancelled through Linear.

*Artifacts.* Task events are stamped in whole seconds, absorption in nanoseconds, so an absorption may sort before
what preceded it (`AbsorbedOnce` exempts the history of tasks for that reason). Dismiss, reopen, dismiss records one event. A task absorbed, reopened,
absorbed and reopened again is open and can never be absorbed. `tag show` fails on a member deleted in a race.

*Installing.* The agents folders of Cursor and OpenCode are wiped and refilled, human content included. A skill
published just before a crash is in conflict for ever (`InterruptedInstallsResume` says exactly when). A retirement of
the Codex rule cut between removing the block and forgetting it makes every later run refuse. A dry run misses a
removed guidance block.

*Hooks.* A lock file left by a crash blocks every later reconcile until it is deleted by hand, and a release removes
another process's lock. A user who removed every Loaf entry before there was a manifest is seen as a new install.

*Home and repairs.* `loaf state init` creates the global database beside an unmigrated legacy one; the migration then
reports it as migrated and an archive retires entries that were never moved. A migration that loses the publish race
reports success though its copy is discarded. The lifecycle-status migration plans outside its transaction and
overwrites a status changed since. A rehearsed restore reports success after a last comparison; what
another program does to the target after it goes unseen, and no property speaks of it. A rollback takes an alias back from an entity created with it meanwhile. Retiring a
duplicate journal entry deletes the fact on this machine only.

*Scratchpad.* A message that loses the race with a close is kept and never shown; a resource claimed again after a
release is never shown as claimed; claims are not exclusive.

*Worktrees and task files.* Two stops of one issue at once can remove a worktree started in between (the plans have
one stopping process). A start or stop killed between row and directory leaves a worktree neither command handles.
Task commands write a stale index back whole; two creates at once take one number; an update racing an archive
recreates the file, and the archived one wins on the next refresh. A hand-deleted file and a stale creator can let a
refresh drop a task (deletes only with one process in the plans).

*vNext.* After a disposition has been merged with a later concurrent revision, admission takes further facts of a
record whose snapshot is terminal (`sqlite/admission.go:225`). Where two stores minted one subject the fold keeps
the least, while admission refuses the subject. Two decisions can supersede each other after a merge. A retained
binding the relay has passed makes every retry fail and the credential cannot be prepared again; `Attaches` is
therefore stated from the moment the relay rests.

*Journal (not modelled).* A refresh after a sync rewrites row numbers, so context cursors held across it mean other
rows; a deferral key used on one machine fails on another after a sync.

## 6. What is proved

The theorems hold for every value of the constants under the named assumptions of the modules (`StoreAssumption`,
`SyncAssumption`, `RelayAssumption`, `OpaqueRelayAssumption`, `SyncStoreAssumption`, `EnvsAssumption`, `BoundsAssumption`, `StartsAssumption`,
`CapturesAssumption`, `PlansAssumption`, `CorePlansAssumption`, `LimitsAssumption`, `RepairPlansAssumption`,
`PadPlansAssumption`, `HookPlansAssumption`, `HookEntriesAssumption`, `DeclinedAssumption`, `TreePlansAssumption`,
`HomeAssumption`, `InstallAssumption`, `PlacesAssumption`, `TrackerPlansAssumption`), which TLC evaluates in the runs. Most are types of constants: the caps of a context are positive, a
hooks file is an array and a catalog finite, the rows of a project have their columns and nothing is started yet; Linear
has numbered the issues of a team from 1 on.
`RepairPlansAssumption` adds what foreign keys guarantee, that a deferral names a row. The others say more.
`StartsAssumption` says
that a database an opener may find and that passes this build's validation has rows its schema's checks admit
(`RowsFit`): the `CHECK` clauses and foreign keys of `sqlite/schema.go`. `HomeAssumption` says that the databases the
first command finds were written by the program (`DatabaseSound`): numbers below the clocks, no rows without a schema,
and, in the current schema, a fact for every entry. `CorePlansAssumption` says what the core tables of a database older than
facts hold: each row once and under its keys once, ids drawn at random and not drawn again, sparks and ideas with a
status, and events of sparks, ideas, handoffs and releases about rows that are there (no command deletes one).
`InstallAssumption` says that no digest a version ships or a
manifest records is that of the user's own work: two files with one digest are one file to the code and to the model.
`PlacesAssumption`, used for resuming only, says that every skill and artifact has a place, the rule and the block one
of their own, and that what the user has not touched is as the manifests say when a behaviour starts: nothing was cut
short before the first command.
`HookEntriesAssumption` and `DeclinedAssumption`, used for `HooksFollowTheUser` only, say of whom the property speaks. An
entry in a catalog's form names an executable on record: one of an executable nobody recorded is not recognised, stays
beside Loaf's own and runs a second time. What the user had taken out before there were records, he took out of an
installation its manifest tells of and of a generation the catalogs list, and he has not put it back by hand: without a
manifest row or a cohort an absence in the file is evidence of nothing (`hookAbsorptionCohort`), and absorption
disables nothing.

Each component has one inductive invariant, one lemma per action, and its theorems as consequences.

**`FactSyncProofs`, the stores** (`StoreInv`). `StoreTyped`, `EnvStreamsOrdered`, `ReportedGapsAreReal`, `AppendsNeverCollide`.
`ClockCovers` (a clock row is past every fact of its environment the device holds) is why an append never meets the
unique index, and `SeqUniqueInStore` with `HeldAtHome` why a receive meets it only for an environment of several devices;
`HeldAtHome` (a fact is held by a device that writes under its environment) carries the order of a stream from its
writer to everybody; `HomeContiguous` turns gaps elsewhere into real omissions; `IdsUnique` is needed because
receiving is decided by id. `AdvanceMovesOn` is the fact about `advanceHLC` all of it rests on.

**`FactSyncProofs`, the passes** (`SyncInv`). `SyncTyped`, `CursorsSound`, `PushedReachedRelay`, `RelayRowsStayDistinct`,
`AttachedHoldsAll` and the refinement `SyncImplementsStore`. The cursor a process is about to store has to be as good
as a stored one (`SeenSound`), through the loop over a page, where what precedes an item was received or is still in
the page (`PageSound`), and through pushes by others (`ArrivalsBelowNext`). `CarriedIsWritten` with `IdsUnique` makes
ignoring a known id harmless, and every receive a `Receive` of `FactStore`: the refinement step.

**`FactSyncProofs`, the tables** (`CoreInv`). `TablesStayInStep` (`TablesFollowFacts`), for any machines, commands and old
databases. A row and the fold of its subject agree because the fact written beside the row is the last its machine
holds (`LastFactDecides`, `RowWritten`), every other fold is untouched (`OtherFoldsStay`), and a row that changes its
status keeps the wording earlier facts gave it. The converse, no fact without a row, needs that ids are not drawn
twice (`IsDrawn`, `DrawnIsNew`) and that references, configuration and mappings share none, since one list is folded for
the three. The replay of an old database gets a case of its own (`MigrateKeeps`): a row that its replayed events do not
fold to is given a last fact, and no event follows it. A rebuild re-establishes everything from the facts (`RebuiltRows`).

**`RelayAccessProofs`** (`AccessInv`). `StreamsSkipNothing`, `StreamsKeepOrder`, `AdminIsNeverLockedOut`,
`NamesAreUsedOnce`. A channel's rows are numbered without gaps (`Numbered`), and what a stream has been written is,
prune by prune, the rows at or below its cursor; a prune makes numbers start again, which is why the invariant carries
the channel's epoch beside the cursor.

**`OpaqueRelayProofs`** (`RelayInv`, then `ChainInv`). `PrunesAreSafe`, `InventoriesAreSnapshots`, `ProducersAreChains`,
`AcknowledgementsAdvance`. An acknowledgement stored is never past what its sender applied (`AcksAreHonest`), prunes lie
within their membership, and pages read so far are exact for the snapshot they belong to unless the membership has
moved, in which case the next page is refused (`PagesAreExact`).

**`SyncStoreProofs`** (`ReplicaInv`). `CursorsStayExact`, `FactsAreSealedOnce`, `StoresHoldTheirShare`, and the
refinement `ReplicasImplementLog`. What a process holds in memory is either still next to be sealed or already sealed
(`HeldSound`), so writing it back late changes nothing or is refused; the outbox of a store extends what the relay has
of it (`OwnSealed`, `RelayChained`), so sending is an append of the shared log. A second invariant beside it,
`AdmitInv`, proves `StagedFramesAreAdmitted` (`NothingStagedIsRefused`). What admission compares is already so when an
envelope is staged: later facts of an environment have later clocks (`OwnOrdered`), an envelope continues the one
before it, in the outbox, on the relay and in every inventory (`RelayLinked`, `InventoryLinked`), a fact has one
envelope and an envelope its own nonce (`OneEnvelope`, `NoncesDistinct`), and a head is the last fact and envelope of
its environment in that store (`HeadsFit`). `ReplicaInv` alone does not give it: it says nothing of digests, nonces or
clocks. That no certificate is missing when a batch is applied under the present authority is `FloorInv`: the membership
retained beside the watermark names every producer of the arrivals it counts, and a binding that is present has that
membership. What remains are the refusals the property names (a stale binding, a candidate or transition under way,
a frame that needs the terminal history). Tombstones are written by a terminal promotion only, so the stores of this
module have none; `SyncRecovery` has that promotion.

**`SyncRecoveryProofs`** (`RecoveryInv`: what the store holds, `StoreSound`, and what each process may rely on at each
step, `LocalOK`). `AttemptsEndOnce`, `TransitionsAreCoherent`, `ActivationIsAtTheWatermark`, `HistoryIsWrittenOnce`. Every request
and every transaction is a step of its own, so `LocalOK` says for each of them which of the values read before are
still true; `HistorySound` ties candidates, chunks and inventory to the prefix of the relay's log.

**`SyncRecoveryProofs`, the repairs** (`RepairInv`: the tables are `Sound`, every manifest is `Recorded`, and what was there
at first is in the tables or in a manifest, `Tracked`). `RepairIsUndone`, `RepairsLoseNothingHolds` (`RepairsLoseNothing`),
`RollbackUndoesHolds` (`RollbackUndoes`), for any tables and any sets of orphans, twins and duplicates. A repair is
a fold over what its plan lists; `Undoable` says of each intermediate step, table by table, that tables and manifest
together give back what was there before, and induction over the list carries it through.

**`SyncRecoveryProofs`, the channels of agents** (`PadInv`). `PadInvHolds`, `AuthorsAreListedHolds` (`AuthorsAreListed`), for any
machines, agents and orders of arrival, with any gaps. What a store holds of an environment its machine has as well
(`PadStreams`), numbers name one fact and rise with the stamps (`PadNumbers`, `PadLast`), and a command that has got past its
introduction finds one in its own store. The roster shown is a fold over what is held: an author is on it when an
introduction is, with the latest stamp of theirs that is held.

**`RecordProofs`, opening** (`SchemaInv`: `DatabaseFits`, `OpenersFit`, `RowsKept`). `OnlyTheUnsoundIsRefused`,
`UpgradesKeepTheRows`, for any number of openers and any databases found. `OpenersFit` says what an opener that looks
outside of a transaction may believe: versions only grow, so a version it saw is a lower bound. `RowsKept` says what the steps up to a version have made of
the rows found, for each version on the way; the statements at the end are the ones for version 11.

**`RecordProofs`, exchanging** (`RecordInv`: `LogFits`, `StoresFit`, and `Founded` of every fact written).
`NoArrivalIsStuck` (`SnapshotFolds`), for any environments, clocks and records. The snapshot fails on a fact whose record
has no root below it in the order of the fold, so what has to be shown is that no set of facts a store may hold has
such a fact. A fact is founded when, among the facts that its writer held when it wrote it, its record has a root that
is earlier (`Founded`); a store holds with each fact the ones its writer held then, because it takes arrivals in the
order of the log and they come earlier in it (`StoresAreClosed`), and a set closed in that way folds (`ClosedFolds`). A new stamp is above everything its writer holds (`StampIsAbove`), or the root would come late.

**`RecordProofs`, reading** (on `RecordInv` and `StoreFolds`). `DispositionsStand` (`DispositionStands`): which dispositions
count is defined by recursion over what each supersedes, and is read as a least fixed point (`EligibleFits`); where a
record has one mint every fact of it counts (`AllCount`), so a record is closed by the greatest class of its facts
(`WinnerWins`, `ClosedByOne`), which facts that arrive later can only raise. `ContextsAreClosed` (`ContextIsClosed`): each
layer is a list without repetition, cut at its cap (`TieredFits`, `LayersKeepCaps`), references and evidence are chosen
among those of what is shown (`ReferencesHang`, `EvidenceHangs`), and a record in focus has no record ahead of it in its
layer (`FocusFirst`). `SnapshotHeadsAreAdmitted` (`HeadsAgree`, which no run checks): a fact is of the kinds its family has
(`KindsFit`), so the last fact of an active record is the head the snapshot shows.

**`RecordProofs`, the board** (`IssuesInv`). `BoardKeepsFitting`, `BoardIsConsistent` (`IssuesConsistent`), for any number of
issues, contracts and criteria. A walk up is the least set closed under taking the parent (`Lineage`), so that it ends
can be said without counting steps: every set of issues has one whose parent is outside (`NoCycles`). A move keeps
that because the set its check walks through is closed and does not contain the issue (`MoveStep`); that walks end and
that one started ancestor is the nearest follow from the same fact (`WalksEnd`, `LineageIsAnOrder`, `OneIsNearest`).
Criteria are numbered because what a command leaves over is counted (`CompactedWithout`, `ReplacedNumbered`), and a
re-homed decision stays off the board because an id with events is not drawn again (`OriginsFit`).

**`RecordProofs`, the worktrees** (`TreeInv`: `TreesFit`, `TreeRowsFit`, `StopFits` and `AddFits` of each process).
`StartedTreesStay` (`StartedTreesExist`), for any rows, names and number of starts, where one process stops issues
(`OneStops`; section 5 says what two can do). A directory that nobody deleted by hand is there and named by at most one
row (`Standing`). A stop that has read the row and one that has cleared it hold the directory in turn, and a start that
has added a directory and not yet recorded it is alone in knowing of it: git refuses the add otherwise. A branch this
start made has no work on it yet, so taking it back loses nothing.

**`RecordProofs`, the tracker** (`TrackerInv`, then `KeyInv` for one issue per key). `NamesStayWithIssues` (`NamesKeepTheirIssue`,
which no run checks) and `OneIssueWhileKeysAreSpared` (`OneIssuePerKey`), for any plans and commands. A command looks a
key up in one transaction and writes in another, while others adopt, rename and delete. What it may go on with is said
of the issue it took for its key (`MayTake`): the names of that issue have the number of the key, and it was made for the
key or for none. That stays true whatever others do, because an id that ever had a name is not drawn again and a name
never changes its number. That no second issue is made needs more: an issue made for a key can be found by the next
command, by its name or by the mapping row. Only a rename of the prefix can take the name away before there is a row,
or while another command is past its lookup, so the theorem asks of the renames that they do not (`RenamesSpareKeys`, which
every step of the plans of `workspace` satisfies); section 5 has what happens otherwise.

**`MachineProofs`, absorbing** (`AbsorbInv`). `AbsorbedSourcesRest`, `SourcesAreAbsorbedOnce` (`AbsorbedOnce`) and, beside
them, `SearchFindsTheBodies`. Planning and archiving are two transactions, and between them others plan for the same
source; what decides is in the row of the source, so the invariant says of each absorbed source that nothing has
touched since (`untouched`) that its row still refuses (`RestsAsAbsorbed`), and of a process between the two that what
it carries is a task or an intent. Intents rest because their last disposition is terminal, tasks because they are
archived, unless they are taken with their history.

**`MachineProofs`, the databases** (`HomeInv`). `DatabasesStaySound`, `TakenInStays` (`EntriesAreKept`), for any databases found and any number of processes. That a committed entry stays is not
inductive: a rebuild writes the journal from its facts, so every entry needs one (`DatabaseSound`), which a merge has
to preserve from two databases that numbered their facts independently (`CopySound`, with `ReconcileClocks`) and a
backfill by numbering what has none (`BackfilledSound`, on `RanksDistinct`). A copy that waits to be published is a
sound database (`HomePrepared`), and it is linked only to a place without a file.

**`MachineProofs`, installing** (`InstallInv`: `HandsOK`, `FilesOK`, `LockedOK`). `InstallersKnow` and `UsersWorkStays`
(`OwnWorkIsKept`), for any versions, processes and edits. The invariant says what a command knows between looking and
writing: a skill it staged was compared with a digest after it had been moved away, and the files of a snapshot were
compared before it was taken. What it reads of the manifests stays true because a process past `waiting` has the lock.
The user takes no lock, so nothing is claimed about what is in a place, only about what is taken from it. A skill without
a digest to compare it with is set aside and not taken unless a version 1 manifest names it (`OwnedBlindly`), with or
without a manifest. `ReconcilesRefuseToDowngrade` (`ReconcileNeverDowngrades`) rests on `AdoptInv`: a reconcile at work is of a
newer version than the marker, from its second look under the lock on, because whoever writes the marker has the lock.

**`MachineProofs`, resuming** (`ResumeInv`, beside `InstallInv`: `OneAtWork`, `ShelfReady`, `FilesReady`, `RuleReady`,
`InPlace`). `InterruptionsResume` (`InterruptedInstallsResume`). Here something is claimed about what is in a place, and
so it is claimed of what the user has not touched: such a file is absent, as its manifest says, or as shipped by a
version that was cut short; such a skill is no conflict, and is done with or still to be done, unless some command was
cut short; and a rollback writes back what was right when the snapshot was taken. The invariant is about one process,
the holder of the lock, and holds between commands because there is none. `RefusalsExplained` reads the refusals off it.

**`MachineProofs`, the hooks** (`HookInv`). `ForeignHooksStayHolds` (`ForeignHooksStay`), for any file,
catalog, versions and number of commands. Between lock and unlock a command has the lock. What it is about to
publish has the entries of the user of the file it was computed from, in their order (`ProjectionKeeps`: a projection
is a walk over the file in order with some places left out or replaced, and none of them the user's), and after the
comparison that file is the one on disk, until somebody edits it (`BodyOK`). `HooksFollow` (`HooksFollowTheUser`, from
`FollowInv`): a projection that leaves a file as it is has nothing to add, because the entry it would add last would be
recognised in the file itself, hence nothing to remove, hence every wanted hook has one entry, as the catalog has it, and
no other hook has any (`ProjectionTidies`). That holds on until the file or the wishes change. For what was taken out
before there were records the invariant follows a command from the manifest it read before the lock: as long as nothing
is absorbed that manifest is the first one, so the command that absorbs disables all of it in the transaction of the
marker, and no command writes a body before (`ReliesOn`). "Settled" is said of the copy of Loaf, version and executable,
that made the reconcile: another copy of the same version that records its own path finds the entries stale until it
reconciles.

The inductive invariants were checked by TLC on the instances above before they were proved.

**Only model-checked.** Liveness (`PendingIsPushed`, `RelayedIsDelivered`, `RevocationSettles`, `StreamDelivers`,
`Attaches`): outside the prover. `RefreshesAreTrue` holds of its plans and not of any plan (section 5: a creator with a
stale index while another process refreshes).

What a recursive definition or a fold computes is proved where a theorem needs it, by induction over the natural
numbers (`CountsUpTo`, from `LeastMember`) or over a finite set in order (`MembersInOrder`) in `ListFacts`: the induction
theorems of the library take an operator as a parameter and cannot be used.

## 7. Not modelled, and why

* Credentials and envelopes: a blob opens to the envelope it was sealed from, digests do not collide, signatures are
  not forged; strength and formats are no question for a model checker.
* The attach gate (a table of command names), project identity and environment enrolment (evidence read from files
  and git; production code writes no enrolment facts): no state that several steps share.
* Markdown import and export: one-shot reading of a tree of files.
* The journal's own table, deferrals and contexts; the refresh of the journal after a sync.
* Rendering per harness, deprecation tables, the push of releases to Linear, the publication of readiness.
* Argument parsing, output, knowledge-base and release checks, content, plugins and build scripts.
* String forms of stamps: SQL orders them as text with six digits of logical counter, the model as `compareHLC` does;
  they agree below a million appends in a millisecond. Several projects: every table is keyed by the project.

## 8. Plan

1. Proofs: the first half of `RefreshesAreTrue`.
2. A `Journal` module: entries, deferrals once per operation key, conversions to intents, contexts paged by cursor.
3. The Markdown import with its fingerprints; the state doctor; release runs.
