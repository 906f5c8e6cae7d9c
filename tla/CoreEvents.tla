----------------------------- MODULE CoreEvents -----------------------------
(***************************************************************************)
(* The mutable core of internal/state: sparks, ideas, handoffs, releases,  *)
(* external references, worktree bindings and verification receipts.  A    *)
(* command writes a table row and appends a fact in one transaction; a     *)
(* sync pass receives other machines' facts and then rebuilds every table  *)
(* from the facts (event_fact_fold.go).  How facts travel is in FactSync;  *)
(* here a received fact is one step, and a machine's next stamp is later   *)
(* than every stamp it holds (clocks that agree).                          *)
(***************************************************************************)
EXTENDS Naturals, FiniteSets, Sequences

CONSTANT
  CorePlans  \* machines, processes, commands, what exists where, and bounds

VARIABLES
  cplan,     \* the plan of this behaviour; never changes
  crows,     \* machine -> rows of the seven tables
  cnames,    \* machine -> names its aliases table holds, with their kind
  cfacts,    \* machine -> facts it holds
  cdirty,    \* machine -> facts were received that no rebuild has applied
  cpromote,  \* process -> the promotion it has read but not written
  cborn      \* the legacy database has been replayed into facts

coreVars == <<cplan, crows, cnames, cfacts, cdirty, cpromote, cborn>>

Blank == ""                      \* an empty column, or a field a fact leaves out
Idle == [on |-> FALSE, at |-> 0, kind |-> "none", subj |-> <<0, 0>>, val |-> Blank]
Legacy == 0                      \* legacyFactEnvID
LegacyHost == 1                  \* the machine whose database predates facts
CoreAllows(op) == op \in cplan.ops
Machines == cplan.machines
Settled(p) == ~cpromote[p].on
Ready(m) == m = LegacyHost => cborn

\* A row, and what a fact says of its subject.  A fact carries a mark when it
\* is a promotion.
Payload(kind, subj, key, val, members) ==
  [kind |-> kind, subj |-> subj, key |-> key, val |-> val, text |-> "text",
   members |-> members]
FactOf(row, env, stamp, promoted) ==
  [row |-> row, env |-> env, stamp |-> stamp, promoted |-> promoted]

\* newOpaqueStateID / stableMigrationID(kind, project, alias).
OpaqueID(m, stamp) == <<m, stamp>>
StableID(n) == <<0, n>>
IssueID(i) == <<9, i>>

MergedKinds == {"spark", "idea"}
UniqueKeys == {"release", "ref", "config", "mapping", "verification"}
RefKinds == {"ref", "config", "mapping"}      \* the subjects of foldRefFacts
CoreKinds == MergedKinds \cup UniqueKeys \cup {"handoff", "worktree"}
EventKinds == {"spark", "idea", "handoff", "release"}

\* A row of sparks or ideas: a status that is not empty, and no key or members.
MergedRow(r) ==
  /\ r.val # Blank
  /\ r = [kind |-> r.kind, subj |-> r.subj, key |-> Blank, val |-> r.val, text |-> r.text, members |-> {}]

\* UNIQUE (project, version), (project, backend, external kind, external id),
\* (project, provider, ref, kind): no second row under another id.
KeyTaken(R, r) == \E q \in R : q.kind = r.kind /\ q.key = r.key /\ q.subj # r.subj
Distinct(R) == \A r \in R : r.kind \in UniqueKeys => ~KeyTaken(R, r)

\* What a database that predates facts may hold: each row once; ids drawn at
\* random, which are not drawn again and not shared by references, configuration
\* and mappings; events of four kinds, each about a row that is there.
ASSUME CorePlansAssumption ==
  \A p \in CorePlans :
    /\ p.machines \subseteq Nat \ {Legacy} /\ LegacyHost \in p.machines
    /\ p.stamps \subseteq Nat
    /\ IsFiniteSet(p.rows) /\ Distinct(p.rows)
    /\ \A r \in p.rows :
         /\ r.kind \in CoreKinds
         /\ r.kind \in MergedKinds => MergedRow(r)
         /\ r.kind \in UniqueKeys => r.subj \notin p.machines \X p.stamps
         /\ \A q \in p.rows :
              /\ r.kind = q.kind /\ r.subj = q.subj => r = q
              /\ {r.kind, q.kind} \subseteq RefKinds /\ r.subj = q.subj => r.kind = q.kind
    /\ p.events \in Seq({p.events[i] : i \in DOMAIN p.events})
    /\ \A i \in DOMAIN p.events : \E r \in p.rows :
         /\ r.kind \in EventKinds
         /\ p.events[i] = Payload(r.kind, r.subj, Blank, p.events[i].val, {})

----------------------------------------------------------------------------
(* Folding facts into rows. *)

\* Mutation of ComesBefore: facts are folded in the order of their machines.
ComesBefore_ByMachine(f, g) ==
  \/ f.env < g.env
  \/ f.env = g.env /\ f.stamp < g.stamp

\* listCoreEventFacts: ORDER BY hlc, env_id, id.
ComesBefore(f, g) ==
  \/ f.stamp < g.stamp
  \/ f.stamp = g.stamp /\ f.env < g.env

Newest(F) == CHOOSE f \in F : \A g \in F \ {f} : ComesBefore(g, f)

\* applySparkEvent: the newest non-empty value of each field; a spark no fact
\* gives a status is open (upsertSparkProjectionTx).
applySparkEvent(subj, F) ==
  LET said == {f \in F : f.row.val # Blank}
      told == {f \in F : f.row.text # Blank}
  IN  [Payload("spark", subj, Blank, IF said = {} THEN "open" ELSE Newest(said).row.val, {})
         EXCEPT !.text = IF told = {} THEN Blank ELSE Newest(told).row.text]

\* applyIdeaEvent
applyIdeaEvent(subj, F) == [applySparkEvent(subj, F) EXCEPT !.kind = "idea"]

\* foldLatestBySubject
foldLatestBySubject(F) == Newest(F).row

Subjects(F) == {<<f.row.kind, f.row.subj>> : f \in F}
About(F, s) == {f \in F : <<f.row.kind, f.row.subj>> = s}

foldSparkFacts(F) ==
  {applySparkEvent(s[2], About(F, s)) : s \in {t \in Subjects(F) : t[1] = "spark"}}

foldIdeaFacts(F) ==
  {applyIdeaEvent(s[2], About(F, s)) : s \in {t \in Subjects(F) : t[1] = "idea"}}

FoldLatest(F, kinds) ==
  {foldLatestBySubject(About(F, s)) : s \in {t \in Subjects(F) : t[1] \in kinds}}

foldHandoffFacts(F) == FoldLatest(F, {"handoff"})
foldReleaseFacts(F) == FoldLatest(F, {"release"})
foldRefFacts(F) == FoldLatest(F, {"ref", "config", "mapping"})
foldWorktreeFacts(F) == FoldLatest(F, {"worktree"})
foldVerificationFacts(F) == FoldLatest(F, {"verification"})

----------------------------------------------------------------------------
(* Rebuilding the tables of a machine. *)

\* validateReleaseMemberExistsTx: an issue of this machine, or a release.
MemberExists(m, R, x) ==
  x \in cplan.issues[m] \/ \E r \in R : r.kind = "release" /\ r.subj = x

\* handoffs.task_id REFERENCES tasks(id).
TaskExists(m, task) == task = Blank \/ task \in cplan.tasks[m]

rebuildSparkProjection(F) == foldSparkFacts(F)
rebuildIdeaProjection(F) == foldIdeaFacts(F)

rebuildHandoffProjection(m, F) ==
  LET R == foldHandoffFacts(F)
  IN  [ok |-> \A r \in R : TaskExists(m, r.val), rows |-> R]

rebuildReleaseProjection(m, F) ==
  LET R == foldReleaseFacts(F)
  IN  [ok   |-> Distinct(R) /\ \A r \in R : \A x \in r.members : MemberExists(m, R, x),
       rows |-> R]

rebuildRefProjection(F) == [ok |-> Distinct(foldRefFacts(F)), rows |-> foldRefFacts(F)]

\* applyWorktreeProjectionTx: a binding whose issue is not here is skipped.
applyWorktreeProjection(m, R) == {r \in R : r.val # Blank /\ r.subj \in cplan.issues[m]}
rebuildWorktreeProjection(m, F) == applyWorktreeProjection(m, foldWorktreeFacts(F))

rebuildVerificationProjection(F) ==
  [ok |-> Distinct(foldVerificationFacts(F)), rows |-> foldVerificationFacts(F)]

\* RebuildMutableCoreProjectionsForProject: one transaction for all tables.
CanRebuild(m) ==
  /\ rebuildHandoffProjection(m, cfacts[m]).ok
  /\ rebuildReleaseProjection(m, cfacts[m]).ok
  /\ rebuildRefProjection(cfacts[m]).ok
  /\ rebuildVerificationProjection(cfacts[m]).ok

Rebuilt(m) ==
  LET F == cfacts[m]
  IN  rebuildSparkProjection(F) \cup rebuildIdeaProjection(F)
        \cup rebuildHandoffProjection(m, F).rows \cup rebuildReleaseProjection(m, F).rows
        \cup rebuildRefProjection(F).rows \cup rebuildWorktreeProjection(m, F)
        \cup rebuildVerificationProjection(F).rows

\* A sync pass's refreshProjections.  When a table cannot be rebuilt the
\* transaction rolls back and the pass fails, its facts and cursor kept.
RefreshProjections(m) ==
  /\ cdirty[m]
  /\ CanRebuild(m)
  /\ crows' = [crows EXCEPT ![m] = Rebuilt(m)]
  /\ cdirty' = [cdirty EXCEPT ![m] = FALSE]
  /\ UNCHANGED <<cplan, cnames, cfacts, cpromote, cborn>>

ReceiveCoreFact(m, f) ==
  /\ Ready(m) /\ f \notin cfacts[m]
  /\ cfacts' = [cfacts EXCEPT ![m] = @ \cup {f}]
  /\ cdirty' = [cdirty EXCEPT ![m] = TRUE]
  /\ UNCHANGED <<cplan, crows, cnames, cpromote, cborn>>

----------------------------------------------------------------------------
(* Commands: a row and its fact in one transaction. *)

NextStamps(m) == {s \in cplan.stamps : \A f \in cfacts[m] : f.stamp < s}
RowOf(m, kind, subj) == {r \in crows[m] : r.kind = kind /\ r.subj = subj}
KeyedRow(m, kind, key) == {r \in crows[m] : r.kind = kind /\ r.key = key}

\* appendCoreEventFactTx, beside the row change of the same transaction.
WriteRow(m, gone, row, stamp) ==
  /\ crows' = [crows EXCEPT ![m] = (@ \ gone) \cup {row}]
  /\ cfacts' = [cfacts EXCEPT ![m] = @ \cup {FactOf(row, m, stamp, FALSE)}]
  /\ UNCHANGED <<cplan, cdirty, cpromote, cborn>>

\* nextSparkAlias, nextIdeaAlias, nextArtifactEntityAlias: the first number no
\* alias of this machine uses.  Aliases are not among what a rebuild restores.
nextAlias(m, kind) ==
  CHOOSE n \in 1 .. cplan.names + 1 :
    /\ <<kind, n>> \notin cnames[m]
    /\ \A k \in 1 .. n - 1 : <<kind, k>> \in cnames[m]

\* The id is a hash of the alias; a row under it, received from a machine that
\* used the same words, makes the INSERT fail.
CreateUnderAlias(m, kind, val) ==
  LET n == nextAlias(m, kind)
  IN  /\ Ready(m)
      /\ n <= cplan.names
      /\ RowOf(m, kind, StableID(n)) = {}
      /\ \E s \in NextStamps(m) :
           WriteRow(m, {}, Payload(kind, StableID(n), Blank, val, {}), s)
      /\ cnames' = [cnames EXCEPT ![m] = @ \cup {<<kind, n>>}]

CaptureSpark(m) == CoreAllows("spark") /\ CreateUnderAlias(m, "spark", "open")
CaptureIdea(m) == CoreAllows("idea") /\ CreateUnderAlias(m, "idea", "open")
CreateHandoff(m, task) ==
  CoreAllows("handoff") /\ TaskExists(m, task) /\ CreateUnderAlias(m, "handoff", task)

SetLifecycle(m, r, val) ==
  /\ r.val # val
  /\ \E s \in NextStamps(m) : WriteRow(m, {r}, [r EXCEPT !.val = val], s)
  /\ UNCHANGED cnames

\* Mutation of ResolveSpark: the row is updated and no fact recorded.
ResolveSpark_Silent(m, r) ==
  /\ CoreAllows("spark") /\ r.kind = "spark" /\ r.val # "done"
  /\ crows' = [crows EXCEPT ![m] = (@ \ {r}) \cup {[r EXCEPT !.val = "done"]}]
  /\ UNCHANGED <<cplan, cnames, cfacts, cdirty, cpromote, cborn>>

\* ResolveSparkWithOptions: a spark that is done already gets no second fact.
ResolveSpark(m, r) == CoreAllows("spark") /\ r.kind = "spark" /\ SetLifecycle(m, r, "done")

ResolveIdea(m, r) == CoreAllows("idea") /\ r.kind = "idea" /\ SetLifecycle(m, r, "done")

\* archiveIdea
ArchiveIdea(m, r) == CoreAllows("idea") /\ r.kind = "idea" /\ SetLifecycle(m, r, "archived")

\* PromoteSpark, PromoteIdea: the entity is resolved before the transaction,
\* and the fact repeats the status that was read; the row is left alone.
PromoteRead(p, m, r) ==
  /\ CoreAllows("promote") /\ Ready(m) /\ Settled(p) /\ r.kind \in MergedKinds
  /\ cpromote' = [cpromote EXCEPT ![p] =
       [on |-> TRUE, at |-> m, kind |-> r.kind, subj |-> r.subj, val |-> r.val]]
  /\ UNCHANGED <<cplan, crows, cnames, cfacts, cdirty, cborn>>

PromoteFact(p, kind, s) ==
  LET j == cpromote[p]
  IN  /\ j.on /\ j.kind = kind /\ s \in NextStamps(j.at)
      /\ cfacts' = [cfacts EXCEPT ![j.at] = @ \cup
           {FactOf(Payload(kind, j.subj, Blank, j.val, {}), j.at, s, TRUE)}]
      /\ cpromote' = [cpromote EXCEPT ![p] = Idle]
      /\ UNCHANGED <<cplan, crows, cnames, cdirty, cborn>>

PromoteSpark(p, s) == PromoteFact(p, "spark", s)
PromoteIdea(p, s) == PromoteFact(p, "idea", s)

\* RecordRelease: a release of the version or tag already recorded here is
\* returned when it is the same and refused otherwise; members must exist.
RecordRelease(m, version, members) ==
  /\ CoreAllows("release") /\ Ready(m)
  /\ KeyedRow(m, "release", version) = {}
  /\ \A x \in members : MemberExists(m, crows[m], x)
  /\ \E s \in NextStamps(m) :
       WriteRow(m, {}, Payload("release", OpaqueID(m, s), version, Blank, members), s)
  /\ UNCHANGED cnames

\* The id of the row under the key, or a new one.
Upsert(m, kind, key, val) ==
  /\ Ready(m)
  /\ \E s \in NextStamps(m) :
       LET old == KeyedRow(m, kind, key)
           id == IF old = {} THEN OpaqueID(m, s) ELSE (CHOOSE r \in old : TRUE).subj
       IN  WriteRow(m, old, Payload(kind, id, key, val, {}), s)
  /\ UNCHANGED cnames

\* upsertBackendMappingTx: an external id has one row; the row of a piece of
\* adapter configuration is deleted, without a fact, and a new one inserted.
UpsertBackendMapping(m, external, entity) ==
  CoreAllows("ref") /\ Upsert(m, "ref", external, entity)

ReplaceLinearConfig(m, team) ==
  /\ CoreAllows("config") /\ Ready(m)
  /\ \E s \in NextStamps(m) :
       WriteRow(m, {r \in crows[m] : r.kind = "config"},
                Payload("config", OpaqueID(m, s), team, "project", {}), s)
  /\ UNCHANGED cnames

UpsertWorkContractMapping(m, ref, val) ==
  CoreAllows("mapping") /\ Upsert(m, "mapping", ref, val)

UpsertWorkContractReceipt(m, ref, val) ==
  CoreAllows("verification") /\ Upsert(m, "verification", ref, val)

\* UpdateIssue and UpdateWorkContract with SetStarted; path "" unbinds.
BindWorktree(m, issueId, path) ==
  LET old == RowOf(m, "worktree", issueId)
      row == Payload("worktree", issueId, Blank, path, {})
  IN  /\ CoreAllows("worktree") /\ Ready(m) /\ issueId \in cplan.issues[m]
      /\ {r.val : r \in old} \ {path} # {} \/ (old = {} /\ path # Blank)
      /\ \E s \in NextStamps(m) :
           /\ crows' = [crows EXCEPT ![m] = (@ \ old) \cup (IF path = Blank THEN {} ELSE {row})]
           /\ cfacts' = [cfacts EXCEPT ![m] = @ \cup {FactOf(row, m, s, FALSE)}]
      /\ UNCHANGED <<cplan, cnames, cdirty, cpromote, cborn>>

----------------------------------------------------------------------------
(* Facts for a database that predates them. *)

\* replayMutableCoreEventsTx: each event of the old log, in order, as a fact
\* that knows the status and nothing else.
replayMutableCoreEvents ==
  {FactOf([cplan.events[i] EXCEPT !.text = Blank, !.key = Blank], Legacy, i, FALSE) :
     i \in DOMAIN cplan.events}

SameRow(f, r) == f = r
SameValue(f, r) == f.val = r.val
SameKey(f, r) == f.key = r.key
SameRef(f, r) == f.key = r.key /\ f.val = r.val

\* The rows of a table that their facts do not fold to.
Unborn(kind, folded, Same(_, _)) ==
  {r \in crows[LegacyHost] :
     r.kind = kind /\ ~\E f \in folded : f.kind = kind /\ f.subj = r.subj /\ Same(f, r)}

\* Mutation of birthIdeas: an idea some fact is about is taken as born.
birthIdeas_Known(F) ==
  {r \in crows[LegacyHost] : r.kind = "idea" /\ <<r.kind, r.subj>> \notin Subjects(F)}

birthSparks(F) == Unborn("spark", foldSparkFacts(F), SameRow)

birthIdeas(F) == Unborn("idea", foldIdeaFacts(F), SameRow)

birthHandoffs(F) == Unborn("handoff", foldHandoffFacts(F), SameRow)
birthReleases(F) == Unborn("release", foldReleaseFacts(F), SameKey)
birthBackendRefs(F) ==
  Unborn("ref", foldRefFacts(F), SameRef) \cup Unborn("config", foldRefFacts(F), SameRef)
birthWorkContractRefs(F) == Unborn("mapping", foldRefFacts(F), SameValue)
birthWorktrees(F) == Unborn("worktree", foldWorktreeFacts(F), SameValue)
birthVerificationReceipts(F) == Unborn("verification", foldVerificationFacts(F), SameValue)

\* birthMutableCoreRowsTx: each such row gets a fact that says all of it.
birthMutableCoreRows(F) ==
  birthSparks(F) \cup birthIdeas(F) \cup birthHandoffs(F) \cup birthReleases(F)
    \cup birthBackendRefs(F) \cup birthWorkContractRefs(F) \cup birthWorktrees(F)
    \cup birthVerificationReceipts(F)

\* The order in which they get them.
BirthOrder(B) == CHOOSE g \in [B -> 1 .. Cardinality(B)] : \A a, b \in B : g[a] = g[b] => a = b

\* migrateMutableCoreFactsTx
MigrateMutableCoreFacts ==
  LET F == replayMutableCoreEvents
      B == birthMutableCoreRows(F)
      rank == BirthOrder(B)
  IN  /\ ~cborn
      /\ cborn' = TRUE
      /\ cfacts' = [cfacts EXCEPT ![LegacyHost] =
           F \cup {FactOf(r, Legacy, Len(cplan.events) + rank[r], FALSE) : r \in B}]
      /\ UNCHANGED <<cplan, crows, cnames, cdirty, cpromote>>

----------------------------------------------------------------------------
(* What `state doctor` compares. *)

KindParity(folded, rows, Same(_, _)) ==
  [missing |-> {f.subj : f \in {g \in folded : \A r \in rows : r.subj # g.subj}},
   extra   |-> {r.subj : r \in {q \in rows : \A f \in folded : f.subj # q.subj}},
   changed |-> {r.subj : r \in {q \in rows : \E f \in folded : f.subj = q.subj /\ ~Same(f, q)}}]

TableRows(m, kinds) == {r \in crows[m] : r.kind \in kinds}

inspectSparkFactParity(m) ==
  KindParity(foldSparkFacts(cfacts[m]), TableRows(m, {"spark"}), SameRow)
inspectIdeaFactParity(m) ==
  KindParity(foldIdeaFacts(cfacts[m]), TableRows(m, {"idea"}), SameRow)
inspectHandoffFactParity(m) ==
  KindParity(foldHandoffFacts(cfacts[m]), TableRows(m, {"handoff"}), SameRow)
inspectReleaseFactParity(m) ==
  KindParity(foldReleaseFacts(cfacts[m]), TableRows(m, {"release"}), SameKey)
inspectRefFactParity(m) ==
  KindParity(foldRefFacts(cfacts[m]), TableRows(m, {"ref", "config", "mapping"}), SameRef)
inspectWorktreeFactParity(m) ==
  LET folded == foldWorktreeFacts(cfacts[m])
      parity == KindParity(folded, TableRows(m, {"worktree"}), SameValue)
  IN  [parity EXCEPT !.missing = {x \in @ : \E f \in folded : f.subj = x /\ f.val # Blank}]
inspectVerificationFactParity(m) ==
  KindParity(foldVerificationFacts(cfacts[m]), TableRows(m, {"verification"}), SameValue)

----------------------------------------------------------------------------
(* Specification. *)

CoreInit ==
  /\ cplan \in CorePlans
  /\ crows = [m \in Machines |-> IF m = LegacyHost THEN cplan.rows ELSE {}]
  /\ cnames = [m \in Machines |-> IF m = LegacyHost
       THEN {<<r.kind, r.subj[2]>> : r \in {q \in cplan.rows : q.subj[1] = 0}} ELSE {}]
  /\ cfacts = [m \in Machines |-> {}]
  /\ cdirty = [m \in Machines |-> FALSE]
  /\ cpromote = [p \in cplan.procs |-> Idle]
  /\ cborn = (cplan.rows = {})

CoreCommand(m) ==
  \/ CaptureSpark(m)
  \/ CaptureIdea(m)
  \/ \E t \in {Blank} \cup cplan.tasks[m] : CreateHandoff(m, t)
  \/ \E r \in crows[m] :
       /\ Ready(m)
       /\ \/ ResolveSpark(m, r)
          \/ ResolveIdea(m, r)
          \/ ArchiveIdea(m, r)
  \/ \E p \in cplan.procs, r \in crows[m] : PromoteRead(p, m, r)
  \/ \E v \in cplan.keys, x \in SUBSET cplan.issues[m] : RecordRelease(m, v, x)
  \/ \E v \in cplan.keys, w \in cplan.vals :
       \/ UpsertBackendMapping(m, v, w)
       \/ UpsertWorkContractMapping(m, v, w)
       \/ UpsertWorkContractReceipt(m, v, w)
  \/ \E v \in cplan.keys : ReplaceLinearConfig(m, v)
  \/ \E i \in cplan.issues[m], w \in {Blank} \cup cplan.vals : BindWorktree(m, i, w)

CoreNext ==
  \/ MigrateMutableCoreFacts
  \/ \E m \in Machines : CoreCommand(m) \/ RefreshProjections(m)
  \/ \E p \in cplan.procs, s \in cplan.stamps : PromoteSpark(p, s) \/ PromoteIdea(p, s)
  \/ \E m, k \in Machines : \E f \in cfacts[k] : ReceiveCoreFact(m, f)

CoreSpec == CoreInit /\ [][CoreNext]_coreVars

----------------------------------------------------------------------------
(* Properties. *)

\* What the tables may differ by: a promotion repeats a status read before its
\* transaction; replaced adapter configuration keeps its fact; a worktree
\* binding may name an issue this machine does not have.
Excused(m) ==
  {f.row.subj : f \in {g \in cfacts[m] : g.promoted}}
    \cup {f.row.subj : f \in {g \in cfacts[m] : g.row.kind = "config"}}
    \cup {f.row.subj : f \in {g \in cfacts[m] : g.row.kind = "worktree"
                                                  /\ g.row.subj \notin cplan.issues[m]}}

\* On a machine that has rebuilt since it last received a fact every table says
\* what its facts fold to, whatever was captured, resolved, archived, recorded
\* or bound here since, and whatever the database held before there were facts:
\* a later rebuild changes nothing (inspectMutableCoreFactParity, event_fact_parity.go).
TablesFollowFacts ==
  \A m \in Machines :
    Ready(m) /\ ~cdirty[m] =>
      \A parity \in {inspectSparkFactParity(m), inspectIdeaFactParity(m),
                     inspectHandoffFactParity(m), inspectReleaseFactParity(m),
                     inspectRefFactParity(m), inspectWorktreeFactParity(m),
                     inspectVerificationFactParity(m)} :
        (parity.missing \cup parity.extra \cup parity.changed) \subseteq Excused(m)

\* No fact received from another machine makes the rebuild of the tables fail:
\* "Missing parent issue/contract rows are skipped so a remote fact cannot fail
\* the whole rebuild" (event_fact_fold.go:594-596).
RebuildCannotFail == \A m \in Machines : CanRebuild(m)
=============================================================================
