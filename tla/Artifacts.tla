----------------------------- MODULE Artifacts -----------------------------
(***************************************************************************)
(* The older work records of a project (src/internal/state): tasks, specs  *)
(* and their bodies with the full-text index over them, links, tags and    *)
(* bundles, intents with their deferrals, and the absorption of tasks and  *)
(* intents into issues.  Most commands look their references up first and  *)
(* write in a transaction afterwards, so a command has two steps: Ask      *)
(* resolves its references, the transaction writes and checks again only   *)
(* what the code checks again.  An entity is <<kind, number>>; its id is a *)
(* hash of its alias, so a number given out again is the same entity.      *)
(***************************************************************************)
EXTENDS Naturals, FiniteSets, Sequences, FiniteSetsExt, Tables

CONSTANT
  ArtifactPlans   \* the commands a behaviour may run, and its bounds

VARIABLES
  aplan,      \* the plan of this behaviour; never changes
  tasks,      \* number :> [status, spec, events, note, coarse]
  specs,      \* number :> [status, events, file]
  bodies,     \* entity :> stored content
  index,      \* pairs <<entity, content>> of the full-text index
  edges,      \* triples <<from entity, type, to entity>>
  tagged,     \* pairs <<tag, entity>>
  bundles,    \* slug :> [title, tags]
  members,    \* pairs <<slug, entity>>: explicit members
  intents,    \* number :> sequence of [kind, reason, deferral, supersedes]
  deferrals,  \* operation key :> intent
  operations, \* operation key :> intent
  minted,     \* set of [issue, source, history, status], the absorbed issues
  untouched,  \* sources absorbed or dismissed and not changed since
  asking      \* actor :> the resolved command it is about to write

taskVars == <<tasks, minted, untouched>>
specVars == <<specs, bodies, index>>
groupVars == <<edges, tagged, bundles, members>>
intentVars == <<intents, deferrals, operations>>
artifactVars == <<aplan, taskVars, specVars, groupVars, intentVars, asking>>

None == 0
Nothing == [op |-> "none"]
Task(n) == <<"task", n>>
Spec(n) == <<"spec", n>>
Intent(n) == <<"intent", n>>
Actors == DOMAIN asking

----------------------------------------------------------------------------
(* Looking things up. *)

\* traceTable, entityDetails: the rows of every kind.
Entities == {Task(n) : n \in DOMAIN tasks} \cup {Spec(n) : n \in DOMAIN specs}
              \cup {Intent(n) : n \in DOMAIN intents} \cup aplan.captures

\* resolveTraceEntity: an alias, or else an internal id, and the entity's row.
Resolves(e) == e \in Entities

\* entityRegistry: the kinds, and which of them may be the target of a resolution.
EntityRegistry ==
  [k \in {"spec", "task", "idea", "spark", "brainstorm", "plan", "handoff", "journal_entry", "intent",
          "exploration", "exploration_checkpoint", "logical_conversation", "issue"} |->
     k \in {"spec", "task", "idea", "brainstorm", "plan", "handoff", "issue"}]

\* intentExplorationRelationshipMatrix.
RelationshipMatrix ==
  ({"spark", "idea", "brainstorm", "journal_entry"} \X {"source-of"} \X {"intent"})
    \cup ({"intent"} \X {"derived-from", "split-from", "supersedes", "duplicates"} \X {"intent"})
    \cup ({"exploration"} \X {"explores", "informs"} \X {"intent"})
    \cup ({"journal_entry"} \X {"evidence-for"} \X {"exploration", "intent"})
    \cup ({"exploration"} \X {"uses-source"} \X {"journal_entry", "handoff"})
    \cup {<<"exploration", "has-conversation", "logical_conversation">>}

\* newEntityKinds.
NewEntityKinds == {"intent", "exploration", "exploration_checkpoint", "logical_conversation"}

\* validateRelationshipAgainstRegistry: only pairs with a new kind are checked.
RelationshipValid(from, type, to) ==
  {from[1], to[1]} \cap NewEntityKinds # {} =>
    /\ {from[1], to[1]} \subseteq DOMAIN EntityRegistry
    /\ <<from[1], type, to[1]>> \in RelationshipMatrix

\* lifecycleLegacyStatusMap, CanonicalLifecycleStatus: a spec's older words.
CanonicalSpecStatus(s) ==
  CASE s = "drafting" -> "draft" [] s = "approved" -> "todo" [] s = "implementing" -> "in_progress"
    [] s = "complete" -> "done" [] OTHER -> s

\* nextTaskAlias: one more than the greatest number.
NextTaskNumber == Max({0} \cup DOMAIN tasks) + 1

\* usedSpecNumbers, specFileNumbers: rows, and files rendered for specs since deleted.
UsedSpecNumbers == DOMAIN specs \cup aplan.specFiles

\* resolveSpecAlias: the number asked for, if unused, or one more than the greatest.
SpecNumber(explicit) ==
  IF explicit # None THEN explicit ELSE Max({0} \cup UsedSpecNumbers) + 1

\* nextIntentAlias: the first free one.
NextIntentNumber == Max({0} \cup DOMAIN intents) + 1

Free(a) == asking[a] = Nothing
Asked(a, op) == asking[a].op = op
Answer(a) == asking' = [asking EXCEPT ![a] = Nothing]

----------------------------------------------------------------------------
(* Tasks. *)

\* Event ids are hashes of the change: the same change is recorded once.  The
\* stamp of a task command is in whole seconds and sorts after an absorb's
\* stamp of the same second, so what it inserts is the latest event.
RecordTaskEvent(row, to) ==
  IF <<row.status, to, "", 0>> \in row.events THEN row
  ELSE [row EXCEPT !.events = @ \cup {<<row.status, to, "", 0>>}, !.note = "", !.coarse = TRUE]

\* insertTaskRelationship.
LinkTask(es, t, type, targets) == es \cup {<<Task(t), type, x>> : x \in targets}

\* replaceTaskRelationships.
ReplaceTaskLinks(es, t, type, kind, targets) ==
  LinkTask({x \in es : ~(x[1] = Task(t) /\ x[2] = type /\ x[3][1] = kind)}, t, type, targets)

SpecTarget(s) == IF s = None THEN {} ELSE {Spec(s)}

\* CreateTask: the foreign key refuses a spec deleted since the lookup.
CreateTask(a) ==
  LET c == asking[a] n == NextTaskNumber IN
  /\ Asked(a, "task_create") /\ Cardinality(DOMAIN tasks) < aplan.tasks
  /\ c.spec # None => c.spec \in DOMAIN specs
  /\ tasks' = Inserted(tasks, n, [status |-> "todo", spec |-> c.spec, events |-> {<<"", "todo", "", 0>>},
                                  note |-> "", coarse |-> TRUE])
  /\ edges' = LinkTask(LinkTask(edges, n, "implements", SpecTarget(c.spec)), n, "blocked_by", {Task(d) : d \in c.deps})
  /\ Answer(a)
  /\ UNCHANGED <<aplan, minted, untouched, specVars, tagged, bundles, members, intentVars>>

\* UpdateTask: status, spec and dependencies, each when asked for.
UpdateTask(a) ==
  LET c == asking[a]
      row == tasks[c.task]
      stated == IF "status" \in c.set THEN [RecordTaskEvent(row, c.status) EXCEPT !.status = c.status] ELSE row
      same == "status" \notin c.set \/ c.status = row.status
      linked == IF "spec" \in c.set THEN ReplaceTaskLinks(edges, c.task, "implements", "spec", SpecTarget(c.spec)) ELSE edges
  IN
  /\ Asked(a, "task_update") /\ c.task \in DOMAIN tasks
  /\ "spec" \in c.set /\ c.spec # None => c.spec \in DOMAIN specs
  /\ tasks' = [tasks EXCEPT ![c.task] = [(IF same THEN row ELSE stated) EXCEPT !.spec = IF "spec" \in c.set THEN c.spec ELSE @]]
  /\ edges' = IF "deps" \in c.set THEN ReplaceTaskLinks(linked, c.task, "blocked_by", "task", {Task(d) : d \in c.deps}) ELSE linked
  /\ untouched' = IF same THEN untouched ELSE untouched \ {Task(c.task)}
  /\ Answer(a)
  /\ UNCHANGED <<aplan, minted, specVars, tagged, bundles, members, intentVars>>

\* doneTaskAliasesForSpec.
DoneTasksOf(s) == {t \in DOMAIN tasks : tasks[t].spec = s /\ tasks[t].status = "done"}

\* archiveTask: only a done task; anything else is skipped.
ArchiveTask(a) ==
  /\ Asked(a, "task_archive")
  /\ \E t \in asking[a].tasks :
    /\ IF t \in DOMAIN tasks /\ tasks[t].status = "done"
       THEN /\ tasks' = [tasks EXCEPT ![t] = [RecordTaskEvent(@, "archived") EXCEPT !.status = "archived"]]
            /\ untouched' = untouched \ {Task(t)}
       ELSE UNCHANGED <<tasks, untouched>>
    /\ asking' = [asking EXCEPT ![a] = IF @.tasks = {t} THEN Nothing ELSE [@ EXCEPT !.tasks = @ \ {t}]]
    /\ UNCHANGED <<aplan, minted, specVars, groupVars, intentVars>>

----------------------------------------------------------------------------
(* Bodies, the full-text index, and specs. *)

\* upsertArtifactSearchTx with deleteArtifactSearchTx: what the index held for
\* the entity is taken out by the old content, the new content goes in.
Reindexed(ix, old, e, content) == (ix \ old) \cup {<<e, content>>}

\* The row is read for the index after it was written.
UpsertBody_ReadsLate(bs, ix, e, content) ==
  [bodies |-> Upserted(bs, e, content), index |-> Reindexed(ix, {<<e, content>>}, e, content)]

\* upsertArtifactBodyTx: the old row is read first, to be taken out of the index.
UpsertBody(bs, ix, e, content) ==
  [bodies |-> Upserted(bs, e, content),
   index |-> Reindexed(ix, IF e \in DOMAIN bs THEN {<<e, bs[e]>>} ELSE {}, e, content)]

\* deleteArtifactBodiesForEntityTx, deleteArtifactBodyTx.
DeleteBodies(e) ==
  /\ bodies' = [x \in DOMAIN bodies \ {e} |-> bodies[x]]
  /\ index' = index \ (IF e \in DOMAIN bodies THEN {<<e, bodies[e]>>} ELSE {})

\* sourceBodiesDiverge: the source file says something else than the stored body.
Diverges(s) == Spec(s) \in DOMAIN bodies /\ specs[s].file \notin {"", bodies[Spec(s)]}

\* CreateSpec, with a source row of its own and the body when one is given.
CreateSpec(a) ==
  LET c == asking[a]
      n == SpecNumber(c.number)
      put == UpsertBody(bodies, index, Spec(n), c.body)
  IN
  /\ Asked(a, "spec_create") /\ n \notin UsedSpecNumbers /\ n <= aplan.specs
  /\ specs' = Inserted(specs, n, [status |-> "draft", events |-> {<<"", "draft">>}, file |-> ""])
  /\ edges' = edges \cup {<<Spec(n), "related_to", Spec(r)>> : r \in c.related}
  /\ IF c.body = "" THEN UNCHANGED <<bodies, index>> ELSE bodies' = put.bodies /\ index' = put.index
  /\ Answer(a)
  /\ UNCHANGED <<aplan, taskVars, tagged, bundles, members, intentVars>>

\* editArtifactBody, from EditSpecBody: the row and the file were read before the
\* transaction; a file without a row is imported first.  The foreign key of the
\* body's source refuses a spec deleted since.
EditSpecBody(a) ==
  LET c == asking[a]
      e == Spec(c.spec)
      imported == IF ~c.had /\ c.file # "" THEN UpsertBody(bodies, index, e, c.file)
                  ELSE [bodies |-> bodies, index |-> index]
      put == UpsertBody(imported.bodies, imported.index, e, c.body)
  IN
  /\ Asked(a, "spec_edit") /\ c.spec \in DOMAIN specs
  /\ bodies' = put.bodies /\ index' = put.index
  /\ Answer(a)
  /\ UNCHANGED <<aplan, taskVars, specs, groupVars, intentVars>>

\* The spec event of SetSpecStatus and archiveSpec, named by canonical words.
SpecTo(row, to) ==
  [row EXCEPT !.status = to,
              !.events = IF CanonicalSpecStatus(row.status) = to THEN @ ELSE @ \cup {<<CanonicalSpecStatus(row.status), to>>}]

\* SetSpecStatus.
SetSpecStatus(a) ==
  LET c == asking[a] IN
  /\ Asked(a, "spec_status") /\ c.spec \in DOMAIN specs
  /\ specs' = [specs EXCEPT ![c.spec] = SpecTo(@, c.status)]
  /\ Answer(a)
  /\ UNCHANGED <<aplan, taskVars, bodies, index, groupVars, intentVars>>

\* archiveSpec: only a done spec; anything else is skipped.
ArchiveSpec(a) ==
  LET s == asking[a].spec IN
  /\ Asked(a, "spec_archive")
  /\ specs' = IF s \in DOMAIN specs /\ CanonicalSpecStatus(specs[s].status) = "done"
              THEN [specs EXCEPT ![s] = SpecTo(@, "archived")] ELSE specs
  /\ Answer(a)
  /\ UNCHANGED <<aplan, taskVars, bodies, index, groupVars, intentVars>>

\* DeleteSpec: rows of every table that name the spec go with it, tasks lose
\* their spec, and its source row goes unless it is still referenced.
DeleteSpec(a) ==
  LET s == asking[a].spec e == Spec(s) IN
  /\ Asked(a, "spec_delete")
  /\ DeleteBodies(e)
  /\ specs' = [n \in DOMAIN specs \ {s} |-> specs[n]]
  /\ tasks' = [t \in DOMAIN tasks |-> [tasks[t] EXCEPT !.spec = IF @ = s THEN None ELSE @]]
  /\ edges' = {x \in edges : x[1] # e /\ x[3] # e}
  /\ tagged' = {x \in tagged : x[2] # e}
  /\ members' = {x \in members : x[2] # e}
  /\ Answer(a)
  /\ UNCHANGED <<aplan, minted, untouched, bundles, intentVars>>

\* A person writes the source file of a spec (finalize, or an editor).
WriteSpecFile ==
  \E s \in DOMAIN specs, content \in aplan.fileContents :
    /\ specs' = [specs EXCEPT ![s].file = content]
    /\ UNCHANGED <<aplan, taskVars, bodies, index, groupVars, intentVars, asking>>

----------------------------------------------------------------------------
(* Links, tags and bundles: one statement each, after the lookup. *)

\* CreateLink.
CreateLink(a) ==
  LET c == asking[a] IN
  /\ Asked(a, "link_create")
  /\ edges' = edges \cup {<<c.from, c.type, c.to>>}
  /\ Answer(a)
  /\ UNCHANGED <<aplan, taskVars, specVars, tagged, bundles, members, intentVars>>

\* RemoveLink.
RemoveLink(a) ==
  LET c == asking[a] IN
  /\ Asked(a, "link_remove")
  /\ edges' = edges \ {<<c.from, c.type, c.to>>}
  /\ Answer(a)
  /\ UNCHANGED <<aplan, taskVars, specVars, tagged, bundles, members, intentVars>>

\* AddTag.
AddTag(a) ==
  LET c == asking[a] IN
  /\ Asked(a, "tag_add")
  /\ tagged' = tagged \cup {<<c.tag, c.entity>>}
  /\ Answer(a)
  /\ UNCHANGED <<aplan, taskVars, specVars, edges, bundles, members, intentVars>>

\* RemoveTag.
RemoveTag(a) ==
  LET c == asking[a] IN
  /\ Asked(a, "tag_remove")
  /\ tagged' = tagged \ {<<c.tag, c.entity>>}
  /\ Answer(a)
  /\ UNCHANGED <<aplan, taskVars, specVars, edges, bundles, members, intentVars>>

\* CreateBundle: a slug that exists is overwritten.
CreateBundle(a) ==
  LET c == asking[a] IN
  /\ Asked(a, "bundle_create")
  /\ bundles' = Upserted(bundles, c.slug, [title |-> c.title, tags |-> c.tags])
  /\ Answer(a)
  /\ UNCHANGED <<aplan, taskVars, specVars, edges, tagged, members, intentVars>>

\* UpdateBundle: both columns are written, the one not asked for as it was read.
UpdateBundle(a) ==
  LET c == asking[a] IN
  /\ Asked(a, "bundle_update")
  /\ bundles' = [bundles EXCEPT ![c.slug] = [title |-> c.title, tags |-> c.tags]]
  /\ Answer(a)
  /\ UNCHANGED <<aplan, taskVars, specVars, edges, tagged, members, intentVars>>

\* AddBundleMember.
AddBundleMember(a) ==
  LET c == asking[a] IN
  /\ Asked(a, "member_add")
  /\ members' = members \cup {<<c.slug, c.entity>>}
  /\ Answer(a)
  /\ UNCHANGED <<aplan, taskVars, specVars, edges, tagged, bundles, intentVars>>

\* RemoveBundleMember.
RemoveBundleMember(a) ==
  LET c == asking[a] IN
  /\ Asked(a, "member_remove")
  /\ members' = members \ {<<c.slug, c.entity>>}
  /\ Answer(a)
  /\ UNCHANGED <<aplan, taskVars, specVars, edges, tagged, bundles, intentVars>>

----------------------------------------------------------------------------
(* Intents: every command is one transaction. *)

Disposition(kind, reason, deferral, supersedes) ==
  [kind |-> kind, reason |-> reason, deferral |-> deferral, supersedes |-> supersedes]

\* latestIntentDispositionTx.
LatestDisposition(n) == intents[n][Len(intents[n])]

\* loadEstablishedIntentOperationTx: the key was used, its intent is the answer.
Established(key) == key \in DOMAIN operations

\* rejectLegacyBoundOperationKeyTx: keys of deferrals not converted yet.
KeyUsable(key) == ~Established(key) /\ key \notin aplan.legacyKeys

\* createIntentWithHooks: deferred needs a key; a key used before is answered
\* with its intent and nothing is written.
CreateIntent ==
  \E c \in aplan.commands :
    LET n == NextIntentNumber IN
    /\ c.op = "intent_create" /\ n <= aplan.intents
    /\ c.deferred => c.key # None
    /\ c.key # None => KeyUsable(c.key)
    /\ \A x \in c.sources : x \in Entities /\ RelationshipValid(x, "source-of", Intent(n))
    /\ intents' = Inserted(intents, n, <<Disposition(IF c.deferred THEN "deferred" ELSE "tracked", "",
                                                      IF c.deferred THEN c.key ELSE None, None)>>)
    /\ deferrals' = IF c.deferred THEN Inserted(deferrals, c.key, n) ELSE deferrals
    /\ operations' = IF c.key # None THEN Inserted(operations, c.key, n) ELSE operations
    /\ edges' = edges \cup {<<x, "source-of", Intent(n)>> : x \in c.sources}
    /\ UNCHANGED <<aplan, taskVars, specVars, tagged, bundles, members, asking>>

\* What a disposition appended by nextAggregateSeq changes.
Dispose(n, d) ==
  /\ intents' = [intents EXCEPT ![n] = Append(@, d)]
  /\ UNCHANGED <<aplan, tasks, specVars, groupVars, asking>>

\* deferIntentWithHooks.
DeferIntent ==
  \E c \in aplan.commands :
    /\ c.op = "intent_defer" /\ c.intent \in DOMAIN intents /\ KeyUsable(c.key)
    /\ Len(intents[c.intent]) < aplan.dispositions
    /\ Dispose(c.intent, Disposition("deferred", "", c.key, None))
    /\ deferrals' = Inserted(deferrals, c.key, c.intent)
    /\ operations' = Inserted(operations, c.key, c.intent)
    /\ untouched' = untouched \ {Intent(c.intent)}
    /\ UNCHANGED minted

\* ResumeIntent, ResolveIntent through appendIntentDisposition: only a deferral
\* is resumed, and superseded by that; a resolution is always accepted.
AppendIntentDisposition ==
  \E c \in aplan.commands :
    /\ c.op \in {"intent_resume", "intent_resolve"} /\ c.intent \in DOMAIN intents
    /\ Len(intents[c.intent]) < aplan.dispositions
    /\ LET latest == LatestDisposition(c.intent) IN
       IF c.op = "intent_resume"
       THEN latest.kind = "deferred" /\ Dispose(c.intent, Disposition("tracked", "", None, latest.deferral))
       ELSE Dispose(c.intent, Disposition("resolved", "", None, None))
    /\ untouched' = untouched \ {Intent(c.intent)}
    /\ UNCHANGED <<minted, deferrals, operations>>

----------------------------------------------------------------------------
(* Absorption into issues. *)

Terminal == {"absorbed", "superseded"}

\* leftoverOpenTaskStatus, leftoverHistoryTaskStatus, refuseAbsorbTaskStatus.
AbsorbableTask(t, history) == history \/ tasks[t].status \notin {"done", "archived"}

\* The transaction trusts what the lookup saw.
StillLeftover_Trusting(source, history) == TRUE

\* archiveAbsorbTaskTx, archiveAbsorbIntentTx: status and latest note, read again.
StillLeftover(source, history) ==
  IF source[1] = "task"
  THEN AbsorbableTask(source[2], history) /\ tasks[source[2]].note \notin Terminal
  ELSE LatestDisposition(source[2]).reason \notin Terminal

\* archiveAbsorbTaskTx: its event is named by the change, the note and the issue,
\* and stamped to the nanosecond: in the same second as a task command's event
\* it sorts before it.
ArchivedBy(row, label, issue, sameSecond) ==
  LET id == <<row.status, "archived", label, issue>>
      stands == id \in row.events \/ (sameSecond /\ row.coarse)
  IN  [row EXCEPT !.status = "archived", !.events = @ \cup {id},
                  !.note = IF stands THEN @ ELSE label, !.coarse = IF stands THEN @ ELSE FALSE]

\* archiveAbsorbSourceTx.
ArchiveSource(source, label, issue) ==
  IF source[1] = "task"
  THEN /\ \E sameSecond \in BOOLEAN :
            tasks' = [tasks EXCEPT ![source[2]] = ArchivedBy(@, label, issue, sameSecond)]
       /\ UNCHANGED intents
  ELSE /\ intents' = [intents EXCEPT ![source[2]] = Append(@, Disposition("resolved", label, None, None))]
       /\ UNCHANGED tasks

\* absorbProvenanceIndex: sources some issue's body names.
Represented == {i.source : i \in {j \in minted : j.provenance}}

\* classifyAbsorbCandidate.
Classified(source, dismiss) ==
  LET history == IF source[1] = "task" THEN tasks[source[2]].status \in {"done", "archived"}
                 ELSE LatestDisposition(source[2]).kind = "resolved"
      status == CASE ~history -> IF source[1] = "intent" THEN "backlog" ELSE "triage"
                  [] source[1] = "task" /\ tasks[source[2]].status = "archived" -> "cancelled"
                  [] OTHER -> "done"
  IN  [source |-> source, dismiss |-> dismiss, status |-> status]

\* planAbsorbTasks with listAbsorbTaskIDs.
PlanTasks(history) ==
  {Task(t) : t \in {u \in DOMAIN tasks : AbsorbableTask(u, history) /\ tasks[u].note \notin Terminal}}

\* planAbsorbIntents with listAbsorbIntentIDs.
PlanIntents(history) ==
  {Intent(n) : n \in {m \in DOMAIN intents : /\ (history \/ LatestDisposition(m).kind # "resolved")
                                              /\ LatestDisposition(m).reason \notin Terminal}}

\* planAbsorbAll: refused for history when other issues exist; what an issue
\* already stands for is skipped.
PlanAbsorbAll(history, dismiss) ==
  {Classified(x, dismiss) : x \in (PlanTasks(history) \cup PlanIntents(history)) \ Represented}

\* The order of the plan: tasks by number, then intents.
IsFirstItem(i, items) ==
  \A j \in items :
    \/ i.source[1] = "task" /\ j.source[1] = "intent"
    \/ i.source[1] = j.source[1] /\ i.source[2] <= j.source[2]

\* Absorb: the issue with its status, and the archived source, in one transaction.
Absorb(item, history) ==
  LET issueNumber == Cardinality(minted) + 1 IN
  /\ ArchiveSource(item.source, IF item.dismiss THEN "superseded" ELSE "absorbed", IF item.dismiss THEN None ELSE issueNumber)
  /\ minted' = IF item.dismiss THEN minted
               ELSE minted \cup {[issue |-> issueNumber, source |-> item.source, history |-> history,
                                  status |-> item.status, provenance |-> TRUE]}
  /\ untouched' = untouched \cup {item.source}
  /\ UNCHANGED <<aplan, specVars, groupVars, deferrals, operations>>

\* runIssueAbsorb for one reference.
AbsorbOne(a) ==
  LET c == asking[a] IN
  /\ Asked(a, "absorb") /\ StillLeftover(c.item.source, FALSE) /\ Cardinality(minted) < aplan.minted
  /\ Absorb(c.item, FALSE)
  /\ Answer(a)

\* AbsorbAll, runIssueAbsorbAll: one transaction per item; the first that is
\* refused ends the command.
AbsorbItem(a) ==
  LET c == asking[a] IN
  /\ Asked(a, "absorb_all") /\ Cardinality(minted) < aplan.minted
  /\ \E item \in c.items :
       /\ IsFirstItem(item, c.items) /\ StillLeftover(item.source, c.history)
       /\ Absorb(item, c.history)
       /\ asking' = [asking EXCEPT ![a] = IF c.items = {item} THEN Nothing ELSE [c EXCEPT !.items = @ \ {item}]]

\* Issue commands that remove an issue or replace its body (module Issues).
DropProvenance ==
  \E i \in minted :
    /\ aplan.edits /\ i.provenance
    /\ minted' = (minted \ {i}) \cup {[i EXCEPT !.provenance = FALSE]}
    /\ UNCHANGED <<aplan, tasks, untouched, specVars, groupVars, intentVars, asking>>

----------------------------------------------------------------------------
(* The lookups before the transactions. *)

\* What a command finds before it writes; otherwise it ends without a write.
Findable(c) ==
  CASE c.op \in {"task_create", "task_update"} ->
         /\ SpecTarget(c.spec) \cup {Task(d) : d \in c.deps} \subseteq Entities
         /\ c.op = "task_update" => Resolves(Task(c.task))
    [] c.op = "task_archive" -> Resolves(Spec(c.spec)) /\ DoneTasksOf(c.spec) # {}
    [] c.op = "spec_create" -> {Spec(r) : r \in c.related} \subseteq Entities
    [] c.op = "spec_edit" -> Resolves(Spec(c.spec)) /\ (Diverges(c.spec) => c.force)
    [] c.op \in {"spec_status", "spec_archive", "spec_delete"} -> Resolves(Spec(c.spec))
    [] c.op \in {"link_create", "link_remove"} -> {c.from, c.to} \subseteq Entities /\ RelationshipValid(c.from, c.type, c.to)
    [] c.op \in {"tag_add", "tag_remove"} -> Resolves(c.entity)
    [] c.op = "bundle_create" -> TRUE
    [] c.op = "bundle_update" -> c.slug \in DOMAIN bundles
    [] c.op \in {"member_add", "member_remove"} -> c.slug \in DOMAIN bundles /\ Resolves(c.entity)
    [] OTHER -> FALSE

\* What a command carries from its lookup into its transaction.
Found(c) ==
  CASE c.op = "task_archive" -> [op |-> c.op, tasks |-> DoneTasksOf(c.spec)]
    [] c.op = "spec_edit" -> [op |-> c.op, spec |-> c.spec, body |-> c.body,
                              had |-> Spec(c.spec) \in DOMAIN bodies, file |-> specs[c.spec].file]
    [] c.op = "bundle_update" -> [op |-> c.op, slug |-> c.slug,
                                  title |-> IF "title" \in c.set THEN c.title ELSE bundles[c.slug].title,
                                  tags |-> IF "tags" \in c.set THEN c.tags ELSE bundles[c.slug].tags]
    [] OTHER -> c

Ask(a) ==
  \E c \in aplan.commands :
    /\ Free(a) /\ Findable(c)
    /\ asking' = [asking EXCEPT ![a] = Found(c)]
    /\ UNCHANGED <<aplan, taskVars, specVars, groupVars, intentVars>>

\* lookupAbsorbSource: a task that is open, an intent not absorbed or dismissed;
\* what resolves to anything else is refused.
AskAbsorb(a) ==
  \E c \in aplan.commands :
    /\ Free(a) /\ c.op = "absorb" /\ Resolves(c.source) /\ c.source[1] \in {"task", "intent"}
    /\ IF c.source[1] = "task" THEN AbsorbableTask(c.source[2], FALSE) ELSE StillLeftover(c.source, FALSE)
    /\ asking' = [asking EXCEPT ![a] = [op |-> c.op, item |-> [source |-> c.source, dismiss |-> c.dismiss, status |-> "triage"]]]
    /\ UNCHANGED <<aplan, taskVars, specVars, groupVars, intentVars>>

\* The plan of absorb --all; --dismiss and --history exclude each other.
AskAbsorbAll(a) ==
  \E c \in aplan.commands :
    /\ Free(a) /\ c.op = "absorb_all" /\ ~(c.history /\ c.dismiss)
    /\ c.history => ~aplan.otherIssues
    /\ PlanAbsorbAll(c.history, c.dismiss) # {}
    /\ asking' = [asking EXCEPT ![a] = [op |-> c.op, history |-> c.history, items |-> PlanAbsorbAll(c.history, c.dismiss)]]
    /\ UNCHANGED <<aplan, taskVars, specVars, groupVars, intentVars>>

\* A command that is killed, or that its transaction refuses.
GiveUp(a) ==
  /\ ~Free(a)
  /\ Answer(a)
  /\ UNCHANGED <<aplan, taskVars, specVars, groupVars, intentVars>>

\* Captures are the rows of kinds that have no module state here.
ASSUME CapturesAssumption ==
  \A x \in ArtifactPlans : \A e \in x.captures : e[1] \notin {"task", "spec", "intent"}

ArtifactInit ==
  /\ aplan \in ArtifactPlans
  /\ tasks = <<>> /\ specs = aplan.startSpecs /\ bodies = <<>> /\ index = {}
  /\ edges = {} /\ tagged = {} /\ bundles = <<>> /\ members = {}
  /\ intents = <<>> /\ deferrals = <<>> /\ operations = <<>>
  /\ minted = {} /\ untouched = {}
  /\ asking = [a \in aplan.actors |-> Nothing]

ArtifactStep(a) ==
  \/ Ask(a) \/ AskAbsorb(a) \/ AskAbsorbAll(a) \/ GiveUp(a)
  \/ CreateTask(a) \/ UpdateTask(a) \/ ArchiveTask(a)
  \/ CreateSpec(a) \/ EditSpecBody(a) \/ SetSpecStatus(a) \/ ArchiveSpec(a) \/ DeleteSpec(a)
  \/ CreateLink(a) \/ RemoveLink(a) \/ AddTag(a) \/ RemoveTag(a)
  \/ CreateBundle(a) \/ UpdateBundle(a) \/ AddBundleMember(a) \/ RemoveBundleMember(a)
  \/ AbsorbOne(a) \/ AbsorbItem(a)

ArtifactNext ==
  \/ \E a \in Actors : ArtifactStep(a)
  \/ WriteSpecFile \/ CreateIntent \/ DeferIntent \/ AppendIntentDisposition \/ DropProvenance

ArtifactSpec == ArtifactInit /\ [][ArtifactNext]_artifactVars

----------------------------------------------------------------------------
(* What must hold. *)

\* The full-text index holds exactly the stored bodies: an edit, an import of a
\* source file or the deletion of a spec never leaves words behind that a search
\* would find in a body that no longer says them.
SearchMirrorsBodies == index = {<<e, bodies[e]>> : e \in DOMAIN bodies}

\* A task or an intent that was absorbed or dismissed gives no further issue
\* until a command has changed it again, however many absorb commands planned
\* for it before.  Only the history of tasks is exempt: there the note of the
\* latest event decides, and an event may sort before an older one.
AbsorbedOnce ==
  [][\A i \in minted' \ minted :
       (\A j \in minted : i.issue # j.issue) /\ i.source \in untouched => i.history /\ i.source[1] = "task"]_artifactVars

============================================================================
