--------------------------- MODULE MarkdownTasks ---------------------------
(* Tasks of a project without a database (internal/cli/cli.go, `loaf task'): one     *)
(* Markdown file per task and an index, TASKS.json, that holds the next number, an      *)
(* entry per task and an entry per spec. Every command reads the index, writes files      *)
(* and writes the index back whole, without a lock; commands of several processes        *)
(* overlap, stop anywhere, may leave the index torn, and the user edits the files.         *)
(*                                                                               *)
(* A title is a number and stands for its slug too; dates, priorities and              *)
(* dependencies beyond the check that they are indexed are left out.                  *)
EXTENDS Naturals, FiniteSets, FiniteSetsExt, TLC

CONSTANT TaskPlans \* instances: first files and index, the commands, processes, bounds

VARIABLES
  taskPlan,
  taskFiles,  \* [place, n, title] -> [status, spec, extra, body]
  specFiles,  \* spec -> status in its file
  taskIndex,  \* TASKS.json: [torn, next, tasks, specs]
  taskProc,   \* process -> the command it runs and what it has read
  taskLeft    \* commands, stops and edits still to come

taskVars == <<taskPlan, taskFiles, specFiles, taskIndex, taskProc, taskLeft>>

TaskIdle == [at |-> "idle"]
NoSpec == 0
EmptyIndex == [torn |-> FALSE, next |-> 1, tasks |-> <<>>, specs |-> <<>>]
Numbers(files) == {f.n : f \in DOMAIN files}
TaskPath(place, n, title) == [place |-> place, n |-> n, title |-> title]

NormalizeTaskStatus(s) == CASE s = "pending" -> "todo" [] s = "completed" -> "done" [] OTHER -> s
NormalizeSpecStatus(s) == CASE s = "draft" -> "drafting" [] s = "implemented" -> "complete" [] OTHER -> s

---------------------------------------------------------------------------
(* The index and the files. *)

\* What a file says of its task, and what a refresh or an import makes of all files: of
\* two files of one number the last in the sorted list stands, archived ones last.
ParseTaskFile(f) == LET s == NormalizeTaskStatus(taskFiles[f].status)
                    IN [title |-> f.title, status |-> s, spec |-> taskFiles[f].spec, completed |-> s = "done", file |-> f]
LastFile(n) ==
  CHOOSE f \in DOMAIN taskFiles :
    /\ f.n = n
    /\ \A g \in DOMAIN taskFiles : g.n = n => (g.place = "tasks" /\ f.place = "archive") \/ (g.place = f.place /\ g.title <= f.title)
BuildIndexFromFiles ==
  [torn |-> FALSE, next |-> 1 + Max(Numbers(taskFiles) \union {0}),
   tasks |-> [n \in Numbers(taskFiles) |-> ParseTaskFile(LastFile(n))],
   specs |-> [s \in DOMAIN specFiles |-> NormalizeSpecStatus(specFiles[s])]]

\* The frontmatter of an entry: an update writes it over the file's, dropping keys it does
\* not know; a push keeps those.
UpdatedFile(e) == [status |-> e.status, spec |-> e.spec, extra |-> FALSE,
                   body |-> IF e.file \in DOMAIN taskFiles THEN taskFiles[e.file].body ELSE "template"]
PushedFile(e) == [taskFiles[e.file] EXCEPT !.status = e.status, !.spec = e.spec]

\* What a refresh keeps of the index it finds when its scan is done: tasks numbered since
\* the scan began and specs that were not there then.
MergeRefreshIndex_ScanOnly(scan, now, next, specs) == [scan EXCEPT !.next = Max({scan.next, now.next})]
MergeRefreshIndex(scan, now, next, specs) ==
  LET newTasks == {n \in DOMAIN now.tasks \ DOMAIN scan.tasks : n >= next}
      newSpecs == (DOMAIN now.specs \ DOMAIN scan.specs) \ specs
      tasks == scan.tasks @@ [n \in newTasks |-> now.tasks[n]]
  IN [torn |-> FALSE, tasks |-> tasks, specs |-> scan.specs @@ [s \in newSpecs |-> now.specs[s]],
      next |-> Max({scan.next, now.next} \union {n + 1 : n \in DOMAIN tasks})]

LoadForRefresh == IF taskIndex.torn THEN EmptyIndex ELSE taskIndex

---------------------------------------------------------------------------
(* Processes. A refresh remembers, for the properties, whether another command or the    *)
(* user wrote since it began, and which tasks were created before it read the index a     *)
(* second time and not dropped from the index by another command.                      *)

Refreshing(c) == c.at \in {"scan", "reload", "rewrite"}
Disturbed(c, ix, made) ==
  IF ~Refreshing(c) THEN c
  ELSE [c EXCEPT !.quiet = FALSE, !.made = CASE c.at = "rewrite" -> @ [] ix.torn -> {} [] OTHER -> (@ \union made) \intersect DOMAIN ix.tasks]
Goes(p, c) == taskProc' = [taskProc EXCEPT ![p] = c]
Writes(p, c, made) == taskProc' = [q \in DOMAIN taskProc |-> IF q = p THEN c ELSE Disturbed(taskProc[q], taskIndex', made)]
Starts(p, op) == /\ taskProc[p].at = "idle" /\ taskLeft.commands > 0 /\ op \in taskPlan.ops
                 /\ taskLeft' = [taskLeft EXCEPT !.commands = @ - 1]

\* task create: the spec and the dependencies must be indexed; the number is the index's
\* next one. The file is refused if it is there, as far as the process saw.
CreateTask(p) == \E title \in taskPlan.titles, spec \in taskPlan.specs, deps \in taskPlan.deps :
  /\ Starts(p, "create")
  /\ ~taskIndex.torn /\ spec \in DOMAIN taskIndex.specs \union {NoSpec} /\ deps \subseteq DOMAIN taskIndex.tasks
  /\ LET f == TaskPath("tasks", taskIndex.next, title)
     IN /\ f \notin DOMAIN taskFiles
        /\ Goes(p, [at |-> "create", f |-> f, spec |-> spec, ix |-> taskIndex])
  /\ UNCHANGED <<taskPlan, taskFiles, specFiles, taskIndex>>
WriteTaskFile(p) == LET c == taskProc[p] IN
  /\ c.at = "create"
  /\ UNCHANGED taskIndex
  /\ taskFiles' = (c.f :> [status |-> "todo", spec |-> c.spec, extra |-> FALSE, body |-> "template"]) @@ taskFiles
  /\ Writes(p, [at |-> "created", f |-> c.f,
                ix |-> [c.ix EXCEPT !.next = @ + 1,
                                    !.tasks = (c.f.n :> [title |-> c.f.title, status |-> "todo", spec |-> c.spec, completed |-> FALSE, file |-> c.f]) @@ @]], {})
  /\ UNCHANGED <<taskPlan, specFiles, taskLeft>>
WriteCreated(p) == LET c == taskProc[p] IN
  /\ c.at = "created"
  /\ taskIndex' = c.ix
  /\ Writes(p, TaskIdle, {c.f.n})
  /\ UNCHANGED <<taskPlan, taskFiles, specFiles, taskLeft>>

\* task update: the entry of the index decides; the file is written first, again if it is gone.
UpdateTask(p) == \E n \in DOMAIN taskIndex.tasks, status \in taskPlan.statuses, spec \in taskPlan.specs :
  /\ Starts(p, "update")
  /\ ~taskIndex.torn /\ spec \in DOMAIN taskIndex.specs \union {NoSpec}
  /\ LET e == [taskIndex.tasks[n] EXCEPT !.status = status, !.spec = spec,
                 !.completed = (status = "done" /\ taskIndex.tasks[n].status # "done") \/ (@ /\ status = "done")]
     IN Goes(p, [at |-> "update", e |-> e, ix |-> [taskIndex EXCEPT !.tasks[n] = e]])
  /\ UNCHANGED <<taskPlan, taskFiles, specFiles, taskIndex>>
SyncTaskFrontmatter(p) == LET c == taskProc[p] IN
  /\ c.at = "update"
  /\ UNCHANGED taskIndex
  /\ taskFiles' = (c.e.file :> UpdatedFile(c.e)) @@ taskFiles
  /\ Writes(p, [at |-> "updated", ix |-> c.ix], {})
  /\ UNCHANGED <<taskPlan, specFiles, taskLeft>>
WriteUpdated(p) ==
  /\ taskProc[p].at = "updated"
  /\ taskIndex' = taskProc[p].ix
  /\ Writes(p, TaskIdle, {})
  /\ UNCHANGED <<taskPlan, taskFiles, specFiles, taskLeft>>

\* task refresh, and task sync without a flag.
RefreshTasks(p) ==
  /\ Starts(p, "refresh")
  /\ Goes(p, [at |-> "scan", next |-> LoadForRefresh.next, specs |-> DOMAIN LoadForRefresh.specs, quiet |-> TRUE, made |-> {}])
  /\ UNCHANGED <<taskPlan, taskFiles, specFiles, taskIndex>>
ScanTaskFiles(p) ==
  /\ taskProc[p].at = "scan"
  /\ Goes(p, [taskProc[p] EXCEPT !.at = "reload"] @@ [scan |-> BuildIndexFromFiles])
  /\ UNCHANGED <<taskPlan, taskFiles, specFiles, taskIndex, taskLeft>>
MergeRefresh(p) == LET c == taskProc[p] IN
  /\ c.at = "reload"
  /\ Goes(p, [at |-> "rewrite", quiet |-> c.quiet, made |-> c.made, ix |-> MergeRefreshIndex(c.scan, LoadForRefresh, c.next, c.specs)])
  /\ UNCHANGED <<taskPlan, taskFiles, specFiles, taskIndex, taskLeft>>
WriteRefreshed(p) ==
  /\ taskProc[p].at = "rewrite"
  /\ taskIndex' = taskProc[p].ix
  /\ Writes(p, TaskIdle, {})
  /\ UNCHANGED <<taskPlan, taskFiles, specFiles, taskLeft>>

\* task sync --import: orphans are added to the index that was read before the scan.
ImportTasks(p) ==
  /\ Starts(p, "import")
  /\ ~taskIndex.torn
  /\ Goes(p, [at |-> "import", ix |-> taskIndex])
  /\ UNCHANGED <<taskPlan, taskFiles, specFiles, taskIndex>>
ImportOrphans(p) ==
  LET c == taskProc[p]
      scan == BuildIndexFromFiles
      found == DOMAIN scan.tasks \ DOMAIN c.ix.tasks
      ix == [torn |-> FALSE, tasks |-> c.ix.tasks @@ scan.tasks, specs |-> c.ix.specs @@ scan.specs,
             next |-> Max({c.ix.next} \union {n + 1 : n \in found})]
  IN /\ c.at = "import"
     /\ Goes(p, IF ix.tasks = c.ix.tasks /\ ix.specs = c.ix.specs THEN TaskIdle ELSE [at |-> "updated", ix |-> ix])
     /\ UNCHANGED <<taskPlan, taskFiles, specFiles, taskIndex, taskLeft>>

\* task sync --push: every indexed file that is there gets its entry's frontmatter, one by one.
PushTasks(p) ==
  /\ Starts(p, "push")
  /\ ~taskIndex.torn
  /\ Goes(p, [at |-> "push", tasks |-> {taskIndex.tasks[n] : n \in DOMAIN taskIndex.tasks}, specs |-> taskIndex.specs])
  /\ UNCHANGED <<taskPlan, taskFiles, specFiles, taskIndex>>
PushTaskFile(p) == LET c == taskProc[p] IN
  /\ c.at = "push"
  /\ UNCHANGED taskIndex
  /\ \E e \in c.tasks :
       /\ taskFiles' = IF e.file \in DOMAIN taskFiles THEN [taskFiles EXCEPT ![e.file] = PushedFile(e)] ELSE taskFiles
       /\ Writes(p, [c EXCEPT !.tasks = @ \ {e}], {})
  /\ UNCHANGED <<taskPlan, specFiles, taskLeft>>
PushSpecFiles(p) == LET c == taskProc[p] IN
  /\ c.at = "push" /\ c.tasks = {}
  /\ UNCHANGED taskIndex
  /\ specFiles' = [s \in DOMAIN specFiles |-> IF s \in DOMAIN c.specs THEN c.specs[s] ELSE specFiles[s]]
  /\ Writes(p, TaskIdle, {})
  /\ UNCHANGED <<taskPlan, taskFiles, taskLeft>>

\* task archive: done tasks that are not archived; each file is moved if it is there and
\* its place in the archive is free. The index is written once, if anything moved.
Archivable(e) == e.status = "done" /\ e.file.place = "tasks"
ArchiveTasks(p) == \E refs \in SUBSET DOMAIN taskIndex.tasks :
  /\ Starts(p, "archive")
  /\ ~taskIndex.torn /\ refs # {}
  /\ Goes(p, [at |-> "archive", refs |-> {n \in refs : Archivable(taskIndex.tasks[n])}, moved |-> FALSE, ix |-> taskIndex])
  /\ UNCHANGED <<taskPlan, taskFiles, specFiles, taskIndex>>
MoveToArchive(p) == LET c == taskProc[p] IN
  /\ c.at = "archive" /\ c.refs # {}
  /\ UNCHANGED taskIndex
  /\ LET n == Min(c.refs)
         f == c.ix.tasks[n].file
         to == [f EXCEPT !.place = "archive"]
     IN IF f \in DOMAIN taskFiles /\ to \notin DOMAIN taskFiles
        THEN /\ taskFiles' = (to :> taskFiles[f]) @@ [g \in DOMAIN taskFiles \ {f} |-> taskFiles[g]]
             /\ Writes(p, [c EXCEPT !.refs = @ \ {n}, !.moved = TRUE, !.ix.tasks[n].file = to], {})
        ELSE /\ Goes(p, [c EXCEPT !.refs = @ \ {n}]) /\ UNCHANGED taskFiles
  /\ UNCHANGED <<taskPlan, specFiles, taskLeft>>
WriteArchived(p) == LET c == taskProc[p] IN
  /\ c.at = "archive" /\ c.refs = {}
  /\ IF c.moved THEN taskIndex' = c.ix /\ Writes(p, TaskIdle, {}) ELSE Goes(p, TaskIdle) /\ UNCHANGED taskIndex
  /\ UNCHANGED <<taskPlan, taskFiles, specFiles, taskLeft>>

---------------------------------------------------------------------------
(* A process stops, perhaps in the middle of writing the index; the user edits.         *)

StopTasks(p) == \E torn \in BOOLEAN :
  /\ taskProc[p].at # "idle" /\ taskLeft.stops > 0
  /\ torn => taskProc[p].at \in {"created", "updated", "rewrite"} \/ (taskProc[p].at = "archive" /\ taskProc[p].moved /\ taskProc[p].refs = {})
  /\ taskIndex' = [taskIndex EXCEPT !.torn = @ \/ torn]
  /\ Writes(p, TaskIdle, {})
  /\ taskLeft' = [taskLeft EXCEPT !.stops = @ - 1]
  /\ UNCHANGED <<taskPlan, taskFiles, specFiles>>

\* A file is written or deleted in an editor, or comes and goes with a checkout.
EditTaskFiles == \E edit \in taskLeft.edits :
  /\ taskLeft' = [taskLeft EXCEPT !.edits = @ \ {edit}]
  /\ CASE edit.kind = "write" -> taskFiles' = (edit.f :> edit.file) @@ taskFiles /\ UNCHANGED specFiles
       [] edit.kind = "delete" -> taskFiles' = [g \in DOMAIN taskFiles \ {edit.f} |-> taskFiles[g]] /\ UNCHANGED specFiles
       [] OTHER -> specFiles' = (edit.spec :> edit.status) @@ specFiles /\ UNCHANGED taskFiles
  /\ taskProc' = [q \in DOMAIN taskProc |-> Disturbed(taskProc[q], taskIndex, {})]
  /\ UNCHANGED <<taskPlan, taskIndex>>

---------------------------------------------------------------------------
TaskInit ==
  /\ taskPlan \in TaskPlans
  /\ taskFiles = taskPlan.files /\ specFiles = taskPlan.specFiles /\ taskIndex = taskPlan.index
  /\ taskProc = [p \in taskPlan.procs |-> TaskIdle]
  /\ taskLeft = [commands |-> taskPlan.commands, stops |-> taskPlan.stops, edits |-> taskPlan.edits]

TaskNext ==
  \/ \E p \in DOMAIN taskProc :
       \/ CreateTask(p) \/ WriteTaskFile(p) \/ WriteCreated(p)
       \/ UpdateTask(p) \/ SyncTaskFrontmatter(p) \/ WriteUpdated(p)
       \/ RefreshTasks(p) \/ ScanTaskFiles(p) \/ MergeRefresh(p) \/ WriteRefreshed(p)
       \/ ImportTasks(p) \/ ImportOrphans(p) \/ PushTasks(p) \/ PushTaskFile(p) \/ PushSpecFiles(p)
       \/ ArchiveTasks(p) \/ MoveToArchive(p) \/ WriteArchived(p) \/ StopTasks(p)
  \/ EditTaskFiles

TaskSpec == TaskInit /\ [][TaskNext]_taskVars

---------------------------------------------------------------------------
(* Properties. *)

\* The index has the tasks and specs of the files, each under its number with its file and
\* completion (titles, statuses and specs of an entry are not compared), and a free next number.
Mirrors(ix) ==
  /\ DOMAIN ix.tasks = Numbers(taskFiles) /\ DOMAIN ix.specs = DOMAIN specFiles
  /\ \A n \in DOMAIN ix.tasks :
       LET e == ix.tasks[n]
       IN e.file.n = n /\ e.file \in DOMAIN taskFiles /\ e.completed = (NormalizeTaskStatus(taskFiles[e.file].status) = "done")
  /\ \A n \in Numbers(taskFiles) : n < ix.next

\* A refresh during which nothing else was written leaves an index that mirrors the files,
\* whatever commands had raced or stopped half way before it, a torn index included; and
\* a task whose creation was finished between the two times a refresh reads the index, and
\* that no other command dropped from it, is in the index the refresh writes
\* (mergeMarkdownTaskRefreshIndex).
RefreshesAreTrue ==
  [][\A p \in DOMAIN taskProc :
       WriteRefreshed(p) => /\ taskProc[p].quiet => Mirrors(taskIndex')
                            /\ taskProc[p].made \subseteq DOMAIN taskIndex'.tasks]_taskVars
============================================================================
