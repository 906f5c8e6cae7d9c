---------------------------- MODULE MCWorkspace ----------------------------
(* Instances for TLC of the four modules of the work a project keeps in its   *)
(* database: Issues, IssueTracker, CoreEvents and Artifacts. They share no     *)
(* state, so a behaviour is one of one of them: `part' says which.             *)
EXTENDS Issues, IssueTracker, CoreEvents, Artifacts, TLC

CONSTANT Parts

VARIABLE part

vars == <<part, issueVars, trackerVars, coreVars, artifactVars>>

---------------------------------------------------------------------------
(* Plans of Issues. *)

PlanOf(ops, ids, refs, crits, texts, statuses) ==
  [ops |-> ops, ids |-> ids, refs |-> refs, crits |-> crits, bodies |-> texts, statuses |-> statuses]

IssuePlans ==
  {PlanOf({"create", "parent", "delete", "start"}, 1..3, {}, 0, {"empty"}, {}),
   PlanOf({"create", "legacy", "decide", "text", "status", "remove", "rehome"}, 1..2, {}, 0,
          {"scoped", "question"}, {"done"}),
   PlanOf({"create", "link", "remove", "delete"}, 1..2, {}, 0, {"empty"}, {}),
   PlanOf({"create", "bucket"}, 1..1, {}, 0, {"empty"}, {}),
   PlanOf({"create", "criteria", "promote", "claim", "delete", "parent"}, 1..2, {}, 2, {"empty"}, {}),
   PlanOf({"create", "criteria", "contract", "render", "remove"}, 1..1, {11}, 2, {"empty"}, {"todo"}),
   PlanOf({"contract"}, {}, {11, 12}, 2, {}, {})}

---------------------------------------------------------------------------
(* Plans of IssueTracker. *)

RemoteIssue(status, parent) == [status |-> status, parent |-> parent, at |-> 1]

Eng(n) == <<"ENG", n>>

Unconfigured == [authority |-> "none", prefix |-> "none"]
OnLinear == [authority |-> "linear", prefix |-> "ENG"]

TrackerPlan(ops, ids, keys, rem, procs, clock, statuses, defines, cfg) ==
  [ops |-> ops, ids |-> ids, keys |-> keys, remote |-> rem, procs |-> procs, clock |-> clock,
   statuses |-> statuses, defines |-> defines, config |-> cfg, derived |-> "APP"]

OneRemote == Eng(1) :> RemoteIssue("todo", NoName)
TwoRemote == OneRemote @@ Eng(2) :> RemoteIssue("triage", Eng(1))

SomeTrackerPlans ==
  {TrackerPlan({"pull", "kill"}, 1..3, 2, TwoRemote, {"p", "q"}, 0, {}, {}, Unconfigured),
   TrackerPlan({"pull", "remote", "delete"}, 1..3, 2, TwoRemote, {"p"}, 0, {"todo", "done"}, {}, Unconfigured),
   TrackerPlan({"new", "pull", "kill"}, 1..2, 1, <<>>, {"p", "q"}, 0, {}, {}, OnLinear),
   TrackerPlan({"apply", "bootstrap", "new", "kill"}, 1..2, 1, <<>>, {"p", "q"}, 0, {}, {}, OnLinear),
   TrackerPlan({"pull", "push", "reconcile", "edit", "remote"}, 1..1, 1, OneRemote, {"p"}, 6,
               {"todo", "duplicate"}, {}, Unconfigured),
   TrackerPlan({"pull", "new", "define"}, 1..2, 1, OneRemote, {"p"}, 0, {},
               {<<"linear", "ENG">>, <<"local", "ENG">>, <<"local", "APP">>}, Unconfigured),
   TrackerPlan({"define", "align", "new", "kill"}, 1..2, 1, <<>>, {"p", "q"}, 0, {},
               {<<"local", "LOAF">>, <<"local", "APP">>, <<"linear", "ENG">>}, Unconfigured)}

---------------------------------------------------------------------------
(* Plans of CoreEvents. *)

CorePlan(ops, names, issues, taskNames, keys, vals, stamps) ==
  [ops |-> ops, machines |-> 1..2, procs |-> {1}, names |-> names, issues |-> issues,
   tasks |-> taskNames, keys |-> keys, vals |-> vals, stamps |-> stamps, rows |-> {}, events |-> <<>>]

Neither == [m \in 1..2 |-> {}]
Has(a, b) == [m \in 1..2 |-> IF m = 1 THEN a ELSE b]

Old(kind, n, val) == Payload(kind, <<0, n>>, "", val, {})

SomeCorePlans ==
  {CorePlan({"spark", "promote"}, 1, Neither, Neither, {}, {}, 1..3),
   CorePlan({"idea", "promote"}, 1, Neither, Neither, {}, {}, 1..2),
   CorePlan({"idea"}, 1, Neither, Neither, {}, {}, 1..3),
   CorePlan({"release"}, 0, Has({<<9, 1>>}, {<<9, 2>>}), Neither, {"v1", "v2"}, {}, 1..2),
   CorePlan({"handoff"}, 2, Neither, Has({"t"}, {}), {}, {}, 1..2),
   CorePlan({"ref", "config"}, 0, Neither, Neither, {"A"}, {"x"}, 1..3),
   CorePlan({"mapping", "verification"}, 0, Neither, Neither, {"A"}, {"x"}, 1..3),
   CorePlan({"worktree"}, 0, Has({<<9, 1>>}, {<<9, 1>>, <<9, 2>>}), Neither, {}, {"x"}, 1..3),
   [CorePlan({"spark", "idea"}, 1, Neither, Neither, {}, {}, {3, 6})
      EXCEPT !.rows = {Old("spark", 1, "done"), Old("idea", 1, "archived"),
                       Payload("release", <<1, 9>>, "v0", "", {})},
             !.events = <<Old("spark", 1, "open"), Old("idea", 1, "done")>>]}

---------------------------------------------------------------------------
(* Plans of Artifacts. *)

NoCommands ==
  [actors |-> {"a", "b"}, tasks |-> 0, specs |-> 0, specFiles |-> {}, startSpecs |-> <<>>,
   fileContents |-> {}, intents |-> 0, dispositions |-> 3, legacyKeys |-> {}, captures |-> {},
   minted |-> 2, otherIssues |-> FALSE, edits |-> FALSE, commands |-> {}]

OldSpec == 1 :> [status |-> "complete", events |-> {}, file |-> "text"]

NewTask(s, d) == [op |-> "task_create", spec |-> s, deps |-> d]
SetTask(t, s) == [op |-> "task_update", task |-> t, set |-> {"status"}, status |-> s, spec |-> 0, deps |-> {}]
OnSpec(op) == [op |-> op, spec |-> 1]
Tag(op, e) == [op |-> op, tag |-> "t", entity |-> e]
Link(op, type) == [op |-> op, from |-> Task(1), type |-> type, to |-> Spec(1)]
Edit(f, b) == [op |-> "spec_edit", spec |-> 1, force |-> f, body |-> b]
NewSpec(n, b) == [op |-> "spec_create", number |-> n, related |-> {}, body |-> b]
SetBundle(set, t, g) == [op |-> "bundle_update", slug |-> "s", set |-> set, title |-> t, tags |-> g]
NewIntent(d, k, ss) == [op |-> "intent_create", deferred |-> d, key |-> k, sources |-> ss]
OnIntent(op, n) == [op |-> op, intent |-> n]
AbsorbEach(h, d) == [op |-> "absorb_all", history |-> h, dismiss |-> d]
AbsorbThis(e, d) == [op |-> "absorb", source |-> e, dismiss |-> d]

SomeArtifactPlans ==
  {[NoCommands EXCEPT !.tasks = 2, !.specs = 1, !.startSpecs = OldSpec,
      !.commands = {NewTask(1, {}), NewTask(0, {1}), SetTask(1, "done"),
                    [SetTask(1, "todo") EXCEPT !.set = {"spec", "deps"}, !.spec = 1, !.deps = {1}],
                    OnSpec("task_archive"), OnSpec("spec_archive"), OnSpec("spec_delete"),
                    [op |-> "spec_status", spec |-> 1, status |-> "done"]}],
   [NoCommands EXCEPT !.specs = 2, !.startSpecs = OldSpec, !.fileContents = {"text", "file"},
      !.commands = {Edit(FALSE, "new"), Edit(TRUE, "newer"), NewSpec(1, "first"),
                    [NewSpec(0, "") EXCEPT !.related = {1}], OnSpec("spec_delete")}],
   [NoCommands EXCEPT !.specs = 1, !.tasks = 1, !.startSpecs = OldSpec,
      !.commands = {NewTask(0, {}), OnSpec("spec_delete"), NewSpec(1, ""),
                    Tag("tag_add", Spec(1)), Tag("tag_remove", Spec(1)),
                    Link("link_create", "about"), Link("link_remove", "about")}],
   [NoCommands EXCEPT !.specs = 1, !.startSpecs = OldSpec,
      !.commands = {[op |-> "bundle_create", slug |-> "s", title |-> "one", tags |-> {}],
                    SetBundle({"title"}, "two", {}), SetBundle({"tags"}, "", {"t"}),
                    [op |-> "member_add", slug |-> "s", entity |-> Spec(1)],
                    [op |-> "member_remove", slug |-> "s", entity |-> Spec(1)], OnSpec("spec_delete")}],
   [NoCommands EXCEPT !.intents = 2, !.captures = {<<"idea", 1>>}, !.legacyKeys = {3}, !.dispositions = 4,
      !.commands = {NewIntent(FALSE, 0, {<<"idea", 1>>}), NewIntent(TRUE, 1, {}), NewIntent(FALSE, 3, {}),
                    [op |-> "intent_defer", intent |-> 1, key |-> 2],
                    [op |-> "intent_defer", intent |-> 2, key |-> 1],
                    OnIntent("intent_resume", 1), OnIntent("intent_resolve", 1),
                    AbsorbThis(Intent(1), FALSE), AbsorbThis(Intent(1), TRUE),
                    AbsorbEach(FALSE, FALSE), AbsorbEach(TRUE, FALSE)}],
   [NoCommands EXCEPT !.tasks = 1, !.edits = TRUE,
      !.commands = {NewTask(0, {}), SetTask(1, "done"), AbsorbThis(Task(1), FALSE), AbsorbEach(TRUE, FALSE)}],
   [NoCommands EXCEPT !.tasks = 1,
      !.commands = {NewTask(0, {}), SetTask(1, "todo"), AbsorbThis(Task(1), FALSE),
                    AbsorbThis(Task(1), TRUE), AbsorbEach(FALSE, TRUE), AbsorbEach(TRUE, FALSE)}]}

---------------------------------------------------------------------------

Init ==
  /\ part \in Parts
  /\ IssuesInit /\ (part # "issues" => plan = CHOOSE p \in Plans : TRUE)
  /\ TrackerInit /\ (part # "tracker" => tplan = CHOOSE p \in TrackerPlans : TRUE)
  /\ CoreInit /\ (part # "core" => cplan = CHOOSE p \in CorePlans : TRUE)
  /\ ArtifactInit /\ (part # "artifacts" => aplan = CHOOSE p \in ArtifactPlans : TRUE)

Next ==
  \/ /\ part = "issues" /\ IssuesNext
     /\ UNCHANGED <<part, trackerVars, coreVars, artifactVars>>
  \/ /\ part = "tracker" /\ TrackerNext
     /\ UNCHANGED <<part, issueVars, coreVars, artifactVars>>
  \/ /\ part = "core" /\ CoreNext
     /\ UNCHANGED <<part, issueVars, trackerVars, artifactVars>>
  \/ /\ part = "artifacts" /\ ArtifactNext
     /\ UNCHANGED <<part, issueVars, trackerVars, coreVars>>

WorkspaceSpec == Init /\ [][Next]_vars
=============================================================================
