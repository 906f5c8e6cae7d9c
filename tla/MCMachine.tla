---------------------------- MODULE MCMachine ----------------------------
(* Instances for TLC of what Loaf keeps on one machine beside the project's      *)
(* database. The modules share no state, so a behaviour is one of one of them:    *)
(* `part' says which.                                                              *)
EXTENDS HostInstall, HookReconcile, StateHome, StateRepairs, Scratchpad, IssueWorktrees, MarkdownTasks

CONSTANT Parts

VARIABLE part

vars == <<part, installVars, hookVars, homeVars, repairVars, padVars, treeVars, taskVars>>

---------------------------------------------------------------------------
(* Plans of HostInstall. *)

Cmd(op, v) == [op |-> op, ver |-> v, basic |-> FALSE, trusted |-> TRUE]
Basic(v) == [Cmd("install", v) EXCEPT !.basic = TRUE]
Dist(sk, ar, ru, ag) == [skills |-> sk, artifacts |-> ar, rule |-> ru, agents |-> ag]
Fresh(n, dests) == [shelf |-> [s \in 1..n |-> Absent], shelfManifest |-> [version |-> 0, digests |-> <<>>],
   files |-> [f \in dests \cup RuleParts |-> Absent], fileManifest |-> [there |-> FALSE, digests |-> <<>>],
   owned |-> <<>>, agents |-> {}, marker |-> 0, touched |-> {}]
HP(dist, start, cmds, procs, edits, stops, ed) == [dist |-> dist, start |-> start, cmds |-> cmds, procs |-> procs,
   faults |-> [edits |-> edits, stops |-> stops], editable |-> ed]
V1 == Dist(1 :> "s1" @@ 2 :> "t1", <<>>, Absent, {})
V2 == Dist(1 :> "s2" @@ 3 :> "u2", <<>>, Absent, {})
W1 == Dist(<<>>, "a" :> "a1" @@ "b" :> "b1", Absent, {"x1"})
W2 == Dist(<<>>, "a" :> "a2" @@ "c" :> "c2", Absent, {"x2"})
W3 == Dist(<<>>, "a" :> "a3" @@ "c" :> "c2", Absent, {"x2"})
R1 == Dist(<<>>, <<>>, "r1", {})
R2 == Dist(<<>>, <<>>, "r2", {})
R3 == Dist(<<>>, <<>>, Absent, {})
Skills == HP(<<V1, V2>>, Fresh(3, {}), {Cmd("install", 1), Cmd("upgrade", 2)}, {"p"}, 2, 1, {})
OldShelf == [Fresh(3, {}) EXCEPT !.shelf = <<"s0", User, Absent>>, !.shelfManifest = [version |-> 1, digests |-> 1 :> ""], !.touched = {<<"skill", 2>>}]
Legacy == HP(<<V1, V2>>, OldShelf, {Cmd("upgrade", 1), Cmd("upgrade", 2)}, {"p"}, 1, 1, {})
Adapters == HP(<<W1, W2>>, Fresh(0, {"a", "b", "c"}), {Cmd("install", 1), Cmd("upgrade", 2), Cmd("reconcile", 2)}, {"p", "q"}, 1, 1, {"a", "c"})
Foreign == HP(<<W1, W2>>, [Fresh(0, {"a", "b", "c"}) EXCEPT !.files["c"] = User, !.touched = {<<"file", "c">>}, !.agents = {"mine"}], {Cmd("install", 1), Cmd("upgrade", 2)}, {"p"}, 1, 2, {"c"})
Rules == HP(<<R1, R2, R3>>, Fresh(0, {}), {Basic(1), Cmd("upgrade", 2), Cmd("upgrade", 3), Cmd("upgrade", 1)}, {"p"}, 1, 1, RuleParts)
OldRule == HP(<<R1, R2>>, [Fresh(0, {}) EXCEPT !.files["rule"] = OldForm, !.files["guidance"] = OldForm, !.owned = "rule" :> OldForm @@ "guidance" :> OldForm],
   {Basic(1), Cmd("upgrade", 2), [Cmd("upgrade", 1) EXCEPT !.trusted = FALSE]}, {"p"}, 1, 1, RuleParts)
Late == HP(<<W1, W2, W3>>, Fresh(0, {"a", "b", "c"}), {Cmd("install", 1), Cmd("reconcile", 2), Cmd("upgrade", 3)}, {"p", "q"}, 0, 0, {})
HPs == {Late, Skills, Legacy, Adapters, Foreign, Rules, OldRule}

---------------------------------------------------------------------------
(* Plans of HookReconcile. *)

Ver(hooks, text, cohorts, last) == [hooks |-> hooks, text |-> text, cohorts |-> cohorts, lastCohort |-> last]
HCmd(op, v, exe, h) == [op |-> op, ver |-> v, exe |-> exe, hook |-> h]
HookEntry(h, exe, t) == [kind |-> "hook", hook |-> h, exe |-> exe, text |-> t]
Other(n) == [kind |-> "user", hook |-> NoHook, exe |-> NoPath, text |-> n]
RetiredEntry == [kind |-> "retired", hook |-> NoHook, exe |-> NoPath, text |-> "old"]
K1 == Ver({1, 2}, 1 :> "a" @@ 2 :> "b", <<{1, 2}>>, {1, 2})
K2 == Ver({1, 2, 3}, 1 :> "c" @@ 2 :> "b" @@ 3 :> "d", <<{1, 2}>>, {1, 2})
KPlan(vs, f, man, trusted, dec, cmds, procs, others, edits, stops) ==
 [versions |-> vs, file |-> f, manifest |-> man, trusted |-> trusted, declined |-> dec, cmds |-> cmds, procs |-> procs, others |-> others, edits |-> edits, stops |-> stops]
NoManifest == [there |-> FALSE, ver |-> 0, row |-> FALSE]
Ups == {HCmd("install", 1, "e1", 0), HCmd("install", 2, "e2", 0), HCmd("disable", 2, "e2", 1)}
V1File == <<HookEntry(1, "e1", "a"), Other("x"), RetiredEntry>>
V1Manifest == [there |-> TRUE, ver |-> 1, row |-> TRUE]
KA == KPlan(<<K1, K2>>, <<>>, NoManifest, [current |-> NoPath, known |-> {}], {}, Ups, {"p"}, {Other("x")}, 1, 1)
KB == KPlan(<<K1, K2>>, V1File, V1Manifest, [current |-> "e1", known |-> {"e1"}], {2}, {HCmd("install", 2, "e2", 0), HCmd("install", 2, NoPath, 0), HCmd("enable", 1, "e1", 2)}, {"p"}, {Other("y")}, 1, 1)
KC == KPlan(<<K1, K2>>, <<HookEntry(1, "e1", "a")>>, V1Manifest, [current |-> "e1", known |-> {"e1"}], {2}, {HCmd("install", 2, "e2", 0), HCmd("disable", 2, "e2", 3)}, {"p", "q"}, {Other("y")}, 1, 1)
KPs == {KA, KB, KC}

---------------------------------------------------------------------------
(* Plans of StateHome. *)

Db(v, proj, rs, ks) == [there |-> TRUE, ver |-> v, project |-> proj, rows |-> [i \in rs |-> "new"],
  facts |-> [k \in ks |-> [id |-> k[3], text |-> "new"]], clock |-> <<>>, origins |-> IF v = "old" THEN {} ELSE rs, index |-> [i \in rs |-> "new"]]
OldDb(n) == Db("old", TRUE, 1..n, {})
NewDb(n) == [Db("current", TRUE, 1..n, {}) EXCEPT !.facts = [k \in {<<Host, i>> : i \in 1..n} |-> [id |-> k[2], text |-> "new"]], !.clock = Host :> n + 1]
Shared == [NewDb(0) EXCEPT !.project = FALSE, !.clock = <<>>]
HomeCase(g, l, cmds, ids, procs, stops, writes, mb) == [global |-> g, legacy |-> l, cmds |-> cmds, ids |-> ids, procs |-> procs, stops |-> stops, writes |-> writes, maxBackups |-> mb]
Moves == HomeCase(NoDatabase, OldDb(2), {"migrate", "init", "log", "log-old"}, {3, 4}, {"p", "q"}, 1, 0, 1)
Joins == HomeCase(Shared, NewDb(1), {"migrate", "init", "log", "log-old", "facts"}, {2, 3, 4}, {"p", "q"}, 0, 0, 1)
JoinsOld == HomeCase(Shared, OldDb(1), {"migrate", "log", "facts"}, {2, 3, 4}, {"p"}, 0, 0, 1)
Climbs == HomeCase(OldDb(1), NoDatabase, {"upgrade", "log", "facts", "search"}, {2, 3}, {"p", "q"}, 1, 0, 3)
Broken == HomeCase([NewDb(2) EXCEPT !.rows = 1 :> "edited", !.index = 2 :> "new"], NoDatabase, {"search", "facts", "log", "backup"}, {3}, {"p", "q"}, 0, 0, 2)
Trials == HomeCase(NewDb(1), NoDatabase, {"backup", "log", "rehearse"}, {2}, {"p", "q"}, 1, 2, 2)
Retires == HomeCase(NoDatabase, NewDb(1), {"migrate", "archive", "log-old"}, {2}, {"p", "q"}, 0, 0, 1)
Homes == {Moves, Joins, JoinsOld, Climbs, Broken, Trials, Retires}

---------------------------------------------------------------------------
(* Plans of StateRepairs. *)

Ent(title, made, body, src, salted, bornAs) == [title |-> title, made |-> made, body |-> body, path |-> title, src |-> src, salted |-> salted, bornAs |-> bornAs, status |-> "completed"]
Tables(rows, alias, edges, deferrals, links, journal) ==
  [rows |-> rows, alias |-> alias, edges |-> edges, deferrals |-> deferrals, links |-> links, journal |-> journal,
   sources |-> {rows[id].src : id \in DOMAIN rows}, report |-> "active"]
RepairCase(tables, cmds, retires, realiases, procs, stops, creates, defers, archives, others, mm) ==
  [db |-> tables, cmds |-> cmds, retires |-> retires, realiases |-> realiases, procs |-> procs, stops |-> stops, creates |-> creates,
   defers |-> defers, archives |-> archives, others |-> others, rollbacks |-> TRUE, maxManifests |-> mm, fresh |-> Ent("new", 9, "b", 0, FALSE, "none")]
NoFlag == 0 :> "x"
Bare == [k \in {} |-> ""]
\* Rows 1-3 lost their alias to 4 and 5; 1 is derived, 2 and 3 share a title.
Twins == Tables((1 :> Ent("a", 1, "b", 1, FALSE, "A")) @@ (2 :> Ent("t", 1, "", 2, FALSE, "none")) @@ (3 :> Ent("t", 2, "c", 2, FALSE, "none"))
                @@ (4 :> Ent("a", 3, "b", 3, FALSE, "none")) @@ (5 :> Ent("t", 3, "", 4, FALSE, "none")),
                ("A" :> 4) @@ ("T" :> 5) @@ ("X" :> 8) @@ ("Y" :> 9), {<<1, 8>>, <<2, 4>>}, (11 :> 1) @@ (12 :> 2), (21 :> 1) @@ (22 :> 4), Bare)
\* Two orphans by one path of an older id of the project.
Salted == Tables((1 :> Ent("s", 1, "b", 1, TRUE, "none")) @@ (2 :> Ent("s", 2, "c", 1, TRUE, "none")) @@ (3 :> Ent("s", 4, "d", 2, FALSE, "none")),
                 "S" :> 3, {<<1, 2>>}, 11 :> 1, (21 :> 1) @@ (22 :> 2), Bare)
Line(k, made) == [key |-> k, made |-> made]
Doubles == Tables(Bare, Bare, {}, (11 :> 31) @@ (12 :> 33), Bare,
                  (31 :> Line("x", 1)) @@ (32 :> Line("x", 3)) @@ (33 :> Line("y", 1)) @@ (34 :> Line("y", 1)) @@ (35 :> Line("y", 3)))
ByTwins == RepairCase(Twins, {"orphans", "statuses"}, {{}, {3}}, {Bare, 3 :> "X"}, {"p"}, 1, {<<7, "X">>}, {13}, FALSE, TRUE, 2)
ByFlags == RepairCase(Salted, {"orphans"}, {{}, {2}}, {Bare, 1 :> "Z", 1 :> "S"}, {"p", "q"}, 0, {}, {}, FALSE, FALSE, 2)
ByPairs == RepairCase(Doubles, {"journal"}, {{}, {33}, {35}}, {Bare}, {"p", "q"}, 1, {}, {13}, FALSE, TRUE, 2)
ByStatus == RepairCase(Salted, {"statuses"}, {{}}, {Bare}, {"p", "q"}, 1, {}, {}, TRUE, TRUE, 2)
RepairCases == {ByTwins, ByFlags, ByPairs, ByStatus}

---------------------------------------------------------------------------
(* Plans of Scratchpad. *)

Runs(d, w, runs) == {[env |-> d, who |-> w, run |-> n] : n \in runs}
PadCmd(op, ch, r) == [op |-> op, ch |-> ch, thing |-> r]
PadCase(whos, cmds, ms, mq, mn, lim, stops) == [machines |-> {1, 2}, agents |-> whos, cmds |-> cmds, channels |-> {"c", "d"}, maxStamp |-> ms,
   maxSeq |-> mq, maxNow |-> mn, lease |-> 1, limit |-> lim, stops |-> stops]
Talks == PadCase(Runs(1, "a", {1, 2}) \cup Runs(2, "a", {1}), {PadCmd("message", "c", "-")}, 3, 3, 0, 1, FALSE)
Rooms == PadCase(Runs(1, "a", {1}) \cup Runs(2, "b", {1}), {PadCmd("message", "c", "-"), PadCmd("message", "d", "-"), PadCmd("close", "c", "-")}, 2, 2, 0, 0, TRUE)
Leases == PadCase(Runs(1, "a", {1}) \cup Runs(2, "b", {1}), {PadCmd("claim", "c", "r"), PadCmd("release", "c", "r"), PadCmd("close", "c", "-")}, 2, 2, 1, 0, FALSE)
Pads == {Talks, Rooms, Leases}

---------------------------------------------------------------------------
(* Plans of IssueWorktrees. *)

Own(kind, slug, parent) == [kind |-> kind, slug |-> slug, parent |-> parent, status |-> "todo", archived |-> FALSE, branch |-> NoTree, tree |-> NoTree]
TreeCase(rows, n, asks, starters, stoppers, stops, writes, hands, dirties, ups) == [owner |-> rows, branches |-> {DefaultBranch}, asks |-> asks, starters |-> starters,
   stoppers |-> stoppers, faults |-> [commands |-> n, stops |-> stops, writes |-> writes, gone |-> {}], hands |-> hands, dirties |-> dirties, updates |-> ups]
Family == (1 :> Own("issue", "x", NoOwner)) @@ (2 :> Own("issue", "y", 1)) @@ (3 :> [Own("issue", "z", NoOwner) EXCEPT !.archived = TRUE])
Namesakes == (1 :> Own("issue", "x", NoOwner)) @@ (2 :> Own("issue", "x", NoOwner)) @@ (3 :> Own("contract", <<"issue", "x">>, NoOwner))
Edit1(rows, i, f, v) == <<i, [rows[i] EXCEPT ![f] = v]>>
Kin == TreeCase(Family, 3, {1, 2, 3}, {"p", "q"}, {"s"}, 1, 1, TRUE, TRUE, {})
Same == TreeCase(Namesakes, 4, {1, 2, 3}, {"p", "q"}, {"s"}, 0, 1, FALSE, FALSE, {})
Grows == TreeCase(Family, 3, {1, 2}, {"p", "q"}, {}, 0, 0, FALSE, FALSE, {Edit1(Family, 2, "parent", NoOwner), <<2, Family[2]>>, Edit1(Family, 1, "status", "done"), Edit1(Family, 1, "slug", "y")})
TreeCases == {Kin, Same, Grows}

---------------------------------------------------------------------------
(* Plans of MarkdownTasks. *)

TaskFile(status, spec) == [status |-> status, spec |-> spec, extra |-> TRUE, body |-> "words"]
TaskEntry(n, t, status) == [title |-> t, status |-> status, spec |-> NoSpec, completed |-> status = "done", file |-> TaskPath("tasks", n, t)]
OneTask == (TaskPath("tasks", 1, 1) :> TaskFile("done", NoSpec))
OneIndex == [torn |-> FALSE, next |-> 2, tasks |-> (1 :> TaskEntry(1, 1, "done")), specs |-> (1 :> "drafting")]
TaskCase(procs, ops, n, stops, edits) == [files |-> OneTask, specFiles |-> (1 :> "draft"), index |-> OneIndex, procs |-> procs, ops |-> ops, commands |-> n, stops |-> stops,
   edits |-> edits, titles |-> {1, 2}, specs |-> {NoSpec, 1}, deps |-> {{}, {1}}, statuses |-> {"done", "todo"}]
NewFile == [kind |-> "write", f |-> TaskPath("tasks", 2, 1), file |-> TaskFile("completed", 1)]
LostFile == [kind |-> "delete", f |-> TaskPath("tasks", 1, 1)]
NewSpec == [kind |-> "spec", spec |-> 2, status |-> "implemented"]
TaskCases == {[TaskCase({"p", "q"}, {"create", "refresh"}, 3, 1, {}) EXCEPT !.specs = {NoSpec}, !.deps = {{1}}],
   [TaskCase({"p", "q"}, {"refresh", "update", "archive"}, 3, 1, {}) EXCEPT !.statuses = {"todo", "done"}, !.specs = {NoSpec}],
   [TaskCase({"p"}, {"create", "refresh", "update", "import", "push", "archive"}, 3, 0, {NewFile, LostFile, NewSpec}) EXCEPT !.titles = {1}, !.deps = {{}}, !.specs = {1}, !.statuses = {"todo"}],
   [TaskCase({"p", "q"}, {"refresh", "import", "push"}, 2, 1, {NewFile, NewSpec}) EXCEPT !.deps = {{}}]}

---------------------------------------------------------------------------
(* One part at a time: the others stay in a first state of theirs. *)

MachineInit ==
  /\ part \in Parts
  /\ InstallInit
  /\ HookInit
  /\ HomeInit
  /\ RepairInit
  /\ PadInit
  /\ TreeInit
  /\ TaskInit
  /\ part # "install" => hplan = CHOOSE x \in InstallPlans : TRUE
  /\ part # "hooks" => hkplan = CHOOSE x \in HookPlans : TRUE
  /\ part # "home" => homePlan = CHOOSE x \in HomePlans : TRUE
  /\ part # "repairs" => repairPlan = CHOOSE x \in RepairPlans : TRUE
  /\ part # "pad" => padPlan = CHOOSE x \in PadPlans : TRUE
  /\ part # "trees" => treePlan = CHOOSE x \in TreePlans : TRUE
  /\ part # "tasks" => taskPlan = CHOOSE x \in TaskPlans : TRUE

MachineNext ==
  /\ UNCHANGED part
  /\ \/ part = "install" /\ InstallNext /\ UNCHANGED <<hookVars, homeVars, repairVars, padVars, treeVars, taskVars>>
     \/ part = "hooks" /\ HookNext /\ UNCHANGED <<installVars, homeVars, repairVars, padVars, treeVars, taskVars>>
     \/ part = "home" /\ HomeNext /\ UNCHANGED <<installVars, hookVars, repairVars, padVars, treeVars, taskVars>>
     \/ part = "repairs" /\ RepairNext /\ UNCHANGED <<installVars, hookVars, homeVars, padVars, treeVars, taskVars>>
     \/ part = "pad" /\ PadNext /\ UNCHANGED <<installVars, hookVars, homeVars, repairVars, treeVars, taskVars>>
     \/ part = "trees" /\ WorktreeNext /\ UNCHANGED <<installVars, hookVars, homeVars, repairVars, padVars, taskVars>>
     \/ part = "tasks" /\ TaskNext /\ UNCHANGED <<installVars, hookVars, homeVars, repairVars, padVars, treeVars>>

MachineSpec == MachineInit /\ [][MachineNext]_vars
=============================================================================
