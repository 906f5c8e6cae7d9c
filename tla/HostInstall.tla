----------------------------- MODULE HostInstall -----------------------------
(* What loaf puts on a machine for one harness, and how `loaf install',         *)
(* `loaf upgrade' and `loaf harness reconcile' change it (internal/cli:          *)
(* install.go, upgrade.go, harness_reconcile.go, install_target.go,              *)
(* build_manifest.go, install_codex_rules.go): the shelf of skills shared by      *)
(* all harnesses with its ownership manifest, the harness's artifacts with        *)
(* theirs, the optional Codex rule and guidance block with theirs, the folder     *)
(* of agents and the version marker. Processes may be of different versions       *)
(* and may be stopped anywhere; the user edits what he likes in between.           *)
(* Contents are values: Absent, User the user's own, Legacy an older         *)
(* form, anything else the digest of what some version ships.                      *)
EXTENDS Naturals, Sequences, FiniteSets, FiniteSetsExt, TLC

CONSTANT
  InstallPlans  \* what a behaviour may contain; one of them is picked in InstallInit

VARIABLES
  hplan,          \* the plan of this behaviour; never changes
  shelf,          \* skill -> content
  shelfManifest,  \* [version, digests]: version 0 is no manifest, 1 has no digests
  kept,           \* skills left in stage directories nobody removes
  files,          \* destination -> content; "rule" and "guidance" among them
  fileManifest,   \* [there, digests] of the harness's artifacts
  owned,          \* digests of the Codex rule manifest: part :> digest
  agents,         \* contents of the agents folder
  marker,         \* version in the marker file, 0 if there is none
  record,         \* version in the install record
  contentLock,    \* process that holds the managed-content lock, or Nobody
  installer,      \* process -> the command it runs and how far it is
  touched,        \* skills and destinations the user has written or removed
  cutShort,       \* versions one of whose commands stopped half way
  faults          \* what is left of the user's edits and of the stops

shelfVars == <<shelf, shelfManifest, kept>>
fileVars == <<files, fileManifest, owned, agents>>
marks == <<marker, record>>
ghosts == <<touched, cutShort, faults>>
installVars == <<hplan, shelfVars, fileVars, marks, contentLock, installer, ghosts>>

Absent == "none"
User == "user"
OldForm == "legacy"
Nobody == "nobody"

RuleParts == {"rule", "guidance"}

Shipped(v) == hplan.dist[v]
SkillsOf(v) == DOMAIN Shipped(v).skills
ArtifactsOf(v) == DOMAIN Shipped(v).artifacts

Unused ==
  [at |-> "idle", cmd |-> [op |-> "none", ver |-> 0, basic |-> FALSE, trusted |-> TRUE],
   prev |-> [legacy |-> FALSE, digests |-> <<>>], bad |-> {}, retire |-> {}, publish |-> {},
   skill |-> 0, backup |-> Absent, stage |-> {}, snap |-> <<>>, file |-> "", remove |-> {}, write |-> {},
   undo |-> <<>>]

Put(p, r) == installer' = [installer EXCEPT ![p] = r]

\* The command ends; the deferred release gives the lock back.
Leave(p) ==
  /\ Put(p, Unused)
  /\ contentLock' = Nobody

Digest(manifest, x) == IF x \in DOMAIN manifest THEN manifest[x] ELSE Absent

---------------------------------------------------------------------------
(* The shelf of skills. *)

\* Without a manifest, or with one of version 1, whose names have no digests, what
\* is found on the shelf is not compared with anything.
ManagedSkillsState ==
  [legacy |-> shelfManifest.version < 2, digests |-> shelfManifest.digests]

\* Skills of the manifest that are there and neither as recorded nor as shipped.
ModifiedSkills(prev, v) ==
  IF prev.legacy THEN {}
  ELSE {s \in DOMAIN prev.digests :
          shelf[s] \notin {Absent, prev.digests[s], Digest(Shipped(v).skills, s)}}

\* Shipped skills whose place is taken by something the manifest does not name.
ForeignSkills(prev, v) ==
  {s \in SkillsOf(v) \ DOMAIN prev.digests : shelf[s] # Absent}

Conflicts(prev, v) == ModifiedSkills(prev, v) \cup ForeignSkills(prev, v)

PreflightSkills(p) ==
  LET v == installer[p].cmd.ver
      prev == ManagedSkillsState
      bad == Conflicts(prev, v)
  IN /\ installer[p].at = "skills"
     /\ Put(p, [installer[p] EXCEPT !.at = "shelf", !.prev = prev, !.bad = bad,
                                    !.retire = DOMAIN prev.digests \ (SkillsOf(v) \cup bad),
                                    !.publish = SkillsOf(v) \ bad])
     /\ UNCHANGED <<hplan, shelfVars, fileVars, marks, contentLock, ghosts>>

\* The skill is moved out of the way, into the stage directory.
SetAside(p, s, next) ==
  /\ shelf' = [shelf EXCEPT ![s] = Absent]
  /\ Put(p, [next EXCEPT !.skill = s, !.backup = shelf[s]])

RetireSkill(p) ==
  \E s \in installer[p].retire :
    LET next == [installer[p] EXCEPT !.retire = @ \ {s}]
    IN /\ installer[p].at = "shelf"
       /\ \/ shelf[s] = Absent /\ Put(p, next) /\ UNCHANGED shelf
          \/ shelf[s] # Absent /\ SetAside(p, s, [next EXCEPT !.at = "retired"])
       /\ UNCHANGED <<hplan, shelfManifest, kept, fileVars, marks, contentLock, ghosts>>

\* The shelf is not as the preflight found it: what was set aside is put back
\* unless something has taken its place, in which case its stage directory stays.
GiveBack(p) ==
  LET r == installer[p]
  IN /\ IF shelf[r.skill] = Absent
        THEN shelf' = [shelf EXCEPT ![r.skill] = r.backup] /\ UNCHANGED kept
        ELSE kept' = kept \cup r.stage \cup {<<r.skill, r.backup>>} /\ UNCHANGED shelf
     /\ Leave(p)
     /\ cutShort' = cutShort \cup {r.cmd.ver}

Accepts(r, contents) == r.prev.legacy \/ r.backup \in contents

Staged(r) == [r EXCEPT !.stage = @ \cup {<<r.skill, r.backup>>}, !.backup = Absent]

VerifyRetired(p) ==
  LET r == installer[p]
  IN /\ r.at = "retired"
     /\ \/ /\ Accepts(r, {Digest(r.prev.digests, r.skill)})
           /\ Put(p, [Staged(r) EXCEPT !.at = "shelf"])
           /\ UNCHANGED <<shelf, kept, contentLock, cutShort>>
        \/ ~Accepts(r, {Digest(r.prev.digests, r.skill)}) /\ GiveBack(p)
     /\ UNCHANGED <<hplan, shelfManifest, fileVars, marks, touched, faults>>

\* Skills are published in order once the retired ones are gone.
PublishSkill(p) ==
  LET r == installer[p]
      s == Min(r.publish)
      next == [r EXCEPT !.publish = @ \ {s}]
      want == Shipped(r.cmd.ver).skills[s]
  IN /\ r.at = "shelf" /\ r.retire = {} /\ r.publish # {}
     /\ \/ shelf[s] = want /\ Put(p, next) /\ UNCHANGED <<shelf, contentLock, cutShort>>
        \/ /\ shelf[s] = Absent
           /\ Put(p, [next EXCEPT !.at = "placing", !.skill = s])
           /\ UNCHANGED <<shelf, contentLock, cutShort>>
        \/ /\ shelf[s] \notin {Absent, want} /\ s \in DOMAIN r.prev.digests
           /\ SetAside(p, s, [next EXCEPT !.at = "replaced"])
           /\ UNCHANGED <<contentLock, cutShort>>
        \/ /\ shelf[s] \notin {Absent, want} /\ s \notin DOMAIN r.prev.digests
           /\ Leave(p) /\ cutShort' = cutShort \cup {r.cmd.ver}
           /\ UNCHANGED shelf
     /\ UNCHANGED <<hplan, shelfManifest, kept, fileVars, marks, touched, faults>>

VerifyReplaced_Trusting(p) ==
  /\ installer[p].at = "replaced"
  /\ Put(p, [installer[p] EXCEPT !.at = "placing"])
  /\ UNCHANGED <<hplan, shelfVars, fileVars, marks, contentLock, ghosts>>

VerifyReplaced(p) ==
  LET r == installer[p]
      fine == {Digest(r.prev.digests, r.skill), Shipped(r.cmd.ver).skills[r.skill]}
  IN /\ r.at = "replaced"
     /\ \/ /\ Accepts(r, fine)
           /\ Put(p, [r EXCEPT !.at = "placing"])
           /\ UNCHANGED <<shelf, kept, contentLock, cutShort>>
        \/ ~Accepts(r, fine) /\ GiveBack(p)
     /\ UNCHANGED <<hplan, shelfManifest, fileVars, marks, touched, faults>>

\* The staged tree is renamed into place. A rename onto something that has
\* appeared fails, and so does putting the old tree back over it.
PlaceSkill(p) ==
  LET r == installer[p]
  IN /\ r.at = "placing"
     /\ \/ /\ shelf[r.skill] = Absent
           /\ shelf' = [shelf EXCEPT ![r.skill] = Shipped(r.cmd.ver).skills[r.skill]]
           /\ Put(p, [(IF r.backup = Absent THEN r ELSE Staged(r)) EXCEPT !.at = "shelf"])
           /\ UNCHANGED <<kept, contentLock, cutShort>>
        \/ /\ shelf[r.skill] # Absent /\ r.backup = Absent
           /\ Leave(p) /\ cutShort' = cutShort \cup {r.cmd.ver}
           /\ UNCHANGED <<shelf, kept>>
        \/ shelf[r.skill] # Absent /\ r.backup # Absent /\ GiveBack(p)
     /\ UNCHANGED <<hplan, shelfManifest, fileVars, marks, touched, faults>>

\* The manifest names what was published and, with the digest it had, every owned
\* skill that was left alone. The stage directory goes. Conflicts end the command.
WriteShelfManifest(p) ==
  LET r == installer[p]
      v == r.cmd.ver
      left == r.bad \cap DOMAIN r.prev.digests
  IN /\ r.at = "shelf" /\ r.retire = {} /\ r.publish = {}
     /\ shelfManifest' =
          [version |-> 2,
           digests |-> [s \in (SkillsOf(v) \ r.bad) \cup left |->
                          IF s \in left THEN r.prev.digests[s] ELSE Shipped(v).skills[s]]]
     /\ IF r.bad # {} THEN Leave(p)
        ELSE Put(p, [r EXCEPT !.at = "agents", !.stage = {}]) /\ UNCHANGED contentLock
     /\ UNCHANGED <<hplan, shelf, kept, fileVars, marks, ghosts>>

---------------------------------------------------------------------------
(* The harness's artifacts. *)

\* The agents folder is emptied and filled again (Cursor and OpenCode only).
SyncAgents(p) ==
  LET v == installer[p].cmd.ver
  IN /\ installer[p].at = "agents"
     /\ agents' = IF Shipped(v).agents = {} THEN agents ELSE Shipped(v).agents
     /\ Put(p, [installer[p] EXCEPT !.at = "adapters"])
     /\ UNCHANGED <<hplan, shelfVars, files, fileManifest, owned, marks, contentLock, ghosts>>

\* Artifacts that are there and are not what either manifest says, for the owned
\* ones, or not what this version ships, for the others.
RefusedFiles_InstalledOnly(v) ==
  {f \in DOMAIN fileManifest.digests : files[f] \notin {Absent, fileManifest.digests[f]}}
    \cup {f \in ArtifactsOf(v) \ DOMAIN fileManifest.digests :
            files[f] \notin {Absent, Shipped(v).artifacts[f]}}

RefusedFiles_OwnedOnly(v) ==
  {f \in DOMAIN fileManifest.digests :
     files[f] \notin {Absent, fileManifest.digests[f], Digest(Shipped(v).artifacts, f)}}

RefusedFiles(v) ==
  {f \in DOMAIN fileManifest.digests :
     files[f] \notin {Absent, fileManifest.digests[f], Digest(Shipped(v).artifacts, f)}}
    \cup {f \in ArtifactsOf(v) \ DOMAIN fileManifest.digests :
            files[f] \notin {Absent, Shipped(v).artifacts[f]}}

\* A refusal leaves the target as it is.
Refuse(p) ==
  /\ Leave(p)
  /\ cutShort' = cutShort \cup {installer[p].cmd.ver}

SnapshotOf(v) == [f \in DOMAIN fileManifest.digests \cup ArtifactsOf(v) |-> files[f]]

PreflightFiles(p) ==
  LET v == installer[p].cmd.ver
  IN /\ installer[p].at = "adapters"
     /\ \/ RefusedFiles(v) # {} /\ Refuse(p)
        \/ /\ RefusedFiles(v) = {}
           /\ Put(p, [installer[p] EXCEPT !.at = "recheck", !.snap = SnapshotOf(v)])
           /\ UNCHANGED <<contentLock, cutShort>>
     /\ UNCHANGED <<hplan, shelfVars, fileVars, marks, touched, faults>>

RecheckFiles(p) ==
  LET r == installer[p]
      v == r.cmd.ver
      changed == \E f \in DOMAIN r.snap : files[f] # r.snap[f]
  IN /\ r.at = "recheck"
     /\ \/ changed /\ Refuse(p)
        \/ /\ ~changed
           /\ Put(p, [r EXCEPT !.at = "artifact", !.write = ArtifactsOf(v),
                               !.remove = DOMAIN fileManifest.digests \ ArtifactsOf(v)])
           /\ UNCHANGED <<contentLock, cutShort>>
     /\ UNCHANGED <<hplan, shelfVars, fileVars, marks, touched, faults>>

\* Removals come first, then publications.
EnsureUnchanged(p) ==
  LET r == installer[p]
  IN /\ r.at = "artifact"
     /\ \E f \in IF r.remove # {} THEN r.remove ELSE r.write :
          Put(p, [r EXCEPT !.at = IF files[f] = r.snap[f] THEN "mutate" ELSE "undo", !.file = f])
     /\ UNCHANGED <<hplan, shelfVars, fileVars, marks, contentLock, ghosts>>

\* recordTargetAdapterMutation: what really changed is remembered for a rollback.
MutateFile(p) ==
  LET r == installer[p]
      f == r.file
      new == IF f \in r.remove THEN Absent ELSE Shipped(r.cmd.ver).artifacts[f]
  IN /\ r.at = "mutate"
     /\ files' = [files EXCEPT ![f] = new]
     /\ Put(p, [r EXCEPT !.at = "artifact", !.remove = @ \ {f},
                         !.write = IF f \in r.remove THEN @ ELSE @ \ {f},
                         !.undo = IF new = r.snap[f] THEN @ ELSE <<f>> \o @])
     /\ UNCHANGED <<hplan, shelfVars, fileManifest, owned, agents, marks, contentLock, ghosts>>

\* The snapshots are written back, the last mutation first, whatever is there now.
RollBack(p) ==
  LET r == installer[p]
  IN /\ r.at = "undo"
     /\ \/ /\ r.undo # <<>>
           /\ files' = [files EXCEPT ![Head(r.undo)] = r.snap[Head(r.undo)]]
           /\ Put(p, [r EXCEPT !.undo = Tail(@)])
           /\ UNCHANGED <<contentLock, cutShort>>
        \/ r.undo = <<>> /\ Refuse(p) /\ UNCHANGED files
     /\ UNCHANGED <<hplan, shelfVars, fileManifest, owned, agents, marks, touched, faults>>

WriteFileManifest(p) ==
  LET r == installer[p]
  IN /\ r.at = "artifact" /\ r.remove \cup r.write = {}
     /\ fileManifest' = [there |-> TRUE, digests |-> Shipped(r.cmd.ver).artifacts]
     /\ Put(p, [r EXCEPT !.at = "rule"])
     /\ UNCHANGED <<hplan, shelfVars, files, owned, agents, marks, contentLock, ghosts>>

---------------------------------------------------------------------------
(* The Codex rule and the guidance block that goes with it. *)

Owns(part) == part \in DOMAIN owned

\* The journal-only form of earlier releases is installed.
LegacyCapability ==
  \/ files["guidance"] = OldForm
  \/ files["guidance"] = Absent /\ files["rule"] = OldForm

Upgrades(c) == c.op \in {"upgrade", "reconcile"}

\* What the command is to do about the rule, before it looks at the files.
RuleGoal(c) ==
  LET has == Shipped(c.ver).rule # Absent
      mine == Owns("rule") \/ Owns("guidance")
  IN CASE Upgrades(c) /\ ~c.basic /\ LegacyCapability -> IF mine THEN "retire" ELSE "refuse"
       [] ~has /\ c.basic -> "refuse"
       [] ~has /\ ~c.basic -> IF Upgrades(c) /\ mine THEN "retire" ELSE "leave"
       [] has /\ ~c.basic /\ ~(Upgrades(c) /\ mine) -> "leave"
       [] OTHER -> IF c.trusted THEN "converge" ELSE "refuse"

RuleAt(c) ==
  LET now == files["rule"]
      want == Shipped(c.ver).rule
  IN IF \/ now = Absent
        \/ Owns("rule") /\ now \in {owned["rule"], want}
        \/ ~Owns("rule") /\ c.basic /\ now = want
     THEN "converge"
     ELSE IF Owns("rule") \/ c.basic THEN "refuse" ELSE "leave"

GuidanceAt(c) ==
  LET now == files["guidance"]
      want == Shipped(c.ver).rule
  IN IF \/ Owns("guidance") /\ now \in {owned["guidance"], want} \ {Absent}
        \/ ~Owns("guidance") /\ now \in {Absent, want}
     THEN "converge" ELSE "refuse"

\* The decision of the whole step; a rule it leaves alone ends it before the
\* guidance is read.
RuleStep(c) ==
  IF RuleGoal(c) # "converge" THEN RuleGoal(c)
  ELSE IF RuleAt(c) # "converge" THEN RuleAt(c)
  ELSE GuidanceAt(c)

DecideRule(p) ==
  LET r == installer[p]
      step == RuleStep(r.cmd)
  IN /\ r.at = "rule"
     /\ \/ step = "refuse" /\ Refuse(p)
        \/ /\ step # "refuse"
           /\ Put(p, [r EXCEPT !.at = CASE step = "leave" -> "mark"
                                        [] step = "retire" -> IF Owns("rule") THEN "dropRule" ELSE "dropGuidance"
                                        [] step = "converge" -> "guidance",
                               !.snap = [x \in RuleParts |-> files[x]]])
           /\ UNCHANGED <<contentLock, cutShort>>
     /\ UNCHANGED <<hplan, shelfVars, fileVars, marks, touched, faults>>

WriteGuidance(p) ==
  LET r == installer[p]
  IN /\ r.at = "guidance"
     /\ files' = [files EXCEPT !["guidance"] = IF r.snap["guidance"] = Shipped(r.cmd.ver).rule THEN @
                                                ELSE Shipped(r.cmd.ver).rule]
     /\ Put(p, [r EXCEPT !.at = "writeRule"])
     /\ UNCHANGED <<hplan, shelfVars, fileManifest, owned, agents, marks, contentLock, ghosts>>

WriteRule(p) ==
  LET r == installer[p]
  IN /\ r.at = "writeRule"
     /\ files' = [files EXCEPT !["rule"] = IF r.snap["rule"] = Shipped(r.cmd.ver).rule THEN @
                                            ELSE Shipped(r.cmd.ver).rule]
     /\ Put(p, [r EXCEPT !.at = "ruleManifest"])
     /\ UNCHANGED <<hplan, shelfVars, fileManifest, owned, agents, marks, contentLock, ghosts>>

WriteRuleManifest(p) ==
  /\ installer[p].at = "ruleManifest"
  /\ owned' = [x \in RuleParts |-> Shipped(installer[p].cmd.ver).rule]
  /\ Put(p, [installer[p] EXCEPT !.at = "mark"])
  /\ UNCHANGED <<hplan, shelfVars, files, fileManifest, agents, marks, contentLock, ghosts>>

Without(f, x) == [y \in DOMAIN f \ {x} |-> f[y]]

\* Retirement: the rule and its row first, then the guidance and its row.
DropRule(p) ==
  LET r == installer[p]
  IN /\ r.at = "dropRule"
     /\ \/ files["rule"] \notin {Absent, owned["rule"]} /\ Refuse(p) /\ UNCHANGED files
        \/ /\ files["rule"] \in {Absent, owned["rule"]}
           /\ files' = [files EXCEPT !["rule"] = Absent]
           /\ Put(p, [r EXCEPT !.at = "forgetRule"])
           /\ UNCHANGED <<contentLock, cutShort>>
     /\ UNCHANGED <<hplan, shelfVars, fileManifest, owned, agents, marks, touched, faults>>

ForgetRule(p) ==
  /\ installer[p].at = "forgetRule"
  /\ owned' = Without(owned, "rule")
  /\ Put(p, [installer[p] EXCEPT !.at = "dropGuidance"])
  /\ UNCHANGED <<hplan, shelfVars, files, fileManifest, agents, marks, contentLock, ghosts>>

\* An owned block must be there as recorded; a block nobody owns stops it too.
DropGuidance(p) ==
  LET fine == IF Owns("guidance") THEN files["guidance"] = owned["guidance"]
                                  ELSE files["guidance"] = Absent
  IN /\ installer[p].at = "dropGuidance"
     /\ \/ ~fine /\ Refuse(p) /\ UNCHANGED files
        \/ /\ fine
           /\ files' = [files EXCEPT !["guidance"] = IF Owns("guidance") THEN Absent ELSE @]
           /\ Put(p, [installer[p] EXCEPT !.at = "forgetGuidance"])
           /\ UNCHANGED <<contentLock, cutShort>>
     /\ UNCHANGED <<hplan, shelfVars, fileManifest, owned, agents, marks, touched, faults>>

ForgetGuidance(p) ==
  /\ installer[p].at = "forgetGuidance"
  /\ owned' = <<>>
  /\ Put(p, [installer[p] EXCEPT !.at = "mark"])
  /\ UNCHANGED <<hplan, shelfVars, files, fileManifest, agents, marks, contentLock, ghosts>>

---------------------------------------------------------------------------
(* Commands. *)

\* The lock is an advisory one on a file: it goes with its process.
TakeLock(p, r) ==
  /\ contentLock = Nobody
  /\ contentLock' = p
  /\ Put(p, [r EXCEPT !.at = "skills"])

BeginInstall(p, c) ==
  /\ installer[p].at = "idle" /\ c.op = "install"
  /\ TakeLock(p, [Unused EXCEPT !.cmd = c])
  /\ UNCHANGED <<hplan, shelfVars, fileVars, marks, ghosts>>

BeginUpgrade(p, c) ==
  /\ installer[p].at = "idle" /\ c.op = "upgrade"
  /\ TakeLock(p, [Unused EXCEPT !.cmd = c])
  /\ UNCHANGED <<hplan, shelfVars, fileVars, marks, ghosts>>

\* A harness asks at its start; only content older than the command is touched.
ContentStale(c) == marker # 0 /\ marker < c.ver

BeginReconcile(p, c) ==
  /\ installer[p].at = "idle" /\ c.op = "reconcile" /\ ContentStale(c)
  /\ Put(p, [Unused EXCEPT !.at = "waiting", !.cmd = c])
  /\ UNCHANGED <<hplan, shelfVars, fileVars, marks, contentLock, ghosts>>

\* It looks again once it has the lock: another process may have been there.
Reconcile_Trusting(p) ==
  LET r == installer[p]
  IN /\ r.at = "waiting" /\ TakeLock(p, r)
     /\ UNCHANGED <<hplan, shelfVars, fileVars, marks, ghosts>>

Reconcile(p) ==
  LET r == installer[p]
  IN /\ r.at = "waiting" /\ contentLock = Nobody
     /\ IF ContentStale(r.cmd) /\ fileManifest.there
        THEN TakeLock(p, r) ELSE Leave(p)
     /\ UNCHANGED <<hplan, shelfVars, fileVars, marks, ghosts>>

WriteMarker(p) ==
  /\ installer[p].at = "mark"
  /\ marker' = installer[p].cmd.ver
  /\ Put(p, [installer[p] EXCEPT !.at = "record"])
  /\ UNCHANGED <<hplan, shelfVars, fileVars, record, contentLock, ghosts>>

WriteRecord(p) ==
  /\ installer[p].at = "record"
  /\ record' = installer[p].cmd.ver
  /\ Leave(p)
  /\ UNCHANGED <<hplan, shelfVars, fileVars, marker, ghosts>>

\* The process is stopped. The lock goes with it; a stage directory stays.
Stop(p) ==
  LET r == installer[p]
  IN /\ r.at \notin {"idle", "waiting"} /\ faults.stops > 0
     /\ kept' = kept \cup r.stage \cup
                  (IF r.backup = Absent THEN {} ELSE {<<r.skill, r.backup>>})
     /\ Leave(p)
     /\ cutShort' = cutShort \cup {r.cmd.ver}
     /\ faults' = [faults EXCEPT !.stops = @ - 1]
     /\ UNCHANGED <<hplan, shelf, shelfManifest, fileVars, marks, touched>>

\* The user writes or removes a skill, or an artifact, the rule or the block.
EditSkill(s, c) ==
  /\ faults.edits > 0 /\ shelf[s] # c
  /\ shelf' = [shelf EXCEPT ![s] = c]
  /\ touched' = touched \cup {<<"skill", s>>}
  /\ faults' = [faults EXCEPT !.edits = @ - 1]
  /\ UNCHANGED <<hplan, shelfManifest, kept, fileVars, marks, contentLock, installer, cutShort>>

EditFile(f, c) ==
  /\ faults.edits > 0 /\ files[f] # c
  /\ files' = [files EXCEPT ![f] = c]
  /\ touched' = touched \cup {<<"file", f>>}
  /\ faults' = [faults EXCEPT !.edits = @ - 1]
  /\ UNCHANGED <<hplan, shelfVars, fileManifest, owned, agents, marks, contentLock, installer, cutShort>>

InstallInit ==
  /\ hplan \in InstallPlans
  /\ shelf = hplan.start.shelf
  /\ shelfManifest = hplan.start.shelfManifest
  /\ kept = {}
  /\ files = hplan.start.files
  /\ fileManifest = hplan.start.fileManifest
  /\ owned = hplan.start.owned
  /\ agents = hplan.start.agents
  /\ marker = hplan.start.marker
  /\ record = marker
  /\ contentLock = Nobody
  /\ installer = [p \in hplan.procs |-> Unused]
  /\ touched = hplan.start.touched
  /\ cutShort = {}
  /\ faults = hplan.faults

InstallStep(p) ==
  \/ \E c \in hplan.cmds : BeginInstall(p, c) \/ BeginUpgrade(p, c) \/ BeginReconcile(p, c)
  \/ Reconcile(p)
  \/ PreflightSkills(p) \/ RetireSkill(p) \/ VerifyRetired(p) \/ PublishSkill(p)
  \/ VerifyReplaced(p) \/ PlaceSkill(p) \/ WriteShelfManifest(p)
  \/ SyncAgents(p) \/ PreflightFiles(p) \/ RecheckFiles(p) \/ EnsureUnchanged(p)
  \/ MutateFile(p) \/ RollBack(p) \/ WriteFileManifest(p)
  \/ DecideRule(p) \/ WriteGuidance(p) \/ WriteRule(p) \/ WriteRuleManifest(p)
  \/ DropRule(p) \/ ForgetRule(p) \/ DropGuidance(p) \/ ForgetGuidance(p)
  \/ WriteMarker(p) \/ WriteRecord(p)

UserStep ==
  \E c \in {User, Absent} :
    \/ \E s \in DOMAIN shelf : EditSkill(s, c)
    \/ \E f \in hplan.editable : EditFile(f, c)

InstallNext ==
  \/ \E p \in hplan.procs : InstallStep(p) \/ Stop(p)
  \/ UserStep

InstallSpec == InstallInit /\ [][InstallNext]_installVars

\* Digests that a manifest or a version names are not those of the user's own work;
\* skills are numbered in the order of their names.
NotUsers(digests) == \A x \in DOMAIN digests : digests[x] # User
ASSUME InstallAssumption ==
  \A x \in InstallPlans :
    /\ Nobody \notin x.procs
    /\ x.faults \in [edits : Nat, stops : Nat]
    /\ \A c \in x.cmds : /\ NotUsers(x.dist[c.ver].skills) /\ NotUsers(x.dist[c.ver].artifacts)
                         /\ x.dist[c.ver].rule # User
                         /\ DOMAIN x.dist[c.ver].skills \subseteq Nat
    /\ NotUsers(x.start.shelfManifest.digests)
    /\ NotUsers(x.start.fileManifest.digests)
    /\ NotUsers(x.start.owned)

\* What the user has not touched is as the manifests say; a version 1 manifest says nothing.
AsInstalled(start) ==
  /\ \A s \in DOMAIN start.shelf : <<"skill", s>> \notin start.touched =>
       IF s \in DOMAIN start.shelfManifest.digests
       THEN start.shelfManifest.version < 2 \/ start.shelf[s] = start.shelfManifest.digests[s]
       ELSE start.shelf[s] = Absent
  /\ \A f \in DOMAIN start.files : <<"file", f>> \notin start.touched =>
       LET named == IF f \in RuleParts THEN start.owned ELSE start.fileManifest.digests
       IN  start.files[f] = Digest(named, f)

\* Everything has a place, the rule and the block one of their own, and nothing is
\* halfway when a behaviour starts.
ASSUME PlacesAssumption ==
  \A x \in InstallPlans :
    /\ RuleParts \subseteq DOMAIN x.start.files
    /\ \A c \in x.cmds : /\ DOMAIN x.dist[c.ver].skills \subseteq DOMAIN x.start.shelf
                         /\ DOMAIN x.dist[c.ver].artifacts \subseteq DOMAIN x.start.files \ RuleParts
    /\ DOMAIN x.start.shelfManifest.digests \subseteq DOMAIN x.start.shelf
    /\ DOMAIN x.start.fileManifest.digests \subseteq DOMAIN x.start.files \ RuleParts
    /\ \A f \in DOMAIN x.start.owned : x.start.owned[f] # Absent
    /\ AsInstalled(x.start)

---------------------------------------------------------------------------
(* The dry run. *)

\* planManagedSkills: skill :> what the upgrade would do to it.
PlanSkills(v) ==
  LET prev == ManagedSkillsState
      modified(s) == ~prev.legacy /\ shelf[s] \notin {Absent, prev.digests[s], Digest(Shipped(v).skills, s)}
      verb(s) ==
        IF s \in SkillsOf(v)
        THEN IF s \in DOMAIN prev.digests /\ modified(s) THEN "conflict"
             ELSE IF s \notin DOMAIN prev.digests /\ shelf[s] # Absent THEN "conflict"
             ELSE IF shelf[s] = Shipped(v).skills[s] THEN "preserve"
             ELSE IF shelf[s] = Absent THEN "create" ELSE "update"
        ELSE IF modified(s) THEN "conflict" ELSE "retire"
  IN [s \in SkillsOf(v) \cup {t \in DOMAIN prev.digests : shelf[t] # Absent} |-> verb(s)]

\* planTargetAdapterArtifacts.
PlanFiles_Unadopted(v) ==
  [f \in ArtifactsOf(v) |->
     IF files[f] = Absent THEN "create"
     ELSE IF f \in DOMAIN fileManifest.digests THEN "update" ELSE "conflict"]

PlanFiles(v) ==
  LET has == fileManifest.digests
      gone == {f \in DOMAIN has \ ArtifactsOf(v) : files[f] # Absent}
      verb(f) ==
        IF f \in gone THEN IF files[f] = has[f] THEN "retire" ELSE "conflict"
        ELSE IF files[f] = Absent THEN "create"
        ELSE IF files[f] = Shipped(v).artifacts[f] THEN "preserve"
        ELSE IF f \in DOMAIN has /\ files[f] = has[f] THEN "update" ELSE "conflict"
  IN [f \in ArtifactsOf(v) \cup gone |-> verb(f)]

\* planCodexJournalRule: a command it can tell will refuse.
PlanRule(c) ==
  LET has == Shipped(c.ver).rule # Absent
      mine == Owns("rule") \/ Owns("guidance")
      rule == files["rule"]
      block == files["guidance"]
  IN IF Upgrades(c) /\ ~c.basic /\ LegacyCapability THEN IF mine THEN "retire" ELSE "refuse"
     ELSE IF ~has THEN IF c.basic THEN "refuse" ELSE IF Upgrades(c) /\ mine THEN "retire" ELSE "leave"
     ELSE IF ~c.basic /\ ~(Upgrades(c) /\ mine) THEN "leave"
     ELSE IF ~c.trusted THEN IF ~c.basic THEN "retire" ELSE "refuse"
     ELSE IF \/ rule \notin {Absent, Shipped(c.ver).rule} /\ ~(Owns("rule") /\ rule = owned["rule"])
                /\ (c.basic \/ Owns("rule"))
             \/ block \notin {Absent, Shipped(c.ver).rule} /\ ~(Owns("guidance") /\ block = owned["guidance"])
          THEN "refuse" ELSE "converge"

---------------------------------------------------------------------------
(* Properties. *)

UserHas(s) ==
  \/ shelf[s] = User
  \/ <<s, User>> \in kept
  \/ \E p \in hplan.procs : <<s, User>> \in installer[p].stage
                             \/ (installer[p].skill = s /\ installer[p].backup = User)

\* The skill is named by a version 1 manifest, which has no digest to compare it with.
OwnedBlindly(r, s) == r.prev.legacy /\ s \in DOMAIN r.prev.digests

\* No command destroys what the user wrote, whenever he wrote it, also where there is no
\* manifest: a skill of his is on the shelf or in a stage directory that stays (unless the
\* version 1 manifest a command goes by owns that very skill), and a file of his is
\* overwritten only when he wrote it after the command looked at that file last.
OwnWorkIsKept ==
  [][faults'.edits = faults.edits =>
       /\ \A s \in DOMAIN shelf :
            UserHas(s) => UserHas(s)' \/ \E p \in hplan.procs : OwnedBlindly(installer[p], s)
       /\ \A f \in DOMAIN files : files[f] = User /\ files'[f] # User =>
            \E p \in hplan.procs : f \in DOMAIN installer[p].snap /\ installer[p].snap[f] # User]_installVars

\* A command that was stopped half way, or rolled back, is resumed by running it
\* again: an artifact, a rule or a block is refused only if the user touched it or
\* a command of another version was cut short (or a retirement between removing
\* the block and forgetting it); and a skill only if the user touched it or some
\* command was cut short.
InterruptedInstallsResume ==
  contentLock = Nobody =>
    \A c \in hplan.cmds :
      /\ \A f \in RefusedFiles(c.ver) : <<"file", f>> \in touched \/ cutShort \ {c.ver} # {}
      /\ RuleGoal(c) = "converge" /\ RuleStep(c) = "refuse" =>
           \/ cutShort \ {c.ver} # {}
           \/ \E x \in RuleParts : <<"file", x>> \in touched
           \/ cutShort # {} /\ Owns("guidance") /\ files["guidance"] = Absent
      /\ \A s \in Conflicts(ManagedSkillsState, c.ver) : <<"skill", s>> \in touched \/ cutShort # {}

\* A dry run foretells the refusals of the command it stands for. It does not see
\* that an owned guidance block is gone, nor that the executable it would render
\* is not trusted.
DryRunForetells ==
  contentLock = Nobody =>
    \A c \in {x \in hplan.cmds : x.op = "upgrade"} :
      /\ Conflicts(ManagedSkillsState, c.ver) = {s \in DOMAIN PlanSkills(c.ver) : PlanSkills(c.ver)[s] = "conflict"}
      /\ RefusedFiles(c.ver) = {f \in DOMAIN PlanFiles(c.ver) : PlanFiles(c.ver)[f] = "conflict"}
      /\ RuleStep(c) = "refuse" =>
           PlanRule(c) = "refuse" \/ ~c.trusted \/ (Owns("guidance") /\ files["guidance"] = Absent)

\* `loaf harness reconcile' refuses to downgrade: whatever it changes, from the first skill
\* to the marker, it changes while the marker still names an older version than its own
\* (once it has written the marker, its own), although other versions may have installed
\* and reconciled while it waited for the lock, and may be doing so when it is stopped.
ReconcileNeverDowngrades ==
  [][\A p \in hplan.procs :
       LET r == installer[p]
       IN  r.cmd.op = "reconcile" /\ installer'[p] # r
             /\ <<shelfVars, fileVars, marks>>' # <<shelfVars, fileVars, marks>> =>
           \/ marker # 0 /\ marker < r.cmd.ver
           \/ r.at = "record" /\ marker = r.cmd.ver]_installVars
=============================================================================
