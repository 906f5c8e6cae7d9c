-------------------------- MODULE IssueWorktrees --------------------------
(* `loaf issue start' and `loaf issue stop' (internal/cli/issue_worktree.go and     *)
(* issue_contract.go): a root issue, or a contract of a branch, gets a branch and a *)
(* worktree beside the repository; the row records both. Git and the directory are   *)
(* changed in steps of their own, apart from the row, by processes that race, may     *)
(* stop anywhere and may fail to write.                                             *)
(*                                                                               *)
(* Issues and contracts are one table of owners; Issues models the rest of their     *)
(* rows. A worktree is its directory; git's list of it is kept in step with the       *)
(* directory by the prunes the code makes.                                          *)
EXTENDS Naturals, Sequences, FiniteSets, Tables

CONSTANT TreePlans \* instances: first rows, commands, processes, bounds

VARIABLES
  treePlan,
  owner,      \* owner -> [kind, slug, parent, status, archived, branch, tree]
  branches,   \* branches of the repository
  trees,      \* directory -> [branch, dirty]
  worked,     \* branches with work of the user's
  treeProc,   \* process -> the command it runs and what it has read
  treeFaults  \* commands, stops and failed writes still to come, directories deleted by hand

treeVars == <<treePlan, owner, branches, trees, worked, treeProc, treeFaults>>

NoTree == <<>>
NoOwner == 0
DefaultBranch == <<"main">>
TreeIdle == [at |-> "idle"]
Settled == {"done", "cancelled", "duplicate"}
OwnerColumns == {"kind", "slug", "parent", "status", "archived", "branch", "tree"}
IsOwner(row) == row = [x \in OwnerColumns |-> row[x]]

\* Rows have their columns, and no issue or contract is started yet.
ASSUME TreePlansAssumption ==
  \A p \in TreePlans :
    /\ p.owner = [i \in DOMAIN p.owner |-> p.owner[i]]
    /\ \A i \in DOMAIN p.owner :
         /\ IsOwner(p.owner[i]) /\ p.owner[i].branch = NoTree /\ p.owner[i].tree = NoTree
    /\ p.faults = [x \in {"commands", "stops", "writes", "gone"} |-> p.faults[x]] /\ p.faults.gone = {}

IsStarted(row) == row.branch # NoTree \/ row.tree # NoTree
LifecycleRefuses(row) == row.archived \/ row.status \in Settled

\* IssueRoot and NearestStartedAncestor.
RootOf(rows, i) ==
  LET up[j \in DOMAIN rows] == IF rows[j].parent = NoOwner THEN j ELSE up[rows[j].parent] IN up[i]
StartedAbove(rows, i) ==
  LET up[j \in DOMAIN rows] == LET z == rows[j].parent IN IF z = NoOwner \/ IsStarted(rows[z]) THEN z ELSE up[z] IN up[i]

---------------------------------------------------------------------------
(* Names. *)

StartBranch(row) == <<"issue", row.slug>>
Disambiguated(i, row) == <<"issue", row.slug, i>>
WorktreePath(b) == <<"wt", b>>

\* Another issue whose row names the branch.
StartedBranchClaimant(i, b) == \E j \in DOMAIN owner \ {i} : owner[j].kind = "issue" /\ owner[j].branch = b
SharesStartSlug(i) == \E j \in DOMAIN owner \ {i} : owner[j].kind = "issue" /\ owner[j].slug = owner[i].slug

\* The branch of an issue: its own name unless another issue has it, now or by its slug.
ResolveStartBranch(i) ==
  LET b == StartBranch(owner[i])
  IN IF StartedBranchClaimant(i, b) \/ (b \in branches /\ SharesStartSlug(i)) THEN Disambiguated(i, owner[i]) ELSE b

StartBase(i) == IF StartedAbove(owner, i) = NoOwner THEN DefaultBranch ELSE owner[StartedAbove(owner, i)].branch

---------------------------------------------------------------------------
(* Processes. *)

TreeAt(p, step) == treeProc[p].at = step
TreeGoes(p, step) == treeProc' = [treeProc EXCEPT ![p].at = step]
TreeDone(p) == treeProc' = [treeProc EXCEPT ![p] = TreeIdle]
Spend(kind) == treeFaults[kind] > 0 /\ treeFaults' = [treeFaults EXCEPT ![kind] = @ - 1]

\* An UpdateIssue or UpdateWorkContract that sets the started columns.
WithStarted(i, b, t) == [owner EXCEPT ![i].branch = b, ![i].tree = t]

\* runIssueStart and runIssueStartContract: the row asked for, refused when it is started,
\* archived or settled.
AskStart(p, i) ==
  /\ TreeAt(p, "idle") /\ Spend("commands")
  /\ ~IsStarted(owner[i]) /\ ~LifecycleRefuses(owner[i])
  /\ treeProc' = [treeProc EXCEPT ![p] = [at |-> "asked", asked |-> i]]
  /\ UNCHANGED <<treePlan, owner, branches, trees, worked>>

\* Its root, read later: a started root is joined, an open one is started.
FindOwner(p) ==
  /\ TreeAt(p, "asked")
  /\ LET i == treeProc[p].asked  o == RootOf(owner, i) IN
     IF o # i /\ IsStarted(owner[o])
     THEN IF LifecycleRefuses(owner[o]) \/ owner[o].tree \notin DOMAIN trees THEN TreeDone(p)
          ELSE treeProc' = [treeProc EXCEPT ![p] = [at |-> "activate", asked |-> i]]
     ELSE IF o # i /\ LifecycleRefuses(owner[o]) THEN TreeDone(p)
          ELSE treeProc' = [treeProc EXCEPT ![p] = [at |-> "owned", asked |-> i, own |-> o]]
  /\ UNCHANGED <<treePlan, owner, branches, trees, treeFaults, worked>>

\* A contract's branch is the key of its reference.
BranchFor(i) == IF owner[i].kind = "contract" THEN owner[i].slug ELSE ResolveStartBranch(i)

\* Base, branch and directory; a directory that is there refuses.
NameWorktree(p) ==
  /\ TreeAt(p, "owned")
  /\ LET i == treeProc[p].own
         b == BranchFor(i)
     IN IF WorktreePath(b) \in DOMAIN trees \/ (owner[i].kind = "issue" /\ StartedBranchClaimant(i, b)) THEN TreeDone(p)
        ELSE treeProc' = [treeProc EXCEPT ![p] = [at |-> "named", asked |-> treeProc[p].asked, own |-> i, branch |-> b, base |-> StartBase(i)]]
  /\ UNCHANGED <<treePlan, owner, branches, trees, treeFaults, worked>>

\* git worktree add: refused for a directory that is there and for a branch that is
\* checked out elsewhere; a branch that does not exist is made from the base.
AddIssueWorktree(p) ==
  /\ TreeAt(p, "named")
  /\ LET b == treeProc[p].branch IN
     IF \/ WorktreePath(b) \in DOMAIN trees \/ \E t \in DOMAIN trees : trees[t].branch = b
        \/ b \notin branches /\ treeProc[p].base \notin branches
     THEN TreeDone(p) /\ UNCHANGED <<branches, trees>>
     ELSE /\ trees' = Upserted(trees, WorktreePath(b), [branch |-> b, dirty |-> FALSE])
          /\ branches' = branches \cup {b}
          /\ treeProc' = [treeProc EXCEPT ![p] = [at |-> "added", asked |-> @.asked, own |-> @.own, branch |-> b, made |-> b \notin branches]]
  /\ UNCHANGED <<treePlan, owner, treeFaults, worked>>

\* The row: the owner is active and has its branch and directory.
RecordStart(p) ==
  /\ TreeAt(p, "added")
  /\ LET i == treeProc[p].own  b == treeProc[p].branch
     IN owner' = [WithStarted(i, b, WorktreePath(b)) EXCEPT ![i].status = "active"]
  /\ IF treeProc[p].asked = treeProc[p].own THEN TreeDone(p) ELSE TreeGoes(p, "activate")
  /\ UNCHANGED <<treePlan, branches, trees, treeFaults, worked>>
ActivateIssue(p) ==
  /\ TreeAt(p, "activate")
  /\ owner' = [owner EXCEPT ![treeProc[p].asked].status = "active"]
  /\ TreeDone(p)
  /\ UNCHANGED <<treePlan, branches, trees, treeFaults, worked>>

TreesWithout(t) == [x \in DOMAIN trees \ {t} |-> trees[x]]

\* Mutation: the branch goes too, whoever made it.
RollbackIssueWorktree_AnyBranch(p) ==
  /\ TreeAt(p, "added") /\ Spend("writes")
  /\ trees' = TreesWithout(WorktreePath(treeProc[p].branch))
  /\ branches' = branches \ {treeProc[p].branch}
  /\ TreeDone(p)
  /\ UNCHANGED <<treePlan, owner, worked>>

\* The write failed: the directory goes, and the branch if this command made it.
RollbackIssueWorktree(p) ==
  /\ TreeAt(p, "added") /\ Spend("writes")
  /\ trees' = TreesWithout(WorktreePath(treeProc[p].branch))
  /\ branches' = branches \ (IF treeProc[p].made THEN {treeProc[p].branch} ELSE {})
  /\ TreeDone(p)
  /\ UNCHANGED <<treePlan, owner, worked>>

\* runIssueStop and runIssueStopContract: what the row says now.
AskStop(p, i, force) ==
  /\ TreeAt(p, "idle") /\ Spend("commands")
  /\ IsStarted(owner[i])
  /\ treeProc' = [treeProc EXCEPT ![p] = [at |-> "stopping", own |-> i, force |-> force, branch |-> owner[i].branch, tree |-> owner[i].tree]]
  /\ UNCHANGED <<treePlan, owner, branches, trees, worked>>

\* The row first, and the directory after it.
ClearStarted(p) ==
  /\ TreeAt(p, "stopping")
  /\ \/ owner' = WithStarted(treeProc[p].own, NoTree, NoTree) /\ TreeGoes(p, "cleared") /\ UNCHANGED treeFaults
     \/ Spend("writes") /\ TreeDone(p) /\ UNCHANGED owner
  /\ UNCHANGED <<treePlan, branches, trees, worked>>

\* A directory that is gone is fine; a dirty one stays unless forced, and then the row
\* is written back.
RemoveIssueWorktree(p) ==
  /\ TreeAt(p, "cleared")
  /\ LET t == treeProc[p].tree IN
     IF t \in DOMAIN trees /\ trees[t].dirty /\ ~treeProc[p].force THEN TreeGoes(p, "restore") /\ UNCHANGED trees
     ELSE trees' = TreesWithout(t) /\ TreeDone(p)
  /\ UNCHANGED <<treePlan, owner, branches, treeFaults, worked>>
RestoreStarted(p) ==
  /\ TreeAt(p, "restore")
  /\ \/ owner' = WithStarted(treeProc[p].own, treeProc[p].branch, treeProc[p].tree) /\ UNCHANGED treeFaults
     \/ Spend("writes") /\ UNCHANGED owner
  /\ TreeDone(p)
  /\ UNCHANGED <<treePlan, branches, trees, worked>>

\* The process is killed between two steps.
TreeStop(p) == ~TreeAt(p, "idle") /\ Spend("stops") /\ TreeDone(p) /\ UNCHANGED <<treePlan, owner, branches, trees, worked>>

\* The user meanwhile: leaves changes in a directory or takes them back, commits, deletes a
\* directory by hand; and other commands: a status, another name, another parent.
Dirty(t) ==
  /\ treePlan.dirties
  /\ trees' = [trees EXCEPT ![t].dirty = ~@]
  /\ UNCHANGED <<treePlan, owner, branches, worked, treeProc, treeFaults>>
CommitWork(t) ==
  /\ trees[t].branch \notin worked /\ \E i \in DOMAIN owner : owner[i].tree = t
  /\ worked' = worked \cup {trees[t].branch}
  /\ UNCHANGED <<treePlan, owner, branches, trees, treeProc, treeFaults>>
DeleteByHand(t) ==
  /\ treePlan.hands /\ t \notin treeFaults.gone /\ \E i \in DOMAIN owner : owner[i].tree = t
  /\ trees' = TreesWithout(t)
  /\ treeFaults' = [treeFaults EXCEPT !.gone = @ \cup {t}]
  /\ UNCHANGED <<treePlan, owner, branches, worked, treeProc>>
OtherUpdate(i, row) ==
  /\ owner' = [owner EXCEPT ![i].status = row.status, ![i].slug = row.slug, ![i].parent = row.parent]
  /\ owner' # owner
  /\ UNCHANGED <<treePlan, branches, trees, worked, treeProc, treeFaults>>

TreeInit ==
  /\ treePlan \in TreePlans
  /\ owner = treePlan.owner
  /\ branches = treePlan.branches
  /\ trees = [t \in {} |-> t]
  /\ worked = {}
  /\ treeProc = [p \in treePlan.starters \cup treePlan.stoppers |-> TreeIdle]
  /\ treeFaults = treePlan.faults

WorktreeNext ==
  \/ \E p \in treePlan.starters, i \in treePlan.asks : AskStart(p, i)
  \/ \E p \in treePlan.starters :
       \/ FindOwner(p) \/ NameWorktree(p) \/ AddIssueWorktree(p) \/ RecordStart(p) \/ RollbackIssueWorktree(p) \/ ActivateIssue(p)
  \/ \E p \in treePlan.stoppers, i \in DOMAIN owner, force \in BOOLEAN : AskStop(p, i, force)
  \/ \E p \in treePlan.stoppers : ClearStarted(p) \/ RemoveIssueWorktree(p) \/ RestoreStarted(p)
  \/ \E p \in DOMAIN treeProc : TreeStop(p)
  \/ \E t \in DOMAIN trees : Dirty(t) \/ CommitWork(t) \/ DeleteByHand(t)
  \/ \E u \in treePlan.updates : OtherUpdate(u[1], u[2])

TreeSpec == TreeInit /\ [][WorktreeNext]_treeVars

---------------------------------------------------------------------------
(* Properties. *)

\* A row that is started names a directory of its own with the branch it says, or one
\* the user deleted, and a branch work was committed to is kept: through starts that
\* race, fail and are taken back, and stops that are refused or killed half way.
StartedTreesExist ==
  /\ \A i \in DOMAIN owner : IsStarted(owner[i]) /\ owner[i].tree \notin treeFaults.gone =>
       /\ owner[i].tree \in DOMAIN trees /\ trees[owner[i].tree].branch = owner[i].branch
       /\ \A j \in DOMAIN owner \ {i} : owner[j].tree # owner[i].tree
  /\ worked \subseteq branches
=============================================================================
