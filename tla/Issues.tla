------------------------------- MODULE Issues -------------------------------
(***************************************************************************)
(* The issues of a project and the work contracts they are rendered to     *)
(* (src/internal/state/issue*.go, work_contract*.go, link.go): a forest of *)
(* issues with a status column that every writer repeats as an event,      *)
(* ordered acceptance criteria and the claims of a child's criteria on its *)
(* parent's.  Every command is one serializable transaction.  Titles and   *)
(* texts are abstracted to what the code asks of them: whether they hold a *)
(* question and whether the body names what is out of scope.               *)
(***************************************************************************)
EXTENDS Naturals, FiniteSets, FiniteSetsExt, Functions, Tables

CONSTANT
  Plans       \* which commands run, on how many issues, contracts and criteria

VARIABLES
  plan,       \* the plan of this behaviour; never changes
  issue,      \* id :> [parent, kind, asks, body, status, archived, started]
  lastEvent,  \* id :> to_status of the issue's latest status event
  contract,   \* authority ref :> [parent, status, started, source]
  criteria,   \* issue id or ref :> set of [id, pos]
  claims,     \* pairs <<child criterion, parent criterion>>
  links,      \* triples <<from issue, type, to issue>>
  bucket,     \* id :> the bucket tags of an issue
  ledger      \* set of [type, origin]: decision questions and resolutions

issueVars == <<plan, issue, lastEvent, contract, criteria, claims, links, bucket, ledger>>

IssueWriteStatuses == {"triage", "backlog", "todo", "active", "done"}
IssueRemovalStatuses == {"cancelled", "duplicate"}
IssueSettled == {"done"} \cup IssueRemovalStatuses

NoParent == 0
Issues == DOMAIN issue
ContractRefs == DOMAIN contract

PlanAllows(op) == op \in plan.ops

----------------------------------------------------------------------------
(* Reading. *)

\* The ids that rows are stored under or that they name as their parent.
Named == Issues \cup ({issue[i].parent : i \in Issues} \ {NoParent})

\* A set that a walk up does not leave.
ClosedUpward(up) == \A k \in up \cap Issues : issue[k].parent \in up \cup {NoParent}

\* The ids on the way up from i, i included: the parent walk of
\* rejectIssueParentCycle and of IssueRoot.
Lineage(i) == {j \in Named : \A up \in SUBSET Named : i \in up /\ ClosedUpward(up) => j \in up}

\* The cycle check looks one step up.
ParentAllowed_OneStep(i, p) == p # NoParent => p # i /\ issue[p].parent # i

\* rejectIssueParentCycle.
ParentAllowed(i, p) == p # NoParent => p # i /\ i \notin Lineage(p)

\* IssueRoot: the ancestor without a parent.
IssueRoot(i) == CHOOSE r \in Lineage(i) : issue[r].parent = NoParent

\* issueIsStarted.
IssueIsStarted(row) == row.started # "no"

\* The ancestors of i that have been started.
StartedAncestors(i) == {a \in Lineage(i) \ {i} : IssueIsStarted(issue[a])}

\* NearestStartedAncestor: the first on the way up, so that the others are above it.
NearestStartedAncestor(i) == {a \in StartedAncestors(i) : StartedAncestors(i) \subseteq Lineage(a)}

\* issueStartRefusedStatus.
StartRefused(row) == row.archived \/ row.status \in IssueSettled \/ IssueIsStarted(row)

\* listIssueChildrenTx: every child, archived and removed ones too.
Children(i) == {c \in Issues : issue[c].parent = i}

\* criterionAtPosition.
CriterionAt(owner, p) == {c \in criteria[owner] : c.pos = p}

\* hasSharpQuestion, decisionHasQuestion.
HasQuestion(row) == row.asks \/ row.body = "question"

\* buildIssueTree: what the tree shows, from the roots down.
TreeShown(archivedToo) ==
  LET listed == {i \in Issues : archivedToo \/ ~issue[i].archived}
  IN  {i \in listed : Lineage(i) \subseteq listed}

\* CheckIssueStatusParity.
ParityMismatches == {i \in Issues : issue[i].status # lastEvent[i]}

----------------------------------------------------------------------------
(* Writing. *)

\* An unused id of a new issue: ids are random, and an id that has events or
\* links left over from a hard deletion is never drawn again.
NewIssueId == Min(plan.ids \ DOMAIN lastEvent)
CanCreate == plan.ids \ DOMAIN lastEvent # {}

CriterionIds == UNION {{c.id : c \in criteria[o]} : o \in DOMAIN criteria}

\* n unused criterion ids in order: newOpaqueStateID.
FreshCriterion == Min(1..(Cardinality(CriterionIds) + 1) \ CriterionIds)

\* Rows of deleted criteria take their claims along (ON DELETE CASCADE).
LiveClaims(crit) ==
  LET ids == UNION {{c.id : c \in crit[o]} : o \in DOMAIN crit}
  IN  {cl \in claims : cl[1] \in ids /\ cl[2] \in ids}

\* insertIssueStatusEventTx.
StatusEvent(i, status) == Upserted(lastEvent, i, status)

NewRow(parent, kind, asks, body) ==
  [parent |-> parent, kind |-> kind, asks |-> asks, body |-> body, status |-> "triage",
   archived |-> FALSE, started |-> "no"]

\* decisionScopeTx resolves an issue given as parent; then the question is a fact.
RecordDecisionQuestion(asks, body, parent) ==
  /\ PlanAllows("decide")
  /\ parent # NoParent => parent \in Issues
  /\ asks \/ body = "question"
  /\ ledger' = ledger \cup {[type |-> "question", origin |-> NoParent]}
  /\ UNCHANGED <<plan, issue, lastEvent, contract, criteria, claims, links, bucket>>

\* createDecisionLedgerIssueTx: an issue of kind decision leaves no row.
CreateDecision(asks, body, parent) == RecordDecisionQuestion(asks, body, parent)

\* createIssueTx for kind delivery: a triage row, its criteria, its first event.
CreateIssue(parent, body, withCriterion) ==
  LET i == NewIssueId IN
  /\ PlanAllows("create") /\ CanCreate
  /\ parent # NoParent => parent \in Issues /\ ParentAllowed(i, parent)
  /\ issue' = Upserted(issue, i, NewRow(parent, "delivery", FALSE, body))
  /\ criteria' = Upserted(criteria, i, IF withCriterion THEN {[id |-> FreshCriterion, pos |-> 1]} ELSE {})
  /\ lastEvent' = StatusEvent(i, "triage")
  /\ bucket' = Upserted(bucket, i, {})
  /\ UNCHANGED <<plan, contract, claims, links, ledger>>

\* createLegacyDecisionIssueTx: a decision that is a row, as older releases wrote.
CreateLegacyDecision(parent, asks, body) ==
  LET i == NewIssueId IN
  /\ PlanAllows("legacy") /\ CanCreate
  /\ parent # NoParent => parent \in Issues
  /\ issue' = Upserted(issue, i, NewRow(parent, "decision", asks, body))
  /\ criteria' = Upserted(criteria, i, {})
  /\ lastEvent' = StatusEvent(i, "triage")
  /\ bucket' = Upserted(bucket, i, {})
  /\ UNCHANGED <<plan, contract, claims, links, ledger>>

\* UpdateIssue with SetParent.
UpdateIssueParent(i, parent) ==
  /\ PlanAllows("parent")
  /\ parent # NoParent => parent \in Issues /\ ParentAllowed(i, parent)
  /\ issue' = [issue EXCEPT ![i].parent = parent]
  /\ UNCHANGED <<plan, lastEvent, contract, criteria, claims, links, bucket, ledger>>

\* UpdateIssue with SetStatus: an archived issue takes a status too and stays archived.
UpdateIssueStatus(i, status) ==
  /\ PlanAllows("status") /\ status \in IssueWriteStatuses
  /\ issue' = [issue EXCEPT ![i].status = status]
  /\ lastEvent' = IF status # issue[i].status THEN StatusEvent(i, status) ELSE lastEvent
  /\ UNCHANGED <<plan, contract, criteria, claims, links, bucket, ledger>>

\* UpdateIssue with SetKind or SetBody.
UpdateIssueText(i, kind, body) ==
  /\ PlanAllows("text")
  /\ issue' = [issue EXCEPT ![i].kind = kind, ![i].body = body]
  /\ UNCHANGED <<plan, lastEvent, contract, criteria, claims, links, bucket, ledger>>

\* UpdateIssue with SetStarted and SetStatus, as `issue start` calls it: the
\* refusal looks at the status before the update.
UpdateIssueStarted(i) ==
  /\ PlanAllows("start") /\ ~StartRefused(issue[i])
  /\ issue' = [issue EXCEPT ![i].started = "branch", ![i].status = "active"]
  /\ lastEvent' = IF issue[i].status # "active" THEN StatusEvent(i, "active") ELSE lastEvent
  /\ UNCHANGED <<plan, contract, criteria, claims, links, bucket, ledger>>

\* UpdateIssue that clears the started fields; the status is left alone.
UpdateIssueStopped(i) ==
  /\ PlanAllows("start")
  /\ issue' = [issue EXCEPT ![i].started = "no"]
  /\ UNCHANGED <<plan, lastEvent, contract, criteria, claims, links, bucket, ledger>>

\* Removal that writes no event.
RemoveIssue_Silent(i, status, survivor) ==
  /\ PlanAllows("remove") /\ status = "cancelled" /\ survivor = NoParent
  /\ issue' = [issue EXCEPT ![i].status = status, ![i].archived = TRUE]
  /\ UNCHANGED <<plan, lastEvent, links, contract, criteria, claims, bucket, ledger>>

\* RemoveIssue: a removal status and the archive mark; a duplicate names another
\* issue that survives.
RemoveIssue(i, status, survivor) ==
  /\ PlanAllows("remove") /\ status \in IssueRemovalStatuses
  /\ IF status = "duplicate" THEN survivor \in Issues \ {i} ELSE survivor = NoParent
  /\ issue' = [issue EXCEPT ![i].status = status, ![i].archived = TRUE]
  /\ lastEvent' = IF status # issue[i].status THEN StatusEvent(i, status) ELSE lastEvent
  /\ links' = IF status = "duplicate" THEN links \cup {<<i, "relates_to", survivor>>} ELSE links
  /\ UNCHANGED <<plan, contract, criteria, claims, bucket, ledger>>

\* HardDeleteIssue: children are detached, the criteria go with the row; events,
\* links and bucket tags stay behind.
HardDeleteIssue(i) ==
  LET crit == Restrict(criteria, DOMAIN criteria \ {i}) IN
  /\ PlanAllows("delete")
  /\ issue' = [j \in Issues \ {i} |->
                 IF issue[j].parent = i THEN [issue[j] EXCEPT !.parent = NoParent] ELSE issue[j]]
  /\ criteria' = crit
  /\ claims' = LiveClaims(crit)
  /\ UNCHANGED <<plan, lastEvent, contract, links, bucket, ledger>>

\* CreateLink, as `issue link` calls it: an edge is its own id, so a second one
\* of the same kind is the first.
CreateIssueLink(i, type, j) ==
  /\ PlanAllows("link")
  /\ links' = links \cup {<<i, type, j>>}
  /\ UNCHANGED <<plan, issue, lastEvent, contract, criteria, claims, bucket, ledger>>

\* RemoveLink refuses an edge that is not there.
RemoveIssueLink(i, type, j) ==
  /\ PlanAllows("link") /\ <<i, type, j>> \in links
  /\ links' = links \ {<<i, type, j>>}
  /\ UNCHANGED <<plan, issue, lastEvent, contract, criteria, claims, bucket, ledger>>

\* SetIssueBucket: the tags of the other buckets go first.
SetIssueBucket(i, b) ==
  /\ PlanAllows("bucket")
  /\ bucket' = [bucket EXCEPT ![i] = IF b = "none" THEN {} ELSE {b}]
  /\ UNCHANGED <<plan, issue, lastEvent, contract, criteria, claims, links, ledger>>

----------------------------------------------------------------------------
(* Criteria and claims. *)

\* The gap is left open.
Compacted_Not(crit) == crit

\* Positions 1..n in the order of the positions they had.
Compacted(crit) == {[c EXCEPT !.pos = Cardinality({d \in crit : d.pos <= c.pos})] : c \in crit}

Positions(crit) == {c.pos : c \in crit}
NextPosition(crit) == IF crit = {} THEN 1 ELSE Max(Positions(crit)) + 1

\* The list is deleted and written anew, as it is for contracts.
Replaced_Fresh(crit, n) == {[id |-> FreshCriterion + k, pos |-> k] : k \in 1..n}

\* replaceIssueCriteriaTx with n texts: rows pair up with texts in order and keep
\* their ids and claims; what is over is deleted or inserted.
Replaced(crit, n) ==
  LET kept == {c \in Compacted(crit) : c.pos <= n}
  IN  kept \cup (IF n > Cardinality(kept) THEN {[id |-> FreshCriterion, pos |-> Cardinality(kept) + 1]} ELSE {})

\* claimNewCriterionAgainstParentTx.
ServesPossible(row, p) == p = 0 \/ (row.parent # NoParent /\ CriterionAt(row.parent, p) # {})
ServesClaims(row, c, p) == IF p = 0 THEN {} ELSE {<<c, d.id>> : d \in CriterionAt(row.parent, p)}

\* ReplaceIssueCriteria.
ReplaceIssueCriteria(i, n) ==
  LET crit == [criteria EXCEPT ![i] = Replaced(@, n)] IN
  /\ PlanAllows("criteria") /\ n \in 0..plan.crits /\ n <= Cardinality(criteria[i]) + 1
  /\ criteria' = crit /\ claims' = LiveClaims(crit)
  /\ UNCHANGED <<plan, issue, lastEvent, contract, links, bucket, ledger>>

\* AddIssueCriterion: the position after the largest, and a claim when it says
\* which criterion of the parent it serves.
AddIssueCriterion(i, serves) ==
  /\ PlanAllows("criteria") /\ Cardinality(criteria[i]) < plan.crits
  /\ ServesPossible(issue[i], serves)
  /\ criteria' = [criteria EXCEPT ![i] = @ \cup {[id |-> FreshCriterion, pos |-> NextPosition(@)]}]
  /\ claims' = claims \cup ServesClaims(issue[i], FreshCriterion, serves)
  /\ UNCHANGED <<plan, issue, lastEvent, contract, links, bucket, ledger>>

\* RemoveIssueCriterion: delete, then close the gap.
RemoveIssueCriterion(i, p) ==
  LET crit == [criteria EXCEPT ![i] = Compacted(@ \ CriterionAt(i, p))] IN
  /\ PlanAllows("criteria") /\ CriterionAt(i, p) # {}
  /\ criteria' = crit /\ claims' = LiveClaims(crit)
  /\ UNCHANGED <<plan, issue, lastEvent, contract, links, bucket, ledger>>

\* PromoteIssueCriterion: a child whose one criterion is a copy that claims the original.
PromoteIssueCriterion(i, p) ==
  LET j == NewIssueId IN
  /\ PlanAllows("promote") /\ CanCreate
  /\ \E c \in CriterionAt(i, p) :
       /\ issue' = Upserted(issue, j, NewRow(i, "delivery", FALSE, "empty"))
       /\ criteria' = Upserted(criteria, j, {[id |-> FreshCriterion, pos |-> 1]})
       /\ claims' = claims \cup {<<FreshCriterion, c.id>>}
  /\ lastEvent' = StatusEvent(j, "triage")
  /\ bucket' = Upserted(bucket, j, {})
  /\ UNCHANGED <<plan, contract, links, ledger>>

\* ClaimIssueCriterion: by positions, against the parent the issue has now.
ClaimIssueCriterion(i, p, q) ==
  /\ PlanAllows("claim") /\ issue[i].parent # NoParent
  /\ \E c \in CriterionAt(i, p), d \in CriterionAt(issue[i].parent, q) : claims' = claims \cup {<<c.id, d.id>>}
  /\ UNCHANGED <<plan, issue, lastEvent, contract, criteria, links, bucket, ledger>>

\* UnclaimIssueCriterion refuses a claim that is not there.
UnclaimIssueCriterion(i, p, q) ==
  /\ PlanAllows("claim") /\ issue[i].parent # NoParent
  /\ \E c \in CriterionAt(i, p), d \in CriterionAt(issue[i].parent, q) :
       /\ <<c.id, d.id>> \in claims
       /\ claims' = claims \ {<<c.id, d.id>>}
  /\ UNCHANGED <<plan, issue, lastEvent, contract, criteria, links, bucket, ledger>>

----------------------------------------------------------------------------
(* Decisions that were issues, and issues rendered out to contracts. *)

\* decisionResolutionFromBody: a body that is neither empty nor a question.
ResolutionFromBody(row) == row.status = "done" /\ row.body = "scoped"

\* Re-homing leaves the status but not the archive mark.
Retire_Unarchived(i) ==
  /\ issue' = [issue EXCEPT ![i].status = "cancelled"]
  /\ lastEvent' = IF issue[i].status # "cancelled" THEN StatusEvent(i, "cancelled") ELSE lastEvent

\* Cancelled and archived, with the event: how re-homing and render-out retire.
Retire(i) ==
  /\ issue' = [issue EXCEPT ![i].status = "cancelled", ![i].archived = TRUE]
  /\ lastEvent' = IF issue[i].status # "cancelled" THEN StatusEvent(i, "cancelled") ELSE lastEvent

\* ReHomeDecisionIssue.
ReHomeDecisionIssue(i, resolved) ==
  /\ PlanAllows("rehome")
  /\ issue[i].kind = "decision" /\ ~issue[i].archived /\ HasQuestion(issue[i])
  /\ ledger' = ledger \cup {[type |-> "question", origin |-> i]}
       \cup (IF resolved \/ ResolutionFromBody(issue[i]) THEN {[type |-> "resolution", origin |-> i]} ELSE {})
  /\ Retire(i)
  /\ UNCHANGED <<plan, contract, criteria, claims, links, bucket>>

\* createWorkContractTx.  There is one contract for a ref.
CreateWorkContract(r, parent, n) ==
  /\ PlanAllows("contract") /\ r \in plan.refs \ ContractRefs
  /\ parent # NoParent => parent \in ContractRefs
  /\ contract' = Upserted(contract, r, [parent |-> parent, status |-> "triage", started |-> "no", source |-> NoParent])
  /\ criteria' = Upserted(criteria, r, IF n = 0 THEN {} ELSE {[id |-> FreshCriterion, pos |-> 1]})
  /\ UNCHANGED <<plan, issue, lastEvent, claims, links, bucket, ledger>>

\* UpdateWorkContract: any status, removal statuses too; the workspace row is
\* written whatever it held before.
UpdateWorkContract(r, status, started) ==
  /\ PlanAllows("contract") /\ status \in IssueWriteStatuses \cup IssueRemovalStatuses
  /\ contract' = [contract EXCEPT ![r].status = status, ![r].started = started]
  /\ UNCHANGED <<plan, issue, lastEvent, criteria, claims, links, bucket, ledger>>

\* replaceWorkContractCriteriaTx: all rows go and others take their place, at the
\* positions the texts come with.
FreshAt(positions) ==
  LET ids == CHOOSE s \in SUBSET (1..(Cardinality(CriterionIds) + Cardinality(positions))) :
               s \cap CriterionIds = {} /\ Cardinality(s) = Cardinality(positions)
      rank(S, x) == Cardinality({y \in S : y <= x})
  IN  {[id |-> CHOOSE x \in ids : rank(ids, x) = rank(positions, p), pos |-> p] : p \in positions}

\* ReplaceWorkContractCriteria.
ReplaceWorkContractCriteria(r, n) ==
  LET crit == [criteria EXCEPT ![r] = FreshAt(1..n)] IN
  /\ PlanAllows("contract") /\ n \in 0..plan.crits
  /\ criteria' = crit /\ claims' = LiveClaims(crit)
  /\ UNCHANGED <<plan, issue, lastEvent, contract, links, bucket, ledger>>

\* AddWorkContractCriterion: the position after the number of criteria.
AddWorkContractCriterion(r) ==
  LET p == Cardinality(criteria[r]) + 1 IN
  /\ PlanAllows("contract") /\ p <= plan.crits /\ CriterionAt(r, p) = {}
  /\ criteria' = [criteria EXCEPT ![r] = @ \cup {[id |-> FreshCriterion, pos |-> p]}]
  /\ UNCHANGED <<plan, issue, lastEvent, contract, claims, links, bucket, ledger>>

\* RemoveWorkContractCriterion.
RemoveWorkContractCriterion(r, p) ==
  LET crit == [criteria EXCEPT ![r] = Compacted(@ \ CriterionAt(r, p))] IN
  /\ PlanAllows("contract") /\ CriterionAt(r, p) # {}
  /\ criteria' = crit /\ claims' = LiveClaims(crit)
  /\ UNCHANGED <<plan, issue, lastEvent, contract, links, bucket, ledger>>

\* ClaimWorkContractCriterion.
ClaimWorkContractCriterion(r, p, q) ==
  /\ PlanAllows("contract") /\ contract[r].parent # NoParent
  /\ \E c \in CriterionAt(r, p), d \in CriterionAt(contract[r].parent, q) : claims' = claims \cup {<<c.id, d.id>>}
  /\ UNCHANGED <<plan, issue, lastEvent, contract, criteria, links, bucket, ledger>>

\* UnclaimWorkContractCriterion deletes what there is.
UnclaimWorkContractCriterion(r, p, q) ==
  /\ PlanAllows("contract") /\ contract[r].parent # NoParent
  /\ \E c \in CriterionAt(r, p), d \in CriterionAt(contract[r].parent, q) : claims' = claims \ {<<c.id, d.id>>}
  /\ UNCHANGED <<plan, issue, lastEvent, contract, criteria, links, bucket, ledger>>

\* renderOutToExistingAuthority: the contract of the ref is refreshed or created,
\* with the issue's status and criteria, and mapped to the issue; the issue may
\* be retired at once.
RenderOutIssue(i, r, retire) ==
  LET crit == Upserted(criteria, r, FreshAt(Positions(criteria[i])))
      parent == IF r \in ContractRefs THEN contract[r].parent ELSE NoParent
      started == IF r \in ContractRefs THEN contract[r].started ELSE "no"
  IN
  /\ PlanAllows("render") /\ ~issue[i].archived /\ issue[i].kind # "decision"
  /\ contract' = Upserted(contract, r, [parent |-> parent, status |-> issue[i].status, started |-> started, source |-> i])
  /\ criteria' = crit /\ claims' = LiveClaims(crit)
  /\ IF retire THEN Retire(i) ELSE UNCHANGED <<issue, lastEvent>>
  /\ UNCHANGED <<plan, links, bucket, ledger>>

----------------------------------------------------------------------------

\* An issue's number is positive: NoParent is none.
ASSUME PlansAssumption ==
  \A p \in Plans : p.ids \subseteq Nat \ {NoParent} /\ p.crits \in Nat

IssuesInit ==
  /\ plan \in Plans
  /\ issue = <<>> /\ lastEvent = <<>> /\ contract = <<>> /\ criteria = <<>> /\ bucket = <<>>
  /\ claims = {} /\ links = {} /\ ledger = {}

TreeNext ==
  \/ \E p \in Issues \cup {NoParent}, b \in plan.bodies, c \in 0..plan.crits : CreateIssue(p, b, c = 1)
  \/ \E p \in Issues \cup {NoParent}, a \in BOOLEAN, b \in plan.bodies : CreateLegacyDecision(p, a, b)
  \/ \E p \in Issues \cup {NoParent}, a \in BOOLEAN, b \in plan.bodies : CreateDecision(a, b, p)
  \/ \E i \in Issues, p \in Issues \cup {NoParent} : UpdateIssueParent(i, p)
  \/ \E i \in Issues, s \in plan.statuses : UpdateIssueStatus(i, s)
  \/ \E i \in Issues, k \in {"delivery", "decision"}, b \in plan.bodies : UpdateIssueText(i, k, b)
  \/ \E i \in Issues : UpdateIssueStarted(i) \/ UpdateIssueStopped(i) \/ HardDeleteIssue(i)
  \/ \E i \in Issues, s \in IssueRemovalStatuses, j \in Issues \cup {NoParent} : RemoveIssue(i, s, j)
  \/ \E i, j \in Issues, t \in {"blocks", "relates_to"} : CreateIssueLink(i, t, j) \/ RemoveIssueLink(i, t, j)
  \/ \E i \in Issues, b \in {"now", "next", "later", "none"} : SetIssueBucket(i, b)
  \/ \E i \in Issues, b \in BOOLEAN : ReHomeDecisionIssue(i, b)

CriteriaNext ==
  \E i \in Issues, p \in 0..plan.crits :
    \/ ReplaceIssueCriteria(i, p)
    \/ AddIssueCriterion(i, p)
    \/ RemoveIssueCriterion(i, p)
    \/ PromoteIssueCriterion(i, p)
    \/ \E q \in 1..plan.crits : ClaimIssueCriterion(i, p, q) \/ UnclaimIssueCriterion(i, p, q)

ContractNext ==
  \/ \E r \in plan.refs, p \in ContractRefs \cup {NoParent}, n \in 0..1 : CreateWorkContract(r, p, n)
  \/ \E r \in ContractRefs, p \in 0..plan.crits :
       \/ ReplaceWorkContractCriteria(r, p)
       \/ RemoveWorkContractCriterion(r, p)
       \/ \E q \in 1..plan.crits : ClaimWorkContractCriterion(r, p, q) \/ UnclaimWorkContractCriterion(r, p, q)
  \/ \E r \in ContractRefs : AddWorkContractCriterion(r)
  \/ \E r \in ContractRefs, s \in plan.statuses \cup {"cancelled"}, w \in {"no", "branch"} : UpdateWorkContract(r, s, w)
  \/ \E i \in Issues, r \in plan.refs, b \in BOOLEAN : RenderOutIssue(i, r, b)

IssuesNext == TreeNext \/ CriteriaNext \/ ContractNext

IssuesSpec == IssuesInit /\ [][IssuesNext]_issueVars

----------------------------------------------------------------------------
(* Properties. *)

\* The status column says what the latest status event says (CheckIssueStatusParity
\* finds nothing), whichever commands wrote them: update, remove, start, re-home,
\* render-out.
StatusIsLastEvent == ParityMismatches = {}

\* Issues form a forest whatever is re-parented, promoted and deleted: every walk
\* up ends at a root (IssueRoot and buildIssueTree never report a cycle or a parent
\* that is gone), and of the started ancestors of an issue one is the nearest.
IssuesFormForest ==
  /\ \A i \in Issues : issue[i].parent \in Issues \cup {NoParent}
  /\ \A i \in Issues : \E r \in Lineage(i) : issue[r].parent = NoParent
  /\ TreeShown(TRUE) = Issues
  /\ \A i \in Issues : StartedAncestors(i) # {} => Cardinality(NearestStartedAncestor(i)) = 1

\* The criteria of an issue and of a contract are numbered 1..n without a gap
\* after any sequence of adding, removing, replacing, promoting and rendering.
CriteriaAreNumbered ==
  \A o \in DOMAIN criteria : Positions(criteria[o]) = 1..Cardinality(criteria[o])

\* A decision that was an issue is re-homed to the ledger once: it never leaves two
\* questions, and once it has left one it stays retired from the board.
ReHomedIsArchived ==
  \A f \in ledger : f.origin \in Issues => issue[f.origin].archived

\* The board as a whole, however the commands of the tree, of criteria and of
\* contracts follow each other: the forest, its events, its numbering and its
\* re-homed decisions agree with one another.
IssuesConsistent ==
  /\ IssuesFormForest
  /\ StatusIsLastEvent
  /\ CriteriaAreNumbered
  /\ ReHomedIsArchived

\* Editing an issue's criteria list moves no claim: as long as no criteria row is
\* dropped, the claims between issues' criteria stay.
ClaimsSurviveEditing ==
  [][(/\ contract' = contract /\ criteria' # criteria
      /\ \A o \in Issues : o \in DOMAIN criteria' /\ Cardinality(criteria'[o]) >= Cardinality(criteria[o])
      /\ \A r \in ContractRefs : criteria'[r] = criteria[r])
      => claims \subseteq claims']_issueVars
=============================================================================
