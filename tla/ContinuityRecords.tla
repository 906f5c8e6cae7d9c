------------------------- MODULE ContinuityRecords -------------------------
(***************************************************************************)
(* vNext records: what the append kernel admits, and what the snapshot and *)
(* the derived context make of the facts two environments have exchanged   *)
(* (src/vnext/continuity/sqlite: admission, append_methods, snapshot_*,    *)
(* context).  A store admits by its own facts only, so histories fork and  *)
(* are merged; the projections are functions of the merged set.            *)
(*                                                                         *)
(* Payloads are left out but for what admission and the folds read: the    *)
(* predecessor, the subject referred to, and the scope and branch the      *)
(* context selects by.  A hybrid time is one number: the order is all the  *)
(* code uses it for.                                                       *)
(***************************************************************************)
EXTENDS Naturals, Sequences, FiniteSets, SequencesExt, FiniteSetsExt

CONSTANTS
  Envs,       \* environments, in the order of their ids: a sequence
  Limits,     \* the context's cap for each family
  Bounds      \* records [records, facts, walls, twice, scopes, branches, registered]

ASSUME EnvsAssumption == Envs # << >> /\ Envs \in Seq({Envs[i] : i \in DOMAIN Envs})

VARIABLES
  bound,      \* the bounds of this behaviour
  facts,      \* the facts each store holds
  log,        \* the facts on their way, in the order of the relay
  read,       \* how many arrivals each store has applied
  minted      \* fact ids used so far

vars == <<bound, facts, log, read, minted>>

None == [none |-> TRUE]

Project == [rec |-> "project", id |-> 1]

----------------------------------------------------------------------------
(* The closed catalog. *)

\* rootFactKindV1: the fact that mints a record of each family.
RootKind ==
  [project |-> "ProjectRegistered", journal |-> "JournalRecorded", wrap |-> "WrapRecorded",
   spark |-> "SparkCaptured", idea |-> "IdeaCreated", decision |-> "DecisionOpened",
   exploration |-> "ExplorationStarted", checkpoint |-> "CheckpointRecorded",
   finding |-> "FindingRecorded", handoff |-> "HandoffRecorded",
   reference |-> "ReferenceRegistered", evidence |-> "EvidenceRecorded"]

\* The facts that follow: their family, the kinds they may follow, the class
\* they win in, and the kinds after which the record takes no more.
Successor(rec, active, class, terminal) ==
  [rec |-> rec, active |-> active, class |-> class, terminal |-> terminal]

IdeaEnds == {"IdeaResolved", "IdeaArchived", "IdeaPromoted"}
SparkEnds == {"SparkDismissed", "SparkPromoted"}

Catalog ==
  [LabelRevised |-> Successor("project", {"ProjectRegistered", "LabelRevised"}, 0, {}),
   JournalCorrected |-> Successor("journal", {"JournalRecorded", "JournalCorrected"}, 0, {}),
   SparkDismissed |-> Successor("spark", {"SparkCaptured"}, 2, SparkEnds),
   SparkPromoted |-> Successor("spark", {"SparkCaptured"}, 2, SparkEnds),
   IdeaRevised |-> Successor("idea", {"IdeaCreated", "IdeaRevised"}, 0, IdeaEnds),
   IdeaResolved |-> Successor("idea", {"IdeaCreated", "IdeaRevised"}, 2, IdeaEnds),
   IdeaArchived |-> Successor("idea", {"IdeaCreated", "IdeaRevised"}, 2, IdeaEnds),
   IdeaPromoted |-> Successor("idea", {"IdeaCreated", "IdeaRevised"}, 2, IdeaEnds),
   DecisionResolved |->
     Successor("decision", {"DecisionOpened"}, 1, {"DecisionResolved", "DecisionSuperseded"}),
   DecisionSuperseded |->
     Successor("decision", {"DecisionOpened", "DecisionResolved"}, 2, {"DecisionSuperseded"}),
   FindingCorrected |->
     Successor("finding", {"FindingRecorded", "FindingCorrected"}, 0, {"FindingRetracted"}),
   FindingRetracted |->
     Successor("finding", {"FindingRecorded", "FindingCorrected"}, 2, {"FindingRetracted"})]

Edges == {"ReferenceAttached", "ReferenceDetached"}

\* Clocks give natural numbers, and the families are those of the catalog.
ASSUME BoundsAssumption ==
  \A b \in Bounds : b.walls \subseteq Nat /\ b.records \subseteq DOMAIN RootKind

\* Every layer shows something: the caps of the context are positive.
ASSUME LimitsAssumption ==
  \A l \in DOMAIN RootKind \cup {"focused"} : Limits[l] \in Nat \ {0}

\* The family of the subject a fact refers to; "any" for a record of any family.
RefersTo ==
  [SparkPromoted |-> "idea", IdeaPromoted |-> "reference", DecisionSuperseded |-> "decision",
   CheckpointRecorded |-> "exploration", EvidenceRecorded |-> "any",
   ReferenceAttached |-> "any", ReferenceDetached |-> "any"]

\* The families whose root may name a focus.
Focused == {"WrapRecorded", "HandoffRecorded"}

----------------------------------------------------------------------------
(* One store's facts. *)

EnvIndex(e) == CHOOSE i \in DOMAIN Envs : Envs[i] = e

\* storedFactLessV1: time, then environment, then fact.
Less(f, g) ==
  \/ f.time < g.time
  \/ f.time = g.time /\ EnvIndex(f.env) < EnvIndex(g.env)
  \/ f.time = g.time /\ f.env = g.env /\ f.id < g.id

Greatest(S) == CHOOSE f \in S : \A g \in S \ {f} : Less(g, f)
Least(S) == CHOOSE f \in S : \A g \in S \ {f} : Less(f, g)

\* loadSubjectFactsV1
OfSubject(F, s) == {f \in F : f.subject = s}

Roots(F, s) == {f \in OfSubject(F, s) : f.kind = RootKind[s.rec]}

Subjects(F) == {f.subject : f \in F}

\* validateSubjectHistoryV1: exactly one mint, and it is the first fact.
HistoryHolds(F, s) ==
  OfSubject(F, s) # {} => Cardinality(Roots(F, s)) = 1 /\ Least(OfSubject(F, s)) \in Roots(F, s)

\* Mutant: the head of a record is the fact with the greatest sequence number.
LastFact_BySequence(F, s) == CHOOSE f \in OfSubject(F, s) : \A g \in OfSubject(F, s) : g.id <= f.id

\* The fact a writer has to name as predecessor.
LastFact(F, s) == Greatest(OfSubject(F, s))

----------------------------------------------------------------------------
(* Admission. *)

\* requireProjectV1
HasProject(F) == HistoryHolds(F, Project) /\ OfSubject(F, Project) # {}

\* requireReferenceV1
ReferenceExists(F, s) == HistoryHolds(F, s) /\ OfSubject(F, s) # {}

\* requireNewSubjectV1
IsNew(F, s) == OfSubject(F, s) = {}

\* requireActivePredecessorV1: the last fact is not terminal and is the one named.
ActivePredecessor(F, i) ==
  LET h == LastFact(F, i.subject) IN
  /\ OfSubject(F, i.subject) # {} /\ HistoryHolds(F, i.subject)
  /\ h.kind \notin Catalog[i.kind].terminal
  /\ h.kind \in Catalog[i.kind].active
  /\ h.id = i.pred

\* admitDecisionSuccessorV1
SuccessorAdmits(F, i) ==
  i.kind = "DecisionSuperseded" =>
    i.ref # i.subject /\ LastFact(F, i.ref).kind # "DecisionSuperseded"

\* foldExternalEdgeV1: the last fact about this target.
EdgeFacts(F, s, target) == {f \in OfSubject(F, s) : f.kind \in Edges /\ f.ref = target}

\* admitExternalReferenceEdgeV1
EdgeAdmits(F, i) ==
  LET edge == EdgeFacts(F, i.subject, i.ref)
      attached == edge # {} /\ Greatest(edge).kind = "ReferenceAttached"
  IN  /\ OfSubject(F, i.subject) # {} /\ HistoryHolds(F, i.subject)
      /\ attached = (i.kind = "ReferenceDetached")
      /\ i.pred = IF edge = {} THEN 0 ELSE Greatest(edge).id

\* admitFactV1
Admits(F, i) ==
  /\ i.kind # "ProjectRegistered" => HasProject(F)
  /\ i.kind = "ProjectRegistered" => F = {}
  /\ i.kind = RootKind[i.subject.rec] => IsNew(F, i.subject)
  /\ i.kind \in DOMAIN Catalog => ActivePredecessor(F, i)
  /\ i.kind \in Edges => EdgeAdmits(F, i)
  /\ i.ref # None => ReferenceExists(F, i.ref)
  /\ SuccessorAdmits(F, i)

----------------------------------------------------------------------------
(* The snapshot. *)

\* indexProjectCorpusV1: the least mint of a subject is its root.
CanonicalRoot(F, s) == Least(Roots(F, s))

ById(F, n) == CHOOSE f \in F : f.id = n

\* requireEarlierSubjectV1
Earlier(F, f, s) == Roots(F, s) # {} /\ Less(CanonicalRoot(F, s), f)

\* eligiblePredecessorV1, eligibleExternalEdgeFactV1: what makes a fact's
\* predecessor impossible, and so the history corrupt.
PredecessorHolds(F, f) ==
  \/ f.kind = "ReferenceAttached" /\ f.pred = 0
  \/ \E g \in F :
       /\ g.id = f.pred /\ g.subject = f.subject /\ Less(g, f)
       /\ IF f.kind \in Edges THEN g.kind \in Edges \ {f.kind} /\ g.ref = f.ref
                              ELSE g.kind \in Catalog[f.kind].active

\* A fact the folds look at: roots that are not canonical are passed over.
Looked(F, f) == f.kind = RootKind[f.subject.rec] => f = CanonicalRoot(F, f.subject)

\* foldProjectSnapshotV1 succeeds.
Folds(F) ==
  /\ Roots(F, Project) # {}
  /\ \A s \in Subjects(F) : Roots(F, s) # {}
  /\ \A f \in F : Looked(F, f) =>
       /\ f.kind # RootKind[f.subject.rec] => PredecessorHolds(F, f)
       /\ f.ref # None => Earlier(F, f, f.ref)
       /\ f.kind = "DecisionSuperseded" => f.ref # f.subject
       /\ f.kind \in Edges => Less(CanonicalRoot(F, f.subject), f)

\* The facts whose line of predecessors starts at the canonical root.
Eligible(F) ==
  LET el[f \in F] == IF f.kind = RootKind[f.subject.rec] THEN f = CanonicalRoot(F, f.subject)
                     ELSE f.pred = 0 \/ el[ById(F, f.pred)]
  IN  {f \in F : el[f]}

\* The class a fact wins in.
Class(f) == IF f.kind \in DOMAIN Catalog THEN Catalog[f.kind].class ELSE 0

\* Mutant: the last eligible fact wins, whatever its class.
Winner_Last(F, s) == Greatest(Eligible(F) \cap OfSubject(F, s))

\* The greatest fact of the greatest class: foldIdeasV1, foldDecisionsV1,
\* foldFindingsV1, foldSparksV1, foldProjectIdentityV1, foldJournalV1.
Winner(F, s) ==
  LET E == Eligible(F) \cap OfSubject(F, s)
      top == CHOOSE c \in {Class(f) : f \in E} : \A f \in E : Class(f) <= c
  IN  Greatest({f \in E : Class(f) = top})

\* The fact a record's content is taken from.
Content(F, s) == Greatest({f \in Eligible(F) \cap OfSubject(F, s) : Class(f) = 0})

\* The disposition.
Terminal(F, s) == Class(Winner(F, s)) = 2

\* foldExternalReferenceV1: the targets a reference is attached to.
Attachments(F, s) ==
  LET E == Eligible(F)
      last(t) == Greatest(EdgeFacts(F, s, t) \cap E)
  IN  {t \in {f.ref : f \in {g \in OfSubject(F, s) \cap E : g.kind \in Edges}} :
         last(t).kind = "ReferenceAttached"}

OfFamily(F, rec) == {s \in Subjects(F) : s.rec = rec}

\* A family's list is its records, each with the fact it is listed by, newest first:
\* the root,
ByRoot(F, S) == [s \in S |-> CanonicalRoot(F, s)]

\* or the head.
ByHead(F, S) == [s \in S |-> Winner(F, s)]

\* Of the records with the same focus, or of the same exploration, the last.
LatestPerRef(F, S) ==
  {s \in S : \A t \in S : CanonicalRoot(F, t).ref = CanonicalRoot(F, s).ref
                          => ~Less(CanonicalRoot(F, s), CanonicalRoot(F, t))}

EffectiveJournal(F) == ByRoot(F, OfFamily(F, "journal"))
LatestWraps(F) == ByRoot(F, LatestPerRef(F, OfFamily(F, "wrap")))
ActiveSparks(F) == ByRoot(F, {s \in OfFamily(F, "spark") : ~Terminal(F, s)})
CurrentIdeas(F) == ByHead(F, OfFamily(F, "idea"))
CurrentDecisions(F) == ByHead(F, OfFamily(F, "decision"))
LatestCheckpoints(F) == ByRoot(F, LatestPerRef(F, OfFamily(F, "checkpoint")))
CurrentFindings(F) == ByHead(F, OfFamily(F, "finding"))
LatestHandoffs(F) == ByRoot(F, LatestPerRef(F, OfFamily(F, "handoff")))
ExternalReferences(F) == ByRoot(F, OfFamily(F, "reference"))
VerificationEvidence(F) == ByRoot(F, OfFamily(F, "evidence"))

----------------------------------------------------------------------------
(* The derived context, for a request [focus, scope, branch]. *)

\* A layer gives each candidate its place: the entries of a list that pass the
\* first test come first, then those that pass the second, and so on.
Tiered(list, tests) ==
  LET tier == [s \in {x \in DOMAIN list : \E k \in DOMAIN tests : x \in tests[k]} |->
                 Min({k \in DOMAIN tests : s \in tests[k]})]
      ahead(s) == {t \in DOMAIN tier : tier[t] < tier[s] \/ (tier[t] = tier[s] /\ Less(list[s], list[t]))}
  IN  [s \in DOMAIN tier |-> Cardinality(ahead(s)) + 1]

InScope(F, q) == {s \in Subjects(F) : q.scope # 0 /\ Content(F, s).scope = q.scope}
OnBranch(F, q) == {s \in Subjects(F) : q.branch # 0 /\ Winner(F, s).branch = q.branch}
About(F, x) == {s \in Subjects(F) : CanonicalRoot(F, s).ref = x}

\* resolveContextFocusRelationsV1: the exploration a focus stands for.
FocusExploration(F, q) ==
  CASE q.focus = None -> None
    [] q.focus # None /\ q.focus.rec = "exploration" -> q.focus
    [] q.focus # None /\ q.focus.rec = "checkpoint" -> Least(Roots(F, q.focus)).ref
    [] OTHER -> None

\* contextShownCountV1: the candidates that are shown.
Capped(layer, rec) == {s \in DOMAIN layer : layer[s] <= Limits[rec]}

\* selectContextJournalV1: the focus has a layer of its own.
SelectFocusedJournal(F, q) == Tiered(EffectiveJournal(F), <<{q.focus}>>)
SelectProjectJournal(F, q) ==
  Tiered(Restrict(EffectiveJournal(F), OfFamily(F, "journal") \ {q.focus}),
         <<InScope(F, q), OnBranch(F, q), Subjects(F)>>)

\* selectContextWrapsV1
SelectWraps(F, q) == Tiered(LatestWraps(F), <<About(F, q.focus), About(F, None)>>)

\* selectContextSparksV1
SelectSparks(F, q) == Tiered(ActiveSparks(F), <<{q.focus}, InScope(F, q), Subjects(F)>>)

\* selectContextIdeasV1
SelectIdeas(F, q) ==
  Tiered(Restrict(CurrentIdeas(F), {s \in OfFamily(F, "idea") : ~Terminal(F, s)}),
         <<{q.focus}, Subjects(F)>>)

\* selectContextDecisionsV1
SelectDecisions(F, q) == Tiered(CurrentDecisions(F), <<{q.focus}, InScope(F, q), Subjects(F)>>)

\* selectContextCheckpointsV1
SelectCheckpoints(F, q) ==
  LET x == FocusExploration(F, q)
  IN  IF x # None THEN Tiered(LatestCheckpoints(F), <<About(F, x)>>)
      ELSE LET layer == Tiered(LatestCheckpoints(F), <<Subjects(F)>>)
           IN  Restrict(layer, {s \in DOMAIN layer : layer[s] = 1})

\* selectContextFindingsV1
SelectFindings(F, q) == Tiered(CurrentFindings(F), <<{q.focus}, InScope(F, q), Subjects(F)>>)

\* selectContextHandoffsV1
SelectHandoffs(F, q) == Tiered(LatestHandoffs(F), <<About(F, q.focus)>>)

\* deriveContextDigestV1: the candidates of each layer, best first.
Layers(F, q) ==
  [focused |-> SelectFocusedJournal(F, q), journal |-> SelectProjectJournal(F, q),
   wrap |-> SelectWraps(F, q), spark |-> SelectSparks(F, q), idea |-> SelectIdeas(F, q),
   decision |-> SelectDecisions(F, q), checkpoint |-> SelectCheckpoints(F, q),
   finding |-> SelectFindings(F, q), handoff |-> SelectHandoffs(F, q)]

\* Mutant: references and evidence follow every candidate, shown or not.
Selected_Candidates(F, q) ==
  LET layers == Layers(F, q)
  IN  {Project} \cup ({q.focus} \ {None}) \cup UNION {DOMAIN layers[l] : l \in DOMAIN layers}

\* contextSelectedSubjectRanksV1: the subjects that are shown.
Selected(F, q) ==
  LET layers == Layers(F, q)
  IN  {Project} \cup ({q.focus} \ {None})
        \cup UNION {Capped(layers[l], l) : l \in DOMAIN layers}

\* Focus first, then scope, then branch, then the rest of the project.
Rank(F, q, s) ==
  CASE s = q.focus -> 0
    [] q.focus # None /\ s.rec \in {"wrap", "handoff"} /\ CanonicalRoot(F, s).ref = q.focus -> 0
    [] s.rec = "checkpoint" /\ FocusExploration(F, q) # None -> 0
    [] s \in InScope(F, q) /\ s.rec \in {"journal", "spark", "decision", "finding"} -> 1
    [] s \in OnBranch(F, q) /\ s.rec = "journal" -> 2
    [] OTHER -> 3

\* matchingContextAttachmentsV1: the best rank among the targets that are shown.
BestRank(F, q, targets, shown) == Min({Rank(F, q, t) : t \in targets \cap shown})

\* The candidates that hang on shown subjects, by the best rank of those.
OneHop(F, q, S, targets(_)) ==
  LET shown == Selected(F, q)
      hanging == {s \in S : targets(s) \cap shown # {}}
      rank == [s \in hanging |-> BestRank(F, q, targets(s), shown)]
  IN  [k \in 1 .. 4 |-> {s \in DOMAIN rank : rank[s] = k - 1}]

\* selectContextExternalReferencesV1: a focused reference comes before all.
References(F, q) ==
  LET targets(s) == Attachments(F, s)
  IN  Tiered(ExternalReferences(F),
             <<{q.focus}>> \o OneHop(F, q, OfFamily(F, "reference"), targets))

\* selectContextVerificationEvidenceV1
Evidence(F, q) ==
  LET targets(s) == {CanonicalRoot(F, s).ref}
  IN  Tiered(VerificationEvidence(F), OneHop(F, q, OfFamily(F, "evidence"), targets))

\* The digest: the layers, and what hangs on what they show.
Digest(F, q) ==
  LET layers == Layers(F, q)
  IN  [focused |-> layers.focused, journal |-> layers.journal, wrap |-> layers.wrap,
       spark |-> layers.spark, idea |-> layers.idea, decision |-> layers.decision,
       checkpoint |-> layers.checkpoint, finding |-> layers.finding, handoff |-> layers.handoff,
       reference |-> References(F, q), evidence |-> Evidence(F, q)]

----------------------------------------------------------------------------
(* Stores that write and exchange. *)

Ids(F) == {f.id : f \in F}

\* Mutant: a stamp is above the writer's own facts only.
Allocate_Own(e, w) ==
  LET own == {f.time : f \in {g \in facts[e] : g.env = e}}
  IN  IF own = {} \/ w > Max(own) THEN w ELSE Max(own) + 1

\* allocateEnvelopeV1: the writer's clock, or just above all it holds.
Allocate(e, w) ==
  LET held == {f.time : f \in facts[e]}
  IN  IF held = {} \/ w > Max(held) THEN w ELSE Max(held) + 1

\* appendIntentInTxV1.  The fact is on its way at once: between two stores,
\* receiving it later stands for sending it later.
AppendFact(e, i, w) ==
  /\ minted < bound.facts
  /\ Admits(facts[e], i)
  /\ minted' = minted + 1
  /\ LET f == [id |-> minted', env |-> e, time |-> Allocate(e, w), subject |-> i.subject,
               kind |-> i.kind, pred |-> i.pred, ref |-> i.ref, scope |-> i.scope,
               branch |-> i.branch]
     IN  facts' = [facts EXCEPT ![e] = @ \cup {f}] /\ log' = log \o <<f>>
  /\ UNCHANGED <<bound, read>>

Intent(s, k, p, r, sc, b) ==
  [subject |-> s, kind |-> k, pred |-> p, ref |-> r, scope |-> sc, branch |-> b]

\* The subjects a caller may name: those it knows, and a new one of a family.
\* Ids are the caller's; two stores may mint the same one.
Mintable(rec) ==
  {[rec |-> rec, id |-> IF rec = "project" THEN 1 ELSE minted + 1]}
    \cup IF bound.twice THEN {s \in UNION {Subjects(facts[e]) : e \in Range(Envs)} : s.rec = rec}
                        ELSE {}

\* RegisterProject, RecordJournalEntry, CaptureSpark, CreateIdea, OpenDecision,
\* StartExploration, RecordFinding, RegisterExternalReference: a new record.
Mint(e, w) ==
  \E rec \in bound.records, sc \in bound.scopes, b \in bound.branches :
    /\ RootKind[rec] \notin Focused \cup DOMAIN RefersTo
    /\ \E s \in Mintable(rec) : AppendFact(e, Intent(s, RootKind[rec], 0, None, sc, b), w)

\* RecordWrap, RecordHandoff, RecordCheckpoint, RecordVerificationEvidence: a
\* new record about another one.
MintAbout(e, w) ==
  \E rec \in bound.records, r \in Subjects(facts[e]) \cup {None} :
    LET k == RootKind[rec] IN
    /\ k \in Focused \cup DOMAIN RefersTo
    /\ r = None => k \in Focused
    /\ r # None /\ k \in DOMAIN RefersTo => RefersTo[k] \in {"any", r.rec}
    /\ \E s \in Mintable(rec) : AppendFact(e, Intent(s, k, 0, r, 0, 0), w)

\* ReviseProjectLabel, CorrectJournalEntry, ReviseIdea, ResolveIdea, ArchiveIdea,
\* ResolveDecision, DismissSpark, CorrectFinding, RetractFinding, and the ones
\* that name a second record: PromoteSparkToIdea, PromoteIdeaToExternalReference
\* and SupersedeDecision.
Succeed(e, w) ==
  \E k \in DOMAIN Catalog, s \in Subjects(facts[e]), r \in Subjects(facts[e]) \cup {None} :
    /\ Catalog[k].rec = s.rec /\ s.rec \in bound.records
    /\ (r = None) = (k \notin DOMAIN RefersTo)
    /\ r # None => RefersTo[k] = r.rec
    /\ \E p \in Ids(facts[e]), sc \in bound.scopes, b \in bound.branches :
         AppendFact(e, Intent(s, k, p, r, sc, b), w)

\* AttachExternalReference, DetachExternalReference
Edge(e, w) ==
  \E k \in Edges, s, r \in Subjects(facts[e]) :
    /\ s.rec = "reference"
    /\ \E p \in Ids(facts[e]) \cup {0} : AppendFact(e, Intent(s, k, p, r, 0, 0), w)

\* ApplySyncBatch: a store applies the next arrival.  One that does not fold is
\* quarantined and stays where it is.  Its own facts it holds already.
Receive(e) ==
  /\ read[e] < Len(log)
  /\ Folds(facts[e] \cup {log[read[e] + 1]})
  /\ facts' = [facts EXCEPT ![e] = @ \cup {log[read[e] + 1]}]
  /\ read' = [read EXCEPT ![e] = @ + 1]
  /\ UNCHANGED <<bound, log, minted>>

\* Every store has the project, or none has.
Init ==
  /\ bound \in Bounds
  /\ LET first == [id |-> 1, env |-> Envs[1], time |-> 1, subject |-> Project,
                   kind |-> "ProjectRegistered", pred |-> 0, ref |-> None, scope |-> 0, branch |-> 0]
         start == IF bound.registered THEN <<first>> ELSE << >>
     IN  /\ facts = [e \in Range(Envs) |-> Range(start)]
         /\ log = start
         /\ read = [e \in Range(Envs) |-> Len(start)]
         /\ minted = Len(start)

Next ==
  \E e \in Range(Envs) :
    \/ \E w \in bound.walls : Mint(e, w) \/ MintAbout(e, w) \/ Succeed(e, w) \/ Edge(e, w)
    \/ Receive(e)

Spec == Init /\ [][Next]_vars

----------------------------------------------------------------------------
(* What the projections promise. *)

Requests(F) ==
  {[focus |-> x, scope |-> c, branch |-> b] :
     x \in Subjects(F) \cup {None}, c \in bound.scopes, b \in bound.branches}

\* "Missing, cross-subject, future, or impossible-transition predecessors make
\* the history corrupt": no order of writing, sending and receiving gets a store
\* there, and so no arrival is ever stuck, even where two stores have minted the
\* same subject.
SnapshotFolds ==
  \A e \in Range(Envs) :
    /\ facts[e] # {} => Folds(facts[e])
    /\ read[e] < Len(log) => Folds(facts[e] \cup {log[read[e] + 1]})

\* A disposition the snapshot has shown is not taken back by what is written or
\* arrives later, as long as the record has one mint.
DispositionStands ==
  [][\A e \in Range(Envs) : \A s \in Subjects(facts[e]) :
       Cardinality(Roots(facts[e]', s)) = 1 /\ Folds(facts[e]) /\ Terminal(facts[e], s)
         => Terminal(facts[e]', s)]_vars

\* A caller that takes the snapshot's head of an active record as predecessor
\* names the fact admission asks for, and sees an edge as admission does:
\* admission looks at the last fact alone, the snapshot at the whole history.
HeadsAgree ==
  \A e \in Range(Envs) : \A s \in Subjects(facts[e]) :
    LET F == facts[e] IN
    Folds(F) /\ Cardinality(Roots(F, s)) = 1 =>
      /\ s.rec # "reference" /\ ~Terminal(F, s) => LastFact(F, s) = Winner(F, s)
      /\ s.rec = "reference" => \A t \in Subjects(F) :
           LET edge == EdgeFacts(F, s, t)
           IN  (t \in Attachments(F, s)) = (edge # {} /\ Greatest(edge).kind = "ReferenceAttached")

\* A record is the first entry of a layer.
Leads(digest, l, s) == s \in Capped(digest[l], l) /\ digest[l][s] = 1

IsClosed(F, q, digest) ==
  LET shown == {Project} \cup ({q.focus} \ {None})
               \cup UNION {Capped(digest[l], l) : l \in DOMAIN digest \ {"reference", "evidence"}}
  IN  /\ \A s \in DOMAIN digest.reference : s = q.focus \/ Attachments(F, s) \cap shown # {}
      /\ \A s \in DOMAIN digest.evidence : CanonicalRoot(F, s).ref \in shown
      /\ \A l \in DOMAIN digest : Cardinality(Capped(digest[l], l)) <= Limits[l]
      /\ q.focus # None /\ q.focus.rec = "journal" => Leads(digest, "focused", q.focus)
      /\ q.focus # None /\ q.focus.rec \in {"decision", "finding", "reference"} => Leads(digest, q.focus.rec, q.focus)
      /\ q.focus # None /\ q.focus.rec \in {"spark", "idea"} /\ ~Terminal(F, q.focus) => Leads(digest, q.focus.rec, q.focus)

\* "Omitted records cannot leak through attachments", and "the explicit focus
\* cannot be capped out": whatever is asked, references and evidence hang on
\* records that are shown, every layer keeps to its cap, and a focus of a layer
\* that is still listed is its first entry (a spark or an idea is listed until it
\* has been disposed of).
ContextIsClosed ==
  \A e \in Range(Envs) : Folds(facts[e]) =>
    \A q \in Requests(facts[e]) : IsClosed(facts[e], q, Digest(facts[e], q))
=============================================================================
