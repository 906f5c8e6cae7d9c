------------------------------ MODULE FactSync ------------------------------
(***************************************************************************)
(* Grow-only facts of one project, synced between devices through the      *)
(* relay: internal/state/fact*.go (the stores), internal/sync (the passes  *)
(* of `loaf sync` and `loaf attach`) and the fact half of                  *)
(* internal/syncserver (the relay).                                        *)
(*                                                                         *)
(* Each SQLite transaction and each autocommit statement is one step; a    *)
(* pass of `loaf sync` or `loaf attach` takes many, holds no lock, and may *)
(* stop between any two of them.  Sealing and opening blobs is left out: a *)
(* blob opens to the envelope it was sealed from.                          *)
(***************************************************************************)
EXTENDS FactStore

CONSTANTS
  Proc,           \* processes running `loaf sync` or `loaf attach`
  DeviceOf,       \* the database a sync process has opened
  MaxBatchSize,   \* limit of handlePush
  MaxDeletions,   \* bound: how many blobs administrators delete
  MaxInterruptions, \* bound: how many passes are cut short
  MaxFaults       \* bound: deletions and interruptions together

ASSUME SyncAssumption ==
  /\ DeviceOf \in [Proc -> Device]
  /\ MaxBatchSize \in Nat /\ MaxDeletions \in Nat /\ MaxInterruptions \in Nat
  /\ MaxFaults \in Nat

VARIABLES
  unqueued,   \* unqueued[d]: ids AppendFact committed and has yet to enqueue
  queue,      \* queue[d]: outbound rows with pushed_at NULL
  pushed,     \* pushed[d]: outbound rows with pushed_at set
  cursor,     \* cursor[d]: arrival_cursor, 0 when there is no row
  blobs,      \* the relay's fact_blobs rows
  nextSeq,    \* the relay's next arrival number
  late,       \* push requests whose sender has given up on them
  pc, batch, toMark, seen, page,   \* what a sync process holds in memory
  deleted,    \* history: the rows administrators deleted
  interruptions \* history: how many passes were cut short

deviceVars == <<facts, clock, unqueued, queue, pushed, cursor>>
relayVars  == <<blobs, nextSeq, deleted>>
procVars   == <<pc, batch, toMark, seen, page>>
vars == <<deviceVars, relayVars, late, procVars, now, interruptions>>

----------------------------------------------------------------------------
(* The state's types. *)

Blob == [fact : Fact, arrival : Nat \ {0}]

Steps == {"idle",
          "pushing", "marking", "pull", "pulling", "receiving", "writing",  \* sync
          "probing", "checking"}                                            \* attach

TypeOK ==
  /\ StoreTypeOK
  /\ unqueued \in [Device -> SUBSET FactId]
  /\ queue \in [Device -> SUBSET FactId]
  /\ pushed \in [Device -> SUBSET FactId]
  /\ cursor \in [Device -> Nat]
  /\ blobs \in SUBSET Blob
  /\ nextSeq \in Nat \ {0}
  /\ late \in SUBSET (SUBSET Fact)
  /\ pc \in [Proc -> Steps]
  /\ batch \in [Proc -> SUBSET Fact]
  /\ toMark \in [Proc -> SUBSET FactId]
  /\ seen \in [Proc -> Nat]
  /\ page \in [Proc -> SUBSET Blob]
  /\ deleted \in SUBSET Blob
  /\ interruptions \in Nat

Init ==
  /\ StoreInit
  /\ unqueued = [d \in Device |-> {}]
  /\ queue = [d \in Device |-> {}]
  /\ pushed = [d \in Device |-> {}]
  /\ cursor = [d \in Device |-> 0]
  /\ blobs = {} /\ nextSeq = 1 /\ deleted = {}
  /\ late = {}
  /\ pc = [p \in Proc |-> "idle"]
  /\ batch = [p \in Proc |-> {}]
  /\ toMark = [p \in Proc |-> {}]
  /\ seen = [p \in Proc |-> 0]
  /\ page = [p \in Proc |-> {}]
  /\ interruptions = 0

----------------------------------------------------------------------------
(* Writers on one device. *)

\* AppendFact up to its commit; the enqueue hook runs after it.
AppendFact(d, e, id, w) ==
  /\ WriteFact(d, e, id, w)
  /\ unqueued' = [unqueued EXCEPT ![d] = @ \cup {id}]
  /\ UNCHANGED <<queue, pushed, cursor, relayVars, late, procVars, interruptions>>

\* Mutation of AppendInTx: the clock row is not stored.
AppendInTx_ForgetsClock(d, e, id, w) ==
  /\ e \in EnvsOf[d]
  /\ id \in FreshIds
  /\ LET row == nextFactClock(clock[d][e], w)
     IN  facts' = [facts EXCEPT ![d] = @ \cup
           {[id |-> id, env |-> e, seq |-> row.next - 1, hlc |-> row.hlc]}]
  /\ UNCHANGED <<clock, now, unqueued, queue, pushed, cursor, relayVars, late,
                 procVars, interruptions>>

\* A writer that calls appendFactTx inside a transaction of its own (journal,
\* spark, idea, handoff, release, ref, worktree, verification), or a backfill
\* that gives old rows their facts: no hook runs.
AppendInTx(d, e, id, w) ==
  /\ WriteFact(d, e, id, w)
  /\ UNCHANGED <<unqueued, queue, pushed, cursor, relayVars, late, procVars, interruptions>>

\* invokeSyncEnqueueHook: the statement after AppendFact's commit.
EnqueueOutboundFact(d, id) ==
  /\ id \in unqueued[d]
  /\ unqueued' = [unqueued EXCEPT ![d] = @ \ {id}]
  /\ queue' = [queue EXCEPT ![d] = @ \cup {id}]
  /\ UNCHANGED <<facts, clock, pushed, cursor, relayVars, late, procVars, now, interruptions>>

\* The writer stops, or its hook fails, between the commit and the enqueue.
AppendInterrupted(d, id) ==
  /\ id \in unqueued[d]
  /\ unqueued' = [unqueued EXCEPT ![d] = @ \ {id}]
  /\ UNCHANGED <<facts, clock, queue, pushed, cursor, relayVars, late, procVars, now, interruptions>>

----------------------------------------------------------------------------
(* The push half of a sync pass. *)

Pending(d) == {f \in facts[d] : f.id \in queue[d]}

\* pushPending: seal every pending fact into one request, or go on to pull.
StartPass(p) ==
  LET B == Pending(DeviceOf[p])
  IN  /\ pc[p] = "idle"
      /\ batch' = [batch EXCEPT ![p] = B]
      /\ pc' = [pc EXCEPT ![p] = IF B = {} THEN "pull" ELSE "pushing"]
      /\ UNCHANGED <<deviceVars, relayVars, late, toMark, seen, page, now, interruptions>>

\* Mutation of NewTo: every fact of the batch is taken to be new.
NewTo_NoDuplicateCheck(B) == B

\* The facts of a batch whose id the relay does not hold yet.
NewTo(B) == {f \in B : f.id \notin {b.fact.id : b \in blobs}}

\* Mutation of PushFacts: arrival numbers start at zero.
PushFacts_FromZero(B) ==
  LET New == NewTo(B)
      n   == Cardinality(New)
  IN  \E place \in [New -> 1 .. n] :
        /\ \A f, g \in New : place[f] = place[g] => f = g
        /\ blobs' = blobs \cup
             {[fact |-> f, arrival |-> nextSeq + place[f] - 2] : f \in New}
        /\ nextSeq' = nextSeq + n

\* PushFacts in one transaction: a known id is a duplicate, every other fact
\* gets the next arrival number, in the order of the request.
PushFacts(B) ==
  LET New == NewTo(B)
      n   == Cardinality(New)
  IN  \E place \in [New -> 1 .. n] :
        /\ \A f, g \in New : place[f] = place[g] => f = g
        /\ blobs' = blobs \cup
             {[fact |-> f, arrival |-> nextSeq + place[f] - 1] : f \in New}
        /\ nextSeq' = nextSeq + n

Accepts(B) == Cardinality(B) <= MaxBatchSize

\* Mutation of Push: only accepted ids are marked, duplicates are not.
Push_IgnoresDuplicates(p) ==
  /\ pc[p] = "pushing"
  /\ Accepts(batch[p])
  /\ PushFacts(batch[p])
  /\ toMark' = [toMark EXCEPT ![p] = Ids(NewTo(batch[p]))]
  /\ batch' = [batch EXCEPT ![p] = {}]
  /\ pc' = [pc EXCEPT ![p] = IF NewTo(batch[p]) = {} THEN "pull" ELSE "marking"]
  /\ UNCHANGED <<deviceVars, late, seen, page, now, deleted, interruptions>>

\* handlePush answers; accepted and duplicate ids are both to be marked.
Push(p) ==
  /\ pc[p] = "pushing"
  /\ Accepts(batch[p])
  /\ PushFacts(batch[p])
  /\ toMark' = [toMark EXCEPT ![p] = Ids(batch[p])]
  /\ batch' = [batch EXCEPT ![p] = {}]
  /\ pc' = [pc EXCEPT ![p] = "marking"]
  /\ UNCHANGED <<deviceVars, late, seen, page, now, deleted, interruptions>>

\* Everything a process held is gone and the pass is over.
Forget(p) ==
  /\ pc' = [pc EXCEPT ![p] = "idle"]
  /\ batch' = [batch EXCEPT ![p] = {}]
  /\ toMark' = [toMark EXCEPT ![p] = {}]
  /\ seen' = [seen EXCEPT ![p] = 0]
  /\ page' = [page EXCEPT ![p] = {}]

\* handlePush refuses a batch above its limit; the pass ends with the error.
PushRefused(p) ==
  /\ pc[p] = "pushing"
  /\ ~Accepts(batch[p])
  /\ Forget(p)
  /\ UNCHANGED <<deviceVars, relayVars, late, now, interruptions>>

\* A request reaches the relay after its sender has gone; nobody reads the
\* answer.
PushLate(B) ==
  /\ B \in late
  /\ Accepts(B)
  /\ PushFacts(B)
  /\ late' = late \ {B}
  /\ UNCHANGED <<deviceVars, procVars, now, deleted, interruptions>>

\* Mutation of MarkPushed: all that is pending by now is marked.
MarkPushed_WholeQueue(p, id) ==
  LET d == DeviceOf[p]
  IN  /\ pc[p] = "marking"
      /\ id \in toMark[p]
      /\ toMark' = [toMark EXCEPT ![p] = {}]
      /\ queue' = [queue EXCEPT ![d] = {}]
      /\ pushed' = [pushed EXCEPT ![d] = @ \cup queue[d]]
      /\ pc' = [pc EXCEPT ![p] = "pull"]
      /\ UNCHANGED <<facts, clock, unqueued, cursor, relayVars, late,
                     batch, seen, page, now, interruptions>>

\* markOutboundFactsPushed: one UPDATE per id.
MarkPushed(p, id) ==
  LET d == DeviceOf[p]
  IN  /\ pc[p] = "marking"
      /\ id \in toMark[p]
      /\ toMark' = [toMark EXCEPT ![p] = @ \ {id}]
      /\ queue' = [queue EXCEPT ![d] = @ \ {id}]
      /\ pushed' = [pushed EXCEPT ![d] = @ \cup {id}]
      /\ pc' = [pc EXCEPT ![p] = IF toMark[p] = {id} THEN "pull" ELSE @]
      /\ UNCHANGED <<facts, clock, unqueued, cursor, relayVars, late,
                     batch, seen, page, now, interruptions>>

----------------------------------------------------------------------------
(* The pull half of a sync pass. *)

\* readArrivalCursor
StartPull(p) ==
  /\ pc[p] = "pull"
  /\ seen' = [seen EXCEPT ![p] = cursor[DeviceOf[p]]]
  /\ pc' = [pc EXCEPT ![p] = "pulling"]
  /\ UNCHANGED <<deviceVars, relayVars, late, batch, toMark, page, now, interruptions>>

\* Mutation of PullFactsSince: the cursor is stored when the answer arrives,
\* before its items are received.
PullFactsSince_StoresCursor(p) ==
  LET P == {b \in blobs : b.arrival > seen[p]}
  IN  /\ pc[p] = "pulling"
      /\ page' = [page EXCEPT ![p] = P]
      /\ cursor' = [cursor EXCEPT ![DeviceOf[p]] = IF P = {} THEN @ ELSE nextSeq - 1]
      /\ pc' = [pc EXCEPT ![p] = IF P = {} THEN "writing" ELSE "receiving"]
      /\ UNCHANGED <<facts, clock, unqueued, queue, pushed, relayVars, late, batch,
                     toMark, seen, now, interruptions>>

\* PullFactsSince: every blob after the cursor, unpaginated.  An empty answer
\* ends the loop with the cursor where it is.
PullFactsSince(p) ==
  LET P == {b \in blobs : b.arrival > seen[p]}
  IN  /\ pc[p] = "pulling"
      /\ page' = [page EXCEPT ![p] = P]
      /\ pc' = [pc EXCEPT ![p] = IF P = {} THEN "writing" ELSE "receiving"]
      /\ UNCHANGED <<deviceVars, relayVars, late, batch, toMark, seen, now, interruptions>>

\* UnattendedAttach: ProbeRemote pulls the whole stream, whatever the cursor.
StartAttach(p) ==
  /\ pc[p] = "idle"
  /\ seen' = [seen EXCEPT ![p] = 0]
  /\ pc' = [pc EXCEPT ![p] = "probing"]
  /\ UNCHANGED <<deviceVars, relayVars, late, batch, toMark, page, now, interruptions>>

\* The pull of ProbeRemote; an empty answer ends the attach, and no cursor is
\* written.
ProbeRemote(p) ==
  LET P == {b \in blobs : b.arrival > seen[p]}
  IN  /\ pc[p] = "probing"
      /\ IF P = {} THEN Forget(p)
                    ELSE /\ page' = [page EXCEPT ![p] = P]
                         /\ pc' = [pc EXCEPT ![p] = "checking"]
                         /\ UNCHANGED <<batch, toMark, seen>>
      /\ UNCHANGED <<deviceVars, relayVars, late, now, interruptions>>

\* A process is going through the items of an answer.
Receiving(p) == pc[p] \in {"receiving", "checking"}

\* The items of an answer are taken in the order of arrival.
IsFirst(p, b) == b \in page[p] /\ \A c \in page[p] : b.arrival <= c.arrival

\* Mutation of Consume: the cursor moves to the relay's newest number, not to
\* the answer's.
Consume_ToNewest(p, b) ==
  /\ page' = [page EXCEPT ![p] = @ \ {b}]
  /\ IF page[p] = {b}
     THEN /\ seen' = [seen EXCEPT ![p] = nextSeq - 1]
          /\ pc' = [pc EXCEPT ![p] = IF @ = "receiving" THEN "pulling" ELSE "probing"]
     ELSE UNCHANGED <<seen, pc>>
  /\ UNCHANGED <<batch, toMark>>

\* After the last item the cursor moves to the answer's, and the loop pulls
\* again.
Consume(p, b) ==
  /\ page' = [page EXCEPT ![p] = @ \ {b}]
  /\ IF page[p] = {b}
     THEN /\ seen' = [seen EXCEPT ![p] = b.arrival]
          /\ pc' = [pc EXCEPT ![p] = IF @ = "receiving" THEN "pulling" ELSE "probing"]
     ELSE UNCHANGED <<seen, pc>>
  /\ UNCHANGED <<batch, toMark>>

\* Mutation of ReceiveKnown: a known id is an error that ends the pass.
ReceiveKnown_Fails(p, b) ==
  /\ Receiving(p)
  /\ IsFirst(p, b)
  /\ Known(DeviceOf[p], b.fact)
  /\ Forget(p)
  /\ UNCHANGED <<deviceVars, relayVars, late, now, interruptions>>

\* An id the store holds already: ignored.
ReceiveKnown(p, b) ==
  /\ Receiving(p)
  /\ IsFirst(p, b)
  /\ Known(DeviceOf[p], b.fact)
  /\ Consume(p, b)
  /\ UNCHANGED <<deviceVars, relayVars, late, now, interruptions>>

ReceiveFact(p, b) ==
  LET d == DeviceOf[p]
  IN  /\ Receiving(p)
      /\ IsFirst(p, b)
      /\ Receive(d, b.fact)
      /\ Consume(p, b)
      /\ UNCHANGED <<unqueued, queue, pushed, cursor, relayVars, late, interruptions>>

\* Mutation of ReceiveRefused: a fact the store refuses is passed over.
ReceiveRefused_Skips(p, b) ==
  LET d == DeviceOf[p]
  IN  /\ Receiving(p)
      /\ IsFirst(p, b)
      /\ ~Known(d, b.fact) /\ ~receivable(d, b.fact)
      /\ Consume(p, b)
      /\ UNCHANGED <<deviceVars, relayVars, late, now, interruptions>>

\* A skew refusal or a taken sequence number ends the pass before the cursor
\* is written, and the attach before it succeeds.
ReceiveRefused(p, b) ==
  LET d == DeviceOf[p]
  IN  /\ Receiving(p)
      /\ IsFirst(p, b)
      /\ ~Known(d, b.fact) /\ ~receivable(d, b.fact)
      /\ Forget(p)
      /\ UNCHANGED <<deviceVars, relayVars, late, now, interruptions>>

\* writeArrivalCursor: an upsert that overwrites whatever is there.
WriteCursor(p) ==
  /\ pc[p] = "writing"
  /\ cursor' = [cursor EXCEPT ![DeviceOf[p]] = seen[p]]
  /\ Forget(p)
  /\ UNCHANGED <<facts, clock, unqueued, queue, pushed, relayVars, late, now, interruptions>>

Faults == interruptions + Cardinality(deleted)

\* A pass is killed, or its connection breaks: what it did so far stays, and
\* a request under way may still reach the relay.
PassInterrupted(p) ==
  /\ interruptions < MaxInterruptions /\ Faults < MaxFaults
  /\ pc[p] # "idle"
  /\ Forget(p)
  /\ late' = IF pc[p] = "pushing" THEN late \cup {batch[p]} ELSE late
  /\ interruptions' = interruptions + 1
  /\ UNCHANGED <<deviceVars, relayVars, now>>

----------------------------------------------------------------------------
(* The administrator, and time. *)

\* DeleteFact: the row goes; nothing remembers the id.
DeleteFact(b) ==
  /\ Cardinality(deleted) < MaxDeletions /\ Faults < MaxFaults
  /\ b \in blobs
  /\ blobs' = blobs \ {b}
  /\ deleted' = deleted \cup {b}
  /\ UNCHANGED <<deviceVars, nextSeq, late, procVars, now, interruptions>>

Tick ==
  /\ StoreTick
  /\ UNCHANGED <<unqueued, queue, pushed, cursor, relayVars, late, procVars, interruptions>>

\* The steps that keep a pass going.
PassStep(p) ==
  \/ StartPass(p)
  \/ Push(p) \/ PushRefused(p)
  \/ \E id \in FactId : MarkPushed(p, id)
  \/ StartPull(p) \/ PullFactsSince(p) \/ ProbeRemote(p)
  \/ \E b \in page[p] : ReceiveKnown(p, b)
  \/ \E b \in page[p] : ReceiveFact(p, b)
  \/ \E b \in page[p] : ReceiveRefused(p, b)
  \/ WriteCursor(p)

Write ==
  \E d \in Device, id \in FactId :
    \/ \E e \in EnvId, w \in Readings : AppendFact(d, e, id, w)
    \/ \E e \in EnvId, w \in Times : AppendInTx(d, e, id, w)
    \/ EnqueueOutboundFact(d, id)
    \/ AppendInterrupted(d, id)

Next ==
  \/ Write
  \/ \E p \in Proc : PassStep(p) \/ StartAttach(p) \/ PassInterrupted(p)
  \/ \E B \in late : PushLate(B)
  \/ \E b \in blobs : DeleteFact(b)
  \/ Tick

Spec == Init /\ [][Next]_vars

----------------------------------------------------------------------------
(* Safety. *)

\* The arrival cursor never outruns the store: whatever the relay still holds
\* at or below the cursor is in the device's facts, whichever passes were cut
\* short, raced each other, or wrote their cursor late.  A pull that starts
\* at the cursor (pullSinceCursor) therefore skips nothing.
CursorSound ==
  \A d \in Device : \A b \in blobs : b.arrival <= cursor[d] => b.fact \in facts[d]

\* An outbound row is marked pushed only once the relay has the fact: what has
\* left the queue is on the relay, or an administrator deleted it there
\* (pushPending marks what the answer names, never what it sent).
PushedIsOnRelay ==
  \A d \in Device : pushed[d] \subseteq {b.fact.id : b \in blobs \cup deleted}

\* An attach that succeeds leaves the device with all the relay holds: whatever
\* it pulled it has received, and a refused fact fails it (UnattendedAttach).
AttachHoldsAll ==
  [][\A p \in Proc :
       pc[p] = "probing" /\ pc'[p] = "idle" /\ interruptions' = interruptions =>
         \A b \in blobs : b.fact \in facts[DeviceOf[p]]]_vars

\* The relay holds one blob per fact id and one per arrival number, however
\* often a push is retried, overtaken or handled late (PushFacts).
RelayRowsDistinct ==
  \A b, c \in blobs : b.fact.id = c.fact.id \/ b.arrival = c.arrival => b = c

----------------------------------------------------------------------------
(* The inductive invariant behind them. *)

Written == UNION {facts[d] : d \in Device}

\* Batches are finite, so PushFacts can number them.
FiniteBatches ==
  /\ \A d \in Device : IsFiniteSet(facts[d])
  /\ \A p \in Proc : IsFiniteSet(batch[p])
  /\ \A B \in late : IsFiniteSet(B)

\* Whatever is on its way, or on the relay, some device wrote and holds.
CarriedIsWritten ==
  /\ \A p \in Proc : batch[p] \subseteq Written
  /\ \A p \in Proc : \A b \in page[p] : b.fact \in Written
  /\ \A B \in late : B \subseteq Written
  /\ \A b \in blobs : b.fact \in Written

\* No arrival number and no cursor has reached the number handed out next.
ArrivalsBelowNext ==
  /\ \A b \in blobs : b.arrival < nextSeq
  /\ \A p \in Proc : seen[p] < nextSeq /\ \A b \in page[p] : b.arrival < nextSeq
  /\ \A d \in Device : cursor[d] < nextSeq

Pulling == {"pulling", "receiving", "writing", "probing", "checking"}

\* The cursor a pass holds in memory is as sound as the stored one.
SeenSound ==
  \A p \in Proc : pc[p] \in Pulling =>
    \A b \in blobs : b.arrival <= seen[p] => b.fact \in facts[DeviceOf[p]]

\* What came before an item of a page and is no longer in it has been received.
PageSound ==
  \A p \in Proc : Receiving(p) =>
    \A c \in page[p] : \A b \in blobs : b.arrival <= c.arrival =>
      b \in page[p] \/ b.fact \in facts[DeviceOf[p]]

\* What is to be marked has reached the relay.
ToMarkIsOnRelay ==
  \A p \in Proc : toMark[p] \subseteq {b.fact.id : b \in blobs \cup deleted}

SyncInv ==
  /\ TypeOK
  /\ StoreInv
  /\ FiniteBatches
  /\ CarriedIsWritten
  /\ ArrivalsBelowNext
  /\ SeenSound
  /\ PageSound
  /\ CursorSound
  /\ ToMarkIsOnRelay
  /\ PushedIsOnRelay
  /\ RelayRowsDistinct

----------------------------------------------------------------------------
(* Liveness.  Nothing obliges a user to write or to attach, an             *)
(* administrator to delete or time to pass.  A process that runs makes     *)
(* progress; of the users it is assumed that they run `loaf sync` again    *)
(* and again, and only finitely many passes are cut short                  *)
(* (MaxInterruptions).                                                     *)

FairSpec == Spec /\ \A p \in Proc : WF_vars(PassStep(p)) /\ SF_vars(StartPass(p))

\* `loaf sync` pushes what is pending: again and again, nothing is.
PendingIsPushed == \A d \in Device : []<>(queue[d] = {})

\* What the relay holds reaches every device: again and again, a device has all
\* of it.
RelayedIsDelivered ==
  \A d \in Device : []<>(\A b \in blobs : b.fact \in facts[d])

----------------------------------------------------------------------------
(* What the documents say of the program. *)

\* ADR-029, decision 2 and consequence 1: every writer goes through AppendFact,
\* so each fact a device wrote is queued for sync or about to be.
WritersUseAppendFact ==
  \A d \in Device : \A f \in facts[d] :
    f.env \in EnvsOf[d] => f.id \in unqueued[d] \cup queue[d] \cup pushed[d]

\* substrate-e2e-threat-model.md, write / delete capability: a delete leaves a
\* tombstone, so a deleted fact does not come back.
DeletedStaysDeleted ==
  \A b \in blobs, c \in deleted : b.fact.id # c.fact.id
=============================================================================
