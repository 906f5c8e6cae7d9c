----------------------------- MODULE SyncStore -----------------------------
(***************************************************************************)
(* The vNext continuity store of each environment, as a replica of one     *)
(* project: vnext/continuity/sqlite/sync.go with append_kernel.go.  A fact *)
(* is appended locally, sealed into an envelope, kept in the outbox until  *)
(* the relay has numbered it, downloaded into an inbox and applied.        *)
(*                                                                         *)
(* Every method is one serializable transaction, so one action.  What a    *)
(* process read before it calls the method is not part of the transaction: *)
(* a pass holds the fact it is sealing or the page it downloaded, other    *)
(* passes on the same file may run in between, and a crash loses it.       *)
(*                                                                         *)
(* The relay is honest and numbers what it accepts; OpaqueRelay models it. *)
(* Of an authority its cutoff and its certificates count here, and which   *)
(* candidates and transitions are under way: they hold up other methods.   *)
(* SyncRecovery models how an authority is prepared page by page and how a *)
(* terminal history is promoted.  Only that promotion writes tombstones    *)
(* (insertPruneTombstoneV1), so a store has none before it, and a store    *)
(* after it is not modelled here.                                          *)
(***************************************************************************)
EXTENDS Integers, FiniteSets, Sequences, FiniteSetsExt

CONSTANTS
  NEnv,       \* environments 1 .. NEnv; 1 registered the project
  Pass,       \* the processes that may work on one store at a time
  Skew,       \* max_future_skew_millis
  Bounds      \* bounds to choose from: the passes at work, the facts of each
              \* environment, maximumSyncPageFrames, the highest nonce, how far
              \* each clock is from the true time, the last true time and the
              \* last at which facts are appended, the members at the start,
              \* when an ephemeral one expires (0: never), and what else moves

Env == 1 .. NEnv

Standing == {"out", "in", "retired"}
Move == {"observe", "register", "retire", "prune", "reinstall", "transition", "prunes", "terminal", "discard"}

ASSUME SyncStoreAssumption ==
  /\ NEnv \in Nat \ {0}
  /\ Skew \in Nat
  /\ Bounds \subseteq [passes : [Env -> SUBSET Pass], facts : [Env -> Nat], page : Nat \ {0}, nonce : Nat,
                       offset : [Env -> Nat], time : Nat, lastWrite : Nat,
                       members : [Env -> {"out", "in"}], expires : [Env -> Nat],
                       moves : [Env -> SUBSET Move]]

VARIABLES
  now,       \* the true time
  facts,     \* facts[e]: continuity_facts in the store of e
  head,      \* head[e][f]: continuity_sync_environment_heads
  progress,  \* progress[e]: continuity_sync_projects
  binding,   \* binding[e]: continuity_sync_authorities
  watermark, \* watermark[e]: continuity_sync_relay_watermarks
  inbox,     \* inbox[e]: continuity_sync_inbox, by arrival
  outbox,    \* outbox[e]: continuity_sync_outbox
  receipts,  \* receipts[e]: continuity_sync_receipts, by arrival
  authority, \* authority[e]: the certificates under the binding (pins), the
             \* membership of the watermark (floor), the active candidates, and
             \* whether a recovery transition or a prune candidate is active
  held,      \* held[e][p]: what a pass has read and not yet written back
  relay,     \* the arrivals of the relay
  members,   \* its environments, as its owner registers and retires them
  pruned,    \* the arrivals it delivers without their ciphertext
  bound      \* the bounds of this behaviour

storeVars == <<facts, head, progress, binding, watermark, inbox, outbox, receipts>>
channelVars == <<members, pruned>>
vars == <<now, storeVars, authority, held, relay, channelVars, bound>>

----------------------------------------------------------------------------
(* The tables. *)

Idle == [job |-> "idle"]
NoDigest == <<>>

\* An envelope's digest: no two sealings give the same bytes.
Digest(v) == <<v.fact.env, v.fact.seq, v.nonce>>

Envelope(f, prev, n) == [fact |-> f, prev |-> prev, nonce |-> n]

NoHead == [highest |-> 0, wall |-> 0, logical |-> 0, sealed |-> 0, digest |-> NoDigest]

Unattached == [state |-> "absent", head |-> 0, downloaded |-> 0, applied |-> 0]
Pinned(e) == progress[e].state # "absent"
Attached(e) == progress[e].state = "attached"

Arrivals == DOMAIN relay

Nobody == [e \in Env |-> "out"]
NoAuthority == [pins |-> Nobody, floor |-> Nobody, candidate |-> {}, terminal |-> {}, recovery |-> "none"]

\* What a terminal candidate is bound to.
Pin(e) == [binding |-> binding[e], pins |-> authority[e].pins]

\* requireKnownExactSyncRelayWatermarkV1
ExactWatermark(e) ==
  watermark[e] = binding[e].cutoff /\ authority[e].floor = authority[e].pins

\* An ephemeral environment whose time is over by the clock t.
Expired(f, t) == bound.expires[f] # 0 /\ t >= bound.expires[f]

Clock(e) == now + bound.offset[e]

\* hybridTimeLessV1
HybridTimeLess(a, b) == a.wall < b.wall \/ (a.wall = b.wall /\ a.logical < b.logical)

Latest(S) == CHOOSE f \in S : \A g \in S : ~ HybridTimeLess(f, g)

\* loadProjectFactsV1 and the fold: a corpus needs the project's registration.
Folds(S) == \E f \in S : f.env = 1 /\ f.seq = 1

Own(e) == {f \in facts[e] : f.env = e}

\* loadEnvelopeInventoryV1: the envelopes the store keeps a record of.
Inventory(e) == outbox[e] \cup {receipts[e][i] : i \in DOMAIN receipts[e]}

Init ==
  /\ now = 0
  /\ facts = [e \in Env |-> {}]
  /\ head = [e \in Env |-> [f \in Env |-> NoHead]]
  /\ progress = [e \in Env |-> Unattached]
  /\ binding = [e \in Env |-> [version |-> 0, cutoff |-> 0]]
  /\ watermark = [e \in Env |-> 0]
  /\ inbox = [e \in Env |-> <<>>]
  /\ outbox = [e \in Env |-> {}]
  /\ receipts = [e \in Env |-> <<>>]
  /\ authority = [e \in Env |-> NoAuthority]
  /\ held = [e \in Env |-> [p \in Pass |-> Idle]]
  /\ relay = <<>>
  /\ bound \in Bounds
  /\ members = bound.members /\ pruned = {}

----------------------------------------------------------------------------
(* Appending facts. *)

\* admitFactV1: only the project's first fact may come to an empty corpus.
AdmitFact(e) == IF facts[e] = {} THEN e = 1 ELSE Folds(facts[e])

\* allocateEnvelopeV1
AllocateEnvelope(e) ==
  LET last == Latest(facts[e])
      seqs == {f.seq : f \in Own(e)}
      seq  == IF seqs = {} THEN 1 ELSE Max(seqs) + 1
  IN  IF facts[e] = {} \/ Clock(e) > last.wall
      THEN [env |-> e, seq |-> seq, wall |-> Clock(e), logical |-> 0]
      ELSE [env |-> e, seq |-> seq, wall |-> last.wall, logical |-> last.logical + 1]

\* advanceEnvironmentHeadV1: what a fact has to be to come after a head.
ExtendsHead(h, f) == f.seq = h.highest + 1 /\ (h.highest = 0 \/ HybridTimeLess(h, f))

AdvanceHead(h, f) ==
  [highest |-> f.seq, wall |-> f.wall, logical |-> f.logical, sealed |-> h.sealed, digest |-> h.digest]

\* appendFactV1.  A retry with the same fact id changes nothing.
AppendFact(e) ==
  /\ AdmitFact(e)
  /\ Cardinality(Own(e)) < bound.facts[e] /\ now <= bound.lastWrite
  /\ LET f == AllocateEnvelope(e)
     IN  /\ ExtendsHead(head[e][e], f)
         /\ facts' = [facts EXCEPT ![e] = @ \cup {f}]
         /\ head' = [head EXCEPT ![e][e] = AdvanceHead(@, f)]
  /\ UNCHANGED <<now, progress, binding, watermark, inbox, outbox, receipts, authority,
                 held, relay, channelVars>>

----------------------------------------------------------------------------
(* Sealing and sending. *)

\* A random nonce is one that no envelope has.
FreshNonces ==
  (0 .. bound.nonce) \ ({relay[i].nonce : i \in Arrivals}
                       \cup {v.nonce : v \in UNION {outbox[e] : e \in Env}}
                       \cup {held[x[1]][x[2]].envelope.nonce :
                               x \in {y \in Env \X Pass : held[y[1]][y[2]].job = "seal"}})

\* NextUnsealedLocalFact and the sealing of what it returns, outside any
\* transaction: another pass may be sealing the same fact.
SealNext(e, p) ==
  /\ Attached(e)
  /\ held[e][p] = Idle
  /\ FreshNonces # {}
  /\ \E f \in Own(e) :
       /\ f.seq = head[e][e].sealed + 1
       /\ \A v \in Inventory(e) : v.fact # f
       /\ held' = [held EXCEPT ![e][p] =
                     [job |-> "seal", envelope |-> Envelope(f, head[e][e].digest, Min(FreshNonces))]]
  /\ UNCHANGED <<now, storeVars, authority, relay, channelVars>>

\* Mutant: an envelope that is already known is refused.
AdmitEnvelope_Once(V, v) ==
  /\ \A u \in V : u.fact # v.fact /\ u.nonce # v.nonce
  /\ IF v.fact.seq = 1 THEN v.prev = NoDigest ELSE \E u \in V : Digest(u) = v.prev

\* envelopeInventoryV1.admit, of an inventory that has the entries V.
AdmitEnvelope(V, v) ==
  LET same == {u \in V : u.fact.env = v.fact.env /\ u.fact.seq = v.fact.seq}
  IN  IF same # {} THEN same = {v}
      ELSE /\ IF v.fact.seq = 1 THEN v.prev = NoDigest
              ELSE \E u \in V : /\ u.fact.env = v.fact.env
                                /\ u.fact.seq = v.fact.seq - 1
                                /\ Digest(u) = v.prev
           /\ \A u \in V : u.nonce # v.nonce

\* recordSealedEnvironmentHeadV1
ExtendsSealed(h, v) ==
  /\ v.fact.seq <= h.highest
  /\ v.fact.seq = h.sealed => h.digest = Digest(v)
  /\ v.fact.seq <= h.sealed + 1

RecordSealed(h, v) ==
  IF v.fact.seq <= h.sealed THEN h
  ELSE [h EXCEPT !.sealed = v.fact.seq, !.digest = Digest(v)]

\* PersistSealedOutbox of what pass p has sealed.  Already consumed or already
\* in the outbox, with the same bytes or with others, it changes nothing.
PersistSealedOutbox(e, p) ==
  /\ held[e][p].job = "seal"
  /\ LET v == held[e][p].envelope
         fresh == /\ Attached(e)
                  /\ \A u \in Inventory(e) : u.fact # v.fact
                  /\ AdmitEnvelope(Inventory(e), v)
                  /\ ExtendsSealed(head[e][e], v)
     IN  /\ outbox' = [outbox EXCEPT ![e] = IF fresh THEN @ \cup {v} ELSE @]
         /\ head' = [head EXCEPT ![e][e] = IF fresh THEN RecordSealed(@, v) ELSE @]
  /\ held' = [held EXCEPT ![e][p] = Idle]
  /\ UNCHANGED <<now, facts, progress, binding, watermark, inbox, receipts, authority, relay,
                 channelVars>>

\* Mutant: envelopes go out in any order.
SendOutbox_AnyOrder(e) ==
  \E v \in outbox[e] :
    /\ \A i \in Arrivals : relay[i].fact # v.fact
    /\ relay' = Append(relay, v)
    /\ UNCHANGED <<now, storeVars, authority, held, channelVars>>

\* The relay serves the members that are neither retired nor expired.
Served(e) == members[e] = "in" /\ ~ Expired(e, now)

\* PendingSealedOutbox and the relay's answer: an envelope it has already
\* numbered is not numbered again, and only the next of its producer is new.
SendOutbox(e) ==
  \E v \in outbox[e] :
    /\ Served(e)
    /\ \A i \in Arrivals : relay[i].fact # v.fact
    /\ v.fact.seq = 1 \/ \E i \in Arrivals : Digest(relay[i]) = v.prev
    /\ relay' = Append(relay, v)
    /\ UNCHANGED <<now, storeVars, authority, held, channelVars>>

----------------------------------------------------------------------------
(* Downloading. *)

Retained(e, i) ==
  IF i \in DOMAIN receipts[e] THEN receipts[e][i] ELSE inbox[e][i].envelope

\* frame_kind: what a relay sends of an arrival when it has pruned P, and what
\* the store keeps of it; an applied arrival was sealed.
KindIn(P, i) == IF i \in P THEN "pruned" ELSE "sealed"
FrameKind(e, i) == IF i \in DOMAIN receipts[e] THEN "sealed" ELSE inbox[e][i].kind

\* The relay's answer to a page request after the cursor pass p has read.
FetchPage(e, p) ==
  /\ Pinned(e) /\ Served(e)
  /\ held[e][p] = Idle
  /\ LET after == progress[e].downloaded
         last  == Min({after + bound.page, Len(relay)})
     IN  held' = [held EXCEPT ![e][p] =
                    [job |-> "page", after |-> after, head |-> Len(relay),
                     frames |-> SubSeq(relay, after + 1, last), pruned |-> pruned]]
  /\ UNCHANGED <<now, storeVars, authority, relay, channelVars>>

\* The extra conditions of StageSyncPageUnderAuthority.
UnderAuthority(e, page) ==
  /\ page.head = binding[e].cutoff
  /\ authority[e].recovery # "transition" /\ authority[e].candidate = {}
  /\ authority[e].terminal \subseteq {Pin(e)}
  /\ ExactWatermark(e)
  /\ progress[e].head <= binding[e].cutoff
  /\ progress[e].downloaded <= binding[e].cutoff

\* stageSyncPage: a page at the cursor whose envelopes are all new.
NewPage(e, page) ==
  /\ page.after = progress[e].downloaded
  /\ \A k \in DOMAIN page.frames :
       \A i \in DOMAIN receipts[e] \cup DOMAIN inbox[e] :
         Digest(Retained(e, i)) # Digest(page.frames[k])

\* validateStagedPageReplayV1: a page that is already here, byte for byte.
ReplayedPage(e, page) ==
  /\ page.after < progress[e].downloaded
  /\ page.frames # <<>>
  /\ page.after + Len(page.frames) <= progress[e].downloaded
  /\ \A k \in DOMAIN page.frames :
       /\ Retained(e, page.after + k) = page.frames[k]
       /\ FrameKind(e, page.after + k) = KindIn(page.pruned, page.after + k)

\* StageSyncPage and StageSyncPageUnderAuthority; a refused page is dropped.
StageSyncPage(e, p, exact) ==
  /\ held[e][p].job = "page"
  /\ Pinned(e)
  /\ LET page == held[e][p]
         allowed == /\ page.head >= progress[e].head
                    /\ IF exact THEN UnderAuthority(e, page)
                       ELSE authority[e].recovery # "prunes"
         new    == allowed /\ NewPage(e, page)
         replay == allowed /\ ReplayedPage(e, page)
         last   == page.after + Len(page.frames)
     IN  /\ inbox' = [inbox EXCEPT ![e] =
              IF new THEN [i \in DOMAIN @ \cup page.after + 1 .. last |->
                             IF i \in DOMAIN @ THEN @[i]
                             ELSE [envelope |-> page.frames[i - page.after],
                                   kind |-> KindIn(page.pruned, i), state |-> "staged"]]
              ELSE @]
         /\ progress' = [progress EXCEPT ![e] =
              [state |-> @.state, applied |-> @.applied,
               downloaded |-> IF new THEN last ELSE @.downloaded,
               head |-> IF new \/ replay THEN page.head ELSE @.head]]
  /\ held' = [held EXCEPT ![e][p] = Idle]
  /\ UNCHANGED <<now, facts, head, binding, watermark, outbox, receipts, authority, relay,
                 channelVars>>

----------------------------------------------------------------------------
(* Applying. *)

Frames(e, n) == {inbox[e][i].envelope : i \in progress[e].applied + 1 .. progress[e].applied + n}

\* What ApplySyncBatch asks of the content of one frame, after the frames
\* before it: a fact it has is the same fact, a new one continues its
\* environment, and the envelope fits the inventory.
FrameFits(e, v, before) ==
  LET corpus == facts[e] \cup {u.fact : u \in before}
      mine   == {f \in corpus : f.env = v.fact.env}
  IN  /\ v.fact \notin corpus =>
           /\ \A f \in mine : f.seq # v.fact.seq
           /\ v.fact.seq = Cardinality(mine) + 1
           /\ \A f \in mine : HybridTimeLess(f, v.fact)
      /\ AdmitEnvelope(Inventory(e) \cup before, v)
      /\ v \notin before

BatchFits(e, n) ==
  /\ \A k \in 1 .. n :
       FrameFits(e, inbox[e][progress[e].applied + k].envelope, Frames(e, k - 1))
  /\ Folds(facts[e] \cup {v.fact : v \in Frames(e, n)})

\* validateOrdinarySyncFrameAuthorityV2: a producer without a certificate under
\* the binding is refused.
CertifiedFrame(e, v) == authority[e].pins[v.fact.env] # "out"

\* ordinarySyncEnvironmentRequiresTerminalHistoryV1, of an envelope the store
\* has not seen, and a frame that comes without its ciphertext.
NeedsHistory(e, i) ==
  LET v == inbox[e][i].envelope
  IN  \/ inbox[e][i].kind = "pruned"
      \/ /\ v \notin Inventory(e)
         /\ authority[e].pins[v.fact.env] = "retired" \/ Expired(v.fact.env, Clock(e))

\* The next n staged frames.
Upcoming(e, n) == progress[e].applied + 1 .. progress[e].applied + n

BatchAdmits(e, n) ==
  /\ \A i \in Upcoming(e, n) : CertifiedFrame(e, inbox[e][i].envelope) /\ ~ NeedsHistory(e, i)
  /\ BatchFits(e, n)

\* futureSkewedV1, with the clock of the store that applies.
FutureSkewed(e, f) == f.wall > Clock(e) + Skew

\* Nothing else is under way, and the authority is the present one; a
\* compatibility binding need not be.
ApplyAuthority(e) ==
  /\ authority[e].terminal = {} /\ authority[e].recovery = "none"
  /\ binding[e].version = 2 =>
       /\ ExactWatermark(e)
       /\ progress[e].head = binding[e].cutoff
       /\ progress[e].downloaded <= binding[e].cutoff

\* How many of n frames come before the first one from the future; none when
\* they would not fold without the rest.
ApplyCount(e, n) ==
  LET a == progress[e].applied
      future == {k \in 1 .. n : FutureSkewed(e, inbox[e][a + k].envelope.fact)}
      count == IF future = {} THEN n ELSE Min(future) - 1
  IN  IF count > 0 /\ ~ Folds(facts[e] \cup {v.fact : v \in Frames(e, count)}) THEN 0 ELSE count

\* The head of environment f after the frames V.
HeadAfter(h, f, V) ==
  LET new == {v \in V : v.fact.env = f}
      top == CHOOSE v \in new : \A u \in new : u.fact.seq <= v.fact.seq
  IN  IF new = {} THEN h
      ELSE RecordSealed(IF top.fact.seq > h.highest THEN AdvanceHead(h, top.fact) ELSE h, top)

\* ApplySyncBatch of the next n staged frames.
ApplySyncBatch(e, n) ==
  /\ Pinned(e)
  /\ progress[e].applied + n <= progress[e].downloaded
  /\ ApplyAuthority(e)
  /\ BatchAdmits(e, n)
  /\ LET a == progress[e].applied
         k == ApplyCount(e, n)
         V == Frames(e, k)
         future == {i \in 1 .. n : FutureSkewed(e, inbox[e][a + i].envelope.fact)}
         stuck == IF future = {} THEN {} ELSE {a + Min(future)}
     IN  /\ facts' = [facts EXCEPT ![e] = @ \cup {v.fact : v \in V}]
         /\ head' = [head EXCEPT ![e] = [f \in Env |-> HeadAfter(@[f], f, V)]]
         /\ receipts' = [receipts EXCEPT ![e] =
              [i \in DOMAIN @ \cup a + 1 .. a + k |->
                 IF i \in DOMAIN @ THEN @[i] ELSE inbox[e][i].envelope]]
         /\ outbox' = [outbox EXCEPT ![e] = @ \ V]
         /\ inbox' = [inbox EXCEPT ![e] =
              [i \in DOMAIN @ \ (a + 1 .. a + k) |->
                 IF i \in stuck THEN [@[i] EXCEPT !.state = "quarantined"] ELSE @[i]]]
         /\ progress' = [progress EXCEPT ![e].applied = a + k]
  /\ UNCHANGED <<now, binding, watermark, authority, held, relay, channelVars>>

----------------------------------------------------------------------------
(* Authority, activation and discard. *)

\* validateSyncAuthorityPromotionEnvelopeInventoryV2: of every environment the
\* envelopes are a chain that ends at its sealed head.
EnvelopeChain(e, f) ==
  LET V == {v \in Inventory(e) : v.fact.env = f}
      h == head[e][f]
  IN  /\ {v.fact.seq : v \in V} = 1 .. h.sealed
      /\ Cardinality(V) = h.sealed
      /\ \A v \in V : IF v.fact.seq = 1 THEN TRUE
                      ELSE \E u \in V : u.fact.seq = v.fact.seq - 1 /\ Digest(u) = v.prev
      /\ \A v \in V : v.fact.seq = h.sealed => Digest(v) = h.digest

\* validateSyncAuthorityPromotionGenerationNoncesV2
NoncesAreOwned(e) == \A u, v \in Inventory(e) : u.nonce = v.nonce => u.fact = v.fact

\* validateSyncAuthorityPromotionArrivalInventoryV2
ReceiptFrontier(e) == DOMAIN receipts[e] = 1 .. progress[e].applied

\* validateSyncAuthorityPromotionFactFrontiersV2: the facts of an environment
\* are numbered to its head with clocks that grow, those up to the sealed head
\* have an envelope and the others have none.
FactFrontier(e, f) ==
  LET F == {g \in facts[e] : g.env = f}
      h == head[e][f]
  IN  /\ {g.seq : g \in F} = 1 .. h.highest /\ Cardinality(F) = h.highest
      /\ \A g1, g2 \in F : g1.seq < g2.seq => HybridTimeLess(g1, g2)
      /\ \A g \in F : (g.seq <= h.sealed) <=> (\E v \in Inventory(e) : v.fact = g)
      /\ \A g \in F : g.seq = h.highest => g.wall = h.wall /\ g.logical = h.logical

\* validateSyncAuthorityPromotionProtectedStateV2
ProtectedState(e) ==
  /\ NoncesAreOwned(e) /\ ReceiptFrontier(e)
  /\ \A f \in Env : EnvelopeChain(e, f) /\ FactFrontier(e, f)

\* InstallVerifiedSyncAuthority, the first time: it says nothing of the head.
InstallVerifiedSyncAuthority(e) ==
  /\ ~ Pinned(e)
  /\ authority[e].recovery # "transition" /\ authority[e].candidate = {}
  /\ progress' = [progress EXCEPT ![e].state = "staging"]
  /\ binding' = [binding EXCEPT ![e] = [version |-> 1, cutoff |-> 0]]
  /\ authority' = [authority EXCEPT ![e].pins = members, ![e].floor = members]
  /\ UNCHANGED <<now, facts, head, watermark, inbox, outbox, receipts, held, relay, channelVars>>

\* InstallVerifiedSyncAuthority again: only a compatibility authority takes up
\* a later membership this way.
ReinstallSyncAuthority(e) ==
  /\ "reinstall" \in bound.moves[e]
  /\ Pinned(e) /\ binding[e].version = 1 /\ authority[e].pins # members
  /\ authority[e].recovery # "transition" /\ authority[e].candidate = {}
  /\ authority' = [authority EXCEPT ![e].pins = members, ![e].floor = members]
  /\ UNCHANGED <<now, storeVars, held, relay, channelVars>>

\* What the relay is seen to be now, retained.
Observe(e) == watermark' = [watermark EXCEPT ![e] = Max({@, Len(relay)})]

\* AdvanceSyncRelayWatermark, with the head and the membership of the relay.
AdvanceSyncRelayWatermark(e) ==
  /\ "observe" \in bound.moves[e]
  /\ watermark[e] # Len(relay) \/ authority[e].floor # members
  /\ Observe(e)
  /\ authority' = [authority EXCEPT ![e].floor = members]
  /\ UNCHANGED <<now, facts, head, progress, binding, inbox, outbox, receipts, held, relay,
                 channelVars>>

\* StageVerifiedSyncAuthorityCandidatePage, to the last page, of an inventory
\* read just now.
StageAuthorityCandidate(e) ==
  /\ authority[e].recovery = "none" /\ authority[e].candidate = {}
  /\ binding[e] # [version |-> 2, cutoff |-> Len(relay)] \/ authority[e].pins # members
  /\ Observe(e)
  /\ authority' = [authority EXCEPT ![e].floor = members,
                                    ![e].candidate = {[cutoff |-> Len(relay), pins |-> members]}]
  /\ UNCHANGED <<now, facts, head, progress, binding, inbox, outbox, receipts, held, relay,
                 channelVars>>

\* DiscardSyncAuthorityCandidate
DiscardAuthorityCandidate(e) ==
  /\ "discard" \in bound.moves[e]
  /\ authority[e].candidate # {} /\ authority[e].recovery # "transition"
  /\ authority' = [authority EXCEPT ![e].candidate = {}]
  /\ UNCHANGED <<now, storeVars, held, relay, channelVars>>

\* PromoteSyncAuthorityCandidate of a candidate that is still at the watermark.
PromoteAuthority(e) ==
  \E c \in authority[e].candidate :
    /\ c.cutoff = watermark[e] /\ c.pins = authority[e].floor
    /\ authority[e].recovery # "transition"
    /\ Pinned(e) \/ (inbox[e] = <<>> /\ receipts[e] = <<>> /\ outbox[e] = {})
    /\ ProtectedState(e)
    /\ binding' = [binding EXCEPT ![e] = [version |-> 2, cutoff |-> watermark[e]]]
    /\ authority' = [authority EXCEPT ![e].pins = c.pins, ![e].candidate = {}]
    /\ progress' = [progress EXCEPT ![e].state = IF Pinned(e) THEN @ ELSE "staging"]
    /\ UNCHANGED <<now, facts, head, watermark, inbox, outbox, receipts, held, relay,
                   channelVars>>

\* ActivateStagedSync; on an attached channel it only reports.
ActivateStagedSync(e) ==
  /\ progress[e].state = "staging"
  /\ authority[e].recovery = "none" /\ authority[e].terminal = {} /\ authority[e].candidate = {}
  /\ ExactWatermark(e)
  /\ progress[e].downloaded = progress[e].applied
  /\ progress[e].head = binding[e].cutoff
  /\ progress[e].applied = binding[e].cutoff
  /\ inbox[e] = <<>>
  /\ Folds(facts[e])
  /\ progress' = [progress EXCEPT ![e].state = "attached"]
  /\ UNCHANGED <<now, facts, head, binding, watermark, inbox, outbox, receipts, authority, held,
                 relay, channelVars>>

\* DiscardStagedSync: a promoted authority candidate is permanent, so only a
\* compatibility authority can be taken back, and only before anything applied.
DiscardStagedSync(e) ==
  /\ progress[e].state = "staging"
  /\ binding[e].version = 1
  /\ progress[e].applied = 0
  /\ receipts[e] = <<>> /\ outbox[e] = {}
  /\ authority[e].recovery # "prunes"
  /\ authority[e].candidate = {} /\ authority[e].terminal = {}
  /\ inbox' = [inbox EXCEPT ![e] = <<>>]
  /\ progress' = [progress EXCEPT ![e] = Unattached]
  /\ binding' = [binding EXCEPT ![e] = [version |-> 0, cutoff |-> 0]]
  /\ authority' = [authority EXCEPT ![e].pins = Nobody]
  /\ UNCHANGED <<now, facts, head, watermark, outbox, receipts, held, relay, channelVars>>

----------------------------------------------------------------------------
(* What else a store may have under way, and the relay's own moves. *)

\* BeginSyncAuthorityRecoveryTransition: from a candidate the membership has
\* left behind, or of a store that has no authority.
BeginRecovery(e) ==
  /\ "transition" \in bound.moves[e]
  /\ authority[e].recovery = "none"
  /\ IF authority[e].candidate = {} THEN ~ Pinned(e)
     ELSE \A c \in authority[e].candidate : c.pins # members
  /\ Observe(e)
  /\ authority' = [authority EXCEPT ![e].floor = members, ![e].recovery = "transition"]
  /\ UNCHANGED <<now, facts, head, progress, binding, inbox, outbox, receipts, held, relay,
                 channelVars>>

\* StageVerifiedSyncRecoveryPruneCandidatePage, the first page, and
\* requireExactSyncRecoveryPruneSnapshotFenceV1.
StagePruneCandidate(e) ==
  /\ "prunes" \in bound.moves[e]
  /\ authority[e].recovery = "none" /\ authority[e].candidate = {} /\ authority[e].terminal = {}
  /\ binding[e].version = 2 /\ ExactWatermark(e)
  /\ progress[e].state = "staging"
  /\ progress[e].downloaded = binding[e].cutoff /\ progress[e].head = binding[e].cutoff
  /\ authority' = [authority EXCEPT ![e].recovery = "prunes"]
  /\ UNCHANGED <<now, storeVars, held, relay, channelVars>>

\* StageVerifiedTerminalCandidateChunk and, beside a prune candidate,
\* StageVerifiedRecoveryTerminalCandidateChunk: the first staged frame is one
\* that needs its history, and its producer has not just expired.
StageTerminalCandidate(e) ==
  LET i == progress[e].applied + 1
  IN  /\ "terminal" \in bound.moves[e]
      /\ i \in DOMAIN inbox[e] /\ authority[e].terminal = {}
      /\ authority[e].recovery # "transition"
      /\ binding[e].version = 2 =>
           /\ ExactWatermark(e)
           /\ progress[e].head = binding[e].cutoff
           /\ progress[e].downloaded <= binding[e].cutoff
      /\ CertifiedFrame(e, inbox[e][i].envelope)
      /\ authority[e].recovery = "prunes" \/ NeedsHistory(e, i)
      /\ LET f == inbox[e][i].envelope.fact.env
         IN  Expired(f, Clock(e)) => authority[e].pins[f] = "retired"
      /\ authority' = [authority EXCEPT ![e].terminal = {Pin(e)}]
      /\ UNCHANGED <<now, storeVars, held, relay, channelVars>>

\* AbortSyncAuthorityRecoveryTransition, DiscardSyncRecoveryPruneCandidate and
\* DiscardTerminalCandidate.
GiveUp(e) ==
  /\ \/ /\ authority[e].terminal # {}
        /\ authority' = [authority EXCEPT ![e].terminal = {}]
     \/ /\ \/ authority[e].recovery = "transition"
           \/ authority[e].recovery = "prunes" /\ authority[e].terminal = {}
        /\ authority' = [authority EXCEPT ![e].recovery = "none"]
  /\ UNCHANGED <<now, storeVars, held, relay, channelVars>>

\* The owner registers or retires an environment.
MoveMember(e) ==
  /\ \/ /\ "register" \in bound.moves[e] /\ members[e] = "out"
        /\ members' = [members EXCEPT ![e] = "in"]
     \/ /\ "retire" \in bound.moves[e] /\ members[e] = "in"
        /\ members' = [members EXCEPT ![e] = "retired"]
  /\ UNCHANGED <<now, storeVars, authority, held, relay, pruned>>

\* The relay drops the ciphertext of an arrival, under an arrival that closes
\* it, once every member has applied both.
PruneArrival(i, closure) ==
  /\ "prune" \in bound.moves[relay[i].fact.env]
  /\ i # closure /\ i \notin pruned /\ closure \notin pruned
  /\ \E e \in Env : members[e] = "in"
  /\ \A e \in Env : members[e] = "in" => {i, closure} \subseteq DOMAIN receipts[e]
  /\ pruned' = pruned \cup {i}
  /\ UNCHANGED <<now, storeVars, authority, held, relay, members>>

\* A process that dies between reading and writing back.
Crash(e, p) ==
  /\ held[e][p] # Idle
  /\ held' = [held EXCEPT ![e][p] = Idle]
  /\ UNCHANGED <<now, storeVars, authority, relay, channelVars>>

Tick ==
  /\ now < bound.time
  /\ now' = now + 1
  /\ UNCHANGED <<storeVars, authority, held, relay, channelVars>>

Next ==
  /\ UNCHANGED bound
  /\ \/ Tick
     \/ \E i, closure \in Arrivals : PruneArrival(i, closure)
     \/ \E e \in Env :
          \/ AppendFact(e)
          \/ SendOutbox(e)
          \/ \E n \in 1 .. bound.page : ApplySyncBatch(e, n)
          \/ InstallVerifiedSyncAuthority(e)
          \/ ReinstallSyncAuthority(e)
          \/ AdvanceSyncRelayWatermark(e)
          \/ StageAuthorityCandidate(e) \/ DiscardAuthorityCandidate(e)
          \/ PromoteAuthority(e)
          \/ BeginRecovery(e) \/ StagePruneCandidate(e)
          \/ StageTerminalCandidate(e) \/ GiveUp(e)
          \/ MoveMember(e)
          \/ ActivateStagedSync(e)
          \/ DiscardStagedSync(e)
          \/ \E p \in bound.passes[e] :
               \/ SealNext(e, p)
               \/ PersistSealedOutbox(e, p)
               \/ FetchPage(e, p)
               \/ \E exact \in BOOLEAN : StageSyncPage(e, p, exact)
               \/ Crash(e, p)

Spec == Init /\ [][Next]_vars

----------------------------------------------------------------------------
(* Properties. *)

TypeOK ==
  /\ now \in 0 .. bound.time
  /\ \A e \in Env :
       /\ \A f \in facts[e] : f.env \in Env /\ f.seq \in 1 .. bound.facts[f.env] /\ f.wall \in Nat
       /\ progress[e].state \in {"absent", "staging", "attached"}
       /\ binding[e].version \in 0 .. 2
       /\ watermark[e] \in 0 .. Len(relay) /\ binding[e].cutoff <= watermark[e]
       /\ \A i \in DOMAIN inbox[e] : inbox[e][i].state \in {"staged", "quarantined"}
       /\ \A p \in Pass : held[e][p].job \in {"idle", "seal", "page"}
       /\ members \in [Env -> Standing] /\ pruned \subseteq Arrivals
       /\ authority[e].pins \in [Env -> Standing] /\ authority[e].floor \in [Env -> Standing]
       /\ authority[e].recovery \in {"none", "transition", "prunes"}

\* The store's bookkeeping and the relay's numbers agree: receipts are the
\* applied arrivals, the inbox is what was downloaded after them, and neither
\* differs from what the relay numbered (the cursors of stageSyncPage and
\* ApplySyncBatch, whatever pages late passes bring).
CursorsAgree ==
  \A e \in Env :
    /\ DOMAIN receipts[e] = 1 .. progress[e].applied
    /\ DOMAIN inbox[e] = progress[e].applied + 1 .. progress[e].downloaded
    /\ progress[e].downloaded <= progress[e].head /\ progress[e].head <= Len(relay)
    /\ \A i \in 1 .. progress[e].downloaded : Retained(e, i) = relay[i]

\* A fact is sealed into one envelope: what the relay has of an environment is
\* what its own store remembers, also when two processes seal the same fact and
\* when a process dies between sealing and storing (PersistSealedOutbox).
SealedOnce ==
  \A i \in Arrivals : relay[i] \in Inventory(relay[i].fact.env)

\* The content of what an honest relay delivers always fits: the frames waiting
\* in an inbox continue the corpus, the chains and the nonces of the store, with
\* facts appended and envelopes sealed here in the meantime.
StagedFramesFit ==
  \A e \in Env : \A n \in 1 .. progress[e].downloaded - progress[e].applied : BatchFits(e, n)

\* Under a version 2 authority that is the present one a staged batch is applied
\* or its store needs the terminal history: nothing else ever refuses it, a
\* missing certificate least of all.
AppliedOrHistory ==
  \A e \in Env : \A n \in 1 .. progress[e].downloaded - progress[e].applied :
    binding[e].version = 2 /\ ApplyAuthority(e) =>
      BatchAdmits(e, n) \/ \E i \in Upcoming(e, n) : NeedsHistory(e, i)

\* No frame of a staged page is refused for what it says or for who wrote it.  What
\* stops one is what the code names: a binding that is not the present one, a candidate or
\* a transition under way, or a terminal history (SyncErrorTerminalHistoryRequired).  Nor
\* does the validation before an authority is promoted ever refuse a store that only went
\* through these operations (validateSyncAuthorityPromotionProtectedStateV2).
NothingStagedIsRefused ==
  StagedFramesFit /\ AppliedOrHistory /\ \A e \in Env : ProtectedState(e)

Log == INSTANCE SharedLog WITH
  Writer    <- Env,
  written   <- [e \in Env |-> head[e][e].highest],
  log       <- [i \in Arrivals |-> <<relay[i].fact.env, relay[i].fact.seq>>],
  delivered <- [e \in Env |-> progress[e].applied]

\* A store holds exactly its share of the log: its own facts and the arrivals
\* it has applied.
HoldsItsShare ==
  \A e \in Env : {<<f.env, f.seq>> : f \in facts[e]} = Log!Holds(e)

\* The stores and the relay implement the shared log: facts are published in
\* their order and once, a replica's share of the log only grows, and what it
\* holds is that share.
ImplementsSharedLog == Log!LogSpec /\ []HoldsItsShare

=============================================================================
