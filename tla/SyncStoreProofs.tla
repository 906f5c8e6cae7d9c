--------------------------- MODULE SyncStoreProofs ---------------------------
(***************************************************************************)
(* The stores and the relay implement the shared log, for any number of    *)
(* environments, processes, facts, pages and clock offsets.  ReplicaInv is *)
(* inductive; it says how a store's cursors, its outbox and what its       *)
(* processes hold in memory relate to what the relay has numbered.         *)
(* AdmitInv, inductive beside it, says how facts, envelopes, nonces and    *)
(* heads are linked, from which what a store stages is never refused.      *)
(***************************************************************************)
EXTENDS SyncStore, ListFacts

----------------------------------------------------------------------------
(* The inductive invariant. *)

\* A row of continuity_sync_environment_heads: nothing is sealed before it is a fact.
HeadRow(h) ==
  /\ h = [highest |-> h.highest, wall |-> h.wall, logical |-> h.logical,
          sealed |-> h.sealed, digest |-> h.digest]
  /\ h.highest \in Nat /\ h.sealed \in Nat /\ h.sealed <= h.highest

\* A row of continuity_sync_projects.
ChannelState == {"absent", "staging", "attached"}
ProgressRow == [state : ChannelState, head : Nat, downloaded : Nat, applied : Nat]

TablesTyped ==
  /\ bound \in Bounds
  /\ DOMAIN facts = Env /\ DOMAIN outbox = Env /\ DOMAIN receipts = Env /\ DOMAIN inbox = Env
  /\ outbox = [e \in Env |-> outbox[e]]
  /\ head = [e \in Env |-> [f \in Env |-> head[e][f]]]
  /\ progress \in [Env -> ProgressRow]
  /\ DOMAIN head = Env
  /\ \A e \in Env : DOMAIN head[e] = Env /\ HeadRow(head[e][e])
  /\ DOMAIN held = Env /\ \A e \in Env : DOMAIN held[e] = Pass
  /\ \A e \in Env : \A i \in DOMAIN inbox[e] :
       inbox[e][i] = [envelope |-> inbox[e][i].envelope, kind |-> inbox[e][i].kind, state |-> inbox[e][i].state]
  /\ relay \in Seq({relay[i] : i \in Arrivals})
  /\ \A i \in Arrivals : relay[i].fact.env \in Env

\* An environment's own facts are numbered without gaps, each number once.
OwnNumbered ==
  \A e \in Env :
    /\ \A f \in Own(e) : f.seq \in 1 .. head[e][e].highest
    /\ \A f, g \in Own(e) : f.seq = g.seq => f = g

\* An envelope names the one before it.
Follows(v) == v.fact.seq = 1 \/ (v.prev[1] = v.fact.env /\ v.prev[2] = v.fact.seq - 1)

\* An outbox holds the environment's own facts; what a store remembers of its own
\* envelopes is sealed and linked.
OwnSealed ==
  \A e \in Env :
    /\ \A v \in outbox[e] : v.fact \in Own(e)
    /\ \A v \in Inventory(e) : v.fact.env = e =>
         v.fact \in Own(e) /\ v.fact.seq <= head[e][e].sealed /\ Follows(v)

\* A page in memory is a run of the relay's arrivals.
PageHeld(x) ==
  /\ x.after \in Nat /\ x.head \in Nat /\ x.head <= Len(relay)
  /\ Len(x.frames) \in Nat /\ DOMAIN x.frames = 1 .. Len(x.frames)
  /\ x.after + Len(x.frames) <= x.head
  /\ \A k \in 1 .. Len(x.frames) : x.frames[k] = relay[x.after + k]

\* What a process holds between its transactions.
HeldSound ==
  \A e \in Env : \A p \in Pass :
    /\ held[e][p].job = "seal" => held[e][p].envelope.fact \in Own(e)
    /\ held[e][p].job = "page" => PageHeld(held[e][p])

\* The relay has a fact only after every earlier fact of its environment.
RelayChained ==
  \A i \in Arrivals : \A s \in 1 .. relay[i].fact.seq :
    \E j \in Arrivals : j <= i /\ relay[j].fact.env = relay[i].fact.env /\ relay[j].fact.seq = s

\* What a store should hold, in the terms of its tables.
Share(e) ==
  {<<e, n>> : n \in 1 .. head[e][e].highest}
    \cup {<<relay[i].fact.env, relay[i].fact.seq>> : i \in 1 .. progress[e].applied}

HoldsShare == \A e \in Env : {<<f.env, f.seq>> : f \in facts[e]} = Share(e)

\* Nothing is applied before it is downloaded.
CursorsOrdered == \A e \in Env : progress[e].applied <= progress[e].downloaded

ReplicaInv ==
  /\ TablesTyped
  /\ CursorsOrdered
  /\ OwnNumbered
  /\ OwnSealed
  /\ HeldSound
  /\ SealedOnce
  /\ CursorsAgree
  /\ RelayChained
  /\ HoldsShare

----------------------------------------------------------------------------
(* Initial states, and steps that leave the tables and the relay alone. *)

LEMMA ReplicaInitInv == Init => ReplicaInv
<1> SUFFICES ASSUME Init PROVE ReplicaInv
  OBVIOUS
<1> USE DEF Init
<1>1. Arrivals = {} /\ Len(relay) = 0
  BY DEF Arrivals
<1>2. TablesTyped
  <2>1. Unattached \in ProgressRow
    BY DEF Unattached, ProgressRow, ChannelState
  <2>2. progress \in [Env -> ProgressRow]
    BY <2>1
  <2>3. HeadRow(NoHead)
    BY DEF HeadRow, NoHead
  <2>4. \A e \in Env : DOMAIN head[e] = Env /\ HeadRow(head[e][e])
    BY <2>3
  <2>5. relay \in Seq({relay[i] : i \in Arrivals})
    OBVIOUS
  <2>6. \A e \in Env : DOMAIN held[e] = Pass
    OBVIOUS
  <2> QED BY <1>1, <2>2, <2>4, <2>5, <2>6 DEF TablesTyped
<1>3. \A e \in Env : Own(e) = {} /\ Inventory(e) = {}
  BY DEF Own, Inventory
<1>4. OwnNumbered /\ OwnSealed /\ HeldSound
  BY <1>3 DEF OwnNumbered, OwnSealed, HeldSound, Idle
<1>5. SealedOnce /\ RelayChained
  BY <1>1 DEF SealedOnce, RelayChained
<1>6. CursorsAgree
  BY <1>1 DEF CursorsAgree, Unattached
<1>7. HoldsShare /\ CursorsOrdered
  BY DEF HoldsShare, Share, NoHead, Unattached, CursorsOrdered
<1> QED BY <1>2, <1>4, <1>5, <1>6, <1>7 DEF ReplicaInv

\* Steps that change what is in memory, a binding, a watermark or a channel's state.
LEMMA TablesKept ==
  ASSUME ReplicaInv, UNCHANGED <<facts, head, inbox, outbox, receipts, relay, bound>>,
         progress' \in [Env -> ProgressRow],
         \A e \in Env : /\ progress'[e].head = progress[e].head
                        /\ progress'[e].downloaded = progress[e].downloaded
                        /\ progress'[e].applied = progress[e].applied,
         DOMAIN held' = Env, \A e \in Env : DOMAIN held'[e] = Pass,
         HeldSound'
  PROVE  ReplicaInv'
<1>1. Arrivals' = Arrivals /\ \A e : Own(e)' = Own(e) /\ Inventory(e)' = Inventory(e)
  BY DEF Arrivals, Own, Inventory
<1>2. TablesTyped'
  BY <1>1 DEF ReplicaInv, TablesTyped
<1>3. OwnNumbered' /\ OwnSealed' /\ SealedOnce' /\ RelayChained'
  BY <1>1 DEF ReplicaInv, OwnNumbered, OwnSealed, SealedOnce, RelayChained
<1>4. CursorsAgree' /\ CursorsOrdered'
  BY DEF ReplicaInv, CursorsAgree, Retained, CursorsOrdered
<1>5. HoldsShare'
  BY DEF ReplicaInv, HoldsShare, Share
<1> QED BY <1>2, <1>3, <1>4, <1>5 DEF ReplicaInv

\* A fact of another process's memory stays an own fact, and a page stays a run of arrivals.
LEMMA HeldKept ==
  ASSUME ReplicaInv, NEW e \in Env, NEW p \in Pass, NEW x,
         held' = [held EXCEPT ![e][p] = x], UNCHANGED <<facts, relay>>,
         /\ x.job = "seal" => x.envelope.fact \in Own(e)
         /\ x.job = "page" => PageHeld(x)
  PROVE  /\ HeldSound' /\ DOMAIN held' = Env
         /\ \A d \in Env : DOMAIN held'[d] = Pass
<1>1. /\ DOMAIN held' = Env /\ held'[e][p] = x
      /\ \A d \in Env : DOMAIN held'[d] = Pass
      /\ \A d \in Env, q \in Pass : <<d, q>> # <<e, p>> => held'[d][q] = held[d][q]
  BY DEF ReplicaInv, TablesTyped
<1>2. \A d : Own(d)' = Own(d)
  BY DEF Own
<1>3. HeldSound'
  BY <1>1, <1>2 DEF ReplicaInv, HeldSound, PageHeld
<1> QED BY <1>1, <1>3

LEMMA TickStep ==
  ASSUME ReplicaInv, bound' = bound,
         Tick \/ UNCHANGED vars \/ \E i, closure \in Arrivals : PruneArrival(i, closure)
  PROVE  ReplicaInv'
<1>1. UNCHANGED <<storeVars, held, relay>>
  BY DEF Tick, PruneArrival, vars
<1>2. \A e : Own(e)' = Own(e)
  BY <1>1 DEF Own, storeVars
<1>3. HeldSound'
  BY <1>1, <1>2 DEF ReplicaInv, HeldSound, PageHeld
<1> QED BY <1>1, <1>3, TablesKept DEF storeVars, ReplicaInv, TablesTyped

LEMMA CrashStep ==
  ASSUME ReplicaInv, NEW e \in Env, NEW p \in Pass, Crash(e, p), bound' = bound
  PROVE  ReplicaInv'
<1> USE DEF Crash, storeVars
<1>1. /\ HeldSound' /\ DOMAIN held' = Env
      /\ \A d \in Env : DOMAIN held'[d] = Pass
  <2>1. Idle.job = "idle" /\ held' = [held EXCEPT ![e][p] = Idle] /\ UNCHANGED <<facts, relay>>
    BY DEF Idle
  <2> HIDE DEF Crash
  <2> QED BY <2>1, HeldKept
<1> QED BY <1>1, TablesKept DEF ReplicaInv, TablesTyped

LEMMA SealNextStep ==
  ASSUME ReplicaInv, NEW e \in Env, NEW p \in Pass, SealNext(e, p), bound' = bound
  PROVE  ReplicaInv'
<1> USE DEF SealNext, storeVars
<1>1. PICK f \in Own(e) :
        held' = [held EXCEPT ![e][p] = [job |-> "seal",
                   envelope |-> Envelope(f, head[e][e].digest, Min(FreshNonces))]]
  OBVIOUS
<1>2. Envelope(f, head[e][e].digest, Min(FreshNonces)).fact = f
  BY DEF Envelope
<1> DEFINE x == [job |-> "seal", envelope |-> Envelope(f, head[e][e].digest, Min(FreshNonces))]
<1>3. x.job = "seal" /\ x.envelope.fact \in Own(e)
  BY <1>2
<1>4. UNCHANGED <<facts, relay>> /\ held' = [held EXCEPT ![e][p] = x]
  BY <1>1
<1> HIDE DEF x
<1>5. /\ HeldSound' /\ DOMAIN held' = Env
      /\ \A d \in Env : DOMAIN held'[d] = Pass
  BY <1>3, <1>4, HeldKept
<1> QED BY <1>5, TablesKept DEF ReplicaInv, TablesTyped

LEMMA FetchPageStep ==
  ASSUME ReplicaInv, NEW e \in Env, NEW p \in Pass, FetchPage(e, p), bound' = bound
  PROVE  ReplicaInv'
<1> USE DEF FetchPage, storeVars
<1> DEFINE after == progress[e].downloaded
           last  == Min({after + bound.page, Len(relay)})
           x == [job |-> "page", after |-> after, head |-> Len(relay),
                 frames |-> SubSeq(relay, after + 1, last), pruned |-> pruned]
<1>1. UNCHANGED <<facts, relay>> /\ held' = [held EXCEPT ![e][p] = x]
  OBVIOUS
<1>2. /\ after \in Nat /\ Len(relay) \in Nat /\ after <= Len(relay)
      /\ bound.page \in Nat /\ relay \in Seq({relay[i] : i \in Arrivals})
  <2> HIDE DEF FetchPage
  <2>1. progress[e] \in ProgressRow /\ bound \in Bounds /\ relay \in Seq({relay[i] : i \in Arrivals})
    BY DEF ReplicaInv, TablesTyped
  <2>2. after \in Nat /\ progress[e].head \in Nat /\ Len(relay) \in Nat
    BY <2>1 DEF ProgressRow
  <2>3. after <= Len(relay)
    BY <2>2 DEF ReplicaInv, CursorsAgree
  <2>4. bound.page \in Nat
    BY <2>1, SyncStoreAssumption
  <2> QED BY <2>1, <2>2, <2>3, <2>4
<1>3. last \in Nat /\ after <= last /\ last <= Len(relay)
  <2> HIDE DEF after
  <2>1. \E m \in {after + bound.page, Len(relay)} : \A y \in {after + bound.page, Len(relay)} : m <= y
    BY <1>2
  <2>2. /\ last \in {after + bound.page, Len(relay)}
        /\ \A y \in {after + bound.page, Len(relay)} : last <= y
    BY <2>1 DEF Min
  <2> QED BY <1>2, <2>2
<1>4. PageHeld(x)
  <2> HIDE DEF last, after, FetchPage
  <2>1. /\ Len(x.frames) = last - after /\ DOMAIN x.frames = 1 .. last - after
        /\ \A k \in 1 .. last - after : x.frames[k] = relay[after + k]
    BY <1>2, <1>3
  <2> QED BY <1>2, <1>3, <2>1 DEF PageHeld
<1>5. x.job = "page"
  OBVIOUS
<1> HIDE DEF x
<1>6. /\ HeldSound' /\ DOMAIN held' = Env
      /\ \A d \in Env : DOMAIN held'[d] = Pass
  BY <1>1, <1>4, <1>5, HeldKept
<1> QED BY <1>6, TablesKept DEF ReplicaInv, TablesTyped

\* A channel's state changes and its cursors stay.
LEMMA StateChanges ==
  ASSUME progress \in [Env -> ProgressRow], NEW e \in Env, NEW s, s \in ChannelState,
         progress' = [progress EXCEPT ![e].state = s]
  PROVE  /\ progress' \in [Env -> ProgressRow]
         /\ \A d \in Env : /\ progress'[d].head = progress[d].head
                           /\ progress'[d].downloaded = progress[d].downloaded
                           /\ progress'[d].applied = progress[d].applied
<1>1. /\ progress[e] = [state |-> progress[e].state, head |-> progress[e].head,
                        downloaded |-> progress[e].downloaded, applied |-> progress[e].applied]
      /\ progress[e].head \in Nat /\ progress[e].downloaded \in Nat
      /\ progress[e].applied \in Nat
  BY DEF ProgressRow
<1>2. progress'[e] = [state |-> s, head |-> progress[e].head,
                      downloaded |-> progress[e].downloaded, applied |-> progress[e].applied]
  BY <1>1
<1>3. progress'[e] \in ProgressRow
  BY <1>1, <1>2 DEF ProgressRow
<1>4. \A d \in Env : d # e => progress'[d] = progress[d]
  OBVIOUS
<1>5. progress' = [d \in Env |-> progress'[d]]
  OBVIOUS
<1>6. \A d \in Env : progress'[d] \in ProgressRow
  BY <1>3, <1>4
<1>7. progress' \in [Env -> ProgressRow]
  BY <1>5, <1>6
<1> QED BY <1>2, <1>4, <1>7

\* The steps that only move authorities, candidates, watermarks and members.
AuthorityMove(e) ==
  \/ InstallVerifiedSyncAuthority(e) \/ ReinstallSyncAuthority(e)
  \/ AdvanceSyncRelayWatermark(e) \/ StageAuthorityCandidate(e) \/ DiscardAuthorityCandidate(e)
  \/ PromoteAuthority(e) \/ BeginRecovery(e) \/ StagePruneCandidate(e)
  \/ StageTerminalCandidate(e) \/ GiveUp(e) \/ MoveMember(e) \/ ActivateStagedSync(e)

\* They change no table of facts or envelopes.
LEMMA MovesKeep ==
  ASSUME NEW e \in Env, AuthorityMove(e)
  PROVE  /\ UNCHANGED <<now, facts, head, inbox, outbox, receipts, relay, held, pruned>>
         /\ \/ progress' = progress
            \/ \E s : s \in {"staging", "attached", progress[e].state}
                       /\ progress' = [progress EXCEPT ![e].state = s]
<1> USE DEF storeVars
<1>1. CASE InstallVerifiedSyncAuthority(e) \/ ActivateStagedSync(e)
  BY <1>1 DEF InstallVerifiedSyncAuthority, ActivateStagedSync, channelVars
<1>2. CASE ReinstallSyncAuthority(e) \/ AdvanceSyncRelayWatermark(e)
           \/ StageAuthorityCandidate(e) \/ DiscardAuthorityCandidate(e)
  BY <1>2 DEF ReinstallSyncAuthority, AdvanceSyncRelayWatermark, StageAuthorityCandidate,
              DiscardAuthorityCandidate, channelVars
<1>3. CASE PromoteAuthority(e)
  <2>1. PICK c \in authority[e].candidate :
          /\ UNCHANGED <<now, facts, head, inbox, outbox, receipts, relay, held, pruned>>
          /\ progress' = [progress EXCEPT ![e].state = IF Pinned(e) THEN @ ELSE "staging"]
    BY <1>3 DEF PromoteAuthority, channelVars
  <2> DEFINE t == IF Pinned(e) THEN progress[e].state ELSE "staging"
  <2>2. t \in {"staging", "attached", progress[e].state}
    OBVIOUS
  <2>3. progress' = [progress EXCEPT ![e].state = t]
    BY <2>1
  <2> HIDE DEF t
  <2> QED BY <2>1, <2>2, <2>3
<1>4. CASE BeginRecovery(e) \/ StagePruneCandidate(e) \/ StageTerminalCandidate(e)
  BY <1>4 DEF BeginRecovery, StagePruneCandidate, StageTerminalCandidate, channelVars
<1>5. CASE GiveUp(e) \/ MoveMember(e)
  BY <1>5 DEF GiveUp, MoveMember, channelVars
<1> QED BY <1>1, <1>2, <1>3, <1>4, <1>5 DEF AuthorityMove

LEMMA AuthoritySteps ==
  ASSUME ReplicaInv, NEW e \in Env, bound' = bound,
         AuthorityMove(e)
  PROVE  /\ ReplicaInv' /\ UNCHANGED <<head, relay>>
         /\ \A d \in Env : progress'[d].applied = progress[d].applied
<1>1. UNCHANGED <<facts, head, inbox, outbox, receipts, relay, held>>
  BY MovesKeep
<1>2. \/ progress' = progress
      \/ \E s : s \in ChannelState /\ progress' = [progress EXCEPT ![e].state = s]
  <2>1. progress[e].state \in ChannelState
    BY DEF ReplicaInv, TablesTyped, ProgressRow
  <2> QED BY <2>1, MovesKeep DEF ChannelState
<1>3. /\ progress' \in [Env -> ProgressRow]
      /\ \A d \in Env : /\ progress'[d].head = progress[d].head
                        /\ progress'[d].downloaded = progress[d].downloaded
                        /\ progress'[d].applied = progress[d].applied
  BY <1>2, StateChanges DEF ReplicaInv, TablesTyped
<1>4. HeldSound'
  BY <1>1 DEF ReplicaInv, HeldSound, PageHeld, Own
<1> QED BY <1>1, <1>3, <1>4, TablesKept DEF ReplicaInv, TablesTyped

----------------------------------------------------------------------------
(* Appending, sealing and sending. *)

\* appendFactV1 gives the fact the number after the head.
LEMMA AppendedFact ==
  ASSUME ReplicaInv, NEW e \in Env, AppendFact(e)
  PROVE  \E f : /\ f.env = e /\ f.seq = head[e][e].highest + 1
               /\ facts' = [facts EXCEPT ![e] = @ \cup {f}]
               /\ head' = [head EXCEPT ![e][e] = AdvanceHead(@, f)]
<1>1. AllocateEnvelope(e).env = e
  BY DEF AllocateEnvelope
<1> QED BY <1>1 DEF AppendFact, ExtendsHead

LEMMA AppendFactStep ==
  ASSUME ReplicaInv, NEW e \in Env, AppendFact(e), bound' = bound
  PROVE  /\ ReplicaInv'
         /\ head'[e][e].highest = head[e][e].highest + 1
         /\ \A d \in Env : d # e => head'[d][d] = head[d][d]
<1> DEFINE h == head[e][e]
<1>1. PICK f : /\ f.env = e /\ f.seq = h.highest + 1
               /\ facts' = [facts EXCEPT ![e] = @ \cup {f}]
               /\ head' = [head EXCEPT ![e][e] = AdvanceHead(@, f)]
  BY AppendedFact
<1>2. UNCHANGED <<progress, inbox, outbox, receipts, held, relay>>
  BY DEF AppendFact
<1>3. /\ HeadRow(h) /\ h.highest \in Nat /\ DOMAIN facts = Env /\ DOMAIN head = Env
      /\ \A d \in Env : DOMAIN head[d] = Env
  BY DEF ReplicaInv, TablesTyped, HeadRow
<1>4. head'[e][e] = [highest |-> f.seq, wall |-> f.wall, logical |-> f.logical,
                     sealed |-> h.sealed, digest |-> h.digest]
  <2>1. AdvanceHead(h, f) = [highest |-> f.seq, wall |-> f.wall, logical |-> f.logical,
                             sealed |-> h.sealed, digest |-> h.digest]
    BY DEF AdvanceHead
  <2>2. head'[e][e] = AdvanceHead(h, f)
    BY <1>1, <1>3
  <2> QED BY <2>1, <2>2
<1>5. /\ DOMAIN head' = Env /\ \A d \in Env : DOMAIN head'[d] = Env
      /\ \A d \in Env : d # e => head'[d][d] = head[d][d]
  BY <1>1, <1>3
<1>6. /\ DOMAIN facts' = Env /\ facts'[e] = facts[e] \cup {f}
      /\ \A d \in Env : d # e => facts'[d] = facts[d]
  BY <1>1, <1>3
<1>7. /\ Own(e)' = Own(e) \cup {f} /\ Arrivals' = Arrivals
      /\ \A d \in Env : d # e => Own(d)' = Own(d)
      /\ \A d : Inventory(d)' = Inventory(d)
  BY <1>1, <1>2, <1>6 DEF Own, Inventory, Arrivals
<1>8. TablesTyped'
  <2>1. HeadRow(head'[e][e])
    BY <1>1, <1>3, <1>4 DEF HeadRow
  <2>2. \A d \in Env : HeadRow(head'[d][d])
    BY <1>5, <2>1 DEF ReplicaInv, TablesTyped
  <2>3. head' = [d \in Env |-> [g \in Env |-> head'[d][g]]]
    BY <1>1 DEF ReplicaInv, TablesTyped
  <2>4. outbox' = [d \in Env |-> outbox'[d]]
    BY <1>2 DEF ReplicaInv, TablesTyped
  <2> QED BY <1>2, <1>5, <1>6, <1>7, <2>2, <2>3, <2>4 DEF ReplicaInv, TablesTyped
<1>9. OwnNumbered'
  <2>1. \A g \in Own(e) : g.seq \in 1 .. h.highest
    BY DEF ReplicaInv, OwnNumbered
  <2>2. \A g \in Own(e)' : g.seq \in 1 .. head'[e][e].highest
    BY <1>1, <1>3, <1>4, <1>7, <2>1
  <2>3. \A g1, g2 \in Own(e)' : g1.seq = g2.seq => g1 = g2
    BY <1>1, <1>3, <1>7, <2>1 DEF ReplicaInv, OwnNumbered
  <2> QED BY <1>5, <1>7, <2>2, <2>3 DEF ReplicaInv, OwnNumbered
<1>10. OwnSealed'
  BY <1>2, <1>4, <1>5, <1>7 DEF ReplicaInv, OwnSealed
<1>11. HeldSound'
  BY <1>2, <1>7 DEF ReplicaInv, HeldSound, PageHeld
<1>12. SealedOnce' /\ RelayChained' /\ CursorsAgree' /\ CursorsOrdered'
  BY <1>2, <1>7 DEF ReplicaInv, SealedOnce, RelayChained, CursorsAgree, Retained, CursorsOrdered
<1>13. HoldsShare'
  <2>1. {<<g.env, g.seq>> : g \in facts'[e]} = Share(e) \cup {<<e, h.highest + 1>>}
    BY <1>1, <1>6 DEF ReplicaInv, HoldsShare
  <2>2. Share(e)' = Share(e) \cup {<<e, h.highest + 1>>}
    <3>1. 1 .. h.highest + 1 = (1 .. h.highest) \cup {h.highest + 1}
      BY <1>3
    <3>2. head'[e][e].highest = h.highest + 1
      BY <1>1, <1>4
    <3> QED BY <1>2, <3>1, <3>2 DEF Share
  <2>3. \A d \in Env : d # e => Share(d)' = Share(d)
    BY <1>2, <1>5 DEF Share
  <2> QED BY <1>6, <2>1, <2>2, <2>3 DEF ReplicaInv, HoldsShare
<1> QED BY <1>1, <1>4, <1>5, <1>8, <1>9, <1>10, <1>11, <1>12, <1>13 DEF ReplicaInv

\* PersistSealedOutbox stores an envelope that continues the sealed ones, or nothing.
LEMMA PersistSealedOutboxStep ==
  ASSUME ReplicaInv, NEW e \in Env, NEW p \in Pass, PersistSealedOutbox(e, p), bound' = bound
  PROVE  ReplicaInv' /\ \A d \in Env : head'[d][d].highest = head[d][d].highest
<1> DEFINE v == held[e][p].envelope
           h == head[e][e]
           fresh == /\ Attached(e)
                    /\ \A u \in Inventory(e) : u.fact # v.fact
                    /\ AdmitEnvelope(Inventory(e), v)
                    /\ ExtendsSealed(h, v)
<1>1. /\ outbox' = [outbox EXCEPT ![e] = IF fresh THEN @ \cup {v} ELSE @]
      /\ head' = [head EXCEPT ![e][e] = IF fresh THEN RecordSealed(@, v) ELSE @]
      /\ held' = [held EXCEPT ![e][p] = Idle]
      /\ UNCHANGED <<facts, progress, inbox, receipts, relay>>
      /\ held[e][p].job = "seal"
  BY DEF PersistSealedOutbox
<1>2. /\ HeldSound' /\ DOMAIN held' = Env
      /\ \A d \in Env : DOMAIN held'[d] = Pass
  <2>1. Idle.job = "idle"
    BY DEF Idle
  <2> HIDE DEF fresh
  <2> QED BY <1>1, <2>1, HeldKept
<1>3. /\ HeadRow(h) /\ DOMAIN outbox = Env /\ DOMAIN head = Env
      /\ \A d \in Env : DOMAIN head[d] = Env
  BY DEF ReplicaInv, TablesTyped
<1>4. CASE ~ fresh
  <2> HIDE DEF fresh
  <2>1. outbox' = outbox
    <3>1. outbox = [d \in Env |-> outbox[d]]
      BY DEF ReplicaInv, TablesTyped
    <3>2. outbox' = [outbox EXCEPT ![e] = outbox[e]]
      BY <1>1, <1>4
    <3> QED BY <3>1, <3>2
  <2>3. head' = head
    <3>1. head = [d \in Env |-> [f \in Env |-> head[d][f]]]
      BY DEF ReplicaInv, TablesTyped
    <3>2. head' = [head EXCEPT ![e][e] = head[e][e]]
      BY <1>1, <1>4
    <3> QED BY <3>1, <3>2
  <2> QED BY <1>1, <1>2, <2>1, <2>3, TablesKept DEF ReplicaInv, TablesTyped
<1>5. CASE fresh
  <2>1. v.fact \in Own(e) /\ v.fact.env = e /\ v.fact.seq \in 1 .. h.highest
    BY <1>1 DEF ReplicaInv, HeldSound, OwnNumbered, Own
  <2>2. Follows(v)
    BY <1>5, <2>1 DEF AdmitEnvelope, Digest, Follows
  <2>3. /\ HeadRow(head'[e][e]) /\ head'[e][e].highest = h.highest
        /\ h.sealed <= head'[e][e].sealed /\ v.fact.seq <= head'[e][e].sealed
        /\ head'[e][e].sealed \in Nat
    <3>1. head'[e][e] = RecordSealed(h, v)
      BY <1>1, <1>3, <1>5
    <3>2. h.sealed \in Nat /\ h.highest \in Nat /\ v.fact.seq \in Nat /\ v.fact.seq <= h.highest
          /\ h.sealed <= h.highest
      BY <1>3, <2>1 DEF HeadRow
    <3>3. CASE v.fact.seq <= h.sealed
      BY <1>3, <3>1, <3>2, <3>3 DEF RecordSealed
    <3>4. CASE ~ (v.fact.seq <= h.sealed)
      <4>1. head'[e][e] = [highest |-> h.highest, wall |-> h.wall, logical |-> h.logical,
                           sealed |-> v.fact.seq, digest |-> Digest(v)]
        BY <1>3, <3>1, <3>4 DEF RecordSealed, HeadRow
      <4> QED BY <3>2, <3>4, <4>1 DEF HeadRow
    <3> QED BY <3>3, <3>4
  <2>4. /\ DOMAIN head' = Env /\ \A d \in Env : DOMAIN head'[d] = Env
        /\ \A d \in Env : d # e => head'[d][d] = head[d][d]
    BY <1>1, <1>3
  <2>5. /\ DOMAIN outbox' = Env /\ outbox'[e] = outbox[e] \cup {v}
        /\ \A d \in Env : d # e => outbox'[d] = outbox[d]
    BY <1>1, <1>3, <1>5
  <2> HIDE DEF fresh, v
  <2>6. /\ Inventory(e)' = Inventory(e) \cup {v} /\ Arrivals' = Arrivals
        /\ \A d \in Env : d # e => Inventory(d)' = Inventory(d)
        /\ \A d : Own(d)' = Own(d)
    BY <1>1, <2>5 DEF Own, Inventory, Arrivals
  <2>7. TablesTyped'
    <3>1. head' = [d \in Env |-> [g \in Env |-> head'[d][g]]]
      BY <1>1 DEF ReplicaInv, TablesTyped
    <3>2. outbox' = [d \in Env |-> outbox'[d]]
      BY <1>1 DEF ReplicaInv, TablesTyped
    <3>3. \A d \in Env : HeadRow(head'[d][d])
      BY <2>3, <2>4 DEF ReplicaInv, TablesTyped
    <3> QED BY <1>1, <1>2, <2>4, <2>5, <2>6, <3>1, <3>2, <3>3 DEF ReplicaInv, TablesTyped
  <2>8. OwnNumbered'
    BY <2>3, <2>4, <2>6 DEF ReplicaInv, OwnNumbered
  <2>9. OwnSealed'
    <3>1. \A u \in Inventory(e)' : u.fact.env = e =>
             u.fact \in Own(e) /\ u.fact.seq <= head'[e][e].sealed /\ Follows(u)
      <4>1. ASSUME NEW u \in Inventory(e), u.fact.env = e
            PROVE  u.fact \in Own(e) /\ u.fact.seq <= head'[e][e].sealed /\ Follows(u)
        <5>1. /\ u.fact \in Own(e) /\ u.fact.seq <= h.sealed /\ Follows(u)
              /\ u.fact.seq \in 1 .. h.highest
          BY <4>1 DEF ReplicaInv, OwnSealed, OwnNumbered
        <5> QED BY <1>3, <2>3, <5>1 DEF HeadRow
      <4> QED BY <2>1, <2>2, <2>3, <2>6, <4>1
    <3>2. \A u \in outbox'[e] : u.fact \in Own(e)
      BY <2>1, <2>5 DEF ReplicaInv, OwnSealed
    <3> QED BY <2>4, <2>5, <2>6, <3>1, <3>2 DEF ReplicaInv, OwnSealed
  <2>10. SealedOnce'
    BY <1>1, <2>6 DEF ReplicaInv, SealedOnce, TablesTyped
  <2>11. RelayChained' /\ CursorsAgree' /\ CursorsOrdered'
    BY <1>1, <2>6 DEF ReplicaInv, RelayChained, CursorsAgree, Retained, CursorsOrdered
  <2>12. HoldsShare'
    <3>1. \A d \in Env : Share(d)' = Share(d)
      BY <1>1, <2>3, <2>4 DEF Share
    <3> QED BY <1>1, <3>1 DEF ReplicaInv, HoldsShare
  <2> QED BY <1>2, <2>3, <2>4, <2>7, <2>8, <2>9, <2>10, <2>11, <2>12 DEF ReplicaInv
<1> QED BY <1>4, <1>5

\* A page that ends at the relay's head has arrivals of the relay.
LEMMA PageWithin ==
  ASSUME NEW after \in Nat, NEW frames \in Nat, NEW top \in Nat, NEW last \in Nat,
         after + frames <= top, top <= last
  PROVE  \A k \in 1 .. frames : after + k \in 1 .. last
OBVIOUS

\* The relay numbers the next envelope of its producer.
LEMMA SendOutboxStep ==
  ASSUME ReplicaInv, NEW e \in Env, NEW v \in outbox[e],
         v.fact.seq = 1 \/ \E i \in Arrivals : Digest(relay[i]) = v.prev,
         relay' = Append(relay, v), UNCHANGED <<now, storeVars, held, bound>>
  PROVE  ReplicaInv'
<1> USE DEF storeVars
<1> DEFINE n == Len(relay) + 1
<1>1. /\ relay' \in Seq({relay'[i] : i \in DOMAIN relay'})
      /\ Len(relay) \in Nat /\ Arrivals = 1 .. Len(relay)
      /\ Len(relay') = n /\ Arrivals' = 1 .. n
      /\ \A i \in Arrivals : relay'[i] = relay[i]
      /\ relay'[n] = v
  <2>1. relay \in Seq({relay[i] : i \in DOMAIN relay})
    BY DEF ReplicaInv, TablesTyped, Arrivals
  <2> QED BY <2>1, ListGrows DEF Arrivals
<1>2. \A d : Own(d)' = Own(d) /\ Inventory(d)' = Inventory(d)
  BY DEF Own, Inventory
<1>3. v \in Inventory(e) /\ v.fact \in Own(e) /\ v.fact.env = e
  BY DEF ReplicaInv, OwnSealed, Inventory, Own
<1>4. TablesTyped'
  <2>1. \A i \in Arrivals' : relay'[i].fact.env \in Env
    BY <1>1, <1>3 DEF ReplicaInv, TablesTyped
  <2>2. relay' \in Seq({relay'[i] : i \in Arrivals'})
    BY <1>1 DEF Arrivals
  <2> QED BY <2>1, <2>2 DEF ReplicaInv, TablesTyped
<1>5. OwnNumbered' /\ OwnSealed'
  BY <1>2 DEF ReplicaInv, OwnNumbered, OwnSealed
<1>6. HeldSound'
  <2>1. ASSUME NEW x, PageHeld(x) PROVE PageHeld(x)'
    <3>1. \A k \in 1 .. Len(x.frames) : x.after + k \in Arrivals
      <4>1. /\ x.after \in Nat /\ Len(x.frames) \in Nat /\ x.head \in Nat /\ x.head <= Len(relay)
            /\ x.after + Len(x.frames) <= x.head
        BY <2>1 DEF PageHeld
      <4>2. \A k \in 1 .. Len(x.frames) : x.after + k \in 1 .. Len(relay)
        BY <1>1, <4>1, PageWithin
      <4> QED BY <1>1, <4>2
    <3>2. x.head <= Len(relay')
      BY <1>1, <2>1 DEF PageHeld
    <3> QED BY <1>1, <2>1, <3>1, <3>2 DEF PageHeld
  <2> QED BY <1>2, <2>1 DEF ReplicaInv, HeldSound
<1>7. SealedOnce'
  BY <1>1, <1>2, <1>3 DEF ReplicaInv, SealedOnce
<1>8. CursorsAgree'
  <2> SUFFICES ASSUME NEW d \in Env
               PROVE  /\ DOMAIN receipts[d] = 1 .. progress[d].applied
                      /\ DOMAIN inbox[d] = progress[d].applied + 1 .. progress[d].downloaded
                      /\ progress[d].downloaded <= progress[d].head /\ progress[d].head <= Len(relay')
                      /\ \A i \in 1 .. progress[d].downloaded : Retained(d, i) = relay'[i]
    BY DEF CursorsAgree, Retained
  <2>1. progress[d].head \in Nat /\ progress[d].downloaded \in Nat
    BY DEF ReplicaInv, TablesTyped, ProgressRow
  <2>2. /\ DOMAIN receipts[d] = 1 .. progress[d].applied
        /\ DOMAIN inbox[d] = progress[d].applied + 1 .. progress[d].downloaded
        /\ progress[d].downloaded <= progress[d].head /\ progress[d].head <= Len(relay)
        /\ \A i \in 1 .. progress[d].downloaded : Retained(d, i) = relay[i]
    BY DEF ReplicaInv, CursorsAgree
  <2>3. \A i \in 1 .. progress[d].downloaded : i \in Arrivals
    BY <1>1, <2>1, <2>2
  <2> QED BY <1>1, <2>1, <2>2, <2>3
<1>9. RelayChained'
  <2> SUFFICES ASSUME NEW i \in Arrivals', NEW s \in 1 .. relay'[i].fact.seq
               PROVE  \E j \in Arrivals' : j <= i /\ relay'[j].fact.env = relay'[i].fact.env
                                          /\ relay'[j].fact.seq = s
    BY DEF RelayChained
  <2>1. CASE i \in Arrivals
    <3>1. PICK j \in Arrivals : j <= i /\ relay[j].fact.env = relay[i].fact.env
                               /\ relay[j].fact.seq = s
      BY <1>1, <2>1 DEF ReplicaInv, RelayChained
    <3> QED BY <1>1, <2>1, <3>1
  <2>2. CASE i \notin Arrivals
    <3>1. i = n /\ relay'[i] = v /\ v.fact.seq \in Nat /\ s \in Nat /\ 1 <= s /\ s <= v.fact.seq
      BY <1>1, <1>3, <2>2 DEF ReplicaInv, OwnNumbered
    <3>2. CASE s = v.fact.seq
      BY <3>1, <3>2
    <3>3. CASE s # v.fact.seq
      <4>1. PICK k \in Arrivals : Digest(relay[k]) = v.prev
        BY <3>1, <3>3
      <4>2. relay[k].fact.env = e /\ relay[k].fact.seq = v.fact.seq - 1
        BY <1>3, <3>1, <3>3, <4>1 DEF Digest, ReplicaInv, OwnSealed, Follows
      <4>3. s \in 1 .. relay[k].fact.seq
        BY <3>1, <3>3, <4>2
      <4>4. PICK j \in Arrivals : j <= k /\ relay[j].fact.env = e /\ relay[j].fact.seq = s
        BY <4>2, <4>3 DEF ReplicaInv, RelayChained
      <4>5. relay'[j] = relay[j] /\ j \in Arrivals' /\ j <= i
        BY <1>1, <3>1, <4>4
      <4> QED BY <1>3, <3>1, <4>4, <4>5
    <3> QED BY <3>2, <3>3
  <2> QED BY <2>1, <2>2
<1>11. CursorsOrdered'
  BY DEF ReplicaInv, CursorsOrdered
<1>10. HoldsShare'
  <2>1. \A d \in Env : \A i \in 1 .. progress[d].applied : i \in Arrivals
    <3>1. \A d \in Env : /\ progress[d].head \in Nat /\ progress[d].downloaded \in Nat
                         /\ progress[d].applied \in Nat
      BY DEF ReplicaInv, TablesTyped, ProgressRow
    <3>2. \A d \in Env : /\ progress[d].applied <= progress[d].downloaded
                         /\ progress[d].downloaded <= progress[d].head
                         /\ progress[d].head <= Len(relay)
      BY DEF ReplicaInv, CursorsOrdered, CursorsAgree
    <3>3. \A d \in Env : progress[d].applied <= Len(relay)
      BY <1>1, <3>1, <3>2
    <3> QED BY <1>1, <3>1, <3>3
  <2>2. \A d \in Env : Share(d)' = Share(d)
    BY <1>1, <2>1 DEF Share
  <2> QED BY <2>2 DEF ReplicaInv, HoldsShare
<1> QED BY <1>4, <1>5, <1>6, <1>7, <1>8, <1>9, <1>10, <1>11 DEF ReplicaInv

----------------------------------------------------------------------------
(* Downloading and discarding. *)

\* stageSyncPage adds a run of arrivals at the cursor, or nothing.
LEMMA StageSyncPageStep ==
  ASSUME ReplicaInv, NEW e \in Env, NEW p \in Pass, NEW exact \in BOOLEAN,
         StageSyncPage(e, p, exact), bound' = bound
  PROVE  ReplicaInv'
<1> DEFINE page == held[e][p]
           allowed == /\ page.head >= progress[e].head
                      /\ IF exact THEN UnderAuthority(e, page)
                         ELSE authority[e].recovery # "prunes"
           new    == allowed /\ NewPage(e, page)
           replay == allowed /\ ReplayedPage(e, page)
           last   == page.after + Len(page.frames)
           row    == progress[e]
           added  == [i \in DOMAIN inbox[e] \cup page.after + 1 .. last |->
                        IF i \in DOMAIN inbox[e] THEN inbox[e][i]
                        ELSE [envelope |-> page.frames[i - page.after],
                              kind |-> KindIn(page.pruned, i), state |-> "staged"]]
           row2   == [state |-> row.state, applied |-> row.applied,
                      downloaded |-> IF new THEN last ELSE row.downloaded,
                      head |-> IF new \/ replay THEN page.head ELSE row.head]
<1>1. /\ page.job = "page" /\ held' = [held EXCEPT ![e][p] = Idle]
      /\ UNCHANGED <<facts, head, outbox, receipts, relay>>
      /\ inbox' = [inbox EXCEPT ![e] = IF new THEN added ELSE inbox[e]]
      /\ progress' = [progress EXCEPT ![e] = row2]
  BY DEF StageSyncPage
<1>2. /\ progress \in [Env -> ProgressRow] /\ DOMAIN inbox = Env
      /\ row.state \in ChannelState /\ row.applied \in Nat /\ row.downloaded \in Nat
      /\ row.head \in Nat /\ row.applied <= row.downloaded
  BY DEF ReplicaInv, TablesTyped, ProgressRow, CursorsOrdered
<1>3. /\ DOMAIN receipts[e] = 1 .. row.applied
      /\ DOMAIN inbox[e] = row.applied + 1 .. row.downloaded
      /\ row.downloaded <= row.head /\ row.head <= Len(relay) /\ Len(relay) \in Nat
      /\ \A i \in 1 .. row.downloaded : Retained(e, i) = relay[i]
  BY DEF ReplicaInv, CursorsAgree, TablesTyped
<1>4. PageHeld(page)
  BY <1>1 DEF ReplicaInv, HeldSound
<1>5. /\ HeldSound' /\ DOMAIN held' = Env
      /\ \A d \in Env : DOMAIN held'[d] = Pass
  <2>1. Idle.job = "idle"
    BY DEF Idle
  <2> HIDE DEF page, new, row2
  <2> QED BY <1>1, <2>1, HeldKept
<1>6. new => page.after = row.downloaded /\ page.head >= row.head
  BY DEF NewPage
<1>7. replay => page.head >= row.head
  OBVIOUS
<1>8. last \in Nat /\ page.head \in Nat /\ page.head <= Len(relay) /\ last <= page.head
      /\ page.after \in Nat /\ page.after <= last
  BY <1>4 DEF PageHeld
<1> HIDE DEF new, replay
<1>9. /\ row2 \in ProgressRow /\ row2.applied = row.applied /\ row2.applied <= row2.downloaded
      /\ row2.downloaded <= row2.head /\ row2.head <= Len(relay)
  <2> HIDE DEF row, last, page
  <2>1. row2.downloaded \in Nat /\ row2.head \in Nat
    BY <1>2, <1>8
  <2>2. row2 \in ProgressRow
    BY <1>2, <2>1 DEF ProgressRow
  <2>3. row2.applied <= row2.downloaded
    BY <1>2, <1>6, <1>8
  <2>4. row2.downloaded <= row2.head /\ row2.head <= Len(relay)
    BY <1>2, <1>3, <1>6, <1>7, <1>8
  <2> QED BY <2>2, <2>3, <2>4
<1>10. /\ progress' \in [Env -> ProgressRow] /\ progress'[e] = row2
       /\ \A d \in Env : d # e => progress'[d] = progress[d]
  <2> HIDE DEF row2
  <2> QED BY <1>1, <1>2, <1>9
<1>11. /\ DOMAIN inbox' = Env /\ inbox'[e] = IF new THEN added ELSE inbox[e]
       /\ \A d \in Env : d # e => inbox'[d] = inbox[d]
  BY <1>1, <1>2
<1>12. /\ \A d : Own(d)' = Own(d) /\ Inventory(d)' = Inventory(d)
       /\ Arrivals' = Arrivals
  BY <1>1 DEF Own, Inventory, Arrivals
<1>13. TablesTyped'
  <2>1. \A i \in DOMAIN added : added[i] = [envelope |-> added[i].envelope, kind |-> added[i].kind, state |-> added[i].state]
    BY DEF ReplicaInv, TablesTyped
  <2>2. \A d \in Env : \A i \in DOMAIN inbox'[d] :
          inbox'[d][i] = [envelope |-> inbox'[d][i].envelope, kind |-> inbox'[d][i].kind, state |-> inbox'[d][i].state]
    <3> HIDE DEF added
    <3>1. ASSUME NEW d \in Env, NEW i \in DOMAIN inbox[d]
          PROVE  inbox[d][i] = [envelope |-> inbox[d][i].envelope, kind |-> inbox[d][i].kind,
                                state |-> inbox[d][i].state]
      BY DEF ReplicaInv, TablesTyped
    <3>2. ASSUME NEW d \in Env
          PROVE  inbox'[d] = inbox[d] \/ inbox'[d] = added
      BY <1>11
    <3>3. ASSUME NEW d \in Env, NEW i \in DOMAIN inbox'[d]
          PROVE  inbox'[d][i] = [envelope |-> inbox'[d][i].envelope, kind |-> inbox'[d][i].kind,
                                 state |-> inbox'[d][i].state]
      <4>1. CASE inbox'[d] = inbox[d]
        BY <3>1, <3>3, <4>1
      <4>2. CASE inbox'[d] = added
        BY <2>1, <3>3, <4>2
      <4> QED BY <3>2, <4>1, <4>2
    <3> QED BY <3>3
  <2> HIDE DEF added, row2, page, last, row
  <2> QED BY <1>1, <1>5, <1>10, <1>11, <1>12, <2>2 DEF ReplicaInv, TablesTyped
<1>14. OwnNumbered' /\ OwnSealed' /\ SealedOnce' /\ RelayChained'
  BY <1>1, <1>12 DEF ReplicaInv, OwnNumbered, OwnSealed, SealedOnce, RelayChained
<1>15. CursorsOrdered' /\ HoldsShare'
  <2>1. CursorsOrdered'
    BY <1>9, <1>10 DEF ReplicaInv, CursorsOrdered
  <2>2. \A d \in Env : progress'[d].applied = progress[d].applied
    BY <1>9, <1>10
  <2>3. HoldsShare'
    BY <1>1, <2>2 DEF ReplicaInv, HoldsShare, Share
  <2> QED BY <2>1, <2>3
<1>16. /\ DOMAIN inbox'[e] = row2.applied + 1 .. row2.downloaded
       /\ \A i \in 1 .. row2.downloaded : Retained(e, i)' = relay[i]
  <2>1. CASE new
    <3>1. /\ inbox'[e] = added /\ row2.downloaded = last
          /\ page.after = row.downloaded /\ receipts'[e] = receipts[e]
      BY <1>1, <1>6, <1>11, <2>1
    <3>2. DOMAIN added = DOMAIN inbox[e] \cup (page.after + 1 .. last)
      OBVIOUS
    <3>3. DOMAIN added = row.applied + 1 .. last
      <4> HIDE DEF row, last, page, added
      <4> QED BY <1>2, <1>3, <1>8, <3>1, <3>2
    <3>4. ASSUME NEW i \in 1 .. last
          PROVE  Retained(e, i)' = relay[i]
      <4>1. CASE i \in 1 .. row.downloaded
        <5>1. Retained(e, i) = relay[i]
          BY <1>3, <4>1
        <5>2. i \in DOMAIN receipts[e] \/ i \in DOMAIN inbox[e]
          BY <1>2, <1>3, <4>1
        <5>3. i \in DOMAIN inbox[e] => added[i] = inbox[e][i]
          OBVIOUS
        <5> HIDE DEF added
        <5> QED BY <1>1, <3>1, <5>1, <5>2, <5>3 DEF Retained
      <4>2. CASE i \notin 1 .. row.downloaded
        <5>1. i \in Nat /\ i > row.downloaded /\ i <= last
          BY <1>2, <1>8, <4>2
        <5>2. i \notin DOMAIN receipts[e] /\ i \notin DOMAIN inbox[e]
              /\ i \in page.after + 1 .. last
          BY <1>2, <1>3, <3>1, <5>1
        <5>3. added[i] = [envelope |-> page.frames[i - page.after],
                              kind |-> KindIn(page.pruned, i), state |-> "staged"]
          BY <5>2
        <5>4. page.frames[i - page.after] = relay[i]
          <6>1. i - page.after \in 1 .. Len(page.frames)
            <7>1. Len(page.frames) \in Nat
              BY <1>4 DEF PageHeld
            <7> HIDE DEF page
            <7> QED BY <1>8, <5>1, <5>2, <7>1
          <6>2. page.after + (i - page.after) = i
            BY <1>8, <5>1
          <6> HIDE DEF page
          <6> QED BY <1>4, <6>1, <6>2 DEF PageHeld
        <5> HIDE DEF added, page
        <5> QED BY <1>1, <3>1, <5>2, <5>3, <5>4 DEF Retained
      <4> QED BY <4>1, <4>2
    <3> HIDE DEF added, row, last
    <3> QED BY <1>9, <3>1, <3>3, <3>4
  <2>2. CASE ~ new
    <3>1. inbox'[e] = inbox[e] /\ row2.downloaded = row.downloaded /\ row2.applied = row.applied
      BY <1>11, <2>2
    <3> QED BY <1>1, <1>3, <3>1 DEF Retained
  <2> QED BY <2>1, <2>2
<1>17. CursorsAgree'
  <2> HIDE DEF row2, row, page, last, added
  <2>1. ASSUME NEW d \in Env, d # e
        PROVE  /\ DOMAIN receipts'[d] = 1 .. progress'[d].applied
               /\ DOMAIN inbox'[d] = progress'[d].applied + 1 .. progress'[d].downloaded
               /\ progress'[d].downloaded <= progress'[d].head /\ progress'[d].head <= Len(relay')
               /\ \A i \in 1 .. progress'[d].downloaded : Retained(d, i)' = relay'[i]
    BY <1>1, <1>10, <1>11, <2>1 DEF ReplicaInv, CursorsAgree, Retained
  <2>2. DOMAIN receipts'[e] = 1 .. row2.applied
    BY <1>1, <1>3, <1>9
  <2> QED BY <1>1, <1>9, <1>10, <1>16, <2>1, <2>2 DEF CursorsAgree
<1> QED BY <1>5, <1>13, <1>14, <1>15, <1>17 DEF ReplicaInv

\* DiscardStagedSync takes back a channel of which nothing was applied or sealed.
LEMMA DiscardStagedSyncStep ==
  ASSUME ReplicaInv, NEW e \in Env, DiscardStagedSync(e), bound' = bound
  PROVE  ReplicaInv'
<1> USE DEF DiscardStagedSync
<1>1. /\ \A d : Own(d)' = Own(d) /\ Inventory(d)' = Inventory(d)
      /\ Arrivals' = Arrivals
  BY DEF Own, Inventory, Arrivals
<1>2. /\ progress'[e] = Unattached /\ Unattached \in ProgressRow
      /\ \A d \in Env : d # e => progress'[d] = progress[d]
      /\ progress' \in [Env -> ProgressRow]
  BY DEF ReplicaInv, TablesTyped, Unattached, ProgressRow, ChannelState
<1>3. /\ inbox'[e] = <<>> /\ DOMAIN inbox' = Env
      /\ \A d \in Env : d # e => inbox'[d] = inbox[d]
  BY DEF ReplicaInv, TablesTyped
<1>4. TablesTyped'
  BY <1>1, <1>2, <1>3 DEF ReplicaInv, TablesTyped
<1>5. OwnNumbered' /\ OwnSealed' /\ SealedOnce' /\ RelayChained' /\ HeldSound'
  BY <1>1 DEF ReplicaInv, OwnNumbered, OwnSealed, SealedOnce, RelayChained, HeldSound, PageHeld
<1>6. \A d \in Env : progress'[d].applied = progress[d].applied
  BY <1>2 DEF Unattached
<1>7. HoldsShare'
  BY <1>6 DEF ReplicaInv, HoldsShare, Share
<1>8. CursorsOrdered'
  BY <1>2 DEF ReplicaInv, CursorsOrdered, Unattached
<1>9. CursorsAgree'
  <2>1. Len(relay) \in Nat
    BY DEF ReplicaInv, TablesTyped
  <2>2. ASSUME NEW d \in Env, d # e
        PROVE  /\ DOMAIN receipts'[d] = 1 .. progress'[d].applied
               /\ DOMAIN inbox'[d] = progress'[d].applied + 1 .. progress'[d].downloaded
               /\ progress'[d].downloaded <= progress'[d].head /\ progress'[d].head <= Len(relay')
               /\ \A i \in 1 .. progress'[d].downloaded : Retained(d, i)' = relay'[i]
    BY <1>2, <1>3, <2>2 DEF ReplicaInv, CursorsAgree, Retained
  <2>3. /\ DOMAIN receipts'[e] = 1 .. progress'[e].applied
        /\ DOMAIN inbox'[e] = progress'[e].applied + 1 .. progress'[e].downloaded
        /\ progress'[e].downloaded <= progress'[e].head /\ progress'[e].head <= Len(relay')
        /\ \A i \in 1 .. progress'[e].downloaded : Retained(e, i)' = relay'[i]
    BY <1>2, <1>3, <2>1 DEF Unattached
  <2> QED BY <2>2, <2>3 DEF CursorsAgree
<1> QED BY <1>4, <1>5, <1>7, <1>8, <1>9 DEF ReplicaInv

----------------------------------------------------------------------------
(* Applying. *)

\* A batch is applied up to the first frame from the future, or not at all.
LEMMA CountInRange ==
  ASSUME NEW e \in Env, NEW n \in Nat
  PROVE  ApplyCount(e, n) \in 0 .. n
<1> DEFINE future == {k \in 1 .. n : FutureSkewed(e, inbox[e][progress[e].applied + k].envelope.fact)}
           count == IF future = {} THEN n ELSE Min(future) - 1
<1>1. future \in SUBSET (1 .. n)
  OBVIOUS
<1> HIDE DEF future
<1>2. count \in 0 .. n
  <2>1. CASE future = {}
    BY <2>1
  <2>2. CASE future # {}
    <3>1. future \in SUBSET Nat
      BY <1>1
    <3>2. \E m \in future : \A y \in future : m <= y
      BY <2>2, <3>1, LeastMember
    <3>3. Min(future) \in future
      BY <3>2 DEF Min
    <3> DEFINE m == Min(future)
    <3>4. m \in 1 .. n /\ count = m - 1
      BY <1>1, <2>2, <3>3
    <3> HIDE DEF m, count
    <3> QED BY <3>4
  <2> QED BY <2>1, <2>2
<1>3. ApplyCount(e, n) = count \/ ApplyCount(e, n) = 0
  BY DEF ApplyCount, future
<1> QED BY <1>2, <1>3

\* An environment's own head does not move when its facts come back from the relay.
LEMMA OwnHeadStays ==
  ASSUME ReplicaInv, NEW e \in Env, NEW V,
         \A v \in V : v.fact.env = e => v \in Inventory(e)
  PROVE  HeadAfter(head[e][e], e, V) = head[e][e]
<1> DEFINE h   == head[e][e]
           mine == {v \in V : v.fact.env = e}
           S   == {v.fact.seq : v \in mine}
           top == CHOOSE v \in mine : \A u \in mine : u.fact.seq <= v.fact.seq
<1>1. HeadRow(h)
  BY DEF ReplicaInv, TablesTyped
<1>2. \A v \in mine : v.fact.seq \in 1 .. h.highest /\ v.fact.seq <= h.sealed
  BY DEF ReplicaInv, OwnSealed, OwnNumbered
<1>3. CASE mine = {}
  BY <1>3 DEF HeadAfter
<1>4. CASE mine # {}
  <2>1. h.highest \in Nat /\ S \in SUBSET Nat /\ S # {} /\ \A s \in S : s <= h.highest
    BY <1>1, <1>2, <1>4 DEF HeadRow
  <2>2. PICK m \in S : \A s \in S : s <= m
    <3> HIDE DEF S, h
    <3> QED BY <2>1, GreatestMember
  <2>3. \E v \in mine : \A u \in mine : u.fact.seq <= v.fact.seq
    BY <2>2
  <2> HIDE DEF mine
  <2>4. top \in mine
    BY <2>3
  <2>5. top.fact.seq \in Nat /\ h.sealed \in Nat /\ top.fact.seq <= h.sealed
        /\ ~ (top.fact.seq > h.highest)
    <3> HIDE DEF top, h
    <3> QED BY <1>1, <1>2, <2>4 DEF HeadRow
  <2>6. HeadAfter(h, e, V)
          = RecordSealed(IF top.fact.seq > h.highest THEN AdvanceHead(h, top.fact) ELSE h, top)
    BY <1>4 DEF HeadAfter, mine
  <2> HIDE DEF top, h
  <2> QED BY <2>5, <2>6 DEF RecordSealed, h
<1> QED BY <1>3, <1>4

\* What ApplySyncBatch does to the tables: it moves the cursor over a run of arrivals.
LEMMA AppliedFrames ==
  ASSUME ReplicaInv, NEW e \in Env, NEW n \in 1 .. bound.page, ApplySyncBatch(e, n)
  PROVE  LET a == progress[e].applied
             k == ApplyCount(e, n)
         IN  /\ n \in Nat /\ a \in Nat /\ k \in 0 .. n /\ a + k <= progress[e].downloaded
             /\ a + k <= Len(relay) /\ Len(relay) \in Nat
             /\ \A i \in a + 1 .. a + k : i \in Arrivals /\ inbox[e][i].envelope = relay[i]
             /\ Frames(e, k) = {relay[i] : i \in a + 1 .. a + k}
<1> DEFINE a == progress[e].applied
           k == ApplyCount(e, n)
<1>1. n \in Nat /\ a \in Nat /\ progress[e].downloaded \in Nat /\ progress[e].head \in Nat
  BY SyncStoreAssumption DEF ReplicaInv, TablesTyped, ProgressRow
<1>2. k \in 0 .. n
  BY <1>1, CountInRange
<1>3. a + n <= progress[e].downloaded
  BY DEF ApplySyncBatch
<1>4. /\ progress[e].downloaded <= progress[e].head /\ progress[e].head <= Len(relay)
      /\ DOMAIN receipts[e] = 1 .. a
      /\ \A i \in 1 .. progress[e].downloaded : Retained(e, i) = relay[i]
  BY DEF ReplicaInv, CursorsAgree
<1>5. Len(relay) \in Nat /\ Arrivals = 1 .. Len(relay)
  BY DEF ReplicaInv, TablesTyped, Arrivals
<1> HIDE DEF a, k
<1>6. a + k <= progress[e].downloaded /\ a + k <= Len(relay)
  BY <1>1, <1>2, <1>3, <1>4, <1>5
<1>7. ASSUME NEW i \in a + 1 .. a + k
      PROVE  i \in Arrivals /\ inbox[e][i].envelope = relay[i]
  <2>1. i \in 1 .. progress[e].downloaded /\ i \notin 1 .. a /\ i \in Arrivals
    BY <1>1, <1>2, <1>5, <1>6
  <2> QED BY <1>4, <2>1 DEF Retained
<1>8. Frames(e, k) = {relay[i] : i \in a + 1 .. a + k}
  BY <1>7 DEF Frames, a
<1> QED BY <1>1, <1>2, <1>5, <1>6, <1>7, <1>8 DEF a, k

LEMMA ApplySyncBatchStep ==
  ASSUME ReplicaInv, NEW e \in Env, NEW n \in 1 .. bound.page, ApplySyncBatch(e, n),
         bound' = bound
  PROVE  /\ ReplicaInv' /\ \A d \in Env : head'[d][d] = head[d][d]
         /\ \/ progress'[e].applied = progress[e].applied
            \/ progress'[e].applied \in progress[e].applied + 1 .. Len(relay)
         /\ \A d \in Env : d # e => progress'[d] = progress[d]
         /\ Inventory(e)' = Inventory(e) \cup Frames(e, ApplyCount(e, n))
         /\ \A d \in Env : d # e => Inventory(d)' = Inventory(d)
<1> DEFINE a == progress[e].applied
           k == ApplyCount(e, n)
           V == Frames(e, k)
           future == {i \in 1 .. n : FutureSkewed(e, inbox[e][a + i].envelope.fact)}
           stuck == IF future = {} THEN {} ELSE {a + Min(future)}
           kept == [i \in DOMAIN receipts[e] \cup a + 1 .. a + k |->
                      IF i \in DOMAIN receipts[e] THEN receipts[e][i] ELSE inbox[e][i].envelope]
           rest == [i \in DOMAIN inbox[e] \ (a + 1 .. a + k) |->
                      IF i \in stuck THEN [inbox[e][i] EXCEPT !.state = "quarantined"]
                      ELSE inbox[e][i]]
<1>1. /\ facts' = [facts EXCEPT ![e] = @ \cup {v.fact : v \in V}]
      /\ head' = [head EXCEPT ![e] = [f \in Env |-> HeadAfter(@[f], f, V)]]
      /\ receipts' = [receipts EXCEPT ![e] = kept]
      /\ outbox' = [outbox EXCEPT ![e] = @ \ V]
      /\ inbox' = [inbox EXCEPT ![e] = rest]
      /\ progress' = [progress EXCEPT ![e].applied = a + k]
      /\ UNCHANGED <<held, relay>>
  BY DEF ApplySyncBatch
<1>2. /\ n \in Nat /\ a \in Nat /\ k \in 0 .. n /\ a + k <= progress[e].downloaded
      /\ a + k <= Len(relay) /\ Len(relay) \in Nat
      /\ \A i \in a + 1 .. a + k : i \in Arrivals /\ inbox[e][i].envelope = relay[i]
      /\ V = {relay[i] : i \in a + 1 .. a + k}
  BY AppliedFrames
<1>3. /\ DOMAIN receipts[e] = 1 .. a
      /\ DOMAIN inbox[e] = a + 1 .. progress[e].downloaded
      /\ \A i \in 1 .. progress[e].downloaded : Retained(e, i) = relay[i]
  BY DEF ReplicaInv, CursorsAgree
<1>4. /\ DOMAIN facts = Env /\ DOMAIN outbox = Env /\ DOMAIN receipts = Env /\ DOMAIN inbox = Env
      /\ outbox = [d \in Env |-> outbox[d]]
      /\ head = [d \in Env |-> [f \in Env |-> head[d][f]]]
      /\ progress \in [Env -> ProgressRow] /\ progress[e].downloaded \in Nat
  BY DEF ReplicaInv, TablesTyped, ProgressRow
<1>5. /\ \A i \in DOMAIN inbox[e] : inbox[e][i] = [envelope |-> inbox[e][i].envelope, kind |-> inbox[e][i].kind,
                                                  state |-> inbox[e][i].state]
      /\ Arrivals = 1 .. Len(relay) /\ Arrivals' = Arrivals
  BY <1>1 DEF ReplicaInv, TablesTyped, Arrivals
<1> HIDE DEF V, k, future, stuck
<1>6. ASSUME NEW v \in V, v.fact.env = e
      PROVE  v \in Inventory(e) /\ v.fact \in Own(e)
  <2>1. PICK i \in Arrivals : v = relay[i]
    BY <1>2
  <2>2. v \in Inventory(e)
    BY <1>6, <2>1 DEF ReplicaInv, SealedOnce
  <2> QED BY <1>6, <2>2 DEF ReplicaInv, OwnSealed
<1>7. /\ \A d \in Env : head'[d][d] = head[d][d] /\ DOMAIN head'[d] = Env
      /\ head' = [d \in Env |-> [f \in Env |-> head'[d][f]]] /\ DOMAIN head' = Env
  <2>1. HeadAfter(head[e][e], e, V) = head[e][e]
    BY <1>6, OwnHeadStays
  <2>2. head'[e] = [f \in Env |-> HeadAfter(head[e][f], f, V)]
    BY <1>1, <1>4
  <2>3. head'[e][e] = head[e][e] /\ DOMAIN head'[e] = Env
    BY <2>1, <2>2
  <2>4. \A d \in Env : d # e => head'[d] = head[d]
    BY <1>1, <1>4
  <2>5. DOMAIN head' = Env /\ \A d \in Env : DOMAIN head[d] = Env
    BY <1>1, <1>4
  <2>6. head' = [d \in Env |-> [f \in Env |-> head'[d][f]]]
    BY <1>1, <1>4, <2>2
  <2> QED BY <2>3, <2>4, <2>5, <2>6
<1>8. /\ progress' \in [Env -> ProgressRow] /\ progress'[e].applied = a + k
      /\ progress'[e].downloaded = progress[e].downloaded /\ progress'[e].head = progress[e].head
      /\ \A d \in Env : d # e => progress'[d] = progress[d]
  <2>1. progress[e] = [state |-> progress[e].state, head |-> progress[e].head,
                       downloaded |-> progress[e].downloaded, applied |-> progress[e].applied]
        /\ progress[e].state \in ChannelState /\ progress[e].head \in Nat
    BY <1>4 DEF ProgressRow
  <2>2. progress'[e] = [state |-> progress[e].state, head |-> progress[e].head,
                        downloaded |-> progress[e].downloaded, applied |-> a + k]
    BY <1>1, <1>4, <2>1
  <2>3. a + k \in Nat
    BY <1>2
  <2>4. progress'[e] \in ProgressRow
    BY <1>4, <2>1, <2>2, <2>3 DEF ProgressRow
  <2>5. /\ progress' = [d \in Env |-> progress'[d]]
        /\ \A d \in Env : d # e => progress'[d] = progress[d]
    BY <1>1, <1>4
  <2>6. \A d \in Env : progress'[d] \in ProgressRow
    BY <1>4, <2>4, <2>5
  <2> QED BY <2>2, <2>5, <2>6
<1>9. /\ DOMAIN facts' = Env /\ facts'[e] = facts[e] \cup {v.fact : v \in V}
      /\ \A d \in Env : d # e => facts'[d] = facts[d]
      /\ DOMAIN outbox' = Env /\ outbox'[e] = outbox[e] \ V
      /\ outbox' = [d \in Env |-> outbox'[d]]
      /\ \A d \in Env : d # e => outbox'[d] = outbox[d]
  BY <1>1, <1>4
<1>10. /\ DOMAIN receipts' = Env /\ receipts'[e] = kept
       /\ \A d \in Env : d # e => receipts'[d] = receipts[d]
       /\ DOMAIN inbox' = Env /\ inbox'[e] = rest
       /\ \A d \in Env : d # e => inbox'[d] = inbox[d]
  <2> HIDE DEF kept, rest
  <2> QED BY <1>1, <1>4
<1>11. /\ DOMAIN kept = 1 .. a + k
       /\ \A i \in 1 .. a + k : kept[i] = relay[i]
       /\ \A i \in DOMAIN receipts[e] : kept[i] = receipts[e][i]
  <2>1. DOMAIN kept = DOMAIN receipts[e] \cup (a + 1 .. a + k)
    OBVIOUS
  <2>2. DOMAIN kept = 1 .. a + k
    <3> HIDE DEF kept
    <3> QED BY <1>2, <1>3, <2>1
  <2>3. \A i \in DOMAIN receipts[e] : kept[i] = receipts[e][i]
    OBVIOUS
  <2>4. ASSUME NEW i \in 1 .. a + k PROVE kept[i] = relay[i]
    <3>1. CASE i \in 1 .. a
      <4>1. Retained(e, i) = relay[i] /\ Retained(e, i) = receipts[e][i]
        BY <1>2, <1>3, <1>4, <3>1 DEF Retained
      <4> QED BY <1>3, <2>3, <3>1, <4>1
    <3>2. CASE i \notin 1 .. a
      <4>1. i \in a + 1 .. a + k /\ i \notin DOMAIN receipts[e]
        BY <1>2, <1>3, <3>2
      <4>2. kept[i] = inbox[e][i].envelope
        BY <4>1
      <4> QED BY <1>2, <4>1, <4>2
    <3> QED BY <3>1, <3>2
  <2> QED BY <2>2, <2>3, <2>4
<1>12. /\ DOMAIN rest = a + k + 1 .. progress[e].downloaded
       /\ \A i \in DOMAIN rest : /\ i \in DOMAIN inbox[e] /\ rest[i].envelope = inbox[e][i].envelope
                                 /\ rest[i] = [envelope |-> rest[i].envelope, kind |-> rest[i].kind, state |-> rest[i].state]
  <2>1. DOMAIN rest = DOMAIN inbox[e] \ (a + 1 .. a + k)
    OBVIOUS
  <2>2. DOMAIN rest = a + k + 1 .. progress[e].downloaded
    <3> HIDE DEF rest
    <3> QED BY <1>2, <1>3, <1>4, <2>1
  <2>3. ASSUME NEW i \in DOMAIN rest
        PROVE  /\ rest[i].envelope = inbox[e][i].envelope
               /\ rest[i] = [envelope |-> rest[i].envelope, kind |-> rest[i].kind, state |-> rest[i].state]
    <3>1. inbox[e][i] = [envelope |-> inbox[e][i].envelope, kind |-> inbox[e][i].kind, state |-> inbox[e][i].state]
      BY <1>5, <2>1
    <3>2. rest[i] = IF i \in stuck THEN [inbox[e][i] EXCEPT !.state = "quarantined"] ELSE inbox[e][i]
      BY <2>1
    <3>3. [inbox[e][i] EXCEPT !.state = "quarantined"]
            = [envelope |-> inbox[e][i].envelope, kind |-> inbox[e][i].kind, state |-> "quarantined"]
      BY <3>1
    <3> HIDE DEF rest
    <3> QED BY <3>1, <3>2, <3>3
  <2> QED BY <2>1, <2>2, <2>3
<1> HIDE DEF kept, rest
<1>13. /\ Own(e)' = Own(e)
       /\ \A d \in Env : Own(d)' = Own(d)
  <2>1. Own(e)' = Own(e)
    BY <1>6, <1>9 DEF Own
  <2> QED BY <1>9, <2>1 DEF Own
<1>14. /\ Inventory(e)' = Inventory(e) \cup V
       /\ \A d \in Env : d # e => Inventory(d)' = Inventory(d)
  <2>1. {receipts'[e][i] : i \in DOMAIN receipts'[e]} = {relay[i] : i \in 1 .. a + k}
    BY <1>10, <1>11
  <2>2. {receipts[e][i] : i \in DOMAIN receipts[e]} = {relay[i] : i \in 1 .. a}
    <3>1. \A i \in 1 .. a : receipts[e][i] = relay[i] /\ i \in 1 .. a + k
      BY <1>2, <1>3, <1>11
    <3> QED BY <1>3, <3>1
  <2>3. {relay[i] : i \in 1 .. a + k} = {relay[i] : i \in 1 .. a} \cup V
    <3>1. 1 .. a + k = (1 .. a) \cup (a + 1 .. a + k)
      BY <1>2
    <3> QED BY <1>2, <3>1
  <2>4. Inventory(e)' = (outbox[e] \ V) \cup {relay[i] : i \in 1 .. a + k}
    BY <1>9, <2>1 DEF Inventory
  <2>5. Inventory(e) = outbox[e] \cup {relay[i] : i \in 1 .. a}
    BY <2>2 DEF Inventory
  <2>6. Inventory(e)' = Inventory(e) \cup V
    BY <2>3, <2>4, <2>5
  <2> QED BY <1>9, <1>10, <2>6 DEF Inventory
<1>15. TablesTyped'
  <2>1. \A d \in Env : \A i \in DOMAIN inbox'[d] :
          inbox'[d][i] = [envelope |-> inbox'[d][i].envelope, kind |-> inbox'[d][i].kind, state |-> inbox'[d][i].state]
    <3>1. ASSUME NEW i \in DOMAIN inbox'[e]
          PROVE  inbox'[e][i] = [envelope |-> inbox'[e][i].envelope, kind |-> inbox'[e][i].kind, state |-> inbox'[e][i].state]
      <4>1. rest[i] = [envelope |-> rest[i].envelope, kind |-> rest[i].kind, state |-> rest[i].state]
        BY <1>10, <1>12
      <4> QED BY <1>10, <4>1
    <3>2. ASSUME NEW d \in Env, d # e, NEW i \in DOMAIN inbox'[d]
          PROVE  inbox'[d][i] = [envelope |-> inbox'[d][i].envelope, kind |-> inbox'[d][i].kind, state |-> inbox'[d][i].state]
      <4>1. inbox'[d] = inbox[d]
        BY <1>10, <3>2
      <4>2. \A j \in DOMAIN inbox[d] :
              inbox[d][j] = [envelope |-> inbox[d][j].envelope, kind |-> inbox[d][j].kind, state |-> inbox[d][j].state]
        BY DEF ReplicaInv, TablesTyped
      <4> QED BY <3>2, <4>1, <4>2
    <3> QED BY <3>1, <3>2
  <2>2. \A d \in Env : HeadRow(head'[d][d])
    BY <1>7 DEF ReplicaInv, TablesTyped
  <2> QED BY <1>1, <1>5, <1>7, <1>8, <1>9, <1>10, <2>1, <2>2 DEF ReplicaInv, TablesTyped
<1>16. OwnNumbered'
  BY <1>7, <1>13 DEF ReplicaInv, OwnNumbered
<1>17. OwnSealed'
  <2>1. \A d \in Env : outbox'[d] \subseteq outbox[d]
    BY <1>9
  <2>2. \A d \in Env : \A v \in Inventory(d)' : v.fact.env = d => v \in Inventory(d)
    BY <1>6, <1>14
  <2> QED BY <1>7, <1>13, <2>1, <2>2 DEF ReplicaInv, OwnSealed
<1>18. HeldSound'
  BY <1>1, <1>13 DEF ReplicaInv, HeldSound, PageHeld
<1>19. SealedOnce' /\ RelayChained'
  <2>1. \A i \in Arrivals : relay[i].fact.env \in Env
    BY DEF ReplicaInv, TablesTyped
  <2>2. SealedOnce'
    BY <1>1, <1>5, <1>14, <2>1 DEF ReplicaInv, SealedOnce
  <2> QED BY <1>1, <1>5, <2>2 DEF ReplicaInv, RelayChained
<1>20. CursorsOrdered'
  BY <1>2, <1>8 DEF ReplicaInv, CursorsOrdered
<1>21. CursorsAgree'
  <2>1. ASSUME NEW d \in Env, d # e
        PROVE  /\ DOMAIN receipts'[d] = 1 .. progress'[d].applied
               /\ DOMAIN inbox'[d] = progress'[d].applied + 1 .. progress'[d].downloaded
               /\ progress'[d].downloaded <= progress'[d].head /\ progress'[d].head <= Len(relay')
               /\ \A i \in 1 .. progress'[d].downloaded : Retained(d, i)' = relay'[i]
    BY <1>1, <1>8, <1>10, <2>1 DEF ReplicaInv, CursorsAgree, Retained
  <2>2. ASSUME NEW i \in 1 .. progress[e].downloaded PROVE Retained(e, i)' = relay[i]
    <3>1. CASE i \in 1 .. a + k
      BY <1>10, <1>11, <3>1 DEF Retained
    <3>2. CASE i \notin 1 .. a + k
      <4>1. i \in DOMAIN rest /\ i \notin DOMAIN receipts[e]
        BY <1>2, <1>3, <1>4, <1>12, <3>2
      <4>2. Retained(e, i)' = inbox[e][i].envelope /\ Retained(e, i) = inbox[e][i].envelope
        BY <1>10, <1>11, <1>12, <3>2, <4>1 DEF Retained
      <4> QED BY <1>3, <4>2
    <3> QED BY <3>1, <3>2
  <2>3. progress[e].downloaded <= progress[e].head /\ progress[e].head <= Len(relay)
    BY DEF ReplicaInv, CursorsAgree
  <2> QED BY <1>1, <1>8, <1>10, <1>11, <1>12, <2>1, <2>2, <2>3 DEF CursorsAgree
<1>22. HoldsShare'
  <2>1. {<<f.env, f.seq>> : f \in facts'[e]}
          = {<<f.env, f.seq>> : f \in facts[e]}
              \cup {<<relay[i].fact.env, relay[i].fact.seq>> : i \in a + 1 .. a + k}
    BY <1>2, <1>9
  <2>2. Share(e)' = Share(e) \cup {<<relay[i].fact.env, relay[i].fact.seq>> : i \in a + 1 .. a + k}
    <3>1. 1 .. a + k = (1 .. a) \cup (a + 1 .. a + k)
      BY <1>2
    <3> QED BY <1>1, <1>7, <1>8, <3>1 DEF Share
  <2>3. \A d \in Env : d # e => Share(d)' = Share(d)
    BY <1>1, <1>7, <1>8 DEF Share
  <2> QED BY <1>9, <2>1, <2>2, <2>3 DEF ReplicaInv, HoldsShare
<1>23. ReplicaInv'
  BY <1>15, <1>16, <1>17, <1>18, <1>19, <1>20, <1>21, <1>22 DEF ReplicaInv
<1>24. a + k = a \/ a + k \in a + 1 .. Len(relay)
  BY <1>2
<1> QED BY <1>7, <1>8, <1>14, <1>23, <1>24 DEF V, k

----------------------------------------------------------------------------
(* Every step. *)

LEMMA ReplicaNextInv == ReplicaInv /\ [Next]_vars => ReplicaInv'
<1> SUFFICES ASSUME ReplicaInv, [Next]_vars PROVE ReplicaInv'
  OBVIOUS
<1>1. CASE UNCHANGED vars
  BY <1>1, TickStep DEF vars
<1>2. CASE Next
  <2>1. bound' = bound /\ \A e \in Env : bound.passes[e] \subseteq Pass
    BY <1>2, SyncStoreAssumption DEF Next, ReplicaInv, TablesTyped
  <2>2. CASE Tick \/ \E i, closure \in Arrivals : PruneArrival(i, closure)
    BY <2>1, <2>2, TickStep
  <2>3. ASSUME NEW e \in Env, AppendFact(e) PROVE ReplicaInv'
    BY <2>1, <2>3, AppendFactStep
  <2>4. ASSUME NEW e \in Env, SendOutbox(e) PROVE ReplicaInv'
    BY <2>1, <2>4, SendOutboxStep DEF SendOutbox
  <2>5. ASSUME NEW e \in Env, NEW n \in 1 .. bound.page, ApplySyncBatch(e, n) PROVE ReplicaInv'
    BY <2>1, <2>5, ApplySyncBatchStep
  <2>6. ASSUME NEW e \in Env, AuthorityMove(e)
        PROVE  ReplicaInv'
    BY <2>1, <2>6, AuthoritySteps
  <2>7. ASSUME NEW e \in Env, DiscardStagedSync(e) PROVE ReplicaInv'
    BY <2>1, <2>7, DiscardStagedSyncStep
  <2>8. ASSUME NEW e \in Env, NEW p \in bound.passes[e], SealNext(e, p) PROVE ReplicaInv'
    BY <2>1, <2>8, SealNextStep
  <2>9. ASSUME NEW e \in Env, NEW p \in bound.passes[e], PersistSealedOutbox(e, p) PROVE ReplicaInv'
    BY <2>1, <2>9, PersistSealedOutboxStep
  <2>10. ASSUME NEW e \in Env, NEW p \in bound.passes[e], FetchPage(e, p) PROVE ReplicaInv'
    BY <2>1, <2>10, FetchPageStep
  <2>11. ASSUME NEW e \in Env, NEW p \in bound.passes[e], NEW exact \in BOOLEAN,
                StageSyncPage(e, p, exact)
         PROVE  ReplicaInv'
    BY <2>1, <2>11, StageSyncPageStep
  <2>12. ASSUME NEW e \in Env, NEW p \in bound.passes[e], Crash(e, p) PROVE ReplicaInv'
    BY <2>1, <2>12, CrashStep
  <2> QED BY <1>2, <2>2, <2>3, <2>4, <2>5, <2>6, <2>7, <2>8, <2>9, <2>10, <2>11, <2>12 DEF Next, AuthorityMove
<1> QED BY <1>1, <1>2

\* The stores, their processes' memory and the relay fit each other (sync.go's cursors,
\* heads, inbox, outbox and receipts).
THEOREM ReplicaInvariant == Spec => []ReplicaInv
<1> QED BY ReplicaInitInv, ReplicaNextInv, PTL DEF Spec

\* Receipts are the applied arrivals and the inbox the ones after them, as the relay
\* numbered them, whatever pages late processes bring (stageSyncPage, ApplySyncBatch).
THEOREM CursorsStayExact == Spec => []CursorsAgree
<1>1. ReplicaInv => CursorsAgree
  BY DEF ReplicaInv
<1> QED BY <1>1, ReplicaInvariant, PTL

\* A fact is published in one envelope, also when two processes seal it or one dies
\* between sealing and storing (NextUnsealedLocalFact, PersistSealedOutbox).
THEOREM FactsAreSealedOnce == Spec => []SealedOnce
<1>1. ReplicaInv => SealedOnce
  BY DEF ReplicaInv
<1> QED BY <1>1, ReplicaInvariant, PTL

----------------------------------------------------------------------------
(* The refinement. *)

\* The log's view of what a store holds, in the terms of its tables.
LEMMA HoldsIsShare == ReplicaInv => \A e \in Env : Log!Holds(e) = Share(e)
<1> SUFFICES ASSUME ReplicaInv, NEW e \in Env PROVE Log!Holds(e) = Share(e)
  OBVIOUS
<1>1. /\ progress[e].applied \in Nat /\ progress[e].downloaded \in Nat
      /\ progress[e].head \in Nat /\ Len(relay) \in Nat /\ Arrivals = 1 .. Len(relay)
  BY DEF ReplicaInv, TablesTyped, ProgressRow, Arrivals
<1>2. progress[e].applied <= Len(relay)
  BY <1>1 DEF ReplicaInv, CursorsOrdered, CursorsAgree
<1>3. \A i \in 1 .. progress[e].applied : i \in Arrivals
  BY <1>1, <1>2
<1> QED BY <1>3 DEF Log!Holds, Share

\* A store holds exactly its own facts and the arrivals it has applied.
THEOREM StoresHoldTheirShare == Spec => []HoldsItsShare
<1>1. ReplicaInv => HoldsItsShare
  BY HoldsIsShare DEF ReplicaInv, HoldsShare, HoldsItsShare
<1> QED BY <1>1, ReplicaInvariant, PTL

\* The log the relay's arrivals stand for.
Published == [i \in Arrivals |-> <<relay[i].fact.env, relay[i].fact.seq>>]

\* SendOutbox publishes the environment's next fact.
LEMMA SendPublishes ==
  ASSUME ReplicaInv, NEW e \in Env, NEW v \in outbox[e],
         \A i \in Arrivals : relay[i].fact # v.fact,
         v.fact.seq = 1 \/ \E i \in Arrivals : Digest(relay[i]) = v.prev,
         relay' = Append(relay, v), UNCHANGED <<head, progress>>
  PROVE  Log!Publish(e)
<1> DEFINE n == v.fact.seq
           N == Len(relay) + 1
<1>1. /\ Len(relay) \in Nat /\ Arrivals = 1 .. Len(relay) /\ Arrivals' = 1 .. N
      /\ \A i \in Arrivals : relay'[i] = relay[i]
      /\ relay'[N] = v
  <2>1. relay \in Seq({relay[i] : i \in DOMAIN relay})
    BY DEF ReplicaInv, TablesTyped, Arrivals
  <2> QED BY <2>1, ListGrows DEF Arrivals
<1>2. v \in Inventory(e) /\ v.fact \in Own(e) /\ v.fact.env = e /\ n \in 1 .. head[e][e].highest
  BY DEF ReplicaInv, OwnSealed, OwnNumbered, Inventory, Own
<1>3. head[e][e].highest \in Nat /\ n \in Nat /\ 1 <= n
  <2>1. head[e][e].highest \in Nat
    BY DEF ReplicaInv, TablesTyped, HeadRow
  <2> HIDE DEF n
  <2> QED BY <1>2, <2>1
<1>4. ASSUME NEW i \in Arrivals, relay[i].fact.env = e
      PROVE  relay[i].fact \in Own(e) /\ relay[i].fact.seq \in Nat /\ relay[i].fact.seq < n
  <2>1. relay[i].fact \in Own(e) /\ relay[i].fact.seq \in 1 .. head[e][e].highest
    BY <1>4 DEF ReplicaInv, SealedOnce, OwnSealed, OwnNumbered
  <2>2. ~ (n <= relay[i].fact.seq)
    <3> SUFFICES ASSUME n <= relay[i].fact.seq PROVE FALSE
      OBVIOUS
    <3>1. n \in 1 .. relay[i].fact.seq
      BY <1>3, <2>1
    <3>2. PICK j \in Arrivals : relay[j].fact.env = e /\ relay[j].fact.seq = n
      BY <1>4, <3>1 DEF ReplicaInv, RelayChained
    <3>3. relay[j].fact \in Own(e)
      BY <3>2 DEF ReplicaInv, SealedOnce, OwnSealed
    <3> QED BY <1>2, <3>2, <3>3 DEF ReplicaInv, OwnNumbered
  <2> QED BY <1>3, <2>1, <2>2
<1>5. n = 1 \/ \E i \in Arrivals : relay[i].fact.env = e /\ relay[i].fact.seq = n - 1
  BY <1>2 DEF Digest, ReplicaInv, OwnSealed, Follows
<1>6. /\ Len(Published) = Len(relay)
      /\ \A i \in Arrivals : Published[i] = <<relay[i].fact.env, relay[i].fact.seq>>
  <2>1. Published \in Seq({Published[i] : i \in Arrivals})
    BY <1>1 DEF Published
  <2> QED BY <1>1, <2>1 DEF Published
<1>7. Published' = Append(Published, <<e, n>>)
  <2>1. Published \in Seq({Published[i] : i \in Arrivals} \cup {<<e, n>>})
    BY <1>1 DEF Published
  <2>2. Published' = [i \in 1 .. N |-> IF i \in Arrivals THEN Published[i] ELSE <<e, n>>]
    <3>1. ASSUME NEW i \in 1 .. N
          PROVE  <<relay'[i].fact.env, relay'[i].fact.seq>>
                   = IF i \in Arrivals THEN Published[i] ELSE <<e, n>>
      <4>1. i \in Arrivals \/ i = N
        BY <1>1
      <4>2. N \notin Arrivals
        BY <1>1
      <4> QED BY <1>1, <1>2, <1>6, <4>1, <4>2
    <3> QED BY <1>1, <3>1 DEF Published
  <2> QED BY <1>1, <1>6, <2>1, <2>2
<1>8. Log!Published(e) = {i \in Arrivals : relay[i].fact.env = e}
  <2>1. Log!Published(e) = {i \in 1 .. Len(Published) : Published[i][1] = e}
    BY DEF Log!Published, Published
  <2> QED BY <1>1, <1>6, <2>1
<1>9. /\ \A i \in Log!Published(e) : Published[i][2] < n
      /\ n = 1 \/ \E i \in Log!Published(e) : Published[i][2] = n - 1
  BY <1>4, <1>5, <1>6, <1>8
<1> QED BY <1>2, <1>7, <1>9 DEF Log!Publish, Published

\* A step that neither writes, publishes nor applies a fact is none of the log.
LEMMA LogStays ==
  ASSUME \A d \in Env : head'[d][d].highest = head[d][d].highest,
         \A d \in Env : progress'[d].applied = progress[d].applied,
         relay' = relay
  PROVE  UNCHANGED Log!logVars
<1>1. UNCHANGED [d \in Env |-> head[d][d].highest]
  OBVIOUS
<1>2. UNCHANGED [d \in Env |-> progress[d].applied]
  OBVIOUS
<1>3. UNCHANGED [i \in Arrivals |-> <<relay[i].fact.env, relay[i].fact.seq>>]
  BY DEF Arrivals
<1> QED BY <1>1, <1>2, <1>3 DEF Log!logVars

\* AppendFact writes the environment's next fact.
LEMMA AppendWrites ==
  ASSUME ReplicaInv, NEW e \in Env, AppendFact(e), bound' = bound
  PROVE  Log!Write(e)
<1>1. /\ head'[e][e].highest = head[e][e].highest + 1
      /\ \A d \in Env : d # e => head'[d][d] = head[d][d]
  BY AppendFactStep
<1>2. progress' = progress /\ relay' = relay
  BY DEF AppendFact
<1>3. [d \in Env |-> head'[d][d].highest]
        = [[d \in Env |-> head[d][d].highest] EXCEPT ![e] = head[e][e].highest + 1]
  BY <1>1
<1> QED BY <1>2, <1>3 DEF Log!Write, Arrivals

\* ApplySyncBatch delivers the arrivals it applies, if there are any.
LEMMA ApplyDelivers ==
  ASSUME ReplicaInv, NEW e \in Env, NEW n \in 1 .. bound.page, ApplySyncBatch(e, n),
         bound' = bound
  PROVE  Log!Deliver(e) \/ UNCHANGED Log!logVars
<1>1. /\ \A d \in Env : head'[d][d] = head[d][d]
      /\ \/ progress'[e].applied = progress[e].applied
         \/ progress'[e].applied \in progress[e].applied + 1 .. Len(relay)
      /\ \A d \in Env : d # e => progress'[d] = progress[d]
  BY ApplySyncBatchStep
<1>2. relay' = relay
  BY DEF ApplySyncBatch
<1>3. CASE progress'[e].applied = progress[e].applied
  BY <1>1, <1>2, <1>3, LogStays
<1>4. CASE progress'[e].applied \in progress[e].applied + 1 .. Len(relay)
  <2> DEFINE m == progress'[e].applied
             log == [i \in Arrivals |-> <<relay[i].fact.env, relay[i].fact.seq>>]
  <2>1. [d \in Env |-> progress'[d].applied]
          = [[d \in Env |-> progress[d].applied] EXCEPT ![e] = m]
    BY <1>1
  <2>2. UNCHANGED [d \in Env |-> head[d][d].highest]
    BY <1>1
  <2>3. log' = log
    BY <1>2 DEF Arrivals
  <2>4. Len(log) = Len(relay)
    <3>1. Len(relay) \in Nat /\ Arrivals = 1 .. Len(relay)
      BY DEF ReplicaInv, TablesTyped, Arrivals
    <3>2. log \in Seq({log[i] : i \in Arrivals})
      BY <3>1
    <3> QED BY <3>1, <3>2
  <2>5. [d \in Env |-> progress[d].applied][e] = progress[e].applied
    OBVIOUS
  <2> QED BY <1>4, <2>1, <2>2, <2>3, <2>4, <2>5 DEF Log!Deliver
<1> QED BY <1>1, <1>3, <1>4

\* Storing a page and discarding a channel keep what is applied.
LEMMA CursorsKept ==
  ASSUME ReplicaInv, NEW e \in Env,
         \/ DiscardStagedSync(e)
         \/ \E p \in Pass, exact \in BOOLEAN : StageSyncPage(e, p, exact)
  PROVE  UNCHANGED Log!logVars
<1>1. progress \in [Env -> ProgressRow] /\ UNCHANGED <<head, relay>>
  BY DEF ReplicaInv, TablesTyped, DiscardStagedSync, StageSyncPage
<1>2. \A d \in Env : progress'[d].applied = progress[d].applied
  <2>1. CASE DiscardStagedSync(e)
    BY <1>1, <2>1 DEF DiscardStagedSync, Unattached
  <2>2. ASSUME NEW p \in Pass, NEW exact \in BOOLEAN, StageSyncPage(e, p, exact)
        PROVE  \A d \in Env : progress'[d].applied = progress[d].applied
    <3>1. PICK h, n : progress' = [progress EXCEPT ![e] =
            [state |-> @.state, applied |-> @.applied, downloaded |-> n, head |-> h]]
      BY <2>2 DEF StageSyncPage
    <3> QED BY <1>1, <3>1
  <2> QED BY <2>1, <2>2
<1> QED BY <1>1, <1>2, LogStays

\* Every step of the stores and the relay is a step of the log or none of it.
LEMMA LogStep == ReplicaInv /\ [Next]_vars => [Log!LogNext]_Log!logVars
<1> SUFFICES ASSUME ReplicaInv, [Next]_vars PROVE Log!LogNext \/ UNCHANGED Log!logVars
  OBVIOUS
<1> USE DEF storeVars
<1>1. CASE UNCHANGED vars
  BY <1>1, LogStays DEF vars
<1>2. CASE Next
  <2>1. bound' = bound /\ \A e \in Env : bound.passes[e] \subseteq Pass
    BY <1>2, SyncStoreAssumption DEF Next, ReplicaInv, TablesTyped
  <2>2. CASE Tick \/ \E i, closure \in Arrivals : PruneArrival(i, closure)
    BY <2>2, LogStays DEF Tick, PruneArrival
  <2>3. ASSUME NEW e \in Env, AppendFact(e) PROVE Log!LogNext
    BY <2>1, <2>3, AppendWrites DEF Log!LogNext
  <2>4. ASSUME NEW e \in Env, SendOutbox(e) PROVE Log!LogNext
    <3>1. Log!Publish(e)
      BY <2>4, SendPublishes DEF SendOutbox
    <3> QED BY <3>1 DEF Log!LogNext
  <2>5. ASSUME NEW e \in Env, NEW n \in 1 .. bound.page, ApplySyncBatch(e, n)
        PROVE  Log!LogNext \/ UNCHANGED Log!logVars
    <3>1. Log!Deliver(e) \/ UNCHANGED Log!logVars
      BY <2>1, <2>5, ApplyDelivers
    <3> QED BY <3>1 DEF Log!LogNext
  <2>6. ASSUME NEW e \in Env, AuthorityMove(e)
        PROVE  UNCHANGED Log!logVars
    BY <2>1, <2>6, AuthoritySteps, LogStays
  <2>7. ASSUME NEW e \in Env, DiscardStagedSync(e) PROVE UNCHANGED Log!logVars
    BY <2>7, CursorsKept
  <2>8. ASSUME NEW e \in Env, NEW p \in bound.passes[e],
               SealNext(e, p) \/ FetchPage(e, p) \/ Crash(e, p)
        PROVE  UNCHANGED Log!logVars
    <3>1. UNCHANGED <<head, progress, relay>>
      BY <2>8 DEF SealNext, FetchPage, Crash
    <3> QED BY <3>1, LogStays
  <2>9. ASSUME NEW e \in Env, NEW p \in bound.passes[e], PersistSealedOutbox(e, p)
        PROVE  UNCHANGED Log!logVars
    <3>1. \A d \in Env : head'[d][d].highest = head[d][d].highest
      BY <2>1, <2>9, PersistSealedOutboxStep
    <3>2. UNCHANGED <<progress, relay>>
      BY <2>9 DEF PersistSealedOutbox
    <3> QED BY <3>1, <3>2, LogStays
  <2>10. ASSUME NEW e \in Env, NEW p \in bound.passes[e], NEW exact \in BOOLEAN,
                StageSyncPage(e, p, exact)
         PROVE  UNCHANGED Log!logVars
    BY <2>1, <2>10, CursorsKept
  <2> QED BY <1>2, <2>2, <2>3, <2>4, <2>5, <2>6, <2>7, <2>8, <2>9, <2>10 DEF Next, AuthorityMove
<1> QED BY <1>1, <1>2

\* In the beginning nothing is written, published or delivered.
LEMMA LogStarts == Init => Log!LogInit
<1> SUFFICES ASSUME Init PROVE Log!LogInit
  OBVIOUS
<1>1. [d \in Env |-> head[d][d].highest] = [d \in Env |-> 0]
  BY DEF Init, NoHead
<1>2. [d \in Env |-> progress[d].applied] = [d \in Env |-> 0]
  BY DEF Init, Unattached
<1>3. [i \in Arrivals |-> <<relay[i].fact.env, relay[i].fact.seq>>] = <<>>
  BY DEF Init, Arrivals
<1> QED BY <1>1, <1>2, <1>3 DEF Log!LogInit

\* The stores and the relay implement the shared log: an environment's facts are
\* published in their order and once, a replica's part of the log only grows, and a
\* store holds just what it wrote and what it has applied.
THEOREM ReplicasImplementLog == Spec => ImplementsSharedLog
<1>1. Spec => Log!LogSpec
  <2> QED BY LogStarts, LogStep, ReplicaInvariant, PTL DEF Spec, Log!LogSpec
<1> QED BY <1>1, StoresHoldTheirShare, PTL DEF ImplementsSharedLog

----------------------------------------------------------------------------
(* What is staged is admitted.                                              *)
(*                                                                          *)
(* ReplicaInv speaks of one store and the relay.  What a frame meets when it *)
(* is applied depends on what its producer's store was when it was sealed,   *)
(* so AdmitInv ties every fact and envelope to its producer.                 *)

FactsOf(e, f) == {g \in facts[e] : g.env = f}
EnvelopesOf(e, f) == {v \in Inventory(e) : v.fact.env = f}

FactRow(f) ==
  /\ f = [env |-> f.env, seq |-> f.seq, wall |-> f.wall, logical |-> f.logical]
  /\ f.env \in Env /\ f.wall \in Nat /\ f.logical \in Nat

\* Whoever holds a fact, the environment that wrote it has it too.
FactsHaveHomes ==
  /\ now \in Nat
  /\ \A e \in Env : IsFiniteSet(facts[e])
  /\ \A e \in Env : \A f \in facts[e] : FactRow(f) /\ f \in facts[f.env]

\* Later facts of an environment have later clocks.
OwnOrdered ==
  \A e \in Env : \A f, g \in Own(e) : f.seq < g.seq => HybridTimeLess(f, g)

\* The registration of the project comes before everything else.
RegisteredFirst ==
  /\ \A e \in Env : facts[e] # {} => Folds(facts[e])
  /\ 1 \in Arrivals => relay[1].fact.env = 1 /\ relay[1].fact.seq = 1

\* The relay has a fact once, and a store one envelope of it.
RelayDistinct ==
  \A i, j \in Arrivals : relay[i].fact = relay[j].fact => i = j

OneEnvelope ==
  \A e \in Env : \A u, v \in Inventory(e) : u.fact = v.fact => u = v

\* u is the envelope v continues.
Precedes(u, v) ==
  u.fact.env = v.fact.env /\ u.fact.seq = v.fact.seq - 1 /\ Digest(u) = v.prev

RelayLinked ==
  \A i \in Arrivals :
    IF relay[i].fact.seq = 1 THEN relay[i].prev = NoDigest
    ELSE \E j \in Arrivals : j < i /\ Precedes(relay[j], relay[i])

InventoryLinked ==
  \A e \in Env : \A v \in Inventory(e) :
    IF v.fact.seq = 1 THEN v.prev = NoDigest ELSE \E u \in Inventory(e) : Precedes(u, v)

\* A nonce is used once: by an envelope that is stored somewhere, or by a process
\* that has sealed one.
Stored == {relay[i] : i \in Arrivals} \cup UNION {outbox[e] : e \in Env}

NoncesDistinct ==
  /\ \A u, v \in Stored : u.nonce = v.nonce => u = v
  /\ \A e \in Env, p \in Pass : held[e][p].job = "seal" =>
       /\ \A u \in Stored : u.nonce # held[e][p].envelope.nonce
       /\ \A d \in Env, q \in Pass :
            held[d][q].job = "seal" /\ held[d][q].envelope.nonce = held[e][p].envelope.nonce
              => d = e /\ q = p

\* A head is the last fact and the last envelope of its environment here; of
\* another environment there are only facts that came in envelopes.
HeadFits(e, f) ==
  LET h == head[e][f]
  IN  /\ HeadRow(h)
      /\ {g.seq : g \in FactsOf(e, f)} = 1 .. h.highest
      /\ \A g \in FactsOf(e, f) : g.seq = h.highest => g.wall = h.wall /\ g.logical = h.logical
      /\ {v.fact.seq : v \in EnvelopesOf(e, f)} = 1 .. h.sealed
      /\ \A v \in EnvelopesOf(e, f) : v.fact.seq = h.sealed => Digest(v) = h.digest
      /\ f # e => h.sealed = h.highest

HeadsFit == \A e, f \in Env : HeadFits(e, f)

AdmitInv ==
  /\ FactsHaveHomes
  /\ OwnOrdered
  /\ RegisteredFirst
  /\ RelayDistinct
  /\ OneEnvelope
  /\ RelayLinked
  /\ InventoryLinked
  /\ NoncesDistinct
  /\ HeadsFit

----------------------------------------------------------------------------
(* Lemmas about the relay and the inventories. *)

\* A set whose members are numbered 1 .. n by q, each number once, has n members.
LEMMA NumberedSet ==
  ASSUME NEW S, NEW n \in Nat, NEW q \in [S -> 1 .. n],
         \A x, y \in S : q[x] = q[y] => x = y,
         \A i \in 1 .. n : \E x \in S : q[x] = i
  PROVE  Cardinality(S) = n
<1>1. IsFiniteSet(1 .. n) /\ Cardinality(1 .. n) = n
  BY FS_Interval
<1>2. q \in Injection(S, 1 .. n) /\ q \in Surjection(S, 1 .. n)
  BY DEF Injection, IsInjective, Surjection
<1> QED BY <1>1, <1>2, FS_Injection

\* The order of hybrid clocks is transitive.
LEMMA ClocksOrdered ==
  ASSUME NEW f, NEW g, NEW h, HybridTimeLess(f, g), HybridTimeLess(g, h),
         f.wall \in Nat, g.wall \in Nat, h.wall \in Nat,
         f.logical \in Nat, g.logical \in Nat, h.logical \in Nat
  PROVE  HybridTimeLess(f, h)
BY DEF HybridTimeLess

\* A finite set of facts has one after which none comes (allocateEnvelopeV1).
LEMMA LatestFact ==
  ASSUME NEW S, IsFiniteSet(S), S # {},
         \A f \in S : f.wall \in Nat /\ f.logical \in Nat
  PROVE  Latest(S) \in S
<1>1. PICK b \in Bijection(1 .. Cardinality(S), S) : Cardinality(S) \in Nat
  BY FS_CardinalityType DEF ExistsBijection
<1> DEFINE n == Cardinality(S)
           Top(i, j) == \A l \in 1 .. j : ~ HybridTimeLess(b[i], b[l])
           bad == {j \in 1 .. n : ~ \E i \in 1 .. j : Top(i, j)}
<1>2. /\ \A i \in 1 .. n : b[i] \in S /\ b[i].wall \in Nat /\ b[i].logical \in Nat
      /\ \A f \in S : \E i \in 1 .. n : b[i] = f
  BY <1>1 DEF Bijection, Injection, Surjection
<1>3. n \in Nat /\ n # 0
  <2>1. \E i \in 1 .. n : TRUE
    BY <1>2
  <2> QED BY <1>1, <2>1
<1> HIDE DEF n
<1>4. bad = {}
  <2> SUFFICES ASSUME bad # {} PROVE FALSE
    OBVIOUS
  <2>1. bad \in SUBSET Nat
    OBVIOUS
  <2>2. PICK m \in bad : \A s \in bad : m <= s
    <3> HIDE DEF bad
    <3> QED BY <2>1, LeastMember
  <2>3. m \in 1 .. n /\ m \in Nat
    BY <1>3
  <2>4. CASE m = 1
    <3>1. ~ HybridTimeLess(b[1], b[1])
      BY <1>2, <2>3, <2>4 DEF HybridTimeLess
    <3>2. Top(1, 1)
      BY <3>1
    <3> QED BY <2>2, <2>4, <3>2
  <2>5. CASE m # 1
    <3>1. m - 1 \in 1 .. n /\ m - 1 \notin bad
      <4>1. m - 1 \in 1 .. n /\ ~ (m <= m - 1)
        BY <1>3, <2>3, <2>5
      <4> HIDE DEF bad
      <4> QED BY <2>2, <4>1
    <3>2. PICK i \in 1 .. m - 1 : Top(i, m - 1)
      BY <3>1
    <3>3. i \in 1 .. n /\ i \in 1 .. m /\ m \in 1 .. m
      BY <1>3, <2>3
    <3>4. \A l \in 1 .. m : l \in 1 .. n /\ (l = m \/ l \in 1 .. m - 1)
      BY <1>3, <2>3
    <3>5. CASE HybridTimeLess(b[i], b[m])
      <4>1. ASSUME NEW l \in 1 .. m PROVE ~ HybridTimeLess(b[m], b[l])
        <5>1. CASE l = m
          BY <1>2, <2>3, <5>1 DEF HybridTimeLess
        <5>2. CASE l \in 1 .. m - 1
          <6>1. ~ HybridTimeLess(b[i], b[l])
            BY <3>2, <5>2
          <6>2. /\ b[l].wall \in Nat /\ b[l].logical \in Nat
                /\ b[m].wall \in Nat /\ b[m].logical \in Nat
                /\ b[i].wall \in Nat /\ b[i].logical \in Nat
            BY <1>2, <2>3, <3>3, <3>4
          <6> QED BY <3>5, <6>1, <6>2, ClocksOrdered
        <5> QED BY <3>4, <5>1, <5>2
      <4>2. Top(m, m)
        BY <4>1
      <4> QED BY <2>2, <3>3, <4>2
    <3>6. CASE ~ HybridTimeLess(b[i], b[m])
      <4>1. Top(i, m)
        BY <3>2, <3>4, <3>6
      <4> QED BY <2>2, <3>3, <4>1
    <3> QED BY <3>5, <3>6
  <2> QED BY <2>4, <2>5
<1>5. n \in 1 .. n
  BY <1>3
<1>6. PICK i \in 1 .. n : Top(i, n)
  BY <1>4, <1>5
<1>7. b[i] \in S /\ \A g \in S : ~ HybridTimeLess(b[i], g)
  BY <1>2, <1>6
<1> QED BY <1>7 DEF Latest

\* An environment and a number name one fact, wherever it is.
LEMMA SameNumber ==
  ASSUME ReplicaInv, FactsHaveHomes, NEW d \in Env, NEW e \in Env,
         NEW f \in facts[d], NEW g \in facts[e], f.env = g.env, f.seq = g.seq
  PROVE  f = g
<1>1. f.env \in Env /\ f \in facts[f.env] /\ g \in facts[f.env]
  BY DEF FactsHaveHomes, FactRow
<1>2. f \in Own(f.env) /\ g \in Own(f.env)
  BY <1>1 DEF Own
<1> QED BY <1>1, <1>2 DEF ReplicaInv, OwnNumbered

\* What the relay has numbered comes from its producer.
LEMMA ArrivalHome ==
  ASSUME ReplicaInv, NEW i \in Arrivals
  PROVE  LET v == relay[i]
         IN  /\ v.fact.env \in Env /\ v.fact \in Own(v.fact.env) /\ v.fact \in facts[v.fact.env]
             /\ v.fact.seq \in Nat /\ 1 <= v.fact.seq
             /\ v.fact.seq <= head[v.fact.env][v.fact.env].highest
             /\ v \in Inventory(v.fact.env)
<1> DEFINE f == relay[i].fact.env
<1>1. f \in Env /\ relay[i] \in Inventory(f)
  BY DEF ReplicaInv, TablesTyped, SealedOnce
<1>2. relay[i].fact \in Own(f)
  BY <1>1 DEF ReplicaInv, OwnSealed
<1>3. relay[i].fact.seq \in 1 .. head[f][f].highest /\ head[f][f].highest \in Nat
  BY <1>1, <1>2 DEF ReplicaInv, OwnNumbered, TablesTyped, HeadRow
<1>4. relay[i].fact.seq \in Nat /\ 1 <= relay[i].fact.seq /\ relay[i].fact.seq <= head[f][f].highest
  <2> DEFINE s == relay[i].fact.seq
             n == head[f][f].highest
  <2>1. s \in 1 .. n /\ n \in Nat
    BY <1>3
  <2> HIDE DEF s, n
  <2> SUFFICES s \in Nat /\ 1 <= s /\ s <= n
    BY DEF s, n
  <2> QED BY <2>1
<1> QED BY <1>1, <1>2, <1>4 DEF Own

\* A store remembers what waits in its outbox and the arrivals it has applied.
LEMMA InventoryRows ==
  ASSUME ReplicaInv, NEW e \in Env
  PROVE  /\ Inventory(e) = outbox[e] \cup {relay[i] : i \in 1 .. progress[e].applied}
         /\ \A i \in 1 .. progress[e].applied : i \in Arrivals
         /\ \A v \in outbox[e] : v.fact \in Own(e) /\ v.fact.env = e
         /\ progress[e].applied \in Nat /\ progress[e].downloaded \in Nat
         /\ progress[e].applied <= progress[e].downloaded
         /\ progress[e].downloaded <= Len(relay)
         /\ Len(relay) \in Nat /\ Arrivals = 1 .. Len(relay)
<1> DEFINE a == progress[e].applied
<1>1. /\ a \in Nat /\ progress[e].downloaded \in Nat /\ progress[e].head \in Nat
      /\ Len(relay) \in Nat /\ Arrivals = 1 .. Len(relay)
  BY DEF ReplicaInv, TablesTyped, ProgressRow, Arrivals
<1>2. /\ a <= progress[e].downloaded /\ progress[e].downloaded <= progress[e].head
      /\ progress[e].head <= Len(relay) /\ DOMAIN receipts[e] = 1 .. a
      /\ \A i \in 1 .. progress[e].downloaded : Retained(e, i) = relay[i]
  BY DEF ReplicaInv, CursorsAgree, CursorsOrdered
<1>3. \A i \in 1 .. a : i \in Arrivals /\ i \in 1 .. progress[e].downloaded
  <2> HIDE DEF a
  <2> QED BY <1>1, <1>2
<1>4. \A i \in 1 .. a : receipts[e][i] = relay[i]
  BY <1>2, <1>3 DEF Retained
<1>5. Inventory(e) = outbox[e] \cup {relay[i] : i \in 1 .. a}
  BY <1>2, <1>4 DEF Inventory
<1>6. \A v \in outbox[e] : v.fact \in Own(e) /\ v.fact.env = e
  BY DEF ReplicaInv, OwnSealed, Own
<1>7. progress[e].downloaded <= Len(relay)
  <2> HIDE DEF a
  <2> QED BY <1>1, <1>2
<1> QED BY <1>1, <1>2, <1>3, <1>5, <1>6, <1>7

\* The facts of the envelopes a store remembers are where they were written.
LEMMA InventoryHome ==
  ASSUME ReplicaInv, NEW e \in Env, NEW v \in Inventory(e)
  PROVE  v.fact.env \in Env /\ v.fact \in facts[v.fact.env] /\ v \in Stored
<1>1. CASE v \in outbox[e]
  BY <1>1, InventoryRows DEF Own, Stored
<1>2. ASSUME NEW i \in 1 .. progress[e].applied, v = relay[i]
      PROVE  v.fact.env \in Env /\ v.fact \in facts[v.fact.env] /\ v \in Stored
  <2>1. i \in Arrivals
    BY InventoryRows
  <2> QED BY <1>2, <2>1, ArrivalHome DEF Stored
<1> QED BY <1>1, <1>2, InventoryRows

\* An envelope a store remembers of a fact is the one the relay has numbered.
LEMMA InventoryIsRelay ==
  ASSUME ReplicaInv, AdmitInv, NEW e \in Env, NEW u \in Inventory(e), NEW i \in Arrivals,
         u.fact.env = relay[i].fact.env, u.fact.seq = relay[i].fact.seq
  PROVE  u = relay[i]
<1>1. u.fact = relay[i].fact
  <2>1. u.fact.env \in Env /\ u.fact \in facts[u.fact.env]
    BY InventoryHome
  <2>2. relay[i].fact \in facts[u.fact.env]
    BY ArrivalHome
  <2> QED BY <2>1, <2>2, SameNumber DEF AdmitInv
<1>2. CASE u \in outbox[e]
  <2>1. relay[i].fact.env = e
    BY <1>1, <1>2, InventoryRows
  <2>2. relay[i] \in Inventory(e)
    BY <2>1, ArrivalHome
  <2> QED BY <1>1, <2>2 DEF AdmitInv, OneEnvelope
<1>3. ASSUME NEW j \in 1 .. progress[e].applied, u = relay[j]
      PROVE  u = relay[i]
  <2>1. j \in Arrivals
    BY InventoryRows
  <2> QED BY <1>1, <1>3, <2>1 DEF AdmitInv, RelayDistinct
<1> QED BY <1>2, <1>3, InventoryRows

\* Two arrivals of one environment with one number are the same arrival.
LEMMA ArrivalsDiffer ==
  ASSUME ReplicaInv, AdmitInv, NEW i \in Arrivals, NEW j \in Arrivals,
         relay[i].fact.env = relay[j].fact.env, relay[i].fact.seq = relay[j].fact.seq
  PROVE  i = j
<1>1. relay[i].fact = relay[j].fact
  <2>1. /\ relay[i].fact.env \in Env /\ relay[i].fact \in facts[relay[i].fact.env]
        /\ relay[j].fact \in facts[relay[i].fact.env]
    BY ArrivalHome
  <2> QED BY <2>1, SameNumber DEF AdmitInv
<1> QED BY <1>1 DEF AdmitInv, RelayDistinct

\* The numbers an environment has at the relay before arrival m.
Before(f, m) == {relay[i].fact.seq : i \in {j \in 1 .. m - 1 : relay[j].fact.env = f}}

\* When an arrival comes the relay has just the facts its producer wrote before it.
LEMMA ArrivalsBefore ==
  ASSUME ReplicaInv, AdmitInv, NEW m \in Arrivals
  PROVE  Before(relay[m].fact.env, m) = 1 .. relay[m].fact.seq - 1
<1> DEFINE f == relay[m].fact.env
           n == relay[m].fact.seq
<1>1. Len(relay) \in Nat /\ Arrivals = 1 .. Len(relay) /\ n \in Nat /\ 1 <= n /\ m \in Nat
  <2>1. Len(relay) \in Nat /\ Arrivals = 1 .. Len(relay)
    BY DEF ReplicaInv, TablesTyped, Arrivals
  <2> QED BY <2>1, ArrivalHome
<1>2. ASSUME NEW s \in 1 .. n - 1 PROVE s \in Before(f, m)
  <2>1. s \in 1 .. n /\ s # n
    <3> HIDE DEF n
    <3> QED BY <1>1
  <2>2. PICK j \in Arrivals : j <= m /\ relay[j].fact.env = f /\ relay[j].fact.seq = s
    BY <2>1 DEF ReplicaInv, RelayChained
  <2>3. j # m
    BY <2>1, <2>2
  <2>4. j \in 1 .. m - 1
    BY <1>1, <2>2, <2>3
  <2> QED BY <2>2, <2>4 DEF Before
<1>3. ASSUME NEW i \in 1 .. m - 1, relay[i].fact.env = f PROVE relay[i].fact.seq \in 1 .. n - 1
  <2>1. i \in Arrivals /\ i # m /\ i < m
    BY <1>1
  <2> DEFINE s == relay[i].fact.seq
  <2>2. s \in Nat /\ 1 <= s
    BY <2>1, ArrivalHome
  <2>3. s # n
    BY <1>3, <2>1, ArrivalsDiffer
  <2>4. ~ (n <= s)
    <3> SUFFICES ASSUME n <= s PROVE FALSE
      OBVIOUS
    <3>1. n \in 1 .. s
      <4> HIDE DEF n, s
      <4> QED BY <1>1, <2>2
    <3>2. PICK j \in Arrivals : j <= i /\ relay[j].fact.env = f /\ relay[j].fact.seq = n
      BY <1>3, <2>1, <3>1 DEF ReplicaInv, RelayChained
    <3>3. j = m
      BY <3>2, ArrivalsDiffer
    <3> QED BY <1>1, <2>1, <3>2, <3>3
  <2> HIDE DEF n, s
  <2> SUFFICES s \in 1 .. n - 1
    BY DEF n, s
  <2> QED BY <1>1, <2>2, <2>4
<1>4. Before(f, m) = 1 .. n - 1
  <2> HIDE DEF n, f
  <2> QED BY <1>2, <1>3 DEF Before
<1> QED BY <1>4

----------------------------------------------------------------------------
(* Every step keeps what admission rests on. *)

LEMMA AdmitInitInv == Init => AdmitInv
<1> SUFFICES ASSUME Init PROVE AdmitInv
  OBVIOUS
<1> USE DEF Init
<1>1. Arrivals = {} /\ \A e \in Env : facts[e] = {} /\ outbox[e] = {} /\ Own(e) = {} /\ Inventory(e) = {}
  BY DEF Arrivals, Own, Inventory
<1>2. FactsHaveHomes
  BY <1>1, FS_EmptySet DEF FactsHaveHomes
<1>3. OwnOrdered /\ RegisteredFirst /\ RelayDistinct /\ OneEnvelope /\ RelayLinked /\ InventoryLinked
  BY <1>1 DEF OwnOrdered, RegisteredFirst, RelayDistinct, OneEnvelope, RelayLinked, InventoryLinked
<1>4. NoncesDistinct
  <2>1. Stored = {}
    BY <1>1 DEF Stored
  <2>2. \A e \in Env, p \in Pass : held[e][p].job = "idle"
    BY DEF Idle
  <2> QED BY <2>1, <2>2 DEF NoncesDistinct
<1>5. HeadsFit
  <2> SUFFICES ASSUME NEW e \in Env, NEW f \in Env PROVE HeadFits(e, f)
    BY DEF HeadsFit
  <2>1. FactsOf(e, f) = {} /\ EnvelopesOf(e, f) = {}
    BY <1>1 DEF FactsOf, EnvelopesOf
  <2>2. head[e][f] = NoHead /\ HeadRow(NoHead)
    BY DEF HeadRow, NoHead
  <2> QED BY <2>1, <2>2 DEF HeadFits, NoHead
<1> QED BY <1>2, <1>3, <1>4, <1>5 DEF AdmitInv

\* Steps that leave the facts, the heads, the envelopes and the relay, and seal nothing.
LEMMA AdmitKept ==
  ASSUME AdmitInv, UNCHANGED <<facts, head, outbox, receipts, relay>>, now' \in Nat,
         \A e \in Env, p \in Pass : held'[e][p].job = "seal" => held'[e][p] = held[e][p]
  PROVE  AdmitInv'
<1>1. /\ Arrivals' = Arrivals /\ \A e : Own(e)' = Own(e) /\ Inventory(e)' = Inventory(e)
      /\ Stored' = Stored
      /\ \A e, f : FactsOf(e, f)' = FactsOf(e, f) /\ EnvelopesOf(e, f)' = EnvelopesOf(e, f)
  BY DEF Arrivals, Own, Inventory, Stored, FactsOf, EnvelopesOf
<1>2. FactsHaveHomes' /\ OwnOrdered' /\ RegisteredFirst'
  BY <1>1 DEF AdmitInv, FactsHaveHomes, OwnOrdered, RegisteredFirst
<1>3. RelayDistinct' /\ OneEnvelope' /\ RelayLinked' /\ InventoryLinked'
  BY <1>1 DEF AdmitInv, RelayDistinct, OneEnvelope, RelayLinked, InventoryLinked
<1>4. NoncesDistinct'
  BY <1>1 DEF AdmitInv, NoncesDistinct
<1>5. HeadsFit'
  <2>1. \A e, f : HeadFits(e, f)' = HeadFits(e, f)
    BY <1>1 DEF HeadFits
  <2> QED BY <2>1 DEF AdmitInv, HeadsFit
<1> QED BY <1>2, <1>3, <1>4, <1>5 DEF AdmitInv

\* A process's memory is replaced by something that is no sealed envelope.
LEMMA HeldDropped ==
  ASSUME ReplicaInv, NEW e \in Env, NEW p \in Pass, NEW x, x.job # "seal",
         held' = [held EXCEPT ![e][p] = x]
  PROVE  \A d \in Env, q \in Pass : held'[d][q].job = "seal" => held'[d][q] = held[d][q]
BY DEF ReplicaInv, TablesTyped

\* The steps in which nothing is written, sealed, sent or applied.
LEMMA QuietSteps ==
  ASSUME ReplicaInv, AdmitInv, bound' = bound,
         \/ Tick \/ UNCHANGED vars \/ \E i, closure \in Arrivals : PruneArrival(i, closure)
         \/ \E e \in Env :
              \/ AuthorityMove(e) \/ DiscardStagedSync(e)
              \/ \E p \in Pass :
                   \/ FetchPage(e, p) \/ Crash(e, p)
                   \/ \E exact \in BOOLEAN : StageSyncPage(e, p, exact)
  PROVE  AdmitInv'
<1>1. now \in Nat
  BY DEF AdmitInv, FactsHaveHomes
<1>2. CASE Tick \/ UNCHANGED vars \/ \E i, closure \in Arrivals : PruneArrival(i, closure)
  <2>1. UNCHANGED <<facts, head, outbox, receipts, relay, held>> /\ now' \in Nat
    BY <1>1, <1>2 DEF Tick, PruneArrival, vars, storeVars
  <2> QED BY <2>1, AdmitKept
<1>3. ASSUME NEW e \in Env, AuthorityMove(e) \/ DiscardStagedSync(e)
      PROVE  AdmitInv'
  <2>1. UNCHANGED <<now, facts, head, outbox, receipts, relay, held>>
    BY <1>3, MovesKeep DEF DiscardStagedSync
  <2> QED BY <1>1, <2>1, AdmitKept
<1>4. ASSUME NEW e \in Env, NEW p \in Pass,
             \/ FetchPage(e, p) \/ Crash(e, p)
             \/ \E exact \in BOOLEAN : StageSyncPage(e, p, exact)
      PROVE  AdmitInv'
  <2>1. UNCHANGED <<now, facts, head, outbox, receipts, relay>>
    BY <1>4 DEF FetchPage, Crash, StageSyncPage, storeVars
  <2>2. \E x : x.job # "seal" /\ held' = [held EXCEPT ![e][p] = x]
    <3>1. CASE FetchPage(e, p)
      <4> DEFINE y == [job |-> "page", after |-> progress[e].downloaded, head |-> Len(relay),
                       frames |-> SubSeq(relay, progress[e].downloaded + 1,
                                         Min({progress[e].downloaded + bound.page, Len(relay)})),
                       pruned |-> pruned]
      <4>1. held' = [held EXCEPT ![e][p] = y] /\ y.job = "page"
        BY <3>1 DEF FetchPage
      <4> HIDE DEF y
      <4> QED BY <4>1
    <3>2. CASE Crash(e, p) \/ \E exact \in BOOLEAN : StageSyncPage(e, p, exact)
      BY <3>2 DEF Crash, StageSyncPage, Idle
    <3> QED BY <1>4, <3>1, <3>2
  <2> QED BY <1>1, <2>1, <2>2, HeldDropped, AdmitKept
<1> QED BY <1>2, <1>3, <1>4

\* appendFactV1 writes a fact that comes after what the environment wrote before.
LEMMA AppendFactAdmits ==
  ASSUME ReplicaInv, AdmitInv, NEW e \in Env, AppendFact(e), bound' = bound
  PROVE  AdmitInv'
<1> DEFINE h == head[e][e]
           f == AllocateEnvelope(e)
<1>1. /\ ExtendsHead(h, f) /\ facts' = [facts EXCEPT ![e] = @ \cup {f}]
      /\ head' = [head EXCEPT ![e][e] = AdvanceHead(@, f)]
      /\ UNCHANGED <<now, outbox, receipts, held, relay>>
      /\ AdmitFact(e)
  BY DEF AppendFact
<1>2. /\ DOMAIN facts = Env /\ DOMAIN head = Env /\ DOMAIN head[e] = Env
      /\ bound.offset[e] \in Nat /\ now \in Nat
  BY SyncStoreAssumption DEF ReplicaInv, TablesTyped, AdmitInv, FactsHaveHomes
<1>3. HeadFits(e, e) /\ HeadRow(h) /\ h.highest \in Nat /\ h.sealed \in Nat /\ h.sealed <= h.highest
  BY DEF AdmitInv, HeadsFit, HeadFits, HeadRow
<1>4. FactRow(f) /\ f.env = e /\ f.seq = h.highest + 1
  <2>1. Clock(e) \in Nat
    BY <1>2 DEF Clock
  <2>2. facts[e] # {} => Latest(facts[e]).wall \in Nat /\ Latest(facts[e]).logical \in Nat
    <3> SUFFICES ASSUME facts[e] # {}
                 PROVE  Latest(facts[e]).wall \in Nat /\ Latest(facts[e]).logical \in Nat
      OBVIOUS
    <3>1. IsFiniteSet(facts[e]) /\ \A g \in facts[e] : g.wall \in Nat /\ g.logical \in Nat
      BY DEF AdmitInv, FactsHaveHomes, FactRow
    <3>2. Latest(facts[e]) \in facts[e]
      BY <3>1, LatestFact
    <3> QED BY <3>1, <3>2
  <2>3. \E s, w, l : /\ w \in Nat /\ l \in Nat
                    /\ f = [env |-> e, seq |-> s, wall |-> w, logical |-> l]
    <3> DEFINE last == Latest(facts[e])
    <3>1. \/ \E s : f = [env |-> e, seq |-> s, wall |-> Clock(e), logical |-> 0]
          \/ /\ facts[e] # {}
             /\ \E s : f = [env |-> e, seq |-> s, wall |-> last.wall, logical |-> last.logical + 1]
      BY DEF AllocateEnvelope
    <3>2. facts[e] # {} => last.wall \in Nat /\ last.logical + 1 \in Nat
      BY <2>2
    <3> HIDE DEF last, f
    <3> QED BY <2>1, <3>1, <3>2
  <2>4. FactRow(f) /\ f.env = e
    <3> HIDE DEF f
    <3> QED BY <2>3 DEF FactRow
  <2> QED BY <1>1, <2>4 DEF ExtendsHead
<1> HIDE DEF f
<1>5. /\ facts'[e] = facts[e] \cup {f} /\ \A d \in Env : d # e => facts'[d] = facts[d]
      /\ Own(e)' = Own(e) \cup {f} /\ \A d \in Env : d # e => Own(d)' = Own(d)
      /\ Arrivals' = Arrivals /\ Stored' = Stored
      /\ \A d : Inventory(d)' = Inventory(d)
      /\ \A d, g : EnvelopesOf(d, g)' = EnvelopesOf(d, g)
  BY <1>1, <1>2, <1>4 DEF Own, Arrivals, Stored, Inventory, EnvelopesOf
<1>6. FactsHaveHomes'
  <2>1. \A d \in Env : IsFiniteSet(facts'[d])
    <3>1. IsFiniteSet(facts[e]) /\ \A d \in Env : IsFiniteSet(facts[d])
      BY DEF AdmitInv, FactsHaveHomes
    <3>2. IsFiniteSet(facts[e] \cup {f})
      BY <3>1, FS_AddElement
    <3> QED BY <1>5, <3>1, <3>2
  <2>2. \A d \in Env : facts[d] \subseteq facts'[d]
    BY <1>5
  <2>3. \A d \in Env : \A g \in facts'[d] : FactRow(g) /\ g \in facts'[g.env]
    <3>1. ASSUME NEW d \in Env, NEW g \in facts[d] PROVE FactRow(g) /\ g \in facts'[g.env]
      <4>1. FactRow(g) /\ g \in facts[g.env] /\ g.env \in Env
        BY <3>1 DEF AdmitInv, FactsHaveHomes, FactRow
      <4> QED BY <2>2, <4>1
    <3> QED BY <1>4, <1>5, <3>1
  <2> QED BY <1>1, <1>2, <2>1, <2>3 DEF FactsHaveHomes
<1>7. /\ \A g \in Own(e) : g \in FactsOf(e, e) /\ g.seq \in 1 .. h.highest
      /\ \A s \in 1 .. h.highest : \E g \in FactsOf(e, e) : g.seq = s
      /\ FactsOf(e, e) = Own(e)
      /\ \A g \in Own(e) : g.seq = h.highest => g.wall = h.wall /\ g.logical = h.logical
  BY <1>3 DEF HeadFits, Own, FactsOf
<1>8. OwnOrdered'
  <2>1. ASSUME NEW g \in Own(e) PROVE HybridTimeLess(g, f)
    <3>1. g.seq \in 1 .. h.highest /\ h.highest # 0 /\ h.highest \in 1 .. h.highest
      BY <1>3, <1>7
    <3>2. PICK l \in Own(e) : l.seq = h.highest
      BY <1>7, <3>1
    <3>3. HybridTimeLess(l, f)
      BY <1>1, <1>7, <3>1, <3>2 DEF ExtendsHead, HybridTimeLess
    <3>4. /\ g.wall \in Nat /\ g.logical \in Nat /\ l.wall \in Nat /\ l.logical \in Nat
          /\ f.wall \in Nat /\ f.logical \in Nat
      BY <1>4 DEF AdmitInv, FactsHaveHomes, FactRow, Own
    <3>5. CASE g.seq = h.highest
      <4>1. g = l
        BY <3>2, <3>5 DEF ReplicaInv, OwnNumbered
      <4> QED BY <3>3, <4>1
    <3>6. CASE g.seq # h.highest
      <4>1. g.seq < l.seq
        BY <1>3, <3>1, <3>2, <3>6
      <4>2. HybridTimeLess(g, l)
        BY <4>1 DEF AdmitInv, OwnOrdered
      <4> QED BY <3>3, <3>4, <4>2, ClocksOrdered
    <3> QED BY <3>5, <3>6
  <2>2. \A g \in Own(e) : ~ (f.seq < g.seq)
    BY <1>3, <1>4, <1>7
  <2>3. ~ (f.seq < f.seq)
    BY <1>3, <1>4
  <2> QED BY <1>5, <2>1, <2>2, <2>3 DEF AdmitInv, OwnOrdered
<1>9. RegisteredFirst'
  <2>1. Folds(facts'[e])
    <3>1. CASE facts[e] = {}
      <4>1. e = 1
        BY <1>1, <3>1 DEF AdmitFact
      <4>2. h.highest = 0
        <5>1. FactsOf(e, e) = {}
          BY <3>1 DEF FactsOf
        <5> QED BY <1>3, <1>7, <5>1
      <4> QED BY <1>4, <1>5, <4>1, <4>2 DEF Folds
    <3>2. CASE facts[e] # {}
      BY <1>5, <3>2 DEF AdmitInv, RegisteredFirst, Folds
    <3> QED BY <3>1, <3>2
  <2>2. \A d \in Env : facts'[d] # {} => Folds(facts'[d])
    BY <1>5, <2>1 DEF AdmitInv, RegisteredFirst
  <2> QED BY <1>1, <1>5, <2>2 DEF AdmitInv, RegisteredFirst
<1>10. RelayDistinct' /\ OneEnvelope' /\ RelayLinked' /\ InventoryLinked' /\ NoncesDistinct'
  BY <1>1, <1>5 DEF AdmitInv, RelayDistinct, OneEnvelope, RelayLinked, InventoryLinked, NoncesDistinct
<1>11. HeadsFit'
  <2>1. head'[e][e] = [highest |-> f.seq, wall |-> f.wall, logical |-> f.logical,
                       sealed |-> h.sealed, digest |-> h.digest]
        /\ \A d, g \in Env : <<d, g>> # <<e, e>> => head'[d][g] = head[d][g]
    <3>1. head'[e][e] = AdvanceHead(h, f)
      BY <1>1, <1>2
    <3>2. \A d, g \in Env : <<d, g>> # <<e, e>> => head'[d][g] = head[d][g]
      BY <1>1 DEF ReplicaInv, TablesTyped
    <3> QED BY <3>1, <3>2 DEF AdvanceHead
  <2>2. FactsOf(e, e)' = FactsOf(e, e) \cup {f}
    BY <1>4, <1>5 DEF FactsOf
  <2>3. HeadFits(e, e)'
    <3>1. HeadRow(head'[e][e])
      BY <1>3, <1>4, <2>1 DEF HeadRow
    <3>2. {g.seq : g \in FactsOf(e, e)'} = 1 .. f.seq
      <4>1. {g.seq : g \in FactsOf(e, e)'} = (1 .. h.highest) \cup {f.seq}
        BY <1>3, <2>2 DEF HeadFits
      <4> QED BY <1>3, <1>4, <4>1
    <3>3. \A g \in FactsOf(e, e)' : g.seq = f.seq => g = f
      BY <1>3, <1>4, <1>7, <2>2
    <3> QED BY <1>3, <1>5, <2>1, <3>1, <3>2, <3>3 DEF HeadFits
  <2>4. ASSUME NEW d \in Env, NEW g \in Env, <<d, g>> # <<e, e>> PROVE HeadFits(d, g)'
    <3>1. FactsOf(d, g)' = FactsOf(d, g)
      BY <1>4, <1>5, <2>4 DEF FactsOf
    <3>2. HeadFits(d, g)
      BY DEF AdmitInv, HeadsFit
    <3> QED BY <1>5, <2>1, <2>4, <3>1, <3>2 DEF HeadFits
  <2> QED BY <2>3, <2>4 DEF HeadsFit
<1> QED BY <1>6, <1>8, <1>9, <1>10, <1>11 DEF AdmitInv

\* A new nonce is none that an envelope has (NextUnsealedLocalFact and the sealing).
LEMMA SealNextAdmits ==
  ASSUME ReplicaInv, AdmitInv, NEW e \in Env, NEW p \in Pass, SealNext(e, p), bound' = bound
  PROVE  AdmitInv'
<1> DEFINE n == Min(FreshNonces)
<1>1. PICK f \in Own(e) :
        held' = [held EXCEPT ![e][p] = [job |-> "seal",
                   envelope |-> Envelope(f, head[e][e].digest, n)]]
  BY DEF SealNext
<1>2. UNCHANGED <<now, facts, head, outbox, receipts, relay>>
  BY DEF SealNext, storeVars
<1>3. n \in FreshNonces
  <2>1. FreshNonces \in SUBSET Nat
    BY SyncStoreAssumption DEF FreshNonces, ReplicaInv, TablesTyped
  <2>2. \E m \in FreshNonces : \A y \in FreshNonces : m <= y
    BY <2>1, LeastMember DEF SealNext
  <2> QED BY <2>2 DEF Min
<1> HIDE DEF n
<1>4. /\ held'[e][p] = [job |-> "seal", envelope |-> Envelope(f, head[e][e].digest, n)]
      /\ \A d \in Env, q \in Pass : <<d, q>> # <<e, p>> => held'[d][q] = held[d][q]
  BY <1>1 DEF ReplicaInv, TablesTyped
<1>5. held'[e][p].envelope.nonce = n /\ held'[e][p].job = "seal"
  BY <1>4 DEF Envelope
<1>6. /\ \A u \in Stored : u.nonce # n
      /\ \A d \in Env, q \in Pass : held[d][q].job = "seal" => held[d][q].envelope.nonce # n
  <2>1. \A i \in Arrivals : relay[i].nonce # n
    BY <1>3 DEF FreshNonces
  <2>2. ASSUME NEW d \in Env, NEW u \in outbox[d] PROVE u.nonce # n
    <3>1. n \notin {v.nonce : v \in UNION {outbox[c] : c \in Env}}
      BY <1>3 DEF FreshNonces
    <3>2. u \in UNION {outbox[c] : c \in Env}
      OBVIOUS
    <3> QED BY <3>1, <3>2
  <2>3. ASSUME NEW d \in Env, NEW q \in Pass, held[d][q].job = "seal"
        PROVE  held[d][q].envelope.nonce # n
    <3> DEFINE sealing == {y \in Env \X Pass : held[y[1]][y[2]].job = "seal"}
    <3>1. n \notin {held[x[1]][x[2]].envelope.nonce : x \in sealing}
      BY <1>3 DEF FreshNonces
    <3>2. <<d, q>> \in sealing
      BY <2>3
    <3>3. \A x \in sealing : held[x[1]][x[2]].envelope.nonce # n
      BY <3>1
    <3>4. held[<<d, q>>[1]][<<d, q>>[2]].envelope.nonce # n
      <4> HIDE DEF sealing
      <4> QED BY <3>2, <3>3
    <3> QED BY <3>4
  <2> QED BY <2>1, <2>2, <2>3 DEF Stored
<1>7. /\ Arrivals' = Arrivals /\ \A d : Own(d)' = Own(d) /\ Inventory(d)' = Inventory(d)
      /\ Stored' = Stored
      /\ \A d, g : FactsOf(d, g)' = FactsOf(d, g) /\ EnvelopesOf(d, g)' = EnvelopesOf(d, g)
  BY <1>2 DEF Arrivals, Own, Inventory, Stored, FactsOf, EnvelopesOf
<1>8. FactsHaveHomes' /\ OwnOrdered' /\ RegisteredFirst'
  BY <1>2, <1>7 DEF AdmitInv, FactsHaveHomes, OwnOrdered, RegisteredFirst
<1>9. RelayDistinct' /\ OneEnvelope' /\ RelayLinked' /\ InventoryLinked'
  BY <1>2, <1>7 DEF AdmitInv, RelayDistinct, OneEnvelope, RelayLinked, InventoryLinked
<1>10. NoncesDistinct'
  <2>1. \A u, v \in Stored : u.nonce = v.nonce => u = v
    BY DEF AdmitInv, NoncesDistinct
  <2>2. ASSUME NEW d \in Env, NEW q \in Pass, held'[d][q].job = "seal"
        PROVE  /\ \A u \in Stored : u.nonce # held'[d][q].envelope.nonce
               /\ \A c \in Env, r \in Pass :
                    held'[c][r].job = "seal"
                      /\ held'[c][r].envelope.nonce = held'[d][q].envelope.nonce
                      => c = d /\ r = q
    <3>1. CASE <<d, q>> = <<e, p>>
      BY <1>4, <1>5, <1>6, <3>1
    <3>2. CASE <<d, q>> # <<e, p>>
      <4>1. held'[d][q] = held[d][q]
        BY <1>4, <3>2
      <4>2. ASSUME NEW c \in Env, NEW r \in Pass, held'[c][r].job = "seal",
                   held'[c][r].envelope.nonce = held'[d][q].envelope.nonce
            PROVE  c = d /\ r = q
        <5>1. <<c, r>> # <<e, p>>
          BY <1>5, <1>6, <2>2, <4>1, <4>2
        <5>2. held'[c][r] = held[c][r]
          BY <1>4, <5>1
        <5> QED BY <2>2, <4>1, <4>2, <5>2 DEF AdmitInv, NoncesDistinct
      <4>3. \A u \in Stored : u.nonce # held'[d][q].envelope.nonce
        BY <2>2, <4>1 DEF AdmitInv, NoncesDistinct
      <4> QED BY <4>2, <4>3
    <3> QED BY <3>1, <3>2
  <2> QED BY <1>7, <2>1, <2>2 DEF NoncesDistinct
<1>11. HeadsFit'
  <2>1. \A d, g : HeadFits(d, g)' = HeadFits(d, g)
    BY <1>2, <1>7 DEF HeadFits
  <2> QED BY <2>1 DEF AdmitInv, HeadsFit
<1> QED BY <1>8, <1>9, <1>10, <1>11 DEF AdmitInv

\* PersistSealedOutbox stores the one envelope of a fact, after the one before it.
LEMMA PersistSealedOutboxAdmits ==
  ASSUME ReplicaInv, AdmitInv, NEW e \in Env, NEW p \in Pass, PersistSealedOutbox(e, p),
         bound' = bound
  PROVE  AdmitInv'
<1> DEFINE v == held[e][p].envelope
           h == head[e][e]
           fresh == /\ Attached(e)
                    /\ \A u \in Inventory(e) : u.fact # v.fact
                    /\ AdmitEnvelope(Inventory(e), v)
                    /\ ExtendsSealed(h, v)
<1>1. /\ outbox' = [outbox EXCEPT ![e] = IF fresh THEN @ \cup {v} ELSE @]
      /\ head' = [head EXCEPT ![e][e] = IF fresh THEN RecordSealed(@, v) ELSE @]
      /\ held' = [held EXCEPT ![e][p] = Idle]
      /\ UNCHANGED <<now, facts, progress, inbox, receipts, relay>>
      /\ held[e][p].job = "seal"
  BY DEF PersistSealedOutbox
<1>2. \A d \in Env, q \in Pass : held'[d][q].job = "seal" =>
        held'[d][q] = held[d][q] /\ <<d, q>> # <<e, p>>
  <2>1. Idle.job # "seal"
    BY DEF Idle
  <2>2. \A d \in Env, q \in Pass : held'[d][q].job = "seal" => held'[d][q] = held[d][q]
    <3> HIDE DEF fresh
    <3> QED BY <1>1, <2>1, HeldDropped
  <2>3. held'[e][p] = Idle
    BY <1>1 DEF ReplicaInv, TablesTyped
  <2> HIDE DEF fresh
  <2> QED BY <2>1, <2>2, <2>3
<1>3. /\ HeadFits(e, e) /\ HeadRow(h) /\ DOMAIN outbox = Env /\ DOMAIN head = Env
      /\ \A d \in Env : DOMAIN head[d] = Env
  BY DEF ReplicaInv, TablesTyped, AdmitInv, HeadsFit
<1>4. CASE ~ fresh
  <2> HIDE DEF fresh, v, h
  <2>1. outbox' = outbox
    <3>1. outbox = [d \in Env |-> outbox[d]]
      BY DEF ReplicaInv, TablesTyped
    <3>2. outbox' = [outbox EXCEPT ![e] = outbox[e]]
      BY <1>1, <1>4
    <3> QED BY <3>1, <3>2
  <2>2. head' = head
    <3>1. head = [d \in Env |-> [f \in Env |-> head[d][f]]]
      BY DEF ReplicaInv, TablesTyped
    <3>2. head' = [head EXCEPT ![e][e] = head[e][e]]
      BY <1>1, <1>4
    <3> QED BY <3>1, <3>2
  <2>3. now' \in Nat
    BY <1>1 DEF AdmitInv, FactsHaveHomes
  <2> QED BY <1>1, <1>2, <2>1, <2>2, <2>3, AdmitKept
<1>5. CASE fresh
  <2>1. v.fact \in Own(e) /\ v.fact.env = e /\ v.fact.seq \in 1 .. h.highest
    BY <1>1 DEF ReplicaInv, HeldSound, OwnNumbered, Own
  <2>2. /\ \A u \in Inventory(e) : u.fact # v.fact
        /\ IF v.fact.seq = 1 THEN v.prev = NoDigest ELSE \E u \in Inventory(e) : Precedes(u, v)
    BY <1>5 DEF AdmitEnvelope, Precedes
  <2>3. /\ h.highest \in Nat /\ h.sealed \in Nat /\ h.sealed <= h.highest /\ v.fact.seq \in Nat
        /\ 1 <= v.fact.seq /\ v.fact.seq <= h.highest
    <3> HIDE DEF v, h
    <3> QED BY <1>3, <2>1 DEF HeadRow
  <2>4. v.fact.seq = h.sealed + 1
    <3>1. v.fact.seq <= h.sealed + 1
      BY <1>5 DEF ExtendsSealed
    <3>2. ~ (v.fact.seq <= h.sealed)
      <4> SUFFICES ASSUME v.fact.seq <= h.sealed PROVE FALSE
        OBVIOUS
      <4>1. v.fact.seq \in 1 .. h.sealed
        <5> HIDE DEF v, h
        <5> QED BY <2>3
      <4>2. PICK u \in EnvelopesOf(e, e) : u.fact.seq = v.fact.seq
        BY <1>3, <4>1 DEF HeadFits
      <4>3. u \in Inventory(e) /\ u.fact \in Own(e)
        BY <4>2 DEF EnvelopesOf, ReplicaInv, OwnSealed
      <4>4. u.fact = v.fact
        BY <2>1, <4>2, <4>3 DEF ReplicaInv, OwnNumbered
      <4> QED BY <2>2, <4>3, <4>4
    <3> HIDE DEF v, h
    <3> QED BY <2>3, <3>1, <3>2
  <2>5. /\ head'[e][e] = [highest |-> h.highest, wall |-> h.wall, logical |-> h.logical,
                         sealed |-> v.fact.seq, digest |-> Digest(v)]
        /\ \A d, g \in Env : <<d, g>> # <<e, e>> => head'[d][g] = head[d][g]
    <3>1. head'[e][e] = RecordSealed(h, v)
      BY <1>1, <1>3, <1>5
    <3>2. RecordSealed(h, v) = [h EXCEPT !.sealed = v.fact.seq, !.digest = Digest(v)]
      <4> HIDE DEF v, h
      <4> QED BY <2>3, <2>4 DEF RecordSealed
    <3>3. \A d, g \in Env : <<d, g>> # <<e, e>> => head'[d][g] = head[d][g]
      <4> HIDE DEF fresh
      <4> QED BY <1>1, <1>3
    <3> HIDE DEF v
    <3> QED BY <1>3, <3>1, <3>2, <3>3 DEF HeadRow
  <2>6. /\ outbox'[e] = outbox[e] \cup {v} /\ \A d \in Env : d # e => outbox'[d] = outbox[d]
    BY <1>1, <1>3, <1>5
  <2>7. held[e][p].job = "seal" /\ held[e][p].envelope = v
    BY <1>1
  <2> HIDE DEF fresh, v, h
  <2>8. /\ Inventory(e)' = Inventory(e) \cup {v} /\ Arrivals' = Arrivals
        /\ \A d \in Env : d # e => Inventory(d)' = Inventory(d)
        /\ \A d : Own(d)' = Own(d)
        /\ \A d, g : FactsOf(d, g)' = FactsOf(d, g)
        /\ Stored' = Stored \cup {v}
    <3>1. /\ Inventory(e)' = Inventory(e) \cup {v} /\ Arrivals' = Arrivals
          /\ \A d \in Env : d # e => Inventory(d)' = Inventory(d)
          /\ \A d : Own(d)' = Own(d)
          /\ \A d, g : FactsOf(d, g)' = FactsOf(d, g)
      BY <1>1, <2>6 DEF Own, Inventory, Arrivals, FactsOf
    <3>2. UNION {outbox'[d] : d \in Env} = (UNION {outbox[d] : d \in Env}) \cup {v}
      BY <2>6
    <3>3. Stored' = Stored \cup {v}
      BY <1>1, <3>1, <3>2 DEF Stored
    <3> QED BY <3>1, <3>3
  <2>9. FactsHaveHomes' /\ OwnOrdered' /\ RegisteredFirst' /\ RelayDistinct' /\ RelayLinked'
    BY <1>1, <2>8 DEF AdmitInv, FactsHaveHomes, OwnOrdered, RegisteredFirst, RelayDistinct,
                      RelayLinked
  <2>10. OneEnvelope'
    BY <2>2, <2>8 DEF AdmitInv, OneEnvelope
  <2>11. InventoryLinked'
    BY <2>2, <2>8 DEF AdmitInv, InventoryLinked
  <2>12. NoncesDistinct'
    <3>1. \A u \in Stored : u.nonce # v.nonce
      BY <2>7 DEF AdmitInv, NoncesDistinct
    <3>2. \A u, w \in Stored' : u.nonce = w.nonce => u = w
      BY <2>8, <3>1 DEF AdmitInv, NoncesDistinct
    <3>3. ASSUME NEW d \in Env, NEW q \in Pass, held'[d][q].job = "seal"
          PROVE  /\ \A u \in Stored' : u.nonce # held'[d][q].envelope.nonce
                 /\ \A c \in Env, r \in Pass :
                      held'[c][r].job = "seal"
                        /\ held'[c][r].envelope.nonce = held'[d][q].envelope.nonce
                        => c = d /\ r = q
      <4>1. held'[d][q] = held[d][q] /\ <<d, q>> # <<e, p>>
        BY <1>2, <3>3
      <4>2. v.nonce # held[d][q].envelope.nonce
        BY <2>7, <3>3, <4>1 DEF AdmitInv, NoncesDistinct
      <4>3. \A u \in Stored : u.nonce # held[d][q].envelope.nonce
        BY <3>3, <4>1 DEF AdmitInv, NoncesDistinct
      <4>4. ASSUME NEW c \in Env, NEW r \in Pass, held'[c][r].job = "seal",
                   held'[c][r].envelope.nonce = held'[d][q].envelope.nonce
            PROVE  c = d /\ r = q
        <5>1. held'[c][r] = held[c][r]
          BY <1>2, <4>4
        <5> QED BY <3>3, <4>1, <4>4, <5>1 DEF AdmitInv, NoncesDistinct
      <4> QED BY <2>8, <4>1, <4>2, <4>3, <4>4
    <3> QED BY <3>2, <3>3 DEF NoncesDistinct
  <2>13. HeadsFit'
    <3>1. HeadFits(e, e)'
      <4>1. HeadRow(head'[e][e])
        BY <2>3, <2>5 DEF HeadRow
      <4>2. EnvelopesOf(e, e)' = EnvelopesOf(e, e) \cup {v}
        BY <2>1, <2>8 DEF EnvelopesOf
      <4>3. {u.fact.seq : u \in EnvelopesOf(e, e)} = 1 .. h.sealed
        BY <1>3 DEF HeadFits, h
      <4>4. {u.fact.seq : u \in EnvelopesOf(e, e)'} = 1 .. v.fact.seq
        <5>1. {u.fact.seq : u \in EnvelopesOf(e, e)'} = (1 .. h.sealed) \cup {v.fact.seq}
          BY <4>2, <4>3
        <5> QED BY <2>3, <2>4, <5>1
      <4>5. \A u \in EnvelopesOf(e, e)' : u.fact.seq = v.fact.seq => u = v
        <5>1. \A u \in EnvelopesOf(e, e) : u.fact.seq \in 1 .. h.sealed
          BY <4>3
        <5> QED BY <2>3, <2>4, <4>2, <5>1
      <4>6. /\ {g.seq : g \in FactsOf(e, e)'} = 1 .. h.highest
            /\ \A g \in FactsOf(e, e)' : g.seq = h.highest => g.wall = h.wall /\ g.logical = h.logical
        BY <1>3, <2>8 DEF HeadFits, h
      <4> QED BY <2>5, <4>1, <4>4, <4>5, <4>6 DEF HeadFits
    <3>2. ASSUME NEW d \in Env, NEW g \in Env, <<d, g>> # <<e, e>> PROVE HeadFits(d, g)'
      <4>1. EnvelopesOf(d, g)' = EnvelopesOf(d, g)
        BY <2>1, <2>8, <3>2 DEF EnvelopesOf
      <4>2. HeadFits(d, g)
        BY DEF AdmitInv, HeadsFit
      <4> QED BY <2>5, <2>8, <3>2, <4>1, <4>2 DEF HeadFits
    <3> QED BY <3>1, <3>2 DEF HeadsFit
  <2> QED BY <2>9, <2>10, <2>11, <2>12, <2>13 DEF AdmitInv
<1> QED BY <1>4, <1>5

\* What the relay numbers next continues its producer's chain, and the first is the
\* registration.
LEMMA SendOutboxAdmits ==
  ASSUME ReplicaInv, AdmitInv, NEW e \in Env, SendOutbox(e), bound' = bound
  PROVE  AdmitInv'
<1> DEFINE n == Len(relay) + 1
<1>1. PICK v \in outbox[e] :
        /\ \A i \in Arrivals : relay[i].fact # v.fact
        /\ v.fact.seq = 1 \/ \E i \in Arrivals : Digest(relay[i]) = v.prev
        /\ relay' = Append(relay, v)
        /\ UNCHANGED <<now, facts, head, outbox, receipts, held>>
  BY DEF SendOutbox, storeVars
<1>2. /\ Len(relay) \in Nat /\ Arrivals = 1 .. Len(relay) /\ Arrivals' = 1 .. n
      /\ \A i \in Arrivals : relay'[i] = relay[i]
      /\ relay'[n] = v
  <2>1. relay \in Seq({relay[i] : i \in DOMAIN relay})
    BY DEF ReplicaInv, TablesTyped, Arrivals
  <2> QED BY <1>1, <2>1, ListGrows DEF Arrivals
<1>3. /\ Arrivals' = Arrivals \cup {n} /\ n \notin Arrivals /\ \A i \in Arrivals : i < n
  BY <1>2
<1> HIDE DEF n
<1>4. v \in Inventory(e) /\ v.fact \in Own(e) /\ v.fact.env = e /\ v.fact \in facts[e]
      /\ v.fact.seq \in Nat /\ 1 <= v.fact.seq
  <2>1. v \in Inventory(e) /\ v.fact \in Own(e)
    BY InventoryRows DEF Inventory
  <2>2. v.fact.seq \in 1 .. head[e][e].highest /\ head[e][e].highest \in Nat
    BY <2>1 DEF ReplicaInv, OwnNumbered, TablesTyped, HeadRow
  <2> QED BY <2>1, <2>2 DEF Own
<1>5. /\ \A d : Own(d)' = Own(d) /\ Inventory(d)' = Inventory(d)
      /\ \A d, g : FactsOf(d, g)' = FactsOf(d, g) /\ EnvelopesOf(d, g)' = EnvelopesOf(d, g)
  BY <1>1 DEF Own, Inventory, FactsOf, EnvelopesOf
<1>6. Stored' = Stored
  <2>1. {relay'[i] : i \in Arrivals'} = {relay[i] : i \in Arrivals} \cup {v}
    BY <1>2, <1>3
  <2>2. v \in UNION {outbox[d] : d \in Env}
    OBVIOUS
  <2> QED BY <1>1, <2>1, <2>2 DEF Stored
<1>7. FactsHaveHomes' /\ OwnOrdered' /\ OneEnvelope' /\ InventoryLinked' /\ NoncesDistinct'
  BY <1>1, <1>5, <1>6 DEF AdmitInv, FactsHaveHomes, OwnOrdered, OneEnvelope, InventoryLinked,
                          NoncesDistinct
<1>8. RelayDistinct'
  BY <1>1, <1>2, <1>3 DEF AdmitInv, RelayDistinct
<1>9. RelayLinked'
  <2>1. ASSUME NEW i \in Arrivals
        PROVE  IF relay'[i].fact.seq = 1 THEN relay'[i].prev = NoDigest
               ELSE \E j \in Arrivals' : j < i /\ Precedes(relay'[j], relay'[i])
    BY <1>2, <1>3 DEF AdmitInv, RelayLinked
  <2>2. CASE v.fact.seq = 1
    <3>1. v.prev = NoDigest
      BY <1>4, <2>2 DEF AdmitInv, InventoryLinked
    <3> QED BY <1>2, <1>3, <2>1, <2>2, <3>1 DEF RelayLinked
  <2>3. CASE v.fact.seq # 1
    <3>1. PICK u \in Inventory(e) : Precedes(u, v)
      BY <1>4, <2>3 DEF AdmitInv, InventoryLinked
    <3>2. PICK i \in Arrivals : Digest(relay[i]) = v.prev
      BY <1>1, <2>3
    <3>3. Precedes(relay[i], v)
      BY <3>1, <3>2 DEF Precedes, Digest
    <3> QED BY <1>2, <1>3, <2>1, <2>3, <3>3 DEF RelayLinked
  <2> QED BY <2>2, <2>3
<1>10. RegisteredFirst'
  <2>1. CASE 1 \in Arrivals
    BY <1>1, <1>2, <2>1 DEF AdmitInv, RegisteredFirst
  <2>2. CASE 1 \notin Arrivals
    <3>1. Len(relay) = 0 /\ n = 1 /\ Arrivals = {}
      BY <1>2, <2>2 DEF n
    <3>2. v.fact.seq = 1
      BY <1>1, <3>1
    <3>3. e = 1
      <4>1. PICK g \in facts[e] : g.env = 1 /\ g.seq = 1
        BY <1>4 DEF AdmitInv, RegisteredFirst, Folds
      <4>2. <<1, 1>> \in {<<f.env, f.seq>> : f \in facts[e]}
        BY <4>1
      <4>3. <<1, 1>> \in Share(e)
        BY <4>2 DEF ReplicaInv, HoldsShare
      <4>4. \A i \in 1 .. progress[e].applied : i \in Arrivals
        BY InventoryRows
      <4> QED BY <3>1, <4>3, <4>4 DEF Share
    <3>4. relay'[1].fact.env = 1 /\ relay'[1].fact.seq = 1
      BY <1>2, <1>4, <3>1, <3>2, <3>3
    <3> QED BY <1>1, <3>4 DEF AdmitInv, RegisteredFirst
  <2> QED BY <2>1, <2>2
<1>11. HeadsFit'
  <2>1. \A d, g : HeadFits(d, g)' = HeadFits(d, g)
    BY <1>1, <1>5 DEF HeadFits
  <2> QED BY <2>1 DEF AdmitInv, HeadsFit
<1> QED BY <1>7, <1>8, <1>9, <1>10, <1>11 DEF AdmitInv

\* The relay has the facts of an environment without gaps.
LEMMA NumbersPublished ==
  ASSUME ReplicaInv, NEW f \in Env, NEW m \in Nat, m <= Len(relay)
  PROVE  \E n \in Nat : Before(f, m + 1) = 1 .. n
<1> DEFINE S == Before(f, m + 1)
<1>1. Len(relay) \in Nat /\ Arrivals = 1 .. Len(relay) /\ m + 1 - 1 = m
  BY DEF ReplicaInv, TablesTyped, Arrivals
<1>2. \A i \in 1 .. m : i \in Arrivals
  BY <1>1
<1>3. S = {relay[i].fact.seq : i \in {j \in 1 .. m : relay[j].fact.env = f}}
  BY <1>1 DEF Before
<1>4. CASE S = {}
  BY <1>4, 1 .. 0 = {}, 0 \in Nat
<1>5. CASE S # {}
  <2>1. head[f][f].highest \in Nat
    BY DEF ReplicaInv, TablesTyped, HeadRow
  <2>2. \A s \in S : s \in Nat /\ 1 <= s /\ s <= head[f][f].highest
    BY <1>2, <1>3, ArrivalHome
  <2>3. PICK n \in S : \A s \in S : s <= n
    <3>1. S \in SUBSET Nat
      BY <2>2
    <3> HIDE DEF S
    <3> QED BY <1>5, <2>1, <2>2, <3>1, GreatestMember
  <2>4. PICK i \in 1 .. m : relay[i].fact.env = f /\ relay[i].fact.seq = n
    BY <1>3
  <2>5. ASSUME NEW s \in 1 .. n PROVE s \in S
    <3>1. PICK j \in Arrivals : j <= i /\ relay[j].fact.env = f /\ relay[j].fact.seq = s
      BY <1>2, <2>4 DEF ReplicaInv, RelayChained
    <3>2. j \in 1 .. m
      BY <1>1, <2>4, <3>1
    <3> QED BY <1>3, <3>1, <3>2
  <2>6. n \in Nat /\ S \subseteq 1 .. n
    BY <2>2, <2>3
  <2>7. S = 1 .. n
    <3> HIDE DEF S
    <3> QED BY <2>5, <2>6
  <2> QED BY <2>6, <2>7
<1> QED BY <1>4, <1>5

\* Of another environment a store has what the relay had up to the cursor.
LEMMA ForeignRows ==
  ASSUME ReplicaInv, AdmitInv, NEW e \in Env, NEW f \in Env, f # e
  PROVE  LET a == progress[e].applied
             h == head[e][f]
         IN  /\ EnvelopesOf(e, f) = {relay[i] : i \in {j \in 1 .. a : relay[j].fact.env = f}}
             /\ Before(f, a + 1) = 1 .. h.sealed
             /\ {g.seq : g \in FactsOf(e, f)} = 1 .. h.sealed
             /\ h.sealed = h.highest /\ h.sealed \in Nat
<1> DEFINE a == progress[e].applied
           h == head[e][f]
<1>1. HeadFits(e, f)
  BY DEF AdmitInv, HeadsFit
<1>2. a \in Nat /\ a + 1 - 1 = a
  BY InventoryRows
<1>3. EnvelopesOf(e, f) = {relay[i] : i \in {j \in 1 .. a : relay[j].fact.env = f}}
  BY InventoryRows DEF EnvelopesOf
<1>4. {v.fact.seq : v \in EnvelopesOf(e, f)} = Before(f, a + 1)
  <2> HIDE DEF a
  <2> QED BY <1>2, <1>3 DEF Before, a
<1> QED BY <1>1, <1>3, <1>4 DEF HeadFits, HeadRow

\* The head of another environment after new frames of it.
LEMMA HeadMoves ==
  ASSUME NEW h, HeadRow(h), h.sealed = h.highest, NEW f, NEW V,
         NEW top \in V, top.fact.env = f, top.fact.seq \in Nat, top.fact.seq > h.highest,
         \A v \in V : v.fact.env = f => v.fact.seq \in Nat /\ v.fact.seq <= top.fact.seq,
         \A v \in V : v.fact.env = f /\ v.fact.seq = top.fact.seq => v = top
  PROVE  HeadAfter(h, f, V) =
           [highest |-> top.fact.seq, wall |-> top.fact.wall, logical |-> top.fact.logical,
            sealed |-> top.fact.seq, digest |-> Digest(top)]
<1> DEFINE new == {v \in V : v.fact.env = f}
           t == CHOOSE v \in new : \A u \in new : u.fact.seq <= v.fact.seq
<1>1. top \in new /\ new # {}
  OBVIOUS
<1>2. t \in new /\ \A u \in new : u.fact.seq <= t.fact.seq
  <2>1. \E v \in new : \A u \in new : u.fact.seq <= v.fact.seq
    BY <1>1
  <2> HIDE DEF new
  <2> QED BY <2>1
<1>3. t = top
  <2>1. t.fact.seq = top.fact.seq
    <3>1. t.fact.seq \in Nat /\ t.fact.seq <= top.fact.seq /\ top.fact.seq <= t.fact.seq
      <4> HIDE DEF t
      <4> QED BY <1>1, <1>2
    <3> HIDE DEF t
    <3> QED BY <3>1
  <2> HIDE DEF t
  <2> QED BY <1>2, <2>1
<1>4. HeadAfter(h, f, V) =
        RecordSealed(IF t.fact.seq > h.highest THEN AdvanceHead(h, t.fact) ELSE h, t)
  BY <1>1 DEF HeadAfter
<1>5. HeadAfter(h, f, V) = RecordSealed(AdvanceHead(h, top.fact), top)
  <2> HIDE DEF t
  <2> QED BY <1>3, <1>4
<1>6. AdvanceHead(h, top.fact) =
        [highest |-> top.fact.seq, wall |-> top.fact.wall, logical |-> top.fact.logical,
         sealed |-> h.sealed, digest |-> h.digest]
  BY DEF AdvanceHead
<1>7. ~ (top.fact.seq <= h.sealed)
  BY DEF HeadRow
<1> DEFINE g == AdvanceHead(h, top.fact)
<1>8. g = [highest |-> g.highest, wall |-> g.wall, logical |-> g.logical,
           sealed |-> g.sealed, digest |-> g.digest]
      /\ g.highest = top.fact.seq /\ g.wall = top.fact.wall /\ g.logical = top.fact.logical
      /\ g.sealed = h.sealed
  BY <1>6
<1> HIDE DEF g
<1>9. RecordSealed(g, top) = [highest |-> g.highest, wall |-> g.wall, logical |-> g.logical,
                              sealed |-> top.fact.seq, digest |-> Digest(top)]
  BY <1>7, <1>8 DEF RecordSealed
<1> QED BY <1>5, <1>8, <1>9 DEF g

\* The frames ApplySyncBatch applies are the arrivals after the cursor, and what a store
\* has afterwards folds.
LEMMA ApplySyncBatchAdmits ==
  ASSUME ReplicaInv, AdmitInv, NEW e \in Env, NEW n \in 1 .. bound.page, ApplySyncBatch(e, n),
         bound' = bound
  PROVE  AdmitInv'
<1> DEFINE a == progress[e].applied
           k == ApplyCount(e, n)
           V == Frames(e, k)
<1>1. /\ facts' = [facts EXCEPT ![e] = @ \cup {v.fact : v \in V}]
      /\ head' = [head EXCEPT ![e] = [f \in Env |-> HeadAfter(@[f], f, V)]]
      /\ outbox' = [outbox EXCEPT ![e] = @ \ V]
      /\ progress' = [progress EXCEPT ![e].applied = a + k]
      /\ \A d \in Env : d # e => receipts'[d] = receipts[d]
      /\ UNCHANGED <<now, held, relay>>
  BY DEF ApplySyncBatch, ReplicaInv, TablesTyped
<1>2. /\ n \in Nat /\ a \in Nat /\ k \in 0 .. n /\ a + k <= progress[e].downloaded
      /\ a + k <= Len(relay) /\ Len(relay) \in Nat
      /\ \A i \in a + 1 .. a + k : i \in Arrivals /\ inbox[e][i].envelope = relay[i]
      /\ V = {relay[i] : i \in a + 1 .. a + k}
  BY AppliedFrames
<1>3. ReplicaInv' /\ \A d \in Env : head'[d][d] = head[d][d]
  BY ApplySyncBatchStep
<1>4. /\ DOMAIN facts = Env /\ DOMAIN outbox = Env /\ DOMAIN head = Env /\ DOMAIN progress = Env
      /\ DOMAIN head[e] = Env /\ progress \in [Env -> ProgressRow]
  BY DEF ReplicaInv, TablesTyped
<1>5. k > 0 => Folds(facts[e] \cup {v.fact : v \in V})
  <2> DEFINE future == {j \in 1 .. n : FutureSkewed(e, inbox[e][a + j].envelope.fact)}
             count == IF future = {} THEN n ELSE Min(future) - 1
  <2>1. k = IF count > 0 /\ ~ Folds(facts[e] \cup {v.fact : v \in Frames(e, count)}) THEN 0 ELSE count
    BY DEF ApplyCount
  <2> HIDE DEF count
  <2>2. CASE count > 0 /\ ~ Folds(facts[e] \cup {v.fact : v \in Frames(e, count)})
    BY <2>1, <2>2
  <2>3. CASE ~ (count > 0 /\ ~ Folds(facts[e] \cup {v.fact : v \in Frames(e, count)}))
    <3>1. k = count
      BY <2>1, <2>3
    <3> HIDE DEF k
    <3> QED BY <2>3, <3>1
  <2> QED BY <2>2, <2>3
<1> HIDE DEF V, k
<1>6. /\ facts'[e] = facts[e] \cup {v.fact : v \in V} /\ \A d \in Env : d # e => facts'[d] = facts[d]
      /\ outbox'[e] = outbox[e] \ V /\ \A d \in Env : d # e => outbox'[d] = outbox[d]
      /\ \A d \in Env : d # e => head'[d] = head[d]
      /\ \A f \in Env : head'[e][f] = HeadAfter(head[e][f], f, V)
      /\ Arrivals' = Arrivals /\ Arrivals = 1 .. Len(relay)
      /\ progress'[e].applied = a + k
  BY <1>1, <1>4, InventoryRows DEF Arrivals, ProgressRow
<1>7. \A v \in V : /\ \E i \in a + 1 .. a + k : v = relay[i] /\ i \in Arrivals
                   /\ v.fact.env \in Env /\ v.fact \in Own(v.fact.env)
                   /\ v.fact \in facts[v.fact.env] /\ v \in Inventory(v.fact.env)
                   /\ v.fact.seq \in Nat
  BY <1>2, ArrivalHome
<1>8. \A d \in Env : Own(d)' = Own(d)
  <2>1. Own(e)' = Own(e)
    BY <1>6, <1>7 DEF Own
  <2> QED BY <1>6, <2>1 DEF Own
<1>9. /\ Inventory(e)' = Inventory(e) \cup V
      /\ \A d \in Env : d # e => Inventory(d)' = Inventory(d)
  BY ApplySyncBatchStep DEF V, k
<1>10. FactsHaveHomes'
  <2>1. \A d \in Env : facts[d] \subseteq facts'[d]
    BY <1>6
  <2>2. IsFiniteSet({v.fact : v \in V})
    <3> DEFINE q == [i \in a + 1 .. a + k |-> relay[i].fact]
               T == {v.fact : v \in V}
    <3>1. q \in Surjection(a + 1 .. a + k, T)
      BY <1>2 DEF Surjection
    <3>2. IsFiniteSet(a + 1 .. a + k)
      <4>1. a + 1 \in Int /\ a + k \in Int
        BY <1>2
      <4> HIDE DEF a
      <4> QED BY <4>1, FS_Interval
    <3> HIDE DEF q, T
    <3>3. IsFiniteSet(T)
      BY <3>1, <3>2, FS_Surjection
    <3> QED BY <3>3 DEF T
  <2>3. \A d \in Env : IsFiniteSet(facts'[d])
    <3>1. \A d \in Env : IsFiniteSet(facts[d])
      BY DEF AdmitInv, FactsHaveHomes
    <3>2. IsFiniteSet(facts'[e])
      <4> DEFINE T == {v.fact : v \in V}
      <4>1. facts'[e] = facts[e] \cup T /\ IsFiniteSet(facts[e]) /\ IsFiniteSet(T)
        BY <1>6, <2>2, <3>1
      <4> HIDE DEF T
      <4>2. IsFiniteSet(facts[e] \cup T)
        BY <4>1, FS_Union
      <4> QED BY <4>1, <4>2
    <3> QED BY <1>6, <3>1, <3>2
  <2>4. \A d \in Env : \A g \in facts'[d] : FactRow(g) /\ g \in facts'[g.env]
    <3>1. \A d \in Env : \A g \in facts[d] : FactRow(g) /\ g \in facts'[g.env]
      BY <2>1 DEF AdmitInv, FactsHaveHomes, FactRow
    <3>2. \A v \in V : FactRow(v.fact) /\ v.fact \in facts'[v.fact.env]
      BY <1>7, <3>1
    <3> QED BY <1>6, <3>1, <3>2
  <2> QED BY <1>1, <2>3, <2>4 DEF FactsHaveHomes, AdmitInv
<1>11. OwnOrdered'
  BY <1>8 DEF AdmitInv, OwnOrdered
<1>12. RegisteredFirst'
  <2>1. facts'[e] # {} => Folds(facts'[e])
    <3>1. CASE k > 0
      BY <1>5, <1>6, <3>1
    <3>2. CASE ~ (k > 0)
      <4>1. V = {}
        <5>1. a + 1 .. a + k = {}
          BY <1>2, <3>2
        <5> QED BY <1>2, <5>1
      <4>2. facts'[e] = facts[e]
        BY <1>6, <4>1
      <4> QED BY <4>2 DEF AdmitInv, RegisteredFirst
    <3> QED BY <3>1, <3>2
  <2>2. \A d \in Env : facts'[d] # {} => Folds(facts'[d])
    BY <1>6, <2>1 DEF AdmitInv, RegisteredFirst
  <2> QED BY <1>1, <1>6, <2>2 DEF AdmitInv, RegisteredFirst
<1>13. RelayDistinct' /\ RelayLinked'
  BY <1>1, <1>6 DEF AdmitInv, RelayDistinct, RelayLinked
<1>14. OneEnvelope'
  <2>1. ASSUME NEW u \in Inventory(e)', NEW v \in V, u.fact = v.fact PROVE u = v
    <3>1. PICK i \in Arrivals : v = relay[i]
      BY <1>7
    <3>2. CASE u \in Inventory(e)
      BY <2>1, <3>1, <3>2, InventoryIsRelay
    <3>3. CASE u \in V
      <4>1. PICK j \in Arrivals : u = relay[j]
        BY <1>7, <3>3
      <4> QED BY <2>1, <3>1, <4>1 DEF AdmitInv, RelayDistinct
    <3> QED BY <1>9, <3>2, <3>3
  <2>2. \A u, v \in Inventory(e)' : u.fact = v.fact => u = v
    BY <1>9, <2>1 DEF AdmitInv, OneEnvelope
  <2> QED BY <1>9, <2>2 DEF AdmitInv, OneEnvelope
<1>15. InventoryLinked'
  <2>1. ASSUME NEW v \in V
        PROVE  IF v.fact.seq = 1 THEN v.prev = NoDigest
               ELSE \E u \in Inventory(e)' : Precedes(u, v)
    <3>1. PICK m \in a + 1 .. a + k : v = relay[m] /\ m \in Arrivals
      BY <1>7
    <3>2. CASE v.fact.seq = 1
      BY <3>1, <3>2 DEF AdmitInv, RelayLinked
    <3>3. CASE v.fact.seq # 1
      <4>1. PICK j \in Arrivals : j < m /\ Precedes(relay[j], v)
        BY <3>1, <3>3 DEF AdmitInv, RelayLinked
      <4>2. j \in 1 .. a \/ j \in a + 1 .. a + k
        BY <1>2, <1>6, <3>1, <4>1
      <4>3. relay[j] \in Inventory(e)'
        BY <1>2, <1>9, <4>2, InventoryRows
      <4> QED BY <3>3, <4>1, <4>3
    <3> QED BY <3>2, <3>3
  <2>2. \A v \in Inventory(e)' :
          IF v.fact.seq = 1 THEN v.prev = NoDigest ELSE \E u \in Inventory(e)' : Precedes(u, v)
    BY <1>9, <2>1 DEF AdmitInv, InventoryLinked
  <2> QED BY <1>9, <2>2 DEF AdmitInv, InventoryLinked
<1>16. NoncesDistinct'
  <2>1. Stored' = Stored
    <3>1. V \subseteq {relay[i] : i \in Arrivals}
      BY <1>7
    <3>2. UNION {outbox'[d] : d \in Env} \subseteq UNION {outbox[d] : d \in Env}
      BY <1>6
    <3>3. UNION {outbox[d] : d \in Env} \subseteq (UNION {outbox'[d] : d \in Env}) \cup V
      BY <1>6
    <3> QED BY <1>1, <1>6, <3>1, <3>2, <3>3 DEF Stored
  <2> QED BY <1>1, <2>1 DEF AdmitInv, NoncesDistinct
<1>17. HeadsFit'
  <2>1. ASSUME NEW d \in Env, NEW f \in Env, d # e PROVE HeadFits(d, f)'
    <3>1. /\ FactsOf(d, f)' = FactsOf(d, f) /\ EnvelopesOf(d, f)' = EnvelopesOf(d, f)
          /\ head'[d][f] = head[d][f]
      BY <1>6, <1>9, <2>1 DEF FactsOf, EnvelopesOf
    <3> QED BY <3>1 DEF AdmitInv, HeadsFit, HeadFits
  <2>2. HeadFits(e, e)'
    <3>1. FactsOf(e, e)' = FactsOf(e, e)
      BY <1>8 DEF FactsOf, Own
    <3>2. EnvelopesOf(e, e)' = EnvelopesOf(e, e)
      BY <1>7, <1>9 DEF EnvelopesOf
    <3>3. head'[e][e] = head[e][e]
      BY <1>3
    <3> QED BY <3>1, <3>2, <3>3 DEF AdmitInv, HeadsFit, HeadFits
  <2>3. ASSUME NEW f \in Env, f # e PROVE HeadFits(e, f)'
    <3> DEFINE h == head[e][f]
               new == {v \in V : v.fact.env = f}
    <3>1. /\ FactsOf(e, f)' = FactsOf(e, f) \cup {v.fact : v \in new}
          /\ EnvelopesOf(e, f)' = EnvelopesOf(e, f) \cup new
      BY <1>6, <1>9 DEF FactsOf, EnvelopesOf
    <3>2. /\ Before(f, a + 1) = 1 .. h.sealed /\ {g.seq : g \in FactsOf(e, f)} = 1 .. h.sealed
          /\ {v.fact.seq : v \in EnvelopesOf(e, f)} = 1 .. h.sealed
          /\ h.sealed = h.highest /\ h.sealed \in Nat
          /\ HeadFits(e, f) /\ HeadRow(h)
      BY <2>3, ForeignRows DEF AdmitInv, HeadsFit, HeadFits
    <3>3. CASE new = {}
      <4>1. head'[e][f] = h
        BY <1>6, <3>3 DEF HeadAfter
      <4> QED BY <3>1, <3>2, <3>3, <4>1 DEF HeadFits
    <3>4. CASE new # {}
      <4> DEFINE S == {v.fact.seq : v \in new}
      <4>1. PICK N \in Nat : Before(f, a + k + 1) = 1 .. N
        <5>1. a + k \in Nat /\ a + k <= Len(relay)
          BY <1>2
        <5> HIDE DEF a
        <5> QED BY <5>1, NumbersPublished
      <4>2. Before(f, a + k + 1) = (1 .. h.sealed) \cup S
        <5>1. 1 .. (a + k + 1) - 1 = (1 .. (a + 1) - 1) \cup (a + 1 .. a + k)
          BY <1>2
        <5>2. new = {relay[i] : i \in {j \in a + 1 .. a + k : relay[j].fact.env = f}}
          BY <1>2
        <5>3. Before(f, a + k + 1) = Before(f, a + 1) \cup S
          <6> HIDE DEF a, h, new
          <6> QED BY <5>1, <5>2 DEF Before
        <5> QED BY <3>2, <5>3
      <4>3. ASSUME NEW v \in new PROVE v.fact.seq \in Nat /\ v.fact.seq > h.sealed
        <5>1. PICK m \in a + 1 .. a + k : v = relay[m] /\ m \in Arrivals
          BY <1>7
        <5>2. Before(f, m) = 1 .. v.fact.seq - 1
          BY <4>3, <5>1, ArrivalsBefore
        <5>3. Before(f, a + 1) \subseteq Before(f, m)
          <6>1. 1 .. (a + 1) - 1 \subseteq 1 .. m - 1
            BY <1>2
          <6> HIDE DEF a
          <6> QED BY <6>1 DEF Before
        <5>4. v.fact.seq \in Nat /\ 1 <= v.fact.seq
          BY <5>1, ArrivalHome
        <5>5. 1 .. h.sealed \subseteq 1 .. v.fact.seq - 1
          BY <3>2, <5>2, <5>3
        <5>6. h.sealed = 0 \/ h.sealed \in 1 .. h.sealed
          <6> HIDE DEF h
          <6> QED BY <3>2
        <5> HIDE DEF h
        <5> QED BY <3>2, <5>4, <5>5, <5>6
      <4>4. PICK top \in new : top.fact.seq = N
        <5>1. \E s \in S : TRUE
          BY <3>4
        <5>2. PICK s \in S : s \in Nat /\ s > h.sealed
          BY <4>3, <5>1
        <5>3. s \in 1 .. N /\ s <= N /\ N \in 1 .. N
          <6>1. s \in 1 .. N
            BY <4>1, <4>2
          <6> HIDE DEF S
          <6> QED BY <6>1
        <5>4. N \notin 1 .. h.sealed
          <6> HIDE DEF h, S
          <6> QED BY <3>2, <5>2, <5>3
        <5>5. N \in S
          <6> HIDE DEF S
          <6> QED BY <4>1, <4>2, <5>3, <5>4
        <5> QED BY <5>5
      <4>5. \A s \in S : s \in Nat /\ s <= N
        <5>1. S \subseteq 1 .. N
          BY <4>1, <4>2
        <5> HIDE DEF S
        <5> QED BY <5>1
      <4>6. \A v \in new : v.fact.seq = N => v = top
        <5>1. ASSUME NEW v \in new, v.fact.seq = N PROVE v = top
          <6>1. PICK i \in Arrivals : v = relay[i]
            BY <1>7
          <6>2. PICK j \in Arrivals : top = relay[j]
            BY <1>7
          <6> QED BY <4>4, <5>1, <6>1, <6>2, ArrivalsDiffer
        <5> QED BY <5>1
      <4>7. head'[e][f] = [highest |-> N, wall |-> top.fact.wall, logical |-> top.fact.logical,
                           sealed |-> N, digest |-> Digest(top)]
        <5>1. /\ top \in V /\ top.fact.env = f /\ top.fact.seq \in Nat /\ top.fact.seq > h.highest
              /\ \A v \in V : v.fact.env = f => v.fact.seq \in Nat /\ v.fact.seq <= top.fact.seq
              /\ \A v \in V : v.fact.env = f /\ v.fact.seq = top.fact.seq => v = top
          BY <3>2, <4>3, <4>4, <4>5, <4>6
        <5>2. HeadAfter(h, f, V) =
                [highest |-> top.fact.seq, wall |-> top.fact.wall, logical |-> top.fact.logical,
                 sealed |-> top.fact.seq, digest |-> Digest(top)]
          <6> HIDE DEF h, new, S
          <6> QED BY <3>2, <5>1, HeadMoves
        <5> QED BY <1>6, <4>4, <5>2
      <4>8. HeadRow(head'[e][f])
        <5>1. N <= N
          OBVIOUS
        <5> QED BY <4>7, <5>1 DEF HeadRow
      <4>9. (1 .. h.sealed) \cup S = 1 .. N
        BY <4>1, <4>2
      <4>10. {g.seq : g \in FactsOf(e, f)'} = 1 .. N
        <5>1. {g.seq : g \in FactsOf(e, f)'} = {g.seq : g \in FactsOf(e, f)} \cup S
          <6> HIDE DEF new
          <6> QED BY <3>1
        <5> QED BY <3>2, <4>9, <5>1
      <4>11. {v.fact.seq : v \in EnvelopesOf(e, f)'} = 1 .. N
        <5>1. {v.fact.seq : v \in EnvelopesOf(e, f)'} = {v.fact.seq : v \in EnvelopesOf(e, f)} \cup S
          <6> HIDE DEF new
          <6> QED BY <3>1
        <5> QED BY <3>2, <4>9, <5>1
      <4>12. N > h.sealed
        BY <4>3, <4>4
      <4>13. \A g \in FactsOf(e, f)' : g.seq = N => g = top.fact
        <5>1. \A g \in FactsOf(e, f) : g.seq \in 1 .. h.sealed
          BY <3>2
        <5>2. \A g \in FactsOf(e, f) : g.seq # N
          <6> HIDE DEF h, new, S
          <6> QED BY <3>2, <4>12, <5>1
        <5> QED BY <3>1, <4>6, <5>2
      <4>14. \A v \in EnvelopesOf(e, f)' : v.fact.seq = N => v = top
        <5>1. \A v \in EnvelopesOf(e, f) : v.fact.seq \in 1 .. h.sealed
          BY <3>2
        <5>2. \A v \in EnvelopesOf(e, f) : v.fact.seq # N
          <6> HIDE DEF h, new, S
          <6> QED BY <3>2, <4>12, <5>1
        <5> QED BY <3>1, <4>6, <5>2
      <4> HIDE DEF h, new, S
      <4> QED BY <4>7, <4>8, <4>10, <4>11, <4>13, <4>14 DEF HeadFits
    <3> QED BY <3>3, <3>4
  <2> QED BY <2>1, <2>2, <2>3 DEF HeadsFit
<1> QED BY <1>10, <1>11, <1>12, <1>13, <1>14, <1>15, <1>16, <1>17 DEF AdmitInv

LEMMA AdmitNextInv == ReplicaInv /\ AdmitInv /\ [Next]_vars => AdmitInv'
<1> SUFFICES ASSUME ReplicaInv, AdmitInv, [Next]_vars PROVE AdmitInv'
  OBVIOUS
<1>1. CASE UNCHANGED vars
  BY <1>1, QuietSteps DEF vars
<1>2. CASE Next
  <2>1. bound' = bound /\ \A e \in Env : bound.passes[e] \subseteq Pass
    BY <1>2, SyncStoreAssumption DEF Next, ReplicaInv, TablesTyped
  <2>2. CASE Tick \/ \E i, closure \in Arrivals : PruneArrival(i, closure)
    BY <2>1, <2>2, QuietSteps
  <2>3. ASSUME NEW e \in Env, AppendFact(e) PROVE AdmitInv'
    BY <2>1, <2>3, AppendFactAdmits
  <2>4. ASSUME NEW e \in Env, SendOutbox(e) PROVE AdmitInv'
    BY <2>1, <2>4, SendOutboxAdmits
  <2>5. ASSUME NEW e \in Env, NEW n \in 1 .. bound.page, ApplySyncBatch(e, n) PROVE AdmitInv'
    BY <2>1, <2>5, ApplySyncBatchAdmits
  <2>6. ASSUME NEW e \in Env, AuthorityMove(e) \/ DiscardStagedSync(e)
        PROVE  AdmitInv'
    BY <2>1, <2>6, QuietSteps
  <2>7. ASSUME NEW e \in Env, NEW p \in bound.passes[e], SealNext(e, p) PROVE AdmitInv'
    BY <2>1, <2>7, SealNextAdmits
  <2>8. ASSUME NEW e \in Env, NEW p \in bound.passes[e], PersistSealedOutbox(e, p) PROVE AdmitInv'
    BY <2>1, <2>8, PersistSealedOutboxAdmits
  <2>9. ASSUME NEW e \in Env, NEW p \in bound.passes[e],
               \/ FetchPage(e, p) \/ Crash(e, p)
               \/ \E exact \in BOOLEAN : StageSyncPage(e, p, exact)
        PROVE  AdmitInv'
    BY <2>1, <2>9, QuietSteps
  <2> QED BY <1>2, <2>2, <2>3, <2>4, <2>5, <2>6, <2>7, <2>8, <2>9 DEF Next, AuthorityMove
<1> QED BY <1>1, <1>2

\* Facts and envelopes, the heads and what processes hold are those of the environments
\* that wrote them (append_kernel.go and sync.go).
THEOREM AdmitInvariant == Spec => []AdmitInv
<1> QED BY AdmitInitInv, AdmitNextInv, ReplicaInvariant, PTL DEF Spec

----------------------------------------------------------------------------
(* What follows from it. *)

\* An envelope of the relay fits the inventory of a store that has the ones before it.
LEMMA RelayFits ==
  ASSUME ReplicaInv, AdmitInv, NEW e \in Env, NEW m \in Arrivals, m > progress[e].applied
  PROVE  LET before == {relay[i] : i \in progress[e].applied + 1 .. m - 1}
         IN  AdmitEnvelope(Inventory(e) \cup before, relay[m]) /\ relay[m] \notin before
<1> DEFINE a == progress[e].applied
           v == relay[m]
           before == {relay[i] : i \in a + 1 .. m - 1}
           V == Inventory(e) \cup before
           same == {u \in V : u.fact.env = v.fact.env /\ u.fact.seq = v.fact.seq}
<1>1. a \in Nat /\ Len(relay) \in Nat /\ Arrivals = 1 .. Len(relay) /\ m \in Nat /\ m > a
  BY InventoryRows
<1>2. \A i \in a + 1 .. m - 1 : i \in Arrivals /\ i # m
  <2> HIDE DEF a
  <2> QED BY <1>1
<1>3. v \notin before
  BY <1>2 DEF AdmitInv, RelayDistinct
<1>4. \A u \in same : u = v
  BY <1>2, InventoryIsRelay, ArrivalsDiffer
<1>5. IF v.fact.seq = 1 THEN v.prev = NoDigest
      ELSE \E u \in V : /\ u.fact.env = v.fact.env
                        /\ u.fact.seq = v.fact.seq - 1
                        /\ Digest(u) = v.prev
  <2>1. CASE v.fact.seq = 1
    BY <2>1 DEF AdmitInv, RelayLinked
  <2>2. CASE v.fact.seq # 1
    <3>1. PICK j \in Arrivals : j < m /\ Precedes(relay[j], v)
      BY <2>2 DEF AdmitInv, RelayLinked
    <3>2. j \in 1 .. a \/ j \in a + 1 .. m - 1
      <4> HIDE DEF a
      <4> QED BY <1>1, <3>1
    <3>3. relay[j] \in V
      BY <3>2, InventoryRows
    <3> QED BY <2>2, <3>1, <3>3 DEF Precedes
  <2> QED BY <2>1, <2>2
<1>6. \A u \in V : u \in Stored
  BY <1>2, InventoryHome DEF Stored
<1>7. same = {} => \A u \in V : u.nonce # v.nonce
  <2> SUFFICES ASSUME same = {}, NEW u \in V, u.nonce = v.nonce PROVE FALSE
    OBVIOUS
  <2>1. v \in Stored
    BY DEF Stored
  <2>2. u = v
    BY <1>6, <2>1 DEF AdmitInv, NoncesDistinct
  <2> QED BY <2>2
<1>8. AdmitEnvelope(V, v)
  <2>1. CASE same = {}
    <3> HIDE DEF v, V
    <3> QED BY <1>5, <1>7, <2>1 DEF AdmitEnvelope
  <2>2. CASE same # {}
    <3>1. same = {v}
      BY <1>4, <2>2
    <3> HIDE DEF v, V
    <3> QED BY <2>2, <3>1 DEF AdmitEnvelope
  <2> QED BY <2>1, <2>2
<1> QED BY <1>3, <1>8

\* The fact of an arrival is in a store already, or it is the next of its environment.
LEMMA RelayContinues ==
  ASSUME ReplicaInv, AdmitInv, NEW e \in Env, NEW m \in Arrivals, m > progress[e].applied
  PROVE  LET f == relay[m].fact
             before == {relay[i] : i \in progress[e].applied + 1 .. m - 1}
             corpus == facts[e] \cup {u.fact : u \in before}
             mine   == {g \in corpus : g.env = f.env}
         IN  f \notin corpus =>
               /\ \A g \in mine : g.seq # f.seq
               /\ f.seq = Cardinality(mine) + 1
               /\ \A g \in mine : HybridTimeLess(g, f)
<1> DEFINE a == progress[e].applied
           f == relay[m].fact
           before == {relay[i] : i \in a + 1 .. m - 1}
           corpus == facts[e] \cup {u.fact : u \in before}
           mine   == {g \in corpus : g.env = f.env}
<1> SUFFICES ASSUME f \notin corpus
             PROVE  /\ \A g \in mine : g.seq # f.seq
                    /\ f.seq = Cardinality(mine) + 1
                    /\ \A g \in mine : HybridTimeLess(g, f)
  OBVIOUS
<1>1. a \in Nat /\ Len(relay) \in Nat /\ Arrivals = 1 .. Len(relay) /\ m \in Nat /\ m > a
  BY InventoryRows
<1>2. \A i \in a + 1 .. m - 1 : i \in Arrivals
  <2> HIDE DEF a
  <2> QED BY <1>1
<1>3. f.env \in Env /\ f \in Own(f.env) /\ f.seq \in Nat /\ 1 <= f.seq /\ f.env # e
  BY ArrivalHome DEF Own
<1>4. Before(f.env, a + 1) = {g.seq : g \in FactsOf(e, f.env)}
  BY <1>3, ForeignRows
<1>5. {g.seq : g \in mine} = 1 .. f.seq - 1
  <2> DEFINE late == {i \in a + 1 .. m - 1 : relay[i].fact.env = f.env}
  <2>1. 1 .. m - 1 = (1 .. (a + 1) - 1) \cup (a + 1 .. m - 1)
    <3> HIDE DEF a
    <3> QED BY <1>1
  <2>2. Before(f.env, m) = Before(f.env, a + 1) \cup {relay[i].fact.seq : i \in late}
    <3> HIDE DEF a, f
    <3> QED BY <2>1 DEF Before
  <2>3. mine = FactsOf(e, f.env) \cup {relay[i].fact : i \in late}
    BY DEF FactsOf
  <2>4. {g.seq : g \in mine} = {g.seq : g \in FactsOf(e, f.env)} \cup {relay[i].fact.seq : i \in late}
    <3> HIDE DEF mine, late, f
    <3> QED BY <2>3
  <2>5. Before(f.env, m) = 1 .. f.seq - 1
    BY ArrivalsBefore
  <2> QED BY <1>4, <2>2, <2>4, <2>5
<1>6. \A g \in mine : g \in Own(f.env)
  <2>1. \A g \in facts[e] : g.env = f.env => g \in Own(f.env)
    BY DEF AdmitInv, FactsHaveHomes, Own
  <2>2. \A u \in before : u.fact.env = f.env => u.fact \in Own(f.env)
    BY <1>2, ArrivalHome
  <2> QED BY <2>1, <2>2
<1>7. \A g \in mine : g.seq \in 1 .. f.seq - 1 /\ g.seq # f.seq /\ g.seq < f.seq
  <2>1. \A g \in mine : g.seq \in 1 .. f.seq - 1
    BY <1>5
  <2> DEFINE n == f.seq
  <2>2. n \in Nat
    BY <1>3
  <2> HIDE DEF n, mine
  <2>3. \A s \in 1 .. n - 1 : s # n /\ s < n
    BY <2>2
  <2> QED BY <2>1, <2>3 DEF n
<1>8. \A g \in mine : HybridTimeLess(g, f)
  BY <1>3, <1>6, <1>7 DEF AdmitInv, OwnOrdered
<1>9. Cardinality(mine) = f.seq - 1
  <2> DEFINE q == [g \in mine |-> g.seq]
             n == f.seq - 1
  <2>1. n \in Nat /\ f.seq = n + 1
    <3> DEFINE s == f.seq
    <3>1. s \in Nat /\ 1 <= s
      BY <1>3
    <3> HIDE DEF s
    <3>2. s - 1 \in Nat /\ s = (s - 1) + 1
      BY <3>1
    <3> QED BY <3>2 DEF s
  <2>2. q \in [mine -> 1 .. n]
    BY <1>7
  <2>3. \A x, y \in mine : q[x] = q[y] => x = y
    BY <1>3, <1>6 DEF ReplicaInv, OwnNumbered
  <2>4. \A i \in 1 .. n : \E x \in mine : q[x] = i
    BY <1>5
  <2> HIDE DEF q, n, mine
  <2> QED BY <2>1, <2>2, <2>3, <2>4, NumberedSet DEF n
<1>10. f.seq = Cardinality(mine) + 1
  <2> DEFINE s == f.seq
  <2>1. s \in Nat /\ Cardinality(mine) = s - 1
    BY <1>3, <1>9
  <2> HIDE DEF s, mine
  <2>2. s = Cardinality(mine) + 1
    BY <2>1
  <2> QED BY <2>2 DEF s
<1> QED BY <1>7, <1>8, <1>10

\* Any run of the frames that wait in an inbox is admitted.
LEMMA BatchesFit == ReplicaInv /\ AdmitInv => StagedFramesFit
<1> SUFFICES ASSUME ReplicaInv, AdmitInv, NEW e \in Env,
                    NEW n \in 1 .. progress[e].downloaded - progress[e].applied
             PROVE  BatchFits(e, n)
  BY DEF StagedFramesFit
<1> DEFINE a == progress[e].applied
<1>1. /\ a \in Nat /\ progress[e].downloaded \in Nat /\ a <= progress[e].downloaded
      /\ progress[e].downloaded <= Len(relay) /\ Len(relay) \in Nat /\ Arrivals = 1 .. Len(relay)
  BY InventoryRows
<1>2. n \in Nat /\ 1 <= n /\ a + n <= progress[e].downloaded
  <2> HIDE DEF a
  <2> QED BY <1>1 DEF a
<1>3. /\ DOMAIN receipts[e] = 1 .. a
      /\ \A i \in 1 .. progress[e].downloaded : Retained(e, i) = relay[i]
  BY DEF ReplicaInv, CursorsAgree
<1>4. ASSUME NEW i \in a + 1 .. a + n PROVE i \in Arrivals /\ inbox[e][i].envelope = relay[i]
  <2>1. i \in 1 .. progress[e].downloaded /\ i \notin 1 .. a /\ i \in Arrivals
    <3> HIDE DEF a
    <3> QED BY <1>1, <1>2
  <2> QED BY <1>3, <2>1 DEF Retained
<1>5. ASSUME NEW k \in 0 .. n PROVE Frames(e, k) = {relay[i] : i \in a + 1 .. a + k}
  <2>1. \A i \in a + 1 .. a + k : i \in a + 1 .. a + n
    <3> HIDE DEF a
    <3> QED BY <1>1, <1>2
  <2> QED BY <1>4, <2>1 DEF Frames
<1>6. ASSUME NEW k \in 1 .. n
      PROVE  FrameFits(e, inbox[e][a + k].envelope, Frames(e, k - 1))
  <2> DEFINE m == a + k
             before == {relay[i] : i \in a + 1 .. m - 1}
  <2>1. m \in a + 1 .. a + n /\ m > a /\ k - 1 \in 0 .. n /\ a + (k - 1) = m - 1
    <3> HIDE DEF a
    <3> QED BY <1>1, <1>2
  <2>2. m \in Arrivals /\ inbox[e][m].envelope = relay[m]
    BY <1>4, <2>1
  <2>3. Frames(e, k - 1) = before
    BY <1>5, <2>1
  <2> HIDE DEF m
  <2>4. AdmitEnvelope(Inventory(e) \cup before, relay[m]) /\ relay[m] \notin before
    BY <2>1, <2>2, RelayFits
  <2>5. LET f == relay[m].fact
            corpus == facts[e] \cup {u.fact : u \in before}
            mine   == {g \in corpus : g.env = f.env}
        IN  f \notin corpus =>
              /\ \A g \in mine : g.seq # f.seq
              /\ f.seq = Cardinality(mine) + 1
              /\ \A g \in mine : HybridTimeLess(g, f)
    BY <2>1, <2>2, RelayContinues
  <2> HIDE DEF before
  <2>6. FrameFits(e, relay[m], before)
    BY <2>4, <2>5 DEF FrameFits
  <2> QED BY <2>2, <2>3, <2>6 DEF m
<1>7. Folds(facts[e] \cup {v.fact : v \in Frames(e, n)})
  <2>1. 1 \in Arrivals
    <3> HIDE DEF a
    <3> QED BY <1>1, <1>2
  <2>2. CASE a = 0
    <3>1. relay[1] \in Frames(e, n)
      <4>1. n \in 0 .. n /\ 1 \in a + 1 .. a + n
        BY <1>2, <2>2
      <4> QED BY <1>5, <4>1
    <3> QED BY <2>1, <3>1 DEF AdmitInv, RegisteredFirst, Folds
  <2>3. CASE a # 0
    <3>1. 1 \in 1 .. a
      BY <1>1, <2>3
    <3>2. <<relay[1].fact.env, relay[1].fact.seq>> \in Share(e)
      BY <3>1 DEF Share
    <3>3. facts[e] # {}
      BY <3>2 DEF ReplicaInv, HoldsShare
    <3> QED BY <3>3 DEF AdmitInv, RegisteredFirst, Folds
  <2> QED BY <2>2, <2>3
<1> QED BY <1>6, <1>7 DEF BatchFits

\* What is checked before an authority is promoted holds of every store.
LEMMA ProtectedStates == ReplicaInv /\ AdmitInv => \A e \in Env : ProtectedState(e)
<1> SUFFICES ASSUME ReplicaInv, AdmitInv, NEW e \in Env PROVE ProtectedState(e)
  OBVIOUS
<1>1. NoncesAreOwned(e)
  BY InventoryHome DEF NoncesAreOwned, AdmitInv, NoncesDistinct
<1>2. ReceiptFrontier(e)
  BY DEF ReceiptFrontier, ReplicaInv, CursorsAgree
<1>3. ASSUME NEW f \in Env PROVE EnvelopeChain(e, f) /\ FactFrontier(e, f)
  <2> DEFINE h == head[e][f]
             V == EnvelopesOf(e, f)
             F == FactsOf(e, f)
  <2>1. /\ HeadFits(e, f) /\ h.highest \in Nat /\ h.sealed \in Nat /\ h.sealed <= h.highest
        /\ {g.seq : g \in F} = 1 .. h.highest /\ {v.fact.seq : v \in V} = 1 .. h.sealed
        /\ \A g \in F : g.seq = h.highest => g.wall = h.wall /\ g.logical = h.logical
        /\ \A v \in V : v.fact.seq = h.sealed => Digest(v) = h.digest
    BY DEF AdmitInv, HeadsFit, HeadFits, HeadRow
  <2>2. \A g \in F : g \in Own(f) /\ g \in facts[e] /\ g.env = f /\ g \in facts[f]
    BY DEF FactsOf, AdmitInv, FactsHaveHomes, Own
  <2>3. \A v \in V : v \in Inventory(e) /\ v.fact \in Own(f) /\ v.fact \in facts[f] /\ v.fact.env = f
    BY InventoryHome DEF EnvelopesOf, Own
  <2>4. \A x, y \in F : x.seq = y.seq => x = y
    BY <2>2 DEF ReplicaInv, OwnNumbered
  <2>5. \A u, v \in V : u.fact.seq = v.fact.seq => u = v
    <3>1. ASSUME NEW u \in V, NEW v \in V, u.fact.seq = v.fact.seq PROVE u = v
      <4>1. u.fact = v.fact
        BY <2>3, <3>1 DEF ReplicaInv, OwnNumbered
      <4> QED BY <2>3, <4>1 DEF AdmitInv, OneEnvelope
    <3> QED BY <3>1
  <2> HIDE DEF h
  <2>6. Cardinality(F) = h.highest
    <3> DEFINE q == [g \in F |-> g.seq]
    <3>1. q \in [F -> 1 .. h.highest]
      BY <2>1
    <3>2. \A x, y \in F : q[x] = q[y] => x = y
      BY <2>4
    <3>3. \A i \in 1 .. h.highest : \E x \in F : q[x] = i
      BY <2>1
    <3> HIDE DEF q, F
    <3> QED BY <2>1, <3>1, <3>2, <3>3, NumberedSet
  <2>7. Cardinality(V) = h.sealed
    <3> DEFINE q == [v \in V |-> v.fact.seq]
    <3>1. q \in [V -> 1 .. h.sealed]
      BY <2>1
    <3>2. \A x, y \in V : q[x] = q[y] => x = y
      BY <2>5
    <3>3. \A i \in 1 .. h.sealed : \E x \in V : q[x] = i
      BY <2>1
    <3>4. h.sealed \in Nat
      BY <2>1
    <3> HIDE DEF q, V
    <3> QED BY <3>1, <3>2, <3>3, <3>4, NumberedSet
  <2>8. \A v \in V : IF v.fact.seq = 1 THEN TRUE
                     ELSE \E u \in V : u.fact.seq = v.fact.seq - 1 /\ Digest(u) = v.prev
    <3>1. ASSUME NEW v \in V, v.fact.seq # 1
          PROVE  \E u \in V : u.fact.seq = v.fact.seq - 1 /\ Digest(u) = v.prev
      <4>1. PICK u \in Inventory(e) : Precedes(u, v)
        BY <2>3, <3>1 DEF AdmitInv, InventoryLinked
      <4> QED BY <2>3, <4>1 DEF Precedes, EnvelopesOf
    <3> QED BY <3>1
  <2>9. EnvelopeChain(e, f)
    BY <2>1, <2>7, <2>8 DEF EnvelopeChain, EnvelopesOf, h
  <2>10. \A g1, g2 \in F : g1.seq < g2.seq => HybridTimeLess(g1, g2)
    BY <2>2 DEF AdmitInv, OwnOrdered
  <2>11. ASSUME NEW g \in F PROVE (g.seq <= h.sealed) <=> (\E v \in Inventory(e) : v.fact = g)
    <3>1. g.seq \in 1 .. h.highest
      BY <2>1
    <3>2. ASSUME g.seq <= h.sealed PROVE \E v \in Inventory(e) : v.fact = g
      <4>1. g.seq \in 1 .. h.sealed
        BY <2>1, <3>1, <3>2
      <4>2. PICK v \in V : v.fact.seq = g.seq
        BY <2>1, <4>1
      <4>3. v.fact = g
        BY <2>2, <2>3, <4>2 DEF ReplicaInv, OwnNumbered
      <4> QED BY <2>3, <4>3
    <3>3. ASSUME NEW v \in Inventory(e), v.fact = g PROVE g.seq <= h.sealed
      <4>1. v \in V
        BY <2>2, <3>3 DEF EnvelopesOf
      <4>2. v.fact.seq \in 1 .. h.sealed
        BY <2>1, <4>1
      <4> QED BY <2>1, <3>3, <4>2
    <3> QED BY <3>2, <3>3
  <2>12. FactFrontier(e, f)
    BY <2>1, <2>6, <2>10, <2>11 DEF FactFrontier, FactsOf, h
  <2> QED BY <2>9, <2>12
<1> QED BY <1>1, <1>2, <1>3 DEF ProtectedState

----------------------------------------------------------------------------
(* Certificates.                                                            *)
(*                                                                          *)
(* The membership a store has retained beside its watermark was read after  *)
(* the arrivals the watermark counts, so it names everyone who wrote them.  *)

\* The members S name every producer of the first n arrivals.
Covers(S, n) == \A i \in 1 .. n : S[relay[i].fact.env] # "out"

AuthorityRow(r) == "floor" \in DOMAIN r

FloorInv ==
  /\ members \in [Env -> Standing]
  /\ authority = [e \in Env |-> authority[e]] /\ \A e \in Env : AuthorityRow(authority[e])
  /\ watermark = [e \in Env |-> watermark[e]] /\ \A e \in Env : watermark[e] \in Nat /\ watermark[e] <= Len(relay)
  /\ Covers(members, Len(relay))
  /\ \A e \in Env : Covers(authority[e].floor, watermark[e])

LEMMA FloorInitInv == Init => FloorInv
<1> SUFFICES ASSUME Init PROVE FloorInv
  OBVIOUS
<1> USE DEF Init
<1>1. Len(relay) = 0 /\ \A e \in Env : watermark[e] = 0
  OBVIOUS
<1>2. members \in [Env -> Standing]
  BY SyncStoreAssumption DEF Standing
<1>3. \A e \in Env : AuthorityRow(authority[e])
  BY DEF AuthorityRow, NoAuthority
<1> QED BY <1>1, <1>2, <1>3 DEF FloorInv, Covers

\* What a store may do to its row and its watermark in one step.
FloorKept(e, row, mark) ==
  /\ AuthorityRow(row)
  /\ \/ row.floor = authority[e].floor /\ mark = watermark[e]
     \/ row.floor = members /\ mark \in {watermark[e], Len(relay)}

\* A store that keeps its membership or takes up the present one still names everyone.
LEMMA FloorStays ==
  ASSUME ReplicaInv, FloorInv, UNCHANGED <<members, relay>>, NEW e \in Env, NEW row, NEW mark,
         authority' = [authority EXCEPT ![e] = row], watermark' = [watermark EXCEPT ![e] = mark],
         FloorKept(e, row, mark)
  PROVE  FloorInv'
<1>1. Len(relay) \in Nat
  BY DEF ReplicaInv, TablesTyped
<1>2. /\ authority'[e] = row /\ watermark'[e] = mark
      /\ authority' = [d \in Env |-> authority'[d]] /\ watermark' = [d \in Env |-> watermark'[d]]
      /\ \A d \in Env : d # e => authority'[d] = authority[d] /\ watermark'[d] = watermark[d]
  BY DEF FloorInv
<1>3. mark \in Nat /\ mark <= Len(relay)
  BY <1>1 DEF FloorKept, FloorInv
<1>4. Covers(row.floor, mark)
  <2>1. CASE row.floor = authority[e].floor /\ mark = watermark[e]
    BY <2>1 DEF FloorInv
  <2>2. CASE row.floor = members
    BY <1>1, <1>3, <2>2 DEF FloorInv, Covers
  <2> QED BY <2>1, <2>2 DEF FloorKept
<1>5. Covers(members, Len(relay))' /\ members' \in [Env -> Standing]
  BY DEF FloorInv, Covers
<1>6. ASSUME NEW d \in Env
      PROVE  /\ AuthorityRow(authority'[d]) /\ watermark'[d] \in Nat /\ watermark'[d] <= Len(relay')
             /\ \A i \in 1 .. watermark'[d] : authority'[d].floor[relay'[i].fact.env] # "out"
  <2>1. CASE d = e
    BY <1>2, <1>3, <1>4, <2>1 DEF FloorKept, Covers
  <2>2. CASE d # e
    BY <1>2, <2>2 DEF FloorInv, Covers
  <2> QED BY <2>1, <2>2
<1> QED BY <1>2, <1>5, <1>6 DEF FloorInv, Covers

\* Nothing is retained of an older relay than the one seen before.
LEMMA ObservedHead ==
  ASSUME FloorInv, NEW e \in Env, Observe(e), Len(relay) \in Nat
  PROVE  watermark' = [watermark EXCEPT ![e] = Len(relay)]
<1>1. watermark[e] \in Nat /\ watermark[e] <= Len(relay)
  BY DEF FloorInv
<1>2. Max({watermark[e], Len(relay)}) = Len(relay)
  <2>1. \E m \in {watermark[e], Len(relay)} : \A y \in {watermark[e], Len(relay)} : m >= y
    BY <1>1
  <2>2. /\ Max({watermark[e], Len(relay)}) \in {watermark[e], Len(relay)}
        /\ \A y \in {watermark[e], Len(relay)} : Max({watermark[e], Len(relay)}) >= y
    BY <2>1 DEF Max
  <2> QED BY <1>1, <2>2
<1> QED BY <1>2 DEF Observe

\* Another member, or the next standing of one: nobody is forgotten.
LEMMA MemberStep ==
  ASSUME ReplicaInv, FloorInv, NEW e \in Env, MoveMember(e)
  PROVE  FloorInv'
<1>1. UNCHANGED <<authority, watermark, relay>>
  BY DEF MoveMember, storeVars
<1>2. PICK s \in {"in", "retired"} : members' = [members EXCEPT ![e] = s]
  BY DEF MoveMember
<1>3. members' \in [Env -> Standing]
  BY <1>2 DEF FloorInv, Standing
<1>4. \A i \in 1 .. Len(relay) : relay[i].fact.env \in Env
  <2>1. Arrivals = 1 .. Len(relay)
    BY DEF ReplicaInv, TablesTyped, Arrivals
  <2> QED BY <2>1 DEF ReplicaInv, TablesTyped
<1>5. \A i \in 1 .. Len(relay) : members'[relay[i].fact.env] # "out"
  BY <1>2, <1>4 DEF FloorInv, Covers
<1>6. Covers(members, Len(relay))'
  BY <1>1, <1>5 DEF Covers
<1>7. \A d \in Env : Covers(authority[d].floor, watermark[d])'
  BY <1>1 DEF FloorInv, Covers
<1> QED BY <1>1, <1>3, <1>6, <1>7 DEF FloorInv

\* The steps of a store's own authority.
LEMMA AuthorityFloors ==
  ASSUME ReplicaInv, FloorInv, NEW e \in Env, AuthorityMove(e) \/ DiscardStagedSync(e)
  PROVE  FloorInv'
<1>1. /\ "floor" \in DOMAIN authority[e]
      /\ authority = [d \in Env |-> authority[d]] /\ watermark = [d \in Env |-> watermark[d]]
      /\ Len(relay) \in Nat
  BY DEF ReplicaInv, TablesTyped, FloorInv, AuthorityRow
<1> DEFINE old == authority[e]
<1>2. ASSUME NEW row, row.floor = old.floor /\ "floor" \in DOMAIN row,
             UNCHANGED <<members, relay, watermark>>,
             authority' = [authority EXCEPT ![e] = row]
      PROVE  FloorInv'
  <2>1. watermark' = [watermark EXCEPT ![e] = watermark[e]]
    BY <1>1, <1>2
  <2>2. FloorKept(e, row, watermark[e])
    BY <1>2 DEF FloorKept, AuthorityRow
  <2> QED BY <1>2, <2>1, <2>2, FloorStays
<1>3. ASSUME NEW row, row.floor = members /\ "floor" \in DOMAIN row,
             UNCHANGED <<members, relay>>, Observe(e) \/ UNCHANGED watermark,
             authority' = [authority EXCEPT ![e] = row]
      PROVE  FloorInv'
  <2>1. \E mark \in {watermark[e], Len(relay)} : watermark' = [watermark EXCEPT ![e] = mark]
    <3>1. CASE UNCHANGED watermark
      BY <1>1, <3>1
    <3>2. CASE Observe(e)
      BY <1>1, <3>2, ObservedHead
    <3> QED BY <1>3, <3>1, <3>2
  <2>2. \A mark \in {watermark[e], Len(relay)} : FloorKept(e, row, mark)
    BY <1>3 DEF FloorKept, AuthorityRow
  <2> QED BY <1>3, <2>1, <2>2, FloorStays
<1> USE DEF storeVars, channelVars
<1>4. CASE ActivateStagedSync(e)
  <2>1. UNCHANGED <<members, relay, watermark, authority>>
    BY <1>4 DEF ActivateStagedSync
  <2> QED BY <2>1 DEF FloorInv, Covers, AuthorityRow
<1>5. CASE MoveMember(e)
  BY <1>5, MemberStep
<1>6. CASE InstallVerifiedSyncAuthority(e) \/ ReinstallSyncAuthority(e)
  <2> DEFINE row == [old EXCEPT !.pins = members, !.floor = members]
  <2>1. /\ UNCHANGED <<members, relay, watermark>>
        /\ authority' = [authority EXCEPT ![e] = row]
    BY <1>6 DEF InstallVerifiedSyncAuthority, ReinstallSyncAuthority
  <2>2. row.floor = members /\ "floor" \in DOMAIN row
    BY <1>1
  <2> HIDE DEF row
  <2> QED BY <1>3, <2>1, <2>2
<1>7. CASE AdvanceSyncRelayWatermark(e)
  <2> DEFINE row == [old EXCEPT !.floor = members]
  <2>1. /\ UNCHANGED <<members, relay>> /\ Observe(e)
        /\ authority' = [authority EXCEPT ![e] = row]
    BY <1>7 DEF AdvanceSyncRelayWatermark
  <2>2. row.floor = members /\ "floor" \in DOMAIN row
    BY <1>1
  <2> HIDE DEF row
  <2> QED BY <1>3, <2>1, <2>2
<1>8. CASE StageAuthorityCandidate(e)
  <2> DEFINE row == [old EXCEPT !.floor = members,
                               !.candidate = {[cutoff |-> Len(relay), pins |-> members]}]
  <2>1. /\ UNCHANGED <<members, relay>> /\ Observe(e)
        /\ authority' = [authority EXCEPT ![e] = row]
    BY <1>8 DEF StageAuthorityCandidate
  <2>2. row.floor = members /\ "floor" \in DOMAIN row
    BY <1>1
  <2> HIDE DEF row
  <2> QED BY <1>3, <2>1, <2>2
<1>9. CASE BeginRecovery(e)
  <2> DEFINE row == [old EXCEPT !.floor = members, !.recovery = "transition"]
  <2>1. /\ UNCHANGED <<members, relay>> /\ Observe(e)
        /\ authority' = [authority EXCEPT ![e] = row]
    BY <1>9 DEF BeginRecovery
  <2>2. row.floor = members /\ "floor" \in DOMAIN row
    BY <1>1
  <2> HIDE DEF row
  <2> QED BY <1>3, <2>1, <2>2
<1>10. CASE DiscardAuthorityCandidate(e)
  <2> DEFINE row == [old EXCEPT !.candidate = {}]
  <2>1. /\ UNCHANGED <<members, relay, watermark>>
        /\ authority' = [authority EXCEPT ![e] = row]
    BY <1>10 DEF DiscardAuthorityCandidate
  <2>2. row.floor = old.floor /\ "floor" \in DOMAIN row
    BY <1>1
  <2> HIDE DEF row
  <2> QED BY <1>2, <2>1, <2>2
<1>11. CASE StagePruneCandidate(e)
  <2> DEFINE row == [old EXCEPT !.recovery = "prunes"]
  <2>1. /\ UNCHANGED <<members, relay, watermark>>
        /\ authority' = [authority EXCEPT ![e] = row]
    BY <1>11 DEF StagePruneCandidate
  <2>2. row.floor = old.floor /\ "floor" \in DOMAIN row
    BY <1>1
  <2> HIDE DEF row
  <2> QED BY <1>2, <2>1, <2>2
<1>12. CASE StageTerminalCandidate(e)
  <2> DEFINE row == [old EXCEPT !.terminal = {Pin(e)}]
  <2>1. /\ UNCHANGED <<members, relay, watermark>>
        /\ authority' = [authority EXCEPT ![e] = row]
    BY <1>12 DEF StageTerminalCandidate
  <2>2. row.floor = old.floor /\ "floor" \in DOMAIN row
    BY <1>1
  <2> HIDE DEF row
  <2> QED BY <1>2, <2>1, <2>2
<1>13. CASE GiveUp(e)
  <2>1. UNCHANGED <<members, relay, watermark>>
    BY <1>13 DEF GiveUp
  <2>2. PICK row \in {[old EXCEPT !.terminal = {}], [old EXCEPT !.recovery = "none"]} :
          authority' = [authority EXCEPT ![e] = row]
    BY <1>13 DEF GiveUp
  <2>3. row.floor = old.floor /\ "floor" \in DOMAIN row
    BY <1>1
  <2> QED BY <1>2, <2>1, <2>2, <2>3
<1>14. CASE DiscardStagedSync(e)
  <2> DEFINE row == [old EXCEPT !.pins = Nobody]
  <2>1. /\ UNCHANGED <<members, relay, watermark>>
        /\ authority' = [authority EXCEPT ![e] = row]
    BY <1>14 DEF DiscardStagedSync
  <2>2. row.floor = old.floor /\ "floor" \in DOMAIN row
    BY <1>1
  <2> HIDE DEF row
  <2> QED BY <1>2, <2>1, <2>2
<1>15. CASE PromoteAuthority(e)
  <2>1. PICK c \in authority[e].candidate :
          /\ UNCHANGED <<members, relay, watermark>>
          /\ authority' = [authority EXCEPT ![e] = [old EXCEPT !.pins = c.pins, !.candidate = {}]]
    BY <1>15 DEF PromoteAuthority
  <2> DEFINE row == [old EXCEPT !.pins = c.pins, !.candidate = {}]
  <2>2. row.floor = old.floor /\ "floor" \in DOMAIN row
    BY <1>1
  <2>3. authority' = [authority EXCEPT ![e] = row]
    BY <2>1
  <2> HIDE DEF row
  <2> QED BY <1>2, <2>1, <2>2, <2>3
<1> QED BY <1>4, <1>5, <1>6, <1>7, <1>8, <1>9, <1>10, <1>11, <1>12, <1>13, <1>14, <1>15
        DEF AuthorityMove

\* An arrival more is of a member the relay serves.
LEMMA SendFloors ==
  ASSUME ReplicaInv, FloorInv, NEW e \in Env, SendOutbox(e)
  PROVE  FloorInv'
<1>1. PICK v \in outbox[e] :
        /\ Served(e) /\ relay' = Append(relay, v)
        /\ UNCHANGED <<watermark, authority, members>>
  BY DEF SendOutbox, storeVars, channelVars
<1>2. v.fact.env = e
  BY DEF ReplicaInv, OwnSealed, Own
<1>3. /\ Len(relay) \in Nat /\ Len(relay') = Len(relay) + 1 /\ Arrivals = 1 .. Len(relay)
      /\ \A i \in Arrivals : relay'[i] = relay[i]
      /\ relay'[Len(relay) + 1] = v
  <2>1. relay \in Seq({relay[i] : i \in DOMAIN relay})
    BY DEF ReplicaInv, TablesTyped, Arrivals
  <2> QED BY <1>1, <2>1, ListGrows DEF Arrivals
<1>4. \A i \in 1 .. Len(relay') : members[relay'[i].fact.env] # "out"
  <2>1. \A i \in 1 .. Len(relay') : i \in Arrivals \/ i = Len(relay) + 1
    BY <1>3
  <2>2. members[e] # "out"
    BY <1>1 DEF Served
  <2> QED BY <1>2, <1>3, <2>1, <2>2 DEF FloorInv, Covers
<1>5. \A d \in Env : Covers(authority[d].floor, watermark[d])'
  <2>1. ASSUME NEW d \in Env, NEW i \in 1 .. watermark[d]
        PROVE  authority[d].floor[relay'[i].fact.env] # "out"
    <3>1. watermark[d] \in Nat /\ watermark[d] <= Len(relay)
      BY DEF FloorInv
    <3>2. i \in Arrivals
      BY <1>3, <3>1
    <3> QED BY <1>3, <3>2 DEF FloorInv, Covers
  <2> QED BY <1>1, <2>1 DEF Covers
<1>6. \A d \in Env : watermark[d] \in Nat /\ watermark[d] <= Len(relay')
  BY <1>3 DEF FloorInv
<1> QED BY <1>1, <1>4, <1>5, <1>6 DEF FloorInv, Covers

LEMMA FloorNextInv == ReplicaInv /\ FloorInv /\ [Next]_vars => FloorInv'
<1> SUFFICES ASSUME ReplicaInv, FloorInv, [Next]_vars PROVE FloorInv'
  OBVIOUS
<1> USE DEF storeVars, channelVars
<1>1. ASSUME UNCHANGED <<relay, members, authority, watermark>> PROVE FloorInv'
  BY <1>1 DEF FloorInv, Covers
<1>2. CASE UNCHANGED vars
  <2>1. UNCHANGED <<relay, members, authority, watermark>>
    BY <1>2 DEF vars
  <2> QED BY <1>1, <2>1
<1>3. CASE Next
  <2>1. CASE Tick \/ \E i, closure \in Arrivals : PruneArrival(i, closure)
    <3>1. UNCHANGED <<relay, members, authority, watermark>>
      BY <2>1 DEF Tick, PruneArrival
    <3> QED BY <1>1, <3>1
  <2>2. ASSUME NEW e \in Env, SendOutbox(e) PROVE FloorInv'
    BY <2>2, SendFloors
  <2>3. ASSUME NEW e \in Env, AuthorityMove(e) \/ DiscardStagedSync(e) PROVE FloorInv'
    BY <2>3, AuthorityFloors
  <2>4. ASSUME NEW e \in Env, AppendFact(e) \/ \E n \in 1 .. bound.page : ApplySyncBatch(e, n)
        PROVE  FloorInv'
    <3>1. UNCHANGED <<relay, members, authority, watermark>>
      BY <2>4 DEF AppendFact, ApplySyncBatch
    <3> QED BY <1>1, <3>1
  <2>5. ASSUME NEW e \in Env, NEW p \in bound.passes[e],
               \/ SealNext(e, p) \/ PersistSealedOutbox(e, p) \/ FetchPage(e, p) \/ Crash(e, p)
               \/ \E exact \in BOOLEAN : StageSyncPage(e, p, exact)
        PROVE  FloorInv'
    <3>1. UNCHANGED <<relay, members, authority, watermark>>
      BY <2>5 DEF SealNext, PersistSealedOutbox, FetchPage, Crash, StageSyncPage
    <3> QED BY <1>1, <3>1
  <2> QED BY <1>3, <2>1, <2>2, <2>3, <2>4, <2>5 DEF Next, AuthorityMove
<1> QED BY <1>2, <1>3

LEMMA FloorsCover == Spec => []FloorInv
<1> QED BY FloorInitInv, FloorNextInv, ReplicaInvariant, PTL DEF Spec

\* Who wrote a staged frame is named by an authority that is the present one.
LEMMA NobodyUncertified == ReplicaInv /\ AdmitInv /\ FloorInv => AppliedOrHistory
<1> SUFFICES ASSUME ReplicaInv, AdmitInv, FloorInv, NEW e \in Env,
                    NEW n \in 1 .. progress[e].downloaded - progress[e].applied,
                    binding[e].version = 2, ApplyAuthority(e),
                    \A i \in Upcoming(e, n) : ~ NeedsHistory(e, i)
             PROVE  BatchAdmits(e, n)
  BY DEF AppliedOrHistory
<1>1. BatchFits(e, n)
  BY BatchesFit DEF StagedFramesFit
<1>2. ASSUME NEW i \in Upcoming(e, n) PROVE CertifiedFrame(e, inbox[e][i].envelope)
  <2>1. /\ progress[e].applied \in Nat /\ progress[e].downloaded \in Nat
        /\ progress[e].downloaded <= Len(relay)
    BY InventoryRows
  <2>2. i \in progress[e].applied + 1 .. progress[e].applied + n
    BY <1>2 DEF Upcoming
  <2>3. i \in 1 .. progress[e].downloaded /\ i \notin 1 .. progress[e].applied
    BY <2>1, <2>2
  <2>4. inbox[e][i].envelope = relay[i]
    BY <2>3 DEF ReplicaInv, CursorsAgree, Retained
  <2>5. /\ watermark[e] = binding[e].cutoff /\ authority[e].floor = authority[e].pins
        /\ progress[e].downloaded <= binding[e].cutoff
    BY DEF ApplyAuthority, ExactWatermark
  <2>6. watermark[e] \in Nat /\ Covers(authority[e].floor, watermark[e])
    BY DEF FloorInv
  <2>7. i \in 1 .. watermark[e]
    BY <2>1, <2>3, <2>5, <2>6
  <2> QED BY <2>4, <2>5, <2>6, <2>7 DEF Covers, CertifiedFrame
<1> QED BY <1>1, <1>2 DEF BatchAdmits

\* No staged frame is refused for what it says, and under an authority that is the present
\* one none for who wrote it: what stops a batch is an authority that is not the present
\* one, something else under way, or a terminal history.  And no store is refused an
\* authority for what these operations did to it (ApplySyncBatch, with
\* validateOrdinarySyncFrameAuthorityV2, and validateSyncAuthorityPromotionProtectedStateV2).
THEOREM StagedFramesAreAdmitted == Spec => []NothingStagedIsRefused
<1>1. ReplicaInv /\ AdmitInv /\ FloorInv => NothingStagedIsRefused
  BY BatchesFit, NobodyUncertified, ProtectedStates DEF NothingStagedIsRefused
<1> QED BY <1>1, ReplicaInvariant, AdmitInvariant, FloorsCover, PTL

=============================================================================
