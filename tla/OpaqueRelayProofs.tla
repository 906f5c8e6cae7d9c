-------------------------- MODULE OpaqueRelayProofs --------------------------
(***************************************************************************)
(* What the vNext relay's store guarantees for any number of environments, *)
(* arrivals, generations and prunes.  RelayInv is inductive.               *)
(***************************************************************************)
EXTENDS OpaqueRelay, ListFacts

----------------------------------------------------------------------------
(* The inductive invariant. *)

\* A row carries the generations of its registration and of its retirement,
\* and neither is past the channel's.
RowsInMembership ==
  /\ membership \in Nat
  /\ DOMAIN envs = Env
  /\ \A e \in Registered :
       /\ envs[e] = [credential |-> envs[e].credential, joined |-> envs[e].joined,
                     retired |-> envs[e].retired]
       /\ envs[e].joined \in Nat /\ envs[e].joined <= membership
  /\ \A e \in Retired : /\ envs[e].retired.generation \in Nat
                        /\ envs[e].retired.generation <= membership

\* An arrival is an envelope and the number of the prune that blanked it.
ArrivalsTyped ==
  /\ arrivals \in Seq({arrivals[i] : i \in Numbers})
  /\ \A i \in Numbers :
       /\ arrivals[i] = [envelope |-> arrivals[i].envelope, pruned |-> arrivals[i].pruned]
       /\ arrivals[i].pruned \in 0 .. Len(prunes)

\* What an environment acknowledged it has applied.
AcksAreHonest ==
  /\ applied \in [Env -> Nat]
  /\ DOMAIN acks \subseteq Env
  /\ \A e \in DOMAIN acks : /\ acks[e].generation \in Nat
                            /\ acks[e].applied \in Nat
                            /\ acks[e].applied <= applied[e]

\* A prune was for a generation the channel has reached, and its closure is an arrival.
PrunesInMembership ==
  /\ prunes \in Seq([generation : Nat, barrier : Nat, closure : Nat, targets : SUBSET Nat])
  /\ \A k \in DOMAIN prunes : /\ prunes[k].generation <= membership
                              /\ prunes[k].closure \in Numbers

\* The snapshot a reader carries is one the channel was at.
SnapshotIsPast ==
  reader.state # "idle" =>
    /\ reader.state \in {"reading", "done"}
    /\ reader.snap.generation \in Nat /\ reader.snap.generation <= membership
    /\ reader.snap.head \in Nat /\ reader.snap.head <= ChannelHead

\* While no environment joins or retires, a reader has every environment up to
\* its cursor, as of its snapshot.
PagesAreExact ==
  reader.state = "reading" =>
    /\ reader.after \in Nat
    /\ reader.snap.generation = membership =>
         /\ {r.env : r \in reader.got} = {e \in Registered : e <= reader.after}
         /\ \A r \in reader.got : r = Record(r.env, reader.snap.head)

RelayInv ==
  /\ bound \in Bounds
  /\ RowsInMembership
  /\ ArrivalsTyped
  /\ AcksAreHonest
  /\ PrunesInMembership
  /\ PrunesLoseNothing
  /\ SnapshotIsPast
  /\ PagesAreExact
  /\ InventoryIsOneSnapshot

----------------------------------------------------------------------------
(* What stays true of the past. *)

\* What the prune certificates hold.
LEMMA PruneRows ==
  ASSUME PrunesInMembership
  PROVE  /\ Len(prunes) \in Nat /\ DOMAIN prunes = 1 .. Len(prunes)
         /\ \A k \in DOMAIN prunes : /\ prunes[k].generation \in Nat
                                     /\ prunes[k].closure \in Nat
<1> DEFINE Row == [generation : Nat, barrier : Nat, closure : Nat, targets : SUBSET Nat]
<1>1. prunes \in Seq(Row)
  BY DEF PrunesInMembership
<1>2. \A r \in Row : r.generation \in Nat /\ r.closure \in Nat
  OBVIOUS
<1> HIDE DEF Row
<1> QED BY <1>1, <1>2

\* The arrivals there were keep their numbers and their envelopes.
ArrivalsGrow ==
  /\ DOMAIN arrivals' = 1 .. Len(arrivals') /\ Len(arrivals') \in Nat
  /\ ChannelHead <= Len(arrivals')
  /\ \A i \in Numbers : arrivals'[i].envelope = arrivals[i].envelope

\* A producer's last envelope up to a head that was reached is the same ever after.
LEMMA HeadsArePast ==
  ASSUME ArrivalsTyped, ArrivalsGrow, NEW e, NEW h \in Nat, h <= ChannelHead
  PROVE  ProducerHeadAt(e, h)' = ProducerHeadAt(e, h)
<1> DEFINE J == {j \in Numbers : j <= h /\ arrivals[j].envelope.env = e}
           K == {j \in DOMAIN arrivals' : j <= h /\ arrivals'[j].envelope.env = e}
<1>1. Len(arrivals) \in Nat /\ Numbers = 1 .. Len(arrivals)
  BY DEF ArrivalsTyped, Numbers
<1>2. J = K
  BY <1>1 DEF ArrivalsGrow, ChannelHead
<1>3. {arrivals[i].envelope.seq : i \in J} = {arrivals'[i].envelope.seq : i \in K}
  BY <1>2 DEF ArrivalsGrow
<1> DEFINE Last(S) == IF S = {} THEN 0 ELSE CHOOSE m \in S : \A s \in S : s <= m
<1>4. /\ ProducerHeadAt(e, h) = Last({arrivals[i].envelope.seq : i \in J})
      /\ ProducerHeadAt(e, h)' = Last({arrivals'[i].envelope.seq : i \in K})
  BY Zenon DEF ProducerHeadAt, Numbers
<1> HIDE DEF Last, J, K
<1> QED BY <1>3, <1>4

\* A reader the step leaves alone keeps what it knows, when no environment
\* joins or retires.
LEMMA ReaderKept ==
  ASSUME RelayInv, ArrivalsGrow, reader' = reader, envs' = envs, membership' = membership
  PROVE  SnapshotIsPast' /\ PagesAreExact' /\ InventoryIsOneSnapshot'
<1> DEFINE h == reader.snap.head
<1>1. Registered' = Registered /\ Retired' = Retired
  BY DEF Registered, Retired
<1>2. SnapshotIsPast'
  <2>1. ChannelHead \in Nat /\ ChannelHead' \in Nat /\ ChannelHead <= ChannelHead'
    BY DEF RelayInv, ArrivalsTyped, Numbers, ArrivalsGrow, ChannelHead
  <2> QED BY <2>1 DEF RelayInv, SnapshotIsPast
<1>3. ASSUME reader.state # "idle", NEW e
      PROVE  ProducerHeadAt(e, h)' = ProducerHeadAt(e, h)
  <2>1. h \in Nat /\ h <= ChannelHead
    BY <1>3 DEF RelayInv, SnapshotIsPast
  <2>2. h' = h
    OBVIOUS
  <2> QED BY <2>1, <2>2, HeadsArePast DEF RelayInv
<1>4. ASSUME reader.state # "idle", NEW e
      PROVE  Record(e, h)' = Record(e, h)
  BY <1>3, <1>4 DEF Record
<1>5. PagesAreExact'
  BY <1>1, <1>4 DEF RelayInv, PagesAreExact
<1>6. InventoryIsOneSnapshot'
  BY <1>1, <1>3 DEF RelayInv, InventoryIsOneSnapshot
<1> QED BY <1>2, <1>5, <1>6

----------------------------------------------------------------------------
(* One lemma per action. *)

LEMMA RelayInitInv == Init => RelayInv
<1> SUFFICES ASSUME Init PROVE RelayInv
  OBVIOUS
<1> USE DEF Init
<1>1. Registered = {} /\ Retired = {} /\ Numbers = {}
  BY DEF Registered, Retired, Numbers
<1>2. RowsInMembership
  BY <1>1 DEF RowsInMembership
<1>3. ArrivalsTyped
  BY <1>1 DEF ArrivalsTyped
<1>4. AcksAreHonest /\ PrunesInMembership /\ PrunesLoseNothing
  BY DEF AcksAreHonest, PrunesInMembership, PrunesLoseNothing, PrunedWasApplied
<1>5. SnapshotIsPast /\ PagesAreExact /\ InventoryIsOneSnapshot
  BY DEF SnapshotIsPast, PagesAreExact, InventoryIsOneSnapshot, NoSnapshot
<1> QED BY <1>2, <1>3, <1>4, <1>5 DEF RelayInv

\* CreateChannel, Expire and stuttering change nothing the invariant is about.
LEMMA UntouchedStep ==
  ASSUME RelayInv,
         UNCHANGED <<membership, envs, arrivals, acks, prunes, applied, reader, bound>>
  PROVE  RelayInv'
<1>1. Registered' = Registered /\ Retired' = Retired /\ Numbers' = Numbers
  BY DEF Registered, Retired, Numbers
<1>2. \A e, h : ProducerHeadAt(e, h)' = ProducerHeadAt(e, h)
  BY <1>1 DEF ProducerHeadAt
<1>3. RowsInMembership' /\ ArrivalsTyped' /\ AcksAreHonest' /\ PrunesInMembership'
  BY <1>1 DEF RelayInv, RowsInMembership, ArrivalsTyped, AcksAreHonest, PrunesInMembership
<1>4. PrunesLoseNothing'
  BY <1>1 DEF RelayInv, PrunesLoseNothing, PrunedWasApplied
<1>5. SnapshotIsPast' /\ PagesAreExact' /\ InventoryIsOneSnapshot'
  BY <1>1, <1>2 DEF RelayInv, SnapshotIsPast, PagesAreExact, InventoryIsOneSnapshot,
                    Record, ChannelHead
<1> QED BY <1>3, <1>4, <1>5 DEF RelayInv

\* A new environment joins at a generation past every prune and every snapshot.
LEMMA RegisterEnvironmentStep ==
  ASSUME RelayInv, NEW o, NEW e \in Env, NEW c, NEW g, RegisterEnvironment(o, e, c, g),
         bound' = bound
  PROVE  RelayInv'
<1> USE DEF RegisterEnvironment, RegistrationNext
<1>1. /\ DOMAIN envs = Env /\ membership \in Nat /\ g = membership + 1
      /\ e \notin Registered /\ Numbers' = Numbers
  BY DEF RelayInv, RowsInMembership, Numbers
<1>2. /\ envs'[e] = [credential |-> c, joined |-> g, retired |-> <<>>]
      /\ \A d \in Env : d # e => envs'[d] = envs[d]
      /\ DOMAIN envs' = Env
  BY <1>1
<1>3. Registered' = Registered \cup {e} /\ Retired' = Retired
  BY <1>1, <1>2 DEF Registered, Retired
<1>4. \A d \in Registered : d # e /\ envs'[d] = envs[d]
  BY <1>1, <1>2 DEF Registered
<1>5. RowsInMembership'
  BY <1>1, <1>2, <1>3, <1>4 DEF RelayInv, RowsInMembership, Retired
<1>6. ArrivalsTyped' /\ AcksAreHonest' /\ PrunesInMembership'
  <2>1. ArrivalsTyped' /\ AcksAreHonest'
    BY <1>1 DEF RelayInv, ArrivalsTyped, AcksAreHonest
  <2>2. PrunesInMembership'
    BY <1>1, PruneRows DEF RelayInv, PrunesInMembership
  <2> QED BY <2>1, <2>2
<1>7. PrunesLoseNothing'
  <2>1. \A k \in DOMAIN prunes : prunes[k].generation \in Nat /\ prunes[k].generation < g
    BY <1>1, PruneRows DEF RelayInv, PrunesInMembership
  <2>2. PrunedWasApplied'
    BY <1>1, <1>2, <1>3, <1>4, <2>1 DEF RelayInv, PrunesLoseNothing, PrunedWasApplied, Retired
  <2> QED BY <1>1, <2>2 DEF RelayInv, PrunesLoseNothing
<1>8. \A d, h : ProducerHeadAt(d, h)' = ProducerHeadAt(d, h)
  BY <1>1 DEF ProducerHeadAt
<1>9. SnapshotIsPast' /\ PagesAreExact'
  BY <1>1 DEF RelayInv, SnapshotIsPast, PagesAreExact, ChannelHead
<1>10. InventoryIsOneSnapshot'
  BY <1>1, <1>2, <1>3, <1>4, <1>8
     DEF RelayInv, InventoryIsOneSnapshot, SnapshotIsPast
<1> QED BY <1>5, <1>6, <1>7, <1>9, <1>10 DEF RelayInv

\* An environment retires at a generation past every prune and every snapshot.
LEMMA RetireEnvironmentStep ==
  ASSUME RelayInv, NEW o, NEW e \in Env, NEW g, NEW final, NEW digest,
         RetireEnvironment(o, e, g, final, digest), bound' = bound
  PROVE  RelayInv'
<1> USE DEF RetireEnvironment, RegistrationNext
<1> DEFINE row == [generation |-> g, final |-> final, digest |-> digest]
<1>1. /\ DOMAIN envs = Env /\ membership \in Nat /\ g = membership + 1
      /\ e \in Registered /\ e \notin Retired /\ Numbers' = Numbers
  BY DEF RelayInv, RowsInMembership, Numbers
<1>2. /\ envs'[e] = [credential |-> envs[e].credential, joined |-> envs[e].joined,
                     retired |-> row]
      /\ \A d \in Env : d # e => envs'[d] = envs[d]
      /\ DOMAIN envs' = Env
  <2>1. envs[e] = [credential |-> envs[e].credential, joined |-> envs[e].joined,
                   retired |-> envs[e].retired]
    BY <1>1 DEF RelayInv, RowsInMembership
  <2>2. envs' = [envs EXCEPT ![e] = [envs[e] EXCEPT !.retired = row]]
    BY <1>1
  <2>3. [envs[e] EXCEPT !.retired = row]
          = [credential |-> envs[e].credential, joined |-> envs[e].joined, retired |-> row]
    BY <2>1
  <2> QED BY <1>1, <2>2, <2>3
<1>3. Registered' = Registered /\ Retired' = Retired \cup {e}
  BY <1>1, <1>2 DEF Registered, Retired
<1>4. \A d \in Registered : envs'[d].joined = envs[d].joined
  BY <1>1, <1>2 DEF Registered
<1>5. \A d \in Retired : d # e /\ envs'[d] = envs[d]
  BY <1>1, <1>2 DEF Registered, Retired
<1>6. RowsInMembership'
  BY <1>1, <1>2, <1>3, <1>4, <1>5 DEF RelayInv, RowsInMembership, Registered
<1>7. ArrivalsTyped' /\ AcksAreHonest' /\ PrunesInMembership'
  <2>1. ArrivalsTyped' /\ AcksAreHonest'
    BY <1>1 DEF RelayInv, ArrivalsTyped, AcksAreHonest
  <2>2. PrunesInMembership'
    BY <1>1, PruneRows DEF RelayInv, PrunesInMembership
  <2> QED BY <2>1, <2>2
<1>8. PrunesLoseNothing'
  BY <1>1, <1>2, <1>3, <1>4, <1>5
     DEF RelayInv, PrunesLoseNothing, PrunedWasApplied, PrunesInMembership, RowsInMembership
<1>9. \A d, h : ProducerHeadAt(d, h)' = ProducerHeadAt(d, h)
  BY <1>1 DEF ProducerHeadAt
<1>10. SnapshotIsPast' /\ PagesAreExact'
  BY <1>1 DEF RelayInv, SnapshotIsPast, PagesAreExact, ChannelHead
<1>11. InventoryIsOneSnapshot'
  BY <1>1, <1>2, <1>3, <1>4, <1>5, <1>9
     DEF RelayInv, InventoryIsOneSnapshot, SnapshotIsPast
<1> QED BY <1>6, <1>7, <1>8, <1>10, <1>11 DEF RelayInv

\* An accepted envelope is a new arrival, at the end and not pruned.
LEMMA AppendEnvelopeStep ==
  ASSUME RelayInv, NEW v, AppendEnvelope(v), bound' = bound
  PROVE  RelayInv'
<1> USE DEF AppendEnvelope, channelVars
<1> DEFINE a == [envelope |-> v, pruned |-> 0]
<1>1. /\ arrivals' \in Seq({arrivals'[i] : i \in DOMAIN arrivals'})
      /\ Len(arrivals) \in Nat /\ Numbers = 1 .. Len(arrivals)
      /\ Len(arrivals') = Len(arrivals) + 1 /\ Numbers' = 1 .. Len(arrivals) + 1
      /\ \A i \in Numbers : arrivals'[i] = arrivals[i]
      /\ arrivals'[Len(arrivals) + 1] = a
  <2>1. arrivals' = Append(arrivals, a) /\ arrivals \in Seq({arrivals[i] : i \in DOMAIN arrivals})
    BY DEF RelayInv, ArrivalsTyped, Numbers
  <2> HIDE DEF AppendEnvelope, a
  <2> QED BY <2>1, ListGrows DEF Numbers
<1>2. Registered' = Registered /\ Retired' = Retired
  BY DEF Registered, Retired
<1>3. RowsInMembership' /\ AcksAreHonest'
  BY <1>2 DEF RelayInv, RowsInMembership, AcksAreHonest
<1>4. ArrivalsTyped'
  <2>1. Len(prunes) \in Nat
    BY PruneRows DEF RelayInv
  <2> QED BY <1>1, <2>1 DEF RelayInv, ArrivalsTyped, Numbers
<1>5. PrunesInMembership'
  BY <1>1 DEF RelayInv, PrunesInMembership
<1>6. PrunesLoseNothing'
  <2>1. \A k \in DOMAIN prunes : k # 0 /\ prunes[k].closure \in Numbers
    BY PruneRows DEF RelayInv, PrunesInMembership
  <2>2. PrunedWasApplied'
    BY <1>1, <1>2, <2>1 DEF RelayInv, PrunesLoseNothing, PrunedWasApplied
  <2> QED BY <1>1, <2>1, <2>2 DEF RelayInv, PrunesLoseNothing
<1>7. ArrivalsGrow
  BY <1>1 DEF ArrivalsGrow, ChannelHead, Numbers
<1>8. SnapshotIsPast' /\ PagesAreExact' /\ InventoryIsOneSnapshot'
  BY <1>7, ReaderKept
<1> QED BY <1>3, <1>4, <1>5, <1>6, <1>8 DEF RelayInv

\* An environment applies more of what has arrived.
LEMMA PageStep ==
  ASSUME RelayInv, NEW e \in Env, NEW through \in Nat, Page(e, through), bound' = bound
  PROVE  RelayInv'
<1> USE DEF Page, channelVars
<1>1. Registered' = Registered /\ Retired' = Retired /\ Numbers' = Numbers
  BY DEF Registered, Retired, Numbers
<1>2. ChannelHead \in Nat
  BY DEF RelayInv, ArrivalsTyped, ChannelHead
<1>3. applied' \in [Env -> Nat] /\ \A d \in Env : applied[d] <= applied'[d]
  BY <1>2 DEF RelayInv, AcksAreHonest
<1>4. AcksAreHonest'
  BY <1>3 DEF RelayInv, AcksAreHonest
<1>5. RowsInMembership' /\ ArrivalsTyped' /\ PrunesInMembership'
  BY <1>1 DEF RelayInv, RowsInMembership, ArrivalsTyped, PrunesInMembership
<1>6. PrunesLoseNothing'
  <2>1. \A i \in Numbers : i \in Nat
    BY DEF RelayInv, ArrivalsTyped, Numbers
  <2>2. \A d \in Registered : d \in Env /\ applied[d] \in Nat /\ applied'[d] \in Nat
    BY <1>3 DEF RelayInv, AcksAreHonest, Registered
  <2>3. PrunedWasApplied'
    BY <1>1, <1>3, <2>1, <2>2 DEF RelayInv, PrunesLoseNothing, PrunedWasApplied
  <2> QED BY <2>3 DEF RelayInv, PrunesLoseNothing
<1>7. ArrivalsGrow
  BY DEF RelayInv, ArrivalsTyped, ArrivalsGrow, ChannelHead, Numbers
<1>8. SnapshotIsPast' /\ PagesAreExact' /\ InventoryIsOneSnapshot'
  BY <1>7, ReaderKept
<1> QED BY <1>4, <1>5, <1>6, <1>8 DEF RelayInv

\* An acknowledgement says no more than its environment has applied.
LEMMA AcknowledgeStep ==
  ASSUME RelayInv, NEW e \in Env, NEW a \in Acknowledgement, Acknowledge(e, a), bound' = bound
  PROVE  RelayInv'
<1> USE DEF Acknowledge, channelVars
<1>1. Registered' = Registered /\ Retired' = Retired /\ Numbers' = Numbers
  BY DEF Registered, Retired, Numbers
<1>2. a.generation \in Nat /\ a.applied \in Nat
  BY OpaqueRelayAssumption DEF RelayInv, Acknowledgement
<1>3. AcksAreHonest'
  BY <1>2 DEF RelayInv, AcksAreHonest, Signed
<1>4. RowsInMembership' /\ ArrivalsTyped' /\ PrunesInMembership'
  BY <1>1 DEF RelayInv, RowsInMembership, ArrivalsTyped, PrunesInMembership
<1>5. PrunesLoseNothing'
  BY <1>1 DEF RelayInv, PrunesLoseNothing, PrunedWasApplied
<1>6. ArrivalsGrow
  BY DEF RelayInv, ArrivalsTyped, ArrivalsGrow, ChannelHead, Numbers
<1>7. SnapshotIsPast' /\ PagesAreExact' /\ InventoryIsOneSnapshot'
  BY <1>6, ReaderKept
<1> QED BY <1>3, <1>4, <1>5, <1>7 DEF RelayInv

\* A prune blanks arrivals below a barrier that every member has acknowledged,
\* and no arrival that closes a prune.
LEMMA TombstoneStep ==
  ASSUME RelayInv, NEW o, NEW g, NEW barrier \in Numbers, NEW closure \in Numbers,
         NEW targets \in SUBSET Numbers, Tombstone(o, g, barrier, closure, targets),
         bound' = bound
  PROVE  RelayInv'
<1> USE DEF Tombstone, channelVars
<1> DEFINE n == Len(prunes) + 1
           row == [generation |-> g, barrier |-> barrier, closure |-> closure, targets |-> targets]
<1>1. Registered' = Registered /\ Retired' = Retired
  BY DEF Registered, Retired
<1>2. /\ arrivals' \in Seq({arrivals'[i] : i \in DOMAIN arrivals'})
      /\ Len(arrivals') = Len(arrivals) /\ Numbers' = Numbers
  <2>1. /\ arrivals \in Seq({arrivals[i] : i \in DOMAIN arrivals})
        /\ arrivals' = [i \in DOMAIN arrivals |-> arrivals'[i]]
    BY DEF RelayInv, ArrivalsTyped, Numbers
  <2> HIDE DEF Tombstone
  <2> QED BY <2>1, ListReplaced, Zenon DEF Numbers
<1>3. /\ Len(arrivals) \in Nat /\ Numbers = 1 .. Len(arrivals)
      /\ Len(prunes) \in Nat /\ DOMAIN prunes = 1 .. Len(prunes)
  BY PruneRows DEF RelayInv, ArrivalsTyped, Numbers
<1>4. /\ \A i \in targets : arrivals'[i] = [envelope |-> arrivals[i].envelope, pruned |-> n]
      /\ \A i \in Numbers : i \notin targets => arrivals'[i] = arrivals[i]
  <2>1. ASSUME NEW i \in targets
        PROVE  arrivals'[i] = [envelope |-> arrivals[i].envelope, pruned |-> n]
    <3>1. i \in Numbers /\ arrivals'[i] = [arrivals[i] EXCEPT !.pruned = n]
      OBVIOUS
    <3>2. arrivals[i] = [envelope |-> arrivals[i].envelope, pruned |-> arrivals[i].pruned]
      BY <3>1 DEF RelayInv, ArrivalsTyped
    <3> QED BY <3>1, <3>2
  <2> QED BY <2>1
<1>5. /\ prunes' \in Seq([generation : Nat, barrier : Nat, closure : Nat, targets : SUBSET Nat])
      /\ Len(prunes') = n /\ DOMAIN prunes' = 1 .. n
      /\ \A k \in DOMAIN prunes : prunes'[k] = prunes[k]
      /\ prunes'[n] = row
  <2>1. row \in [generation : Nat, barrier : Nat, closure : Nat, targets : SUBSET Nat]
    BY <1>3 DEF RelayInv, RowsInMembership
  <2>2. prunes \in Seq([generation : Nat, barrier : Nat, closure : Nat, targets : SUBSET Nat])
    BY DEF RelayInv, PrunesInMembership
  <2>3. prunes' = Append(prunes, row)
    OBVIOUS
  <2> HIDE DEF Tombstone, row
  <2> QED BY <1>3, <2>1, <2>2, <2>3
<1>6. RowsInMembership' /\ AcksAreHonest'
  BY <1>1 DEF RelayInv, RowsInMembership, AcksAreHonest
<1>7. ArrivalsTyped'
  <2> HIDE DEF Tombstone
  <2>1. ASSUME NEW i \in Numbers
        PROVE  /\ arrivals'[i] = [envelope |-> arrivals'[i].envelope, pruned |-> arrivals'[i].pruned]
               /\ arrivals'[i].pruned \in 0 .. n
    <3>1. CASE i \in targets
      <4>1. n \in 0 .. n
        BY <1>3
      <4>2. arrivals'[i] = [envelope |-> arrivals[i].envelope, pruned |-> n]
        BY <1>4, <3>1
      <4> HIDE DEF n
      <4> QED BY <4>1, <4>2
    <3>2. CASE i \notin targets
      <4>1. arrivals[i].pruned \in 0 .. Len(prunes)
        BY DEF RelayInv, ArrivalsTyped
      <4>2. arrivals[i].pruned \in 0 .. n
        BY <1>3, <4>1
      <4> QED BY <1>4, <3>2, <4>2 DEF RelayInv, ArrivalsTyped
    <3> QED BY <3>1, <3>2
  <2> HIDE DEF n
  <2> QED BY <1>2, <1>5, <2>1 DEF ArrivalsTyped, Numbers
<1>8. PrunesInMembership'
  BY <1>2, <1>3, <1>5 DEF RelayInv, PrunesInMembership, RowsInMembership
<1>9. \A e \in Registered \ Retired : applied[e] \in Nat /\ applied[e] >= barrier
  BY <1>3 DEF PruneAuthority, RelayInv, AcksAreHonest
<1>10. PrunedWasApplied'
  <2> SUFFICES ASSUME NEW k \in DOMAIN prunes', NEW i \in Numbers, NEW e \in Registered,
                      arrivals'[i].pruned = k,
                      envs[e].joined <= prunes'[k].generation,
                      e \notin Retired \/ envs[e].retired.generation > prunes'[k].generation
               PROVE  applied[e] >= i
    BY <1>1, <1>2 DEF PrunedWasApplied
  <2>1. CASE i \in targets
    <3>1. k = n /\ prunes'[k].generation = membership /\ i <= barrier
      <4>1. arrivals'[i].pruned = n
        BY <1>4, <2>1
      <4> QED BY <1>5, <2>1, <4>1
    <3>2. e \notin Retired
      BY <3>1 DEF RelayInv, RowsInMembership
    <3> QED BY <1>3, <1>9, <3>1, <3>2
  <2>2. CASE i \notin targets
    <3>1. arrivals[i].pruned = k /\ k \in DOMAIN prunes
      <4>1. arrivals[i].pruned = k
        BY <1>4, <2>2
      <4> HIDE DEF Tombstone
      <4>2. k \in 0 .. Len(prunes)
        BY <4>1 DEF RelayInv, ArrivalsTyped
      <4>3. k \in 1 .. n
        BY <1>5
      <4> QED BY <1>3, <4>1, <4>2, <4>3
    <3> QED BY <1>5, <3>1 DEF RelayInv, PrunesLoseNothing, PrunedWasApplied
  <2> QED BY <2>1, <2>2
<1>11. \A k \in DOMAIN prunes' : arrivals'[prunes'[k].closure].pruned = 0
  <2> SUFFICES ASSUME NEW k \in DOMAIN prunes'
               PROVE  arrivals'[prunes'[k].closure].pruned = 0
    OBVIOUS
  <2>1. CASE k = n
    BY <1>4, <1>5, <2>1 DEF RetainedReference
  <2>2. CASE k # n
    <3>1. k \in DOMAIN prunes /\ prunes'[k].closure = prunes[k].closure
      BY <1>3, <1>5, <2>2
    <3>2. prunes[k].closure \in Numbers /\ prunes[k].closure \notin targets
      BY <3>1 DEF Prunable, RelayInv, PrunesInMembership
    <3> QED BY <1>4, <3>1, <3>2 DEF RelayInv, PrunesLoseNothing
  <2> QED BY <2>1, <2>2
<1>12. ArrivalsGrow
  BY <1>2, <1>3, <1>4 DEF ArrivalsGrow, ChannelHead, Numbers
<1>13. SnapshotIsPast' /\ PagesAreExact' /\ InventoryIsOneSnapshot'
  BY <1>12, ReaderKept
<1> QED BY <1>6, <1>7, <1>8, <1>10, <1>11, <1>13 DEF RelayInv, PrunesLoseNothing

\* A page is the environments from the cursor to the greatest of the page.
LEMMA PageIsInterval ==
  ASSUME NEW after \in Nat, NEW m \in PageOf(after), \A e \in PageOf(after) : e <= m
  PROVE  {e \in Registered : e <= m} = {e \in Registered : e <= after} \cup PageOf(after)
<1> DEFINE rest == {e \in Registered : e > after}
           Below(e) == {d \in rest : d < e}
<1>1. rest \subseteq 1 .. NEnv /\ IsFiniteSet(rest)
  <2>1. rest \subseteq 1 .. NEnv
    BY DEF Registered, Env
  <2>2. IsFiniteSet(1 .. NEnv)
    BY FS_Interval, OpaqueRelayAssumption
  <2> HIDE DEF rest
  <2> QED BY <2>1, <2>2, FS_Subset
<1>2. PageOf(after) = {e \in rest : Cardinality(Below(e)) < PageLimit}
  BY DEF PageOf
<1>3. m \in rest /\ Cardinality(Below(m)) < PageLimit
  BY <1>2
<1>4. ASSUME NEW e \in rest, e <= m
      PROVE  e \in PageOf(after)
  <2>1. Below(e) \subseteq Below(m) /\ Below(m) \subseteq rest
    BY <1>1, <1>3, <1>4, OpaqueRelayAssumption
  <2>2. IsFiniteSet(Below(m))
    BY <1>1, <2>1, FS_Subset
  <2>3. /\ Cardinality(Below(e)) <= Cardinality(Below(m)) /\ IsFiniteSet(Below(e))
    BY <2>1, <2>2, FS_Subset
  <2>4. Cardinality(Below(e)) \in Nat /\ Cardinality(Below(m)) \in Nat
    BY <2>2, <2>3, FS_CardinalityType
  <2> HIDE DEF Below
  <2>5. Cardinality(Below(e)) < PageLimit
    BY <1>3, <2>3, <2>4, OpaqueRelayAssumption
  <2> QED BY <1>2, <2>5
<1>5. \A e \in Registered : e \in Nat
  BY DEF Registered, Env
<1>6. m \in Nat /\ m > after
  BY <1>3, <1>5
<1> HIDE DEF Below
<1> QED BY <1>2, <1>4, <1>5, <1>6

\* A page read at the snapshot's generation extends the reader's copy by the
\* environments from its old cursor to its new one.
LEMMA EnvironmentInventoryStep ==
  ASSUME RelayInv, EnvironmentInventory, bound' = bound
  PROVE  RelayInv'
<1> USE DEF channelVars
<1> DEFINE snap  == IF reader.state = "reading" THEN reader.snap
                    ELSE [generation |-> membership, head |-> ChannelHead]
           after == IF reader.state = "reading" THEN reader.after ELSE 0
           got   == IF reader.state = "reading" THEN reader.got ELSE {}
           page  == PageOf(after)
           more  == \E e \in Registered : e > after /\ e \notin page
           next  == IF page = {} THEN after ELSE CHOOSE m \in page : \A e \in page : e <= m
           got2  == got \cup {Record(e, snap.head) : e \in page}
<1>1. /\ reader.state # "done"
      /\ SnapshotHolds(snap)
      /\ reader' = [state |-> IF more THEN "reading" ELSE "done", snap |-> snap,
                    after |-> next, got |-> got2]
      /\ UNCHANGED <<membership, envs, arrivals, acks, prunes, applied>>
  BY DEF EnvironmentInventory
<1> HIDE DEF snap, after, got, page, next, got2
<1>2. /\ Registered' = Registered /\ Retired' = Retired /\ Numbers' = Numbers
      /\ \A e, h : ProducerHeadAt(e, h)' = ProducerHeadAt(e, h)
      /\ \A e, h : Record(e, h)' = Record(e, h)
  BY <1>1 DEF Registered, Retired, Numbers, ProducerHeadAt, Record
<1>3. /\ RowsInMembership' /\ ArrivalsTyped' /\ AcksAreHonest'
      /\ PrunesInMembership' /\ PrunesLoseNothing'
  BY <1>1, <1>2 DEF RelayInv, RowsInMembership, ArrivalsTyped, AcksAreHonest,
                    PrunesInMembership, PrunesLoseNothing, PrunedWasApplied
<1>4. ChannelHead \in Nat /\ membership \in Nat
  BY DEF RelayInv, ArrivalsTyped, RowsInMembership, ChannelHead
<1>5. /\ snap.generation = membership /\ snap.head \in Nat /\ snap.head <= ChannelHead
  BY <1>1, <1>4 DEF SnapshotHolds, snap, RelayInv, SnapshotIsPast
<1>6. /\ after \in Nat
      /\ {r.env : r \in got} = {e \in Registered : e <= after}
      /\ \A r \in got : r = Record(r.env, snap.head)
  <2>1. CASE reader.state = "reading"
    BY <1>5, <2>1 DEF snap, after, got, RelayInv, PagesAreExact
  <2>2. CASE reader.state # "reading"
    <3>1. after = 0 /\ got = {}
      BY <2>2 DEF after, got
    <3>2. \A e \in Registered : ~ (e <= 0)
      BY DEF Registered, Env
    <3> QED BY <3>1, <3>2
  <2> QED BY <2>1, <2>2
<1>7. \A e \in page : e \in Registered /\ e \in Nat /\ e <= NEnv
  BY OpaqueRelayAssumption DEF page, PageOf, Registered, Env
<1>8. next \in Nat /\ {e \in Registered : e <= next} = {e \in Registered : e <= after} \cup page
  <2>1. CASE page = {}
    BY <1>6, <2>1 DEF next
  <2>2. CASE page # {}
    <3>1. \E m \in page : \A e \in page : e <= m
      <4>1. page \in SUBSET Nat /\ NEnv \in Nat
        BY <1>7, OpaqueRelayAssumption
      <4> QED BY <1>7, <2>2, <4>1, GreatestMember
    <3>2. next \in page /\ \A e \in page : e <= next
      BY <2>2, <3>1 DEF next
    <3> QED BY <1>6, <1>7, <3>2, PageIsInterval DEF page
  <2> QED BY <2>1, <2>2
<1>9. {r.env : r \in got2} = {r.env : r \in got} \cup page
  <2>1. \A e : Record(e, snap.head).env = e
    BY DEF Record
  <2> QED BY <2>1 DEF got2
<1>10. \A r \in got2 : r = Record(r.env, snap.head)
  <2>1. \A e : Record(e, snap.head).env = e
    BY DEF Record
  <2> QED BY <1>6, <2>1 DEF got2
<1>11. SnapshotIsPast' /\ PagesAreExact'
  <2>1. SnapshotIsPast'
    BY <1>1, <1>4, <1>5 DEF SnapshotIsPast, ChannelHead
  <2>2. PagesAreExact'
    BY <1>1, <1>2, <1>6, <1>8, <1>9, <1>10 DEF PagesAreExact
  <2> QED BY <2>1, <2>2
<1>12. InventoryIsOneSnapshot'
  <2> SUFFICES ASSUME reader'.state = "done"
               PROVE  InventoryIsOneSnapshot'
    BY DEF InventoryIsOneSnapshot
  <2>1. ~ more
    BY <1>1
  <2>2. {r.env : r \in got2} = Registered
    <3>1. \A e \in Registered : e \in Nat
      BY DEF Registered, Env
    <3> QED BY <1>6, <1>7, <1>9, <2>1, <3>1
  <2>3. Registered = {e \in Registered : envs[e].joined <= snap.generation}
    BY <1>5 DEF RelayInv, RowsInMembership
  <2>4. ASSUME NEW r \in got2
        PROVE  /\ r.producer = ProducerHeadAt(r.env, snap.head)
               /\ r.retired = IF r.env \in Retired
                                   /\ envs[r.env].retired.generation <= snap.generation
                              THEN envs[r.env].retired ELSE <<>>
    <3>1. r.env \in Registered /\ r = Record(r.env, snap.head)
      BY <1>10, <2>2
    <3>2. r.producer = ProducerHeadAt(r.env, snap.head) /\ r.retired = envs[r.env].retired
      BY <3>1 DEF Record
    <3>3. r.env \in Retired => envs[r.env].retired.generation <= snap.generation
      BY <1>5 DEF RelayInv, RowsInMembership
    <3> QED BY <3>1, <3>2, <3>3 DEF Retired
  <2> QED BY <1>1, <1>2, <2>2, <2>3, <2>4 DEF InventoryIsOneSnapshot
<1> QED BY <1>3, <1>11, <1>12 DEF RelayInv

\* The client starts over.
LEMMA ReadAgainStep ==
  ASSUME RelayInv, ReadAgain, bound' = bound
  PROVE  RelayInv'
<1> USE DEF ReadAgain, channelVars
<1>1. Registered' = Registered /\ Retired' = Retired /\ Numbers' = Numbers
  BY DEF Registered, Retired, Numbers
<1>2. /\ RowsInMembership' /\ ArrivalsTyped' /\ AcksAreHonest'
      /\ PrunesInMembership' /\ PrunesLoseNothing'
  BY <1>1 DEF RelayInv, RowsInMembership, ArrivalsTyped, AcksAreHonest,
              PrunesInMembership, PrunesLoseNothing, PrunedWasApplied
<1>3. SnapshotIsPast' /\ PagesAreExact' /\ InventoryIsOneSnapshot'
  BY DEF SnapshotIsPast, PagesAreExact, InventoryIsOneSnapshot, NoSnapshot
<1> QED BY <1>2, <1>3 DEF RelayInv

LEMMA RelayNextInv == RelayInv /\ [Next]_vars => RelayInv'
<1> SUFFICES ASSUME RelayInv, [Next]_vars PROVE RelayInv'
  OBVIOUS
<1>1. CASE UNCHANGED vars
  BY <1>1, UntouchedStep DEF vars
<1>2. CASE Next
  <2>1. bound' = bound /\ Member \subseteq Env
    BY <1>2, OpaqueRelayAssumption DEF Next, Member, Env, RelayInv
  <2>2. ASSUME NEW c \in Credential, CreateChannel(c) PROVE RelayInv'
    BY <2>1, <2>2, UntouchedStep DEF CreateChannel
  <2>3. ASSUME NEW e \in Member, Expire(e) PROVE RelayInv'
    BY <2>1, <2>3, UntouchedStep DEF Expire
  <2>4. ASSUME NEW o \in Credential, NEW c \in Credential, NEW e \in Member,
               NEW g \in Generation, RegisterEnvironment(o, e, c, g)
        PROVE  RelayInv'
    BY <2>1, <2>4, RegisterEnvironmentStep
  <2>5. ASSUME NEW o \in Credential, NEW e \in Member, NEW g \in Generation,
               NEW final \in 0 .. bound.arrivals, NEW digest \in Digests,
               RetireEnvironment(o, e, g, final, digest)
        PROVE  RelayInv'
    BY <2>1, <2>5, RetireEnvironmentStep
  <2>6. ASSUME NEW e \in Member, NEW s \in 1 .. bound.arrivals, NEW f \in Fact, NEW n \in Nonce,
               NEW p \in Digests, AppendEnvelope(Envelope(e, s, f, n, p))
        PROVE  RelayInv'
    BY <2>1, <2>6, AppendEnvelopeStep
  <2>7. ASSUME NEW e \in Member, NEW through \in 1 .. bound.arrivals, Page(e, through)
        PROVE  RelayInv'
    <3>1. through \in Nat
      BY OpaqueRelayAssumption DEF RelayInv
    <3> QED BY <2>1, <2>7, <3>1, PageStep
  <2>8. ASSUME NEW e \in Member, NEW a \in Acknowledgement, Acknowledge(e, a)
        PROVE  RelayInv'
    BY <2>1, <2>8, AcknowledgeStep
  <2>9. ASSUME NEW o \in Credential, NEW g \in Generation, NEW barrier \in Numbers,
               NEW closure \in Numbers, NEW targets \in SUBSET Numbers,
               Tombstone(o, g, barrier, closure, targets)
        PROVE  RelayInv'
    BY <2>1, <2>9, TombstoneStep
  <2>10. CASE EnvironmentInventory
    BY <2>1, <2>10, EnvironmentInventoryStep
  <2>11. CASE ReadAgain
    BY <2>1, <2>11, ReadAgainStep
  <2> QED BY <1>2, <2>2, <2>3, <2>4, <2>5, <2>6, <2>7, <2>8, <2>9, <2>10, <2>11 DEF Next
<1> QED BY <1>1, <1>2

----------------------------------------------------------------------------
(* What the relay promises. *)

\* The rows, the arrivals, the acknowledgements and the prunes fit each other, and a
\* reader's pages are exact while the membership stands: sqlite.Store as a whole.
THEOREM RelayInvariant == Spec => []RelayInv
<1>1. Init => RelayInv
  BY RelayInitInv
<1>2. RelayInv /\ [Next]_vars => RelayInv'
  BY RelayNextInv
<1> QED BY <1>1, <1>2, PTL DEF Spec

\* Tombstone blanks nothing a member of the prune's generation still has to apply, and
\* no later prune blanks the fact that closed an earlier one.
THEOREM PrunesAreSafe == Spec => []PrunesLoseNothing
<1>1. RelayInv => PrunesLoseNothing
  BY DEF RelayInv
<1> QED BY <1>1, RelayInvariant, PTL

\* EnvironmentInventory, read to its last page, is the channel at one membership and
\* one head, whatever registered, retired, arrived or was pruned in between.
THEOREM InventoriesAreSnapshots == Spec => []InventoryIsOneSnapshot
<1>1. RelayInv => InventoryIsOneSnapshot
  BY DEF RelayInv
<1> QED BY <1>1, RelayInvariant, PTL

----------------------------------------------------------------------------
(* Each producer's chain.  ChainInv is inductive together with RelayInv. *)

SeqsTyped == \A i \in Numbers : arrivals[i].envelope.seq \in 1 .. bound.arrivals

ChainInv == SeqsTyped /\ ProducersDoNotFork /\ RetirementIsFinal

EnvelopesOf(e) == {v \in Envelopes : v.env = e}
Greatest(S) == IF S = {} THEN 0 ELSE CHOOSE m \in S : \A s \in S : s <= m

\* producerHead is the greatest sequence of the producer's envelopes.
LEMMA HeadIsGreatest ==
  ASSUME ArrivalsTyped, NEW e
  PROVE  ProducerHead(e) = Greatest({v.seq : v \in EnvelopesOf(e)})
<1> DEFINE J == {j \in Numbers : j <= ChannelHead /\ arrivals[j].envelope.env = e}
           S == {arrivals[i].envelope.seq : i \in J}
<1>1. \A j \in Numbers : j <= ChannelHead
  BY DEF ArrivalsTyped, Numbers, ChannelHead
<1>2. S = {v.seq : v \in EnvelopesOf(e)}
  BY <1>1 DEF EnvelopesOf, Envelopes
<1>3. ProducerHead(e) = Greatest(S)
  BY DEF ProducerHead, ProducerHeadAt, Greatest
<1> QED BY <1>2, <1>3

\* It is reached, and no envelope of the producer is past it.
LEMMA HeadIsReached ==
  ASSUME bound \in Bounds, ArrivalsTyped, SeqsTyped, NEW e
  PROVE  /\ ProducerHead(e) \in Nat
         /\ \A v \in EnvelopesOf(e) : v.seq \in Nat /\ 0 < v.seq /\ v.seq <= ProducerHead(e)
         /\ ProducerHead(e) # 0 => \E v \in EnvelopesOf(e) : v.seq = ProducerHead(e)
<1> DEFINE S == {v.seq : v \in EnvelopesOf(e)}
<1>1. bound.arrivals \in Nat
  BY OpaqueRelayAssumption
<1>2. \A v \in EnvelopesOf(e) : v.seq \in 1 .. bound.arrivals
  BY DEF EnvelopesOf, Envelopes, SeqsTyped
<1>3. S \in SUBSET Nat /\ \A s \in S : s <= bound.arrivals
  BY <1>1, <1>2
<1>4. ProducerHead(e) = Greatest(S)
  BY HeadIsGreatest
<1>5. CASE S = {}
  <2>1. EnvelopesOf(e) = {}
    BY <1>5
  <2>2. ProducerHead(e) = 0
    BY <1>4, <1>5 DEF Greatest
  <2> QED BY <2>1, <2>2
<1>6. CASE S # {}
  <2>1. \E m \in S : \A s \in S : s <= m
    <3> HIDE DEF S
    <3> QED BY <1>1, <1>3, <1>6, GreatestMember
  <2>2. Greatest(S) \in S /\ \A s \in S : s <= Greatest(S)
    BY <1>6, <2>1 DEF Greatest
  <2>3. \A v \in EnvelopesOf(e) : v.seq \in S
    OBVIOUS
  <2>4. \A v \in EnvelopesOf(e) : v.seq \in Nat /\ 0 < v.seq
    BY <1>1, <1>2
  <2>5. \E v \in EnvelopesOf(e) : v.seq = ProducerHead(e)
    BY <1>4, <2>2
  <2> HIDE DEF S
  <2> QED BY <1>3, <1>4, <2>2, <2>3, <2>4, <2>5
<1> QED BY <1>5, <1>6

\* A producer's envelopes have different sequences.
LEMMA OneEnvelopePerSeq ==
  ASSUME ArrivalsTyped, ProducersDoNotFork, SeqsTyped, NEW e,
         NEW v \in EnvelopesOf(e), NEW w \in EnvelopesOf(e), v.seq = w.seq
  PROVE  v = w
<1>1. PICK i \in Numbers : v = arrivals[i].envelope
  BY DEF EnvelopesOf, Envelopes
<1>2. PICK j \in Numbers : w = arrivals[j].envelope
  BY DEF EnvelopesOf, Envelopes
<1>3. v.env = w.env /\ v.seq \in Int
  BY <1>1 DEF EnvelopesOf, SeqsTyped
<1>4. i \in Int /\ j \in Int
  BY DEF ArrivalsTyped, Numbers
<1>5. ~ (i < j) /\ ~ (j < i)
  BY <1>1, <1>2, <1>3 DEF ProducersDoNotFork
<1> QED BY <1>1, <1>2, <1>4, <1>5

\* producerFence names the producer's envelope at its head.
LEMMA FenceIsHead ==
  ASSUME bound \in Bounds, ArrivalsTyped, SeqsTyped, ProducersDoNotFork, NEW e,
         ProducerHead(e) # 0
  PROVE  \E v \in EnvelopesOf(e) : /\ v.seq = ProducerHead(e)
                                   /\ ProducerFence(e) = <<ProducerHead(e), v>>
<1>1. PICK v \in EnvelopesOf(e) : v.seq = ProducerHead(e)
  BY HeadIsReached
<1> DEFINE u == CHOOSE w \in Envelopes : w.env = e /\ w.seq = ProducerHead(e)
<1>2. u \in Envelopes /\ u.env = e /\ u.seq = ProducerHead(e)
  BY <1>1 DEF EnvelopesOf
<1>3. ProducerFence(e) = <<ProducerHead(e), u>>
  BY DEF ProducerFence
<1> HIDE DEF u
<1> QED BY <1>2, <1>3 DEF EnvelopesOf

\* What the lemmas above say of every producer in a state of one chain each.
ChainTyped == bound \in Bounds /\ ArrivalsTyped /\ SeqsTyped /\ ProducersDoNotFork

HeadsAreGreatest == \A e : ProducerHead(e) = Greatest({v.seq : v \in EnvelopesOf(e)})

FencesAreHeads ==
  \A e : ProducerHead(e) # 0 =>
           \E v \in EnvelopesOf(e) : /\ v.seq = ProducerHead(e)
                                     /\ ProducerFence(e) = <<ProducerHead(e), v>>

\* Heads and fences, of every producer.
LEMMA ChainFacts == ChainTyped => HeadsAreGreatest /\ FencesAreHeads
<1> SUFFICES ASSUME ChainTyped PROVE HeadsAreGreatest /\ FencesAreHeads
  OBVIOUS
<1> USE DEF ChainTyped
<1>1. HeadsAreGreatest
  BY HeadIsGreatest DEF HeadsAreGreatest
<1>2. FencesAreHeads
  BY FenceIsHead DEF FencesAreHeads
<1> QED BY <1>1, <1>2

\* The fence depends on the producer's own envelopes alone.
LEMMA FenceKept ==
  ASSUME ChainTyped, ChainTyped', NEW e, EnvelopesOf(e)' = EnvelopesOf(e)
  PROVE  ProducerFence(e)' = ProducerFence(e)
<1>1. HeadsAreGreatest /\ FencesAreHeads
  BY ChainFacts
<1>2. (HeadsAreGreatest /\ FencesAreHeads)'
  BY ChainFacts, PTL
<1>3. ProducerHead(e)' = ProducerHead(e)
  <2>1. ProducerHead(e) = Greatest({v.seq : v \in EnvelopesOf(e)})
    BY <1>1 DEF HeadsAreGreatest
  <2>2. ProducerHead(e)' = Greatest({v.seq : v \in EnvelopesOf(e)'})
    BY <1>2 DEF HeadsAreGreatest
  <2> QED BY <2>1, <2>2
<1>4. CASE ProducerHead(e) = 0
  BY <1>3, <1>4 DEF ProducerFence
<1>5. CASE ProducerHead(e) # 0
  <2>1. PICK v \in EnvelopesOf(e) : /\ v.seq = ProducerHead(e)
                                    /\ ProducerFence(e) = <<ProducerHead(e), v>>
    BY <1>1, <1>5 DEF FencesAreHeads
  <2>2. PICK w \in EnvelopesOf(e) : /\ w.seq = ProducerHead(e)
                                    /\ ProducerFence(e)' = <<ProducerHead(e), w>>
    BY <1>2, <1>3, <1>5 DEF FencesAreHeads
  <2>3. w = v
    BY <2>1, <2>2, OneEnvelopePerSeq DEF ChainTyped
  <2> QED BY <2>1, <2>2, <2>3
<1> QED BY <1>4, <1>5

\* Append keeps the chains: the new envelope follows its producer's head.
LEMMA AppendKeepsChains ==
  ASSUME RelayInv, RelayInv', ChainInv, bound' = bound, NEW v, AppendEnvelope(v),
         v.seq \in 1 .. bound.arrivals
  PROVE  ChainInv'
<1> USE DEF ChainInv
<1> DEFINE n == Len(arrivals) + 1
<1>1. /\ Len(arrivals) \in Nat /\ Numbers = 1 .. Len(arrivals) /\ Numbers' = 1 .. n
      /\ \A i \in Numbers : arrivals'[i] = arrivals[i]
      /\ arrivals'[n] = [envelope |-> v, pruned |-> 0]
  <2>1. /\ arrivals' = Append(arrivals, [envelope |-> v, pruned |-> 0])
        /\ arrivals \in Seq({arrivals[i] : i \in DOMAIN arrivals})
    BY DEF AppendEnvelope, RelayInv, ArrivalsTyped, Numbers
  <2> QED BY <2>1, ListGrows DEF Numbers
<1>2. ChainTyped
  BY DEF ChainTyped, RelayInv
<1>3. Envelopes' = Envelopes \cup {v}
  BY <1>1 DEF Envelopes
<1>4. SeqsTyped'
  BY <1>1 DEF SeqsTyped
<1>5. ASSUME NEW i \in Numbers, arrivals[i].envelope.env = v.env
      PROVE  /\ arrivals[i].envelope.seq < v.seq
             /\ v.seq = arrivals[i].envelope.seq + 1 => v.prev = arrivals[i].envelope
  <2> DEFINE u == arrivals[i].envelope
             h == ProducerHead(v.env)
  <2>1. u \in EnvelopesOf(v.env)
    BY <1>5 DEF EnvelopesOf, Envelopes
  <2>2. h \in Nat /\ u.seq \in Nat /\ 0 < u.seq /\ u.seq <= h
    BY <1>2, <2>1, HeadIsReached DEF ChainTyped
  <2>3. v.seq = h + 1 /\ (v.seq > 1 => v.prev = ProducerFence(v.env)[2])
    BY DEF AppendEnvelope, Extends
  <2>4. PICK w \in EnvelopesOf(v.env) : w.seq = h /\ ProducerFence(v.env) = <<h, w>>
    BY <1>2, <2>2, ChainFacts DEF FencesAreHeads
  <2>5. v.seq = u.seq + 1 => w = u
    <3>1. v.seq = u.seq + 1 => w.seq = u.seq
      BY <2>2, <2>3, <2>4
    <3> QED BY <1>2, <2>1, <3>1, OneEnvelopePerSeq DEF ChainTyped
  <2> QED BY <2>2, <2>3, <2>4, <2>5
<1>6. ProducersDoNotFork'
  <2> SUFFICES ASSUME NEW i \in Numbers', NEW j \in Numbers', i < j,
                      arrivals'[i].envelope.env = arrivals'[j].envelope.env
               PROVE  /\ arrivals'[i].envelope.seq < arrivals'[j].envelope.seq
                      /\ arrivals'[j].envelope.seq = arrivals'[i].envelope.seq + 1
                           => arrivals'[j].envelope.prev = arrivals'[i].envelope
    BY DEF ProducersDoNotFork
  <2>1. i \in Numbers /\ (j \in Numbers \/ j = n)
    BY <1>1
  <2>2. CASE j \in Numbers
    BY <1>1, <2>1, <2>2 DEF ProducersDoNotFork
  <2>3. CASE j = n
    BY <1>1, <1>5, <2>1, <2>3
  <2> QED BY <2>1, <2>2, <2>3
<1>7. RetirementIsFinal'
  <2>1. ChainTyped'
    BY <1>4, <1>6 DEF ChainTyped, RelayInv
  <2>2. ASSUME NEW e \in Retired
        PROVE  ProducerFence(e)' = ProducerFence(e)
    <3>1. e # v.env
      BY DEF AppendEnvelope, ActiveEnvironment
    <3>2. EnvelopesOf(e)' = EnvelopesOf(e)
      BY <1>3, <3>1 DEF EnvelopesOf
    <3> QED BY <1>2, <2>1, <3>2, FenceKept
  <2>3. Retired' = Retired /\ envs' = envs
    BY DEF AppendEnvelope, channelVars, Retired, Registered
  <2> QED BY <2>2, <2>3 DEF RetirementIsFinal
<1> QED BY <1>4, <1>6, <1>7

\* Steps that add no envelope keep the chains, and the fence of whoever was retired.
LEMMA ChainsKept ==
  ASSUME RelayInv, RelayInv', ChainInv, bound' = bound, Numbers' = Numbers,
         \A i \in Numbers : arrivals'[i].envelope = arrivals[i].envelope
  PROVE  /\ SeqsTyped' /\ ProducersDoNotFork'
         /\ \A e : ProducerFence(e)' = ProducerFence(e)
<1> USE DEF ChainInv
<1>1. SeqsTyped' /\ ProducersDoNotFork'
  BY DEF SeqsTyped, ProducersDoNotFork
<1>2. ChainTyped /\ ChainTyped'
  BY <1>1 DEF ChainTyped, RelayInv
<1>3. \A e : EnvelopesOf(e)' = EnvelopesOf(e)
  BY DEF EnvelopesOf, Envelopes
<1>4. \A e : ProducerFence(e)' = ProducerFence(e)
  BY <1>2, <1>3, FenceKept
<1> QED BY <1>1, <1>4

LEMMA ChainNextInv == RelayInv /\ RelayInv' /\ ChainInv /\ [Next]_vars => ChainInv'
<1> SUFFICES ASSUME RelayInv, RelayInv', ChainInv, [Next]_vars PROVE ChainInv'
  OBVIOUS
<1>1. bound' = bound
  BY DEF Next, vars
<1>2. ASSUME UNCHANGED <<arrivals, envs>>
      PROVE  ChainInv'
  <2>1. Numbers' = Numbers /\ Retired' = Retired
    BY <1>2 DEF Numbers, Retired, Registered
  <2>2. /\ SeqsTyped' /\ ProducersDoNotFork'
        /\ \A e : ProducerFence(e)' = ProducerFence(e)
    BY <1>1, <1>2, <2>1, ChainsKept
  <2>3. RetirementIsFinal'
    BY <1>2, <2>1, <2>2 DEF ChainInv, RetirementIsFinal
  <2> QED BY <2>2, <2>3 DEF ChainInv
<1>3. ASSUME NEW o, NEW c, NEW e \in Env, NEW g, RegisterEnvironment(o, e, c, g)
      PROVE  ChainInv'
  <2>1. Numbers' = Numbers /\ arrivals' = arrivals
    BY <1>3 DEF RegisterEnvironment, Numbers
  <2>2. /\ SeqsTyped' /\ ProducersDoNotFork'
        /\ \A d : ProducerFence(d)' = ProducerFence(d)
    BY <1>1, <2>1, ChainsKept
  <2>3. Retired' = Retired /\ \A d \in Retired : envs'[d] = envs[d]
    BY <1>3 DEF RegisterEnvironment, Retired, Registered, RelayInv, RowsInMembership
  <2>4. RetirementIsFinal'
    BY <2>2, <2>3 DEF ChainInv, RetirementIsFinal
  <2> QED BY <2>2, <2>4 DEF ChainInv
<1>4. ASSUME NEW o, NEW e \in Env, NEW g, NEW final, NEW digest,
             RetireEnvironment(o, e, g, final, digest)
      PROVE  ChainInv'
  <2>1. Numbers' = Numbers /\ arrivals' = arrivals
    BY <1>4 DEF RetireEnvironment, Numbers
  <2>2. /\ SeqsTyped' /\ ProducersDoNotFork'
        /\ \A d : ProducerFence(d)' = ProducerFence(d)
    BY <1>1, <2>1, ChainsKept
  <2>3. /\ \A d \in Env : d # e => envs'[d] = envs[d]
        /\ envs'[e].retired = [generation |-> g, final |-> final, digest |-> digest]
    <3>1. e \in Registered /\ DOMAIN envs = Env
      BY <1>4 DEF RetireEnvironment, RelayInv, RowsInMembership
    <3>2. envs[e] = [credential |-> envs[e].credential, joined |-> envs[e].joined,
                     retired |-> envs[e].retired]
      BY <3>1 DEF RelayInv, RowsInMembership
    <3> QED BY <1>4, <3>1, <3>2 DEF RetireEnvironment
  <2>4. ASSUME NEW d \in Retired'
        PROVE  ProducerFence(d)' = <<envs'[d].retired.final, envs'[d].retired.digest>>
    <3>1. CASE d = e
      BY <1>4, <2>2, <2>3, <3>1 DEF RetireEnvironment, FenceHolds
    <3>2. CASE d # e
      <4>1. d \in Retired /\ envs'[d] = envs[d]
        BY <2>3, <3>2 DEF Retired, Registered
      <4> QED BY <2>2, <4>1 DEF ChainInv, RetirementIsFinal
    <3> QED BY <3>1, <3>2
  <2>5. RetirementIsFinal'
    BY <2>4 DEF RetirementIsFinal
  <2> QED BY <2>2, <2>5 DEF ChainInv
<1>5. ASSUME NEW e, NEW s \in 1 .. bound.arrivals, NEW f, NEW n, NEW p,
             AppendEnvelope(Envelope(e, s, f, n, p))
      PROVE  ChainInv'
  <2>1. Envelope(e, s, f, n, p).seq \in 1 .. bound.arrivals
    BY DEF Envelope
  <2> QED BY <1>1, <1>5, <2>1, AppendKeepsChains
<1>6. ASSUME NEW o, NEW g, NEW barrier, NEW closure, NEW targets \in SUBSET Numbers,
             Tombstone(o, g, barrier, closure, targets)
      PROVE  ChainInv'
  <2>1. \A i \in Numbers : arrivals[i] = [envelope |-> arrivals[i].envelope,
                                          pruned |-> arrivals[i].pruned]
    BY DEF RelayInv, ArrivalsTyped
  <2>2. /\ Numbers' = Numbers /\ envs' = envs /\ Retired' = Retired
        /\ \A i \in Numbers : arrivals'[i].envelope = arrivals[i].envelope
    BY <1>6, <2>1 DEF Tombstone, Numbers, channelVars, Retired, Registered
  <2>3. /\ SeqsTyped' /\ ProducersDoNotFork'
        /\ \A d : ProducerFence(d)' = ProducerFence(d)
    BY <1>1, <2>2, ChainsKept
  <2>4. RetirementIsFinal'
    BY <2>2, <2>3 DEF ChainInv, RetirementIsFinal
  <2> QED BY <2>3, <2>4 DEF ChainInv
<1>7. Member \subseteq Env
  BY OpaqueRelayAssumption DEF Member, Env, RelayInv
<1>8. CASE Next
  <2>1. \/ UNCHANGED <<arrivals, envs>>
        \/ \E o, c \in Credential, e \in Member, g \in Generation : RegisterEnvironment(o, e, c, g)
        \/ \E o \in Credential, e \in Member, g \in Generation, final \in 0 .. bound.arrivals,
              digest \in Digests : RetireEnvironment(o, e, g, final, digest)
        \/ \E e \in Member, s \in 1 .. bound.arrivals, f \in Fact, n \in Nonce, p \in Digests :
              AppendEnvelope(Envelope(e, s, f, n, p))
        \/ \E o \in Credential, g \in Generation, barrier, closure \in Numbers,
              targets \in SUBSET Numbers : Tombstone(o, g, barrier, closure, targets)
    BY <1>8 DEF Next, CreateChannel, Expire, Page, Acknowledge, EnvironmentInventory, ReadAgain,
                channelVars
  <2> QED BY <1>2, <1>3, <1>4, <1>5, <1>6, <1>7, <2>1
<1> QED BY <1>2, <1>8 DEF vars

\* Append refuses whatever does not follow the relay's last envelope of its producer: each
\* producer is one numbered chain, whatever stale copies of the environment send, and a
\* retired one ends where RetireEnvironment was told it ends.
THEOREM ProducersAreChains == Spec => [](ProducersDoNotFork /\ RetirementIsFinal)
<1>1. Init => ChainInv
  <2>1. Init => Numbers = {} /\ Retired = {}
    BY DEF Init, Numbers, Retired, Registered
  <2> QED BY <2>1 DEF ChainInv, SeqsTyped, ProducersDoNotFork, RetirementIsFinal
<1>2. RelayInv /\ RelayInv' /\ ChainInv /\ [Next]_vars => ChainInv'
  BY ChainNextInv
<1>3. ChainInv => ProducersDoNotFork /\ RetirementIsFinal
  BY DEF ChainInv
<1> QED BY <1>1, <1>2, <1>3, RelayInvariant, PTL DEF Spec

\* Acknowledge never takes back progress: a late or repeated acknowledgement is refused.
THEOREM AcknowledgementsAdvance == Spec => AcksAdvance
<1> DEFINE Forward == \A e \in DOMAIN acks : /\ e \in DOMAIN acks'
                                             /\ acks'[e].generation >= acks[e].generation
                                             /\ acks'[e].applied >= acks[e].applied
<1>1. ASSUME RelayInv, [Next]_vars PROVE Forward
  <2>1. \A e \in DOMAIN acks : acks[e].generation \in Nat /\ acks[e].applied \in Nat
    BY <1>1 DEF RelayInv, AcksAreHonest
  <2>2. CASE UNCHANGED acks
    BY <2>1, <2>2
  <2>3. ASSUME NEW e \in Member, NEW a \in Acknowledgement, Acknowledge(e, a) PROVE Forward
    <3>1. a.generation \in Nat /\ a.applied \in Nat
      BY <1>1, OpaqueRelayAssumption DEF RelayInv, Acknowledgement
    <3> QED BY <2>1, <2>3, <3>1 DEF Acknowledge, NotRolledBack
  <2>4. \/ UNCHANGED acks
        \/ \E e \in Member, a \in Acknowledgement : Acknowledge(e, a)
    <3>1. EnvironmentInventory => UNCHANGED acks
      BY DEF EnvironmentInventory
    <3>2. /\ \A c : CreateChannel(c) => UNCHANGED acks
          /\ \A o, e, c, g : RegisterEnvironment(o, e, c, g) => UNCHANGED acks
          /\ \A o, e, g, final, digest : RetireEnvironment(o, e, g, final, digest) => UNCHANGED acks
          /\ \A e : Expire(e) => UNCHANGED acks
          /\ \A v : AppendEnvelope(v) => UNCHANGED acks
          /\ \A e, through : Page(e, through) => UNCHANGED acks
          /\ \A o, g, barrier, closure, targets :
               Tombstone(o, g, barrier, closure, targets) => UNCHANGED acks
          /\ ReadAgain => UNCHANGED acks
      BY DEF CreateChannel, RegisterEnvironment, RetireEnvironment, Expire, AppendEnvelope, Page,
             Tombstone, ReadAgain
    <3> QED BY <1>1, <3>1, <3>2 DEF Next, vars
  <2> QED BY <2>2, <2>3, <2>4
<1>2. RelayInv /\ [Next]_vars => [Forward]_vars
  BY <1>1
<1> QED BY <1>2, RelayInvariant, PTL DEF Spec, AcksAdvance

=============================================================================
