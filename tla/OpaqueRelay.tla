---------------------------- MODULE OpaqueRelay ----------------------------
(***************************************************************************)
(* The vNext relay's store: vnext/sync/relay/sqlite behind the contract    *)
(* and the verifier of vnext/sync/relay.  One channel of one relay         *)
(* generation: its environments, the arrivals it numbers, the progress its *)
(* environments acknowledge and the arrivals a prune blanks.               *)
(*                                                                         *)
(* An operation is one transaction of one connection, so one action.  The  *)
(* requests are not: the owner and the environments build them from what   *)
(* they last saw and may send them late, twice or after others, so an      *)
(* action takes any request its sender could ever have signed.             *)
(***************************************************************************)
EXTENDS Naturals, FiniteSets, Sequences

CONSTANTS
  NEnv,         \* environment ids are 1 .. NEnv, in their order
  Credential,   \* certificates with their bearer tokens; the owner's token too
  Fact, Nonce,
  NoDigest,     \* the all-zero digest
  NoCredential,
  PageLimit,    \* records per inventory page
  Bounds        \* bounds to choose from: environments, which of them are
                \* ephemeral, the groups of operations that take part, and how
                \* many arrivals, membership generations and prunes there are

Env == 1 .. NEnv

ASSUME OpaqueRelayAssumption ==
  /\ NEnv \in Nat /\ PageLimit \in Nat \ {0}
  /\ NoCredential \notin Credential
  /\ \A b \in Bounds :
       /\ b.envs \in 0 .. NEnv /\ b.ephemeral \subseteq Env
       /\ b.operations \subseteq {"progress", "inventory"}
       /\ b.arrivals \in Nat /\ b.memberships \in Nat /\ b.prunes \in Nat

VARIABLES
  owner,       \* the owner token of relay_channels, NoCredential before it exists
  membership,  \* relay_channels.membership_generation
  envs,        \* relay_environments
  expired,     \* ephemeral environments whose time has passed
  arrivals,    \* relay_arrivals, by arrival_sequence
  acks,        \* relay_acknowledgements
  prunes,      \* relay_prune_certificates, by prune_sequence
  applied,     \* applied[e]: the arrivals environment e's own store has applied
  reader,      \* a client reading the environment inventory page by page
  bound        \* the bounds of this behaviour

channelVars == <<owner, membership, envs, expired>>
vars == <<owner, membership, envs, expired, arrivals, acks, prunes, applied, reader, bound>>

----------------------------------------------------------------------------
(* What the tables hold.  A digest is collision-free, so the digest of an  *)
(* envelope is the envelope: its previous digest is the one before it.     *)

Envelope(e, s, f, n, p) ==
  [env |-> e, seq |-> s, fact |-> f, nonce |-> n, prev |-> p]

Numbers == DOMAIN arrivals
Envelopes == {arrivals[i].envelope : i \in Numbers}

\* channelHead
ChannelHead == Len(arrivals)

\* producerHead, with the arrivals up to a head.
ProducerHeadAt(e, head) ==
  LET seqs == {arrivals[i].envelope.seq : i \in {j \in Numbers : /\ j <= head
                                                      /\ arrivals[j].envelope.env = e}}
  IN  IF seqs = {} THEN 0 ELSE CHOOSE m \in seqs : \A s \in seqs : s <= m

ProducerHead(e) == ProducerHeadAt(e, ChannelHead)

\* producerFence: the producer's last sequence and its digest.
ProducerFence(e) ==
  IF ProducerHead(e) = 0 THEN <<0, NoDigest>>
  ELSE <<ProducerHead(e),
         CHOOSE v \in Envelopes : v.env = e /\ v.seq = ProducerHead(e)>>

\* Rows of relay_environments, relay_acknowledgements, relay_prune_certificates.
Retirement ==
  [generation : 1 .. bound.memberships, final : 0 .. bound.arrivals, digest : Envelopes \cup {NoDigest}]

EnvironmentRow ==
  [credential : Credential, joined : 1 .. bound.memberships, retired : Retirement \cup {<<>>}]

Acknowledgement ==
  [generation : 1 .. bound.memberships, applied : 0 .. bound.arrivals, producer : 0 .. bound.arrivals]

PruneRow ==
  [generation : 1 .. bound.memberships, barrier : 1 .. bound.arrivals, closure : Numbers,
   targets : SUBSET Numbers \ {{}}]

Registered == {e \in Env : envs[e] # <<>>}
Retired == {e \in Registered : envs[e].retired # <<>>}

\* authenticateEnvironment and requireActiveEnvironment
ActiveEnvironment(e) == e \in Registered /\ e \notin Retired /\ e \notin expired

\* authenticateOwner
AuthenticateOwner(c) == owner = c /\ c # NoCredential

NoSnapshot == [state |-> "idle"]

TypeOK ==
  /\ owner \in Credential \cup {NoCredential}
  /\ membership \in 0 .. bound.memberships
  /\ envs \in [Env -> EnvironmentRow \cup {<<>>}]
  /\ expired \subseteq bound.ephemeral
  /\ \A i \in Numbers : /\ arrivals[i].envelope.env \in Registered
                        /\ arrivals[i].pruned \in 0 .. Len(prunes)
  /\ DOMAIN acks \subseteq Registered
  /\ \A e \in DOMAIN acks : acks[e] \in Acknowledgement /\ acks[e].applied <= ChannelHead
  /\ \A k \in DOMAIN prunes : prunes[k] \in PruneRow /\ prunes[k].barrier <= ChannelHead
  /\ applied \in [Env -> 0 .. bound.arrivals]
  /\ reader.state \in {"idle", "reading", "done"}

Init ==
  /\ bound \in Bounds
  /\ owner = NoCredential /\ membership = 0
  /\ envs = [e \in Env |-> <<>>] /\ expired = {}
  /\ arrivals = <<>> /\ acks = <<>> /\ prunes = <<>>
  /\ applied = [e \in Env |-> 0]
  /\ reader = NoSnapshot

----------------------------------------------------------------------------
(* The channel and its environments. *)

\* CreateChannel: a second call is answered, or refused, and changes nothing.
CreateChannel(c) ==
  /\ owner = NoCredential
  /\ \A e \in Registered : envs[e].credential # c
  /\ owner' = c
  /\ UNCHANGED <<membership, envs, expired, arrivals, acks, prunes, applied, reader>>

\* environmentRegistrationConflict: the id, the certificate and the token are
\* used once, and the owner's token is nobody else's.
RegistrationConflict(e, c) ==
  \/ e \in Registered
  \/ \E d \in Registered : envs[d].credential = c
  \/ owner = c

\* Mutation of RegistrationNext: a certificate may skip a generation.
RegistrationNext_Skips(g) == g > membership /\ g <= bound.memberships

\* The membership a new registration or retirement must carry: the next one.
RegistrationNext(g) == g = membership + 1 /\ g <= bound.memberships

\* RegisterEnvironment, classified absent, of a certificate still valid.  An
\* exact retry, a conflicting one and one for a retired or expired environment
\* change nothing.
RegisterEnvironment(o, e, c, g) ==
  /\ AuthenticateOwner(o)
  /\ e \notin Registered
  /\ RegistrationNext(g)
  /\ ~RegistrationConflict(e, c)
  /\ envs' = [envs EXCEPT ![e] = [credential |-> c, joined |-> g, retired |-> <<>>]]
  /\ membership' = g
  /\ UNCHANGED <<owner, expired, arrivals, acks, prunes, applied, reader>>

\* Mutation of FenceHolds: the fence the administrator signed is not compared.
FenceHolds_Unchecked(e, final, digest) == TRUE

\* The retirement names the last envelope the relay has of the environment.
FenceHolds(e, final, digest) == ProducerFence(e) = <<final, digest>>

\* RetireEnvironment: an environment may be retired after it expired.
RetireEnvironment(o, e, g, final, digest) ==
  /\ AuthenticateOwner(o)
  /\ e \in Registered /\ e \notin Retired
  /\ RegistrationNext(g)
  /\ (final = 0) = (digest = NoDigest)
  /\ FenceHolds(e, final, digest)
  /\ envs' = [envs EXCEPT ![e].retired =
                 [generation |-> g, final |-> final, digest |-> digest]]
  /\ membership' = g
  /\ UNCHANGED <<owner, expired, arrivals, acks, prunes, applied, reader>>

\* Mutation of Expire: no expiry (0) is taken for one that has passed.
Expire_Zero(e) ==
  /\ e \in Registered \ expired
  /\ expired' = expired \cup {e}
  /\ UNCHANGED <<owner, membership, envs, arrivals, acks, prunes, applied, reader>>

\* The clock passes an ephemeral environment's expiry.
Expire(e) ==
  /\ e \in (Registered \cap bound.ephemeral) \ expired
  /\ expired' = expired \cup {e}
  /\ UNCHANGED <<owner, membership, envs, arrivals, acks, prunes, applied, reader>>

----------------------------------------------------------------------------
(* Envelopes. *)

\* findArrivalCollisions
Collisions(v) ==
  {i \in Numbers : \/ arrivals[i].envelope.fact = v.fact
                   \/ /\ arrivals[i].envelope.env = v.env
                      /\ arrivals[i].envelope.seq = v.seq
                   \/ arrivals[i].envelope = v}

\* Mutation of Extends: the link to the envelope before is not compared.
Extends_AnyPrevious(v) == v.seq = ProducerHead(v.env) + 1

\* The next of its producer, chained to the last.
Extends(v) ==
  /\ v.seq = ProducerHead(v.env) + 1
  /\ v.seq > 1 => v.prev = ProducerFence(v.env)[2]

\* Append, accepted.  An envelope that collides is a duplicate when it is the
\* one stored and refused when it is not; either way nothing changes.
AppendEnvelope(v) ==
  /\ ActiveEnvironment(v.env)
  /\ (v.seq = 1) = (v.prev = NoDigest)
  /\ Collisions(v) = {}
  /\ Extends(v)
  /\ \A w \in Envelopes : w.nonce # v.nonce
  /\ ChannelHead < bound.arrivals
  /\ arrivals' = Append(arrivals, [envelope |-> v, pruned |-> 0])
  /\ UNCHANGED <<channelVars, acks, prunes, applied, reader>>

\* Page, and the client that applies what it got: any prefix of the page.
Page(e, through) ==
  /\ ActiveEnvironment(e)
  /\ applied[e] < ChannelHead
  /\ through \in applied[e] + 1 .. ChannelHead
  /\ applied' = [applied EXCEPT ![e] = through]
  /\ UNCHANGED <<channelVars, arrivals, acks, prunes, reader>>

\* The acknowledgement a client can have signed claims no more than it has
\* applied, now or when it signed it.
Signed(e, a) == a.applied <= applied[e]

\* Mutation of NotRolledBack: a late acknowledgement replaces a newer one.
NotRolledBack_Unchecked(e, a) == TRUE

\* The stored acknowledgement is replaced by one that is nowhere behind it.
NotRolledBack(e, a) ==
  e \in DOMAIN acks =>
    /\ acks[e].generation <= a.generation
    /\ acks[e].applied <= a.applied
    /\ acks[e].producer <= a.producer

\* Acknowledge: for the present membership, with the producer's present fence.
Acknowledge(e, a) ==
  /\ ActiveEnvironment(e)
  /\ Signed(e, a)
  /\ NotRolledBack(e, a)
  /\ a.generation = membership
  /\ a.applied <= ChannelHead
  /\ a.producer = ProducerHead(e)
  /\ acks' = [d \in DOMAIN acks \cup {e} |-> IF d = e THEN a ELSE acks[d]]
  /\ acks' # acks
  /\ UNCHANGED <<channelVars, arrivals, prunes, applied, reader>>

----------------------------------------------------------------------------
(* Pruning. *)

\* Mutation of PruneAuthority: the barrier is not compared.
PruneAuthority_NoBarrier(g, barrier) ==
  \A e \in Registered \ Retired :
    /\ e \in DOMAIN acks
    /\ acks[e].generation = g
    /\ acks[e].producer = ProducerHead(e)

\* readPruneAuthority: every environment that is not retired, expired or not,
\* has acknowledged the barrier under this membership and has sent nothing
\* since.  The votes in the certificate are bound to these acknowledgements.
PruneAuthority(g, barrier) ==
  /\ Registered \ Retired # {}
  /\ \A e \in Registered \ Retired :
       /\ e \in DOMAIN acks
       /\ acks[e].generation = g
       /\ acks[e].applied >= barrier
       /\ acks[e].producer = ProducerHead(e)

\* verifyRetainedPruneReference
RetainedReference(i) == i \in Numbers /\ arrivals[i].pruned = 0

\* Mutation of Prunable: a closure may be a later prune's target.
Prunable_Closure(targets) == \A i \in targets : RetainedReference(i)

\* verifyPruneTargets: a target has its ciphertext and closes no earlier prune.
Prunable(targets) ==
  \A i \in targets :
    /\ RetainedReference(i)
    /\ \A k \in DOMAIN prunes : prunes[k].closure # i

\* Tombstone, for a certificate not stored yet: the certificate is recorded
\* and every target loses its ciphertext, in one transaction.
Tombstone(o, g, barrier, closure, targets) ==
  /\ AuthenticateOwner(o)
  /\ Len(prunes) < bound.prunes
  /\ targets # {} /\ closure \notin targets
  /\ \A i \in targets \cup {closure} : i <= barrier
  /\ g = membership
  /\ barrier <= ChannelHead
  /\ RetainedReference(closure)
  /\ Prunable(targets)
  /\ PruneAuthority(g, barrier)
  /\ prunes' = Append(prunes, [generation |-> g, barrier |-> barrier,
                               closure |-> closure, targets |-> targets])
  /\ arrivals' = [i \in Numbers |-> IF i \in targets
                                    THEN [arrivals[i] EXCEPT !.pruned = Len(prunes) + 1]
                                    ELSE arrivals[i]]
  /\ UNCHANGED <<channelVars, acks, applied, reader>>

----------------------------------------------------------------------------
(* The environment inventory, read in pages that share a snapshot. *)

Record(e, head) ==
  [env |-> e, joined |-> envs[e].joined, retired |-> envs[e].retired,
   producer |-> ProducerHeadAt(e, head)]

\* The first PageLimit environments past a cursor.
PageOf(after) ==
  LET rest == {e \in Registered : e > after}
  IN  {e \in rest : Cardinality({d \in rest : d < e}) < PageLimit}

\* A request that carries a snapshot is refused once the membership moved.
SnapshotHolds(snap) == snap.generation = membership /\ snap.head <= ChannelHead

\* Mutation of EnvironmentInventory: producers are counted to the head of now.
EnvironmentInventory_HeadOfNow ==
  \E snap \in {IF reader.state = "reading" THEN reader.snap
               ELSE [generation |-> membership, head |-> ChannelHead]} :
    LET after == IF reader.state = "reading" THEN reader.after ELSE 0
        got   == IF reader.state = "reading" THEN reader.got ELSE {}
        page  == PageOf(after)
        more  == \E e \in Registered : e > after /\ e \notin page
    IN  /\ owner # NoCredential /\ reader.state # "done"
        /\ SnapshotHolds(snap)
        /\ reader' = [state |-> IF more THEN "reading" ELSE "done", snap |-> snap,
                      after |-> IF page = {} THEN after
                                ELSE CHOOSE m \in page : \A e \in page : e <= m,
                      got   |-> got \cup {Record(e, ChannelHead) : e \in page}]
        /\ UNCHANGED <<channelVars, arrivals, acks, prunes, applied>>

\* EnvironmentInventory: the first page fixes the snapshot, the others carry it.
EnvironmentInventory ==
  \E snap \in {IF reader.state = "reading" THEN reader.snap
               ELSE [generation |-> membership, head |-> ChannelHead]} :
    LET after == IF reader.state = "reading" THEN reader.after ELSE 0
        got   == IF reader.state = "reading" THEN reader.got ELSE {}
        page  == PageOf(after)
        more  == \E e \in Registered : e > after /\ e \notin page
    IN  /\ owner # NoCredential /\ reader.state # "done"
        /\ SnapshotHolds(snap)
        /\ reader' = [state |-> IF more THEN "reading" ELSE "done", snap |-> snap,
                      after |-> IF page = {} THEN after
                                ELSE CHOOSE m \in page : \A e \in page : e <= m,
                      got   |-> got \cup {Record(e, snap.head) : e \in page}]
        /\ UNCHANGED <<channelVars, arrivals, acks, prunes, applied>>

\* The client starts over, after a refusal or to look again.
ReadAgain ==
  /\ reader.state # "idle"
  /\ reader' = NoSnapshot
  /\ UNCHANGED <<channelVars, arrivals, acks, prunes, applied>>

----------------------------------------------------------------------------
Digests == Envelopes \cup {NoDigest}

Member == 1 .. bound.envs
Generation == 1 .. bound.memberships

Next ==
  /\ UNCHANGED bound
  /\ \/ \E c \in Credential : CreateChannel(c)
     \/ \E o, c \in Credential, e \in Member, g \in Generation : RegisterEnvironment(o, e, c, g)
     \/ \E o \in Credential, e \in Member, g \in Generation, final \in 0 .. bound.arrivals,
           digest \in Digests : RetireEnvironment(o, e, g, final, digest)
     \/ \E e \in Member : Expire(e)
     \/ \E e \in Member, s \in 1 .. bound.arrivals, f \in Fact, n \in Nonce, p \in Digests :
          AppendEnvelope(Envelope(e, s, f, n, p))
     \/ /\ "progress" \in bound.operations
        /\ \/ \E e \in Member, through \in 1 .. bound.arrivals : Page(e, through)
           \/ \E e \in Member, a \in Acknowledgement : Acknowledge(e, a)
     \/ \E o \in Credential, g \in Generation, barrier, closure \in Numbers,
           targets \in SUBSET Numbers : Tombstone(o, g, barrier, closure, targets)
     \/ "inventory" \in bound.operations /\ (EnvironmentInventory \/ ReadAgain)

Spec == Init /\ [][Next]_vars

----------------------------------------------------------------------------
(* What the relay promises. *)

\* Every membership generation is exactly one registration or retirement: a
\* client that knows generation g can ask for each event that made it.
GenerationsAreEvents ==
  /\ {envs[e].joined : e \in Registered} \cup {envs[e].retired.generation : e \in Retired}
       = 1 .. membership
  /\ Cardinality(Registered) + Cardinality(Retired) = membership

\* Each producer's arrivals are one chain: numbered from 1 in the order they
\* arrived, each naming the one before it, whatever stale or restored copies
\* of the environment have sent.
ProducersDoNotFork ==
  \A i, j \in Numbers :
    LET v == arrivals[i].envelope  w == arrivals[j].envelope
    IN  (i < j /\ v.env = w.env) => (v.seq < w.seq /\ (w.seq = v.seq + 1 => w.prev = v))

\* A retirement is final: the relay's last envelope of the environment is,
\* from then on, the one the administrator signed for.
RetirementIsFinal ==
  \A e \in Retired : ProducerFence(e) = <<envs[e].retired.final, envs[e].retired.digest>>

\* Nothing is blanked that a member still has to apply: whoever had joined by
\* the prune's generation and was not retired by it has applied the target.
PrunedWasApplied ==
  \A k \in DOMAIN prunes, i \in Numbers, e \in Registered :
    /\ arrivals[i].pruned = k
    /\ envs[e].joined <= prunes[k].generation
    /\ e \notin Retired \/ envs[e].retired.generation > prunes[k].generation
    => applied[e] >= i

\* What a prune takes away every member has applied, and the fact that closed what was
\* pruned keeps its ciphertext, through every later prune: a fresh client can still
\* verify it, and an exact retry of the prune is still answered.
PrunesLoseNothing ==
  /\ PrunedWasApplied
  /\ \A k \in DOMAIN prunes : arrivals[prunes[k].closure].pruned = 0

\* A finished inventory is the channel as it was at one membership and one
\* head, though it was read in pages while others registered and sent.
InventoryIsOneSnapshot ==
  reader.state = "done" =>
    /\ {r.env : r \in reader.got} = {e \in Registered : envs[e].joined <= reader.snap.generation}
    /\ \A r \in reader.got :
         /\ r.producer = ProducerHeadAt(r.env, reader.snap.head)
         /\ r.retired = IF r.env \in Retired /\ envs[r.env].retired.generation <= reader.snap.generation
                        THEN envs[r.env].retired ELSE <<>>

\* Acknowledged progress never goes back, for as long as the channel lives.
AcksAdvance ==
  [][\A e \in DOMAIN acks : /\ e \in DOMAIN acks'
                            /\ acks'[e].generation >= acks[e].generation
                            /\ acks'[e].applied >= acks[e].applied]_vars

=============================================================================
