-------------------------- MODULE RelayAccessProofs --------------------------
(***************************************************************************)
(* What the relay's admin commands and scratchpad streams guarantee for    *)
(* any number of accounts, connections, channels, requests and messages.   *)
(* AccessInv is inductive.                                                 *)
(***************************************************************************)
EXTENDS RelayAccess, ListFacts, SequenceTheorems

----------------------------------------------------------------------------
(* What ORDER BY seq returns. *)

Below(rows, m) == {x \in rows : x.seq < m.seq}
At(rows, i) == CHOOSE m \in rows : Cardinality(Below(rows, m)) = i - 1

\* A finite set of rows, each with a number of its own.
Numbered(rows) ==
  /\ IsFiniteSet(rows)
  /\ \A m \in rows : m.seq \in Nat
  /\ \A m, x \in rows : m.seq = x.seq => m = x

\* IdsInOrder lists every row once and in the order of the numbers
\* (ListScratchpadSince: ORDER BY seq ASC).
LEMMA RowsInOrder ==
  ASSUME NEW rows, Numbered(rows)
  PROVE  /\ Cardinality(rows) \in Nat
         /\ \A i \in 1 .. Cardinality(rows) : At(rows, i) \in rows
         /\ \A i, j \in 1 .. Cardinality(rows) : i < j => At(rows, i).seq < At(rows, j).seq
         /\ \A m \in rows : \E i \in 1 .. Cardinality(rows) : At(rows, i) = m
<1> DEFINE n == Cardinality(rows)
           rank == [m \in rows |-> Cardinality(Below(rows, m))]
<1> USE DEF Numbered
<1>1. n \in Nat
  BY FS_CardinalityType
<1>2. \A m \in rows : /\ IsFiniteSet(Below(rows, m))
                      /\ rank[m] \in Nat /\ rank[m] < n
  <2> SUFFICES ASSUME NEW m \in rows
               PROVE  /\ IsFiniteSet(Below(rows, m))
                      /\ Cardinality(Below(rows, m)) \in Nat /\ Cardinality(Below(rows, m)) < n
    OBVIOUS
  <2>1. Below(rows, m) \in SUBSET rows /\ m \notin Below(rows, m)
    BY DEF Below
  <2>2. /\ IsFiniteSet(Below(rows, m)) /\ Cardinality(Below(rows, m)) <= n
        /\ n = Cardinality(Below(rows, m)) => rows = Below(rows, m)
    BY <2>1, FS_Subset
  <2>3. Cardinality(Below(rows, m)) \in Nat
    BY <2>2, FS_CardinalityType
  <2> QED BY <1>1, <2>1, <2>2, <2>3
<1>3. \A m, x \in rows : m.seq < x.seq => rank[m] < rank[x]
  <2> SUFFICES ASSUME NEW m \in rows, NEW x \in rows, m.seq < x.seq
               PROVE  Cardinality(Below(rows, m)) < Cardinality(Below(rows, x))
    OBVIOUS
  <2>1. /\ Below(rows, m) \in SUBSET Below(rows, x)
        /\ m \in Below(rows, x) /\ m \notin Below(rows, m)
    BY DEF Below
  <2>2. /\ Cardinality(Below(rows, m)) <= Cardinality(Below(rows, x))
        /\ Cardinality(Below(rows, x)) = Cardinality(Below(rows, m))
             => Below(rows, x) = Below(rows, m)
    BY <1>2, <2>1, FS_Subset
  <2>3. Cardinality(Below(rows, m)) \in Nat /\ Cardinality(Below(rows, x)) \in Nat
    BY <1>2
  <2> QED BY <2>1, <2>2, <2>3
<1>4. \A m, x \in rows : rank[m] < rank[x] => m.seq < x.seq
  <2> SUFFICES ASSUME NEW m \in rows, NEW x \in rows, rank[m] < rank[x], ~ (m.seq < x.seq)
               PROVE  FALSE
    OBVIOUS
  <2> HIDE DEF rank
  <2>1. m.seq = x.seq \/ x.seq < m.seq
    OBVIOUS
  <2>2. CASE m.seq = x.seq
    BY <1>2, <2>2
  <2>3. CASE x.seq < m.seq
    BY <1>2, <1>3, <2>3
  <2> QED BY <2>1, <2>2, <2>3
<1>5. rank \in Injection(rows, 0 .. n - 1)
  <2>1. rank \in [rows -> 0 .. n - 1]
    <3>1. \A m \in rows : rank[m] \in 0 .. n - 1
      <4> HIDE DEF rank
      <4> QED BY <1>1, <1>2
    <3> QED BY <3>1
  <2>2. \A m, x \in rows : rank[m] = rank[x] => m = x
    <3> HIDE DEF rank
    <3>1. ASSUME NEW m \in rows, NEW x \in rows, rank[m] = rank[x] PROVE m.seq = x.seq
      <4>1. rank[m] \in Nat /\ rank[x] \in Nat /\ ~ (rank[m] < rank[x]) /\ ~ (rank[x] < rank[m])
        BY <1>2, <3>1
      <4>2. ~ (m.seq < x.seq) /\ ~ (x.seq < m.seq)
        BY <1>3, <4>1
      <4> QED BY <4>2
    <3> QED BY <3>1
  <2> HIDE DEF rank
  <2> QED BY <2>1, <2>2 DEF Injection, IsInjective
<1>6. \A k \in 0 .. n - 1 : \E m \in rows : rank[m] = k
  <2> HIDE DEF rank
  <2>1. IsFiniteSet(0 .. n - 1) /\ Cardinality(0 .. n - 1) = n
    BY <1>1, FS_Interval
  <2>2. rank \in Surjection(rows, 0 .. n - 1)
    BY <1>5, <2>1, FS_Injection
  <2> QED BY <2>2 DEF Surjection
<1>7. \A i \in 1 .. n : At(rows, i) \in rows /\ rank[At(rows, i)] = i - 1
  <2> SUFFICES ASSUME NEW i \in 1 .. n
               PROVE  At(rows, i) \in rows /\ Cardinality(Below(rows, At(rows, i))) = i - 1
    OBVIOUS
  <2>1. \E m \in rows : Cardinality(Below(rows, m)) = i - 1
    BY <1>1, <1>6
  <2> QED BY <2>1 DEF At
<1>8. \A i, j \in 1 .. n : i < j => At(rows, i).seq < At(rows, j).seq
  <2> HIDE DEF rank
  <2> QED BY <1>1, <1>4, <1>7
<1>9. ASSUME NEW m \in rows PROVE \E i \in 1 .. n : At(rows, i) = m
  <2> HIDE DEF rank
  <2>1. PICK i \in 1 .. n : i - 1 = rank[m]
    BY <1>1, <1>2
  <2>2. At(rows, i) \in rows /\ rank[At(rows, i)] = rank[m]
    BY <1>7, <2>1
  <2>3. At(rows, i) = m
    BY <1>5, <2>2 DEF Injection, IsInjective
  <2> QED BY <2>3
<1> QED BY <1>1, <1>7, <1>8, <1>9

\* The number of a new row is past those of the others, and just past the greatest
\* (PublishScratchpadMessage; a stream's cursor).
LEMMA NextSeqIsPast ==
  ASSUME NEW rows, NEW top \in Nat, \A m \in rows : m.seq \in Nat /\ m.seq <= top
  PROVE  /\ NextSeq(rows) \in Nat /\ 1 <= NextSeq(rows) /\ NextSeq(rows) <= top + 1
         /\ \A m \in rows : m.seq < NextSeq(rows)
         /\ rows # {} => \E m \in rows : m.seq = NextSeq(rows) - 1
<1>1. CASE rows = {}
  BY <1>1 DEF NextSeq
<1>2. CASE rows # {}
  <2> DEFINE S == {m.seq : m \in rows}
             N == CHOOSE n \in S : \A m \in rows : m.seq <= n
  <2>1. PICK n \in S : \A s \in S : s <= n
    <3>1. S \in SUBSET Nat /\ S # {} /\ \A s \in S : s <= top
      BY <1>2
    <3> HIDE DEF S
    <3> QED BY <3>1, GreatestMember
  <2>2. \E x \in S : \A m \in rows : m.seq <= x
    BY <2>1
  <2>3. N \in S /\ \A m \in rows : m.seq <= N
    BY <2>2
  <2>4. NextSeq(rows) = 1 + N
    BY <1>2 DEF NextSeq
  <2> HIDE DEF N
  <2>5. N \in Nat /\ N <= top
    BY <2>3
  <2> QED BY <2>3, <2>4, <2>5
<1> QED BY <1>1, <1>2

----------------------------------------------------------------------------
(* The inductive invariant. *)

\* The admin machine's files name accounts the relay has, and a name of an account
\* has one row.
AccountsSound ==
  /\ accounts \subseteq Account
  /\ \/ setup = NoSetup
     \/ /\ setup = [account |-> setup.account, step |-> setup.step]
        /\ setup.account \in accounts
  /\ AdminWireUsable
  /\ tokens \subseteq Token /\ IsFiniteSet(tokens)
  /\ \A t, u \in tokens : Key(t) = Key(u) => t = u
  /\ wires \subseteq Minted

\* The rows of a channel: since its last prune, numbered in the order they came in.
ChannelRows(rows, e) ==
  /\ Numbered(rows)
  /\ \A m \in rows : /\ m.id \in Nat /\ 1 <= m.seq /\ m.seq <= m.id /\ m.id <= sent
                     /\ m.epoch = e
  /\ \A m, x \in rows : m.seq < x.seq => m.id < x.id

ChannelsSound ==
  /\ sent \in Nat
  /\ chan = [p \in Project |-> [h \in Channel |-> chan[p][h]]]
  /\ epoch \in [Project -> [Channel -> Nat]]
  /\ \A p \in Project, h \in Channel : ChannelRows(chan[p][h], epoch[p][h])

RequestsTyped ==
  /\ request \in [Client -> {Idle} \cup Request]
  /\ received \in [Client -> Seq(Nat)]

\* What a stream has written is in order and was published.
Written(c) ==
  /\ \A i \in 1 .. Len(received[c]) : received[c][i] <= sent
  /\ \A i, j \in 1 .. Len(received[c]) : i < j => received[c][i] < received[c][j]

\* Ahead of an open stream's cursor everything is newer than what it has written;
\* until a prune the cursor is where the stream began or at a row, and nothing in
\* between was passed over.
AheadIsNew(c) ==
  \A i \in 1 .. Len(received[c]) : \A m \in RowsFor(c) :
    request[c].since < m.seq => received[c][i] < m.id

CursorAtRow(c) ==
  LET e == epoch[request[c].project][request[c].channel]
  IN  /\ request[c].opened <= e
      /\ request[c].opened = e =>
           request[c].since = request[c].start \/ \E m \in RowsFor(c) : m.seq = request[c].since

NothingSkipped(c) ==
  \A m \in RowsFor(c) :
    /\ request[c].start < m.seq /\ m.seq <= request[c].since
    /\ m.epoch = request[c].opened
    => \E i \in 1 .. Len(received[c]) : received[c][i] = m.id

Open(c) == request[c].kind = "stream"
OpenSound(c) == Open(c) => AheadIsNew(c) /\ CursorAtRow(c) /\ NothingSkipped(c)
StreamsSound == \A c \in Client : Written(c) /\ OpenSound(c)

AccessInv == AccountsSound /\ ChannelsSound /\ RequestsTyped /\ StreamsSound

----------------------------------------------------------------------------
(* Initial states. *)

LEMMA AccessInitInv == Init => AccessInv
<1> SUFFICES ASSUME Init PROVE AccessInv
  OBVIOUS
<1> USE DEF Init
<1>1. AccountsSound
  BY FS_EmptySet DEF AccountsSound, AdminWireUsable, Minted
<1>2. ChannelsSound
  <2>1. \A p \in Project, h \in Channel : chan[p][h] = {} /\ epoch[p][h] = 0
    OBVIOUS
  <2>2. epoch \in [Project -> [Channel -> Nat]]
    OBVIOUS
  <2>3. chan = [p \in Project |-> [h \in Channel |-> chan[p][h]]]
    <3>1. \A p \in Project : chan[p] = [h \in Channel |-> chan[p][h]]
      OBVIOUS
    <3> QED BY <3>1
  <2> QED BY <2>1, <2>2, <2>3, FS_EmptySet DEF ChannelsSound, ChannelRows, Numbered
<1>3. RequestsTyped
  BY DEF RequestsTyped
<1>4. StreamsSound
  BY DEF StreamsSound, Written, OpenSound, Open, Idle
<1> QED BY <1>1, <1>2, <1>3, <1>4 DEF AccessInv

----------------------------------------------------------------------------
(* Accounts and tokens. *)

\* Steps that leave accounts and tokens alone.
LEMMA AccountsKept ==
  ASSUME AccountsSound, UNCHANGED accessVars
  PROVE  AccountsSound'
BY DEF AccountsSound, accessVars, AdminWireUsable, Minted, Key

\* Setup writes the account before the file that names it (setup.go).
LEMMA SetupSteps ==
  ASSUME AccountsSound, NEW a \in Account,
         SetupAccount(a) \/ SetupWire \/ SetupConfig \/ SetupInterrupted
  PROVE  AccountsSound'
<1>1. UNCHANGED <<tokens, wires>>
  BY DEF SetupAccount, SetupWire, SetupConfig, SetupInterrupted
<1>2. /\ accounts' \subseteq Account
      /\ \/ setup' = NoSetup
         \/ /\ setup' = [account |-> setup'.account, step |-> setup'.step]
            /\ setup'.account \in accounts'
      /\ AdminWireUsable'
  <2>1. CASE SetupAccount(a)
    BY <2>1 DEF SetupAccount, AccountsSound, AdminWireUsable
  <2>2. CASE SetupWire
    <3>1. setup # NoSetup
      BY <2>2 DEF SetupWire, NoSetup
    <3> QED BY <2>2, <3>1 DEF SetupWire, AccountsSound, AdminWireUsable
  <2>3. CASE SetupConfig
    BY <2>3 DEF SetupConfig, AccountsSound, AdminWireUsable
  <2>4. CASE SetupInterrupted
    BY <2>4 DEF SetupInterrupted, AccountsSound, AdminWireUsable
  <2> QED BY <2>1, <2>2, <2>3, <2>4
<1> QED BY <1>1, <1>2 DEF AccountsSound, Minted, Key

\* Link adds a row whose name the account has not used (MintConnectionToken).
LEMMA LinkStep ==
  ASSUME AccountsSound, NEW n \in Name, NEW p \in Project, NEW g \in BOOLEAN,
         NEW o \in BOOLEAN, Link(n, p, g, o)
  PROVE  AccountsSound'
<1> DEFINE t == [account |-> adminWire, name |-> n, project |-> p,
                 revoked |-> FALSE, seen |-> FALSE]
<1>1. /\ tokens' = tokens \cup {t}
      /\ wires' \subseteq wires \cup {Key(t)}
      /\ UNCHANGED <<accounts, setup, adminWire>>
      /\ adminWire \in accounts /\ Key(t) \notin Minted
  BY DEF Link, Mintable, AdminOpens, Key
<1>2. t \in Token
  BY <1>1 DEF AccountsSound, Token
<1>3. IsFiniteSet(tokens')
  BY <1>1, FS_AddElement DEF AccountsSound
<1>4. \A u \in tokens : Key(u) # Key(t)
  BY <1>1 DEF Minted
<1> HIDE DEF t
<1>5. \A u, v \in tokens' : Key(u) = Key(v) => u = v
  BY <1>1, <1>4 DEF AccountsSound
<1>6. wires' \subseteq Minted'
  BY <1>1 DEF AccountsSound, Minted, Key
<1> QED BY <1>1, <1>2, <1>3, <1>5, <1>6 DEF AccountsSound, AdminWireUsable

\* Revoking changes one row and no name; nor does last_seen_at.
LEMMA RevokeStep ==
  ASSUME AccountsSound, NEW n \in Name, NEW g \in BOOLEAN, RevokeConnection(n, g)
  PROVE  AccountsSound'
<1>1. PICK t \in tokens : tokens' = (tokens \ {t}) \cup {[t EXCEPT !.revoked = TRUE]}
  BY DEF RevokeConnection
<1> DEFINE u == [t EXCEPT !.revoked = TRUE]
<1>2. u \in Token /\ Key(u) = Key(t)
  BY <1>1 DEF AccountsSound, Token, Key
<1> HIDE DEF u
<1>3. UNCHANGED <<accounts, setup, adminWire, wires>>
  BY DEF RevokeConnection
<1>4. IsFiniteSet(tokens')
  BY <1>1, FS_AddElement, FS_RemoveElement DEF AccountsSound, u
<1>5. \A x, y \in tokens' : Key(x) = Key(y) => x = y
  BY <1>1, <1>2 DEF AccountsSound, u
<1>6. tokens' \subseteq Token
  BY <1>1, <1>2 DEF AccountsSound, u
<1>7. wires' \subseteq Minted'
  <2>1. tokens' = (tokens \ {t}) \cup {u}
    BY <1>1 DEF u
  <2>2. \A k \in Minted : \E x \in tokens' : Key(x) = k
    BY <1>2, <2>1 DEF Minted
  <2> QED BY <1>3, <2>2 DEF AccountsSound, Minted, Key
<1> QED BY <1>3, <1>4, <1>5, <1>6, <1>7 DEF AccountsSound, AdminWireUsable

LEMMA MarkSeenStep ==
  ASSUME AccountsSound, NEW c \in Client, MarkSeen(c)
  PROVE  AccountsSound'
<1> DEFINE f == [t \in tokens |-> IF Key(t) = request[c].token THEN [t EXCEPT !.seen = TRUE] ELSE t]
<1>1. tokens' = {f[t] : t \in tokens} /\ UNCHANGED <<accounts, setup, adminWire, wires>>
  BY DEF MarkSeen
<1>2. \A t \in tokens : f[t] \in Token /\ Key(f[t]) = Key(t)
  BY DEF AccountsSound, Token, Key
<1> HIDE DEF f
<1>3. IsFiniteSet(tokens')
  <2>1. f \in Surjection(tokens, tokens')
    <3>1. DOMAIN f = tokens /\ f = [t \in tokens |-> f[t]]
      BY DEF f
    <3>2. f \in [tokens -> tokens']
      BY <1>1, <3>1
    <3> QED BY <1>1, <3>2 DEF Surjection
  <2> QED BY <2>1, FS_Surjection DEF AccountsSound
<1>4. \A x, y \in tokens' : Key(x) = Key(y) => x = y
  BY <1>1, <1>2 DEF AccountsSound
<1>5. wires' \subseteq Minted'
  <2>1. \A k \in Minted : \E x \in tokens' : Key(x) = k
    BY <1>1, <1>2 DEF Minted
  <2> QED BY <1>1, <2>1 DEF AccountsSound, Minted, Key
<1>6. tokens' \subseteq Token
  BY <1>1, <1>2
<1> QED BY <1>1, <1>3, <1>4, <1>5, <1>6 DEF AccountsSound, AdminWireUsable

----------------------------------------------------------------------------
(* Channels and their streams. *)

\* What the rows of a channel give a reader.
LEMMA RowFacts ==
  ASSUME ChannelsSound, NEW p \in Project, NEW h \in Channel
  PROVE  /\ Numbered(chan[p][h]) /\ sent \in Nat
         /\ epoch[p][h] \in Nat
         /\ \A m \in chan[p][h] : /\ m.seq \in Nat /\ m.seq <= sent /\ 1 <= m.seq
                                  /\ m.id \in Nat /\ m.id <= sent /\ m.epoch = epoch[p][h]
         /\ \A m, x \in chan[p][h] : m.seq < x.seq => m.id < x.id
         /\ NextSeq(chan[p][h]) \in Nat /\ 1 <= NextSeq(chan[p][h])
         /\ NextSeq(chan[p][h]) <= sent + 1
         /\ \A m \in chan[p][h] : m.seq < NextSeq(chan[p][h])
<1>1. /\ Numbered(chan[p][h]) /\ sent \in Nat /\ epoch[p][h] \in Nat
      /\ \A m \in chan[p][h] : /\ m.id \in Nat /\ 1 <= m.seq /\ m.seq <= m.id /\ m.id <= sent
                               /\ m.epoch = epoch[p][h]
      /\ \A m, x \in chan[p][h] : m.seq < x.seq => m.id < x.id
  BY DEF ChannelsSound, ChannelRows
<1>2. \A m \in chan[p][h] : m.seq \in Nat /\ m.seq <= sent
  BY <1>1 DEF Numbered
<1>3. /\ NextSeq(chan[p][h]) \in Nat /\ 1 <= NextSeq(chan[p][h])
      /\ NextSeq(chan[p][h]) <= sent + 1
      /\ \A m \in chan[p][h] : m.seq < NextSeq(chan[p][h])
  BY <1>1, <1>2, NextSeqIsPast
<1> QED BY <1>1, <1>2, <1>3

\* A request is for a channel of a project, from a cursor on.
LEMMA RequestFacts ==
  ASSUME RequestsTyped, NEW c \in Client, request[c] # Idle
  PROVE  /\ request[c].project \in Project /\ request[c].channel \in Channel
         /\ request[c].since \in Nat /\ request[c].start \in Nat /\ request[c].opened \in Nat
         /\ request[c] = [kind |-> request[c].kind, token |-> request[c].token,
                          project |-> request[c].project, channel |-> request[c].channel,
                          phase |-> request[c].phase, since |-> request[c].since,
                          start |-> request[c].start, opened |-> request[c].opened]
         /\ request[c].kind \in Kind /\ request[c].token \in TokenKey
         /\ request[c].phase \in {"checked", "serving"}
BY DEF RequestsTyped, Request

\* An open stream is a request.
LEMMA OpenIsBusy == \A c : Open(c) => request[c] # Idle
BY DEF Open, Idle

\* The channels stay as they are.
LEMMA ChannelsKept ==
  ASSUME ChannelsSound, UNCHANGED channelVars
  PROVE  ChannelsSound'
BY DEF ChannelsSound, ChannelRows, channelVars

\* A request that goes on, or ends, with the channels as they are.
LEMMA StreamKept ==
  ASSUME NEW c \in Client, Written(c) /\ OpenSound(c), UNCHANGED channelVars,
         received'[c] = received[c],
         \/ request'[c] = request[c]
         \/ request'[c] = Idle
         \/ /\ request'[c].kind = request[c].kind
            /\ request'[c].project = request[c].project
            /\ request'[c].channel = request[c].channel
            /\ request'[c].since = request[c].since
            /\ request'[c].start = request[c].start
            /\ request'[c].opened = request[c].opened
  PROVE  (Written(c) /\ OpenSound(c))'
<1>1. Written(c)'
  BY DEF Written, channelVars
<1>2. CASE request'[c] = Idle
  BY <1>1, <1>2 DEF OpenSound, Open, Idle
<1>3. CASE /\ request'[c].kind = request[c].kind
           /\ request'[c].project = request[c].project
           /\ request'[c].channel = request[c].channel
           /\ request'[c].since = request[c].since
           /\ request'[c].start = request[c].start
           /\ request'[c].opened = request[c].opened
  <2>1. RowsFor(c)' = RowsFor(c) /\ (Open(c)' = Open(c))
    BY <1>3 DEF RowsFor, Open, channelVars
  <2>2. (AheadIsNew(c) => AheadIsNew(c)') /\ (NothingSkipped(c) => NothingSkipped(c)')
    BY <1>3, <2>1 DEF AheadIsNew, NothingSkipped
  <2>3. CursorAtRow(c) => CursorAtRow(c)'
    BY <1>3, <2>1 DEF CursorAtRow, channelVars
  <2> QED BY <1>1, <2>1, <2>2, <2>3 DEF OpenSound
<1> QED BY <1>2, <1>3

\* The admin commands touch no channel and no request.
LEMMA AdminLeavesStreams ==
  ASSUME ChannelsSound, RequestsTyped, StreamsSound, UNCHANGED <<channelVars, request, received>>
  PROVE  ChannelsSound' /\ RequestsTyped' /\ StreamsSound'
<1>1. ChannelsSound'
  BY ChannelsKept
<1>2. RequestsTyped'
  BY DEF RequestsTyped
<1>3. ASSUME NEW c \in Client PROVE (Written(c) /\ OpenSound(c))'
  BY StreamKept DEF StreamsSound
<1> QED BY <1>1, <1>2, <1>3 DEF StreamsSound

\* A request is authenticated, marked, answered or ended.
LEMMA ContactStep ==
  ASSUME AccessInv, NEW c \in Client, NEW k \in wires, NEW p \in Project, NEW h \in Channel,
         NEW kind \in Kind, NEW since \in 0 .. MaxMsg, Contact(c, k, p, h, kind, since)
  PROVE  ChannelsSound' /\ RequestsTyped' /\ StreamsSound'
<1> DEFINE r == [kind |-> kind, token |-> k, project |-> p, channel |-> h,
                 phase |-> "checked", since |-> since, start |-> since,
                 opened |-> epoch[p][h]]
<1>1. /\ request' = [request EXCEPT ![c] = r]
      /\ received' = [received EXCEPT ![c] = <<>>]
      /\ UNCHANGED channelVars
  BY DEF Contact
<1>2. epoch[p][h] \in Nat /\ MaxMsg \in Nat
  BY RelayAssumption DEF AccessInv, ChannelsSound
<1>3. k \in TokenKey
  BY DEF AccessInv, AccountsSound, Minted, Key, TokenKey, Token
<1>4. r \in Request
  BY <1>2, <1>3 DEF Request
<1>5. request'[c] = r /\ received'[c] = <<>>
  BY <1>1 DEF AccessInv, RequestsTyped
<1>6. /\ r.kind = kind /\ r.project = p /\ r.channel = h /\ r.since = since /\ r.start = since
      /\ r.opened = epoch[p][h]
  OBVIOUS
<1> HIDE DEF r
<1>7. RequestsTyped'
  <2>1. <<>> \in Seq(Nat)
    OBVIOUS
  <2> QED BY <1>1, <1>4, <2>1 DEF AccessInv, RequestsTyped
<1>8. ASSUME NEW d \in Client PROVE (Written(d) /\ OpenSound(d))'
  <2>1. CASE d # c
    <3>1. request'[d] = request[d] /\ received'[d] = received[d]
      BY <1>1, <2>1 DEF AccessInv, RequestsTyped
    <3> QED BY <1>1, <3>1, StreamKept DEF AccessInv, StreamsSound
  <2>2. CASE d = c
    <3>1. Len(received'[d]) = 0
      BY <1>5, <2>2
    <3>2. Written(d)' /\ AheadIsNew(d)'
      BY <3>1 DEF Written, AheadIsNew
    <3>3. CursorAtRow(d)'
      BY <1>1, <1>2, <1>5, <1>6, <2>2 DEF CursorAtRow, channelVars
    <3>4. NothingSkipped(d)'
      <4>1. RowsFor(d)' = chan[p][h]
        BY <1>1, <1>5, <1>6, <2>2 DEF RowsFor, channelVars
      <4>2. \A m \in chan[p][h] : m.seq \in Nat
        BY RowFacts DEF AccessInv
      <4>3. request'[d].start = since /\ request'[d].since = since
        BY <1>5, <1>6, <2>2
      <4> QED BY <4>1, <4>2, <4>3 DEF NothingSkipped
    <3> QED BY <3>2, <3>3, <3>4 DEF OpenSound
  <2> QED BY <2>1, <2>2
<1>9. ChannelsSound'
  BY <1>1, ChannelsKept DEF AccessInv
<1> QED BY <1>7, <1>8, <1>9 DEF StreamsSound

LEMMA RequestSteps ==
  ASSUME AccessInv, NEW c \in Client, MarkSeen(c) \/ PollScratchpad(c) \/ RequestEnds(c)
  PROVE  ChannelsSound' /\ RequestsTyped' /\ StreamsSound'
<1>1. UNCHANGED <<channelVars, received>>
  BY DEF MarkSeen, PollScratchpad, RequestEnds
<1>2. request[c] # Idle
  BY DEF MarkSeen, PollScratchpad, RequestEnds, Serving, Idle
<1>3. DOMAIN request = Client
  BY DEF AccessInv, RequestsTyped
<1>4. /\ \/ request'[c] = Idle
         \/ /\ request'[c] \in Request
            /\ request'[c].kind = request[c].kind
            /\ request'[c].project = request[c].project
            /\ request'[c].channel = request[c].channel
            /\ request'[c].since = request[c].since
            /\ request'[c].start = request[c].start
            /\ request'[c].opened = request[c].opened
      /\ DOMAIN request' = Client /\ request' = [d \in Client |-> request'[d]]
      /\ \A d \in Client : d # c => request'[d] = request[d]
  <2>1. CASE MarkSeen(c)
    <3>1. request' = [request EXCEPT ![c].phase = "serving"]
      BY <2>1 DEF MarkSeen
    <3>2. request'[c] = [request[c] EXCEPT !.phase = "serving"]
      BY <1>3, <3>1
    <3>3. request'[c] = [kind |-> request[c].kind, token |-> request[c].token,
                         project |-> request[c].project, channel |-> request[c].channel,
                         phase |-> "serving", since |-> request[c].since,
                         start |-> request[c].start, opened |-> request[c].opened]
      BY <1>2, <3>2, RequestFacts DEF AccessInv
    <3>4. request'[c] \in Request
      <4>1. /\ request[c].project \in Project /\ request[c].channel \in Channel
            /\ request[c].since \in Nat /\ request[c].start \in Nat
            /\ request[c].opened \in Nat
            /\ request[c].kind \in Kind /\ request[c].token \in TokenKey
        BY <1>2, RequestFacts DEF AccessInv
      <4> QED BY <3>3, <4>1 DEF Request
    <3>5. /\ DOMAIN request' = Client /\ request' = [d \in Client |-> request'[d]]
          /\ \A d \in Client : d # c => request'[d] = request[d]
      BY <1>3, <3>1 DEF AccessInv, RequestsTyped
    <3> QED BY <3>3, <3>4, <3>5
  <2>2. CASE PollScratchpad(c) \/ RequestEnds(c)
    <3>1. request' = [request EXCEPT ![c] = Idle]
      BY <2>2 DEF PollScratchpad, RequestEnds
    <3> QED BY <1>3, <3>1 DEF AccessInv, RequestsTyped
  <2> QED BY <2>1, <2>2
<1>5. RequestsTyped'
  <2>1. \A d \in Client : request'[d] \in {Idle} \cup Request
    BY <1>4 DEF AccessInv, RequestsTyped
  <2> QED BY <1>1, <1>4, <2>1 DEF AccessInv, RequestsTyped
<1>6. ASSUME NEW d \in Client PROVE (Written(d) /\ OpenSound(d))'
  BY <1>1, <1>4, StreamKept DEF AccessInv, StreamsSound
<1>7. ChannelsSound'
  BY <1>1, ChannelsKept DEF AccessInv
<1> QED BY <1>5, <1>6, <1>7 DEF StreamsSound

\* Publishing adds the newest message behind every number of its channel
\* (PublishScratchpadMessage).
LEMMA PublishStep ==
  ASSUME AccessInv, NEW c \in Client, PublishScratchpadMessage(c)
  PROVE  ChannelsSound' /\ RequestsTyped' /\ StreamsSound'
<1> DEFINE p == request[c].project
           h == request[c].channel
           rows == chan[p][h]
           m0 == [seq |-> NextSeq(rows), id |-> sent + 1, epoch |-> epoch[p][h]]
<1>1. /\ chan' = [chan EXCEPT ![p][h] = @ \cup {m0}]
      /\ sent' = sent + 1
      /\ request' = [request EXCEPT ![c] = Idle]
      /\ UNCHANGED <<epoch, received>>
      /\ request[c].kind = "publish"
  BY DEF PublishScratchpadMessage, RowsFor, Serving
<1>2. p \in Project /\ h \in Channel /\ request[c] # Idle
  <2>1. request[c] # Idle
    BY <1>1 DEF Idle
  <2> QED BY <2>1, RequestFacts DEF AccessInv
<1>3. /\ Numbered(rows) /\ sent \in Nat /\ epoch[p][h] \in Nat
      /\ \A m \in rows : /\ m.seq \in Nat /\ m.seq <= sent /\ 1 <= m.seq
                         /\ m.id \in Nat /\ m.id <= sent /\ m.epoch = epoch[p][h]
      /\ \A m, x \in rows : m.seq < x.seq => m.id < x.id
      /\ NextSeq(rows) \in Nat /\ 1 <= NextSeq(rows) /\ NextSeq(rows) <= sent + 1
      /\ \A m \in rows : m.seq < NextSeq(rows)
  BY <1>2, RowFacts DEF AccessInv
<1>4. m0.seq = NextSeq(rows) /\ m0.id = sent + 1 /\ m0.epoch = epoch[p][h]
  OBVIOUS
<1>5. /\ chan'[p][h] = rows \cup {m0}
      /\ \A q \in Project, g \in Channel : <<q, g>> # <<p, h>> => chan'[q][g] = chan[q][g]
      /\ chan' = [q \in Project |-> [g \in Channel |-> chan'[q][g]]]
  <2>1. /\ DOMAIN chan = Project /\ \A q \in Project : DOMAIN chan[q] = Channel
        /\ \A q \in Project : chan[q] = [g \in Channel |-> chan[q][g]]
    BY DEF AccessInv, ChannelsSound
  <2> HIDE DEF m0
  <2>2. chan' = [chan EXCEPT ![p] = [chan[p] EXCEPT ![h] = rows \cup {m0}]]
    BY <1>1
  <2>3. /\ chan'[p] = [chan[p] EXCEPT ![h] = rows \cup {m0}]
        /\ \A q \in Project : q # p => chan'[q] = chan[q]
        /\ chan' = [q \in Project |-> chan'[q]]
    BY <1>2, <2>1, <2>2
  <2>4. chan'[p] = [g \in Channel |-> chan'[p][g]]
    BY <1>2, <2>1, <2>3
  <2>5. \A q \in Project : chan'[q] = [g \in Channel |-> chan'[q][g]]
    BY <2>1, <2>3, <2>4
  <2> QED BY <1>2, <2>1, <2>3, <2>5
<1> HIDE DEF m0
<1>6. ChannelsSound'
  <2>1. ASSUME NEW q \in Project, NEW g \in Channel, q = p, g = h
        PROVE  ChannelRows(chan[q][g], epoch[q][g])'
    <3>1. Numbered(rows \cup {m0})
      <4>1. IsFiniteSet(rows \cup {m0})
        BY <1>3, FS_AddElement DEF Numbered
      <4>2. m0.seq \in Nat /\ \A m \in rows : m.seq \in Nat /\ m.seq # m0.seq
        BY <1>3, <1>4
      <4>3. \A m, x \in rows : m.seq = x.seq => m = x
        BY <1>3 DEF Numbered
      <4> HIDE DEF rows
      <4> QED BY <4>1, <4>2, <4>3 DEF Numbered
    <3>2. \A m \in rows \cup {m0} :
             m.id \in Nat /\ 1 <= m.seq /\ m.seq <= m.id /\ m.id <= sent + 1 /\ m.epoch = epoch[p][h]
      <4>1. \A m \in rows : m.seq <= m.id
        BY <1>2 DEF AccessInv, ChannelsSound, ChannelRows
      <4>2. \A m \in rows : m.id <= sent + 1
        BY <1>3
      <4>3. m0.id \in Nat /\ 1 <= m0.seq /\ m0.seq <= m0.id /\ m0.id <= sent + 1
        BY <1>3, <1>4
      <4> HIDE DEF rows
      <4> QED BY <1>3, <1>4, <4>1, <4>2, <4>3
    <3>3. \A m, x \in rows \cup {m0} : m.seq < x.seq => m.id < x.id
      BY <1>3, <1>4
    <3>4. epoch'[q][g] = epoch[p][h] /\ sent' = sent + 1 /\ chan'[q][g] = rows \cup {m0}
      BY <1>1, <1>5, <2>1
    <3> QED BY <3>1, <3>2, <3>3, <3>4 DEF ChannelRows, Numbered
  <2>2. ASSUME NEW q \in Project, NEW g \in Channel, <<q, g>> # <<p, h>>
        PROVE  ChannelRows(chan[q][g], epoch[q][g])'
    <3>1. chan'[q][g] = chan[q][g] /\ epoch' = epoch /\ sent' = sent + 1
      BY <1>1, <1>5, <2>2
    <3>2. ChannelRows(chan[q][g], epoch[q][g])
      BY DEF AccessInv, ChannelsSound
    <3> QED BY <1>3, <3>1, <3>2 DEF ChannelRows, Numbered
  <2>3. \A q \in Project, g \in Channel : ChannelRows(chan[q][g], epoch[q][g])'
    <3> HIDE DEF p, h
    <3> QED BY <2>1, <2>2
  <2>4. epoch' \in [Project -> [Channel -> Nat]] /\ sent' \in Nat
    <3>1. epoch' = epoch /\ sent' = sent + 1 /\ sent \in Nat
      BY <1>1, <1>3
    <3>2. epoch \in [Project -> [Channel -> Nat]]
      BY DEF AccessInv, ChannelsSound
    <3> QED BY <3>1, <3>2
  <2> QED BY <1>5, <2>3, <2>4 DEF ChannelsSound
<1>7. /\ request'[c] = Idle
      /\ \A d \in Client : d # c => request'[d] = request[d]
  BY <1>1 DEF AccessInv, RequestsTyped
<1>8. RequestsTyped'
  BY <1>1 DEF AccessInv, RequestsTyped
<1>9. ASSUME NEW d \in Client PROVE (Written(d) /\ OpenSound(d))'
  <2>1. Written(d) /\ OpenSound(d)
    BY DEF AccessInv, StreamsSound
  <2>2. /\ Len(received[d]) \in Nat
        /\ \A i \in 1 .. Len(received[d]) : received[d][i] \in Nat
    BY DEF AccessInv, RequestsTyped
  <2>3. Written(d)'
    BY <1>1, <1>3, <2>1, <2>2 DEF Written
  <2>4. ASSUME Open(d)' PROVE (AheadIsNew(d) /\ CursorAtRow(d) /\ NothingSkipped(d))'
    <3>1. d # c /\ request'[d] = request[d] /\ Open(d)
      BY <1>7, <2>4 DEF Open, Idle
    <3>2. AheadIsNew(d) /\ CursorAtRow(d) /\ NothingSkipped(d)
      BY <2>1, <3>1 DEF OpenSound
    <3>3. /\ request[d].project \in Project /\ request[d].channel \in Channel
          /\ request[d].since \in Nat /\ request[d].start \in Nat
      BY <3>1, OpenIsBusy, RequestFacts DEF AccessInv
    <3>4. RowsFor(d) \subseteq RowsFor(d)' /\ RowsFor(d)' \subseteq RowsFor(d) \cup {m0}
      BY <1>5, <3>1, <3>3 DEF RowsFor
    <3>5. m0 \in RowsFor(d)' => m0 \in RowsFor(d) \/ (request[d].project = p /\ request[d].channel = h)
      BY <1>5, <3>1, <3>3 DEF RowsFor
    <3>6. AheadIsNew(d)'
      <4>1. \A i \in 1 .. Len(received[d]) : received[d][i] < m0.id
        BY <1>3, <1>4, <2>1, <2>2 DEF Written
      <4> QED BY <1>1, <3>1, <3>2, <3>4, <4>1 DEF AheadIsNew
    <3>7. CursorAtRow(d)'
      BY <1>1, <3>1, <3>2, <3>4 DEF CursorAtRow
    <3>8. NothingSkipped(d)'
      <4>1. ASSUME m0 \in RowsFor(d)', m0 \notin RowsFor(d),
                   request[d].start < m0.seq, m0.seq <= request[d].since,
                   m0.epoch = request[d].opened
            PROVE  FALSE
        <5>1. request[d].project = p /\ request[d].channel = h
          BY <3>5, <4>1
        <5>2. request[d].since # request[d].start
          BY <1>3, <1>4, <3>3, <4>1
        <5>3. PICK m \in rows : m.seq = request[d].since
          BY <1>4, <3>2, <4>1, <5>1, <5>2 DEF CursorAtRow, RowsFor
        <5> QED BY <1>3, <1>4, <3>3, <4>1, <5>3
      <4> QED BY <1>1, <3>1, <3>2, <3>4, <4>1 DEF NothingSkipped
    <3> QED BY <3>6, <3>7, <3>8
  <2> QED BY <2>3, <2>4 DEF OpenSound
<1> QED BY <1>6, <1>8, <1>9 DEF StreamsSound

\* A prune empties the channel and ends the life the open streams began in
\* (PruneScratchpadChannel).
LEMMA PruneStep ==
  ASSUME AccessInv, NEW p \in Project, NEW h \in Channel, PruneScratchpadChannel(p, h)
  PROVE  ChannelsSound' /\ RequestsTyped' /\ StreamsSound'
<1>1. /\ chan' = [chan EXCEPT ![p][h] = {}]
      /\ epoch' = [epoch EXCEPT ![p][h] = @ + 1]
      /\ UNCHANGED <<sent, request, received>>
  BY DEF PruneScratchpadChannel
<1>2. /\ chan'[p][h] = {}
      /\ \A q \in Project, g \in Channel : <<q, g>> # <<p, h>> => chan'[q][g] = chan[q][g]
      /\ chan' = [q \in Project |-> [g \in Channel |-> chan'[q][g]]]
  <2>1. /\ DOMAIN chan = Project /\ \A q \in Project : DOMAIN chan[q] = Channel
        /\ \A q \in Project : chan[q] = [g \in Channel |-> chan[q][g]]
    BY DEF AccessInv, ChannelsSound
  <2>2. chan' = [chan EXCEPT ![p] = [chan[p] EXCEPT ![h] = {}]]
    BY <1>1
  <2>3. /\ chan'[p] = [chan[p] EXCEPT ![h] = {}]
        /\ \A q \in Project : q # p => chan'[q] = chan[q]
        /\ chan' = [q \in Project |-> chan'[q]]
    BY <2>1, <2>2
  <2>4. chan'[p] = [g \in Channel |-> chan'[p][g]]
    BY <2>1, <2>3
  <2>5. \A q \in Project : chan'[q] = [g \in Channel |-> chan'[q][g]]
    BY <2>1, <2>3, <2>4
  <2> QED BY <2>1, <2>3, <2>5
<1>3. /\ epoch' \in [Project -> [Channel -> Nat]]
      /\ epoch[p][h] \in Nat /\ epoch'[p][h] = epoch[p][h] + 1
      /\ \A q \in Project, g \in Channel : <<q, g>> # <<p, h>> => epoch'[q][g] = epoch[q][g]
  BY <1>1 DEF AccessInv, ChannelsSound
<1>4. ChannelsSound'
  <2>1. ChannelRows(chan[p][h], epoch[p][h])'
    BY <1>2, FS_EmptySet DEF ChannelRows, Numbered
  <2>2. ASSUME NEW q \in Project, NEW g \in Channel, <<q, g>> # <<p, h>>
        PROVE  ChannelRows(chan[q][g], epoch[q][g])'
    <3>1. ChannelRows(chan[q][g], epoch[q][g])
      BY DEF AccessInv, ChannelsSound
    <3> QED BY <1>1, <1>2, <1>3, <2>2, <3>1 DEF ChannelRows, Numbered
  <2> QED BY <1>1, <1>2, <1>3, <2>1, <2>2 DEF AccessInv, ChannelsSound
<1>5. RequestsTyped'
  BY <1>1 DEF AccessInv, RequestsTyped
<1>6. ASSUME NEW d \in Client PROVE (Written(d) /\ OpenSound(d))'
  <2>1. Written(d) /\ OpenSound(d)
    BY DEF AccessInv, StreamsSound
  <2>2. Written(d)'
    BY <1>1, <2>1 DEF Written
  <2>3. ASSUME Open(d) PROVE (AheadIsNew(d) /\ CursorAtRow(d) /\ NothingSkipped(d))'
    <3>1. AheadIsNew(d) /\ CursorAtRow(d) /\ NothingSkipped(d)
      BY <2>1, <2>3 DEF OpenSound
    <3>2. /\ request[d].project \in Project /\ request[d].channel \in Channel
          /\ request[d].opened \in Nat
      BY <2>3, OpenIsBusy, RequestFacts DEF AccessInv
    <3>3. CASE request[d].project = p /\ request[d].channel = h
      <4>1. RowsFor(d)' = {}
        BY <1>1, <1>2, <3>3 DEF RowsFor
      <4>2. CursorAtRow(d)'
        <5>1. request[d].opened <= epoch[p][h]
          BY <3>1, <3>3 DEF CursorAtRow
        <5>2. request[d].opened <= epoch'[p][h] /\ request[d].opened # epoch'[p][h]
          BY <1>3, <3>2, <5>1
        <5> QED BY <1>1, <3>3, <5>2 DEF CursorAtRow
      <4> QED BY <4>1, <4>2 DEF AheadIsNew, NothingSkipped
    <3>4. CASE ~ (request[d].project = p /\ request[d].channel = h)
      <4>1. /\ RowsFor(d)' = RowsFor(d)
            /\ epoch'[request[d].project][request[d].channel]
                 = epoch[request[d].project][request[d].channel]
        BY <1>1, <1>2, <1>3, <3>2, <3>4 DEF RowsFor
      <4>2. AheadIsNew(d)' /\ NothingSkipped(d)'
        BY <1>1, <3>1, <4>1 DEF AheadIsNew, NothingSkipped
      <4>3. CursorAtRow(d)'
        BY <1>1, <3>1, <4>1 DEF CursorAtRow
      <4> QED BY <4>2, <4>3
    <3> QED BY <3>3, <3>4
  <2> QED BY <1>1, <2>2, <2>3 DEF OpenSound, Open
<1> QED BY <1>4, <1>5, <1>6 DEF StreamsSound

\* A stream's turn writes every row past its cursor, in order, and moves the cursor to
\* the last of them (handleScratchpadStream).
LEMMA StreamStep ==
  ASSUME AccessInv, NEW c \in Client, StreamScratchpad(c)
  PROVE  ChannelsSound' /\ RequestsTyped' /\ StreamsSound'
<1> DEFINE rows == RowsFor(c)
           new == ListScratchpadSince(rows, request[c].since)
           n == Cardinality(new)
           out == IdsInOrder(new)
           last == NextSeq(new) - 1
           old == received[c]
<1>1. /\ new # {}
      /\ received' = [received EXCEPT ![c] = old \o out]
      /\ request' = [request EXCEPT ![c].since = last]
      /\ UNCHANGED channelVars
      /\ request[c].kind = "stream"
  BY DEF StreamScratchpad, Serving
<1>2. Open(c) /\ request[c] # Idle
  BY <1>1 DEF Open, Idle
<1>3. /\ request[c].project \in Project /\ request[c].channel \in Channel
      /\ request[c].since \in Nat /\ request[c].start \in Nat /\ request[c].opened \in Nat
      /\ request[c].kind \in Kind /\ request[c].token \in TokenKey
      /\ request[c].phase \in {"checked", "serving"}
  BY <1>2, RequestFacts DEF AccessInv
<1>4. /\ Numbered(rows) /\ sent \in Nat
      /\ \A m \in rows : m.seq \in Nat /\ m.seq <= sent /\ m.id \in Nat /\ m.id <= sent
      /\ \A m, x \in rows : m.seq < x.seq => m.id < x.id
  BY <1>3, RowFacts DEF AccessInv, RowsFor
<1>5. /\ new \subseteq rows
      /\ \A m \in rows : m \in new <=> request[c].since < m.seq
  BY <1>3, <1>4 DEF ListScratchpadSince
<1>6. Numbered(new)
  <2>1. IsFiniteSet(new)
    BY <1>4, <1>5, FS_Subset DEF Numbered
  <2> HIDE DEF new
  <2> QED BY <1>4, <1>5, <2>1 DEF Numbered
<1> HIDE DEF rows, new
<1>7. /\ n \in Nat
      /\ \A i \in 1 .. n : At(new, i) \in new
      /\ \A i, j \in 1 .. n : i < j => At(new, i).seq < At(new, j).seq
      /\ \A m \in new : \E i \in 1 .. n : At(new, i) = m
  BY <1>6, RowsInOrder
<1>8. \A i \in 1 .. n : /\ At(new, i) \in rows /\ request[c].since < At(new, i).seq
                        /\ out[i] = At(new, i).id
                        /\ out[i] \in Nat /\ out[i] <= sent
  <2>1. \A i \in 1 .. n : out[i] = At(new, i).id
    BY DEF IdsInOrder, At, Below
  <2> QED BY <1>4, <1>5, <1>7, <2>1
<1>9. \A i, j \in 1 .. n : i < j => out[i] < out[j]
  BY <1>4, <1>7, <1>8
<1>10. out \in Seq(Nat) /\ Len(out) = n
  <2>1. out \in [1 .. n -> Nat]
    <3>1. out = [i \in 1 .. n |-> out[i]]
      BY DEF IdsInOrder
    <3> HIDE DEF out
    <3> QED BY <1>8, <3>1
  <2> HIDE DEF out
  <2> QED BY <1>7, <2>1
<1>11. /\ last \in Nat /\ \A m \in rows : m.seq <= last
       /\ \E m \in new : m.seq = last
  <2>1. \A m \in new : m.seq \in Nat /\ m.seq <= sent
    BY <1>4, <1>5
  <2>2. /\ NextSeq(new) \in Nat /\ 1 <= NextSeq(new)
        /\ \A m \in new : m.seq < NextSeq(new)
        /\ \E m \in new : m.seq = NextSeq(new) - 1
    BY <1>1, <1>4, <2>1, NextSeqIsPast
  <2>3. last \in Nat /\ \A m \in new : m.seq <= last
    BY <2>1, <2>2
  <2>4. PICK x \in new : x.seq = last
    BY <2>2
  <2>5. request[c].since < last
    BY <1>5, <2>4
  <2> HIDE DEF last
  <2>6. \A m \in rows : m.seq <= last
    <3> SUFFICES ASSUME NEW m \in rows PROVE m.seq <= last
      OBVIOUS
    <3>1. CASE m \in new
      BY <2>3, <3>1
    <3>2. CASE m \notin new
      BY <1>3, <1>4, <1>5, <2>3, <2>5, <3>2
    <3> QED BY <3>1, <3>2
  <2> QED BY <2>3, <2>4, <2>6
<1> HIDE DEF n, out, last
<1>12. /\ old \in Seq(Nat) /\ Len(old) \in Nat
       /\ \A i \in 1 .. Len(old) : old[i] \in Nat
  BY DEF AccessInv, RequestsTyped
<1>13. /\ old \o out \in Seq(Nat)
       /\ Len(old \o out) = Len(old) + n
       /\ \A i \in 1 .. Len(old) + n :
            (old \o out)[i] = IF i <= Len(old) THEN old[i] ELSE out[i - Len(old)]
  BY <1>10, <1>12, ConcatProperties
<1>14. received'[c] = old \o out /\ \A d \in Client : d # c => received'[d] = received[d]
  BY <1>1 DEF AccessInv, RequestsTyped
<1>15. /\ request'[c] = [kind |-> request[c].kind, token |-> request[c].token,
                         project |-> request[c].project, channel |-> request[c].channel,
                         phase |-> request[c].phase, since |-> last,
                         start |-> request[c].start, opened |-> request[c].opened]
       /\ \A d \in Client : d # c => request'[d] = request[d]
       /\ request' = [d \in Client |-> request'[d]]
  <2>1. DOMAIN request = Client
    BY DEF AccessInv, RequestsTyped
  <2>2. request'[c] = [request[c] EXCEPT !.since = last]
    BY <1>1, <2>1
  <2>3. request[c] = [kind |-> request[c].kind, token |-> request[c].token,
                      project |-> request[c].project, channel |-> request[c].channel,
                      phase |-> request[c].phase, since |-> request[c].since,
                      start |-> request[c].start, opened |-> request[c].opened]
    BY <1>2, RequestFacts DEF AccessInv
  <2>4. /\ \A d \in Client : d # c => request'[d] = request[d]
        /\ request' = [d \in Client |-> request'[d]]
    BY <1>1, <2>1
  <2> QED BY <2>2, <2>3, <2>4
<1>16. RequestsTyped'
  <2>1. request'[c] \in Request
    BY <1>3, <1>11, <1>15 DEF Request
  <2>2. \A d \in Client : request'[d] \in {Idle} \cup Request
    BY <1>15, <2>1 DEF AccessInv, RequestsTyped
  <2>3. received' \in [Client -> Seq(Nat)]
    BY <1>1, <1>13 DEF AccessInv, RequestsTyped
  <2> QED BY <1>15, <2>2, <2>3 DEF RequestsTyped
<1>17. /\ request'[c].project = request[c].project /\ request'[c].channel = request[c].channel
       /\ request'[c].since = last /\ request'[c].start = request[c].start
       /\ request'[c].opened = request[c].opened
       /\ RowsFor(c)' = rows /\ sent' = sent /\ epoch' = epoch
  BY <1>1, <1>15 DEF RowsFor, rows, channelVars
<1>18. Written(c) /\ AheadIsNew(c) /\ CursorAtRow(c) /\ NothingSkipped(c)
  BY <1>2 DEF AccessInv, StreamsSound, OpenSound
<1>19. Written(c)'
  <2>1. \A i \in 1 .. Len(old), j \in 1 .. n : old[i] < out[j]
    BY <1>8, <1>18 DEF AheadIsNew, rows
  <2>2. \A i \in 1 .. Len(old) + n : (old \o out)[i] <= sent
    <3> SUFFICES ASSUME NEW i \in 1 .. Len(old) + n PROVE (old \o out)[i] <= sent
      OBVIOUS
    <3>1. CASE i <= Len(old)
      BY <1>12, <1>13, <1>18, <3>1 DEF Written
    <3>2. CASE ~ (i <= Len(old))
      <4>1. i - Len(old) \in 1 .. n
        BY <1>7, <1>12, <3>2
      <4> QED BY <1>8, <1>13, <3>2, <4>1
    <3> QED BY <3>1, <3>2
  <2>3. \A i, j \in 1 .. Len(old) + n : i < j => (old \o out)[i] < (old \o out)[j]
    <3> SUFFICES ASSUME NEW i \in 1 .. Len(old) + n, NEW j \in 1 .. Len(old) + n, i < j
                 PROVE  (old \o out)[i] < (old \o out)[j]
      OBVIOUS
    <3>1. CASE j <= Len(old)
      <4>1. i \in 1 .. Len(old) /\ j \in 1 .. Len(old)
        BY <1>12, <3>1
      <4> QED BY <1>13, <1>18, <4>1 DEF Written
    <3>2. CASE i <= Len(old) /\ ~ (j <= Len(old))
      <4>1. i \in 1 .. Len(old) /\ j - Len(old) \in 1 .. n
        BY <1>7, <1>12, <3>2
      <4> QED BY <1>13, <2>1, <3>2, <4>1
    <3>3. CASE ~ (i <= Len(old))
      <4>1. /\ i - Len(old) \in 1 .. n /\ j - Len(old) \in 1 .. n
            /\ i - Len(old) < j - Len(old) /\ ~ (j <= Len(old))
        BY <1>7, <1>12, <3>3
      <4> QED BY <1>9, <1>13, <3>3, <4>1
    <3> QED BY <3>1, <3>2, <3>3
  <2> QED BY <1>13, <1>14, <1>17, <2>2, <2>3 DEF Written
<1>20. AheadIsNew(c)'
  BY <1>4, <1>11, <1>17 DEF AheadIsNew
<1>21. CursorAtRow(c)'
  BY <1>5, <1>11, <1>17, <1>18 DEF CursorAtRow
<1>22. NothingSkipped(c)'
  <2> SUFFICES ASSUME NEW m \in rows, request[c].start < m.seq, m.seq <= last,
                      m.epoch = request[c].opened
               PROVE  \E i \in 1 .. Len(old) + n : (old \o out)[i] = m.id
    BY <1>13, <1>14, <1>17 DEF NothingSkipped
  <2>1. CASE m.seq <= request[c].since
    <3>1. PICK i \in 1 .. Len(old) : old[i] = m.id
      BY <1>18, <2>1 DEF NothingSkipped, rows
    <3>2. i \in 1 .. Len(old) + n /\ i <= Len(old)
      BY <1>7, <1>12
    <3> QED BY <1>13, <3>1, <3>2
  <2>2. CASE ~ (m.seq <= request[c].since)
    <3>1. m \in new
      BY <1>3, <1>4, <1>5, <2>2
    <3>2. PICK k \in 1 .. n : out[k] = m.id
      BY <1>7, <1>8, <3>1
    <3>3. PICK i \in 1 .. Len(old) + n : ~ (i <= Len(old)) /\ i - Len(old) = k
      <4>1. Len(old) + k \in 1 .. Len(old) + n /\ ~ (Len(old) + k <= Len(old))
            /\ Len(old) + k - Len(old) = k
        BY <1>7, <1>12
      <4> QED BY <4>1
    <3> QED BY <1>13, <3>2, <3>3
  <2> QED BY <2>1, <2>2
<1>23. ASSUME NEW d \in Client PROVE (Written(d) /\ OpenSound(d))'
  <2>1. CASE d = c
    BY <1>19, <1>20, <1>21, <1>22, <2>1 DEF OpenSound
  <2>2. CASE d # c
    <3>1. request'[d] = request[d] /\ received'[d] = received[d]
      BY <1>14, <1>15, <2>2
    <3> QED BY <1>1, <3>1, StreamKept DEF AccessInv, StreamsSound
  <2> QED BY <2>1, <2>2
<1>24. ChannelsSound'
  BY <1>1, ChannelsKept DEF AccessInv
<1> QED BY <1>16, <1>23, <1>24 DEF StreamsSound

----------------------------------------------------------------------------
(* The theorems. *)

LEMMA AccessNextInv == AccessInv /\ [Next]_vars => AccessInv'
<1> SUFFICES ASSUME AccessInv, [Next]_vars PROVE AccessInv'
  OBVIOUS
<1> USE DEF AccessInv
<1>1. CASE UNCHANGED vars
  <2>1. UNCHANGED accessVars /\ UNCHANGED <<channelVars, request, received>>
    BY <1>1 DEF vars, accessVars, channelVars
  <2> QED BY <2>1, AccountsKept, AdminLeavesStreams
<1>2. CASE Next
  <2>1. ASSUME NEW a \in Account, SetupAccount(a) PROVE AccessInv'
    <3>1. UNCHANGED <<channelVars, request, received>>
      BY <2>1 DEF SetupAccount
    <3> QED BY <2>1, <3>1, SetupSteps, AdminLeavesStreams
  <2>2. CASE SetupWire \/ SetupConfig \/ SetupInterrupted
    <3>1. UNCHANGED <<channelVars, request, received>>
      BY <2>2 DEF SetupWire, SetupConfig, SetupInterrupted
    <3>2. AccountsSound'
      <4>1. CASE setup = NoSetup
        BY <2>2, <4>1 DEF SetupWire, SetupConfig, SetupInterrupted, NoSetup
      <4>2. CASE setup # NoSetup
        BY <2>2, <4>2, SetupSteps DEF AccountsSound
      <4> QED BY <4>1, <4>2
    <3> QED BY <3>1, <3>2, AdminLeavesStreams
  <2>3. ASSUME NEW n \in Name, NEW p \in Project, NEW g \in BOOLEAN, NEW o \in BOOLEAN,
               Link(n, p, g, o)
        PROVE  AccessInv'
    <3>1. UNCHANGED <<channelVars, request, received>>
      BY <2>3 DEF Link
    <3> QED BY <2>3, <3>1, LinkStep, AdminLeavesStreams
  <2>4. ASSUME NEW n \in Name, NEW g \in BOOLEAN, RevokeConnection(n, g) PROVE AccessInv'
    <3>1. UNCHANGED <<channelVars, request, received>>
      BY <2>4 DEF RevokeConnection
    <3> QED BY <2>4, <3>1, RevokeStep, AdminLeavesStreams
  <2>5. ASSUME NEW p \in Project, NEW h \in Channel, PruneScratchpadChannel(p, h)
        PROVE  AccessInv'
    <3>1. UNCHANGED accessVars
      BY <2>5 DEF PruneScratchpadChannel
    <3> QED BY <2>5, <3>1, PruneStep, AccountsKept
  <2>6. ASSUME NEW c \in Client, NEW k \in wires, NEW p \in Project, NEW h \in Channel,
               NEW kind \in Kind, NEW since \in 0 .. MaxMsg, Contact(c, k, p, h, kind, since)
        PROVE  AccessInv'
    <3>1. UNCHANGED accessVars
      BY <2>6 DEF Contact
    <3> QED BY <2>6, <3>1, ContactStep, AccountsKept
  <2>7. ASSUME NEW c \in Client, MarkSeen(c) PROVE AccessInv'
    BY <2>7, MarkSeenStep, RequestSteps
  <2>8. ASSUME NEW c \in Client, PollScratchpad(c) \/ RequestEnds(c) PROVE AccessInv'
    <3>1. UNCHANGED accessVars
      BY <2>8 DEF PollScratchpad, RequestEnds
    <3> QED BY <2>8, <3>1, RequestSteps, AccountsKept
  <2>9. ASSUME NEW c \in Client, PublishScratchpadMessage(c) PROVE AccessInv'
    <3>1. UNCHANGED accessVars
      BY <2>9 DEF PublishScratchpadMessage
    <3> QED BY <2>9, <3>1, PublishStep, AccountsKept
  <2>10. ASSUME NEW c \in Client, StreamScratchpad(c) PROVE AccessInv'
    <3>1. UNCHANGED accessVars
      BY <2>10 DEF StreamScratchpad
    <3> QED BY <2>10, <3>1, StreamStep, AccountsKept
  <2>11. CASE Admin
    <3> HIDE DEF AccessInv
    <3> QED BY <2>1, <2>2, <2>3, <2>4, <2>5, <2>11 DEF Admin, PruneByRequest, PruneByCommand
  <2> HIDE DEF AccessInv
  <2> QED BY <1>2, <2>6, <2>7, <2>8, <2>9, <2>10, <2>11 DEF Next, Serve
<1> QED BY <1>1, <1>2

\* Accounts, tokens, channels and open streams fit each other
\* (internal/syncserver, internal/auth).
THEOREM AccessInvariant == Spec => []AccessInv
<1> QED BY AccessInitInv, AccessNextInv, PTL DEF Spec

\* An open stream passes over no message unless its channel was pruned after it was
\* opened (handleScratchpadStream).
THEOREM StreamsSkipNothing == Spec => []SkipsOnlyAfterPrune
<1>1. AccessInv => SkipsOnlyAfterPrune
  BY DEF AccessInv, StreamsSound, OpenSound, Open, NothingSkipped, SkipsOnlyAfterPrune
<1> QED BY <1>1, AccessInvariant, PTL

\* A stream carries every message at most once and in the order of publication, also
\* across prunes, after which the numbers start again (handleScratchpadStream).
THEOREM StreamsKeepOrder == Spec => []StreamInOrder
<1>1. AccessInv => StreamInOrder
  BY DEF AccessInv, StreamsSound, Written, StreamInOrder
<1> QED BY <1>1, AccessInvariant, PTL

\* However often setup is run or cut off, admin.wire names an account of the relay
\* (setup.go).
THEOREM AdminIsNeverLockedOut == Spec => []AdminWireUsable
<1>1. AccessInv => AdminWireUsable
  BY DEF AccessInv, AccountsSound
<1> QED BY <1>1, AccessInvariant, PTL

\* Every row of an account has a name of its own, revoked rows included, so a
\* revocation by name stops exactly one connection (MintConnectionToken).
THEOREM NamesAreUsedOnce == Spec => []OneTokenPerName
<1>1. AccessInv => OneTokenPerName
  <2> SUFFICES ASSUME AccountsSound PROVE OneTokenPerName
    BY DEF AccessInv
  <2> DEFINE key == [t \in tokens |-> Key(t)]
  <2>1. /\ key \in [tokens -> Minted]
        /\ \A k \in Minted : \E t \in tokens : key[t] = k
        /\ \A t, u \in tokens : key[t] = key[u] => t = u
    BY DEF Minted, AccountsSound
  <2> HIDE DEF key
  <2>2. key \in Bijection(tokens, Minted)
    BY <2>1 DEF Bijection, Injection, Surjection, IsInjective
  <2>3. Cardinality(Minted) = Cardinality(tokens)
    BY <2>2, FS_Bijection DEF ExistsBijection, AccountsSound
  <2> QED BY <2>3 DEF OneTokenPerName, AccountsSound
<1> QED BY <1>1, AccessInvariant, PTL

=============================================================================
