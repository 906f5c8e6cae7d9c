---------------------------- MODULE RelayAccess ----------------------------
(***************************************************************************)
(* Who may do what on the relay, and the scratchpad channels it carries:   *)
(* internal/syncserver (accounts, connection tokens, channels) with the    *)
(* admin commands of internal/auth.  The admin commands open the relay's   *)
(* database file themselves, so they run between the steps of the server.  *)
(*                                                                         *)
(* A request checks its token in one statement and is served in later      *)
(* ones: what it was allowed may have changed in between.  Secrets match   *)
(* their hashes: a request presents a token it was given.                  *)
(***************************************************************************)
EXTENDS Naturals, FiniteSets, Sequences

CONSTANTS
  Account,     \* access keys CreateAccountWithKey can mint
  Name,        \* connection names
  Project,
  Channel,     \* scratchpad channels
  Client,      \* requests served at a time, each by a goroutine of its own
  NoAccount,   \* "no file", "no account"
  PruneCommand, \* whether `loaf scratchpad prune` is in use
  MaxMsg       \* bound: messages ever published

ASSUME RelayAssumption == MaxMsg \in Nat /\ PruneCommand \in BOOLEAN /\ NoAccount \notin Account

VARIABLES
  accounts,    \* rows of sync_accounts
  tokens,      \* rows of connection_tokens
  setup,       \* the `loaf auth setup` in progress: its account and next step
  adminWire,   \* the account of the admin machine's admin.wire
  adminConfig, \* the admin machine's local config names the relay's database
  wires,       \* tokens whose client wire an operator was given
  chan,        \* chan[p][k]: the rows of scratchpad_messages
  request,     \* request[c]: what the relay is doing for c
  sent,        \* messages ever published (ids 1 .. sent)
  epoch,       \* epoch[p][k]: prunes so far (history)
  received,    \* received[c]: what c's stream was written, in order (history)
  outsiders    \* projects pruned by an account without a token for them (history)

accessVars == <<accounts, tokens, setup, adminWire, adminConfig, wires>>
channelVars == <<chan, sent, epoch, outsiders>>
vars == <<accounts, tokens, setup, adminWire, adminConfig, wires, chan,
          request, sent, epoch, received, outsiders>>

\* A token is known by its account and name: the table's unique index.
Token == [account : Account, name : Name, project : Project,
          revoked : BOOLEAN, seen : BOOLEAN]
TokenKey == Account \X Name
Key(t) == <<t.account, t.name>>
Row(k) == CHOOSE t \in tokens : Key(t) = k
Minted == {Key(t) : t \in tokens}

Message == [seq : Nat \ {0}, id : 1 .. MaxMsg, epoch : Nat]

Idle == [kind |-> "idle"]
Kind == {"publish", "poll", "stream"}
Request ==
  [kind : Kind, token : TokenKey, project : Project, channel : Channel,
   phase : {"checked", "serving"}, since : Nat,
   start : Nat, opened : Nat]   \* its first cursor, the channel's epoch (history)

NoSetup == [account |-> NoAccount, step |-> "none"]

TypeOK ==
  /\ accounts \subseteq Account
  /\ tokens \subseteq Token
  /\ setup \in {NoSetup} \cup [account : Account, step : {"wire", "config"}]
  /\ adminWire \in Account \cup {NoAccount}
  /\ adminConfig \in BOOLEAN
  /\ wires \subseteq TokenKey
  /\ chan \in [Project -> [Channel -> SUBSET Message]]
  /\ request \in [Client -> {Idle} \cup Request]
  /\ sent \in 0 .. MaxMsg
  /\ epoch \in [Project -> [Channel -> Nat]]
  /\ received \in [Client -> Seq(1 .. MaxMsg)]
  /\ outsiders \subseteq Project

Init ==
  /\ accounts = {} /\ tokens = {} /\ wires = {}
  /\ setup = NoSetup /\ adminWire = NoAccount /\ adminConfig = FALSE
  /\ chan = [p \in Project |-> [k \in Channel |-> {}]]
  /\ request = [c \in Client |-> Idle]
  /\ sent = 0
  /\ epoch = [p \in Project |-> [k \in Channel |-> 0]]
  /\ received = [c \in Client |-> <<>>]
  /\ outsiders = {}

----------------------------------------------------------------------------
(* The admin commands. *)

\* Mutation of SetupAccount: the file is written before the account.
SetupAccount_WireFirst(a) ==
  /\ setup = NoSetup /\ a \notin accounts
  /\ adminWire' = a
  /\ setup' = [account |-> a, step |-> "config"]
  /\ UNCHANGED <<accounts, tokens, adminConfig, wires, request, received>>
  /\ UNCHANGED channelVars

\* Setup, CreateAccountWithKey: a new account, whatever accounts there are.
SetupAccount(a) ==
  /\ setup = NoSetup /\ a \notin accounts
  /\ accounts' = accounts \cup {a}
  /\ setup' = [account |-> a, step |-> "wire"]
  /\ UNCHANGED <<tokens, adminWire, adminConfig, wires, request, received>>
  /\ UNCHANGED channelVars

\* Setup, SaveAdminWire: the admin machine now speaks for the new account.
SetupWire ==
  /\ setup.step = "wire"
  /\ adminWire' = setup.account
  /\ setup' = [setup EXCEPT !.step = "config"]
  /\ UNCHANGED <<accounts, tokens, adminConfig, wires, request, received>>
  /\ UNCHANGED channelVars

\* Setup, SaveLocalConfig.
SetupConfig ==
  /\ setup.step = "config"
  /\ adminConfig' = TRUE
  /\ setup' = NoSetup
  /\ UNCHANGED <<accounts, tokens, adminWire, wires, request, received>>
  /\ UNCHANGED channelVars

\* The command is killed, or the next of its files cannot be written.
SetupInterrupted ==
  /\ setup # NoSetup
  /\ setup' = NoSetup
  /\ UNCHANGED <<accounts, tokens, adminWire, adminConfig, wires, request, received>>
  /\ UNCHANGED channelVars

\* OpenAdminContext: the file, the database's path (from the config or the
\* command line) and the account the file names.
AdminOpens(pathGiven) ==
  /\ adminWire # NoAccount
  /\ adminConfig \/ pathGiven
  /\ adminWire \in accounts

\* Mutation of Mintable: no unique index.
Mintable_Reused(a, n) == a \in accounts

\* MintConnectionToken: the insert fails when the account has used the name,
\* revoked or not.
Mintable(a, n) == a \in accounts /\ <<a, n>> \notin Minted

\* Link: mint, then print the client wire.  A command cut off in between has
\* used up the name and given the wire to nobody.
Link(n, p, pathGiven, printed) ==
  /\ AdminOpens(pathGiven)
  /\ Mintable(adminWire, n)
  /\ tokens' = tokens \cup {[account |-> adminWire, name |-> n, project |-> p,
                             revoked |-> FALSE, seen |-> FALSE]}
  /\ wires' = IF printed THEN wires \cup {<<adminWire, n>>} ELSE wires
  /\ UNCHANGED <<accounts, setup, adminWire, adminConfig, request, received>>
  /\ UNCHANGED channelVars

\* RevokeConnectionToken, from `loaf auth revoke` (n given with the database's
\* path or without) or from DELETE /v1/admin/tokens, with the credentials of
\* admin.wire: the row is kept, so its name stays used.
RevokeConnection(n, pathGiven) ==
  /\ AdminOpens(pathGiven)
  /\ \E t \in tokens :
       /\ Key(t) = <<adminWire, n>> /\ ~t.revoked
       /\ tokens' = (tokens \ {t}) \cup {[t EXCEPT !.revoked = TRUE]}
  /\ UNCHANGED <<accounts, setup, adminWire, adminConfig, wires, request, received>>
  /\ UNCHANGED channelVars

----------------------------------------------------------------------------
(* Requests of clients. *)

\* Mutation of TokenAdmits: revocation is not looked at.
TokenAdmits_Revoked(k, p) == \E t \in tokens : Key(t) = k /\ t.project = p

\* AuthenticateConnectionToken, its SELECT and checks.
TokenAdmits(k, p) ==
  \E t \in tokens : Key(t) = k /\ ~t.revoked /\ t.project = p

\* Requests that may still publish; they count against the bound MaxMsg.
Publishing == {c \in Client : request[c].kind = "publish"}

\* authorizeClient: a client contacts the relay with a token it was given.
Contact(c, k, p, h, kind, since) ==
  /\ request[c] = Idle
  /\ k \in wires
  /\ TokenAdmits(k, p)
  /\ kind = "publish" => sent + Cardinality(Publishing) < MaxMsg
  /\ request' = [request EXCEPT ![c] =
       [kind |-> kind, token |-> k, project |-> p, channel |-> h,
        phase |-> "checked", since |-> since, start |-> since,
        opened |-> epoch[p][h]]]
  /\ received' = [received EXCEPT ![c] = <<>>]
  /\ UNCHANGED accessVars /\ UNCHANGED channelVars

\* AuthenticateConnectionToken, its UPDATE of last_seen_at, by token alone.
MarkSeen(c) ==
  /\ request[c] # Idle /\ request[c].phase = "checked"
  /\ tokens' = {IF Key(t) = request[c].token THEN [t EXCEPT !.seen = TRUE] ELSE t :
                t \in tokens}
  /\ request' = [request EXCEPT ![c].phase = "serving"]
  /\ UNCHANGED <<accounts, setup, adminWire, adminConfig, wires, received>>
  /\ UNCHANGED channelVars

Serving(c, kind) == request[c].kind = kind /\ request[c].phase = "serving"
RowsFor(c) == chan[request[c].project][request[c].channel]

\* Mutation of NextSeq: the number of rows, not the last number.
NextSeq_Zero(rows) == Cardinality(rows)

\* COALESCE(MAX(seq), 0) + 1
NextSeq(rows) ==
  IF rows = {} THEN 1
  ELSE 1 + CHOOSE n \in {m.seq : m \in rows} : \A m \in rows : m.seq <= n

\* PublishScratchpadMessage: number and insert, one transaction.
PublishScratchpadMessage(c) ==
  /\ Serving(c, "publish")
  /\ sent' = sent + 1
  /\ chan' = [chan EXCEPT ![request[c].project][request[c].channel] = @ \cup
       {[seq |-> NextSeq(RowsFor(c)), id |-> sent + 1,
         epoch |-> epoch[request[c].project][request[c].channel]]}]
  /\ request' = [request EXCEPT ![c] = Idle]
  /\ UNCHANGED <<epoch, outsiders, received>> /\ UNCHANGED accessVars

\* Mutation of ListScratchpadSince: the message at the cursor once more.
ListScratchpadSince_Inclusive(rows, since) == {m \in rows : m.seq >= since}

\* ListScratchpadSince
ListScratchpadSince(rows, since) == {m \in rows : m.seq > since}

\* ORDER BY seq ASC: the ids of the rows in that order.
IdsInOrder(rows) ==
  [i \in 1 .. Cardinality(rows) |->
     (CHOOSE m \in rows : Cardinality({x \in rows : x.seq < m.seq}) = i - 1).id]

\* handleScratchpadPoll: WaitScratchpadSince finds messages; the answer ends
\* the request.
PollScratchpad(c) ==
  /\ Serving(c, "poll")
  /\ ListScratchpadSince(RowsFor(c), request[c].since) # {}
  /\ request' = [request EXCEPT ![c] = Idle]
  /\ UNCHANGED received /\ UNCHANGED accessVars /\ UNCHANGED channelVars

\* Mutation of StreamScratchpad: the cursor moves one past the last message.
StreamScratchpad_CursorPast(c) ==
  LET new == ListScratchpadSince(RowsFor(c), request[c].since)
  IN  /\ Serving(c, "stream")
      /\ new # {}
      /\ received' = [received EXCEPT ![c] = @ \o IdsInOrder(new)]
      /\ request' = [request EXCEPT ![c].since = NextSeq(new)]
      /\ UNCHANGED accessVars /\ UNCHANGED channelVars

\* Mutation of StreamScratchpad: one answer, as a poll gives.
StreamScratchpad_Once(c) ==
  LET new == ListScratchpadSince(RowsFor(c), request[c].since)
  IN  /\ Serving(c, "stream") /\ received[c] = <<>>
      /\ new # {}
      /\ received' = [received EXCEPT ![c] = @ \o IdsInOrder(new)]
      /\ request' = [request EXCEPT ![c].since = NextSeq(new) - 1]
      /\ UNCHANGED accessVars /\ UNCHANGED channelVars

\* handleScratchpadStream: one turn of its loop writes all WaitScratchpadSince
\* returned, in order, and moves the cursor to the last of them.  The token is
\* not looked at again.
StreamScratchpad(c) ==
  LET new == ListScratchpadSince(RowsFor(c), request[c].since)
  IN  /\ Serving(c, "stream")
      /\ new # {}
      /\ received' = [received EXCEPT ![c] = @ \o IdsInOrder(new)]
      /\ request' = [request EXCEPT ![c].since = NextSeq(new) - 1]
      /\ UNCHANGED accessVars /\ UNCHANGED channelVars

\* The request's context ends: the long poll's deadline (an error answer), a
\* client that went away, a relay that stopped.
RequestEnds(c) ==
  /\ request[c] # Idle
  /\ request' = [request EXCEPT ![c] = Idle]
  /\ UNCHANGED received /\ UNCHANGED accessVars /\ UNCHANGED channelVars

----------------------------------------------------------------------------
(* Pruning. *)

\* PruneScratchpadChannel: every row of the channel goes.
PruneScratchpadChannel(p, h) ==
  /\ chan[p][h] # {}
  /\ chan' = [chan EXCEPT ![p][h] = {}]
  /\ epoch' = [epoch EXCEPT ![p][h] = @ + 1]
  /\ outsiders' = IF \E t \in tokens : t.account = adminWire /\ t.project = p
                  THEN outsiders ELSE outsiders \cup {p}
  /\ UNCHANGED <<sent, request, received>> /\ UNCHANGED accessVars

\* Mutation of AdminMayPrune: an account is enough.
AdminMayPrune_AnyAccount(p) == adminWire \in accounts

\* AuthenticateAdminForProject: the account has a token for the project, be it
\* revoked.  Accounts and tokens are never deleted, so the check still holds
\* when the prune runs.
AdminMayPrune(p) ==
  /\ adminWire \in accounts
  /\ \E t \in tokens : t.account = adminWire /\ t.project = p

\* handleScratchpadPrune
PruneByRequest(p, h) == AdminMayPrune(p) /\ PruneScratchpadChannel(p, h)

\* runScratchpadPrune: `loaf scratchpad prune` on the relay's database.
PruneByCommand(p, h, pathGiven) == AdminOpens(pathGiven) /\ PruneScratchpadChannel(p, h)

----------------------------------------------------------------------------
(* The specification. *)

Admin ==
  \/ \E a \in Account : SetupAccount(a)
  \/ SetupWire \/ SetupConfig \/ SetupInterrupted
  \/ \E n \in Name, p \in Project, g, o \in BOOLEAN : Link(n, p, g, o)
  \/ \E n \in Name, g \in BOOLEAN : RevokeConnection(n, g)
  \/ \E p \in Project, h \in Channel :
       \/ PruneByRequest(p, h)
       \/ PruneCommand /\ \E g \in BOOLEAN : PruneByCommand(p, h, g)

Serve(c) ==
  \/ MarkSeen(c) \/ PublishScratchpadMessage(c)
  \/ PollScratchpad(c) \/ StreamScratchpad(c)

Next ==
  \/ Admin
  \/ \E c \in Client :
       \/ \E k \in wires, p \in Project, h \in Channel, kind \in Kind,
             since \in 0 .. MaxMsg : Contact(c, k, p, h, kind, since)
       \/ Serve(c) \/ RequestEnds(c)

Spec == Init /\ [][Next]_vars

\* A goroutine that can go on goes on, and a long poll ends at its deadline
\* (25 s, at most 60 s).  Nothing ends a stream but its client.
Deadline(c) == request[c].kind = "poll" /\ RequestEnds(c)
Fairness == \A c \in Client : WF_vars(Serve(c)) /\ WF_vars(Deadline(c))

LiveSpec == Spec /\ Fairness

----------------------------------------------------------------------------
(* Properties. *)

Revoked(k) == k \in Minted /\ Row(k).revoked

\* Setup (setup.go): however often setup is run or cut off, the account that
\* admin.wire names exists on the relay, so the admin commands are not locked
\* out by a wire written before its account.
AdminWireUsable == adminWire # NoAccount => adminWire \in accounts

\* MintConnectionToken: every row of an account has a name of its own, revoked
\* rows included, so that revoking by name stops exactly one connection.
OneTokenPerName ==
  /\ Cardinality(Minted) = Cardinality(tokens)
  /\ wires \subseteq Minted

\* RevokeConnection: "Effective at the client's next server contact."  From
\* some moment on the relay serves a revoked token nothing but the streams
\* that were already open.
RevocationSettles ==
  \A k \in TokenKey :
    Revoked(k) ~> [](\A c \in Client :
                       request[c] # Idle /\ request[c].token = k
                         => request[c].kind = "stream")

\* handleScratchpadStream: a stream carries each message at most once and in
\* the order of publication, across prunes too, although numbers start again.
StreamInOrder ==
  \A c \in Client : \A i, j \in 1 .. Len(received[c]) :
    i < j => received[c][i] < received[c][j]

\* handleScratchpadStream: what an open stream has passed over without sending
\* was published after a prune that came later than the stream's opening; in
\* the life of a channel no message is skipped.
SkipsOnlyAfterPrune ==
  \A c \in Client :
    request[c].kind = "stream" =>
      \A m \in RowsFor(c) :
        /\ request[c].start < m.seq /\ m.seq <= request[c].since
        /\ m.epoch = request[c].opened
        => \E i \in 1 .. Len(received[c]) : received[c][i] = m.id

\* handleScratchpadStream: a message beyond the cursor of an open stream is
\* written to it, unless the channel is pruned or the client goes away first.
StreamDelivers ==
  \A c \in Client, i \in 1 .. MaxMsg :
    (/\ Serving(c, "stream")
     /\ \E m \in ListScratchpadSince(RowsFor(c), request[c].since) : m.id = i)
    ~> \/ \E j \in 1 .. Len(received[c]) : received[c][j] = i
       \/ request[c].kind # "stream"
       \/ \A m \in RowsFor(c) : m.id # i

\* scratchpad_prune_auth_test.go: a channel is pruned only by an account that
\* has linked the project.
NoOutsiderPrune == outsiders = {}
=============================================================================
