---------------------------- MODULE IssueTracker ----------------------------
(***************************************************************************)
(* Names of issues and the Linear tracker behind them                      *)
(* (src/internal/state/issue_identity.go, issue_prefix.go, issue_config.go,*)
(* issue_bootstrap.go, linear.go, src/internal/cli/issue.go).  A command   *)
(* is a process that takes one step per transaction or per request to the  *)
(* tracker; it may be killed between any two, and people edit both sides   *)
(* meanwhile.  A name is a pair <<prefix, number>>; Linear never changes   *)
(* the key of an issue.  Titles, descriptions and labels are left out:     *)
(* they decide nothing here.  A lookup is merged with the step that uses   *)
(* it.  One clock stamps both sides.                                       *)
(***************************************************************************)
EXTENDS Naturals, FiniteSets, FiniteSetsExt, Functions, Sequences, Tables

CONSTANT
  TrackerPlans  \* which commands run, on how many keys, issues and processes

VARIABLES
  tplan,     \* the plan of this behaviour; never changes
  identity,  \* the row [authority, prefix, next], or NoIdentity
  config,    \* issue section of .agents/loaf.json: [authority, prefix]
  teamKey,   \* backend_mappings row of the Linear team, or "none"
  tissue,    \* id :> [status, parent, changed, key, number]; key and number
             \* record which Linear issue or local number it was made for
  alias,     \* name :> issue id; a deleted issue keeps its row
  mapping,   \* Linear key :> [issue, at]
  remote,    \* Linear key :> [status, parent, at]
  now,       \* the clock
  job        \* process :> the command it runs

trackerVars == <<tplan, identity, config, teamKey, tissue, alias, mapping, remote, now, job>>

NoIdentity == [authority |-> "none", prefix |-> "none", next |-> 0]
NoName == <<"none", 0>>
NoIssue == 0
Asleep == [op |-> "none"]
DefaultIssuePrefix == "LOAF"
Team == "ENG"

\* The keys Linear has drawn for the team are the numbers up to some number.
KeysDrawn(issues) ==
  IsFiniteSet(DOMAIN issues) /\ DOMAIN issues = {Team} \X (1..Cardinality(DOMAIN issues))

ASSUME TrackerPlansAssumption ==
  \A t \in TrackerPlans : t.ids \subseteq Nat \ {NoIssue} /\ KeysDrawn(t.remote)

TrackerAllows(op) == op \in tplan.ops
Awake(p, op, pc) == job[p] # Asleep /\ job[p].op = op /\ job[p].pc = pc
Done(p) == job' = [job EXCEPT ![p] = Asleep]

\* There is room for another stamp, and the stamp; the clock stands still in a plan
\* whose commands do not look at it.
Ticks == tplan.clock > 0 => now < tplan.clock
Stamp == IF tplan.clock > 0 THEN now + 1 ELSE now

----------------------------------------------------------------------------
(* Identity and names. *)

\* MapLinearStateType of resolveLinearStateID: what a local status is after it
\* went to Linear and back.
AtLinear(status) == IF status = "duplicate" THEN "cancelled" ELSE status

\* LoadLinearAdapterConfig: the team row, else the file of a Linear project.
HasTeam == teamKey # "none" \/ (config.authority = "linear" /\ config.prefix # "none")

\* resolveIssueIdentityDefaultsTx: the file, else the project's name, else LOAF.
DefaultIdentity ==
  [authority |-> IF config.authority = "none" THEN "local" ELSE config.authority,
   prefix |-> IF config.prefix # "none" THEN config.prefix ELSE tplan.derived,
   next |-> 1]

\* ensureIssueIdentityTx.
EnsuredIdentity == IF identity = NoIdentity THEN DefaultIdentity ELSE identity

NamesOf(i) == {a \in DOMAIN alias : alias[a] = i}

\* The counter does not move.
Minted_Stuck(ident) == ident

\* mintLocalIssueAliasTx: the number after this one, in the same transaction.
Minted(ident) == IF ident.authority = "local" THEN [ident EXCEPT !.next = @ + 1] ELSE ident

MintedName(ident) == IF ident.authority = "local" THEN <<ident.prefix, ident.next>> ELSE NoName

UnusedIds == tplan.ids \ (DOMAIN tissue \cup Range(alias))
NextId == Min(UnusedIds)

\* Adoption names no alias and leaves it to the binding.
GivenName_Late(name) == NoName

\* options.Alias of createIssueTx.
GivenName(name) == name

\* createIssueTx with or without a name; it fails as a whole when the name is taken
\* or the parent is gone.
CanCreateNamed(parent, name) ==
  LET given == IF name = NoName THEN MintedName(EnsuredIdentity) ELSE GivenName(name)
  IN  /\ UnusedIds # {}
      /\ parent # NoIssue => parent \in DOMAIN tissue
      /\ given \notin DOMAIN alias

CreateNamed(parent, name) ==
  LET given == IF name = NoName THEN MintedName(EnsuredIdentity) ELSE GivenName(name)
      number == IF name = NoName /\ given # NoName THEN given[2] ELSE 0
  IN  /\ tissue' = Upserted(tissue, NextId, [status |-> "triage", parent |-> parent, changed |-> Stamp,
                                             key |-> name, number |-> number])
      /\ alias' = IF given = NoName THEN alias ELSE Upserted(alias, given, NextId)
      /\ identity' = IF name = NoName THEN Minted(EnsuredIdentity) ELSE identity
      /\ now' = Stamp

\* rewriteIssuePrefixTx: every name under the old prefix, refused when one of the
\* new names exists; adopted keys under that prefix are renamed with the others.
Renamed(a, from, to) == IF a[1] = from THEN <<to, a[2]>> ELSE a

\* Nobody looks whether the new names are free.
CanRewrite_Blind(from, to) == TRUE

CanRewrite(from, to) ==
  from # to => \A a \in DOMAIN alias : a[1] = from => <<to, a[2]>> \notin DOMAIN alias

RewrittenAlias(from, to) ==
  LET names == {Renamed(a, from, to) : a \in DOMAIN alias}
  IN  [b \in names |-> alias[CHOOSE a \in DOMAIN alias : Renamed(a, from, to) = b]]

\* DefineIssueIdentity, its transaction: between local names the aliases move, and
\* otherwise only the row.
DefineIdentity(p, authority, prefix) ==
  LET current == EnsuredIdentity IN
  /\ TrackerAllows("define") /\ job[p] = Asleep
  /\ IF authority = "local" /\ current.authority = "local"
     THEN /\ CanRewrite(current.prefix, prefix)
          /\ alias' = RewrittenAlias(current.prefix, prefix)
     ELSE UNCHANGED alias
  /\ identity' = [current EXCEPT !.authority = authority, !.prefix = prefix]
  /\ job' = [job EXCEPT ![p] = [op |-> "define", pc |-> IF authority = "linear" THEN "team" ELSE "config",
                                authority |-> authority, prefix |-> prefix]]
  /\ UNCHANGED <<tplan, config, teamKey, tissue, mapping, remote, now>>

\* The team row of a tracker authority, in a transaction of its own.
DefineTeam(p) ==
  /\ Awake(p, "define", "team") \/ Awake(p, "apply", "team")
  /\ teamKey' = job[p].prefix
  /\ job' = [job EXCEPT ![p] = IF @.op = "apply" THEN Asleep ELSE [@ EXCEPT !.pc = "config"]]
  /\ UNCHANGED <<tplan, identity, config, tissue, alias, mapping, remote, now>>

\* persistIssueProjectConfig, last of all.
WriteConfig(p) ==
  /\ Awake(p, "define", "config")
  /\ config' = [authority |-> job[p].authority, prefix |-> job[p].prefix]
  /\ Done(p)
  /\ UNCHANGED <<tplan, identity, teamKey, tissue, alias, mapping, remote, now>>

\* BootstrapTrackerSteering when Linear is set up: the row without a rename and
\* without a team row, then the file.
BootstrapTrackerSteering(p) ==
  LET prefix == IF config.prefix # "none" THEN config.prefix
                ELSE IF identity # NoIdentity THEN identity.prefix ELSE tplan.derived
      next == IF identity = NoIdentity THEN 1 ELSE identity.next
  IN
  /\ TrackerAllows("bootstrap") /\ job[p] = Asleep
  /\ identity' = [authority |-> "linear", prefix |-> prefix, next |-> next]
  /\ job' = [job EXCEPT ![p] = [op |-> "define", pc |-> "config", authority |-> "linear", prefix |-> prefix]]
  /\ UNCHANGED <<tplan, config, teamKey, tissue, alias, mapping, remote, now>>

\* alignLeakedIssuePrefixes: a row that holds LOAF though the project has a name of
\* its own and the file says nothing.
AlignLeakedIssuePrefix(p) ==
  /\ TrackerAllows("align") /\ job[p] = Asleep
  /\ identity # NoIdentity /\ identity.prefix = DefaultIssuePrefix
  /\ config.prefix = "none" /\ tplan.derived # DefaultIssuePrefix
  /\ CanRewrite(DefaultIssuePrefix, tplan.derived)
  /\ alias' = RewrittenAlias(DefaultIssuePrefix, tplan.derived)
  /\ identity' = [identity EXCEPT !.prefix = tplan.derived]
  /\ job' = [job EXCEPT ![p] = [op |-> "define", pc |-> "config", authority |-> identity.authority,
                                prefix |-> tplan.derived]]
  /\ UNCHANGED <<tplan, config, teamKey, tissue, mapping, remote, now>>

\* ApplyIssueProjectConfig at init: the file becomes the row when there is none,
\* then the team row.
ApplyIssueProjectConfig(p) ==
  /\ TrackerAllows("apply") /\ job[p] = Asleep
  /\ config.prefix # "none" /\ identity = NoIdentity
  /\ identity' = DefaultIdentity
  /\ job' = IF config.authority # "linear" THEN job
            ELSE [job EXCEPT ![p] = [op |-> "apply", pc |-> "team", authority |-> "linear", prefix |-> config.prefix]]
  /\ UNCHANGED <<tplan, config, teamKey, tissue, alias, mapping, remote, now>>

----------------------------------------------------------------------------
(* Pulling: adoptLinearIssue.  The name decides who creates the issue. *)

\* upsertBackendMappingTx: one row for a key.
Mapped(k, i) == Upserted(mapping, k, [issue |-> i, at |-> Stamp])

\* resolveLinearParentID: no edge when the parent is not mapped.
LocalParent(parentKey, seen) ==
  LET k == IF parentKey # NoName THEN parentKey ELSE seen.parent
  IN  IF k \in DOMAIN mapping THEN mapping[k].issue ELSE NoIssue

\* The ids above i in the local tree.
Above(i) ==
  LET up[n \in 0..Cardinality(DOMAIN tissue)] ==
        IF n = 0 THEN {i} ELSE up[n - 1] \cup {tissue[j].parent : j \in up[n - 1] \cap DOMAIN tissue}
  IN  up[Cardinality(DOMAIN tissue)]

\* applyIssueStatus: triage is never applied, and a duplicate comes as cancelled.
ApplyStatus(i, status) ==
  IF status = "triage" \/ status = tissue[i].status THEN UNCHANGED <<tissue, now>>
  ELSE /\ tissue' = [tissue EXCEPT ![i].status = status, ![i].changed = Stamp]
       /\ now' = Stamp

\* PullLinearIssue, with the tree below the key or without.
Pull(p, k, tree) ==
  /\ TrackerAllows("pull") /\ job[p] = Asleep /\ k \in DOMAIN remote
  /\ job' = [job EXCEPT ![p] = [op |-> "pull", pc |-> "read", todo |-> <<<<k, NoName>>>>, tree |-> tree]]
  /\ UNCHANGED <<tplan, identity, config, teamKey, tissue, alias, mapping, remote, now>>

\* adoptLinearIssue asks Linear for the issue.
AdoptRead(p) ==
  LET k == Head(job[p].todo)[1] IN
  /\ Awake(p, "pull", "read")
  /\ job' = [job EXCEPT ![p] = [op |-> "pull", pc |-> "lookup", todo |-> Tail(@.todo), tree |-> @.tree,
                                key |-> k, under |-> Head(@.todo)[2], seen |-> remote[k]]]
  /\ UNCHANGED <<tplan, identity, config, teamKey, tissue, alias, mapping, remote, now>>

At(p, pc, more) == job' = [job EXCEPT ![p] = Over(more, [@ EXCEPT !.pc = pc])]

\* GetIssue: the row as this command goes on to know it.
Row(i) == [parent |-> tissue[i].parent, status |-> tissue[i].status, names |-> NamesOf(i)]

\* lookupLinearIssueMappingTx by the key, then GetIssue: the issue is refreshed
\* when the key is mapped, and made when it is not.
AdoptLookup(p) ==
  LET k == job[p].key IN
  /\ Awake(p, "pull", "lookup")
  /\ IF k \in DOMAIN mapping
     THEN IF mapping[k].issue \in DOMAIN tissue
          THEN At(p, "parent", [id |-> mapping[k].issue, made |-> FALSE, row |-> Row(mapping[k].issue)])
          ELSE Done(p)
     ELSE At(p, "create", [parent |-> LocalParent(job[p].under, job[p].seen)])
  /\ UNCHANGED <<tplan, identity, config, teamKey, tissue, alias, mapping, remote, now>>

\* CreateIssue under the key; when that fails, the issue that has the name is taken.
AdoptCreate(p) ==
  LET k == job[p].key IN
  /\ Awake(p, "pull", "create") /\ Ticks
  /\ IF CanCreateNamed(job[p].parent, k)
     THEN CreateNamed(job[p].parent, k) /\ At(p, "bind", [id |-> NextId, made |-> TRUE])
     ELSE /\ IF k \in DOMAIN alias /\ alias[k] \in DOMAIN tissue
             THEN At(p, "bind", [id |-> alias[k], made |-> FALSE, row |-> Row(alias[k])])
             ELSE Done(p)
          /\ UNCHANGED <<identity, tissue, alias, now>>
  /\ UNCHANGED <<tplan, config, teamKey, mapping, remote>>

\* BindLinearIssue: the name is added when there is none and refused when there is
\* another; the mapping row goes with it.
Bind(p) ==
  LET k == job[p].key
      i == job[p].id
      bound == NamesOf(i) = {k} \/ (NamesOf(i) = {} /\ k \notin DOMAIN alias)
  IN
  /\ job[p] # Asleep /\ job[p].pc = "bind" /\ Ticks
  /\ IF bound
     THEN /\ alias' = Upserted(alias, k, i) /\ mapping' = Mapped(k, i) /\ now' = Stamp
          /\ At(p, IF job[p].made THEN "status" ELSE "parent", <<>>)
     ELSE Done(p) /\ UNCHANGED <<alias, mapping, now>>
  /\ UNCHANGED <<tplan, identity, config, teamKey, tissue, remote>>

\* refreshAdoptedLinearIssue, the parent: a cycle or a lost issue ends the command.
RefreshParent(p) ==
  LET i == job[p].id
      parent == LocalParent(job[p].under, job[p].seen)
  IN
  /\ Awake(p, "pull", "parent")
  /\ IF parent = job[p].row.parent THEN At(p, "alias", <<>>) /\ UNCHANGED tissue
     ELSE IF i \in DOMAIN tissue /\ (parent # NoIssue => parent \in DOMAIN tissue /\ i \notin Above(parent))
     THEN /\ tissue' = [tissue EXCEPT ![i].parent = parent]
          /\ At(p, "alias", [row |-> [Row(i) EXCEPT !.parent = parent]])
     ELSE Done(p) /\ UNCHANGED tissue
  /\ UNCHANGED <<tplan, identity, config, teamKey, alias, mapping, remote, now>>

\* replaceLinearIssueAlias: a renamed issue gets its key back, unless it is taken.
RefreshAlias(p) ==
  LET k == job[p].key
      i == job[p].id
      others == Restrict(alias, DOMAIN alias \ NamesOf(i))
  IN
  /\ Awake(p, "pull", "alias") /\ Ticks
  /\ IF job[p].row.names = {k} THEN At(p, "status", <<>>) /\ UNCHANGED <<alias, mapping, now>>
     ELSE IF k \in DOMAIN others \/ i \notin DOMAIN tissue THEN Done(p) /\ UNCHANGED <<alias, mapping, now>>
     ELSE /\ alias' = Upserted(others, k, i) /\ mapping' = Mapped(k, i) /\ now' = Stamp
          /\ At(p, "status", [row |-> Row(i)])
  /\ UNCHANGED <<tplan, identity, config, teamKey, tissue, remote>>

\* The status Linear had when it was read, over the one the row had when it was.
AdoptStatus(p) ==
  /\ Awake(p, "pull", "status") /\ Ticks
  /\ IF ~job[p].made /\ job[p].row.status = job[p].seen.status
     THEN At(p, "next", <<>>) /\ UNCHANGED <<tissue, now>>
     ELSE IF job[p].id \in DOMAIN tissue
     THEN ApplyStatus(job[p].id, job[p].seen.status) /\ At(p, "next", <<>>)
     ELSE Done(p) /\ UNCHANGED <<tissue, now>>
  /\ UNCHANGED <<tplan, identity, config, teamKey, alias, mapping, remote>>

\* pullLinearChildren asks again and goes on with the children, depth first.
PullChildren(p) ==
  LET k == job[p].key
      below == IF job[p].tree THEN {c \in DOMAIN remote : remote[c].parent = k} ELSE {}
      inOrder == Listed(below, LAMBDA d, c : d[2] < c[2])
      todo == [n \in DOMAIN inOrder |-> <<inOrder[n], k>>] \o job[p].todo
  IN
  /\ Awake(p, "pull", "next")
  /\ IF todo = <<>> THEN Done(p)
     ELSE job' = [job EXCEPT ![p] = [op |-> "pull", pc |-> "read", todo |-> todo, tree |-> @.tree]]
  /\ UNCHANGED <<tplan, identity, config, teamKey, tissue, alias, mapping, remote, now>>

----------------------------------------------------------------------------
(* Making an issue: mintIssueIdentity, createIssueWithIdentity, finishIssueNew. *)

\* runIssueNew reads the authority; the status asked for comes last.
New(p, status) ==
  /\ TrackerAllows("new") /\ job[p] = Asleep
  /\ job' = [job EXCEPT ![p] = [op |-> "new", pc |-> IF identity.authority = "linear" THEN "mint" ELSE "create",
                                key |-> NoName, status |-> status]]
  /\ UNCHANGED <<tplan, identity, config, teamKey, tissue, alias, mapping, remote, now>>

\* MintLinearIssue: refused without a team; Linear draws the next key.
MintLinearIssue(p) ==
  LET n == Cardinality(DOMAIN remote) + 1 IN
  /\ Awake(p, "new", "mint") /\ Ticks
  /\ IF ~HasTeam
     THEN Done(p) /\ UNCHANGED <<remote, now>>
     ELSE /\ n <= tplan.keys
          /\ remote' = Upserted(remote, <<Team, n>>, [status |-> "backlog", parent |-> NoName, at |-> Stamp])
          /\ now' = Stamp
          /\ At(p, "create", [key |-> <<Team, n>>])
  /\ UNCHANGED <<tplan, identity, config, teamKey, tissue, alias, mapping>>

\* CreateIssue under the minted key or a local number; a failure leaves the Linear
\* issue without a local one (LinearOrphanError).
NewCreate(p) ==
  /\ Awake(p, "new", "create") /\ Ticks
  /\ IF CanCreateNamed(NoIssue, job[p].key)
     THEN /\ CreateNamed(NoIssue, job[p].key)
          /\ At(p, IF job[p].key = NoName THEN "status" ELSE "bind", [id |-> NextId, made |-> TRUE])
     ELSE Done(p) /\ UNCHANGED <<identity, tissue, alias, now>>
  /\ UNCHANGED <<tplan, config, teamKey, mapping, remote>>

\* finishIssueNew.
NewStatus(p) ==
  /\ Awake(p, "new", "status") /\ Ticks
  /\ IF job[p].id \in DOMAIN tissue THEN ApplyStatus(job[p].id, job[p].status) ELSE UNCHANGED <<tissue, now>>
  /\ Done(p)
  /\ UNCHANGED <<tplan, identity, config, teamKey, alias, mapping, remote>>

----------------------------------------------------------------------------
(* Pushing and reconciling. *)

\* lookupLinearIssueMappingTx by issue or name: the row of the name first, then the latest.
KeysFor(i) == {k \in DOMAIN mapping : mapping[k].issue = i \/ k \in NamesOf(i)}
KeyFor(i) ==
  IF KeysFor(i) \cap NamesOf(i) # {} THEN CHOOSE k \in KeysFor(i) \cap NamesOf(i) : TRUE
  ELSE CHOOSE k \in KeysFor(i) : \A l \in KeysFor(i) : mapping[l].at <= mapping[k].at

\* PushLinearIssue and ReconcileLinearIssue read the row, the mapping and the time
\* of the last local status.
ReadLocal(p, op, i, take) ==
  /\ TrackerAllows(op) /\ job[p] = Asleep /\ KeysFor(i) # {}
  /\ job' = [job EXCEPT ![p] = [op |-> op, pc |-> "remote", id |-> i, take |-> take, key |-> KeyFor(i),
                                status |-> tissue[i].status, changed |-> tissue[i].changed]]
  /\ UNCHANGED <<tplan, identity, config, teamKey, tissue, alias, mapping, remote, now>>

\* Then the issue at Linear.
ReadRemote(p) ==
  /\ Awake(p, "push", "remote") \/ Awake(p, "reconcile", "remote")
  /\ At(p, "write", [seen |-> remote[job[p].key]])
  /\ UNCHANGED <<tplan, identity, config, teamKey, tissue, alias, mapping, remote, now>>

\* UpdateIssue at Linear: the description always, the status only when it differs
\* and the local event is later than what was read.
PushWrite(p) ==
  LET k == job[p].key
      newer == job[p].status # job[p].seen.status /\ job[p].changed > job[p].seen.at
  IN
  /\ Awake(p, "push", "write") /\ Ticks
  /\ IF newer /\ ~HasTeam THEN Done(p) /\ UNCHANGED <<remote, now>>
     ELSE /\ remote' = [remote EXCEPT ![k].at = Stamp, ![k].status = IF newer THEN AtLinear(job[p].status) ELSE @]
          /\ now' = Stamp
          /\ At(p, "map", [insync |-> FALSE])
  /\ UNCHANGED <<tplan, identity, config, teamKey, tissue, alias, mapping>>

\* ReconcileLinearIssue: a difference is settled by the flag or reported.
ReconcileWrite(p) ==
  LET k == job[p].key
      differ == job[p].status # job[p].seen.status
      goOn == At(p, "map", [insync |-> differ => job[p].take # "none"])
  IN
  /\ Awake(p, "reconcile", "write") /\ Ticks
  /\ \/ /\ differ /\ job[p].take = "local" /\ HasTeam
        /\ remote' = [remote EXCEPT ![k].at = Stamp, ![k].status = AtLinear(job[p].status)]
        /\ now' = Stamp
        /\ goOn /\ UNCHANGED tissue
     \/ /\ differ /\ job[p].take = "tracker" /\ job[p].id \in DOMAIN tissue
        /\ ApplyStatus(job[p].id, job[p].seen.status)
        /\ goOn /\ UNCHANGED remote
     \/ /\ differ => job[p].take = "none"
        /\ goOn /\ UNCHANGED <<remote, tissue, now>>
     \/ /\ differ
        /\ \/ job[p].take = "local" /\ ~HasTeam
           \/ job[p].take = "tracker" /\ job[p].id \notin DOMAIN tissue
        /\ Done(p) /\ UNCHANGED <<remote, tissue, now>>
  /\ UNCHANGED <<tplan, identity, config, teamKey, alias, mapping>>

\* The mapping row is stamped, also when the difference stays.
TouchMapping(p) ==
  /\ job[p] # Asleep /\ job[p].pc = "map" /\ Ticks
  /\ mapping' = Mapped(job[p].key, job[p].id) /\ now' = Stamp
  /\ At(p, "report", <<>>)
  /\ UNCHANGED <<tplan, identity, config, teamKey, tissue, alias, remote>>

\* The result is printed.
Report(p) ==
  /\ job[p] # Asleep /\ job[p].pc = "report"
  /\ Done(p)
  /\ UNCHANGED <<tplan, identity, config, teamKey, tissue, alias, mapping, remote, now>>

----------------------------------------------------------------------------
(* What else happens meanwhile. *)

\* Somebody sets a status here (UpdateIssue, RemoveIssue).
SetStatus(i, status) ==
  /\ TrackerAllows("edit") /\ Ticks /\ tissue[i].status # status
  /\ tissue' = [tissue EXCEPT ![i].status = status, ![i].changed = Stamp]
  /\ now' = Stamp
  /\ UNCHANGED <<tplan, identity, config, teamKey, alias, mapping, remote, job>>

\* HardDeleteIssue: names and mappings stay behind.
Delete(i) ==
  /\ TrackerAllows("delete")
  /\ tissue' = [j \in DOMAIN tissue \ {i} |->
                  IF tissue[j].parent = i THEN [tissue[j] EXCEPT !.parent = NoIssue] ELSE tissue[j]]
  /\ UNCHANGED <<tplan, identity, config, teamKey, alias, mapping, remote, now, job>>

\* Somebody works at Linear.
EditRemote(k, status, parent) ==
  /\ TrackerAllows("remote") /\ Ticks
  /\ parent # NoName => parent # k /\ remote[parent].parent # k
  /\ <<status, parent>> # <<remote[k].status, remote[k].parent>>
  /\ remote' = [remote EXCEPT ![k] = [status |-> status, parent |-> parent, at |-> Stamp]]
  /\ now' = Stamp
  /\ UNCHANGED <<tplan, identity, config, teamKey, tissue, alias, mapping, job>>

\* A command is killed, or a request of it fails.
Kill(p) ==
  /\ TrackerAllows("kill") /\ job[p] # Asleep
  /\ Done(p)
  /\ UNCHANGED <<tplan, identity, config, teamKey, tissue, alias, mapping, remote, now>>

TrackerInit ==
  /\ tplan \in TrackerPlans
  /\ identity = NoIdentity /\ config = tplan.config /\ teamKey = "none"
  /\ tissue = <<>> /\ alias = <<>> /\ mapping = <<>>
  /\ remote = tplan.remote /\ now = 1
  /\ job = [p \in tplan.procs |-> Asleep]

CommandStep(p) ==
  \/ DefineTeam(p) \/ WriteConfig(p)
  \/ AdoptRead(p) \/ AdoptLookup(p) \/ AdoptCreate(p) \/ Bind(p)
  \/ RefreshParent(p) \/ RefreshAlias(p) \/ AdoptStatus(p) \/ PullChildren(p)
  \/ MintLinearIssue(p) \/ NewCreate(p) \/ NewStatus(p)
  \/ ReadRemote(p) \/ PushWrite(p) \/ ReconcileWrite(p) \/ TouchMapping(p) \/ Report(p)

TrackerNext ==
  \/ \E p \in tplan.procs :
       \/ CommandStep(p)
       \/ BootstrapTrackerSteering(p) \/ AlignLeakedIssuePrefix(p) \/ ApplyIssueProjectConfig(p)
       \/ \E d \in tplan.defines : DefineIdentity(p, d[1], d[2])
       \/ \E k \in DOMAIN remote, t \in BOOLEAN : Pull(p, k, t)
       \/ \E s \in {"triage", "todo"} : New(p, s)
       \/ \E i \in DOMAIN tissue : ReadLocal(p, "push", i, "none")
       \/ \E i \in DOMAIN tissue, t \in {"none", "local", "tracker"} : ReadLocal(p, "reconcile", i, t)
       \/ Kill(p)
  \/ \E i \in DOMAIN tissue, s \in tplan.statuses : SetStatus(i, s)
  \/ \E i \in DOMAIN tissue : Delete(i)
  \/ \E k \in DOMAIN remote, s \in tplan.statuses \ {"duplicate"}, q \in {NoName} \cup DOMAIN remote :
       EditRemote(k, s, q)

TrackerSpec == TrackerInit /\ [][TrackerNext]_trackerVars

----------------------------------------------------------------------------
(* Properties. *)

\* Two commands that adopt the same Linear issue at once, or one that was killed and
\* is run again, leave one local issue for it, and the mapping row names that issue
\* (or a local one that was numbered under the team's prefix before, which the pull
\* takes for it).
OneIssuePerKey ==
  /\ \A i, j \in DOMAIN tissue : tissue[i].key = tissue[j].key /\ tissue[i].key # NoName => i = j
  /\ \A k \in DOMAIN mapping : mapping[k].issue \in DOMAIN tissue => tissue[mapping[k].issue].key \in {k, NoName}

\* A local issue keeps the number it was given through every rename of the prefix,
\* and names never go over to another issue.
NamesKeepTheirIssue ==
  [][/\ \A i \in DOMAIN tissue \cap DOMAIN tissue' :
          {a[2] : a \in NamesOf(i)} \subseteq {a[2] : a \in NamesOf(i)'}
     /\ \A a \in DOMAIN alias \cap DOMAIN alias' : alias[a] = alias'[a]]_trackerVars

\* What OneIssuePerKey asks of the renames: the name an issue was adopted under goes
\* away only when the mapping row of that key is written and no command is about to
\* create an issue for it.
RenamesSpareKeys ==
  \A j \in DOMAIN tissue :
    LET k == tissue[j].key IN
    k \in DOMAIN alias /\ alias[k] = j /\ k \notin DOMAIN alias' =>
      k \in DOMAIN mapping /\ \A p \in tplan.procs : ~ (job[p] # Asleep /\ job[p].pc = "create" /\ job[p].key = k)
=============================================================================
