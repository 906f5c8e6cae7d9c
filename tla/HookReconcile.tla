--------------------------- MODULE HookReconcile ---------------------------
(* The hooks file a harness shares with Loaf (internal/cli/hook_*.go,          *)
(* internal/cli/hooks.go) and the records of which hooks its user wants         *)
(* (internal/state/hook_enablement.go). Installs, upgrades and `loaf hooks       *)
(* enable/disable' reconcile the file entry by entry under a lock file; the      *)
(* user and other programs edit it without one.                                  *)
(*                                                                               *)
(* One target with one event: events are reconciled one by one and never share   *)
(* an entry. A file that is absent and one without entries are one; commands,     *)
(* signatures and JSON forms are abstracted to what recognition makes of them.   *)
EXTENDS Naturals, Sequences, FiniteSets, FiniteSetsExt, SequencesExt, TLC, Tables

CONSTANT HookPlans \* instances: versions, first state, commands, processes, bounds

\* The entries of a file are an array.
IsFile(f) == f \in Seq({f[i] : i \in DOMAIN f})

NoMark == "none"
NoHook == 0
NoPath == "none"

\* The hooks of the installed generation, as far as a catalog lists generations.
Cohort(catalog, prior) ==
  IF prior.there /\ prior.ver \in DOMAIN catalog.cohorts THEN catalog.cohorts[prior.ver]
  ELSE IF ~prior.there /\ catalog.cohorts # <<>> THEN catalog.lastCohort ELSE {}

\* A catalog is a finite list of templates, its hooks numbered in its order, and no
\* edit is made when none is left.
ASSUME HookPlansAssumption ==
  \A x \in HookPlans :
    /\ IsFile(x.file)
    /\ x.edits \in Nat
    /\ \A c \in x.cmds : IsFiniteSet(x.versions[c.ver].hooks) /\ x.versions[c.ver].hooks \subseteq Nat \ {NoHook}

\* An entry of a catalog's form names an executable on record, in the file and in what
\* others write; one of an executable nobody recorded is no entry of Loaf's. The user
\* has not put back by hand what he had taken out.
ASSUME HookEntriesAssumption ==
  \A x \in HookPlans : \A e \in {x.file[i] : i \in DOMAIN x.file} \cup x.others :
    /\ DOMAIN e = {"kind", "hook", "exe", "text"}
    /\ e.kind = "hook" => e.exe \in x.trusted.known
    /\ e.kind \in {"hook", "managed"} => e.hook \notin x.declined

\* What he had taken out is of an installation its manifest tells of, and of a
\* generation every version at work lists.
ASSUME DeclinedAssumption ==
  \A x \in HookPlans : \A c \in x.cmds : x.declined # {} =>
    /\ x.manifest.row
    /\ x.declined \subseteq Cohort(x.versions[c.ver], x.manifest) \cap x.versions[c.ver].hooks

VARIABLES
  hkplan,       \* the instance
  hookFile,     \* hooks.json: the entries in order
  enablement,   \* hook_enablements: hook -> "enabled" or "disabled"
  absorption,   \* hook_absorption_markers: the version absorbed from, or NoMark
  trustedPaths, \* hook_trusted_paths: [current, known]
  hookManifest, \* the installed target manifest: [there, ver, row]
  hookLock,     \* .loaf-hooks.lock exists
  hookProc,     \* process -> what it is doing
  settled,      \* version and executable that last left the file as it should be, or Unsettled
  declined,     \* hooks the user had taken out before there were records
  hookFaults    \* edits and stops still to come

hookVars == <<hkplan, hookFile, enablement, absorption, trustedPaths, hookManifest,
              hookLock, hookProc, settled, declined, hookFaults>>

recordVars == <<enablement, absorption, trustedPaths>>

Unsettled == [ver |-> 0, exe |-> NoPath]
Copy(c) == [ver |-> c.ver, exe |-> c.exe]

---------------------------------------------------------------------------
(* The catalog of a version, and whose an entry is. *)

Catalog(v) == hkplan.versions[v]

\* An entry as the catalog of version v has it, with the executable filled in.
DesiredEntry(v, h, path) == [kind |-> "hook", hook |-> h, exe |-> path, text |-> Catalog(v).text[h]]

\* What a reconcile knows when it reads the file: the records, and the executable
\* this process trusts even if it could not be recorded.
Records == [enablement |-> enablement, absorbed |-> absorption # NoMark, trusted |-> trustedPaths.known]

Enabled(r, h) == h \notin DOMAIN r.enablement \/ r.enablement[h] = "enabled"
Recorded(r, h) == h \in DOMAIN r.enablement

Recognition(r, c) == r.trusted \cup (IF c.exe = NoPath THEN {} ELSE {c.exe})

MatchesExecutable(e, c, trusted) ==
  e.kind = "hook" /\ e.exe \in trusted /\ e.hook \in Catalog(c.ver).hooks

MatchesFrozenRetired(e, trusted) == e.kind = "retired" /\ e.exe \in trusted

MatchesFrozenAllowlist(e) == e.kind = "retired" /\ e.exe = NoPath

ReferencesManagedPath(e) == e.kind = "managed"

OwnsEntry(e, c, trusted) ==
  \/ MatchesExecutable(e, c, trusted)
  \/ MatchesFrozenRetired(e, trusted)
  \/ ReferencesManagedPath(e)
  \/ MatchesFrozenAllowlist(e)

\* The catalog's hook an owned entry stands for; a form no catalog has is retired.
ResolveHookID(e, c) ==
  IF e.kind \in {"hook", "managed"} /\ e.hook \in Catalog(c.ver).hooks THEN e.hook ELSE NoHook

\* One entry of an event is paired with one hook; later ones are duplicates.
PairHookEntries(f, c, trusted) ==
  LET owned == {i \in DOMAIN f : OwnsEntry(f[i], c, trusted)}
      first(h) == Min({i \in owned : ResolveHookID(f[i], c) = h})
      found == {ResolveHookID(f[i], c) : i \in owned} \ {NoHook}
  IN [paired     |-> [h \in found |-> first(h)],
      duplicates |-> {i \in owned : ResolveHookID(f[i], c) # NoHook /\ i # first(ResolveHookID(f[i], c))},
      retired    |-> {i \in owned : ResolveHookID(f[i], c) = NoHook},
      foreign    |-> DOMAIN f \ owned]

---------------------------------------------------------------------------
(* The projection: what the file should be. *)

AbsorptionVersion(c, prior, installed) ==
  IF prior.there THEN prior.ver ELSE IF ~installed THEN c.ver ELSE 0

\* Before there are records, a hook of the installed generation that is not in the
\* file was taken out by the user, if there was an installation at all.
PlanAbsorption(r, pairing, f, c, prior) ==
  LET installed == prior.row \/ Cardinality(DOMAIN f) > Cardinality(pairing.foreign)
  IN [marks   |-> ~r.absorbed,
      from    |-> AbsorptionVersion(c, prior, installed),
      disable |-> IF r.absorbed \/ ~installed THEN {}
                  ELSE {h \in Cohort(Catalog(c.ver), prior) \cap Catalog(c.ver).hooks :
                          ~Recorded(r, h) /\ h \notin DOMAIN pairing.paired}]

\* Indices, and hooks, as the code walks them: in the order of the file and of the catalog.
InOrder(S) == Listed(S, <)

\* Duplicates, retired and disabled entries go, stale ones are replaced where they
\* are, missing ones come at the end in the catalog's order; foreign ones stay.
ProjectEvent(f, pairing, r, disabled, c) ==
  LET wanted == {h \in Catalog(c.ver).hooks : Enabled(r, h) /\ h \notin disabled}
      present == DOMAIN pairing.paired
      removed == pairing.duplicates \cup pairing.retired \cup {pairing.paired[h] : h \in present \ wanted}
      stays == InOrder(DOMAIN f \ removed)
      added == InOrder(wanted \ present)
      standing(i) == IF \E h \in wanted \cap present : pairing.paired[h] = i
                     THEN DesiredEntry(c.ver, ResolveHookID(f[i], c), c.exe) ELSE f[i]
  IN [n \in DOMAIN stays |-> standing(stays[n])] \o [n \in DOMAIN added |-> DesiredEntry(c.ver, added[n], c.exe)]

\* The entries at some of the indices of a file.
EntriesAt(f, S) == LET places == InOrder(S) IN [n \in DOMAIN places |-> f[places[n]]]

\* A template cannot be rendered without a trusted executable.
CanProject(r, c) == c.exe # NoPath \/ \A h \in Catalog(c.ver).hooks : ~Enabled(r, h)

ComputeProjection(f, r, c, prior) ==
  LET pairing == PairHookEntries(f, c, Recognition(r, c))
      plan    == PlanAbsorption(r, pairing, f, c, prior)
  IN [absorb  |-> plan,
      body    |-> ProjectEvent(f, pairing, r, plan.disable, c),
      foreign |-> EntriesAt(f, pairing.foreign)]

\* hookReconciler.diagnose: the state of each hook of a version, and what mends it.
Diagnose(c) ==
  LET paired == PairHookEntries(hookFile, c, Recognition(Records, c)).paired
  IN [h \in Catalog(c.ver).hooks |->
        IF ~Enabled(Records, h)
        THEN IF h \in DOMAIN paired THEN "disabled-but-present" ELSE "disabled-and-absent"
        ELSE IF h \notin DOMAIN paired THEN "enabled-and-missing"
        ELSE IF hookFile[paired[h]] = DesiredEntry(c.ver, h, c.exe) THEN "enabled-and-in-sync" ELSE "enabled-but-stale"]

Healthy(state) == state \in {"disabled-and-absent", "enabled-and-in-sync"}

Remedy(state) ==
  CASE state \in {"enabled-but-stale", "enabled-and-missing"} -> "reconcile"
    [] state = "disabled-but-present" -> "reprojection"
    [] OTHER -> "none"

\* `loaf hooks list': what is recorded next to what the file has.
HookListing(c) ==
  [h \in Catalog(c.ver).hooks |->
     [enabled |-> Enabled(Records, h),
      projected |-> h \in DOMAIN PairHookEntries(hookFile, c, Recognition(Records, c)).paired]]

---------------------------------------------------------------------------
(* A reconcile. *)

Resting == [at |-> "idle"]

At(p, where) == hookProc[p].at = where

Rest(p) == hookProc' = [hookProc EXCEPT ![p] = Resting]

Move(p, where) == hookProc' = [hookProc EXCEPT ![p].at = where]

\* Building the reconciler reads the installed manifest, before the lock.
NewHookReconciler(p, c) ==
  /\ At(p, "idle")
  /\ hookProc' = [hookProc EXCEPT ![p] =
                    [at |-> "waiting", cmd |-> c, prior |-> hookManifest, begun |-> Records,
                     absorb |-> [marks |-> FALSE, from |-> 0, disable |-> {}],
                     seen |-> <<>>, body |-> <<>>, foreign |-> <<>>, edited |-> FALSE]]
  /\ UNCHANGED <<hkplan, hookFile, recordVars, hookManifest, hookLock, settled, declined, hookFaults>>

\* The lock is a file created exclusively; a command that waits too long gives up.
AcquireHookFileLock(p) ==
  /\ At(p, "waiting")
  /\ IF hookLock THEN Rest(p) /\ UNCHANGED hookLock
     ELSE Move(p, "trust") /\ hookLock' = TRUE
  /\ UNCHANGED <<hkplan, hookFile, recordVars, hookManifest, settled, declined, hookFaults>>

\* Removing the lock file does not ask whose it is.
ReleaseHookFileLock(p) == hookLock' = FALSE /\ Rest(p)

\* Mutant: the path is recorded only by a command that changes which hooks are wanted.
RecordTrustedExecutable_OnToggle(p) ==
  LET path == hookProc[p].cmd.exe IN
  /\ At(p, "trust")
  /\ Move(p, "absorb")
  /\ trustedPaths' = IF path = NoPath \/ hookProc[p].cmd.op = "install" THEN trustedPaths
                     ELSE [current |-> path, known |-> trustedPaths.known \cup {path}]
  /\ UNCHANGED <<hkplan, hookFile, enablement, absorption, hookManifest, hookLock, settled, declined, hookFaults>>

\* Entries written with an earlier executable stay recognisable: paths are kept.
RecordTrustedExecutable(p) ==
  LET path == hookProc[p].cmd.exe IN
  /\ At(p, "trust")
  /\ Move(p, "absorb")
  /\ trustedPaths' = IF path = NoPath THEN trustedPaths
                     ELSE [current |-> path, known |-> trustedPaths.known \cup {path}]
  /\ UNCHANGED <<hkplan, hookFile, enablement, absorption, hookManifest, hookLock, settled, declined, hookFaults>>

\* recordAbsorption reads records and file and plans; a projection it cannot make
\* ends the command.
RecordAbsorption(p) ==
  LET c == hookProc[p].cmd
      made == ComputeProjection(hookFile, Records, c, hookProc[p].prior)
  IN
  /\ At(p, "absorb")
  /\ IF CanProject(Records, c)
     THEN /\ hookProc' = [hookProc EXCEPT ![p].at = IF made.absorb.marks THEN "mark" ELSE "work",
                                          ![p].absorb = made.absorb, ![p].begun = Records]
          /\ UNCHANGED hookLock
     ELSE ReleaseHookFileLock(p)
  /\ UNCHANGED <<hkplan, hookFile, recordVars, hookManifest, settled, declined, hookFaults>>

\* Mutant: the marker is written and the disabled hooks are not.
AbsorbAndMarkHooks_MarkerOnly(p) ==
  /\ At(p, "mark")
  /\ absorption' = "marked"
  /\ Move(p, "work")
  /\ UNCHANGED <<hkplan, hookFile, enablement, trustedPaths, hookManifest, hookLock, settled, declined, hookFaults>>

\* Marker and disabled hooks are one transaction; a second marker is refused.
AbsorbAndMarkHooks(p) ==
  /\ At(p, "mark")
  /\ IF absorption # NoMark THEN ReleaseHookFileLock(p) /\ UNCHANGED <<enablement, absorption>>
     ELSE /\ enablement' = Over([h \in hookProc[p].absorb.disable |-> "disabled"], enablement)
          /\ absorption' = "marked"
          /\ Move(p, "work") /\ UNCHANGED hookLock
  /\ UNCHANGED <<hkplan, hookFile, trustedPaths, hookManifest, settled, declined, hookFaults>>

\* Between begin and complete an install writes its manifest, which has no hook row
\* any more; enable and disable write their record.
WriteManifest(p) ==
  /\ At(p, "work") /\ hookProc[p].cmd.op = "install"
  /\ hookManifest' = [there |-> TRUE, ver |-> hookProc[p].cmd.ver, row |-> FALSE]
  /\ Move(p, "complete")
  /\ UNCHANGED <<hkplan, hookFile, recordVars, hookLock, settled, declined, hookFaults>>

SetHookEnablement(p) ==
  LET c == hookProc[p].cmd IN
  /\ At(p, "work") /\ c.op \in {"enable", "disable"}
  /\ IF c.hook \in Catalog(c.ver).hooks
     THEN /\ enablement' = Upserted(enablement, c.hook, IF c.op = "enable" THEN "enabled" ELSE "disabled")
          /\ declined' = IF c.op = "enable" THEN declined \ {c.hook} ELSE declined
          /\ settled' = Unsettled
     ELSE UNCHANGED <<enablement, declined, settled>>
  /\ Move(p, "complete")
  /\ UNCHANGED <<hkplan, hookFile, absorption, trustedPaths, hookManifest, hookLock, hookFaults>>

\* Mutant: complete goes on with the records begin has read.
Complete_FirstRecords(p) ==
  LET c == hookProc[p].cmd
      r == hookProc[p].begun
      made == ComputeProjection(hookFile, r, c, hookProc[p].prior)
  IN
  /\ At(p, "complete")
  /\ IF ~CanProject(r, c) THEN ReleaseHookFileLock(p) /\ UNCHANGED settled
     ELSE IF made.body = hookFile THEN ReleaseHookFileLock(p) /\ settled' = Copy(c)
     ELSE /\ hookProc' = [hookProc EXCEPT ![p].at = "compare", ![p].seen = hookFile,
                                          ![p].body = made.body, ![p].foreign = made.foreign]
          /\ UNCHANGED <<hookLock, settled>>
  /\ UNCHANGED <<hkplan, hookFile, recordVars, hookManifest, declined, hookFaults>>

\* complete reads records and file again: nothing to do, or a body to publish.
Complete(p) ==
  LET c == hookProc[p].cmd
      made == ComputeProjection(hookFile, Records, c, hookProc[p].prior)
  IN
  /\ At(p, "complete")
  /\ IF ~CanProject(Records, c) THEN ReleaseHookFileLock(p) /\ UNCHANGED settled
     ELSE IF made.body = hookFile THEN ReleaseHookFileLock(p) /\ settled' = Copy(c)
     ELSE /\ hookProc' = [hookProc EXCEPT ![p].at = "compare", ![p].seen = hookFile,
                                          ![p].body = made.body, ![p].foreign = made.foreign]
          /\ UNCHANGED <<hookLock, settled>>
  /\ UNCHANGED <<hkplan, hookFile, recordVars, hookManifest, declined, hookFaults>>

\* Mutant: the staged body is published over whatever is there.
EnsureHookFileUnchanged_Trusting(p) ==
  /\ At(p, "compare")
  /\ hookProc' = [hookProc EXCEPT ![p].at = "rename", ![p].edited = FALSE]
  /\ UNCHANGED <<hkplan, hookFile, recordVars, hookManifest, hookLock, settled, declined, hookFaults>>

\* The staged body is published only over the bytes it was computed from.
EnsureHookFileUnchanged(p) ==
  /\ At(p, "compare")
  /\ IF hookFile = hookProc[p].seen
     THEN hookProc' = [hookProc EXCEPT ![p].at = "rename", ![p].edited = FALSE] /\ UNCHANGED hookLock
     ELSE ReleaseHookFileLock(p)
  /\ UNCHANGED <<hkplan, hookFile, recordVars, hookManifest, settled, declined, hookFaults>>

\* An edit between the comparison and the rename is lost.
PublishHookFile(p) ==
  /\ At(p, "rename")
  /\ hookFile' = hookProc[p].body
  /\ settled' = Unsettled
  /\ Move(p, "verify")
  /\ UNCHANGED <<hkplan, recordVars, hookManifest, hookLock, declined, hookFaults>>

\* Reads all again: there must be nothing left to do and no foreign entry changed.
Verify(p) ==
  LET c == hookProc[p].cmd
      again == ComputeProjection(hookFile, Records, c, hookProc[p].prior)
  IN
  /\ At(p, "verify")
  /\ settled' = IF again.body = hookFile /\ again.foreign = hookProc[p].foreign THEN Copy(c) ELSE settled
  /\ ReleaseHookFileLock(p)
  /\ UNCHANGED <<hkplan, hookFile, recordVars, hookManifest, declined, hookFaults>>

\* A process that is stopped leaves its lock file.
HookProcessStops(p) ==
  /\ ~At(p, "idle") /\ hookFaults.stops > 0
  /\ hookFaults' = [hookFaults EXCEPT !.stops = @ - 1]
  /\ Rest(p)
  /\ UNCHANGED <<hkplan, hookFile, recordVars, hookManifest, hookLock, settled, declined>>

\* The message of a refused command: delete the lock file if no process is running.
DeleteStaleLock ==
  /\ hookLock /\ \A p \in hkplan.procs : At(p, "idle")
  /\ hookLock' = FALSE
  /\ UNCHANGED <<hkplan, hookFile, recordVars, hookManifest, hookProc, settled, declined, hookFaults>>

\* The user, or another program, writes the file at any time: an entry of his own is
\* added or taken out, an entry of Loaf's is changed, copied or taken out.
EditHookFile(f) ==
  /\ hookFaults.edits > 0
  /\ f # hookFile
  /\ hookFile' = f
  /\ settled' = Unsettled
  /\ hookFaults' = [hookFaults EXCEPT !.edits = @ - 1]
  /\ hookProc' = [p \in hkplan.procs |-> IF At(p, "idle") THEN Resting ELSE [hookProc[p] EXCEPT !.edited = (@ \/ At(p, "rename"))]]
  /\ UNCHANGED <<hkplan, recordVars, hookManifest, hookLock, declined>>

HookEdits(f) ==
  {Append(f, e) : e \in hkplan.others}
    \cup {RemoveAt(f, i) : i \in DOMAIN f}
    \cup {[f EXCEPT ![i].text = "edited"] : i \in {j \in DOMAIN f : f[j].kind = "hook"}}
    \cup {Append(f, f[i]) : i \in {j \in DOMAIN f : f[j].kind = "hook"}}

HookStep(p) ==
  \/ \E c \in hkplan.cmds : NewHookReconciler(p, c)
  \/ AcquireHookFileLock(p)
  \/ RecordTrustedExecutable(p)
  \/ RecordAbsorption(p)
  \/ AbsorbAndMarkHooks(p)
  \/ WriteManifest(p)
  \/ SetHookEnablement(p)
  \/ Complete(p)
  \/ EnsureHookFileUnchanged(p)
  \/ PublishHookFile(p)
  \/ Verify(p)
  \/ HookProcessStops(p)

HookInit ==
  /\ hkplan \in HookPlans
  /\ hookFile = hkplan.file /\ hookManifest = hkplan.manifest
  /\ enablement = <<>> /\ absorption = NoMark /\ trustedPaths = hkplan.trusted
  /\ hookLock = FALSE /\ hookProc = [p \in hkplan.procs |-> Resting]
  /\ settled = Unsettled /\ declined = hkplan.declined
  /\ hookFaults = [edits |-> hkplan.edits, stops |-> hkplan.stops]

HookNext ==
  \/ \E p \in hkplan.procs : HookStep(p)
  \/ DeleteStaleLock
  \/ \E f \in HookEdits(hookFile) : EditHookFile(f)

HookSpec == HookInit /\ [][HookNext]_hookVars

---------------------------------------------------------------------------
(* Properties. *)

\* The hooks that run are the hooks the user wants. After a reconcile that
\* succeeded, until somebody edits the file or asks for a change, the copy of Loaf
\* that made it diagnoses every hook of its version healthy and none runs twice, under
\* whatever executable it was written; and a hook the user had taken out before there
\* were records is not put back until he enables it, even if the first reconcile is
\* cut short anywhere.
HooksFollowTheUser ==
  /\ settled # Unsettled =>
       \A h \in Catalog(settled.ver).hooks :
         /\ Healthy(Diagnose(settled)[h])
         /\ Cardinality({i \in DOMAIN hookFile : hookFile[i].kind = "hook" /\ hookFile[i].hook = h}) <= 1
  /\ \A i \in DOMAIN hookFile : hookFile[i].kind = "hook" => hookFile[i].hook \notin declined

UserEntries(f) == EntriesAt(f, {i \in DOMAIN f : f[i].kind = "user"})

\* No reconcile loses, changes or reorders an entry that is not Loaf's, unless it was
\* written after the comparison that precedes the rename.
ForeignHooksStay ==
  [][hookFaults'.edits = hookFaults.edits =>
       \/ UserEntries(hookFile') = UserEntries(hookFile)
       \/ \E p \in hkplan.procs : At(p, "rename") /\ hookProc[p].edited]_hookVars
=============================================================================
