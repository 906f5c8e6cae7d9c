--------------------------- MODULE MCSyncRecovery ---------------------------
(* Instances of SyncRecovery for TLC. *)
EXTENDS SyncRecovery, TLC

\* Symmetric processes.
Perms == Permutations(Procs)

B(e, h, pr, f, c, i) ==
  [events |-> e, head |-> h, prunes |-> pr, faults |-> f, prepares |-> c, first |-> i]

\* Membership races and faults; history and prunes; the first member of a channel.
SafetyBounds == {B(3, 1, 0, 1, 1, 1), B(2, 2, 1, 0, 1, 1), B(2, 1, 0, 0, 1, 0)}

\* One process, every fault, and every way the relay may move meanwhile.
LiveBounds == {B(3, 2, 1, 1, 1, 1), B(2, 2, 1, 1, 2, 0)}

=============================================================================
