---------------------------- MODULE MCRelayAccess ----------------------------
(* Small instances of RelayAccess. *)
EXTENDS RelayAccess, TLC

\* Accounts, names, projects and requests are compared for equality only.
Symmetry == Permutations(Account) \cup Permutations(Name)
              \cup Permutations(Project) \cup Permutations(Client)
=============================================================================
