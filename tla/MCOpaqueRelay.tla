---------------------------- MODULE MCOpaqueRelay ----------------------------
(* Small instances of OpaqueRelay. *)
EXTENDS OpaqueRelay, TLC

\* Credentials, facts and nonces are compared for equality only.
Symmetry == Permutations(Credential) \cup Permutations(Fact) \cup Permutations(Nonce)
\* Members come and go; members make progress and are pruned; the inventory is
\* read while members come and go.
SmallBounds ==
  { [envs |-> 2, ephemeral |-> {2}, operations |-> {}, arrivals |-> 3,
     memberships |-> 4, prunes |-> 0],
    [envs |-> 2, ephemeral |-> {}, operations |-> {"progress"}, arrivals |-> 3,
     memberships |-> 2, prunes |-> 2],
    [envs |-> 3, ephemeral |-> {}, operations |-> {"inventory"}, arrivals |-> 2,
     memberships |-> 4, prunes |-> 0] }

=============================================================================
