----------------------------- MODULE MCFactStore -----------------------------
(* A small instance of FactStore: facts travel in any order, to any device. *)
EXTENDS FactStore, TLC

CONSTANTS d1, d2, h1, h2

\* Two hosts share a name, and d1 also writes under a second one.
SharedHostName == d1 :> {h1, h2} @@ d2 :> {h1}

\* Fact ids are compared for equality only.
Symmetry == Permutations(FactId)
=============================================================================
