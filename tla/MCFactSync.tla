----------------------------- MODULE MCFactSync -----------------------------
(* Small instances of FactSync: two devices, and one or two passes on each. *)
EXTENDS FactSync, TLC

CONSTANTS d1, d2, h1, h2, p1, p2, p3

OwnHostName  == d1 :> {h1} @@ d2 :> {h2}
SameHostName == d1 :> {h1} @@ d2 :> {h1}

OnePassEach  == p1 :> d1 @@ p2 :> d2
TwoOnOne     == p1 :> d1 @@ p2 :> d1 @@ p3 :> d2

\* Fact ids are compared for equality only.
Symmetry == Permutations(FactId)
\* The two passes of TwoOnOne on d1 are alike.
RaceSymmetry == Symmetry \cup Permutations({p1, p2})
=============================================================================
