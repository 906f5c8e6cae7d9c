---------------------------- MODULE MCSyncStore ----------------------------
(* Instances of SyncStore: two processes on a store, a chain and pages of two, *)
(* a clock that runs ahead, members that come and go, and candidates and       *)
(* transitions that hold up the others.                                        *)
EXTENDS SyncStore, TLC

CONSTANTS p1, p2

OnePass == [e \in Env |-> {p1}]
TwoOnFirst == [e \in Env |-> IF e = 1 THEN {p1, p2} ELSE {p1}]

Agreeing == [e \in Env |-> 0]
FirstAhead == [e \in Env |-> IF e = 1 THEN 2 ELSE 0]

Everyone == [e \in Env |-> "in"]
OnlyFirst == [e \in Env |-> IF e = 1 THEN "in" ELSE "out"]
Never == [e \in Env |-> 0]
FirstSoon == [e \in Env |-> IF e = 1 THEN 1 ELSE 0]

OneFact == [e \in Env |-> 1]
OneAndNone == [e \in Env |-> IF e = 1 THEN 1 ELSE 0]
TwoAndNone == [e \in Env |-> IF e = 1 THEN 2 ELSE 0]

Still == [e \in Env |-> {}]
Watching == [e \in Env |-> {"observe"}]
Joining == [e \in Env |-> IF e = 1 THEN {"prune"} ELSE {"register", "terminal"}]
Leaving == [e \in Env |-> IF e = 1 THEN {"retire"} ELSE {"reinstall", "terminal"}]
Holding == [e \in Env |-> IF e = 1 THEN {}
                          ELSE {"register", "transition", "prunes", "terminal", "discard"}]

\* Two processes on the first store.
TwoPasses == [passes |-> TwoOnFirst, facts |-> OneFact, page |-> 1, nonce |-> 1,
              offset |-> Agreeing, time |-> 0, lastWrite |-> 0,
              members |-> Everyone, expires |-> Never, moves |-> Still]
\* A chain of two facts and pages of two frames.
Chain == [passes |-> OnePass, facts |-> TwoAndNone, page |-> 2, nonce |-> 2,
          offset |-> Agreeing, time |-> 0, lastWrite |-> 0,
          members |-> Everyone, expires |-> Never, moves |-> Still]
\* The first fact is from the future of the other store, which quarantines it
\* and appends its own after it has applied it.
Ahead == [passes |-> OnePass, facts |-> OneFact, page |-> 1, nonce |-> 2,
          offset |-> FirstAhead, time |-> 1, lastWrite |-> 1,
          members |-> Everyone, expires |-> Never, moves |-> Watching]
\* The second environment comes late, to a channel with pruned arrivals, or the
\* only writer is retired.
Late == [passes |-> OnePass, facts |-> TwoAndNone, page |-> 2, nonce |-> 1,
         offset |-> Agreeing, time |-> 0, lastWrite |-> 0, members |-> OnlyFirst,
         expires |-> Never, moves |-> Joining]
Retiring == [passes |-> OnePass, facts |-> OneAndNone, page |-> 1, nonce |-> 0,
             offset |-> Agreeing, time |-> 0, lastWrite |-> 0, members |-> Everyone,
             expires |-> Never, moves |-> Leaving]
\* The writer expires, and candidates and transitions come and go.
Held == [passes |-> OnePass, facts |-> OneAndNone, page |-> 1, nonce |-> 0,
         offset |-> Agreeing, time |-> 1, lastWrite |-> 0, members |-> OnlyFirst,
         expires |-> FirstSoon,
         moves |-> Holding]

SafetyBounds == {TwoPasses, Chain, Ahead, Late, Retiring, Held}

Symmetry == Permutations({p1, p2})
=============================================================================
