----------------------------- MODULE FactClock -----------------------------
(***************************************************************************)
(* The hybrid logical clock of internal/state/fact_hlc.go.  A stamp is a   *)
(* wall-clock reading in milliseconds and a logical counter; stamps are    *)
(* ordered by wall, then by counter.                                       *)
(***************************************************************************)
EXTENDS Naturals

HLC == [wall : Nat, logical : Nat]

\* The zero value HLC{}: what a clock holds before its first reading.
ZeroHLC == [wall |-> 0, logical |-> 0]

\* compareHLC(left, right) < 0
Before(left, right) ==
  \/ left.wall < right.wall
  \/ left.wall = right.wall /\ left.logical < right.logical

\* compareHLC(left, right) <= 0
NotAfter(left, right) == left = right \/ Before(left, right)

Later(left, right) == IF Before(left, right) THEN right ELSE left

\* Mutation of advanceHLC: the tick past the clock's own stamp is forgotten.
advanceHLC_NoTick(clock, now, seen) ==
  Later(Later([wall |-> now, logical |-> 0], clock), seen)

\* The next stamp of a clock that reads the wall clock as now and has seen
\* another stamp: the latest of the three, one tick further when that is
\* where the clock already stands.
advanceHLC(clock, now, seen) ==
  LET next == Later(Later([wall |-> now, logical |-> 0], clock), seen)
  IN  IF next = clock
      THEN [wall |-> next.wall, logical |-> next.logical + 1]
      ELSE next
=============================================================================
