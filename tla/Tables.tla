------------------------------- MODULE Tables -------------------------------
(* Tables: how an INSERT resolves a key that is there, one table's rows over      *)
(* another's, and what a query returns in an order.                              *)
EXTENDS Naturals, FiniteSets

\* ON CONFLICT DO NOTHING: the row that is there stays.
Inserted(table, key, row) ==
  [k \in DOMAIN table \cup {key} |-> IF k \in DOMAIN table THEN table[k] ELSE row]

\* ON CONFLICT DO UPDATE: the new row takes its place.
Upserted(table, key, row) ==
  [k \in DOMAIN table \cup {key} |-> IF k = key THEN row ELSE table[k]]

\* A table with the rows another has besides.
Over(table, other) == [k \in DOMAIN table \cup DOMAIN other |-> IF k \in DOMAIN table THEN table[k] ELSE other[k]]

\* ORDER BY: the members of a set as a list, in an order that is total on them.
Listed(S, Before(_, _)) == [n \in 1..Cardinality(S) |-> CHOOSE x \in S : Cardinality({y \in S : Before(y, x)}) = n - 1]
=============================================================================
