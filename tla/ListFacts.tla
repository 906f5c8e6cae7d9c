----------------------------- MODULE ListFacts -----------------------------
(***************************************************************************)
(* Facts about numbers and lists that the proofs about the stores share.   *)
(* A list here is a sequence of whatever it holds: an envelope names the   *)
(* one before it, so there is no set of all envelopes to type a log with.  *)
(***************************************************************************)
EXTENDS Naturals, Sequences, TLAPS, FiniteSetTheorems, WellFoundedInduction

\* A set of naturals has a least member: the first of a page, of a queue, of
\* the frames from the future.
LEMMA LeastMember ==
  ASSUME NEW S \in SUBSET Nat, S # {}
  PROVE  \E m \in S : \A s \in S : m <= s
<1> DEFINE R == {p \in Nat \X Nat : p[1] < p[2]}
<1>1. IsWellFoundedOn(R, Nat)
  BY NatLessThanWellFounded, Zenon DEF OpToRel
<1> HIDE DEF R
<1>2. PICK m \in S : \A s \in S : ~ (<<s, m>> \in R)
  BY <1>1, WFMin
<1>3. \A s \in S : s \in Nat /\ m \in Nat /\ ~ (s < m)
  BY <1>2 DEF R
<1> QED BY <1>3

\* A set of naturals with an upper bound has a greatest member: the cursor a
\* page leaves behind, the head of a producer.
LEMMA GreatestMember ==
  ASSUME NEW S \in SUBSET Nat, S # {}, NEW n \in Nat, \A s \in S : s <= n
  PROVE  \E m \in S : \A s \in S : s <= m
<1> DEFINE T == {n - s : s \in S}
<1>1. \A s \in S : s \in Nat /\ s <= n /\ n - s \in Nat
  OBVIOUS
<1>2. T \in SUBSET Nat /\ T # {}
  BY <1>1
<1>3. \A s \in S : n - s \in T
  OBVIOUS
<1>4. PICK m \in S : \A t \in T : n - m <= t
  <2>1. PICK x \in T : \A t \in T : x <= t
    <3> HIDE DEF T
    <3> QED BY <1>2, LeastMember
  <2> QED BY <2>1
<1>5. ASSUME NEW s \in S PROVE s <= m
  <2>1. n - m <= n - s
    BY <1>3, <1>4
  <2>2. s \in Nat /\ m \in Nat
    OBVIOUS
  <2> HIDE DEF T
  <2> QED BY <2>1, <2>2
<1> QED BY <1>5

\* A list stays one when an element is added at its end.
LEMMA ListGrows ==
  ASSUME NEW s, NEW x, NEW t, s \in Seq({s[i] : i \in DOMAIN s}), t = Append(s, x)
  PROVE  /\ t \in Seq({t[i] : i \in DOMAIN t})
         /\ Len(s) \in Nat /\ DOMAIN s = 1 .. Len(s)
         /\ Len(t) = Len(s) + 1 /\ DOMAIN t = 1 .. Len(s) + 1
         /\ \A i \in DOMAIN s : t[i] = s[i]
         /\ t[Len(s) + 1] = x
<1> DEFINE S == {s[i] : i \in DOMAIN s} \cup {x}
<1>1. s \in Seq(S)
  OBVIOUS
<1> HIDE DEF S
<1>2. /\ t \in Seq(S)
      /\ Len(s) \in Nat /\ DOMAIN s = 1 .. Len(s)
      /\ Len(t) = Len(s) + 1 /\ DOMAIN t = 1 .. Len(s) + 1
      /\ \A i \in DOMAIN s : t[i] = s[i]
      /\ t[Len(s) + 1] = x
  BY <1>1, x \in S DEF S
<1>3. t \in Seq({t[i] : i \in DOMAIN t})
  BY <1>2
<1> QED BY <1>2, <1>3

\* A list stays one when its elements are replaced in place.
LEMMA ListReplaced ==
  ASSUME NEW s, NEW t, s \in Seq({s[i] : i \in DOMAIN s}),
         t = [i \in DOMAIN s |-> t[i]]
  PROVE  /\ t \in Seq({t[i] : i \in DOMAIN t})
         /\ Len(t) = Len(s) /\ DOMAIN t = DOMAIN s
<1>1. Len(s) \in Nat /\ DOMAIN s = 1 .. Len(s)
  OBVIOUS
<1>2. t = [i \in 1 .. Len(s) |-> t[i]]
  BY <1>1
<1>3. DOMAIN t = 1 .. Len(s)
  BY <1>2
<1>4. t \in [1 .. Len(s) -> {t[i] : i \in DOMAIN t}]
  BY <1>2, <1>3
<1> QED BY <1>1, <1>3, <1>4

\* What holds of zero and of the successor of each number below n holds up to n.
LEMMA CountsUpTo ==
  ASSUME NEW n \in Nat, NEW S, 0 \in S, \A k \in 0 .. n : k \in S /\ k # n => k + 1 \in S
  PROVE  0 .. n \subseteq S
<1> SUFFICES ASSUME (0 .. n) \ S # {} PROVE FALSE
  OBVIOUS
<1>1. PICK k \in (0 .. n) \ S : \A j \in (0 .. n) \ S : k <= j
  BY LeastMember, (0 .. n) \ S \in SUBSET Nat
<1>2. k # 0 /\ k - 1 \in 0 .. n /\ k - 1 # n /\ (k - 1) + 1 = k
  OBVIOUS
<1>3. k - 1 \notin S
  BY <1>2
<1>4. k - 1 \in (0 .. n) \ S /\ ~ (k <= k - 1)
  BY <1>2, <1>3
<1> QED BY <1>1, <1>4

\* The members of a finite set, each at the place that as many members come before
\* it: every place has one, and they are in order.
LEMMA MembersInOrder ==
  ASSUME NEW S, IsFiniteSet(S), NEW R, NEW list,
         \A x \in S : <<x, x>> \notin R,
         \A x, y, z \in S : <<x, y>> \in R /\ <<y, z>> \in R => <<x, z>> \in R,
         \A x, y \in S : x # y => <<x, y>> \in R \/ <<y, x>> \in R,
         \A n \in 1 .. Cardinality(S) : (\E x \in S : Cardinality({y \in S : <<y, x>> \in R}) = n - 1)
            => list[n] \in S /\ Cardinality({y \in S : <<y, list[n]>> \in R}) = n - 1
  PROVE  /\ Cardinality(S) \in Nat
         /\ \A i \in 1 .. Cardinality(S) : list[i] \in S
         /\ \A x \in S : \E i \in 1 .. Cardinality(S) : list[i] = x
         /\ \A i, j \in 1 .. Cardinality(S) : i < j => <<list[i], list[j]>> \in R
<1> DEFINE Below(x) == {y \in S : <<y, x>> \in R}
           N == Cardinality(S)
           rank == [x \in S |-> Cardinality(Below(x))]
<1>1. N \in Nat
  BY FS_CardinalityType
<1>2. ASSUME NEW x \in S PROVE IsFiniteSet(Below(x)) /\ Cardinality(Below(x)) \in Nat /\ Cardinality(Below(x)) < N
  <2>1. Below(x) \in SUBSET S /\ Below(x) # S
    OBVIOUS
  <2>2. IsFiniteSet(Below(x)) /\ Cardinality(Below(x)) <= N /\ (N = Cardinality(Below(x)) => S = Below(x))
    BY <2>1, FS_Subset
  <2>3. Cardinality(Below(x)) \in Nat
    BY <2>2, FS_CardinalityType
  <2> HIDE DEF Below, N
  <2> QED BY <1>1, <2>1, <2>2, <2>3
<1>3. ASSUME NEW x \in S, NEW y \in S, <<x, y>> \in R PROVE Cardinality(Below(x)) < Cardinality(Below(y))
  <2>1. Below(x) \in SUBSET Below(y) /\ x \in Below(y) /\ x \notin Below(x)
    BY <1>3
  <2>2. Cardinality(Below(x)) <= Cardinality(Below(y)) /\ (Cardinality(Below(y)) = Cardinality(Below(x)) => Below(y) = Below(x))
    BY <1>2, <2>1, FS_Subset
  <2>3. Cardinality(Below(x)) \in Nat /\ Cardinality(Below(y)) \in Nat
    BY <1>2
  <2> HIDE DEF Below
  <2> QED BY <2>1, <2>2, <2>3
<1> HIDE DEF Below
<1>4. rank \in [S -> 0 .. N - 1]
  BY <1>1, <1>2
<1>5. \A x, y \in S : rank[x] = rank[y] => x = y
  <2> SUFFICES ASSUME NEW x \in S, NEW y \in S, rank[x] = rank[y], x # y PROVE FALSE
    OBVIOUS
  <2>1. Cardinality(Below(x)) < Cardinality(Below(y)) \/ Cardinality(Below(y)) < Cardinality(Below(x))
    BY <1>3
  <2> QED BY <1>2, <2>1
<1> HIDE DEF rank, N
<1>6. rank \in Injection(S, 0 .. N - 1)
  BY <1>4, <1>5 DEF Injection, IsInjective
<1>7. IsFiniteSet(0 .. N - 1) /\ Cardinality(0 .. N - 1) = N
  <2>1. 0 \in Int /\ N - 1 \in Int
    BY <1>1
  <2> QED BY <1>1, <2>1, FS_Interval
<1>8. rank \in Surjection(S, 0 .. N - 1)
  BY <1>6, <1>7, FS_Injection DEF N
<1>9. \A k \in 0 .. N - 1 : \E x \in S : rank[x] = k
  BY <1>8 DEF Surjection
<1>10. \A n \in 1 .. N : list[n] \in S /\ rank[list[n]] = n - 1
  <2> SUFFICES ASSUME NEW n \in 1 .. N PROVE list[n] \in S /\ rank[list[n]] = n - 1
    OBVIOUS
  <2>1. PICK x \in S : rank[x] = n - 1
    BY <1>1, <1>9
  <2>2. Cardinality({y \in S : <<y, x>> \in R}) = n - 1
    BY <2>1 DEF rank, Below
  <2>3. list[n] \in S /\ Cardinality({y \in S : <<y, list[n]>> \in R}) = n - 1
    BY <2>2 DEF N
  <2> QED BY <2>3 DEF rank, Below
<1>11. ASSUME NEW x \in S PROVE \E i \in 1 .. N : list[i] = x
  <2>1. rank[x] \in 0 .. N - 1 /\ rank[x] + 1 \in 1 .. N /\ rank[x] + 1 - 1 = rank[x]
    BY <1>1, <1>4
  <2>2. list[rank[x] + 1] \in S /\ rank[list[rank[x] + 1]] = rank[x]
    BY <1>10, <2>1
  <2> QED BY <1>5, <2>1, <2>2
<1>12. ASSUME NEW i \in 1 .. N, NEW j \in 1 .. N, i < j PROVE <<list[i], list[j]>> \in R
  <2>1. /\ list[i] \in S /\ list[j] \in S /\ rank[list[i]] = i - 1 /\ rank[list[j]] = j - 1
    BY <1>10
  <2>2. list[i] # list[j]
    BY <1>1, <1>12, <2>1
  <2>3. ~ (<<list[j], list[i]>> \in R)
    <3> SUFFICES ASSUME <<list[j], list[i]>> \in R PROVE FALSE
      OBVIOUS
    <3>1. rank[list[j]] < rank[list[i]]
      BY <1>3, <2>1 DEF rank
    <3> QED BY <1>1, <1>12, <2>1, <3>1
  <2> QED BY <2>1, <2>2, <2>3
<1> QED BY <1>1, <1>10, <1>11, <1>12 DEF N

=============================================================================
