---------------------------- MODULE MachineProofs ----------------------------
(***************************************************************************)
(* What the commands of one machine guarantee, however many processes of    *)
(* this and of older versions run them, and wherever they stop.             *)
(*                                                                         *)
(* The databases of a project, whatever the first command finds: HomeInv is *)
(* inductive, every database is sound, and what is about to be published or *)
(* upgraded still deserves it.                                              *)
(*                                                                         *)
(* What is installed for a harness, whatever the user edits in between:     *)
(* InstallInv is inductive, a process has in its hands, and is about to     *)
(* overwrite, nothing of the user's that it could have told apart.          *)
(*                                                                         *)
(* The tasks and intents that are absorbed into issues: Artifacts.          *)
(*                                                                         *)
(* The hooks file of a harness, whoever reconciles it and whoever edits it  *)
(* in between: HookInv is inductive, a command about to publish holds the   *)
(* lock and a body with the user's entries of the file it was computed from.*)
(***************************************************************************)
EXTENDS StateHome, HostInstall, Artifacts, HookReconcile,
        FiniteSetTheorems, FunctionTheorems, ListFacts

HomeTyped ==
  /\ homePlan \in HomePlans
  /\ DOMAIN homeProc = homePlan.procs
  /\ \A p \in homePlan.procs : "at" \in DOMAIN homeProc[p]

\* What is ready to be published is a database; what is about to be upgraded is there.
HomePrepared ==
  \A p \in homePlan.procs :
    /\ HomeAt(p, "publish") => DatabaseSound(homeProc[p].saw)
    /\ HomeAt(p, "revalidate") \/ HomeAt(p, "apply") => global.there

HomeInv ==
  /\ HomeTyped
  /\ DatabaseSound(global)
  /\ DatabaseSound(legacy)
  /\ CommittedEntriesStay
  /\ HomePrepared

----------------------------------------------------------------------------
(* Databases. *)

\* The members of a finite set of numbers have different ranks, below its size.
LEMMA RanksDistinct ==
  ASSUME NEW S, IsFiniteSet(S), S \subseteq Nat
  PROVE  /\ Cardinality(S) \in Nat
         /\ \A x \in S : Rank(S, x) \in Nat /\ Rank(S, x) < Cardinality(S)
         /\ \A x, y \in S : Rank(S, x) = Rank(S, y) => x = y
<1> DEFINE L(x) == {z \in S : z < x}
<1>1. \A x \in S : L(x) \subseteq S /\ x \notin L(x)
  OBVIOUS
<1>2. \A x \in S : IsFiniteSet(L(x)) /\ Cardinality(L(x)) \in Nat /\ Cardinality(L(x)) < Cardinality(S)
  <2> SUFFICES ASSUME NEW x \in S
               PROVE  IsFiniteSet(L(x)) /\ Cardinality(L(x)) \in Nat /\ Cardinality(L(x)) < Cardinality(S)
    OBVIOUS
  <2>1. IsFiniteSet(L(x)) /\ Cardinality(L(x)) <= Cardinality(S) /\ (Cardinality(L(x)) = Cardinality(S) => L(x) = S)
    BY <1>1, FS_Subset
  <2>2. Cardinality(L(x)) \in Nat /\ Cardinality(S) \in Nat
    BY <2>1, FS_CardinalityType
  <2> HIDE DEF L
  <2> QED BY <1>1, <2>1, <2>2
<1>3. ASSUME NEW x \in S, NEW y \in S, x < y
      PROVE  Cardinality(L(x)) < Cardinality(L(y))
  <2>1. L(x) \subseteq L(y) /\ x \in L(y) /\ x \notin L(x)
    <3>1. x \in Nat /\ y \in Nat /\ \A z \in S : z \in Nat
      OBVIOUS
    <3>2. \A z \in S : z < x => z < y
      BY <3>1, <1>3
    <3>3. ~ (x < x)
      BY <3>1
    <3> QED BY <3>2, <3>3, <1>3, Zenon
  <2>2. Cardinality(L(x)) <= Cardinality(L(y)) /\ (Cardinality(L(x)) = Cardinality(L(y)) => L(x) = L(y))
    BY <2>1, <1>2, FS_Subset
  <2> HIDE DEF L
  <2> QED BY <2>1, <2>2, <1>2
<1>4. Cardinality(S) \in Nat
  BY FS_CardinalityType
<1>5. ASSUME NEW x \in S, NEW y \in S, Cardinality(L(x)) = Cardinality(L(y)) PROVE x = y
  <2>1. x \in Nat /\ y \in Nat
    OBVIOUS
  <2> HIDE DEF L
  <2>2. CASE x < y
    BY <2>2, <1>2, <1>3, <1>5
  <2>3. CASE y < x
    BY <2>3, <1>2, <1>3, <1>5
  <2> QED BY <2>1, <2>2, <2>3
<1>6. \A x \in S : Rank(S, x) = Cardinality(L(x))
  BY DEF Rank
<1> HIDE DEF L
<1> QED BY <1>2, <1>4, <1>5, <1>6

\* The ids of a database's facts.
LEMMA FactIds ==
  ASSUME NEW d
  PROVE  DOMAIN Fold(d) = {d.facts[k].id : k \in DOMAIN d.facts}
BY DEF Fold

\* An entry is logged with its fact, under a number that is free.
LEMMA LoggedSound ==
  ASSUME NEW d, DatabaseSound(d), NEW id \in Nat, CanLog(d, id),
         NEW e, e = Logged(d, id)
  PROVE  DatabaseSound(e) /\ DOMAIN e.rows = DOMAIN d.rows \cup {id} /\ e.there
<1> DEFINE n == NextSeq(d.clock, Host)
<1>1. n \in Nat
  BY DEF NextSeq, DatabaseSound
<1>2. DOMAIN e.rows = DOMAIN d.rows \cup {id} /\ e.there /\ e.ver = d.ver
  BY DEF WithRow, Logged, CanLog, DatabaseSound
<1>3. IsDatabase(e)
  BY DEF Logged, DatabaseSound, IsDatabase
<1>4. DOMAIN e.rows \subseteq Nat /\ IsFiniteSet(DOMAIN e.rows)
  BY <1>2, FS_AddElement DEF DatabaseSound
<1>5. CASE d.ver = "old"
  <2>1. e.facts = d.facts /\ e.clock = d.clock
    BY <1>5 DEF Logged, DatabaseSound
  <2>2. Fold(e) = Fold(d)
    BY <2>1 DEF Fold
  <2> QED BY <1>2, <1>3, <1>4, <1>5, <2>1, <2>2 DEF DatabaseSound, NumbersFree
<1>6. CASE d.ver = "current"
  <2>1. /\ DOMAIN e.facts = DOMAIN d.facts \cup {<<Host, n>>}
        /\ e.facts[<<Host, n>>].id = id
        /\ \A k \in DOMAIN d.facts : k # <<Host, n>> => e.facts[k] = d.facts[k]
        /\ DOMAIN e.clock = DOMAIN d.clock \cup {Host} /\ e.clock[Host] = n + 1
        /\ \A h \in DOMAIN d.clock : h # Host => e.clock[h] = d.clock[h]
    BY <1>6 DEF WithRow, Logged, DatabaseSound
  <2>2. <<Host, n>> \notin DOMAIN d.facts
    BY <1>6 DEF CanLog
  <2>3. DOMAIN Fold(e) = DOMAIN Fold(d) \cup {id}
    <3> HIDE DEF n
    <3> DEFINE I == {d.facts[k].id : k \in DOMAIN d.facts}
    <3>1. \A k \in DOMAIN e.facts : e.facts[k].id \in I \cup {id}
      BY <2>1
    <3>2. \A k \in DOMAIN d.facts : k \in DOMAIN e.facts /\ e.facts[k].id = d.facts[k].id
      BY <2>1, <2>2
    <3>3. \E k \in DOMAIN e.facts : e.facts[k].id = id
      BY <2>1
    <3>4. {e.facts[k].id : k \in DOMAIN e.facts} = I \cup {id}
      BY <3>1, <3>2, <3>3
    <3>5. DOMAIN Fold(e) = {e.facts[k].id : k \in DOMAIN e.facts}
      BY DEF Fold
    <3>6. DOMAIN Fold(d) = I
      BY Zenon, FactIds
    <3> HIDE DEF I
    <3> QED BY <3>4, <3>5, <3>6
  <2>4. DOMAIN Fold(e) \subseteq Nat /\ IsFiniteSet(DOMAIN Fold(e))
    BY <2>3, FS_AddElement DEF DatabaseSound
  <2>5. \A h : NextSeq(e.clock, h) = IF h = Host THEN n + 1 ELSE NextSeq(d.clock, h)
    <3> QED BY <2>1 DEF NextSeq
  <2>6. \A k \in DOMAIN e.facts : k = <<k[1], k[2]>> /\ k[2] \in Nat
    <3> QED BY <1>1, <2>1 DEF DatabaseSound
  <2>7. NumbersFree(e)
    <3> SUFFICES ASSUME NEW k \in DOMAIN e.facts PROVE k[2] < NextSeq(e.clock, k[1])
      BY DEF NumbersFree
    <3>1. CASE k = <<Host, n>>
      BY <3>1, <1>1, <2>5
    <3>2. CASE k \in DOMAIN d.facts
      <4>1. k[2] < NextSeq(d.clock, k[1]) /\ k[2] \in Nat
        BY <3>2 DEF DatabaseSound, NumbersFree
      <4> QED BY <4>1, <1>1, <2>5
    <3> QED BY <3>1, <3>2, <2>1
  <2>8. \A h \in DOMAIN e.clock : e.clock[h] \in Nat
    <3> QED BY <1>1, <2>1 DEF DatabaseSound
  <2> QED BY <1>2, <1>3, <1>4, <1>6, <2>3, <2>4, <2>6, <2>7, <2>8 DEF DatabaseSound
<1>7. d.ver = "current" \/ d.ver = "old"
  BY DEF CanLog, DatabaseSound
<1> QED BY <1>2, <1>5, <1>6, <1>7


\* A database is a record, also with another version.
LEMMA Versioned ==
  ASSUME NEW d, IsDatabase(d), NEW v, NEW c, c = [d EXCEPT !.ver = v]
  PROVE  /\ IsDatabase(c) /\ Fold(c) = Fold(d)
         /\ c.ver = v /\ c.there = d.there /\ c.rows = d.rows /\ c.facts = d.facts /\ c.clock = d.clock
<1>1. IsDatabase(c)
  BY DEF IsDatabase
<1>2. c.ver = v /\ c.there = d.there /\ c.rows = d.rows /\ c.facts = d.facts /\ c.clock = d.clock
  BY DEF IsDatabase
<1>3. Fold(c) = Fold(d)
  BY <1>2 DEF Fold
<1> QED BY <1>1, <1>2, <1>3

\* A database whose entries may lack facts, as one without facts or one that rows
\* have just been copied into.
Unfolded(d) == [d EXCEPT !.ver = "old"]

\* The backfill gives an entry without a fact the next numbers of the legacy
\* environment, and leaves the facts there are.
LEMMA BackfilledSound ==
  ASSUME NEW d, DatabaseSound(Unfolded(d)), d.there,
         IsDatabase(d), NEW e, e = WithBackfilledFacts(d),
         NEW c, c = [e EXCEPT !.ver = "current"]
  PROVE  /\ DatabaseSound(c)
         /\ e.rows = d.rows /\ e.there /\ e.ver = d.ver
         /\ IsDatabase(e)
<1> DEFINE bare == DOMAIN d.rows \ DOMAIN Fold(d)
           base == NextSeq(d.clock, LegacyHost)
           number(id) == <<LegacyHost, base + Rank(bare, id)>>
           keeper(k) == CHOOSE id \in bare : number(id) = k
           u == Unfolded(d)
<1>1. /\ Fold(u) = Fold(d) /\ u.rows = d.rows /\ u.facts = d.facts /\ u.clock = d.clock
  BY Versioned DEF Unfolded
<1>2. /\ DOMAIN d.rows \subseteq Nat /\ IsFiniteSet(DOMAIN d.rows)
      /\ DOMAIN Fold(d) \subseteq Nat /\ IsFiniteSet(DOMAIN Fold(d))
      /\ \A k \in DOMAIN d.facts : k = <<k[1], k[2]>> /\ k[2] \in Nat /\ k[2] < NextSeq(d.clock, k[1])
      /\ \A h \in DOMAIN d.clock : d.clock[h] \in Nat
  BY <1>1 DEF DatabaseSound, NumbersFree
<1>3. bare \subseteq Nat /\ IsFiniteSet(bare)
  BY <1>2, FS_Subset
<1>4. base \in Nat
  BY <1>2 DEF NextSeq
<1>5. /\ e.facts = Over([k \in {number(id) : id \in bare} |-> [id |-> keeper(k), text |-> d.rows[keeper(k)]]], d.facts)
      /\ e.clock = IF bare = {} THEN d.clock ELSE WithRow(d.clock, LegacyHost, base + Cardinality(bare))
      /\ e.rows = d.rows /\ e.there = d.there /\ e.ver = d.ver
      /\ IsDatabase(e)
  BY DEF WithBackfilledFacts, IsDatabase
<1>6. /\ Cardinality(bare) \in Nat
      /\ \A id \in bare : Rank(bare, id) \in Nat /\ Rank(bare, id) < Cardinality(bare)
      /\ \A x, y \in bare : Rank(bare, x) = Rank(bare, y) => x = y
  <2> HIDE DEF bare
  <2> QED BY <1>3, RanksDistinct
<1>7. \A id \in bare : keeper(number(id)) = id
  <2> HIDE DEF bare, base
  <2>1. \A x, y \in bare : number(x) = number(y) => x = y
    BY <1>4, <1>6
  <2> QED BY <2>1
<1>8. /\ DOMAIN e.facts = {number(id) : id \in bare} \cup DOMAIN d.facts
      /\ \A id \in bare : e.facts[number(id)].id = id
      /\ \A k \in DOMAIN d.facts : k \notin {number(id) : id \in bare} => e.facts[k] = d.facts[k]
  <2> HIDE DEF bare, base, keeper, number
  <2> QED BY <1>5, <1>7 DEF Over
<1>9. \A k \in DOMAIN d.facts : k \notin {number(id) : id \in bare}
  <2> SUFFICES ASSUME NEW k \in DOMAIN d.facts, NEW id \in bare, k = number(id) PROVE FALSE
    OBVIOUS
  <2> HIDE DEF bare
  <2>1. k[2] < base /\ k[2] = base + Rank(bare, id)
    BY <1>2
  <2> HIDE DEF base
  <2> QED BY <2>1, <1>4, <1>6
<1> HIDE DEF keeper
<1>10. DOMAIN Fold(e) = DOMAIN Fold(d) \cup bare
  <2> DEFINE I == {d.facts[k].id : k \in DOMAIN d.facts}
  <2> HIDE DEF bare, number
  <2>1. {e.facts[k].id : k \in DOMAIN e.facts} = I \cup bare
    BY <1>8, <1>9
  <2>2. DOMAIN Fold(e) = {e.facts[k].id : k \in DOMAIN e.facts}
    BY DEF Fold
  <2>3. DOMAIN Fold(d) = I
    BY Zenon, FactIds
  <2> HIDE DEF I
  <2> QED BY <2>1, <2>2, <2>3
<1>11. DOMAIN Fold(e) \subseteq Nat /\ IsFiniteSet(DOMAIN Fold(e)) /\ DOMAIN e.rows \subseteq DOMAIN Fold(e)
  <2>1. IsFiniteSet(DOMAIN Fold(d) \cup bare)
    BY <1>2, <1>3, FS_Union
  <2> QED BY <2>1, <1>2, <1>3, <1>5, <1>10
<1>12. \A h \in DOMAIN e.clock : e.clock[h] \in Nat
  <2> HIDE DEF bare, base
  <2> QED BY <1>2, <1>4, <1>5, <1>6 DEF WithRow
<1>13. /\ \A h : h # LegacyHost => NextSeq(e.clock, h) = NextSeq(d.clock, h)
       /\ NextSeq(e.clock, LegacyHost) = base + Cardinality(bare)
  <2>1. CASE bare = {}
    <3>1. Cardinality(bare) = 0
      BY <2>1, FS_EmptySet
    <3> QED BY <2>1, <3>1, <1>4, <1>5
  <2>2. CASE bare # {}
    <3> HIDE DEF bare, base
    <3> QED BY <2>2, <1>5 DEF WithRow, NextSeq
  <2> QED BY <2>1, <2>2
<1>14. \A k \in DOMAIN e.facts : k = <<k[1], k[2]>> /\ k[2] \in Nat /\ k[2] < NextSeq(e.clock, k[1])
  <2> SUFFICES ASSUME NEW k \in DOMAIN e.facts
               PROVE  k = <<k[1], k[2]>> /\ k[2] \in Nat /\ k[2] < NextSeq(e.clock, k[1])
    OBVIOUS
  <2> HIDE DEF bare
  <2>1. CASE k \in DOMAIN d.facts
    <3>1. k = <<k[1], k[2]>> /\ k[2] \in Nat /\ k[2] < NextSeq(d.clock, k[1])
      BY <1>2, <2>1
    <3>2. CASE k[1] = LegacyHost
      <4>1. k[2] < base
        BY <3>1, <3>2
      <4> HIDE DEF base
      <4> QED BY <3>1, <3>2, <4>1, <1>4, <1>6, <1>13
    <3>3. CASE k[1] # LegacyHost
      BY <3>1, <3>3, <1>13
    <3> QED BY <3>2, <3>3
  <2>2. CASE k \in {number(id) : id \in bare}
    <3> HIDE DEF base
    <3>1. PICK id \in bare : k = <<LegacyHost, base + Rank(bare, id)>>
      BY <2>2
    <3> QED BY <3>1, <1>4, <1>6, <1>13
  <2> HIDE DEF number
  <2> QED BY <2>1, <2>2, <1>8
<1> HIDE DEF bare, base, number, u
<1>15. /\ IsDatabase(c) /\ Fold(c) = Fold(e)
       /\ c.ver = "current" /\ c.there = e.there /\ c.rows = e.rows /\ c.facts = e.facts /\ c.clock = e.clock
  <2>1. IsDatabase(e)
    BY <1>5
  <2>2. c = [e EXCEPT !.ver = "current"]
    OBVIOUS
  <2>3. IsDatabase(c) /\ Fold(c) = Fold(e)
    BY <2>1, <2>2, Versioned, SMT
  <2> QED BY <2>1, <2>2, <2>3 DEF IsDatabase
<1>17. DatabaseSound(c)
  BY <1>2, <1>5, <1>11, <1>12, <1>14, <1>15 DEF DatabaseSound, NumbersFree
<1> QED BY <1>5, <1>17

\* What a step leaves alone stays sound.
LEMMA SameContent ==
  ASSUME NEW d, DatabaseSound(d), NEW e, IsDatabase(e), e.there = d.there, e.ver = d.ver,
         DOMAIN e.rows = DOMAIN d.rows, e.facts = d.facts, e.clock = d.clock
  PROVE  DatabaseSound(e)
<1>1. Fold(e) = Fold(d)
  BY DEF Fold
<1> QED BY <1>1 DEF DatabaseSound, NumbersFree

\* A sound database taken for one of the older schema is sound, which has fewer demands.
LEMMA UnfoldedSound ==
  ASSUME NEW d, DatabaseSound(d), d.there, NEW u, u = Unfolded(d)
  PROVE  DatabaseSound(u)
<1>1. IsDatabase(d)
  BY DEF DatabaseSound
<1>2. u = [d EXCEPT !.ver = "old"]
  BY DEF Unfolded
<1>3. IsDatabase(u) /\ Fold(u) = Fold(d)
  BY <1>1, <1>2, Versioned
<1>4. u.ver = "old" /\ u.there = d.there /\ u.rows = d.rows /\ u.facts = d.facts /\ u.clock = d.clock
  BY <1>1, <1>2 DEF IsDatabase
<1> QED BY <1>3, <1>4 DEF DatabaseSound, NumbersFree

\* A migration gives every entry a fact.
LEMMA UpgradedSound ==
  ASSUME NEW d, DatabaseSound(d), d.there, NEW e, e = Upgraded(d)
  PROVE  DatabaseSound(e) /\ e.rows = d.rows /\ e.there
<1>1. IsDatabase(d) /\ DatabaseSound(Unfolded(d))
  BY UnfoldedSound DEF DatabaseSound
<1>2. CASE d.ver = "current"
  BY <1>2 DEF Upgraded
<1>3. CASE d.ver # "current"
  <2> DEFINE b == WithBackfilledFacts(d)
             c == [b EXCEPT !.ver = "current"]
  <2>1. DatabaseSound(c) /\ b.rows = d.rows /\ b.there /\ IsDatabase(b)
    <3> HIDE DEF b
    <3>1. b = WithBackfilledFacts(d)
      BY DEF b
    <3>2. c = [b EXCEPT !.ver = "current"]
      OBVIOUS
    <3> HIDE DEF c
    <3> QED BY <1>1, <3>1, <3>2, BackfilledSound
  <2>2. e = [b EXCEPT !.ver = "current", !.origins = DOMAIN d.rows]
    BY <1>3 DEF Upgraded
  <2> HIDE DEF b
  <2>3. IsDatabase(e) /\ e.there = c.there /\ e.ver = c.ver /\ e.rows = c.rows /\ e.facts = c.facts /\ e.clock = c.clock
        /\ c.rows = d.rows /\ c.there
    BY <2>1, <2>2 DEF IsDatabase
  <2> HIDE DEF c
  <2> QED BY <2>1, <2>3, SameContent
<1> QED BY <1>2, <1>3

\* Merging copies what the other database has besides, and its clocks past all of it.
LEMMA CopySound ==
  ASSUME NEW g, DatabaseSound(g), g.there, NEW l, DatabaseSound(l),
         NEW c, c = CopyRows(g, l)
  PROVE  /\ DatabaseSound(Unfolded(c)) /\ IsDatabase(c) /\ c.there /\ c.ver = g.ver
         /\ DOMAIN c.rows = DOMAIN g.rows \cup DOMAIN l.rows
<1> DEFINE facts == Over(g.facts, l.facts)
           clock == Over(g.clock, l.clock)
           of(e) == {k \in DOMAIN facts : k[1] = e}
           numbers(e) == {k[2] : k \in of(e)}
           envs == {k[1] : k \in DOMAIN facts}
<1>1. /\ IsDatabase(c) /\ c.there /\ c.ver = g.ver /\ c.rows = Over(g.rows, l.rows) /\ c.facts = facts
      /\ c.clock = ReconcileClocks(clock, facts)
  BY DEF CopyRows, DatabaseSound, IsDatabase
<1>2. DOMAIN c.rows = DOMAIN g.rows \cup DOMAIN l.rows /\ DOMAIN facts = DOMAIN g.facts \cup DOMAIN l.facts
  BY <1>1 DEF Over
<1>3. \A k \in DOMAIN facts : facts[k] = (IF k \in DOMAIN g.facts THEN g.facts[k] ELSE l.facts[k])
  BY DEF Over
<1>4. \A k \in DOMAIN facts : facts[k].id \in DOMAIN Fold(g) \cup DOMAIN Fold(l)
  <2> SUFFICES ASSUME NEW k \in DOMAIN facts PROVE facts[k].id \in DOMAIN Fold(g) \cup DOMAIN Fold(l)
    OBVIOUS
  <2> HIDE DEF facts
  <2>1. CASE k \in DOMAIN g.facts
    BY <2>1, <1>3 DEF Fold
  <2>2. CASE k \notin DOMAIN g.facts
    BY <2>2, <1>2, <1>3 DEF Fold
  <2> QED BY <2>1, <2>2
<1>5. DOMAIN Fold(c) \subseteq Nat /\ IsFiniteSet(DOMAIN Fold(c))
  <2>1. DOMAIN Fold(c) = {facts[k].id : k \in DOMAIN facts}
    BY <1>1 DEF Fold
  <2>2. IsFiniteSet(DOMAIN Fold(g) \cup DOMAIN Fold(l)) /\ DOMAIN Fold(g) \cup DOMAIN Fold(l) \subseteq Nat
    BY FS_Union DEF DatabaseSound
  <2>3. DOMAIN Fold(c) \subseteq DOMAIN Fold(g) \cup DOMAIN Fold(l)
    <3> HIDE DEF facts
    <3> QED BY <2>1, <1>4
  <2> QED BY <2>2, <2>3, FS_Subset
<1>6. DOMAIN c.rows \subseteq Nat /\ IsFiniteSet(DOMAIN c.rows)
  <2>1. IsFiniteSet(DOMAIN g.rows \cup DOMAIN l.rows) /\ DOMAIN g.rows \cup DOMAIN l.rows \subseteq Nat
    BY FS_Union DEF DatabaseSound
  <2> QED BY <2>1, <1>2
<1>7. \A k \in DOMAIN facts : k = <<k[1], k[2]>> /\ k[2] \in Nat
  BY <1>2 DEF DatabaseSound
<1>8. \A e \in DOMAIN clock : clock[e] \in Nat
  BY DEF Over, DatabaseSound
<1>9. \A e \in envs : Max(numbers(e)) \in Nat /\ \A n \in numbers(e) : n <= Max(numbers(e))
  <2> SUFFICES ASSUME NEW e \in envs
               PROVE  Max(numbers(e)) \in Nat /\ \A n \in numbers(e) : n <= Max(numbers(e))
    OBVIOUS
  <2> DEFINE bound == NextSeq(g.clock, e) + NextSeq(l.clock, e)
             N == numbers(e)
  <2>1. NextSeq(g.clock, e) \in Nat /\ NextSeq(l.clock, e) \in Nat
    BY DEF NextSeq, DatabaseSound
  <2>2. bound \in Nat
    BY <2>1
  <2>3. \A k \in of(e) : k[2] \in Nat /\ k[2] <= bound
    <3> SUFFICES ASSUME NEW k \in of(e) PROVE k[2] \in Nat /\ k[2] <= bound
      OBVIOUS
    <3>0. k \in DOMAIN facts /\ k[1] = e /\ k[2] \in Nat
      BY <1>7
    <3>1. k[2] < NextSeq(g.clock, e) \/ k[2] < NextSeq(l.clock, e)
      BY <3>0, <1>2 DEF DatabaseSound, NumbersFree
    <3> QED BY <3>0, <3>1, <2>1
  <2>4. N \in SUBSET Nat /\ N # {} /\ \A n \in N : n <= bound
    <3> HIDE DEF bound, facts
    <3> QED BY <2>3
  <2> HIDE DEF N, bound
  <2>5. \E m \in N : \A n \in N : n <= m
    BY <2>2, <2>4, GreatestMember
  <2>6. \E m \in N : \A n \in N : m >= n
    BY <2>4, <2>5
  <2>7. Max(N) \in N /\ \A n \in N : Max(N) >= n
    BY <2>6 DEF Max
  <2>8. Max(N) \in Nat /\ \A n \in N : n <= Max(N)
    BY <2>4, <2>7
  <2> QED BY <2>8 DEF N
<1>10. \A e \in envs :
         /\ e \in DOMAIN c.clock /\ c.clock[e] \in Nat
         /\ \A n \in numbers(e) : n < c.clock[e]
  <2> SUFFICES ASSUME NEW e \in envs
               PROVE  e \in DOMAIN c.clock /\ c.clock[e] \in Nat /\ \A n \in numbers(e) : n < c.clock[e]
    OBVIOUS
  <2> DEFINE a == 1 + Max(numbers(e))
             b == NextSeq(clock, e)
             P == {a, b}
  <2>1. b \in Nat
    BY <1>8 DEF NextSeq
  <2>2. a \in Nat /\ \A n \in numbers(e) : n \in Nat /\ n < a
    <3>1. Max(numbers(e)) \in Nat /\ \A n \in numbers(e) : n <= Max(numbers(e))
      BY <1>9
    <3>2. \A n \in numbers(e) : n \in Nat
      BY <1>7
    <3> DEFINE N == numbers(e)
               m == Max(N)
    <3>3. m \in Nat /\ \A n \in N : n \in Nat /\ n <= m
      BY <3>1, <3>2
    <3>4. a = 1 + m
      OBVIOUS
    <3> HIDE DEF m, a
    <3>5. a \in Nat /\ \A n \in N : n \in Nat /\ n < a
      <4> HIDE DEF N
      <4> QED BY <3>3, <3>4
    <3> QED BY <3>5
  <2>3. e \in DOMAIN c.clock /\ c.clock[e] = Max(P)
    BY <1>1 DEF ReconcileClocks
  <2> DEFINE N == numbers(e)
  <2>4. a \in Nat /\ \A n \in N : n \in Nat /\ n < a
    BY <2>2
  <2> HIDE DEF a, b, N
  <2>5. \E m \in P : \A n \in P : m >= n
    BY <2>1, <2>4
  <2>6. Max(P) \in P /\ \A n \in P : Max(P) >= n
    BY <2>5 DEF Max
  <2>7. Max(P) \in Nat /\ a <= Max(P)
    BY <2>1, <2>4, <2>6
  <2>8. \A n \in N : n < Max(P)
    <3> HIDE DEF P
    <3> QED BY <2>4, <2>7
  <2> QED BY <2>3, <2>7, <2>8 DEF N
<1>11. \A e \in DOMAIN c.clock : c.clock[e] \in Nat
  <2> SUFFICES ASSUME NEW e \in DOMAIN c.clock PROVE c.clock[e] \in Nat
    OBVIOUS
  <2>1. CASE e \in envs
    BY <2>1, <1>10
  <2>2. CASE e \notin envs
    BY <2>2, <1>1, <1>8 DEF ReconcileClocks
  <2> QED BY <2>1, <2>2
<1>12. NumbersFree(c)
  <2> SUFFICES ASSUME NEW k \in DOMAIN facts PROVE k[2] < NextSeq(c.clock, k[1])
    BY <1>1 DEF NumbersFree
  <2>1. k[1] \in envs /\ k[2] \in numbers(k[1])
    OBVIOUS
  <2> QED BY <2>1, <1>10 DEF NextSeq
<1> DEFINE u == Unfolded(c)
<1>13. /\ IsDatabase(u) /\ Fold(u) = Fold(c)
       /\ u.ver = "old" /\ u.there = c.there /\ u.rows = c.rows /\ u.facts = c.facts /\ u.clock = c.clock
  <2>1. u = [c EXCEPT !.ver = "old"]
    BY DEF Unfolded
  <2> HIDE DEF u
  <2>2. IsDatabase(c)
    BY <1>1
  <2> QED BY <2>1, <2>2, Versioned
<1> HIDE DEF u
<1>14. DatabaseSound(u)
  BY <1>1, <1>5, <1>6, <1>7, <1>11, <1>12, <1>13 DEF DatabaseSound, NumbersFree
<1> QED BY <1>1, <1>2, <1>14 DEF u

\* mergeProjectDatabase makes a sound database of two sound ones that agree.
LEMMA MergedSound ==
  ASSUME NEW g, DatabaseSound(g), g.ver = "current", NEW l, DatabaseSound(l), NEW e, e = Merged(g, l)
  PROVE  DatabaseSound(e) /\ e.there /\ DOMAIN e.rows = DOMAIN g.rows \cup DOMAIN l.rows
<1> DEFINE c == CopyRows(g, l)
           b == WithBackfilledFacts(c)
           v == [b EXCEPT !.ver = "current"]
<1>1. /\ DatabaseSound(Unfolded(c)) /\ IsDatabase(c) /\ c.there /\ c.ver = "current"
      /\ DOMAIN c.rows = DOMAIN g.rows \cup DOMAIN l.rows
  <2> HIDE DEF c
  <2>1. g.there /\ c = CopyRows(g, l)
    BY DEF DatabaseSound, c
  <2> QED BY <2>1, CopySound
<1> HIDE DEF c
<1>2. DatabaseSound(v) /\ b.rows = c.rows /\ b.there /\ b.ver = "current" /\ IsDatabase(b)
  <2> HIDE DEF b, v
  <2>1. b = WithBackfilledFacts(c) /\ v = [b EXCEPT !.ver = "current"]
    BY DEF b, v
  <2> QED BY <1>1, <2>1, BackfilledSound
<1>3. e = [[b EXCEPT !.project = TRUE] EXCEPT !.index = [b EXCEPT !.project = TRUE].rows]
  BY DEF Merged, Searchable, c
<1> HIDE DEF b
<1>4. /\ IsDatabase(e) /\ e.there = v.there /\ e.ver = v.ver /\ e.rows = v.rows /\ e.facts = v.facts /\ e.clock = v.clock
      /\ v.rows = c.rows /\ v.there
  BY <1>2, <1>3 DEF IsDatabase
<1> HIDE DEF v
<1>5. DatabaseSound(e)
  BY <1>2, <1>4, SameContent
<1> QED BY <1>1, <1>4, <1>5

\* A journal written again from its facts has no fewer entries.
LEMMA FromFactsSound ==
  ASSUME NEW d, DatabaseSound(d), d.ver = "current", ~ FactParity(d), FactParity(FromFacts(d)),
         NEW e, e = FromFacts(d)
  PROVE  DatabaseSound(e) /\ e.there = d.there /\ DOMAIN d.rows \subseteq DOMAIN e.rows
<1>1. d.facts # <<>>
  BY DEF FromFacts
<1> DEFINE rows == [id \in DOMAIN Fold(d) |-> d.facts[Fold(d)[id]].text]
<1>2. e = [d EXCEPT !.rows = rows, !.index = rows]
  BY <1>1 DEF FromFacts
<1>3. DOMAIN rows = DOMAIN Fold(d)
  OBVIOUS
<1> HIDE DEF rows
<1>4. /\ IsDatabase(e) /\ e.there = d.there /\ e.ver = d.ver /\ DOMAIN e.rows = DOMAIN Fold(d)
      /\ e.facts = d.facts /\ e.clock = d.clock
  BY <1>2, <1>3 DEF DatabaseSound, IsDatabase
<1>5. Fold(e) = Fold(d)
  BY <1>4 DEF Fold
<1> QED BY <1>4, <1>5 DEF DatabaseSound, NumbersFree

----------------------------------------------------------------------------
(* The steps. *)

\* The databases that are found are sound (HomeAssumption).
LEMMA HomeInitInv == HomeInit => HomeInv
<1> SUFFICES ASSUME HomeInit PROVE HomeInv
  OBVIOUS
<1>1. DatabaseSound(global) /\ DatabaseSound(legacy)
  BY HomeAssumption DEF HomeInit
<1>2. HomeTyped /\ CommittedEntriesStay /\ HomePrepared
  BY DEF HomeInit, HomeTyped, CommittedEntriesStay, HomePrepared, HomeIdle, HomeAt
<1> QED BY <1>1, <1>2 DEF HomeInv

\* A step of p leaves the other processes as prepared as they were.
LEMMA HomeProcessMoves ==
  ASSUME HomeInv, NEW p \in homePlan.procs, NEW r, homePlan' = homePlan,
         homeProc' = [homeProc EXCEPT ![p] = r], "at" \in DOMAIN r,
         r.at = "publish" => DatabaseSound(r.saw),
         r.at = "revalidate" \/ r.at = "apply" => global'.there,
         global.there => global'.there
  PROVE  HomeTyped' /\ HomePrepared'
<1>1. HomeTyped /\ HomePrepared
  BY DEF HomeInv
<1>2. DOMAIN homeProc' = homePlan.procs /\ homeProc'[p] = r /\ \A q \in homePlan.procs : q # p => homeProc'[q] = homeProc[q]
  BY <1>1 DEF HomeTyped
<1>3. HomeTyped'
  BY <1>1, <1>2 DEF HomeTyped
<1>4. ASSUME NEW q \in homePlan.procs
      PROVE  /\ homeProc'[q].at = "publish" => DatabaseSound(homeProc'[q].saw)
             /\ homeProc'[q].at = "revalidate" \/ homeProc'[q].at = "apply" => global'.there
  <2>1. CASE q = p
    BY <1>2, <2>1
  <2>2. CASE q # p
    BY <1>1, <1>2, <2>2 DEF HomePrepared, HomeAt
  <2> QED BY <2>1, <2>2
<1> QED BY <1>3, <1>4 DEF HomePrepared, HomeAt

\* A step that goes on to "where" replaces what p is at.
LEMMA HomeGoesOn ==
  ASSUME HomeInv, NEW p \in homePlan.procs, NEW where, HomeGo(p, where)
  PROVE  LET r == [homeProc[p] EXCEPT !.at = where]
         IN  homeProc' = [homeProc EXCEPT ![p] = r] /\ "at" \in DOMAIN r /\ r.at = where
BY DEF HomeGo, HomeInv, HomeTyped

\* A step that leaves both databases and what has been committed alone.
LEMMA HomeQuiet ==
  ASSUME HomeInv, NEW p \in homePlan.procs, NEW r, UNCHANGED <<homePlan, global, legacy, committed>>,
         homeProc' = [homeProc EXCEPT ![p] = r], "at" \in DOMAIN r,
         r.at = "publish" => DatabaseSound(r.saw),
         r.at = "revalidate" \/ r.at = "apply" => global.there
  PROVE  HomeInv'
<1>1. HomeTyped' /\ HomePrepared'
  BY HomeProcessMoves
<1> QED BY <1>1 DEF HomeInv, CommittedEntriesStay

\* The global database grows, and the others are quiet.
LEMMA HomeGrows ==
  ASSUME HomeInv, NEW p \in homePlan.procs, NEW r, UNCHANGED <<homePlan, legacy>>,
         homeProc' = [homeProc EXCEPT ![p] = r], "at" \in DOMAIN r,
         r.at \notin {"publish", "revalidate", "apply"},
         DatabaseSound(global'), global.there => global'.there,
         DOMAIN global.rows \subseteq DOMAIN global'.rows,
         committed' \subseteq committed \cup DOMAIN global'.rows
  PROVE  HomeInv'
<1>1. HomeTyped' /\ HomePrepared'
  BY HomeProcessMoves
<1> QED BY <1>1 DEF HomeInv, CommittedEntriesStay

\* A process that is done is at rest.
LEMMA HomeAtRest ==
  ASSUME NEW p, HomeDone(p)
  PROVE  LET r == HomeIdle
         IN  homeProc' = [homeProc EXCEPT ![p] = r] /\ "at" \in DOMAIN r /\ r.at = "idle"
BY DEF HomeDone, HomeIdle

\* What is there first is empty and sound.
LEMMA EmptySound ==
  /\ DatabaseSound(NoDatabase) /\ DatabaseSound(EmptyFile) /\ DatabaseSound(Bootstrapped)
  /\ EmptyFile.there /\ Bootstrapped.there
<1>1. \A d : /\ IsDatabase(d) /\ d.ver \in {"empty", "old", "current"}
             /\ d.rows = <<>> /\ d.facts = <<>> /\ d.clock = <<>>
             /\ ~ d.there => d.ver = "empty"
             => DatabaseSound(d)
  <2> SUFFICES ASSUME NEW d, IsDatabase(d), d.ver \in {"empty", "old", "current"},
                      d.rows = <<>>, d.facts = <<>>, d.clock = <<>>, ~ d.there => d.ver = "empty"
               PROVE  DatabaseSound(d)
    OBVIOUS
  <2>1. DOMAIN d.rows = {} /\ DOMAIN d.facts = {} /\ DOMAIN d.clock = {}
    OBVIOUS
  <2>2. DOMAIN Fold(d) = {}
    BY <2>1 DEF Fold
  <2> QED BY <2>1, <2>2, FS_EmptySet DEF DatabaseSound, NumbersFree
<1>2. /\ EmptyFile = [NoDatabase EXCEPT !.there = TRUE]
      /\ Bootstrapped = [EmptyFile EXCEPT !.ver = "current"]
  BY DEF EmptyFile, Bootstrapped
<1>3. NoDatabase = [there |-> FALSE, ver |-> "empty", project |-> FALSE, rows |-> <<>>, facts |-> <<>>,
                    clock |-> <<>>, origins |-> {}, index |-> <<>>]
  BY DEF NoDatabase
<1>4. EmptyFile = [there |-> TRUE, ver |-> "empty", project |-> FALSE, rows |-> <<>>, facts |-> <<>>,
                   clock |-> <<>>, origins |-> {}, index |-> <<>>]
  BY <1>2, <1>3
<1>5. /\ IsDatabase(EmptyFile) /\ EmptyFile.there /\ EmptyFile.ver = "empty"
      /\ EmptyFile.rows = <<>> /\ EmptyFile.facts = <<>> /\ EmptyFile.clock = <<>>
  BY <1>4 DEF IsDatabase
<1>6. IsDatabase(Bootstrapped)
  BY <1>2, <1>5, Versioned
<1>7. /\ Bootstrapped.there /\ Bootstrapped.ver = "current"
      /\ Bootstrapped.rows = <<>> /\ Bootstrapped.facts = <<>> /\ Bootstrapped.clock = <<>>
  BY <1>2, <1>5 DEF IsDatabase
<1>8. DatabaseSound(NoDatabase)
  BY <1>1, <1>3 DEF IsDatabase
<1> QED BY <1>1, <1>5, <1>6, <1>7, <1>8

\* A command that begins has prepared nothing.
LEMMA BeginCommandInv ==
  ASSUME HomeInv, NEW p \in homePlan.procs, NEW k \in homePlan.cmds, BeginCommand(p, k)
  PROVE  HomeInv'
<1>1. PICK where : /\ homeProc' = [homeProc EXCEPT ![p] = [at |-> where, saw |-> NoDatabase]]
                   /\ where \notin {"publish", "revalidate", "apply"}
  BY DEF BeginCommand, StorageHomeAction
<1>2. UNCHANGED <<homePlan, global, legacy, committed>>
  BY DEF BeginCommand
<1> DEFINE r == [at |-> where, saw |-> NoDatabase]
<1>3. "at" \in DOMAIN r /\ r.at = where
  OBVIOUS
<1> HIDE DEF r
<1>4. homeProc' = [homeProc EXCEPT ![p] = r]
  BY <1>1 DEF r
<1> QED BY <1>1, <1>2, <1>3, <1>4, HomeQuiet

\* The steps that neither write a database nor prepare one.
HomeQuietStep(p) ==
  \/ NothingToMigrate(p)
  \/ RevalidateUpgradeSource(p)
  \/ BackupState(p)
  \/ CopyRestoreBytes(p)
  \/ VerifyRestore(p)
  \/ CertifyRestore(p)
  \/ HomeProcessStops(p)

\* Steps that read, wait, back up or verify.
LEMMA HomeQuietStepInv ==
  ASSUME HomeInv, NEW p \in homePlan.procs, HomeQuietStep(p)
  PROVE  HomeInv'
<1>1. UNCHANGED <<homePlan, global, legacy, committed>>
  BY DEF HomeQuietStep, NothingToMigrate, RevalidateUpgradeSource, BackupState, CopyRestoreBytes, VerifyRestore,
         CertifyRestore, HomeProcessStops
<1>2. \/ HomeDone(p)
      \/ HomeGo(p, "apply") /\ HomeAt(p, "revalidate")
      \/ HomeGo(p, "verify")
      \/ HomeGo(p, "certify")
  BY DEF HomeQuietStep, NothingToMigrate, RevalidateUpgradeSource, BackupState, CopyRestoreBytes, VerifyRestore,
         CertifyRestore, HomeProcessStops
<1>3. HomeAt(p, "revalidate") => global.there
  BY DEF HomeInv, HomePrepared
<1>4. ASSUME NEW where, where # "publish", where \in {"revalidate", "apply"} => global.there, HomeGo(p, where)
      PROVE  HomeInv'
  <2> DEFINE r == [homeProc[p] EXCEPT !.at = where]
  <2>1. homeProc' = [homeProc EXCEPT ![p] = r] /\ "at" \in DOMAIN r /\ r.at = where
    BY <1>4, HomeGoesOn
  <2> HIDE DEF r
  <2> QED BY <1>1, <1>4, <2>1, HomeQuiet
<1>5. ASSUME HomeDone(p) PROVE HomeInv'
  <2> DEFINE r == HomeIdle
  <2>1. homeProc' = [homeProc EXCEPT ![p] = r] /\ "at" \in DOMAIN r /\ r.at = "idle"
    BY <1>5, HomeAtRest
  <2> HIDE DEF r
  <2> QED BY <1>1, <2>1, HomeQuiet
<1> QED BY <1>2, <1>3, <1>4, <1>5

\* A restore is created, or refused.
LEMMA CreateRestoreInv ==
  ASSUME HomeInv, NEW p \in homePlan.procs, NEW b, CreateRestore(p, b)
  PROVE  HomeInv'
<1>1. UNCHANGED <<homePlan, global, legacy, committed>>
  BY DEF CreateRestore
<1>2. CASE HomeDone(p)
  <2> DEFINE r == HomeIdle
  <2>1. homeProc' = [homeProc EXCEPT ![p] = r] /\ "at" \in DOMAIN r /\ r.at = "idle"
    BY <1>2, HomeAtRest
  <2> HIDE DEF r
  <2> QED BY <1>1, <2>1, HomeQuiet
<1>3. CASE homeProc' = [homeProc EXCEPT ![p] = [at |-> "restore", saw |-> backups[b]]]
  <2> DEFINE r == [at |-> "restore", saw |-> backups[b]]
  <2>1. homeProc' = [homeProc EXCEPT ![p] = r] /\ "at" \in DOMAIN r /\ r.at = "restore"
    BY <1>3
  <2> HIDE DEF r
  <2> QED BY <1>1, <2>1, HomeQuiet
<1> QED BY <1>2, <1>3 DEF CreateRestore

\* A backup before an upgrade is taken of a database that is there.
LEMMA CreateSchemaUpgradeBackupInv ==
  ASSUME HomeInv, NEW p \in homePlan.procs, CreateSchemaUpgradeBackup(p)
  PROVE  HomeInv'
<1>1. UNCHANGED <<homePlan, global, legacy, committed>>
  BY DEF CreateSchemaUpgradeBackup
<1>2. CASE HomeDone(p)
  <2> DEFINE r == HomeIdle
  <2>1. homeProc' = [homeProc EXCEPT ![p] = r] /\ "at" \in DOMAIN r /\ r.at = "idle"
    BY <1>2, HomeAtRest
  <2> HIDE DEF r
  <2> QED BY <1>1, <2>1, HomeQuiet
<1>3. CASE UpgradeSource(global) /\ homeProc' = [homeProc EXCEPT ![p] = [at |-> "revalidate", saw |-> global]]
  <2> DEFINE r == [at |-> "revalidate", saw |-> global]
  <2>1. homeProc' = [homeProc EXCEPT ![p] = r] /\ "at" \in DOMAIN r /\ r.at = "revalidate"
    BY <1>3
  <2> HIDE DEF r
  <2>2. global.there
    BY <1>3 DEF UpgradeSource, HomeInv, DatabaseSound
  <2> QED BY <1>1, <2>1, <2>2, HomeQuiet
<1> QED BY <1>2, <1>3 DEF CreateSchemaUpgradeBackup

\* A staged copy is upgraded and sound.
LEMMA StageCopyInv ==
  ASSUME HomeInv, NEW p \in homePlan.procs, StageCopy(p)
  PROVE  HomeInv'
<1> DEFINE staged == Searchable([Upgraded(legacy) EXCEPT !.project = TRUE])
<1>1. UNCHANGED <<homePlan, global, legacy, committed>>
  BY DEF StageCopy
<1>2. CASE HomeDone(p)
  <2> DEFINE r == HomeIdle
  <2>1. homeProc' = [homeProc EXCEPT ![p] = r] /\ "at" \in DOMAIN r /\ r.at = "idle"
    BY <1>2, HomeAtRest
  <2> HIDE DEF r
  <2> QED BY <1>1, <2>1, HomeQuiet
<1>3. CASE legacy.there /\ homeProc' = [homeProc EXCEPT ![p] = [at |-> "publish", saw |-> staged]]
  <2> DEFINE r == [at |-> "publish", saw |-> staged]
             u == Upgraded(legacy)
  <2>1. homeProc' = [homeProc EXCEPT ![p] = r] /\ "at" \in DOMAIN r /\ r.at = "publish" /\ r.saw = staged
    BY <1>3
  <2>2. DatabaseSound(u) /\ u.there
    <3> HIDE DEF u
    <3>1. u = Upgraded(legacy)
      BY DEF u
    <3> QED BY <1>3, <3>1, UpgradedSound DEF HomeInv
  <2>3. staged = [[u EXCEPT !.project = TRUE] EXCEPT !.index = [u EXCEPT !.project = TRUE].rows]
    BY DEF Searchable
  <2> HIDE DEF r, u, staged
  <2>4. /\ IsDatabase(staged) /\ staged.there = u.there /\ staged.ver = u.ver /\ staged.rows = u.rows
        /\ staged.facts = u.facts /\ staged.clock = u.clock
    BY <2>2, <2>3 DEF DatabaseSound, IsDatabase
  <2>5. DatabaseSound(staged)
    BY <2>2, <2>4, SameContent
  <2> QED BY <1>1, <2>1, <2>5, HomeQuiet
<1> QED BY <1>2, <1>3 DEF StageCopy

\* Somebody else's restore target is nothing to the databases.
LEMMA DisturbRestoreInv ==
  ASSUME HomeInv, DisturbRestore
  PROVE  HomeInv'
BY DEF DisturbRestore, HomeInv, HomeTyped, HomePrepared, HomeAt, CommittedEntriesStay

\* An entry is written with its fact, its number and its index row.
LEMMA LogEntryInv ==
  ASSUME HomeInv, NEW p \in homePlan.procs, NEW id \in homePlan.ids, LogEntry(p, id)
  PROVE  HomeInv'
<1> DEFINE r == HomeIdle
<1>1. homeProc' = [homeProc EXCEPT ![p] = r] /\ "at" \in DOMAIN r /\ r.at = "idle"
  BY HomeAtRest DEF LogEntry
<1> HIDE DEF r
<1>2. id \in Nat /\ DatabaseSound(global) /\ DatabaseSound(legacy)
  BY HomeAssumption DEF HomeInv, HomeTyped
<1>3. CASE /\ global' = Logged(global, id) /\ committed' = committed \cup {id} /\ CanLog(global, id)
           /\ UNCHANGED <<homePlan, legacy>>
  <2>1. DatabaseSound(global') /\ DOMAIN global'.rows = DOMAIN global.rows \cup {id} /\ global'.there
    BY <1>2, <1>3, LoggedSound
  <2> QED BY <1>1, <1>3, <2>1, HomeGrows
<1>4. CASE UNCHANGED <<homePlan, global, legacy, committed>>
  BY <1>1, <1>4, HomeQuiet
<1>5. CASE legacy' = Logged(legacy, id) /\ CanLog(legacy, id) /\ UNCHANGED <<homePlan, global, committed>>
  <2>1. DatabaseSound(legacy')
    BY <1>2, <1>5, LoggedSound
  <2>2. HomeTyped' /\ HomePrepared'
    BY <1>1, <1>5, HomeProcessMoves
  <2> QED BY <1>5, <2>1, <2>2 DEF HomeInv, CommittedEntriesStay
<1> QED BY <1>3, <1>4, <1>5 DEF LogEntry

\* What an initialization writes: a file, a schema where there is none, the project.
LEMMA HomeInitializeInv ==
  ASSUME HomeInv, NEW p \in homePlan.procs, OpenStore(p) \/ BootstrapIfEmpty(p) \/ UpsertProject(p)
  PROVE  HomeInv'
<1>1. DatabaseSound(global) /\ UNCHANGED <<homePlan, legacy, committed>>
  BY DEF HomeInv, OpenStore, BootstrapIfEmpty, UpsertProject
<1>2. DatabaseSound(global') /\ (global.there => global'.there) /\ DOMAIN global.rows \subseteq DOMAIN global'.rows
  <2>1. CASE OpenStore(p)
    BY <1>1, <2>1, EmptySound DEF OpenStore, DatabaseSound
  <2>2. CASE BootstrapIfEmpty(p)
    BY <1>1, <2>2, EmptySound DEF BootstrapIfEmpty, DatabaseSound
  <2>3. CASE UpsertProject(p)
    <3>1. global' = [global EXCEPT !.project = TRUE] /\ IsDatabase(global)
      BY <1>1, <2>3 DEF UpsertProject, DatabaseSound
    <3>2. /\ IsDatabase(global') /\ global'.there = global.there /\ global'.ver = global.ver
          /\ global'.rows = global.rows /\ global'.facts = global.facts /\ global'.clock = global.clock
      BY <3>1 DEF IsDatabase
    <3> QED BY <1>1, <3>2, SameContent
  <2> QED BY <2>1, <2>2, <2>3
<1>3. HomeGo(p, "bootstrap") \/ HomeGo(p, "register") \/ HomeDone(p)
  BY DEF OpenStore, BootstrapIfEmpty, UpsertProject
<1>4. ASSUME NEW where, where \notin {"publish", "revalidate", "apply"}, HomeGo(p, where)
      PROVE  HomeInv'
  <2> DEFINE r == [homeProc[p] EXCEPT !.at = where]
  <2>1. homeProc' = [homeProc EXCEPT ![p] = r] /\ "at" \in DOMAIN r /\ r.at = where
    BY <1>4, HomeGoesOn
  <2> HIDE DEF r
  <2> QED BY <1>1, <1>2, <1>4, <2>1, HomeGrows
<1>5. ASSUME HomeDone(p) PROVE HomeInv'
  <2> DEFINE r == HomeIdle
  <2>1. homeProc' = [homeProc EXCEPT ![p] = r] /\ "at" \in DOMAIN r /\ r.at = "idle"
    BY <1>5, HomeAtRest
  <2> HIDE DEF r
  <2> QED BY <1>1, <1>2, <2>1, HomeGrows
<1> QED BY <1>3, <1>4, <1>5

\* The steps that write the global database and are done.
HomeWritingStep(p) ==
  \/ PublishStaging(p)
  \/ MergeProjectDatabase(p)
  \/ ApplySchemaUpgradeMigrations(p)
  \/ RepairJournalSearch(p)
  \/ RepairJournalFacts(p)

\* Steps that write the global database: each leaves it sound, with all entries it had.
LEMMA HomeWritingStepInv ==
  ASSUME HomeInv, NEW p \in homePlan.procs, HomeWritingStep(p)
  PROVE  HomeInv'
<1>1. DatabaseSound(global) /\ DatabaseSound(legacy) /\ UNCHANGED <<homePlan, legacy>>
  BY DEF HomeInv, HomeWritingStep, PublishStaging, MergeProjectDatabase, ApplySchemaUpgradeMigrations,
         RepairJournalSearch, RepairJournalFacts
<1> DEFINE r == HomeIdle
<1>2. homeProc' = [homeProc EXCEPT ![p] = r] /\ "at" \in DOMAIN r /\ r.at = "idle"
  BY HomeAtRest DEF HomeWritingStep, PublishStaging, MergeProjectDatabase, ApplySchemaUpgradeMigrations,
              RepairJournalSearch, RepairJournalFacts
<1> HIDE DEF r
<1>3. /\ DatabaseSound(global') /\ (global.there => global'.there)
      /\ DOMAIN global.rows \subseteq DOMAIN global'.rows
      /\ committed' \subseteq committed \cup DOMAIN global'.rows
  <2>1. CASE PublishStaging(p)
    <3>1. CASE global.there
      BY <1>1, <2>1, <3>1 DEF PublishStaging
    <3>2. CASE ~ global.there
      <4>1. global' = homeProc[p].saw /\ committed' = committed \cup DOMAIN homeProc[p].saw.rows
        BY <2>1, <3>2 DEF PublishStaging
      <4>2. DatabaseSound(homeProc[p].saw)
        BY <2>1 DEF PublishStaging, HomeInv, HomePrepared
      <4>3. DOMAIN global.rows = {}
        BY <1>1, <3>2 DEF DatabaseSound
      <4> QED BY <3>2, <4>1, <4>2, <4>3
    <3> QED BY <3>1, <3>2
  <2>2. CASE MergeProjectDatabase(p)
    <3>1. CASE UNCHANGED <<global, committed>>
      BY <1>1, <3>1
    <3>2. CASE /\ global.ver = "current" /\ global' = Merged(global, legacy)
               /\ committed' = committed \cup DOMAIN legacy.rows
      <4>1. DatabaseSound(global') /\ global'.there /\ DOMAIN global'.rows = DOMAIN global.rows \cup DOMAIN legacy.rows
        BY <1>1, <3>2, MergedSound
      <4> QED BY <3>2, <4>1
    <3> QED BY <2>2, <3>1, <3>2 DEF MergeProjectDatabase
  <2>3. CASE ApplySchemaUpgradeMigrations(p)
    <3>1. global.there
      BY <2>3 DEF ApplySchemaUpgradeMigrations, HomeInv, HomePrepared
    <3>2. DatabaseSound(global') /\ global'.rows = global.rows /\ global'.there
      BY <1>1, <2>3, <3>1, UpgradedSound DEF ApplySchemaUpgradeMigrations
    <3>3. committed' = committed
      BY <2>3 DEF ApplySchemaUpgradeMigrations
    <3> QED BY <3>2, <3>3
  <2>4. CASE RepairJournalSearch(p)
    <3>1. CASE UNCHANGED global
      BY <1>1, <2>4, <3>1 DEF RepairJournalSearch
    <3>2. CASE global' = [global EXCEPT !.index = global.rows]
      <4>1. /\ IsDatabase(global') /\ global'.there = global.there /\ global'.ver = global.ver
            /\ global'.rows = global.rows /\ global'.facts = global.facts /\ global'.clock = global.clock
        BY <1>1, <3>2 DEF DatabaseSound, IsDatabase
      <4>2. DatabaseSound(global')
        BY <1>1, <4>1, SameContent
      <4> QED BY <2>4, <4>1, <4>2 DEF RepairJournalSearch
    <3> QED BY <2>4, <3>1, <3>2 DEF RepairJournalSearch, Searchable
  <2>5. CASE RepairJournalFacts(p)
    <3>1. CASE UNCHANGED global
      BY <1>1, <2>5, <3>1 DEF RepairJournalFacts
    <3>2. CASE /\ global.ver = "current" /\ ~ FactParity(global) /\ FactParity(FromFacts(global))
               /\ global' = FromFacts(global)
      <4>1. DatabaseSound(global') /\ global'.there = global.there /\ DOMAIN global.rows \subseteq DOMAIN global'.rows
        BY <1>1, <3>2, FromFactsSound
      <4> QED BY <2>5, <4>1 DEF RepairJournalFacts
    <3> QED BY <2>5, <3>1, <3>2 DEF RepairJournalFacts
  <2> QED BY <2>1, <2>2, <2>3, <2>4, <2>5 DEF HomeWritingStep
<1> QED BY <1>1, <1>2, <1>3, HomeGrows

\* Archiving leaves nothing where the old database was.
LEMMA ArchiveLegacyInv ==
  ASSUME HomeInv, NEW p \in homePlan.procs, ArchiveLegacyProjectDatabase(p)
  PROVE  HomeInv'
<1> DEFINE r == HomeIdle
<1>1. homeProc' = [homeProc EXCEPT ![p] = r] /\ "at" \in DOMAIN r /\ r.at = "idle"
  BY HomeAtRest DEF ArchiveLegacyProjectDatabase
<1> HIDE DEF r
<1>2. UNCHANGED <<homePlan, global, committed>> /\ legacy' = NoDatabase
  BY DEF ArchiveLegacyProjectDatabase
<1>3. HomeTyped' /\ HomePrepared'
  BY <1>1, <1>2, HomeProcessMoves
<1> QED BY <1>2, <1>3, EmptySound DEF HomeInv, CommittedEntriesStay

\* Every step of every process keeps HomeInv.
LEMMA HomeStepInv == HomeInv /\ [HomeNext]_homeVars => HomeInv'
<1> SUFFICES ASSUME HomeInv, [HomeNext]_homeVars PROVE HomeInv'
  OBVIOUS
<1>1. CASE UNCHANGED homeVars
  BY <1>1 DEF homeVars, HomeInv, HomeTyped, HomePrepared, HomeAt, CommittedEntriesStay
<1>2. CASE DisturbRestore
  BY <1>2, DisturbRestoreInv
<1>3. ASSUME NEW p \in homePlan.procs, HomeStep(p) PROVE HomeInv'
  <2>1. CASE \E c \in homePlan.cmds : BeginCommand(p, c)
    BY <2>1, BeginCommandInv
  <2>2. CASE \E id \in homePlan.ids : LogEntry(p, id)
    BY <2>2, LogEntryInv
  <2>3. CASE OpenStore(p) \/ BootstrapIfEmpty(p) \/ UpsertProject(p)
    BY <2>3, HomeInitializeInv
  <2>4. CASE StageCopy(p)
    BY <2>4, StageCopyInv
  <2>5. CASE ArchiveLegacyProjectDatabase(p)
    BY <2>5, ArchiveLegacyInv
  <2>6. CASE CreateSchemaUpgradeBackup(p)
    BY <2>6, CreateSchemaUpgradeBackupInv
  <2>7. CASE \E b \in DOMAIN backups : CreateRestore(p, b)
    BY <2>7, CreateRestoreInv
  <2>8. CASE HomeWritingStep(p)
    BY <2>8, HomeWritingStepInv
  <2>9. CASE HomeQuietStep(p)
    BY <2>9, HomeQuietStepInv
  <2> QED BY <1>3, <2>1, <2>2, <2>3, <2>4, <2>5, <2>6, <2>7, <2>8, <2>9 DEF HomeStep, HomeWritingStep, HomeQuietStep
<1> QED BY <1>1, <1>2, <1>3 DEF HomeNext

\* Every database that the commands leave behind is sound, wherever processes of this
\* and of older versions interleave or stop.
THEOREM DatabasesStaySound == HomeSpec => []HomeInv
<1>1. HomeInit => HomeInv
  BY HomeInitInv
<1>2. HomeInv /\ [HomeNext]_homeVars => HomeInv'
  BY HomeStepInv
<1> QED BY <1>1, <1>2, PTL DEF HomeSpec

\* Whatever is initialized, migrated, merged, upgraded, repaired and logged at the same
\* time, an entry that was committed to the global database or brought into it stays,
\* and its next number is free.
THEOREM TakenInStays == HomeSpec => []EntriesAreKept
<1>1. HomeInv => EntriesAreKept
  BY DEF HomeInv, EntriesAreKept, NumbersAreFree, DatabaseSound
<1> QED BY <1>1, DatabasesStaySound, PTL

----------------------------------------------------------------------------
(* Installing: HostInstall. *)

AtRest == {"idle", "waiting"}
OnShelf == {"shelf", "retired", "replaced", "placing"}
OverFiles == {"recheck", "artifact", "mutate", "undo"}

CommandFields == {"at", "cmd", "prev", "bad", "retire", "publish", "skill", "backup", "stage", "snap", "file",
           "remove", "write", "undo"}
CommandRecord(r) == r = [x \in CommandFields |-> r[x]]

\* What a process has in its hands: a skill it staged, or is about to replace, is the
\* user's only where a manifest without digests names it.
HandsOK(r) ==
  /\ CommandRecord(r)
  /\ r.at # "idle" => r.cmd \in hplan.cmds
  /\ r.at \in AtRest \cup {"skills"} => r.stage = {}
  /\ r.backup # Absent => r.at \in {"retired", "replaced", "placing"}
  /\ NotUsers(r.prev.digests)
  /\ \A s : <<s, User>> \in r.stage => OwnedBlindly(r, s)
  /\ r.at = "placing" => OwnedBlindly(r, r.skill) \/ r.backup # User
  /\ r.at \in OnShelf => r.retire \subseteq DOMAIN r.prev.digests
  /\ r.at \in {"retired", "replaced"} => r.skill \in DOMAIN r.prev.digests
  /\ r.at \in OnShelf => r.publish \subseteq SkillsOf(r.cmd.ver)
  /\ r.at = "replaced" => r.skill \in SkillsOf(r.cmd.ver)

\* What it knows of the files it is about to write: none was the user's when it looked.
FilesOK(r) ==
  /\ r.at \in AtRest \cup OnShelf \cup {"skills", "agents", "adapters", "recheck"} => r.undo = <<>>
  /\ r.at \in OverFiles => NotUsers(r.snap)
  /\ r.at \in {"artifact", "mutate"} => r.remove \cup r.write \subseteq DOMAIN r.snap
  /\ r.at = "mutate" => r.file \in DOMAIN r.snap
  /\ r.at \in {"artifact", "mutate", "undo"} => r.undo \in Seq(DOMAIN r.snap)
  /\ r.at \in {"guidance", "writeRule"} => RuleParts \subseteq DOMAIN r.snap /\ NotUsers(r.snap)

\* What it knows of the manifests while it holds the lock.
LockedOK(r) ==
  /\ r.at = "recheck" => DOMAIN r.snap = DOMAIN fileManifest.digests \cup ArtifactsOf(r.cmd.ver)
  /\ r.at = "dropRule" => Owns("rule")

InstallInv ==
  /\ hplan \in InstallPlans
  /\ DOMAIN installer = hplan.procs
  /\ NotUsers(shelfManifest.digests) /\ NotUsers(fileManifest.digests) /\ NotUsers(owned)
  /\ \A p \in hplan.procs :
       /\ HandsOK(installer[p]) /\ FilesOK(installer[p]) /\ LockedOK(installer[p])
       /\ installer[p].at \in AtRest \/ contentLock = p

\* r has the user's version of s set aside or staged.
Hands(r, s) == <<s, User>> \in r.stage \/ (r.skill = s /\ r.backup = User)

SkillsKept ==
  \A s \in DOMAIN shelf : UserHas(s) => UserHas(s)' \/ \E p \in hplan.procs : OwnedBlindly(installer[p], s)

FilesKept ==
  \A f \in DOMAIN files : files[f] = User /\ files'[f] # User =>
    \E p \in hplan.procs : f \in DOMAIN installer[p].snap /\ installer[p].snap[f] # User

Kept == SkillsKept /\ FilesKept

\* A process without a command has nothing.
LEMMA UnusedRecord ==
  /\ CommandRecord(Unused)
  /\ Unused.at = "idle" /\ Unused.stage = {} /\ Unused.backup = Absent /\ Unused.undo = <<>>
  /\ Unused.prev.digests = <<>>
<1>1. DOMAIN Unused = CommandFields
  BY DEF Unused, CommandFields
<1>2. Unused = [x \in DOMAIN Unused |-> Unused[x]]
  BY DEF Unused
<1>3. CommandRecord(Unused)
  BY <1>1, <1>2 DEF CommandRecord
<1> QED BY <1>3 DEF Unused

\* At the start no process has a command and the manifests are the program's.
LEMMA InstallInitInv == InstallInit => InstallInv
<1> SUFFICES ASSUME InstallInit PROVE InstallInv
  OBVIOUS
<1>1. HandsOK(Unused) /\ FilesOK(Unused) /\ LockedOK(Unused) /\ Unused.at = "idle"
  BY UnusedRecord DEF HandsOK, FilesOK, LockedOK, AtRest, OnShelf, OverFiles, NotUsers
<1>2. NotUsers(shelfManifest.digests) /\ NotUsers(fileManifest.digests) /\ NotUsers(owned)
  BY InstallAssumption DEF InstallInit
<1> QED BY <1>1, <1>2 DEF InstallInit, InstallInv, AtRest

\* p's next state is t; what the others know is not touched.
LEMMA Moves ==
  ASSUME InstallInv, NEW p \in hplan.procs, NEW t,
         installer' = [installer EXCEPT ![p] = t], hplan' = hplan,
         NotUsers(shelfManifest'.digests), NotUsers(fileManifest'.digests), NotUsers(owned'),
         contentLock = p \/ contentLock = Nobody \/ UNCHANGED <<contentLock, fileManifest, owned>>,
         t.at \in AtRest \/ contentLock' = p,
         HandsOK(t), FilesOK(t),
         t.at = "recheck" => DOMAIN t.snap = DOMAIN fileManifest'.digests \cup ArtifactsOf(t.cmd.ver),
         t.at = "dropRule" => "rule" \in DOMAIN owned'
  PROVE  InstallInv'
<1>1. /\ hplan \in InstallPlans /\ DOMAIN installer = hplan.procs
      /\ \A q \in hplan.procs : /\ HandsOK(installer[q]) /\ FilesOK(installer[q]) /\ LockedOK(installer[q])
                                /\ installer[q].at \in AtRest \/ contentLock = q
  BY DEF InstallInv
<1>2. DOMAIN installer' = hplan.procs /\ installer'[p] = t /\ \A q \in hplan.procs : q # p => installer'[q] = installer[q]
  BY <1>1
<1>3. Nobody \notin hplan.procs
  BY <1>1, InstallAssumption
<1>4. ASSUME NEW q \in hplan.procs
      PROVE  /\ HandsOK(installer'[q]) /\ FilesOK(installer'[q])
             /\ installer'[q].at = "recheck" =>
                  DOMAIN installer'[q].snap = DOMAIN fileManifest'.digests \cup ArtifactsOf(installer'[q].cmd.ver)
             /\ installer'[q].at = "dropRule" => "rule" \in DOMAIN owned'
             /\ installer'[q].at \in AtRest \/ contentLock' = q
  <2>1. CASE q = p
    BY <1>2, <2>1
  <2>2. CASE q # p /\ installer[q].at \in AtRest
    <3>1. installer'[q] = installer[q]
      BY <1>2, <2>2
    <3> QED BY <1>1, <2>2, <3>1 DEF AtRest
  <2>3. CASE q # p /\ installer[q].at \notin AtRest
    <3>1. contentLock = q
      BY <1>1, <2>3
    <3>2. UNCHANGED <<contentLock, fileManifest, owned>>
      BY <1>3, <2>3, <3>1
    <3>3. installer'[q] = installer[q] /\ LockedOK(installer[q])
      BY <1>1, <1>2, <2>3
    <3> QED BY <1>1, <3>1, <3>2, <3>3 DEF LockedOK, Owns
  <2> QED BY <2>1, <2>2, <2>3
<1>5. \A r : HandsOK(r) => HandsOK(r)'
  BY DEF HandsOK, SkillsOf, Shipped, OwnedBlindly
<1>6. \A v : ArtifactsOf(v)' = ArtifactsOf(v)
  BY DEF ArtifactsOf, Shipped
<1>7. \A q \in hplan.procs : HandsOK(installer[q])' /\ FilesOK(installer[q])' /\ LockedOK(installer[q])'
                             /\ (installer[q].at \in AtRest \/ contentLock = q)'
  BY <1>4, <1>6 DEF HandsOK, SkillsOf, Shipped, OwnedBlindly, FilesOK, LockedOK, Owns
<1> QED BY <1>1, <1>2, <1>7 DEF InstallInv

\* What p had of the user's, it still has, or it is in its place or left behind.
LEMMA KeepsSkills ==
  ASSUME InstallInv, NEW p \in hplan.procs, NEW t,
         installer' = [installer EXCEPT ![p] = t], hplan' = hplan, kept \subseteq kept',
         \A s \in DOMAIN shelf :
           ~ OwnedBlindly(installer[p], s) /\ (shelf[s] = User \/ Hands(installer[p], s)) =>
             shelf'[s] = User \/ <<s, User>> \in kept' \/ Hands(t, s)
  PROVE  SkillsKept
<1> SUFFICES ASSUME NEW s \in DOMAIN shelf, UserHas(s), \A q \in hplan.procs : ~ OwnedBlindly(installer[q], s)
             PROVE  UserHas(s)'
  BY DEF SkillsKept
<1>1. DOMAIN installer' = hplan.procs /\ installer'[p] = t /\ \A q \in hplan.procs : q # p => installer'[q] = installer[q]
  BY DEF InstallInv
<1>2. shelf[s] = User \/ <<s, User>> \in kept \/ \E q \in hplan.procs : Hands(installer[q], s)
  BY DEF UserHas, Hands
<1>3. shelf'[s] = User \/ <<s, User>> \in kept' \/ \E q \in hplan.procs : Hands(installer'[q], s)
  BY <1>1, <1>2
<1> QED BY <1>3 DEF UserHas, Hands

\* Outside of the steps that set a skill aside, what a process has of the user's is owned
\* by a manifest without digests.
LEMMA CleanHands ==
  ASSUME InstallInv, NEW p \in hplan.procs,
         \/ installer[p].at \notin {"retired", "replaced", "placing"}
         \/ installer[p].backup # User
         \/ OwnedBlindly(installer[p], installer[p].skill)
  PROVE  \A s : Hands(installer[p], s) => OwnedBlindly(installer[p], s)
BY DEF InstallInv, HandsOK, Hands, Absent, User

\* A process that leaves has the lock, or nobody has it.
LEMMA Leaves ==
  ASSUME InstallInv, NEW p \in hplan.procs, Leave(p), hplan' = hplan,
         NotUsers(shelfManifest'.digests), NotUsers(fileManifest'.digests), NotUsers(owned'),
         contentLock = p \/ contentLock = Nobody
  PROVE  InstallInv'
<1> DEFINE t == Unused
<1>1. HandsOK(t) /\ FilesOK(t) /\ t.at = "idle"
  BY UnusedRecord DEF HandsOK, FilesOK, AtRest, OnShelf, OverFiles, NotUsers
<1>2. installer' = [installer EXCEPT ![p] = t]
  BY DEF Leave, Put
<1> HIDE DEF t
<1> QED BY <1>1, <1>2, Moves DEF AtRest

\* A process that leaves with clean hands loses nothing of the user's.
LEMMA LeavesSkills ==
  ASSUME InstallInv, NEW p \in hplan.procs, Leave(p), hplan' = hplan, shelf' = shelf, kept \subseteq kept',
         installer[p].at \notin {"retired", "replaced", "placing"} \/ installer[p].backup # User
  PROVE  SkillsKept
<1> DEFINE t == Unused
<1>1. installer' = [installer EXCEPT ![p] = t]
  BY DEF Leave, Put
<1> HIDE DEF t
<1>2. \A s : Hands(installer[p], s) => OwnedBlindly(installer[p], s)
  BY CleanHands
<1> QED BY <1>1, <1>2, KeepsSkills

\* A step that leaves the files alone keeps them.
LEMMA SameFiles == UNCHANGED files => FilesKept
BY DEF FilesKept

\* What is known of a process that is at work.
LEMMA AtWork ==
  ASSUME InstallInv, NEW p \in hplan.procs, installer[p].at \notin AtRest
  PROVE  /\ contentLock = p
         /\ HandsOK(installer[p]) /\ FilesOK(installer[p]) /\ LockedOK(installer[p])
         /\ NotUsers(shelfManifest.digests) /\ NotUsers(fileManifest.digests) /\ NotUsers(owned)
         /\ LET d == Shipped(installer[p].cmd.ver)
            IN  /\ NotUsers(d.skills) /\ NotUsers(d.artifacts) /\ d.rule # User
                /\ DOMAIN d.skills \subseteq Nat
<1>1. installer[p].cmd \in hplan.cmds /\ hplan \in InstallPlans
  BY DEF InstallInv, HandsOK, AtRest
<1> QED BY <1>1, InstallAssumption DEF InstallInv, Shipped

\* A step of a process at work that leaves its hands, the shelf and the manifests alone.
LEMMA GoesAhead ==
  ASSUME InstallInv, NEW p \in hplan.procs, installer[p].at \notin AtRest, NEW t, Put(p, t),
         UNCHANGED <<hplan, shelf, kept, contentLock>>,
         NotUsers(shelfManifest'.digests), NotUsers(fileManifest'.digests), NotUsers(owned'),
         CommandRecord(t), t.at \notin AtRest \cup {"skills"}, t.cmd = installer[p].cmd,
         t.stage \subseteq installer[p].stage, t.skill = installer[p].skill, t.backup = installer[p].backup,
         t.prev = installer[p].prev, t.at \notin {"retired", "replaced"},
         t.backup # Absent => t.at = "placing",
         t.at = "placing" => OwnedBlindly(t, t.skill) \/ t.backup # User,
         t.at \in OnShelf => t.publish \subseteq SkillsOf(t.cmd.ver) /\ t.retire \subseteq DOMAIN t.prev.digests,
         FilesOK(t),
         t.at = "recheck" => DOMAIN t.snap = DOMAIN fileManifest'.digests \cup ArtifactsOf(t.cmd.ver),
         t.at = "dropRule" => "rule" \in DOMAIN owned',
         t.stage = installer[p].stage \/ (t.stage = {} /\ t.backup = Absent)
  PROVE  InstallInv' /\ SkillsKept
<1>1. HandsOK(installer[p]) /\ contentLock = p
  BY AtWork
<1>2. HandsOK(t)
  BY <1>1 DEF HandsOK, AtRest, OwnedBlindly
<1>3. installer' = [installer EXCEPT ![p] = t]
  BY DEF Put
<1>4. InstallInv'
  BY <1>1, <1>2, <1>3, Moves
<1>5. SkillsKept
  <2>1. t.stage = {} /\ t.backup = Absent => \A s : Hands(installer[p], s) => OwnedBlindly(installer[p], s)
    BY CleanHands DEF Absent, User
  <2>2. t.stage = installer[p].stage => \A s : Hands(installer[p], s) => Hands(t, s)
    BY DEF Hands
  <2> QED BY <1>3, <2>1, <2>2, KeepsSkills
<1> QED BY <1>4, <1>5

\* A command begins with empty hands, with the lock or waiting for it.
LEMMA BeginStep ==
  ASSUME InstallInv, NEW p \in hplan.procs, NEW c \in hplan.cmds,
         BeginInstall(p, c) \/ BeginUpgrade(p, c) \/ BeginReconcile(p, c)
  PROVE  InstallInv' /\ Kept
<1>1. /\ UNCHANGED <<hplan, shelf, shelfManifest, kept, files, fileManifest, owned>>
      /\ installer[p].at = "idle"
  BY DEF BeginInstall, BeginUpgrade, BeginReconcile, shelfVars, fileVars
<1>2. PICK t : /\ installer' = [installer EXCEPT ![p] = t]
               /\ \/ t = [Unused EXCEPT !.at = "waiting", !.cmd = c] /\ contentLock' = contentLock
                  \/ t = [[Unused EXCEPT !.cmd = c] EXCEPT !.at = "skills"] /\ contentLock' = p /\ contentLock = Nobody
  BY DEF BeginInstall, BeginUpgrade, BeginReconcile, TakeLock, Put
<1>3. /\ CommandRecord(t) /\ t.at \in {"waiting", "skills"} /\ t.cmd = c /\ t.stage = {} /\ t.backup = Absent
      /\ t.prev.digests = <<>> /\ t.undo = <<>>
  <2>1. CASE t = [Unused EXCEPT !.at = "waiting", !.cmd = c]
    BY <2>1 DEF Unused, CommandRecord, CommandFields
  <2>2. CASE t = [[Unused EXCEPT !.cmd = c] EXCEPT !.at = "skills"]
    BY <2>2 DEF Unused, CommandRecord, CommandFields
  <2> QED BY <1>2, <2>1, <2>2
<1>4. HandsOK(t) /\ FilesOK(t)
  BY <1>3 DEF HandsOK, FilesOK, AtRest, OnShelf, OverFiles, NotUsers
<1>5. NotUsers(shelfManifest.digests) /\ NotUsers(fileManifest.digests) /\ NotUsers(owned)
  BY DEF InstallInv
<1>6. t.at \in AtRest \/ contentLock' = p
  BY <1>2, <1>3 DEF AtRest, Unused
<1>7. InstallInv'
  BY <1>1, <1>2, <1>3, <1>4, <1>5, <1>6, Moves
<1>8. \A s : Hands(installer[p], s) => OwnedBlindly(installer[p], s)
  BY <1>1, CleanHands
<1>9. SkillsKept
  BY <1>1, <1>2, <1>8, KeepsSkills
<1> QED BY <1>1, <1>7, <1>9, SameFiles DEF Kept

\* The reconcile has what it needs or leaves.
LEMMA ReconcileStep ==
  ASSUME InstallInv, NEW p \in hplan.procs, Reconcile(p)
  PROVE  InstallInv' /\ Kept
<1>1. /\ UNCHANGED <<hplan, shelf, shelfManifest, kept, files, fileManifest, owned>>
      /\ installer[p].at = "waiting" /\ contentLock = Nobody
  BY DEF Reconcile, shelfVars, fileVars
<1>2. NotUsers(shelfManifest.digests) /\ NotUsers(fileManifest.digests) /\ NotUsers(owned)
  BY DEF InstallInv
<1>3. CASE Leave(p)
  BY <1>1, <1>2, <1>3, Leaves, LeavesSkills, SameFiles DEF Kept
<1>4. CASE TakeLock(p, installer[p])
  <2> DEFINE t == [installer[p] EXCEPT !.at = "skills"]
  <2>1. installer' = [installer EXCEPT ![p] = t] /\ contentLock' = p
    BY <1>4 DEF TakeLock, Put
  <2>2. HandsOK(installer[p]) /\ FilesOK(installer[p])
    BY DEF InstallInv
  <2>3. /\ CommandRecord(t) /\ t.at = "skills" /\ t.cmd = installer[p].cmd /\ t.stage = installer[p].stage
        /\ t.backup = installer[p].backup /\ t.prev = installer[p].prev /\ t.undo = installer[p].undo
    BY <2>2 DEF HandsOK, CommandRecord
  <2> HIDE DEF t
  <2>4. HandsOK(t) /\ FilesOK(t)
    BY <1>1, <2>2, <2>3 DEF HandsOK, FilesOK, AtRest, OnShelf, OverFiles
  <2>5. InstallInv'
    BY <1>1, <1>2, <2>1, <2>3, <2>4, Moves
  <2>6. \A s : Hands(installer[p], s) => OwnedBlindly(installer[p], s)
    BY <1>1, CleanHands
  <2>7. SkillsKept
    BY <1>1, <2>1, <2>6, KeepsSkills
  <2> QED BY <1>1, <2>5, <2>7, SameFiles DEF Kept
<1> QED BY <1>3, <1>4 DEF Reconcile

\* preflightManagedSkills reads the manifest and decides; it moves nothing.
LEMMA PreflightSkillsStep ==
  ASSUME InstallInv, NEW p \in hplan.procs, PreflightSkills(p)
  PROVE  InstallInv' /\ Kept
<1> DEFINE prev == ManagedSkillsState
           bad == Conflicts(prev, installer[p].cmd.ver)
           retire == DOMAIN prev.digests \ (SkillsOf(installer[p].cmd.ver) \cup bad)
           publish == SkillsOf(installer[p].cmd.ver) \ bad
           t == [installer[p] EXCEPT !.at = "shelf", !.prev = prev, !.bad = bad, !.retire = retire, !.publish = publish]
<1>1. /\ installer[p].at = "skills" /\ installer' = [installer EXCEPT ![p] = t]
      /\ UNCHANGED <<hplan, shelf, shelfManifest, kept, files, fileManifest, owned, contentLock>>
  BY DEF PreflightSkills, shelfVars, fileVars, Put
<1>2. /\ contentLock = p /\ HandsOK(installer[p]) /\ FilesOK(installer[p])
      /\ NotUsers(shelfManifest.digests) /\ NotUsers(fileManifest.digests) /\ NotUsers(owned)
  BY <1>1, AtWork DEF AtRest
<1>3. NotUsers(prev.digests)
  BY <1>2 DEF ManagedSkillsState
<1> HIDE DEF prev, bad
<1>4. publish \subseteq SkillsOf(installer[p].cmd.ver) /\ retire \subseteq DOMAIN prev.digests
  OBVIOUS
<1> HIDE DEF retire, publish
<1>5. CommandRecord(installer[p])
  BY <1>2 DEF HandsOK
<1>6. t = [x \in CommandFields |-> IF x = "at" THEN "shelf" ELSE IF x = "prev" THEN prev ELSE IF x = "bad" THEN bad
                            ELSE IF x = "retire" THEN retire ELSE IF x = "publish" THEN publish
                            ELSE installer[p][x]]
  BY <1>5 DEF CommandRecord, CommandFields
<1> HIDE DEF t
<1>7. /\ t.at = "shelf" /\ t.cmd = installer[p].cmd /\ t.prev = prev
      /\ t.stage = installer[p].stage /\ t.backup = installer[p].backup /\ t.skill = installer[p].skill
      /\ t.undo = installer[p].undo /\ t.publish = publish /\ t.retire = retire
      /\ CommandRecord(t)
  BY <1>6 DEF CommandRecord, CommandFields
<1>8. HandsOK(t) /\ FilesOK(t)
  BY <1>1, <1>2, <1>3, <1>4, <1>7 DEF HandsOK, FilesOK, AtRest, OnShelf, OverFiles
<1>9. InstallInv'
  BY <1>1, <1>2, <1>7, <1>8, Moves
<1>10. \A s : Hands(installer[p], s) => OwnedBlindly(installer[p], s)
  BY <1>1, CleanHands
<1>11. SkillsKept
  BY <1>1, <1>10, KeepsSkills
<1> QED BY <1>1, <1>9, <1>11, SameFiles DEF Kept

\* A skill is set aside: p has what was on the shelf in its hands.
LEMMA SetsAside ==
  ASSUME InstallInv, NEW p \in hplan.procs, NEW s, NEW t, installer[p].at = "shelf",
         installer' = [installer EXCEPT ![p] = t], shelf' = [shelf EXCEPT ![s] = Absent],
         UNCHANGED <<hplan, shelfManifest, kept, fileManifest, owned, contentLock>>,
         CommandRecord(t), t.at \in {"retired", "replaced"}, t.cmd = installer[p].cmd, t.prev = installer[p].prev,
         t.publish \subseteq installer[p].publish, t.at = "replaced" => s \in SkillsOf(t.cmd.ver),
         t.retire \subseteq installer[p].retire, s \in DOMAIN installer[p].prev.digests,
         t.skill = s, t.backup = shelf[s], t.stage = installer[p].stage, t.undo = installer[p].undo
  PROVE  InstallInv' /\ SkillsKept
<1>1. /\ contentLock = p /\ HandsOK(installer[p]) /\ FilesOK(installer[p])
      /\ NotUsers(shelfManifest.digests) /\ NotUsers(fileManifest.digests) /\ NotUsers(owned)
  BY AtWork DEF AtRest
<1>2. HandsOK(t) /\ FilesOK(t)
  BY <1>1 DEF HandsOK, FilesOK, AtRest, OnShelf, OverFiles, OwnedBlindly
<1>3. InstallInv'
  BY <1>1, <1>2, Moves
<1>4. ASSUME NEW x \in DOMAIN shelf, shelf[x] = User \/ Hands(installer[p], x)
      PROVE  shelf'[x] = User \/ <<x, User>> \in kept' \/ Hands(t, x)
  <2>1. CASE x = s /\ shelf[x] = User
    BY <2>1 DEF Hands
  <2>2. CASE x # s /\ shelf[x] = User
    BY <2>2
  <2>3. CASE Hands(installer[p], x)
    BY <1>1, <2>3 DEF Hands, HandsOK, Absent, User
  <2> QED BY <1>4, <2>1, <2>2, <2>3
<1>5. SkillsKept
  BY <1>4, KeepsSkills
<1> QED BY <1>3, <1>5

\* What was set aside is put back, or stays in a directory of its own.
LEMMA GivesBack ==
  ASSUME InstallInv, NEW p \in hplan.procs, installer[p].at \in {"retired", "replaced", "placing"}, GiveBack(p),
         UNCHANGED <<hplan, shelfManifest, fileManifest, owned>>
  PROVE  InstallInv' /\ SkillsKept
<1>1. /\ contentLock = p /\ HandsOK(installer[p])
      /\ NotUsers(shelfManifest.digests) /\ NotUsers(fileManifest.digests) /\ NotUsers(owned)
  BY AtWork DEF AtRest
<1>2. InstallInv'
  BY <1>1, Leaves DEF GiveBack
<1> DEFINE t == Unused
<1>3. installer' = [installer EXCEPT ![p] = t]
  BY DEF GiveBack, Leave, Put
<1> HIDE DEF t
<1>4. kept \subseteq kept'
  BY DEF GiveBack
<1>5. ASSUME NEW x \in DOMAIN shelf, ~ OwnedBlindly(installer[p], x), shelf[x] = User \/ Hands(installer[p], x)
      PROVE  shelf'[x] = User \/ <<x, User>> \in kept'
  <2>1. CASE Hands(installer[p], x)
    <3>1. x = installer[p].skill /\ installer[p].backup = User
      BY <1>1, <1>5, <2>1 DEF HandsOK, Hands
    <3> QED BY <1>5, <3>1 DEF GiveBack
  <2>2. CASE shelf[x] = User
    BY <1>5, <2>2 DEF GiveBack, User, Absent
  <2> QED BY <1>5, <2>1, <2>2
<1>6. SkillsKept
  BY <1>3, <1>4, <1>5, KeepsSkills
<1> QED BY <1>2, <1>6

\* A skill that is no longer shipped is set aside, if it is there.
LEMMA RetireSkillStep ==
  ASSUME InstallInv, NEW p \in hplan.procs, RetireSkill(p)
  PROVE  InstallInv' /\ Kept
<1>1. /\ UNCHANGED <<hplan, shelfManifest, kept, files, fileManifest, owned, contentLock>>
      /\ installer[p].at = "shelf"
  BY DEF RetireSkill, fileVars
<1>2. CommandRecord(installer[p]) /\ FilesOK(installer[p]) /\ HandsOK(installer[p])
  BY <1>1, AtWork DEF AtRest, HandsOK
<1>3. /\ NotUsers(shelfManifest.digests) /\ NotUsers(fileManifest.digests) /\ NotUsers(owned)
  BY DEF InstallInv
<1>9. installer[p].retire \subseteq DOMAIN installer[p].prev.digests
  BY <1>1, <1>2 DEF HandsOK, OnShelf
<1>4. PICK s \in installer[p].retire :
        LET next == [installer[p] EXCEPT !.retire = @ \ {s}]
        IN \/ Put(p, next) /\ UNCHANGED shelf
           \/ SetAside(p, s, [next EXCEPT !.at = "retired"])
  BY DEF RetireSkill
<1> DEFINE next == [installer[p] EXCEPT !.retire = @ \ {s}]
<1>5. /\ CommandRecord(next) /\ next.at = "shelf" /\ next.cmd = installer[p].cmd /\ next.prev = installer[p].prev
      /\ next.publish = installer[p].publish /\ next.skill = installer[p].skill /\ next.backup = installer[p].backup
      /\ next.stage = installer[p].stage /\ next.undo = installer[p].undo /\ next.retire \subseteq installer[p].retire
  BY <1>1, <1>2 DEF CommandRecord, CommandFields
<1> HIDE DEF next
<1>6. CASE Put(p, next) /\ UNCHANGED shelf
  <2>1. FilesOK(next)
    BY <1>1, <1>2, <1>5 DEF FilesOK, AtRest, OnShelf, OverFiles
  <2>2. InstallInv' /\ SkillsKept
    BY <1>1, <1>2, <1>3, <1>5, <1>6, <1>9, <2>1, GoesAhead DEF AtRest, HandsOK, OnShelf
  <2> QED BY <1>1, <2>2, SameFiles DEF Kept
<1>7. CASE SetAside(p, s, [next EXCEPT !.at = "retired"])
  <2> DEFINE u == [next EXCEPT !.at = "retired"]
             t == [u EXCEPT !.skill = s, !.backup = shelf[s]]
  <2>1. installer' = [installer EXCEPT ![p] = t] /\ shelf' = [shelf EXCEPT ![s] = Absent]
    BY <1>7 DEF SetAside, Put
  <2>3. /\ CommandRecord(u) /\ u.at = "retired" /\ u.cmd = next.cmd /\ u.prev = next.prev /\ u.publish = next.publish
        /\ u.stage = next.stage /\ u.undo = next.undo /\ u.retire = next.retire
    BY <1>5 DEF CommandRecord, CommandFields
  <2> HIDE DEF u
  <2>2. /\ CommandRecord(t) /\ t.at = "retired" /\ t.cmd = next.cmd /\ t.prev = next.prev /\ t.publish = next.publish
        /\ t.skill = s /\ t.backup = shelf[s] /\ t.stage = next.stage /\ t.undo = next.undo
        /\ t.retire = next.retire
    BY <2>3 DEF CommandRecord, CommandFields
  <2> HIDE DEF t
  <2>4. InstallInv' /\ SkillsKept
    BY <1>1, <1>5, <1>9, <2>1, <2>2, SetsAside
  <2> QED BY <1>1, <2>4, SameFiles DEF Kept
<1> QED BY <1>4, <1>6, <1>7 DEF next

\* What was set aside is staged.
LEMMA StagedRecord ==
  ASSUME NEW r, CommandRecord(r)
  PROVE  LET t == [Staged(r) EXCEPT !.at = "shelf"]
         IN  /\ CommandRecord(t) /\ t.at = "shelf" /\ t.cmd = r.cmd /\ t.prev = r.prev /\ t.publish = r.publish
             /\ t.backup = Absent /\ t.stage = r.stage \cup {<<r.skill, r.backup>>} /\ t.undo = r.undo
             /\ t.retire = r.retire
<1> DEFINE u == Staged(r)
           t == [u EXCEPT !.at = "shelf"]
<1>1. /\ CommandRecord(u) /\ u.cmd = r.cmd /\ u.prev = r.prev /\ u.publish = r.publish
      /\ u.backup = Absent /\ u.stage = r.stage \cup {<<r.skill, r.backup>>} /\ u.undo = r.undo
      /\ u.retire = r.retire
  BY DEF CommandRecord, CommandFields, Staged
<1> HIDE DEF u
<1>2. /\ CommandRecord(t) /\ t.at = "shelf" /\ t.cmd = u.cmd /\ t.prev = u.prev /\ t.publish = u.publish
      /\ t.backup = u.backup /\ t.stage = u.stage /\ t.undo = u.undo /\ t.retire = u.retire
  BY <1>1 DEF CommandRecord, CommandFields
<1> QED BY <1>1, <1>2 DEF u

\* A process back on the shelf with what it staged.
LEMMA StagedOK ==
  ASSUME NEW r, HandsOK(r), FilesOK(r), r.at \in {"retired", "placing"}, OwnedBlindly(r, r.skill) \/ r.backup # User,
         NEW t, CommandRecord(t), t.at = "shelf", t.cmd = r.cmd, t.prev = r.prev, t.publish = r.publish,
         t.retire = r.retire, t.backup = Absent, t.undo = r.undo,
         t.stage = r.stage \/ t.stage = r.stage \cup {<<r.skill, r.backup>>}
  PROVE  HandsOK(t) /\ FilesOK(t)
<1>1. \A s : <<s, User>> \in t.stage => OwnedBlindly(r, s)
  BY DEF HandsOK
<1> QED BY <1>1 DEF HandsOK, FilesOK, AtRest, OnShelf, OverFiles, OwnedBlindly

\* It is staged only if it is what the manifest says; else it is given back.
LEMMA VerifyRetiredStep ==
  ASSUME InstallInv, NEW p \in hplan.procs, VerifyRetired(p)
  PROVE  InstallInv' /\ Kept
<1> DEFINE r == installer[p]
           t == [Staged(r) EXCEPT !.at = "shelf"]
<1>1. UNCHANGED <<hplan, shelfManifest, files, fileManifest, owned>> /\ r.at = "retired"
  BY DEF VerifyRetired, fileVars
<1>2. /\ contentLock = p /\ HandsOK(r) /\ FilesOK(r) /\ NotUsers(r.prev.digests) /\ CommandRecord(r)
      /\ r.skill \in DOMAIN r.prev.digests
  BY <1>1, AtWork DEF AtRest, HandsOK
<1>3. /\ NotUsers(shelfManifest.digests) /\ NotUsers(fileManifest.digests) /\ NotUsers(owned)
  BY DEF InstallInv
<1>4. CASE GiveBack(p)
  BY <1>1, <1>4, GivesBack, SameFiles DEF Kept
<1>5. CASE /\ Accepts(r, {Digest(r.prev.digests, r.skill)}) /\ Put(p, t)
           /\ UNCHANGED <<shelf, kept, contentLock>>
  <2>1. /\ CommandRecord(t) /\ t.at = "shelf" /\ t.cmd = r.cmd /\ t.prev = r.prev /\ t.publish = r.publish
        /\ t.backup = Absent /\ t.stage = r.stage \cup {<<r.skill, r.backup>>} /\ t.undo = r.undo
        /\ t.retire = r.retire
    BY <1>2, StagedRecord
  <2> HIDE DEF t
  <2>2. OwnedBlindly(r, r.skill) \/ r.backup # User
    BY <1>2, <1>5 DEF Accepts, Digest, NotUsers, OwnedBlindly, Absent, User
  <2>3. HandsOK(t) /\ FilesOK(t)
    BY <1>1, <1>2, <2>1, <2>2, StagedOK
  <2>4. installer' = [installer EXCEPT ![p] = t]
    BY <1>5 DEF Put
  <2>5. InstallInv'
    BY <1>1, <1>2, <1>3, <1>5, <2>1, <2>3, <2>4, Moves
  <2>6. \A s : Hands(r, s) => OwnedBlindly(r, s)
    BY <2>2, CleanHands
  <2>7. SkillsKept
    BY <1>1, <1>5, <2>4, <2>6, KeepsSkills
  <2> QED BY <1>1, <2>5, <2>7, SameFiles DEF Kept
<1> QED BY <1>4, <1>5 DEF VerifyRetired

\* A process whose files are fine and whose hands are clean leaves.
LEMMA LeavesShelf ==
  ASSUME InstallInv, NEW p \in hplan.procs, installer[p].at \notin AtRest, Leave(p), UNCHANGED <<hplan, shelf>>,
         NotUsers(shelfManifest'.digests), NotUsers(fileManifest'.digests), NotUsers(owned'),
         kept \subseteq kept', installer[p].backup # User
  PROVE  InstallInv' /\ SkillsKept
<1>1. contentLock = p
  BY AtWork
<1> QED BY <1>1, Leaves, LeavesSkills

\* Skills are published in the order of their names; one that is there is set aside first.
LEMMA PublishSkillStep ==
  ASSUME InstallInv, NEW p \in hplan.procs, PublishSkill(p)
  PROVE  InstallInv' /\ Kept
<1> DEFINE r == installer[p]
           s == Min(r.publish)
           next == [r EXCEPT !.publish = @ \ {s}]
<1>1. /\ UNCHANGED <<hplan, shelfManifest, kept, files, fileManifest, owned>>
      /\ r.at = "shelf" /\ r.publish # {}
  BY DEF PublishSkill, fileVars
<1>2. /\ HandsOK(r) /\ CommandRecord(r) /\ FilesOK(r) /\ r.publish \subseteq SkillsOf(r.cmd.ver)
      /\ SkillsOf(r.cmd.ver) \subseteq Nat /\ r.backup = Absent /\ r.retire \subseteq DOMAIN r.prev.digests
      /\ NotUsers(shelfManifest.digests) /\ NotUsers(fileManifest.digests) /\ NotUsers(owned)
  BY <1>1, AtWork DEF AtRest, HandsOK, OnShelf, SkillsOf
<1>3. s \in r.publish
  <2>1. \E m \in r.publish : \A x \in r.publish : m <= x
    BY <1>1, <1>2, LeastMember
  <2> QED BY <2>1 DEF Min
<1> HIDE DEF s
<1>4. /\ CommandRecord(next) /\ next.at = "shelf" /\ next.cmd = r.cmd /\ next.prev = r.prev
      /\ next.publish = r.publish \ {s} /\ next.skill = r.skill /\ next.backup = r.backup
      /\ next.stage = r.stage /\ next.undo = r.undo /\ next.retire = r.retire
  BY <1>1, <1>2 DEF CommandRecord, CommandFields
<1> HIDE DEF next
<1>5. CASE Put(p, next) /\ UNCHANGED <<shelf, contentLock>>
  <2>1. FilesOK(next)
    BY <1>1, <1>2, <1>4 DEF FilesOK, AtRest, OnShelf, OverFiles
  <2>2. InstallInv' /\ SkillsKept
    BY <1>1, <1>2, <1>4, <1>5, <2>1, GoesAhead DEF AtRest, HandsOK, OnShelf
  <2> QED BY <1>1, <2>2, SameFiles DEF Kept
<1>6. CASE shelf[s] = Absent /\ Put(p, [next EXCEPT !.at = "placing", !.skill = s]) /\ UNCHANGED <<shelf, contentLock>>
  <2> DEFINE t == [next EXCEPT !.at = "placing", !.skill = s]
  <2>1. /\ CommandRecord(t) /\ t.at = "placing" /\ t.cmd = next.cmd /\ t.prev = next.prev /\ t.skill = s
        /\ t.publish = next.publish /\ t.backup = next.backup /\ t.stage = next.stage /\ t.undo = next.undo
        /\ t.retire = next.retire
    BY <1>4 DEF CommandRecord, CommandFields
  <2>2. installer' = [installer EXCEPT ![p] = t]
    BY <1>6 DEF Put
  <2> HIDE DEF t
  <2>3. HandsOK(t) /\ FilesOK(t) /\ contentLock = p
    BY <1>1, <1>2, <1>4, <2>1, AtWork DEF HandsOK, FilesOK, AtRest, OnShelf, OverFiles, OwnedBlindly, Absent, User
  <2>4. InstallInv'
    BY <1>1, <1>2, <1>6, <2>1, <2>2, <2>3, Moves
  <2>5. \A x : Hands(r, x) => OwnedBlindly(r, x)
    BY <1>1, CleanHands
  <2>6. SkillsKept
    BY <1>1, <1>6, <2>2, <2>5, KeepsSkills
  <2> QED BY <1>1, <2>4, <2>6, SameFiles DEF Kept
<1>7. CASE /\ SetAside(p, s, [next EXCEPT !.at = "replaced"]) /\ UNCHANGED contentLock
           /\ s \in DOMAIN r.prev.digests
  <2> DEFINE u == [next EXCEPT !.at = "replaced"]
             t == [u EXCEPT !.skill = s, !.backup = shelf[s]]
  <2>1. installer' = [installer EXCEPT ![p] = t] /\ shelf' = [shelf EXCEPT ![s] = Absent]
    BY <1>7 DEF SetAside, Put
  <2>2. /\ CommandRecord(u) /\ u.at = "replaced" /\ u.cmd = next.cmd /\ u.prev = next.prev /\ u.publish = next.publish
        /\ u.stage = next.stage /\ u.undo = next.undo /\ u.retire = next.retire
    BY <1>4 DEF CommandRecord, CommandFields
  <2> HIDE DEF u
  <2>3. /\ CommandRecord(t) /\ t.at = "replaced" /\ t.cmd = next.cmd /\ t.prev = next.prev /\ t.publish = next.publish
        /\ t.skill = s /\ t.backup = shelf[s] /\ t.stage = next.stage /\ t.undo = next.undo
        /\ t.retire = next.retire
    BY <2>2 DEF CommandRecord, CommandFields
  <2> HIDE DEF t
  <2>4. InstallInv' /\ SkillsKept
    BY <1>1, <1>2, <1>3, <1>4, <1>7, <2>1, <2>3, SetsAside
  <2> QED BY <1>1, <2>4, SameFiles DEF Kept
<1>8. CASE Leave(p) /\ UNCHANGED shelf
  BY <1>1, <1>2, <1>8, LeavesShelf, SameFiles DEF Kept, AtRest, Absent, User
<1> QED BY <1>5, <1>6, <1>7, <1>8 DEF PublishSkill, next, s

\* What was set aside is replaced only if it is what the manifest or the version says.
LEMMA VerifyReplacedStep ==
  ASSUME InstallInv, NEW p \in hplan.procs, VerifyReplaced(p)
  PROVE  InstallInv' /\ Kept
<1> DEFINE r == installer[p]
           fine == {Digest(r.prev.digests, r.skill), Shipped(r.cmd.ver).skills[r.skill]}
           t == [r EXCEPT !.at = "placing"]
<1>1. UNCHANGED <<hplan, shelfManifest, files, fileManifest, owned>> /\ r.at = "replaced"
  BY DEF VerifyReplaced, fileVars
<1>2. /\ contentLock = p /\ HandsOK(r) /\ FilesOK(r) /\ NotUsers(r.prev.digests) /\ CommandRecord(r)
      /\ r.skill \in SkillsOf(r.cmd.ver) /\ NotUsers(Shipped(r.cmd.ver).skills)
      /\ r.skill \in DOMAIN r.prev.digests
  BY <1>1, AtWork DEF AtRest, HandsOK
<1>3. NotUsers(shelfManifest.digests) /\ NotUsers(fileManifest.digests) /\ NotUsers(owned)
  BY DEF InstallInv
<1>4. CASE GiveBack(p)
  BY <1>1, <1>4, GivesBack, SameFiles DEF Kept
<1>5. CASE Accepts(r, fine) /\ Put(p, t) /\ UNCHANGED <<shelf, kept, contentLock>>
  <2>1. /\ CommandRecord(t) /\ t.at = "placing" /\ t.cmd = r.cmd /\ t.prev = r.prev /\ t.publish = r.publish
        /\ t.skill = r.skill /\ t.backup = r.backup /\ t.stage = r.stage /\ t.undo = r.undo /\ t.retire = r.retire
    BY <1>2 DEF CommandRecord, CommandFields
  <2>2. OwnedBlindly(r, r.skill) \/ r.backup # User
    BY <1>2, <1>5 DEF Accepts, Digest, NotUsers, SkillsOf, OwnedBlindly, Absent, User
  <2> HIDE DEF t
  <2>3. HandsOK(t) /\ FilesOK(t)
    BY <1>1, <1>2, <2>1, <2>2 DEF HandsOK, FilesOK, AtRest, OnShelf, OverFiles, OwnedBlindly
  <2>4. installer' = [installer EXCEPT ![p] = t]
    BY <1>5 DEF Put
  <2>5. InstallInv'
    BY <1>1, <1>2, <1>3, <1>5, <2>1, <2>3, <2>4, Moves
  <2>6. \A s : Hands(r, s) => OwnedBlindly(r, s)
    BY <2>2, CleanHands
  <2>7. SkillsKept
    BY <1>1, <1>5, <2>4, <2>6, KeepsSkills
  <2> QED BY <1>1, <2>5, <2>7, SameFiles DEF Kept
<1> QED BY <1>4, <1>5 DEF VerifyReplaced

\* The new skill is put only where nothing is.
LEMMA PlaceSkillStep ==
  ASSUME InstallInv, NEW p \in hplan.procs, PlaceSkill(p)
  PROVE  InstallInv' /\ Kept
<1> DEFINE r == installer[p]
<1>1. UNCHANGED <<hplan, shelfManifest, files, fileManifest, owned>> /\ r.at = "placing"
  BY DEF PlaceSkill, fileVars
<1>2. /\ contentLock = p /\ HandsOK(r) /\ FilesOK(r) /\ CommandRecord(r)
      /\ OwnedBlindly(r, r.skill) \/ r.backup # User
  BY <1>1, AtWork DEF AtRest, HandsOK
<1>3. NotUsers(shelfManifest.digests) /\ NotUsers(fileManifest.digests) /\ NotUsers(owned)
  BY DEF InstallInv
<1>4. CASE GiveBack(p)
  BY <1>1, <1>4, GivesBack, SameFiles DEF Kept
<1>5. CASE r.backup = Absent /\ Leave(p) /\ UNCHANGED <<shelf, kept>>
  BY <1>1, <1>3, <1>5, LeavesShelf, SameFiles DEF Kept, AtRest, Absent, User
<1>6. CASE /\ shelf[r.skill] = Absent
           /\ shelf' = [shelf EXCEPT ![r.skill] = Shipped(r.cmd.ver).skills[r.skill]]
           /\ Put(p, [(IF r.backup = Absent THEN r ELSE Staged(r)) EXCEPT !.at = "shelf"])
           /\ UNCHANGED <<kept, contentLock>>
  <2>1. PICK t : /\ installer' = [installer EXCEPT ![p] = t] /\ CommandRecord(t) /\ t.at = "shelf" /\ t.cmd = r.cmd
                 /\ t.prev = r.prev /\ t.publish = r.publish /\ t.retire = r.retire /\ t.backup = Absent
                 /\ t.undo = r.undo
                 /\ t.stage = r.stage \/ t.stage = r.stage \cup {<<r.skill, r.backup>>}
    <3> DEFINE t == [r EXCEPT !.at = "shelf"]
               u == [Staged(r) EXCEPT !.at = "shelf"]
    <3>1. CASE r.backup = Absent
      <4>1. /\ CommandRecord(t) /\ t.at = "shelf" /\ t.cmd = r.cmd /\ t.prev = r.prev /\ t.publish = r.publish
            /\ t.retire = r.retire /\ t.backup = r.backup /\ t.undo = r.undo /\ t.stage = r.stage
        BY <1>2 DEF CommandRecord, CommandFields
      <4>2. installer' = [installer EXCEPT ![p] = t]
        BY <1>6, <3>1 DEF Put
      <4> HIDE DEF t
      <4> QED BY <3>1, <4>1, <4>2
    <3>2. CASE r.backup # Absent
      <4>1. /\ CommandRecord(u) /\ u.at = "shelf" /\ u.cmd = r.cmd /\ u.prev = r.prev /\ u.publish = r.publish
            /\ u.retire = r.retire /\ u.backup = Absent /\ u.undo = r.undo
            /\ u.stage = r.stage \cup {<<r.skill, r.backup>>}
        BY <1>2, StagedRecord
      <4>2. installer' = [installer EXCEPT ![p] = u]
        BY <1>6, <3>2 DEF Put
      <4> HIDE DEF u
      <4> QED BY <4>1, <4>2
    <3> QED BY <3>1, <3>2
  <2>2. HandsOK(t) /\ FilesOK(t)
    BY <1>1, <1>2, <2>1, StagedOK
  <2>3. InstallInv'
    BY <1>1, <1>2, <1>3, <1>6, <2>1, <2>2, Moves
  <2>4. \A s : Hands(r, s) => OwnedBlindly(r, s)
    BY <1>2, CleanHands
  <2>5. \A s \in DOMAIN shelf : shelf[s] = User => shelf'[s] = User
    BY <1>6 DEF Absent, User
  <2>6. SkillsKept
    BY <1>1, <1>6, <2>1, <2>4, <2>5, KeepsSkills
  <2> QED BY <1>1, <2>3, <2>6, SameFiles DEF Kept
<1> QED BY <1>4, <1>5, <1>6 DEF PlaceSkill

\* The manifest records what was published and what was left alone.
LEMMA WriteShelfManifestStep ==
  ASSUME InstallInv, NEW p \in hplan.procs, WriteShelfManifest(p)
  PROVE  InstallInv' /\ Kept
<1> DEFINE r == installer[p]
           t == [r EXCEPT !.at = "agents", !.stage = {}]
<1>1. UNCHANGED <<hplan, shelf, kept, files, fileManifest, owned>> /\ r.at = "shelf"
  BY DEF WriteShelfManifest, fileVars
<1>2. /\ contentLock = p /\ HandsOK(r) /\ FilesOK(r) /\ CommandRecord(r) /\ r.backup = Absent
      /\ NotUsers(r.prev.digests) /\ NotUsers(Shipped(r.cmd.ver).skills)
      /\ NotUsers(fileManifest.digests) /\ NotUsers(owned)
  BY <1>1, AtWork DEF AtRest, HandsOK
<1>3. NotUsers(shelfManifest'.digests)
  BY <1>2 DEF WriteShelfManifest, NotUsers, SkillsOf
<1>4. CASE Leave(p)
  BY <1>1, <1>2, <1>3, <1>4, LeavesShelf, SameFiles DEF Kept, AtRest, Absent, User
<1>5. CASE Put(p, t) /\ UNCHANGED contentLock
  <2>1. /\ CommandRecord(t) /\ t.at = "agents" /\ t.cmd = r.cmd /\ t.prev = r.prev /\ t.stage = {}
        /\ t.skill = r.skill /\ t.backup = r.backup /\ t.undo = r.undo
    BY <1>2 DEF CommandRecord, CommandFields
  <2> HIDE DEF t
  <2>2. FilesOK(t)
    BY <1>1, <1>2, <2>1 DEF FilesOK, AtRest, OnShelf, OverFiles
  <2>3. InstallInv' /\ SkillsKept
    BY <1>1, <1>2, <1>3, <1>5, <2>1, <2>2, GoesAhead DEF AtRest, OnShelf
  <2> QED BY <1>1, <2>3, SameFiles DEF Kept
<1> QED BY <1>4, <1>5 DEF WriteShelfManifest

\* Where a process has its skills behind it.
PastShelf(r) == r.at \notin AtRest \cup OnShelf \cup {"skills"}

\* Its hands do not change any more.
SameHands(r, t) ==
  /\ CommandRecord(t) /\ t.cmd = r.cmd /\ t.prev = r.prev
  /\ t.stage = r.stage /\ t.skill = r.skill /\ t.backup = r.backup

\* A step past the shelf that changes no hands.
LEMMA GoesOn ==
  ASSUME InstallInv, NEW p \in hplan.procs, NEW t, PastShelf(installer[p]), PastShelf(t), Put(p, t),
         UNCHANGED <<hplan, shelfVars, contentLock>>, SameHands(installer[p], t),
         NotUsers(fileManifest'.digests), NotUsers(owned'), FilesOK(t),
         t.at = "recheck" => DOMAIN t.snap = DOMAIN fileManifest'.digests \cup ArtifactsOf(t.cmd.ver),
         t.at = "dropRule" => "rule" \in DOMAIN owned'
  PROVE  InstallInv' /\ SkillsKept
<1>1. /\ installer[p].at \notin AtRest /\ t.at \notin AtRest \cup {"skills"} /\ t.at \notin OnShelf
      /\ installer[p].at \notin {"retired", "replaced", "placing"}
      /\ t.at \notin {"retired", "replaced", "placing"}
  BY DEF PastShelf, OnShelf
<1>2. HandsOK(installer[p]) /\ NotUsers(shelfManifest.digests)
  BY <1>1, AtWork
<1>3. t.backup = Absent
  BY <1>1, <1>2 DEF HandsOK, SameHands
<1>4. UNCHANGED <<shelf, shelfManifest, kept>>
  BY DEF shelfVars
<1>5. t.at # "placing" /\ t.at \notin {"retired", "replaced"}
  BY <1>1
<1> QED BY <1>1, <1>2, <1>3, <1>4, <1>5, GoesAhead DEF SameHands

\* A command past the shelf that ends has nothing of the user's.
LEMMA LeavesFiles ==
  ASSUME InstallInv, NEW p \in hplan.procs, PastShelf(installer[p]), Leave(p),
         UNCHANGED <<hplan, shelfVars, files, fileManifest, owned>>
  PROVE  InstallInv' /\ Kept
<1>1. installer[p].at \notin AtRest /\ installer[p].at \notin {"retired", "replaced", "placing"}
  BY DEF PastShelf, OnShelf
<1>2. /\ HandsOK(installer[p])
      /\ NotUsers(shelfManifest.digests) /\ NotUsers(fileManifest.digests) /\ NotUsers(owned)
  BY <1>1, AtWork
<1>3. installer[p].backup # User
  BY <1>1, <1>2 DEF HandsOK, Absent, User
<1> QED BY <1>1, <1>2, <1>3, LeavesShelf, SameFiles DEF Kept, shelfVars

\* A step to another place in which no more than the place changes.
LEMMA PlaceRecord ==
  ASSUME NEW r, CommandRecord(r), NEW a
  PROVE  LET t == [r EXCEPT !.at = a]
         IN  SameHands(r, t) /\ t.at = a /\ t.snap = r.snap /\ t.undo = r.undo
BY DEF CommandRecord, CommandFields, SameHands

\* Lists with something put before them, and what is left after the first of them.
LEMMA ListEnds ==
  ASSUME NEW S, NEW q \in Seq(S)
  PROVE  /\ \A x \in S : <<x>> \o q \in Seq(S)
         /\ q # <<>> => Head(q) \in S /\ Tail(q) \in Seq(S)
OBVIOUS

\* The agents folder is none of the files the manifest is about.
LEMMA SyncAgentsStep ==
  ASSUME InstallInv, NEW p \in hplan.procs, SyncAgents(p)
  PROVE  InstallInv' /\ Kept
<1> DEFINE t == [installer[p] EXCEPT !.at = "adapters"]
<1>1. /\ UNCHANGED <<hplan, shelfVars, contentLock, files, fileManifest, owned>>
      /\ installer[p].at = "agents" /\ Put(p, t)
  BY DEF SyncAgents
<1>2. /\ CommandRecord(installer[p]) /\ FilesOK(installer[p]) /\ NotUsers(fileManifest.digests) /\ NotUsers(owned)
  BY <1>1, AtWork DEF AtRest, HandsOK
<1>3. SameHands(installer[p], t) /\ t.at = "adapters" /\ t.undo = installer[p].undo
  BY <1>2, PlaceRecord
<1> HIDE DEF t
<1>4. FilesOK(t) /\ PastShelf(t) /\ PastShelf(installer[p])
  BY <1>1, <1>2, <1>3 DEF FilesOK, AtRest, OnShelf, OverFiles, PastShelf
<1>5. InstallInv' /\ SkillsKept
  BY <1>1, <1>2, <1>3, <1>4, GoesOn
<1> QED BY <1>1, <1>5, SameFiles DEF Kept

\* A snapshot is taken only if no file is the user's.
LEMMA PreflightFilesStep ==
  ASSUME InstallInv, NEW p \in hplan.procs, PreflightFiles(p)
  PROVE  InstallInv' /\ Kept
<1> DEFINE r == installer[p]
           snap == SnapshotOf(r.cmd.ver)
           t == [r EXCEPT !.at = "recheck", !.snap = snap]
<1>1. UNCHANGED <<hplan, shelfVars, files, fileManifest, owned>> /\ r.at = "adapters"
  BY DEF PreflightFiles, fileVars
<1>2. /\ CommandRecord(r) /\ FilesOK(r) /\ NotUsers(fileManifest.digests) /\ NotUsers(owned)
      /\ NotUsers(Shipped(r.cmd.ver).artifacts) /\ PastShelf(r)
  BY <1>1, AtWork DEF AtRest, HandsOK, PastShelf, OnShelf
<1>3. CASE Refuse(p)
  BY <1>1, <1>2, <1>3, LeavesFiles DEF Refuse
<1>4. CASE RefusedFiles(r.cmd.ver) = {} /\ Put(p, t) /\ UNCHANGED contentLock
  <2>1. DOMAIN snap = DOMAIN fileManifest.digests \cup ArtifactsOf(r.cmd.ver)
    BY DEF SnapshotOf
  <2>2. NotUsers(snap)
    <3> SUFFICES ASSUME NEW f \in DOMAIN fileManifest.digests \cup ArtifactsOf(r.cmd.ver), files[f] = User PROVE FALSE
      BY DEF SnapshotOf, NotUsers
    <3>1. CASE f \in DOMAIN fileManifest.digests
      <4>1. files[f] \in {Absent, fileManifest.digests[f], Digest(Shipped(r.cmd.ver).artifacts, f)}
        BY <1>4, <3>1 DEF RefusedFiles
      <4>2. Digest(Shipped(r.cmd.ver).artifacts, f) # User
        BY <1>2 DEF Digest, NotUsers, Absent, User
      <4> QED BY <1>2, <3>1, <4>1, <4>2 DEF NotUsers, Absent, User
    <3>2. CASE f \in ArtifactsOf(r.cmd.ver) \ DOMAIN fileManifest.digests
      <4>1. files[f] \in {Absent, Shipped(r.cmd.ver).artifacts[f]}
        BY <1>4, <3>2 DEF RefusedFiles
      <4> QED BY <1>2, <3>2, <4>1 DEF NotUsers, ArtifactsOf, Absent, User
    <3> QED BY <3>1, <3>2
  <2> HIDE DEF snap
  <2>3. SameHands(r, t) /\ t.at = "recheck" /\ t.undo = r.undo /\ t.snap = snap
    BY <1>2 DEF CommandRecord, CommandFields, SameHands
  <2> HIDE DEF t
  <2>4. FilesOK(t) /\ PastShelf(t)
    BY <1>1, <1>2, <2>2, <2>3 DEF FilesOK, AtRest, OnShelf, OverFiles, PastShelf
  <2>5. InstallInv' /\ SkillsKept
    BY <1>1, <1>2, <1>4, <2>1, <2>3, <2>4, GoesOn DEF SameHands
  <2> QED BY <1>1, <2>5, SameFiles DEF Kept
<1> QED BY <1>3, <1>4 DEF PreflightFiles

\* What is to be written and removed is part of the snapshot.
LEMMA RecheckFilesStep ==
  ASSUME InstallInv, NEW p \in hplan.procs, RecheckFiles(p)
  PROVE  InstallInv' /\ Kept
<1> DEFINE r == installer[p]
           write == ArtifactsOf(r.cmd.ver)
           remove == DOMAIN fileManifest.digests \ ArtifactsOf(r.cmd.ver)
           t == [r EXCEPT !.at = "artifact", !.write = write, !.remove = remove]
<1>1. UNCHANGED <<hplan, shelfVars, files, fileManifest, owned>> /\ r.at = "recheck"
  BY DEF RecheckFiles, fileVars
<1>2. /\ CommandRecord(r) /\ FilesOK(r) /\ LockedOK(r) /\ NotUsers(fileManifest.digests) /\ NotUsers(owned)
      /\ PastShelf(r)
  BY <1>1, AtWork DEF AtRest, HandsOK, PastShelf, OnShelf
<1>3. CASE Refuse(p)
  BY <1>1, <1>2, <1>3, LeavesFiles DEF Refuse
<1>4. CASE Put(p, t) /\ UNCHANGED contentLock
  <2>1. remove \cup write \subseteq DOMAIN r.snap
    BY <1>1, <1>2 DEF LockedOK
  <2> HIDE DEF write, remove
  <2>2. /\ SameHands(r, t) /\ t.at = "artifact" /\ t.undo = r.undo /\ t.snap = r.snap
        /\ t.write = write /\ t.remove = remove
    BY <1>2 DEF CommandRecord, CommandFields, SameHands
  <2> HIDE DEF t
  <2>3. r.undo = <<>> /\ NotUsers(r.snap)
    BY <1>1, <1>2 DEF FilesOK, AtRest, OnShelf, OverFiles
  <2>4. FilesOK(t) /\ PastShelf(t)
    BY <2>1, <2>2, <2>3 DEF FilesOK, AtRest, OnShelf, OverFiles, PastShelf
  <2>5. InstallInv' /\ SkillsKept
    BY <1>1, <1>2, <1>4, <2>2, <2>4, GoesOn
  <2> QED BY <1>1, <2>5, SameFiles DEF Kept
<1> QED BY <1>3, <1>4 DEF RecheckFiles

\* The file that is next is compared with its snapshot.
LEMMA EnsureUnchangedStep ==
  ASSUME InstallInv, NEW p \in hplan.procs, EnsureUnchanged(p)
  PROVE  InstallInv' /\ Kept
<1> DEFINE r == installer[p]
<1>1. UNCHANGED <<hplan, shelfVars, files, fileManifest, owned, contentLock>> /\ r.at = "artifact"
  BY DEF EnsureUnchanged, fileVars
<1>2. /\ CommandRecord(r) /\ FilesOK(r) /\ NotUsers(fileManifest.digests) /\ NotUsers(owned) /\ PastShelf(r)
  BY <1>1, AtWork DEF AtRest, HandsOK, PastShelf, OnShelf
<1>3. PICK f \in r.remove \cup r.write, a \in {"mutate", "undo"} : Put(p, [r EXCEPT !.at = a, !.file = f])
  BY DEF EnsureUnchanged
<1> DEFINE t == [r EXCEPT !.at = a, !.file = f]
<1>4. /\ SameHands(r, t) /\ t.at = a /\ t.undo = r.undo /\ t.snap = r.snap /\ t.file = f
      /\ t.write = r.write /\ t.remove = r.remove
  BY <1>2 DEF CommandRecord, CommandFields, SameHands
<1>5. Put(p, t)
  BY <1>3
<1> HIDE DEF t
<1>6. FilesOK(t) /\ PastShelf(t)
  BY <1>1, <1>2, <1>4 DEF FilesOK, AtRest, OnShelf, OverFiles, PastShelf
<1>7. InstallInv' /\ SkillsKept
  BY <1>1, <1>2, <1>4, <1>5, <1>6, GoesOn
<1> QED BY <1>1, <1>7, SameFiles DEF Kept

\* A file is written after its snapshot was taken, which was not the user's.
LEMMA MutateFileStep ==
  ASSUME InstallInv, NEW p \in hplan.procs, MutateFile(p)
  PROVE  InstallInv' /\ Kept
<1> DEFINE r == installer[p]
           f == r.file
           new == IF f \in r.remove THEN Absent ELSE Shipped(r.cmd.ver).artifacts[f]
           remove == r.remove \ {f}
           write == IF f \in r.remove THEN r.write ELSE r.write \ {f}
           undo == IF new = r.snap[f] THEN r.undo ELSE <<f>> \o r.undo
           t == [r EXCEPT !.at = "artifact", !.remove = remove, !.write = write, !.undo = undo]
<1>1. /\ UNCHANGED <<hplan, shelfVars, fileManifest, owned, contentLock>> /\ r.at = "mutate"
      /\ files' = [files EXCEPT ![f] = new] /\ Put(p, t)
  BY DEF MutateFile
<1>2. /\ CommandRecord(r) /\ FilesOK(r) /\ NotUsers(fileManifest.digests) /\ NotUsers(owned) /\ PastShelf(r)
  BY <1>1, AtWork DEF AtRest, HandsOK, PastShelf, OnShelf
<1>3. /\ r.remove \cup r.write \subseteq DOMAIN r.snap /\ f \in DOMAIN r.snap /\ r.undo \in Seq(DOMAIN r.snap)
      /\ NotUsers(r.snap)
  BY <1>1, <1>2 DEF FilesOK, OverFiles
<1>4. undo \in Seq(DOMAIN r.snap)
  <2>1. <<f>> \o r.undo \in Seq(DOMAIN r.snap)
    BY <1>3, ListEnds
  <2> QED BY <1>3, <2>1
<1>5. remove \cup write \subseteq DOMAIN r.snap
  BY <1>3
<1>6. FilesKept
  BY <1>1, <1>3 DEF FilesKept, NotUsers
<1> HIDE DEF new, remove, write, undo
<1>7. t = [x \in CommandFields |-> IF x = "at" THEN "artifact" ELSE IF x = "remove" THEN remove
                            ELSE IF x = "write" THEN write ELSE IF x = "undo" THEN undo ELSE r[x]]
  BY <1>2 DEF CommandRecord, CommandFields
<1> HIDE DEF t
<1>8. /\ SameHands(r, t) /\ t.at = "artifact" /\ t.undo = undo /\ t.snap = r.snap
      /\ t.write = write /\ t.remove = remove
  BY <1>7 DEF CommandRecord, CommandFields, SameHands
<1>9. FilesOK(t) /\ PastShelf(t)
  BY <1>3, <1>4, <1>5, <1>8 DEF FilesOK, AtRest, OnShelf, OverFiles, PastShelf
<1>10. InstallInv' /\ SkillsKept
  BY <1>1, <1>2, <1>8, <1>9, GoesOn
<1> QED BY <1>6, <1>10 DEF Kept

\* What a rollback overwrites was in the snapshot too.
LEMMA RollBackStep ==
  ASSUME InstallInv, NEW p \in hplan.procs, RollBack(p)
  PROVE  InstallInv' /\ Kept
<1> DEFINE r == installer[p]
           rest == Tail(r.undo)
           t == [r EXCEPT !.undo = rest]
<1>1. UNCHANGED <<hplan, shelfVars, fileManifest, owned>> /\ r.at = "undo"
  BY DEF RollBack
<1>2. /\ CommandRecord(r) /\ FilesOK(r) /\ NotUsers(fileManifest.digests) /\ NotUsers(owned) /\ PastShelf(r)
  BY <1>1, AtWork DEF AtRest, HandsOK, PastShelf, OnShelf
<1>3. CASE Refuse(p) /\ UNCHANGED files
  BY <1>1, <1>2, <1>3, LeavesFiles DEF Refuse
<1>4. CASE /\ r.undo # <<>> /\ files' = [files EXCEPT ![Head(r.undo)] = r.snap[Head(r.undo)]]
           /\ Put(p, t) /\ UNCHANGED contentLock
  <2>1. r.undo \in Seq(DOMAIN r.snap) /\ NotUsers(r.snap)
    BY <1>1, <1>2 DEF FilesOK, OverFiles
  <2>2. rest \in Seq(DOMAIN r.snap) /\ Head(r.undo) \in DOMAIN r.snap
    BY <1>4, <2>1, ListEnds
  <2>3. FilesKept
    BY <1>4, <2>1, <2>2 DEF FilesKept, NotUsers
  <2> HIDE DEF rest
  <2>4. /\ SameHands(r, t) /\ t.at = "undo" /\ t.undo = rest /\ t.snap = r.snap
    BY <1>1, <1>2 DEF CommandRecord, CommandFields, SameHands
  <2> HIDE DEF t
  <2>5. FilesOK(t) /\ PastShelf(t)
    BY <2>1, <2>2, <2>4 DEF FilesOK, AtRest, OnShelf, OverFiles, PastShelf
  <2>6. InstallInv' /\ SkillsKept
    BY <1>1, <1>2, <1>4, <2>4, <2>5, GoesOn
  <2> QED BY <2>3, <2>6 DEF Kept
<1> QED BY <1>3, <1>4 DEF RollBack

\* The manifest names what this version ships.
LEMMA WriteFileManifestStep ==
  ASSUME InstallInv, NEW p \in hplan.procs, WriteFileManifest(p)
  PROVE  InstallInv' /\ Kept
<1> DEFINE t == [installer[p] EXCEPT !.at = "rule"]
<1>1. /\ UNCHANGED <<hplan, shelfVars, contentLock, files, owned>>
      /\ installer[p].at = "artifact" /\ Put(p, t)
      /\ fileManifest'.digests = Shipped(installer[p].cmd.ver).artifacts
  BY DEF WriteFileManifest
<1>2. /\ CommandRecord(installer[p]) /\ FilesOK(installer[p]) /\ NotUsers(fileManifest'.digests) /\ NotUsers(owned)
  BY <1>1, AtWork DEF AtRest, HandsOK
<1>3. SameHands(installer[p], t) /\ t.at = "rule"
  BY <1>2, PlaceRecord
<1> HIDE DEF t
<1>4. FilesOK(t) /\ PastShelf(t) /\ PastShelf(installer[p])
  BY <1>1, <1>2, <1>3 DEF FilesOK, AtRest, OnShelf, OverFiles, PastShelf
<1>5. InstallInv' /\ SkillsKept
  BY <1>1, <1>2, <1>3, <1>4, GoesOn
<1> QED BY <1>1, <1>5, SameFiles DEF Kept

\* What is decided about the rule is one of four things; to converge means that the
\* rule and the block are not the user's.
LEMMA RuleDecision ==
  ASSUME NEW c, NotUsers(owned), Shipped(c.ver).rule # User
  PROVE  /\ RuleStep(c) \in {"refuse", "leave", "retire", "converge"}
         /\ RuleStep(c) = "converge" => files["rule"] # User /\ files["guidance"] # User
<1>1. RuleGoal(c) \in {"refuse", "leave", "retire", "converge"}
  BY DEF RuleGoal
<1>2. /\ RuleAt(c) \in {"refuse", "leave", "converge"}
      /\ RuleAt(c) = "converge" => files["rule"] # User
  BY DEF RuleAt, Owns, NotUsers, Absent, User
<1>3. /\ GuidanceAt(c) \in {"refuse", "converge"}
      /\ GuidanceAt(c) = "converge" => files["guidance"] # User
  BY DEF GuidanceAt, Owns, NotUsers, Absent, User
<1> QED BY <1>1, <1>2, <1>3 DEF RuleStep

\* The rule is converged only over files that are not the user's.
LEMMA DecideRuleStep ==
  ASSUME InstallInv, NEW p \in hplan.procs, DecideRule(p)
  PROVE  InstallInv' /\ Kept
<1> DEFINE r == installer[p]
           step == RuleStep(r.cmd)
           snap == [x \in RuleParts |-> files[x]]
<1>1. UNCHANGED <<hplan, shelfVars, files, fileManifest, owned>> /\ r.at = "rule"
  BY DEF DecideRule, fileVars
<1>2. /\ CommandRecord(r) /\ FilesOK(r) /\ NotUsers(fileManifest.digests) /\ NotUsers(owned) /\ PastShelf(r)
      /\ Shipped(r.cmd.ver).rule # User
  BY <1>1, AtWork DEF AtRest, HandsOK, PastShelf, OnShelf
<1>3. CASE Refuse(p)
  BY <1>1, <1>2, <1>3, LeavesFiles DEF Refuse
<1>4. CASE step # "refuse" /\ ~ Refuse(p)
  <2>1. step \in {"leave", "retire", "converge"} /\ (step = "converge" => NotUsers(snap)) /\ DOMAIN snap = RuleParts
    BY <1>2, <1>4, RuleDecision DEF NotUsers, RuleParts
  <2> DEFINE a == CASE step = "leave" -> "mark"
                    [] step = "retire" -> IF Owns("rule") THEN "dropRule" ELSE "dropGuidance"
                    [] step = "converge" -> "guidance"
             t == [r EXCEPT !.at = a, !.snap = snap]
  <2>2. Put(p, t) /\ UNCHANGED contentLock
    BY <1>4 DEF DecideRule
  <2>3. /\ a \in {"mark", "dropRule", "dropGuidance", "guidance"}
        /\ a = "dropRule" => Owns("rule")
        /\ a = "guidance" => step = "converge"
    BY <2>1
  <2> HIDE DEF a, snap
  <2>4. SameHands(r, t) /\ t.at = a /\ t.undo = r.undo /\ t.snap = snap
    BY <1>2 DEF CommandRecord, CommandFields, SameHands
  <2> HIDE DEF t
  <2>5. FilesOK(t) /\ PastShelf(t)
    BY <1>1, <1>2, <2>1, <2>3, <2>4 DEF FilesOK, AtRest, OnShelf, OverFiles, PastShelf
  <2>6. InstallInv' /\ SkillsKept
    BY <1>1, <1>2, <2>2, <2>3, <2>4, <2>5, GoesOn DEF Owns
  <2> QED BY <1>1, <2>6, SameFiles DEF Kept
<1> QED BY <1>3, <1>4 DEF DecideRule

\* The rule and the block are written over what the decision saw.
LEMMA WriteRuleStep ==
  ASSUME InstallInv, NEW p \in hplan.procs, WriteGuidance(p) \/ WriteRule(p)
  PROVE  InstallInv' /\ Kept
<1> DEFINE r == installer[p]
<1>1. PICK part \in RuleParts, a \in {"writeRule", "ruleManifest"} :
        /\ (\E text : files' = [files EXCEPT ![part] = text]) /\ Put(p, [r EXCEPT !.at = a])
        /\ r.at \in {"guidance", "writeRule"}
        /\ UNCHANGED <<hplan, shelfVars, fileManifest, owned, contentLock>>
  BY DEF WriteGuidance, WriteRule, RuleParts
<1>2. /\ CommandRecord(r) /\ FilesOK(r) /\ NotUsers(fileManifest.digests) /\ NotUsers(owned) /\ PastShelf(r)
  BY <1>1, AtWork DEF AtRest, HandsOK, PastShelf, OnShelf
<1> DEFINE t == [r EXCEPT !.at = a]
<1>3. SameHands(r, t) /\ t.at = a /\ t.snap = r.snap
  BY <1>2, PlaceRecord
<1>4. Put(p, t)
  BY <1>1
<1> HIDE DEF t
<1>5. RuleParts \subseteq DOMAIN r.snap /\ NotUsers(r.snap)
  BY <1>1, <1>2 DEF FilesOK
<1>6. FilesOK(t) /\ PastShelf(t)
  BY <1>3, <1>5 DEF FilesOK, AtRest, OnShelf, OverFiles, PastShelf
<1>7. InstallInv' /\ SkillsKept
  BY <1>1, <1>2, <1>3, <1>4, <1>6, GoesOn
<1>8. FilesKept
  BY <1>1, <1>5 DEF FilesKept, NotUsers
<1> QED BY <1>7, <1>8 DEF Kept

\* The manifest of the rule is written, the marker too.
LEMMA WriteMarksStep ==
  ASSUME InstallInv, NEW p \in hplan.procs,
         WriteRuleManifest(p) \/ ForgetRule(p) \/ ForgetGuidance(p) \/ WriteMarker(p)
  PROVE  InstallInv' /\ Kept
<1> DEFINE r == installer[p]
<1>1. PICK a \in {"mark", "dropGuidance", "record"} :
        /\ Put(p, [r EXCEPT !.at = a]) /\ r.at \in {"ruleManifest", "forgetRule", "forgetGuidance", "mark"}
        /\ UNCHANGED <<hplan, shelfVars, files, fileManifest, contentLock>>
  BY DEF WriteRuleManifest, ForgetRule, ForgetGuidance, WriteMarker, fileVars
<1>2. /\ CommandRecord(r) /\ FilesOK(r) /\ NotUsers(fileManifest.digests) /\ NotUsers(owned) /\ PastShelf(r)
      /\ Shipped(r.cmd.ver).rule # User
  BY <1>1, AtWork DEF AtRest, HandsOK, PastShelf, OnShelf
<1>3. NotUsers(owned')
  BY <1>2 DEF WriteRuleManifest, ForgetRule, ForgetGuidance, WriteMarker, fileVars, NotUsers, Without
<1> DEFINE t == [r EXCEPT !.at = a]
<1>4. SameHands(r, t) /\ t.at = a /\ t.snap = r.snap
  BY <1>2, PlaceRecord
<1>5. Put(p, t)
  BY <1>1
<1> HIDE DEF t
<1>6. FilesOK(t) /\ PastShelf(t)
  BY <1>4 DEF FilesOK, AtRest, OnShelf, OverFiles, PastShelf
<1>7. InstallInv' /\ SkillsKept
  BY <1>1, <1>2, <1>3, <1>4, <1>5, <1>6, GoesOn
<1> QED BY <1>1, <1>7, SameFiles DEF Kept

\* What is removed is as its manifest says.
LEMMA DropStep ==
  ASSUME InstallInv, NEW p \in hplan.procs, DropRule(p) \/ DropGuidance(p)
  PROVE  InstallInv' /\ Kept
<1> DEFINE r == installer[p]
<1>1. UNCHANGED <<hplan, shelfVars, fileManifest, owned>> /\ r.at \in {"dropRule", "dropGuidance"}
  BY DEF DropRule, DropGuidance
<1>2. /\ CommandRecord(r) /\ FilesOK(r) /\ NotUsers(fileManifest.digests) /\ NotUsers(owned) /\ PastShelf(r)
      /\ r.at = "dropRule" => Owns("rule")
  BY <1>1, AtWork DEF AtRest, HandsOK, PastShelf, OnShelf, LockedOK
<1>3. CASE Refuse(p) /\ UNCHANGED files
  BY <1>1, <1>2, <1>3, LeavesFiles DEF Refuse
<1>4. CASE ~ (Refuse(p) /\ UNCHANGED files)
  <2>1. PICK a \in {"forgetRule", "forgetGuidance"} : Put(p, [r EXCEPT !.at = a]) /\ UNCHANGED contentLock
    BY <1>4 DEF DropRule, DropGuidance
  <2>2. FilesKept
    <3>1. CASE DropRule(p)
      <4>1. /\ files["rule"] \in {Absent, owned["rule"]} /\ files' = [files EXCEPT !["rule"] = Absent]
            /\ Owns("rule")
        BY <1>2, <1>4, <3>1 DEF DropRule
      <4>2. files["rule"] # User
        BY <1>2, <4>1 DEF Owns, NotUsers, Absent, User
      <4> QED BY <4>1, <4>2 DEF FilesKept
    <3>2. CASE DropGuidance(p)
      <4>1. \/ files' = [files EXCEPT !["guidance"] = @]
            \/ /\ Owns("guidance") /\ files["guidance"] = owned["guidance"]
               /\ files' = [files EXCEPT !["guidance"] = Absent]
        BY <1>4, <3>2 DEF DropGuidance
      <4>2. Owns("guidance") /\ files["guidance"] = owned["guidance"] => files["guidance"] # User
        BY <1>2 DEF Owns, NotUsers
      <4> QED BY <4>1, <4>2 DEF FilesKept
    <3> QED BY <3>1, <3>2
  <2> DEFINE t == [r EXCEPT !.at = a]
  <2>3. SameHands(r, t) /\ t.at = a
    BY <1>2, PlaceRecord
  <2>4. Put(p, t)
    BY <2>1
  <2> HIDE DEF t
  <2>5. FilesOK(t) /\ PastShelf(t)
    BY <2>3 DEF FilesOK, AtRest, OnShelf, OverFiles, PastShelf
  <2>6. InstallInv' /\ SkillsKept
    BY <1>1, <1>2, <2>1, <2>3, <2>4, <2>5, GoesOn
  <2> QED BY <2>2, <2>6 DEF Kept
<1> QED BY <1>3, <1>4

\* The last step of a command.
LEMMA WriteRecordStep ==
  ASSUME InstallInv, NEW p \in hplan.procs, WriteRecord(p)
  PROVE  InstallInv' /\ Kept
<1>1. /\ UNCHANGED <<hplan, shelfVars, files, fileManifest, owned>> /\ Leave(p)
      /\ installer[p].at = "record"
  BY DEF WriteRecord, fileVars
<1>2. PastShelf(installer[p])
  BY <1>1 DEF PastShelf, AtRest, OnShelf
<1> QED BY <1>1, <1>2, LeavesFiles

\* What a stopped process had set aside or staged stays where it was.
LEMMA StopStep ==
  ASSUME InstallInv, NEW p \in hplan.procs, Stop(p)
  PROVE  InstallInv' /\ Kept
<1> DEFINE r == installer[p]
<1>1. /\ UNCHANGED <<hplan, shelf, shelfManifest, files, fileManifest, owned>> /\ Leave(p)
      /\ r.at \notin AtRest
      /\ kept' = kept \cup r.stage \cup (IF r.backup = Absent THEN {} ELSE {<<r.skill, r.backup>>})
  BY DEF Stop, fileVars, AtRest
<1>2. contentLock = p /\ NotUsers(shelfManifest.digests) /\ NotUsers(fileManifest.digests) /\ NotUsers(owned)
  BY <1>1, AtWork
<1>3. InstallInv'
  BY <1>1, <1>2, Leaves
<1> DEFINE t == Unused
<1>4. installer' = [installer EXCEPT ![p] = t]
  BY <1>1 DEF Leave, Put
<1> HIDE DEF t
<1>5. \A s : Hands(r, s) => <<s, User>> \in kept'
  BY <1>1 DEF Hands, Absent, User
<1>6. SkillsKept
  BY <1>1, <1>4, <1>5, KeepsSkills
<1> QED BY <1>1, <1>3, <1>6, SameFiles DEF Kept

\* An edit of the user's touches nothing that a process knows.
LEMMA UserStepInv ==
  ASSUME InstallInv, UserStep
  PROVE  InstallInv'
<1>1. UNCHANGED <<hplan, shelfManifest, fileManifest, owned, contentLock, installer>>
  BY DEF UserStep, EditSkill, EditFile, shelfVars, fileVars
<1>2. \A r : HandsOK(r)' = HandsOK(r) /\ LockedOK(r)' = LockedOK(r)
  BY <1>1 DEF HandsOK, LockedOK, SkillsOf, ArtifactsOf, Shipped, Owns, OwnedBlindly
<1> QED BY <1>1, <1>2 DEF InstallInv

\* Every step of a process, and a stop, keeps the invariant and the user's work.
LEMMA InstallProcessStep ==
  ASSUME InstallInv, NEW p \in hplan.procs, InstallStep(p) \/ Stop(p)
  PROVE  InstallInv' /\ Kept
BY BeginStep, ReconcileStep, PreflightSkillsStep, RetireSkillStep, VerifyRetiredStep, PublishSkillStep,
   VerifyReplacedStep, PlaceSkillStep, WriteShelfManifestStep, SyncAgentsStep, PreflightFilesStep, RecheckFilesStep,
   EnsureUnchangedStep, MutateFileStep, RollBackStep, WriteFileManifestStep, DecideRuleStep, WriteRuleStep,
   WriteMarksStep, DropStep, WriteRecordStep, StopStep DEF InstallStep

\* InstallInv is inductive.
LEMMA InstallStepInv == InstallInv /\ [InstallNext]_installVars => InstallInv'
<1> SUFFICES ASSUME InstallInv, [InstallNext]_installVars PROVE InstallInv'
  OBVIOUS
<1>1. CASE UNCHANGED installVars
  <2>1. UNCHANGED <<hplan, shelfManifest, fileManifest, owned, contentLock, installer>>
    BY <1>1 DEF installVars, shelfVars, fileVars
  <2>2. \A r : HandsOK(r)' = HandsOK(r) /\ LockedOK(r)' = LockedOK(r)
    BY <2>1 DEF HandsOK, LockedOK, SkillsOf, ArtifactsOf, Shipped, Owns, OwnedBlindly
  <2> QED BY <2>1, <2>2 DEF InstallInv
<1> QED BY <1>1, InstallProcessStep, UserStepInv DEF InstallNext

\* How many edits are left.
EditsCounted == faults \in [edits : Nat, stops : Nat]

\* Only the user makes edits, and he has one less.
LEMMA EditsStay == InstallSpec => []EditsCounted
<1>1. InstallInit => EditsCounted
  BY InstallAssumption DEF InstallInit, EditsCounted
<1>2. EditsCounted /\ [InstallNext]_installVars => EditsCounted'
  <2> SUFFICES ASSUME EditsCounted, [InstallNext]_installVars PROVE EditsCounted'
    OBVIOUS
  <2>1. CASE UserStep
    <3>1. faults.edits \in Nat /\ faults.edits > 0 /\ faults' = [faults EXCEPT !.edits = @ - 1]
      BY <2>1 DEF UserStep, EditSkill, EditFile, EditsCounted
    <3> QED BY <3>1 DEF EditsCounted
  <2>2. CASE \E p \in hplan.procs : Stop(p)
    <3>1. faults.stops \in Nat /\ faults.stops > 0 /\ faults' = [faults EXCEPT !.stops = @ - 1]
      BY <2>2 DEF Stop, EditsCounted
    <3> QED BY <3>1 DEF EditsCounted
  <2>3. CASE UNCHANGED faults
    BY <2>3 DEF EditsCounted
  <2>4. ASSUME NEW p \in hplan.procs, InstallStep(p) PROVE UNCHANGED faults
    BY <2>4 DEF InstallStep, BeginInstall, BeginUpgrade, BeginReconcile, Reconcile, PreflightSkills, RetireSkill,
         VerifyRetired, PublishSkill, VerifyReplaced, PlaceSkill, WriteShelfManifest, SyncAgents, PreflightFiles,
         RecheckFiles, EnsureUnchanged, MutateFile, RollBack, WriteFileManifest, DecideRule, WriteGuidance, WriteRule,
         WriteRuleManifest, DropRule, ForgetRule, DropGuidance, ForgetGuidance, WriteMarker, WriteRecord, ghosts
  <2> QED BY <2>1, <2>2, <2>3, <2>4 DEF InstallNext, installVars, ghosts
<1> QED BY <1>1, <1>2, PTL DEF InstallSpec

\* Whatever versions install, upgrade and reconcile at once, and wherever they stop,
\* a process knows what it has in its hands and whose files it is about to write.
THEOREM InstallersKnow == InstallSpec => []InstallInv
<1> QED BY InstallInitInv, InstallStepInv, PTL DEF InstallSpec

\* No command destroys what the user wrote before it last looked.
THEOREM UsersWorkStays == InstallSpec => OwnWorkIsKept
<1> DEFINE Safe == [faults'.edits = faults.edits => SkillsKept /\ FilesKept]_installVars
<1>1. InstallInv /\ EditsCounted /\ [InstallNext]_installVars => Safe
  <2> SUFFICES ASSUME InstallInv, EditsCounted, InstallNext, faults'.edits = faults.edits
               PROVE  SkillsKept /\ FilesKept
    OBVIOUS
  <2>1. CASE UserStep
    <3>1. faults.edits \in Nat /\ faults' = [faults EXCEPT !.edits = @ - 1]
      BY <2>1 DEF UserStep, EditSkill, EditFile, EditsCounted
    <3>2. faults'.edits = faults.edits - 1
      BY <3>1 DEF EditsCounted
    <3> QED BY <3>1, <3>2
  <2>2. ASSUME NEW p \in hplan.procs, InstallStep(p) \/ Stop(p) PROVE SkillsKept /\ FilesKept
    BY <2>2, InstallProcessStep DEF Kept
  <2> QED BY <2>1, <2>2 DEF InstallNext
<1>2. Safe => [faults'.edits = faults.edits =>
                 /\ \A s \in DOMAIN shelf :
                      UserHas(s) => UserHas(s)' \/ \E p \in hplan.procs : OwnedBlindly(installer[p], s)
                 /\ \A f \in DOMAIN files : files[f] = User /\ files'[f] # User =>
                      \E p \in hplan.procs : f \in DOMAIN installer[p].snap /\ installer[p].snap[f] # User]_installVars
  BY DEF SkillsKept, FilesKept
<1> HIDE DEF Safe
<1> QED BY <1>1, <1>2, InstallersKnow, EditsStay, PTL DEF InstallSpec, OwnWorkIsKept

----------------------------------------------------------------------------
(* Adopting newer content: HostInstall. *)

\* A reconcile at work is of a newer version than the marker, or has just written it.
AdoptsNewer(r) ==
  r.cmd.op = "reconcile" /\ r.at \notin AtRest =>
    \/ marker # 0 /\ marker < r.cmd.ver
    \/ r.at = "record" /\ marker = r.cmd.ver

AdoptInv == \A p \in hplan.procs : AdoptsNewer(installer[p])

\* r's step to t: it goes on with its command or ends it, and only the step that writes
\* the marker changes it; after that there is one step left.
WorksOn(r, t) ==
  /\ t.at = "idle" \/ t.cmd = r.cmd
  /\ r.at = "record" => t.at = "idle"
  /\ \/ marker' = marker /\ t.at # "record"
     \/ r.at = "mark" /\ t.at = "record" /\ marker' = r.cmd.ver

\* A process that leaves has no command any more.
LEMMA LeavesWork ==
  ASSUME NEW p, Leave(p), UNCHANGED marker
  PROVE  \E t : Put(p, t) /\ WorksOn(installer[p], t)
<1> DEFINE t == Unused
<1>1. Put(p, t) /\ t.at = "idle"
  BY DEF Leave, Unused
<1> HIDE DEF t
<1> QED BY <1>1 DEF WorksOn

\* A command at the shelf.
LEMMA ShelfWorks ==
  ASSUME NEW p, CommandRecord(installer[p]), installer[p].at # "record", UNCHANGED marker,
         \/ PreflightSkills(p) \/ RetireSkill(p) \/ VerifyRetired(p) \/ PublishSkill(p)
         \/ VerifyReplaced(p) \/ PlaceSkill(p) \/ WriteShelfManifest(p)
  PROVE  \E t : Put(p, t) /\ WorksOn(installer[p], t)
<1> DEFINE r == installer[p]
<1>1. CASE Leave(p)
  BY <1>1, LeavesWork
<1>2. CASE PreflightSkills(p)
  <2>1. PICK prev, bad, retire, publish :
          Put(p, [r EXCEPT !.at = "shelf", !.prev = prev, !.bad = bad, !.retire = retire, !.publish = publish])
    BY <1>2 DEF PreflightSkills
  <2> DEFINE t == [r EXCEPT !.at = "shelf", !.prev = prev, !.bad = bad, !.retire = retire, !.publish = publish]
  <2>2. t.at = "shelf" /\ t.cmd = r.cmd /\ Put(p, t)
    BY <2>1 DEF CommandRecord, CommandFields
  <2> HIDE DEF t
  <2> QED BY <2>2 DEF WorksOn
<1>3. CASE RetireSkill(p)
  <2>1. PICK s : LET next == [r EXCEPT !.retire = @ \ {s}]
                 IN  r.at = "shelf" /\ (Put(p, next) \/ SetAside(p, s, [next EXCEPT !.at = "retired"]))
    BY <1>3 DEF RetireSkill
  <2> DEFINE next == [r EXCEPT !.retire = @ \ {s}]
             away == [next EXCEPT !.at = "retired"]
             t == [away EXCEPT !.skill = s, !.backup = shelf[s]]
  <2>2. next.at = r.at /\ next.cmd = r.cmd /\ CommandRecord(next)
    BY DEF CommandRecord, CommandFields
  <2>3. Put(p, next) \/ Put(p, t)
    BY <2>1 DEF SetAside
  <2> HIDE DEF next
  <2>4. away.at = "retired" /\ away.cmd = next.cmd /\ CommandRecord(away)
    BY <2>2 DEF CommandRecord, CommandFields
  <2> HIDE DEF away
  <2>5. t.at = "retired" /\ t.cmd = away.cmd
    BY <2>4 DEF CommandRecord, CommandFields
  <2> HIDE DEF t
  <2> QED BY <2>1, <2>2, <2>3, <2>4, <2>5 DEF WorksOn
<1>4. CASE VerifyRetired(p) /\ ~ Leave(p)
  <2> DEFINE t == [Staged(r) EXCEPT !.at = "shelf"]
  <2>1. Put(p, t)
    BY <1>4 DEF VerifyRetired, GiveBack
  <2>2. t.at = "shelf" /\ t.cmd = r.cmd
    BY StagedRecord
  <2> HIDE DEF t
  <2> QED BY <2>1, <2>2 DEF WorksOn
<1>5. CASE PublishSkill(p) /\ ~ Leave(p)
  <2>1. PICK s : LET next == [r EXCEPT !.publish = @ \ {s}]
                 IN  /\ r.at = "shelf"
                     /\ \/ Put(p, next)
                        \/ Put(p, [next EXCEPT !.at = "placing", !.skill = s])
                        \/ SetAside(p, s, [next EXCEPT !.at = "replaced"])
    BY <1>5 DEF PublishSkill
  <2> DEFINE next == [r EXCEPT !.publish = @ \ {s}]
             placed == [next EXCEPT !.at = "placing", !.skill = s]
             away == [next EXCEPT !.at = "replaced"]
             t == [away EXCEPT !.skill = s, !.backup = shelf[s]]
  <2>2. next.at = r.at /\ next.cmd = r.cmd /\ CommandRecord(next)
    BY DEF CommandRecord, CommandFields
  <2>3. Put(p, next) \/ Put(p, placed) \/ Put(p, t)
    BY <2>1 DEF SetAside
  <2> HIDE DEF next
  <2>4. placed.at = "placing" /\ placed.cmd = next.cmd
    BY <2>2 DEF CommandRecord, CommandFields
  <2>5. away.at = "replaced" /\ away.cmd = next.cmd /\ CommandRecord(away)
    BY <2>2 DEF CommandRecord, CommandFields
  <2> HIDE DEF away, placed
  <2>6. t.at = "replaced" /\ t.cmd = away.cmd
    BY <2>5 DEF CommandRecord, CommandFields
  <2> HIDE DEF t
  <2> QED BY <2>1, <2>2, <2>3, <2>4, <2>5, <2>6 DEF WorksOn
<1>6. CASE VerifyReplaced(p) /\ ~ Leave(p)
  <2> DEFINE t == [r EXCEPT !.at = "placing"]
  <2>1. Put(p, t)
    BY <1>6 DEF VerifyReplaced, GiveBack
  <2>2. t.at = "placing" /\ t.cmd = r.cmd
    BY DEF CommandRecord, CommandFields
  <2> HIDE DEF t
  <2> QED BY <2>1, <2>2 DEF WorksOn
<1>7. CASE PlaceSkill(p) /\ ~ Leave(p)
  <2> DEFINE t == [r EXCEPT !.at = "shelf"]
             u == [Staged(r) EXCEPT !.at = "shelf"]
  <2>1. Put(p, t) \/ Put(p, u)
    BY <1>7 DEF PlaceSkill, GiveBack
  <2>2. t.at = "shelf" /\ t.cmd = r.cmd
    BY DEF CommandRecord, CommandFields
  <2>3. u.at = "shelf" /\ u.cmd = r.cmd
    BY StagedRecord
  <2> HIDE DEF t, u
  <2> QED BY <2>1, <2>2, <2>3 DEF WorksOn
<1>8. CASE WriteShelfManifest(p) /\ ~ Leave(p)
  <2> DEFINE t == [r EXCEPT !.at = "agents", !.stage = {}]
  <2>1. Put(p, t)
    BY <1>8 DEF WriteShelfManifest
  <2>2. t.at = "agents" /\ t.cmd = r.cmd
    BY DEF CommandRecord, CommandFields
  <2> HIDE DEF t
  <2> QED BY <2>1, <2>2 DEF WorksOn
<1> QED BY <1>1, <1>2, <1>3, <1>4, <1>5, <1>6, <1>7, <1>8

\* A command at the files.
LEMMA FilesWork ==
  ASSUME NEW p, CommandRecord(installer[p]), installer[p].at # "record", UNCHANGED marker,
         \/ PreflightFiles(p) \/ RecheckFiles(p) \/ EnsureUnchanged(p) \/ MutateFile(p) \/ RollBack(p)
  PROVE  \E t : Put(p, t) /\ WorksOn(installer[p], t)
<1> DEFINE r == installer[p]
<1>1. CASE Leave(p)
  BY <1>1, LeavesWork
<1>2. CASE PreflightFiles(p) /\ ~ Leave(p)
  <2>1. PICK snap : Put(p, [r EXCEPT !.at = "recheck", !.snap = snap])
    BY <1>2 DEF PreflightFiles, Refuse
  <2> DEFINE t == [r EXCEPT !.at = "recheck", !.snap = snap]
  <2>2. t.at = "recheck" /\ t.cmd = r.cmd /\ Put(p, t)
    BY <2>1 DEF CommandRecord, CommandFields
  <2> HIDE DEF t
  <2> QED BY <2>2 DEF WorksOn
<1>3. CASE RecheckFiles(p) /\ ~ Leave(p)
  <2>1. PICK write, remove : Put(p, [r EXCEPT !.at = "artifact", !.write = write, !.remove = remove])
    BY <1>3 DEF RecheckFiles, Refuse
  <2> DEFINE t == [r EXCEPT !.at = "artifact", !.write = write, !.remove = remove]
  <2>2. t.at = "artifact" /\ t.cmd = r.cmd /\ Put(p, t)
    BY <2>1 DEF CommandRecord, CommandFields
  <2> HIDE DEF t
  <2> QED BY <2>2 DEF WorksOn
<1>4. CASE EnsureUnchanged(p)
  <2>1. PICK f : Put(p, [r EXCEPT !.at = IF files[f] = r.snap[f] THEN "mutate" ELSE "undo", !.file = f])
    BY <1>4 DEF EnsureUnchanged
  <2> DEFINE a == IF files[f] = r.snap[f] THEN "mutate" ELSE "undo"
             t == [r EXCEPT !.at = a, !.file = f]
  <2>2. t.at = a /\ t.cmd = r.cmd /\ Put(p, t)
    BY <2>1 DEF CommandRecord, CommandFields
  <2> HIDE DEF t
  <2> QED BY <2>2 DEF WorksOn
<1>5. CASE MutateFile(p)
  <2>1. PICK remove, write, undo : Put(p, [r EXCEPT !.at = "artifact", !.remove = remove, !.write = write, !.undo = undo])
    BY <1>5 DEF MutateFile
  <2> DEFINE t == [r EXCEPT !.at = "artifact", !.remove = remove, !.write = write, !.undo = undo]
  <2>2. t.at = "artifact" /\ t.cmd = r.cmd /\ Put(p, t)
    BY <2>1 DEF CommandRecord, CommandFields
  <2> HIDE DEF t
  <2> QED BY <2>2 DEF WorksOn
<1>6. CASE RollBack(p) /\ ~ Leave(p)
  <2> DEFINE t == [r EXCEPT !.undo = Tail(@)]
  <2>1. Put(p, t) /\ r.at = "undo"
    BY <1>6 DEF RollBack, Refuse
  <2>2. t.at = "undo" /\ t.cmd = r.cmd
    BY <2>1 DEF CommandRecord, CommandFields
  <2> HIDE DEF t
  <2> QED BY <2>1, <2>2 DEF WorksOn
<1> QED BY <1>1, <1>2, <1>3, <1>4, <1>5, <1>6

\* A command that goes from one place to the next.
LEMMA PlacesWork ==
  ASSUME NEW p, CommandRecord(installer[p]), installer[p].at # "record", UNCHANGED marker,
         \/ SyncAgents(p) \/ WriteFileManifest(p) \/ WriteGuidance(p) \/ WriteRule(p) \/ WriteRuleManifest(p)
         \/ DropRule(p) \/ ForgetRule(p) \/ DropGuidance(p) \/ ForgetGuidance(p)
  PROVE  \E t : Put(p, t) /\ WorksOn(installer[p], t)
<1> DEFINE r == installer[p]
<1>1. CASE Leave(p)
  BY <1>1, LeavesWork
<1>2. CASE ~ Leave(p)
  <2>1. PICK a \in {"adapters", "rule", "writeRule", "ruleManifest", "mark", "forgetRule", "dropGuidance", "forgetGuidance"} :
          Put(p, [r EXCEPT !.at = a])
    BY <1>2 DEF SyncAgents, WriteFileManifest, WriteGuidance, WriteRule, WriteRuleManifest, DropRule, ForgetRule,
                DropGuidance, ForgetGuidance, Refuse
  <2> DEFINE t == [r EXCEPT !.at = a]
  <2>2. t.at = a /\ t.cmd = r.cmd /\ Put(p, t)
    BY <2>1, PlaceRecord DEF SameHands
  <2> HIDE DEF t
  <2> QED BY <2>2 DEF WorksOn
<1> QED BY <1>1, <1>2

\* The decision about the rule.
LEMMA DecisionWorks ==
  ASSUME NEW p, CommandRecord(installer[p]), installer[p].at # "record", UNCHANGED marker, DecideRule(p),
         NotUsers(owned), Shipped(installer[p].cmd.ver).rule # User
  PROVE  \E t : Put(p, t) /\ WorksOn(installer[p], t)
<1> DEFINE r == installer[p]
           step == RuleStep(r.cmd)
           a == CASE step = "leave" -> "mark"
                  [] step = "retire" -> IF Owns("rule") THEN "dropRule" ELSE "dropGuidance"
                  [] step = "converge" -> "guidance"
           snap == [x \in RuleParts |-> files[x]]
           t == [r EXCEPT !.at = a, !.snap = snap]
<1>1. CASE Leave(p)
  BY <1>1, LeavesWork
<1>2. CASE ~ Leave(p)
  <2>1. step # "refuse" /\ Put(p, t)
    BY <1>2 DEF DecideRule, Refuse
  <2>2. step \in {"leave", "retire", "converge"}
    BY <2>1, RuleDecision
  <2>3. a # "record"
    BY <2>2
  <2> HIDE DEF a, snap
  <2>4. t.at = a /\ t.cmd = r.cmd
    BY DEF CommandRecord, CommandFields
  <2> HIDE DEF t
  <2> QED BY <2>1, <2>3, <2>4 DEF WorksOn
<1> QED BY <1>1, <1>2

\* Whatever a process at work does, it works on.
LEMMA WorkingStep ==
  ASSUME InstallInv, NEW p \in hplan.procs, installer[p].at \notin AtRest, InstallStep(p) \/ Stop(p)
  PROVE  \E t : Put(p, t) /\ WorksOn(installer[p], t)
<1>1. /\ CommandRecord(installer[p]) /\ NotUsers(owned) /\ Shipped(installer[p].cmd.ver).rule # User
  BY AtWork DEF HandsOK
<1>2. CASE \/ PreflightSkills(p) \/ RetireSkill(p) \/ VerifyRetired(p) \/ PublishSkill(p)
           \/ VerifyReplaced(p) \/ PlaceSkill(p) \/ WriteShelfManifest(p)
  <2>1. UNCHANGED marker /\ installer[p].at # "record"
    BY <1>2 DEF PreflightSkills, RetireSkill, VerifyRetired, PublishSkill, VerifyReplaced, PlaceSkill, WriteShelfManifest, marks
  <2> QED BY <1>1, <1>2, <2>1, ShelfWorks
<1>3. CASE PreflightFiles(p) \/ RecheckFiles(p) \/ EnsureUnchanged(p) \/ MutateFile(p) \/ RollBack(p)
  <2>1. UNCHANGED marker /\ installer[p].at # "record"
    BY <1>3 DEF PreflightFiles, RecheckFiles, EnsureUnchanged, MutateFile, RollBack, marks
  <2> QED BY <1>1, <1>3, <2>1, FilesWork
<1>4. CASE \/ SyncAgents(p) \/ WriteFileManifest(p) \/ WriteGuidance(p) \/ WriteRule(p) \/ WriteRuleManifest(p)
           \/ DropRule(p) \/ ForgetRule(p) \/ DropGuidance(p) \/ ForgetGuidance(p)
  <2>1. UNCHANGED marker /\ installer[p].at # "record"
    BY <1>4 DEF SyncAgents, WriteFileManifest, WriteGuidance, WriteRule, WriteRuleManifest, DropRule, ForgetRule,
                DropGuidance, ForgetGuidance, marks
  <2> QED BY <1>1, <1>4, <2>1, PlacesWork
<1>5. CASE DecideRule(p)
  <2>1. UNCHANGED marker /\ installer[p].at # "record"
    BY <1>5 DEF DecideRule, marks
  <2> QED BY <1>1, <1>5, <2>1, DecisionWorks
<1>6. CASE WriteMarker(p)
  <2> DEFINE t == [installer[p] EXCEPT !.at = "record"]
  <2>1. t.at = "record" /\ t.cmd = installer[p].cmd
    BY <1>1 DEF CommandRecord, CommandFields
  <2>2. Put(p, t) /\ installer[p].at = "mark" /\ marker' = installer[p].cmd.ver
    BY <1>6 DEF WriteMarker
  <2> HIDE DEF t
  <2> QED BY <2>1, <2>2 DEF WorksOn
<1>7. CASE WriteRecord(p) \/ Stop(p)
  <2>1. Leave(p) /\ UNCHANGED marker
    BY <1>7 DEF WriteRecord, Stop, marks
  <2> QED BY <2>1, LeavesWork
<1>8. CASE Reconcile(p) \/ \E c \in hplan.cmds : BeginInstall(p, c) \/ BeginUpgrade(p, c) \/ BeginReconcile(p, c)
  BY <1>8 DEF Reconcile, BeginInstall, BeginUpgrade, BeginReconcile, AtRest
<1> QED BY <1>2, <1>3, <1>4, <1>5, <1>6, <1>7, <1>8 DEF InstallStep

\* A process at rest can only begin; a reconcile goes to work on older content only.
LEMMA RestingStep ==
  ASSUME InstallInv, NEW p \in hplan.procs, installer[p].at \in AtRest, InstallStep(p) \/ Stop(p)
  PROVE  /\ UNCHANGED <<hplan, shelfVars, fileVars, marks>>
         /\ \E t : /\ Put(p, t)
                   /\ t.cmd.op = "reconcile" /\ t.at \notin AtRest => marker # 0 /\ marker < t.cmd.ver
<1>1. CASE \E c \in hplan.cmds : BeginInstall(p, c) \/ BeginUpgrade(p, c) \/ BeginReconcile(p, c)
  <2>1. PICK c \in hplan.cmds : BeginInstall(p, c) \/ BeginUpgrade(p, c) \/ BeginReconcile(p, c)
    BY <1>1
  <2>2. UNCHANGED <<hplan, shelfVars, fileVars, marks>>
    BY <2>1 DEF BeginInstall, BeginUpgrade, BeginReconcile
  <2>3. CASE BeginReconcile(p, c)
    <3> DEFINE t == [Unused EXCEPT !.at = "waiting", !.cmd = c]
    <3>1. Put(p, t) /\ t.at \in AtRest
      BY <2>3 DEF BeginReconcile, AtRest, Unused
    <3> HIDE DEF t
    <3> QED BY <2>2, <3>1
  <2>4. CASE BeginInstall(p, c) \/ BeginUpgrade(p, c)
    <3> DEFINE t == [[Unused EXCEPT !.cmd = c] EXCEPT !.at = "skills"]
    <3>1. Put(p, t) /\ t.cmd = c /\ c.op # "reconcile"
      BY <2>4 DEF BeginInstall, BeginUpgrade, TakeLock, Unused
    <3> HIDE DEF t
    <3> QED BY <2>2, <3>1
  <2> QED BY <2>1, <2>3, <2>4
<1>2. CASE Reconcile(p)
  <2>1. UNCHANGED <<hplan, shelfVars, fileVars, marks>> /\ CommandRecord(installer[p])
    BY <1>2 DEF Reconcile, InstallInv, HandsOK
  <2>2. CASE Leave(p)
    <3> DEFINE t == Unused
    <3>1. Put(p, t) /\ t.at \in AtRest
      BY <2>2 DEF Leave, AtRest, Unused
    <3> HIDE DEF t
    <3> QED BY <2>1, <3>1
  <2>3. CASE ContentStale(installer[p].cmd) /\ TakeLock(p, installer[p])
    <3> DEFINE t == [installer[p] EXCEPT !.at = "skills"]
    <3>1. Put(p, t) /\ t.cmd = installer[p].cmd
      BY <2>1, <2>3, PlaceRecord DEF TakeLock, SameHands
    <3> HIDE DEF t
    <3> QED BY <2>1, <2>3, <3>1 DEF ContentStale
  <2> QED BY <1>2, <2>2, <2>3 DEF Reconcile
<1>3. ~ Stop(p)
  BY DEF Stop, AtRest
<1>4. ~ (\/ PreflightSkills(p) \/ RetireSkill(p) \/ VerifyRetired(p) \/ PublishSkill(p) \/ VerifyReplaced(p)
         \/ PlaceSkill(p) \/ WriteShelfManifest(p) \/ SyncAgents(p) \/ PreflightFiles(p) \/ RecheckFiles(p)
         \/ EnsureUnchanged(p) \/ MutateFile(p) \/ RollBack(p) \/ WriteFileManifest(p))
  BY DEF PreflightSkills, RetireSkill, VerifyRetired, PublishSkill, VerifyReplaced, PlaceSkill, WriteShelfManifest,
         SyncAgents, PreflightFiles, RecheckFiles, EnsureUnchanged, MutateFile, RollBack, WriteFileManifest, AtRest
<1>5. ~ (\/ DecideRule(p) \/ WriteGuidance(p) \/ WriteRule(p) \/ WriteRuleManifest(p) \/ DropRule(p) \/ ForgetRule(p)
         \/ DropGuidance(p) \/ ForgetGuidance(p) \/ WriteMarker(p) \/ WriteRecord(p))
  BY DEF DecideRule, WriteGuidance, WriteRule, WriteRuleManifest, DropRule, ForgetRule, DropGuidance, ForgetGuidance,
         WriteMarker, WriteRecord, AtRest
<1> QED BY <1>1, <1>2, <1>3, <1>4, <1>5 DEF InstallStep

\* No process changes the plan it runs under.
LEMMA InstallPlanStays ==
  ASSUME NEW p, InstallStep(p) \/ Stop(p)
  PROVE  hplan' = hplan
<1>1. CASE \/ \E c \in hplan.cmds : BeginInstall(p, c) \/ BeginUpgrade(p, c) \/ BeginReconcile(p, c)
           \/ Reconcile(p) \/ Stop(p)
  BY <1>1 DEF BeginInstall, BeginUpgrade, BeginReconcile, Reconcile, Stop
<1>2. CASE \/ PreflightSkills(p) \/ RetireSkill(p) \/ VerifyRetired(p) \/ PublishSkill(p) \/ VerifyReplaced(p)
           \/ PlaceSkill(p) \/ WriteShelfManifest(p)
  BY <1>2 DEF PreflightSkills, RetireSkill, VerifyRetired, PublishSkill, VerifyReplaced, PlaceSkill, WriteShelfManifest
<1>3. CASE \/ SyncAgents(p) \/ PreflightFiles(p) \/ RecheckFiles(p) \/ EnsureUnchanged(p)
           \/ MutateFile(p) \/ RollBack(p) \/ WriteFileManifest(p)
  BY <1>3 DEF SyncAgents, PreflightFiles, RecheckFiles, EnsureUnchanged, MutateFile, RollBack, WriteFileManifest
<1>4. CASE \/ DecideRule(p) \/ WriteGuidance(p) \/ WriteRule(p) \/ WriteRuleManifest(p) \/ DropRule(p)
           \/ ForgetRule(p) \/ DropGuidance(p) \/ ForgetGuidance(p) \/ WriteMarker(p) \/ WriteRecord(p)
  BY <1>4 DEF DecideRule, WriteGuidance, WriteRule, WriteRuleManifest, DropRule, ForgetRule, DropGuidance,
              ForgetGuidance, WriteMarker, WriteRecord
<1> QED BY <1>1, <1>2, <1>3, <1>4 DEF InstallStep

\* A step of a process leaves the others where they are, and what it changes it may.
LEMMA AdoptStep ==
  ASSUME InstallInv, AdoptInv, NEW p \in hplan.procs, InstallStep(p) \/ Stop(p), hplan' = hplan
  PROVE  /\ AdoptInv'
         /\ \A q \in hplan.procs : q # p => installer'[q] = installer[q]
         /\ installer[p].at \in AtRest => UNCHANGED <<shelfVars, fileVars, marks>>
<1>1. DOMAIN installer = hplan.procs
  BY DEF InstallInv
<1>2. CASE installer[p].at \in AtRest
  <2>1. PICK t : /\ Put(p, t) /\ UNCHANGED <<shelfVars, fileVars, marks>>
                 /\ t.cmd.op = "reconcile" /\ t.at \notin AtRest => marker # 0 /\ marker < t.cmd.ver
    BY <1>2, RestingStep
  <2>2. installer' = [installer EXCEPT ![p] = t] /\ marker' = marker
    BY <2>1 DEF Put, marks
  <2>3. ASSUME NEW q \in hplan.procs PROVE AdoptsNewer(installer[q])'
    <3>1. CASE q = p
      BY <1>1, <2>1, <2>2, <3>1 DEF AdoptsNewer
    <3>2. CASE q # p
      BY <1>1, <2>2, <3>2 DEF AdoptInv, AdoptsNewer
    <3> QED BY <3>1, <3>2
  <2> QED BY <1>1, <2>1, <2>2, <2>3 DEF AdoptInv
<1>3. CASE installer[p].at \notin AtRest
  <2>1. PICK t : Put(p, t) /\ WorksOn(installer[p], t)
    BY <1>3, WorkingStep
  <2>2. installer' = [installer EXCEPT ![p] = t]
    BY <2>1 DEF Put
  <2>3. \A q \in hplan.procs : q # p => installer[q].at \in AtRest
    BY <1>3 DEF InstallInv
  <2>4. ASSUME NEW q \in hplan.procs PROVE AdoptsNewer(installer[q])'
    <3>1. CASE q = p
      <4>1. installer'[q] = t /\ AdoptsNewer(installer[p])
        BY <1>1, <2>2, <3>1 DEF AdoptInv
      <4>2. CASE t.at = "idle"
        BY <4>1, <4>2 DEF AdoptsNewer, AtRest
      <4>3. CASE t.at # "idle" /\ marker' = marker
        BY <1>3, <2>1, <4>1, <4>3 DEF AdoptsNewer, WorksOn
      <4>4. CASE t.at = "record" /\ t.cmd = installer[p].cmd /\ marker' = installer[p].cmd.ver
        BY <4>1, <4>4 DEF AdoptsNewer
      <4> QED BY <2>1, <4>2, <4>3, <4>4 DEF WorksOn
    <3>2. CASE q # p
      BY <1>1, <2>2, <2>3, <3>2 DEF AdoptsNewer
    <3> QED BY <3>1, <3>2
  <2> QED BY <1>1, <1>3, <2>2, <2>4 DEF AdoptInv
<1> QED BY <1>2, <1>3

\* The user does not run in the place of a process.
LEMMA UserAdoptsNothing ==
  ASSUME UserStep
  PROVE  UNCHANGED <<hplan, installer, marker>>
BY DEF UserStep, EditSkill, EditFile, marks

\* AdoptInv is inductive, given that one process is at work.
LEMMA AdoptsStay == InstallSpec => []AdoptInv
<1>1. InstallInit => AdoptInv
  BY UnusedRecord DEF InstallInit, AdoptInv, AdoptsNewer, AtRest
<1>2. InstallInv /\ AdoptInv /\ [InstallNext]_installVars => AdoptInv'
  <2> SUFFICES ASSUME InstallInv, AdoptInv, [InstallNext]_installVars PROVE AdoptInv'
    OBVIOUS
  <2>1. CASE UNCHANGED <<hplan, installer, marker>>
    BY <2>1 DEF AdoptInv, AdoptsNewer
  <2>2. ASSUME NEW p \in hplan.procs, InstallStep(p) \/ Stop(p) PROVE AdoptInv'
    BY <2>2, AdoptStep, InstallPlanStays
  <2> QED BY <2>1, <2>2, UserAdoptsNothing DEF InstallNext, installVars, marks
<1> QED BY <1>1, <1>2, InstallersKnow, PTL DEF InstallSpec

\* A reconcile refuses to downgrade: what it changes it changes while the marker names an
\* older version, or its own once it has written it, whoever installs before and after.
THEOREM ReconcilesRefuseToDowngrade == InstallSpec => ReconcileNeverDowngrades
<1> DEFINE Adopting(p) ==
             LET r == installer[p]
             IN  r.cmd.op = "reconcile" /\ installer'[p] # r
                   /\ <<shelfVars, fileVars, marks>>' # <<shelfVars, fileVars, marks>> =>
                 \/ marker # 0 /\ marker < r.cmd.ver
                 \/ r.at = "record" /\ marker = r.cmd.ver
           Safe == [\A p \in hplan.procs : Adopting(p)]_installVars
<1>1. InstallInv /\ AdoptInv /\ [InstallNext]_installVars => Safe
  <2> SUFFICES ASSUME InstallInv, AdoptInv, InstallNext, NEW q \in hplan.procs PROVE Adopting(q)
    OBVIOUS
  <2>1. CASE UserStep
    BY <2>1, UserAdoptsNothing
  <2>2. ASSUME NEW p \in hplan.procs, InstallStep(p) \/ Stop(p) PROVE Adopting(q)
    <3>1. /\ installer'[q] # installer[q] => q = p
          /\ installer[p].at \in AtRest => UNCHANGED <<shelfVars, fileVars, marks>>
      BY <2>2, AdoptStep, InstallPlanStays
    <3>2. AdoptsNewer(installer[p])
      BY DEF AdoptInv
    <3> QED BY <3>1, <3>2 DEF AdoptsNewer
  <2> QED BY <2>1, <2>2 DEF InstallNext
<1> HIDE DEF Safe
<1>2. Safe => [\A p \in hplan.procs :
                 LET r == installer[p]
                 IN  r.cmd.op = "reconcile" /\ installer'[p] # r
                       /\ <<shelfVars, fileVars, marks>>' # <<shelfVars, fileVars, marks>> =>
                     \/ marker # 0 /\ marker < r.cmd.ver
                     \/ r.at = "record" /\ marker = r.cmd.ver]_installVars
  BY DEF Safe
<1> QED BY <1>1, <1>2, InstallersKnow, AdoptsStay, PTL DEF InstallSpec, ReconcileNeverDowngrades

----------------------------------------------------------------------------
(* Resuming: HostInstall. *)

WritingRule == {"guidance", "writeRule", "ruleManifest"}
Forgetting == {"forgetRule", "dropGuidance", "forgetGuidance"}

\* The command that is being carried out; one of nobody's if there is none.
Worker == IF contentLock = Nobody THEN Unused ELSE installer[contentLock]

FileUntouched(f) == <<"file", f>> \notin touched

\* Versions one of whose commands stopped half way, and the worker's while it is in S.
HalfDone(r, S) == cutShort \cup {v \in {r.cmd.ver} : r.at \in S}

\* Between commands, an untouched skill is as the manifest says, or gone.
ShelfSettled ==
  \A s \in DOMAIN shelf : <<"skill", s>> \notin touched =>
    IF s \in DOMAIN shelfManifest.digests
    THEN shelfManifest.version < 2 \/ shelf[s] \in {Absent, shelfManifest.digests[s]}
    ELSE shelf[s] = Absent

\* During one, it is no conflict, and done with or still to be done.
ShelfUnderway(r) ==
  \A s \in DOMAIN shelf : <<"skill", s>> \notin touched =>
    /\ s \notin r.bad
    /\ s \in SkillsOf(r.cmd.ver) =>
         \/ s \in r.publish
         \/ s = r.skill /\ r.at \in {"replaced", "placing"}
         \/ shelf[s] = Shipped(r.cmd.ver).skills[s]
    /\ s \notin SkillsOf(r.cmd.ver) => s \in r.retire \/ shelf[s] = Absent

ShelfReady(r) == cutShort = {} => IF r.at \in OnShelf THEN ShelfUnderway(r) ELSE ShelfSettled

\* x is what the manifest names at f, or what a version of V ships there.
FileDue(f, x, V) ==
  \/ x = Absent
  \/ f \in DOMAIN fileManifest.digests /\ x = fileManifest.digests[f]
  \/ \E u \in V : f \in ArtifactsOf(u) /\ x = Shipped(u).artifacts[f]

FilesReady(r) ==
  /\ \A f \in DOMAIN files \ RuleParts : FileUntouched(f) => FileDue(f, files[f], HalfDone(r, OverFiles))
  /\ r.at \in OverFiles =>
       /\ DOMAIN r.snap = DOMAIN fileManifest.digests \cup ArtifactsOf(r.cmd.ver)
       /\ \A f \in DOMAIN r.snap : FileUntouched(f) => FileDue(f, r.snap[f], cutShort)
  /\ r.at \in {"artifact", "mutate"} =>
       /\ r.remove \cap ArtifactsOf(r.cmd.ver) = {} /\ r.write \subseteq ArtifactsOf(r.cmd.ver)
       /\ \A f \in DOMAIN r.snap \ (r.remove \cup r.write) :
            FileUntouched(f) => files[f] = Digest(Shipped(r.cmd.ver).artifacts, f)
  /\ r.at = "mutate" => r.file \in r.remove \cup r.write

\* The same for the rule and the block. A block that is gone while it is owned is one
\* whose retirement stopped.
RuleReady(r) ==
  /\ FileUntouched("rule") =>
       /\ \/ files["rule"] = Absent
          \/ Owns("rule") /\ files["rule"] = owned["rule"]
          \/ \E u \in HalfDone(r, WritingRule) : files["rule"] = Shipped(u).rule
       /\ r.at \in {"guidance", "writeRule"} => files["rule"] = r.snap["rule"]
       /\ r.at = "ruleManifest" => files["rule"] = Shipped(r.cmd.ver).rule
       /\ r.at = "forgetRule" => files["rule"] = Absent
  /\ FileUntouched("guidance") =>
       /\ \/ \E u \in HalfDone(r, WritingRule) : files["guidance"] = Shipped(u).rule
          \/ Owns("guidance") /\ files["guidance"] = owned["guidance"]
          \/ files["guidance"] = Absent /\ (Owns("guidance") => cutShort # {} \/ r.at = "forgetGuidance")
       /\ r.at = "guidance" => files["guidance"] = r.snap["guidance"]
       /\ r.at \in {"writeRule", "ruleManifest"} => files["guidance"] = Shipped(r.cmd.ver).rule
       /\ r.at = "forgetGuidance" => files["guidance"] = Absent
  /\ Owns("guidance") => owned["guidance"] # Absent
  /\ r.at \in WritingRule => Shipped(r.cmd.ver).rule # Absent
  /\ r.at \in {"dropGuidance", "forgetGuidance"} => ~ Owns("rule")

InPlace(r) ==
  /\ RuleParts \subseteq DOMAIN files /\ DOMAIN fileManifest.digests \subseteq DOMAIN files \ RuleParts
  /\ DOMAIN shelfManifest.digests \subseteq DOMAIN shelf
  /\ r.at \in OnShelf => DOMAIN r.prev.digests \subseteq DOMAIN shelf /\ r.retire \cap SkillsOf(r.cmd.ver) = {}
  /\ r.at \in {"replaced", "placing"} => r.skill \in SkillsOf(r.cmd.ver)
  /\ \A c \in hplan.cmds : /\ SkillsOf(c.ver) \subseteq DOMAIN shelf
                           /\ ArtifactsOf(c.ver) \subseteq DOMAIN files \ RuleParts

OneAtWork ==
  contentLock = Nobody \/ (contentLock \in hplan.procs /\ installer[contentLock].at \notin AtRest)

ResumeInv ==
  /\ OneAtWork
  /\ ShelfReady(Worker) /\ FilesReady(Worker) /\ RuleReady(Worker) /\ InPlace(Worker)

\* Nothing is halfway at the start.
LEMMA ResumeInit == InstallInit => ResumeInv
<1> SUFFICES ASSUME InstallInit PROVE ResumeInv
  OBVIOUS
<1>1. Worker = Unused /\ Unused.at = "idle" /\ OneAtWork
  BY UnusedRecord DEF InstallInit, Worker, OneAtWork
<1>2. hplan \in InstallPlans /\ AsInstalled(hplan.start)
  BY PlacesAssumption DEF InstallInit
<1>3. ShelfReady(Worker)
  BY <1>1, <1>2 DEF InstallInit, ShelfReady, ShelfSettled, OnShelf, AsInstalled
<1>4. \A f \in DOMAIN files : FileUntouched(f) =>
        files[f] = Digest(IF f \in RuleParts THEN owned ELSE fileManifest.digests, f)
  BY <1>2 DEF InstallInit, AsInstalled, FileUntouched
<1>5. FilesReady(Worker)
  BY <1>1, <1>4 DEF FilesReady, OverFiles, FileDue, Digest
<1>6. InPlace(Worker)
  BY <1>1, <1>2, PlacesAssumption DEF InstallInit, InPlace, OnShelf, SkillsOf, ArtifactsOf, Shipped
<1>7. FileUntouched("rule") => files["rule"] = Digest(owned, "rule")
  BY <1>4, <1>6 DEF InPlace, RuleParts
<1>8. FileUntouched("guidance") => files["guidance"] = Digest(owned, "guidance")
  BY <1>4, <1>6 DEF InPlace, RuleParts
<1>9. Owns("guidance") => owned["guidance"] # Absent
  BY <1>2, PlacesAssumption DEF InstallInit, Owns
<1>10. RuleReady(Worker)
  BY <1>1, <1>7, <1>8, <1>9 DEF RuleReady, Owns, Digest, WritingRule
<1> QED BY <1>1, <1>3, <1>5, <1>6, <1>10 DEF ResumeInv

\* A process at work is the worker.
LEMMA IsWorker ==
  ASSUME InstallInv, NEW p \in hplan.procs, installer[p].at \notin AtRest
  PROVE  Worker = installer[p] /\ contentLock = p /\ p # Nobody
BY InstallAssumption DEF InstallInv, Worker

\* Who is the worker after a step of a process that has the lock afterwards.
LEMMA GoesOnWorking ==
  ASSUME InstallInv, NEW p \in hplan.procs, NEW t, Put(p, t), t.at \notin AtRest, contentLock' = p, hplan' = hplan
  PROVE  Worker' = t /\ OneAtWork'
BY InstallAssumption DEF InstallInv, Worker, Put, OneAtWork

\* After the end of a command nobody is at work.
LEMMA StopsWorking ==
  ASSUME NEW p, Leave(p)
  PROVE  Worker' = Unused /\ OneAtWork'
BY DEF Leave, Worker, OneAtWork, Unused

\* What does not concern the shelf leaves it settled.
LEMMA ShelfStays ==
  ASSUME ShelfReady(Worker), Worker.at \notin OnShelf, Worker'.at \notin OnShelf,
         UNCHANGED <<shelf, shelfManifest, touched>>, cutShort \subseteq cutShort'
  PROVE  ShelfReady(Worker)'
BY DEF ShelfReady, ShelfSettled

\* What does not concern the files leaves them as they were due.
LEMMA FilesStay ==
  ASSUME FilesReady(Worker), Worker.at \notin OverFiles, Worker'.at \notin OverFiles,
         UNCHANGED <<hplan, fileManifest, touched>>, DOMAIN files' = DOMAIN files,
         \A f \in DOMAIN files \ RuleParts : files'[f] = files[f], cutShort \subseteq cutShort'
  PROVE  FilesReady(Worker)'
<1>1. Worker'.at \notin {"artifact", "mutate"}
  BY DEF OverFiles
<1>2. HalfDone(Worker, OverFiles) \subseteq HalfDone(Worker, OverFiles)'
  BY DEF HalfDone
<1>3. \A f, x : FileDue(f, x, HalfDone(Worker, OverFiles)) => FileDue(f, x, HalfDone(Worker, OverFiles))'
  BY <1>2 DEF FileDue, ArtifactsOf, Shipped
<1> QED BY <1>1, <1>3 DEF FilesReady, FileUntouched

\* What does not concern the rule and the block leaves them as they were.
LEMMA RuleStays ==
  ASSUME RuleReady(Worker), Worker.at \notin WritingRule \cup Forgetting, Worker'.at \notin WritingRule \cup Forgetting,
         UNCHANGED <<hplan, owned, touched>>,
         files'["rule"] = files["rule"], files'["guidance"] = files["guidance"], cutShort \subseteq cutShort'
  PROVE  RuleReady(Worker)'
<1>1. HalfDone(Worker, WritingRule) \subseteq HalfDone(Worker, WritingRule)'
  BY DEF HalfDone
<1> QED BY <1>1 DEF RuleReady, FileUntouched, WritingRule, Forgetting, Owns, Shipped

\* Everything keeps its place.
LEMMA PlacesStay ==
  ASSUME InPlace(Worker), UNCHANGED <<hplan, fileManifest, shelfManifest>>,
         DOMAIN shelf' = DOMAIN shelf, DOMAIN files' = DOMAIN files,
         Worker'.at \in OnShelf => /\ Worker.at \in OnShelf /\ Worker'.prev = Worker.prev /\ Worker'.cmd = Worker.cmd
                                   /\ Worker'.retire \subseteq Worker.retire,
         Worker'.at \in {"replaced", "placing"} => Worker'.skill \in SkillsOf(Worker'.cmd.ver)
  PROVE  InPlace(Worker)'
BY DEF InPlace, SkillsOf, ArtifactsOf, Shipped

\* A command that stops half way is one of those cut short; nothing else changes but
\* where a skill is.
LEMMA CutsShort ==
  ASSUME InstallInv, ResumeInv, NEW p \in hplan.procs, installer[p].at \notin AtRest, Leave(p),
         cutShort' = cutShort \cup {installer[p].cmd.ver},
         UNCHANGED <<hplan, shelfManifest, files, fileManifest, owned, touched>>, DOMAIN shelf' = DOMAIN shelf
  PROVE  ResumeInv'
<1>1. Worker = installer[p] /\ Worker' = Unused /\ OneAtWork' /\ Unused.at = "idle"
  BY IsWorker, StopsWorking, UnusedRecord
<1>2. ShelfReady(Worker)'
  BY DEF ShelfReady
<1>3. \A S : HalfDone(Worker, S) \subseteq HalfDone(Worker, S)'
  BY <1>1 DEF HalfDone
<1>4. \A f, x : FileDue(f, x, HalfDone(Worker, OverFiles)) => FileDue(f, x, HalfDone(Worker, OverFiles))'
  BY <1>3 DEF FileDue, ArtifactsOf, Shipped
<1>5. FilesReady(Worker)'
  BY <1>1, <1>4 DEF ResumeInv, FilesReady, FileUntouched, OverFiles
<1>6. RuleReady(Worker)'
  BY <1>1, <1>3 DEF ResumeInv, RuleReady, FileUntouched, Owns, Shipped, WritingRule
<1>7. InPlace(Worker)'
  BY <1>1, PlacesStay DEF ResumeInv, OnShelf
<1> QED BY <1>1, <1>2, <1>5, <1>6, <1>7 DEF ResumeInv

\* A step over the shelf leaves the files alone.
LEMMA ShelfStepRest ==
  ASSUME ResumeInv, OneAtWork', Worker.at \in OnShelf \cup {"idle", "skills"}, Worker'.at \in OnShelf \cup AtRest \cup {"skills", "agents"},
         UNCHANGED <<hplan, files, fileManifest, owned, touched, cutShort>>,
         ShelfReady(Worker)', InPlace(Worker)'
  PROVE  ResumeInv'
<1>1. FilesReady(Worker)'
  BY FilesStay DEF ResumeInv, OnShelf, OverFiles, AtRest
<1>2. RuleReady(Worker)'
  BY RuleStays DEF ResumeInv, OnShelf, WritingRule, Forgetting, AtRest
<1> QED BY <1>1, <1>2 DEF ResumeInv

\* A command begins with everything as it was.
LEMMA BeginResume ==
  ASSUME InstallInv, ResumeInv, NEW p \in hplan.procs, NEW c \in hplan.cmds,
         BeginInstall(p, c) \/ BeginUpgrade(p, c) \/ BeginReconcile(p, c)
  PROVE  ResumeInv'
<1>1. /\ UNCHANGED <<hplan, shelf, shelfManifest, files, fileManifest, owned, touched, cutShort>>
      /\ installer[p].at = "idle"
  BY DEF BeginInstall, BeginUpgrade, BeginReconcile, shelfVars, fileVars, ghosts
<1>2. CASE BeginReconcile(p, c)
  <2> DEFINE t == [Unused EXCEPT !.at = "waiting", !.cmd = c]
  <2>1. installer' = [installer EXCEPT ![p] = t] /\ contentLock' = contentLock
    BY <1>2 DEF BeginReconcile, Put
  <2> HIDE DEF t
  <2>2. contentLock # p
    BY <1>1, InstallAssumption DEF ResumeInv, OneAtWork, AtRest, InstallInv
  <2>3. Worker' = Worker /\ OneAtWork'
    BY <1>1, <2>1, <2>2 DEF Worker, OneAtWork, ResumeInv
  <2> QED BY <1>1, <2>3 DEF ResumeInv, ShelfReady, ShelfSettled, ShelfUnderway, FilesReady, FileDue, FileUntouched,
             HalfDone, RuleReady, InPlace, Owns, SkillsOf, ArtifactsOf, Shipped
<1>3. CASE ~ BeginReconcile(p, c)
  <2> DEFINE t == [[Unused EXCEPT !.cmd = c] EXCEPT !.at = "skills"]
  <2>1. Put(p, t) /\ contentLock' = p /\ contentLock = Nobody
    BY <1>3 DEF BeginInstall, BeginUpgrade, TakeLock
  <2>2. t.at = "skills"
    BY DEF Unused
  <2> HIDE DEF t
  <2>3. Worker' = t /\ OneAtWork' /\ Worker.at = "idle"
    BY <1>1, <2>1, <2>2, GoesOnWorking, UnusedRecord DEF AtRest, Worker
  <2>4. ShelfReady(Worker)'
    BY <1>1, <2>2, <2>3, ShelfStays DEF ResumeInv, OnShelf
  <2>5. InPlace(Worker)'
    BY <1>1, <2>2, <2>3, PlacesStay DEF ResumeInv, OnShelf
  <2> QED BY <1>1, <2>2, <2>3, <2>4, <2>5, ShelfStepRest
<1> QED BY <1>2, <1>3

\* So does a reconcile that goes on; one that does not leaves.
LEMMA ReconcileResume ==
  ASSUME InstallInv, ResumeInv, NEW p \in hplan.procs, Reconcile(p)
  PROVE  ResumeInv'
<1>1. /\ UNCHANGED <<hplan, shelf, shelfManifest, files, fileManifest, owned, touched, cutShort>>
      /\ installer[p].at = "waiting" /\ contentLock = Nobody
  BY DEF Reconcile, shelfVars, fileVars, ghosts
<1>2. Worker.at = "idle" /\ CommandRecord(installer[p])
  BY <1>1, UnusedRecord DEF Worker, InstallInv, HandsOK
<1>3. OneAtWork' /\ Worker'.at \in {"idle", "skills"}
  <2>1. CASE Leave(p)
    BY <2>1, StopsWorking, UnusedRecord
  <2>2. CASE TakeLock(p, installer[p])
    <3> DEFINE t == [installer[p] EXCEPT !.at = "skills"]
    <3>1. Put(p, t) /\ contentLock' = p
      BY <2>2 DEF TakeLock
    <3>2. t.at = "skills"
      BY <1>2 DEF CommandRecord, CommandFields
    <3> HIDE DEF t
    <3> QED BY <1>1, <3>1, <3>2, GoesOnWorking DEF AtRest
  <2> QED BY <2>1, <2>2 DEF Reconcile
<1>4. ShelfReady(Worker)'
  BY <1>1, <1>2, <1>3, ShelfStays DEF ResumeInv, OnShelf
<1>5. InPlace(Worker)'
  BY <1>1, <1>2, <1>3, PlacesStay DEF ResumeInv, OnShelf
<1> QED BY <1>1, <1>2, <1>3, <1>4, <1>5, ShelfStepRest DEF AtRest

\* What the preflight decides covers the whole shelf, and a conflict was touched.
LEMMA PreflightSkillsResume ==
  ASSUME InstallInv, ResumeInv, NEW p \in hplan.procs, PreflightSkills(p)
  PROVE  ResumeInv'
<1> DEFINE r == installer[p]
           prev == ManagedSkillsState
           bad == Conflicts(prev, r.cmd.ver)
           retire == DOMAIN prev.digests \ (SkillsOf(r.cmd.ver) \cup bad)
           publish == SkillsOf(r.cmd.ver) \ bad
           t == [r EXCEPT !.at = "shelf", !.prev = prev, !.bad = bad, !.retire = retire, !.publish = publish]
<1>1. /\ r.at = "skills" /\ Put(p, t)
      /\ UNCHANGED <<hplan, shelf, shelfManifest, files, fileManifest, owned, contentLock, touched, cutShort>>
  BY DEF PreflightSkills, shelfVars, fileVars, ghosts
<1>2. Worker = r /\ contentLock = p /\ CommandRecord(r)
  BY <1>1, IsWorker DEF AtRest, InstallInv, HandsOK
<1>3. DOMAIN prev.digests \subseteq DOMAIN shelf /\ retire \cap SkillsOf(r.cmd.ver) = {}
  BY DEF ManagedSkillsState, ResumeInv, InPlace
<1>4. cutShort = {} => \A s \in DOMAIN shelf : <<"skill", s>> \notin touched =>
        /\ s \notin bad
        /\ s \in SkillsOf(r.cmd.ver) => s \in publish
        /\ s \notin SkillsOf(r.cmd.ver) => s \in retire \/ shelf[s] = Absent
  <2>1. cutShort = {} => ShelfSettled
    BY <1>1, <1>2 DEF ResumeInv, ShelfReady, OnShelf
  <2> QED BY <2>1 DEF ShelfSettled, Conflicts, ModifiedSkills, ForeignSkills, ManagedSkillsState
<1> HIDE DEF prev, bad, retire, publish
<1>5. t = [x \in CommandFields |-> IF x = "at" THEN "shelf" ELSE IF x = "prev" THEN prev ELSE IF x = "bad" THEN bad
                            ELSE IF x = "retire" THEN retire ELSE IF x = "publish" THEN publish ELSE r[x]]
  BY <1>2 DEF CommandRecord, CommandFields
<1> HIDE DEF t
<1>6. t.at = "shelf" /\ t.cmd = r.cmd /\ t.prev = prev /\ t.bad = bad /\ t.retire = retire /\ t.publish = publish
  BY <1>5 DEF CommandFields
<1>7. Worker' = t /\ OneAtWork'
  BY <1>1, <1>2, <1>6, GoesOnWorking DEF AtRest
<1>8. ShelfReady(Worker)'
  BY <1>1, <1>4, <1>6, <1>7 DEF ShelfReady, ShelfUnderway, OnShelf, SkillsOf, Shipped
<1>9. InPlace(Worker)'
  BY <1>1, <1>3, <1>6, <1>7 DEF ResumeInv, InPlace, SkillsOf, ArtifactsOf, Shipped
<1> QED BY <1>1, <1>2, <1>6, <1>7, <1>8, <1>9, ShelfStepRest DEF OnShelf

\* What is put back has its place back, or another has taken it: the shelf has the
\* places it had.
LEMMA GivesBackResume ==
  ASSUME InstallInv, ResumeInv, NEW p \in hplan.procs, installer[p].at \in OnShelf, GiveBack(p),
         UNCHANGED <<hplan, shelfManifest, files, fileManifest, owned, touched>>
  PROVE  ResumeInv'
<1>1. installer[p].at \notin AtRest
  BY DEF OnShelf, AtRest
<1>2. Leave(p) /\ cutShort' = cutShort \cup {installer[p].cmd.ver} /\ DOMAIN shelf' = DOMAIN shelf
  BY DEF GiveBack
<1> QED BY <1>1, <1>2, CutsShort

\* A skill that is no longer shipped goes, and stays gone unless the user writes it.
LEMMA RetireSkillResume ==
  ASSUME InstallInv, ResumeInv, NEW p \in hplan.procs, RetireSkill(p)
  PROVE  ResumeInv'
<1> DEFINE r == installer[p]
<1>1. /\ UNCHANGED <<hplan, shelfManifest, files, fileManifest, owned, contentLock, touched, cutShort>>
      /\ r.at = "shelf"
  BY DEF RetireSkill, fileVars, ghosts
<1>2. Worker = r /\ contentLock = p /\ CommandRecord(r)
  BY <1>1, IsWorker DEF AtRest, InstallInv, HandsOK
<1>3. PICK s \in r.retire :
        LET next == [r EXCEPT !.retire = @ \ {s}]
        IN \/ shelf[s] = Absent /\ Put(p, next) /\ UNCHANGED shelf
           \/ SetAside(p, s, [next EXCEPT !.at = "retired"])
  BY DEF RetireSkill
<1> DEFINE next == [r EXCEPT !.retire = @ \ {s}]
<1>4. /\ CommandRecord(next) /\ next.at = "shelf" /\ next.cmd = r.cmd /\ next.prev = r.prev /\ next.bad = r.bad
      /\ next.publish = r.publish /\ next.retire = r.retire \ {s}
  BY <1>1, <1>2 DEF CommandRecord, CommandFields
<1> HIDE DEF next
<1>5. PICK t : /\ Put(p, t) /\ t.at \in {"shelf", "retired"} /\ t.cmd = r.cmd /\ t.prev = r.prev /\ t.bad = r.bad
               /\ t.publish = r.publish /\ t.retire = r.retire \ {s}
               /\ DOMAIN shelf' = DOMAIN shelf
               /\ \A x \in DOMAIN shelf : shelf'[x] = IF x = s THEN Absent ELSE shelf[x]
  <2>1. CASE shelf[s] = Absent /\ Put(p, next) /\ UNCHANGED shelf
    BY <1>4, <2>1
  <2>2. CASE SetAside(p, s, [next EXCEPT !.at = "retired"])
    <3> DEFINE u == [next EXCEPT !.at = "retired"]
               t == [u EXCEPT !.skill = s, !.backup = shelf[s]]
    <3>1. Put(p, t) /\ shelf' = [shelf EXCEPT ![s] = Absent]
      BY <2>2 DEF SetAside
    <3>2. /\ CommandRecord(u) /\ u.at = "retired" /\ u.cmd = next.cmd /\ u.prev = next.prev /\ u.bad = next.bad
          /\ u.publish = next.publish /\ u.retire = next.retire
      BY <1>4 DEF CommandRecord, CommandFields
    <3> HIDE DEF u
    <3>3. /\ t.at = "retired" /\ t.cmd = next.cmd /\ t.prev = next.prev /\ t.bad = next.bad
          /\ t.publish = next.publish /\ t.retire = next.retire
      BY <3>2 DEF CommandRecord, CommandFields
    <3> HIDE DEF t
    <3> QED BY <1>4, <3>1, <3>3
  <2> QED BY <1>3, <2>1, <2>2 DEF next
<1>6. Worker' = t /\ OneAtWork'
  BY <1>1, <1>2, <1>5, GoesOnWorking DEF AtRest
<1>7. ShelfReady(Worker)'
  <2>1. cutShort = {} => ShelfUnderway(r)
    BY <1>1, <1>2 DEF ResumeInv, ShelfReady, OnShelf
  <2>2. s \notin SkillsOf(r.cmd.ver)
    BY <1>1, <1>2 DEF ResumeInv, InPlace, OnShelf
  <2> QED BY <1>1, <1>5, <1>6, <2>1, <2>2 DEF ShelfReady, ShelfUnderway, OnShelf, SkillsOf, Shipped
<1>8. InPlace(Worker)'
  BY <1>1, <1>2, <1>5, <1>6, PlacesStay DEF ResumeInv, OnShelf
<1> QED BY <1>1, <1>2, <1>5, <1>6, <1>7, <1>8, ShelfStepRest DEF OnShelf

\* A command on the shelf that goes on with the shelf as it is.
LEMMA ShelfGoesOn ==
  ASSUME InstallInv, ResumeInv, NEW p \in hplan.procs, NEW t, Put(p, t), UNCHANGED contentLock,
         UNCHANGED <<hplan, shelf, shelfManifest, files, fileManifest, owned, touched, cutShort>>,
         installer[p].at \in OnShelf, t.at \in OnShelf, t.cmd = installer[p].cmd, t.prev = installer[p].prev,
         t.bad = installer[p].bad, t.retire = installer[p].retire, t.publish = installer[p].publish,
         \/ installer[p].at \in {"replaced", "placing"} /\ t.at \in {"replaced", "placing"} /\ t.skill = installer[p].skill
         \/ installer[p].at \notin {"replaced", "placing"} /\ t.at \notin {"replaced", "placing"}
  PROVE  ResumeInv'
<1>1. Worker = installer[p] /\ contentLock = p
  BY IsWorker DEF OnShelf, AtRest
<1>2. Worker' = t /\ OneAtWork'
  BY <1>1, GoesOnWorking DEF OnShelf, AtRest
<1>3. ShelfReady(Worker)'
  BY <1>1, <1>2 DEF ResumeInv, ShelfReady, ShelfUnderway, SkillsOf, Shipped
<1>4. t.at \in {"replaced", "placing"} => t.skill \in SkillsOf(t.cmd.ver)
  BY <1>1 DEF ResumeInv, InPlace
<1>5. InPlace(Worker)'
  BY <1>1, <1>2, <1>4, PlacesStay DEF ResumeInv, SkillsOf, Shipped
<1> QED BY <1>1, <1>2, <1>3, <1>5, ShelfStepRest

\* A retired skill is staged or given back.
LEMMA VerifyRetiredResume ==
  ASSUME InstallInv, ResumeInv, NEW p \in hplan.procs, VerifyRetired(p)
  PROVE  ResumeInv'
<1> DEFINE r == installer[p]
           u == Staged(r)
           t == [u EXCEPT !.at = "shelf"]
<1>1. UNCHANGED <<hplan, shelfManifest, files, fileManifest, owned, touched>> /\ r.at = "retired"
  BY DEF VerifyRetired, fileVars
<1>2. CommandRecord(r)
  BY DEF InstallInv, HandsOK
<1>3. CASE GiveBack(p)
  BY <1>1, <1>3, GivesBackResume DEF OnShelf
<1>4. CASE Put(p, t) /\ UNCHANGED <<shelf, contentLock, cutShort>>
  <2>1. /\ CommandRecord(u) /\ u.cmd = r.cmd /\ u.prev = r.prev /\ u.bad = r.bad
        /\ u.publish = r.publish /\ u.retire = r.retire
    BY <1>2 DEF Staged, CommandRecord, CommandFields
  <2> HIDE DEF u
  <2>2. /\ t.at = "shelf" /\ t.cmd = u.cmd /\ t.prev = u.prev /\ t.bad = u.bad
        /\ t.publish = u.publish /\ t.retire = u.retire
    BY <2>1 DEF CommandRecord, CommandFields
  <2> HIDE DEF t
  <2> QED BY <1>1, <1>4, <2>1, <2>2, ShelfGoesOn DEF OnShelf
<1> QED BY <1>3, <1>4 DEF VerifyRetired

\* A skill that was set aside is replaced or given back.
LEMMA VerifyReplacedResume ==
  ASSUME InstallInv, ResumeInv, NEW p \in hplan.procs, VerifyReplaced(p)
  PROVE  ResumeInv'
<1> DEFINE r == installer[p]
           t == [r EXCEPT !.at = "placing"]
<1>1. UNCHANGED <<hplan, shelfManifest, files, fileManifest, owned, touched>> /\ r.at = "replaced"
  BY DEF VerifyReplaced, fileVars
<1>2. CommandRecord(r)
  BY DEF InstallInv, HandsOK
<1>3. CASE GiveBack(p)
  BY <1>1, <1>3, GivesBackResume DEF OnShelf
<1>4. CASE Put(p, t) /\ UNCHANGED <<shelf, contentLock, cutShort>>
  <2>1. /\ t.at = "placing" /\ t.cmd = r.cmd /\ t.prev = r.prev /\ t.bad = r.bad
        /\ t.publish = r.publish /\ t.retire = r.retire /\ t.skill = r.skill
    BY <1>2 DEF CommandRecord, CommandFields
  <2> HIDE DEF t
  <2> QED BY <1>1, <1>4, <2>1, ShelfGoesOn DEF OnShelf
<1> QED BY <1>3, <1>4 DEF VerifyReplaced

\* A skill of this version is as it ships, or on its way.
LEMMA PublishSkillResume ==
  ASSUME InstallInv, ResumeInv, NEW p \in hplan.procs, PublishSkill(p)
  PROVE  ResumeInv'
<1> DEFINE r == installer[p]
           s == Min(r.publish)
           next == [r EXCEPT !.publish = @ \ {s}]
<1>1. /\ UNCHANGED <<hplan, shelfManifest, files, fileManifest, owned, touched>>
      /\ r.at = "shelf" /\ r.publish # {}
  BY DEF PublishSkill, fileVars
<1>2. /\ CommandRecord(r) /\ r.publish \subseteq SkillsOf(r.cmd.ver) /\ SkillsOf(r.cmd.ver) \subseteq Nat
      /\ Worker = r /\ contentLock = p
  BY <1>1, AtWork, IsWorker DEF AtRest, HandsOK, OnShelf, SkillsOf
<1>3. s \in SkillsOf(r.cmd.ver)
  <2>1. \E m \in r.publish : \A x \in r.publish : m <= x
    BY <1>1, <1>2, LeastMember
  <2> QED BY <1>2, <2>1 DEF Min
<1> HIDE DEF s
<1>4. /\ CommandRecord(next) /\ next.at = "shelf" /\ next.cmd = r.cmd /\ next.prev = r.prev /\ next.bad = r.bad
      /\ next.publish = r.publish \ {s} /\ next.retire = r.retire
  BY <1>1, <1>2 DEF CommandRecord, CommandFields
<1> HIDE DEF next
<1>5. CASE Leave(p) /\ cutShort' = cutShort \cup {r.cmd.ver} /\ UNCHANGED shelf
  BY <1>1, <1>5, CutsShort DEF AtRest
<1>6. CASE ~ (Leave(p) /\ cutShort' = cutShort \cup {r.cmd.ver} /\ UNCHANGED shelf)
  <2>1. PICK t : /\ Put(p, t) /\ t.cmd = r.cmd /\ t.prev = r.prev /\ t.bad = r.bad
                 /\ t.publish = r.publish \ {s} /\ t.retire = r.retire
                 /\ \/ t.at = "shelf" /\ shelf[s] = Shipped(r.cmd.ver).skills[s]
                    \/ t.at \in {"replaced", "placing"} /\ t.skill = s
                 /\ UNCHANGED <<contentLock, cutShort>> /\ DOMAIN shelf' = DOMAIN shelf
                 /\ \A x \in DOMAIN shelf : x # s \/ t.at = "shelf" => shelf'[x] = shelf[x]
    <3>1. CASE /\ shelf[s] = Shipped(r.cmd.ver).skills[s] /\ Put(p, next)
               /\ UNCHANGED <<shelf, contentLock, cutShort>>
      BY <1>4, <3>1
    <3>2. CASE Put(p, [next EXCEPT !.at = "placing", !.skill = s]) /\ UNCHANGED <<shelf, contentLock, cutShort>>
      <4> DEFINE t == [next EXCEPT !.at = "placing", !.skill = s]
      <4>1. /\ t.at = "placing" /\ t.cmd = next.cmd /\ t.prev = next.prev /\ t.bad = next.bad
            /\ t.publish = next.publish /\ t.retire = next.retire /\ t.skill = s
        BY <1>4 DEF CommandRecord, CommandFields
      <4>2. Put(p, t)
        BY <3>2
      <4> HIDE DEF t
      <4> QED BY <1>4, <3>2, <4>1, <4>2
    <3>3. CASE SetAside(p, s, [next EXCEPT !.at = "replaced"]) /\ UNCHANGED <<contentLock, cutShort>>
      <4> DEFINE u == [next EXCEPT !.at = "replaced"]
                 t == [u EXCEPT !.skill = s, !.backup = shelf[s]]
      <4>1. Put(p, t) /\ shelf' = [shelf EXCEPT ![s] = Absent]
        BY <3>3 DEF SetAside
      <4>2. /\ CommandRecord(u) /\ u.at = "replaced" /\ u.cmd = next.cmd /\ u.prev = next.prev /\ u.bad = next.bad
            /\ u.publish = next.publish /\ u.retire = next.retire
        BY <1>4 DEF CommandRecord, CommandFields
      <4> HIDE DEF u
      <4>3. /\ t.at = "replaced" /\ t.cmd = next.cmd /\ t.prev = next.prev /\ t.bad = next.bad
            /\ t.publish = next.publish /\ t.retire = next.retire /\ t.skill = s
        BY <4>2 DEF CommandRecord, CommandFields
      <4> HIDE DEF t
      <4> QED BY <1>4, <3>3, <4>1, <4>3
    <3> QED BY <1>6, <3>1, <3>2, <3>3 DEF PublishSkill, next, s
  <2>2. Worker' = t /\ OneAtWork' /\ t.at \in OnShelf
    BY <1>1, <1>2, <2>1, GoesOnWorking DEF AtRest, OnShelf
  <2>3. ShelfReady(Worker)'
    <3>1. cutShort = {} => ShelfUnderway(r)
      BY <1>1, <1>2 DEF ResumeInv, ShelfReady, OnShelf
    <3> QED BY <1>1, <1>3, <2>1, <2>2, <3>1 DEF ShelfReady, ShelfUnderway, SkillsOf, Shipped
  <2>4. InPlace(Worker)'
    BY <1>1, <1>2, <1>3, <2>1, <2>2, PlacesStay DEF ResumeInv, OnShelf, SkillsOf, Shipped
  <2> QED BY <1>1, <1>2, <2>1, <2>2, <2>3, <2>4, ShelfStepRest DEF OnShelf
<1> QED BY <1>5, <1>6

\* A skill that is placed is the one this version ships.
LEMMA PlaceSkillResume ==
  ASSUME InstallInv, ResumeInv, NEW p \in hplan.procs, PlaceSkill(p)
  PROVE  ResumeInv'
<1> DEFINE r == installer[p]
<1>1. UNCHANGED <<hplan, shelfManifest, files, fileManifest, owned, touched>> /\ r.at = "placing"
  BY DEF PlaceSkill, fileVars
<1>2. CommandRecord(r) /\ Worker = r /\ contentLock = p /\ r.skill \in SkillsOf(r.cmd.ver)
  BY <1>1, IsWorker DEF AtRest, InstallInv, HandsOK, ResumeInv, InPlace
<1>3. CASE GiveBack(p)
  BY <1>1, <1>3, GivesBackResume DEF OnShelf
<1>4. CASE Leave(p) /\ cutShort' = cutShort \cup {r.cmd.ver} /\ UNCHANGED <<shelf, kept>>
  BY <1>1, <1>4, CutsShort DEF AtRest
<1>5. CASE /\ shelf' = [shelf EXCEPT ![r.skill] = Shipped(r.cmd.ver).skills[r.skill]]
           /\ Put(p, [(IF r.backup = Absent THEN r ELSE Staged(r)) EXCEPT !.at = "shelf"])
           /\ UNCHANGED <<contentLock, cutShort>>
  <2> DEFINE u == IF r.backup = Absent THEN r ELSE Staged(r)
             t == [u EXCEPT !.at = "shelf"]
  <2>1. /\ CommandRecord(u) /\ u.cmd = r.cmd /\ u.prev = r.prev /\ u.bad = r.bad
        /\ u.publish = r.publish /\ u.retire = r.retire
    BY <1>2 DEF Staged, CommandRecord, CommandFields
  <2>2. Put(p, t)
    BY <1>5
  <2> HIDE DEF u
  <2>3. /\ t.at = "shelf" /\ t.cmd = r.cmd /\ t.prev = r.prev /\ t.bad = r.bad
        /\ t.publish = r.publish /\ t.retire = r.retire
    BY <2>1 DEF CommandRecord, CommandFields
  <2> HIDE DEF t
  <2>4. Worker' = t /\ OneAtWork'
    BY <1>1, <1>2, <1>5, <2>2, <2>3, GoesOnWorking DEF AtRest
  <2>5. ShelfReady(Worker)'
    <3> SUFFICES ASSUME cutShort = {} PROVE ShelfUnderway(Worker)'
      BY <1>5, <2>3, <2>4 DEF ShelfReady, OnShelf
    <3>1. ShelfUnderway(r)
      BY <1>1, <1>2 DEF ResumeInv, ShelfReady, OnShelf
    <3>2. DOMAIN shelf' = DOMAIN shelf /\ \A s \in DOMAIN shelf : s # r.skill => shelf'[s] = shelf[s]
      BY <1>5
    <3>3. Worker'.cmd.ver = r.cmd.ver /\ Worker'.bad = t.bad /\ Worker'.publish = t.publish /\ Worker'.retire = t.retire
      BY <2>3, <2>4
    <3>6. SkillsOf(Worker.cmd.ver)' = SkillsOf(r.cmd.ver) /\ Shipped(Worker.cmd.ver)' = Shipped(r.cmd.ver)
      BY <1>1, <3>3 DEF SkillsOf, Shipped
    <3>4. r.skill \in DOMAIN shelf => shelf'[r.skill] = Shipped(r.cmd.ver).skills[r.skill]
      BY <1>5
    <3>5. ASSUME NEW s \in DOMAIN shelf, <<"skill", s>> \notin touched
          PROVE  /\ s \notin t.bad
                 /\ s \in SkillsOf(r.cmd.ver) => s \in t.publish \/ shelf'[s] = Shipped(r.cmd.ver).skills[s]
                 /\ s \notin SkillsOf(r.cmd.ver) => s \in t.retire \/ shelf'[s] = Absent
      <4>1. CASE s = r.skill
        BY <1>2, <2>3, <3>1, <3>4, <3>5, <4>1 DEF ShelfUnderway
      <4>2. CASE s # r.skill
        BY <2>3, <3>1, <3>2, <3>5, <4>2 DEF ShelfUnderway
      <4> QED BY <4>1, <4>2
    <3> QED BY <1>1, <3>2, <3>3, <3>5, <3>6 DEF ShelfUnderway
  <2>6. InPlace(Worker)'
    BY <1>1, <1>2, <1>5, <2>3, <2>4, PlacesStay DEF ResumeInv, OnShelf
  <2> QED BY <1>1, <1>2, <1>5, <2>3, <2>4, <2>5, <2>6, ShelfStepRest DEF OnShelf
<1> QED BY <1>3, <1>4, <1>5 DEF PlaceSkill

\* The manifest that is written says what is there.
LEMMA WriteShelfManifestResume ==
  ASSUME InstallInv, ResumeInv, NEW p \in hplan.procs, WriteShelfManifest(p)
  PROVE  ResumeInv'
<1> DEFINE r == installer[p]
           v == r.cmd.ver
           left == r.bad \cap DOMAIN r.prev.digests
           new == [s \in (SkillsOf(v) \ r.bad) \cup left |->
                     IF s \in left THEN r.prev.digests[s] ELSE Shipped(v).skills[s]]
           t == [r EXCEPT !.at = "agents", !.stage = {}]
<1>1. /\ UNCHANGED <<hplan, shelf, files, fileManifest, owned, touched, cutShort>> /\ r.at = "shelf"
      /\ r.retire = {} /\ r.publish = {} /\ shelfManifest'.digests = new
  BY DEF WriteShelfManifest, fileVars, ghosts
<1>2. CommandRecord(r) /\ Worker = r /\ contentLock = p /\ r.cmd \in hplan.cmds
  BY <1>1, IsWorker DEF AtRest, InstallInv, HandsOK
<1>3. OneAtWork' /\ Worker'.at \in {"idle", "agents"}
  <2>1. CASE Leave(p)
    BY <2>1, StopsWorking, UnusedRecord
  <2>2. CASE Put(p, t) /\ UNCHANGED contentLock
    <3>1. t.at = "agents"
      BY <1>2 DEF CommandRecord, CommandFields
    <3> HIDE DEF t
    <3> QED BY <1>1, <1>2, <2>2, <3>1, GoesOnWorking DEF AtRest
  <2> QED BY <2>1, <2>2 DEF WriteShelfManifest
<1>4. DOMAIN new \subseteq DOMAIN shelf
  BY <1>1, <1>2 DEF ResumeInv, InPlace, OnShelf
<1>5. cutShort = {} => \A s \in DOMAIN shelf : <<"skill", s>> \notin touched =>
        IF s \in DOMAIN new THEN shelf[s] = new[s] ELSE shelf[s] = Absent
  <2>1. cutShort = {} => ShelfUnderway(r)
    BY <1>1, <1>2 DEF ResumeInv, ShelfReady, OnShelf
  <2> QED BY <1>1, <2>1 DEF ShelfUnderway
<1> HIDE DEF new
<1>6. ShelfReady(Worker)'
  BY <1>1, <1>3, <1>5 DEF ShelfReady, ShelfSettled, OnShelf
<1>7. InPlace(Worker)'
  BY <1>1, <1>3, <1>4 DEF ResumeInv, InPlace, OnShelf, SkillsOf, ArtifactsOf, Shipped
<1> QED BY <1>1, <1>2, <1>3, <1>6, <1>7, ShelfStepRest DEF OnShelf, AtRest

\* A step past the shelf leaves it as it is.
LEMMA PastShelfRest ==
  ASSUME ResumeInv, OneAtWork', PastShelf(Worker), PastShelf(Worker') \/ Worker'.at = "idle",
         UNCHANGED <<hplan, shelf, shelfManifest, touched, cutShort>>, FilesReady(Worker)', RuleReady(Worker)',
         DOMAIN files' = DOMAIN files, DOMAIN fileManifest'.digests \subseteq DOMAIN files \ RuleParts
  PROVE  ResumeInv'
<1>1. Worker.at \notin OnShelf /\ Worker'.at \notin OnShelf
  BY DEF PastShelf, OnShelf
<1>2. ShelfReady(Worker)'
  BY <1>1, ShelfStays DEF ResumeInv
<1>3. InPlace(Worker)'
  BY <1>1 DEF ResumeInv, InPlace, OnShelf, SkillsOf, ArtifactsOf, Shipped
<1> QED BY <1>2, <1>3 DEF ResumeInv

\* A step over the files that goes on: the rule, the block and the shelf stay.
LEMMA FilesGoOn ==
  ASSUME InstallInv, ResumeInv, NEW p \in hplan.procs, NEW t, Put(p, t), UNCHANGED contentLock,
         UNCHANGED <<hplan, shelf, shelfManifest, owned, touched, cutShort>>,
         DOMAIN files' = DOMAIN files, \A f \in RuleParts : files'[f] = files[f],
         DOMAIN fileManifest'.digests \subseteq DOMAIN files \ RuleParts,
         PastShelf(installer[p]), PastShelf(t),
         installer[p].at \notin WritingRule \cup Forgetting, t.at \notin WritingRule \cup Forgetting,
         Worker' = t => FilesReady(Worker)'
  PROVE  ResumeInv'
<1>1. Worker = installer[p] /\ contentLock = p
  BY IsWorker DEF PastShelf
<1>2. Worker' = t /\ OneAtWork'
  BY <1>1, GoesOnWorking DEF PastShelf
<1>3. RuleReady(Worker)'
  BY <1>1, <1>2, RuleStays DEF ResumeInv, RuleParts
<1> QED BY <1>1, <1>2, <1>3, PastShelfRest

\* The agents folder is none of the files.
LEMMA SyncAgentsResume ==
  ASSUME InstallInv, ResumeInv, NEW p \in hplan.procs, SyncAgents(p)
  PROVE  ResumeInv'
<1> DEFINE r == installer[p]
           t == [r EXCEPT !.at = "adapters"]
<1>1. /\ UNCHANGED <<hplan, shelf, shelfManifest, files, fileManifest, owned, touched, cutShort, contentLock>>
      /\ r.at = "agents" /\ Put(p, t)
  BY DEF SyncAgents, shelfVars, ghosts
<1>2. t.at = "adapters" /\ Worker = r
  BY <1>1, PlaceRecord, IsWorker DEF AtRest, InstallInv, HandsOK
<1> HIDE DEF t
<1>3. Worker' = t => FilesReady(Worker)'
  BY <1>1, <1>2, FilesStay DEF ResumeInv, OverFiles
<1> QED BY <1>1, <1>2, <1>3, FilesGoOn DEF PastShelf, AtRest, OnShelf, WritingRule, Forgetting, ResumeInv, InPlace

\* What is in the snapshot is what was due when it was taken.
LEMMA PreflightFilesResume ==
  ASSUME InstallInv, ResumeInv, NEW p \in hplan.procs, PreflightFiles(p)
  PROVE  ResumeInv'
<1> DEFINE r == installer[p]
           snap == SnapshotOf(r.cmd.ver)
           t == [r EXCEPT !.at = "recheck", !.snap = snap]
<1>1. UNCHANGED <<hplan, shelf, shelfManifest, files, fileManifest, owned, touched>> /\ r.at = "adapters"
  BY DEF PreflightFiles, fileVars, shelfVars
<1>2. CommandRecord(r) /\ Worker = r /\ r.cmd \in hplan.cmds
  BY <1>1, IsWorker DEF AtRest, InstallInv, HandsOK
<1>3. CASE Refuse(p)
  BY <1>1, <1>3, CutsShort DEF Refuse, AtRest
<1>4. CASE Put(p, t) /\ UNCHANGED <<contentLock, cutShort>>
  <2>1. /\ DOMAIN snap = DOMAIN fileManifest.digests \cup ArtifactsOf(r.cmd.ver)
        /\ \A f \in DOMAIN snap : snap[f] = files[f]
    BY DEF SnapshotOf
  <2>2. DOMAIN snap \subseteq DOMAIN files \ RuleParts
    BY <1>2, <2>1 DEF ResumeInv, InPlace
  <2> HIDE DEF snap
  <2>3. t.at = "recheck" /\ t.cmd = r.cmd /\ t.snap = snap
    BY <1>2 DEF CommandRecord, CommandFields
  <2> HIDE DEF t
  <2>4. HalfDone(r, OverFiles) = cutShort
    BY <1>1 DEF HalfDone, OverFiles
  <2>5. \A f \in DOMAIN files \ RuleParts : FileUntouched(f) => FileDue(f, files[f], cutShort)
    BY <1>2, <2>4 DEF ResumeInv, FilesReady
  <2>6. Worker' = t => FilesReady(Worker)'
    BY <1>1, <1>4, <2>1, <2>2, <2>3, <2>5
       DEF FilesReady, FileUntouched, FileDue, HalfDone, OverFiles, ArtifactsOf, Shipped
  <2> QED BY <1>1, <1>2, <1>4, <2>3, <2>6, FilesGoOn
          DEF PastShelf, AtRest, OnShelf, WritingRule, Forgetting, ResumeInv, InPlace
<1> QED BY <1>3, <1>4 DEF PreflightFiles

\* A step over the files that keeps the snapshot and leaves the files as they are.
LEMMA SnapshotStays ==
  ASSUME FilesReady(Worker), Worker.at \in OverFiles, Worker'.at \in OverFiles,
         UNCHANGED <<hplan, files, fileManifest, touched, cutShort>>, Worker'.snap = Worker.snap, Worker'.cmd = Worker.cmd,
         Worker'.at \in {"artifact", "mutate"} =>
           /\ Worker'.remove \cap ArtifactsOf(Worker.cmd.ver) = {} /\ Worker'.write \subseteq ArtifactsOf(Worker.cmd.ver)
           /\ \A f \in DOMAIN Worker.snap \ (Worker'.remove \cup Worker'.write) :
                FileUntouched(f) => files[f] = Digest(Shipped(Worker.cmd.ver).artifacts, f),
         Worker'.at = "mutate" => Worker'.file \in Worker'.remove \cup Worker'.write
  PROVE  FilesReady(Worker)'
<1>1. HalfDone(Worker, OverFiles)' = HalfDone(Worker, OverFiles)
  BY DEF HalfDone
<1>2. \A f, x, V : FileDue(f, x, V)' = FileDue(f, x, V)
  BY DEF FileDue, ArtifactsOf, Shipped
<1>3. \A f \in DOMAIN files \ RuleParts : FileUntouched(f) => FileDue(f, files[f], HalfDone(Worker, OverFiles))'
  BY <1>1, <1>2 DEF FilesReady
<1>4. /\ DOMAIN Worker.snap = DOMAIN fileManifest.digests \cup ArtifactsOf(Worker.cmd.ver)
      /\ \A f \in DOMAIN Worker.snap : FileUntouched(f) => FileDue(f, Worker.snap[f], cutShort)'
  BY <1>2 DEF FilesReady
<1> QED BY <1>3, <1>4 DEF FilesReady, FileUntouched, ArtifactsOf, Shipped

\* What is to be written and removed is what this version ships and does not ship.
LEMMA RecheckFilesResume ==
  ASSUME InstallInv, ResumeInv, NEW p \in hplan.procs, RecheckFiles(p)
  PROVE  ResumeInv'
<1> DEFINE r == installer[p]
           write == ArtifactsOf(r.cmd.ver)
           remove == DOMAIN fileManifest.digests \ ArtifactsOf(r.cmd.ver)
           t == [r EXCEPT !.at = "artifact", !.write = write, !.remove = remove]
<1>1. UNCHANGED <<hplan, shelf, shelfManifest, files, fileManifest, owned, touched>> /\ r.at = "recheck"
  BY DEF RecheckFiles, fileVars, shelfVars
<1>2. CommandRecord(r) /\ Worker = r
  BY <1>1, IsWorker DEF AtRest, InstallInv, HandsOK
<1>3. CASE Refuse(p)
  BY <1>1, <1>3, CutsShort DEF Refuse, AtRest
<1>4. CASE Put(p, t) /\ UNCHANGED <<contentLock, cutShort>>
  <2>1. DOMAIN r.snap = remove \cup write /\ remove \cap write = {} /\ write = ArtifactsOf(r.cmd.ver)
    BY <1>1, <1>2 DEF ResumeInv, FilesReady, OverFiles
  <2> HIDE DEF remove, write
  <2>2. t.at = "artifact" /\ t.cmd = r.cmd /\ t.snap = r.snap /\ t.write = write /\ t.remove = remove
    BY <1>2 DEF CommandRecord, CommandFields
  <2> HIDE DEF t
  <2>3. Worker' = t => FilesReady(Worker)'
    BY <1>1, <1>2, <1>4, <2>1, <2>2, SnapshotStays DEF ResumeInv, OverFiles
  <2> QED BY <1>1, <1>2, <1>4, <2>2, <2>3, FilesGoOn
          DEF PastShelf, AtRest, OnShelf, WritingRule, Forgetting, ResumeInv, InPlace
<1> QED BY <1>3, <1>4 DEF RecheckFiles

\* The next file is one that is still to be done.
LEMMA EnsureUnchangedResume ==
  ASSUME InstallInv, ResumeInv, NEW p \in hplan.procs, EnsureUnchanged(p)
  PROVE  ResumeInv'
<1> DEFINE r == installer[p]
<1>1. /\ UNCHANGED <<hplan, shelf, shelfManifest, files, fileManifest, owned, touched, cutShort, contentLock>>
      /\ r.at = "artifact"
  BY DEF EnsureUnchanged, fileVars, shelfVars, ghosts
<1>2. CommandRecord(r) /\ Worker = r
  BY <1>1, IsWorker DEF AtRest, InstallInv, HandsOK
<1>3. PICK f \in r.remove \cup r.write, a \in {"mutate", "undo"} : Put(p, [r EXCEPT !.at = a, !.file = f])
  BY DEF EnsureUnchanged
<1> DEFINE t == [r EXCEPT !.at = a, !.file = f]
<1>4. /\ t.at = a /\ t.cmd = r.cmd /\ t.snap = r.snap /\ t.file = f /\ t.write = r.write /\ t.remove = r.remove
  BY <1>2 DEF CommandRecord, CommandFields
<1>5. Put(p, t)
  BY <1>3
<1> HIDE DEF t
<1>6. Worker' = t => FilesReady(Worker)'
  BY <1>1, <1>2, <1>3, <1>4, SnapshotStays DEF ResumeInv, OverFiles, FilesReady
<1> QED BY <1>1, <1>2, <1>4, <1>5, <1>6, FilesGoOn
        DEF PastShelf, AtRest, OnShelf, WritingRule, Forgetting, ResumeInv, InPlace

\* A file that is written is as this version ships it; one that is removed is gone.
LEMMA MutateFileResume ==
  ASSUME InstallInv, ResumeInv, NEW p \in hplan.procs, MutateFile(p)
  PROVE  ResumeInv'
<1> DEFINE r == installer[p]
           f == r.file
           new == IF f \in r.remove THEN Absent ELSE Shipped(r.cmd.ver).artifacts[f]
           remove == r.remove \ {f}
           write == IF f \in r.remove THEN r.write ELSE r.write \ {f}
           undo == IF new = r.snap[f] THEN r.undo ELSE <<f>> \o r.undo
           t == [r EXCEPT !.at = "artifact", !.remove = remove, !.write = write, !.undo = undo]
<1>1. /\ UNCHANGED <<hplan, shelf, shelfManifest, fileManifest, owned, touched, cutShort, contentLock>> /\ r.at = "mutate"
      /\ files' = [files EXCEPT ![f] = new] /\ Put(p, t)
  BY DEF MutateFile, shelfVars, ghosts
<1>2. CommandRecord(r) /\ Worker = r /\ r.cmd \in hplan.cmds
  BY <1>1, IsWorker DEF AtRest, InstallInv, HandsOK
<1>3. /\ DOMAIN r.snap = DOMAIN fileManifest.digests \cup ArtifactsOf(r.cmd.ver)
      /\ \A x \in DOMAIN r.snap : FileUntouched(x) => FileDue(x, r.snap[x], cutShort)
      /\ r.remove \cap ArtifactsOf(r.cmd.ver) = {} /\ r.write \subseteq ArtifactsOf(r.cmd.ver)
      /\ \A x \in DOMAIN r.snap \ (r.remove \cup r.write) :
           FileUntouched(x) => files[x] = Digest(Shipped(r.cmd.ver).artifacts, x)
      /\ f \in r.remove \cup r.write
  BY <1>1, <1>2 DEF ResumeInv, FilesReady, OverFiles
<1>4. f \in DOMAIN r.snap /\ DOMAIN r.snap \subseteq DOMAIN files \ RuleParts
  <2>1. r.remove \cup r.write \subseteq DOMAIN r.snap
    BY <1>1 DEF InstallInv, FilesOK
  <2> QED BY <1>2, <1>3, <2>1 DEF ResumeInv, InPlace
<1>5. /\ new = Digest(Shipped(r.cmd.ver).artifacts, f)
      /\ new = Absent \/ (f \in ArtifactsOf(r.cmd.ver) /\ new = Shipped(r.cmd.ver).artifacts[f])
  BY <1>3 DEF Digest, ArtifactsOf
<1>6. remove \cap ArtifactsOf(r.cmd.ver) = {} /\ write \subseteq ArtifactsOf(r.cmd.ver)
      /\ (r.remove \cup r.write) \subseteq remove \cup write \cup {f}
  BY <1>3
<1> HIDE DEF new, remove, write, undo
<1>7. t = [x \in CommandFields |-> IF x = "at" THEN "artifact" ELSE IF x = "remove" THEN remove
                            ELSE IF x = "write" THEN write ELSE IF x = "undo" THEN undo ELSE r[x]]
  BY <1>2 DEF CommandRecord, CommandFields
<1> HIDE DEF t
<1>8. t.at = "artifact" /\ t.cmd = r.cmd /\ t.snap = r.snap /\ t.write = write /\ t.remove = remove
  BY <1>7 DEF CommandFields
<1>9. ASSUME Worker' = t PROVE FilesReady(Worker)'
  <2>1. \A x, y, V : FileDue(x, y, V)' = FileDue(x, y, V)
    BY <1>1 DEF FileDue, ArtifactsOf, Shipped
  <2>2. HalfDone(Worker, OverFiles)' = HalfDone(r, OverFiles) /\ r.cmd.ver \in HalfDone(r, OverFiles)
    BY <1>1, <1>8, <1>9 DEF HalfDone, OverFiles
  <2>3. FileDue(f, new, HalfDone(r, OverFiles))
    BY <1>5, <2>2 DEF FileDue
  <2>4. ASSUME NEW x \in DOMAIN files \ RuleParts, FileUntouched(x)
        PROVE  FileDue(x, files'[x], HalfDone(r, OverFiles))
    BY <1>1, <1>2, <2>3, <2>4 DEF ResumeInv, FilesReady
  <2>5. \A x \in DOMAIN files' \ RuleParts : FileUntouched(x)' => FileDue(x, files[x], HalfDone(Worker, OverFiles))'
    BY <1>1, <2>1, <2>2, <2>4 DEF FileUntouched
  <2>6. \A x \in DOMAIN r.snap \ (remove \cup write) :
          FileUntouched(x) => files'[x] = Digest(Shipped(r.cmd.ver).artifacts, x)
    BY <1>1, <1>3, <1>4, <1>5, <1>6
  <2> QED BY <1>1, <1>3, <1>6, <1>8, <1>9, <2>1, <2>5, <2>6 DEF FilesReady, FileUntouched, ArtifactsOf, Shipped
<1>10. DOMAIN files' = DOMAIN files /\ \A x \in RuleParts : files'[x] = files[x]
  BY <1>1, <1>4
<1> QED BY <1>1, <1>2, <1>8, <1>9, <1>10, FilesGoOn
        DEF PastShelf, AtRest, OnShelf, WritingRule, Forgetting, ResumeInv, InPlace

\* A rollback writes what was due when the snapshot was taken.
LEMMA RollBackResume ==
  ASSUME InstallInv, ResumeInv, NEW p \in hplan.procs, RollBack(p)
  PROVE  ResumeInv'
<1> DEFINE r == installer[p]
           rest == Tail(r.undo)
           t == [r EXCEPT !.undo = rest]
<1>1. UNCHANGED <<hplan, shelf, shelfManifest, fileManifest, owned, touched>> /\ r.at = "undo"
  BY DEF RollBack, shelfVars
<1>2. CommandRecord(r) /\ Worker = r /\ r.cmd \in hplan.cmds /\ r.undo \in Seq(DOMAIN r.snap)
  BY <1>1, IsWorker DEF AtRest, InstallInv, HandsOK, FilesOK
<1>3. CASE Refuse(p) /\ UNCHANGED files
  BY <1>1, <1>3, CutsShort DEF Refuse, AtRest
<1>4. CASE /\ r.undo # <<>> /\ files' = [files EXCEPT ![Head(r.undo)] = r.snap[Head(r.undo)]]
           /\ Put(p, t) /\ UNCHANGED <<contentLock, cutShort>>
  <2> DEFINE f == Head(r.undo)
  <2>1. f \in DOMAIN r.snap /\ files' = [files EXCEPT ![f] = r.snap[f]]
    BY <1>2, <1>4, ListEnds
  <2> HIDE DEF f, rest
  <2>2. t.at = "undo" /\ t.cmd = r.cmd /\ t.snap = r.snap
    BY <1>1, <1>2 DEF CommandRecord, CommandFields
  <2> HIDE DEF t
  <2>3. /\ DOMAIN r.snap = DOMAIN fileManifest.digests \cup ArtifactsOf(r.cmd.ver)
        /\ \A x \in DOMAIN r.snap : FileUntouched(x) => FileDue(x, r.snap[x], cutShort)
        /\ DOMAIN r.snap \subseteq DOMAIN files \ RuleParts
    BY <1>1, <1>2 DEF ResumeInv, FilesReady, OverFiles, InPlace
  <2>4. ASSUME Worker' = t PROVE FilesReady(Worker)'
    <3>1. \A x, y, V : FileDue(x, y, V)' = FileDue(x, y, V)
      BY <1>1 DEF FileDue, ArtifactsOf, Shipped
    <3>2. HalfDone(Worker, OverFiles)' = HalfDone(r, OverFiles) /\ cutShort \subseteq HalfDone(r, OverFiles)
      BY <1>1, <1>4, <2>2, <2>4 DEF HalfDone, OverFiles
    <3>3. FileUntouched(f) => FileDue(f, r.snap[f], HalfDone(r, OverFiles))
      BY <2>1, <2>3, <3>2 DEF FileDue
    <3>4. ASSUME NEW x \in DOMAIN files \ RuleParts, FileUntouched(x)
          PROVE  FileDue(x, files'[x], HalfDone(r, OverFiles))
      BY <1>2, <2>1, <3>3, <3>4 DEF ResumeInv, FilesReady
    <3>5. \A x \in DOMAIN files' \ RuleParts : FileUntouched(x)' => FileDue(x, files[x], HalfDone(Worker, OverFiles))'
      BY <1>1, <2>1, <3>1, <3>2, <3>4 DEF FileUntouched
    <3> QED BY <1>1, <1>4, <2>2, <2>3, <2>4, <3>1, <3>5 DEF FilesReady, FileUntouched, ArtifactsOf, Shipped
  <2>5. DOMAIN files' = DOMAIN files /\ \A x \in RuleParts : files'[x] = files[x]
    BY <2>1, <2>3
  <2> QED BY <1>1, <1>2, <1>4, <2>2, <2>4, <2>5, FilesGoOn
          DEF PastShelf, AtRest, OnShelf, WritingRule, Forgetting, ResumeInv, InPlace
<1> QED BY <1>3, <1>4 DEF RollBack

\* The manifest that is written says what is there.
LEMMA WriteFileManifestResume ==
  ASSUME InstallInv, ResumeInv, NEW p \in hplan.procs, WriteFileManifest(p)
  PROVE  ResumeInv'
<1> DEFINE r == installer[p]
           t == [r EXCEPT !.at = "rule"]
           ships == Shipped(r.cmd.ver).artifacts
<1>1. /\ UNCHANGED <<hplan, shelf, shelfManifest, files, owned, touched, cutShort, contentLock>>
      /\ r.at = "artifact" /\ r.remove \cup r.write = {} /\ Put(p, t) /\ fileManifest'.digests = ships
  BY DEF WriteFileManifest, shelfVars, ghosts
<1>2. Worker = r /\ r.cmd \in hplan.cmds /\ t.at = "rule"
  BY <1>1, PlaceRecord, IsWorker DEF AtRest, InstallInv, HandsOK
<1>3. DOMAIN ships \subseteq DOMAIN files \ RuleParts /\ DOMAIN ships = ArtifactsOf(r.cmd.ver)
  BY <1>2 DEF ResumeInv, InPlace, ArtifactsOf
<1>4. ASSUME NEW f \in DOMAIN files \ RuleParts, FileUntouched(f)
      PROVE  \/ files[f] = Absent
             \/ f \in DOMAIN ships /\ files[f] = ships[f]
             \/ \E u \in cutShort : f \in ArtifactsOf(u) /\ files[f] = Shipped(u).artifacts[f]
  <2>1. FileDue(f, files[f], HalfDone(r, OverFiles))
    BY <1>2, <1>4 DEF ResumeInv, FilesReady
  <2>2. /\ DOMAIN r.snap = DOMAIN fileManifest.digests \cup ArtifactsOf(r.cmd.ver)
        /\ f \in DOMAIN r.snap => files[f] = Digest(ships, f)
    BY <1>1, <1>2, <1>4 DEF ResumeInv, FilesReady, OverFiles
  <2>3. CASE f \in DOMAIN r.snap
    BY <2>2, <2>3 DEF Digest
  <2>4. CASE f \notin DOMAIN r.snap
    BY <2>1, <2>2, <2>4 DEF FileDue, HalfDone
  <2> QED BY <2>3, <2>4
<1> HIDE DEF t, ships
<1>5. Worker' = t => FilesReady(Worker)'
  BY <1>1, <1>2, <1>4 DEF FilesReady, FileUntouched, FileDue, HalfDone, OverFiles, ArtifactsOf, Shipped
<1> QED BY <1>1, <1>2, <1>3, <1>5, FilesGoOn DEF PastShelf, AtRest, OnShelf, WritingRule, Forgetting

\* A step of the rule that goes on: the other files and the shelf stay.
LEMMA RuleGoesOn ==
  ASSUME InstallInv, ResumeInv, NEW p \in hplan.procs, NEW t, Put(p, t), UNCHANGED contentLock,
         UNCHANGED <<hplan, shelf, shelfManifest, fileManifest, touched, cutShort>>,
         DOMAIN files' = DOMAIN files, \A f \in DOMAIN files \ RuleParts : files'[f] = files[f],
         PastShelf(installer[p]), PastShelf(t), installer[p].at \notin OverFiles, t.at \notin OverFiles,
         Worker' = t => RuleReady(Worker)'
  PROVE  ResumeInv'
<1>1. Worker = installer[p] /\ contentLock = p
  BY IsWorker DEF PastShelf
<1>2. Worker' = t /\ OneAtWork'
  BY <1>1, GoesOnWorking DEF PastShelf
<1>3. FilesReady(Worker)'
  BY <1>1, <1>2, FilesStay DEF ResumeInv
<1>4. DOMAIN fileManifest'.digests \subseteq DOMAIN files \ RuleParts
  BY DEF ResumeInv, InPlace
<1> QED BY <1>1, <1>2, <1>3, <1>4, PastShelfRest

\* To converge is to write a rule there is.
LEMMA ConvergesToARule ==
  ASSUME NEW c, RuleStep(c) = "converge"
  PROVE  Shipped(c.ver).rule # Absent
BY DEF RuleStep, RuleGoal

\* The decision remembers the rule and the block as they are.
LEMMA DecideRuleResume ==
  ASSUME InstallInv, ResumeInv, NEW p \in hplan.procs, DecideRule(p)
  PROVE  ResumeInv'
<1> DEFINE r == installer[p]
           step == RuleStep(r.cmd)
           snap == [x \in RuleParts |-> files[x]]
<1>1. UNCHANGED <<hplan, shelf, shelfManifest, files, fileManifest, owned, touched>> /\ r.at = "rule"
  BY DEF DecideRule, fileVars, shelfVars
<1>2. CommandRecord(r) /\ Worker = r /\ NotUsers(owned) /\ Shipped(r.cmd.ver).rule # User
  BY <1>1, IsWorker, AtWork DEF AtRest, HandsOK
<1>3. CASE Refuse(p)
  BY <1>1, <1>3, CutsShort DEF Refuse, AtRest
<1>4. CASE step # "refuse" /\ ~ Refuse(p)
  <2>1. step \in {"leave", "retire", "converge"} /\ (step = "converge" => Shipped(r.cmd.ver).rule # Absent)
    BY <1>2, <1>4, RuleDecision, ConvergesToARule
  <2> DEFINE a == CASE step = "leave" -> "mark"
                    [] step = "retire" -> IF Owns("rule") THEN "dropRule" ELSE "dropGuidance"
                    [] step = "converge" -> "guidance"
             t == [r EXCEPT !.at = a, !.snap = snap]
  <2>2. Put(p, t) /\ UNCHANGED <<contentLock, cutShort>>
    BY <1>4 DEF DecideRule
  <2>3. /\ a \in {"mark", "dropRule", "dropGuidance", "guidance"}
        /\ a = "dropGuidance" => ~ Owns("rule")
        /\ a = "guidance" => Shipped(r.cmd.ver).rule # Absent
    BY <2>1
  <2>4. snap["rule"] = files["rule"] /\ snap["guidance"] = files["guidance"]
    BY DEF RuleParts
  <2> HIDE DEF a, snap
  <2>5. t.at = a /\ t.snap = snap /\ t.cmd = r.cmd
    BY <1>2 DEF CommandRecord, CommandFields
  <2> HIDE DEF t
  <2>6. ASSUME Worker' = t PROVE RuleReady(Worker)'
    <3>1. HalfDone(Worker, WritingRule) \subseteq HalfDone(Worker, WritingRule)'
      BY <1>1, <1>2, <2>2 DEF HalfDone, WritingRule
    <3>2. Worker.at = "rule" /\ RuleReady(Worker)
      BY <1>1, <1>2 DEF ResumeInv
    <3> QED BY <1>1, <2>2, <2>3, <2>4, <2>5, <2>6, <3>1, <3>2 DEF RuleReady, FileUntouched, WritingRule, Owns, Shipped
  <2> QED BY <1>1, <2>2, <2>3, <2>5, <2>6, RuleGoesOn DEF PastShelf, AtRest, OnShelf, OverFiles
<1> QED BY <1>3, <1>4 DEF DecideRule

\* The block is written as this version ships it.
LEMMA WriteGuidanceResume ==
  ASSUME InstallInv, ResumeInv, NEW p \in hplan.procs, WriteGuidance(p)
  PROVE  ResumeInv'
<1> DEFINE r == installer[p]
           want == Shipped(r.cmd.ver).rule
           t == [r EXCEPT !.at = "writeRule"]
<1>1. /\ UNCHANGED <<hplan, shelf, shelfManifest, fileManifest, owned, touched, cutShort, contentLock>>
      /\ r.at = "guidance" /\ Put(p, t)
      /\ files' = [files EXCEPT !["guidance"] = IF r.snap["guidance"] = want THEN @ ELSE want]
  BY DEF WriteGuidance, shelfVars, ghosts
<1>2. CommandRecord(r) /\ Worker = r
  BY <1>1, IsWorker DEF AtRest, InstallInv, HandsOK
<1>3. t.at = "writeRule" /\ t.cmd = r.cmd /\ t.snap = r.snap
  BY <1>2 DEF CommandRecord, CommandFields
<1> HIDE DEF t
<1>4. RuleReady(r) /\ "guidance" \in DOMAIN files
  BY <1>2 DEF ResumeInv, InPlace, RuleParts
<1>5. FileUntouched("guidance") => files'["guidance"] = want
  BY <1>1, <1>4 DEF RuleReady
<1>6. ASSUME Worker' = t PROVE RuleReady(Worker)'
  <2>1. HalfDone(r, WritingRule) = HalfDone(Worker, WritingRule)' /\ r.cmd.ver \in HalfDone(r, WritingRule)
    BY <1>1, <1>3, <1>6 DEF HalfDone, WritingRule
  <2>2. files'["rule"] = files["rule"]
    BY <1>1
  <2> QED BY <1>1, <1>3, <1>4, <1>5, <1>6, <2>1, <2>2 DEF RuleReady, FileUntouched, WritingRule, Owns, Shipped
<1>7. DOMAIN files' = DOMAIN files /\ \A f \in DOMAIN files \ RuleParts : files'[f] = files[f]
  BY <1>1 DEF RuleParts
<1> QED BY <1>1, <1>3, <1>6, <1>7, RuleGoesOn DEF PastShelf, AtRest, OnShelf, OverFiles

\* So is the rule.
LEMMA WriteRuleResume ==
  ASSUME InstallInv, ResumeInv, NEW p \in hplan.procs, WriteRule(p)
  PROVE  ResumeInv'
<1> DEFINE r == installer[p]
           want == Shipped(r.cmd.ver).rule
           t == [r EXCEPT !.at = "ruleManifest"]
<1>1. /\ UNCHANGED <<hplan, shelf, shelfManifest, fileManifest, owned, touched, cutShort, contentLock>>
      /\ r.at = "writeRule" /\ Put(p, t)
      /\ files' = [files EXCEPT !["rule"] = IF r.snap["rule"] = want THEN @ ELSE want]
  BY DEF WriteRule, shelfVars, ghosts
<1>2. CommandRecord(r) /\ Worker = r
  BY <1>1, IsWorker DEF AtRest, InstallInv, HandsOK
<1>3. t.at = "ruleManifest" /\ t.cmd = r.cmd
  BY <1>2 DEF CommandRecord, CommandFields
<1> HIDE DEF t
<1>4. RuleReady(r) /\ "rule" \in DOMAIN files
  BY <1>2 DEF ResumeInv, InPlace, RuleParts
<1>5. FileUntouched("rule") => files'["rule"] = want
  BY <1>1, <1>4 DEF RuleReady
<1>6. ASSUME Worker' = t PROVE RuleReady(Worker)'
  <2>1. HalfDone(r, WritingRule) = HalfDone(Worker, WritingRule)' /\ r.cmd.ver \in HalfDone(r, WritingRule)
    BY <1>1, <1>3, <1>6 DEF HalfDone, WritingRule
  <2>2. files'["guidance"] = files["guidance"]
    BY <1>1
  <2> QED BY <1>1, <1>3, <1>4, <1>5, <1>6, <2>1, <2>2 DEF RuleReady, FileUntouched, WritingRule, Owns, Shipped
<1>7. DOMAIN files' = DOMAIN files /\ \A f \in DOMAIN files \ RuleParts : files'[f] = files[f]
  BY <1>1 DEF RuleParts
<1> QED BY <1>1, <1>3, <1>6, <1>7, RuleGoesOn DEF PastShelf, AtRest, OnShelf, OverFiles

\* Once the manifest names the rule and the block, they are no longer halfway.
LEMMA WriteRuleManifestResume ==
  ASSUME InstallInv, ResumeInv, NEW p \in hplan.procs, WriteRuleManifest(p)
  PROVE  ResumeInv'
<1> DEFINE r == installer[p]
           t == [r EXCEPT !.at = "mark"]
<1>1. /\ UNCHANGED <<hplan, shelf, shelfManifest, files, fileManifest, touched, cutShort, contentLock>>
      /\ r.at = "ruleManifest" /\ Put(p, t) /\ owned' = [x \in RuleParts |-> Shipped(r.cmd.ver).rule]
  BY DEF WriteRuleManifest, shelfVars, ghosts
<1>2. Worker = r /\ t.at = "mark"
  BY <1>1, PlaceRecord, IsWorker DEF AtRest, InstallInv, HandsOK
<1> HIDE DEF t
<1>3. RuleReady(r)
  BY <1>2 DEF ResumeInv
<1>4. /\ DOMAIN owned' = RuleParts /\ "rule" \in RuleParts /\ "guidance" \in RuleParts
      /\ \A x \in RuleParts : owned'[x] = Shipped(r.cmd.ver).rule
  BY <1>1 DEF RuleParts
<1>5. Worker' = t => RuleReady(Worker)'
  BY <1>1, <1>2, <1>3, <1>4 DEF RuleReady, FileUntouched, WritingRule, Owns, Shipped
<1> QED BY <1>1, <1>2, <1>5, RuleGoesOn DEF PastShelf, AtRest, OnShelf, OverFiles

\* Retirement takes away what is as recorded, and then forgets it.
LEMMA DropRuleResume ==
  ASSUME InstallInv, ResumeInv, NEW p \in hplan.procs, DropRule(p)
  PROVE  ResumeInv'
<1> DEFINE r == installer[p]
           t == [r EXCEPT !.at = "forgetRule"]
<1>1. UNCHANGED <<hplan, shelf, shelfManifest, fileManifest, owned, touched>> /\ r.at = "dropRule"
  BY DEF DropRule, shelfVars
<1>2. Worker = r /\ t.at = "forgetRule" /\ CommandRecord(r) /\ "rule" \in DOMAIN files
  BY <1>1, PlaceRecord, IsWorker DEF AtRest, InstallInv, HandsOK, ResumeInv, InPlace, RuleParts
<1>3. CASE Refuse(p) /\ UNCHANGED files
  BY <1>1, <1>3, CutsShort DEF Refuse, AtRest
<1>4. CASE /\ files' = [files EXCEPT !["rule"] = Absent] /\ Put(p, t) /\ UNCHANGED <<contentLock, cutShort>>
  <2>1. t.cmd = r.cmd
    BY <1>2 DEF CommandRecord, CommandFields
  <2> HIDE DEF t
  <2>2. files'["rule"] = Absent /\ files'["guidance"] = files["guidance"] /\ RuleReady(r)
    BY <1>2, <1>4 DEF ResumeInv
  <2>3. ASSUME Worker' = t PROVE RuleReady(Worker)'
    <3>1. HalfDone(r, WritingRule) \subseteq HalfDone(Worker, WritingRule)'
      BY <1>1, <1>4, <2>3 DEF HalfDone, WritingRule
    <3> QED BY <1>1, <1>2, <1>4, <2>1, <2>2, <2>3, <3>1 DEF RuleReady, FileUntouched, WritingRule, Owns, Shipped
  <2>4. DOMAIN files' = DOMAIN files /\ \A f \in DOMAIN files \ RuleParts : files'[f] = files[f]
    BY <1>4 DEF RuleParts
  <2> QED BY <1>1, <1>2, <1>4, <2>3, <2>4, RuleGoesOn DEF PastShelf, AtRest, OnShelf, OverFiles
<1> QED BY <1>3, <1>4 DEF DropRule

\* The row of a rule that is gone goes.
LEMMA ForgetRuleResume ==
  ASSUME InstallInv, ResumeInv, NEW p \in hplan.procs, ForgetRule(p)
  PROVE  ResumeInv'
<1> DEFINE r == installer[p]
           t == [r EXCEPT !.at = "dropGuidance"]
<1>1. /\ UNCHANGED <<hplan, shelf, shelfManifest, files, fileManifest, touched, cutShort, contentLock>>
      /\ r.at = "forgetRule" /\ Put(p, t) /\ owned' = Without(owned, "rule")
  BY DEF ForgetRule, shelfVars, ghosts
<1>2. Worker = r /\ t.at = "dropGuidance" /\ CommandRecord(r)
  BY <1>1, PlaceRecord, IsWorker DEF AtRest, InstallInv, HandsOK
<1> HIDE DEF t
<1>3. RuleReady(r)
  BY <1>2 DEF ResumeInv
<1>4. /\ "rule" \notin DOMAIN owned' /\ ("guidance" \in DOMAIN owned' <=> Owns("guidance"))
      /\ Owns("guidance") => owned'["guidance"] = owned["guidance"]
  BY <1>1 DEF Without, Owns
<1>5. ASSUME Worker' = t PROVE RuleReady(Worker)'
  <2>1. HalfDone(r, WritingRule) \subseteq HalfDone(Worker, WritingRule)'
    BY <1>1, <1>5 DEF HalfDone, WritingRule
  <2> QED BY <1>1, <1>2, <1>3, <1>4, <1>5, <2>1 DEF RuleReady, FileUntouched, WritingRule, Owns, Shipped
<1> QED BY <1>1, <1>2, <1>5, RuleGoesOn DEF PastShelf, AtRest, OnShelf, OverFiles

\* The block that goes is the recorded one, or there is none.
LEMMA DropGuidanceResume ==
  ASSUME InstallInv, ResumeInv, NEW p \in hplan.procs, DropGuidance(p)
  PROVE  ResumeInv'
<1> DEFINE r == installer[p]
           t == [r EXCEPT !.at = "forgetGuidance"]
<1>1. UNCHANGED <<hplan, shelf, shelfManifest, fileManifest, owned, touched>> /\ r.at = "dropGuidance"
  BY DEF DropGuidance, shelfVars
<1>2. Worker = r /\ t.at = "forgetGuidance" /\ CommandRecord(r) /\ "guidance" \in DOMAIN files
  BY <1>1, PlaceRecord, IsWorker DEF AtRest, InstallInv, HandsOK, ResumeInv, InPlace, RuleParts
<1>3. CASE Refuse(p) /\ UNCHANGED files
  BY <1>1, <1>3, CutsShort DEF Refuse, AtRest
<1>4. CASE /\ IF Owns("guidance") THEN files["guidance"] = owned["guidance"] ELSE files["guidance"] = Absent
           /\ files' = [files EXCEPT !["guidance"] = IF Owns("guidance") THEN Absent ELSE @]
           /\ Put(p, t) /\ UNCHANGED <<contentLock, cutShort>>
  <2>1. t.cmd = r.cmd
    BY <1>2 DEF CommandRecord, CommandFields
  <2> HIDE DEF t
  <2>2. files'["guidance"] = Absent /\ files'["rule"] = files["rule"] /\ RuleReady(r)
    BY <1>2, <1>4 DEF ResumeInv
  <2>3. ASSUME Worker' = t PROVE RuleReady(Worker)'
    <3>1. HalfDone(r, WritingRule) \subseteq HalfDone(Worker, WritingRule)'
      BY <1>1, <1>4, <2>3 DEF HalfDone, WritingRule
    <3> QED BY <1>1, <1>2, <1>4, <2>1, <2>2, <2>3, <3>1 DEF RuleReady, FileUntouched, WritingRule, Owns, Shipped
  <2>4. DOMAIN files' = DOMAIN files /\ \A f \in DOMAIN files \ RuleParts : files'[f] = files[f]
    BY <1>4 DEF RuleParts
  <2> QED BY <1>1, <1>2, <1>4, <2>3, <2>4, RuleGoesOn DEF PastShelf, AtRest, OnShelf, OverFiles
<1> QED BY <1>3, <1>4 DEF DropGuidance

\* The rows go with the block.
LEMMA ForgetGuidanceResume ==
  ASSUME InstallInv, ResumeInv, NEW p \in hplan.procs, ForgetGuidance(p)
  PROVE  ResumeInv'
<1> DEFINE r == installer[p]
           t == [r EXCEPT !.at = "mark"]
<1>1. /\ UNCHANGED <<hplan, shelf, shelfManifest, files, fileManifest, touched, cutShort, contentLock>>
      /\ r.at = "forgetGuidance" /\ Put(p, t) /\ owned' = <<>>
  BY DEF ForgetGuidance, shelfVars, ghosts
<1>2. Worker = r /\ t.at = "mark" /\ CommandRecord(r)
  BY <1>1, PlaceRecord, IsWorker DEF AtRest, InstallInv, HandsOK
<1> HIDE DEF t
<1>3. RuleReady(r) /\ "rule" \notin DOMAIN owned' /\ "guidance" \notin DOMAIN owned'
  BY <1>1, <1>2 DEF ResumeInv
<1>4. ASSUME Worker' = t PROVE RuleReady(Worker)'
  <2>1. HalfDone(r, WritingRule) \subseteq HalfDone(Worker, WritingRule)'
    BY <1>1, <1>4 DEF HalfDone, WritingRule
  <2> QED BY <1>1, <1>2, <1>3, <1>4, <2>1 DEF RuleReady, FileUntouched, WritingRule, Owns, Shipped
<1> QED BY <1>1, <1>2, <1>4, RuleGoesOn DEF PastShelf, AtRest, OnShelf, OverFiles

\* The marker and the record are about neither.
LEMMA WriteMarkerResume ==
  ASSUME InstallInv, ResumeInv, NEW p \in hplan.procs, WriteMarker(p)
  PROVE  ResumeInv'
<1> DEFINE r == installer[p]
           t == [r EXCEPT !.at = "record"]
<1>1. /\ UNCHANGED <<hplan, shelf, shelfManifest, files, fileManifest, owned, touched, cutShort, contentLock>>
      /\ r.at = "mark" /\ Put(p, t)
  BY DEF WriteMarker, shelfVars, fileVars, ghosts
<1>2. Worker = r /\ t.at = "record"
  BY <1>1, PlaceRecord, IsWorker DEF AtRest, InstallInv, HandsOK
<1> HIDE DEF t
<1>3. Worker' = t => RuleReady(Worker)'
  BY <1>1, <1>2, RuleStays DEF ResumeInv, WritingRule, Forgetting
<1> QED BY <1>1, <1>2, <1>3, RuleGoesOn DEF PastShelf, AtRest, OnShelf, OverFiles

\* A command that ends has left nothing halfway.
LEMMA WriteRecordResume ==
  ASSUME InstallInv, ResumeInv, NEW p \in hplan.procs, WriteRecord(p)
  PROVE  ResumeInv'
<1>1. /\ UNCHANGED <<hplan, shelf, shelfManifest, files, fileManifest, owned, touched, cutShort>>
      /\ installer[p].at = "record" /\ Leave(p)
  BY DEF WriteRecord, shelfVars, fileVars, ghosts
<1>2. Worker = installer[p] /\ Worker' = Unused /\ OneAtWork' /\ Unused.at = "idle"
  BY <1>1, IsWorker, StopsWorking, UnusedRecord DEF AtRest
<1>3. FilesReady(Worker)'
  BY <1>1, <1>2, FilesStay DEF ResumeInv, OverFiles
<1>4. RuleReady(Worker)'
  BY <1>1, <1>2, RuleStays DEF ResumeInv, WritingRule, Forgetting
<1>5. PastShelf(Worker) /\ DOMAIN fileManifest.digests \subseteq DOMAIN files \ RuleParts
  BY <1>1, <1>2 DEF PastShelf, AtRest, OnShelf, ResumeInv, InPlace
<1> QED BY <1>1, <1>2, <1>3, <1>4, <1>5, PastShelfRest

\* A command that is stopped is cut short.
LEMMA StopResume ==
  ASSUME InstallInv, ResumeInv, NEW p \in hplan.procs, Stop(p)
  PROVE  ResumeInv'
<1>1. /\ UNCHANGED <<hplan, shelf, shelfManifest, files, fileManifest, owned, touched>> /\ Leave(p)
      /\ installer[p].at \notin AtRest /\ cutShort' = cutShort \cup {installer[p].cmd.ver}
  BY DEF Stop, fileVars, AtRest
<1> QED BY <1>1, CutsShort

\* What the user writes is touched.
LEMMA UserResume ==
  ASSUME InstallInv, ResumeInv, UserStep
  PROVE  ResumeInv'
<1>1. /\ UNCHANGED <<hplan, shelfManifest, fileManifest, owned, contentLock, installer, cutShort>>
      /\ touched \subseteq touched' /\ DOMAIN shelf' = DOMAIN shelf /\ DOMAIN files' = DOMAIN files
      /\ \A s \in DOMAIN shelf : <<"skill", s>> \notin touched' => shelf'[s] = shelf[s]
      /\ \A f \in DOMAIN files : <<"file", f>> \notin touched' => files'[f] = files[f]
  BY DEF UserStep, EditSkill, EditFile, shelfVars, fileVars
<1>2. Worker' = Worker /\ OneAtWork'
  BY <1>1 DEF Worker, OneAtWork, ResumeInv
<1>3. ShelfReady(Worker)'
  BY <1>1, <1>2 DEF ResumeInv, ShelfReady, ShelfSettled, ShelfUnderway, SkillsOf, Shipped
<1>4. FilesReady(Worker)'
  <2>1. \A f, x, V : FileDue(f, x, V)' = FileDue(f, x, V)
    BY <1>1 DEF FileDue, ArtifactsOf, Shipped
  <2>2. \A f : FileUntouched(f)' => FileUntouched(f)
    BY <1>1 DEF FileUntouched
  <2>3. \A S : HalfDone(Worker, S)' = HalfDone(Worker, S)
    BY <1>1, <1>2 DEF HalfDone
  <2>4. \A f \in DOMAIN files' \ RuleParts : FileUntouched(f)' => FileDue(f, files[f], HalfDone(Worker, OverFiles))'
    BY <1>1, <2>1, <2>2, <2>3 DEF ResumeInv, FilesReady, FileUntouched
  <2>5. Worker.at \in OverFiles =>
          /\ DOMAIN Worker.snap = DOMAIN fileManifest.digests \cup ArtifactsOf(Worker.cmd.ver)
          /\ \A f \in DOMAIN Worker.snap : FileUntouched(f)' => FileDue(f, Worker.snap[f], cutShort)'
    <3>1. \A f : FileDue(f, Worker.snap[f], cutShort)' = FileDue(f, Worker.snap[f], cutShort)
      BY <1>1, <1>2, <2>1
    <3> QED BY <2>2, <3>1 DEF ResumeInv, FilesReady
  <2>6. Worker.at \in {"artifact", "mutate"} => DOMAIN Worker.snap \subseteq DOMAIN files
    <3> SUFFICES ASSUME Worker.at \in {"artifact", "mutate"} PROVE DOMAIN Worker.snap \subseteq DOMAIN files
      OBVIOUS
    <3>1. Worker # Unused
      BY UnusedRecord
    <3>2. Worker.cmd \in hplan.cmds
      BY <3>1 DEF Worker, ResumeInv, OneAtWork, InstallInv, HandsOK
    <3> QED BY <2>5, <3>2 DEF ResumeInv, InPlace, OverFiles
  <2> QED BY <1>1, <1>2, <2>2, <2>4, <2>5, <2>6 DEF ResumeInv, FilesReady, FileUntouched, ArtifactsOf, Shipped
<1>5. RuleReady(Worker)'
  <2>1. HalfDone(Worker, WritingRule)' = HalfDone(Worker, WritingRule) /\ RuleParts \subseteq DOMAIN files
    BY <1>1, <1>2 DEF HalfDone, ResumeInv, InPlace
  <2>2. FileUntouched("rule")' => FileUntouched("rule") /\ files'["rule"] = files["rule"]
    BY <1>1, <2>1 DEF FileUntouched, RuleParts
  <2>3. FileUntouched("guidance")' => FileUntouched("guidance") /\ files'["guidance"] = files["guidance"]
    BY <1>1, <2>1 DEF FileUntouched, RuleParts
  <2> QED BY <1>1, <1>2, <2>1, <2>2, <2>3 DEF ResumeInv, RuleReady, Owns, Shipped
<1>6. InPlace(Worker)'
  BY <1>1, <1>2 DEF ResumeInv, InPlace, SkillsOf, ArtifactsOf, Shipped
<1> QED BY <1>2, <1>3, <1>4, <1>5, <1>6 DEF ResumeInv

\* ResumeInv is inductive, with InstallInv.
LEMMA ResumeStep == InstallInv /\ ResumeInv /\ [InstallNext]_installVars => ResumeInv'
<1> SUFFICES ASSUME InstallInv, ResumeInv, [InstallNext]_installVars PROVE ResumeInv'
  OBVIOUS
<1>1. CASE UNCHANGED installVars
  <2>1. UNCHANGED <<hplan, shelf, shelfManifest, files, fileManifest, owned, contentLock, installer, touched, cutShort>>
    BY <1>1 DEF installVars, shelfVars, fileVars, ghosts
  <2>2. Worker' = Worker /\ OneAtWork'
    BY <2>1 DEF Worker, OneAtWork, ResumeInv
  <2>3. \A S : HalfDone(Worker, S)' = HalfDone(Worker, S)
    BY <2>1, <2>2 DEF HalfDone
  <2>4. \A f, x, V : FileDue(f, x, V)' = FileDue(f, x, V)
    BY <2>1 DEF FileDue, ArtifactsOf, Shipped
  <2>5. FilesReady(Worker)' = FilesReady(Worker)
    BY <2>1, <2>2, <2>3, <2>4 DEF FilesReady, FileUntouched, ArtifactsOf, Shipped
  <2>6. RuleReady(Worker)' = RuleReady(Worker)
    BY <2>1, <2>2, <2>3 DEF RuleReady, FileUntouched, Owns, Shipped
  <2>7. ShelfReady(Worker)' /\ InPlace(Worker)'
    BY <2>1, <2>2 DEF ResumeInv, ShelfReady, ShelfSettled, ShelfUnderway, InPlace, SkillsOf, ArtifactsOf, Shipped
  <2> QED BY <2>2, <2>5, <2>6, <2>7 DEF ResumeInv
<1>2. ASSUME NEW p \in hplan.procs, InstallStep(p) \/ Stop(p) PROVE ResumeInv'
  BY <1>2, BeginResume, ReconcileResume, PreflightSkillsResume, RetireSkillResume, VerifyRetiredResume,
     PublishSkillResume, VerifyReplacedResume, PlaceSkillResume, WriteShelfManifestResume, SyncAgentsResume,
     PreflightFilesResume, RecheckFilesResume, EnsureUnchangedResume, MutateFileResume, RollBackResume,
     WriteFileManifestResume, DecideRuleResume, WriteGuidanceResume, WriteRuleResume, WriteRuleManifestResume,
     DropRuleResume, ForgetRuleResume, DropGuidanceResume, ForgetGuidanceResume, WriteMarkerResume,
     WriteRecordResume, StopResume DEF InstallStep
<1> QED BY <1>1, <1>2, UserResume DEF InstallNext

\* Between commands, what stands in the way of one was touched or left halfway.
LEMMA RefusalsExplained == ResumeInv => InterruptedInstallsResume
<1> SUFFICES ASSUME ResumeInv, contentLock = Nobody, NEW c \in hplan.cmds
             PROVE  /\ \A f \in RefusedFiles(c.ver) : <<"file", f>> \in touched \/ cutShort \ {c.ver} # {}
                    /\ RuleGoal(c) = "converge" /\ RuleStep(c) = "refuse" =>
                         \/ cutShort \ {c.ver} # {}
                         \/ \E x \in RuleParts : <<"file", x>> \in touched
                         \/ cutShort # {} /\ Owns("guidance") /\ files["guidance"] = Absent
                    /\ \A s \in Conflicts(ManagedSkillsState, c.ver) : <<"skill", s>> \in touched \/ cutShort # {}
  BY DEF InterruptedInstallsResume
<1>1. Worker = Unused /\ Unused.at = "idle"
  BY UnusedRecord DEF Worker
<1>2. \A S : "idle" \notin S => HalfDone(Worker, S) = cutShort
  BY <1>1 DEF HalfDone
<1>3. InPlace(Worker) /\ FilesReady(Worker) /\ RuleReady(Worker) /\ ShelfReady(Worker)
  BY DEF ResumeInv
<1>4. ASSUME NEW f \in RefusedFiles(c.ver), <<"file", f>> \notin touched, cutShort \ {c.ver} = {} PROVE FALSE
  <2>1. f \in DOMAIN files \ RuleParts
    BY <1>3 DEF InPlace, RefusedFiles
  <2>2. FileDue(f, files[f], cutShort)
    BY <1>2, <1>3, <1>4, <2>1 DEF FilesReady, FileUntouched, OverFiles
  <2> QED BY <1>4, <2>2 DEF FileDue, RefusedFiles, Digest, ArtifactsOf
<1>5. ASSUME RuleGoal(c) = "converge", RuleStep(c) = "refuse", cutShort \ {c.ver} = {},
             FileUntouched("rule"), FileUntouched("guidance"),
             cutShort = {} \/ ~ Owns("guidance") \/ files["guidance"] # Absent
      PROVE  FALSE
  <2>1. Shipped(c.ver).rule # Absent
    BY <1>5 DEF RuleGoal
  <2>2. \/ files["rule"] = Absent
        \/ Owns("rule") /\ files["rule"] = owned["rule"]
        \/ files["rule"] = Shipped(c.ver).rule
    BY <1>2, <1>3, <1>5 DEF RuleReady, WritingRule
  <2>3. \/ files["guidance"] = Shipped(c.ver).rule
        \/ Owns("guidance") /\ files["guidance"] = owned["guidance"]
        \/ files["guidance"] = Absent /\ ~ Owns("guidance")
    BY <1>1, <1>2, <1>3, <1>5 DEF RuleReady, WritingRule
  <2>4. RuleAt(c) # "refuse"
    BY <2>2 DEF RuleAt
  <2>5. Owns("guidance") => owned["guidance"] # Absent
    BY <1>3 DEF RuleReady
  <2>6. GuidanceAt(c) = "converge"
    BY <2>1, <2>3, <2>5 DEF GuidanceAt
  <2> QED BY <1>5, <2>4, <2>6 DEF RuleStep
<1>6. ASSUME NEW s \in Conflicts(ManagedSkillsState, c.ver), <<"skill", s>> \notin touched, cutShort = {} PROVE FALSE
  <2>1. s \in DOMAIN shelf
    BY <1>3 DEF InPlace, Conflicts, ModifiedSkills, ForeignSkills, ManagedSkillsState
  <2>2. ShelfSettled
    BY <1>1, <1>3, <1>6 DEF ShelfReady, OnShelf
  <2> QED BY <1>6, <2>1, <2>2 DEF ShelfSettled, Conflicts, ModifiedSkills, ForeignSkills, ManagedSkillsState
<1> QED BY <1>4, <1>5, <1>6 DEF FileUntouched, RuleParts

\* Whatever versions install, upgrade and reconcile, and wherever they are stopped or
\* roll back, between commands a refusal has a reason.
THEOREM InterruptionsResume == InstallSpec => []InterruptedInstallsResume
<1>1. InstallSpec => []ResumeInv
  BY InstallersKnow, ResumeInit, ResumeStep, PTL DEF InstallSpec
<1> QED BY <1>1, RefusalsExplained, PTL

----------------------------------------------------------------------------
(* Absorbing: Artifacts.                                                   *)
(*                                                                         *)
(* An absorb command looks its source up in one transaction, or plans for  *)
(* many in one, and archives them in others.  What keeps a source from     *)
(* being absorbed again is in its own row, so the invariant says what the  *)
(* row of an untouched source is, whoever wrote last.                      *)

IsTask(x) == \E n \in DOMAIN tasks : x = Task(n)
IsIntent(x) == \E n \in DOMAIN intents : x = Intent(n)

\* A list in the sense of ListFacts: its elements are its own.
IsList(s) == s \in Seq({s[i] : i \in DOMAIN s})

\* An absorbed or dismissed source is archived, or resolved with that reason.
RestsAsAbsorbed(x) ==
  \/ IsTask(x) /\ tasks[x[2]].status = "archived"
  \/ IsIntent(x) /\ LatestDisposition(x[2]).reason \in Terminal

\* What a process that is about to write carries from its lookup.
CarriedFits(c) ==
  /\ c.op = "absorb" => IsTask(c.item.source) \/ IsIntent(c.item.source)
  /\ c.op = "absorb_all" =>
       /\ DOMAIN c = {"op", "history", "items"}
       /\ \A i \in c.items : IsTask(i.source) \/ IsIntent(i.source)
  /\ c.op = "task_archive" => DOMAIN c = {"op", "tasks"}

TablesFit ==
  /\ \A n \in DOMAIN tasks : DOMAIN tasks[n] = {"status", "spec", "events", "note", "coarse"}
  /\ \A n \in DOMAIN intents : IsList(intents[n])
  /\ \A i \in minted : DOMAIN i = {"issue", "source", "history", "status", "provenance"}

AbsorbInv ==
  /\ aplan \in ArtifactPlans
  /\ TablesFit
  /\ \A a \in Actors : CarriedFits(asking[a])
  /\ \A x \in untouched : RestsAsAbsorbed(x)

\* A command that changes no task and no intent leaves the sources as they are.
LEMMA SourcesUnchanged ==
  ASSUME AbsorbInv, UNCHANGED <<aplan, tasks, minted, untouched, intents>>,
         \A a \in DOMAIN asking' : CarriedFits(asking[a])'
  PROVE  AbsorbInv'
BY DEF AbsorbInv, TablesFit, RestsAsAbsorbed, IsTask, IsIntent, IsList, LatestDisposition, Actors

\* Answering a command forgets what it carried.
LEMMA AnswerFits ==
  ASSUME AbsorbInv, NEW a \in Actors, Answer(a),
         DOMAIN tasks \subseteq DOMAIN tasks', DOMAIN intents \subseteq DOMAIN intents'
  PROVE  \A b \in DOMAIN asking' : CarriedFits(asking[b])'
<1> TAKE b \in DOMAIN asking'
<1>1. asking'[b] = IF b = a THEN Nothing ELSE asking[b]
  BY DEF Answer, Actors
<1>2. b \in Actors
  BY DEF Answer, Actors
<1>3. CASE b = a
  BY <1>1, <1>3 DEF CarriedFits, Nothing
<1>4. CASE b # a
  BY <1>1, <1>2, <1>4 DEF AbsorbInv, CarriedFits, IsTask, IsIntent
<1> QED BY <1>3, <1>4

\* The sources that rest are left alone by a command that keeps the rows of those
\* it does not mark as changed.
LEMMA OthersRest ==
  ASSUME AbsorbInv, DOMAIN tasks \subseteq DOMAIN tasks', DOMAIN intents \subseteq DOMAIN intents',
         untouched' \subseteq untouched,
         \A n \in DOMAIN tasks : Task(n) \in untouched' => tasks'[n].status = tasks[n].status,
         \A n \in DOMAIN intents : Intent(n) \in untouched' => intents'[n] = intents[n]
  PROVE  \A x \in untouched' : RestsAsAbsorbed(x)'
<1> TAKE x \in untouched'
<1>1. RestsAsAbsorbed(x)
  BY DEF AbsorbInv
<1>2. CASE IsTask(x) /\ tasks[x[2]].status = "archived"
  BY <1>2 DEF RestsAsAbsorbed, IsTask, Task
<1>3. CASE IsIntent(x) /\ LatestDisposition(x[2]).reason \in Terminal
  BY <1>3 DEF RestsAsAbsorbed, IsIntent, Intent, LatestDisposition
<1> QED BY <1>1, <1>2, <1>3 DEF RestsAsAbsorbed

LEMMA AbsorbInit == ArtifactInit => AbsorbInv
<1> SUFFICES ASSUME ArtifactInit PROVE AbsorbInv
  OBVIOUS
<1>1. DOMAIN tasks = {} /\ DOMAIN intents = {} /\ minted = {} /\ untouched = {} /\ aplan \in ArtifactPlans
  BY DEF ArtifactInit
<1>2. \A a \in Actors : asking[a] = Nothing
  BY DEF ArtifactInit, Actors
<1> QED BY <1>1, <1>2 DEF AbsorbInv, TablesFit, CarriedFits, Nothing

\* Looking up, planning, giving up.
LEMMA AskKeeps == ASSUME AbsorbInv, NEW a \in Actors, Ask(a) PROVE AbsorbInv'
<1>1. PICK c \in aplan.commands : Findable(c) /\ asking' = [asking EXCEPT ![a] = Found(c)]
                                  /\ UNCHANGED <<aplan, tasks, minted, untouched, intents>>
  BY DEF Ask, taskVars, intentVars
<1>2. Found(c).op = c.op /\ c.op \notin {"absorb", "absorb_all"}
  BY <1>1 DEF Found, Findable
<1>3. CarriedFits(Found(c))
  BY <1>2 DEF CarriedFits, Found
<1>4. \A b \in DOMAIN asking' : CarriedFits(asking[b])'
  BY <1>1, <1>3 DEF AbsorbInv, Actors, CarriedFits, IsTask, IsIntent
<1> QED BY <1>1, <1>4, SourcesUnchanged

LEMMA AskAbsorbKeeps == ASSUME AbsorbInv, NEW a \in Actors, AskAbsorb(a) PROVE AbsorbInv'
<1>1. PICK c \in aplan.commands :
        /\ Resolves(c.source) /\ c.source[1] \in {"task", "intent"}
        /\ asking' = [asking EXCEPT ![a] = [op |-> c.op, item |-> [source |-> c.source, dismiss |-> c.dismiss, status |-> "triage"]]]
        /\ c.op = "absorb" /\ UNCHANGED <<aplan, tasks, minted, untouched, intents>>
  BY DEF AskAbsorb, taskVars, intentVars
<1>2. IsTask(c.source) \/ IsIntent(c.source)
  <2>1. c.source \in aplan.captures => c.source[1] \notin {"task", "spec", "intent"}
    BY CapturesAssumption DEF AbsorbInv
  <2> QED BY <1>1, <2>1 DEF Resolves, Entities, IsTask, IsIntent, Spec
<1>3. \A b \in DOMAIN asking' : CarriedFits(asking[b])'
  BY <1>1, <1>2 DEF AbsorbInv, Actors, CarriedFits, IsTask, IsIntent
<1> QED BY <1>1, <1>3, SourcesUnchanged

LEMMA AskAbsorbAllKeeps == ASSUME AbsorbInv, NEW a \in Actors, AskAbsorbAll(a) PROVE AbsorbInv'
<1>1. PICK c \in aplan.commands :
        /\ asking' = [asking EXCEPT ![a] = [op |-> c.op, history |-> c.history, items |-> PlanAbsorbAll(c.history, c.dismiss)]]
        /\ c.op = "absorb_all" /\ UNCHANGED <<aplan, tasks, minted, untouched, intents>>
  BY DEF AskAbsorbAll, taskVars, intentVars
<1>2. \A i \in PlanAbsorbAll(c.history, c.dismiss) : IsTask(i.source) \/ IsIntent(i.source)
  BY DEF PlanAbsorbAll, PlanTasks, PlanIntents, Classified, IsTask, IsIntent
<1>3. \A b \in DOMAIN asking' : CarriedFits(asking[b])'
  <2> DEFINE items == PlanAbsorbAll(c.history, c.dismiss)
  <2> HIDE DEF items
  <2> QED BY <1>1, <1>2 DEF AbsorbInv, Actors, CarriedFits, IsTask, IsIntent, items
<1> QED BY <1>1, <1>3, SourcesUnchanged

\* Commands on specs, links, tags and bundles.
OtherCommand(a) ==
  \/ CreateSpec(a) \/ EditSpecBody(a) \/ SetSpecStatus(a) \/ ArchiveSpec(a)
  \/ CreateLink(a) \/ RemoveLink(a) \/ AddTag(a) \/ RemoveTag(a)
  \/ CreateBundle(a) \/ UpdateBundle(a) \/ AddBundleMember(a) \/ RemoveBundleMember(a) \/ GiveUp(a)

LEMMA OtherCommandKeeps == ASSUME AbsorbInv, NEW a \in Actors, OtherCommand(a) PROVE AbsorbInv'
<1>1. Answer(a) /\ UNCHANGED <<aplan, tasks, minted, untouched, intents>>
  BY DEF OtherCommand, CreateSpec, EditSpecBody, SetSpecStatus, ArchiveSpec, CreateLink, RemoveLink, AddTag,
         RemoveTag, CreateBundle, UpdateBundle, AddBundleMember, RemoveBundleMember, GiveUp, taskVars, intentVars
<1> QED BY <1>1, AnswerFits, SourcesUnchanged

\* Commands on tasks.
LEMMA CreateTaskKeeps == ASSUME AbsorbInv, NEW a \in Actors, CreateTask(a) PROVE AbsorbInv'
<1> DEFINE row == [status |-> "todo", spec |-> asking[a].spec, events |-> {<<"", "todo", "", 0>>}, note |-> "", coarse |-> TRUE]
<1>1. tasks' = Inserted(tasks, NextTaskNumber, row) /\ Answer(a) /\ UNCHANGED <<aplan, minted, untouched, intents>>
  BY DEF CreateTask, intentVars
<1>2. DOMAIN row = {"status", "spec", "events", "note", "coarse"}
  OBVIOUS
<1> HIDE DEF row
<1>3. DOMAIN tasks' = DOMAIN tasks \cup {NextTaskNumber} /\ \A n \in DOMAIN tasks : tasks'[n] = tasks[n]
  BY <1>1 DEF Inserted
<1>4. \A n \in DOMAIN tasks' \ DOMAIN tasks : tasks'[n] = row
  BY <1>1, <1>3 DEF Inserted
<1>5. TablesFit'
  BY <1>1, <1>2, <1>3, <1>4 DEF AbsorbInv, TablesFit, IsList
<1>6. \A x \in untouched' : RestsAsAbsorbed(x)'
  BY <1>1, <1>3, OthersRest
<1>7. \A b \in DOMAIN asking' : CarriedFits(asking[b])'
  BY <1>1, <1>3, AnswerFits
<1> QED BY <1>1, <1>5, <1>6, <1>7 DEF AbsorbInv, Actors

LEMMA UpdateTaskKeeps == ASSUME AbsorbInv, NEW a \in Actors, UpdateTask(a) PROVE AbsorbInv'
<1> DEFINE c == asking[a]
           row == tasks[c.task]
           stated == IF "status" \in c.set THEN [RecordTaskEvent(row, c.status) EXCEPT !.status = c.status] ELSE row
           same == "status" \notin c.set \/ c.status = row.status
           new == [(IF same THEN row ELSE stated) EXCEPT !.spec = IF "spec" \in c.set THEN c.spec ELSE @]
<1>1. /\ c.task \in DOMAIN tasks /\ tasks' = [tasks EXCEPT ![c.task] = new]
      /\ untouched' = IF same THEN untouched ELSE untouched \ {Task(c.task)}
      /\ Answer(a) /\ UNCHANGED <<aplan, minted, intents>>
  BY DEF UpdateTask, intentVars
<1>2. DOMAIN row = {"status", "spec", "events", "note", "coarse"}
  BY <1>1 DEF AbsorbInv, TablesFit
<1>3. DOMAIN stated = DOMAIN row
  BY <1>2 DEF RecordTaskEvent
<1>4. DOMAIN new = DOMAIN row /\ (same => new.status = row.status)
  BY <1>2, <1>3
<1> HIDE DEF new, stated, same
<1>5. DOMAIN tasks' = DOMAIN tasks /\ \A n \in DOMAIN tasks : tasks'[n] = IF n = c.task THEN new ELSE tasks[n]
  BY <1>1
<1>6. TablesFit'
  BY <1>1, <1>2, <1>4, <1>5 DEF AbsorbInv, TablesFit, IsList
<1>7. \A n \in DOMAIN tasks : Task(n) \in untouched' => tasks'[n].status = tasks[n].status
  BY <1>1, <1>4, <1>5
<1>8. \A x \in untouched' : RestsAsAbsorbed(x)'
  BY <1>1, <1>5, <1>7, OthersRest
<1>9. \A b \in DOMAIN asking' : CarriedFits(asking[b])'
  BY <1>1, <1>5, AnswerFits
<1> QED BY <1>1, <1>6, <1>8, <1>9 DEF AbsorbInv, Actors

LEMMA ArchiveTaskKeeps == ASSUME AbsorbInv, NEW a \in Actors, ArchiveTask(a) PROVE AbsorbInv'
<1>1. PICK t \in asking[a].tasks :
        /\ IF t \in DOMAIN tasks /\ tasks[t].status = "done"
           THEN /\ tasks' = [tasks EXCEPT ![t] = [RecordTaskEvent(@, "archived") EXCEPT !.status = "archived"]]
                /\ untouched' = untouched \ {Task(t)}
           ELSE UNCHANGED <<tasks, untouched>>
        /\ asking' = [asking EXCEPT ![a] = IF @.tasks = {t} THEN Nothing ELSE [@ EXCEPT !.tasks = @ \ {t}]]
        /\ UNCHANGED <<aplan, minted, intents>>
  BY DEF ArchiveTask, intentVars
<1>2. DOMAIN tasks' = DOMAIN tasks /\ untouched' \subseteq untouched
  BY <1>1
<1>3. \A n \in DOMAIN tasks : DOMAIN tasks'[n] = {"status", "spec", "events", "note", "coarse"}
  BY <1>1 DEF AbsorbInv, TablesFit, RecordTaskEvent
<1>4. \A n \in DOMAIN tasks : Task(n) \in untouched' => tasks'[n] = tasks[n]
  BY <1>1
<1>5. TablesFit'
  BY <1>1, <1>2, <1>3 DEF AbsorbInv, TablesFit, IsList
<1>6. \A x \in untouched' : RestsAsAbsorbed(x)'
  BY <1>1, <1>2, <1>4, OthersRest
<1>7. asking[a].op = "task_archive" /\ DOMAIN asking[a] = {"op", "tasks"}
  BY DEF ArchiveTask, Asked, AbsorbInv, CarriedFits
<1>8. \A b \in DOMAIN asking' : CarriedFits(asking[b])'
  <2> TAKE b \in DOMAIN asking'
  <2>1. CASE b = a
    <3>1. asking'[a] = Nothing \/ (DOMAIN asking'[a] = {"op", "tasks"} /\ asking'[a].op = "task_archive")
      BY <1>1, <1>7 DEF Actors
    <3> QED BY <2>1, <3>1 DEF CarriedFits, Nothing
  <2>2. CASE b # a
    BY <1>1, <1>2, <2>2 DEF AbsorbInv, Actors, CarriedFits, IsTask, IsIntent
  <2> QED BY <2>1, <2>2
<1> QED BY <1>1, <1>5, <1>6, <1>8 DEF AbsorbInv, Actors

LEMMA DeleteSpecKeeps == ASSUME AbsorbInv, NEW a \in Actors, DeleteSpec(a) PROVE AbsorbInv'
<1>1. /\ tasks' = [t \in DOMAIN tasks |-> [tasks[t] EXCEPT !.spec = IF @ = asking[a].spec THEN None ELSE @]]
      /\ Answer(a) /\ UNCHANGED <<aplan, minted, untouched, intents>>
  BY DEF DeleteSpec, intentVars
<1>2. DOMAIN tasks' = DOMAIN tasks
  BY <1>1
<1>3. \A n \in DOMAIN tasks : DOMAIN tasks'[n] = DOMAIN tasks[n]
  BY <1>1
<1>4. \A n \in DOMAIN tasks : tasks'[n].status = tasks[n].status
  BY <1>1 DEF AbsorbInv, TablesFit
<1>5. TablesFit'
  BY <1>1, <1>2, <1>3 DEF AbsorbInv, TablesFit, IsList
<1>6. \A x \in untouched' : RestsAsAbsorbed(x)'
  BY <1>1, <1>2, <1>4, OthersRest
<1>7. \A b \in DOMAIN asking' : CarriedFits(asking[b])'
  BY <1>1, <1>2, AnswerFits
<1> QED BY <1>1, <1>5, <1>6, <1>7 DEF AbsorbInv, Actors

\* Commands on intents.
LEMMA CreateIntentKeeps == ASSUME AbsorbInv, CreateIntent PROVE AbsorbInv'
<1>1. PICK c \in aplan.commands :
        /\ intents' = Inserted(intents, NextIntentNumber, <<Disposition(IF c.deferred THEN "deferred" ELSE "tracked", "",
                                                      IF c.deferred THEN c.key ELSE None, None)>>)
        /\ UNCHANGED <<aplan, tasks, minted, untouched, asking>>
  BY DEF CreateIntent, taskVars
<1> DEFINE d == Disposition(IF c.deferred THEN "deferred" ELSE "tracked", "", IF c.deferred THEN c.key ELSE None, None)
<1> HIDE DEF d
<1>2. IsList(<<d>>)
  BY DEF IsList
<1>3. DOMAIN intents' = DOMAIN intents \cup {NextIntentNumber} /\ \A n \in DOMAIN intents : intents'[n] = intents[n]
  BY <1>1 DEF Inserted
<1>4. \A n \in DOMAIN intents' \ DOMAIN intents : intents'[n] = <<d>>
  BY <1>1, <1>3 DEF Inserted, d
<1>5. TablesFit'
  <2>1. \A n \in DOMAIN intents' : IsList(intents'[n])
    BY <1>2, <1>3, <1>4 DEF AbsorbInv, TablesFit
  <2> QED BY <1>1, <2>1 DEF AbsorbInv, TablesFit, IsList
<1>6. \A x \in untouched' : RestsAsAbsorbed(x)'
  BY <1>1, <1>3, OthersRest
<1>7. \A b \in DOMAIN asking' : CarriedFits(asking[b])'
  BY <1>1, <1>3 DEF AbsorbInv, Actors, CarriedFits, IsTask, IsIntent
<1> QED BY <1>1, <1>5, <1>6, <1>7 DEF AbsorbInv, Actors

\* What one more disposition of an intent does to the lists.
LEMMA Disposed ==
  ASSUME AbsorbInv, NEW n \in DOMAIN intents, NEW d, intents' = [intents EXCEPT ![n] = Append(@, d)]
  PROVE  /\ DOMAIN intents' = DOMAIN intents
         /\ \A m \in DOMAIN intents : IsList(intents'[m]) /\ (m # n => intents'[m] = intents[m])
         /\ LatestDisposition(n)' = d
<1>1. IsList(intents[n])
  BY DEF AbsorbInv, TablesFit
<1>2. intents'[n] = Append(intents[n], d) /\ \A m \in DOMAIN intents : m # n => intents'[m] = intents[m]
  OBVIOUS
<1>3. IsList(intents'[n]) /\ Len(intents'[n]) = Len(intents[n]) + 1 /\ intents'[n][Len(intents[n]) + 1] = d
  BY <1>1, <1>2, ListGrows DEF IsList
<1>4. LatestDisposition(n)' = d
  BY <1>3 DEF LatestDisposition
<1> QED BY <1>2, <1>3, <1>4 DEF AbsorbInv, TablesFit

LEMMA DisposeKeeps == ASSUME AbsorbInv, DeferIntent \/ AppendIntentDisposition PROVE AbsorbInv'
<1>1. PICK n \in DOMAIN intents : \E d : Dispose(n, d) /\ untouched' = untouched \ {Intent(n)} /\ UNCHANGED minted
  <2>1. CASE DeferIntent
    BY <2>1 DEF DeferIntent
  <2>2. CASE AppendIntentDisposition
    BY <2>2 DEF AppendIntentDisposition
  <2> QED BY <2>1, <2>2
<1>2. PICK d : intents' = [intents EXCEPT ![n] = Append(@, d)]
  BY <1>1 DEF Dispose
<1>3. untouched' = untouched \ {Intent(n)} /\ UNCHANGED <<aplan, tasks, minted, asking>>
  BY <1>1 DEF Dispose
<1>4. /\ DOMAIN intents' = DOMAIN intents
      /\ \A m \in DOMAIN intents : IsList(intents'[m]) /\ (m # n => intents'[m] = intents[m])
  BY <1>2, Disposed
<1>5. TablesFit'
  BY <1>3, <1>4 DEF AbsorbInv, TablesFit, IsList
<1>6. \A x \in untouched' : RestsAsAbsorbed(x)'
  BY <1>3, <1>4, OthersRest
<1>7. \A b \in DOMAIN asking' : CarriedFits(asking[b])'
  BY <1>3, <1>4 DEF AbsorbInv, Actors, CarriedFits, IsTask, IsIntent
<1> QED BY <1>3, <1>5, <1>6, <1>7 DEF AbsorbInv, Actors

\* Absorbing: what an item's archiving makes of its source.
LEMMA ArchivedRests ==
  ASSUME AbsorbInv, NEW x, NEW label \in Terminal, NEW into, ArchiveSource(x, label, into),
         IsTask(x) \/ IsIntent(x)
  PROVE  /\ DOMAIN tasks' = DOMAIN tasks /\ DOMAIN intents' = DOMAIN intents
         /\ \A n \in DOMAIN tasks : /\ DOMAIN tasks'[n] = {"status", "spec", "events", "note", "coarse"}
                                    /\ Task(n) # x => tasks'[n] = tasks[n]
         /\ \A n \in DOMAIN intents : IsList(intents'[n]) /\ (Intent(n) # x => intents'[n] = intents[n])
         /\ RestsAsAbsorbed(x)'
<1>1. CASE IsTask(x)
  <2>1. PICK n \in DOMAIN tasks : x = Task(n)
    BY <1>1 DEF IsTask
  <2>2. x[1] = "task" /\ x[2] = n
    BY <2>1 DEF Task
  <2>3. PICK sameSecond \in BOOLEAN : tasks' = [tasks EXCEPT ![n] = ArchivedBy(@, label, into, sameSecond)]
    BY <2>2 DEF ArchiveSource
  <2>4. UNCHANGED intents
    BY <2>2 DEF ArchiveSource
  <2>5. /\ DOMAIN ArchivedBy(tasks[n], label, into, sameSecond) = {"status", "spec", "events", "note", "coarse"}
        /\ ArchivedBy(tasks[n], label, into, sameSecond).status = "archived"
    BY DEF ArchivedBy, AbsorbInv, TablesFit
  <2>6. DOMAIN tasks' = DOMAIN tasks /\ tasks'[n] = ArchivedBy(tasks[n], label, into, sameSecond)
    BY <2>3
  <2>7. \A m \in DOMAIN tasks : m # n => tasks'[m] = tasks[m]
    BY <2>3
  <2>8. \A m \in DOMAIN tasks : DOMAIN tasks'[m] = {"status", "spec", "events", "note", "coarse"}
    BY <2>5, <2>6, <2>7 DEF AbsorbInv, TablesFit
  <2>9. RestsAsAbsorbed(x)'
    BY <2>1, <2>2, <2>5, <2>6 DEF RestsAsAbsorbed, IsTask
  <2> QED BY <2>1, <2>4, <2>6, <2>7, <2>8, <2>9 DEF AbsorbInv, TablesFit, Task, Intent
<1>2. CASE IsIntent(x)
  <2>1. PICK n \in DOMAIN intents : x = Intent(n)
    BY <1>2 DEF IsIntent
  <2>2. x[1] = "intent" /\ x[2] = n
    BY <2>1 DEF Intent
  <2> DEFINE d == Disposition("resolved", label, None, None)
  <2>3. intents' = [intents EXCEPT ![n] = Append(@, d)] /\ UNCHANGED tasks
    BY <2>2 DEF ArchiveSource
  <2>4. d.reason = label
    BY DEF Disposition
  <2> HIDE DEF d
  <2>5. /\ DOMAIN intents' = DOMAIN intents
        /\ \A m \in DOMAIN intents : IsList(intents'[m]) /\ (m # n => intents'[m] = intents[m])
        /\ LatestDisposition(n)' = d
    BY <2>3, Disposed
  <2>6. RestsAsAbsorbed(x)'
    BY <2>1, <2>2, <2>4, <2>5 DEF RestsAsAbsorbed, IsIntent
  <2> QED BY <2>1, <2>3, <2>5, <2>6 DEF AbsorbInv, TablesFit, Task, Intent
<1> QED BY <1>1, <1>2

\* One item of an absorb command keeps the tables, and every source rests.
LEMMA AbsorbRests ==
  ASSUME AbsorbInv, NEW item, NEW history, Absorb(item, history), IsTask(item.source) \/ IsIntent(item.source)
  PROVE  /\ TablesFit' /\ UNCHANGED aplan
         /\ DOMAIN tasks' = DOMAIN tasks /\ DOMAIN intents' = DOMAIN intents
         /\ \A x \in untouched' : RestsAsAbsorbed(x)'
<1> DEFINE label == IF item.dismiss THEN "superseded" ELSE "absorbed"
           into == IF item.dismiss THEN None ELSE Cardinality(minted) + 1
           new == [issue |-> Cardinality(minted) + 1, source |-> item.source, history |-> history,
                   status |-> item.status, provenance |-> TRUE]
<1>1. /\ ArchiveSource(item.source, label, into) /\ minted' \subseteq minted \cup {new}
      /\ untouched' = untouched \cup {item.source} /\ UNCHANGED aplan
  BY DEF Absorb
<1>2. label \in Terminal
  BY DEF Terminal
<1>3. DOMAIN new = {"issue", "source", "history", "status", "provenance"}
  OBVIOUS
<1> HIDE DEF label, into, new
<1>4. /\ DOMAIN tasks' = DOMAIN tasks /\ DOMAIN intents' = DOMAIN intents
      /\ \A n \in DOMAIN tasks : /\ DOMAIN tasks'[n] = {"status", "spec", "events", "note", "coarse"}
                                 /\ Task(n) # item.source => tasks'[n] = tasks[n]
      /\ \A n \in DOMAIN intents : IsList(intents'[n]) /\ (Intent(n) # item.source => intents'[n] = intents[n])
      /\ RestsAsAbsorbed(item.source)'
  BY <1>1, <1>2, ArchivedRests
<1>5. TablesFit'
  <2>1. \A n \in DOMAIN intents' : IsList(intents'[n])
    BY <1>4
  <2>2. \A i \in minted' : DOMAIN i = {"issue", "source", "history", "status", "provenance"}
    BY <1>1, <1>3 DEF AbsorbInv, TablesFit
  <2>3. \A n \in DOMAIN tasks' : DOMAIN tasks'[n] = {"status", "spec", "events", "note", "coarse"}
    BY <1>4
  <2> QED BY <2>1, <2>2, <2>3 DEF TablesFit, IsList
<1>6. ASSUME NEW x \in untouched, x # item.source PROVE RestsAsAbsorbed(x)'
  <2>1. RestsAsAbsorbed(x)
    BY DEF AbsorbInv
  <2>2. CASE IsTask(x) /\ tasks[x[2]].status = "archived"
    <3>1. PICK n \in DOMAIN tasks : x = Task(n)
      BY <2>2 DEF IsTask
    <3>2. x[2] = n /\ tasks'[n] = tasks[n]
      BY <1>4, <1>6, <3>1 DEF Task
    <3> QED BY <1>4, <2>2, <3>1, <3>2 DEF RestsAsAbsorbed, IsTask
  <2>3. CASE IsIntent(x) /\ LatestDisposition(x[2]).reason \in Terminal
    <3>1. PICK n \in DOMAIN intents : x = Intent(n)
      BY <2>3 DEF IsIntent
    <3>2. x[2] = n /\ intents'[n] = intents[n]
      BY <1>4, <1>6, <3>1 DEF Intent
    <3> QED BY <1>4, <2>3, <3>1, <3>2 DEF RestsAsAbsorbed, IsIntent, LatestDisposition
  <2> QED BY <2>1, <2>2, <2>3 DEF RestsAsAbsorbed
<1> QED BY <1>1, <1>4, <1>5, <1>6

LEMMA AbsorbOneKeeps == ASSUME AbsorbInv, NEW a \in Actors, AbsorbOne(a) PROVE AbsorbInv'
<1>1. Absorb(asking[a].item, FALSE) /\ Answer(a) /\ asking[a].op = "absorb"
  BY DEF AbsorbOne, Asked
<1>2. IsTask(asking[a].item.source) \/ IsIntent(asking[a].item.source)
  BY <1>1 DEF AbsorbInv, CarriedFits
<1>3. /\ TablesFit' /\ UNCHANGED aplan /\ DOMAIN tasks' = DOMAIN tasks /\ DOMAIN intents' = DOMAIN intents
      /\ \A x \in untouched' : RestsAsAbsorbed(x)'
  BY <1>1, <1>2, AbsorbRests
<1>4. \A b \in DOMAIN asking' : CarriedFits(asking[b])'
  BY <1>1, <1>3, AnswerFits
<1> QED BY <1>3, <1>4 DEF AbsorbInv, Actors

LEMMA AbsorbItemKeeps == ASSUME AbsorbInv, NEW a \in Actors, AbsorbItem(a) PROVE AbsorbInv'
<1>1. asking[a].op = "absorb_all"
  BY DEF AbsorbItem, Asked
<1>2. PICK item \in asking[a].items :
        /\ Absorb(item, asking[a].history)
        /\ asking' = [asking EXCEPT ![a] = IF asking[a].items = {item} THEN Nothing ELSE [asking[a] EXCEPT !.items = @ \ {item}]]
  BY DEF AbsorbItem
<1>3. DOMAIN asking[a] = {"op", "history", "items"} /\ \A i \in asking[a].items : IsTask(i.source) \/ IsIntent(i.source)
  BY <1>1 DEF AbsorbInv, CarriedFits
<1>4. /\ TablesFit' /\ UNCHANGED aplan /\ DOMAIN tasks' = DOMAIN tasks /\ DOMAIN intents' = DOMAIN intents
      /\ \A x \in untouched' : RestsAsAbsorbed(x)'
  BY <1>2, <1>3, AbsorbRests
<1>5. \A b \in DOMAIN asking' : CarriedFits(asking[b])'
  <2> TAKE b \in DOMAIN asking'
  <2>1. CASE b = a
    <3>1. CASE asking'[a] = Nothing
      BY <2>1, <3>1 DEF CarriedFits, Nothing
    <3>2. CASE asking'[a] = [asking[a] EXCEPT !.items = @ \ {item}]
      <4>1. /\ DOMAIN asking'[a] = {"op", "history", "items"} /\ asking'[a].op = "absorb_all"
            /\ asking'[a].items \subseteq asking[a].items
        BY <1>1, <1>3, <3>2
      <4> QED BY <1>3, <1>4, <2>1, <4>1 DEF CarriedFits, IsTask, IsIntent
    <3> QED BY <1>2, <3>1, <3>2 DEF Actors
  <2>2. CASE b # a
    BY <1>2, <1>4, <2>2 DEF AbsorbInv, Actors, CarriedFits, IsTask, IsIntent
  <2> QED BY <2>1, <2>2
<1> QED BY <1>4, <1>5 DEF AbsorbInv, Actors

LEMMA DropProvenanceKeeps == ASSUME AbsorbInv, DropProvenance PROVE AbsorbInv'
<1>1. PICK i \in minted : minted' = (minted \ {i}) \cup {[i EXCEPT !.provenance = FALSE]}
                           /\ UNCHANGED <<aplan, tasks, untouched, intents, asking>>
  BY DEF DropProvenance, intentVars
<1>2. TablesFit'
  BY <1>1 DEF AbsorbInv, TablesFit, IsList
<1> QED BY <1>1, <1>2 DEF AbsorbInv, Actors, CarriedFits, RestsAsAbsorbed, IsTask, IsIntent, LatestDisposition

LEMMA AbsorbStep == AbsorbInv /\ [ArtifactNext]_artifactVars => AbsorbInv'
<1> SUFFICES ASSUME AbsorbInv, [ArtifactNext]_artifactVars PROVE AbsorbInv'
  OBVIOUS
<1>1. ASSUME NEW a \in Actors, ArtifactStep(a) PROVE AbsorbInv'
  BY <1>1, AskKeeps, AskAbsorbKeeps, AskAbsorbAllKeeps, OtherCommandKeeps, CreateTaskKeeps, UpdateTaskKeeps,
     ArchiveTaskKeeps, DeleteSpecKeeps, AbsorbOneKeeps, AbsorbItemKeeps DEF ArtifactStep, OtherCommand
<1>2. CASE WriteSpecFile
  BY <1>2 DEF WriteSpecFile, taskVars, intentVars, AbsorbInv, TablesFit, IsList, Actors, CarriedFits,
              RestsAsAbsorbed, IsTask, IsIntent, LatestDisposition
<1>3. CASE UNCHANGED artifactVars
  BY <1>3 DEF artifactVars, taskVars, intentVars, AbsorbInv, TablesFit, IsList, Actors, CarriedFits,
              RestsAsAbsorbed, IsTask, IsIntent, LatestDisposition
<1> QED BY <1>1, <1>2, <1>3, CreateIntentKeeps, DisposeKeeps, DropProvenanceKeeps DEF ArtifactNext

\* A source that rests is absorbed again only as a task of the history.
LEMMA RestsOrHistory ==
  ASSUME NEW x, RestsAsAbsorbed(x), NEW history, StillLeftover(x, history)
  PROVE  history /\ x[1] = "task"
<1>1. CASE IsTask(x) /\ tasks[x[2]].status = "archived"
  BY <1>1 DEF StillLeftover, AbsorbableTask, IsTask, Task
<1>2. CASE IsIntent(x) /\ LatestDisposition(x[2]).reason \in Terminal
  BY <1>2 DEF StillLeftover, IsIntent, Intent
<1> QED BY <1>1, <1>2 DEF RestsAsAbsorbed

\* The steps that mint.
LEMMA MintedOnce ==
  ASSUME AbsorbInv, [ArtifactNext]_artifactVars, NEW i \in minted' \ minted,
         \A j \in minted : i.issue # j.issue, i.source \in untouched
  PROVE  i.history /\ i.source[1] = "task"
<1>1. ASSUME NEW item, NEW history, Absorb(item, history), StillLeftover(item.source, history)
      PROVE  i.history /\ i.source[1] = "task"
  <2>1. i.source = item.source /\ i.history = history
    BY <1>1 DEF Absorb
  <2>2. RestsAsAbsorbed(item.source)
    BY <2>1 DEF AbsorbInv
  <2>3. history /\ item.source[1] = "task"
    BY <1>1, <2>2, RestsOrHistory
  <2> QED BY <2>1, <2>3
<1>2. ASSUME NEW a \in Actors, AbsorbOne(a) \/ AbsorbItem(a) PROVE i.history /\ i.source[1] = "task"
  BY <1>1, <1>2 DEF AbsorbOne, AbsorbItem
<1>3. CASE DropProvenance
  <2>1. PICK j \in minted : i = [j EXCEPT !.provenance = FALSE]
    BY <1>3 DEF DropProvenance
  <2>2. i.issue = j.issue
    BY <2>1 DEF AbsorbInv, TablesFit
  <2> QED BY <2>2
<1>4. ASSUME UNCHANGED minted PROVE FALSE
  BY <1>4
<1> QED BY <1>2, <1>3, <1>4 DEF ArtifactNext, ArtifactStep, artifactVars, taskVars, Ask, AskAbsorb, AskAbsorbAll, GiveUp,
      CreateTask, UpdateTask, ArchiveTask, CreateSpec, EditSpecBody, SetSpecStatus, ArchiveSpec, DeleteSpec, CreateLink,
      RemoveLink, AddTag, RemoveTag, CreateBundle, UpdateBundle, AddBundleMember, RemoveBundleMember, WriteSpecFile,
      CreateIntent, DeferIntent, AppendIntentDisposition

\* The rows of absorbed sources say so, whoever wrote between a lookup and its
\* transaction (issue_absorb.go, absorbSourceFromTask and archiveAbsorbSourceTx).
THEOREM AbsorbedSourcesRest == ArtifactSpec => []AbsorbInv
BY AbsorbInit, AbsorbStep, PTL DEF ArtifactSpec

\* However many commands planned for a source, it gives one issue until a command
\* has changed it again; only a task of the history may give another.
THEOREM SourcesAreAbsorbedOnce == ArtifactSpec => AbsorbedOnce
<1>1. AbsorbInv /\ [ArtifactNext]_artifactVars =>
        [\A i \in minted' \ minted :
           (\A j \in minted : i.issue # j.issue) /\ i.source \in untouched => i.history /\ i.source[1] = "task"]_artifactVars
  BY MintedOnce
<1> QED BY <1>1, AbsorbedSourcesRest, PTL DEF ArtifactSpec, AbsorbedOnce

\* The full-text index follows the bodies through edits, imports and deletions.
Mirrored(bs, ix) == ix = {<<x, bs[x]>> : x \in DOMAIN bs}

LEMMA UpsertMirrors ==
  ASSUME NEW bs, NEW ix, NEW e, NEW content, Mirrored(bs, ix)
  PROVE  Mirrored(UpsertBody(bs, ix, e, content).bodies, UpsertBody(bs, ix, e, content).index)
<1> DEFINE now == Upserted(bs, e, content)
           old == IF e \in DOMAIN bs THEN {<<e, bs[e]>>} ELSE {}
           jx == (ix \ old) \cup {<<e, content>>}
<1>1. UpsertBody(bs, ix, e, content).bodies = now /\ UpsertBody(bs, ix, e, content).index = jx
  BY DEF UpsertBody, Reindexed
<1>2. DOMAIN now = DOMAIN bs \cup {e} /\ now[e] = content /\ \A x \in DOMAIN bs \ {e} : now[x] = bs[x]
  BY DEF Upserted
<1> HIDE DEF now
<1>3. ASSUME NEW x \in DOMAIN now PROVE <<x, now[x]>> \in jx
  <2>1. CASE x = e
    BY <1>2, <2>1
  <2>2. CASE x # e
    <3>1. <<x, bs[x]>> \in ix /\ <<x, bs[x]>> \notin old
      BY <1>2, <2>2 DEF Mirrored
    <3> QED BY <1>2, <2>2, <3>1
  <2> QED BY <2>1, <2>2
<1>4. ASSUME NEW p \in jx PROVE \E x \in DOMAIN now : p = <<x, now[x]>>
  <2>1. CASE p = <<e, content>>
    BY <1>2, <2>1
  <2>2. CASE p \in ix \ old
    <3>1. PICK x \in DOMAIN bs : p = <<x, bs[x]>>
      BY <2>2 DEF Mirrored
    <3>2. x # e
      BY <2>2, <3>1
    <3> QED BY <1>2, <3>1, <3>2
  <2> QED BY <2>1, <2>2
<1> HIDE DEF jx
<1>5. jx = {<<x, now[x]>> : x \in DOMAIN now}
  BY <1>3, <1>4
<1> QED BY <1>1, <1>5 DEF Mirrored

LEMMA SearchStep == SearchMirrorsBodies /\ [ArtifactNext]_artifactVars => SearchMirrorsBodies'
<1> SUFFICES ASSUME SearchMirrorsBodies, [ArtifactNext]_artifactVars PROVE SearchMirrorsBodies'
  OBVIOUS
<1>1. ASSUME NEW a \in Actors, CreateSpec(a) PROVE SearchMirrorsBodies'
  <2> DEFINE c == asking[a]
             put == UpsertBody(bodies, index, Spec(SpecNumber(c.number)), c.body)
  <2>1. UNCHANGED <<bodies, index>> \/ (bodies' = put.bodies /\ index' = put.index)
    BY <1>1 DEF CreateSpec
  <2>2. Mirrored(put.bodies, put.index)
    <3>1. Mirrored(bodies, index)
      BY DEF SearchMirrorsBodies, Mirrored
    <3> QED BY <3>1, UpsertMirrors
  <2> HIDE DEF put
  <2> QED BY <2>1, <2>2 DEF SearchMirrorsBodies, Mirrored
<1>2. ASSUME NEW a \in Actors, EditSpecBody(a) PROVE SearchMirrorsBodies'
  <2> DEFINE c == asking[a]
             e == Spec(c.spec)
             imported == IF ~c.had /\ c.file # "" THEN UpsertBody(bodies, index, e, c.file)
                         ELSE [bodies |-> bodies, index |-> index]
             put == UpsertBody(imported.bodies, imported.index, e, c.body)
  <2>1. bodies' = put.bodies /\ index' = put.index
    BY <1>2 DEF EditSpecBody
  <2>2. Mirrored(imported.bodies, imported.index)
    <3>1. Mirrored(bodies, index)
      BY DEF SearchMirrorsBodies, Mirrored
    <3>2. CASE ~c.had /\ c.file # ""
      BY <3>1, <3>2, UpsertMirrors
    <3>3. CASE ~(~c.had /\ c.file # "")
      BY <3>1, <3>3
    <3> QED BY <3>2, <3>3
  <2> HIDE DEF imported
  <2>3. Mirrored(put.bodies, put.index)
    <3> DEFINE bs == imported.bodies
               ix == imported.index
    <3>1. Mirrored(bs, ix)
      BY <2>2
    <3>2. put = UpsertBody(bs, ix, e, c.body)
      OBVIOUS
    <3> HIDE DEF bs, ix, put
    <3>3. Mirrored(UpsertBody(bs, ix, e, c.body).bodies, UpsertBody(bs, ix, e, c.body).index)
      BY <3>1, UpsertMirrors
    <3> QED BY <3>2, <3>3
  <2> HIDE DEF put
  <2> QED BY <2>1, <2>3 DEF SearchMirrorsBodies, Mirrored
<1>3. ASSUME NEW a \in Actors, DeleteSpec(a) PROVE SearchMirrorsBodies'
  BY <1>3 DEF DeleteSpec, DeleteBodies, SearchMirrorsBodies
<1>4. ASSUME UNCHANGED <<bodies, index>> PROVE SearchMirrorsBodies'
  BY <1>4 DEF SearchMirrorsBodies
<1> QED BY <1>1, <1>2, <1>3, <1>4 DEF ArtifactNext, ArtifactStep, artifactVars, specVars, Ask, AskAbsorb, AskAbsorbAll, GiveUp,
      CreateTask, UpdateTask, ArchiveTask, SetSpecStatus, ArchiveSpec, CreateLink,
      RemoveLink, AddTag, RemoveTag, CreateBundle, UpdateBundle, AddBundleMember, RemoveBundleMember, WriteSpecFile,
      CreateIntent, DeferIntent, AppendIntentDisposition, Dispose, AbsorbOne, AbsorbItem, Absorb, DropProvenance

\* A search finds exactly what the stored bodies say (artifact_body.go,
\* upsertArtifactSearchTx).
THEOREM SearchFindsTheBodies == ArtifactSpec => []SearchMirrorsBodies
<1>1. ArtifactInit => SearchMirrorsBodies
  BY DEF ArtifactInit, SearchMirrorsBodies
<1> QED BY <1>1, SearchStep, PTL DEF ArtifactSpec

----------------------------------------------------------------------------
(* A hooks file, whoever reconciles it and whoever edits it in between. *)

\* What a list in order is of a set of numbers: every member at one place, ascending.
Ascends(L, S) ==
  /\ Cardinality(S) \in Nat
  /\ DOMAIN L = 1 .. Cardinality(S)
  /\ \A i \in 1 .. Cardinality(S) : L[i] \in S
  /\ \A x \in S : \E i \in 1 .. Cardinality(S) : L[i] = x
  /\ \A i, j \in 1 .. Cardinality(S) : i < j => L[i] < L[j]

LEMMA InOrderAscends ==
  ASSUME NEW S \in SUBSET Nat, IsFiniteSet(S)
  PROVE  Ascends(InOrder(S), S)
<1> DEFINE N == Cardinality(S)
           R == {p \in Nat \X Nat : p[1] < p[2]}
           Place(n) == CHOOSE x \in S : Cardinality({y \in S : y < x}) = n - 1
           L == [n \in 1 .. N |-> Place(n)]
<1>1. InOrder(S) = L
  BY Zenon DEF InOrder, Listed
<1>2. \A x \in S : {y \in S : <<y, x>> \in R} = {y \in S : y < x}
  OBVIOUS
<1>3. \A n \in 1 .. N : L[n] = Place(n)
  OBVIOUS
<1>4. ASSUME NEW n \in 1 .. N, \E x \in S : Cardinality({y \in S : <<y, x>> \in R}) = n - 1
      PROVE  L[n] \in S /\ Cardinality({y \in S : <<y, L[n]>> \in R}) = n - 1
  <2>1. \E x \in S : Cardinality({y \in S : y < x}) = n - 1
    BY <1>2, <1>4
  <2>2. Place(n) \in S /\ Cardinality({y \in S : y < Place(n)}) = n - 1
    BY <2>1
  <2> HIDE DEF Place, L
  <2> QED BY <1>2, <1>3, <2>2
<1>5. /\ \A x \in S : <<x, x>> \notin R
      /\ \A x, y, z \in S : <<x, y>> \in R /\ <<y, z>> \in R => <<x, z>> \in R
      /\ \A x, y \in S : x # y => <<x, y>> \in R \/ <<y, x>> \in R
  OBVIOUS
<1>6. DOMAIN L = 1 .. N
  OBVIOUS
<1> HIDE DEF L
<1>7. /\ N \in Nat
      /\ \A i \in 1 .. N : L[i] \in S
      /\ \A x \in S : \E i \in 1 .. N : L[i] = x
      /\ \A i, j \in 1 .. N : i < j => <<L[i], L[j]>> \in R
  <2> HIDE DEF R
  <2> QED BY <1>4, <1>5, MembersInOrder
<1>8. \A i, j \in 1 .. N : i < j => L[i] < L[j]
  BY <1>7
<1> QED BY <1>1, <1>6, <1>7, <1>8 DEF Ascends

\* A set of numbers has one list in order.
LEMMA OneAscends ==
  ASSUME NEW S \in SUBSET Nat, NEW L, NEW M, Ascends(L, S), Ascends(M, S)
  PROVE  \A i \in 1 .. Cardinality(S) : L[i] = M[i]
<1> DEFINE N == Cardinality(S)
<1>1. /\ N \in Nat
      /\ \A i \in 1 .. N : L[i] \in Nat /\ M[i] \in Nat
  BY DEF Ascends
<1>2. \A i, j \in 1 .. N : i < j => L[i] < L[j] /\ M[i] < M[j]
  BY DEF Ascends
<1>3. \A i \in 1 .. N : (\E j \in 1 .. N : M[j] = L[i]) /\ (\E j \in 1 .. N : L[j] = M[i])
  BY DEF Ascends
<1> HIDE DEF N
<1> DEFINE D == {i \in 1 .. N : L[i] # M[i]}
<1> SUFFICES ASSUME D # {} PROVE FALSE
  BY DEF N
<1>4. PICK i \in D : \A j \in D : i <= j
  BY LeastMember, <1>1, D \in SUBSET Nat
<1>5. i \in 1 .. N /\ L[i] # M[i]
  BY <1>4
<1>6. ASSUME NEW j \in 1 .. N, j < i PROVE L[j] = M[j]
  <2>1. j \in Nat /\ i \in Nat /\ ~ (i <= j)
    BY <1>1, <1>5, <1>6
  <2> QED BY <1>4, <2>1
<1> HIDE DEF D
<1>7. CASE L[i] < M[i]
  <2>1. PICK j \in 1 .. N : M[j] = L[i]
    BY <1>3, <1>5
  <2>2. CASE j < i
    <3>1. L[j] = L[i] /\ L[j] < L[i]
      BY <1>2, <1>5, <1>6, <2>1, <2>2
    <3> QED BY <1>1, <1>5, <3>1
  <2>3. CASE i < j
    <3>1. M[i] < M[j] /\ M[i] \in Nat /\ M[j] \in Nat
      BY <1>1, <1>2, <1>5, <2>3
    <3> QED BY <1>7, <2>1, <3>1
  <2>4. CASE i = j
    BY <1>5, <2>1, <2>4
  <2> QED BY <1>1, <1>5, <2>2, <2>3, <2>4
<1>8. CASE M[i] < L[i]
  <2>1. PICK j \in 1 .. N : L[j] = M[i]
    BY <1>3, <1>5
  <2>2. CASE j < i
    <3>1. M[j] = M[i] /\ M[j] < M[i]
      BY <1>2, <1>5, <1>6, <2>1, <2>2
    <3> QED BY <1>1, <1>5, <3>1
  <2>3. CASE i < j
    <3>1. L[i] < L[j] /\ L[i] \in Nat /\ L[j] \in Nat
      BY <1>1, <1>2, <1>5, <2>3
    <3> QED BY <1>8, <2>1, <3>1
  <2>4. CASE i = j
    BY <1>5, <2>1, <2>4
  <2> QED BY <1>1, <1>5, <2>2, <2>3, <2>4
<1> QED BY <1>1, <1>5, <1>7, <1>8

Along(A, B, K) ==
  /\ Cardinality(A) = Cardinality(B)
  /\ \A n \in 1 .. Cardinality(A) : InOrder(B)[n] = K[InOrder(A)[n]]

\* A list that is taken apart and put together in the same order lists the same.
LEMMA AscendsAlong ==
  ASSUME NEW A \in SUBSET Nat, IsFiniteSet(A), NEW B \in SUBSET Nat, IsFiniteSet(B), NEW K,
         \A a \in A : K[a] \in B,
         \A b \in B : \E a \in A : K[a] = b,
         \A a, x \in A : a < x => K[a] < K[x]
  PROVE  Along(A, B, K)
<1>1. Ascends(InOrder(A), A) /\ Ascends(InOrder(B), B)
  BY InOrderAscends
<1>2. Cardinality(A) = Cardinality(B)
  <2> DEFINE f == [a \in A |-> K[a]]
  <2>1. f \in Bijection(A, B)
    <3>1. f \in [A -> B]
      OBVIOUS
    <3>2. ASSUME NEW a \in A, NEW x \in A, f[a] = f[x] PROVE a = x
      <4>1. K[a] = K[x] /\ K[a] \in Nat /\ a \in Nat /\ x \in Nat
        BY <3>2
      <4>2. ~ (a < x) /\ ~ (x < a)
        BY <4>1
      <4> QED BY <4>1, <4>2
    <3>3. \A b \in B : \E a \in A : f[a] = b
      OBVIOUS
    <3> QED BY <3>1, <3>2, <3>3 DEF Bijection, Injection, Surjection, IsInjective
  <2> QED BY <2>1, FS_Bijection DEF ExistsBijection
<1> DEFINE N == Cardinality(A)
           L == InOrder(A)
           M == [n \in 1 .. N |-> K[L[n]]]
<1>3. /\ N \in Nat
      /\ \A i \in 1 .. N : L[i] \in A
      /\ \A x \in A : \E i \in 1 .. N : L[i] = x
      /\ \A i, j \in 1 .. N : i < j => L[i] < L[j]
  BY <1>1 DEF Ascends
<1> HIDE DEF L, N
<1>4. DOMAIN M = 1 .. N /\ \A n \in 1 .. N : M[n] = K[L[n]]
  OBVIOUS
<1> HIDE DEF M
<1>5. /\ \A i \in 1 .. N : M[i] \in B
      /\ \A b \in B : \E i \in 1 .. N : M[i] = b
      /\ \A i, j \in 1 .. N : i < j => M[i] < M[j]
  <2>1. ASSUME NEW b \in B PROVE \E i \in 1 .. N : M[i] = b
    <3>1. PICK a \in A : K[a] = b
      OBVIOUS
    <3>2. PICK i \in 1 .. N : L[i] = a
      BY <1>3
    <3> QED BY <1>4, <3>1, <3>2
  <2>2. ASSUME NEW i \in 1 .. N, NEW j \in 1 .. N, i < j PROVE M[i] < M[j]
    <3>1. L[i] \in A /\ L[j] \in A /\ L[i] < L[j]
      BY <1>3, <2>2
    <3>2. K[L[i]] < K[L[j]]
      BY <3>1
    <3> QED BY <1>4, <3>2
  <2> QED BY <1>3, <1>4, <2>1, <2>2
<1>6. Ascends(M, B)
  BY <1>2, <1>3, <1>4, <1>5 DEF Ascends, N
<1>7. \A n \in 1 .. Cardinality(B) : InOrder(B)[n] = M[n]
  BY <1>1, <1>6, OneAscends
<1> QED BY <1>2, <1>4, <1>7 DEF N, L, Along

UserAt(f) == {i \in DOMAIN f : f[i].kind = "user"}

\* A file made of some of the entries of another, in their order, and of entries that
\* are not the user's, has the user's entries of the other.
MadeOf(g, f, k, K) ==
  /\ DOMAIN f \in SUBSET Nat /\ IsFiniteSet(DOMAIN f) /\ DOMAIN g \in SUBSET Nat /\ IsFiniteSet(DOMAIN g)
  /\ 1 .. k \subseteq DOMAIN g
  /\ \A n \in 1 .. k : K[n] \in DOMAIN f
  /\ \A m, n \in 1 .. k : m < n => K[m] < K[n]
  /\ \A n \in 1 .. k : (g[n].kind = "user") = (f[K[n]].kind = "user")
  /\ \A n \in 1 .. k : g[n].kind = "user" => g[n] = f[K[n]]
  /\ \A n \in DOMAIN g \ (1 .. k) : g[n].kind # "user"
  /\ \A i \in UserAt(f) : \E n \in 1 .. k : K[n] = i

LEMMA UserEntriesKept ==
  ASSUME NEW f, NEW g, NEW k \in Nat, NEW K, MadeOf(g, f, k, K)
  PROVE  UserEntries(g) = UserEntries(f)
<1> DEFINE A == UserAt(g)
           B == UserAt(f)
<1>1. A \in SUBSET Nat /\ IsFiniteSet(A) /\ B \in SUBSET Nat /\ IsFiniteSet(B)
  <2>1. A \in SUBSET DOMAIN g /\ B \in SUBSET DOMAIN f
    BY DEF UserAt
  <2> QED BY <2>1, FS_Subset DEF MadeOf
<1>2. A \subseteq 1 .. k /\ \A n \in A : K[n] \in B /\ g[n] = f[K[n]]
  BY DEF UserAt, MadeOf
<1>3. \A i \in B : \E n \in A : K[n] = i
  BY DEF UserAt, MadeOf
<1>4. /\ Cardinality(A) = Cardinality(B)
      /\ \A n \in 1 .. Cardinality(A) : InOrder(B)[n] = K[InOrder(A)[n]]
  <2> HIDE DEF A, B
  <2>1. \A a, x \in A : a < x => K[a] < K[x]
    BY <1>2 DEF MadeOf
  <2>2. Along(A, B, K)
    BY <1>1, <1>2, <1>3, <2>1, AscendsAlong
  <2> QED BY <2>2 DEF Along
<1>5. Ascends(InOrder(A), A) /\ Ascends(InOrder(B), B)
  BY <1>1, InOrderAscends
<1>6. /\ DOMAIN InOrder(A) = 1 .. Cardinality(A) /\ DOMAIN InOrder(B) = 1 .. Cardinality(A)
      /\ \A n \in 1 .. Cardinality(A) : InOrder(A)[n] \in A
  BY <1>4, <1>5 DEF Ascends
<1>7. \A n \in 1 .. Cardinality(A) : g[InOrder(A)[n]] = f[InOrder(B)[n]]
  BY <1>2, <1>4, <1>6
<1>8. /\ UserEntries(g) = [n \in 1 .. Cardinality(A) |-> g[InOrder(A)[n]]]
      /\ UserEntries(f) = [n \in 1 .. Cardinality(A) |-> f[InOrder(B)[n]]]
  BY <1>6, Zenon DEF UserEntries, EntriesAt, UserAt
<1> HIDE DEF A, B
<1> QED BY <1>7, <1>8

\* What a pairing counts as Loaf's is nobody's but Loaf's.
Claims(f, pairing) ==
  LET own == {i \in DOMAIN f : f[i].kind # "user"}
  IN  /\ pairing.duplicates \subseteq own /\ pairing.retired \subseteq own
      /\ \A h \in DOMAIN pairing.paired : pairing.paired[h] \in own

LEMMA PairingClaims ==
  ASSUME NEW f, DOMAIN f \in SUBSET Nat, NEW c, NEW trusted
  PROVE  Claims(f, PairHookEntries(f, c, trusted))
<1> DEFINE ours == {i \in DOMAIN f : OwnsEntry(f[i], c, trusted)}
           first(h) == Min({i \in ours : ResolveHookID(f[i], c) = h})
           found == {ResolveHookID(f[i], c) : i \in ours} \ {NoHook}
           paired == [h \in found |-> first(h)]
           duplicates == {i \in ours : ResolveHookID(f[i], c) # NoHook /\ i # first(ResolveHookID(f[i], c))}
           retired == {i \in ours : ResolveHookID(f[i], c) = NoHook}
           pairing == [paired |-> paired, duplicates |-> duplicates, retired |-> retired, foreign |-> DOMAIN f \ ours]
<1>1. PairHookEntries(f, c, trusted) = pairing
  BY Zenon DEF PairHookEntries
<1>2. \A i \in ours : i \in DOMAIN f /\ f[i].kind # "user"
  BY DEF OwnsEntry, MatchesExecutable, MatchesFrozenRetired, ReferencesManagedPath, MatchesFrozenAllowlist
<1>3. ASSUME NEW h \in found PROVE first(h) \in ours
  <2> DEFINE S == {i \in ours : ResolveHookID(f[i], c) = h}
  <2>1. S \in SUBSET Nat /\ S # {} /\ S \subseteq ours
    OBVIOUS
  <2>2. \E m \in S : \A s \in S : m <= s
    <3> HIDE DEF S
    <3> QED BY <2>1, LeastMember
  <2>3. Min(S) \in S
    <3> HIDE DEF S
    <3>1. \E m \in S : \A s \in S : m =< s
      BY <2>2
    <3>2. (CHOOSE m \in S : \A s \in S : m =< s) \in S
      BY <3>1
    <3> QED BY <3>2, Zenon DEF Min
  <2> QED BY <2>1, <2>3
<1>4. /\ pairing.duplicates = duplicates /\ pairing.retired = retired /\ pairing.paired = paired
  OBVIOUS
<1>5. duplicates \subseteq ours /\ retired \subseteq ours
  OBVIOUS
<1>6. DOMAIN paired = found /\ \A h \in found : paired[h] = first(h)
  OBVIOUS
<1> HIDE DEF ours, first, found, paired, duplicates, retired, pairing
<1> QED BY <1>1, <1>2, <1>3, <1>4, <1>5, <1>6 DEF Claims

\* Two lists, one after the other.
Follows(g, k, s, l, t) ==
  /\ IsFile(g) /\ DOMAIN g = 1 .. k + l
  /\ \A i \in 1 .. k : g[i] = s[i]
  /\ \A i \in 1 .. l : g[k + i] = t[i]

Joined(g, s, t) ==
  /\ DOMAIN g = 1 .. Len(s) + Len(t)
  /\ \A i \in 1 .. Len(s) : g[i] = s[i]
  /\ \A i \in 1 .. Len(t) : g[Len(s) + i] = t[i]

LEMMA Concatenated ==
  ASSUME NEW S, NEW s \in Seq(S), NEW t \in Seq(S), NEW g, g = s \o t
  PROVE  g \in Seq(S) /\ Joined(g, s, t)
<1>1. g \in Seq(S) /\ Len(g) = Len(s) + Len(t) /\ Len(s) \in Nat /\ Len(t) \in Nat
  OBVIOUS
<1>2. DOMAIN g = 1 .. Len(s) + Len(t)
  BY <1>1
<1>3. \A i \in 1 .. Len(s) : g[i] = s[i]
  OBVIOUS
<1>4. \A i \in 1 .. Len(t) : g[Len(s) + i] = t[i]
  OBVIOUS
<1> QED BY <1>1, <1>2, <1>3, <1>4 DEF Joined

LEMMA ListOf ==
  ASSUME NEW T, NEW n \in Nat, NEW g \in [1 .. n -> T]
  PROVE  g \in Seq(T)
OBVIOUS

LEMMA ListIsFile ==
  ASSUME NEW S, NEW g \in Seq(S)
  PROVE  IsFile(g)
<1> DEFINE T == {g[i] : i \in DOMAIN g}
<1>1. Len(g) \in Nat /\ DOMAIN g = 1 .. Len(g) /\ g \in [1 .. Len(g) -> S] /\ \A i \in 1 .. Len(g) : g[i] \in T
  OBVIOUS
<1> HIDE DEF T
<1>2. g \in [1 .. Len(g) -> T]
  BY <1>1
<1>3. g \in Seq(T)
  BY <1>1, <1>2, ListOf
<1> QED BY <1>3 DEF T, IsFile

LEMMA OneAfter ==
  ASSUME NEW S, NEW k \in Nat, NEW l \in Nat, NEW s \in [1 .. k -> S], NEW t \in [1 .. l -> S],
         NEW g, g = s \o t
  PROVE  Follows(g, k, s, l, t)
<1>1. s \in Seq(S) /\ t \in Seq(S)
  BY ListOf
<1>2. Len(s) = k /\ Len(t) = l
  OBVIOUS
<1>a. Joined(g, s, t)
  BY <1>1, Concatenated
<1>b. g \in Seq(S)
  BY <1>1, Concatenated
<1>3. g \in Seq(S) /\ DOMAIN g = 1 .. k + l
  BY <1>2, <1>a, <1>b DEF Joined
<1>4. /\ \A i \in 1 .. k : g[i] = s[i]
      /\ \A i \in 1 .. l : g[k + i] = t[i]
  BY <1>2, <1>a DEF Joined
<1>5. IsFile(g)
  BY <1>b, ListIsFile
<1> QED BY <1>3, <1>4, <1>5 DEF Follows

\* A list of entries has a number of them.
LEMMA FileIsFinite ==
  ASSUME NEW f, IsFile(f)
  PROVE  /\ Len(f) \in Nat /\ DOMAIN f = 1 .. Len(f)
         /\ DOMAIN f \in SUBSET Nat /\ IsFiniteSet(DOMAIN f)
<1>1. Len(f) \in Nat /\ DOMAIN f = 1 .. Len(f)
  BY DEF IsFile
<1>2. IsFiniteSet(1 .. Len(f))
  BY <1>1, FS_Interval
<1> QED BY <1>1, <1>2

\* What a pairing says of a file: every hook found has the first of its entries, and
\* every other entry of a catalog's hook is a duplicate.
Pairs(f, c, trusted, pairing) ==
  /\ \A h \in DOMAIN pairing.paired :
       /\ h # NoHook /\ pairing.paired[h] \in DOMAIN f
       /\ OwnsEntry(f[pairing.paired[h]], c, trusted) /\ ResolveHookID(f[pairing.paired[h]], c) = h
  /\ \A i \in DOMAIN f : OwnsEntry(f[i], c, trusted) /\ ResolveHookID(f[i], c) # NoHook =>
       /\ ResolveHookID(f[i], c) \in DOMAIN pairing.paired
       /\ i = pairing.paired[ResolveHookID(f[i], c)] \/ i \in pairing.duplicates

LEMMA PairingPairs ==
  ASSUME NEW f, DOMAIN f \in SUBSET Nat, NEW c, NEW trusted
  PROVE  Pairs(f, c, trusted, PairHookEntries(f, c, trusted))
<1> DEFINE ours == {i \in DOMAIN f : OwnsEntry(f[i], c, trusted)}
           of(h) == {i \in ours : ResolveHookID(f[i], c) = h}
           first(h) == Min({i \in ours : ResolveHookID(f[i], c) = h})
           found == {ResolveHookID(f[i], c) : i \in ours} \ {NoHook}
           paired == [h \in found |-> first(h)]
           duplicates == {i \in ours : ResolveHookID(f[i], c) # NoHook /\ i # first(ResolveHookID(f[i], c))}
           retired == {i \in ours : ResolveHookID(f[i], c) = NoHook}
           pairing == [paired |-> paired, duplicates |-> duplicates, retired |-> retired, foreign |-> DOMAIN f \ ours]
<1>1. PairHookEntries(f, c, trusted) = pairing
  BY Zenon DEF PairHookEntries
<1>2. ASSUME NEW h \in found PROVE first(h) \in of(h)
  <2>1. of(h) \in SUBSET Nat /\ of(h) # {}
    OBVIOUS
  <2>2. first(h) = Min(of(h))
    OBVIOUS
  <2> HIDE DEF of, first
  <2>3. \E m \in of(h) : \A s \in of(h) : m =< s
    BY <2>1, LeastMember
  <2>4. (CHOOSE m \in of(h) : \A s \in of(h) : m =< s) \in of(h)
    BY <2>3
  <2> QED BY <2>2, <2>4, Zenon DEF Min
<1>3. \A h \in found : h # NoHook /\ \A i \in of(h) : i \in DOMAIN f /\ OwnsEntry(f[i], c, trusted) /\ ResolveHookID(f[i], c) = h
  OBVIOUS
<1>4. ASSUME NEW i \in DOMAIN f, OwnsEntry(f[i], c, trusted), ResolveHookID(f[i], c) # NoHook
      PROVE  ResolveHookID(f[i], c) \in found /\ (i = first(ResolveHookID(f[i], c)) \/ i \in duplicates)
  <2>1. i \in ours
    BY <1>4
  <2>2. ResolveHookID(f[i], c) \in found
    BY <1>4, <2>1
  <2> HIDE DEF ours, first, found
  <2> QED BY <1>4, <2>1, <2>2
<1>5. pairing.duplicates = duplicates /\ pairing.paired = paired
  OBVIOUS
<1>6. DOMAIN paired = found /\ \A h \in found : paired[h] = first(h)
  OBVIOUS
<1> HIDE DEF ours, of, first, found, paired, duplicates, retired, pairing
<1> QED BY <1>1, <1>2, <1>3, <1>4, <1>5, <1>6 DEF Pairs

\* The parts of a projection: what stays, in its place, and what is missing after it.
Wanted(r, disabled, c) == {h \in Catalog(c.ver).hooks : Enabled(r, h) /\ h \notin disabled}

Left(f, pairing, wanted) ==
  DOMAIN f \ (pairing.duplicates \cup pairing.retired
                \cup {pairing.paired[h] : h \in DOMAIN pairing.paired \ wanted})

Missing(pairing, wanted) == wanted \ DOMAIN pairing.paired

Standing(f, pairing, wanted, c, i) ==
  IF \E h \in wanted \cap DOMAIN pairing.paired : pairing.paired[h] = i
  THEN DesiredEntry(c.ver, ResolveHookID(f[i], c), c.exe) ELSE f[i]

Built(g, f, pairing, wanted, c, k, l) ==
  /\ k \in Nat /\ l \in Nat /\ IsFile(g) /\ DOMAIN g = 1 .. k + l
  /\ k = Cardinality(Left(f, pairing, wanted)) /\ Ascends(InOrder(Left(f, pairing, wanted)), Left(f, pairing, wanted))
  /\ l = Cardinality(Missing(pairing, wanted)) /\ Ascends(InOrder(Missing(pairing, wanted)), Missing(pairing, wanted))
  /\ \A n \in 1 .. k : g[n] = Standing(f, pairing, wanted, c, InOrder(Left(f, pairing, wanted))[n])
  /\ \A n \in 1 .. l : g[k + n] = DesiredEntry(c.ver, InOrder(Missing(pairing, wanted))[n], c.exe)

LEMMA ProjectionBuilt ==
  ASSUME NEW f, IsFile(f), NEW pairing, NEW r, NEW disabled, NEW c,
         IsFiniteSet(Catalog(c.ver).hooks), Catalog(c.ver).hooks \subseteq Nat \ {NoHook}
  PROVE  \E k, l : Built(ProjectEvent(f, pairing, r, disabled, c), f, pairing, Wanted(r, disabled, c), c, k, l)
<1> DEFINE wanted == Wanted(r, disabled, c)
           left == Left(f, pairing, wanted)
           missing == Missing(pairing, wanted)
           stays == InOrder(left)
           added == InOrder(missing)
           k == Cardinality(left)
           l == Cardinality(missing)
           s == [n \in DOMAIN stays |-> Standing(f, pairing, wanted, c, stays[n])]
           t == [n \in DOMAIN added |-> DesiredEntry(c.ver, added[n], c.exe)]
           g == s \o t
<1>1. ProjectEvent(f, pairing, r, disabled, c) = g
  BY Zenon DEF ProjectEvent, Wanted, Left, Missing, Standing
<1>2. Ascends(stays, left)
  <2>1. DOMAIN f \in SUBSET Nat /\ IsFiniteSet(DOMAIN f) /\ left \in SUBSET DOMAIN f
    BY FileIsFinite DEF Left
  <2>2. left \in SUBSET Nat /\ IsFiniteSet(left)
    BY <2>1, FS_Subset
  <2> HIDE DEF left
  <2> QED BY <2>2, InOrderAscends
<1>3. Ascends(added, missing)
  <2>1. missing \in SUBSET Catalog(c.ver).hooks
    BY DEF Missing, Wanted
  <2>2. missing \in SUBSET Nat /\ IsFiniteSet(missing)
    BY <2>1, FS_Subset
  <2> HIDE DEF missing
  <2> QED BY <2>2, InOrderAscends
<1> HIDE DEF stays, added, left, missing, wanted
<1>4. k \in Nat /\ DOMAIN stays = 1 .. k /\ l \in Nat /\ DOMAIN added = 1 .. l
  BY <1>2, <1>3 DEF Ascends
<1>5. /\ DOMAIN s = 1 .. k /\ s = [n \in 1 .. k |-> s[n]] /\ \A n \in 1 .. k : s[n] = Standing(f, pairing, wanted, c, stays[n])
      /\ DOMAIN t = 1 .. l /\ t = [n \in 1 .. l |-> t[n]] /\ \A n \in 1 .. l : t[n] = DesiredEntry(c.ver, added[n], c.exe)
  BY <1>4
<1>6. Follows(g, k, s, l, t)
  <2> DEFINE S == {s[i] : i \in 1 .. k} \cup {t[i] : i \in 1 .. l}
  <2> HIDE DEF s, t, k, l
  <2>1. s \in [1 .. k -> S] /\ t \in [1 .. l -> S]
    BY <1>5
  <2> HIDE DEF S
  <2> QED BY <1>4, <2>1, OneAfter
<1> HIDE DEF g, s, t
<1>7. Built(g, f, pairing, wanted, c, k, l)
  BY <1>2, <1>3, <1>4, <1>5, <1>6 DEF Built, Follows, stays, added, left, missing
<1> HIDE DEF k, l
<1> QED BY <1>1, <1>7 DEF wanted

\* The projection of a file has the user's entries of the file, in their order.
LEMMA ProjectionKeeps ==
  ASSUME NEW f, IsFile(f), NEW pairing, Claims(f, pairing), NEW r, NEW disabled, NEW c,
         IsFiniteSet(Catalog(c.ver).hooks), Catalog(c.ver).hooks \subseteq Nat \ {NoHook}
  PROVE  LET g == ProjectEvent(f, pairing, r, disabled, c)
         IN  IsFile(g) /\ UserEntries(g) = UserEntries(f)
<1> DEFINE wanted == Wanted(r, disabled, c)
           left == Left(f, pairing, wanted)
           stays == InOrder(left)
           g == ProjectEvent(f, pairing, r, disabled, c)
<1>1. PICK k, l : Built(g, f, pairing, wanted, c, k, l)
  BY ProjectionBuilt
<1>2. /\ k \in Nat /\ l \in Nat /\ IsFile(g) /\ DOMAIN g = 1 .. k + l
      /\ k = Cardinality(left) /\ Ascends(stays, left)
      /\ \A n \in 1 .. k : g[n] = Standing(f, pairing, wanted, c, stays[n])
      /\ \A n \in 1 .. l : g[k + n] = DesiredEntry(c.ver, InOrder(Missing(pairing, wanted))[n], c.exe)
  BY <1>1 DEF Built
<1>3. DOMAIN f \in SUBSET Nat /\ IsFiniteSet(DOMAIN f) /\ left \in SUBSET DOMAIN f
  BY FileIsFinite DEF Left
<1>4. ASSUME NEW i \in left
      PROVE  /\ (Standing(f, pairing, wanted, c, i).kind = "user") = (f[i].kind = "user")
             /\ Standing(f, pairing, wanted, c, i).kind = "user" => Standing(f, pairing, wanted, c, i) = f[i]
  <2>1. CASE \E h \in wanted \cap DOMAIN pairing.paired : pairing.paired[h] = i
    <3>1. f[i].kind # "user"
      BY <2>1 DEF Claims
    <3>2. Standing(f, pairing, wanted, c, i).kind = "hook"
      BY <2>1 DEF Standing, DesiredEntry
    <3> QED BY <3>1, <3>2
  <2>2. CASE ~ \E h \in wanted \cap DOMAIN pairing.paired : pairing.paired[h] = i
    BY <2>2 DEF Standing
  <2> QED BY <2>1, <2>2
<1>5. \A i \in UserAt(f) : i \in left
  BY DEF Claims, UserAt, Left
<1> HIDE DEF wanted, left, g, stays
<1>6. /\ \A n \in 1 .. k : stays[n] \in left
      /\ \A m, n \in 1 .. k : m < n => stays[m] < stays[n]
      /\ \A i \in left : \E n \in 1 .. k : stays[n] = i
  BY <1>2 DEF Ascends
<1>7. \A n \in DOMAIN g \ (1 .. k) : g[n].kind # "user"
  <2> SUFFICES ASSUME NEW n \in 1 .. k + l, n \notin 1 .. k PROVE g[n].kind # "user"
    BY <1>2
  <2>1. n - k \in 1 .. l /\ k + (n - k) = n
    BY <1>2
  <2>2. PICK h : g[n] = DesiredEntry(c.ver, h, c.exe)
    BY <1>2, <2>1
  <2> QED BY <2>2 DEF DesiredEntry
<1>8. DOMAIN g \in SUBSET Nat /\ IsFiniteSet(DOMAIN g) /\ 1 .. k \subseteq DOMAIN g
  <2>1. 1 .. k \subseteq 1 .. k + l
    BY <1>2
  <2> QED BY <1>2, <2>1, FileIsFinite
<1>9. MadeOf(g, f, k, stays)
  <2>1. /\ \A n \in 1 .. k : (g[n].kind = "user") = (f[stays[n]].kind = "user")
        /\ \A n \in 1 .. k : g[n].kind = "user" => g[n] = f[stays[n]]
    <3> SUFFICES ASSUME NEW n \in 1 .. k
                 PROVE  (g[n].kind = "user") = (f[stays[n]].kind = "user") /\ (g[n].kind = "user" => g[n] = f[stays[n]])
      OBVIOUS
    <3>1. g[n] = Standing(f, pairing, wanted, c, stays[n]) /\ stays[n] \in left
      BY <1>2, <1>6
    <3> QED BY <1>4, <3>1
  <2>2. \A n \in 1 .. k : stays[n] \in DOMAIN f
    BY <1>3, <1>6
  <2>3. \A i \in UserAt(f) : \E n \in 1 .. k : stays[n] = i
    BY <1>5, <1>6
  <2> QED BY <1>3, <1>6, <1>7, <1>8, <2>1, <2>2, <2>3 DEF MadeOf
<1>10. UserEntries(g) = UserEntries(f)
  BY <1>2, <1>9, UserEntriesKept
<1> QED BY <1>2, <1>10 DEF g

\* Between the lock that is taken and the lock that is given back.
Locked == {"trust", "absorb", "mark", "work", "complete", "compare", "rename", "verify"}

ReconcilerFields == {"at", "cmd", "prior", "begun", "absorb", "seen", "body", "foreign", "edited"}

\* A command that has a body to publish: it has the user's entries of the file it was
\* computed from, and after the comparison that is the file, until somebody edits it.
BodyOK(r, f) ==
  /\ r.at \in {"compare", "rename"} => IsFile(r.body) /\ UserEntries(r.body) = UserEntries(r.seen)
  /\ r.at = "rename" /\ ~ r.edited => f = r.seen

Reconciler(r, f, cmds) ==
  \/ r = Resting
  \/ /\ r = [x \in ReconcilerFields |-> r[x]]
     /\ r.at \in {"waiting"} \cup Locked
     /\ r.cmd \in cmds
     /\ BodyOK(r, f)

HookInv ==
  /\ hkplan \in HookPlans
  /\ IsFile(hookFile)
  /\ hookFaults = [x \in {"edits", "stops"} |-> hookFaults[x]] /\ hookFaults.edits \in Nat
  /\ hookProc = [p \in hkplan.procs |-> hookProc[p]]
  /\ \A p \in hkplan.procs : Reconciler(hookProc[p], hookFile, hkplan.cmds)
  /\ \A p \in hkplan.procs : hookProc[p].at \in Locked => hookLock
  /\ \A p, q \in hkplan.procs : hookProc[p].at \in Locked /\ hookProc[q].at \in Locked => p = q

\* The command has t in its hands next.
Puts(p, t) == hookProc' = [hookProc EXCEPT ![p] = t]

\* One command goes on, under the lock or without it; the file changes only under it.
LEMMA OneGoesOn ==
  ASSUME HookInv, NEW p \in hkplan.procs, NEW t, Puts(p, t), hkplan' = hkplan, IsFile(hookFile)',
         hookFaults' = [x \in {"edits", "stops"} |-> hookFaults'[x]], hookFaults'.edits \in Nat,
         Reconciler(t, hookFile', hkplan.cmds),
         hookFile' = hookFile \/ hookProc[p].at \in Locked,
         t.at \in Locked => hookLock' /\ (hookProc[p].at \in Locked \/ ~ hookLock),
         t.at \notin Locked => hookLock' = hookLock \/ hookProc[p].at \in Locked
  PROVE  HookInv'
<1>1. /\ hookProc'[p] = t
      /\ \A q \in hkplan.procs \ {p} : hookProc'[q] = hookProc[q]
      /\ hookProc' = [q \in hkplan.procs |-> hookProc'[q]]
  BY DEF HookInv, Puts
<1>2. ASSUME NEW q \in hkplan.procs PROVE Reconciler(hookProc'[q], hookFile', hkplan.cmds)
  <2>1. CASE q = p
    BY <1>1, <2>1
  <2>2. CASE q # p
    <3>1. Reconciler(hookProc[q], hookFile, hkplan.cmds) /\ hookProc'[q] = hookProc[q]
      BY <1>1, <2>2 DEF HookInv
    <3>2. CASE hookFile' = hookFile
      BY <3>1, <3>2
    <3>3. CASE hookProc[p].at \in Locked
      <4>1. hookProc[q].at \notin Locked
        BY <2>2, <3>3 DEF HookInv
      <4>2. hookProc[q].at # "rename" /\ hookProc[q].at # "compare"
        BY <4>1 DEF Locked
      <4> QED BY <3>1, <4>2 DEF Reconciler, BodyOK
    <3> QED BY <3>2, <3>3
  <2> QED BY <2>1, <2>2
<1>3. ASSUME NEW q \in hkplan.procs, hookProc'[q].at \in Locked PROVE hookLock'
  <2>1. CASE q = p
    BY <1>1, <1>3, <2>1
  <2>2. CASE q # p
    <3>1. hookProc[q].at \in Locked /\ hookLock /\ hookProc[p].at \notin Locked
      BY <1>1, <1>3, <2>2 DEF HookInv
    <3> QED BY <3>1
  <2> QED BY <2>1, <2>2
<1>4. ASSUME NEW q \in hkplan.procs, NEW x \in hkplan.procs, hookProc'[q].at \in Locked, hookProc'[x].at \in Locked
      PROVE  q = x
  <2>1. CASE q # p /\ x # p
    BY <1>1, <1>4, <2>1 DEF HookInv
  <2>2. ASSUME NEW y \in hkplan.procs, y # p, hookProc'[y].at \in Locked, hookProc'[p].at \in Locked PROVE FALSE
    <3>1. hookProc[y].at \in Locked /\ hookLock /\ hookProc[p].at \notin Locked
      BY <1>1, <2>2 DEF HookInv
    <3> QED BY <1>1, <2>2, <3>1
  <2> QED BY <1>4, <2>1, <2>2
<1> QED BY <1>1, <1>2, <1>3, <1>4 DEF HookInv

\* A command that rests, or moves on with what it has.
LEMMA CommandRests ==
  ASSUME NEW f, NEW cmds
  PROVE  Reconciler(Resting, f, cmds) /\ Resting.at \notin Locked
BY DEF Reconciler, Resting, Locked

LEMMA CommandMoves ==
  ASSUME HookInv, NEW p \in hkplan.procs, hookProc[p].at # "idle", NEW where \in Locked \ {"compare", "rename"},
         NEW t, t = [hookProc[p] EXCEPT !.at = where], NEW f
  PROVE  Reconciler(t, f, hkplan.cmds) /\ t.at = where
<1> DEFINE r == hookProc[p]
<1>1. r = [x \in ReconcilerFields |-> r[x]] /\ r.cmd \in hkplan.cmds
  BY DEF HookInv, Reconciler, Resting
<1>2. t = [x \in ReconcilerFields |-> t[x]] /\ t.cmd = r.cmd /\ t.at = where
  BY <1>1 DEF ReconcilerFields
<1> QED BY <1>1, <1>2 DEF Reconciler, BodyOK

\* Every step of a command but the ones that compute, compare or publish a body.
LEMMA CommandInv ==
  ASSUME HookInv, NEW p \in hkplan.procs,
         \/ \E c \in hkplan.cmds : NewHookReconciler(p, c)
         \/ AcquireHookFileLock(p) \/ RecordTrustedExecutable(p) \/ RecordAbsorption(p) \/ AbsorbAndMarkHooks(p)
         \/ WriteManifest(p) \/ SetHookEnablement(p) \/ Verify(p) \/ HookProcessStops(p)
  PROVE  HookInv'
<1> DEFINE r == hookProc[p]
<1>1. /\ IsFile(hookFile) /\ hookFaults = [x \in {"edits", "stops"} |-> hookFaults[x]] /\ hookFaults.edits \in Nat
      /\ r.at \in Locked => hookLock
  BY DEF HookInv
<1>2. ASSUME NEW c \in hkplan.cmds, NewHookReconciler(p, c) PROVE HookInv'
  <2> DEFINE t == [at |-> "waiting", cmd |-> c, prior |-> hookManifest, begun |-> Records,
                   absorb |-> [marks |-> FALSE, from |-> 0, disable |-> {}],
                   seen |-> <<>>, body |-> <<>>, foreign |-> <<>>, edited |-> FALSE]
  <2>1. t = [x \in ReconcilerFields |-> t[x]] /\ t.at = "waiting" /\ t.cmd = c
    BY DEF ReconcilerFields
  <2>2. Puts(p, t) /\ UNCHANGED <<hkplan, hookFile, hookLock, hookFaults>>
    BY <1>2 DEF NewHookReconciler, Puts
  <2> HIDE DEF t
  <2>3. Reconciler(t, hookFile', hkplan.cmds)
    BY <2>1 DEF Reconciler, BodyOK
  <2> QED BY <1>1, <2>1, <2>2, <2>3, OneGoesOn DEF Locked
<1>3. ASSUME Rest(p), UNCHANGED <<hkplan, hookFile>>, hookLock' = hookLock \/ r.at \in Locked,
             hookFaults' = [x \in {"edits", "stops"} |-> hookFaults'[x]], hookFaults'.edits \in Nat
      PROVE  HookInv'
  <2>1. Puts(p, Resting)
    BY <1>3 DEF Rest, Puts
  <2> QED BY <1>1, <1>3, <2>1, CommandRests, OneGoesOn
<1>4. ASSUME NEW where \in Locked \ {"compare", "rename"}, NEW t, t = [r EXCEPT !.at = where], Puts(p, t),
             UNCHANGED <<hkplan, hookFile, hookFaults>>, hookLock', r.at \in Locked \/ (r.at = "waiting" /\ ~ hookLock)
      PROVE  HookInv'
  <2>1. r.at # "idle"
    BY <1>4 DEF Locked
  <2>2. Reconciler(t, hookFile', hkplan.cmds) /\ t.at = where
    BY <1>4, <2>1, CommandMoves
  <2> QED BY <1>1, <1>4, <2>2, OneGoesOn
<1>5. ASSUME AcquireHookFileLock(p) PROVE HookInv'
  <2>1. CASE hookLock
    BY <1>1, <1>3, <1>5, <2>1 DEF AcquireHookFileLock
  <2>2. CASE ~ hookLock
    BY <1>4, <1>5, <2>2 DEF AcquireHookFileLock, Move, Puts, At, Locked
  <2> QED BY <2>1, <2>2
<1>6. ASSUME RecordTrustedExecutable(p) PROVE HookInv'
  BY <1>1, <1>4, <1>6 DEF RecordTrustedExecutable, Move, Puts, At, Locked
<1>7. ASSUME RecordAbsorption(p) PROVE HookInv'
  <2>0. r = [x \in ReconcilerFields |-> r[x]] /\ r.cmd \in hkplan.cmds /\ r.at = "absorb"
    <3>1. r.at = "absorb"
      BY <1>7, Zenon DEF RecordAbsorption, At
    <3>2. Reconciler(r, hookFile, hkplan.cmds)
      BY DEF HookInv
    <3> HIDE DEF r
    <3> QED BY <3>1, <3>2 DEF Reconciler, Resting
  <2>1. CASE CanProject(Records, r.cmd)
    <3> DEFINE absorbs == ComputeProjection(hookFile, Records, r.cmd, r.prior).absorb
               where == IF absorbs.marks THEN "mark" ELSE "work"
               u == [r EXCEPT !.absorb = absorbs, !.begun = Records]
               t == [u EXCEPT !.at = where]
    <3>1. /\ hookProc' = [hookProc EXCEPT ![p].at = where, ![p].absorb = absorbs, ![p].begun = Records]
          /\ UNCHANGED <<hkplan, hookFile, hookFaults, hookLock>>
      BY <1>7, <2>1, Zenon DEF RecordAbsorption, At
    <3> HIDE DEF absorbs
    <3>3. t = [x \in ReconcilerFields |-> t[x]] /\ t.cmd = r.cmd /\ t.at = where
      BY <2>0 DEF ReconcilerFields
    <3>4. Puts(p, t)
      BY <2>0, <3>1 DEF Puts, ReconcilerFields
    <3>5. where \in {"mark", "work"}
      OBVIOUS
    <3> HIDE DEF t, where
    <3>6. Reconciler(t, hookFile', hkplan.cmds)
      BY <2>0, <3>3, <3>5 DEF Reconciler, BodyOK, Locked
    <3> QED BY <1>1, <2>0, <3>1, <3>3, <3>4, <3>5, <3>6, OneGoesOn DEF Locked
  <2>2. CASE ~ CanProject(Records, r.cmd)
    <3>1. ReleaseHookFileLock(p) /\ UNCHANGED <<hkplan, hookFile, hookFaults>> /\ r.at = "absorb"
      BY <1>7, <2>2, Zenon DEF RecordAbsorption, At
    <3> QED BY <1>1, <1>3, <3>1 DEF ReleaseHookFileLock, Locked
  <2> QED BY <2>1, <2>2
<1>8. ASSUME AbsorbAndMarkHooks(p) PROVE HookInv'
  <2>1. CASE absorption # NoMark
    BY <1>1, <1>3, <1>8, <2>1 DEF AbsorbAndMarkHooks, ReleaseHookFileLock, At, Locked
  <2>2. CASE absorption = NoMark
    BY <1>1, <1>4, <1>8, <2>2 DEF AbsorbAndMarkHooks, Move, Puts, At, Locked
  <2> QED BY <2>1, <2>2
<1>9. ASSUME WriteManifest(p) PROVE HookInv'
  BY <1>1, <1>4, <1>9 DEF WriteManifest, Move, Puts, At, Locked
<1>10. ASSUME SetHookEnablement(p) PROVE HookInv'
  BY <1>1, <1>4, <1>10 DEF SetHookEnablement, Move, Puts, At, Locked
<1>11. ASSUME Verify(p) PROVE HookInv'
  BY <1>1, <1>3, <1>11 DEF Verify, ReleaseHookFileLock, At, Locked
<1>12. ASSUME HookProcessStops(p) PROVE HookInv'
  <2>1. hookFaults' = [x \in {"edits", "stops"} |-> hookFaults'[x]] /\ hookFaults'.edits = hookFaults.edits
    BY <1>1, <1>12 DEF HookProcessStops
  <2> QED BY <1>1, <1>3, <1>12, <2>1 DEF HookProcessStops
<1> QED BY <1>2, <1>5, <1>6, <1>7, <1>8, <1>9, <1>10, <1>11, <1>12

\* A body is computed from the file and has the user's entries of it (complete).
LEMMA CompleteInv ==
  ASSUME HookInv, NEW p \in hkplan.procs, Complete(p)
  PROVE  HookInv'
<1> DEFINE r == hookProc[p]
           made == ComputeProjection(hookFile, Records, r.cmd, r.prior)
<1>1. /\ IsFile(hookFile) /\ hookFaults = [x \in {"edits", "stops"} |-> hookFaults[x]] /\ hookFaults.edits \in Nat
      /\ r.at \in Locked => hookLock
  BY DEF HookInv
<1>2. r.at = "complete" /\ UNCHANGED <<hkplan, hookFile, hookFaults>>
  BY DEF Complete, At
<1>3. r = [x \in ReconcilerFields |-> r[x]] /\ r.cmd \in hkplan.cmds
  BY <1>2 DEF HookInv, Reconciler, Resting
<1>4. CASE ReleaseHookFileLock(p)
  <2>1. Puts(p, Resting)
    BY <1>4 DEF ReleaseHookFileLock, Rest, Puts
  <2> QED BY <1>1, <1>2, <2>1, CommandRests, OneGoesOn DEF Locked
<1>5. CASE /\ hookProc' = [hookProc EXCEPT ![p].at = "compare", ![p].seen = hookFile,
                                           ![p].body = made.body, ![p].foreign = made.foreign]
           /\ UNCHANGED <<hookLock, settled>>
  <2>1. IsFile(made.body) /\ UserEntries(made.body) = UserEntries(hookFile)
    <3> DEFINE trusted == Recognition(Records, r.cmd)
               pairing == PairHookEntries(hookFile, r.cmd, trusted)
               absorbs == PlanAbsorption(Records, pairing, hookFile, r.cmd, r.prior)
               g == ProjectEvent(hookFile, pairing, Records, absorbs.disable, r.cmd)
    <3>1. made.body = g
      <4>1. made = [absorb |-> absorbs, body |-> g, foreign |-> EntriesAt(hookFile, pairing.foreign)]
        BY Zenon DEF ComputeProjection
      <4> HIDE DEF made, g, absorbs, pairing
      <4> QED BY <4>1
    <3>2. IsFiniteSet(Catalog(r.cmd.ver).hooks) /\ Catalog(r.cmd.ver).hooks \subseteq Nat \ {NoHook}
      BY <1>3, HookPlansAssumption DEF HookInv, Catalog
    <3>3. Claims(hookFile, pairing)
      BY <1>1, FileIsFinite, PairingClaims
    <3> HIDE DEF made, absorbs, pairing
    <3>4. IsFile(g) /\ UserEntries(g) = UserEntries(hookFile)
      BY <1>1, <3>2, <3>3, ProjectionKeeps
    <3> QED BY <3>1, <3>4
  <2> HIDE DEF made
  <2> DEFINE t == [x \in ReconcilerFields |-> IF x = "at" THEN "compare" ELSE IF x = "seen" THEN hookFile
                     ELSE IF x = "body" THEN made.body ELSE IF x = "foreign" THEN made.foreign ELSE r[x]]
  <2>2. Puts(p, t)
    <3>1. t = [r EXCEPT !.at = "compare", !.seen = hookFile, !.body = made.body, !.foreign = made.foreign]
      BY <1>3 DEF ReconcilerFields
    <3> HIDE DEF t
    <3> QED BY <1>5, <3>1 DEF Puts
  <2>3. /\ t = [x \in ReconcilerFields |-> t[x]] /\ t.at = "compare" /\ t.cmd = r.cmd
        /\ t.seen = hookFile /\ t.body = made.body
    BY DEF ReconcilerFields
  <2> HIDE DEF t
  <2>4. Reconciler(t, hookFile', hkplan.cmds)
    BY <1>2, <1>3, <2>1, <2>3 DEF Reconciler, BodyOK, Locked
  <2> QED BY <1>1, <1>2, <1>5, <2>2, <2>3, <2>4, OneGoesOn DEF Locked
<1> QED BY <1>4, <1>5, Zenon DEF Complete

\* The comparison that precedes the rename (ensureHookFileUnchanged).
LEMMA CompareInv ==
  ASSUME HookInv, NEW p \in hkplan.procs, EnsureHookFileUnchanged(p)
  PROVE  HookInv'
<1> DEFINE r == hookProc[p]
           t == [r EXCEPT !.at = "rename", !.edited = FALSE]
<1>1. /\ IsFile(hookFile) /\ hookFaults = [x \in {"edits", "stops"} |-> hookFaults[x]] /\ hookFaults.edits \in Nat
      /\ r.at \in Locked => hookLock
  BY DEF HookInv
<1>2. r.at = "compare" /\ UNCHANGED <<hkplan, hookFile, hookFaults>>
  BY DEF EnsureHookFileUnchanged, At
<1>3. r = [x \in ReconcilerFields |-> r[x]] /\ r.cmd \in hkplan.cmds /\ BodyOK(r, hookFile)
  BY <1>2 DEF HookInv, Reconciler, Resting
<1>4. CASE hookFile # r.seen
  <2>1. Puts(p, Resting)
    BY <1>4 DEF EnsureHookFileUnchanged, ReleaseHookFileLock, Rest, Puts
  <2> QED BY <1>1, <1>2, <2>1, CommandRests, OneGoesOn DEF Locked
<1>5. CASE hookFile = r.seen
  <2>1. Puts(p, t) /\ hookLock' = hookLock
    BY <1>5 DEF EnsureHookFileUnchanged, Puts
  <2>2. /\ t = [x \in ReconcilerFields |-> t[x]] /\ t.at = "rename" /\ t.cmd = r.cmd
        /\ t.seen = r.seen /\ t.body = r.body
    BY <1>3 DEF ReconcilerFields
  <2> HIDE DEF t
  <2>3. Reconciler(t, hookFile', hkplan.cmds)
    BY <1>2, <1>3, <1>5, <2>2 DEF Reconciler, BodyOK, Locked
  <2> QED BY <1>1, <1>2, <2>1, <2>2, <2>3, OneGoesOn DEF Locked
<1> QED BY <1>4, <1>5

\* The rename.
LEMMA PublishInv ==
  ASSUME HookInv, NEW p \in hkplan.procs, PublishHookFile(p)
  PROVE  HookInv'
<1> DEFINE r == hookProc[p]
           t == [r EXCEPT !.at = "verify"]
<1>1. /\ hookFaults = [x \in {"edits", "stops"} |-> hookFaults[x]] /\ hookFaults.edits \in Nat
      /\ r.at \in Locked => hookLock
  BY DEF HookInv
<1>2. r.at = "rename" /\ UNCHANGED <<hkplan, hookFaults, hookLock>> /\ hookFile' = r.body /\ Puts(p, t)
  BY DEF PublishHookFile, At, Move, Puts
<1>3. IsFile(r.body)
  <2>1. r = Resting \/ BodyOK(r, hookFile)
    <3>1. Reconciler(r, hookFile, hkplan.cmds)
      BY DEF HookInv
    <3> HIDE DEF r
    <3> QED BY <3>1 DEF Reconciler
  <2>2. r # Resting
    BY <1>2 DEF Resting
  <2> HIDE DEF r
  <2> QED BY <1>2, <2>1, <2>2 DEF BodyOK
<1>4. Reconciler(t, hookFile', hkplan.cmds) /\ t.at = "verify"
  BY <1>2, CommandMoves DEF Locked
<1> HIDE DEF t
<1> QED BY <1>1, <1>2, <1>3, <1>4, OneGoesOn DEF Locked

\* An entry added, taken out or changed leaves an array.
LEMMA EditsAreFiles ==
  ASSUME NEW f, IsFile(f), NEW g \in HookEdits(f)
  PROVE  IsFile(g)
<1>1. Len(f) \in Nat /\ DOMAIN f = 1 .. Len(f)
  BY FileIsFinite
<1>2. ASSUME NEW e, g = Append(f, e) PROVE IsFile(g)
  BY <1>2, ListGrows DEF IsFile
<1>3. ASSUME NEW i \in DOMAIN f, g = RemoveAt(f, i) PROVE IsFile(g)
  <2> DEFINE S == {f[j] : j \in DOMAIN f}
  <2>1. f \in Seq(S)
    BY DEF IsFile
  <2> HIDE DEF S
  <2>2. SubSeq(f, 1, i - 1) \in Seq(S) /\ SubSeq(f, i + 1, Len(f)) \in Seq(S)
    BY <1>1, <2>1
  <2>3. g \in Seq(S)
    BY <1>3, <2>2 DEF RemoveAt
  <2> QED BY <2>3, ListIsFile
<1>4. ASSUME NEW i \in DOMAIN f, g = [f EXCEPT ![i].text = "edited"] PROVE IsFile(g)
  <2>1. g = [j \in DOMAIN f |-> g[j]]
    BY <1>4
  <2> QED BY <2>1, ListReplaced DEF IsFile
<1> QED BY <1>2, <1>3, <1>4 DEF HookEdits

\* The user, or another program, writes the file at any time.
LEMMA EditInv ==
  ASSUME HookInv, NEW f \in HookEdits(hookFile), EditHookFile(f)
  PROVE  HookInv' /\ hookFaults'.edits # hookFaults.edits
<1>1. /\ hookFaults.edits > 0 /\ hookFile' = f /\ UNCHANGED <<hkplan, hookLock>>
      /\ hookFaults' = [hookFaults EXCEPT !.edits = @ - 1]
      /\ hookProc' = [p \in hkplan.procs |-> IF At(p, "idle") THEN Resting
                                            ELSE [hookProc[p] EXCEPT !.edited = (@ \/ At(p, "rename"))]]
  BY DEF EditHookFile
<1>2. hookFaults = [x \in {"edits", "stops"} |-> hookFaults[x]] /\ hookFaults.edits \in Nat /\ IsFile(hookFile)
  BY DEF HookInv
<1>3. /\ hookFaults' = [x \in {"edits", "stops"} |-> hookFaults'[x]]
      /\ hookFaults'.edits \in Nat /\ hookFaults'.edits # hookFaults.edits
  <2>1. /\ hookFaults' = [x \in {"edits", "stops"} |-> hookFaults'[x]]
        /\ hookFaults'.edits = hookFaults.edits - 1
    BY <1>1, <1>2
  <2> QED BY <1>1, <1>2, <2>1
<1>4. IsFile(hookFile')
  BY <1>1, <1>2, EditsAreFiles
<1>5. ASSUME NEW p \in hkplan.procs
      PROVE  hookProc'[p].at = hookProc[p].at /\ Reconciler(hookProc'[p], hookFile', hkplan.cmds)
  <2> DEFINE r == hookProc[p]
             t == [r EXCEPT !.edited = (r.edited \/ r.at = "rename")]
  <2>1. CASE r.at = "idle"
    <3>1. r = Resting /\ hookProc'[p] = Resting
      BY <1>1, <2>1 DEF HookInv, Reconciler, At, Locked
    <3> QED BY <3>1, CommandRests
  <2>2. CASE r.at # "idle"
    <3>1. hookProc'[p] = t
      BY <1>1, <2>2 DEF At
    <3>2. /\ r = [x \in ReconcilerFields |-> r[x]] /\ r.cmd \in hkplan.cmds /\ BodyOK(r, hookFile)
          /\ r.at \in {"waiting"} \cup Locked
      BY <2>2 DEF HookInv, Reconciler, Resting
    <3>3. /\ t = [x \in ReconcilerFields |-> t[x]] /\ t.at = r.at /\ t.cmd = r.cmd
          /\ t.seen = r.seen /\ t.body = r.body /\ (r.at = "rename" => t.edited)
      BY <3>2 DEF ReconcilerFields
    <3> HIDE DEF t
    <3> QED BY <3>1, <3>2, <3>3 DEF Reconciler, BodyOK
  <2> QED BY <2>1, <2>2
<1>6. hookProc' = [p \in hkplan.procs |-> hookProc'[p]]
  BY <1>1
<1> QED BY <1>1, <1>3, <1>4, <1>5, <1>6 DEF HookInv

LEMMA HookInvNext ==
  ASSUME HookInv, [HookNext]_hookVars
  PROVE  HookInv'
<1>1. CASE UNCHANGED hookVars
  BY <1>1 DEF HookInv, hookVars
<1>2. CASE DeleteStaleLock
  <2>1. UNCHANGED <<hkplan, hookFile, hookProc, hookFaults>> /\ \A p \in hkplan.procs : hookProc[p].at = "idle"
    BY <1>2 DEF DeleteStaleLock, At
  <2> QED BY <2>1 DEF HookInv, Locked
<1>3. ASSUME NEW p \in hkplan.procs, HookStep(p) PROVE HookInv'
  BY <1>3, CommandInv, CompleteInv, CompareInv, PublishInv DEF HookStep
<1>4. ASSUME NEW f \in HookEdits(hookFile), EditHookFile(f) PROVE HookInv'
  BY <1>4, EditInv
<1> QED BY <1>1, <1>2, <1>3, <1>4 DEF HookNext

\* At most one command is past the lock, and what it is about to rename into place has
\* the user's entries of the file as it compared it, until somebody edits that.
THEOREM HookInvHolds == HookSpec => []HookInv
<1>1. HookInit => HookInv
  <2> SUFFICES ASSUME HookInit PROVE HookInv
    OBVIOUS
  <2>1. /\ hkplan \in HookPlans /\ IsFile(hookFile)
        /\ hookFaults = [edits |-> hkplan.edits, stops |-> hkplan.stops] /\ hkplan.edits \in Nat
        /\ hookProc = [p \in hkplan.procs |-> Resting]
    BY HookPlansAssumption DEF HookInit
  <2>2. hookFaults = [x \in {"edits", "stops"} |-> hookFaults[x]] /\ hookFaults.edits \in Nat
    BY <2>1
  <2> QED BY <2>1, <2>2, CommandRests DEF HookInv
<1>2. HookInv /\ [HookNext]_hookVars => HookInv'
  BY HookInvNext
<1> QED BY <1>1, <1>2, PTL DEF HookSpec

\* No reconcile loses, changes or reorders an entry that is not Loaf's, however many run,
\* stop and leave their lock behind, unless the entry was written between the comparison
\* and the rename (hook_reconcile.go).
THEOREM ForeignHooksStayHolds == HookSpec => ForeignHooksStay
<1> DEFINE A == hookFaults'.edits = hookFaults.edits =>
                  \/ UserEntries(hookFile') = UserEntries(hookFile)
                  \/ \E p \in hkplan.procs : At(p, "rename") /\ hookProc[p].edited
<1>1. HookInv /\ [HookNext]_hookVars => [A]_hookVars
  <2> SUFFICES ASSUME HookInv, HookNext PROVE A
    BY DEF hookVars
  <2>1. ASSUME NEW p \in hkplan.procs, HookStep(p) PROVE A
    <3>1. CASE hookFile' = hookFile
      BY <3>1
    <3>2. CASE PublishHookFile(p)
      <4>1. hookProc[p].at = "rename" /\ hookFile' = hookProc[p].body
        BY <3>2 DEF PublishHookFile, At
      <4>2. BodyOK(hookProc[p], hookFile)
        <5>1. Reconciler(hookProc[p], hookFile, hkplan.cmds)
          BY <2>1 DEF HookInv
        <5>2. hookProc[p] # Resting
          BY <4>1 DEF Resting
        <5> QED BY <5>1, <5>2 DEF Reconciler
      <4>3. CASE hookProc[p].edited
        BY <4>1, <4>3 DEF At
      <4>4. CASE ~ hookProc[p].edited
        BY <4>1, <4>2, <4>4 DEF BodyOK
      <4> QED BY <4>3, <4>4
    <3> QED BY <2>1, <3>1, <3>2
        DEF HookStep, NewHookReconciler, AcquireHookFileLock, RecordTrustedExecutable, RecordAbsorption,
            AbsorbAndMarkHooks, WriteManifest, SetHookEnablement, Complete, EnsureHookFileUnchanged, Verify,
            HookProcessStops
  <2>2. CASE DeleteStaleLock
    BY <2>2 DEF DeleteStaleLock
  <2>3. ASSUME NEW f \in HookEdits(hookFile), EditHookFile(f) PROVE A
    BY <2>3, EditInv
  <2> QED BY <2>1, <2>2, <2>3 DEF HookNext
<1> QED BY <1>1, HookInvHolds, PTL DEF HookSpec, ForeignHooksStay

----------------------------------------------------------------------------
(* The hooks that run are the hooks the user wants. *)

\* An entry that stands for a hook of a catalog, whoever wrote it.
StandsFor(e, h) == e.kind \in {"hook", "managed"} /\ e.hook = h

\* An entry of an executable on record, or of none, and not of a hook taken out.
EntryFits(e, known, gone) ==
  /\ DOMAIN e = {"kind", "hook", "exe", "text"}
  /\ e.kind = "hook" => e.exe \in known
  /\ e.kind \in {"hook", "managed"} => e.hook \notin gone

FileFits(f, known, gone) == \A i \in DOMAIN f : EntryFits(f[i], known, gone)

\* Every enabled hook has its entry and no other, and a disabled one has none.
Tidy(f, r, copy) ==
  /\ NoHook \notin Catalog(copy.ver).hooks
  /\ \A h \in Catalog(copy.ver).hooks :
       IF Enabled(r, h)
       THEN \E i \in DOMAIN f : /\ f[i] = DesiredEntry(copy.ver, h, copy.exe)
                                /\ \A j \in DOMAIN f : StandsFor(f[j], h) => j = i
       ELSE \A j \in DOMAIN f : ~ StandsFor(f[j], h)

\* What a command relies on: from the lock on its executable is on record, from the
\* records on they are absorbed, and until then the manifest is the installed one and
\* it is about to disable all that was taken out.
ReliesOn(r, plan, known, gone, mark) ==
  /\ r.at \in Locked \ {"trust"} => r.cmd.exe \in known \cup {NoPath}
  /\ r.at \in Locked \ {"trust", "absorb", "mark"} => mark # NoMark
  /\ r.at \in {"compare", "rename"} => FileFits(r.body, known, gone)
  /\ r.at # "idle" /\ mark = NoMark => r.prior = plan.manifest
  /\ r.at = "mark" /\ mark = NoMark => gone \subseteq r.absorb.disable

\* Before the records are absorbed nothing is recorded, installed or settled; after it
\* what was taken out is disabled.
MarkOK == absorption = NoMark => DOMAIN enablement = {} /\ settled = Unsettled /\ hookManifest = hkplan.manifest
GoneOK == absorption # NoMark => \A h \in declined : h \in DOMAIN enablement /\ enablement[h] = "disabled"
SettledOK == settled # Unsettled => Tidy(hookFile, Records, settled)

FollowInv ==
  /\ FileFits(hookFile, trustedPaths.known, declined)
  /\ hkplan.trusted.known \subseteq trustedPaths.known /\ declined \subseteq hkplan.declined
  /\ \A p \in hkplan.procs : ReliesOn(hookProc[p], hkplan, trustedPaths.known, declined, absorption)
  /\ MarkOK /\ GoneOK /\ SettledOK

LEMMA SoManyPlaces ==
  ASSUME NEW k \in Nat
  PROVE  IsFiniteSet(1 .. k) /\ Cardinality(1 .. k) = k
<1>1. 1 \in Int /\ k \in Int
  OBVIOUS
<1> QED BY <1>1, FS_Interval

\* A list of the numbers up to one, in order, is theirs.
LEMMA CountsItself ==
  ASSUME NEW k \in Nat, NEW L, Ascends(L, 1 .. k)
  PROVE  \A n \in 1 .. k : L[n] = n
<1> DEFINE M == [n \in 1 .. k |-> n]
<1>1. Cardinality(1 .. k) = k
  BY SoManyPlaces
<1>2. DOMAIN M = 1 .. k /\ \A n \in 1 .. k : M[n] = n
  OBVIOUS
<1> HIDE DEF M
<1>3. Ascends(M, 1 .. k)
  BY <1>1, <1>2 DEF Ascends
<1>4. \A i \in 1 .. Cardinality(1 .. k) : L[i] = M[i]
  <2>1. 1 .. k \in SUBSET Nat
    OBVIOUS
  <2> QED BY <1>3, <2>1, OneAscends
<1> QED BY <1>1, <1>2, <1>4

\* An entry of a catalog's form and of an executable on record is Loaf's.
LEMMA OwnOnRecord ==
  ASSUME NEW e, NEW h, StandsFor(e, h), NEW c, h \in Catalog(c.ver).hooks, NEW known, NEW gone, EntryFits(e, known, gone),
         NEW trusted, known \subseteq trusted
  PROVE  OwnsEntry(e, c, trusted) /\ ResolveHookID(e, c) = h
BY DEF StandsFor, EntryFits, OwnsEntry, MatchesExecutable, ReferencesManagedPath, ResolveHookID

\* What Loaf owns and takes for a hook stands for it.
LEMMA OwnStands ==
  ASSUME NEW e, NEW h, h # NoHook, NEW c, ResolveHookID(e, c) = h
  PROVE  StandsFor(e, h) /\ h \in Catalog(c.ver).hooks
BY DEF StandsFor, ResolveHookID

\* A file that a projection leaves as it is has every wanted hook once and no other.
LEMMA ProjectionTidies ==
  ASSUME NEW f, IsFile(f), NEW known, NEW gone, FileFits(f, known, gone), NEW c, NEW trusted, known \subseteq trusted,
         IsFiniteSet(Catalog(c.ver).hooks), Catalog(c.ver).hooks \subseteq Nat \ {NoHook},
         NEW pairing, Pairs(f, c, trusted, pairing), NEW r, ProjectEvent(f, pairing, r, {}, c) = f
  PROVE  Tidy(f, r, Copy(c))
<1> DEFINE hooks == Catalog(c.ver).hooks
           wanted == Wanted(r, {}, c)
           left == Left(f, pairing, wanted)
           missing == Missing(pairing, wanted)
<1>1. PICK k, l : Built(f, f, pairing, wanted, c, k, l)
  BY ProjectionBuilt
<1>2. /\ k \in Nat /\ l \in Nat /\ DOMAIN f = 1 .. k + l
      /\ k = Cardinality(left) /\ Ascends(InOrder(left), left)
      /\ l = Cardinality(missing) /\ Ascends(InOrder(missing), missing)
      /\ \A n \in 1 .. k : f[n] = Standing(f, pairing, wanted, c, InOrder(left)[n])
      /\ \A n \in 1 .. l : f[k + n] = DesiredEntry(c.ver, InOrder(missing)[n], c.exe)
  BY <1>1 DEF Built
<1>3. wanted \subseteq hooks /\ missing \subseteq wanted \ DOMAIN pairing.paired /\ left \subseteq DOMAIN f
  BY DEF Wanted, Missing, Left
<1> HIDE DEF left, missing, wanted
<1>4. l = 0
  <2> SUFFICES ASSUME l # 0 PROVE FALSE
    OBVIOUS
  <2> DEFINE h == InOrder(missing)[l]
  <2>1. l \in 1 .. l /\ k + l \in DOMAIN f
    BY <1>2
  <2>2. h \in missing
    BY <1>2, <2>1 DEF Ascends
  <2>3. f[k + l] = DesiredEntry(c.ver, h, c.exe)
    BY <1>2, <2>1
  <2> HIDE DEF h
  <2>4. StandsFor(f[k + l], h)
    BY <2>3 DEF DesiredEntry, StandsFor
  <2>5. EntryFits(f[k + l], known, gone)
    BY <2>1 DEF FileFits
  <2>6. h \in hooks /\ h # NoHook
    BY <1>3, <2>2
  <2>7. OwnsEntry(f[k + l], c, trusted) /\ ResolveHookID(f[k + l], c) = h
    BY <2>4, <2>5, <2>6, OwnOnRecord
  <2>8. h \in DOMAIN pairing.paired
    BY <2>1, <2>6, <2>7 DEF Pairs
  <2> QED BY <1>3, <2>2, <2>8
<1>5. missing = {}
  <2>1. \A x \in missing : \E i \in 1 .. Cardinality(missing) : InOrder(missing)[i] = x
    BY <1>2 DEF Ascends
  <2>2. 1 .. Cardinality(missing) = {}
    BY <1>2, <1>4
  <2> QED BY <2>1, <2>2
<1>6. DOMAIN f = 1 .. k
  BY <1>2, <1>4
<1>7. left = DOMAIN f
  <2>0. k \in Nat
    BY <1>2
  <2>1. IsFiniteSet(1 .. k) /\ Cardinality(1 .. k) = k
    BY <2>0, SoManyPlaces
  <2>2. left \in SUBSET (1 .. k)
    BY <1>3, <1>6
  <2> QED BY <1>2, <1>6, <2>1, <2>2, FS_Subset
<1>8. \A n \in 1 .. k : f[n] = Standing(f, pairing, wanted, c, n)
  <2>1. \A n \in 1 .. k : InOrder(left)[n] = n
    BY <1>2, <1>6, <1>7, CountsItself
  <2> QED BY <1>2, <2>1
<1>9. /\ pairing.duplicates \cap DOMAIN f = {}
      /\ \A h \in DOMAIN pairing.paired : pairing.paired[h] \in DOMAIN f => h \in wanted
  BY <1>7 DEF left, Left
<1>10. ASSUME NEW h \in hooks, NEW i \in DOMAIN f, StandsFor(f[i], h)
       PROVE  h \in wanted /\ h \in DOMAIN pairing.paired /\ i = pairing.paired[h]
  <2>1. EntryFits(f[i], known, gone) /\ h # NoHook
    BY DEF FileFits
  <2>2. OwnsEntry(f[i], c, trusted) /\ ResolveHookID(f[i], c) = h
    BY <1>10, <2>1, OwnOnRecord
  <2>3. h \in DOMAIN pairing.paired /\ (i = pairing.paired[h] \/ i \in pairing.duplicates)
    BY <2>1, <2>2 DEF Pairs
  <2> QED BY <1>9, <2>3
<1>11. ASSUME NEW h \in hooks, Enabled(r, h)
       PROVE  \E i \in DOMAIN f : f[i] = DesiredEntry(c.ver, h, c.exe) /\ \A j \in DOMAIN f : StandsFor(f[j], h) => j = i
  <2>1. h \in wanted
    BY <1>11 DEF wanted, Wanted
  <2>2. h \in DOMAIN pairing.paired
    BY <1>5, <2>1 DEF missing, Missing
  <2> DEFINE i == pairing.paired[h]
  <2>3. i \in DOMAIN f /\ ResolveHookID(f[i], c) = h
    BY <2>2 DEF Pairs
  <2>4. Standing(f, pairing, wanted, c, i) = DesiredEntry(c.ver, h, c.exe)
    BY <2>1, <2>2, <2>3 DEF Standing
  <2>5. f[i] = DesiredEntry(c.ver, h, c.exe)
    BY <1>6, <1>8, <2>3, <2>4
  <2>6. \A j \in DOMAIN f : StandsFor(f[j], h) => j = i
    BY <1>10
  <2> HIDE DEF i
  <2> QED BY <2>3, <2>5, <2>6
<1>12. ASSUME NEW h \in hooks, ~ Enabled(r, h), NEW j \in DOMAIN f, StandsFor(f[j], h) PROVE FALSE
  <2>1. h \in wanted
    BY <1>10, <1>12
  <2> QED BY <1>12, <2>1 DEF wanted, Wanted
<1>13. Copy(c).ver = c.ver /\ Copy(c).exe = c.exe /\ NoHook \notin hooks
  BY DEF Copy
<1> QED BY <1>11, <1>12, <1>13 DEF Tidy

\* A projection writes only entries of the executable it is given, for hooks it wants.
LEMMA ProjectionFits ==
  ASSUME NEW f, IsFile(f), NEW known, NEW gone, FileFits(f, known, gone), NEW c, NEW trusted,
         IsFiniteSet(Catalog(c.ver).hooks), Catalog(c.ver).hooks \subseteq Nat \ {NoHook},
         NEW pairing, Pairs(f, c, trusted, pairing), NEW r, NEW disabled,
         \A h \in Catalog(c.ver).hooks : Enabled(r, h) => h \notin gone /\ c.exe \in known
  PROVE  FileFits(ProjectEvent(f, pairing, r, disabled, c), known, gone)
<1> DEFINE wanted == Wanted(r, disabled, c)
           left == Left(f, pairing, wanted)
           missing == Missing(pairing, wanted)
           g == ProjectEvent(f, pairing, r, disabled, c)
<1>1. PICK k, l : Built(g, f, pairing, wanted, c, k, l)
  BY ProjectionBuilt
<1>2. \A h \in wanted : h \notin gone /\ c.exe \in known
  BY DEF Wanted
<1>3. missing \subseteq wanted /\ left \subseteq DOMAIN f
  BY DEF Missing, Left
<1> HIDE DEF wanted, left, missing, g
<1>4. ASSUME NEW h \in wanted PROVE EntryFits(DesiredEntry(c.ver, h, c.exe), known, gone)
  <2> DEFINE e == DesiredEntry(c.ver, h, c.exe)
  <2>1. DOMAIN e = {"kind", "hook", "exe", "text"} /\ e.hook = h /\ e.exe = c.exe
    BY DEF DesiredEntry
  <2> HIDE DEF e
  <2>2. EntryFits(e, known, gone)
    BY <1>2, <2>1 DEF EntryFits
  <2> QED BY <2>2 DEF e
<1>5. ASSUME NEW i \in left PROVE EntryFits(Standing(f, pairing, wanted, c, i), known, gone)
  <2>1. CASE \E h \in wanted \cap DOMAIN pairing.paired : pairing.paired[h] = i
    <3>1. PICK h \in wanted \cap DOMAIN pairing.paired : pairing.paired[h] = i
      BY <2>1
    <3>2. ResolveHookID(f[i], c) = h
      BY <3>1 DEF Pairs
    <3>3. Standing(f, pairing, wanted, c, i) = DesiredEntry(c.ver, h, c.exe)
      BY <2>1, <3>2 DEF Standing
    <3> QED BY <1>4, <3>3
  <2>2. CASE ~ \E h \in wanted \cap DOMAIN pairing.paired : pairing.paired[h] = i
    <3>1. Standing(f, pairing, wanted, c, i) = f[i]
      BY <2>2 DEF Standing
    <3> QED BY <1>3, <3>1 DEF FileFits
  <2> QED BY <2>1, <2>2
<1>6. ASSUME NEW n \in DOMAIN g PROVE EntryFits(g[n], known, gone)
  <2>1. /\ k \in Nat /\ l \in Nat /\ DOMAIN g = 1 .. k + l
        /\ k = Cardinality(left) /\ Ascends(InOrder(left), left)
        /\ l = Cardinality(missing) /\ Ascends(InOrder(missing), missing)
        /\ \A m \in 1 .. k : g[m] = Standing(f, pairing, wanted, c, InOrder(left)[m])
        /\ \A m \in 1 .. l : g[k + m] = DesiredEntry(c.ver, InOrder(missing)[m], c.exe)
    BY <1>1 DEF Built, left, missing
  <2>2. CASE n \in 1 .. k
    <3>1. InOrder(left)[n] \in left
      BY <2>1, <2>2 DEF Ascends
    <3> QED BY <1>5, <2>1, <2>2, <3>1
  <2>3. CASE n \notin 1 .. k
    <3>1. n - k \in 1 .. l /\ k + (n - k) = n
      BY <2>1, <2>3
    <3>2. InOrder(missing)[n - k] \in missing
      BY <2>1, <3>1 DEF Ascends
    <3>3. g[n] = DesiredEntry(c.ver, InOrder(missing)[n - k], c.exe)
      BY <2>1, <3>1
    <3> QED BY <1>3, <1>4, <3>2, <3>3
  <2> QED BY <2>2, <2>3
<1> QED BY <1>6 DEF FileFits, g

\* What was fitting stays so when more is on record and less is taken out.
Grows ==
  /\ hkplan' = hkplan
  /\ trustedPaths.known \subseteq trustedPaths'.known
  /\ declined' \subseteq declined
  /\ absorption' = NoMark => absorption = NoMark

LEMMA FitsOn ==
  ASSUME NEW f, NEW known, NEW gone, FileFits(f, known, gone), NEW k, NEW g, known \subseteq k, g \subseteq gone
  PROVE  FileFits(f, k, g)
BY DEF FileFits, EntryFits

LEMMA ReliesOnStill ==
  ASSUME NEW r, NEW plan, NEW known, NEW gone, NEW mark, ReliesOn(r, plan, known, gone, mark),
         NEW k, NEW g, NEW m, known \subseteq k, g \subseteq gone, m = NoMark => mark = NoMark
  PROVE  ReliesOn(r, plan, k, g, m)
<1>1. r.at \in {"compare", "rename"} => FileFits(r.body, k, g)
  BY FitsOn DEF ReliesOn
<1> QED BY <1>1 DEF ReliesOn

\* One command goes on and the rest rely on what they did.
LEMMA OneFollows ==
  ASSUME HookInv, FollowInv, NEW p \in hkplan.procs, NEW t, Puts(p, t), Grows,
         FileFits(hookFile', trustedPaths'.known, declined'), MarkOK', GoneOK', SettledOK',
         ReliesOn(t, hkplan, trustedPaths'.known, declined', absorption')
  PROVE  FollowInv'
<1>1. /\ hookProc'[p] = t
      /\ \A q \in hkplan.procs \ {p} : hookProc'[q] = hookProc[q]
  BY DEF HookInv, Puts
<1>2. ASSUME NEW q \in hkplan.procs
      PROVE  ReliesOn(hookProc'[q], hkplan', trustedPaths'.known, declined', absorption')
  <2>1. CASE q = p
    BY <1>1, <2>1 DEF Grows
  <2>2. CASE q # p
    <3>1. ReliesOn(hookProc[q], hkplan, trustedPaths.known, declined, absorption)
      BY DEF FollowInv
    <3> QED BY <1>1, <2>2, <3>1, ReliesOnStill DEF Grows
  <2> QED BY <2>1, <2>2
<1>3. hkplan'.procs = hkplan.procs /\ hkplan'.trusted.known \subseteq trustedPaths'.known /\ declined' \subseteq hkplan'.declined
  BY DEF Grows, FollowInv
<1> QED BY <1>2, <1>3 DEF FollowInv

LEMMA CommandRelies ==
  ASSUME HookInv, FollowInv, NEW p \in hkplan.procs, hookProc[p].at # "idle"
  PROVE  /\ hookProc[p] = [x \in ReconcilerFields |-> hookProc[p][x]]
         /\ hookProc[p].cmd \in hkplan.cmds
         /\ ReliesOn(hookProc[p], hkplan, trustedPaths.known, declined, absorption)
BY DEF HookInv, FollowInv, Reconciler, Resting

LEMMA MovesOn ==
  ASSUME NEW r, r = [x \in ReconcilerFields |-> r[x]], NEW where, NEW t, t = [r EXCEPT !.at = where]
  PROVE  /\ t.at = where /\ t.cmd = r.cmd /\ t.prior = r.prior /\ t.absorb = r.absorb /\ t.body = r.body
BY DEF ReconcilerFields

LEMMA RestRelies ==
  ASSUME NEW plan, NEW known, NEW gone, NEW mark
  PROVE  ReliesOn(Resting, plan, known, gone, mark)
BY DEF ReliesOn, Resting, Locked

LEMMA TidyStays ==
  ASSUME NEW x, UNCHANGED <<hkplan, hookFile, enablement>>, Tidy(hookFile, Records, x), settled' = x
  PROVE  Tidy(hookFile, Records, settled)'
BY DEF Tidy, Records, Enabled, DesiredEntry, Catalog, StandsFor

\* Nothing the properties are about has changed.
Calm == UNCHANGED <<hkplan, hookFile, enablement, absorption, trustedPaths, hookManifest, settled, declined>>

LEMMA CalmKeeps ==
  ASSUME FollowInv, Calm
  PROVE  /\ Grows /\ FileFits(hookFile', trustedPaths'.known, declined') /\ MarkOK' /\ GoneOK' /\ SettledOK'
<1>1. Grows /\ FileFits(hookFile', trustedPaths'.known, declined') /\ MarkOK' /\ GoneOK'
  BY DEF FollowInv, Calm, Grows, MarkOK, GoneOK
<1>2. SettledOK'
  <2> SUFFICES ASSUME settled' # Unsettled PROVE Tidy(hookFile, Records, settled)'
    BY DEF SettledOK, Unsettled
  <2>1. PICK x : x = settled
    OBVIOUS
  <2>2. Tidy(hookFile, Records, x) /\ settled' = x
    BY <2>1 DEF FollowInv, SettledOK, Calm
  <2> QED BY <2>2, TidyStays DEF Calm
<1> QED BY <1>1, <1>2

\* The steps that read, take the lock or give up.
LEMMA CalmSteps ==
  ASSUME HookInv, FollowInv, NEW p \in hkplan.procs,
         \/ \E c \in hkplan.cmds : NewHookReconciler(p, c)
         \/ AcquireHookFileLock(p) \/ EnsureHookFileUnchanged(p) \/ HookProcessStops(p)
  PROVE  FollowInv'
<1> DEFINE r == hookProc[p]
<1>1. Calm
  BY DEF Calm, NewHookReconciler, AcquireHookFileLock, EnsureHookFileUnchanged, HookProcessStops, recordVars
<1>2. ASSUME NEW t, Puts(p, t), ReliesOn(t, hkplan, trustedPaths.known, declined, absorption) PROVE FollowInv'
  <2>1. ReliesOn(t, hkplan, trustedPaths'.known, declined', absorption')
    BY <1>1, <1>2 DEF Calm
  <2> QED BY <1>1, <1>2, <2>1, CalmKeeps, OneFollows
<1>3. ASSUME Rest(p) PROVE FollowInv'
  <2>1. Puts(p, Resting)
    BY <1>3 DEF Rest, Puts
  <2> QED BY <1>2, <2>1, RestRelies
<1>4. ASSUME NEW c \in hkplan.cmds, NewHookReconciler(p, c) PROVE FollowInv'
  <2> DEFINE t == [at |-> "waiting", cmd |-> c, prior |-> hookManifest, begun |-> Records,
                   absorb |-> [marks |-> FALSE, from |-> 0, disable |-> {}],
                   seen |-> <<>>, body |-> <<>>, foreign |-> <<>>, edited |-> FALSE]
  <2>1. Puts(p, t)
    BY <1>4 DEF NewHookReconciler, Puts
  <2>2. t.at = "waiting" /\ t.prior = hookManifest
    OBVIOUS
  <2> HIDE DEF t
  <2>3. ReliesOn(t, hkplan, trustedPaths.known, declined, absorption)
    BY <2>2 DEF ReliesOn, Locked, FollowInv, MarkOK
  <2> QED BY <1>2, <2>1, <2>3
<1>5. ASSUME AcquireHookFileLock(p) PROVE FollowInv'
  <2>1. CASE hookLock
    BY <1>3, <1>5, <2>1 DEF AcquireHookFileLock
  <2>2. CASE ~ hookLock
    <3> DEFINE t == [r EXCEPT !.at = "trust"]
    <3>1. Puts(p, t) /\ r.at = "waiting"
      BY <1>5, <2>2 DEF AcquireHookFileLock, Move, Puts, At
    <3>2. r = [x \in ReconcilerFields |-> r[x]] /\ ReliesOn(r, hkplan, trustedPaths.known, declined, absorption)
      BY <3>1, CommandRelies
    <3>3. t.at = "trust" /\ t.prior = r.prior
      BY <3>2, MovesOn
    <3> HIDE DEF t
    <3>4. ReliesOn(t, hkplan, trustedPaths.known, declined, absorption)
      BY <3>1, <3>2, <3>3 DEF ReliesOn, Locked
    <3> QED BY <1>2, <3>1, <3>4
  <2> QED BY <2>1, <2>2
<1>6. ASSUME EnsureHookFileUnchanged(p) PROVE FollowInv'
  <2>1. CASE hookFile # r.seen
    BY <1>3, <1>6, <2>1 DEF EnsureHookFileUnchanged, ReleaseHookFileLock
  <2>2. CASE hookFile = r.seen
    <3> DEFINE t == [r EXCEPT !.at = "rename", !.edited = FALSE]
    <3>1. Puts(p, t) /\ r.at = "compare"
      BY <1>6, <2>2 DEF EnsureHookFileUnchanged, Puts, At
    <3>2. r = [x \in ReconcilerFields |-> r[x]] /\ ReliesOn(r, hkplan, trustedPaths.known, declined, absorption)
      BY <3>1, CommandRelies
    <3>3. t.at = "rename" /\ t.cmd = r.cmd /\ t.prior = r.prior /\ t.body = r.body
      BY <3>2 DEF ReconcilerFields
    <3> HIDE DEF t
    <3>4. ReliesOn(t, hkplan, trustedPaths.known, declined, absorption)
      BY <3>1, <3>2, <3>3 DEF ReliesOn, Locked
    <3> QED BY <1>2, <3>1, <3>4
  <2> QED BY <2>1, <2>2
<1> QED BY <1>3, <1>4, <1>5, <1>6 DEF HookProcessStops

\* A path on record stays there, and the command's own is put there.
LEMMA TrustFollows ==
  ASSUME HookInv, FollowInv, NEW p \in hkplan.procs, RecordTrustedExecutable(p)
  PROVE  FollowInv'
<1> DEFINE r == hookProc[p]
           t == [r EXCEPT !.at = "absorb"]
<1>1. /\ Puts(p, t) /\ r.at = "trust"
      /\ UNCHANGED <<hkplan, hookFile, enablement, absorption, hookManifest, hookLock, settled, declined, hookFaults>>
  BY DEF RecordTrustedExecutable, Move, Puts, At
<1>2. /\ trustedPaths.known \subseteq trustedPaths'.known
      /\ r.cmd.exe \in trustedPaths'.known \cup {NoPath}
  BY DEF RecordTrustedExecutable
<1>3. Grows /\ MarkOK' /\ GoneOK'
  BY <1>1, <1>2 DEF Grows, FollowInv, MarkOK, GoneOK
<1>4. FileFits(hookFile', trustedPaths'.known, declined')
  <2>1. FileFits(hookFile, trustedPaths.known, declined)
    BY DEF FollowInv
  <2> QED BY <1>1, <1>2, <2>1, FitsOn
<1>5. SettledOK'
  <2> SUFFICES ASSUME settled' # Unsettled PROVE Tidy(hookFile, Records, settled)'
    BY DEF SettledOK, Unsettled
  <2>1. PICK x : x = settled
    OBVIOUS
  <2>2. Tidy(hookFile, Records, x) /\ settled' = x
    BY <1>1, <2>1 DEF FollowInv, SettledOK
  <2> QED BY <1>1, <2>2, TidyStays
<1>6. r = [x \in ReconcilerFields |-> r[x]] /\ ReliesOn(r, hkplan, trustedPaths.known, declined, absorption)
  BY <1>1, CommandRelies
<1>7. t.at = "absorb" /\ t.cmd = r.cmd /\ t.prior = r.prior
  BY <1>6, MovesOn
<1> HIDE DEF t
<1>8. ReliesOn(t, hkplan, trustedPaths'.known, declined', absorption')
  BY <1>1, <1>2, <1>6, <1>7 DEF ReliesOn
<1> QED BY <1>1, <1>3, <1>4, <1>5, <1>8, OneFollows

\* The installation a manifest tells of is absorbed with all that was taken out.
LEMMA AbsorbsAllGone ==
  ASSUME HookInv, FollowInv, NEW c \in hkplan.cmds, NEW prior, prior = hkplan.manifest, absorption = NoMark
  PROVE  declined \subseteq ComputeProjection(hookFile, Records, c, prior).absorb.disable
<1> DEFINE trusted == Recognition(Records, c)
           pairing == PairHookEntries(hookFile, c, trusted)
           absorbs == PlanAbsorption(Records, pairing, hookFile, c, prior)
           g == ProjectEvent(hookFile, pairing, Records, absorbs.disable, c)
<1>1. ComputeProjection(hookFile, Records, c, prior).absorb = absorbs
  <2>1. ComputeProjection(hookFile, Records, c, prior)
          = [absorb |-> absorbs, body |-> g, foreign |-> EntriesAt(hookFile, pairing.foreign)]
    BY Zenon DEF ComputeProjection
  <2> HIDE DEF g, absorbs, pairing
  <2> QED BY <2>1
<1>2. Pairs(hookFile, c, trusted, pairing)
  <2>1. IsFile(hookFile)
    BY DEF HookInv
  <2> QED BY <2>1, FileIsFinite, PairingPairs
<1> HIDE DEF pairing, trusted
<1>3. SUFFICES ASSUME NEW h \in declined PROVE h \in absorbs.disable
  BY <1>1
<1>4. /\ prior.row
      /\ h \in Cohort(Catalog(c.ver), prior) \cap Catalog(c.ver).hooks
  <2>1. h \in hkplan.declined /\ hkplan \in HookPlans
    BY DEF FollowInv, HookInv
  <2> QED BY <2>1, DeclinedAssumption DEF Catalog
<1>5. h \notin DOMAIN pairing.paired
  <2> SUFFICES ASSUME h \in DOMAIN pairing.paired PROVE FALSE
    OBVIOUS
  <2> DEFINE i == pairing.paired[h]
  <2>1. h # NoHook /\ i \in DOMAIN hookFile /\ ResolveHookID(hookFile[i], c) = h
    BY <1>2 DEF Pairs
  <2>2. StandsFor(hookFile[i], h)
    BY <2>1, OwnStands
  <2>3. EntryFits(hookFile[i], trustedPaths.known, declined)
    BY <2>1 DEF FollowInv, FileFits
  <2> HIDE DEF i
  <2> QED BY <2>2, <2>3 DEF StandsFor, EntryFits
<1>6. ~ Recorded(Records, h) /\ ~ Records.absorbed
  BY DEF FollowInv, MarkOK, Recorded, Records
<1>7. absorbs.disable = {x \in Cohort(Catalog(c.ver), prior) \cap Catalog(c.ver).hooks :
                           ~Recorded(Records, x) /\ x \notin DOMAIN pairing.paired}
  <2> DEFINE installed == prior.row \/ Cardinality(DOMAIN hookFile) > Cardinality(pairing.foreign)
             D == IF Records.absorbed \/ ~installed THEN {}
                  ELSE {x \in Cohort(Catalog(c.ver), prior) \cap Catalog(c.ver).hooks :
                          ~Recorded(Records, x) /\ x \notin DOMAIN pairing.paired}
  <2>1. absorbs = [marks |-> ~Records.absorbed, from |-> AbsorptionVersion(c, prior, installed), disable |-> D]
    BY Zenon DEF PlanAbsorption
  <2>2. absorbs.disable = D
    <3> HIDE DEF D, installed, absorbs
    <3> QED BY <2>1
  <2>3. installed
    BY <1>4
  <2> HIDE DEF absorbs, installed
  <2> QED BY <1>6, <2>2, <2>3
<1> HIDE DEF absorbs
<1> QED BY <1>4, <1>5, <1>6, <1>7

\* recordAbsorption plans; without a mark it is to mark, and else to work.
LEMMA PlanFollows ==
  ASSUME HookInv, FollowInv, NEW p \in hkplan.procs, RecordAbsorption(p)
  PROVE  FollowInv'
<1> DEFINE r == hookProc[p]
           made == ComputeProjection(hookFile, Records, r.cmd, r.prior)
<1>1. r.at = "absorb"
  BY Zenon DEF RecordAbsorption, At
<1>2. /\ r = [x \in ReconcilerFields |-> r[x]] /\ r.cmd \in hkplan.cmds
      /\ ReliesOn(r, hkplan, trustedPaths.known, declined, absorption)
  BY <1>1, CommandRelies
<1>3. Calm
  BY Zenon DEF RecordAbsorption, Calm, recordVars
<1>4. ASSUME NEW t, Puts(p, t), ReliesOn(t, hkplan, trustedPaths.known, declined, absorption) PROVE FollowInv'
  <2>1. ReliesOn(t, hkplan, trustedPaths'.known, declined', absorption')
    BY <1>3, <1>4 DEF Calm
  <2> QED BY <1>3, <1>4, <2>1, CalmKeeps, OneFollows
<1>5. CASE CanProject(Records, r.cmd)
  <2> DEFINE absorbs == made.absorb
             where == IF absorbs.marks THEN "mark" ELSE "work"
             u == [r EXCEPT !.absorb = absorbs, !.begun = Records]
             t == [u EXCEPT !.at = where]
  <2>1. hookProc' = [hookProc EXCEPT ![p].at = where, ![p].absorb = absorbs, ![p].begun = Records]
    BY <1>5, Zenon DEF RecordAbsorption
  <2>2. absorbs.marks <=> absorption = NoMark
    <3> DEFINE pairing == PairHookEntries(hookFile, r.cmd, Recognition(Records, r.cmd))
               plan == PlanAbsorption(Records, pairing, hookFile, r.cmd, r.prior)
               g == ProjectEvent(hookFile, pairing, Records, plan.disable, r.cmd)
    <3>1. made = [absorb |-> plan, body |-> g, foreign |-> EntriesAt(hookFile, pairing.foreign)]
      BY Zenon DEF ComputeProjection
    <3>2. plan.marks = ~ Records.absorbed
      BY DEF PlanAbsorption
    <3>3. Records.absorbed = (absorption # NoMark)
      BY DEF Records
    <3> HIDE DEF made, plan, g, pairing
    <3> QED BY <3>1, <3>2, <3>3
  <2>3. absorption = NoMark => declined \subseteq absorbs.disable
    BY <1>1, <1>2, AbsorbsAllGone DEF ReliesOn
  <2> HIDE DEF absorbs, made
  <2>4. /\ t.at = where /\ t.cmd = r.cmd /\ t.prior = r.prior /\ t.absorb = absorbs
    BY <1>2 DEF ReconcilerFields
  <2>5. Puts(p, t)
    BY <1>2, <2>1 DEF Puts, ReconcilerFields
  <2> HIDE DEF t
  <2>6. ReliesOn(t, hkplan, trustedPaths.known, declined, absorption)
    BY <1>1, <1>2, <2>2, <2>3, <2>4 DEF ReliesOn, Locked
  <2> QED BY <1>4, <2>5, <2>6
<1>6. CASE ~ CanProject(Records, r.cmd)
  <2>1. ReleaseHookFileLock(p)
    BY <1>6, Zenon DEF RecordAbsorption
  <2>2. Puts(p, Resting)
    BY <2>1 DEF ReleaseHookFileLock, Rest, Puts
  <2> QED BY <1>4, <2>2, RestRelies
<1> QED BY <1>5, <1>6

\* Marker and disabled hooks are one transaction (AbsorbAndMarkHooks).
LEMMA MarkFollows ==
  ASSUME HookInv, FollowInv, NEW p \in hkplan.procs, AbsorbAndMarkHooks(p)
  PROVE  FollowInv'
<1> DEFINE r == hookProc[p]
           t == [r EXCEPT !.at = "work"]
<1>1. r.at = "mark" /\ UNCHANGED <<hkplan, hookFile, trustedPaths, hookManifest, settled, declined>>
  BY DEF AbsorbAndMarkHooks, At
<1>2. /\ r = [x \in ReconcilerFields |-> r[x]]
      /\ ReliesOn(r, hkplan, trustedPaths.known, declined, absorption)
  BY <1>1, CommandRelies
<1>3. CASE absorption # NoMark
  <2>1. Calm /\ Rest(p)
    BY <1>1, <1>3 DEF AbsorbAndMarkHooks, ReleaseHookFileLock, Calm
  <2>2. Puts(p, Resting)
    BY <2>1 DEF Rest, Puts
  <2> QED BY <2>1, <2>2, CalmKeeps, RestRelies, OneFollows
<1>4. CASE absorption = NoMark
  <2>1. /\ enablement' = Over([h \in r.absorb.disable |-> "disabled"], enablement)
        /\ absorption' = "marked" /\ Puts(p, t)
    BY <1>4 DEF AbsorbAndMarkHooks, Move, Puts
  <2>2. declined \subseteq r.absorb.disable
    BY <1>1, <1>2, <1>4 DEF ReliesOn
  <2>3. \A h \in r.absorb.disable : h \in DOMAIN enablement' /\ enablement'[h] = "disabled"
    BY <2>1 DEF Over
  <2>4. settled' = Unsettled
    BY <1>1, <1>4 DEF FollowInv, MarkOK
  <2>5. Grows /\ MarkOK' /\ GoneOK' /\ SettledOK'
    BY <1>1, <1>4, <2>1, <2>2, <2>3, <2>4 DEF Grows, MarkOK, GoneOK, SettledOK, NoMark, Unsettled, NoPath
  <2>6. FileFits(hookFile', trustedPaths'.known, declined')
    BY <1>1 DEF FollowInv
  <2>7. t.at = "work" /\ t.cmd = r.cmd /\ t.prior = r.prior
    BY <1>2, MovesOn
  <2> HIDE DEF t
  <2>8. ReliesOn(t, hkplan, trustedPaths'.known, declined', absorption')
    BY <1>1, <1>2, <2>1, <2>7 DEF ReliesOn, Locked, NoMark
  <2> QED BY <2>1, <2>5, <2>6, <2>8, OneFollows
<1> QED BY <1>3, <1>4

\* Between begin and complete an install writes its manifest.
LEMMA ManifestFollows ==
  ASSUME HookInv, FollowInv, NEW p \in hkplan.procs, WriteManifest(p)
  PROVE  FollowInv'
<1> DEFINE r == hookProc[p]
           t == [r EXCEPT !.at = "complete"]
<1>1. /\ r.at = "work" /\ Puts(p, t)
      /\ UNCHANGED <<hkplan, hookFile, enablement, absorption, trustedPaths, settled, declined>>
  BY DEF WriteManifest, At, Move, Puts, recordVars
<1>2. /\ r = [x \in ReconcilerFields |-> r[x]]
      /\ ReliesOn(r, hkplan, trustedPaths.known, declined, absorption)
  BY <1>1, CommandRelies
<1>3. absorption # NoMark
  BY <1>1, <1>2 DEF ReliesOn, Locked
<1>4. Grows /\ MarkOK' /\ GoneOK' /\ FileFits(hookFile', trustedPaths'.known, declined')
  BY <1>1, <1>3 DEF FollowInv, Grows, MarkOK, GoneOK
<1>5. SettledOK'
  <2> SUFFICES ASSUME settled' # Unsettled PROVE Tidy(hookFile, Records, settled)'
    BY DEF SettledOK, Unsettled
  <2>1. PICK x : x = settled
    OBVIOUS
  <2>2. Tidy(hookFile, Records, x) /\ settled' = x
    BY <1>1, <2>1 DEF FollowInv, SettledOK
  <2> QED BY <1>1, <2>2, TidyStays
<1>6. t.at = "complete" /\ t.cmd = r.cmd /\ t.prior = r.prior
  BY <1>2, MovesOn
<1> HIDE DEF t
<1>7. ReliesOn(t, hkplan, trustedPaths'.known, declined', absorption')
  BY <1>1, <1>2, <1>3, <1>6 DEF ReliesOn, Locked
<1> QED BY <1>1, <1>4, <1>5, <1>7, OneFollows

\* A hook that is enabled is not one of those taken out any more.
LEMMA ToggleFollows ==
  ASSUME HookInv, FollowInv, NEW p \in hkplan.procs, SetHookEnablement(p)
  PROVE  FollowInv'
<1> DEFINE r == hookProc[p]
           c == hookProc[p].cmd
           t == [r EXCEPT !.at = "complete"]
           put == IF c.op = "enable" THEN "enabled" ELSE "disabled"
<1>1. /\ r.at = "work" /\ Puts(p, t)
      /\ UNCHANGED <<hkplan, hookFile, absorption, trustedPaths, hookManifest>>
  BY DEF SetHookEnablement, At, Move, Puts
<1>2. /\ r = [x \in ReconcilerFields |-> r[x]]
      /\ ReliesOn(r, hkplan, trustedPaths.known, declined, absorption)
  BY <1>1, CommandRelies
<1>3. absorption # NoMark
  BY <1>1, <1>2 DEF ReliesOn, Locked
<1>4. \/ UNCHANGED <<enablement, declined, settled>>
      \/ /\ enablement' = Upserted(enablement, c.hook, put)
         /\ declined' = IF c.op = "enable" THEN declined \ {c.hook} ELSE declined
         /\ settled' = Unsettled
  BY DEF SetHookEnablement
<1>5. GoneOK' /\ SettledOK' /\ declined' \subseteq declined
  <2>1. CASE UNCHANGED <<enablement, declined, settled>>
    <3>1. Calm
      BY <1>1, <2>1 DEF Calm
    <3> QED BY <2>1, <3>1, CalmKeeps
  <2>2. CASE /\ enablement' = Upserted(enablement, c.hook, put)
             /\ declined' = IF c.op = "enable" THEN declined \ {c.hook} ELSE declined
             /\ settled' = Unsettled
    <3>1. declined' \subseteq declined /\ SettledOK'
      BY <2>2 DEF SettledOK, Unsettled
    <3>2. ASSUME NEW h \in declined' PROVE h \in DOMAIN enablement' /\ enablement'[h] = "disabled"
      <4>1. h \in DOMAIN enablement /\ enablement[h] = "disabled"
        BY <1>3, <3>1 DEF FollowInv, GoneOK
      <4>2. h = c.hook => put = "disabled"
        BY <2>2
      <4> HIDE DEF put, c
      <4> QED BY <2>2, <4>1, <4>2 DEF Upserted
    <3> QED BY <3>1, <3>2 DEF GoneOK
  <2> QED BY <1>4, <2>1, <2>2
<1>6. Grows /\ MarkOK'
  BY <1>1, <1>3, <1>5 DEF Grows, MarkOK
<1>7. FileFits(hookFile', trustedPaths'.known, declined')
  <2>1. FileFits(hookFile, trustedPaths.known, declined)
    BY DEF FollowInv
  <2> QED BY <1>1, <1>5, <2>1, FitsOn
<1>8. t.at = "complete" /\ t.cmd = r.cmd /\ t.prior = r.prior
  BY <1>2, MovesOn
<1> HIDE DEF t
<1>9. ReliesOn(t, hkplan, trustedPaths'.known, declined', absorption')
  BY <1>1, <1>2, <1>3, <1>8 DEF ReliesOn, Locked
<1> QED BY <1>1, <1>5, <1>6, <1>7, <1>9, OneFollows

\* What a command past the records makes of the file.
LEMMA MadeFits ==
  ASSUME HookInv, FollowInv, NEW c \in hkplan.cmds, NEW prior, c.exe \in trustedPaths.known \cup {NoPath},
         absorption # NoMark
  PROVE  LET made == ComputeProjection(hookFile, Records, c, prior)
         IN  /\ CanProject(Records, c) => FileFits(made.body, trustedPaths.known, declined)
             /\ made.body = hookFile => Tidy(hookFile, Records, Copy(c))
<1> DEFINE made == ComputeProjection(hookFile, Records, c, prior)
           trusted == Recognition(Records, c)
           pairing == PairHookEntries(hookFile, c, trusted)
           absorbs == PlanAbsorption(Records, pairing, hookFile, c, prior)
           g == ProjectEvent(hookFile, pairing, Records, absorbs.disable, c)
<1>1. made.body = g
  <2>1. made = [absorb |-> absorbs, body |-> g, foreign |-> EntriesAt(hookFile, pairing.foreign)]
    BY Zenon DEF ComputeProjection
  <2> HIDE DEF made, g, absorbs, pairing
  <2> QED BY <2>1
<1>2. IsFile(hookFile) /\ FileFits(hookFile, trustedPaths.known, declined)
  BY DEF HookInv, FollowInv
<1>3. Pairs(hookFile, c, trusted, pairing)
  BY <1>2, FileIsFinite, PairingPairs
<1>4. IsFiniteSet(Catalog(c.ver).hooks) /\ Catalog(c.ver).hooks \subseteq Nat \ {NoHook}
  BY HookPlansAssumption DEF HookInv, Catalog
<1>5. absorbs.disable = {}
  <2> DEFINE installed == prior.row \/ Cardinality(DOMAIN hookFile) > Cardinality(pairing.foreign)
             D == IF Records.absorbed \/ ~installed THEN {}
                  ELSE {x \in Cohort(Catalog(c.ver), prior) \cap Catalog(c.ver).hooks :
                          ~Recorded(Records, x) /\ x \notin DOMAIN pairing.paired}
  <2>1. absorbs = [marks |-> ~Records.absorbed, from |-> AbsorptionVersion(c, prior, installed), disable |-> D]
    BY Zenon DEF PlanAbsorption
  <2>2. absorbs.disable = D
    <3> HIDE DEF D, installed, absorbs
    <3> QED BY <2>1
  <2>3. Records.absorbed
    BY DEF Records
  <2> HIDE DEF absorbs, installed
  <2> QED BY <2>2, <2>3
<1>6. trustedPaths.known \subseteq trusted
  BY DEF Recognition, Records
<1> HIDE DEF trusted, pairing, absorbs
<1>7. ASSUME CanProject(Records, c) PROVE FileFits(g, trustedPaths.known, declined)
  <2>1. ASSUME NEW h \in Catalog(c.ver).hooks, Enabled(Records, h)
        PROVE  h \notin declined /\ c.exe \in trustedPaths.known
    <3>1. c.exe # NoPath
      BY <1>7, <2>1 DEF CanProject
    <3>2. h \notin declined
      BY <2>1 DEF FollowInv, GoneOK, Enabled, Records
    <3> QED BY <3>1, <3>2
  <2> QED BY <1>2, <1>3, <1>4, <2>1, ProjectionFits
<1>8. ASSUME g = hookFile PROVE Tidy(hookFile, Records, Copy(c))
  <2>1. ProjectEvent(hookFile, pairing, Records, {}, c) = hookFile
    BY <1>5, <1>8
  <2> QED BY <1>2, <1>3, <1>4, <1>6, <2>1, ProjectionTidies
<1> HIDE DEF g, made
<1> QED BY <1>1, <1>7, <1>8 DEF made

\* complete: nothing to do, or a body to publish.
LEMMA CompleteFollows ==
  ASSUME HookInv, FollowInv, NEW p \in hkplan.procs, Complete(p)
  PROVE  FollowInv'
<1> DEFINE r == hookProc[p]
           c == hookProc[p].cmd
           made == ComputeProjection(hookFile, Records, hookProc[p].cmd, hookProc[p].prior)
<1>1. r.at = "complete" /\ UNCHANGED <<hkplan, hookFile, enablement, absorption, trustedPaths, hookManifest, declined>>
  BY Zenon DEF Complete, At, recordVars
<1>2. /\ r = [x \in ReconcilerFields |-> r[x]] /\ c \in hkplan.cmds
      /\ ReliesOn(r, hkplan, trustedPaths.known, declined, absorption)
  BY <1>1, CommandRelies
<1>3. absorption # NoMark /\ c.exe \in trustedPaths.known \cup {NoPath}
  BY <1>1, <1>2 DEF ReliesOn, Locked
<1>4. /\ CanProject(Records, c) => FileFits(made.body, trustedPaths.known, declined)
      /\ made.body = hookFile => Tidy(hookFile, Records, Copy(c))
  <2> DEFINE prior == r.prior
  <2> HIDE DEF prior
  <2> QED BY <1>2, <1>3, MadeFits
<1>5. Grows /\ MarkOK' /\ GoneOK' /\ FileFits(hookFile', trustedPaths'.known, declined')
  BY <1>1, <1>3 DEF FollowInv, Grows, MarkOK, GoneOK
<1>6. ASSUME settled' = settled PROVE SettledOK'
  <2>1. Calm
    BY <1>1, <1>6 DEF Calm
  <2> QED BY <2>1, CalmKeeps
<1>7. ASSUME ReleaseHookFileLock(p), SettledOK' PROVE FollowInv'
  <2>1. Puts(p, Resting)
    BY <1>7 DEF ReleaseHookFileLock, Rest, Puts
  <2>2. ReliesOn(Resting, hkplan, trustedPaths'.known, declined', absorption')
    BY RestRelies
  <2> QED BY <1>5, <1>7, <2>1, <2>2, OneFollows
<1>8. CASE ~ CanProject(Records, c)
  <2>1. ReleaseHookFileLock(p) /\ settled' = settled
    BY <1>8, Zenon DEF Complete
  <2> QED BY <1>6, <1>7, <2>1
<1>9. CASE CanProject(Records, c) /\ made.body = hookFile
  <2>1. ReleaseHookFileLock(p) /\ settled' = Copy(c)
    BY <1>9, Zenon DEF Complete
  <2>2. Tidy(hookFile, Records, settled)'
    <3>1. PICK x : x = Copy(c)
      OBVIOUS
    <3>2. Tidy(hookFile, Records, x) /\ settled' = x
      BY <1>4, <1>9, <2>1, <3>1
    <3> QED BY <1>1, <3>2, TidyStays
  <2> QED BY <1>7, <2>1, <2>2 DEF SettledOK
<1>10. CASE CanProject(Records, c) /\ made.body # hookFile
  <2>1. /\ hookProc' = [hookProc EXCEPT ![p].at = "compare", ![p].seen = hookFile,
                                        ![p].body = made.body, ![p].foreign = made.foreign]
        /\ settled' = settled
    BY <1>10, Zenon DEF Complete
  <2> HIDE DEF made
  <2> DEFINE t == [r EXCEPT !.at = "compare", !.seen = hookFile, !.body = made.body, !.foreign = made.foreign]
  <2>2. Puts(p, t)
    BY <2>1 DEF Puts
  <2>3. t.at = "compare" /\ t.cmd = r.cmd /\ t.prior = r.prior /\ t.body = made.body
    BY <1>2 DEF ReconcilerFields
  <2> HIDE DEF t
  <2>4. ReliesOn(t, hkplan, trustedPaths.known, declined, absorption)
    BY <1>1, <1>2, <1>3, <1>4, <1>10, <2>3 DEF ReliesOn
  <2>5. ReliesOn(t, hkplan, trustedPaths'.known, declined', absorption')
    BY <1>1, <2>4
  <2> QED BY <1>5, <1>6, <2>1, <2>2, <2>5, OneFollows
<1> QED BY <1>8, <1>9, <1>10

\* The rename puts a fitting body there.
LEMMA PublishFollows ==
  ASSUME HookInv, FollowInv, NEW p \in hkplan.procs, PublishHookFile(p)
  PROVE  FollowInv'
<1> DEFINE r == hookProc[p]
           t == [r EXCEPT !.at = "verify"]
<1>1. /\ r.at = "rename" /\ Puts(p, t) /\ hookFile' = r.body /\ settled' = Unsettled
      /\ UNCHANGED <<hkplan, enablement, absorption, trustedPaths, hookManifest, declined>>
  BY DEF PublishHookFile, At, Move, Puts, recordVars
<1>2. /\ r = [x \in ReconcilerFields |-> r[x]]
      /\ ReliesOn(r, hkplan, trustedPaths.known, declined, absorption)
  BY <1>1, CommandRelies
<1>3. absorption # NoMark /\ FileFits(r.body, trustedPaths.known, declined)
  BY <1>1, <1>2 DEF ReliesOn, Locked
<1>4. Grows /\ MarkOK' /\ GoneOK' /\ SettledOK' /\ FileFits(hookFile', trustedPaths'.known, declined')
  BY <1>1, <1>3 DEF FollowInv, Grows, MarkOK, GoneOK, SettledOK, Unsettled
<1>5. t.at = "verify" /\ t.cmd = r.cmd /\ t.prior = r.prior
  BY <1>2, MovesOn
<1> HIDE DEF t
<1>6. ReliesOn(t, hkplan, trustedPaths'.known, declined', absorption')
  BY <1>1, <1>2, <1>5 DEF ReliesOn, Locked
<1> QED BY <1>1, <1>4, <1>6, OneFollows

\* Nothing left to do is a tidy file, for whoever is on record.
LEMMA VerifyFollows ==
  ASSUME HookInv, FollowInv, NEW p \in hkplan.procs, Verify(p)
  PROVE  FollowInv'
<1> DEFINE r == hookProc[p]
           c == hookProc[p].cmd
           again == ComputeProjection(hookFile, Records, hookProc[p].cmd, hookProc[p].prior)
<1>1. /\ r.at = "verify" /\ ReleaseHookFileLock(p)
      /\ UNCHANGED <<hkplan, hookFile, enablement, absorption, trustedPaths, hookManifest, declined>>
  BY Zenon DEF Verify, At, recordVars
<1>2. (settled' = Copy(c) /\ again.body = hookFile) \/ settled' = settled
  BY Zenon DEF Verify
<1>3. /\ c \in hkplan.cmds
      /\ ReliesOn(r, hkplan, trustedPaths.known, declined, absorption)
  BY <1>1, CommandRelies
<1>4. absorption # NoMark /\ c.exe \in trustedPaths.known \cup {NoPath}
  BY <1>1, <1>3 DEF ReliesOn, Locked
<1>5. again.body = hookFile => Tidy(hookFile, Records, Copy(c))
  <2> DEFINE prior == r.prior
  <2> HIDE DEF prior
  <2> QED BY <1>3, <1>4, MadeFits
<1> HIDE DEF again
<1>6. SettledOK'
  <2>1. CASE settled' = settled
    <3>1. Calm
      BY <1>1, <2>1 DEF Calm
    <3> QED BY <3>1, CalmKeeps
  <2>2. CASE settled' = Copy(c) /\ again.body = hookFile
    <3>1. PICK x : x = Copy(c)
      OBVIOUS
    <3>2. Tidy(hookFile, Records, x) /\ settled' = x
      BY <1>5, <2>2, <3>1
    <3>3. Tidy(hookFile, Records, settled)'
      BY <1>1, <3>2, TidyStays
    <3> QED BY <3>3 DEF SettledOK
  <2> QED BY <1>2, <2>1, <2>2
<1>7. Grows /\ MarkOK' /\ GoneOK' /\ FileFits(hookFile', trustedPaths'.known, declined')
  BY <1>1, <1>4 DEF FollowInv, Grows, MarkOK, GoneOK
<1>8. Puts(p, Resting) /\ ReliesOn(Resting, hkplan, trustedPaths'.known, declined', absorption')
  BY <1>1, RestRelies DEF ReleaseHookFileLock, Rest, Puts
<1> QED BY <1>6, <1>7, <1>8, OneFollows

\* What others write fits.
LEMMA EditsFit ==
  ASSUME NEW f, IsFile(f), NEW known, NEW gone, FileFits(f, known, gone),
         hkplan \in HookPlans, hkplan.trusted.known \subseteq known, gone \subseteq hkplan.declined,
         NEW g \in HookEdits(f)
  PROVE  FileFits(g, known, gone)
<1>1. Len(f) \in Nat /\ DOMAIN f = 1 .. Len(f)
  BY FileIsFinite
<1>2. ASSUME NEW e, EntryFits(e, known, gone), g = Append(f, e) PROVE FileFits(g, known, gone)
  <2>1. /\ DOMAIN g = 1 .. Len(f) + 1 /\ \A i \in DOMAIN f : g[i] = f[i]
        /\ g[Len(f) + 1] = e
    BY <1>2, ListGrows DEF IsFile
  <2>2. ASSUME NEW i \in DOMAIN g PROVE EntryFits(g[i], known, gone)
    <3>1. i \in DOMAIN f \/ i = Len(f) + 1
      BY <1>1, <2>1
    <3> QED BY <1>2, <2>1, <3>1 DEF FileFits
  <2> QED BY <2>2 DEF FileFits
<1>3. ASSUME NEW e \in hkplan.others PROVE EntryFits(e, known, gone)
  BY HookEntriesAssumption DEF EntryFits
<1>4. ASSUME NEW k \in DOMAIN f, g = RemoveAt(f, k) PROVE FileFits(g, known, gone)
  <2> DEFINE S == {e \in {f[j] : j \in DOMAIN f} : EntryFits(e, known, gone)}
  <2>1. f \in Seq(S)
    <3>1. \A j \in 1 .. Len(f) : f[j] \in S
      BY <1>1 DEF FileFits
    <3>2. f \in Seq({f[j] : j \in DOMAIN f})
      BY DEF IsFile
    <3>3. f = [j \in 1 .. Len(f) |-> f[j]]
      BY <1>1, <3>2
    <3> HIDE DEF S
    <3>4. f \in [1 .. Len(f) -> S]
      BY <3>1, <3>3
    <3> QED BY <1>1, <3>4, ListOf
  <2>2. \A e \in S : EntryFits(e, known, gone)
    OBVIOUS
  <2> HIDE DEF S
  <2>3. SubSeq(f, 1, k - 1) \in Seq(S) /\ SubSeq(f, k + 1, Len(f)) \in Seq(S)
    BY <1>1, <2>1
  <2>4. g \in Seq(S)
    BY <1>4, <2>3 DEF RemoveAt
  <2>5. \A i \in DOMAIN g : g[i] \in S
    BY <2>4
  <2> QED BY <2>2, <2>5 DEF FileFits
<1>5. ASSUME NEW k \in DOMAIN f, g = [f EXCEPT ![k].text = "edited"] PROVE FileFits(g, known, gone)
  <2>1. DOMAIN g = DOMAIN f /\ g[k] = [f[k] EXCEPT !.text = "edited"] /\ \A i \in DOMAIN f : i # k => g[i] = f[i]
    BY <1>5
  <2>2. EntryFits(f[k], known, gone)
    BY DEF FileFits
  <2>3. EntryFits(g[k], known, gone)
    <3> DEFINE e == f[k]
               x == [e EXCEPT !.text = "edited"]
    <3>1. DOMAIN x = DOMAIN e /\ DOMAIN e = {"kind", "hook", "exe", "text"}
      BY <2>2 DEF EntryFits
    <3>2. x.kind = e.kind /\ x.exe = e.exe /\ x.hook = e.hook
      BY <3>1
    <3>3. g[k] = x
      BY <2>1
    <3> HIDE DEF x, e
    <3>4. EntryFits(e, known, gone)
      BY <2>2 DEF e
    <3> QED BY <3>1, <3>2, <3>3, <3>4 DEF EntryFits
  <2> QED BY <2>1, <2>3 DEF FileFits
<1>6. \A i \in DOMAIN f : EntryFits(f[i], known, gone)
  BY DEF FileFits
<1> QED BY <1>2, <1>3, <1>4, <1>5, <1>6 DEF HookEdits

LEMMA EditFollows ==
  ASSUME HookInv, FollowInv, NEW f \in HookEdits(hookFile), EditHookFile(f)
  PROVE  FollowInv'
<1>1. /\ hookFile' = f /\ settled' = Unsettled
      /\ UNCHANGED <<hkplan, enablement, absorption, trustedPaths, hookManifest, declined>>
      /\ hookProc' = [p \in hkplan.procs |-> IF At(p, "idle") THEN Resting
                                            ELSE [hookProc[p] EXCEPT !.edited = (@ \/ At(p, "rename"))]]
  BY DEF EditHookFile, recordVars
<1>2. FileFits(f, trustedPaths.known, declined)
  BY EditsFit DEF HookInv, FollowInv
<1>3. ASSUME NEW p \in hkplan.procs
      PROVE  ReliesOn(hookProc'[p], hkplan, trustedPaths.known, declined, absorption)
  <2> DEFINE r == hookProc[p]
             t == [r EXCEPT !.edited = (r.edited \/ r.at = "rename")]
  <2>1. CASE r.at = "idle"
    <3>1. hookProc'[p] = Resting
      BY <1>1, <2>1 DEF At
    <3> QED BY <3>1, RestRelies
  <2>2. CASE r.at # "idle"
    <3>1. hookProc'[p] = t
      BY <1>1, <2>2 DEF At
    <3>2. r = [x \in ReconcilerFields |-> r[x]] /\ ReliesOn(r, hkplan, trustedPaths.known, declined, absorption)
      BY <2>2, CommandRelies
    <3>3. t.at = r.at /\ t.cmd = r.cmd /\ t.prior = r.prior /\ t.body = r.body /\ t.absorb = r.absorb
      BY <3>2 DEF ReconcilerFields
    <3> HIDE DEF t
    <3> QED BY <3>1, <3>2, <3>3 DEF ReliesOn
  <2> QED BY <2>1, <2>2
<1>4. MarkOK' /\ GoneOK' /\ SettledOK'
  BY <1>1 DEF FollowInv, MarkOK, GoneOK, SettledOK, Unsettled
<1> QED BY <1>1, <1>2, <1>3, <1>4 DEF FollowInv

LEMMA FollowNext ==
  ASSUME HookInv, FollowInv, [HookNext]_hookVars
  PROVE  FollowInv'
<1>1. ASSUME Calm, hookProc' = hookProc PROVE FollowInv'
  <2>1. \A p \in hkplan.procs : ReliesOn(hookProc'[p], hkplan', trustedPaths'.known, declined', absorption')
    BY <1>1 DEF FollowInv, Calm
  <2>2. /\ hkplan'.procs = hkplan.procs
        /\ hkplan'.trusted.known \subseteq trustedPaths'.known /\ declined' \subseteq hkplan'.declined
    BY <1>1 DEF FollowInv, Calm
  <2> QED BY <1>1, <2>1, <2>2, CalmKeeps DEF FollowInv
<1>2. CASE UNCHANGED hookVars
  BY <1>1, <1>2 DEF Calm, hookVars
<1>3. CASE DeleteStaleLock
  BY <1>1, <1>3 DEF Calm, DeleteStaleLock, recordVars
<1>4. ASSUME NEW p \in hkplan.procs, HookStep(p) PROVE FollowInv'
  BY <1>4, CalmSteps, TrustFollows, PlanFollows, MarkFollows, ManifestFollows, ToggleFollows, CompleteFollows,
     PublishFollows, VerifyFollows DEF HookStep
<1>5. ASSUME NEW f \in HookEdits(hookFile), EditHookFile(f) PROVE FollowInv'
  BY <1>5, EditFollows
<1> QED BY <1>2, <1>3, <1>4, <1>5 DEF HookNext

LEMMA FollowInit ==
  ASSUME HookInit
  PROVE  FollowInv
<1>1. /\ hkplan \in HookPlans /\ hookFile = hkplan.file /\ trustedPaths = hkplan.trusted /\ declined = hkplan.declined
      /\ absorption = NoMark /\ enablement = <<>> /\ settled = Unsettled /\ hookManifest = hkplan.manifest
      /\ hookProc = [p \in hkplan.procs |-> Resting]
  BY DEF HookInit
<1>2. FileFits(hookFile, trustedPaths.known, declined)
  BY <1>1, HookEntriesAssumption DEF FileFits, EntryFits
<1>3. \A p \in hkplan.procs : ReliesOn(hookProc[p], hkplan, trustedPaths.known, declined, absorption)
  BY <1>1, RestRelies
<1> QED BY <1>1, <1>2, <1>3 DEF FollowInv, MarkOK, GoneOK, SettledOK

\* A tidy file is diagnosed healthy, by whoever has its executable.
LEMMA TidyIsHealthy ==
  ASSUME HookInv, FollowInv, NEW copy, Tidy(hookFile, Records, copy), NEW h \in Catalog(copy.ver).hooks
  PROVE  /\ Healthy(Diagnose(copy)[h])
         /\ Cardinality({i \in DOMAIN hookFile : hookFile[i].kind = "hook" /\ hookFile[i].hook = h}) <= 1
<1> DEFINE trusted == Recognition(Records, copy)
           pairing == PairHookEntries(hookFile, copy, trusted)
           paired == pairing.paired
           twice == {i \in DOMAIN hookFile : hookFile[i].kind = "hook" /\ hookFile[i].hook = h}
<1>1. Pairs(hookFile, copy, trusted, pairing)
  <2>1. IsFile(hookFile)
    BY DEF HookInv
  <2> QED BY <2>1, FileIsFinite, PairingPairs
<1>2. Diagnose(copy)[h] =
        IF ~Enabled(Records, h)
        THEN IF h \in DOMAIN paired THEN "disabled-but-present" ELSE "disabled-and-absent"
        ELSE IF h \notin DOMAIN paired THEN "enabled-and-missing"
        ELSE IF hookFile[paired[h]] = DesiredEntry(copy.ver, h, copy.exe) THEN "enabled-and-in-sync" ELSE "enabled-but-stale"
  BY Zenon DEF Diagnose
<1>3. h # NoHook
  BY DEF Tidy
<1>4. trustedPaths.known \subseteq trusted
  BY DEF Recognition, Records
<1>5. \A i \in twice : i \in DOMAIN hookFile /\ StandsFor(hookFile[i], h)
  BY DEF StandsFor
<1>6. h \in DOMAIN paired => paired[h] \in DOMAIN hookFile /\ StandsFor(hookFile[paired[h]], h)
  BY <1>1, <1>3, OwnStands DEF Pairs
<1> HIDE DEF trusted, pairing, paired, twice
<1>7. CASE Enabled(Records, h)
  <2>1. PICK i \in DOMAIN hookFile : /\ hookFile[i] = DesiredEntry(copy.ver, h, copy.exe)
                                     /\ \A j \in DOMAIN hookFile : StandsFor(hookFile[j], h) => j = i
    BY <1>7 DEF Tidy
  <2>2. StandsFor(hookFile[i], h)
    BY <2>1 DEF DesiredEntry, StandsFor
  <2>3. EntryFits(hookFile[i], trustedPaths.known, declined)
    BY DEF FollowInv, FileFits
  <2>4. OwnsEntry(hookFile[i], copy, trusted) /\ ResolveHookID(hookFile[i], copy) = h
    BY <1>4, <2>2, <2>3, OwnOnRecord
  <2>5. h \in DOMAIN paired
    BY <1>1, <1>3, <2>4 DEF Pairs, paired
  <2>6. paired[h] = i
    BY <1>6, <2>1, <2>5
  <2>7. Diagnose(copy)[h] = "enabled-and-in-sync"
    BY <1>2, <1>7, <2>1, <2>5, <2>6
  <2>8. Cardinality(twice) <= 1
    <3>1. twice \in SUBSET {i}
      BY <1>5, <2>1
    <3>2. IsFiniteSet({i}) /\ Cardinality({i}) = 1
      BY FS_Singleton
    <3>3. IsFiniteSet(twice) /\ Cardinality(twice) <= Cardinality({i})
      BY <3>1, <3>2, FS_Subset
    <3> QED BY <3>2, <3>3
  <2> QED BY <2>7, <2>8 DEF Healthy, twice
<1>8. CASE ~ Enabled(Records, h)
  <2>1. \A j \in DOMAIN hookFile : ~ StandsFor(hookFile[j], h)
    BY <1>8 DEF Tidy
  <2>2. h \notin DOMAIN paired
    BY <1>6, <2>1
  <2>3. Diagnose(copy)[h] = "disabled-and-absent"
    BY <1>2, <1>8, <2>2
  <2>4. twice = {}
    BY <1>5, <2>1
  <2>5. Cardinality(twice) = 0
    BY <2>4, FS_EmptySet
  <2> QED BY <2>3, <2>5 DEF Healthy, twice
<1> QED BY <1>7, <1>8

\* The hooks that run are the hooks the user wants: after a reconcile that succeeded and
\* until somebody edits the file or asks for a change, every hook is diagnosed healthy and
\* none runs twice; and what the user had taken out before there were records is not put
\* back until he enables it, however many commands begin and wherever each is stopped
\* (recordAbsorption, AbsorbAndMarkHooks, complete and verify of hook_reconcile.go).
THEOREM HooksFollow == HookSpec => []HooksFollowTheUser
<1>1. HookInit => FollowInv
  BY FollowInit
<1>2. HookInv /\ FollowInv /\ [HookNext]_hookVars => FollowInv'
  BY FollowNext
<1>3. HookInv /\ FollowInv => HooksFollowTheUser
  <2> SUFFICES ASSUME HookInv, FollowInv PROVE HooksFollowTheUser
    OBVIOUS
  <2>1. ASSUME settled # Unsettled, NEW h \in Catalog(settled.ver).hooks
        PROVE  /\ Healthy(Diagnose(settled)[h])
               /\ Cardinality({i \in DOMAIN hookFile : hookFile[i].kind = "hook" /\ hookFile[i].hook = h}) <= 1
    <3>1. Tidy(hookFile, Records, settled)
      BY <2>1 DEF FollowInv, SettledOK
    <3> QED BY <2>1, <3>1, TidyIsHealthy
  <2>2. \A i \in DOMAIN hookFile : hookFile[i].kind = "hook" => hookFile[i].hook \notin declined
    BY DEF FollowInv, FileFits, EntryFits
  <2> QED BY <2>1, <2>2 DEF HooksFollowTheUser
<1> QED BY <1>1, <1>2, <1>3, HookInvHolds, PTL DEF HookSpec
=============================================================================
