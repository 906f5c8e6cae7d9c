---------------------------- MODULE FactSyncProofs ----------------------------
(***************************************************************************)
(* What FactStore guarantees for any number of devices, host names, facts  *)
(* and clock readings, and FactSync for any number of passes and           *)
(* interruptions besides, and that the tables of CoreEvents follow their   *)
(* facts.  StoreInv is inductive for the stores, SyncInv for the whole and *)
(* CoreInv for the tables; one lemma per action shows that the action      *)
(* preserves it, with a step of its own for each conjunct the action can   *)
(* disturb and one for the others.                                         *)
(***************************************************************************)
EXTENDS FactSync, CoreEvents, ListFacts

----------------------------------------------------------------------------
(* The clock. *)

\* compareHLC orders the stamps: it is transitive, also through equality.
LEMMA BeforeTransitive ==
  ASSUME NEW a \in HLC, NEW b \in HLC, NEW c \in HLC
  PROVE  /\ NotAfter(a, b) /\ Before(b, c) => Before(a, c)
         /\ Before(a, b) /\ NotAfter(b, c) => Before(a, c)
         /\ NotAfter(a, b) /\ NotAfter(b, c) => NotAfter(a, c)
BY DEF NotAfter, Before, HLC

\* advanceHLC returns a stamp that is after the clock it advances and not before
\* the stamp it has seen, whatever the host clock reads.
LEMMA AdvanceMovesOn ==
  ASSUME NEW c \in HLC, NEW w \in Nat, NEW s \in HLC
  PROVE  /\ advanceHLC(c, w, s) \in HLC
         /\ Before(c, advanceHLC(c, w, s))
         /\ NotAfter(s, advanceHLC(c, w, s))
<1> DEFINE start == [wall |-> w, logical |-> 0]
           mid   == Later(start, c)
           next  == Later(mid, s)
<1>1. start \in HLC /\ mid \in HLC /\ next \in HLC
  BY DEF HLC, Later
<1>2. NotAfter(c, mid) /\ NotAfter(mid, next) /\ NotAfter(s, next)
  BY <1>1 DEF HLC, Later, NotAfter, Before
<1>3. NotAfter(c, next)
  BY <1>1, <1>2, BeforeTransitive
<1>4. CASE next = c
  <2>2. advanceHLC(c, w, s) = [wall |-> c.wall, logical |-> c.logical + 1]
    BY <1>4 DEF advanceHLC
  <2>3. NotAfter(s, c)
    BY <1>2, <1>4
  <2> QED BY <2>2, <2>3 DEF HLC, Before, NotAfter
<1>5. CASE next # c
  <2>1. advanceHLC(c, w, s) = next
    BY <1>5 DEF advanceHLC
  <2> QED BY <2>1, <1>1, <1>2, <1>3, <1>5 DEF NotAfter
<1> QED BY <1>4, <1>5

\* A clock row after an append is past the row it advances.
LEMMA AppendClock ==
  ASSUME NEW row \in EnvClock, NEW w \in Nat, row = NoRow \/ row.next > 1
  PROVE  /\ nextFactClock(row, w) \in EnvClock
         /\ nextFactClock(row, w).next > 1
         /\ Before(row.hlc, nextFactClock(row, w).hlc)
         /\ row.next # 0 => nextFactClock(row, w).next = row.next + 1
         /\ row.next = 0 => nextFactClock(row, w).next = 2
<1>1. ZeroHLC \in HLC /\ row.hlc \in HLC /\ row.next \in Nat
  BY DEF ZeroHLC, HLC, EnvClock
<1>2. CASE row = NoRow
  BY <1>1, <1>2, AdvanceMovesOn DEF nextFactClock, NoRow, EnvClock
<1>3. CASE row # NoRow
  BY <1>1, <1>3, AdvanceMovesOn DEF nextFactClock, EnvClock
<1> QED BY <1>2, <1>3

\* A clock row never moves back when a fact is received: neither the rows that
\* only observe its stamp, nor the one of its environment, which ends up past
\* the fact itself.
LEMMA ReceiveClock ==
  ASSUME NEW row \in EnvClock, NEW f \in Fact, row = NoRow \/ row.next > 1
  PROVE  /\ LET o == observeFactHLC(row, f.hlc)
            IN  /\ o \in EnvClock
                /\ o.next = row.next
                /\ o = NoRow \/ o.next > 1
                /\ NotAfter(row.hlc, o.hlc)
         /\ LET r == reconcileEnvClock(observeFactHLC(row, f.hlc), f)
            IN  /\ r \in EnvClock
                /\ r.next > 1
                /\ r.next >= row.next
                /\ f.seq < r.next
                /\ NotAfter(f.hlc, r.hlc)
                /\ row # NoRow => NotAfter(row.hlc, r.hlc)
<1> DEFINE o == observeFactHLC(row, f.hlc)
           r == reconcileEnvClock(o, f)
<1>1. /\ row.hlc \in HLC /\ row.next \in Nat
      /\ f.hlc \in HLC /\ f.hlc.wall \in Nat /\ f.seq \in Nat \ {0}
  BY DEF EnvClock, Fact, HLC
<1>2. /\ o \in EnvClock
      /\ o.next = row.next
      /\ o = NoRow \/ o.next > 1
      /\ NotAfter(row.hlc, o.hlc)
      /\ row # NoRow => o # NoRow
  <2>1. CASE row # NoRow /\ Before(row.hlc, f.hlc)
    <3>1. o = [hlc |-> advanceHLC(row.hlc, f.hlc.wall, f.hlc), next |-> row.next]
      BY <2>1 DEF observeFactHLC
    <3> QED BY <3>1, <2>1, <1>1, AdvanceMovesOn DEF NotAfter, EnvClock, NoRow
  <2>2. CASE ~(row # NoRow /\ Before(row.hlc, f.hlc))
    BY <2>2, <1>1 DEF observeFactHLC, NotAfter
  <2> QED BY <2>1, <2>2
<1>3. /\ r \in EnvClock
      /\ r.next > 1
      /\ r.next >= row.next
      /\ f.seq < r.next
      /\ NotAfter(f.hlc, r.hlc)
      /\ row # NoRow => NotAfter(row.hlc, r.hlc)
  <2> HIDE DEF o
  <2>1. CASE o = NoRow
    <3>1. r = [hlc |-> f.hlc, next |-> f.seq + 1]
      BY <2>1 DEF reconcileEnvClock
    <3>2. row = NoRow
      BY <2>1, <1>2
    <3> QED BY <3>1, <3>2, <1>1 DEF NotAfter, EnvClock, NoRow
  <2>2. CASE o # NoRow
    <3>1. r = [hlc  |-> advanceHLC(o.hlc, f.hlc.wall, f.hlc),
               next |-> IF f.seq + 1 > o.next THEN f.seq + 1 ELSE o.next]
      BY <2>2 DEF reconcileEnvClock
    <3>2. o.hlc \in HLC /\ o.next \in Nat
      BY <1>2 DEF EnvClock
    <3>3. /\ r.hlc \in HLC /\ Before(o.hlc, r.hlc) /\ NotAfter(f.hlc, r.hlc)
      BY <3>1, <3>2, <1>1, AdvanceMovesOn
    <3>4. NotAfter(row.hlc, r.hlc)
      BY <3>3, <3>2, <1>1, <1>2, BeforeTransitive DEF NotAfter
    <3>5. r \in EnvClock /\ r.next > 1 /\ r.next >= row.next /\ f.seq < r.next
      BY <3>1, <3>2, <3>3, <1>1, <1>2, <2>2 DEF EnvClock
    <3> QED BY <3>3, <3>4, <3>5
  <2> QED BY <2>1, <2>2
<1> QED BY <1>2, <1>3

----------------------------------------------------------------------------
(* The inductive invariant. *)

LEMMA InitInv == StoreInit => StoreInv
<1> SUFFICES ASSUME StoreInit PROVE StoreInv
  OBVIOUS
<1> USE StoreAssumption DEF StoreInit
<1>1. NoRow \in EnvClock
  BY DEF NoRow, EnvClock, ZeroHLC, HLC
<1>2. StoreTypeOK
  BY <1>1 DEF StoreTypeOK
<1>3. IdsUnique /\ HeldAtHome /\ ClockCovers /\ EnvStreamOrdered /\ SeqUniqueInStore
  BY DEF SeqUniqueInStore, IdsUnique, HeldAtHome, ClockCovers, EnvStreamOrdered
<1>4. RowsWellFormed
  BY DEF RowsWellFormed
<1>5. HomeContiguous
  BY DEF HomeContiguous, NoRow
<1> QED BY <1>2, <1>3, <1>4, <1>5 DEF StoreInv

\* An append keeps the invariant: the new fact is the latest of its environment
\* on the device that writes it, hence anywhere.
LEMMA AppendInv ==
  ASSUME StoreInv,
         NEW d \in Device, NEW e \in EnvId, NEW id \in FactId, NEW w \in Times, WriteFact(d, e, id, w)
  PROVE  StoreInv'
<1> DEFINE old == clock[d][e]
           row == nextFactClock(old, w)
           new == [id |-> id, env |-> e, seq |-> row.next - 1, hlc |-> row.hlc]
<1> USE StoreAssumption
<1>1. /\ id \in FreshIds /\ e \in EnvsOf[d]
      /\ facts' = [facts EXCEPT ![d] = @ \cup {new}]
      /\ clock' = [clock EXCEPT ![d][e] = row]
      /\ now' = now
  BY DEF WriteFact, appendFactTx
<1>2. e \in EnvId /\ w \in Nat /\ old \in EnvClock
  BY DEF StoreInv, StoreTypeOK, Times
<1>3. old = NoRow \/ old.next > 1
  BY <1>2 DEF StoreInv, RowsWellFormed
<1>4. /\ row \in EnvClock /\ row.next > 1
      /\ Before(old.hlc, row.hlc)
      /\ old.next # 0 => row.next = old.next + 1
      /\ old.next = 0 => row.next = 2
  BY <1>2, <1>3, AppendClock
<1> HIDE DEF row
<1>5. /\ old.hlc \in HLC /\ old.next \in Nat
      /\ row.hlc \in HLC /\ row.next \in Nat
      /\ new \in Fact
  BY <1>2, <1>4 DEF EnvClock, Fact
<1>6. /\ facts'[d] = facts[d] \cup {new}
      /\ \A c \in Device : c # d => facts'[c] = facts[c]
      /\ clock'[d][e] = row
      /\ \A c \in Device, x \in EnvId : c # d \/ x # e => clock'[c][x] = clock[c][x]
  BY <1>1, <1>2 DEF StoreInv, StoreTypeOK
<1>7. \A c \in Device : \A f \in facts[c] : f.id # id /\ f \in Fact
  BY <1>1 DEF FreshIds, Ids, StoreInv, StoreTypeOK
<1>8. StoreTypeOK'
  BY <1>1, <1>4, <1>5 DEF StoreInv, StoreTypeOK
<1>9. IdsUnique'
  BY <1>6, <1>7 DEF StoreInv, IdsUnique
<1>10. HeldAtHome'
  <2> SUFFICES ASSUME NEW c \in Device, NEW f \in facts'[c]
               PROVE  \E home \in Device : f.env \in EnvsOf[home] /\ f \in facts'[home]
    BY DEF HeldAtHome
  <2>1. CASE f = new
    BY <2>1, <1>1, <1>6
  <2>2. CASE f \in facts[c]
    BY <2>2, <1>6 DEF StoreInv, HeldAtHome
  <2> QED BY <2>1, <2>2, <1>6
<1>11. RowsWellFormed'
  BY <1>4, <1>6 DEF StoreInv, RowsWellFormed
<1>12. \A f \in facts[d] : f.env = e => f.seq < new.seq /\ Before(f.hlc, new.hlc)
  <2> SUFFICES ASSUME NEW f \in facts[d], f.env = e
               PROVE  f.seq < new.seq /\ Before(f.hlc, new.hlc)
    OBVIOUS
  <2>1. f.seq < old.next /\ NotAfter(f.hlc, old.hlc) /\ f.seq \in Nat /\ f.hlc \in HLC
    BY <1>7 DEF StoreInv, ClockCovers, Fact
  <2>2. Before(f.hlc, row.hlc)
    BY <2>1, <1>4, <1>5, BeforeTransitive
  <2> QED BY <2>1, <2>2, <1>4, <1>5
<1>13. ClockCovers'
  <2> SUFFICES ASSUME NEW c \in Device, NEW f \in facts'[c]
               PROVE  /\ f.seq < clock'[c][f.env].next
                      /\ NotAfter(f.hlc, clock'[c][f.env].hlc)
    BY DEF ClockCovers
  <2>1. CASE c = d /\ f = new
    BY <2>1, <1>5, <1>6 DEF NotAfter
  <2>2. CASE c = d /\ f \in facts[d] /\ f.env = e
    <3>1. f.seq < new.seq /\ Before(f.hlc, new.hlc) /\ f.seq \in Nat
      BY <2>2, <1>7, <1>12 DEF Fact
    <3> QED BY <3>1, <2>2, <1>5, <1>6 DEF NotAfter
  <2>3. CASE f \in facts[c] /\ (c # d \/ f.env # e)
    <3>1. f.env \in EnvId
      BY <2>3, <1>7 DEF Fact
    <3> QED BY <3>1, <2>3, <1>6 DEF StoreInv, ClockCovers
  <2> QED BY <2>1, <2>2, <2>3, <1>6
<1>14. HomeContiguous'
  <2> SUFFICES ASSUME NEW h \in Device, NEW x \in EnvsOf[h], SoleWriter(x),
                      NEW s \in 1 .. (clock'[h][x].next - 1)
               PROVE  s \in Seqs(h, x)'
    BY DEF HomeContiguous, SoleWriter
  <2>1. CASE h = d /\ x = e
    <3>1. s \in 1 .. (row.next - 1)
      BY <2>1, <1>6
    <3>2. CASE s = new.seq
      BY <3>2, <2>1, <1>6 DEF Seqs
    <3>3. CASE s # new.seq
      <4>1. s \in 1 .. (old.next - 1)
        BY <3>1, <3>3, <1>4, <1>5
      <4>2. s \in Seqs(d, e)
        BY <4>1, <2>1 DEF StoreInv, HomeContiguous
      <4> QED BY <4>2, <2>1, <1>6 DEF Seqs
    <3> QED BY <3>2, <3>3
  <2>2. CASE h # d \/ x # e
    <3>1. x \in EnvId
      OBVIOUS
    <3>2. s \in Seqs(h, x)
      BY <3>1, <2>2, <1>6 DEF StoreInv, HomeContiguous
    <3> QED BY <3>2, <1>6 DEF Seqs
  <2> QED BY <2>1, <2>2
<1>15. EnvStreamOrdered'
  <2> SUFFICES ASSUME NEW c1 \in Device, NEW c2 \in Device,
                      NEW f \in facts'[c1], NEW g \in facts'[c2],
                      f.env = g.env, SoleWriter(f.env)
               PROVE  /\ f.seq = g.seq => f = g
                      /\ f.seq < g.seq => Before(f.hlc, g.hlc)
    BY DEF EnvStreamOrdered, SoleWriter
  <2>1. \A c \in Device : \A x \in facts[c] : x.env = e /\ SoleWriter(e) => x \in facts[d]
    BY <1>1 DEF StoreInv, HeldAtHome, SoleWriter
  <2>2. \A c \in Device : \A x \in facts[c] : x.env = e /\ SoleWriter(e) =>
           x.seq \in Nat /\ x.seq < new.seq /\ Before(x.hlc, new.hlc)
    BY <2>1, <1>7, <1>12 DEF Fact
  <2>3. new.seq \in Nat
    BY <1>5 DEF Fact
  <2>4. CASE f \in facts[c1] /\ g \in facts[c2]
    BY <2>4 DEF StoreInv, EnvStreamOrdered
  <2>5. CASE f \in facts[c1] /\ g = new
    <3>1. f.seq \in Nat /\ f.seq < new.seq /\ Before(f.hlc, new.hlc)
      BY <2>5, <2>2
    <3> QED BY <3>1, <2>3, <2>5
  <2>6. CASE f = new /\ g \in facts[c2]
    <3>1. g.seq \in Nat /\ g.seq < new.seq
      BY <2>6, <2>2
    <3> QED BY <3>1, <2>3, <2>6
  <2>7. CASE f = new /\ g = new
    BY <2>3, <2>7
  <2> QED BY <2>4, <2>5, <2>6, <2>7, <1>6
<1>16. SeqUniqueInStore'
  <2>1. \A f \in facts[d] : f.env = e => f.seq \in Nat /\ f.seq < new.seq
    BY <1>7, <1>12 DEF Fact
  <2>2. new.seq \in Nat
    BY <1>5 DEF Fact
  <2> QED BY <2>1, <2>2, <1>6 DEF StoreInv, SeqUniqueInStore
<1> QED BY <1>8, <1>9, <1>10, <1>11, <1>13, <1>14, <1>15, <1>16 DEF StoreInv

\* A receive keeps the invariant: the fact is one another device holds already,
\* and no clock row moves back.
LEMMA ReceiveInv ==
  ASSUME StoreInv,
         NEW d \in Device, NEW from \in Device, NEW f \in facts[from], Receive(d, f)
  PROVE  StoreInv'
<1> DEFINE new(e) == IF e = f.env
                     THEN reconcileEnvClock(observeFactHLC(clock[d][e], f.hlc), f)
                     ELSE observeFactHLC(clock[d][e], f.hlc)
<1> USE StoreAssumption
<1>1. /\ ~Known(d, f) /\ ~SeqTaken(d, f)
      /\ facts' = [facts EXCEPT ![d] = @ \cup {f}]
      /\ clock' = [clock EXCEPT ![d] = [e \in EnvId |-> new(e)]]
      /\ now' = now
  BY DEF Receive, receivable, insertReceived
<1>2. f \in Fact /\ f.env \in EnvId
  BY DEF StoreInv, StoreTypeOK, Fact
<1>3. \A e \in EnvId : /\ clock[d][e] \in EnvClock
                       /\ clock[d][e] = NoRow \/ clock[d][e].next > 1
  BY DEF StoreInv, StoreTypeOK, RowsWellFormed
<1>4. ASSUME NEW e \in EnvId
      PROVE  /\ new(e) \in EnvClock
             /\ new(e) = NoRow \/ new(e).next > 1
             /\ new(e).next >= clock[d][e].next
             /\ clock[d][e] # NoRow => NotAfter(clock[d][e].hlc, new(e).hlc)
             /\ e = f.env => f.seq < new(e).next /\ NotAfter(f.hlc, new(e).hlc)
             /\ e # f.env => new(e).next = clock[d][e].next
  <2>1. clock[d][e] \in EnvClock /\ (clock[d][e] = NoRow \/ clock[d][e].next > 1)
    BY <1>3
  <2>2. clock[d][e].next \in Nat
    BY <2>1 DEF EnvClock
  <2>3. CASE e = f.env
    BY <2>1, <2>2, <2>3, <1>2, ReceiveClock
  <2>4. CASE e # f.env
    BY <2>1, <2>2, <2>4, <1>2, ReceiveClock
  <2> QED BY <2>3, <2>4
<1> HIDE DEF new
<1>5. /\ facts'[d] = facts[d] \cup {f}
      /\ \A c \in Device : c # d => facts'[c] = facts[c]
      /\ \A e \in EnvId : clock'[d][e] = new(e)
      /\ \A c \in Device : c # d => clock'[c] = clock[c]
  BY <1>1 DEF StoreInv, StoreTypeOK
<1>6. \A c \in Device : \A g \in facts'[c] : \E b \in Device : g \in facts[b]
  BY <1>5
<1>7. \A c \in Device : facts[c] \subseteq facts'[c]
  BY <1>5
<1>8. \A c \in Device : \A g \in facts[c] : g \in Fact
  BY DEF StoreInv, StoreTypeOK
<1>9. StoreTypeOK'
  BY <1>1, <1>2, <1>4 DEF StoreInv, StoreTypeOK
<1>10. IdsUnique'
  BY <1>6 DEF StoreInv, IdsUnique
<1>11. HeldAtHome'
  BY <1>6, <1>7 DEF StoreInv, HeldAtHome
<1>12. RowsWellFormed'
  BY <1>4, <1>5 DEF StoreInv, RowsWellFormed
<1>13. EnvStreamOrdered'
  BY <1>6 DEF StoreInv, EnvStreamOrdered, SoleWriter
<1>14. ClockCovers'
  <2> SUFFICES ASSUME NEW c \in Device, NEW g \in facts'[c]
               PROVE  /\ g.seq < clock'[c][g.env].next
                      /\ NotAfter(g.hlc, clock'[c][g.env].hlc)
    BY DEF ClockCovers
  <2>1. CASE c # d
    BY <2>1, <1>5 DEF StoreInv, ClockCovers
  <2>2. CASE c = d /\ g = f
    BY <2>2, <1>2, <1>4, <1>5
  <2>3. CASE c = d /\ g \in facts[d]
    <3> DEFINE row == clock[d][g.env]
    <3>1. g.env \in EnvId /\ g.seq \in Nat \ {0} /\ g.hlc \in HLC
      BY <2>3, <1>8 DEF Fact
    <3>2. g.seq < row.next /\ NotAfter(g.hlc, row.hlc)
      BY <2>3 DEF StoreInv, ClockCovers
    <3>3. row \in EnvClock /\ new(g.env) \in EnvClock
      BY <3>1, <1>3, <1>4
    <3>4. row # NoRow
      BY <3>1, <3>2 DEF NoRow
    <3>5. row.next <= new(g.env).next /\ NotAfter(row.hlc, new(g.env).hlc)
      BY <3>1, <3>4, <1>4
    <3>6. NotAfter(g.hlc, new(g.env).hlc)
      BY <3>1, <3>2, <3>3, <3>5, BeforeTransitive DEF EnvClock
    <3>7. g.seq < new(g.env).next
      BY <3>1, <3>2, <3>3, <3>5 DEF EnvClock
    <3> QED BY <3>1, <3>6, <3>7, <2>3, <1>5
  <2> QED BY <2>1, <2>2, <2>3, <1>5
<1>15. HomeContiguous'
  <2> SUFFICES ASSUME NEW h \in Device, NEW x \in EnvsOf[h], SoleWriter(x),
                      NEW s \in 1 .. (clock'[h][x].next - 1)
               PROVE  s \in Seqs(h, x)'
    BY DEF HomeContiguous, SoleWriter
  <2>1. clock'[h][x].next = clock[h][x].next
    <3>1. CASE h # d
      BY <3>1, <1>5
    <3>2. CASE h = d
      <4>1. f.env # x
        <5>1. SUFFICES ASSUME f.env = x PROVE FALSE
          OBVIOUS
        <5>2. f \in facts[d]
          BY <5>1, <3>2 DEF StoreInv, HeldAtHome, SoleWriter
        <5> QED BY <5>2, <1>1 DEF Known, Ids
      <4> QED BY <4>1, <3>2, <1>4, <1>5
    <3> QED BY <3>1, <3>2
  <2>2. s \in Seqs(h, x)
    BY <2>1 DEF StoreInv, HomeContiguous
  <2> QED BY <2>2, <1>7 DEF Seqs
<1>16. SeqUniqueInStore'
  BY <1>1, <1>5 DEF StoreInv, SeqUniqueInStore, SeqTaken
<1> QED BY <1>9, <1>10, <1>11, <1>12, <1>13, <1>14, <1>15, <1>16 DEF StoreInv

LEMMA NextInv == StoreInv /\ [StoreNext]_storeVars => StoreInv'
<1> SUFFICES ASSUME StoreInv, [StoreNext]_storeVars PROVE StoreInv'
  OBVIOUS
<1>1. CASE \E d \in Device, e \in EnvId, id \in FactId, w \in Times : WriteFact(d, e, id, w)
  BY <1>1, AppendInv
<1>2. CASE \E d, from \in Device : \E f \in facts[from] : Receive(d, f)
  BY <1>2, ReceiveInv
<1>3. CASE StoreTick
  <2>1. now' \in Nat /\ facts' = facts /\ clock' = clock
    BY <1>3, StoreAssumption DEF StoreTick, StoreInv, StoreTypeOK
  <2> QED BY <2>1 DEF StoreInv, StoreTypeOK, IdsUnique, HeldAtHome, RowsWellFormed,
                      ClockCovers, HomeContiguous, EnvStreamOrdered, SeqUniqueInStore, Seqs, SoleWriter
<1>4. CASE UNCHANGED storeVars
  BY <1>4 DEF storeVars, StoreInv, StoreTypeOK, IdsUnique, HeldAtHome, RowsWellFormed,
              ClockCovers, HomeContiguous, EnvStreamOrdered, SeqUniqueInStore, Seqs, SoleWriter
<1> QED BY <1>1, <1>2, <1>3, <1>4 DEF StoreNext

\* The invariant gives what the runs check.
LEMMA InvImplies == StoreInv => EnvStreamOrdered /\ GapsAreReal /\ OnlyNamesakesCollide
<1> SUFFICES ASSUME StoreInv PROVE GapsAreReal /\ OnlyNamesakesCollide
  BY DEF StoreInv
<1>1. GapsAreReal
  <2> SUFFICES ASSUME NEW d \in Device, NEW home \in Device, NEW e \in EnvsOf[home], SoleWriter(e),
                      NEW s \in InteriorMissing(d, e)
               PROVE  s \in Seqs(home, e)
    BY DEF GapsAreReal
  <2>1. PICK a \in Seqs(d, e), b \in Seqs(d, e) : s \in a .. b
    <3> DEFINE Spans == {a .. b : a, b \in Seqs(d, e)}
    <3>1. PICK R \in Spans : s \in R
      <4> HIDE DEF Spans
      <4>1. s \in UNION Spans
        BY DEF InteriorMissing, Spans
      <4> QED BY <4>1
    <3>2. PICK a, b \in Seqs(d, e) : R = a .. b
      OBVIOUS
    <3> QED BY <3>1, <3>2
  <2>2. PICK f \in facts[d], g \in facts[d] :
          f.env = e /\ f.seq = a /\ g.env = e /\ g.seq = b
    BY <2>1 DEF Seqs
  <2>3. f \in Fact /\ g \in Fact
    BY DEF StoreInv, StoreTypeOK
  <2>4. g \in facts[home]
    BY <2>2 DEF StoreInv, HeldAtHome, SoleWriter
  <2>5. b < clock[home][e].next
    BY <2>2, <2>4 DEF StoreInv, ClockCovers
  <2>6. clock[home][e].next \in Nat
    BY StoreAssumption DEF StoreInv, StoreTypeOK, EnvClock
  <2>7. s \in 1 .. (clock[home][e].next - 1)
    BY <2>1, <2>2, <2>3, <2>5, <2>6 DEF Fact
  <2> QED BY <2>7 DEF StoreInv, HomeContiguous
<1>2. ASSUME NEW d \in Device, NEW e \in EnvsOf[d], NEW f \in facts[d], f.env = e
      PROVE  f.seq < NextSeq(d, e)
  <2>1. f.seq < clock[d][e].next /\ f.seq \in Nat /\ f.seq > 0 /\ e \in EnvId /\ clock[d][e].next \in Nat
    BY <1>2, StoreAssumption DEF StoreInv, ClockCovers, StoreTypeOK, Fact, EnvClock
  <2>2. clock[d][e] # NoRow
    BY <2>1 DEF NoRow
  <2>3. nextFactClock(clock[d][e], 1).next = clock[d][e].next + 1
    BY <2>2 DEF nextFactClock
  <2> QED BY <2>1, <2>3 DEF NextSeq
<1>3. ASSUME NEW d \in Device, NEW from \in Device, NEW f \in facts[from], ~Known(d, f), SeqTaken(d, f), SoleWriter(f.env)
      PROVE  FALSE
  <2>1. PICK g \in facts[d] : g.env = f.env /\ g.seq = f.seq
    BY <1>3 DEF SeqTaken
  <2>2. g = f
    BY <1>3, <2>1 DEF StoreInv, EnvStreamOrdered
  <2> QED BY <1>3, <2>2 DEF Known, Ids
<1> QED BY <1>1, <1>2, <1>3 DEF OnlyNamesakesCollide

----------------------------------------------------------------------------

\* The facts table and the environment clocks keep their types (fact.go,
\* fact_receive.go), for every number of devices and any clock readings.
THEOREM StoreTyped == StoreSpec => []StoreTypeOK
<1>1. StoreInv => StoreTypeOK
  BY DEF StoreInv
<1> QED BY <1>1, InitInv, NextInv, PTL DEF StoreSpec

\* In a stream only one device writes, a sequence number names one fact on all
\* devices and stamps rise with sequence numbers, although host clocks may step
\* back and facts travel in any order (nextFactClockTx, ReceiveFact).
THEOREM EnvStreamsOrdered == StoreSpec => []EnvStreamOrdered
BY InitInv, NextInv, InvImplies, PTL DEF StoreSpec

\* A gap DetectEnvSeqGaps reports is a fact its environment did write and this
\* device lacks.
THEOREM ReportedGapsAreReal == StoreSpec => []GapsAreReal
BY InitInv, NextInv, InvImplies, PTL DEF StoreSpec

\* No append meets the unique index on (project_id, env_id, seq), even when
\* several devices share a host name, and a receive meets it only for an environment
\* several devices write (nextFactClockTx, reconcileEnvClockAfterReceiveTx).
THEOREM AppendsNeverCollide == StoreSpec => []OnlyNamesakesCollide
BY InitInv, NextInv, InvImplies, PTL DEF StoreSpec
----------------------------------------------------------------------------
(* The relay and the passes. *)

LEMMA SyncInitInv == Init => SyncInv
<1> SUFFICES ASSUME Init PROVE SyncInv
  OBVIOUS
<1> USE SyncAssumption DEF Init
<1>1. StoreInv
  BY InitInv
<1>2. TypeOK
  BY <1>1 DEF TypeOK, StoreInv, Steps
<1>3. FiniteBatches
  BY FS_EmptySet DEF FiniteBatches, StoreInit
<1>4. CarriedIsWritten /\ ArrivalsBelowNext
  BY DEF CarriedIsWritten, ArrivalsBelowNext
<1>5. SeenSound /\ PageSound /\ CursorSound /\ RelayRowsDistinct
  BY DEF SeenSound, PageSound, CursorSound, RelayRowsDistinct, Pulling, Receiving
<1>6. ToMarkIsOnRelay /\ PushedIsOnRelay
  BY DEF ToMarkIsOnRelay, PushedIsOnRelay
<1> QED BY <1>1, <1>2, <1>3, <1>4, <1>5, <1>6 DEF SyncInv

----------------------------------------------------------------------------
(* The actions that do not number or receive facts. *)

\* AppendFact commits: one store gains a fact; nothing carries it yet.
LEMMA AppendFactStep ==
  ASSUME SyncInv, StoreInv', NEW d \in Device, NEW e \in EnvId, NEW id \in FactId,
         NEW w \in Readings, AppendFact(d, e, id, w)
  PROVE  SyncInv'
<1> USE SyncAssumption, StoreAssumption
<1> USE DEF AppendFact, WriteFact, appendFactTx, deviceVars, relayVars, procVars, Pulling, Receiving
<1>1. TypeOK'
  BY DEF SyncInv, TypeOK, StoreInv, StoreTypeOK, Blob, Steps
<1>2. FiniteBatches'
  <2>1. PICK f : facts' = [facts EXCEPT ![d] = @ \cup {f}]
    OBVIOUS
  <2>2. facts'[d] = facts[d] \cup {f} /\ \A c \in Device : c # d => facts'[c] = facts[c]
    BY <2>1 DEF SyncInv, TypeOK, StoreTypeOK
  <2>3. IsFiniteSet(facts'[d])
    BY <2>2, FS_AddElement DEF SyncInv, FiniteBatches
  <2> QED BY <2>2, <2>3 DEF SyncInv, FiniteBatches
<1>3. /\ CarriedIsWritten' /\ ArrivalsBelowNext' /\ SeenSound'
      /\ PageSound' /\ CursorSound' /\ ToMarkIsOnRelay'
      /\ PushedIsOnRelay' /\ RelayRowsDistinct'
  BY DEF SyncInv, TypeOK, CarriedIsWritten, StoreTypeOK, Written,
         ArrivalsBelowNext, Blob, SeenSound, CursorSound, PageSound,
         ToMarkIsOnRelay, PushedIsOnRelay, RelayRowsDistinct
<1> QED BY <1>1, <1>2, <1>3 DEF SyncInv

\* A writer appends in a transaction of its own.
LEMMA AppendInTxStep ==
  ASSUME SyncInv, StoreInv', NEW d \in Device, NEW e \in EnvId, NEW id \in FactId,
         NEW w \in Times, AppendInTx(d, e, id, w)
  PROVE  SyncInv'
<1> USE SyncAssumption, StoreAssumption
<1> USE DEF AppendInTx, WriteFact, appendFactTx, deviceVars, relayVars, procVars, Pulling, Receiving
<1>1. TypeOK'
  BY DEF SyncInv, TypeOK, StoreInv, StoreTypeOK, Blob, Steps
<1>2. FiniteBatches'
  <2>1. PICK f : facts' = [facts EXCEPT ![d] = @ \cup {f}]
    OBVIOUS
  <2>2. facts'[d] = facts[d] \cup {f} /\ \A c \in Device : c # d => facts'[c] = facts[c]
    BY <2>1 DEF SyncInv, TypeOK, StoreTypeOK
  <2>3. IsFiniteSet(facts'[d])
    BY <2>2, FS_AddElement DEF SyncInv, FiniteBatches
  <2> QED BY <2>2, <2>3 DEF SyncInv, FiniteBatches
<1>3. /\ CarriedIsWritten' /\ ArrivalsBelowNext' /\ SeenSound'
      /\ PageSound' /\ CursorSound' /\ ToMarkIsOnRelay'
      /\ PushedIsOnRelay' /\ RelayRowsDistinct'
  BY DEF SyncInv, TypeOK, CarriedIsWritten, StoreTypeOK, Written,
         ArrivalsBelowNext, Blob, SeenSound, CursorSound, PageSound,
         ToMarkIsOnRelay, PushedIsOnRelay, RelayRowsDistinct
<1> QED BY <1>1, <1>2, <1>3 DEF SyncInv

\* The enqueue hook runs.
LEMMA EnqueueStep ==
  ASSUME SyncInv, StoreInv', NEW d \in Device, NEW id \in FactId, EnqueueOutboundFact(d, id)
  PROVE  SyncInv'
<1> USE SyncAssumption, StoreAssumption
<1> USE DEF EnqueueOutboundFact, deviceVars, relayVars, procVars, Pulling, Receiving
<1>1. TypeOK'
  BY DEF SyncInv, TypeOK, StoreInv, StoreTypeOK, Blob, Steps
<1>2. /\ FiniteBatches' /\ CarriedIsWritten' /\ ArrivalsBelowNext'
      /\ SeenSound' /\ PageSound' /\ CursorSound'
      /\ ToMarkIsOnRelay' /\ PushedIsOnRelay' /\ RelayRowsDistinct'
  BY FS_EmptySet DEF SyncInv, TypeOK, FiniteBatches, StoreTypeOK, CarriedIsWritten,
         Written, ArrivalsBelowNext, Blob, SeenSound, CursorSound, PageSound,
         ToMarkIsOnRelay, PushedIsOnRelay, RelayRowsDistinct
<1> QED BY <1>1, <1>2 DEF SyncInv

\* The enqueue hook never runs.
LEMMA AppendInterruptedStep ==
  ASSUME SyncInv, StoreInv', NEW d \in Device, NEW id \in FactId, AppendInterrupted(d, id)
  PROVE  SyncInv'
<1> USE SyncAssumption, StoreAssumption
<1> USE DEF AppendInterrupted, deviceVars, relayVars, procVars, Pulling, Receiving
<1>1. TypeOK'
  BY DEF SyncInv, TypeOK, StoreInv, StoreTypeOK, Blob, Steps
<1>2. /\ FiniteBatches' /\ CarriedIsWritten' /\ ArrivalsBelowNext'
      /\ SeenSound' /\ PageSound' /\ CursorSound'
      /\ ToMarkIsOnRelay' /\ PushedIsOnRelay' /\ RelayRowsDistinct'
  BY FS_EmptySet DEF SyncInv, TypeOK, FiniteBatches, StoreTypeOK, CarriedIsWritten,
         Written, ArrivalsBelowNext, Blob, SeenSound, CursorSound, PageSound,
         ToMarkIsOnRelay, PushedIsOnRelay, RelayRowsDistinct
<1> QED BY <1>1, <1>2 DEF SyncInv

\* A pass starts.
LEMMA StartPassStep ==
  ASSUME SyncInv, StoreInv', NEW p \in Proc, StartPass(p)
  PROVE  SyncInv'
<1> USE SyncAssumption, StoreAssumption
<1> USE DEF StartPass, Pending, deviceVars, relayVars, procVars, Pulling, Receiving
<1>1. TypeOK'
  <2>1. Pending(DeviceOf[p]) \subseteq Fact
    <3>1. facts \in [Device -> SUBSET Fact] /\ DeviceOf[p] \in Device
      BY DEF SyncInv, TypeOK, StoreTypeOK
    <3> HIDE DEF StartPass
    <3> QED BY <3>1
  <2>2. batch' \in [Proc -> SUBSET Fact]
    BY <2>1 DEF SyncInv, TypeOK
  <2>3. pc' \in [Proc -> Steps]
    BY DEF SyncInv, TypeOK, Steps
  <2> QED BY <2>2, <2>3 DEF SyncInv, TypeOK, StoreInv
<1>2. FiniteBatches'
  <2>1. IsFiniteSet(facts[DeviceOf[p]])
    BY DEF SyncInv, FiniteBatches
  <2>2. IsFiniteSet(batch'[p])
    BY <2>1, FS_Subset DEF SyncInv, TypeOK
  <2> QED BY <2>2 DEF SyncInv, TypeOK, FiniteBatches
<1>3. CarriedIsWritten'
  <2>1. facts[DeviceOf[p]] \subseteq Written
    BY DEF Written
  <2>2. batch'[p] \subseteq Written
    BY <2>1 DEF SyncInv, TypeOK
  <2> QED BY <2>2 DEF SyncInv, TypeOK, CarriedIsWritten, Written
<1>4. /\ ArrivalsBelowNext' /\ SeenSound' /\ PageSound'
      /\ CursorSound' /\ ToMarkIsOnRelay' /\ PushedIsOnRelay'
      /\ RelayRowsDistinct'
  BY DEF SyncInv, TypeOK, ArrivalsBelowNext, StoreTypeOK, Blob, SeenSound,
         CursorSound, PageSound, ToMarkIsOnRelay, PushedIsOnRelay, RelayRowsDistinct
<1> QED BY <1>1, <1>2, <1>3, <1>4 DEF SyncInv

\* The relay refuses a batch.
LEMMA PushRefusedStep ==
  ASSUME SyncInv, StoreInv', NEW p \in Proc, PushRefused(p)
  PROVE  SyncInv'
<1> USE SyncAssumption, StoreAssumption
<1> USE DEF PushRefused, Forget, deviceVars, relayVars, procVars, Pulling, Receiving
<1>1. TypeOK'
  BY DEF SyncInv, TypeOK, StoreInv, StoreTypeOK, Blob, Steps
<1>2. /\ FiniteBatches' /\ CarriedIsWritten' /\ ArrivalsBelowNext'
      /\ SeenSound' /\ PageSound' /\ CursorSound'
      /\ ToMarkIsOnRelay' /\ PushedIsOnRelay' /\ RelayRowsDistinct'
  BY FS_EmptySet DEF SyncInv, TypeOK, FiniteBatches, StoreTypeOK, CarriedIsWritten,
         Written, ArrivalsBelowNext, Blob, SeenSound, CursorSound, PageSound,
         ToMarkIsOnRelay, PushedIsOnRelay, RelayRowsDistinct
<1> QED BY <1>1, <1>2 DEF SyncInv

\* A pass marks one id.
LEMMA MarkPushedStep ==
  ASSUME SyncInv, StoreInv', NEW p \in Proc, NEW id \in FactId, MarkPushed(p, id)
  PROVE  SyncInv'
<1> USE SyncAssumption, StoreAssumption
<1> USE DEF MarkPushed, deviceVars, relayVars, procVars, Pulling, Receiving
<1>1. TypeOK'
  BY DEF SyncInv, TypeOK, StoreInv, StoreTypeOK, Blob, Steps
<1>2. ToMarkIsOnRelay'
  BY DEF SyncInv, TypeOK, ToMarkIsOnRelay, StoreTypeOK
<1>3. PushedIsOnRelay'
  BY DEF SyncInv, TypeOK, PushedIsOnRelay, ToMarkIsOnRelay, StoreTypeOK
<1>4. /\ FiniteBatches' /\ CarriedIsWritten' /\ ArrivalsBelowNext'
      /\ SeenSound' /\ PageSound' /\ CursorSound'
      /\ RelayRowsDistinct'
  BY FS_EmptySet DEF SyncInv, TypeOK, FiniteBatches, StoreTypeOK, CarriedIsWritten,
         Written, ArrivalsBelowNext, Blob, SeenSound, CursorSound, PageSound,
         RelayRowsDistinct
<1> QED BY <1>1, <1>2, <1>3, <1>4 DEF SyncInv

\* A pass reads the stored cursor.
LEMMA StartPullStep ==
  ASSUME SyncInv, StoreInv', NEW p \in Proc, StartPull(p)
  PROVE  SyncInv'
<1> USE SyncAssumption, StoreAssumption
<1> USE DEF StartPull, deviceVars, relayVars, procVars, Pulling, Receiving
<1>1. TypeOK'
  BY DEF SyncInv, TypeOK, StoreInv, StoreTypeOK, Blob, Steps
<1>2. ArrivalsBelowNext'
  BY DEF SyncInv, TypeOK, ArrivalsBelowNext, StoreTypeOK, Blob
<1>3. SeenSound'
  BY DEF SyncInv, TypeOK, SeenSound, CursorSound, StoreTypeOK
<1>4. /\ FiniteBatches' /\ CarriedIsWritten' /\ PageSound'
      /\ CursorSound' /\ ToMarkIsOnRelay' /\ PushedIsOnRelay'
      /\ RelayRowsDistinct'
  BY FS_EmptySet DEF SyncInv, TypeOK, FiniteBatches, StoreTypeOK, CarriedIsWritten,
         Written, PageSound, SeenSound, CursorSound, ToMarkIsOnRelay,
         PushedIsOnRelay, RelayRowsDistinct
<1> QED BY <1>1, <1>2, <1>3, <1>4 DEF SyncInv

\* The relay answers a pull.
LEMMA PullFactsSinceStep ==
  ASSUME SyncInv, StoreInv', NEW p \in Proc, PullFactsSince(p)
  PROVE  SyncInv'
<1> USE SyncAssumption, StoreAssumption
<1> USE DEF PullFactsSince, deviceVars, relayVars, procVars, Pulling, Receiving
<1>1. TypeOK'
  BY DEF SyncInv, TypeOK, StoreInv, StoreTypeOK, Blob, Steps
<1>2. CarriedIsWritten'
  BY DEF SyncInv, TypeOK, CarriedIsWritten, StoreTypeOK, Written
<1>3. ArrivalsBelowNext'
  BY DEF SyncInv, TypeOK, ArrivalsBelowNext, StoreTypeOK, Blob
<1>4. PageSound'
  <2> SUFFICES ASSUME NEW q \in Proc, Receiving(q)',
                      NEW c \in page'[q], NEW b \in blobs', b.arrival <= c.arrival
               PROVE  b \in page'[q] \/ b.fact \in facts'[DeviceOf[q]]
    BY DEF PageSound
  <2>1. CASE q = p
    <3>1. page'[p] = {x \in blobs : x.arrival > seen[p]} /\ pc[p] = "pulling"
      BY DEF SyncInv, TypeOK
    <3>2. b \in blobs /\ b.arrival \in Nat /\ seen[p] \in Nat
      BY DEF SyncInv, TypeOK, Blob
    <3> QED BY <2>1, <3>1, <3>2 DEF SyncInv, SeenSound
  <2>2. CASE q # p
    BY <2>2 DEF SyncInv, TypeOK, PageSound
  <2> QED BY <2>1, <2>2
<1>5. /\ FiniteBatches' /\ SeenSound' /\ CursorSound'
      /\ ToMarkIsOnRelay' /\ PushedIsOnRelay' /\ RelayRowsDistinct'
  BY FS_EmptySet DEF SyncInv, TypeOK, FiniteBatches, StoreTypeOK, SeenSound,
         CursorSound, ToMarkIsOnRelay, PushedIsOnRelay, RelayRowsDistinct
<1> QED BY <1>1, <1>2, <1>3, <1>4, <1>5 DEF SyncInv

\* An attach starts at the beginning of the stream.
LEMMA StartAttachStep ==
  ASSUME SyncInv, StoreInv', NEW p \in Proc, StartAttach(p)
  PROVE  SyncInv'
<1> USE SyncAssumption, StoreAssumption
<1> USE DEF StartAttach, deviceVars, relayVars, procVars, Pulling, Receiving
<1>1. TypeOK'
  BY DEF SyncInv, TypeOK, StoreInv, StoreTypeOK, Blob, Steps
<1>2. ArrivalsBelowNext'
  BY DEF SyncInv, TypeOK, ArrivalsBelowNext, StoreTypeOK, Blob
<1>3. SeenSound'
  BY DEF SyncInv, TypeOK, SeenSound, Blob
<1>4. /\ FiniteBatches' /\ CarriedIsWritten' /\ PageSound'
      /\ CursorSound' /\ ToMarkIsOnRelay' /\ PushedIsOnRelay'
      /\ RelayRowsDistinct'
  BY FS_EmptySet DEF SyncInv, TypeOK, FiniteBatches, StoreTypeOK, CarriedIsWritten,
         Written, PageSound, SeenSound, CursorSound, ToMarkIsOnRelay,
         PushedIsOnRelay, RelayRowsDistinct
<1> QED BY <1>1, <1>2, <1>3, <1>4 DEF SyncInv

\* The relay answers an attach: with nothing, which ends it, or with a page.
LEMMA ProbeRemoteStep ==
  ASSUME SyncInv, StoreInv', NEW p \in Proc, ProbeRemote(p)
  PROVE  SyncInv'
<1> DEFINE P == {x \in blobs : x.arrival > seen[p]}
<1> USE SyncAssumption, StoreAssumption
<1> USE DEF deviceVars, relayVars, procVars, Pulling, Receiving
<1>1. CASE P = {}
  <2>1. /\ pc[p] = "probing" /\ Forget(p)
        /\ UNCHANGED <<deviceVars, relayVars, late, now, interruptions>>
    BY <1>1 DEF ProbeRemote
  <2> USE <2>1 DEF Forget
  <2>2. TypeOK'
    BY DEF SyncInv, TypeOK, StoreInv, StoreTypeOK, Blob, Steps
  <2>3. /\ FiniteBatches' /\ CarriedIsWritten' /\ ArrivalsBelowNext'
        /\ SeenSound' /\ PageSound' /\ CursorSound'
        /\ ToMarkIsOnRelay' /\ PushedIsOnRelay' /\ RelayRowsDistinct'
    BY FS_EmptySet DEF SyncInv, TypeOK, FiniteBatches, StoreTypeOK, CarriedIsWritten,
           Written, ArrivalsBelowNext, Blob, SeenSound, CursorSound, PageSound,
           ToMarkIsOnRelay, PushedIsOnRelay, RelayRowsDistinct
  <2> QED BY <2>2, <2>3 DEF SyncInv
<1>2. CASE P # {}
  <2>1. /\ pc[p] = "probing"
        /\ page' = [page EXCEPT ![p] = {x \in blobs : x.arrival > seen[p]}]
        /\ pc' = [pc EXCEPT ![p] = "checking"]
        /\ UNCHANGED <<batch, toMark, seen, deviceVars, relayVars, late, now, interruptions>>
    BY <1>2 DEF ProbeRemote
  <2> USE <2>1
  <2>2. TypeOK'
    BY DEF SyncInv, TypeOK, StoreInv, StoreTypeOK, Blob, Steps
  <2>3. CarriedIsWritten'
    BY DEF SyncInv, TypeOK, CarriedIsWritten, StoreTypeOK, Written
  <2>4. ArrivalsBelowNext'
    BY DEF SyncInv, TypeOK, ArrivalsBelowNext, StoreTypeOK, Blob
  <2>5. PageSound'
    <3> SUFFICES ASSUME NEW q \in Proc, Receiving(q)',
                        NEW c \in page'[q], NEW b \in blobs', b.arrival <= c.arrival
                 PROVE  b \in page'[q] \/ b.fact \in facts'[DeviceOf[q]]
      BY DEF PageSound
    <3>1. CASE q = p
      <4>1. page'[p] = {x \in blobs : x.arrival > seen[p]}
        BY DEF SyncInv, TypeOK
      <4>2. b \in blobs /\ b.arrival \in Nat /\ seen[p] \in Nat
        BY DEF SyncInv, TypeOK, Blob
      <4> QED BY <3>1, <4>1, <4>2 DEF SyncInv, SeenSound
    <3>2. CASE q # p
      BY <3>2 DEF SyncInv, TypeOK, PageSound
    <3> QED BY <3>1, <3>2
  <2>6. /\ FiniteBatches' /\ SeenSound' /\ CursorSound'
        /\ ToMarkIsOnRelay' /\ PushedIsOnRelay' /\ RelayRowsDistinct'
    BY FS_EmptySet DEF SyncInv, TypeOK, FiniteBatches, StoreTypeOK, SeenSound,
           CursorSound, ToMarkIsOnRelay, PushedIsOnRelay, RelayRowsDistinct
  <2> QED BY <2>2, <2>3, <2>4, <2>5, <2>6 DEF SyncInv
<1> QED BY <1>1, <1>2

\* A receive ends the pass.
LEMMA ReceiveRefusedStep ==
  ASSUME SyncInv, StoreInv', NEW p \in Proc, NEW b \in page[p], ReceiveRefused(p, b)
  PROVE  SyncInv'
<1> USE SyncAssumption, StoreAssumption
<1> USE DEF ReceiveRefused, Forget, deviceVars, relayVars, procVars, Pulling, Receiving
<1>1. TypeOK'
  BY DEF SyncInv, TypeOK, StoreInv, StoreTypeOK, Blob, Steps
<1>2. /\ FiniteBatches' /\ CarriedIsWritten' /\ ArrivalsBelowNext'
      /\ SeenSound' /\ PageSound' /\ CursorSound'
      /\ ToMarkIsOnRelay' /\ PushedIsOnRelay' /\ RelayRowsDistinct'
  BY FS_EmptySet DEF SyncInv, TypeOK, FiniteBatches, StoreTypeOK, CarriedIsWritten,
         Written, ArrivalsBelowNext, Blob, SeenSound, CursorSound, PageSound,
         ToMarkIsOnRelay, PushedIsOnRelay, RelayRowsDistinct
<1> QED BY <1>1, <1>2 DEF SyncInv

\* A pass stores its cursor.
LEMMA WriteCursorStep ==
  ASSUME SyncInv, StoreInv', NEW p \in Proc, WriteCursor(p)
  PROVE  SyncInv'
<1> USE SyncAssumption, StoreAssumption
<1> USE DEF WriteCursor, Forget, deviceVars, relayVars, procVars, Pulling, Receiving
<1>1. TypeOK'
  BY DEF SyncInv, TypeOK, StoreInv, StoreTypeOK, Blob, Steps
<1>2. ArrivalsBelowNext'
  BY DEF SyncInv, TypeOK, ArrivalsBelowNext, StoreTypeOK, Blob
<1>3. CursorSound'
  BY DEF SyncInv, TypeOK, CursorSound, SeenSound, StoreTypeOK
<1>4. /\ FiniteBatches' /\ CarriedIsWritten' /\ SeenSound'
      /\ PageSound' /\ ToMarkIsOnRelay' /\ PushedIsOnRelay'
      /\ RelayRowsDistinct'
  BY FS_EmptySet DEF SyncInv, TypeOK, FiniteBatches, StoreTypeOK, CarriedIsWritten,
         Written, SeenSound, CursorSound, PageSound, ToMarkIsOnRelay,
         PushedIsOnRelay, RelayRowsDistinct
<1> QED BY <1>1, <1>2, <1>3, <1>4 DEF SyncInv

\* A pass is cut short.
LEMMA PassInterruptedStep ==
  ASSUME SyncInv, StoreInv', NEW p \in Proc, PassInterrupted(p)
  PROVE  SyncInv'
<1> USE SyncAssumption, StoreAssumption
<1> USE DEF PassInterrupted, Forget, deviceVars, relayVars, procVars, Pulling, Receiving
<1>1. TypeOK'
  BY DEF SyncInv, TypeOK, StoreInv, StoreTypeOK, Blob, Steps
<1>2. FiniteBatches'
  BY FS_EmptySet DEF SyncInv, TypeOK, FiniteBatches, StoreTypeOK
<1>3. CarriedIsWritten'
  BY DEF SyncInv, TypeOK, CarriedIsWritten, StoreTypeOK, Written
<1>4. /\ ArrivalsBelowNext' /\ SeenSound' /\ PageSound'
      /\ CursorSound' /\ ToMarkIsOnRelay' /\ PushedIsOnRelay'
      /\ RelayRowsDistinct'
  BY DEF SyncInv, TypeOK, ArrivalsBelowNext, StoreTypeOK, Blob, SeenSound,
         CursorSound, PageSound, ToMarkIsOnRelay, PushedIsOnRelay, RelayRowsDistinct
<1> QED BY <1>1, <1>2, <1>3, <1>4 DEF SyncInv

\* An administrator deletes a blob.
LEMMA DeleteFactStep ==
  ASSUME SyncInv, StoreInv', NEW b \in blobs, DeleteFact(b)
  PROVE  SyncInv'
<1> USE SyncAssumption, StoreAssumption
<1> USE DEF DeleteFact, deviceVars, relayVars, procVars, Pulling, Receiving
<1>1. TypeOK'
  BY DEF SyncInv, TypeOK, StoreInv, StoreTypeOK, Blob, Steps
<1>2. ToMarkIsOnRelay'
  BY DEF SyncInv, TypeOK, ToMarkIsOnRelay, StoreTypeOK
<1>3. PushedIsOnRelay'
  BY DEF SyncInv, TypeOK, PushedIsOnRelay, ToMarkIsOnRelay, StoreTypeOK
<1>4. /\ FiniteBatches' /\ CarriedIsWritten' /\ ArrivalsBelowNext'
      /\ SeenSound' /\ PageSound' /\ CursorSound'
      /\ RelayRowsDistinct'
  BY FS_EmptySet DEF SyncInv, TypeOK, FiniteBatches, StoreTypeOK, CarriedIsWritten,
         Written, ArrivalsBelowNext, Blob, SeenSound, CursorSound, PageSound,
         RelayRowsDistinct
<1> QED BY <1>1, <1>2, <1>3, <1>4 DEF SyncInv

\* Time passes.
LEMMA TickStep ==
  ASSUME SyncInv, StoreInv', Tick
  PROVE  SyncInv'
<1> USE SyncAssumption, StoreAssumption
<1> USE DEF Tick, StoreTick, deviceVars, relayVars, procVars, Pulling, Receiving
<1>1. TypeOK'
  BY DEF SyncInv, TypeOK, StoreInv, StoreTypeOK, Blob, Steps
<1>2. /\ FiniteBatches' /\ CarriedIsWritten' /\ ArrivalsBelowNext'
      /\ SeenSound' /\ PageSound' /\ CursorSound'
      /\ ToMarkIsOnRelay' /\ PushedIsOnRelay' /\ RelayRowsDistinct'
  BY FS_EmptySet DEF SyncInv, TypeOK, FiniteBatches, StoreTypeOK, CarriedIsWritten,
         Written, ArrivalsBelowNext, Blob, SeenSound, CursorSound, PageSound,
         ToMarkIsOnRelay, PushedIsOnRelay, RelayRowsDistinct
<1> QED BY <1>1, <1>2 DEF SyncInv
----------------------------------------------------------------------------
(* Numbering facts on the relay. *)

\* PushFacts of a finite batch of written facts: the rows stay, each fact of the
\* batch has a row afterwards, and each new row has a number of its own, at or
\* past the number that was next.
LEMMA PushFactsNumbers ==
  ASSUME SyncInv, NEW B, IsFiniteSet(B), B \subseteq Written, PushFacts(B)
  PROVE  /\ nextSeq' \in Nat \ {0} /\ nextSeq <= nextSeq'
         /\ blobs \subseteq blobs' /\ blobs' \in SUBSET Blob
         /\ \A b \in blobs' \ blobs : /\ b.fact \in B
                                      /\ nextSeq <= b.arrival /\ b.arrival < nextSeq'
         /\ Ids(B) \subseteq {b.fact.id : b \in blobs'}
         /\ RelayRowsDistinct'
<1> DEFINE New == NewTo(B)
           n   == Cardinality(New)
<1>1. PICK place \in [New -> 1 .. n] :
        /\ \A f, g \in New : place[f] = place[g] => f = g
        /\ blobs' = blobs \cup
             {[fact |-> f, arrival |-> nextSeq + place[f] - 1] : f \in New}
        /\ nextSeq' = nextSeq + n
  BY DEF PushFacts
<1>2. New \subseteq B /\ \A f \in New : \A b \in blobs : b.fact.id # f.id
  BY DEF NewTo
<1>3. n \in Nat
  BY <1>2, FS_Subset, FS_CardinalityType
<1>4. \A f \in B : f \in Fact /\ \A g \in B : f.id = g.id => f = g
  BY DEF SyncInv, StoreInv, StoreTypeOK, IdsUnique, Written
<1>5. nextSeq \in Nat \ {0} /\ blobs \in SUBSET Blob
  BY DEF SyncInv, TypeOK
<1> HIDE DEF New, n
<1>6. \A f \in New : place[f] \in Nat /\ 1 <= place[f] /\ place[f] <= n
  BY <1>3
<1>7. nextSeq' \in Nat \ {0} /\ nextSeq <= nextSeq' /\ blobs \subseteq blobs'
  BY <1>1, <1>3, <1>5
<1>8. ASSUME NEW b \in blobs', b \notin blobs
      PROVE  \E f \in New : b = [fact |-> f, arrival |-> nextSeq + place[f] - 1]
  BY <1>1, <1>8
<1>9. \A b \in blobs' \ blobs : /\ b.fact \in B /\ b \in Blob
                                /\ nextSeq <= b.arrival /\ b.arrival < nextSeq'
  BY <1>1, <1>2, <1>3, <1>4, <1>5, <1>6, <1>8 DEF Blob
<1>10. blobs' \in SUBSET Blob
  BY <1>5, <1>9
<1>11. Ids(B) \subseteq {b.fact.id : b \in blobs'}
  <2> SUFFICES ASSUME NEW f \in B PROVE \E b \in blobs' : b.fact.id = f.id
    BY DEF Ids
  <2>1. CASE f \in New
    <3>1. [fact |-> f, arrival |-> nextSeq + place[f] - 1] \in blobs'
      BY <2>1, <1>1
    <3> QED BY <3>1
  <2>2. CASE f \notin New
    BY <2>2, <1>7 DEF New, NewTo
  <2> QED BY <2>1, <2>2
<1>12. RelayRowsDistinct'
  <2> SUFFICES ASSUME NEW b \in blobs', NEW c \in blobs',
                      b.fact.id = c.fact.id \/ b.arrival = c.arrival
               PROVE  b = c
    BY DEF RelayRowsDistinct
  <2>1. \A x \in blobs : x.arrival \in Nat /\ x.arrival < nextSeq
    BY DEF SyncInv, TypeOK, ArrivalsBelowNext, Blob
  <2>2. CASE b \in blobs /\ c \in blobs
    BY <2>2 DEF SyncInv, RelayRowsDistinct
  <2>3. CASE b \in blobs /\ c \notin blobs
    BY <2>1, <2>3, <1>2, <1>5, <1>6, <1>8
  <2>4. CASE b \notin blobs /\ c \in blobs
    BY <2>1, <2>4, <1>2, <1>5, <1>6, <1>8
  <2>5. CASE b \notin blobs /\ c \notin blobs
    <3>1. PICK f \in New : b = [fact |-> f, arrival |-> nextSeq + place[f] - 1]
      BY <2>5, <1>8
    <3>2. PICK g \in New : c = [fact |-> g, arrival |-> nextSeq + place[g] - 1]
      BY <2>5, <1>8
    <3>3. f = g
      BY <3>1, <3>2, <1>1, <1>2, <1>4, <1>5, <1>6
    <3> QED BY <3>1, <3>2, <3>3
  <2> QED BY <2>2, <2>3, <2>4, <2>5
<1> QED BY <1>7, <1>9, <1>10, <1>11, <1>12

\* New rows disturb no cursor: their numbers lie past all of them.
LEMMA NumberingKeepsCursors ==
  ASSUME SyncInv, NEW B, IsFiniteSet(B), B \subseteq Written, PushFacts(B),
         UNCHANGED <<facts, cursor, seen, page, deleted>>
  PROVE  /\ ArrivalsBelowNext' /\ CursorSound'
         /\ \A p \in Proc : pc'[p] = pc[p] =>
              /\ pc[p] \in Pulling =>
                   \A b \in blobs' : b.arrival <= seen[p] => b.fact \in facts[DeviceOf[p]]
              /\ Receiving(p) =>
                   \A c \in page[p] : \A b \in blobs' : b.arrival <= c.arrival =>
                     b \in page[p] \/ b.fact \in facts[DeviceOf[p]]
<1>1. /\ nextSeq' \in Nat \ {0} /\ nextSeq <= nextSeq'
      /\ \A b \in blobs' \ blobs : nextSeq <= b.arrival /\ b.arrival < nextSeq'
      /\ \A b \in blobs' : b.arrival \in Nat
  BY PushFactsNumbers DEF Blob
<1>2. /\ nextSeq \in Nat /\ cursor \in [Device -> Nat] /\ seen \in [Proc -> Nat]
      /\ \A p \in Proc : \A b \in page[p] : b.arrival \in Nat
  BY DEF SyncInv, TypeOK, Blob
<1>3. ArrivalsBelowNext'
  BY <1>1, <1>2 DEF SyncInv, ArrivalsBelowNext
<1>4. CursorSound'
  BY <1>1, <1>2 DEF SyncInv, ArrivalsBelowNext, CursorSound
<1>5. ASSUME NEW p \in Proc, pc[p] \in Pulling,
             NEW b \in blobs', b.arrival <= seen[p]
      PROVE  b.fact \in facts[DeviceOf[p]]
  BY <1>1, <1>2, <1>5 DEF SyncInv, ArrivalsBelowNext, SeenSound
<1>6. ASSUME NEW p \in Proc, Receiving(p),
             NEW c \in page[p], NEW b \in blobs', b.arrival <= c.arrival
      PROVE  b \in page[p] \/ b.fact \in facts[DeviceOf[p]]
  BY <1>1, <1>2, <1>6 DEF SyncInv, ArrivalsBelowNext, PageSound
<1> QED BY <1>3, <1>4, <1>5, <1>6

\* The relay handles a batch and answers.
LEMMA PushStep ==
  ASSUME SyncInv, StoreInv', NEW p \in Proc, Push(p)
  PROVE  SyncInv'
<1> USE SyncAssumption, StoreAssumption DEF Push, deviceVars, Pulling, Receiving
<1>1. IsFiniteSet(batch[p]) /\ batch[p] \subseteq Written /\ batch[p] \subseteq Fact
  BY DEF SyncInv, FiniteBatches, CarriedIsWritten, TypeOK
<1>2. /\ nextSeq' \in Nat \ {0}
      /\ blobs \subseteq blobs' /\ blobs' \in SUBSET Blob
      /\ \A b \in blobs' \ blobs : b.fact \in batch[p]
      /\ Ids(batch[p]) \subseteq {b.fact.id : b \in blobs'}
      /\ RelayRowsDistinct'
  BY <1>1, PushFactsNumbers
<1>3. TypeOK'
  <2>1. Ids(batch[p]) \subseteq FactId
    BY <1>1 DEF Ids, Fact
  <2>2. toMark' \in [Proc -> SUBSET FactId]
    BY <2>1 DEF SyncInv, TypeOK
  <2>3. batch' \in [Proc -> SUBSET Fact] /\ pc' \in [Proc -> Steps]
    BY DEF SyncInv, TypeOK, Steps
  <2> QED BY <1>2, <2>2, <2>3 DEF SyncInv, TypeOK, StoreInv
<1>4. ArrivalsBelowNext' /\ CursorSound' /\ SeenSound' /\ PageSound'
  <2>1. \A q \in Proc : pc'[q] = IF q = p THEN "marking" ELSE pc[q]
    BY DEF SyncInv, TypeOK
  <2> QED BY <2>1, <1>1, NumberingKeepsCursors DEF SeenSound, PageSound
<1>5. FiniteBatches'
  BY FS_EmptySet DEF SyncInv, TypeOK, FiniteBatches
<1>6. CarriedIsWritten'
  BY <1>1, <1>2 DEF SyncInv, TypeOK, CarriedIsWritten, Written
<1>7. ToMarkIsOnRelay'
  BY <1>2 DEF SyncInv, TypeOK, ToMarkIsOnRelay
<1>8. PushedIsOnRelay'
  BY <1>2 DEF SyncInv, PushedIsOnRelay
<1> QED BY <1>2, <1>3, <1>4, <1>5, <1>6, <1>7, <1>8 DEF SyncInv

\* The relay handles a batch whose sender has gone.
LEMMA PushLateStep ==
  ASSUME SyncInv, StoreInv', NEW B \in late, PushLate(B)
  PROVE  SyncInv'
<1> USE SyncAssumption, StoreAssumption DEF PushLate, deviceVars, procVars, Receiving
<1>1. IsFiniteSet(B) /\ B \subseteq Written
  BY DEF SyncInv, FiniteBatches, CarriedIsWritten
<1>2. /\ nextSeq' \in Nat \ {0}
      /\ blobs \subseteq blobs' /\ blobs' \in SUBSET Blob
      /\ \A b \in blobs' \ blobs : b.fact \in B
      /\ RelayRowsDistinct'
  BY <1>1, PushFactsNumbers
<1>3. TypeOK'
  BY <1>2 DEF SyncInv, TypeOK, StoreInv
<1>4. ArrivalsBelowNext' /\ CursorSound' /\ SeenSound' /\ PageSound'
  BY <1>1, NumberingKeepsCursors DEF SeenSound, PageSound
<1>5. FiniteBatches' /\ CarriedIsWritten'
  BY <1>1, <1>2 DEF SyncInv, FiniteBatches, CarriedIsWritten, Written
<1>6. ToMarkIsOnRelay' /\ PushedIsOnRelay'
  BY <1>2 DEF SyncInv, ToMarkIsOnRelay, PushedIsOnRelay
<1> QED BY <1>2, <1>3, <1>4, <1>5, <1>6 DEF SyncInv

----------------------------------------------------------------------------
(* Receiving a page. *)

\* An item is taken from a page once its fact is in the store, so the page and
\* the cursor it leaves behind stay sound.
LEMMA ConsumeStep ==
  ASSUME SyncInv, StoreInv', NEW p \in Proc, NEW b \in page[p],
         Receiving(p), Consume(p, b),
         \A d \in Device : facts[d] \subseteq facts'[d] /\ IsFiniteSet(facts'[d]),
         b.fact \in facts'[DeviceOf[p]],
         UNCHANGED <<unqueued, queue, pushed, cursor, relayVars, late, interruptions>>
  PROVE  SyncInv'
<1> USE SyncAssumption, StoreAssumption DEF Consume, relayVars, Pulling, Receiving
<1>1. TypeOK'
  BY DEF SyncInv, TypeOK, StoreInv, Steps, Blob
<1>2. FiniteBatches' /\ ToMarkIsOnRelay' /\ PushedIsOnRelay' /\ RelayRowsDistinct'
  BY DEF SyncInv, FiniteBatches, ToMarkIsOnRelay, PushedIsOnRelay, RelayRowsDistinct
<1>3. \A q \in Proc : page'[q] \subseteq page[q]
  BY DEF SyncInv, TypeOK
<1>4. CarriedIsWritten'
  <2>1. Written \subseteq Written'
    BY DEF Written
  <2> QED BY <2>1, <1>3 DEF SyncInv, CarriedIsWritten
<1>5. ArrivalsBelowNext'
  BY <1>3 DEF SyncInv, TypeOK, ArrivalsBelowNext
<1>6. CursorSound'
  BY DEF SyncInv, CursorSound
<1>7. /\ page'[p] = page[p] \ {b} /\ \A q \in Proc : q # p => page'[q] = page[q]
      /\ \A q \in Proc : q # p => pc'[q] = pc[q] /\ seen'[q] = seen[q]
      /\ page[p] = {b} => seen'[p] = b.arrival
      /\ page[p] # {b} => seen'[p] = seen[p]
  BY DEF SyncInv, TypeOK
<1>8. SeenSound'
  <2> SUFFICES ASSUME NEW q \in Proc, pc'[q] \in Pulling,
                      NEW x \in blobs, x.arrival <= seen'[q]
               PROVE  x.fact \in facts'[DeviceOf[q]]
    BY DEF SeenSound
  <2>1. CASE q # p
    BY <2>1, <1>7 DEF SyncInv, SeenSound
  <2>2. CASE q = p /\ page[p] = {b}
    <3>1. x \in page[p] \/ x.fact \in facts[DeviceOf[p]]
      BY <2>2, <1>7 DEF SyncInv, PageSound
    <3> QED BY <2>2, <3>1
  <2>3. CASE q = p /\ page[p] # {b}
    BY <2>3, <1>7 DEF SyncInv, SeenSound
  <2> QED BY <2>1, <2>2, <2>3
<1>9. PageSound'
  <2> SUFFICES ASSUME NEW q \in Proc, Receiving(q)',
                      NEW c \in page'[q], NEW x \in blobs, x.arrival <= c.arrival
               PROVE  x \in page'[q] \/ x.fact \in facts'[DeviceOf[q]]
    BY DEF PageSound
  <2>1. Receiving(q)
    BY <1>7
  <2>2. x \in page[q] \/ x.fact \in facts[DeviceOf[q]]
    BY <2>1, <1>3 DEF SyncInv, PageSound
  <2> QED BY <2>2, <1>7
<1> QED BY <1>1, <1>2, <1>4, <1>5, <1>6, <1>8, <1>9 DEF SyncInv

\* An item whose id the store knows: by then the store has this very fact.
LEMMA ReceiveKnownStep ==
  ASSUME SyncInv, StoreInv', NEW p \in Proc, NEW b \in page[p], ReceiveKnown(p, b)
  PROVE  SyncInv'
<1> USE SyncAssumption DEF ReceiveKnown, deviceVars
<1>1. b.fact \in facts[DeviceOf[p]]
  BY DEF SyncInv, StoreInv, IdsUnique, CarriedIsWritten, Written, Known, Ids
<1> QED BY <1>1, ConsumeStep DEF SyncInv, FiniteBatches

LEMMA ReceiveFactStep ==
  ASSUME SyncInv, StoreInv', NEW p \in Proc, NEW b \in page[p], ReceiveFact(p, b)
  PROVE  SyncInv'
<1> DEFINE d == DeviceOf[p]
<1> USE SyncAssumption DEF ReceiveFact
<1>1. facts' = [facts EXCEPT ![d] = @ \cup {b.fact}]
  BY DEF Receive, insertReceived
<1>2. facts'[d] = facts[d] \cup {b.fact} /\ \A c \in Device : c # d => facts'[c] = facts[c]
  BY <1>1 DEF SyncInv, StoreInv, StoreTypeOK
<1>3. \A c \in Device : IsFiniteSet(facts'[c])
  <2>1. \A c \in Device : IsFiniteSet(facts[c])
    BY DEF SyncInv, FiniteBatches
  <2>2. IsFiniteSet(facts[d] \cup {b.fact})
    BY <2>1, FS_AddElement
  <2> QED BY <2>1, <2>2, <1>2
<1> QED BY <1>2, <1>3, ConsumeStep

----------------------------------------------------------------------------
(* The specification. *)

\* Every step is a step of FactStore, or leaves the stores alone: a pass inserts
\* only facts some device wrote.
LEMMA StepRefinesStore == SyncInv /\ [Next]_vars => [StoreNext]_storeVars
<1> SUFFICES ASSUME SyncInv, Next PROVE [StoreNext]_storeVars
  BY DEF vars, deviceVars, storeVars
<1> USE SyncAssumption
<1>1. CASE Write
  <2>1. Readings \subseteq Times
    BY DEF Readings, Times
  <2> QED BY <1>1, <2>1 DEF Write, AppendFact, AppendInTx, EnqueueOutboundFact,
                            AppendInterrupted, StoreNext, storeVars
<1>2. ASSUME NEW p \in Proc, PassStep(p) PROVE [StoreNext]_storeVars
  <2>1. ASSUME NEW b \in page[p], ReceiveFact(p, b) PROVE StoreNext
    <3>1. PICK from \in Device : b.fact \in facts[from]
      BY DEF SyncInv, CarriedIsWritten, Written
    <3> QED BY <2>1, <3>1 DEF ReceiveFact, StoreNext
  <2> QED
    BY <2>1, <1>2 DEF PassStep, StartPass, Push, PushRefused, MarkPushed, StartPull,
       PullFactsSince, ProbeRemote, ReceiveKnown, ReceiveRefused, WriteCursor, storeVars,
       deviceVars
<1>3. ASSUME NEW p \in Proc, StartAttach(p) \/ PassInterrupted(p) PROVE UNCHANGED storeVars
  BY <1>3 DEF StartAttach, PassInterrupted, storeVars, deviceVars
<1>4. CASE \E B \in late : PushLate(B)
  BY <1>4 DEF PushLate, storeVars, deviceVars
<1>5. CASE \E b \in blobs : DeleteFact(b)
  BY <1>5 DEF DeleteFact, storeVars, deviceVars
<1>6. CASE Tick
  BY <1>6 DEF Tick, StoreNext
<1> QED BY <1>1, <1>2, <1>3, <1>4, <1>5, <1>6 DEF Next

LEMMA SyncNextInv == SyncInv /\ [Next]_vars => SyncInv'
<1> SUFFICES ASSUME SyncInv, [Next]_vars PROVE SyncInv'
  OBVIOUS
<1>1. StoreInv'
  BY StepRefinesStore, NextInv DEF SyncInv
<1>2. CASE Write
  BY <1>1, <1>2, AppendFactStep, AppendInTxStep, EnqueueStep, AppendInterruptedStep DEF Write
<1>3. ASSUME NEW p \in Proc, PassStep(p) PROVE SyncInv'
  BY <1>1, <1>3, StartPassStep, PushStep, PushRefusedStep, MarkPushedStep, StartPullStep,
     PullFactsSinceStep, ProbeRemoteStep, ReceiveKnownStep, ReceiveFactStep,
     ReceiveRefusedStep, WriteCursorStep DEF PassStep
<1>4. ASSUME NEW p \in Proc, StartAttach(p) \/ PassInterrupted(p) PROVE SyncInv'
  BY <1>1, <1>4, StartAttachStep, PassInterruptedStep
<1>5. CASE \E B \in late : PushLate(B)
  BY <1>1, <1>5, PushLateStep
<1>6. CASE \E b \in blobs : DeleteFact(b)
  BY <1>1, <1>6, DeleteFactStep
<1>7. CASE Tick
  BY <1>1, <1>7, TickStep
<1>8. CASE UNCHANGED vars
  BY <1>1, <1>8 DEF vars, deviceVars, relayVars, procVars, SyncInv, TypeOK, FiniteBatches,
     CarriedIsWritten, Written, ArrivalsBelowNext, SeenSound, PageSound, CursorSound,
     ToMarkIsOnRelay, PushedIsOnRelay, RelayRowsDistinct, StoreInv, Receiving
<1> QED BY <1>2, <1>3, <1>4, <1>5, <1>6, <1>7, <1>8 DEF Next

LEMMA SyncInvariant == Spec => []SyncInv
BY SyncInitInv, SyncNextInv, PTL DEF Spec

\* The databases, the relay and the passes keep their types.
THEOREM SyncTyped == Spec => []TypeOK
<1>1. SyncInv => TypeOK
  BY DEF SyncInv
<1> QED BY <1>1, SyncInvariant, PTL

\* However passes are interrupted, race each other or meet late requests, a
\* device holds everything the relay still has at or below its cursor, so a
\* pull that starts there misses nothing (pullSinceCursor, PushFacts).
THEOREM CursorsSound == Spec => []CursorSound
<1>1. SyncInv => CursorSound
  BY DEF SyncInv
<1> QED BY <1>1, SyncInvariant, PTL

\* A fact leaves the outbound queue only by being on the relay, or by having
\* been deleted there (pushPending, markOutboundFactsPushed).
THEOREM PushedReachedRelay == Spec => []PushedIsOnRelay
<1>1. SyncInv => PushedIsOnRelay
  BY DEF SyncInv
<1> QED BY <1>1, SyncInvariant, PTL

\* However often pushes are repeated, the relay has one row per fact and per
\* arrival number (PushFacts, reserveArrivalSeq).
THEOREM RelayRowsStayDistinct == Spec => []RelayRowsDistinct
<1>1. SyncInv => RelayRowsDistinct
  BY DEF SyncInv
<1> QED BY <1>1, SyncInvariant, PTL

\* An attach that ends by itself ends on an empty answer, and by then the device
\* holds all the relay has (ProbeRemote, UnattendedAttach).
THEOREM AttachedHoldsAll == Spec => AttachHoldsAll
<1> DEFINE A == \A p \in Proc :
                  pc[p] = "probing" /\ pc'[p] = "idle" /\ interruptions' = interruptions =>
                    \A b \in blobs : b.fact \in facts[DeviceOf[p]]
<1>1. SyncInv /\ [Next]_vars => A
  <2> SUFFICES ASSUME SyncInv, [Next]_vars, NEW p \in Proc, pc[p] = "probing",
                      pc'[p] = "idle", interruptions' = interruptions
               PROVE  \A b \in blobs : b.fact \in facts[DeviceOf[p]]
    OBVIOUS
  <2>1. pc \in [Proc -> Steps] /\ seen[p] \in Nat /\ interruptions \in Nat
        /\ \A b \in blobs : b.arrival \in Nat
    BY DEF SyncInv, TypeOK, Blob
  <2>2. ProbeRemote(p)
    <3>1. ASSUME NEW q \in Proc, PassStep(q) PROVE q = p
      <4>1. q # p => pc'[p] = pc[p]
        BY <2>1, <3>1 DEF PassStep, StartPass, Push, PushRefused, MarkPushed, StartPull,
           PullFactsSince, ProbeRemote, ReceiveKnown, ReceiveFact, ReceiveRefused, Consume,
           WriteCursor, Forget
      <4> QED BY <4>1
    <3>2. PassStep(p) => ProbeRemote(p)
      BY DEF PassStep, StartPass, Push, PushRefused, MarkPushed, StartPull, PullFactsSince,
         ReceiveKnown, ReceiveFact, ReceiveRefused, Receiving, WriteCursor
    <3>3. ASSUME NEW q \in Proc, StartAttach(q) \/ PassInterrupted(q) PROVE FALSE
      BY <2>1, <3>3 DEF StartAttach, PassInterrupted
    <3> QED BY <3>1, <3>2, <3>3 DEF Next, vars, procVars, Write, AppendFact, AppendInTx,
              EnqueueOutboundFact, AppendInterrupted, PushLate, DeleteFact, Tick
  <2>3. \A b \in blobs : b.arrival <= seen[p]
    BY <2>1, <2>2 DEF ProbeRemote
  <2> QED BY <2>3 DEF SyncInv, SeenSound, Pulling
<1>2. SyncInv /\ [Next]_vars => [A]_vars
  BY <1>1
<1> QED BY <1>2, SyncInvariant, PTL DEF Spec, AttachHoldsAll

\* Sync through the relay implements the grow-only stores: what FactStore
\* guarantees holds of the whole system.
THEOREM SyncImplementsStore == Spec => StoreSpec
<1>1. Init => StoreInit
  BY DEF Init
<1> QED BY <1>1, StepRefinesStore, SyncInvariant, PTL DEF Spec, StoreSpec

----------------------------------------------------------------------------
(* The read tables: every machine holds facts that fit together, rows that fit *)
(* its facts, and, unless it is dirty or has no facts yet, tables in step.     *)

Bounded(F) == \E n \in Nat : \A f \in F : f.stamp <= n /\ f.env <= n

\* Facts are told apart by stamp and environment, and a machine holds what it wrote.
FactFits(f) ==
  /\ f.stamp \in Nat /\ f.row.kind \in CoreKinds
  /\ IF f.env = Legacy THEN cborn /\ f \in cfacts[LegacyHost]
                       ELSE f.env \in Machines /\ f \in cfacts[f.env] /\ f.stamp \in cplan.stamps

AllFacts == UNION {cfacts[m] : m \in Machines}

\* An id under which a reference, a release or a receipt is known was in the old
\* database or was drawn, with the stamp of the fact that says so.
IsDrawn(id) ==
  \/ cborn /\ \E r \in cplan.rows : r.kind \in UniqueKeys /\ r.subj = id
  \/ \E k \in Machines : \E h \in cfacts[k] : id = OpaqueID(k, h.stamp)

\* The facts of all machines: a stamp and an environment name one fact, and an
\* id names one reference, configuration or mapping.
FactsFit ==
  /\ \A m \in Machines : Bounded(cfacts[m])
  /\ \A f \in AllFacts : FactFits(f) /\ (f.row.kind \in UniqueKeys => IsDrawn(f.row.subj))
  /\ \A f, g \in AllFacts :
       /\ f.stamp = g.stamp /\ f.env = g.env => f = g
       /\ {f.row.kind, g.row.kind} \subseteq RefKinds /\ f.row.subj = g.row.subj => f.row.kind = g.row.kind

\* Some fact is about a subject.
Mentioned(F, kind, subj) == \E f \in F : f.row.kind = kind /\ f.row.subj = subj

\* The rows of a machine: one per subject, each with a fact once there are facts.
RowsFitAt(m) ==
  /\ Distinct(crows[m])
  /\ \A r \in crows[m] :
       /\ r.kind \in CoreKinds
       /\ r.kind \in MergedKinds => MergedRow(r)
       /\ Ready(m) => Mentioned(cfacts[m], r.kind, r.subj)
       /\ \A q \in crows[m] : r.kind = q.kind /\ r.subj = q.subj => r = q

\* What the fold of a subject says, and when a row says the same.
FoldOf(F, kind, subj) ==
  IF kind = "spark" THEN applySparkEvent(subj, About(F, <<kind, subj>>))
  ELSE IF kind = "idea" THEN applyIdeaEvent(subj, About(F, <<kind, subj>>))
  ELSE foldLatestBySubject(About(F, <<kind, subj>>))

SaysSame(f, r) ==
  /\ r.kind \in MergedKinds \cup {"handoff"} => f = r
  /\ r.kind = "release" => f.key = r.key
  /\ r.kind \in RefKinds => f.key = r.key /\ f.val = r.val
  /\ r.kind \in {"worktree", "verification"} => f.val = r.val

HasRow(m, kind, subj) == \E r \in crows[m] : r.kind = kind /\ r.subj = subj

\* Every row says what its facts fold to, and every fact has a row, but for what
\* is excused and for bindings that were removed.
InStep(m) ==
  /\ \A r \in crows[m] : r.subj \in Excused(m) \/ SaysSame(FoldOf(cfacts[m], r.kind, r.subj), r)
  /\ \A f \in cfacts[m] :
       \/ f.row.subj \in Excused(m)
       \/ HasRow(m, f.row.kind, f.row.subj)
       \/ f.row.kind = "worktree" /\ FoldOf(cfacts[m], f.row.kind, f.row.subj).val = Blank

\* What a promotion has read is there.
PromotesKnown(j) == j.on => Ready(j.at) /\ j.at \in Machines /\ j.kind \in MergedKinds
                             /\ Mentioned(cfacts[j.at], j.kind, j.subj)

CoreTyped ==
  /\ cplan \in CorePlans
  /\ crows = [m \in Machines |-> crows[m]]
  /\ cfacts = [m \in Machines |-> cfacts[m]]
  /\ cdirty = [m \in Machines |-> cdirty[m]]
  /\ cpromote = [p \in cplan.procs |-> cpromote[p]]

\* Before the replay the legacy host holds its old rows and no facts.
Unmigrated ==
  ~cborn => crows[LegacyHost] = cplan.rows /\ cfacts[LegacyHost] = {} /\ ~cdirty[LegacyHost]

\* The inductive invariant of the tables.
CoreInv ==
  /\ CoreTyped
  /\ Unmigrated
  /\ FactsFit
  /\ \A m \in Machines : RowsFitAt(m) /\ (Ready(m) /\ ~cdirty[m] => InStep(m))
  /\ \A p \in cplan.procs : PromotesKnown(cpromote[p])

----------------------------------------------------------------------------
(* The order of the fold. *)

FactsTold(F) ==
  /\ Bounded(F)
  /\ \A f \in F : f.stamp \in Nat /\ f.env \in Nat
  /\ \A f, g \in F : f.stamp = g.stamp /\ f.env = g.env => f = g

\* A fact later than all others is the newest.
LEMMA NewestIsLast ==
  ASSUME NEW F, NEW f \in F, \A g \in F : g.stamp \in Nat, \A g \in F \ {f} : g.stamp < f.stamp
  PROVE  Newest(F) = f
<1>1. \A g \in F \ {f} : ComesBefore(g, f)
  BY DEF ComesBefore
<1>2. Newest(F) \in F /\ \A g \in F \ {Newest(F)} : ComesBefore(g, Newest(F))
  BY <1>1 DEF Newest
<1>3. SUFFICES ASSUME Newest(F) # f PROVE FALSE
  OBVIOUS
<1>4. Newest(F).stamp < f.stamp /\ ComesBefore(f, Newest(F))
  BY <1>2, <1>3
<1> QED BY <1>2, <1>4 DEF ComesBefore

\* Facts that have been told have a newest one.
LEMMA NewestIsThere ==
  ASSUME NEW F, F # {}, FactsTold(F)
  PROVE  Newest(F) \in F
<1> DEFINE S == {f.stamp : f \in F}
<1>1. PICK n \in Nat : \A f \in F : f.stamp <= n /\ f.env <= n
  BY DEF FactsTold, Bounded
<1>2. PICK s \in S : \A t \in S : t <= s
  <2>1. S \in SUBSET Nat /\ S # {} /\ \A t \in S : t <= n
    BY <1>1 DEF FactsTold
  <2> HIDE DEF S
  <2> QED BY <2>1, GreatestMember
<1> DEFINE E == {f.env : f \in {g \in F : g.stamp = s}}
<1>3. PICK e \in E : \A x \in E : x <= e
  <2>1. E \in SUBSET Nat /\ E # {} /\ \A x \in E : x <= n
    BY <1>1, <1>2 DEF FactsTold
  <2> HIDE DEF E
  <2> QED BY <2>1, GreatestMember
<1>4. PICK f \in F : f.stamp = s /\ f.env = e
  BY <1>3
<1>5. ASSUME NEW g \in F \ {f} PROVE ComesBefore(g, f)
  <2>1. g.stamp <= s /\ (g.stamp = s => g.env <= e)
    BY <1>2, <1>3
  <2>2. ~ (g.stamp = s /\ g.env = e)
    BY <1>4 DEF FactsTold
  <2> QED BY <1>4, <2>1, <2>2 DEF ComesBefore, FactsTold
<1> QED BY <1>5 DEF Newest

\* Some of the facts told are told.
LEMMA PartsAreTold ==
  ASSUME NEW F, FactsTold(F), NEW G \in SUBSET F
  PROVE  FactsTold(G)
BY DEF FactsTold, Bounded

\* The words the commands write are not the empty column.
LEMMA WordsAreNotBlank ==
  Blank # "open" /\ Blank # "done" /\ Blank # "archived" /\ Blank # "text"
BY DEF Blank

\* What the fold of a spark or an idea is made of.
Entity(kind, subj, v, t) ==
  [kind |-> kind, subj |-> subj, key |-> Blank, val |-> v, text |-> t, members |-> {}]

Status(F) == LET said == {f \in F : f.row.val # Blank}
             IN  IF said = {} THEN "open" ELSE Newest(said).row.val
Wording(F) == LET told == {f \in F : f.row.text # Blank}
              IN  IF told = {} THEN Blank ELSE Newest(told).row.text

\* applySparkEvent and applyIdeaEvent, field by field.
LEMMA EntityFolds ==
  ASSUME NEW F, NEW kind \in MergedKinds, NEW subj
  PROVE  FoldOf(F, kind, subj) =
           Entity(kind, subj, Status(About(F, <<kind, subj>>)), Wording(About(F, <<kind, subj>>)))
<1>1. PICK A, v, t : A = About(F, <<kind, subj>>) /\ v = Status(A) /\ t = Wording(A)
  OBVIOUS
<1>2. applySparkEvent(subj, A) = Entity("spark", subj, v, t)
  <2>1. PICK p, q : p = Payload("spark", subj, Blank, v, {}) /\ q = [p EXCEPT !.text = t]
    OBVIOUS
  <2>2. DOMAIN q = {"kind", "subj", "key", "val", "text", "members"} /\ q = [i \in DOMAIN q |-> q[i]]
    BY <2>1 DEF Payload
  <2>3. q.kind = "spark"
    BY <2>1 DEF Payload
  <2>4. q.subj = subj
    BY <2>1 DEF Payload
  <2>5. q.key = Blank
    BY <2>1 DEF Payload
  <2>6. q.val = v
    BY <2>1 DEF Payload
  <2>7. q.text = t
    BY <2>1 DEF Payload
  <2>8. q.members = {}
    BY <2>1 DEF Payload
  <2>9. q = Entity("spark", subj, v, t)
    BY <2>2, <2>3, <2>4, <2>5, <2>6, <2>7, <2>8 DEF Entity
  <2>10. applySparkEvent(subj, A) = q
    BY <1>1, <2>1, Zenon DEF applySparkEvent, Status, Wording
  <2> QED BY <2>9, <2>10
<1>3. applyIdeaEvent(subj, A) = Entity("idea", subj, v, t)
  <2>1. PICK p, q : p = Entity("spark", subj, v, t) /\ q = [p EXCEPT !.kind = "idea"]
    OBVIOUS
  <2>2. DOMAIN q = {"kind", "subj", "key", "val", "text", "members"} /\ q = [i \in DOMAIN q |-> q[i]]
    BY <2>1 DEF Entity
  <2>3. q.kind = "idea"
    BY <2>1 DEF Entity
  <2>4. q.subj = subj
    BY <2>1 DEF Entity
  <2>5. q.key = Blank
    BY <2>1 DEF Entity
  <2>6. q.val = v
    BY <2>1 DEF Entity
  <2>7. q.text = t
    BY <2>1 DEF Entity
  <2>8. q.members = {}
    BY <2>1 DEF Entity
  <2>9. q = Entity("idea", subj, v, t)
    BY <2>2, <2>3, <2>4, <2>5, <2>6, <2>7, <2>8 DEF Entity
  <2>10. applyIdeaEvent(subj, A) = q
    BY <1>2, <2>1, Zenon DEF applyIdeaEvent
  <2> QED BY <2>9, <2>10
<1>4. CASE kind = "spark"
  BY <1>1, <1>2, <1>4 DEF FoldOf
<1>5. CASE kind = "idea"
  BY <1>1, <1>3, <1>5 DEF FoldOf
<1> QED BY <1>4, <1>5 DEF MergedKinds

\* What the fold of a subject that facts mention is.
LEMMA FoldFits ==
  ASSUME NEW F, FactsTold(F), NEW kind, NEW subj, Mentioned(F, kind, subj)
  PROVE  LET r == FoldOf(F, kind, subj)
         IN  r.kind = kind /\ r.subj = subj /\ (kind \in MergedKinds => MergedRow(r))
<1>1. PICK A : A = About(F, <<kind, subj>>)
  OBVIOUS
<1>2. A \in SUBSET F /\ A # {} /\ FactsTold(A)
  BY <1>1, PartsAreTold DEF About, Mentioned
<1>3. \A f \in A : f.row.kind = kind /\ f.row.subj = subj
  BY <1>1 DEF About
<1>4. CASE kind \notin MergedKinds
  BY <1>1, <1>2, <1>3, <1>4, NewestIsThere DEF FoldOf, foldLatestBySubject, MergedKinds
<1>5. CASE kind \in MergedKinds
  <2>1. PICK said : said = {f \in A : f.row.val # Blank}
    OBVIOUS
  <2>2. said # {} => Newest(said).row.val # Blank
    BY <1>2, <2>1, NewestIsThere, PartsAreTold
  <2>3. Status(A) # Blank
    BY <2>1, <2>2, WordsAreNotBlank DEF Status
  <2>4. FoldOf(F, kind, subj) = Entity(kind, subj, Status(A), Wording(A))
    BY <1>1, <1>5, EntityFolds
  <2>5. PICK v, t : v = Status(A) /\ t = Wording(A)
    OBVIOUS
  <2>6. PICK r : r = Entity(kind, subj, v, t)
    OBVIOUS
  <2>7. r.kind = kind /\ r.subj = subj
    BY <2>6 DEF Entity
  <2>8. r.val = v
    BY <2>6 DEF Entity
  <2>9. r.text = t
    BY <2>6 DEF Entity
  <2>10. MergedRow(r)
    BY <2>3, <2>5, <2>6, <2>7, <2>8, <2>9 DEF MergedRow, Entity
  <2> QED BY <2>4, <2>5, <2>6, <2>7, <2>10
<1> QED BY <1>4, <1>5

\* Facts about other subjects leave a fold alone.
LEMMA OtherFoldsStay ==
  ASSUME NEW F, NEW G, NEW kind, NEW subj, F \subseteq G,
         \A g \in G \ F : ~ (g.row.kind = kind /\ g.row.subj = subj)
  PROVE  FoldOf(G, kind, subj) = FoldOf(F, kind, subj)
<1>1. About(G, <<kind, subj>>) = About(F, <<kind, subj>>)
  BY DEF About
<1> QED BY <1>1 DEF FoldOf

\* A fact that is later than all others decides.
LEMMA LastFactDecides ==
  ASSUME NEW F, NEW f \in F, \A g \in F : g.stamp \in Nat,
         \A g \in F \ {f} : g.row.kind = f.row.kind /\ g.row.subj = f.row.subj => g.stamp < f.stamp,
         f.row.kind \in MergedKinds =>
           MergedRow(f.row) /\ (f.row.text # Blank \/ FoldOf(F \ {f}, f.row.kind, f.row.subj).text = Blank)
  PROVE  FoldOf(F, f.row.kind, f.row.subj) = f.row
<1>1. PICK kind, subj, A : kind = f.row.kind /\ subj = f.row.subj /\ A = About(F, <<kind, subj>>)
  OBVIOUS
<1>2. f \in A /\ \A g \in A : g \in F /\ (g # f => g.stamp < f.stamp)
  BY <1>1 DEF About
<1>3. ASSUME NEW B \in SUBSET A, f \in B PROVE Newest(B) = f
  BY <1>2, <1>3, NewestIsLast
<1>4. CASE kind \notin MergedKinds
  BY <1>1, <1>2, <1>3, <1>4 DEF FoldOf, foldLatestBySubject, MergedKinds
<1>5. CASE kind \in MergedKinds
  <2>1. PICK said, told : said = {g \in A : g.row.val # Blank} /\ told = {g \in A : g.row.text # Blank}
    OBVIOUS
  <2>2. said # {} /\ Newest(said).row.val = f.row.val
    BY <1>1, <1>2, <1>3, <1>5, <2>1 DEF MergedRow
  <2>3. Status(A) = f.row.val
    BY <2>1, <2>2 DEF Status
  <2>4. FoldOf(F, kind, subj) = Entity(kind, subj, f.row.val, Wording(A))
    BY <1>1, <1>5, <2>3, EntityFolds
  <2>5. Wording(A) = f.row.text
    <3>1. CASE f.row.text # Blank
      <4>1. told # {} /\ Newest(told) = f
        BY <1>2, <1>3, <2>1, <3>1
      <4> QED BY <2>1, <4>1 DEF Wording
    <3>2. CASE f.row.text = Blank
      <4>1. told = {g \in About(F \ {f}, <<kind, subj>>) : g.row.text # Blank}
        BY <1>1, <2>1, <3>2 DEF About
      <4>2. Wording(About(F \ {f}, <<kind, subj>>)) = Wording(A)
        BY <2>1, <4>1 DEF Wording
      <4>3. PICK v, t : v = Status(About(F \ {f}, <<kind, subj>>)) /\ t = Wording(A)
        OBVIOUS
      <4>4. PICK r : r = Entity(kind, subj, v, t)
        OBVIOUS
      <4>5. r.text = t
        BY <4>4 DEF Entity
      <4>6. FoldOf(F \ {f}, kind, subj) = r
        BY <1>5, <4>2, <4>3, <4>4, EntityFolds
      <4> QED BY <1>1, <1>5, <3>2, <4>3, <4>5, <4>6
    <3> QED BY <3>1, <3>2
  <2>6. f.row = Entity(kind, subj, f.row.val, f.row.text)
    BY <1>1, <1>5 DEF MergedRow, Entity
  <2> QED BY <1>1, <2>4, <2>5, <2>6
<1> QED BY <1>4, <1>5

----------------------------------------------------------------------------
(* A machine appends a fact. *)

\* What a machine has of its own is behind its next stamp; the plan types both.
LEMMA PlanFits ==
  ASSUME CoreTyped
  PROVE  /\ \A m \in Machines : m \in Nat /\ m # Legacy
         /\ LegacyHost \in Machines
         /\ cplan.stamps \subseteq Nat
         /\ \A r \in cplan.rows : r.kind \in UniqueKeys =>
              \A m \in Machines, s \in cplan.stamps : r.subj # OpaqueID(m, s)
<1>1. cplan \in CorePlans
  BY DEF CoreTyped
<1>2. /\ cplan.machines \subseteq Nat \ {Legacy} /\ LegacyHost \in cplan.machines
      /\ cplan.stamps \subseteq Nat
      /\ \A r \in cplan.rows : r.kind \in UniqueKeys => r.subj \notin cplan.machines \X cplan.stamps
  BY <1>1, CorePlansAssumption
<1>3. \A m \in cplan.machines, s \in cplan.stamps : OpaqueID(m, s) \in cplan.machines \X cplan.stamps
  BY DEF OpaqueID
<1> QED BY <1>2, <1>3 DEF Machines

\* What a machine holds can be folded.
LEMMA HeldAreTold ==
  ASSUME CoreTyped, FactsFit, NEW m \in Machines
  PROVE  FactsTold(cfacts[m])
<1>1. \A f \in cfacts[m] : f \in AllFacts
  BY DEF AllFacts
<1>2. \A f \in cfacts[m] : f.stamp \in Nat /\ f.env \in Nat
  BY <1>1, PlanFits DEF FactsFit, FactFits, Legacy
<1> QED BY <1>1, <1>2 DEF FactsFit, FactsTold

\* An id that is drawn is new.
LEMMA DrawnIsNew ==
  ASSUME CoreTyped, FactsFit, NEW m \in Machines, NEW s \in NextStamps(m)
  PROVE  ~ IsDrawn(OpaqueID(m, s))
<1>1. SUFFICES ASSUME IsDrawn(OpaqueID(m, s)) PROVE FALSE
  OBVIOUS
<1>2. s \in Nat /\ s \in cplan.stamps
  BY PlanFits DEF NextStamps
<1>3. PICK k \in Machines : \E h \in cfacts[k] : OpaqueID(m, s) = OpaqueID(k, h.stamp)
  BY <1>1, <1>2, PlanFits DEF IsDrawn
<1>4. k = m /\ \E h \in cfacts[m] : h.stamp = s
  BY <1>3 DEF OpaqueID
<1>5. s < s
  BY <1>4 DEF NextStamps
<1> QED BY <1>2, <1>5

\* A fact appended under a later stamp keeps the facts fit.
LEMMA FactAdded ==
  ASSUME CoreTyped, FactsFit, NEW m \in Machines, NEW f, f.stamp \in NextStamps(m), f.env = m,
         f.row.kind \in CoreKinds,
         f.row.kind \in UniqueKeys =>
           f.row.subj = OpaqueID(m, f.stamp) \/ Mentioned(cfacts[m], f.row.kind, f.row.subj),
         cfacts' = [cfacts EXCEPT ![m] = @ \cup {f}], cplan' = cplan, cborn' = cborn
  PROVE  /\ FactsFit'
         /\ cfacts'[m] = cfacts[m] \cup {f}
         /\ \A k \in Machines : k # m => cfacts'[k] = cfacts[k]
         /\ \A g \in cfacts[m] : g.stamp \in Nat /\ g.stamp < f.stamp
         /\ f.stamp \in Nat
<1>0. PICK s, w : s = f.stamp /\ w = f.row
  OBVIOUS
<1>1. cfacts'[m] = cfacts[m] \cup {f} /\ \A k \in Machines : k # m => cfacts'[k] = cfacts[k]
  BY DEF CoreTyped
<1>2. f.stamp = s /\ f.env = m /\ f.row = w
  BY <1>0
<1>3. s \in Nat /\ s \in cplan.stamps /\ m \in Nat /\ m # Legacy /\ Machines' = Machines
  BY <1>0, PlanFits DEF NextStamps, Machines
<1>4. \A g \in cfacts[m] : g.stamp \in Nat /\ g.stamp < s
  BY <1>0 DEF NextStamps, FactsFit, FactFits, AllFacts
<1>5. \A k \in Machines : cfacts[k] \subseteq cfacts'[k]
  BY <1>1
<1>6. \A g : g \in AllFacts' <=> (g \in AllFacts \/ g = f)
  BY <1>1, <1>3 DEF AllFacts
<1>7. \A k \in Machines' : Bounded(cfacts'[k])
  <2>1. TAKE k \in Machines'
  <2>2. PICK n \in Nat : \A g \in cfacts[k] : g.stamp <= n /\ g.env <= n
    BY <1>3 DEF FactsFit, Bounded
  <2>3. \A g \in cfacts[k] : g.stamp \in Nat /\ g.env \in Nat
    BY <1>3, HeldAreTold DEF FactsTold
  <2>4. n + s + m \in Nat /\ \A g \in cfacts'[k] : g.stamp <= n + s + m /\ g.env <= n + s + m
    BY <1>1, <1>2, <1>3, <2>2, <2>3
  <2> QED BY <2>4 DEF Bounded
<1>8. \A g \in AllFacts' : FactFits(g)'
  <2>1. ASSUME NEW g \in AllFacts PROVE FactFits(g)'
    BY <1>3, <1>5, PlanFits DEF FactsFit, FactFits
  <2>2. FactFits(f)'
    BY <1>1, <1>2, <1>3 DEF FactFits
  <2> QED BY <1>6, <2>1, <2>2
<1>9. \A g \in AllFacts' : g.row.kind \in UniqueKeys => IsDrawn(g.row.subj)'
  <2>1. ASSUME NEW g \in AllFacts, g.row.kind \in UniqueKeys PROVE IsDrawn(g.row.subj)'
    <3>1. IsDrawn(g.row.subj)
      BY <2>1 DEF FactsFit
    <3> QED BY <1>3, <1>5, <3>1 DEF IsDrawn
  <2>2. ASSUME w.kind \in UniqueKeys PROVE IsDrawn(w.subj)'
    <3>1. CASE w.subj = OpaqueID(m, s)
      BY <1>1, <1>2, <1>3, <3>1 DEF IsDrawn
    <3>2. CASE Mentioned(cfacts[m], w.kind, w.subj)
      BY <2>1, <2>2, <3>2 DEF Mentioned, AllFacts
    <3> QED BY <1>2, <2>2, <3>1, <3>2
  <2> QED BY <1>2, <1>6, <2>1, <2>2
<1>10. ASSUME NEW g \in AllFacts, g.stamp = s, g.env = m PROVE FALSE
  BY <1>3, <1>4, <1>10 DEF FactsFit, FactFits
<1>11. ASSUME NEW g \in AllFacts, {g.row.kind, w.kind} \subseteq RefKinds, g.row.subj = w.subj
       PROVE  g.row.kind = w.kind
  <2>1. g.row.kind \in UniqueKeys /\ w.kind \in UniqueKeys
    BY <1>11 DEF RefKinds, UniqueKeys
  <2>2. CASE Mentioned(cfacts[m], w.kind, w.subj)
    BY <1>11, <2>2 DEF Mentioned, AllFacts, FactsFit
  <2>3. CASE w.subj = OpaqueID(m, s)
    BY <1>0, <1>11, <2>1, <2>3, DrawnIsNew DEF FactsFit
  <2> QED BY <1>2, <2>1, <2>2, <2>3
<1>12. \A g, h \in AllFacts' :
         /\ g.stamp = h.stamp /\ g.env = h.env => g = h
         /\ {g.row.kind, h.row.kind} \subseteq RefKinds /\ g.row.subj = h.row.subj
              => g.row.kind = h.row.kind
  <2>1. \A g, h \in AllFacts :
          /\ g.stamp = h.stamp /\ g.env = h.env => g = h
          /\ {g.row.kind, h.row.kind} \subseteq RefKinds /\ g.row.subj = h.row.subj
               => g.row.kind = h.row.kind
    BY DEF FactsFit
  <2>2. \A g \in AllFacts : ~ (g.stamp = f.stamp /\ g.env = f.env)
    BY <1>2, <1>10
  <2>3. \A g \in AllFacts : {g.row.kind, f.row.kind} \subseteq RefKinds /\ g.row.subj = f.row.subj
                               => g.row.kind = f.row.kind
    BY <1>2, <1>11
  <2> QED BY <1>6, <2>1, <2>2, <2>3
<1>13. FactsFit'
  BY <1>7, <1>8, <1>9, <1>12 DEF FactsFit
<1> QED BY <1>1, <1>2, <1>3, <1>4, <1>13

\* Machines that do nothing stay in step.
LEMMA OthersRest ==
  ASSUME NEW k, cfacts'[k] = cfacts[k], crows'[k] = crows[k], cplan' = cplan, cborn' = cborn
  PROVE  /\ RowsFitAt(k) => RowsFitAt(k)'
         /\ InStep(k) => InStep(k)'
<1>1. RowsFitAt(k) => RowsFitAt(k)'
  BY DEF RowsFitAt, Ready
<1>2. Excused(k)' = Excused(k)
  BY DEF Excused
<1>3. InStep(k) => InStep(k)'
  BY <1>2 DEF InStep, HasRow
<1> QED BY <1>1, <1>3

\* What is excused stays excused.
LEMMA ExcusesStay ==
  ASSUME NEW m, cfacts[m] \subseteq cfacts'[m], cplan' = cplan
  PROVE  Excused(m) \subseteq Excused(m)'
BY DEF Excused

\* Promotions that were read stay about what facts mention.
LEMMA PromotesRest ==
  ASSUME NEW j, PromotesKnown(j), cplan' = cplan, cborn => cborn',
         \A k \in Machines : cfacts[k] \subseteq cfacts'[k]
  PROVE  PromotesKnown(j)'
BY DEF PromotesKnown, Ready, Mentioned, Machines

\* A command replaces a row, or removes a binding, and says so in a fact.
Replaces(m, gone, w, s) ==
  /\ w.kind \in CoreKinds
  /\ \A r \in gone : r.kind = w.kind /\ (r.subj = w.subj \/ w.kind = "config")
  /\ \A r \in crows[m] \ gone : r.kind = w.kind =>
       r.subj # w.subj /\ (w.kind \in UniqueKeys => r.key # w.key)
  /\ w.kind \in UniqueKeys => w.subj = OpaqueID(m, s) \/ Mentioned(cfacts[m], w.kind, w.subj)
  /\ w.kind \in MergedKinds =>
       /\ MergedRow(w)
       /\ InStep(m) => \/ w.subj \in Excused(m)
                       \/ w.text # Blank
                       \/ FoldOf(cfacts[m], w.kind, w.subj).text = Blank

\* A row replaced beside its fact keeps the invariant: the fact decides the
\* fold of its subject, and no other subject is disturbed.
LEMMA RowWritten ==
  ASSUME CoreInv, NEW m \in Machines, Ready(m), NEW s \in NextStamps(m), NEW w, NEW gone \in SUBSET crows[m],
         NEW new, new = {w} \/ (new = {} /\ w.kind = "worktree" /\ w.val = Blank),
         Replaces(m, gone, w, s),
         crows' = [crows EXCEPT ![m] = (@ \ gone) \cup new],
         NEW f, f.stamp = s, f.env = m, f.row = w,
         cfacts' = [cfacts EXCEPT ![m] = @ \cup {f}],
         UNCHANGED <<cplan, cdirty, cpromote, cborn>>
  PROVE  CoreInv'
<1>1. /\ w.kind \in CoreKinds
      /\ \A r \in gone : r.kind = w.kind /\ (r.subj = w.subj \/ w.kind = "config")
      /\ \A r \in crows[m] \ gone : r.kind = w.kind =>
           r.subj # w.subj /\ (w.kind \in UniqueKeys => r.key # w.key)
      /\ w.kind \in UniqueKeys => w.subj = OpaqueID(m, s) \/ Mentioned(cfacts[m], w.kind, w.subj)
      /\ w.kind \in MergedKinds => MergedRow(w)
      /\ w.kind \in MergedKinds /\ InStep(m) =>
           \/ w.subj \in Excused(m)
           \/ w.text # Blank \/ FoldOf(cfacts[m], w.kind, w.subj).text = Blank
  BY DEF Replaces
<1>2. CoreTyped /\ FactsFit /\ RowsFitAt(m)
  BY DEF CoreInv
<1>3. cplan' = cplan /\ cborn' = cborn /\ cdirty' = cdirty /\ cpromote' = cpromote /\ Machines' = Machines
  BY DEF Machines
<1>4. /\ FactsFit'
      /\ cfacts'[m] = cfacts[m] \cup {f}
      /\ \A k \in Machines : k # m => cfacts'[k] = cfacts[k]
      /\ f.stamp = s /\ f.env = m /\ f.row = w
      /\ \A g \in cfacts[m] : g.stamp \in Nat /\ g.stamp < s
      /\ s \in Nat
  <2>1. /\ f.stamp \in NextStamps(m) /\ f.row.kind \in CoreKinds
        /\ f.row.kind \in UniqueKeys =>
             f.row.subj = OpaqueID(m, f.stamp) \/ Mentioned(cfacts[m], f.row.kind, f.row.subj)
    BY <1>1
  <2> QED BY <1>2, <1>3, <2>1, FactAdded
<1>5. crows'[m] = (crows[m] \ gone) \cup new /\ \A k \in Machines : k # m => crows'[k] = crows[k]
  BY <1>2 DEF CoreTyped
<1>6. CoreTyped'
  BY <1>2, <1>3 DEF CoreTyped
<1>7. Unmigrated'
  <2>1. SUFFICES ASSUME ~ cborn PROVE Unmigrated'
    BY <1>3 DEF Unmigrated
  <2>2. m # LegacyHost /\ LegacyHost \in Machines
    BY <1>2, <2>1, PlanFits DEF Ready
  <2> QED BY <1>4, <1>5, <2>1, <2>2 DEF CoreInv, Unmigrated
<1>8. \A r \in crows'[m] : r.kind \in CoreKinds /\ (r.kind \in MergedKinds => MergedRow(r))
                             /\ Mentioned(cfacts'[m], r.kind, r.subj)
  <2>1. \A r \in crows[m] : r.kind \in CoreKinds /\ (r.kind \in MergedKinds => MergedRow(r))
                              /\ Mentioned(cfacts[m], r.kind, r.subj)
    BY <1>2 DEF RowsFitAt
  <2>2. Mentioned(cfacts'[m], w.kind, w.subj)
    BY <1>4 DEF Mentioned
  <2>3. \A r \in crows[m] : Mentioned(cfacts'[m], r.kind, r.subj)
    BY <1>4, <2>1 DEF Mentioned
  <2> QED BY <1>1, <1>5, <2>1, <2>2, <2>3
<1>9. \A r, q \in crows'[m] : r.kind = q.kind /\ r.subj = q.subj => r = q
  BY <1>1, <1>2, <1>5 DEF RowsFitAt
<1>10. Distinct(crows'[m])
  BY <1>1, <1>2, <1>5 DEF RowsFitAt, Distinct, KeyTaken
<1>11. RowsFitAt(m)'
  BY <1>8, <1>9, <1>10 DEF RowsFitAt
<1>12. Excused(m) \subseteq Excused(m)'
  BY <1>3, <1>4, ExcusesStay
<1>13. ASSUME NEW kind, NEW subj, ~ (kind = w.kind /\ subj = w.subj)
       PROVE  FoldOf(cfacts'[m], kind, subj) = FoldOf(cfacts[m], kind, subj)
  <2>1. cfacts[m] \subseteq cfacts'[m] /\ \A g \in cfacts'[m] \ cfacts[m] : g = f
    BY <1>4
  <2>2. PICK F, G : F = cfacts[m] /\ G = cfacts'[m]
    OBVIOUS
  <2>3. F \subseteq G /\ \A g \in G \ F : ~ (g.row.kind = kind /\ g.row.subj = subj)
    BY <1>4, <1>13, <2>1, <2>2
  <2> QED BY <2>2, <2>3, OtherFoldsStay
<1>14. ASSUME InStep(m) PROVE w.subj \in Excused(m) \/ FoldOf(cfacts'[m], w.kind, w.subj) = w
  <2>1. SUFFICES ASSUME w.subj \notin Excused(m) PROVE FoldOf(cfacts'[m], w.kind, w.subj) = w
    OBVIOUS
  <2>2. cfacts'[m] \ {f} = cfacts[m]
    <3>1. f \notin cfacts[m]
      <4>1. SUFFICES ASSUME f \in cfacts[m] PROVE FALSE
        OBVIOUS
      <4>2. s < s /\ s \in Nat
        BY <1>4, <4>1
      <4> QED BY <4>2
    <3> QED BY <1>4, <3>1
  <2>3. \A g \in cfacts'[m] : g.stamp \in Nat
    BY <1>4
  <2>4. \A g \in cfacts'[m] \ {f} : g.stamp < f.stamp
    BY <1>4, <2>2
  <2>5. f \in cfacts'[m]
    BY <1>4
  <2>6. w.kind \in MergedKinds => w.text # Blank \/ FoldOf(cfacts'[m] \ {f}, w.kind, w.subj).text = Blank
    BY <1>1, <1>14, <2>1, <2>2
  <2>7. PICK G : G = cfacts'[m]
    OBVIOUS
  <2>8. f.row.kind \in MergedKinds =>
          MergedRow(f.row) /\ (f.row.text # Blank \/ FoldOf(G \ {f}, f.row.kind, f.row.subj).text = Blank)
    BY <1>1, <1>4, <2>6, <2>7
  <2>9. FoldOf(G, f.row.kind, f.row.subj) = f.row
    BY <2>3, <2>4, <2>5, <2>7, <2>8, LastFactDecides
  <2> QED BY <1>4, <2>7, <2>9
<1>15. ASSUME InStep(m), NEW r \in crows'[m]
       PROVE  r.subj \in Excused(m)' \/ SaysSame(FoldOf(cfacts'[m], r.kind, r.subj), r)
  <2>1. CASE r \in crows[m] \ gone
    <3>1. FoldOf(cfacts'[m], r.kind, r.subj) = FoldOf(cfacts[m], r.kind, r.subj)
      BY <1>1, <1>13, <2>1
    <3> QED BY <1>12, <1>15, <2>1, <3>1 DEF InStep
  <2>2. CASE r = w
    <3>1. SaysSame(w, w)
      BY DEF SaysSame
    <3>2. w.subj \in Excused(m)' \/ FoldOf(cfacts'[m], w.kind, w.subj) = w
      BY <1>12, <1>14, <1>15
    <3>3. CASE FoldOf(cfacts'[m], w.kind, w.subj) = w
      <4>1. SaysSame(FoldOf(cfacts'[m], w.kind, w.subj), w)
        BY <3>1, <3>3
      <4> QED BY <2>2, <4>1
    <3> QED BY <2>2, <3>2, <3>3
  <2> QED BY <1>5, <2>1, <2>2
<1>16. ASSUME InStep(m), NEW g \in cfacts'[m]
       PROVE  \/ g.row.subj \in Excused(m)'
              \/ HasRow(m, g.row.kind, g.row.subj)'
              \/ g.row.kind = "worktree" /\ FoldOf(cfacts'[m], g.row.kind, g.row.subj).val = Blank
  <2>1. CASE g.row.kind = w.kind /\ g.row.subj = w.subj
    <3>1. CASE new = {w}
      BY <1>5, <2>1, <3>1 DEF HasRow
    <3>2. CASE new # {w}
      <4>1. w.kind = "worktree" /\ w.val = Blank
        BY <3>2
      <4>2. w.subj \in Excused(m)' \/ FoldOf(cfacts'[m], w.kind, w.subj) = w
        BY <1>12, <1>14, <1>16
      <4>3. CASE w.subj \in Excused(m)'
        BY <2>1, <4>3
      <4>4. CASE FoldOf(cfacts'[m], w.kind, w.subj) = w
        <5>1. FoldOf(cfacts'[m], g.row.kind, g.row.subj) = w
          BY <2>1, <4>4
        <5> QED BY <2>1, <4>1, <5>1
      <4> QED BY <4>2, <4>3, <4>4
    <3> QED BY <3>1, <3>2
  <2>2. CASE ~ (g.row.kind = w.kind /\ g.row.subj = w.subj) /\ g.row.kind # "config"
    <3>1. g \in cfacts[m]
      BY <1>4, <2>2
    <3>2. HasRow(m, g.row.kind, g.row.subj) => HasRow(m, g.row.kind, g.row.subj)'
      BY <1>1, <1>5, <2>2 DEF HasRow
    <3>3. \/ g.row.subj \in Excused(m)
          \/ HasRow(m, g.row.kind, g.row.subj)
          \/ g.row.kind = "worktree" /\ FoldOf(cfacts[m], g.row.kind, g.row.subj).val = Blank
      BY <1>16, <3>1 DEF InStep
    <3>4. FoldOf(cfacts'[m], g.row.kind, g.row.subj) = FoldOf(cfacts[m], g.row.kind, g.row.subj)
      BY <1>13, <2>2
    <3> QED BY <1>12, <3>2, <3>3, <3>4
  <2>3. CASE g.row.kind = "config"
    BY <2>3 DEF Excused
  <2> QED BY <2>1, <2>2, <2>3
<1>17. InStep(m) => InStep(m)'
  BY <1>15, <1>16 DEF InStep
<1>18. \A k \in Machines : RowsFitAt(k)' /\ (Ready(k)' /\ ~ cdirty'[k] => InStep(k)')
  <2> TAKE k \in Machines
  <2>1. RowsFitAt(k) /\ (Ready(k) /\ ~ cdirty[k] => InStep(k))
    BY DEF CoreInv
  <2>4. (Ready(k)' <=> Ready(k)) /\ (cdirty'[k] <=> cdirty[k])
    BY <1>3 DEF Ready
  <2>2. CASE k = m
    BY <1>11, <1>17, <2>1, <2>2, <2>4
  <2>3. CASE k # m
    <3>1. RowsFitAt(k)' /\ (InStep(k) => InStep(k)')
      BY <1>3, <1>4, <1>5, <2>1, <2>3, OthersRest
    <3> QED BY <2>1, <2>4, <3>1
  <2> QED BY <2>2, <2>3
<1>19. \A p \in cplan.procs : PromotesKnown(cpromote[p])'
  <2> TAKE p \in cplan.procs
  <2>1. PromotesKnown(cpromote[p])
    BY DEF CoreInv
  <2>2. \A k \in Machines : cfacts[k] \subseteq cfacts'[k]
    BY <1>4
  <2>3. PICK j : j = cpromote[p] /\ cpromote'[p] = j
    OBVIOUS
  <2>4. PromotesKnown(j)'
    BY <1>3, <2>1, <2>2, <2>3, PromotesRest
  <2> QED BY <2>3, <2>4 DEF PromotesKnown
<1> QED BY <1>3, <1>4, <1>6, <1>7, <1>18, <1>19 DEF CoreInv

----------------------------------------------------------------------------
(* Commands. *)

\* appendCoreEventFactTx beside a row that is written.
LEMMA WrittenRow ==
  ASSUME CoreInv, NEW m \in Machines, Ready(m), NEW s \in NextStamps(m), NEW w, NEW gone \in SUBSET crows[m],
         Replaces(m, gone, w, s), WriteRow(m, gone, w, s)
  PROVE  CoreInv'
<1>1. PICK f : f = [row |-> w, env |-> m, stamp |-> s, promoted |-> FALSE]
  OBVIOUS
<1>2. f.stamp = s /\ f.env = m /\ f.row = w
  BY <1>1
<1>3. /\ crows' = [crows EXCEPT ![m] = (@ \ gone) \cup {w}]
      /\ cfacts' = [cfacts EXCEPT ![m] = @ \cup {f}]
      /\ UNCHANGED <<cplan, cdirty, cpromote, cborn>>
  BY <1>1 DEF WriteRow, FactOf
<1>4. PICK new : new = {w}
  OBVIOUS
<1>5. crows' = [crows EXCEPT ![m] = (@ \ gone) \cup new]
  BY <1>3, <1>4
<1> QED BY <1>2, <1>3, <1>4, <1>5, RowWritten

\* The fields of a payload; that of a spark or an idea makes a row of the table.
LEMMA PayloadFields ==
  ASSUME NEW kind, NEW subj, NEW key, NEW val, NEW members, NEW w, w = Payload(kind, subj, key, val, members)
  PROVE  /\ w.kind = kind /\ w.subj = subj /\ w.key = key /\ w.val = val
         /\ kind \in MergedKinds /\ key = Blank /\ val # Blank /\ members = {} => MergedRow(w) /\ w.text # Blank
<1>1. w.kind = kind /\ w.subj = subj /\ w.key = key /\ w.val = val /\ w.text = "text" /\ w.members = members
  BY DEF Payload
<1>2. w = [kind |-> w.kind, subj |-> w.subj, key |-> w.key, val |-> w.val, text |-> w.text, members |-> w.members]
  BY <1>1 DEF Payload
<1> QED BY <1>1, <1>2, WordsAreNotBlank DEF MergedRow

\* CaptureSpark, CaptureIdea and CreateHandoff.
LEMMA CreateKeeps ==
  ASSUME CoreInv, NEW m \in Machines, NEW kind \in MergedKinds \cup {"handoff"}, NEW val,
         kind \in MergedKinds => val # Blank, CreateUnderAlias(m, kind, val)
  PROVE  CoreInv'
<1>1. PICK n : Ready(m) /\ RowOf(m, kind, StableID(n)) = {}
         /\ \E s \in NextStamps(m) : WriteRow(m, {}, Payload(kind, StableID(n), Blank, val, {}), s)
  BY Zenon DEF CreateUnderAlias
<1>2. PICK s \in NextStamps(m) : WriteRow(m, {}, Payload(kind, StableID(n), Blank, val, {}), s)
  BY <1>1
<1>3. PICK w : w = Payload(kind, StableID(n), Blank, val, {})
  OBVIOUS
<1>4. w.kind = kind /\ w.subj = StableID(n) /\ (kind \in MergedKinds => MergedRow(w) /\ w.text # Blank)
  BY <1>3, PayloadFields
<1>5. kind \in CoreKinds /\ kind \notin UniqueKeys
  BY DEF CoreKinds, UniqueKeys, MergedKinds
<1>6. Replaces(m, {}, w, s)
  BY <1>1, <1>4, <1>5 DEF Replaces, RowOf
<1> QED BY <1>1, <1>2, <1>3, <1>6, WrittenRow

\* ResolveSpark, ResolveIdea and ArchiveIdea: the row keeps its wording, and so
\* does the fold.
LEMMA LifecycleKeeps ==
  ASSUME CoreInv, NEW m \in Machines, Ready(m), NEW r \in crows[m], r.kind \in MergedKinds,
         NEW val, val # Blank, SetLifecycle(m, r, val)
  PROVE  CoreInv'
<1>1. PICK s \in NextStamps(m) : WriteRow(m, {r}, [r EXCEPT !.val = val], s)
  BY DEF SetLifecycle
<1>2. PICK w : w = [r EXCEPT !.val = val]
  OBVIOUS
<1>3. MergedRow(r) /\ \A q \in crows[m] : r.kind = q.kind /\ r.subj = q.subj => r = q
  BY DEF CoreInv, RowsFitAt
<1>4. r = [kind |-> r.kind, subj |-> r.subj, key |-> Blank, val |-> r.val, text |-> r.text, members |-> {}]
  BY <1>3 DEF MergedRow
<1>5. w.kind = r.kind /\ w.subj = r.subj /\ w.val = val /\ w.text = r.text
  BY <1>2, <1>4
<1>6. DOMAIN w = {"kind", "subj", "key", "val", "text", "members"} /\ w = [x \in DOMAIN w |-> w[x]]
  BY <1>2, <1>4
<1>7. w.key = Blank /\ w.members = {}
  BY <1>2, <1>4
<1>8. MergedRow(w)
  BY <1>5, <1>6, <1>7 DEF MergedRow
<1>9. InStep(m) => r.subj \in Excused(m) \/ FoldOf(cfacts[m], r.kind, r.subj) = r
  <2>1. SUFFICES ASSUME InStep(m) PROVE r.subj \in Excused(m) \/ FoldOf(cfacts[m], r.kind, r.subj) = r
    OBVIOUS
  <2>2. r.subj \in Excused(m) \/ SaysSame(FoldOf(cfacts[m], r.kind, r.subj), r)
    BY <2>1 DEF InStep
  <2>3. \A f : SaysSame(f, r) => f = r
    BY DEF SaysSame
  <2> QED BY <2>2, <2>3
<1>10. w.kind \in CoreKinds /\ w.kind \notin UniqueKeys
  BY <1>5 DEF CoreKinds, UniqueKeys, MergedKinds
<1>11. InStep(m) => w.subj \in Excused(m) \/ FoldOf(cfacts[m], w.kind, w.subj).text = w.text
  BY <1>5, <1>9
<1>12. Replaces(m, {r}, w, s)
  BY <1>3, <1>5, <1>8, <1>10, <1>11 DEF Replaces
<1> QED BY <1>1, <1>2, <1>12, WrittenRow

\* No row has an id that is yet to be drawn.
LEMMA RowsHaveOldIds ==
  ASSUME CoreInv, NEW m \in Machines, Ready(m), NEW s \in NextStamps(m), NEW r \in crows[m], r.kind \in UniqueKeys
  PROVE  r.subj # OpaqueID(m, s)
<1>1. PICK f \in cfacts[m] : f.row.kind = r.kind /\ f.row.subj = r.subj
  BY DEF CoreInv, RowsFitAt, Mentioned
<1>2. IsDrawn(r.subj)
  BY <1>1 DEF CoreInv, FactsFit, AllFacts
<1> QED BY <1>2, DrawnIsNew DEF CoreInv

\* RecordRelease.
LEMMA ReleaseKeeps ==
  ASSUME CoreInv, NEW m \in Machines, NEW version, NEW members, RecordRelease(m, version, members)
  PROVE  CoreInv'
<1>1. PICK s \in NextStamps(m) : WriteRow(m, {}, Payload("release", OpaqueID(m, s), version, Blank, members), s)
  BY DEF RecordRelease
<1>2. Ready(m) /\ KeyedRow(m, "release", version) = {}
  BY DEF RecordRelease
<1>3. PICK w : w = Payload("release", OpaqueID(m, s), version, Blank, members)
  OBVIOUS
<1>4. w.kind = "release" /\ w.subj = OpaqueID(m, s) /\ w.key = version
  BY <1>3 DEF Payload
<1>5. "release" \in CoreKinds /\ "release" \in UniqueKeys /\ "release" \notin MergedKinds
  BY DEF CoreKinds, UniqueKeys, MergedKinds
<1>6. \A r \in crows[m] : r.kind = "release" => r.subj # OpaqueID(m, s) /\ r.key # version
  BY <1>2, <1>5, RowsHaveOldIds DEF KeyedRow
<1>7. Replaces(m, {}, w, s)
  BY <1>4, <1>5, <1>6 DEF Replaces
<1> QED BY <1>1, <1>2, <1>3, <1>7, WrittenRow

\* UpsertBackendMapping, UpsertWorkContractMapping and UpsertWorkContractReceipt.
LEMMA UpsertKeeps ==
  ASSUME CoreInv, NEW m \in Machines, NEW kind \in UniqueKeys, NEW key, NEW val, Upsert(m, kind, key, val)
  PROVE  CoreInv'
<1>1. PICK old : old = KeyedRow(m, kind, key)
  OBVIOUS
<1>2. Ready(m)
  BY DEF Upsert
<1>3. PICK s, id :
        /\ s \in NextStamps(m)
        /\ id = IF old = {} THEN OpaqueID(m, s) ELSE (CHOOSE r \in old : TRUE).subj
        /\ WriteRow(m, old, Payload(kind, id, key, val, {}), s)
  BY <1>1, Zenon DEF Upsert
<1>4. PICK w : w = Payload(kind, id, key, val, {})
  OBVIOUS
<1>5. w.kind = kind /\ w.subj = id /\ w.key = key
  BY <1>4 DEF Payload
<1>6. kind \in CoreKinds /\ kind \notin MergedKinds
  BY DEF CoreKinds, UniqueKeys, MergedKinds
<1>7. \A r : r \in old <=> r \in crows[m] /\ r.kind = kind /\ r.key = key
  BY <1>1 DEF KeyedRow
<1>8. CASE old = {}
  <2>1. id = OpaqueID(m, s)
    BY <1>3, <1>8
  <2>2. \A r \in crows[m] : r.kind = kind => r.subj # id /\ r.key # key
    BY <1>2, <1>3, <1>7, <1>8, <2>1, RowsHaveOldIds
  <2>3. Replaces(m, old, w, s)
    BY <1>5, <1>6, <1>8, <2>1, <2>2 DEF Replaces
  <2> QED BY <1>2, <1>3, <1>4, <1>7, <2>3, WrittenRow
<1>9. CASE old # {}
  <2>1. PICK x \in old : id = x.subj
    BY <1>3, <1>9
  <2>2. \A r \in old : r.subj = id
    BY <1>7, <2>1 DEF CoreInv, RowsFitAt, Distinct, KeyTaken
  <2>3. \A r \in crows[m] : r.kind = kind /\ r.subj = id => r = x
    BY <1>7, <2>1 DEF CoreInv, RowsFitAt
  <2>4. Mentioned(cfacts[m], kind, id)
    BY <1>2, <1>7, <2>1 DEF CoreInv, RowsFitAt
  <2>5. \A r \in crows[m] \ old : r.kind = kind => r.subj # id /\ r.key # key
    BY <1>7, <2>1, <2>3
  <2>6. Replaces(m, old, w, s)
    BY <1>5, <1>6, <1>7, <2>2, <2>4, <2>5 DEF Replaces
  <2> QED BY <1>2, <1>3, <1>4, <1>7, <2>6, WrittenRow
<1> QED BY <1>8, <1>9

\* ReplaceLinearConfig.
LEMMA ConfigKeeps ==
  ASSUME CoreInv, NEW m \in Machines, NEW team, ReplaceLinearConfig(m, team)
  PROVE  CoreInv'
<1>1. PICK old : old = {r \in crows[m] : r.kind = "config"}
  OBVIOUS
<1>2. PICK s \in NextStamps(m) : WriteRow(m, old, Payload("config", OpaqueID(m, s), team, "project", {}), s)
  BY <1>1 DEF ReplaceLinearConfig
<1>3. PICK w : w = Payload("config", OpaqueID(m, s), team, "project", {})
  OBVIOUS
<1>4. w.kind = "config" /\ w.subj = OpaqueID(m, s)
  BY <1>3 DEF Payload
<1>5. "config" \in CoreKinds /\ "config" \notin MergedKinds
  BY DEF CoreKinds, UniqueKeys, MergedKinds
<1>6. Replaces(m, old, w, s)
  BY <1>1, <1>4, <1>5 DEF Replaces
<1>7. Ready(m) /\ old \in SUBSET crows[m]
  BY <1>1 DEF ReplaceLinearConfig
<1> QED BY <1>2, <1>3, <1>6, <1>7, WrittenRow

\* BindWorktree.
LEMMA BindKeeps ==
  ASSUME CoreInv, NEW m \in Machines, NEW issueId, NEW path, BindWorktree(m, issueId, path)
  PROVE  CoreInv'
<1>1. PICK old, w, new : /\ old = RowOf(m, "worktree", issueId)
                         /\ w = Payload("worktree", issueId, Blank, path, {})
                         /\ new = IF path = Blank THEN {} ELSE {w}
  OBVIOUS
<1>2. Ready(m) /\ UNCHANGED <<cplan, cdirty, cpromote, cborn>>
  BY DEF BindWorktree
<1>3. PICK s \in NextStamps(m) :
        /\ crows' = [crows EXCEPT ![m] = (@ \ old) \cup new]
        /\ cfacts' = [cfacts EXCEPT ![m] = @ \cup {[row |-> w, env |-> m, stamp |-> s, promoted |-> FALSE]}]
  BY <1>1 DEF BindWorktree, FactOf
<1>4. PICK f : f = [row |-> w, env |-> m, stamp |-> s, promoted |-> FALSE]
  OBVIOUS
<1>5. f.stamp = s /\ f.env = m /\ f.row = w
  BY <1>4
<1>6. cfacts' = [cfacts EXCEPT ![m] = @ \cup {f}]
  BY <1>3, <1>4
<1>7. w.kind = "worktree" /\ w.subj = issueId /\ w.val = path
  BY <1>1 DEF Payload
<1>8. "worktree" \in CoreKinds /\ "worktree" \notin MergedKinds /\ "worktree" \notin UniqueKeys
  BY DEF CoreKinds, UniqueKeys, MergedKinds
<1>9. old \in SUBSET crows[m] /\ \A r \in crows[m] : r \in old <=> r.kind = "worktree" /\ r.subj = issueId
  BY <1>1 DEF RowOf
<1>10. Replaces(m, old, w, s)
  BY <1>7, <1>8, <1>9 DEF Replaces
<1>11. new = {w} \/ (new = {} /\ w.kind = "worktree" /\ w.val = Blank)
  BY <1>1, <1>7
<1> QED BY <1>2, <1>3, <1>5, <1>6, <1>9, <1>10, <1>11, RowWritten

\* The first half of a promotion: the entity is read.
LEMMA PromoteReadKeeps ==
  ASSUME CoreInv, NEW m \in Machines, NEW p, NEW r \in crows[m], PromoteRead(p, m, r)
  PROVE  CoreInv'
<1>1. Ready(m) /\ r.kind \in MergedKinds /\ UNCHANGED <<cplan, crows, cnames, cfacts, cdirty, cborn>>
  BY DEF PromoteRead
<1>2. PICK j : /\ j = [on |-> TRUE, at |-> m, kind |-> r.kind, subj |-> r.subj, val |-> r.val]
               /\ cpromote' = [cpromote EXCEPT ![p] = j]
  BY DEF PromoteRead
<1>3. CoreTyped' /\ Unmigrated' /\ FactsFit'
  <2>1. CoreTyped'
    BY <1>1, <1>2 DEF CoreInv, CoreTyped, Machines
  <2>2. Unmigrated'
    BY <1>1 DEF CoreInv, Unmigrated
  <2>3. FactsFit'
    BY <1>1 DEF CoreInv, FactsFit, FactFits, AllFacts, IsDrawn, Machines
  <2> QED BY <2>1, <2>2, <2>3
<1>4. \A k \in Machines' : RowsFitAt(k)' /\ (Ready(k)' /\ ~ cdirty'[k] => InStep(k)')
  <2> TAKE k \in Machines'
  <2>1. RowsFitAt(k) /\ (Ready(k) /\ ~ cdirty[k] => InStep(k))
    BY <1>1 DEF CoreInv, Machines
  <2>2. RowsFitAt(k)' /\ (InStep(k) => InStep(k)')
    BY <1>1, <2>1, OthersRest
  <2>3. (Ready(k)' <=> Ready(k)) /\ cdirty' = cdirty
    BY <1>1 DEF Ready
  <2> QED BY <2>1, <2>2, <2>3
<1>5. Mentioned(cfacts[m], r.kind, r.subj)
  BY <1>1 DEF CoreInv, RowsFitAt
<1>6. j.at = m /\ j.kind = r.kind /\ j.subj = r.subj
  BY <1>2
<1>7. PromotesKnown(j)
  BY <1>1, <1>5, <1>6 DEF PromotesKnown
<1>8. \A q \in cplan.procs : PromotesKnown(cpromote'[q])
  BY <1>2, <1>7 DEF CoreInv, CoreTyped
<1>9. \A q \in cplan'.procs : PromotesKnown(cpromote[q])'
  <2> TAKE q \in cplan'.procs
  <2>1. PICK i : i = cpromote'[q] /\ PromotesKnown(i)
    BY <1>1, <1>8
  <2>2. PromotesKnown(i)'
    BY <1>1, <2>1, PromotesRest
  <2> QED BY <2>1, <2>2 DEF PromotesKnown
<1> QED BY <1>3, <1>4, <1>9 DEF CoreInv

\* The second half: the fact repeats what was read, and excuses its subject.
LEMMA PromoteFactKeeps ==
  ASSUME CoreInv, NEW p \in cplan.procs, NEW kind \in MergedKinds, NEW s, PromoteFact(p, kind, s)
  PROVE  CoreInv'
<1>1. PICK j, m : j = cpromote[p] /\ m = j.at
  OBVIOUS
<1>2. /\ j.on /\ j.kind = kind /\ s \in NextStamps(m)
      /\ UNCHANGED <<cplan, crows, cnames, cdirty, cborn>>
  BY <1>1 DEF PromoteFact
<1>3. PICK w, f : /\ w = Payload(kind, j.subj, Blank, j.val, {})
                  /\ f = [row |-> w, env |-> m, stamp |-> s, promoted |-> TRUE]
  OBVIOUS
<1>4. /\ cfacts' = [cfacts EXCEPT ![m] = @ \cup {f}]
      /\ cpromote' = [cpromote EXCEPT ![p] = Idle]
  BY <1>1, <1>3 DEF PromoteFact, FactOf
<1>5. f.stamp = s /\ f.env = m /\ f.row = w /\ w.kind = kind /\ w.subj = j.subj
  <2>1. f.stamp = s /\ f.env = m /\ f.row = w
    BY <1>3
  <2>2. w.kind = kind /\ w.subj = j.subj
    BY <1>3 DEF Payload
  <2> QED BY <2>1, <2>2
<1>6. f.promoted
  BY <1>3
<1>7. PromotesKnown(j)
  BY <1>1 DEF CoreInv
<1>8. Ready(m) /\ m \in Machines /\ Mentioned(cfacts[m], kind, j.subj)
  BY <1>1, <1>2, <1>7 DEF PromotesKnown
<1>9. /\ FactsFit'
      /\ cfacts'[m] = cfacts[m] \cup {f}
      /\ \A k \in Machines : k # m => cfacts'[k] = cfacts[k]
  <2>1. f.stamp \in NextStamps(m) /\ f.row.kind \in CoreKinds /\ f.row.kind \notin UniqueKeys
    BY <1>2, <1>5 DEF CoreKinds, MergedKinds, UniqueKeys
  <2>2. CoreTyped /\ FactsFit
    BY DEF CoreInv
  <2> QED BY <1>2, <1>4, <1>5, <1>8, <2>1, <2>2, FactAdded
<1>10. CoreTyped'
  BY <1>2, <1>4 DEF CoreInv, CoreTyped, Machines
<1>11. Unmigrated'
  <2>1. SUFFICES ASSUME ~ cborn PROVE Unmigrated'
    BY <1>2 DEF Unmigrated
  <2>2. m # LegacyHost /\ LegacyHost \in Machines
    BY <1>8, <2>1, PlanFits DEF Ready, CoreInv
  <2> QED BY <1>2, <1>9, <2>1, <2>2 DEF CoreInv, Unmigrated
<1>12. RowsFitAt(m)'
  <2>1. RowsFitAt(m)
    BY <1>8 DEF CoreInv
  <2>2. \A r \in crows[m] : Ready(m)' => Mentioned(cfacts'[m], r.kind, r.subj)
    BY <1>2, <1>8, <1>9, <2>1 DEF RowsFitAt, Mentioned
  <2> QED BY <1>2, <2>1, <2>2 DEF RowsFitAt
<1>13. Excused(m) \subseteq Excused(m)' /\ w.subj \in Excused(m)'
  <2>1. Excused(m) \subseteq Excused(m)'
    BY <1>2, <1>9, ExcusesStay
  <2>2. f \in cfacts'[m]
    BY <1>9
  <2> QED BY <1>5, <1>6, <2>1, <2>2 DEF Excused
<1>14. ASSUME NEW k, NEW x, x \notin Excused(m)' PROVE FoldOf(cfacts'[m], k, x) = FoldOf(cfacts[m], k, x)
  <2>1. PICK F, G : F = cfacts[m] /\ G = cfacts'[m]
    OBVIOUS
  <2>2. F \subseteq G /\ \A g \in G \ F : g = f
    BY <1>9, <2>1
  <2>3. \A g \in G \ F : ~ (g.row.kind = k /\ g.row.subj = x)
    BY <1>5, <1>13, <1>14, <2>2
  <2> QED BY <2>1, <2>2, <2>3, OtherFoldsStay
<1>15. InStep(m) => InStep(m)'
  <2>1. SUFFICES ASSUME InStep(m) PROVE InStep(m)'
    OBVIOUS
  <2>2. ASSUME NEW r \in crows'[m], r.subj \notin Excused(m)'
        PROVE  SaysSame(FoldOf(cfacts'[m], r.kind, r.subj), r)
    <3>1. SaysSame(FoldOf(cfacts[m], r.kind, r.subj), r)
      BY <1>2, <1>13, <2>1, <2>2 DEF InStep
    <3>2. FoldOf(cfacts'[m], r.kind, r.subj) = FoldOf(cfacts[m], r.kind, r.subj)
      BY <1>14, <2>2
    <3> QED BY <3>1, <3>2
  <2>3. ASSUME NEW g \in cfacts'[m], g.row.subj \notin Excused(m)'
        PROVE  \/ HasRow(m, g.row.kind, g.row.subj)'
               \/ g.row.kind = "worktree" /\ FoldOf(cfacts'[m], g.row.kind, g.row.subj).val = Blank
    <3>1. g \in cfacts[m]
      BY <1>5, <1>9, <1>13, <2>3
    <3>2. \/ HasRow(m, g.row.kind, g.row.subj)
          \/ g.row.kind = "worktree" /\ FoldOf(cfacts[m], g.row.kind, g.row.subj).val = Blank
      BY <1>13, <2>1, <2>3, <3>1 DEF InStep
    <3>3. FoldOf(cfacts'[m], g.row.kind, g.row.subj) = FoldOf(cfacts[m], g.row.kind, g.row.subj)
      BY <1>14, <2>3
    <3>4. HasRow(m, g.row.kind, g.row.subj) => HasRow(m, g.row.kind, g.row.subj)'
      BY <1>2 DEF HasRow
    <3> QED BY <3>2, <3>3, <3>4
  <2> QED BY <2>2, <2>3 DEF InStep
<1>16. \A k \in Machines' : RowsFitAt(k)' /\ (Ready(k)' /\ ~ cdirty'[k] => InStep(k)')
  <2> TAKE k \in Machines'
  <2>1. k \in Machines /\ RowsFitAt(k) /\ (Ready(k) /\ ~ cdirty[k] => InStep(k))
    BY <1>2 DEF CoreInv, Machines
  <2>2. (Ready(k)' <=> Ready(k)) /\ cdirty' = cdirty
    BY <1>2 DEF Ready
  <2>3. CASE k = m
    BY <1>12, <1>15, <2>1, <2>2, <2>3
  <2>4. CASE k # m
    <3>1. RowsFitAt(k)' /\ (InStep(k) => InStep(k)')
      BY <1>2, <1>9, <2>1, <2>4, OthersRest
    <3> QED BY <2>1, <2>2, <3>1
  <2> QED BY <2>3, <2>4
<1>17. \A q \in cplan'.procs : PromotesKnown(cpromote[q])'
  <2> TAKE q \in cplan'.procs
  <2>1. q \in cplan.procs /\ cpromote'[q] = IF q = p THEN Idle ELSE cpromote[q]
    BY <1>2, <1>4 DEF CoreInv, CoreTyped
  <2>2. CASE q = p
    <3>1. ~ cpromote'[q].on
      BY <2>1, <2>2 DEF Idle
    <3> QED BY <3>1 DEF PromotesKnown
  <2>3. CASE q # p
    <3>1. PICK i : i = cpromote[q] /\ i = cpromote'[q] /\ PromotesKnown(i)
      BY <2>1, <2>3 DEF CoreInv
    <3>2. \A k \in Machines : cfacts[k] \subseteq cfacts'[k]
      BY <1>9
    <3>3. PromotesKnown(i)'
      BY <1>2, <3>1, <3>2, PromotesRest
    <3> QED BY <3>1, <3>3 DEF PromotesKnown
  <2> QED BY <2>2, <2>3
<1> QED BY <1>9, <1>10, <1>11, <1>16, <1>17 DEF CoreInv

----------------------------------------------------------------------------
(* A sync pass. *)

\* A fact is received: its machine is dirty until it rebuilds.
LEMMA ReceiveCoreKeeps ==
  ASSUME CoreInv, NEW m \in Machines, NEW k \in Machines, NEW f \in cfacts[k], ReceiveCoreFact(m, f)
  PROVE  CoreInv'
<1>1. /\ Ready(m)
      /\ cfacts' = [cfacts EXCEPT ![m] = @ \cup {f}]
      /\ cdirty' = [cdirty EXCEPT ![m] = TRUE]
      /\ UNCHANGED <<cplan, crows, cnames, cpromote, cborn>>
  BY DEF ReceiveCoreFact
<1>2. CoreTyped /\ FactsFit /\ Machines' = Machines
  BY <1>1 DEF CoreInv, Machines
<1>3. /\ cfacts'[m] = cfacts[m] \cup {f} /\ \A i \in Machines : i # m => cfacts'[i] = cfacts[i]
      /\ cdirty'[m] /\ \A i \in Machines : i # m => cdirty'[i] = cdirty[i]
  BY <1>1, <1>2 DEF CoreTyped
<1>4. \A i \in Machines : cfacts[i] \subseteq cfacts'[i]
  BY <1>3
<1>5. f \in AllFacts /\ \A g : g \in AllFacts' <=> g \in AllFacts
  BY <1>2, <1>3 DEF AllFacts
<1>6. FactsFit'
  <2>1. \A i \in Machines' : Bounded(cfacts'[i])
    <3>1. TAKE i \in Machines'
    <3>2. PICK n \in Nat : \A g \in cfacts[i] : g.stamp <= n /\ g.env <= n
      BY <1>2 DEF FactsFit, Bounded
    <3>3. \A g \in AllFacts : g.stamp \in Nat /\ g.env \in Nat
      BY <1>2, PlanFits DEF FactsFit, FactFits, Legacy
    <3>4. PICK b \in Nat : b = n + f.stamp + f.env
      BY <1>5, <3>3
    <3>5. \A g \in cfacts'[i] : g \in AllFacts /\ (g \in cfacts[i] \/ g = f)
      BY <1>2, <1>3, <1>5 DEF AllFacts
    <3>6. \A g \in cfacts'[i] : g.stamp <= b /\ g.env <= b
      BY <1>5, <3>2, <3>3, <3>4, <3>5
    <3> QED BY <3>6 DEF Bounded
  <2>2. \A g \in AllFacts' : FactFits(g)' /\ (g.row.kind \in UniqueKeys => IsDrawn(g.row.subj)')
    <3> TAKE g \in AllFacts'
    <3>1. FactFits(g) /\ (g.row.kind \in UniqueKeys => IsDrawn(g.row.subj))
      BY <1>2, <1>5 DEF FactsFit
    <3>2. FactFits(g)'
      BY <1>1, <1>2, <1>4, <3>1, PlanFits DEF FactFits
    <3>3. ASSUME IsDrawn(g.row.subj) PROVE IsDrawn(g.row.subj)'
      BY <1>1, <1>2, <1>4, <3>3 DEF IsDrawn
    <3> QED BY <3>1, <3>2, <3>3
  <2> QED BY <1>2, <1>5, <2>1, <2>2 DEF FactsFit
<1>7. CoreTyped'
  BY <1>1, <1>2 DEF CoreTyped
<1>8. Unmigrated'
  <2>1. SUFFICES ASSUME ~ cborn PROVE Unmigrated'
    BY <1>1 DEF Unmigrated
  <2>2. m # LegacyHost /\ LegacyHost \in Machines
    BY <1>1, <1>2, <2>1, PlanFits DEF Ready
  <2> QED BY <1>1, <1>3, <2>1, <2>2 DEF CoreInv, Unmigrated
<1>9. \A i \in Machines : RowsFitAt(i)' /\ (Ready(i)' /\ ~ cdirty'[i] => InStep(i)')
  <2> TAKE i \in Machines
  <2>1. RowsFitAt(i) /\ (Ready(i) /\ ~ cdirty[i] => InStep(i))
    BY DEF CoreInv
  <2>2. Ready(i)' <=> Ready(i)
    BY <1>1 DEF Ready
  <2>3. CASE i = m
    <3>1. \A r \in crows[m] : Mentioned(cfacts'[m], r.kind, r.subj)
      BY <1>1, <1>4, <2>1, <2>3 DEF RowsFitAt, Mentioned
    <3>2. RowsFitAt(m)'
      BY <1>1, <2>1, <2>3, <3>1 DEF RowsFitAt
    <3> QED BY <1>3, <2>3, <3>2
  <2>4. CASE i # m
    <3>1. RowsFitAt(i)' /\ (InStep(i) => InStep(i)')
      BY <1>1, <1>3, <2>1, <2>4, OthersRest
    <3> QED BY <1>3, <2>1, <2>2, <2>4, <3>1
  <2> QED BY <2>3, <2>4
<1>10. \A q \in cplan.procs : PromotesKnown(cpromote[q])'
  <2> TAKE q \in cplan.procs
  <2>1. PICK i : i = cpromote[q] /\ i = cpromote'[q] /\ PromotesKnown(i)
    BY <1>1 DEF CoreInv
  <2>2. PromotesKnown(i)'
    BY <1>1, <1>4, <2>1, PromotesRest
  <2> QED BY <2>1, <2>2 DEF PromotesKnown
<1> QED BY <1>1, <1>2, <1>6, <1>7, <1>8, <1>9, <1>10 DEF CoreInv

\* What the lists of folds are made of.
Folds(F, kinds, R) ==
  \A r : r \in R <=> \E f \in F : f.row.kind \in kinds /\ r = FoldOf(F, f.row.kind, f.row.subj)

\* foldSparkFacts and foldIdeaFacts hold the fold of every subject of theirs.
LEMMA SparksAreFolds ==
  ASSUME NEW F
  PROVE  Folds(F, {"spark"}, foldSparkFacts(F)) /\ Folds(F, {"idea"}, foldIdeaFacts(F))
<1>1. \A s : s \in Subjects(F) <=> \E f \in F : s = <<f.row.kind, f.row.subj>>
  BY DEF Subjects
<1>2. \A x : FoldOf(F, "spark", x) = applySparkEvent(x, About(F, <<"spark", x>>))
  BY DEF FoldOf
<1>3. \A x : FoldOf(F, "idea", x) = applyIdeaEvent(x, About(F, <<"idea", x>>))
  BY DEF FoldOf
<1>4. ASSUME NEW r PROVE r \in foldSparkFacts(F) <=>
        \E f \in F : f.row.kind \in {"spark"} /\ r = FoldOf(F, f.row.kind, f.row.subj)
  <2>1. r \in foldSparkFacts(F) <=> \E s \in Subjects(F) : s[1] = "spark" /\ r = applySparkEvent(s[2], About(F, s))
    BY DEF foldSparkFacts
  <2>2. ASSUME NEW s \in Subjects(F), s[1] = "spark", r = applySparkEvent(s[2], About(F, s))
        PROVE  \E f \in F : f.row.kind \in {"spark"} /\ r = FoldOf(F, f.row.kind, f.row.subj)
    <3>1. PICK f \in F : s = <<f.row.kind, f.row.subj>>
      BY <1>1, <2>2
    <3>2. f.row.kind = "spark" /\ s[2] = f.row.subj /\ s = <<"spark", f.row.subj>>
      BY <2>2, <3>1
    <3> QED BY <1>2, <2>2, <3>2
  <2>3. ASSUME NEW f \in F, f.row.kind = "spark", r = FoldOf(F, f.row.kind, f.row.subj)
        PROVE  \E s \in Subjects(F) : s[1] = "spark" /\ r = applySparkEvent(s[2], About(F, s))
    <3>1. PICK s \in Subjects(F) : s = <<"spark", f.row.subj>>
      BY <1>1, <2>3
    <3>2. s[1] = "spark" /\ s[2] = f.row.subj
      BY <3>1
    <3>3. r = applySparkEvent(s[2], About(F, s))
      BY <1>2, <2>3, <3>1, <3>2
    <3> QED BY <3>2, <3>3
  <2> QED BY <2>1, <2>2, <2>3
<1>5. ASSUME NEW r PROVE r \in foldIdeaFacts(F) <=>
        \E f \in F : f.row.kind \in {"idea"} /\ r = FoldOf(F, f.row.kind, f.row.subj)
  <2>1. r \in foldIdeaFacts(F) <=> \E s \in Subjects(F) : s[1] = "idea" /\ r = applyIdeaEvent(s[2], About(F, s))
    BY DEF foldIdeaFacts
  <2>2. ASSUME NEW s \in Subjects(F), s[1] = "idea", r = applyIdeaEvent(s[2], About(F, s))
        PROVE  \E f \in F : f.row.kind \in {"idea"} /\ r = FoldOf(F, f.row.kind, f.row.subj)
    <3>1. PICK f \in F : s = <<f.row.kind, f.row.subj>>
      BY <1>1, <2>2
    <3>2. f.row.kind = "idea" /\ s[2] = f.row.subj /\ s = <<"idea", f.row.subj>>
      BY <2>2, <3>1
    <3> QED BY <1>3, <2>2, <3>2
  <2>3. ASSUME NEW f \in F, f.row.kind = "idea", r = FoldOf(F, f.row.kind, f.row.subj)
        PROVE  \E s \in Subjects(F) : s[1] = "idea" /\ r = applyIdeaEvent(s[2], About(F, s))
    <3>1. PICK s \in Subjects(F) : s = <<"idea", f.row.subj>>
      BY <1>1, <2>3
    <3>2. s[1] = "idea" /\ s[2] = f.row.subj
      BY <3>1
    <3>3. r = applyIdeaEvent(s[2], About(F, s))
      BY <1>3, <2>3, <3>1, <3>2
    <3> QED BY <3>2, <3>3
  <2> QED BY <2>1, <2>2, <2>3
<1> QED BY <1>4, <1>5 DEF Folds

\* So does every list foldLatestBySubject makes.
LEMMA LatestAreFolds ==
  ASSUME NEW F, NEW kinds, kinds \cap MergedKinds = {}
  PROVE  Folds(F, kinds, FoldLatest(F, kinds))
<1>1. \A s : s \in Subjects(F) <=> \E f \in F : s = <<f.row.kind, f.row.subj>>
  BY DEF Subjects
<1>2. \A k \in kinds : \A x : FoldOf(F, k, x) = foldLatestBySubject(About(F, <<k, x>>))
  BY DEF FoldOf, MergedKinds
<1>3. ASSUME NEW r PROVE r \in FoldLatest(F, kinds) <=>
        \E f \in F : f.row.kind \in kinds /\ r = FoldOf(F, f.row.kind, f.row.subj)
  <2>1. r \in FoldLatest(F, kinds) <=> \E s \in Subjects(F) : s[1] \in kinds /\ r = foldLatestBySubject(About(F, s))
    BY DEF FoldLatest
  <2>2. ASSUME NEW s \in Subjects(F), s[1] \in kinds, r = foldLatestBySubject(About(F, s))
        PROVE  \E f \in F : f.row.kind \in kinds /\ r = FoldOf(F, f.row.kind, f.row.subj)
    <3>1. PICK f \in F : s = <<f.row.kind, f.row.subj>>
      BY <1>1, <2>2
    <3>2. f.row.kind \in kinds
      BY <2>2, <3>1
    <3>3. r = FoldOf(F, f.row.kind, f.row.subj)
      BY <1>2, <2>2, <3>1, <3>2
    <3> QED BY <3>2, <3>3
  <2>3. ASSUME NEW f \in F, f.row.kind \in kinds, r = FoldOf(F, f.row.kind, f.row.subj)
        PROVE  \E s \in Subjects(F) : s[1] \in kinds /\ r = foldLatestBySubject(About(F, s))
    <3>1. PICK s \in Subjects(F) : s = <<f.row.kind, f.row.subj>>
      BY <1>1
    <3>2. s[1] \in kinds
      BY <2>3, <3>1
    <3>3. r = foldLatestBySubject(About(F, s))
      BY <1>2, <2>3, <3>1
    <3> QED BY <3>2, <3>3
  <2> QED BY <2>1, <2>2, <2>3
<1> QED BY <1>3 DEF Folds

\* And so the lists of all tables.
LEMMA ListsAreFolds ==
  ASSUME NEW F
  PROVE  /\ Folds(F, {"spark"}, foldSparkFacts(F)) /\ Folds(F, {"idea"}, foldIdeaFacts(F))
         /\ Folds(F, {"handoff"}, foldHandoffFacts(F)) /\ Folds(F, {"release"}, foldReleaseFacts(F))
         /\ Folds(F, RefKinds, foldRefFacts(F)) /\ Folds(F, {"worktree"}, foldWorktreeFacts(F))
         /\ Folds(F, {"verification"}, foldVerificationFacts(F))
<1>1. /\ {"handoff"} \cap MergedKinds = {} /\ {"release"} \cap MergedKinds = {}
      /\ {"ref", "config", "mapping"} \cap MergedKinds = {} /\ {"worktree"} \cap MergedKinds = {}
      /\ {"verification"} \cap MergedKinds = {}
  BY DEF MergedKinds
<1>2. Folds(F, {"handoff"}, foldHandoffFacts(F))
  BY <1>1, LatestAreFolds DEF foldHandoffFacts
<1>3. Folds(F, {"release"}, foldReleaseFacts(F))
  BY <1>1, LatestAreFolds DEF foldReleaseFacts
<1>4. Folds(F, RefKinds, foldRefFacts(F))
  BY <1>1, LatestAreFolds DEF foldRefFacts, RefKinds
<1>5. Folds(F, {"worktree"}, foldWorktreeFacts(F))
  BY <1>1, LatestAreFolds DEF foldWorktreeFacts
<1>6. Folds(F, {"verification"}, foldVerificationFacts(F))
  BY <1>1, LatestAreFolds DEF foldVerificationFacts
<1> QED BY <1>2, <1>3, <1>4, <1>5, <1>6, SparksAreFolds

\* What a rebuild puts into the tables.
LEMMA RebuiltRows ==
  ASSUME NEW m, NEW F, F = cfacts[m], \A f \in F : f.row.kind \in CoreKinds, NEW r
  PROVE  r \in Rebuilt(m) <=>
           \E f \in F : /\ r = FoldOf(F, f.row.kind, f.row.subj)
                        /\ f.row.kind = "worktree" => r.val # Blank /\ r.subj \in cplan.issues[m]
<1> DEFINE From(kinds) == \E f \in F : f.row.kind \in kinds /\ r = FoldOf(F, f.row.kind, f.row.subj)
<1>1. r \in Rebuilt(m) <=> \/ r \in foldSparkFacts(F) \/ r \in foldIdeaFacts(F)
                           \/ r \in foldHandoffFacts(F) \/ r \in foldReleaseFacts(F)
                           \/ r \in foldRefFacts(F) \/ r \in rebuildWorktreeProjection(m, F)
                           \/ r \in foldVerificationFacts(F)
  BY DEF Rebuilt, rebuildSparkProjection, rebuildIdeaProjection, rebuildHandoffProjection,
         rebuildReleaseProjection, rebuildRefProjection, rebuildVerificationProjection
<1>2. r \in rebuildWorktreeProjection(m, F) <=>
        r \in foldWorktreeFacts(F) /\ r.val # Blank /\ r.subj \in cplan.issues[m]
  BY DEF rebuildWorktreeProjection, applyWorktreeProjection
<1>3. /\ r \in foldSparkFacts(F) <=> From({"spark"})
      /\ r \in foldIdeaFacts(F) <=> From({"idea"})
      /\ r \in foldHandoffFacts(F) <=> From({"handoff"})
      /\ r \in foldReleaseFacts(F) <=> From({"release"})
      /\ r \in foldRefFacts(F) <=> From(RefKinds)
      /\ r \in foldWorktreeFacts(F) <=> From({"worktree"})
      /\ r \in foldVerificationFacts(F) <=> From({"verification"})
  BY ListsAreFolds DEF Folds
<1>4. CoreKinds = {"spark", "idea", "handoff", "release", "worktree", "verification"} \cup RefKinds
      /\ "worktree" \notin RefKinds
  BY DEF CoreKinds, MergedKinds, UniqueKeys, RefKinds
<1>5. ASSUME r \in Rebuilt(m)
      PROVE  \E f \in F : /\ r = FoldOf(F, f.row.kind, f.row.subj)
                          /\ f.row.kind = "worktree" => r.val # Blank /\ r.subj \in cplan.issues[m]
  <2>1. CASE From({"spark"}) \/ From({"idea"}) \/ From({"handoff"}) \/ From({"release"})
               \/ From(RefKinds) \/ From({"verification"})
    BY <1>4, <2>1
  <2>2. CASE From({"worktree"}) /\ r.val # Blank /\ r.subj \in cplan.issues[m]
    BY <2>2
  <2> HIDE DEF From
  <2> QED BY <1>1, <1>2, <1>3, <1>5, <2>1, <2>2
<1>6. ASSUME NEW f \in F, r = FoldOf(F, f.row.kind, f.row.subj),
             f.row.kind = "worktree" => r.val # Blank /\ r.subj \in cplan.issues[m]
      PROVE  r \in Rebuilt(m)
  <2>1. f.row.kind \in CoreKinds
    OBVIOUS
  <2>2. CASE f.row.kind \in RefKinds
    <3>1. From(RefKinds)
      BY <1>6, <2>2
    <3> QED BY <1>1, <1>3, <3>1
  <2>3. CASE f.row.kind = "worktree"
    <3>1. From({"worktree"})
      BY <1>6, <2>3
    <3> QED BY <1>1, <1>2, <1>3, <1>6, <2>3, <3>1
  <2>4. CASE f.row.kind \in {"spark", "idea", "handoff", "release", "verification"}
    <3>1. From({"spark"}) \/ From({"idea"}) \/ From({"handoff"}) \/ From({"release"}) \/ From({"verification"})
      BY <1>6, <2>4
    <3> HIDE DEF From
    <3> QED BY <1>1, <1>3, <3>1
  <2> QED BY <1>4, <2>1, <2>2, <2>3, <2>4
<1> QED BY <1>5, <1>6

\* A rebuild puts a machine in step.
LEMMA RefreshKeeps ==
  ASSUME CoreInv, NEW m \in Machines, RefreshProjections(m)
  PROVE  CoreInv'
<1>1. /\ cdirty[m] /\ CanRebuild(m)
      /\ crows' = [crows EXCEPT ![m] = Rebuilt(m)]
      /\ cdirty' = [cdirty EXCEPT ![m] = FALSE]
      /\ UNCHANGED <<cplan, cnames, cfacts, cpromote, cborn>>
  BY DEF RefreshProjections
<1>2. CoreTyped /\ FactsFit /\ Machines' = Machines
  BY <1>1 DEF CoreInv, Machines
<1>3. /\ crows'[m] = Rebuilt(m) /\ \A i \in Machines : i # m => crows'[i] = crows[i]
      /\ \A i \in Machines : i # m => cdirty'[i] = cdirty[i]
  BY <1>1, <1>2 DEF CoreTyped
<1>4. CoreTyped'
  BY <1>1, <1>2 DEF CoreTyped
<1>5. FactsFit'
  BY <1>1, <1>2 DEF FactsFit, FactFits, AllFacts, IsDrawn
<1>6. Ready(m)
  BY <1>1 DEF CoreInv, Unmigrated, Ready
<1>7. Unmigrated'
  <2>1. SUFFICES ASSUME ~ cborn PROVE Unmigrated'
    BY <1>1 DEF Unmigrated
  <2>2. m # LegacyHost /\ LegacyHost \in Machines
    BY <1>6, <1>2, <2>1, PlanFits DEF Ready
  <2> QED BY <1>1, <1>3, <2>1, <2>2 DEF CoreInv, Unmigrated
<1>8. PICK F : F = cfacts[m]
  OBVIOUS
<1>9. FactsTold(F) /\ \A f \in F : f.row.kind \in CoreKinds
  <2>1. \A f \in F : f \in AllFacts
    BY <1>8 DEF AllFacts
  <2> QED BY <1>2, <1>8, <2>1, HeldAreTold DEF FactsFit, FactFits
<1>10. \A r : r \in Rebuilt(m) <=>
                \E f \in F : /\ r = FoldOf(F, f.row.kind, f.row.subj)
                             /\ f.row.kind = "worktree" => r.val # Blank /\ r.subj \in cplan.issues[m]
  BY <1>8, <1>9, RebuiltRows
<1>11. ASSUME NEW f \in F, NEW r, r = FoldOf(F, f.row.kind, f.row.subj)
       PROVE  r.kind = f.row.kind /\ r.subj = f.row.subj /\ (r.kind \in MergedKinds => MergedRow(r))
  <2>1. Mentioned(F, f.row.kind, f.row.subj)
    BY DEF Mentioned
  <2> QED BY <1>9, <1>11, <2>1, FoldFits
<1>12. ASSUME NEW r \in Rebuilt(m)
       PROVE  /\ \E f \in F : f.row.kind = r.kind /\ f.row.subj = r.subj
              /\ r.kind \in CoreKinds /\ (r.kind \in MergedKinds => MergedRow(r))
              /\ FoldOf(F, r.kind, r.subj) = r
  <2>1. PICK f \in F : r = FoldOf(F, f.row.kind, f.row.subj)
    BY <1>10
  <2>2. r.kind = f.row.kind /\ r.subj = f.row.subj /\ (r.kind \in MergedKinds => MergedRow(r))
    BY <1>11, <2>1
  <2>3. FoldOf(F, r.kind, r.subj) = r
    BY <2>1, <2>2
  <2> QED BY <1>9, <2>2, <2>3
<1>13. Distinct(Rebuilt(m))
  <2>1. Distinct(foldReleaseFacts(F)) /\ Distinct(foldRefFacts(F)) /\ Distinct(foldVerificationFacts(F))
    BY <1>1, <1>8 DEF CanRebuild, rebuildReleaseProjection, rebuildRefProjection, rebuildVerificationProjection
  <2>2. ASSUME NEW r \in Rebuilt(m), r.kind \in UniqueKeys
        PROVE  \/ r.kind = "release" /\ r \in foldReleaseFacts(F)
               \/ r.kind \in RefKinds /\ r \in foldRefFacts(F)
               \/ r.kind = "verification" /\ r \in foldVerificationFacts(F)
    <3>1. PICK f \in F : f.row.kind = r.kind /\ f.row.subj = r.subj
      BY <1>12
    <3>2. r = FoldOf(F, f.row.kind, f.row.subj)
      BY <1>12, <3>1
    <3>3. CASE r.kind \in RefKinds
      <4>1. \E g \in F : g.row.kind \in RefKinds /\ r = FoldOf(F, g.row.kind, g.row.subj)
        BY <3>1, <3>2, <3>3
      <4> QED BY <3>3, <4>1, ListsAreFolds DEF Folds
    <3>4. CASE r.kind = "release"
      <4>1. \E g \in F : g.row.kind \in {"release"} /\ r = FoldOf(F, g.row.kind, g.row.subj)
        BY <3>1, <3>2, <3>4
      <4> QED BY <3>4, <4>1, ListsAreFolds DEF Folds
    <3>5. CASE r.kind = "verification"
      <4>1. \E g \in F : g.row.kind \in {"verification"} /\ r = FoldOf(F, g.row.kind, g.row.subj)
        BY <3>1, <3>2, <3>5
      <4> QED BY <3>5, <4>1, ListsAreFolds DEF Folds
    <3> QED BY <2>2, <3>3, <3>4, <3>5 DEF UniqueKeys, RefKinds
  <2>3. ASSUME NEW r \in Rebuilt(m), NEW q \in Rebuilt(m), r.kind \in UniqueKeys,
               q.kind = r.kind, q.key = r.key, q.subj # r.subj
        PROVE  FALSE
    <3>1. "release" \notin RefKinds /\ "verification" \notin RefKinds /\ "release" # "verification"
      BY DEF RefKinds
    <3>2. \/ r \in foldReleaseFacts(F) /\ q \in foldReleaseFacts(F)
          \/ r \in foldRefFacts(F) /\ q \in foldRefFacts(F)
          \/ r \in foldVerificationFacts(F) /\ q \in foldVerificationFacts(F)
      BY <2>2, <2>3, <3>1
    <3> QED BY <2>1, <2>3, <3>2 DEF Distinct, KeyTaken
  <2> QED BY <2>3 DEF Distinct, KeyTaken
<1>14. RowsFitAt(m)'
  <2>1. \A r, q \in Rebuilt(m) : r.kind = q.kind /\ r.subj = q.subj => r = q
    <3>1. TAKE r, q \in Rebuilt(m)
    <3>2. FoldOf(F, r.kind, r.subj) = r /\ FoldOf(F, q.kind, q.subj) = q
      BY <1>12
    <3> QED BY <3>2
  <2>2. \A r \in Rebuilt(m) : Mentioned(cfacts[m], r.kind, r.subj)
    BY <1>8, <1>12 DEF Mentioned
  <2> QED BY <1>1, <1>3, <1>12, <1>13, <2>1, <2>2 DEF RowsFitAt
<1>15. InStep(m)'
  <2>1. \A r \in crows'[m] : SaysSame(FoldOf(cfacts'[m], r.kind, r.subj), r)
    <3> TAKE r \in crows'[m]
    <3>1. FoldOf(F, r.kind, r.subj) = r
      BY <1>3, <1>12
    <3>2. SaysSame(r, r)
      BY DEF SaysSame
    <3> QED BY <1>1, <1>8, <3>1, <3>2
  <2>2. ASSUME NEW g \in cfacts'[m]
        PROVE  \/ g.row.subj \in Excused(m)'
               \/ HasRow(m, g.row.kind, g.row.subj)'
               \/ g.row.kind = "worktree" /\ FoldOf(cfacts'[m], g.row.kind, g.row.subj).val = Blank
    <3>1. g \in F
      BY <1>1, <1>8
    <3>2. PICK r : r = FoldOf(F, g.row.kind, g.row.subj)
      OBVIOUS
    <3>3. r.kind = g.row.kind /\ r.subj = g.row.subj
      BY <1>11, <3>1, <3>2
    <3>4. CASE r \in Rebuilt(m)
      BY <1>3, <3>3, <3>4 DEF HasRow
    <3>5. CASE r \notin Rebuilt(m)
      <4>1. g.row.kind = "worktree" /\ (r.val = Blank \/ r.subj \notin cplan.issues[m])
        BY <1>10, <3>1, <3>2, <3>5
      <4>2. CASE r.val = Blank
        BY <1>1, <1>8, <3>2, <4>1, <4>2
      <4>3. CASE r.subj \notin cplan.issues[m]
        <5>1. g.row.subj \in Excused(m)
          BY <1>8, <3>1, <3>3, <4>1, <4>3 DEF Excused
        <5>2. Excused(m)' = Excused(m)
          BY <1>1 DEF Excused
        <5> QED BY <5>1, <5>2
      <4> QED BY <4>1, <4>2, <4>3
    <3> QED BY <3>4, <3>5
  <2> QED BY <2>1, <2>2 DEF InStep
<1>16. \A i \in Machines : RowsFitAt(i)' /\ (Ready(i)' /\ ~ cdirty'[i] => InStep(i)')
  <2> TAKE i \in Machines
  <2>1. RowsFitAt(i) /\ (Ready(i) /\ ~ cdirty[i] => InStep(i))
    BY DEF CoreInv
  <2>2. Ready(i)' <=> Ready(i)
    BY <1>1 DEF Ready
  <2>3. CASE i = m
    BY <1>14, <1>15, <2>3
  <2>4. CASE i # m
    <3>1. RowsFitAt(i)' /\ (InStep(i) => InStep(i)')
      BY <1>1, <1>3, <2>1, <2>4, OthersRest
    <3> QED BY <1>3, <2>1, <2>2, <2>4, <3>1
  <2> QED BY <2>3, <2>4
<1>17. \A q \in cplan.procs : PromotesKnown(cpromote[q])'
  <2> TAKE q \in cplan.procs
  <2>1. PICK i : i = cpromote[q] /\ i = cpromote'[q] /\ PromotesKnown(i)
    BY <1>1 DEF CoreInv
  <2>2. PromotesKnown(i)'
    BY <1>1, <2>1, PromotesRest
  <2> QED BY <2>1, <2>2 DEF PromotesKnown
<1> QED BY <1>1, <1>2, <1>4, <1>5, <1>7, <1>16, <1>17 DEF CoreInv

----------------------------------------------------------------------------
(* Facts for a database that predates them. *)

\* The plan of a database that predates facts.
LEMMA OldRowsFit ==
  ASSUME CoreTyped
  PROVE  /\ IsFiniteSet(cplan.rows) /\ Distinct(cplan.rows)
         /\ \A r \in cplan.rows :
              /\ r.kind \in CoreKinds
              /\ r.kind \in MergedKinds => MergedRow(r)
              /\ \A q \in cplan.rows :
                   /\ r.kind = q.kind /\ r.subj = q.subj => r = q
                   /\ {r.kind, q.kind} \subseteq RefKinds /\ r.subj = q.subj => r.kind = q.kind
         /\ Len(cplan.events) \in Nat /\ DOMAIN cplan.events = 1 .. Len(cplan.events)
         /\ \A i \in DOMAIN cplan.events : \E r \in cplan.rows :
              /\ r.kind \in EventKinds
              /\ cplan.events[i] = Payload(r.kind, r.subj, Blank, cplan.events[i].val, {})
<1>1. cplan \in CorePlans
  BY DEF CoreTyped
<1>2. cplan.events \in Seq({cplan.events[i] : i \in DOMAIN cplan.events})
  BY <1>1, CorePlansAssumption
<1>3. Len(cplan.events) \in Nat /\ DOMAIN cplan.events = 1 .. Len(cplan.events)
  BY <1>2
<1>4. \A r \in cplan.rows :
              /\ r.kind \in CoreKinds
              /\ r.kind \in MergedKinds => MergedRow(r)
              /\ \A q \in cplan.rows :
                   /\ r.kind = q.kind /\ r.subj = q.subj => r = q
                   /\ {r.kind, q.kind} \subseteq RefKinds /\ r.subj = q.subj => r.kind = q.kind
  BY <1>1, CorePlansAssumption
<1>5. \A i \in DOMAIN cplan.events : \E r \in cplan.rows :
              /\ r.kind \in EventKinds
              /\ cplan.events[i] = Payload(r.kind, r.subj, Blank, cplan.events[i].val, {})
  BY <1>1, CorePlansAssumption
<1>6. IsFiniteSet(cplan.rows) /\ Distinct(cplan.rows)
  BY <1>1, CorePlansAssumption
<1> QED BY <1>3, <1>4, <1>5, <1>6

\* A replayed event is about a row and gives its status only.
LEMMA ReplayedFacts ==
  ASSUME CoreTyped, NEW n, n = Len(cplan.events)
  PROVE  /\ \A f \in replayMutableCoreEvents :
              /\ f.env = Legacy /\ f.stamp \in 1 .. n /\ f.row.text = Blank
              /\ \E r \in cplan.rows : r.kind \in EventKinds /\ f.row.kind = r.kind /\ f.row.subj = r.subj
         /\ \A f, g \in replayMutableCoreEvents : f.stamp = g.stamp => f = g
<1>1. DOMAIN cplan.events = 1 .. n
  BY OldRowsFit
<1> DEFINE W(i) == [cplan.events[i] EXCEPT !.text = Blank, !.key = Blank]
           E(i) == [row |-> W(i), env |-> Legacy, stamp |-> i, promoted |-> FALSE]
<1>2. \A f : f \in replayMutableCoreEvents <=> \E i \in 1 .. n : f = E(i)
  BY <1>1 DEF replayMutableCoreEvents, FactOf
<1>3. \A i \in 1 .. n : E(i).row = W(i) /\ E(i).env = Legacy /\ E(i).stamp = i
  OBVIOUS
<1>4. ASSUME NEW i \in 1 .. n
      PROVE  W(i).text = Blank /\ \E r \in cplan.rows : r.kind \in EventKinds /\ W(i).kind = r.kind /\ W(i).subj = r.subj
  <2>1. PICK r \in cplan.rows : r.kind \in EventKinds
          /\ cplan.events[i] = Payload(r.kind, r.subj, Blank, cplan.events[i].val, {})
    BY <1>1, OldRowsFit
  <2>2. PICK p : p = cplan.events[i] /\ p = Payload(r.kind, r.subj, Blank, p.val, {})
    BY <2>1
  <2>3. PICK q : q = [p EXCEPT !.text = Blank, !.key = Blank]
    OBVIOUS
  <2>4. q.text = Blank /\ q.kind = r.kind /\ q.subj = r.subj
    BY <2>2, <2>3 DEF Payload
  <2> QED BY <2>1, <2>2, <2>3, <2>4
<1>5. \A f \in replayMutableCoreEvents :
        /\ f.env = Legacy /\ f.stamp \in 1 .. n /\ f.row.text = Blank
        /\ \E r \in cplan.rows : r.kind \in EventKinds /\ f.row.kind = r.kind /\ f.row.subj = r.subj
  <2>1. TAKE f \in replayMutableCoreEvents
  <2>2. PICK i \in 1 .. n : f = E(i)
    BY <1>2
  <2>3. f.row = W(i) /\ f.env = Legacy /\ f.stamp = i
    BY <1>3, <2>2
  <2> HIDE DEF W
  <2> QED BY <1>4, <2>3
<1>6. ASSUME NEW f \in replayMutableCoreEvents, NEW g \in replayMutableCoreEvents, f.stamp = g.stamp
      PROVE  f = g
  <2>1. PICK i \in 1 .. n : f = E(i)
    BY <1>2
  <2>2. PICK j \in 1 .. n : g = E(j)
    BY <1>2
  <2>3. i = j
    BY <1>3, <1>6, <2>1, <2>2
  <2> QED BY <2>1, <2>2, <2>3
<1> QED BY <1>5, <1>6

\* The rows that are born can be numbered.
LEMMA RowsAreNumbered ==
  ASSUME NEW B, IsFiniteSet(B), NEW rank, rank = BirthOrder(B)
  PROVE  /\ Cardinality(B) \in Nat
         /\ \A r \in B : rank[r] \in 1 .. Cardinality(B)
         /\ \A a, b \in B : rank[a] = rank[b] => a = b
<1>1. Cardinality(B) \in Nat /\ ExistsBijection(1 .. Cardinality(B), B)
  BY FS_CardinalityType
<1>2. PICK f \in [1 .. Cardinality(B) -> B] : \A r \in B : \E i \in 1 .. Cardinality(B) : f[i] = r
  BY <1>1 DEF ExistsBijection, Bijection, Surjection, Injection
<1> DEFINE g == [r \in B |-> CHOOSE i \in 1 .. Cardinality(B) : f[i] = r]
<1>3. \A r \in B : g[r] \in 1 .. Cardinality(B) /\ f[g[r]] = r
  BY <1>2
<1>4. g \in [B -> 1 .. Cardinality(B)] /\ \A a, b \in B : g[a] = g[b] => a = b
  <2>1. g \in [B -> 1 .. Cardinality(B)]
    BY <1>3
  <2> HIDE DEF g
  <2> QED BY <1>3, <2>1
<1>5. /\ rank \in [B -> 1 .. Cardinality(B)]
      /\ \A a, b \in B : rank[a] = rank[b] => a = b
  <2> HIDE DEF g
  <2> QED BY <1>4 DEF BirthOrder
<1> QED BY <1>1, <1>5

\* A row that is not born says what the replayed events fold to.
LEMMA OtherRowsAreTold ==
  ASSUME CoreTyped, NEW E, E = replayMutableCoreEvents, NEW r \in crows[LegacyHost], r.kind \in CoreKinds,
         r \notin birthMutableCoreRows(E)
  PROVE  Mentioned(E, r.kind, r.subj) /\ SaysSame(FoldOf(E, r.kind, r.subj), r)
<1>1. \A f \in E : f.row.kind \in EventKinds
  BY ReplayedFacts
<1>2. FactsTold(E)
  <2>1. PICK n \in Nat : n = Len(cplan.events)
    BY OldRowsFit
  <2>2. /\ \A f \in E : f.env = 0 /\ f.stamp \in 1 .. n
        /\ \A f, g \in E : f.stamp = g.stamp => f = g
    BY <2>1, ReplayedFacts DEF Legacy
  <2>3. Bounded(E)
    BY <2>1, <2>2 DEF Bounded
  <2> QED BY <2>2, <2>3 DEF FactsTold
<1>3. ASSUME NEW kinds, NEW R, Folds(E, kinds, R), NEW f \in R, f.kind = r.kind, f.subj = r.subj
      PROVE  r.kind \in EventKinds /\ Mentioned(E, r.kind, r.subj) /\ f = FoldOf(E, r.kind, r.subj)
  <2>1. PICK g \in E : f = FoldOf(E, g.row.kind, g.row.subj)
    BY <1>3 DEF Folds
  <2>2. Mentioned(E, g.row.kind, g.row.subj)
    BY DEF Mentioned
  <2>3. f.kind = g.row.kind /\ f.subj = g.row.subj
    BY <1>2, <2>1, <2>2, FoldFits
  <2> QED BY <1>1, <1>3, <2>1, <2>2, <2>3
<1>4. Folds(E, {"spark"}, foldSparkFacts(E)) /\ Folds(E, {"idea"}, foldIdeaFacts(E))
         /\ Folds(E, {"handoff"}, foldHandoffFacts(E)) /\ Folds(E, {"release"}, foldReleaseFacts(E))
         /\ Folds(E, RefKinds, foldRefFacts(E)) /\ Folds(E, {"worktree"}, foldWorktreeFacts(E))
         /\ Folds(E, {"verification"}, foldVerificationFacts(E))
  BY ListsAreFolds
<1>5. /\ r.kind = "spark" => \E f \in foldSparkFacts(E) : f.kind = r.kind /\ f.subj = r.subj /\ f = r
      /\ r.kind = "idea" => \E f \in foldIdeaFacts(E) : f.kind = r.kind /\ f.subj = r.subj /\ f = r
      /\ r.kind = "handoff" => \E f \in foldHandoffFacts(E) : f.kind = r.kind /\ f.subj = r.subj /\ f = r
      /\ r.kind = "release" => \E f \in foldReleaseFacts(E) : f.kind = r.kind /\ f.subj = r.subj /\ f.key = r.key
      /\ r.kind \in RefKinds => \E f \in foldRefFacts(E) : f.kind = r.kind /\ f.subj = r.subj
      /\ r.kind = "worktree" => \E f \in foldWorktreeFacts(E) : f.kind = r.kind /\ f.subj = r.subj
      /\ r.kind = "verification" => \E f \in foldVerificationFacts(E) : f.kind = r.kind /\ f.subj = r.subj
  <2>1. /\ r \notin birthSparks(E) /\ r \notin birthIdeas(E) /\ r \notin birthHandoffs(E)
        /\ r \notin birthReleases(E) /\ r \notin birthBackendRefs(E) /\ r \notin birthWorkContractRefs(E)
        /\ r \notin birthWorktrees(E) /\ r \notin birthVerificationReceipts(E)
    BY DEF birthMutableCoreRows
  <2>2. r.kind = "spark" => \E f \in foldSparkFacts(E) : f.kind = r.kind /\ f.subj = r.subj /\ f = r
    BY <2>1 DEF birthSparks, Unborn, SameRow
  <2>3. r.kind = "idea" => \E f \in foldIdeaFacts(E) : f.kind = r.kind /\ f.subj = r.subj /\ f = r
    BY <2>1 DEF birthIdeas, Unborn, SameRow
  <2>4. r.kind = "handoff" => \E f \in foldHandoffFacts(E) : f.kind = r.kind /\ f.subj = r.subj /\ f = r
    BY <2>1 DEF birthHandoffs, Unborn, SameRow
  <2>5. r.kind = "release" => \E f \in foldReleaseFacts(E) : f.kind = r.kind /\ f.subj = r.subj /\ f.key = r.key
    BY <2>1 DEF birthReleases, Unborn, SameKey
  <2>6. r.kind = "ref" => \E f \in foldRefFacts(E) : f.kind = r.kind /\ f.subj = r.subj
    BY <2>1 DEF birthBackendRefs, Unborn, SameRef
  <2>7. r.kind = "config" => \E f \in foldRefFacts(E) : f.kind = r.kind /\ f.subj = r.subj
    BY <2>1 DEF birthBackendRefs, Unborn, SameRef
  <2>8. r.kind = "mapping" => \E f \in foldRefFacts(E) : f.kind = r.kind /\ f.subj = r.subj
    BY <2>1 DEF birthWorkContractRefs, Unborn, SameValue
  <2>9. r.kind = "worktree" => \E f \in foldWorktreeFacts(E) : f.kind = r.kind /\ f.subj = r.subj
    BY <2>1 DEF birthWorktrees, Unborn, SameValue
  <2>10. r.kind = "verification" => \E f \in foldVerificationFacts(E) : f.kind = r.kind /\ f.subj = r.subj
    BY <2>1 DEF birthVerificationReceipts, Unborn, SameValue
  <2> QED BY <2>2, <2>3, <2>4, <2>5, <2>6, <2>7, <2>8, <2>9, <2>10 DEF RefKinds
<1>6. r.kind \in EventKinds /\ r.kind \notin RefKinds \cup {"worktree", "verification"}
  <2>1. ASSUME r.kind \in RefKinds \cup {"worktree", "verification"} PROVE r.kind \in EventKinds
    BY <1>3, <1>4, <1>5, <2>1
  <2>2. r.kind \in {"spark", "idea", "handoff", "release"} \cup (RefKinds \cup {"worktree", "verification"})
    BY DEF CoreKinds, MergedKinds, UniqueKeys, RefKinds
  <2> QED BY <2>1, <2>2 DEF EventKinds, RefKinds
<1>7. CASE r.kind = "release"
  <2>1. PICK f \in foldReleaseFacts(E) : f.kind = r.kind /\ f.subj = r.subj /\ f.key = r.key
    BY <1>5, <1>7
  <2>2. Mentioned(E, r.kind, r.subj) /\ f = FoldOf(E, r.kind, r.subj)
    BY <1>3, <1>4, <2>1
  <2>3. SaysSame(f, r)
    BY <1>7, <2>1 DEF SaysSame, MergedKinds, RefKinds
  <2> QED BY <2>2, <2>3
<1>8. CASE r.kind \in {"spark", "idea", "handoff"}
  <2>1. PICK kinds, R : Folds(E, kinds, R) /\ \E f \in R : f.kind = r.kind /\ f.subj = r.subj /\ f = r
    BY <1>4, <1>5, <1>8
  <2>2. Mentioned(E, r.kind, r.subj) /\ r = FoldOf(E, r.kind, r.subj)
    BY <1>3, <2>1
  <2>3. SaysSame(r, r)
    BY DEF SaysSame
  <2> QED BY <2>2, <2>3
<1> QED BY <1>6, <1>7, <1>8 DEF EventKinds

\* Facts that leave the wording out fold to none.
LEMMA NothingWorded ==
  ASSUME NEW F, \A f \in F : f.row.text = Blank, NEW kind \in MergedKinds, NEW subj
  PROVE  FoldOf(F, kind, subj).text = Blank
<1>1. PICK A, v, t, r : /\ A = About(F, <<kind, subj>>) /\ v = Status(A) /\ t = Wording(A)
                        /\ r = Entity(kind, subj, v, t)
  OBVIOUS
<1>2. t = Blank
  BY <1>1 DEF Wording, About
<1>3. r.text = t
  BY <1>1 DEF Entity
<1> QED BY <1>1, <1>2, <1>3, EntityFolds

\* What the replay writes: a fact for every event, and one for every row the
\* events leave out, after them.
ReplayedInto(E, B, G) ==
  /\ E = replayMutableCoreEvents /\ B = birthMutableCoreRows(E) /\ B \subseteq cplan.rows
  /\ ~ cborn /\ cborn' /\ cplan' = cplan /\ crows' = crows /\ cdirty' = cdirty /\ cpromote' = cpromote
  /\ cfacts' = [cfacts EXCEPT ![LegacyHost] = G]
  /\ E \subseteq G
  /\ \A r \in B : \E f \in G : f \notin E /\ f.row = r
  /\ \A f \in G \ E : f.row \in B
  /\ \E b \in Nat : \A f \in G : f.env = Legacy /\ f.stamp \in Nat /\ f.stamp <= b
  /\ \A f, g \in G : f.stamp = g.stamp \/ (f \notin E /\ g \notin E /\ f.row = g.row) => f = g
  /\ \A f \in E, g \in G \ E : f.stamp < g.stamp

\* migrateMutableCoreFactsTx does that.
LEMMA MigratedFacts ==
  ASSUME CoreInv, MigrateMutableCoreFacts
  PROVE  \E E, B, G : ReplayedInto(E, B, G)
<1>1. PICK E, B, n, rank : /\ E = replayMutableCoreEvents /\ B = birthMutableCoreRows(E) /\ n = Len(cplan.events)
                           /\ rank = BirthOrder(B)
  OBVIOUS
<1>2. PICK G : G = E \cup {FactOf(r, Legacy, n + rank[r], FALSE) : r \in B}
  OBVIOUS
<1>3. /\ ~ cborn /\ cborn' /\ cplan' = cplan /\ crows' = crows /\ cdirty' = cdirty /\ cpromote' = cpromote
      /\ cfacts' = [cfacts EXCEPT ![LegacyHost] = G]
  <2>1. cfacts' = [cfacts EXCEPT ![LegacyHost] = G]
    BY <1>1, <1>2, Zenon DEF MigrateMutableCoreFacts
  <2>2. ~ cborn /\ cborn' /\ UNCHANGED <<cplan, crows, cnames, cdirty, cpromote>>
    BY DEF MigrateMutableCoreFacts
  <2> QED BY <2>1, <2>2
<1>4. B \subseteq cplan.rows
  <2>1. crows[LegacyHost] = cplan.rows
    BY <1>3 DEF CoreInv, Unmigrated
  <2>2. B \subseteq crows[LegacyHost]
    BY <1>1 DEF birthMutableCoreRows, birthSparks, birthIdeas, birthHandoffs, birthReleases, birthBackendRefs,
                birthWorkContractRefs, birthWorktrees, birthVerificationReceipts, Unborn
  <2> QED BY <2>1, <2>2
<1>5. CoreTyped
  BY DEF CoreInv
<1>6. /\ Cardinality(B) \in Nat
      /\ \A r \in B : rank[r] \in 1 .. Cardinality(B)
      /\ \A a, b \in B : rank[a] = rank[b] => a = b
  <2>1. IsFiniteSet(B)
    BY <1>4, <1>5, OldRowsFit, FS_Subset
  <2> QED BY <1>1, <2>1, RowsAreNumbered
<1>7. /\ \A f \in E : f.env = Legacy /\ f.stamp \in 1 .. n
      /\ \A f, g \in E : f.stamp = g.stamp => f = g
      /\ n \in Nat
  BY <1>1, <1>5, ReplayedFacts, OldRowsFit
<1> DEFINE Born(r) == [row |-> r, env |-> Legacy, stamp |-> n + rank[r], promoted |-> FALSE]
<1>8. \A f : f \in G <=> f \in E \/ \E r \in B : f = Born(r)
  BY <1>2 DEF FactOf
<1>9. \A r \in B : Born(r).row = r /\ Born(r).env = Legacy /\ Born(r).stamp = n + rank[r]
  OBVIOUS
<1>10. \A r \in B : n + rank[r] \in Nat /\ n < n + rank[r] /\ n + rank[r] <= n + Cardinality(B)
  BY <1>6, <1>7
<1> HIDE DEF Born
<1>11. \A r \in B : Born(r) \notin E
  BY <1>7, <1>9, <1>10
<1>12. \A r \in B : \E f \in G : f \notin E /\ f.row = r
  BY <1>8, <1>9, <1>11
<1>13. \A f \in G \ E : \E r \in B : f = Born(r) /\ f.row = r
  BY <1>8, <1>9
<1>14. \A f \in E, g \in G \ E : f.stamp < g.stamp
  <2>1. TAKE f \in E, g \in G \ E
  <2>2. PICK r \in B : g = Born(r)
    BY <1>13
  <2>3. f.stamp \in 1 .. n /\ g.stamp = n + rank[r]
    BY <1>7, <1>9, <2>2
  <2> QED BY <1>7, <1>10, <2>3
<1>15. \A f \in G : f.env = Legacy /\ f.stamp \in Nat /\ f.stamp <= n + Cardinality(B)
  <2>1. TAKE f \in G
  <2>2. CASE f \in E
    BY <1>6, <1>7, <2>2
  <2>3. CASE f \notin E
    <3>1. PICK r \in B : f = Born(r)
      BY <1>13, <2>3
    <3>2. f.env = Legacy /\ f.stamp = n + rank[r]
      BY <1>9, <3>1
    <3> QED BY <1>10, <3>2
  <2> QED BY <2>2, <2>3
<1>16. \A f, g \in G : f.stamp = g.stamp \/ (f \notin E /\ g \notin E /\ f.row = g.row) => f = g
  <2>1. ASSUME NEW f \in G \ E, NEW g \in G \ E, f.stamp = g.stamp \/ f.row = g.row PROVE f = g
    <3>1. PICK a \in B : f = Born(a) /\ f.row = a
      BY <1>13
    <3>2. PICK b \in B : g = Born(b) /\ g.row = b
      BY <1>13
    <3>3. CASE f.row = g.row
      BY <3>1, <3>2, <3>3
    <3>4. CASE f.stamp = g.stamp
      <4>1. n + rank[a] = n + rank[b]
        BY <1>9, <3>1, <3>2, <3>4
      <4>2. rank[a] = rank[b]
        BY <1>6, <1>7, <4>1
      <4> QED BY <1>6, <3>1, <3>2, <4>2
    <3> QED BY <2>1, <3>3, <3>4
  <2>2. ASSUME NEW f \in E, NEW g \in G \ E PROVE f.stamp # g.stamp
    <3>1. f.stamp < g.stamp /\ f.stamp \in Nat /\ g.stamp \in Nat
      BY <1>7, <1>14, <1>15
    <3> QED BY <3>1
  <2> QED BY <1>7, <2>1, <2>2
<1>17. n + Cardinality(B) \in Nat
  BY <1>6, <1>7
<1>18. E \subseteq G
  BY <1>2
<1>19. \E b \in Nat : \A f \in G : f.env = Legacy /\ f.stamp \in Nat /\ f.stamp <= b
  BY <1>15, <1>17
<1>20. \A f \in G \ E : f.row \in B
  BY <1>13
<1>21. ReplayedInto(E, B, G)
  BY <1>1, <1>3, <1>4, <1>12, <1>14, <1>16, <1>18, <1>19, <1>20 DEF ReplayedInto
<1> QED BY <1>21

\* The legacy host is in step once it has facts: a row the events leave out gets
\* a fact that is last, and a row they fold to is not touched.
LEMMA MigrateKeeps ==
  ASSUME CoreInv, MigrateMutableCoreFacts
  PROVE  CoreInv'
<1>1. PICK E, B, G :
           ReplayedInto(E, B, G)
  BY MigratedFacts
<1>2. PICK R : R = cplan.rows /\ R = crows[LegacyHost] /\ R = crows'[LegacyHost]
  BY <1>1 DEF CoreInv, Unmigrated, ReplayedInto
<1>3. CoreTyped /\ FactsFit /\ cfacts[LegacyHost] = {} /\ Machines' = Machines /\ LegacyHost \in Machines
  BY <1>1, PlanFits DEF CoreInv, Unmigrated, Machines, ReplayedInto
<1>4. cfacts'[LegacyHost] = G /\ \A k \in Machines : k # LegacyHost => cfacts'[k] = cfacts[k]
  BY <1>1, <1>3 DEF CoreTyped, ReplayedInto
<1>5. \A k \in Machines : cfacts[k] \subseteq cfacts'[k]
  BY <1>3, <1>4
<1>6. /\ \A r \in R : r.kind \in CoreKinds /\ (r.kind \in MergedKinds => MergedRow(r))
      /\ \A r, q \in R : r.kind = q.kind /\ r.subj = q.subj => r = q
      /\ \A r, q \in R : {r.kind, q.kind} \subseteq RefKinds /\ r.subj = q.subj => r.kind = q.kind
  BY <1>2, <1>3, OldRowsFit
<1>7. \A f \in E : /\ f.row.text = Blank
                   /\ \E r \in R : r.kind \in EventKinds /\ f.row.kind = r.kind /\ f.row.subj = r.subj
  BY <1>1, <1>2, <1>3, ReplayedFacts DEF ReplayedInto
<1>8. \A f \in G : \E r \in R : f.row.kind = r.kind /\ f.row.subj = r.subj
  BY <1>1, <1>2, <1>7 DEF ReplayedInto
<1>9. \A f \in AllFacts' : f \in AllFacts \/ f \in G
  BY <1>3, <1>4 DEF AllFacts
<1>10. ASSUME NEW f \in AllFacts
       PROVE  /\ FactFits(f)' /\ f.env # Legacy
              /\ f.row.kind \in UniqueKeys => IsDrawn(f.row.subj)' /\ \A r \in R : r.kind \in UniqueKeys => r.subj # f.row.subj
  <2>1. FactFits(f) /\ f.env # Legacy
    BY <1>1, <1>3 DEF FactsFit, FactFits, ReplayedInto
  <2>2. FactFits(f)'
    BY <1>1, <1>3, <1>5, <2>1 DEF FactFits, ReplayedInto
  <2>3. ASSUME f.row.kind \in UniqueKeys
        PROVE  IsDrawn(f.row.subj)' /\ \A r \in R : r.kind \in UniqueKeys => r.subj # f.row.subj
    <3>1. PICK k \in Machines : \E h \in cfacts[k] : f.row.subj = OpaqueID(k, h.stamp)
      BY <1>1, <1>3, <2>3 DEF FactsFit, IsDrawn, ReplayedInto
    <3>2. PICK h \in cfacts[k] : f.row.subj = OpaqueID(k, h.stamp)
      BY <3>1
    <3>3. h.stamp \in cplan.stamps
      BY <1>1, <1>3 DEF FactsFit, FactFits, AllFacts, ReplayedInto
    <3>4. \A r \in R : r.kind \in UniqueKeys => r.subj # f.row.subj
      BY <1>2, <1>3, <3>2, <3>3, PlanFits
    <3>5. IsDrawn(f.row.subj)'
      BY <1>3, <1>5, <3>2 DEF IsDrawn
    <3> QED BY <3>4, <3>5
  <2> QED BY <2>1, <2>2, <2>3
<1>11. ASSUME NEW f \in G
       PROVE  /\ FactFits(f)' /\ f.env = Legacy
              /\ f.row.kind \in UniqueKeys => IsDrawn(f.row.subj)'
  <2>1. PICK r \in R : f.row.kind = r.kind /\ f.row.subj = r.subj
    BY <1>8
  <2>2. f.env = Legacy /\ f.stamp \in Nat
    BY <1>1 DEF ReplayedInto
  <2>3. FactFits(f)'
    BY <1>1, <1>4, <1>6, <2>1, <2>2 DEF FactFits, ReplayedInto
  <2>4. f.row.kind \in UniqueKeys => IsDrawn(f.row.subj)'
    BY <1>1, <1>2, <2>1 DEF IsDrawn, ReplayedInto
  <2> QED BY <2>2, <2>3, <2>4
<1>12. FactsFit'
  <2>1. \A k \in Machines' : Bounded(cfacts'[k])
    <3>1. TAKE k \in Machines'
    <3>2. CASE k # LegacyHost
      BY <1>3, <1>4, <3>2 DEF FactsFit
    <3>3. CASE k = LegacyHost
      <4>1. PICK b \in Nat : \A f \in G : f.env = Legacy /\ f.stamp \in Nat /\ f.stamp <= b
        BY <1>1 DEF ReplayedInto
      <4>2. \A f \in G : f.stamp <= b /\ f.env <= b
        BY <4>1 DEF Legacy
      <4> QED BY <1>4, <3>3, <4>2 DEF Bounded
    <3> QED BY <3>2, <3>3
  <2>2. \A f \in AllFacts' : FactFits(f)' /\ (f.row.kind \in UniqueKeys => IsDrawn(f.row.subj)')
    BY <1>9, <1>10, <1>11
  <2>3. \A f, g \in AllFacts' : f.stamp = g.stamp /\ f.env = g.env => f = g
    BY <1>1, <1>3, <1>9, <1>10, <1>11 DEF FactsFit, ReplayedInto
  <2>4. ASSUME NEW f \in AllFacts', NEW g \in AllFacts', {f.row.kind, g.row.kind} \subseteq RefKinds, f.row.subj = g.row.subj
        PROVE  f.row.kind = g.row.kind
    <3>1. f.row.kind \in UniqueKeys /\ g.row.kind \in UniqueKeys
      BY <2>4 DEF RefKinds, UniqueKeys
    <3>2. CASE f \in AllFacts /\ g \in AllFacts
      BY <1>3, <2>4, <3>2 DEF FactsFit
    <3>3. CASE f \in G /\ g \in G
      <4>1. PICK r \in R : f.row.kind = r.kind /\ f.row.subj = r.subj
        BY <1>8, <3>3
      <4>2. PICK q \in R : g.row.kind = q.kind /\ g.row.subj = q.subj
        BY <1>8, <3>3
      <4> QED BY <1>6, <2>4, <4>1, <4>2
    <3>4. CASE f \in AllFacts /\ g \in G
      <4>1. PICK q \in R : g.row.kind = q.kind /\ g.row.subj = q.subj
        BY <1>8, <3>4
      <4> QED BY <1>10, <2>4, <3>1, <3>4, <4>1
    <3>5. CASE f \in G /\ g \in AllFacts
      <4>1. PICK q \in R : f.row.kind = q.kind /\ f.row.subj = q.subj
        BY <1>8, <3>5
      <4> QED BY <1>10, <2>4, <3>1, <3>5, <4>1
    <3> QED BY <1>9, <3>2, <3>3, <3>4, <3>5
  <2> QED BY <2>1, <2>2, <2>3, <2>4 DEF FactsFit
<1>13. ASSUME NEW r \in B PROVE Mentioned(G, r.kind, r.subj) /\ FoldOf(G, r.kind, r.subj) = r
  <2>1. PICK f \in G : f \notin E /\ f.row = r
    BY <1>1 DEF ReplayedInto
  <2>2. \A g \in G \ {f} : g.row.kind = r.kind /\ g.row.subj = r.subj => g \in E
    BY <1>1, <1>2, <1>6, <2>1 DEF ReplayedInto
  <2>3. \A g \in G : g.stamp \in Nat
    BY <1>1 DEF ReplayedInto
  <2>4. \A g \in G \ {f} : g.row.kind = f.row.kind /\ g.row.subj = f.row.subj => g.stamp < f.stamp
    BY <1>1, <2>1, <2>2 DEF ReplayedInto
  <2>5. FoldOf(G \ {f}, r.kind, r.subj) = FoldOf(E, r.kind, r.subj)
    <3>1. PICK H : H = G \ {f}
      OBVIOUS
    <3>2. E \subseteq H /\ \A g \in H \ E : ~ (g.row.kind = r.kind /\ g.row.subj = r.subj)
      BY <1>1, <2>1, <2>2, <3>1 DEF ReplayedInto
    <3> QED BY <3>1, <3>2, OtherFoldsStay
  <2>6. r.kind \in MergedKinds => MergedRow(r) /\ FoldOf(G \ {f}, r.kind, r.subj).text = Blank
    BY <1>1, <1>2, <1>6, <1>7, <2>5, NothingWorded DEF ReplayedInto
  <2>7. f.row.kind \in MergedKinds =>
          MergedRow(f.row) /\ (f.row.text # Blank \/ FoldOf(G \ {f}, f.row.kind, f.row.subj).text = Blank)
    BY <2>1, <2>6
  <2>8. FoldOf(G, f.row.kind, f.row.subj) = f.row
    BY <2>1, <2>3, <2>4, <2>7, LastFactDecides
  <2>9. Mentioned(G, r.kind, r.subj)
    BY <2>1 DEF Mentioned
  <2> QED BY <2>1, <2>8, <2>9
<1>14. ASSUME NEW r \in R \ B PROVE Mentioned(G, r.kind, r.subj) /\ SaysSame(FoldOf(G, r.kind, r.subj), r)
  <2>1. Mentioned(E, r.kind, r.subj) /\ SaysSame(FoldOf(E, r.kind, r.subj), r)
    BY <1>1, <1>2, <1>3, <1>6, OtherRowsAreTold DEF ReplayedInto
  <2>2. \A g \in G \ E : ~ (g.row.kind = r.kind /\ g.row.subj = r.subj)
    BY <1>1, <1>2, <1>6 DEF ReplayedInto
  <2>3. FoldOf(G, r.kind, r.subj) = FoldOf(E, r.kind, r.subj)
    BY <1>1, <2>2, OtherFoldsStay DEF ReplayedInto
  <2>4. Mentioned(G, r.kind, r.subj)
    BY <1>1, <2>1 DEF Mentioned, ReplayedInto
  <2> QED BY <2>1, <2>3, <2>4
<1>15. \A r \in R : Mentioned(G, r.kind, r.subj) /\ SaysSame(FoldOf(G, r.kind, r.subj), r)
  <2>1. \A r : SaysSame(r, r)
    BY DEF SaysSame
  <2>2. ASSUME NEW r \in B PROVE Mentioned(G, r.kind, r.subj) /\ SaysSame(FoldOf(G, r.kind, r.subj), r)
    BY <1>13, <2>1
  <2> QED BY <1>14, <2>2
<1>16. RowsFitAt(LegacyHost)' /\ InStep(LegacyHost)'
  <2>1. Distinct(R)
    BY <1>2, <1>3, OldRowsFit
  <2>2. RowsFitAt(LegacyHost)'
    BY <1>2, <1>4, <1>6, <1>15, <2>1 DEF RowsFitAt
  <2>3. InStep(LegacyHost)'
    BY <1>2, <1>4, <1>8, <1>15 DEF InStep, HasRow
  <2> QED BY <2>2, <2>3
<1>17. \A k \in Machines : RowsFitAt(k)' /\ (Ready(k)' /\ ~ cdirty'[k] => InStep(k)')
  <2> TAKE k \in Machines
  <2>1. CASE k = LegacyHost
    BY <1>16, <2>1
  <2>2. CASE k # LegacyHost
    <3>1. RowsFitAt(k) /\ (~ cdirty[k] => InStep(k))
      BY <2>2 DEF CoreInv, Ready
    <3>2. RowsFitAt(k)'
      BY <1>1, <1>4, <2>2, <3>1 DEF RowsFitAt, Ready, ReplayedInto
    <3>3. Excused(k)' = Excused(k)
      BY <1>1, <1>4, <2>2 DEF Excused, ReplayedInto
    <3>4. InStep(k) => InStep(k)'
      BY <1>1, <1>4, <2>2, <3>3 DEF InStep, HasRow, ReplayedInto
    <3> QED BY <1>1, <3>1, <3>2, <3>4 DEF ReplayedInto
  <2> QED BY <2>1, <2>2
<1>18. \A q \in cplan.procs : PromotesKnown(cpromote[q])'
  <2> TAKE q \in cplan.procs
  <2>1. PICK i : i = cpromote[q] /\ i = cpromote'[q] /\ PromotesKnown(i)
    BY <1>1 DEF CoreInv, ReplayedInto
  <2>2. PromotesKnown(i)'
    BY <1>1, <1>5, <2>1, PromotesRest DEF ReplayedInto
  <2> QED BY <2>1, <2>2 DEF PromotesKnown
<1>19. CoreTyped'
  BY <1>1, <1>3 DEF CoreTyped, ReplayedInto
<1>20. Unmigrated'
  BY <1>1 DEF Unmigrated, ReplayedInto
<1> QED BY <1>1, <1>3, <1>12, <1>17, <1>18, <1>19, <1>20 DEF CoreInv, ReplayedInto

----------------------------------------------------------------------------
(* The tables follow the facts. *)

\* A database without facts, or an empty one.
LEMMA CoreInitHolds ==
  ASSUME CoreInit
  PROVE  CoreInv
<1>1. /\ cplan \in CorePlans /\ (cborn <=> cplan.rows = {})
      /\ crows = [m \in Machines |-> IF m = LegacyHost THEN cplan.rows ELSE {}]
      /\ cfacts = [m \in Machines |-> {}] /\ cdirty = [m \in Machines |-> FALSE]
      /\ cpromote = [p \in cplan.procs |-> Idle]
  BY DEF CoreInit
<1>2. CoreTyped
  BY <1>1 DEF CoreTyped
<1>3. LegacyHost \in Machines
  BY <1>2, PlanFits
<1>4. Unmigrated
  BY <1>1, <1>3 DEF Unmigrated
<1>5. FactsFit
  <2>1. AllFacts = {}
    BY <1>1 DEF AllFacts
  <2>2. \A m \in Machines : Bounded(cfacts[m])
    BY <1>1 DEF Bounded
  <2> QED BY <2>1, <2>2 DEF FactsFit
<1>6. ASSUME NEW m \in Machines PROVE RowsFitAt(m) /\ (Ready(m) /\ ~ cdirty[m] => InStep(m))
  <2>1. crows[m] = IF m = LegacyHost THEN cplan.rows ELSE {}
    BY <1>1
  <2>2. Ready(m) => crows[m] = {}
    BY <1>1, <2>1 DEF Ready
  <2>3. cfacts[m] = {}
    BY <1>1
  <2>4. RowsFitAt(m)
    <3>1. CASE crows[m] = {}
      BY <3>1 DEF RowsFitAt, Distinct
    <3>2. CASE crows[m] = cplan.rows /\ ~ Ready(m)
      BY <1>2, <3>2, OldRowsFit DEF RowsFitAt
    <3> QED BY <2>1, <2>2, <3>1, <3>2
  <2>5. Ready(m) => InStep(m)
    BY <2>2, <2>3 DEF InStep
  <2> QED BY <2>4, <2>5
<1>7. \A p \in cplan.procs : PromotesKnown(cpromote[p])
  BY <1>1 DEF PromotesKnown, Idle
<1> QED BY <1>2, <1>4, <1>5, <1>6, <1>7 DEF CoreInv

\* One step per command.
LEMMA CommandKeeps ==
  ASSUME CoreInv, NEW m \in Machines, CoreCommand(m)
  PROVE  CoreInv'
<1>1. ASSUME NEW kind \in MergedKinds, CreateUnderAlias(m, kind, "open") PROVE CoreInv'
  BY <1>1, CreateKeeps, WordsAreNotBlank
<1>2. ASSUME NEW t, CreateHandoff(m, t) PROVE CoreInv'
  <2>1. CreateUnderAlias(m, "handoff", t) /\ "handoff" \notin MergedKinds
    BY <1>2 DEF CreateHandoff, MergedKinds
  <2> QED BY <2>1, CreateKeeps
<1>3. ASSUME NEW r \in crows[m], Ready(m), ResolveSpark(m, r) \/ ResolveIdea(m, r) \/ ArchiveIdea(m, r)
      PROVE  CoreInv'
  <2>1. r.kind \in MergedKinds /\ \E v \in {"done", "archived"} : SetLifecycle(m, r, v)
    BY <1>3 DEF ResolveSpark, ResolveIdea, ArchiveIdea, MergedKinds
  <2> QED BY <1>3, <2>1, LifecycleKeeps, WordsAreNotBlank
<1>4. ASSUME NEW v, NEW w,
             \/ UpsertBackendMapping(m, v, w) \/ UpsertWorkContractMapping(m, v, w)
             \/ UpsertWorkContractReceipt(m, v, w)
      PROVE  CoreInv'
  <2>1. \E kind \in UniqueKeys : Upsert(m, kind, v, w)
    BY <1>4 DEF UpsertBackendMapping, UpsertWorkContractMapping, UpsertWorkContractReceipt, UniqueKeys
  <2> QED BY <2>1, UpsertKeeps
<1>5. CaptureSpark(m) => CoreInv'
  BY <1>1 DEF CaptureSpark, MergedKinds
<1>6. CaptureIdea(m) => CoreInv'
  BY <1>1 DEF CaptureIdea, MergedKinds
<1>7. \A p \in cplan.procs, r \in crows[m] : PromoteRead(p, m, r) => CoreInv'
  BY PromoteReadKeeps
<1>8. \A v, x : RecordRelease(m, v, x) => CoreInv'
  BY ReleaseKeeps
<1>9. \A v : ReplaceLinearConfig(m, v) => CoreInv'
  BY ConfigKeeps
<1>10. \A i, w : BindWorktree(m, i, w) => CoreInv'
  BY BindKeeps
<1> QED BY <1>2, <1>3, <1>4, <1>5, <1>6, <1>7, <1>8, <1>9, <1>10 DEF CoreCommand

\* One step per action.
LEMMA CoreNextKeeps ==
  ASSUME CoreInv, [CoreNext]_coreVars
  PROVE  CoreInv'
<1>1. CASE MigrateMutableCoreFacts
  BY <1>1, MigrateKeeps
<1>2. ASSUME NEW m \in Machines, CoreCommand(m) PROVE CoreInv'
  BY <1>2, CommandKeeps
<1>3. ASSUME NEW m \in Machines, RefreshProjections(m) PROVE CoreInv'
  BY <1>3, RefreshKeeps
<1>4. ASSUME NEW p \in cplan.procs, NEW s \in cplan.stamps, PromoteSpark(p, s) \/ PromoteIdea(p, s)
      PROVE  CoreInv'
  <2>1. \E kind \in MergedKinds : PromoteFact(p, kind, s)
    BY <1>4 DEF PromoteSpark, PromoteIdea, MergedKinds
  <2> QED BY <2>1, PromoteFactKeeps
<1>5. ASSUME NEW m \in Machines, NEW k \in Machines, NEW f \in cfacts[k], ReceiveCoreFact(m, f)
      PROVE  CoreInv'
  BY <1>5, ReceiveCoreKeeps
<1>6. CASE UNCHANGED coreVars
  <2>1. UNCHANGED <<cplan, crows, cfacts, cdirty, cpromote, cborn>>
    BY <1>6 DEF coreVars
  <2>2. CoreTyped' /\ Unmigrated' /\ FactsFit' /\ Machines' = Machines
    <3>1. CoreTyped' /\ Unmigrated' /\ Machines' = Machines
      BY <2>1 DEF CoreInv, CoreTyped, Unmigrated, Machines
    <3>2. FactsFit'
      BY <2>1 DEF CoreInv, FactsFit, FactFits, AllFacts, IsDrawn, Machines
    <3> QED BY <3>1, <3>2
  <2>3. \A m \in Machines : RowsFitAt(m)' /\ (Ready(m)' /\ ~ cdirty'[m] => InStep(m)')
    <3> TAKE m \in Machines
    <3>1. RowsFitAt(m) /\ (Ready(m) /\ ~ cdirty[m] => InStep(m))
      BY DEF CoreInv
    <3>2. RowsFitAt(m)' /\ (InStep(m) => InStep(m)')
      BY <2>1, <3>1, OthersRest
    <3> QED BY <2>1, <3>1, <3>2 DEF Ready
  <2>4. \A p \in cplan.procs : PromotesKnown(cpromote[p])'
    <3> TAKE p \in cplan.procs
    <3>1. PICK j : j = cpromote[p] /\ j = cpromote'[p] /\ PromotesKnown(j)
      BY <2>1 DEF CoreInv
    <3>2. PromotesKnown(j)'
      BY <2>1, <3>1, PromotesRest
    <3> QED BY <3>1, <3>2 DEF PromotesKnown
  <2> QED BY <2>1, <2>2, <2>3, <2>4 DEF CoreInv
<1> QED BY <1>1, <1>2, <1>3, <1>4, <1>5, <1>6 DEF CoreNext

\* A table and the list its facts fold to agree, but for what is excused.
OneTable(kinds) == kinds \subseteq RefKinds \/ \E k : kinds = {k}
Agrees(m, kinds, folded, rows) ==
  /\ \A f \in folded :
       f.subj \in Excused(m) \/ (\E r \in rows : r.subj = f.subj) \/ ("worktree" \in kinds /\ f.val = Blank)
  /\ \A r \in rows : r.kind \in kinds /\ \E f \in folded : f.subj = r.subj
  /\ \A r \in rows, f \in folded : r.subj = f.subj => r.subj \in Excused(m) \/ SaysSame(f, r)

\* In step, every table agrees with its list.
LEMMA InStepAgrees ==
  ASSUME CoreInv, NEW m \in Machines, InStep(m), Ready(m), NEW kinds, OneTable(kinds), NEW folded, NEW rows,
         Folds(cfacts[m], kinds, folded), rows = TableRows(m, kinds)
  PROVE  Agrees(m, kinds, folded, rows)
<1>1. PICK F : F = cfacts[m]
  OBVIOUS
<1>2. FactsTold(F)
  BY <1>1, HeldAreTold DEF CoreInv
<1>3. ASSUME NEW f \in folded
      PROVE  \E g \in F : /\ f = FoldOf(F, g.row.kind, g.row.subj) /\ g.row.kind \in kinds
                          /\ f.kind = g.row.kind /\ f.subj = g.row.subj
  <2>1. PICK g \in F : g.row.kind \in kinds /\ f = FoldOf(F, g.row.kind, g.row.subj)
    BY <1>1 DEF Folds
  <2>2. Mentioned(F, g.row.kind, g.row.subj)
    BY DEF Mentioned
  <2>3. f.kind = g.row.kind /\ f.subj = g.row.subj
    BY <1>2, <2>1, <2>2, FoldFits
  <2> QED BY <2>1, <2>3
<1>4. ASSUME NEW f \in folded
      PROVE  f.subj \in Excused(m) \/ (\E r \in rows : r.subj = f.subj) \/ ("worktree" \in kinds /\ f.val = Blank)
  <2>1. PICK g \in F : /\ f = FoldOf(F, g.row.kind, g.row.subj) /\ g.row.kind \in kinds
                       /\ f.kind = g.row.kind /\ f.subj = g.row.subj
    BY <1>3
  <2> QED BY <1>1, <2>1 DEF InStep, HasRow, TableRows
<1>5. ASSUME NEW r \in rows
      PROVE  r \in crows[m] /\ r.kind \in kinds /\ \E g \in F : g.row.kind = r.kind /\ g.row.subj = r.subj
  BY <1>1 DEF TableRows, CoreInv, RowsFitAt, Mentioned
<1>6. ASSUME NEW r \in rows PROVE \E f \in folded : f.subj = r.subj
  <2>1. PICK g \in F : g.row.kind = r.kind /\ g.row.subj = r.subj
    BY <1>5
  <2>2. PICK f : f = FoldOf(F, g.row.kind, g.row.subj)
    OBVIOUS
  <2>3. Mentioned(F, g.row.kind, g.row.subj)
    BY DEF Mentioned
  <2>4. f.subj = r.subj
    BY <1>2, <2>1, <2>2, <2>3, FoldFits
  <2>5. f \in folded
    BY <1>1, <1>5, <2>1, <2>2 DEF Folds
  <2> QED BY <2>4, <2>5
<1>7. ASSUME NEW r \in rows, NEW f \in folded, r.subj = f.subj
      PROVE  r.subj \in Excused(m) \/ SaysSame(f, r)
  <2>1. PICK g \in F : /\ f = FoldOf(F, g.row.kind, g.row.subj) /\ g.row.kind \in kinds
                       /\ f.kind = g.row.kind /\ f.subj = g.row.subj
    BY <1>3
  <2>2. PICK h \in F : h.row.kind = r.kind /\ h.row.subj = r.subj
    BY <1>5
  <2>3. h.row.kind = g.row.kind
    <3>1. CASE \E k : kinds = {k}
      BY <1>5, <2>1, <2>2, <3>1
    <3>2. CASE kinds \subseteq RefKinds
      <4>1. g \in AllFacts /\ h \in AllFacts
        BY <1>1 DEF AllFacts
      <4>2. {g.row.kind, h.row.kind} \subseteq RefKinds /\ g.row.subj = h.row.subj
        BY <1>5, <1>7, <2>1, <2>2, <3>2
      <4> QED BY <4>1, <4>2 DEF CoreInv, FactsFit
    <3> QED BY <3>1, <3>2 DEF OneTable
  <2>4. f = FoldOf(F, r.kind, r.subj)
    BY <1>7, <2>1, <2>2, <2>3
  <2> QED BY <1>1, <1>5, <2>4 DEF InStep
<1> QED BY <1>4, <1>5, <1>6, <1>7 DEF Agrees

\* The seven tables, one step each.
LEMMA CoreInvFollows ==
  ASSUME CoreInv
  PROVE  TablesFollowFacts
<1> SUFFICES ASSUME NEW m \in Machines, Ready(m), ~ cdirty[m]
             PROVE  \A parity \in {inspectSparkFactParity(m), inspectIdeaFactParity(m),
                                   inspectHandoffFactParity(m), inspectReleaseFactParity(m),
                                   inspectRefFactParity(m), inspectWorktreeFactParity(m),
                                   inspectVerificationFactParity(m)} :
                      (parity.missing \cup parity.extra \cup parity.changed) \subseteq Excused(m)
  BY DEF TablesFollowFacts
<1>1. InStep(m)
  BY DEF CoreInv
<1> DEFINE Quiet(parity) == (parity.missing \cup parity.extra \cup parity.changed) \subseteq Excused(m)
<1>3. PICK F : F = cfacts[m]
  OBVIOUS
<1>4. /\ Folds(F, {"spark"}, foldSparkFacts(F)) /\ Folds(F, {"idea"}, foldIdeaFacts(F))
      /\ Folds(F, {"handoff"}, foldHandoffFacts(F)) /\ Folds(F, {"release"}, foldReleaseFacts(F))
      /\ Folds(F, RefKinds, foldRefFacts(F)) /\ Folds(F, {"worktree"}, foldWorktreeFacts(F))
      /\ Folds(F, {"verification"}, foldVerificationFacts(F))
  BY ListsAreFolds
<1>5. ASSUME NEW kinds, NEW folded, NEW rows, Folds(F, kinds, folded), OneTable(kinds), rows = TableRows(m, kinds)
      PROVE  Agrees(m, kinds, folded, rows)
  <2>1. Folds(cfacts[m], kinds, folded)
    BY <1>3, <1>5
  <2> QED BY <1>1, <1>5, <2>1, InStepAgrees
<1>6. Quiet(inspectSparkFactParity(m))
  <2>1. PICK kinds, folded, rows, parity :
          /\ kinds = {"spark"} /\ folded = foldSparkFacts(F) /\ rows = TableRows(m, kinds)
          /\ parity = inspectSparkFactParity(m)
    OBVIOUS
  <2>2. Folds(F, kinds, folded) /\ OneTable(kinds)
    BY <1>4, <2>1 DEF OneTable
  <2>3. Agrees(m, kinds, folded, rows)
    BY <1>5, <2>1, <2>2
  <2>6. /\ parity.missing = {f.subj : f \in {g \in folded : \A r \in rows : r.subj # g.subj}}
        /\ parity.extra = {r.subj : r \in {q \in rows : \A f \in folded : f.subj # q.subj}}
        /\ parity.changed = {r.subj : r \in {q \in rows : \E f \in folded : f.subj = q.subj /\ f # q}}
    BY <1>3, <2>1 DEF inspectSparkFactParity, KindParity, SameRow
  <2>7. \A r \in rows, f \in folded : r.subj = f.subj => r.subj \in Excused(m) \/ (f = r)
    <3>1. \A f, r : r.kind = "spark" /\ SaysSame(f, r) => f = r
      BY DEF SaysSame, MergedKinds
    <3>2. \A r \in rows : r.kind = "spark"
      BY <2>1, <2>3 DEF Agrees
    <3> QED BY <2>3, <3>1, <3>2 DEF Agrees
  <2>8. parity.extra = {}
    BY <2>3, <2>6 DEF Agrees
  <2>9. ASSUME NEW x \in parity.changed PROVE x \in Excused(m)
    <3>2. PICK r \in rows, f \in folded : x = r.subj /\ f.subj = r.subj /\ f # r
      BY <2>6
    <3> QED BY <2>7, <3>2
  <2>10. ASSUME NEW x \in parity.missing PROVE x \in Excused(m)
    <3>1. "worktree" \notin kinds
      BY <2>1
    <3>3. PICK f \in folded : x = f.subj /\ \A r \in rows : r.subj # f.subj
      BY <2>6
    <3> QED BY <2>3, <3>1, <3>3 DEF Agrees
  <2> QED BY <2>1, <2>8, <2>9, <2>10
<1>7. Quiet(inspectIdeaFactParity(m))
  <2>1. PICK kinds, folded, rows, parity :
          /\ kinds = {"idea"} /\ folded = foldIdeaFacts(F) /\ rows = TableRows(m, kinds)
          /\ parity = inspectIdeaFactParity(m)
    OBVIOUS
  <2>2. Folds(F, kinds, folded) /\ OneTable(kinds)
    BY <1>4, <2>1 DEF OneTable
  <2>3. Agrees(m, kinds, folded, rows)
    BY <1>5, <2>1, <2>2
  <2>6. /\ parity.missing = {f.subj : f \in {g \in folded : \A r \in rows : r.subj # g.subj}}
        /\ parity.extra = {r.subj : r \in {q \in rows : \A f \in folded : f.subj # q.subj}}
        /\ parity.changed = {r.subj : r \in {q \in rows : \E f \in folded : f.subj = q.subj /\ f # q}}
    BY <1>3, <2>1 DEF inspectIdeaFactParity, KindParity, SameRow
  <2>7. \A r \in rows, f \in folded : r.subj = f.subj => r.subj \in Excused(m) \/ (f = r)
    <3>1. \A f, r : r.kind = "idea" /\ SaysSame(f, r) => f = r
      BY DEF SaysSame, MergedKinds
    <3>2. \A r \in rows : r.kind = "idea"
      BY <2>1, <2>3 DEF Agrees
    <3> QED BY <2>3, <3>1, <3>2 DEF Agrees
  <2>8. parity.extra = {}
    BY <2>3, <2>6 DEF Agrees
  <2>9. ASSUME NEW x \in parity.changed PROVE x \in Excused(m)
    <3>2. PICK r \in rows, f \in folded : x = r.subj /\ f.subj = r.subj /\ f # r
      BY <2>6
    <3> QED BY <2>7, <3>2
  <2>10. ASSUME NEW x \in parity.missing PROVE x \in Excused(m)
    <3>1. "worktree" \notin kinds
      BY <2>1
    <3>3. PICK f \in folded : x = f.subj /\ \A r \in rows : r.subj # f.subj
      BY <2>6
    <3> QED BY <2>3, <3>1, <3>3 DEF Agrees
  <2> QED BY <2>1, <2>8, <2>9, <2>10
<1>8. Quiet(inspectHandoffFactParity(m))
  <2>1. PICK kinds, folded, rows, parity :
          /\ kinds = {"handoff"} /\ folded = foldHandoffFacts(F) /\ rows = TableRows(m, kinds)
          /\ parity = inspectHandoffFactParity(m)
    OBVIOUS
  <2>2. Folds(F, kinds, folded) /\ OneTable(kinds)
    BY <1>4, <2>1 DEF OneTable
  <2>3. Agrees(m, kinds, folded, rows)
    BY <1>5, <2>1, <2>2
  <2>6. /\ parity.missing = {f.subj : f \in {g \in folded : \A r \in rows : r.subj # g.subj}}
        /\ parity.extra = {r.subj : r \in {q \in rows : \A f \in folded : f.subj # q.subj}}
        /\ parity.changed = {r.subj : r \in {q \in rows : \E f \in folded : f.subj = q.subj /\ f # q}}
    BY <1>3, <2>1 DEF inspectHandoffFactParity, KindParity, SameRow
  <2>7. \A r \in rows, f \in folded : r.subj = f.subj => r.subj \in Excused(m) \/ (f = r)
    <3>1. \A f, r : r.kind = "handoff" /\ SaysSame(f, r) => f = r
      BY DEF SaysSame, MergedKinds
    <3>2. \A r \in rows : r.kind = "handoff"
      BY <2>1, <2>3 DEF Agrees
    <3> QED BY <2>3, <3>1, <3>2 DEF Agrees
  <2>8. parity.extra = {}
    BY <2>3, <2>6 DEF Agrees
  <2>9. ASSUME NEW x \in parity.changed PROVE x \in Excused(m)
    <3>2. PICK r \in rows, f \in folded : x = r.subj /\ f.subj = r.subj /\ f # r
      BY <2>6
    <3> QED BY <2>7, <3>2
  <2>10. ASSUME NEW x \in parity.missing PROVE x \in Excused(m)
    <3>1. "worktree" \notin kinds
      BY <2>1
    <3>3. PICK f \in folded : x = f.subj /\ \A r \in rows : r.subj # f.subj
      BY <2>6
    <3> QED BY <2>3, <3>1, <3>3 DEF Agrees
  <2> QED BY <2>1, <2>8, <2>9, <2>10
<1>9. Quiet(inspectReleaseFactParity(m))
  <2>1. PICK kinds, folded, rows, parity :
          /\ kinds = {"release"} /\ folded = foldReleaseFacts(F) /\ rows = TableRows(m, kinds)
          /\ parity = inspectReleaseFactParity(m)
    OBVIOUS
  <2>2. Folds(F, kinds, folded) /\ OneTable(kinds)
    BY <1>4, <2>1 DEF OneTable
  <2>3. Agrees(m, kinds, folded, rows)
    BY <1>5, <2>1, <2>2
  <2>6. /\ parity.missing = {f.subj : f \in {g \in folded : \A r \in rows : r.subj # g.subj}}
        /\ parity.extra = {r.subj : r \in {q \in rows : \A f \in folded : f.subj # q.subj}}
        /\ parity.changed = {r.subj : r \in {q \in rows : \E f \in folded : f.subj = q.subj /\ f.key # q.key}}
    BY <1>3, <2>1 DEF inspectReleaseFactParity, KindParity, SameKey
  <2>7. \A r \in rows, f \in folded : r.subj = f.subj => r.subj \in Excused(m) \/ (f.key = r.key)
    <3>1. \A f, r : r.kind = "release" /\ SaysSame(f, r) => f.key = r.key
      BY DEF SaysSame, MergedKinds
    <3>2. \A r \in rows : r.kind = "release"
      BY <2>1, <2>3 DEF Agrees
    <3> QED BY <2>3, <3>1, <3>2 DEF Agrees
  <2>8. parity.extra = {}
    BY <2>3, <2>6 DEF Agrees
  <2>9. ASSUME NEW x \in parity.changed PROVE x \in Excused(m)
    <3>2. PICK r \in rows, f \in folded : x = r.subj /\ f.subj = r.subj /\ f.key # r.key
      BY <2>6
    <3> QED BY <2>7, <3>2
  <2>10. ASSUME NEW x \in parity.missing PROVE x \in Excused(m)
    <3>1. "worktree" \notin kinds
      BY <2>1
    <3>3. PICK f \in folded : x = f.subj /\ \A r \in rows : r.subj # f.subj
      BY <2>6
    <3> QED BY <2>3, <3>1, <3>3 DEF Agrees
  <2> QED BY <2>1, <2>8, <2>9, <2>10
<1>10. Quiet(inspectRefFactParity(m))
  <2>1. PICK kinds, folded, rows, parity :
          /\ kinds = RefKinds /\ folded = foldRefFacts(F) /\ rows = TableRows(m, kinds)
          /\ parity = inspectRefFactParity(m)
    OBVIOUS
  <2>2. Folds(F, kinds, folded) /\ OneTable(kinds)
    BY <1>4, <2>1 DEF OneTable
  <2>3. Agrees(m, kinds, folded, rows)
    BY <1>5, <2>1, <2>2
  <2>6. /\ parity.missing = {f.subj : f \in {g \in folded : \A r \in rows : r.subj # g.subj}}
        /\ parity.extra = {r.subj : r \in {q \in rows : \A f \in folded : f.subj # q.subj}}
        /\ parity.changed = {r.subj : r \in {q \in rows : \E f \in folded : f.subj = q.subj /\ ~ (f.key = q.key /\ f.val = q.val)}}
    BY <1>3, <2>1 DEF inspectRefFactParity, KindParity, SameRef, RefKinds
  <2>7. \A r \in rows, f \in folded : r.subj = f.subj => r.subj \in Excused(m) \/ (f.key = r.key /\ f.val = r.val)
    <3>1. \A f, r : r.kind \in RefKinds /\ SaysSame(f, r) => f.key = r.key /\ f.val = r.val
      BY DEF SaysSame, MergedKinds
    <3>2. \A r \in rows : r.kind \in RefKinds
      BY <2>1, <2>3 DEF Agrees
    <3> QED BY <2>3, <3>1, <3>2 DEF Agrees
  <2>8. parity.extra = {}
    BY <2>3, <2>6 DEF Agrees
  <2>9. ASSUME NEW x \in parity.changed PROVE x \in Excused(m)
    <3>2. PICK r \in rows, f \in folded : x = r.subj /\ f.subj = r.subj /\ ~ (f.key = r.key /\ f.val = r.val)
      BY <2>6
    <3> QED BY <2>7, <3>2
  <2>10. ASSUME NEW x \in parity.missing PROVE x \in Excused(m)
    <3>1. "worktree" \notin kinds
      BY <2>1 DEF RefKinds
    <3>3. PICK f \in folded : x = f.subj /\ \A r \in rows : r.subj # f.subj
      BY <2>6
    <3> QED BY <2>3, <3>1, <3>3 DEF Agrees
  <2> QED BY <2>1, <2>8, <2>9, <2>10
<1>11. Quiet(inspectWorktreeFactParity(m))
  <2>1. PICK kinds, folded, rows, parity :
          /\ kinds = {"worktree"} /\ folded = foldWorktreeFacts(F) /\ rows = TableRows(m, kinds)
          /\ parity = inspectWorktreeFactParity(m)
    OBVIOUS
  <2>2. Folds(F, kinds, folded) /\ OneTable(kinds)
    BY <1>4, <2>1 DEF OneTable
  <2>3. Agrees(m, kinds, folded, rows)
    BY <1>5, <2>1, <2>2
  <2>4. PICK whole :
          /\ whole = KindParity(folded, rows, SameValue)
          /\ parity = [whole EXCEPT !.missing = {x \in @ : \E f \in folded : f.subj = x /\ f.val # Blank}]
    BY <1>3, <2>1 DEF inspectWorktreeFactParity
  <2>5. whole = [missing |-> {f.subj : f \in {g \in folded : \A r \in rows : r.subj # g.subj}},
                 extra   |-> {r.subj : r \in {q \in rows : \A f \in folded : f.subj # q.subj}},
                 changed |-> {r.subj : r \in {q \in rows : \E f \in folded : f.subj = q.subj /\ f.val # q.val}}]
    BY <2>4 DEF KindParity, SameValue
  <2>6. /\ parity.missing = {x \in {f.subj : f \in {g \in folded : \A r \in rows : r.subj # g.subj}} :
                               \E f \in folded : f.subj = x /\ f.val # Blank}
        /\ parity.extra = {r.subj : r \in {q \in rows : \A f \in folded : f.subj # q.subj}}
        /\ parity.changed = {r.subj : r \in {q \in rows : \E f \in folded : f.subj = q.subj /\ f.val # q.val}}
    BY <2>4, <2>5
  <2>7. \A r \in rows, f \in folded : r.subj = f.subj => r.subj \in Excused(m) \/ (f.val = r.val)
    <3>1. \A f, r : r.kind = "worktree" /\ SaysSame(f, r) => f.val = r.val
      BY DEF SaysSame, MergedKinds
    <3>2. \A r \in rows : r.kind = "worktree"
      BY <2>1, <2>3 DEF Agrees
    <3> QED BY <2>3, <3>1, <3>2 DEF Agrees
  <2>8. parity.extra = {}
    BY <2>3, <2>6 DEF Agrees
  <2>9. ASSUME NEW x \in parity.changed PROVE x \in Excused(m)
    <3>2. PICK r \in rows, f \in folded : x = r.subj /\ f.subj = r.subj /\ f.val # r.val
      BY <2>6
    <3> QED BY <2>7, <3>2
  <2>10. ASSUME NEW x \in parity.missing PROVE x \in Excused(m)
    <3>2. PICK g \in folded : x = g.subj /\ \A r \in rows : r.subj # g.subj
      BY <2>6
    <3>3. PICK f \in folded : f.subj = x /\ f.val # Blank
      BY <2>6
    <3> QED BY <2>3, <3>2, <3>3 DEF Agrees
  <2> QED BY <2>1, <2>8, <2>9, <2>10
<1>12. Quiet(inspectVerificationFactParity(m))
  <2>1. PICK kinds, folded, rows, parity :
          /\ kinds = {"verification"} /\ folded = foldVerificationFacts(F) /\ rows = TableRows(m, kinds)
          /\ parity = inspectVerificationFactParity(m)
    OBVIOUS
  <2>2. Folds(F, kinds, folded) /\ OneTable(kinds)
    BY <1>4, <2>1 DEF OneTable
  <2>3. Agrees(m, kinds, folded, rows)
    BY <1>5, <2>1, <2>2
  <2>6. /\ parity.missing = {f.subj : f \in {g \in folded : \A r \in rows : r.subj # g.subj}}
        /\ parity.extra = {r.subj : r \in {q \in rows : \A f \in folded : f.subj # q.subj}}
        /\ parity.changed = {r.subj : r \in {q \in rows : \E f \in folded : f.subj = q.subj /\ f.val # q.val}}
    BY <1>3, <2>1 DEF inspectVerificationFactParity, KindParity, SameValue
  <2>7. \A r \in rows, f \in folded : r.subj = f.subj => r.subj \in Excused(m) \/ (f.val = r.val)
    <3>1. \A f, r : r.kind = "verification" /\ SaysSame(f, r) => f.val = r.val
      BY DEF SaysSame, MergedKinds
    <3>2. \A r \in rows : r.kind = "verification"
      BY <2>1, <2>3 DEF Agrees
    <3> QED BY <2>3, <3>1, <3>2 DEF Agrees
  <2>8. parity.extra = {}
    BY <2>3, <2>6 DEF Agrees
  <2>9. ASSUME NEW x \in parity.changed PROVE x \in Excused(m)
    <3>2. PICK r \in rows, f \in folded : x = r.subj /\ f.subj = r.subj /\ f.val # r.val
      BY <2>6
    <3> QED BY <2>7, <3>2
  <2>10. ASSUME NEW x \in parity.missing PROVE x \in Excused(m)
    <3>1. "worktree" \notin kinds
      BY <2>1
    <3>3. PICK f \in folded : x = f.subj /\ \A r \in rows : r.subj # f.subj
      BY <2>6
    <3> QED BY <2>3, <3>1, <3>3 DEF Agrees
  <2> QED BY <2>1, <2>8, <2>9, <2>10
<1> QED BY <1>6, <1>7, <1>8, <1>9, <1>10, <1>11, <1>12

\* On a machine that has rebuilt since it last received a fact, every table says
\* what its facts fold to, for any number of machines, commands, promotions and
\* received facts and for any old database (inspectMutableCoreFactParity).
THEOREM TablesStayInStep == CoreSpec => []TablesFollowFacts
<1>1. CoreInit => CoreInv
  BY CoreInitHolds
<1>2. CoreInv /\ [CoreNext]_coreVars => CoreInv'
  BY CoreNextKeeps
<1>3. CoreInv => TablesFollowFacts
  BY CoreInvFollows
<1> QED BY <1>1, <1>2, <1>3, PTL DEF CoreSpec
=============================================================================
