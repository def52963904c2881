-------------------------- MODULE DbCopyOrder_proofs --------------------------
(* Theorems about DbCopyOrder, for every set of tables and foreign keys.     *)
EXTENDS DbCopyOrder, FiniteSetTheorems, TLAPS

USE OrderAssumption DEF OrderAssumption

(***************************************************************************)
(* The inductive invariant. The list is closed under the foreign keys      *)
(* until the ignored tables are taken off it, so that no later level holds *)
(* a table an earlier one refers to; and what the inner loop looks at is   *)
(* not in the list yet, so that no table is added twice.                   *)
(***************************************************************************)
Closed ==
  \A t \in Copied, r \in Tables : <<t, r>> \in fk /\ t # r => r \in Copied

OrderInv ==
  /\ FKOrder
  /\ CopiedOnce
  /\ pc = "start" => levels = << >>
  /\ pc \in {"start", "outer", "inner"} => Closed
  /\ pc = "inner" => front \cap Copied = {}

LEMMA ReferringType ==
  ASSUME NEW S
  PROVE  Referring(S) \in SUBSET Tables
BY DEF Referring

\* Every variable keeps its type.
THEOREM OrderTypeCorrect == Spec => []TypeOK
<1>1. Init => TypeOK
  BY DEF Init, TypeOK
<1>2. TypeOK /\ [Next]_vars => TypeOK'
  <2> SUFFICES ASSUME TypeOK, [Next]_vars PROVE TypeOK'
    OBVIOUS
  <2>1. CASE Short
    BY <2>1 DEF Short, TypeOK, inputs
  <2>2. CASE Begin
    BY <2>2 DEF Begin, TypeOK, inputs
  <2>3. CASE Outer
    BY <2>3 DEF Outer, TypeOK, inputs
  <2>4. CASE Descend
    BY <2>4, ReferringType DEF Descend, TypeOK, inputs
  <2>5. CASE AddLevel
    BY <2>5 DEF AddLevel, TypeOK, inputs
  <2>6. CASE Finish
    <3>1. levels' \in Seq(SUBSET Tables)
      BY <2>6 DEF Finish, TypeOK
    <3> QED
      BY <2>6, <3>1 DEF Finish, TypeOK, inputs
  <2>7. CASE UNCHANGED vars
    BY <2>7 DEF vars, TypeOK
  <2> QED
    BY <2>1, <2>2, <2>3, <2>4, <2>5, <2>6, <2>7 DEF Next
<1> QED
  BY <1>1, <1>2, PTL DEF Spec

-----------------------------------------------------------------------------
LEMMA AtMostOneTable ==
  ASSUME NEW S \in SUBSET Tables, Cardinality(S) < 2,
         NEW t \in S, NEW r \in S
  PROVE  t = r
<1> SUFFICES ASSUME t # r PROVE FALSE
  OBVIOUS
<1>1. IsFiniteSet(S)
  BY FS_Subset
<1>2. Cardinality({t} \cup {r}) = 2
  <2>1. IsFiniteSet({t}) /\ Cardinality({t}) = 1
    BY FS_Singleton
  <2>2. r \notin {t}
    OBVIOUS
  <2>3. Cardinality({t} \cup {r}) = Cardinality({t}) + 1
    BY <2>1, <2>2, FS_AddElement
  <2> QED
    BY <2>1, <2>3
<1>3. Cardinality({t} \cup {r}) <= Cardinality(S)
  BY <1>1, FS_Subset
<1>4. Cardinality(S) \in Nat
  BY <1>1, FS_CardinalityType
<1> QED
  BY <1>2, <1>3, <1>4

LEMMA ShortStep ==
  ASSUME TypeOK, OrderInv, Short
  PROVE  OrderInv'
<1>1. levels' = <<common>> /\ fk' = fk /\ pc' = "done"
  BY DEF Short, inputs
<1>2. \A t, r \in common : t = r
  BY AtMostOneTable DEF Short, TypeOK
<1>3. FKOrder'
  BY <1>1, <1>2 DEF FKOrder
<1>4. CopiedOnce'
  BY <1>1 DEF CopiedOnce
<1> QED
  BY <1>1, <1>3, <1>4 DEF OrderInv

LEMMA AddLevelStep ==
  ASSUME TypeOK, OrderInv, AddLevel
  PROVE  OrderInv'
<1> DEFINE n == Len(levels)
<1>1. /\ levels' = Append(levels, front) /\ fk' = fk /\ pc' = "outer"
      /\ pc = "inner" /\ Referring(front) = {}
  BY DEF AddLevel, inputs
<1>2. /\ n \in Nat
      /\ DOMAIN levels = 1 .. n /\ DOMAIN levels' = 1 .. n + 1
      /\ \A i \in 1 .. n : levels'[i] = levels[i]
      /\ levels'[n + 1] = front
  BY <1>1 DEF TypeOK
<1>3. Copied' = Copied \cup front
  BY <1>2 DEF Copied
<1>4. front \cap Copied = {} /\ Closed
  BY <1>1 DEF OrderInv
<1>5. \A t \in front, r \in Tables : <<t, r>> \in fk /\ t # r => r \in Copied
  BY <1>1 DEF Referring
<1>6. front \subseteq Tables /\ \A i \in 1 .. n : levels[i] \subseteq Tables
  BY <1>2 DEF TypeOK
<1>7. \A i \in 1 .. n : levels[i] \subseteq Copied
  BY <1>2 DEF Copied
<1>8. FKOrder'
  <2> SUFFICES ASSUME NEW i \in 1 .. n + 1, NEW j \in 1 .. n + 1,
                      NEW t \in levels'[i], NEW r \in levels'[j],
                      <<t, r>> \in fk, t # r
               PROVE  j < i
    BY <1>1, <1>2 DEF FKOrder
  <2>1. CASE i \in 1 .. n /\ j \in 1 .. n
    BY <1>2, <2>1 DEF OrderInv, FKOrder
  <2>2. CASE i \in 1 .. n /\ j = n + 1
    <3>1. t \in Copied /\ r \in front
      BY <1>2, <1>7, <2>2
    <3> QED
      BY <1>4, <1>6, <3>1 DEF Closed
  <2>3. CASE i = n + 1 /\ j \in 1 .. n
    BY <1>2, <2>3
  <2>4. CASE i = n + 1 /\ j = n + 1
    BY <1>2, <1>4, <1>5, <1>6, <2>4
  <2> QED
    BY <1>2, <2>1, <2>2, <2>3, <2>4
<1>9. CopiedOnce'
  <2> SUFFICES ASSUME NEW i \in 1 .. n + 1, NEW j \in 1 .. n + 1, i # j
               PROVE  levels'[i] \cap levels'[j] = {}
    BY <1>2 DEF CopiedOnce
  <2>1. CASE i \in 1 .. n /\ j \in 1 .. n
    BY <1>2, <2>1 DEF OrderInv, CopiedOnce
  <2>2. CASE i = n + 1 \/ j = n + 1
    BY <1>2, <1>4, <1>7, <2>2
  <2> QED
    BY <1>2, <2>1, <2>2
<1>10. Closed'
  BY <1>1, <1>3, <1>4, <1>5 DEF Closed
<1> QED
  BY <1>1, <1>8, <1>9, <1>10 DEF OrderInv

LEMMA FinishStep ==
  ASSUME TypeOK, OrderInv, Finish
  PROVE  OrderInv'
<1>1. /\ levels' = [i \in DOMAIN levels |-> levels[i] \ ignored]
      /\ fk' = fk /\ pc' = "done"
  BY DEF Finish, inputs
<1>2. FKOrder'
  BY <1>1 DEF FKOrder, OrderInv
<1>3. CopiedOnce'
  BY <1>1 DEF CopiedOnce, OrderInv
<1> QED
  BY <1>1, <1>2, <1>3 DEF OrderInv

LEMMA OrderStep ==
  ASSUME TypeOK, OrderInv, [Next]_vars
  PROVE  OrderInv'
<1>1. ASSUME UNCHANGED <<fk, levels>>
      PROVE  /\ FKOrder' = FKOrder /\ CopiedOnce' = CopiedOnce
             /\ Copied' = Copied /\ Closed' = Closed
  BY <1>1 DEF FKOrder, CopiedOnce, Copied, Closed
<1>2. CASE Short
  BY <1>2, ShortStep
<1>3. CASE Begin
  BY <1>1, <1>3 DEF Begin, inputs, OrderInv
<1>4. CASE Outer
  BY <1>1, <1>4 DEF Outer, inputs, OrderInv
<1>5. CASE Descend
  <2>1. Referring(front) \cap Copied = {}
    BY DEF Referring
  <2> QED
    BY <1>1, <1>5, <2>1 DEF Descend, inputs, OrderInv
<1>6. CASE AddLevel
  BY <1>6, AddLevelStep
<1>7. CASE Finish
  BY <1>7, FinishStep
<1>8. CASE UNCHANGED vars
  BY <1>1, <1>8 DEF vars, OrderInv
<1> QED
  BY <1>2, <1>3, <1>4, <1>5, <1>6, <1>7, <1>8 DEF Next

LEMMA OrderInvariant == Spec => []OrderInv
<1>1. Init => OrderInv
  BY DEF Init, OrderInv, FKOrder, CopiedOnce, Closed, Copied
<1> QED
  BY <1>1, OrderStep, OrderTypeCorrect, PTL DEF Spec

\* Tables are copied after the tables they refer to, whatever the circles.
THEOREM ForeignKeysRespected == Spec => []FKOrder
<1>1. OrderInv => FKOrder
  BY DEF OrderInv
<1> QED
  BY <1>1, OrderInvariant, PTL

\* No table is listed, and so copied, twice.
THEOREM NoTableTwice == Spec => []CopiedOnce
<1>1. OrderInv => CopiedOnce
  BY DEF OrderInv
<1> QED
  BY <1>1, OrderInvariant, PTL

-----------------------------------------------------------------------------
(* Tables left out. The list never holds a table outside a set that is      *)
(* closed under the references of the common tables, so it can only be     *)
(* filled up with the tables of that set that are not common.              *)

WithinInv ==
  /\ common \cap ignored = {}
  /\ \A S \in SUBSET Tables :
       ReferredWithin(S) => Copied \subseteq S /\ front \subseteq S
  /\ DropsBounded

\* A finite set C at least as large as D misses no more of D than it has
\* elements outside D.
LEMMA Missed ==
  ASSUME NEW C, NEW D, NEW S, IsFiniteSet(C), IsFiniteSet(D), IsFiniteSet(S),
         C \subseteq S, Cardinality(C) >= Cardinality(D)
  PROVE  Cardinality(D \ C) <= Cardinality(S \ D)
<1>1. C \cap D = D \cap C
  OBVIOUS
<1>2. /\ Cardinality(D \ C) = Cardinality(D) - Cardinality(D \cap C)
      /\ Cardinality(C \ D) = Cardinality(C) - Cardinality(C \cap D)
      /\ IsFiniteSet(C \ D) /\ IsFiniteSet(S \ D) /\ IsFiniteSet(D \cap C)
      /\ IsFiniteSet(D \ C)
  BY FS_Difference, FS_Intersection
<1>3. C \ D \in SUBSET (S \ D)
  OBVIOUS
<1>4. Cardinality(C \ D) <= Cardinality(S \ D)
  BY <1>2, <1>3, FS_Subset
<1>5. /\ Cardinality(C) \in Nat /\ Cardinality(D) \in Nat
      /\ Cardinality(D \cap C) \in Nat /\ Cardinality(S \ D) \in Nat
      /\ Cardinality(C \ D) \in Nat /\ Cardinality(D \ C) \in Nat
  BY <1>2, FS_CardinalityType
<1>6. Cardinality(C \ D) = Cardinality(C) - Cardinality(D \cap C)
  BY <1>1, <1>2
<1>7. ASSUME NEW a \in Nat, NEW b \in Nat, NEW k \in Nat, NEW x \in Nat,
             NEW y \in Nat, NEW z \in Nat,
             x = a - k, y = b - k, b >= a, y <= z
      PROVE  x <= z
  BY <1>7
<1> DEFINE dc == D \ C
           cd == C \ D
           sd == S \ D
           both == D \cap C
<1> HIDE DEF dc, cd, sd, both
<1>8. /\ Cardinality(dc) = Cardinality(D) - Cardinality(both)
      /\ Cardinality(cd) = Cardinality(C) - Cardinality(both)
      /\ Cardinality(cd) <= Cardinality(sd)
      /\ Cardinality(C) \in Nat /\ Cardinality(D) \in Nat
      /\ Cardinality(both) \in Nat /\ Cardinality(sd) \in Nat
      /\ Cardinality(cd) \in Nat /\ Cardinality(dc) \in Nat
  BY <1>2, <1>4, <1>5, <1>6 DEF dc, cd, sd, both
<1>9. Cardinality(dc) <= Cardinality(sd)
  BY <1>7, <1>8
<1> QED
  BY <1>9 DEF dc, sd

LEMMA WithinStep ==
  ASSUME TypeOK, WithinInv, [Next]_vars
  PROVE  WithinInv'
<1>1. ASSUME UNCHANGED inputs
      PROVE  \A S : ReferredWithin(S)' = ReferredWithin(S)
  BY <1>1 DEF inputs, ReferredWithin
<1>2. CASE Short
  <2>1. levels' = <<common>> /\ Copied' = common
    BY <1>2 DEF Short, Copied
  <2>2. common \ Copied' = {} /\ UNCHANGED inputs /\ UNCHANGED front
    BY <1>2, <2>1 DEF Short
  <2>3. \A S \in SUBSET Tables : Cardinality({}) <= Cardinality(S \ common)
    <3> TAKE S \in SUBSET Tables
    <3>1. IsFiniteSet(S \ common)
      BY FS_Subset, FS_Difference
    <3> QED
      BY <3>1, FS_EmptySet, FS_CardinalityType
  <2>4. DropsBounded'
    BY <2>2, <2>3 DEF DropsBounded, inputs
  <2>5. \A S : ReferredWithin(S) => common \subseteq S
    BY DEF ReferredWithin
  <2> QED
    BY <1>1, <2>1, <2>2, <2>4, <2>5 DEF WithinInv, inputs
<1>3. CASE Begin
  BY <1>1, <1>3 DEF Begin, inputs, WithinInv, DropsBounded, Copied
<1>4. CASE Outer
  <2>1. \A S : ReferredWithin(S) => common \ Copied \subseteq S
    BY DEF ReferredWithin
  <2> QED
    BY <1>1, <1>4, <2>1 DEF Outer, inputs, WithinInv, DropsBounded, Copied
<1>5. CASE Descend
  <2>1. \A S \in SUBSET Tables : ReferredWithin(S) => Referring(front) \subseteq S
    BY DEF Referring, WithinInv, ReferredWithin
  <2> QED
    BY <1>1, <1>5, <2>1 DEF Descend, inputs, WithinInv, DropsBounded, Copied
<1>6. CASE AddLevel
  <2> DEFINE n == Len(levels)
  <2>1. levels' = Append(levels, front)
    BY <1>6 DEF AddLevel
  <2>2. /\ n \in Nat
        /\ DOMAIN levels = 1 .. n /\ DOMAIN levels' = 1 .. n + 1
        /\ \A i \in 1 .. n : levels'[i] = levels[i]
        /\ levels'[n + 1] = front
    BY <2>1 DEF TypeOK
  <2>3. Copied' = Copied \cup front
    BY <2>2 DEF Copied
  <2> QED
    BY <1>1, <1>6, <2>3 DEF AddLevel, inputs, WithinInv, DropsBounded
<1>7. CASE Finish
  <2>1. Copied' = Copied \ ignored
    BY <1>7 DEF Finish, Copied
  <2>2. common \ Copied' = common \ Copied
    BY <2>1 DEF WithinInv
  <2>3. /\ Cardinality(Copied) >= Cardinality(common)
        /\ UNCHANGED inputs /\ UNCHANGED front
    BY <1>7 DEF Finish
  <2>4. IsFiniteSet(common)
    BY FS_Subset DEF TypeOK
  <2>5. ASSUME NEW S \in SUBSET Tables, ReferredWithin(S)
        PROVE  Cardinality(common \ Copied) <= Cardinality(S \ common)
    <3>1. Copied \in SUBSET S
      BY <2>5 DEF WithinInv
    <3>2. IsFiniteSet(S)
      BY FS_Subset
    <3>3. IsFiniteSet(Copied)
      BY <3>1, <3>2, FS_Subset
    <3> QED
      BY <2>3, <2>4, <3>1, <3>2, <3>3, Missed
  <2>6. DropsBounded'
    BY <1>1, <2>2, <2>3, <2>5 DEF DropsBounded, inputs
  <2> QED
    BY <1>1, <2>1, <2>3, <2>6 DEF WithinInv, inputs
<1>8. CASE UNCHANGED vars
  BY <1>1, <1>8 DEF vars, inputs, WithinInv, DropsBounded, Copied
<1> QED
  BY <1>2, <1>3, <1>4, <1>5, <1>6, <1>7, <1>8 DEF Next

\* Whatever the foreign keys, circles included, the list the ordering ends with
\* misses no more common tables than there are other tables the common ones
\* refer to, directly or through others: none when they refer to each other
\* only.
THEOREM FewTablesDropped == Spec => []DropsBounded
<1>1. Init => WithinInv
  BY DEF Init, WithinInv, DropsBounded, Copied
<1>2. WithinInv => DropsBounded
  BY DEF WithinInv
<1> QED
  BY <1>1, <1>2, WithinStep, OrderTypeCorrect, PTL DEF Spec
=============================================================================
