---------------------------- MODULE SqlQuery_proofs ----------------------------
(***************************************************************************)
(* Proofs about the program sql-query and the client of the formatters:    *)
(* what the parser makes of an input, what becomes of the updates, and     *)
(* what reaches the file.                                                  *)
(***************************************************************************)
EXTENDS SqlQuery, FoldLemmas, FiniteSetTheorems, SequenceTheorems, TLAPS

-----------------------------------------------------------------------------
(***************************************************************************)
(* The parser. Whatever the lines of an input, each statement of it has a  *)
(* line, and neither begins nor ends with a blank one.                     *)
(***************************************************************************)
StatementsOver(texts) ==
  {sql \in Seq(texts) : Len(sql) > 0 /\ sql[1] # Blank /\ sql[Len(sql)] # Blank}

Reader(texts) == [lines : Seq(texts), results : Seq(StatementsOver(texts))]

LEMMA StripStatement ==
  ASSUME NEW texts, NEW lines \in Seq(texts), Strip(lines) # << >>
  PROVE  Strip(lines) \in StatementsOver(texts)
<1> DEFINE filled == {i \in DOMAIN lines : lines[i] # Blank}
           lo == CHOOSE i \in filled : \A j \in filled : i <= j
           hi == CHOOSE i \in filled : \A j \in filled : i >= j
<1>1. filled # {}
  BY DEF Strip
<1>2. filled \subseteq 1 .. Len(lines) /\ Len(lines) \in Nat
  OBVIOUS
<1>3. lo \in filled /\ \A j \in filled : lo <= j
  <2>1. \E i \in filled : \A j \in filled : i <= j
    <3>1. filled \subseteq Nat
      BY <1>2
    <3> HIDE DEF filled
    <3> QED
      BY <1>1, <3>1, Least
  <2> HIDE DEF filled
  <2> QED
    BY <2>1
<1>4. hi \in filled
  <2> HIDE DEF filled
  <2>1. Max(filled) \in filled
    BY <1>1, <1>2, MaxIn
  <2> QED
    BY <2>1 DEF Max
<1>5. Strip(lines) = SubSeq(lines, lo, hi)
  BY <1>1 DEF Strip
<1>6. lo <= hi /\ lo \in 1 .. Len(lines) /\ hi \in 1 .. Len(lines)
      /\ lines[lo] # Blank /\ lines[hi] # Blank
  BY <1>2, <1>3, <1>4
<1> HIDE DEF lo, hi
<1>7. /\ SubSeq(lines, lo, hi) \in Seq(texts)
      /\ Len(SubSeq(lines, lo, hi)) = hi - lo + 1
      /\ SubSeq(lines, lo, hi)[1] = lines[lo]
      /\ SubSeq(lines, lo, hi)[hi - lo + 1] = lines[hi]
  BY <1>6, SubSeqProperties
<1> DEFINE sub == SubSeq(lines, lo, hi)
<1>8. /\ sub \in Seq(texts) /\ Len(sub) > 0
      /\ sub[1] # Blank /\ sub[Len(sub)] # Blank
  BY <1>6, <1>7
<1> HIDE DEF sub
<1>9. Strip(lines) = sub
  BY <1>5 DEF sub
<1> QED
  BY <1>8, <1>9 DEF StatementsOver

LEMMA ReaderType ==
  ASSUME NEW texts, NEW acc \in Reader(texts), NEW line, line.text \in texts
  PROVE  ReadLine(acc, line) \in Reader(texts)
<1> DEFINE lines == Append(acc.lines, line.text)
<1>1. lines \in Seq(texts) /\ acc.results \in Seq(StatementsOver(texts))
  BY DEF Reader
<1> HIDE DEF lines
<1>2. AddSql(lines, acc.results) \in Seq(StatementsOver(texts))
  BY <1>1, StripStatement DEF AddSql
<1>3. << >> \in Seq(texts)
  OBVIOUS
<1> QED
  BY <1>1, <1>2, <1>3 DEF ReadLine, Reader, lines

LEMMA ParsedStatements ==
  ASSUME NEW texts, NEW input, NEW n \in Nat, DOMAIN input = 1 .. n,
         \A i \in 1 .. n : input[i].text \in texts
  PROVE  Parse(input) \in Seq(StatementsOver(texts))
<1> DEFINE A == Reader(texts)
           base == [lines |-> << >>, results |-> << >>]
           step == [p \in A \X (1 .. n) |-> ReadLine(p[1], input[p[2]])]
           read == FoldLeft(ReadLine, base, input)
           Good(F) == F = [s \in SUBSET (1 .. n) |->
                             IF s = {} THEN base
                             ELSE ReadLine(F[s \ {Max(s)}], input[Max(s)])]
<1>1. base \in A
  BY DEF Reader
<1>2. \A a \in A, i \in 1 .. n : ReadLine(a, input[i]) \in A
  BY ReaderType
<1>3. step \in [A \X (1 .. n) -> A]
  BY <1>2
<1>4. read = (CHOOSE F : Good(F))[1 .. n]
  BY DEF FoldLeft, MapThenFoldSet
<1>5. \A a \in A, i \in 1 .. n : step[<<a, i>>] = ReadLine(a, input[i])
  OBVIOUS
<1> HIDE DEF base, step, A
<1>6. PICK F \in [SUBSET (1 .. n) -> A] : Folds(F, base, step, n)
  BY <1>1, <1>3, FoldExists
<1>7. Good(F)
  <2>1. ASSUME NEW s \in SUBSET (1 .. n), s # {}
        PROVE  step[<<F[s \ {Max(s)}], Max(s)>>]
                 = ReadLine(F[s \ {Max(s)}], input[Max(s)])
    <3>1. Max(s) \in s
      BY <2>1, MaxIn
    <3>2. F[s \ {Max(s)}] \in A /\ Max(s) \in 1 .. n
      BY <3>1
    <3> QED
      BY <1>5, <3>2
  <2> QED
    BY <1>6, <2>1 DEF Folds
<1> DEFINE G == CHOOSE F1 : Good(F1)
<1>8. Good(G)
  BY <1>7
<1>9. G[1 .. n] \in A
  <2> HIDE DEF G
  <2>1. \A s \in SUBSET (1 .. n) :
          G[s] = IF s = {} THEN base
                 ELSE ReadLine(G[s \ {Max(s)}], input[Max(s)])
    BY <1>8
  <2> DEFINE T == {k \in Nat : k <= n => G[1 .. k] \in A}
  <2> HIDE DEF Good
  <2>2. 0 \in T
    <3>1. 1 .. 0 = {} /\ {} \in SUBSET (1 .. n)
      OBVIOUS
    <3>2. G[{}] = base
      BY <2>1, <3>1
    <3> QED
      BY <1>1, <3>1, <3>2
  <2>3. ASSUME NEW k \in Nat, k \in T PROVE k + 1 \in T
    <3> SUFFICES ASSUME k + 1 <= n PROVE G[1 .. k + 1] \in A
      OBVIOUS
    <3>1. Max(1 .. k + 1) = k + 1 /\ (1 .. k + 1) \ {k + 1} = 1 .. k
      BY MaxTo
    <3> DEFINE all == 1 .. k + 1
    <3>2. all \in SUBSET (1 .. n) /\ all # {} /\ k + 1 \in 1 .. n /\ k <= n
      OBVIOUS
    <3>3. Max(all) = k + 1 /\ all \ {k + 1} = 1 .. k
      BY <3>1
    <3>4. G[1 .. k] \in A
      BY <2>3, <3>2
    <3> HIDE DEF all
    <3>5. G[all] = ReadLine(G[all \ {Max(all)}], input[Max(all)])
      BY <2>1, <3>2, Zenon
    <3>6. G[all] = ReadLine(G[1 .. k], input[k + 1])
      BY <3>3, <3>5, Zenon
    <3> QED
      BY <1>2, <3>2, <3>4, <3>6 DEF all
  <2> HIDE DEF T
  <2>4. n \in T
    BY <2>2, <2>3, Induction
  <2> QED
    BY <2>4 DEF T
<1>10. read \in A
  BY <1>4, <1>9
<1>11. Parse(input) = AddSql(read.lines, read.results)
  BY DEF Parse, base
<1> HIDE DEF read
<1>12. /\ read.lines \in Seq(texts) /\ read.results \in Seq(StatementsOver(texts))
  BY <1>10 DEF A, Reader
<1> QED
  BY <1>11, <1>12, StripStatement DEF AddSql

-----------------------------------------------------------------------------
(***************************************************************************)
(* Sums over sets of statements: in whatever order the library takes the   *)
(* elements, one more statement adds its rows.                             *)
(***************************************************************************)
Adds(F, f, n) ==
  /\ F \in [SUBSET (1 .. n) -> Nat]
  /\ F[{}] = 0
  /\ \A s \in SUBSET (1 .. n) : \A x \in (1 .. n) \ s :
       F[s \cup {x}] = F[s] + f[x]

\* One more index.
AddsMore(F, f, n) ==
  [s \in SUBSET (1 .. n + 1) |->
     IF n + 1 \in s THEN F[s \ {n + 1}] + f[n + 1] ELSE F[s]]

LEMMA AddsNext ==
  ASSUME NEW n \in Nat, NEW f, NEW F, Adds(F, f, n),
         \A i \in 1 .. n + 1 : f[i] \in Nat
  PROVE  Adds(AddsMore(F, f, n), f, n + 1)
<1> DEFINE G == AddsMore(F, f, n)
<1>1. /\ F \in [SUBSET (1 .. n) -> Nat] /\ F[{}] = 0
      /\ \A s \in SUBSET (1 .. n) : \A x \in (1 .. n) \ s :
           F[s \cup {x}] = F[s] + f[x]
  BY DEF Adds
<1>2. ASSUME NEW s \in SUBSET (1 .. n + 1)
      PROVE  /\ s \ {n + 1} \in SUBSET (1 .. n)
             /\ n + 1 \notin s => s \in SUBSET (1 .. n)
  OBVIOUS
<1>3. \A s \in SUBSET (1 .. n + 1) :
        G[s] = IF n + 1 \in s THEN F[s \ {n + 1}] + f[n + 1] ELSE F[s]
  BY DEF AddsMore
<1>4. G \in [SUBSET (1 .. n + 1) -> Nat]
  BY <1>1, <1>2 DEF AddsMore
<1> HIDE DEF G
<1>5. G[{}] = 0
  BY <1>1, <1>3
<1>6. ASSUME NEW s \in SUBSET (1 .. n + 1), NEW x \in (1 .. n + 1) \ s
      PROVE  G[s \cup {x}] = G[s] + f[x]
  <2>1. s \cup {x} \in SUBSET (1 .. n + 1)
    OBVIOUS
  <2>2. CASE x = n + 1
    <3>1. (s \cup {x}) \ {n + 1} = s /\ n + 1 \notin s
      BY <1>6, <2>2
    <3> QED
      BY <1>3, <2>1, <2>2, <3>1
  <2>3. CASE x # n + 1
    <3>1. x \in 1 .. n
      BY <2>3
    <3>2. CASE n + 1 \in s
      <4>1. (s \cup {x}) \ {n + 1} = (s \ {n + 1}) \cup {x}
        BY <2>3
      <4>2. s \ {n + 1} \in SUBSET (1 .. n) /\ x \notin s \ {n + 1}
        BY <1>2
      <4>3. F[(s \ {n + 1}) \cup {x}] = F[s \ {n + 1}] + f[x]
        BY <1>1, <3>1, <4>2
      <4>4. G[s \cup {x}] = F[(s \ {n + 1}) \cup {x}] + f[n + 1]
        BY <1>3, <2>1, <3>2, <4>1
      <4>5. G[s] = F[s \ {n + 1}] + f[n + 1]
        BY <1>3, <3>2
      <4>6. F[s \ {n + 1}] \in Nat /\ F[(s \ {n + 1}) \cup {x}] \in Nat
        <5>1. (s \ {n + 1}) \cup {x} \in SUBSET (1 .. n)
          BY <3>1, <4>2
        <5> QED
          BY <1>1, <4>2, <5>1
      <4>7. f[x] \in Nat /\ f[n + 1] \in Nat
        OBVIOUS
      <4> QED
        BY <4>3, <4>4, <4>5, <4>6, <4>7
    <3>3. CASE n + 1 \notin s
      <4>1. s \in SUBSET (1 .. n) /\ x \in (1 .. n) \ s
        BY <1>2, <3>1, <3>3
      <4>2. F[s \cup {x}] = F[s] + f[x]
        BY <1>1, <4>1
      <4>3. G[s] = F[s]
        BY <1>3, <3>3
      <4>4. n + 1 \notin s \cup {x}
        BY <2>3, <3>3
      <4>5. G[s \cup {x}] = F[s \cup {x}]
        BY <1>3, <2>1, <4>4
      <4> QED
        BY <4>2, <4>3, <4>5
    <3> QED
      BY <3>2, <3>3
  <2> QED
    BY <2>2, <2>3
<1> QED
  BY <1>4, <1>5, <1>6 DEF Adds, G

LEMMA SumExists ==
  ASSUME NEW n \in Nat, NEW f, \A i \in 1 .. n : f[i] \in Nat
  PROVE  \E F : Adds(F, f, n)
<1> DEFINE T == {k \in Nat : k <= n => \E F : Adds(F, f, k)}
<1>1. 0 \in T
  <2> DEFINE F == [s \in SUBSET (1 .. 0) |-> 0]
  <2>1. SUBSET (1 .. 0) = {{}}
    OBVIOUS
  <2>2. Adds(F, f, 0)
    BY <2>1 DEF Adds
  <2> QED
    BY <2>2
<1>2. ASSUME NEW k \in Nat, k \in T PROVE k + 1 \in T
  <2> SUFFICES ASSUME k + 1 <= n PROVE \E F : Adds(F, f, k + 1)
    OBVIOUS
  <2>1. PICK F : Adds(F, f, k)
    BY <1>2
  <2>2. \A i \in 1 .. k + 1 : f[i] \in Nat
    OBVIOUS
  <2> QED
    BY <2>1, <2>2, AddsNext
<1> HIDE DEF T
<1>3. n \in T
  BY <1>1, <1>2, Induction
<1> QED
  BY <1>3 DEF T

Sum(f, S) == MapThenSumSet(LAMBDA i : f[i], S)

\* What the library says of a sum over subsets of S.
SumsOver(F, f, S) ==
  F = [s \in SUBSET S |->
         IF s = {} THEN 0
         ELSE f[CHOOSE x \in s : TRUE] + F[s \ {CHOOSE x \in s : TRUE}]]

LEMMA SumUnfolds ==
  ASSUME NEW f, NEW S
  PROVE  Sum(f, S) = (CHOOSE F : SumsOver(F, f, S))[S]
BY DEF Sum, SumsOver, MapThenSumSet, MapThenFoldSet

LEMMA SumIs ==
  ASSUME NEW n \in Nat, NEW f, NEW F, Adds(F, f, n), NEW S \in SUBSET (1 .. n),
         \A i \in 1 .. n : f[i] \in Nat
  PROVE  Sum(f, S) = F[S]
<1> DEFINE H == [s \in SUBSET S |-> F[s]]
           G == CHOOSE G0 : SumsOver(G0, f, S)
           one(s) == CHOOSE x \in s : TRUE
<1>1. ASSUME NEW s \in SUBSET S, s # {}
      PROVE  /\ one(s) \in s /\ s \ {one(s)} \in SUBSET S
             /\ F[s] = f[one(s)] + F[s \ {one(s)}]
  <2>1. one(s) \in s
    BY <1>1
  <2> HIDE DEF one
  <2>2. /\ s \ {one(s)} \in SUBSET (1 .. n)
        /\ one(s) \in (1 .. n) \ (s \ {one(s)})
        /\ (s \ {one(s)}) \cup {one(s)} = s
    BY <2>1
  <2>3. F[s] = F[s \ {one(s)}] + f[one(s)]
    <3>1. F[(s \ {one(s)}) \cup {one(s)}] = F[s \ {one(s)}] + f[one(s)]
      BY <2>2 DEF Adds
    <3> QED
      BY <2>2, <3>1
  <2>4. F[s \ {one(s)}] \in Nat /\ f[one(s)] \in Nat
    BY <2>2 DEF Adds
  <2>5. \A a, b \in Nat : a + b = b + a
    OBVIOUS
  <2>6. F[s \ {one(s)}] + f[one(s)] = f[one(s)] + F[s \ {one(s)}]
    BY <2>4, <2>5, Zenon
  <2>7. s \ {one(s)} \in SUBSET S
    OBVIOUS
  <2> QED
    BY <2>1, <2>3, <2>6, <2>7, Zenon
<1>2. SumsOver(H, f, S)
  <2>1. F[{}] = 0
    BY DEF Adds
  <2>2. \A s \in SUBSET S :
          H[s] = IF s = {} THEN 0 ELSE f[one(s)] + H[s \ {one(s)}]
    BY <1>1, <2>1
  <2> QED
    BY <2>2 DEF SumsOver
<1>3. SumsOver(G, f, S)
  BY <1>2
<1>4. \A s \in SUBSET S : G[s] = IF s = {} THEN 0 ELSE f[one(s)] + G[s \ {one(s)}]
  <2> HIDE DEF G
  <2> QED
    BY <1>3 DEF SumsOver
<1> HIDE DEF G, H, one
<1> DEFINE T == {k \in Nat : \A s \in SUBSET S : Cardinality(s) = k => G[s] = F[s]}
<1>5. \A s \in SUBSET S : IsFiniteSet(s)
  <2>1. IsFiniteSet(1 .. n)
    BY FS_Interval
  <2> QED
    BY <2>1, FS_Subset
<1>6. 0 \in T
  <2>1. ASSUME NEW s \in SUBSET S, Cardinality(s) = 0 PROVE G[s] = F[s]
    <3>1. s = {}
      BY <1>5, <2>1, FS_EmptySet
    <3>2. F[{}] = 0
      BY DEF Adds
    <3> QED
      BY <1>4, <3>1, <3>2
  <2> QED
    BY <2>1
<1>7. ASSUME NEW k \in Nat, k \in T PROVE k + 1 \in T
  <2>1. ASSUME NEW s \in SUBSET S, Cardinality(s) = k + 1 PROVE G[s] = F[s]
    <3>1. s # {}
      BY <2>1, FS_EmptySet
    <3>2. one(s) \in s /\ s \ {one(s)} \in SUBSET S
      BY <1>1, <3>1
    <3>3. Cardinality(s \ {one(s)}) = k
      <4>1. IsFiniteSet(s)
        BY <1>5
      <4>2. Cardinality(s \ {one(s)}) = Cardinality(s) - 1
        BY <3>2, <4>1, FS_RemoveElement
      <4> QED
        BY <2>1, <4>2
    <3>4. G[s \ {one(s)}] = F[s \ {one(s)}]
      BY <1>7, <3>2, <3>3
    <3> QED
      BY <1>1, <1>4, <3>1, <3>4
  <2> QED
    BY <2>1
<1>8. Cardinality(S) \in T
  <2> HIDE DEF T
  <2>1. Nat \subseteq T
    BY <1>6, <1>7, Induction
  <2>2. Cardinality(S) \in Nat
    BY <1>5, FS_CardinalityType
  <2> QED
    BY <2>1, <2>2
<1>9. G[S] = F[S]
  BY <1>8
<1> QED
  BY <1>9, SumUnfolds DEF G

LEMMA SumOfNone ==
  ASSUME NEW f
  PROVE  Sum(f, {}) = 0
<1>1. \A i \in 1 .. 0 : f[i] \in Nat
  OBVIOUS
<1>2. PICK F : Adds(F, f, 0)
  BY <1>1, SumExists
<1>3. Sum(f, {}) = F[{}]
  BY <1>1, <1>2, SumIs
<1> QED
  BY <1>2, <1>3 DEF Adds

\* A statement that has updated n rows adds n, and each counts for no more
\* than the sum.
LEMMA SumGrows ==
  ASSUME NEW f \in Seq(Nat), NEW S \in SUBSET DOMAIN f, NEW n \in Nat
  PROVE  Sum(Append(f, n), S \cup {Len(f) + 1}) = Sum(f, S) + n
<1> DEFINE m == Len(f)
           g == Append(f, n)
<1>1. /\ m \in Nat /\ DOMAIN f = 1 .. m /\ g[m + 1] = n
      /\ \A i \in 1 .. m : f[i] \in Nat /\ g[i] = f[i]
      /\ \A i \in 1 .. m + 1 : g[i] \in Nat
  OBVIOUS
<1> HIDE DEF m, g
<1>2. PICK F : Adds(F, f, m)
  BY <1>1, SumExists
<1>3. Adds(F, g, m)
  <2>1. \A i \in 1 .. m : g[i] = f[i]
    BY <1>1
  <2> QED
    BY <1>2, <2>1 DEF Adds
<1>4. Sum(f, S) = F[S]
  BY <1>1, <1>2, SumIs
<1> DEFINE G == AddsMore(F, g, m)
<1>5. Adds(G, g, m + 1)
  BY <1>1, <1>3, AddsNext
<1>6. S \cup {m + 1} \in SUBSET (1 .. m + 1) /\ m + 1 \in Nat
      /\ (S \cup {m + 1}) \ {m + 1} = S
  BY <1>1
<1>7. G[S \cup {m + 1}] = F[S] + n
  BY <1>1, <1>6 DEF AddsMore
<1> HIDE DEF G
<1>8. Sum(g, S \cup {m + 1}) = G[S \cup {m + 1}]
  BY <1>1, <1>5, <1>6, SumIs
<1> QED
  BY <1>4, <1>7, <1>8 DEF m, g

LEMMA SumAppended ==
  ASSUME NEW f \in Seq(Nat), NEW S \in SUBSET DOMAIN f, NEW n \in Nat
  PROVE  Sum(Append(f, n), S) = Sum(f, S)
<1> DEFINE m == Len(f)
           g == Append(f, n)
<1>1. /\ m \in Nat /\ DOMAIN f = 1 .. m
      /\ \A i \in 1 .. m : f[i] \in Nat /\ g[i] = f[i]
      /\ \A i \in 1 .. m : g[i] \in Nat
  OBVIOUS
<1> HIDE DEF m, g
<1>2. PICK F : Adds(F, f, m)
  BY <1>1, SumExists
<1>3. Adds(F, g, m)
  <2>1. \A i \in 1 .. m : g[i] = f[i]
    BY <1>1
  <2> QED
    BY <1>2, <2>1 DEF Adds
<1>4. Sum(f, S) = F[S] /\ Sum(g, S) = F[S]
  BY <1>1, <1>2, <1>3, SumIs
<1> QED
  BY <1>4 DEF g

\* No term is more than the sum.
LEMMA SumBounds ==
  ASSUME NEW f \in Seq(Nat), NEW S \in SUBSET DOMAIN f
  PROVE  Sum(f, S) \in Nat /\ \A i \in S : f[i] <= Sum(f, S)
<1> DEFINE m == Len(f)
<1>1. m \in Nat /\ DOMAIN f = 1 .. m /\ \A i \in 1 .. m : f[i] \in Nat
  OBVIOUS
<1> HIDE DEF m
<1>2. PICK F : Adds(F, f, m)
  BY <1>1, SumExists
<1>3. Sum(f, S) = F[S] /\ F[S] \in Nat
  <2>1. F[S] \in Nat
    BY <1>1, <1>2 DEF Adds
  <2> QED
    BY <1>1, <1>2, <2>1, SumIs
<1>4. ASSUME NEW i \in S PROVE f[i] <= F[S]
  <2>1. S \ {i} \in SUBSET (1 .. m) /\ i \in (1 .. m) \ (S \ {i})
        /\ (S \ {i}) \cup {i} = S
    BY <1>1
  <2>2. F[(S \ {i}) \cup {i}] = F[S \ {i}] + f[i]
    BY <1>2, <2>1 DEF Adds
  <2>3. F[S \ {i}] \in Nat /\ f[i] \in Nat
    BY <1>1, <1>2, <2>1 DEF Adds
  <2>4. \A a, b \in Nat : b <= a + b
    OBVIOUS
  <2>5. f[i] <= F[S \ {i}] + f[i]
    BY <2>3, <2>4
  <2>6. F[S] = F[S \ {i}] + f[i]
    BY <2>1, <2>2, Zenon
  <2> QED
    BY <2>5, <2>6
<1> QED
  BY <1>3, <1>4

-----------------------------------------------------------------------------
(***************************************************************************)
(* The cursors of the connection: each is stored once, with one life-cycle,*)
(* and the current one is among them.                                      *)
(***************************************************************************)
PoolShape ==
  [cursors : SUBSET [cursor : Nat, keep : BOOLEAN],
   current : Nat, keepCurrent : BOOLEAN, counter : Nat]

PoolOK(p) ==
  /\ p \in PoolShape
  /\ \A cs \in p.cursors : cs.cursor \in 1 .. p.counter
  /\ \A cs, ct \in p.cursors : cs.cursor = ct.cursor => cs = ct
  /\ p.current # NoCursor => Storage(p.current, p.keepCurrent) \in p.cursors

LEMMA PoolOf ==
  ASSUME NEW cs \in SUBSET [cursor : Nat, keep : BOOLEAN], NEW c \in Nat,
         NEW k \in BOOLEAN, NEW n \in Nat
  PROVE  LET p == [cursors |-> cs, current |-> c, keepCurrent |-> k, counter |-> n]
         IN /\ p \in PoolShape /\ p.cursors = cs /\ p.current = c
            /\ p.keepCurrent = k /\ p.counter = n
BY DEF PoolShape

LEMMA SetCurrentIs ==
  ASSUME NEW p \in PoolShape, NEW c \in Nat
  PROVE  /\ SetCurrent(p, c) \in PoolShape /\ SetCurrent(p, c).cursors = p.cursors
         /\ SetCurrent(p, c).current = c /\ SetCurrent(p, c).keepCurrent = FALSE
         /\ SetCurrent(p, c).counter = p.counter
<1>1. p.cursors \in SUBSET [cursor : Nat, keep : BOOLEAN] /\ p.counter \in Nat
  BY DEF PoolShape
<1>2. FALSE \in BOOLEAN
  OBVIOUS
<1> QED
  BY <1>1, <1>2, PoolOf, Zenon DEF SetCurrent

LEMMA StorageIs ==
  ASSUME NEW p, PoolOK(p), NEW cs \in p.cursors
  PROVE  cs = Storage(cs.cursor, cs.keep)
BY DEF PoolOK, PoolShape, Storage

LEMMA NewCursorOK ==
  ASSUME NEW p, p \in PoolShape,
         \A cs \in p.cursors : cs.cursor \in 1 .. p.counter,
         \A cs, ct \in p.cursors : cs.cursor = ct.cursor => cs = ct,
         NEW keep \in BOOLEAN
  PROVE  /\ PoolOK(AddCursor(p, keep))
         /\ AddCursor(p, keep).counter = p.counter + 1
         /\ p.cursors \subseteq AddCursor(p, keep).cursors
         /\ HasCursor(AddCursor(p, keep), p.counter + 1)
<1> DEFINE q == AddCursor(p, keep)
           cs0 == Storage(p.counter + 1, keep)
<1>1. /\ q.cursors = p.cursors \cup {cs0} /\ q.current = p.counter + 1
      /\ q.keepCurrent = keep /\ q.counter = p.counter + 1
      /\ cs0 \in [cursor : Nat, keep : BOOLEAN] /\ cs0.cursor = p.counter + 1
  BY DEF AddCursor, Storage, PoolShape
<1>2. q \in PoolShape
  BY <1>1 DEF AddCursor, PoolShape
<1>3. Storage(q.current, q.keepCurrent) = cs0
  BY <1>1
<1> HIDE DEF q, cs0
<1>4. \A cs \in q.cursors : cs.cursor \in 1 .. q.counter
  BY <1>1 DEF PoolShape
<1>5. \A cs, ct \in q.cursors : cs.cursor = ct.cursor => cs = ct
  <2>1. \A cs \in p.cursors : cs.cursor # cs0.cursor
    BY <1>1 DEF PoolShape
  <2> QED
    BY <1>1, <2>1
<1>6. PoolOK(q) /\ HasCursor(q, p.counter + 1)
  BY <1>1, <1>2, <1>3, <1>4, <1>5 DEF PoolOK, PoolShape, HasCursor
<1> QED
  BY <1>1, <1>6 DEF q

\* A statement that is not given a cursor to keep: on the cursor it is given,
\* on the current one when that is plain, on the last plain one, or a new one.
LEMMA PlainStatement ==
  ASSUME NEW p, PoolOK(p), NEW c0 \in Nat
  PROVE  LET q == PoolFor(p, c0, TRUE, FALSE)
             c == CursorFor(p, c0, TRUE, FALSE)
         IN /\ PoolOK(q) /\ HasCursor(q, c)
            /\ q.counter \in p.counter .. p.counter + 1
            /\ p.cursors \subseteq q.cursors
            /\ c0 = NoCursor =>
                 \A k \in Nat : Storage(k, TRUE) \in p.cursors => c # k
<1> DEFINE r == Recall(p, FALSE)
           q == PoolFor(p, c0, TRUE, FALSE)
           c == CursorFor(p, c0, TRUE, FALSE)
           a == Candidate(r, c0, TRUE, FALSE)
<1>1. /\ PoolOK(r) /\ r.cursors = p.cursors /\ r.counter = p.counter
  <2>1. CASE p.current = NoCursor /\ LastStored(p, FALSE) # {}
    <3> DEFINE l == CHOOSE x \in LastStored(p, FALSE) : TRUE
    <3>1. l \in LastStored(p, FALSE)
      BY <2>1
    <3>2. PICK cs \in p.cursors : cs.keep = FALSE /\ l = cs.cursor
      BY <3>1 DEF LastStored
    <3>3. r = SetCurrent(p, l)
      BY <2>1 DEF Recall
    <3> HIDE DEF l
    <3>4. l \in Nat /\ p \in PoolShape
      BY <3>2 DEF PoolOK, PoolShape
    <3>5. /\ r \in PoolShape /\ r.cursors = p.cursors /\ r.current = l
          /\ r.keepCurrent = FALSE /\ r.counter = p.counter
      <4> HIDE DEF r
      <4> QED
        BY <3>3, <3>4, SetCurrentIs, Zenon
    <3>6. Storage(l, FALSE) \in p.cursors
      <4>1. cs = Storage(cs.cursor, cs.keep)
        BY StorageIs
      <4> QED
        BY <3>2, <4>1, Zenon
    <3>7. /\ \A ct \in r.cursors : ct.cursor \in 1 .. r.counter
          /\ \A ct, cu \in r.cursors : ct.cursor = cu.cursor => ct = cu
      BY <3>5 DEF PoolOK
    <3>8. Storage(r.current, r.keepCurrent) \in r.cursors
      BY <3>5, <3>6, Zenon
    <3> QED
      BY <3>5, <3>7, <3>8 DEF PoolOK
  <2>2. CASE ~ (p.current = NoCursor /\ LastStored(p, FALSE) # {})
    <3>1. r = p
      BY <2>2 DEF Recall
    <3> QED
      BY <3>1
  <2> QED
    BY <2>1, <2>2
<1>2. q = IF a = NoCursor THEN AddCursor(r, FALSE) ELSE r
  BY DEF PoolFor
<1>3. c = IF a = NoCursor THEN r.counter + 1 ELSE a
  BY <1>1 DEF CursorFor
<1>4. a # NoCursor => HasCursor(r, a)
  <2>1. CASE c0 # NoCursor
    BY <2>1 DEF Candidate
  <2>2. CASE c0 = NoCursor
    <3>1. a # NoCursor => a = r.current /\ r.keepCurrent = FALSE
      BY <2>2 DEF Candidate, PoolOK, PoolShape
    <3>2. a # NoCursor => Storage(a, FALSE) \in r.cursors
      BY <1>1, <3>1 DEF PoolOK, PoolShape
    <3> QED
      BY <3>2 DEF HasCursor, Storage
  <2> QED
    BY <2>1, <2>2
<1>5. ASSUME c0 = NoCursor, NEW k \in Nat, Storage(k, TRUE) \in p.cursors
      PROVE  c # k
  <2>1. CASE a = NoCursor
    <3>1. Storage(k, TRUE).cursor \in 1 .. p.counter
      BY <1>5 DEF PoolOK, PoolShape
    <3>2. k <= p.counter /\ p.counter \in Nat
      BY <3>1 DEF Storage, PoolOK, PoolShape
    <3>3. c = p.counter + 1
      BY <1>1, <1>3, <2>1
    <3> HIDE DEF c
    <3> QED
      BY <3>2, <3>3
  <2>2. CASE a # NoCursor
    <3>1. c = r.current /\ r.keepCurrent = FALSE /\ r.current # NoCursor
      BY <1>3, <1>5, <2>2 DEF Candidate, PoolOK, PoolShape
    <3>2. Storage(c, FALSE) \in p.cursors
      BY <1>1, <3>1 DEF PoolOK, PoolShape
    <3>3. Storage(c, FALSE).cursor = c /\ Storage(k, TRUE).cursor = k
          /\ Storage(c, FALSE) # Storage(k, TRUE)
      BY DEF Storage
    <3> QED
      BY <1>5, <3>2, <3>3 DEF PoolOK, PoolShape
  <2> QED
    BY <2>1, <2>2
<1> HIDE DEF a, r
<1>6. PoolOK(q) /\ HasCursor(q, c) /\ p.cursors \subseteq q.cursors
      /\ q.counter \in p.counter .. p.counter + 1
  <2>1. CASE a = NoCursor
    <3>1. PoolOK(AddCursor(r, FALSE))
          /\ AddCursor(r, FALSE).counter = r.counter + 1
          /\ r.cursors \subseteq AddCursor(r, FALSE).cursors
          /\ HasCursor(AddCursor(r, FALSE), r.counter + 1)
      BY <1>1, NewCursorOK DEF PoolOK, PoolShape
    <3>2. q = AddCursor(r, FALSE) /\ c = r.counter + 1
      BY <1>2, <1>3, <2>1
    <3> HIDE DEF q, c
    <3>3. p.counter \in Nat /\ r.counter = p.counter /\ r.cursors = p.cursors
      BY <1>1 DEF PoolOK, PoolShape
    <3>4. PoolOK(q) /\ HasCursor(q, c) /\ q.counter = p.counter + 1
      BY <3>1, <3>2, <3>3
    <3>5. p.cursors \subseteq q.cursors
      BY <3>1, <3>2, <3>3
    <3> QED
      BY <3>3, <3>4, <3>5
  <2>2. CASE a # NoCursor
    <3>1. q = r /\ c = a
      BY <1>2, <1>3, <2>2
    <3> HIDE DEF q, c
    <3> QED
      BY <1>1, <1>4, <2>2, <3>1 DEF PoolOK, PoolShape
  <2> QED
    BY <2>1, <2>2
<1> QED
  BY <1>5, <1>6

\* A new cursor that is kept.
LEMMA KeptStatement ==
  ASSUME NEW p, PoolOK(p)
  PROVE  LET q == PoolFor(p, NoCursor, FALSE, TRUE)
             c == CursorFor(p, NoCursor, FALSE, TRUE)
         IN /\ PoolOK(q) /\ HasCursor(q, c)
            /\ q.counter = p.counter + 1
            /\ p.cursors \subseteq q.cursors
<1> DEFINE r == Recall(p, TRUE)
<1>1. /\ r \in PoolShape
      /\ r.cursors = p.cursors /\ r.counter = p.counter
  <2>1. CASE p.current = NoCursor /\ LastStored(p, TRUE) # {}
    <3> DEFINE l == CHOOSE x \in LastStored(p, TRUE) : TRUE
    <3>1. l \in LastStored(p, TRUE)
      BY <2>1
    <3>2. l \in Nat
      BY <3>1 DEF LastStored, PoolOK, PoolShape
    <3>3. r = SetCurrent(p, l)
      BY <2>1 DEF Recall
    <3>4. p \in PoolShape
      BY DEF PoolOK
    <3> HIDE DEF l, r
    <3> QED
      BY <3>2, <3>3, <3>4, SetCurrentIs, Zenon
  <2>2. CASE ~ (p.current = NoCursor /\ LastStored(p, TRUE) # {})
    BY <2>2 DEF Recall, PoolOK, PoolShape
  <2> QED
    BY <2>1, <2>2
<1>2. Candidate(r, NoCursor, FALSE, TRUE) = NoCursor
  BY DEF Candidate
<1>3. /\ PoolFor(p, NoCursor, FALSE, TRUE) = AddCursor(r, TRUE)
      /\ CursorFor(p, NoCursor, FALSE, TRUE) = p.counter + 1
  BY <1>2 DEF PoolFor, CursorFor
<1> HIDE DEF r
<1>4. /\ PoolOK(AddCursor(r, TRUE))
      /\ AddCursor(r, TRUE).counter = r.counter + 1
      /\ r.cursors \subseteq AddCursor(r, TRUE).cursors
      /\ HasCursor(AddCursor(r, TRUE), r.counter + 1)
  BY <1>1, NewCursorOK DEF PoolOK, PoolShape
<1> QED
  BY <1>1, <1>3, <1>4

\* close(c), and the plain cursors closed at the end of a transaction.
LEMMA CloseOK ==
  ASSUME NEW p, PoolOK(p), NEW c
  PROVE  /\ PoolOK(CloseCursor(p, c, TRUE))
         /\ CloseCursor(p, c, TRUE).counter = p.counter
         /\ \A d : d # c /\ HasCursor(p, d) => HasCursor(CloseCursor(p, c, TRUE), d)
<1> DEFINE d == DropCurrent(p, {c})
           q == CloseCursor(p, c, TRUE)
<1>1. CASE ~HasCursor(p, c)
  BY <1>1 DEF CloseCursor
<1>2. CASE HasCursor(p, c)
  <2>1. /\ d \in PoolShape
        /\ d.cursors = p.cursors /\ d.counter = p.counter
        /\ d.current # NoCursor => /\ d.current = p.current /\ p.current # c
                                  /\ d.keepCurrent = p.keepCurrent
    <3>1. CASE p.current \in {c}
      BY <3>1 DEF DropCurrent, SetCurrent, PoolOK, PoolShape, NoCursor
    <3>2. CASE p.current \notin {c}
      BY <3>2 DEF DropCurrent, PoolOK, PoolShape
    <3> QED
      BY <3>1, <3>2
  <2>2. q = [d EXCEPT !.cursors = {cs \in d.cursors : cs.cursor # c}]
    BY <1>2 DEF CloseCursor, RemoveCursor
  <2> HIDE DEF d, q
  <2>3. /\ q \in PoolShape
        /\ q.cursors = {cs \in p.cursors : cs.cursor # c}
        /\ q.counter = p.counter /\ q.current = d.current
        /\ q.keepCurrent = d.keepCurrent
    BY <2>1, <2>2 DEF PoolShape
  <2>4. q.current # NoCursor => Storage(q.current, q.keepCurrent) \in q.cursors
    <3> SUFFICES ASSUME q.current # NoCursor
                 PROVE  Storage(q.current, q.keepCurrent) \in q.cursors
      OBVIOUS
    <3>1. Storage(p.current, p.keepCurrent) \in p.cursors /\ p.current # c
          /\ q.current = p.current /\ q.keepCurrent = p.keepCurrent
      BY <2>1, <2>3 DEF PoolOK, PoolShape
    <3>2. Storage(p.current, p.keepCurrent).cursor = p.current
      BY DEF Storage
    <3> QED
      BY <2>3, <3>1, <3>2
  <2>5. PoolOK(q)
    <3>1. \A cs \in q.cursors : cs.cursor \in 1 .. q.counter
      BY <2>3 DEF PoolOK, PoolShape
    <3>2. \A cs, ct \in q.cursors : cs.cursor = ct.cursor => cs = ct
      BY <2>3 DEF PoolOK, PoolShape
    <3> QED
      BY <2>3, <2>4, <3>1, <3>2 DEF PoolOK, PoolShape
  <2>6. \A e : e # c /\ HasCursor(p, e) => HasCursor(q, e)
    BY <2>3 DEF HasCursor
  <2> QED
    BY <2>3, <2>5, <2>6 DEF q
<1> QED
  BY <1>1, <1>2

LEMMA CloseAllOK ==
  ASSUME NEW p, PoolOK(p)
  PROVE  /\ PoolOK(CloseAllCursors(p, {}))
         /\ CloseAllCursors(p, {}).counter = p.counter
         /\ CloseAllCursors(p, {}).cursors = Kept(p)
         /\ \A c : HasCursor(p, c) /\ c \notin PlainCursors(p)
                    => HasCursor(CloseAllCursors(p, {}), c)
<1> DEFINE closed == PlainCursors(p) \ {}
           d == DropCurrent(p, closed)
           q == CloseAllCursors(p, {})
<1>1. /\ d \in PoolShape
      /\ d.cursors = p.cursors /\ d.counter = p.counter
      /\ d.current # NoCursor => /\ d.current = p.current
                                /\ p.current \notin PlainCursors(p)
                                /\ d.keepCurrent = p.keepCurrent
  <2> HIDE DEF closed
  <2>1. CASE p.current \in closed
    BY <2>1 DEF DropCurrent, SetCurrent, PoolOK, PoolShape, NoCursor
  <2>2. CASE p.current \notin closed
    <3>1. d = p
      BY <2>2 DEF DropCurrent
    <3>2. p.current \notin PlainCursors(p)
      BY <2>2 DEF closed
    <3> QED
      BY <3>1, <3>2 DEF PoolOK, PoolShape
  <2> QED
    BY <2>1, <2>2
<1>2. q = [d EXCEPT !.cursors = Kept(p)]
  BY DEF CloseAllCursors
<1> HIDE DEF d, q
<1>3. Kept(p) \in SUBSET [cursor : Nat, keep : BOOLEAN]
      /\ Kept(p) = {cs \in p.cursors : cs.keep}
  BY DEF Kept, PoolOK, PoolShape
<1>4. /\ q \in PoolShape
      /\ q.cursors = Kept(p) /\ q.counter = p.counter /\ q.current = d.current
      /\ q.keepCurrent = d.keepCurrent
  BY <1>1, <1>2, <1>3 DEF PoolShape
<1>5. q.current # NoCursor => Storage(q.current, q.keepCurrent) \in q.cursors
  <2> SUFFICES ASSUME q.current # NoCursor
               PROVE  Storage(q.current, q.keepCurrent) \in q.cursors
    OBVIOUS
  <2> DEFINE cs0 == Storage(p.current, p.keepCurrent)
  <2>1. cs0 \in p.cursors /\ p.current \notin PlainCursors(p)
        /\ Storage(q.current, q.keepCurrent) = cs0
    BY <1>1, <1>4 DEF PoolOK, PoolShape
  <2>2. cs0.cursor = p.current
    BY DEF Storage
  <2> HIDE DEF cs0
  <2>3. cs0.keep
    BY <2>1, <2>2 DEF PlainCursors
  <2> QED
    BY <1>3, <1>4, <2>1, <2>3
<1>6. PoolOK(q)
  <2>1. \A cs \in q.cursors : cs.cursor \in 1 .. q.counter
    BY <1>3, <1>4 DEF PoolOK, PoolShape
  <2>2. \A cs, ct \in q.cursors : cs.cursor = ct.cursor => cs = ct
    BY <1>3, <1>4 DEF PoolOK, PoolShape
  <2> QED
    BY <1>4, <1>5, <2>1, <2>2 DEF PoolOK, PoolShape
<1>7. \A c : HasCursor(p, c) /\ c \notin PlainCursors(p) => HasCursor(q, c)
  BY <1>3, <1>4 DEF HasCursor, PlainCursors
<1> QED
  BY <1>4, <1>6, <1>7 DEF q

-----------------------------------------------------------------------------
(***************************************************************************)
(* The results on the cursors: each is what the database gave for its      *)
(* statement, and its cursor is one of the connection.                     *)
(***************************************************************************)
ProbeResult == [labels |-> <<"probe">>, rows |-> 0]

Results ==
  Selects \cup {Update, ProbeResult}
    \cup {Meaning[t].result : t \in {u \in DOMAIN Meaning : Meaning[u].kind = "select"}}

Labels == {<< >>} \cup {result.labels : result \in Results}

HeldShape == [stmt : Nat, labels : Labels, next : Nat \ {0}, rows : Nat]

Holds(c, held, results, p) ==
  /\ held.stmt # 0 =>
       /\ held.stmt \in DOMAIN results /\ HasCursor(p, c)
       /\ held.labels = results[held.stmt].labels
       /\ held.rows = results[held.stmt].rows
  /\ held.stmt = 0 => held.rows = 0

DataInv ==
  /\ PoolOK(pool)
  /\ shown \in Seq(Results)
  /\ rs \in [Cursors -> HeldShape]
  /\ \A c \in Cursors : Holds(c, rs[c], shown, pool)

LEMMA NoResultHeld == NoResult \in HeldShape /\ NoResult.stmt = 0 /\ NoResult.rows = 0
<1>1. << >> \in Labels
  BY DEF Labels
<1> HIDE DEF Labels
<1> QED
  BY <1>1 DEF NoResult, HeldShape

LEMMA ResultRows ==
  ASSUME NEW result \in Results
  PROVE  result.rows \in Nat /\ result.labels \in Labels
<1>1. result.labels \in Labels
  BY DEF Labels
<1>2. CASE result \in Selects
  <2>1. result.rows \in Sizes /\ Sizes \subseteq Nat
    BY <1>2, ExportAssumption DEF Selects
  <2> QED
    BY <1>1, <2>1
<1>3. CASE result \in {Update, ProbeResult}
  <2>1. result.rows = 0
    BY <1>3 DEF Update, ProbeResult
  <2> QED
    BY <1>1, <2>1
<1>4. CASE result \notin Selects \cup {Update, ProbeResult}
  <2>1. PICK t \in DOMAIN Meaning : /\ Meaning[t].kind = "select"
                                   /\ result = Meaning[t].result
    BY <1>4 DEF Results
  <2> DEFINE m == Meaning[t]
  <2>2. m \in Meanings /\ m.kind = "select"
    BY <2>1, InputsAssumption
  <2> HIDE DEF m
  <2>3. m \notin [kind : {"update"}, rows : Nat] /\ m # Fails
    BY <2>2 DEF Fails
  <2>4. m \in [kind : {"select"}, result : [labels : Seq(STRING), rows : Nat]]
    BY <2>2, <2>3 DEF Meanings
  <2>5. m.result.rows \in Nat
    BY <2>4
  <2> QED
    BY <1>1, <2>1, <2>5 DEF m
<1> QED
  BY <1>1, <1>2, <1>3, <1>4

\* A statement is run on a cursor of the connection.
LEMMA RunKeepsData ==
  ASSUME DataInv, NEW p, PoolOK(p), pool.cursors \subseteq p.cursors,
         NEW c \in Cursors, HasCursor(p, c),
         NEW result \in Results, RunOn(p, c, result)
  PROVE  DataInv' /\ Len(shown') = Len(shown) + 1
<1> DEFINE held == [stmt |-> Len(shown) + 1, labels |-> result.labels, next |-> 1,
                    rows |-> result.rows]
<1>1. /\ pool' = p /\ rs' = [rs EXCEPT ![c] = held]
      /\ shown' = Append(shown, result)
  BY DEF RunOn
<1>2. /\ shown \in Seq(Results) /\ Len(shown) \in Nat
      /\ shown' \in Seq(Results) /\ Len(shown') = Len(shown) + 1
      /\ \A i \in DOMAIN shown : i \in DOMAIN shown' /\ shown'[i] = shown[i]
      /\ Len(shown) + 1 \in DOMAIN shown'
      /\ shown'[Len(shown) + 1] = result
  BY <1>1 DEF DataInv
<1>3. /\ held \in HeldShape /\ held.stmt = Len(shown) + 1
      /\ held.labels = result.labels /\ held.rows = result.rows
  BY <1>2, ResultRows DEF HeldShape
<1> HIDE DEF held
<1>4. rs' \in [Cursors -> HeldShape]
  BY <1>1, <1>3 DEF DataInv
<1>5. ASSUME NEW d \in Cursors PROVE Holds(d, rs'[d], shown', pool')
  <2>1. CASE d = c
    <3>1. rs'[d] = held
      BY <1>1, <2>1 DEF DataInv
    <3> QED
      BY <1>1, <1>2, <1>3, <2>1, <3>1 DEF Holds
  <2>2. CASE d # c
    <3>1. rs'[d] = rs[d]
      BY <1>1, <2>2 DEF DataInv
    <3>2. HasCursor(pool, d) => HasCursor(pool', d)
      BY <1>1 DEF HasCursor
    <3>3. Holds(d, rs[d], shown, pool)
      BY DEF DataInv
    <3> QED
      BY <1>2, <3>1, <3>2, <3>3 DEF Holds
  <2> QED
    BY <2>1, <2>2
<1> QED
  BY <1>1, <1>2, <1>4, <1>5 DEF DataInv

\* Cursors are closed.
LEMMA CloseKeepsData ==
  ASSUME DataInv, NEW cs, PoolOK(pool'), rs' = Without(cs), shown' = shown,
         \A c : HasCursor(pool, c) /\ c \notin cs => HasCursor(pool', c)
  PROVE  DataInv'
<1>1. rs' \in [Cursors -> HeldShape]
  BY NoResultHeld DEF Without, DataInv
<1>2. ASSUME NEW c \in Cursors PROVE Holds(c, rs'[c], shown', pool')
  <2>1. rs'[c] = IF c \in cs THEN NoResult ELSE rs[c]
    BY DEF Without
  <2>2. Holds(c, rs[c], shown, pool)
    BY DEF DataInv
  <2> QED
    BY <2>1, <2>2, NoResultHeld DEF Holds
<1> QED
  BY <1>1, <1>2 DEF DataInv

LEMMA CloseItKeepsData ==
  ASSUME DataInv, NEW c, CloseIt(c), shown' = shown
  PROVE  DataInv' /\ pool'.counter = pool.counter
<1> DEFINE cs == IF HasCursor(pool, c) THEN {c} ELSE {}
<1>1. pool' = CloseCursor(pool, c, TRUE) /\ rs' = Without(cs) /\ PoolOK(pool)
  BY DEF CloseIt, DataInv
<1>2. /\ PoolOK(pool') /\ pool'.counter = pool.counter
      /\ \A d : d # c /\ HasCursor(pool, d) => HasCursor(pool', d)
  BY <1>1, CloseOK
<1>3. \A d : HasCursor(pool, d) /\ d \notin cs => HasCursor(pool', d)
  <2>1. CASE HasCursor(pool, c)
    BY <1>2, <2>1
  <2>2. CASE ~HasCursor(pool, c)
    BY <1>2, <2>2
  <2> QED
    BY <2>1, <2>2
<1> HIDE DEF cs
<1> QED
  BY <1>1, <1>2, <1>3, CloseKeepsData

LEMMA CloseCursorsKeepsData ==
  ASSUME DataInv, CloseCursors, shown' = shown
  PROVE  DataInv' /\ pool'.counter = pool.counter
<1>1. /\ pool' = CloseAllCursors(pool, {}) /\ rs' = Without(PlainCursors(pool))
      /\ PoolOK(pool)
  BY DEF CloseCursors, DataInv
<1>2. /\ PoolOK(pool') /\ pool'.counter = pool.counter
      /\ \A c : HasCursor(pool, c) /\ c \notin PlainCursors(pool)
                 => HasCursor(pool', c)
  BY <1>1, CloseAllOK
<1> QED
  BY <1>1, <1>2, CloseKeepsData

LEMMA WriteKeepsData ==
  ASSUME DataInv, WriteRow, cursor \in Cursors, UNCHANGED <<pool, shown>>
  PROVE  DataInv'
<1>1. rs' = [rs EXCEPT ![cursor].next = @ + 1]
  BY DEF WriteRow
<1>2. rs \in [Cursors -> HeldShape] /\ rs[cursor] \in HeldShape
  BY DEF DataInv
<1> DEFINE held == [rs[cursor] EXCEPT !.next = @ + 1]
<1>3. /\ held \in HeldShape /\ held.stmt = rs[cursor].stmt
      /\ held.labels = rs[cursor].labels /\ held.rows = rs[cursor].rows
  <2> DEFINE r == rs[cursor]
             n == r.next + 1
  <2>1. r \in HeldShape /\ n \in Nat \ {0} /\ held = [r EXCEPT !.next = n]
    BY <1>2 DEF HeldShape
  <2> HIDE DEF r, n, held
  <2> QED
    BY <2>1 DEF HeldShape, r
<1>4. rs' = [rs EXCEPT ![cursor] = held]
  BY <1>1
<1> HIDE DEF held
<1>5. rs' \in [Cursors -> HeldShape]
  BY <1>2, <1>3, <1>4
<1>6. ASSUME NEW c \in Cursors PROVE Holds(c, rs'[c], shown', pool')
  <2>1. Holds(c, rs[c], shown, pool)
    BY DEF DataInv
  <2>2. rs'[c] = IF c = cursor THEN held ELSE rs[c]
    BY <1>2, <1>4
  <2> QED
    BY <1>3, <2>1, <2>2 DEF Holds
<1> QED
  BY <1>5, <1>6 DEF DataInv

-----------------------------------------------------------------------------
(***************************************************************************)
(* The shape of the state, of the program and of the client.               *)
(***************************************************************************)
ProgramPhases ==
  {"parse", "commit", "settle", "output", "print", "done", "crashed"}
ClientPhases ==
  {"idle", "asked", "called", "open", "rows", "written", "sheet", "failed"}

StatementTexts == STRING

ShapeInv ==
  /\ DataInv /\ TypeOK
  /\ sqls \in Seq(StatementsOver(StatementTexts))
  /\ args.program = "client" =>
       /\ phase \in ClientPhases
       /\ pool.counter <= Len(shown) /\ Len(shown) <= MaxAsked
       /\ phase # "idle" => cursor \in Cursors
       /\ rows = << >> /\ pending = {}
  /\ args.program = "sql-query" =>
       /\ phase \in ProgramPhases
       /\ Len(rows) = Len(shown)
       /\ phase \in {"output", "print"} => collected # << >>
       /\ phase = "print" => sheet > 0 /\ cursor = collected[sheet]

\* What the database makes of a statement of the input.
LEMMA MeaningShape ==
  ASSUME NEW sql
  PROVE  MeaningOf(sql) \in Meanings
BY InputsAssumption DEF MeaningOf, Meanings

LEMMA SelectMeaning ==
  ASSUME NEW sql, MeaningOf(sql).kind = "select"
  PROVE  MeaningOf(sql).result \in Results
<1>1. sql \in DOMAIN Meaning /\ MeaningOf(sql) = Meaning[sql]
  BY DEF MeaningOf, Fails
<1> QED
  BY <1>1 DEF Results

LEMMA UpdateMeaning ==
  ASSUME NEW m \in Meanings, m.kind = "update"
  PROVE  m.rows \in Nat
<1>1. m \notin [kind : {"select"}, result : [labels : Seq(STRING), rows : Nat]]
      /\ m # Fails
  BY DEF Fails
<1>2. m \in [kind : {"update"}, rows : Nat]
  BY <1>1 DEF Meanings
<1> QED
  BY <1>2

LEMMA InputShape ==
  ASSUME NEW input \in Inputs
  PROVE  Parse(input) \in Seq(StatementsOver(StatementTexts))
<1> DEFINE Line == [text : StatementTexts, ends : BOOLEAN]
<1>1. input \in Seq(Line)
  BY InputsAssumption DEF StatementTexts
<1>2. \A line \in Line : line.text \in StatementTexts
  OBVIOUS
<1> HIDE DEF Line
<1>3. Len(input) \in Nat /\ DOMAIN input = 1 .. Len(input)
      /\ \A i \in 1 .. Len(input) : input[i] \in Line
  BY <1>1
<1>4. \A i \in 1 .. Len(input) : input[i].text \in StatementTexts
  BY <1>2, <1>3
<1> QED
  BY <1>3, <1>4, ParsedStatements

LEMMA CursorStored ==
  ASSUME NEW p, PoolOK(p), NEW c, HasCursor(p, c)
  PROVE  c \in 1 .. p.counter /\ p.counter \in Nat
<1>1. PICK cs \in p.cursors : cs.cursor = c
  BY DEF HasCursor
<1> QED
  BY <1>1 DEF PoolOK, PoolShape

LEMMA EmptyPoolOK == PoolOK(EmptyPool)
<1>1. FALSE \in BOOLEAN /\ {} \in SUBSET [cursor : Nat, keep : BOOLEAN]
      /\ 0 \in Nat
  OBVIOUS
<1>2. /\ EmptyPool \in PoolShape /\ EmptyPool.cursors = {}
      /\ EmptyPool.current = NoCursor
  BY <1>1, PoolOf, Zenon DEF EmptyPool, NoCursor
<1> HIDE DEF PoolShape
<1> QED
  BY <1>2 DEF PoolOK

LEMMA SelectsAreResults == Selects \subseteq Results /\ Update \in Results
BY DEF Results

LEMMA NothingHeld ==
  ASSUME PoolOK(pool), rs = [c \in Cursors |-> NoResult], shown = << >>
  PROVE  DataInv
<1>1. rs \in [Cursors -> HeldShape] /\ \A c \in Cursors : rs[c] = NoResult
  BY NoResultHeld
<1>2. \A c \in Cursors : Holds(c, rs[c], shown, pool)
  BY <1>1, NoResultHeld DEF Holds
<1>3. << >> \in Seq(Results)
  OBVIOUS
<1> QED
  BY <1>1, <1>2, <1>3 DEF DataInv

LEMMA ProbeHeld ==
  ASSUME Probed
  PROVE  DataInv /\ Len(shown) = 1
<1> DEFINE empty == [stmt |-> 1, labels |-> <<"probe">>, next |-> 1, rows |-> 0]
           result == ProbeResult
<1>1. /\ pool = AddCursor(EmptyPool, TRUE)
      /\ rs = [c \in Cursors |-> IF c = 1 THEN empty ELSE NoResult]
      /\ shown = <<result>>
  BY DEF Probed, ProbeResult
<1>2. result \in Results /\ result.labels = <<"probe">> /\ result.rows = 0
  BY DEF Results, ProbeResult
<1>3. /\ empty \in HeldShape /\ empty.stmt = 1 /\ empty.rows = 0
      /\ empty.labels = <<"probe">>
  <2>1. <<"probe">> \in Labels
    BY <1>2, ResultRows
  <2> QED
    BY <2>1 DEF HeldShape
<1> HIDE DEF empty, result
<1>4. PoolOK(pool) /\ HasCursor(pool, 1)
  <2>1. EmptyPool.cursors = {} /\ EmptyPool.counter = 0 /\ EmptyPool.counter + 1 = 1
    BY DEF EmptyPool
  <2>2. TRUE \in BOOLEAN
    OBVIOUS
  <2>3. PoolOK(AddCursor(EmptyPool, TRUE))
        /\ HasCursor(AddCursor(EmptyPool, TRUE), EmptyPool.counter + 1)
    BY <2>1, <2>2, EmptyPoolOK, NewCursorOK DEF PoolOK
  <2> QED
    BY <1>1, <2>1, <2>3
<1>5. shown \in Seq(Results) /\ Len(shown) = 1 /\ 1 \in DOMAIN shown
      /\ shown[1] = result
  BY <1>1, <1>2
<1>6. rs \in [Cursors -> HeldShape]
  BY <1>1, <1>3, NoResultHeld
<1>7. ASSUME NEW c \in Cursors PROVE Holds(c, rs[c], shown, pool)
  <2>1. CASE c = 1
    <3>1. rs[c] = empty
      BY <1>1, <2>1
    <3> QED
      BY <1>2, <1>3, <1>4, <1>5, <2>1, <3>1 DEF Holds
  <2>2. CASE c # 1
    <3>1. rs[c] = NoResult
      BY <1>1, <2>2
    <3> QED
      BY <3>1, NoResultHeld DEF Holds
  <2> QED
    BY <2>1, <2>2
<1> QED
  BY <1>4, <1>5, <1>6, <1>7 DEF DataInv

LEMMA ShapeInit == Init => ShapeInv
<1> SUFFICES ASSUME Init PROVE ShapeInv
  OBVIOUS
<1>1. /\ args \in [program : Programs, activate : BOOLEAN, maxRows : Limits]
      /\ args.program \in {"sql-query", "client"}
  BY SqlQueryAssumption DEF Init
<1>2. /\ collected = << >> /\ last = NoCursor /\ rowCount = 0 /\ saved = {}
      /\ pending = {} /\ sheet = 0 /\ written = 0 /\ faults = 0
  BY DEF Init
<1>3. << >> \in Seq(Cursors) /\ Len(<< >>) = 0
  OBVIOUS
<1>4. MaxFaults \in Nat
  BY SqlQueryAssumption
<1>5. ASSUME rows \in Seq(Nat), cursor = NoCursor PROVE TypeOK
  BY <1>1, <1>2, <1>3, <1>4, <1>5 DEF TypeOK, Executed
<1>6. CASE args.program = "client"
  <2>1. ExportInit /\ sqls = << >> /\ rows = << >>
    BY <1>6 DEF Init
  <2>2. /\ pool = EmptyPool /\ rs = [c \in Cursors |-> NoResult] /\ shown = << >>
        /\ phase = "idle" /\ cursor = NoCursor
    BY <2>1 DEF ExportInit
  <2>3. DataInv
    BY <2>2, EmptyPoolOK, NothingHeld
  <2>4. EmptyPool.counter = 0 /\ MaxAsked \in Nat
    BY ExportAssumption DEF EmptyPool
  <2>5. rows \in Seq(Nat) /\ sqls \in Seq(StatementsOver(StatementTexts))
        /\ Len(shown) = 0
    BY <2>1, <2>2
  <2> QED
    BY <1>2, <1>5, <1>6, <2>1, <2>2, <2>3, <2>4, <2>5 DEF ShapeInv, ClientPhases
<1>7. CASE args.program = "sql-query"
  <2>1. /\ phase = "parse" /\ cursor = NoCursor
        /\ \E input \in Inputs : sqls = Parse(input)
        /\ \/ NotProbed /\ rows = << >>
           \/ Probed /\ rows = <<0>>
    <3>1. args.program # "client"
      BY <1>7
    <3> QED
      BY <3>1, Zenon DEF Init
  <2>2. sqls \in Seq(StatementsOver(StatementTexts))
    BY <2>1, InputShape
  <2>3. DataInv /\ rows \in Seq(Nat) /\ Len(rows) = Len(shown)
    <3>1. CASE NotProbed /\ rows = << >>
      <4>1. DataInv /\ shown = << >>
        BY <3>1, EmptyPoolOK, NothingHeld DEF NotProbed
      <4> QED
        BY <3>1, <4>1
    <3>2. CASE Probed /\ rows = <<0>>
      BY <3>2, ProbeHeld
    <3> QED
      BY <2>1, <3>1, <3>2
  <2> QED
    BY <1>2, <1>5, <1>7, <2>1, <2>2, <2>3 DEF ShapeInv, ProgramPhases
<1> QED
  BY <1>1, <1>6, <1>7

\* The shape in terms that the steps below cite.
LEMMA ShapeFacts ==
  ASSUME ShapeInv
  PROVE  /\ MaxStmts \in Nat /\ MaxAsked \in Nat /\ MaxAsked <= MaxStmts
         /\ MaxFaults \in Nat /\ CommitNr \in Nat /\ MaxQueries \in Nat
         /\ Cursors = 1 .. MaxStmts
         /\ args.program \in {"sql-query", "client"} /\ args.activate \in BOOLEAN
         /\ args.maxRows \in Nat
         /\ Len(shown) \in Nat /\ Len(rows) \in Nat /\ Executed = 1 .. Len(rows)
         /\ Len(collected) \in Nat /\ sheet \in Nat /\ sheet <= Len(collected)
         /\ last \in Nat
<1>1. /\ MaxStmts \in Nat /\ MaxAsked \in Nat /\ MaxAsked <= MaxStmts
      /\ MaxFaults \in Nat /\ CommitNr \in Nat /\ MaxQueries \in Nat
      /\ Cursors = 1 .. MaxStmts
  BY ExportAssumption, SqlQueryAssumption DEF Cursors
<1>2. /\ args.program \in {"sql-query", "client"} /\ args.activate \in BOOLEAN
      /\ args.maxRows \in Nat
  BY SqlQueryAssumption DEF ShapeInv, TypeOK
<1>3. shown \in Seq(Results) /\ rows \in Seq(Nat) /\ collected \in Seq(Cursors)
      /\ sheet \in 0 .. Len(collected)
  BY DEF ShapeInv, DataInv, TypeOK
<1>4. last \in Nat
  BY <1>1 DEF ShapeInv, TypeOK, NoCursor
<1> QED
  BY <1>1, <1>2, <1>3, <1>4 DEF Executed

LEMMA HeadMeaning ==
  ASSUME ShapeInv, sqls # << >>
  PROVE  /\ Head(sqls) \in StatementsOver(StatementTexts)
         /\ Tail(sqls) \in Seq(StatementsOver(StatementTexts))
<1>1. sqls \in Seq(StatementsOver(StatementTexts))
  BY DEF ShapeInv
<1> QED
  BY <1>1

LEMMA TargetOK ==
  ASSUME ShapeInv
  PROVE  /\ PoolOK(PoolOfTarget) /\ HasCursor(PoolOfTarget, Target)
         /\ pool.cursors \subseteq PoolOfTarget.cursors
<1>1. PoolOK(pool) /\ last \in Nat
  BY ShapeFacts DEF ShapeInv, DataInv
<1> QED
  BY <1>1, PlainStatement DEF PoolOfTarget, Target

LEMMA ShapeReadSelect ==
  ASSUME ShapeInv, args.program = "sql-query", ReadSelect
  PROVE  ShapeInv'
<1>1. /\ phase = "parse" /\ sqls # << >> /\ Target \in Cursors
      /\ MeaningOf(Head(sqls)).kind = "select"
      /\ RunOn(PoolOfTarget, Target, MeaningOf(Head(sqls)).result)
      /\ collected' = Append(collected, Target) /\ last' = NoCursor
      /\ rows' = Append(rows, 0) /\ sqls' = Tail(sqls)
      /\ UNCHANGED <<phase, fmt, cursor, given, args, rowCount, saved, pending,
                     sheet, written, faults>>
  BY DEF ReadSelect, Reading
<1>2. MeaningOf(Head(sqls)).result \in Results
  BY <1>1, HeadMeaning, SelectMeaning
<1>3. DataInv' /\ Len(shown') = Len(shown) + 1
  BY <1>1, <1>2, TargetOK, RunKeepsData DEF ShapeInv
<1>4. /\ rows \in Seq(Nat) /\ rows' \in Seq(Nat) /\ Len(rows') = Len(rows) + 1
      /\ Executed \subseteq Executed'
  <2>1. rows \in Seq(Nat)
    BY DEF ShapeInv, TypeOK
  <2> QED
    BY <1>1, <2>1 DEF Executed
<1>5. /\ collected' \in Seq(Cursors) /\ Len(collected') = Len(collected) + 1
      /\ sheet \in 0 .. Len(collected')
  <2>1. collected \in Seq(Cursors) /\ sheet \in 0 .. Len(collected)
    BY DEF ShapeInv, TypeOK
  <2> QED
    BY <1>1, <2>1
<1>6. TypeOK'
  BY <1>1, <1>4, <1>5 DEF ShapeInv, TypeOK
<1>7. sqls' \in Seq(StatementsOver(StatementTexts))
  BY <1>1, HeadMeaning
<1>8. phase' \in ProgramPhases /\ Len(rows') = Len(shown')
  BY <1>1, <1>3, <1>4 DEF ShapeInv
<1> QED
  BY <1>1, <1>3, <1>6, <1>7, <1>8 DEF ShapeInv

LEMMA ShapeReadUpdate ==
  ASSUME ShapeInv, args.program = "sql-query", ReadUpdate
  PROVE  ShapeInv'
<1> DEFINE n == MeaningOf(Head(sqls)).rows
<1>1. /\ phase = "parse" /\ sqls # << >> /\ Target \in Cursors
      /\ MeaningOf(Head(sqls)).kind = "update"
      /\ RunOn(PoolOfTarget, Target, Update)
      /\ last' = Target /\ rowCount' = rowCount + n
      /\ rows' = Append(rows, n) /\ sqls' = Tail(sqls)
      /\ pending' = pending \cup {Len(rows) + 1}
      /\ phase' \in {"commit", "parse"}
      /\ UNCHANGED <<fmt, cursor, given, args, collected, saved, sheet, written,
                     faults>>
  BY DEF ReadUpdate, Reading
<1>2. n \in Nat
  BY <1>1, HeadMeaning, MeaningShape, UpdateMeaning
<1> HIDE DEF n
<1>3. DataInv' /\ Len(shown') = Len(shown) + 1
  BY <1>1, TargetOK, RunKeepsData, SelectsAreResults DEF ShapeInv
<1>4. /\ rows \in Seq(Nat) /\ rows' \in Seq(Nat) /\ Len(rows') = Len(rows) + 1
      /\ Executed \subseteq Executed' /\ Len(rows) + 1 \in Executed'
  <2>1. rows \in Seq(Nat)
    BY DEF ShapeInv, TypeOK
  <2> QED
    BY <1>1, <1>2, <2>1 DEF Executed
<1>5. rowCount \in Nat /\ rowCount' \in Nat
  BY <1>1, <1>2 DEF ShapeInv, TypeOK
<1>6. TypeOK'
  BY <1>1, <1>4, <1>5 DEF ShapeInv, TypeOK
<1>7. sqls' \in Seq(StatementsOver(StatementTexts))
  BY <1>1, HeadMeaning
<1>8. phase' \in ProgramPhases /\ Len(rows') = Len(shown')
  BY <1>1, <1>3, <1>4 DEF ShapeInv, ProgramPhases
<1> QED
  BY <1>1, <1>3, <1>6, <1>7, <1>8 DEF ShapeInv

LEMMA ShapeReadFails ==
  ASSUME ShapeInv, args.program = "sql-query", ReadFails
  PROVE  ShapeInv'
<1>1. /\ Target \in Cursors /\ pool' = CloseCursor(PoolOfTarget, Target, TRUE)
      /\ rs' = Without({Target}) /\ phase' = "settle"
      /\ UNCHANGED <<shown, fmt, cursor, given, args, sqls, collected, last,
                     rowCount, saved, pending, rows, sheet, written, faults>>
  BY DEF ReadFails, Reading
<1>2. DataInv'
  <2>1. /\ PoolOK(pool')
        /\ \A d : d # Target /\ HasCursor(PoolOfTarget, d) => HasCursor(pool', d)
    BY <1>1, TargetOK, CloseOK
  <2>2. \A d : HasCursor(pool, d) => HasCursor(PoolOfTarget, d)
    BY TargetOK DEF HasCursor
  <2> QED
    BY <1>1, <2>1, <2>2, CloseKeepsData DEF ShapeInv
<1>3. TypeOK'
  BY <1>1 DEF ShapeInv, TypeOK, Executed
<1> QED
  BY <1>1, <1>2, <1>3 DEF ShapeInv, ProgramPhases

\* The steps that end a transaction.
LEMMA ShapeSettled ==
  ASSUME ShapeInv, args.program = "sql-query",
         CloseCursors \/ UNCHANGED <<pool, rs>>,
         Settle \/ UNCHANGED <<saved, pending>>,
         phase' \in {"parse", "done", "output", "crashed"},
         phase' = "output" => collected # << >>,
         last' \in {last, NoCursor}, rowCount' \in {rowCount, 0},
         faults' \in 0 .. MaxFaults,
         UNCHANGED <<shown, fmt, cursor, given, args, sqls, collected, rows, sheet,
                     written>>
  PROVE  ShapeInv'
<1>1. DataInv'
  <2>1. CASE CloseCursors
    BY <2>1, CloseCursorsKeepsData DEF ShapeInv
  <2>2. CASE UNCHANGED <<pool, rs>>
    BY <2>2 DEF ShapeInv, DataInv
  <2> QED
    BY <2>1, <2>2
<1>2. saved' \subseteq Executed /\ pending' \subseteq Executed
  BY DEF Settle, ShapeInv, TypeOK
<1>3. TypeOK'
  BY <1>2 DEF ShapeInv, TypeOK, Executed
<1> QED
  BY <1>1, <1>3 DEF ShapeInv, ProgramPhases

\* The steps of the program that leave connection and input alone.
LEMMA ShapeFrame ==
  ASSUME ShapeInv, args.program = "sql-query",
         UNCHANGED <<pool, rs, shown, args, sqls, collected, last, rowCount, saved,
                     pending, rows>>,
         faults' \in 0 .. MaxFaults,
         \/ phase' \in {"settle", "done", "crashed"} /\ UNCHANGED <<cursor, sheet, written>>
         \/ phase = "print" /\ phase' = "output" /\ UNCHANGED <<cursor, sheet, written>>
         \/ /\ phase = "output" /\ phase' = "print" /\ sheet < Len(collected)
            /\ cursor' = NextCursor /\ sheet' = sheet + 1 /\ written' = 0
  PROVE  ShapeInv'
<1>1. DataInv'
  BY DEF ShapeInv, DataInv
<1>2. CASE /\ \/ phase' \in {"settle", "done", "crashed"}
              \/ phase = "print" /\ phase' = "output"
           /\ UNCHANGED <<cursor, sheet, written>>
  <2>1. TypeOK'
    BY <1>2 DEF ShapeInv, TypeOK, Executed
  <2> QED
    BY <1>1, <1>2, <2>1 DEF ShapeInv, ProgramPhases
<1>3. CASE /\ phase = "output" /\ phase' = "print" /\ sheet < Len(collected)
           /\ cursor' = NextCursor /\ sheet' = sheet + 1 /\ written' = 0
  <2>1. collected \in Seq(Cursors) /\ sheet \in Nat /\ Len(collected) \in Nat
    BY ShapeFacts DEF ShapeInv, TypeOK
  <2>2. sheet' \in 0 .. Len(collected) /\ sheet' > 0 /\ cursor' = collected[sheet']
        /\ cursor' \in Cursors
    BY <1>3, <2>1 DEF NextCursor
  <2>3. TypeOK'
    BY <1>3, <2>2 DEF ShapeInv, TypeOK, Executed
  <2> QED
    BY <1>1, <1>3, <2>2, <2>3 DEF ShapeInv, ProgramPhases
<1> QED
  BY <1>2, <1>3

\* The cursor of the result that is printed is one of the collected ones.
LEMMA PrintedCursor ==
  ASSUME ShapeInv, args.program = "sql-query", phase = "print"
  PROVE  cursor \in Cursors
<1>1. collected \in Seq(Cursors) /\ sheet \in Nat /\ sheet > 0
      /\ sheet <= Len(collected) /\ cursor = collected[sheet]
  BY ShapeFacts DEF ShapeInv, TypeOK
<1> QED
  BY <1>1

LEMMA ShapePrintRow ==
  ASSUME ShapeInv, args.program = "sql-query", PrintRow
  PROVE  ShapeInv'
<1>1. /\ phase = "print" /\ WriteRow /\ written' = written + 1
      /\ UNCHANGED <<phase, pool, shown, cursor, args, sqls, collected, last,
                     rowCount, saved, pending, rows, sheet, faults>>
  BY DEF PrintRow
<1>2. DataInv'
  BY <1>1, PrintedCursor, WriteKeepsData DEF ShapeInv
<1>3. TypeOK'
  BY <1>1 DEF ShapeInv, TypeOK, Executed
<1> QED
  BY <1>1, <1>2, <1>3 DEF ShapeInv

LEMMA ShapePrintEnd ==
  ASSUME ShapeInv, args.program = "sql-query", PrintEnd
  PROVE  ShapeInv'
<1>1. /\ phase = "print" /\ phase' = "output" /\ CloseIt(cursor)
      /\ UNCHANGED <<shown, fmt, cursor, given, args, sqls, collected, last,
                     rowCount, saved, pending, rows, sheet, written, faults>>
  BY DEF PrintEnd
<1>2. DataInv'
  BY <1>1, CloseItKeepsData DEF ShapeInv
<1>3. TypeOK'
  BY <1>1 DEF ShapeInv, TypeOK, Executed
<1> QED
  BY <1>1, <1>2, <1>3 DEF ShapeInv, ProgramPhases

LEMMA ShapeProgram ==
  ASSUME ShapeInv, args.program = "sql-query", Program
  PROVE  ShapeInv'
<1>1. CASE ReadSelect
  BY <1>1, ShapeReadSelect
<1>2. CASE ReadUpdate
  BY <1>2, ShapeReadUpdate
<1>3. CASE ReadFails
  BY <1>3, ShapeReadFails
<1>0. faults \in 0 .. MaxFaults
  BY DEF ShapeInv, TypeOK
<1>4. CASE ReadEnd
  <2>1. faults' \in 0 .. MaxFaults
    BY <1>0, <1>4 DEF ReadEnd, queryVars
  <2> QED
    BY <1>4, <2>1, ShapeFrame DEF ReadEnd, queryVars
<1>5. CASE CommitBatch
  BY <1>0, <1>5, ShapeSettled DEF CommitBatch
<1>6. CASE LastCommit
  BY <1>0, <1>6, ShapeSettled DEF LastCommit, AfterSettle
<1>7. CASE CommitRefused
  <2>1. faults' \in 0 .. MaxFaults
    BY <1>0, <1>7, ShapeFacts DEF CommitRefused
  <2> QED
    BY <1>7, <2>1, ShapeSettled DEF CommitRefused
<1>8. CASE FirstResult
  <2>1. /\ phase = "output" /\ sheet = 0 /\ cursor' = NextCursor
        /\ sheet' = sheet + 1 /\ written' = 0 /\ phase' = "print"
        /\ OutputFrame
    BY <1>8 DEF FirstResult, StartOutput
  <2>2. sheet < Len(collected)
    <3>1. collected \in Seq(Cursors) /\ collected # << >>
      BY <2>1 DEF ShapeInv, TypeOK
    <3> QED
      BY <2>1, <3>1
  <2> QED
    BY <1>0, <2>1, <2>2, ShapeFrame DEF OutputFrame
<1>9. CASE FurtherSheet
  <2>1. /\ phase = "output" /\ sheet \in 1 .. Len(collected) - 1
        /\ cursor' = NextCursor
        /\ sheet' = sheet + 1 /\ written' = 0 /\ phase' = "print"
        /\ OutputFrame
    BY <1>9 DEF FurtherSheet, StartOutput
  <2>2. sheet < Len(collected)
    BY <2>1, ShapeFacts
  <2> QED
    BY <1>0, <2>1, <2>2, ShapeFrame DEF OutputFrame
<1>10. CASE OutputRefused
  BY <1>0, <1>10, ShapeFrame DEF OutputRefused, OutputFrame
<1>11. CASE PrintRow
  BY <1>11, ShapePrintRow
<1>12. CASE PrintCrashes
  BY <1>0, <1>12, ShapeFrame DEF PrintCrashes, OutputFrame
<1>13. CASE PrintEnd
  BY <1>13, ShapePrintEnd
<1>14. CASE FetchFails
  <2>1. faults' \in 0 .. MaxFaults
    BY <1>0, <1>14, ShapeFacts DEF FetchFails
  <2> QED
    BY <1>14, <2>1, ShapeFrame DEF FetchFails
<1>15. CASE FinishOutput
  BY <1>0, <1>15, ShapeFrame DEF FinishOutput, OutputFrame
<1> QED
  BY <1>1, <1>2, <1>3, <1>4, <1>5, <1>6, <1>7, <1>8, <1>9, <1>10, <1>11, <1>12,
     <1>13, <1>14, <1>15 DEF Program

-----------------------------------------------------------------------------
(* The client.                                                             *)

LEMMA ShapeClientStep ==
  ASSUME ShapeInv, args.program = "client", DataInv', phase' \in ClientPhases,
         phase' # "idle" => cursor' \in Cursors,
         cursor' \in {cursor} \cup Cursors,
         pool'.counter <= Len(shown'), Len(shown') <= MaxAsked,
         UNCHANGED queryVars
  PROVE  ShapeInv'
<1>1. TypeOK'
  BY DEF ShapeInv, TypeOK, Executed, queryVars
<1> QED
  BY <1>1 DEF ShapeInv, queryVars

\* The cursor a statement of the client runs on, and what it leaves.
LEMMA ClientStatement ==
  ASSUME ShapeInv, args.program = "client", Len(shown) < MaxAsked,
         NEW q, NEW c, NEW result \in Results, PoolOK(q), HasCursor(q, c),
         q.counter \in pool.counter .. pool.counter + 1,
         pool.cursors \subseteq q.cursors, RunOn(q, c, result)
  PROVE  /\ DataInv' /\ c \in Cursors
         /\ pool'.counter <= Len(shown') /\ Len(shown') <= MaxAsked
<1>1. pool.counter <= Len(shown) /\ DataInv
  BY DEF ShapeInv
<1>2. pool.counter \in Nat /\ q.counter \in Nat /\ c \in 1 .. q.counter
  BY <1>1, CursorStored DEF DataInv, PoolOK, PoolShape
<1>3. c \in Cursors
  BY <1>1, <1>2, ShapeFacts
<1>4. DataInv' /\ Len(shown') = Len(shown) + 1
  BY <1>1, <1>3, RunKeepsData
<1>5. pool' = q
  BY DEF RunOn
<1> QED
  BY <1>1, <1>2, <1>3, <1>4, <1>5, ShapeFacts

LEMMA ShapeAsk ==
  ASSUME ShapeInv, args.program = "client", Ask, UNCHANGED queryVars
  PROVE  ShapeInv'
<1>1. Len(shown) < MaxAsked /\ phase' \in ClientPhases /\ PoolOK(pool)
  BY DEF Ask, ClientPhases, ShapeInv, DataInv
<1>2. PICK result \in Selects, keep \in BOOLEAN :
        /\ RunOn(PoolFor(pool, NoCursor, ~keep, keep),
                 CursorFor(pool, NoCursor, ~keep, keep), result)
        /\ cursor' = CursorFor(pool, NoCursor, ~keep, keep)
  BY DEF Ask
<1> DEFINE q == PoolFor(pool, NoCursor, ~keep, keep)
           c == CursorFor(pool, NoCursor, ~keep, keep)
<1>3. PoolOK(q) /\ HasCursor(q, c) /\ pool.cursors \subseteq q.cursors
      /\ q.counter \in pool.counter .. pool.counter + 1
  <2>1. pool.counter \in Nat /\ NoCursor \in Nat
    BY <1>1 DEF PoolOK, PoolShape, NoCursor
  <2>2. CASE keep = TRUE
    <3>1. q = PoolFor(pool, NoCursor, FALSE, TRUE)
          /\ c = CursorFor(pool, NoCursor, FALSE, TRUE)
      BY <2>2
    <3> HIDE DEF q, c
    <3>2. PoolOK(q) /\ HasCursor(q, c) /\ pool.cursors \subseteq q.cursors
          /\ q.counter = pool.counter + 1
      BY <1>1, <3>1, KeptStatement
    <3>3. q.counter \in pool.counter .. pool.counter + 1
      BY <2>1, <3>2
    <3> QED
      BY <3>2, <3>3
  <2>3. CASE keep = FALSE
    <3>1. q = PoolFor(pool, NoCursor, TRUE, FALSE)
          /\ c = CursorFor(pool, NoCursor, TRUE, FALSE)
      BY <2>3
    <3> HIDE DEF q, c
    <3> QED
      BY <1>1, <2>1, <3>1, PlainStatement
  <2> QED
    BY <2>2, <2>3
<1>4. RunOn(q, c, result) /\ cursor' = c /\ result \in Results
  BY <1>2, SelectsAreResults
<1> HIDE DEF q, c
<1> QED
  BY <1>1, <1>3, <1>4, ClientStatement, ShapeClientStep

LEMMA ShapePlainStatement ==
  ASSUME ShapeInv, args.program = "client", Len(shown) < MaxAsked,
         NEW result \in Results,
         RunOn(PoolFor(pool, NoCursor, TRUE, FALSE),
               CursorFor(pool, NoCursor, TRUE, FALSE), result)
  PROVE  /\ DataInv' /\ CursorFor(pool, NoCursor, TRUE, FALSE) \in Cursors
         /\ pool'.counter <= Len(shown') /\ Len(shown') <= MaxAsked
<1> DEFINE q == PoolFor(pool, NoCursor, TRUE, FALSE)
           c == CursorFor(pool, NoCursor, TRUE, FALSE)
<1>1. PoolOK(pool) /\ NoCursor \in Nat
  BY DEF ShapeInv, DataInv, NoCursor
<1>2. PoolOK(q) /\ HasCursor(q, c) /\ pool.cursors \subseteq q.cursors
      /\ q.counter \in pool.counter .. pool.counter + 1
  BY <1>1, PlainStatement
<1>3. RunOn(q, c, result)
  OBVIOUS
<1> HIDE DEF q, c
<1>4. DataInv' /\ c \in Cursors /\ pool'.counter <= Len(shown')
      /\ Len(shown') <= MaxAsked
  BY <1>2, <1>3, ClientStatement
<1> QED
  BY <1>4 DEF c

LEMMA ShapeClient ==
  ASSUME ShapeInv, args.program = "client", Client, UNCHANGED queryVars
  PROVE  ShapeInv'
<1>0. /\ phase \in ClientPhases /\ pool.counter <= Len(shown)
      /\ Len(shown) <= MaxAsked /\ (phase # "idle" => cursor \in Cursors)
  BY DEF ShapeInv
<1>1. CASE Ask
  BY <1>1, ShapeAsk
<1>2. CASE CallFormatter
  <2>1. Len(shown) < MaxAsked /\ phase' = "called"
    BY <1>2 DEF CallFormatter
  <2>2. PICK result \in Selects :
          /\ RunOn(PoolFor(pool, NoCursor, TRUE, FALSE),
                   CursorFor(pool, NoCursor, TRUE, FALSE), result)
          /\ cursor' = CursorFor(pool, NoCursor, TRUE, FALSE)
    BY <1>2 DEF CallFormatter
  <2>3. result \in Results
    BY SelectsAreResults
  <2> QED
    BY <2>1, <2>2, <2>3, ShapePlainStatement, ShapeClientStep DEF ClientPhases
<1>3. CASE OtherStatement
  <2>1. Len(shown) < MaxAsked /\ UNCHANGED <<phase, fmt, cursor, given>>
    BY <1>3 DEF OtherStatement
  <2>2. PICK result \in Selects \cup {Update} :
          RunOn(PoolFor(pool, NoCursor, TRUE, FALSE),
                CursorFor(pool, NoCursor, TRUE, FALSE), result)
    BY <1>3 DEF OtherStatement
  <2>3. result \in Results
    BY SelectsAreResults
  <2>4. DataInv' /\ pool'.counter <= Len(shown') /\ Len(shown') <= MaxAsked
    BY <2>1, <2>2, <2>3, ShapePlainStatement
  <2> QED
    BY <1>0, <2>1, <2>4, ShapeClientStep
<1>4. CASE EndTransaction
  <2>1. CloseCursors /\ UNCHANGED <<phase, shown, fmt, cursor, given>>
    BY <1>4 DEF EndTransaction, CloseCursors
  <2>2. DataInv' /\ pool'.counter = pool.counter
    BY <2>1, CloseCursorsKeepsData DEF ShapeInv
  <2> QED
    BY <1>0, <2>1, <2>2, ShapeClientStep
<1>5. CASE ClientRowsEnd
  <2>1. /\ phase = "rows" /\ CloseIt(cursor) /\ phase' = "written"
        /\ UNCHANGED <<shown, fmt, cursor, given>>
    BY <1>5 DEF ClientRowsEnd
  <2>2. DataInv' /\ pool'.counter = pool.counter
    BY <2>1, CloseItKeepsData DEF ShapeInv
  <2> QED
    BY <1>0, <2>1, <2>2, ShapeClientStep DEF ClientPhases
<1>6. CASE ClientRow
  <2>1. phase = "rows" /\ WriteRow /\ UNCHANGED <<phase, pool, shown, cursor>>
    BY <1>6 DEF ClientRow
  <2>2. cursor \in Cursors
    BY <1>0, <2>1
  <2>3. DataInv'
    BY <2>1, <2>2, WriteKeepsData DEF ShapeInv
  <2> QED
    BY <1>0, <2>1, <2>2, <2>3, ShapeClientStep DEF ClientPhases
<1>7. ASSUME UNCHANGED <<pool, rs, shown, cursor>>, phase' \in ClientPhases,
             phase # "idle"
      PROVE  ShapeInv'
  <2>1. DataInv'
    BY <1>7 DEF ShapeInv, DataInv
  <2> QED
    BY <1>0, <1>7, <2>1, ShapeClientStep
<1>8. CASE OpenFile \/ OpenRefused \/ NewSheet
  BY <1>7, <1>8 DEF OpenFile, OpenRefused, NewSheet, ClientPhases
<1>9. CASE WriteHeader \/ CloseFile
  BY <1>7, <1>9 DEF WriteHeader, CloseFile, ClientPhases
<1>10. CASE RowRefused
  BY <1>7, <1>10 DEF RowRefused, ClientPhases
<1> QED
  BY <1>1, <1>2, <1>3, <1>4, <1>5, <1>6, <1>8, <1>9, <1>10 DEF Client

LEMMA ShapeNext == ShapeInv /\ [Next]_vars => ShapeInv'
<1> SUFFICES ASSUME ShapeInv, [Next]_vars PROVE ShapeInv'
  OBVIOUS
<1>1. CASE args.program = "sql-query" /\ Program
  BY <1>1, ShapeProgram
<1>2. CASE args.program = "client" /\ Client /\ UNCHANGED queryVars
  BY <1>2, ShapeClient
<1>3. CASE UNCHANGED vars
  BY <1>3 DEF vars, exportVars, queryVars, ShapeInv, DataInv, TypeOK, Executed
<1> QED
  BY <1>1, <1>2, <1>3 DEF Next

\* The variables of sql-query and of the client keep their shape: the updates
\* in the transaction and the durable ones are among the statements executed,
\* and every cursor collected or given on is one the statements can have.
THEOREM QueryTypeCorrect == Spec => []TypeOK
<1>1. ShapeInv => TypeOK
  BY DEF ShapeInv
<1> QED
  BY <1>1, ShapeInit, ShapeNext, PTL DEF Spec

-----------------------------------------------------------------------------
(***************************************************************************)
(* The updates. row_count is the sum of the rows of the statements in the  *)
(* open transaction as long as statements are read, so that it decides     *)
(* rightly when a batch is full and whether a last commit has anything to  *)
(* do.                                                                     *)
(***************************************************************************)
NothingPending == \A i \in pending : rows[i] = 0

UpdInv ==
  /\ ~args.activate => saved = {}
  /\ args.activate => \A i \in Executed : rows[i] > 0 => i \in saved \cup pending
  /\ phase \in {"parse", "commit", "settle"} => rowCount = Sum(rows, pending)
  /\ phase = "parse" /\ CommitNr > 0 => rowCount < CommitNr
  /\ phase \in {"output", "print", "done"} => NothingPending
  /\ phase = "crashed" /\ faults = 0 => NothingPending

LEMMA UpdInit == Init => UpdInv
<1> SUFFICES ASSUME Init PROVE UpdInv
  OBVIOUS
<1>1. /\ saved = {} /\ pending = {} /\ rowCount = 0
      /\ rows \in {<< >>, <<0>>}
  BY DEF Init
<1>2. \A i \in Executed : ~(rows[i] > 0)
  <2>1. CASE rows = << >>
    BY <2>1 DEF Executed
  <2>2. CASE rows = <<0>>
    BY <2>2 DEF Executed
  <2> QED
    BY <1>1, <2>1, <2>2
<1>3. Sum(rows, pending) = 0
  BY <1>1, SumOfNone
<1> QED
  BY <1>1, <1>2, <1>3 DEF UpdInv, NothingPending

LEMMA UpdReadSelect ==
  ASSUME ShapeInv, UpdInv, ReadSelect
  PROVE  UpdInv'
<1>1. /\ phase = "parse" /\ rows' = Append(rows, 0)
      /\ UNCHANGED <<phase, args, rowCount, saved, pending, faults>>
  BY DEF ReadSelect, Reading
<1>2. rows \in Seq(Nat) /\ pending \in SUBSET DOMAIN rows
  BY DEF ShapeInv, TypeOK, Executed
<1>3. Sum(rows', pending) = Sum(rows, pending)
  BY <1>1, <1>2, SumAppended
<1>4. \A i \in Executed' : rows'[i] > 0 => i \in Executed /\ rows[i] > 0
  BY <1>1, <1>2 DEF Executed
<1> QED
  BY <1>1, <1>3, <1>4 DEF UpdInv

LEMMA UpdReadUpdate ==
  ASSUME ShapeInv, UpdInv, ReadUpdate
  PROVE  UpdInv'
<1> DEFINE n == MeaningOf(Head(sqls)).rows
           new == Len(rows) + 1
<1>1. /\ phase = "parse" /\ sqls # << >>
      /\ MeaningOf(Head(sqls)).kind = "update"
      /\ rowCount' = rowCount + n /\ rows' = Append(rows, n)
      /\ pending' = pending \cup {new}
      /\ phase' = IF CommitDue(rowCount + n) THEN "commit" ELSE "parse"
      /\ UNCHANGED <<args, saved, faults>>
  BY DEF ReadUpdate, Reading
<1>2. n \in Nat
  BY <1>1, HeadMeaning, MeaningShape, UpdateMeaning
<1> HIDE DEF n
<1>3. rows \in Seq(Nat) /\ pending \in SUBSET DOMAIN rows /\ rowCount \in Nat
      /\ CommitNr \in Nat
  BY ShapeFacts DEF ShapeInv, TypeOK, Executed
<1>4. Sum(rows', pending') = Sum(rows, pending) + n
  BY <1>1, <1>2, <1>3, SumGrows
<1>5. \A i \in Executed' : rows'[i] > 0 => i = new \/ (i \in Executed /\ rows[i] > 0)
  BY <1>1, <1>2, <1>3 DEF Executed
<1> HIDE DEF new
<1>6. rowCount' = Sum(rows', pending')
  BY <1>1, <1>4 DEF UpdInv
<1>7. phase' = "parse" /\ CommitNr > 0 => rowCount' < CommitNr
  BY <1>1, <1>2, <1>3 DEF CommitDue
<1>8. args'.activate => \A i \in Executed' : rows'[i] > 0 => i \in saved' \cup pending'
  BY <1>1, <1>5 DEF UpdInv
<1> QED
  BY <1>1, <1>6, <1>7, <1>8 DEF UpdInv

LEMMA UpdCommitBatch ==
  ASSUME ShapeInv, UpdInv, CommitBatch
  PROVE  UpdInv'
<1>1. /\ phase' = "parse" /\ rowCount' = 0 /\ Settle
      /\ UNCHANGED <<args, rows>>
  BY DEF CommitBatch
<1>2. pending' = {} /\ saved' = IF args.activate THEN saved \cup pending ELSE saved
  BY <1>1 DEF Settle
<1>3. Sum(rows', pending') = 0
  BY <1>2, SumOfNone
<1> QED
  BY <1>1, <1>2, <1>3 DEF UpdInv, Executed

LEMMA UpdLastCommit ==
  ASSUME ShapeInv, UpdInv, LastCommit
  PROVE  UpdInv'
<1>1. /\ phase = "settle" /\ phase' \in {"done", "output"}
      /\ UNCHANGED <<args, rows>>
  BY DEF LastCommit, AfterSettle
<1>2. CASE rowCount > 0
  <2>1. pending' = {} /\ saved' = IF args.activate THEN saved \cup pending ELSE saved
    BY <1>2 DEF LastCommit, Settle
  <2> QED
    BY <1>1, <2>1 DEF UpdInv, NothingPending, Executed
<1>3. CASE ~(rowCount > 0)
  <2>1. saved' = saved /\ pending' = pending
    BY <1>3 DEF LastCommit
  <2>2. rows \in Seq(Nat) /\ pending \in SUBSET DOMAIN rows /\ rowCount \in Nat
    BY DEF ShapeInv, TypeOK, Executed
  <2>3. Sum(rows, pending) = 0
    BY <1>1, <1>3, <2>2 DEF UpdInv
  <2>4. \A i \in pending : rows[i] <= 0 /\ rows[i] \in Nat
    BY <2>2, <2>3, SumBounds
  <2>5. NothingPending
    BY <2>4 DEF NothingPending
  <2> QED
    BY <1>1, <2>1, <2>5 DEF UpdInv, NothingPending, Executed
<1> QED
  BY <1>2, <1>3

\* All other steps leave the updates alone.
LEMMA UpdFrame ==
  ASSUME UpdInv, UNCHANGED <<args, rows, saved, pending, rowCount>>,
         \/ phase' = phase /\ faults' = faults
         \/ phase' = "settle" /\ phase = "parse"
         \/ phase' \in {"output", "print", "done"} /\ phase \in {"output", "print"}
         \/ phase' = "crashed" /\ (faults' = 0 => phase \in {"output", "print"})
         \/ phase' \in ClientPhases
  PROVE  UpdInv'
BY DEF UpdInv, NothingPending, Executed, ClientPhases

LEMMA UpdNext == ShapeInv /\ UpdInv /\ [Next]_vars => UpdInv'
<1> SUFFICES ASSUME ShapeInv, UpdInv, [Next]_vars PROVE UpdInv'
  OBVIOUS
<1>1. CASE args.program = "sql-query" /\ Program
  <2>1. CASE ReadSelect
    BY <2>1, UpdReadSelect
  <2>2. CASE ReadUpdate
    BY <2>2, UpdReadUpdate
  <2>3. CASE CommitBatch
    BY <2>3, UpdCommitBatch
  <2>4. CASE LastCommit
    BY <2>4, UpdLastCommit
  <2>5. CASE ReadFails \/ ReadEnd
    BY <2>5, UpdFrame DEF ReadFails, ReadEnd, Reading, queryVars
  <2>6. CASE CommitRefused
    <3>1. faults \in Nat /\ faults' = faults + 1
      BY <2>6, ShapeFacts DEF CommitRefused, ShapeInv, TypeOK
    <3>2. faults' # 0
      BY <3>1
    <3> QED
      BY <2>6, <3>2, UpdFrame DEF CommitRefused
  <2>7. CASE FirstResult \/ FurtherSheet
    BY <2>7, UpdFrame DEF FirstResult, FurtherSheet, StartOutput, OutputFrame
  <2>8. CASE OutputRefused \/ PrintCrashes \/ FinishOutput
    BY <2>8, UpdFrame DEF OutputRefused, PrintCrashes, FinishOutput, OutputFrame
  <2>9. CASE PrintRow \/ PrintEnd \/ FetchFails
    BY <2>9, UpdFrame DEF PrintRow, PrintEnd, FetchFails
  <2> QED
    BY <1>1, <2>1, <2>2, <2>3, <2>4, <2>5, <2>6, <2>7, <2>8, <2>9 DEF Program
<1>2. CASE args.program = "client" /\ Client /\ UNCHANGED queryVars
  <2>1. ShapeInv'
    BY <1>2, ShapeClient
  <2>2. phase' \in ClientPhases
    BY <1>2, <2>1 DEF ShapeInv, queryVars
  <2> QED
    BY <1>2, <2>2, UpdFrame DEF queryVars
<1>3. CASE UNCHANGED vars
  BY <1>3, UpdFrame DEF vars, exportVars, queryVars
<1> QED
  BY <1>1, <1>2, <1>3 DEF Next

\* With -a every statement that updated rows is durable by the time results
\* are written, and without it none ever is: the commits by row count, the one
\* at the end and the loop that stops at a failing statement lose no update,
\* for every input, every commit_nr and whatever the statements do. Between
\* two statements the rows not yet committed are fewer than commit_nr.
THEOREM UpdatesAreSettled == Spec => []UpdatesSettled
<1>1. ShapeInv /\ UpdInv => UpdatesSettled
  <2> SUFFICES ASSUME ShapeInv, UpdInv PROVE UpdatesSettled
    OBVIOUS
  <2>1. phase = "parse" /\ CommitNr > 0 =>
          MapThenSumSet(LAMBDA i : rows[i], pending) < CommitNr
    BY DEF UpdInv, Sum
  <2>2. ASSUME args.activate, faults = 0,
               phase \in {"output", "print", "done", "crashed"},
               NEW i \in Executed, rows[i] > 0
        PROVE  i \in saved
    <3>1. NothingPending /\ i \in saved \cup pending
      BY <2>2 DEF UpdInv
    <3>2. i \notin pending
      BY <2>2, <3>1 DEF NothingPending
    <3> QED
      BY <3>1, <3>2
  <2>3. ~args.activate => saved = {}
    BY DEF UpdInv
  <2> QED
    BY <2>1, <2>2, <2>3 DEF UpdatesSettled
<1> QED
  BY <1>1, ShapeInit, ShapeNext, UpdInit, UpdNext, PTL DEF Spec

-----------------------------------------------------------------------------
(***************************************************************************)
(* The formatter: what each of its operations does to its attributes.      *)
(***************************************************************************)
Columns == {{}} \cup {ColumnSet(labels) : labels \in Labels}

Items ==
  {Sheet} \cup {HeaderOf(columns) : columns \in Columns}
    \cup {RowOf(stmt, nr) : stmt \in Nat, nr \in Nat}

Attributes ==
  {"class", "named", "cursor", "columns", "stream", "active", "book", "out"}

FmtOK(f) ==
  /\ f = [a \in Attributes |-> f[a]]
  /\ f.class \in {"text", "csv", "sql"} \cup Books /\ f.named \in BOOLEAN
  /\ f.cursor \in {NoneGiven} \cup Cursors /\ f.columns \in Columns
  /\ f.stream \in BOOLEAN /\ f.active \in BOOLEAN
  /\ f.book \in Seq(Items) /\ f.out \in Seq(Items)

\* An assignment to an attribute.
LEMMA AttributeSet ==
  ASSUME NEW f, f = [a \in Attributes |-> f[a]], NEW a \in Attributes, NEW x
  PROVE  LET g == [f EXCEPT ![a] = x]
         IN /\ g = [b \in Attributes |-> g[b]] /\ g[a] = x
            /\ \A b \in Attributes \ {a} : g[b] = f[b]
OBVIOUS

LEMMA ItemKinds ==
  /\ Sheet \in Items /\ ~IsRow(Sheet)
  /\ \A columns \in Columns : HeaderOf(columns) \in Items /\ ~IsRow(HeaderOf(columns))
  /\ \A stmt, nr \in Nat : /\ RowOf(stmt, nr) \in Items /\ IsRow(RowOf(stmt, nr))
                          /\ RowOf(stmt, nr).stmt = stmt
<1>1. Sheet \in Items /\ ~IsRow(Sheet)
  BY DEF Items, Sheet, IsRow
<1>2. ASSUME NEW columns \in Columns
      PROVE  HeaderOf(columns) \in Items /\ ~IsRow(HeaderOf(columns))
  <2>1. HeaderOf(columns) \in Items
    BY DEF Items
  <2>2. ~IsRow(HeaderOf(columns))
    BY DEF IsRow, HeaderOf
  <2> QED
    BY <2>1, <2>2
<1>3. ASSUME NEW stmt \in Nat, NEW nr \in Nat
      PROVE  /\ RowOf(stmt, nr) \in Items /\ IsRow(RowOf(stmt, nr))
             /\ RowOf(stmt, nr).stmt = stmt
  <2>1. RowOf(stmt, nr) \in Items
    BY DEF Items
  <2>2. IsRow(RowOf(stmt, nr)) /\ RowOf(stmt, nr).stmt = stmt
    BY DEF IsRow, RowOf
  <2> QED
    BY <2>1, <2>2
<1> QED
  BY <1>1, <1>2, <1>3

LEMMA NewFormatterIs ==
  ASSUME NEW class \in Classes, NEW named \in BOOLEAN
  PROVE  LET f == NewFormatter(class, named)
         IN /\ FmtOK(f) /\ f.cursor = NoneGiven /\ f.book = << >>
            /\ f.out = << >> /\ ~f.active
<1>1. class \in {"text", "csv", "sql"} \cup Books
  BY ExportAssumption
<1>2. {} \in Columns /\ << >> \in Seq(Items)
  BY DEF Columns
<1> QED
  BY <1>1, <1>2 DEF NewFormatter, FmtOK, Attributes

LEMMA OpenStreamIs ==
  ASSUME NEW f, FmtOK(f), NEW columns \in Columns, NEW append \in BOOLEAN
  PROVE  LET g == OpenStream(f, columns, append)
         IN /\ FmtOK(g) /\ g.class = f.class /\ g.named = f.named
            /\ g.cursor = f.cursor /\ g.columns = columns /\ g.stream
            /\ g.book = f.book
            /\ g.out = IF f.named /\ ~append THEN << >> ELSE f.out
<1> DEFINE g == OpenStream(f, columns, append)
           out == IF f.named /\ ~append THEN << >> ELSE f.out
<1>1. f = [a \in Attributes |-> f[a]]
  BY DEF FmtOK
<1>2. /\ g = [a \in Attributes |-> g[a]]
      /\ g.class = f.class /\ g.named = f.named /\ g.cursor = f.cursor
      /\ g.columns = columns /\ g.stream = TRUE /\ g.active = f.active
      /\ g.book = f.book /\ g.out = out
  BY <1>1 DEF OpenStream, Attributes
<1>3. out \in Seq(Items)
  BY DEF FmtOK
<1> HIDE DEF g, out
<1>4. FmtOK(g)
  BY <1>2, <1>3 DEF FmtOK
<1> QED
  BY <1>2, <1>4 DEF g, out

LEMMA NextSheetIs ==
  ASSUME NEW f, FmtOK(f), NEW c \in {NoneGiven} \cup Cursors,
         NEW columnsOf \in [Cursors -> Columns]
  PROVE  LET g == NextSheet(f, c, columnsOf)
         IN /\ FmtOK(g) /\ g.class = f.class /\ g.named = f.named
            /\ g.cursor = IF c = NoneGiven THEN f.cursor ELSE c
            /\ g.columns = IF c = NoneGiven THEN f.columns ELSE columnsOf[c]
            /\ g.stream = f.stream /\ g.out = f.out
            /\ g.book = Append(f.book, Sheet)
<1> DEFINE g == NextSheet(f, c, columnsOf)
           cursor1 == IF c = NoneGiven THEN f.cursor ELSE c
           columns1 == IF c = NoneGiven THEN f.columns ELSE columnsOf[c]
           book1 == Append(f.book, Sheet)
<1>1. f = [a \in Attributes |-> f[a]]
  BY DEF FmtOK
<1>2. /\ g = [a \in Attributes |-> g[a]]
      /\ g.class = f.class /\ g.named = f.named /\ g.cursor = cursor1
      /\ g.columns = columns1 /\ g.stream = f.stream /\ g.active = TRUE
      /\ g.book = book1 /\ g.out = f.out
  BY <1>1 DEF NextSheet, Attributes
<1>3. book1 \in Seq(Items) /\ cursor1 \in {NoneGiven} \cup Cursors
      /\ columns1 \in Columns
  <2>1. book1 \in Seq(Items)
    BY ItemKinds DEF FmtOK
  <2>2. cursor1 \in {NoneGiven} \cup Cursors /\ columns1 \in Columns
    BY DEF FmtOK
  <2> QED
    BY <2>1, <2>2
<1> HIDE DEF g, cursor1, columns1, book1
<1>4. FmtOK(g)
  BY <1>2, <1>3 DEF FmtOK
<1> QED
  BY <1>2, <1>4 DEF g, cursor1, columns1, book1

\* open() of a class that writes as it goes.
LEMMA OpenTextIs ==
  ASSUME NEW f, FmtOK(f), f.class \notin Books, NEW c \in Cursors,
         NEW columnsOf \in [Cursors -> Columns], NEW append \in BOOLEAN
  PROVE  LET g == Open(f, c, columnsOf, append)
         IN /\ FmtOK(g) /\ g.class = f.class /\ g.named = f.named
            /\ g.cursor = f.cursor /\ g.columns = columnsOf[c] /\ g.stream
            /\ g.book = f.book
            /\ g.out = IF f.named /\ ~append THEN << >> ELSE f.out
<1> DEFINE h == OpenStream(f, columnsOf[c], append)
           g == [h EXCEPT !.active = TRUE]
<1>1. Open(f, c, columnsOf, append) = g
  BY DEF Open, OpenSql, OpenText, Books
<1>2. /\ FmtOK(h) /\ h.class = f.class /\ h.named = f.named
      /\ h.cursor = f.cursor /\ h.columns = columnsOf[c] /\ h.stream
      /\ h.book = f.book
      /\ h.out = IF f.named /\ ~append THEN << >> ELSE f.out
  BY OpenStreamIs
<1> HIDE DEF h
<1>3. h = [a \in Attributes |-> h[a]]
  BY <1>2 DEF FmtOK
<1>4. /\ g = [a \in Attributes |-> g[a]]
      /\ g.class = h.class /\ g.named = h.named /\ g.cursor = h.cursor
      /\ g.columns = h.columns /\ g.stream = h.stream /\ g.active = TRUE
      /\ g.book = h.book /\ g.out = h.out
  BY <1>3 DEF Attributes
<1> HIDE DEF g
<1>5. FmtOK(g)
  BY <1>2, <1>4 DEF FmtOK
<1> QED
  BY <1>1, <1>2, <1>4, <1>5

\* open() of a class that holds its sheets back: the columns are those of the
\* cursor it knows from before, if any.
LEMMA OpenBookIs ==
  ASSUME NEW f, FmtOK(f), f.class \in Books, NEW c \in Cursors,
         NEW columnsOf \in [Cursors -> Columns], NEW append \in BOOLEAN
  PROVE  LET g == Open(f, c, columnsOf, append)
         IN /\ FmtOK(g) /\ g.class = f.class /\ g.named = f.named
            /\ g.cursor = f.cursor
            /\ g.columns = IF f.cursor = NoneGiven THEN columnsOf[c]
                           ELSE columnsOf[f.cursor]
            /\ g.stream = (f.class = "xml") /\ g.book = <<Sheet>>
            /\ g.out = IF f.named /\ ~append THEN << >> ELSE f.out
<1> DEFINE h == OpenStream(f, columnsOf[c], append)
           k == IF f.class = "xml" THEN [h EXCEPT !.book = << >>]
                ELSE [h EXCEPT !.book = << >>, !.stream = FALSE]
           g == NextSheet(k, f.cursor, columnsOf)
<1>1. Open(f, c, columnsOf, append) = g
  BY DEF Open, OpenXml, OpenXlsx, Books
<1>2. /\ FmtOK(h) /\ h.class = f.class /\ h.named = f.named
      /\ h.cursor = f.cursor /\ h.columns = columnsOf[c] /\ h.stream
      /\ h.book = f.book
      /\ h.out = IF f.named /\ ~append THEN << >> ELSE f.out
  BY OpenStreamIs
<1> HIDE DEF h
<1>3. h = [a \in Attributes |-> h[a]]
  BY <1>2 DEF FmtOK
<1>4. /\ k = [a \in Attributes |-> k[a]]
      /\ k.class = h.class /\ k.named = h.named /\ k.cursor = h.cursor
      /\ k.columns = h.columns /\ k.active = h.active
      /\ k.book = << >> /\ k.out = h.out
      /\ k.stream = IF f.class = "xml" THEN h.stream ELSE FALSE
  <2>1. CASE f.class = "xml"
    BY <1>3, <2>1 DEF Attributes
  <2>2. CASE f.class # "xml"
    BY <1>3, <2>2 DEF Attributes
  <2> QED
    BY <2>1, <2>2
<1> HIDE DEF k
<1>5. FmtOK(k)
  <2>1. << >> \in Seq(Items)
    OBVIOUS
  <2>2. k.stream \in BOOLEAN
    BY <1>2, <1>4 DEF FmtOK
  <2> QED
    BY <1>2, <1>4, <2>1, <2>2 DEF FmtOK
<1>6. f.cursor \in {NoneGiven} \cup Cursors
  BY DEF FmtOK
<1>7. /\ FmtOK(g) /\ g.class = k.class /\ g.named = k.named
      /\ g.cursor = IF f.cursor = NoneGiven THEN k.cursor ELSE f.cursor
      /\ g.columns = IF f.cursor = NoneGiven THEN k.columns ELSE columnsOf[f.cursor]
      /\ g.stream = k.stream /\ g.out = k.out
      /\ g.book = Append(k.book, Sheet)
  BY <1>5, <1>6, NextSheetIs
<1> HIDE DEF g
<1>8. g.book = <<Sheet>>
  BY <1>4, <1>7
<1>9. g.stream = (f.class = "xml")
  BY <1>2, <1>4, <1>7
<1> QED
  BY <1>1, <1>2, <1>4, <1>7, <1>8, <1>9

\* What is emitted, and what is held back.
LEMMA EmitIs ==
  ASSUME NEW f, FmtOK(f), NEW item \in Items
  PROVE  /\ FmtOK(Emit(f, item)) /\ Emit(f, item).class = f.class
         /\ Emit(f, item).named = f.named /\ Emit(f, item).cursor = f.cursor
         /\ Emit(f, item).columns = f.columns /\ Emit(f, item).stream = f.stream
         /\ Emit(f, item).book = f.book /\ Emit(f, item).active = f.active
         /\ Emit(f, item).out = Append(f.out, item)
<1> DEFINE g == Emit(f, item)
           out1 == Append(f.out, item)
<1>1. f = [a \in Attributes |-> f[a]]
  BY DEF FmtOK
<1>2. /\ g = [a \in Attributes |-> g[a]]
      /\ g.class = f.class /\ g.named = f.named /\ g.cursor = f.cursor
      /\ g.columns = f.columns /\ g.stream = f.stream /\ g.active = f.active
      /\ g.book = f.book /\ g.out = out1
  BY <1>1 DEF Emit, Attributes
<1>3. out1 \in Seq(Items)
  BY DEF FmtOK
<1> HIDE DEF g, out1
<1>4. FmtOK(g)
  BY <1>2, <1>3 DEF FmtOK
<1> QED
  BY <1>2, <1>4 DEF g, out1

LEMMA HoldIs ==
  ASSUME NEW f, FmtOK(f), NEW item \in Items
  PROVE  /\ FmtOK(Hold(f, item)) /\ Hold(f, item).class = f.class
         /\ Hold(f, item).named = f.named /\ Hold(f, item).cursor = f.cursor
         /\ Hold(f, item).columns = f.columns /\ Hold(f, item).stream = f.stream
         /\ Hold(f, item).out = f.out /\ Hold(f, item).active = f.active
         /\ Hold(f, item).book = Append(f.book, item)
<1> DEFINE g == Hold(f, item)
           book1 == Append(f.book, item)
<1>1. f = [a \in Attributes |-> f[a]]
  BY DEF FmtOK
<1>2. /\ g = [a \in Attributes |-> g[a]]
      /\ g.class = f.class /\ g.named = f.named /\ g.cursor = f.cursor
      /\ g.columns = f.columns /\ g.stream = f.stream /\ g.active = f.active
      /\ g.book = book1 /\ g.out = f.out
  BY <1>1 DEF Hold, Attributes
<1>3. book1 \in Seq(Items)
  BY DEF FmtOK
<1> HIDE DEF g, book1
<1>4. FmtOK(g)
  BY <1>2, <1>3 DEF FmtOK
<1> QED
  BY <1>2, <1>4 DEF g, book1

\* The formatter after an item of the result: a header, or a row.
Given(f, g, item) ==
  /\ FmtOK(g) /\ g.class = f.class /\ g.named = f.named /\ g.cursor = f.cursor
  /\ g.columns = f.columns /\ g.stream = f.stream /\ g.active = f.active
  /\ g.book = IF f.class \in Books THEN Append(f.book, item) ELSE f.book
  /\ g.out = IF f.class \notin Books /\ f.stream THEN Append(f.out, item) ELSE f.out

LEMMA WriteIs ==
  ASSUME NEW f, FmtOK(f), NEW row \in Items
  PROVE  Given(f, Write(f, row), row)
<1>1. CASE f.class \in Books
  <2>1. Write(f, row) = Hold(f, row)
    BY <1>1 DEF Write, WriteXml, WriteXlsx, Books
  <2> QED
    BY <1>1, <2>1, HoldIs DEF Given
<1>2. CASE f.class \notin Books
  <2>1. Write(f, row) = IF f.stream THEN Emit(f, row) ELSE f
    BY <1>2 DEF Write, WriteSql, WriteText, Books
  <2>2. CASE f.stream
    BY <1>2, <2>1, <2>2, EmitIs DEF Given
  <2>3. CASE ~f.stream
    BY <1>2, <2>1, <2>3 DEF Given
  <2> QED
    BY <2>2, <2>3
<1> QED
  BY <1>1, <1>2

LEMMA HeaderIs ==
  ASSUME NEW f, FmtOK(f)
  PROVE  /\ f.class # "sql" => Given(f, Header(f), HeaderOf(f.columns))
         /\ f.class = "sql" => Header(f) = f
<1> DEFINE item == HeaderOf(f.columns)
<1>0. item \in Items
  BY ItemKinds DEF FmtOK
<1>1. CASE f.class \in Books
  <2>1. Header(f) = Hold(f, item) /\ f.class # "sql"
    BY <1>1 DEF Header, HeaderXml, HeaderXlsx, Books
  <2> HIDE DEF item
  <2>2. Given(f, Header(f), item)
    BY <1>0, <1>1, <2>1, HoldIs DEF Given
  <2> QED
    BY <2>1, <2>2 DEF item
<1>2. CASE f.class \notin Books /\ f.class # "sql"
  <2>1. Header(f) = IF f.stream THEN Emit(f, item) ELSE f
    BY <1>2 DEF Header, HeaderText, Books
  <2> HIDE DEF item
  <2>2. Given(f, Header(f), item)
    <3>1. CASE f.stream
      BY <1>0, <1>2, <2>1, <3>1, EmitIs DEF Given
    <3>2. CASE ~f.stream
      BY <1>2, <2>1, <3>2 DEF Given
    <3> QED
      BY <3>1, <3>2
  <2> QED
    BY <1>2, <2>2 DEF item
<1>3. CASE f.class = "sql"
  BY <1>3 DEF Header, Books
<1> QED
  BY <1>1, <1>2, <1>3

LEMMA CloseIs ==
  ASSUME NEW f, FmtOK(f)
  PROVE  LET g == Close(f)
         IN /\ FmtOK(g) /\ g.class = f.class /\ g.named = f.named
            /\ g.cursor = f.cursor /\ ~g.active
            /\ g.book = IF f.class \in Books THEN << >> ELSE f.book
            /\ g.out = CASE f.class = "xml" /\ f.stream -> f.out \o f.book
                         [] f.class = "xlsx" -> f.book
                         [] OTHER -> f.out
<1> DEFINE out1 == IF f.class = "xml" /\ f.stream THEN f.out \o f.book
                   ELSE IF f.class = "xlsx" THEN f.book ELSE f.out
           book1 == IF f.class \in Books THEN << >> ELSE f.book
           h == IF f.class \in Books THEN [f EXCEPT !.out = out1, !.book = << >>] ELSE f
           stream1 == h.stream /\ ~h.named
           g == [h EXCEPT !.stream = stream1, !.columns = {}, !.active = FALSE]
<1>0. f = [a \in Attributes |-> f[a]]
  BY DEF FmtOK
<1>1. Close(f) = g
  <2>1. CASE f.class = "xml"
    BY <2>1 DEF Close, CloseXml, CloseStream, Books
  <2>2. CASE f.class = "xlsx"
    BY <2>2 DEF Close, CloseXlsx, CloseStream, Books
  <2>3. CASE f.class \notin Books
    BY <2>3 DEF Close, CloseStream, Books
  <2> QED
    BY <2>1, <2>2, <2>3 DEF Books
<1>2. out1 \in Seq(Items) /\ book1 \in Seq(Items) /\ {} \in Columns
  BY DEF FmtOK, Columns
<1>3. /\ h = [a \in Attributes |-> h[a]]
      /\ h.class = f.class /\ h.named = f.named /\ h.cursor = f.cursor
      /\ h.columns = f.columns /\ h.stream = f.stream /\ h.active = f.active
      /\ h.book = book1 /\ h.out = out1
  <2>1. CASE f.class \in Books
    <3> HIDE DEF out1
    <3> QED
      BY <1>0, <2>1 DEF Attributes
  <2>2. CASE f.class \notin Books
    BY <1>0, <2>2 DEF Books
  <2> QED
    BY <2>1, <2>2
<1> HIDE DEF h, out1, book1
<1>4. stream1 \in BOOLEAN
  OBVIOUS
<1> HIDE DEF stream1
<1>5. /\ g = [a \in Attributes |-> g[a]]
      /\ g.class = h.class /\ g.named = h.named /\ g.cursor = h.cursor
      /\ g.columns = {} /\ g.stream = stream1 /\ g.active = FALSE
      /\ g.book = h.book /\ g.out = h.out
  BY <1>3 DEF Attributes
<1> HIDE DEF g
<1>6. FmtOK(g)
  BY <1>2, <1>3, <1>4, <1>5 DEF FmtOK
<1>7. out1 = CASE f.class = "xml" /\ f.stream -> f.out \o f.book
               [] f.class = "xlsx" -> f.book
               [] OTHER -> f.out
  BY DEF out1
<1>8. Close(f).out = out1 /\ Close(f).book = book1
  BY <1>1, <1>3, <1>5
<1>9. FmtOK(Close(f)) /\ Close(f).class = f.class /\ Close(f).named = f.named
      /\ Close(f).cursor = f.cursor /\ ~Close(f).active
  BY <1>1, <1>3, <1>5, <1>6
<1> QED
  BY <1>7, <1>8, <1>9 DEF book1

-----------------------------------------------------------------------------
(***************************************************************************)
(* Sequences of items: where each row has the header of its query above    *)
(* it, and those that a row of a result with given columns may follow.     *)
(***************************************************************************)
Below(items, i, columns) ==
  \E h \in 1 .. i - 1 :
    /\ items[h] = HeaderOf(columns)
    /\ \A k \in h + 1 .. i - 1 : IsRow(items[k])

Headed(items, results) ==
  \A i \in DOMAIN items :
    IsRow(items[i]) =>
      /\ items[i].stmt \in DOMAIN results
      /\ Below(items, i, ColumnSet(results[items[i].stmt].labels))

\* The next item would stand below a header with these columns.
Continues(items, columns) == Below(items, Len(items) + 1, columns)

LEMMA BelowAppended ==
  ASSUME NEW items \in Seq(Items), NEW item, NEW columns,
         NEW i \in 1 .. Len(items) + 1
  PROVE  Below(Append(items, item), i, columns) <=> Below(items, i, columns)
<1> DEFINE more == Append(items, item)
<1>1. \A j \in 1 .. i - 1 : more[j] = items[j]
  OBVIOUS
<1>2. \A h \in 1 .. i - 1 : \A k \in h + 1 .. i - 1 : k \in 1 .. i - 1
  OBVIOUS
<1> HIDE DEF more
<1>3. Below(more, i, columns) <=> Below(items, i, columns)
  BY <1>1, <1>2 DEF Below
<1> QED
  BY <1>3 DEF more

LEMMA HeadedAppend ==
  ASSUME NEW items \in Seq(Items), NEW item, NEW results,
         Headed(items, results),
         IsRow(item) =>
           /\ item.stmt \in DOMAIN results
           /\ Continues(items, ColumnSet(results[item.stmt].labels))
  PROVE  Headed(Append(items, item), results)
<1> DEFINE more == Append(items, item)
<1>1. /\ Len(items) \in Nat /\ DOMAIN items = 1 .. Len(items)
      /\ DOMAIN more = 1 .. Len(items) + 1
      /\ \A i \in 1 .. Len(items) : more[i] = items[i]
      /\ more[Len(items) + 1] = item
  OBVIOUS
<1>2. \A i \in 1 .. Len(items) + 1 : \A columns :
        Below(items, i, columns) => Below(more, i, columns)
  BY BelowAppended
<1> HIDE DEF more
<1>3. ASSUME NEW i \in DOMAIN more, IsRow(more[i])
      PROVE  /\ more[i].stmt \in DOMAIN results
             /\ Below(more, i, ColumnSet(results[more[i].stmt].labels))
  <2>1. CASE i \in 1 .. Len(items)
    <3>1. more[i] = items[i] /\ i \in DOMAIN items /\ i \in 1 .. Len(items) + 1
      BY <1>1, <2>1
    <3>2. /\ items[i].stmt \in DOMAIN results
          /\ Below(items, i, ColumnSet(results[items[i].stmt].labels))
      BY <1>3, <3>1 DEF Headed
    <3> QED
      BY <1>2, <3>1, <3>2
  <2>2. CASE i = Len(items) + 1
    <3>1. more[i] = item /\ i \in 1 .. Len(items) + 1
      BY <1>1, <2>2
    <3>2. /\ item.stmt \in DOMAIN results
          /\ Below(items, i, ColumnSet(results[item.stmt].labels))
      BY <1>3, <2>2, <3>1 DEF Continues
    <3> QED
      BY <1>2, <3>1, <3>2
  <2> QED
    BY <1>1, <2>1, <2>2
<1>4. Headed(more, results)
  BY <1>3 DEF Headed
<1> QED
  BY <1>4 DEF more

LEMMA ContinuesAppend ==
  ASSUME NEW items \in Seq(Items), NEW item, NEW columns
  PROVE  /\ item = HeaderOf(columns) => Continues(Append(items, item), columns)
         /\ Continues(items, columns) /\ IsRow(item)
              => Continues(Append(items, item), columns)
<1> DEFINE more == Append(items, item)
           n == Len(items)
<1>1. n \in Nat /\ Len(more) = n + 1 /\ more[n + 1] = item
      /\ \A i \in 1 .. n : more[i] = items[i]
  OBVIOUS
<1> HIDE DEF more, n
<1>2. ASSUME item = HeaderOf(columns) PROVE Continues(more, columns)
  <2>1. n + 1 \in 1 .. (n + 2) - 1 /\ (n + 1) + 1 .. (n + 2) - 1 = {}
        /\ Len(more) + 1 = n + 2
    BY <1>1
  <2> QED
    BY <1>1, <1>2, <2>1 DEF Continues, Below
<1>3. ASSUME Continues(items, columns), IsRow(item) PROVE Continues(more, columns)
  <2>1. PICK h \in 1 .. n + 1 - 1 : /\ items[h] = HeaderOf(columns)
                                  /\ \A k \in h + 1 .. n + 1 - 1 : IsRow(items[k])
    BY <1>3 DEF Continues, Below, n
  <2>2. h \in 1 .. n /\ \A k \in h + 1 .. n : IsRow(items[k])
    BY <1>1, <2>1
  <2>3. h \in 1 .. Len(more) + 1 - 1 /\ more[h] = HeaderOf(columns)
    BY <1>1, <2>1, <2>2
  <2>4. ASSUME NEW k \in h + 1 .. Len(more) + 1 - 1 PROVE IsRow(more[k])
    <3>1. k \in h + 1 .. n \/ k = n + 1
      BY <1>1, <2>2
    <3>2. ASSUME k \in h + 1 .. n PROVE more[k] = items[k]
      BY <1>1, <2>2, <3>2
    <3> QED
      BY <1>1, <1>3, <2>2, <3>1, <3>2
  <2> QED
    BY <2>3, <2>4 DEF Continues, Below
<1> QED
  BY <1>2, <1>3 DEF more

LEMMA HeadedConcat ==
  ASSUME NEW a \in Seq(Items), NEW b \in Seq(Items), NEW results,
         Headed(a, results), Headed(b, results)
  PROVE  Headed(a \o b, results)
<1> DEFINE c == a \o b
           n == Len(a)
<1>1. /\ n \in Nat /\ Len(b) \in Nat /\ DOMAIN a = 1 .. n /\ DOMAIN b = 1 .. Len(b)
      /\ DOMAIN c = 1 .. n + Len(b)
      /\ \A i \in 1 .. n : c[i] = a[i]
      /\ \A i \in 1 .. Len(b) : c[n + i] = b[i]
  OBVIOUS
<1> HIDE DEF c, n
<1>2. ASSUME NEW i \in DOMAIN c, IsRow(c[i])
      PROVE  /\ c[i].stmt \in DOMAIN results
             /\ Below(c, i, ColumnSet(results[c[i].stmt].labels))
  <2>1. CASE i \in 1 .. n
    <3> DEFINE columns == ColumnSet(results[a[i].stmt].labels)
    <3>1. c[i] = a[i] /\ a[i].stmt \in DOMAIN results /\ Below(a, i, columns)
      BY <1>1, <1>2, <2>1 DEF Headed
    <3> HIDE DEF columns
    <3>2. \A j \in 1 .. i - 1 : c[j] = a[j]
      BY <1>1, <2>1
    <3>3. \A h \in 1 .. i - 1 : \A k \in h + 1 .. i - 1 : k \in 1 .. i - 1
      BY <1>1, <2>1
    <3>4. Below(c, i, columns)
      BY <3>1, <3>2, <3>3 DEF Below
    <3> QED
      BY <3>1, <3>4 DEF columns
  <2>2. CASE i \notin 1 .. n
    <3> DEFINE j == i - n
               columns == ColumnSet(results[b[j].stmt].labels)
    <3>1. j \in 1 .. Len(b) /\ i = n + j
      BY <1>1, <2>2
    <3> HIDE DEF j
    <3>2. c[i] = b[j] /\ b[j].stmt \in DOMAIN results /\ Below(b, j, columns)
      BY <1>1, <1>2, <3>1 DEF Headed
    <3> HIDE DEF columns
    <3>3. PICK h \in 1 .. j - 1 : /\ b[h] = HeaderOf(columns)
                                /\ \A k \in h + 1 .. j - 1 : IsRow(b[k])
      BY <3>2 DEF Below
    <3>4. n + h \in 1 .. i - 1 /\ h \in 1 .. Len(b) /\ c[n + h] = HeaderOf(columns)
      BY <1>1, <3>1, <3>3
    <3>5. ASSUME NEW k \in (n + h) + 1 .. i - 1 PROVE IsRow(c[k])
      <4>1. k - n \in h + 1 .. j - 1 /\ k - n \in 1 .. Len(b) /\ n + (k - n) = k
        BY <1>1, <3>1, <3>3
      <4> QED
        BY <1>1, <3>3, <4>1
    <3>6. Below(c, i, columns)
      BY <3>4, <3>5 DEF Below
    <3> QED
      BY <3>2, <3>6 DEF columns
  <2> QED
    BY <2>1, <2>2
<1>3. Headed(c, results)
  BY <1>2 DEF Headed
<1> QED
  BY <1>3 DEF c

LEMMA HeadedMore ==
  ASSUME NEW items, NEW results \in Seq(Results), NEW result \in Results,
         Headed(items, results)
  PROVE  Headed(items, Append(results, result))
<1>1. \A i \in DOMAIN results : /\ i \in DOMAIN Append(results, result)
                               /\ Append(results, result)[i] = results[i]
  OBVIOUS
<1> QED
  BY <1>1 DEF Headed

-----------------------------------------------------------------------------
(***************************************************************************)
(* Rows and headers. While a result is written the columns of the formatter*)
(* are those of the result on the cursor, which nothing else on the        *)
(* connection disturbs, and the destination ends with their header and the *)
(* rows below it.                                                          *)
(***************************************************************************)
Clean(f, results) ==
  /\ FmtOK(f)
  /\ f.class # "sql" => Headed(f.out, results) /\ Headed(f.book, results)

Ready(f) ==
  f.class # "sql" =>
    /\ f.class \in Books => Continues(f.book, f.columns)
    /\ f.class \notin Books /\ f.stream => Continues(f.out, f.columns)

Writing == {"open", "rows", "print"}

HeadInv ==
  /\ Clean(fmt, shown)
  /\ phase \in Writing /\ rs[cursor].stmt # 0 =>
       fmt.columns = ColumnSet(rs[cursor].labels)
  /\ phase \in {"rows", "print"} => Ready(fmt)
  /\ args.program = "sql-query" /\ sheet = 0 => fmt.cursor = NoneGiven

LEMMA ColumnsOfCursors ==
  ASSUME DataInv
  PROVE  /\ ColumnsOf \in [Cursors -> Columns]
         /\ \A c \in Cursors : ColumnsOf[c] = ColumnSet(rs[c].labels)
<1>1. \A c \in Cursors : rs[c].labels \in Labels
  BY DEF DataInv, HeldShape
<1>2. \A c \in Cursors : ColumnSet(rs[c].labels) \in Columns
  BY <1>1 DEF Columns
<1> QED
  BY <1>2 DEF ColumnsOf

LEMMA NothingHeaded ==
  ASSUME NEW results
  PROVE  Headed(<< >>, results) /\ Headed(<<Sheet>>, results)
<1>1. ~IsRow(Sheet)
  BY ItemKinds
<1> QED
  BY <1>1 DEF Headed

LEMMA HeaderReady ==
  ASSUME NEW f, NEW results, Clean(f, results)
  PROVE  /\ Clean(Header(f), results) /\ Ready(Header(f))
         /\ Header(f).columns = f.columns /\ Header(f).class = f.class
         /\ Header(f).cursor = f.cursor
<1> DEFINE g == Header(f)
           item == HeaderOf(f.columns)
<1>1. FmtOK(f)
  BY DEF Clean
<1>2. CASE f.class = "sql"
  <2>1. g = f
    BY <1>1, <1>2, HeaderIs
  <2> HIDE DEF g
  <2>2. Clean(g, results) /\ Ready(g)
    BY <1>2, <2>1 DEF Ready
  <2> QED
    BY <2>1, <2>2 DEF g
<1>3. CASE f.class # "sql"
  <2>1. Given(f, g, item)
    BY <1>1, <1>3, HeaderIs
  <2>2. item \in Items /\ ~IsRow(item)
    BY <1>1, ItemKinds DEF FmtOK
  <2>3. /\ f.out \in Seq(Items) /\ f.book \in Seq(Items)
        /\ Headed(f.out, results) /\ Headed(f.book, results)
    BY <1>1, <1>3 DEF Clean, FmtOK
  <2>4. /\ Headed(Append(f.out, item), results) /\ Headed(Append(f.book, item), results)
        /\ Continues(Append(f.out, item), f.columns)
        /\ Continues(Append(f.book, item), f.columns)
    BY <2>2, <2>3, HeadedAppend, ContinuesAppend
  <2> HIDE DEF g, item
  <2>5. Clean(g, results)
    BY <2>1, <2>3, <2>4 DEF Clean, Given
  <2>6. Ready(g)
    BY <2>1, <2>4 DEF Ready, Given
  <2> QED
    BY <2>1, <2>5, <2>6 DEF Given, g
<1> QED
  BY <1>2, <1>3

LEMMA OpenClean ==
  ASSUME DataInv, NEW f, NEW results, Clean(f, results), NEW c \in Cursors,
         f.class \in Books => f.cursor \in {NoneGiven, c},
         NEW append \in BOOLEAN
  PROVE  LET g == Open(f, c, ColumnsOf, append)
         IN /\ Clean(g, results) /\ g.columns = ColumnSet(rs[c].labels)
            /\ g.class = f.class /\ g.cursor = f.cursor
<1> DEFINE g == Open(f, c, ColumnsOf, append)
           out1 == IF f.named /\ ~append THEN << >> ELSE f.out
<1>1. FmtOK(f) /\ ColumnsOf \in [Cursors -> Columns]
      /\ ColumnsOf[c] = ColumnSet(rs[c].labels)
  BY ColumnsOfCursors DEF Clean
<1>2. f.class # "sql" => Headed(out1, results)
  BY NothingHeaded DEF Clean
<1>3. CASE f.class \in Books
  <2>1. /\ FmtOK(g) /\ g.class = f.class /\ g.cursor = f.cursor
        /\ g.columns = IF f.cursor = NoneGiven THEN ColumnsOf[c]
                       ELSE ColumnsOf[f.cursor]
        /\ g.book = <<Sheet>> /\ g.out = out1
    BY <1>1, <1>3, OpenBookIs
  <2>2. g.columns = ColumnSet(rs[c].labels)
    BY <1>1, <1>3, <2>1
  <2> HIDE DEF g, out1
  <2>3. Clean(g, results)
    BY <1>2, <2>1, NothingHeaded DEF Clean
  <2> QED
    BY <2>1, <2>2, <2>3 DEF g
<1>4. CASE f.class \notin Books
  <2>1. /\ FmtOK(g) /\ g.class = f.class /\ g.cursor = f.cursor
        /\ g.columns = ColumnsOf[c]
        /\ g.book = f.book /\ g.out = out1
    BY <1>1, <1>4, OpenTextIs
  <2> HIDE DEF g, out1
  <2>2. Clean(g, results)
    BY <1>2, <2>1 DEF Clean
  <2> QED
    BY <1>1, <2>1, <2>2 DEF g
<1> QED
  BY <1>3, <1>4

LEMMA SheetClean ==
  ASSUME DataInv, NEW f, NEW results, Clean(f, results), NEW c \in Cursors
  PROVE  LET g == NextSheet(f, c, ColumnsOf)
         IN /\ Clean(g, results) /\ g.columns = ColumnSet(rs[c].labels)
            /\ g.class = f.class
<1> DEFINE g == NextSheet(f, c, ColumnsOf)
<1>1. FmtOK(f) /\ ColumnsOf \in [Cursors -> Columns]
      /\ ColumnsOf[c] = ColumnSet(rs[c].labels)
  BY ColumnsOfCursors DEF Clean
<1>2. c # NoneGiven
  BY DEF Cursors, NoneGiven
<1>3. /\ FmtOK(g) /\ g.class = f.class /\ g.columns = ColumnsOf[c]
      /\ g.out = f.out /\ g.book = Append(f.book, Sheet)
  BY <1>1, <1>2, NextSheetIs
<1> HIDE DEF g
<1>4. f.class # "sql" => Headed(Append(f.book, Sheet), results)
  <2>1. f.book \in Seq(Items) /\ ~IsRow(Sheet)
    BY <1>1, ItemKinds DEF FmtOK
  <2> QED
    BY <2>1, HeadedAppend DEF Clean
<1>5. Clean(g, results)
  BY <1>3, <1>4 DEF Clean
<1> QED
  BY <1>1, <1>3, <1>5 DEF g

LEMMA CloseClean ==
  ASSUME NEW f, NEW results, Clean(f, results)
  PROVE  Clean(Close(f), results) /\ Close(f).class = f.class
         /\ Close(f).cursor = f.cursor
<1> DEFINE g == Close(f)
<1>1. FmtOK(f)
  BY DEF Clean
<1>2. /\ FmtOK(g) /\ g.class = f.class /\ g.cursor = f.cursor
      /\ g.book \in {<< >>, f.book}
      /\ g.out \in {f.out \o f.book, f.book, f.out}
  BY <1>1, CloseIs
<1> HIDE DEF g
<1>3. ASSUME f.class # "sql" PROVE Headed(g.out, results) /\ Headed(g.book, results)
  <2>1. Headed(f.out, results) /\ Headed(f.book, results)
        /\ f.out \in Seq(Items) /\ f.book \in Seq(Items)
    BY <1>1, <1>3 DEF Clean, FmtOK
  <2>2. Headed(f.out \o f.book, results)
    BY <2>1, HeadedConcat
  <2> QED
    BY <1>2, <2>1, <2>2, NothingHeaded
<1>4. Clean(g, results)
  BY <1>2, <1>3 DEF Clean
<1> QED
  BY <1>2, <1>4 DEF g

LEMMA WriteReady ==
  ASSUME NEW f, NEW results, Clean(f, results), Ready(f), NEW row \in Items,
         IsRow(row), row.stmt \in DOMAIN results,
         f.columns = ColumnSet(results[row.stmt].labels)
  PROVE  LET g == Write(f, row)
         IN /\ Clean(g, results) /\ Ready(g) /\ g.class = f.class
            /\ g.cursor = f.cursor /\ g.columns = f.columns
<1> DEFINE g == Write(f, row)
<1>1. FmtOK(f) /\ Given(f, g, row)
  BY WriteIs DEF Clean
<1> HIDE DEF g
<1>2. f.out \in Seq(Items) /\ f.book \in Seq(Items)
  BY <1>1 DEF FmtOK
<1>3. ASSUME f.class # "sql"
      PROVE  Headed(g.out, results) /\ Headed(g.book, results) /\ Ready(g)
  <2>1. Headed(f.out, results) /\ Headed(f.book, results)
    BY <1>3 DEF Clean
  <2>2. CASE f.class \in Books
    <3>1. Continues(f.book, f.columns)
      BY <1>3, <2>2 DEF Ready
    <3>2. Headed(Append(f.book, row), results)
          /\ Continues(Append(f.book, row), f.columns)
      BY <1>2, <2>1, <3>1, HeadedAppend, ContinuesAppend
    <3> QED
      BY <1>1, <2>1, <2>2, <3>2 DEF Given, Ready
  <2>3. CASE f.class \notin Books /\ f.stream
    <3>1. Continues(f.out, f.columns)
      BY <1>3, <2>3 DEF Ready
    <3>2. Headed(Append(f.out, row), results)
          /\ Continues(Append(f.out, row), f.columns)
      BY <1>2, <2>1, <3>1, HeadedAppend, ContinuesAppend
    <3> QED
      BY <1>1, <2>1, <2>3, <3>2 DEF Given, Ready
  <2>4. CASE f.class \notin Books /\ ~f.stream
    BY <1>1, <2>1, <2>4 DEF Given, Ready
  <2> QED
    BY <2>2, <2>3, <2>4
<1>4. Clean(g, results) /\ Ready(g)
  BY <1>1, <1>3 DEF Clean, Ready, Given
<1> QED
  BY <1>1, <1>4 DEF Given, g

LEMMA HeadInit == Init => HeadInv
<1> SUFFICES ASSUME Init PROVE HeadInv
  OBVIOUS
<1>1. phase \in {"idle", "parse"}
  BY DEF Init, ExportInit
<1>2. PICK class \in Classes, named \in BOOLEAN : fmt = NewFormatter(class, named)
  BY DEF Init, ExportInit
<1>3. FmtOK(fmt) /\ fmt.cursor = NoneGiven /\ fmt.book = << >> /\ fmt.out = << >>
  BY <1>2, NewFormatterIs
<1>4. Clean(fmt, shown)
  BY <1>3, NothingHeaded DEF Clean
<1> QED
  BY <1>1, <1>3, <1>4 DEF HeadInv, Writing

\* Nothing disturbs the result that is written.
Undisturbed ==
  /\ phase' = phase /\ cursor' = cursor
  /\ phase \in Writing => rs'[cursor] = rs[cursor]

\* The steps that leave the formatter alone.
LEMMA HeadStays ==
  ASSUME ShapeInv, HeadInv, fmt' = fmt, args' = args,
         \/ shown' = shown
         \/ \E result \in Results : shown' = Append(shown, result),
         Undisturbed \/ phase' \notin Writing,
         args.program = "sql-query" => sheet' = sheet
  PROVE  HeadInv'
<1>1. Clean(fmt, shown')
  <2>1. CASE shown' = shown
    BY <2>1 DEF HeadInv
  <2>2. CASE \E result \in Results : shown' = Append(shown, result)
    <3>1. PICK result \in Results : shown' = Append(shown, result)
      BY <2>2
    <3>2. shown \in Seq(Results) /\ Clean(fmt, shown)
      BY DEF ShapeInv, DataInv, HeadInv
    <3> QED
      BY <3>1, <3>2, HeadedMore DEF Clean
  <2> QED
    BY <2>1, <2>2
<1>2. CASE phase' \notin Writing
  BY <1>1, <1>2 DEF HeadInv, Writing
<1>3. CASE Undisturbed
  BY <1>1, <1>3 DEF HeadInv, Undisturbed, Writing
<1> QED
  BY <1>2, <1>3

\* A statement of somebody else, and the end of the transaction, while the
\* client is writing: its own result is on a kept cursor.
LEMMA OwnResult ==
  ASSUME ShapeInv, args.program = "client", phase \in Writing, MayIntrude
  PROVE  /\ Storage(cursor, TRUE) \in pool.cursors /\ cursor \in Cursors
         /\ CursorFor(pool, NoCursor, TRUE, FALSE) # cursor
         /\ cursor \notin PlainCursors(pool)
<1>1. phase # "idle" /\ phase # "written" /\ cursor \in Cursors /\ cursor \in Nat
  BY ShapeFacts DEF Writing, ShapeInv
<1>2. Storage(cursor, TRUE) \in pool.cursors /\ PoolOK(pool)
  BY <1>1 DEF MayIntrude, ShapeInv, DataInv
<1>3. CursorFor(pool, NoCursor, TRUE, FALSE) # cursor
  BY <1>1, <1>2, PlainStatement DEF NoCursor
<1>4. cursor \notin PlainCursors(pool)
  <2> SUFFICES ASSUME cursor \in PlainCursors(pool) PROVE FALSE
    OBVIOUS
  <2>1. PICK cs \in pool.cursors : ~cs.keep /\ cs.cursor = cursor
    BY DEF PlainCursors
  <2>2. Storage(cursor, TRUE).cursor = cursor /\ Storage(cursor, TRUE).keep = TRUE
    BY DEF Storage
  <2>3. cs = Storage(cursor, TRUE)
    BY <1>2, <2>1, <2>2 DEF PoolOK
  <2> QED
    BY <2>1, <2>2, <2>3
<1> QED
  BY <1>1, <1>2, <1>3, <1>4

\* A row of the client or of the program.
LEMMA HeadWriteRow ==
  ASSUME ShapeInv, HeadInv, phase \in {"rows", "print"}, cursor \in Cursors,
         WriteRow, UNCHANGED <<phase, shown, cursor, args, sheet>>
  PROVE  HeadInv'
<1> DEFINE r == rs[cursor]
           row == RowOf(r.stmt, r.next)
<1>1. /\ r.next <= r.rows /\ fmt' = Write(fmt, row)
      /\ rs' = [rs EXCEPT ![cursor].next = @ + 1]
  BY DEF WriteRow, HasRow
<1>2. r \in HeldShape /\ Holds(cursor, r, shown, pool)
  BY DEF ShapeInv, DataInv
<1>3. r.stmt # 0 /\ r.stmt \in Nat /\ r.next \in Nat
  BY <1>1, <1>2 DEF HeldShape, Holds
<1>4. r.stmt \in DOMAIN shown /\ r.labels = shown[r.stmt].labels
  BY <1>2, <1>3 DEF Holds
<1>5. fmt.columns = ColumnSet(r.labels) /\ Ready(fmt) /\ Clean(fmt, shown)
  BY <1>3 DEF HeadInv, Writing
<1>6. rs'[cursor].stmt = r.stmt /\ rs'[cursor].labels = r.labels
  <2>1. rs \in [Cursors -> HeldShape]
    BY DEF ShapeInv, DataInv
  <2>2. rs'[cursor] = [r EXCEPT !.next = @ + 1]
    BY <1>1, <2>1
  <2> HIDE DEF r
  <2> QED
    BY <1>2, <2>2 DEF HeldShape
<1>7. row \in Items /\ IsRow(row) /\ row.stmt = r.stmt
  BY <1>3, ItemKinds
<1> HIDE DEF r, row
<1>8. /\ Clean(fmt', shown) /\ Ready(fmt') /\ fmt'.columns = fmt.columns
      /\ fmt'.cursor = fmt.cursor
  BY <1>1, <1>4, <1>5, <1>7, WriteReady
<1>9. Clean(fmt', shown')
  BY <1>8
<1>10. fmt'.columns = ColumnSet(rs'[cursor'].labels)
  BY <1>5, <1>6, <1>8
<1> QED
  BY <1>8, <1>9, <1>10 DEF HeadInv, Writing

LEMMA HeadProgram ==
  ASSUME ShapeInv, HeadInv, args.program = "sql-query", Program
  PROVE  HeadInv'
<1>1. CASE ReadSelect
  <2>1. MeaningOf(Head(sqls)).result \in Results
    BY <1>1, HeadMeaning, SelectMeaning DEF ReadSelect, Reading
  <2>2. shown' = Append(shown, MeaningOf(Head(sqls)).result) /\ phase' \notin Writing
    BY <1>1 DEF ReadSelect, Reading, RunOn, Writing
  <2> QED
    BY <1>1, <2>1, <2>2, HeadStays DEF ReadSelect
<1>2. CASE ReadUpdate
  <2>1. shown' = Append(shown, Update) /\ phase' \notin Writing
    BY <1>2 DEF ReadUpdate, RunOn, Writing
  <2> QED
    BY <1>2, <2>1, SelectsAreResults, HeadStays DEF ReadUpdate
<1>3. CASE ReadFails \/ ReadEnd \/ CommitBatch \/ LastCommit \/ CommitRefused
  <2>1. /\ UNCHANGED <<fmt, shown, args, sheet>>
        /\ phase' \in {"settle", "parse", "done", "output", "crashed"}
    BY <1>3 DEF ReadFails, ReadEnd, CommitBatch, LastCommit, CommitRefused,
                AfterSettle, queryVars
  <2>2. phase' \notin Writing
    BY <2>1 DEF Writing
  <2> QED
    BY <2>1, <2>2, HeadStays
<1>4. CASE OutputRefused \/ PrintCrashes \/ PrintEnd \/ FetchFails
  <2>1. /\ UNCHANGED <<fmt, shown, args, sheet>>
        /\ phase' \in {"output", "crashed"}
    BY <1>4 DEF OutputRefused, PrintCrashes, PrintEnd, FetchFails, OutputFrame
  <2>2. phase' \notin Writing
    BY <2>1 DEF Writing
  <2> QED
    BY <2>1, <2>2, HeadStays
<1>5. CASE PrintRow
  BY <1>5, PrintedCursor, HeadWriteRow DEF PrintRow
<1>6. CASE FirstResult \/ FurtherSheet
  <2> DEFINE f == IF sheet = 0 THEN Open(fmt, NextCursor, ColumnsOf, FALSE)
                  ELSE IF fmt.class \in Books
                       THEN NextSheet(fmt, NextCursor, ColumnsOf)
                       ELSE Open(Close(fmt), NextCursor, ColumnsOf, TRUE)
  <2>1. /\ fmt' = Header(f) /\ phase' = "print" /\ cursor' = NextCursor
        /\ sheet' = sheet + 1 /\ UNCHANGED <<rs, shown, args>>
    <3>1. CASE FirstResult
      <4>1. sheet = 0 /\ StartOutput(Open(fmt, NextCursor, ColumnsOf, FALSE))
        BY <3>1 DEF FirstResult
      <4>2. f = Open(fmt, NextCursor, ColumnsOf, FALSE)
        BY <4>1
      <4> HIDE DEF f
      <4> QED
        BY <4>1, <4>2 DEF StartOutput, OutputFrame
    <3>2. CASE FurtherSheet
      <4>1. /\ sheet \in 1 .. Len(collected) - 1
            /\ StartOutput(IF fmt.class \in Books
                           THEN NextSheet(fmt, NextCursor, ColumnsOf)
                           ELSE Open(Close(fmt), NextCursor, ColumnsOf, TRUE))
        BY <3>2 DEF FurtherSheet
      <4>2. sheet # 0
        BY <4>1, ShapeFacts
      <4>3. f = IF fmt.class \in Books
                THEN NextSheet(fmt, NextCursor, ColumnsOf)
                ELSE Open(Close(fmt), NextCursor, ColumnsOf, TRUE)
        BY <4>2
      <4> HIDE DEF f
      <4> QED
        BY <4>1, <4>3 DEF StartOutput, OutputFrame
    <3> QED
      BY <1>6, <3>1, <3>2
  <2>2. ShapeInv' /\ sheet \in Nat
    BY <1>6, ShapeProgram, ShapeFacts DEF Program
  <2>3. NextCursor \in Cursors
    <3>1. cursor' \in Cursors
      <4>1. /\ collected' \in Seq(Cursors) /\ sheet' \in 0 .. Len(collected')
            /\ sheet' > 0 /\ cursor' = collected'[sheet']
        <5>1. args'.program = "sql-query"
          BY <2>1
        <5> QED
          BY <2>1, <2>2, <5>1 DEF ShapeInv, TypeOK
      <4> QED
        BY <4>1
    <3> QED
      BY <2>1, <3>1
  <2>4. Clean(fmt, shown) /\ DataInv
    BY DEF HeadInv, ShapeInv
  <2>5. Clean(f, shown) /\ f.columns = ColumnSet(rs[NextCursor].labels)
    <3>1. CASE sheet = 0
      <4>1. fmt.cursor = NoneGiven
        BY <3>1 DEF HeadInv
      <4>2. FALSE \in BOOLEAN
        OBVIOUS
      <4>3. LET g == Open(fmt, NextCursor, ColumnsOf, FALSE)
            IN Clean(g, shown) /\ g.columns = ColumnSet(rs[NextCursor].labels)
        BY <2>3, <2>4, <4>1, <4>2, OpenClean
      <4> QED
        BY <3>1, <4>3
    <3>2. CASE sheet # 0 /\ fmt.class \in Books
      <4>1. LET g == NextSheet(fmt, NextCursor, ColumnsOf)
            IN Clean(g, shown) /\ g.columns = ColumnSet(rs[NextCursor].labels)
        BY <2>3, <2>4, SheetClean
      <4> QED
        BY <3>2, <4>1
    <3>3. CASE sheet # 0 /\ fmt.class \notin Books
      <4>1. Clean(Close(fmt), shown) /\ Close(fmt).class \notin Books
        BY <2>4, <3>3, CloseClean
      <4>2. TRUE \in BOOLEAN
        OBVIOUS
      <4>3. LET g == Open(Close(fmt), NextCursor, ColumnsOf, TRUE)
            IN Clean(g, shown) /\ g.columns = ColumnSet(rs[NextCursor].labels)
        BY <2>3, <2>4, <4>1, <4>2, OpenClean
      <4> QED
        BY <3>3, <4>3
    <3> QED
      BY <3>1, <3>2, <3>3
  <2> HIDE DEF f
  <2>6. /\ Clean(fmt', shown) /\ Ready(fmt')
        /\ fmt'.columns = ColumnSet(rs[NextCursor].labels)
    BY <2>1, <2>5, HeaderReady
  <2>7. sheet' # 0
    BY <2>1, <2>2
  <2> QED
    BY <2>1, <2>6, <2>7 DEF HeadInv, Writing
<1>7. CASE FinishOutput
  <2>1. /\ fmt' = Close(fmt) /\ phase' = "done" /\ UNCHANGED <<shown, args, sheet>>
    BY <1>7 DEF FinishOutput, OutputFrame
  <2>2. Clean(fmt', shown) /\ fmt'.cursor = fmt.cursor
    BY <2>1, CloseClean DEF HeadInv
  <2> QED
    BY <2>1, <2>2 DEF HeadInv, Writing
<1> QED
  BY <1>1, <1>2, <1>3, <1>4, <1>5, <1>6, <1>7 DEF Program

LEMMA HeadClient ==
  ASSUME ~ReuseBooks, ShapeInv, HeadInv, args.program = "client", Client,
         UNCHANGED queryVars
  PROVE  HeadInv'
<1>0. args' = args /\ sheet' = sheet /\ args.program # "sql-query"
      /\ Clean(fmt, shown) /\ DataInv
  BY DEF queryVars, HeadInv, ShapeInv
<1>1. CASE Ask
  <2>1. PICK result \in Selects : shown' = Append(shown, result)
    BY <1>1 DEF Ask, RunOn
  <2>2. fmt' = fmt /\ phase' \notin Writing
    BY <1>1 DEF Ask, Writing
  <2> QED
    BY <1>0, <2>1, <2>2, SelectsAreResults, HeadStays
<1>2. CASE CallFormatter
  <2>1. PICK result \in Selects :
          /\ shown' = Append(shown, result)
          /\ RunOn(PoolFor(pool, NoCursor, TRUE, FALSE),
                   CursorFor(pool, NoCursor, TRUE, FALSE), result)
          /\ fmt' = [fmt EXCEPT !.cursor = CursorFor(pool, NoCursor, TRUE, FALSE)]
    BY <1>2 DEF CallFormatter, RunOn
  <2>2. phase' \notin Writing /\ Len(shown) < MaxAsked
    BY <1>2 DEF CallFormatter, Writing
  <2> DEFINE c == CursorFor(pool, NoCursor, TRUE, FALSE)
  <2>3. result \in Results /\ c \in Cursors
    BY <2>1, <2>2, SelectsAreResults, ShapePlainStatement
  <2> HIDE DEF c
  <2>4. FmtOK(fmt') /\ fmt'.class = fmt.class /\ fmt'.out = fmt.out
        /\ fmt'.book = fmt.book
    <3>1. fmt = [a \in Attributes |-> fmt[a]] /\ FmtOK(fmt)
      BY <1>0 DEF Clean, FmtOK
    <3>2. /\ fmt' = [a \in Attributes |-> fmt'[a]]
          /\ fmt'.class = fmt.class /\ fmt'.named = fmt.named /\ fmt'.cursor = c
          /\ fmt'.columns = fmt.columns /\ fmt'.stream = fmt.stream
          /\ fmt'.active = fmt.active /\ fmt'.book = fmt.book /\ fmt'.out = fmt.out
      <4>1. fmt' = [fmt EXCEPT !.cursor = c]
        BY <2>1 DEF c
      <4> QED
        BY <3>1, <4>1 DEF Attributes
    <3> QED
      BY <2>3, <3>1, <3>2 DEF FmtOK
  <2>5. shown \in Seq(Results)
    BY <1>0 DEF DataInv
  <2>6. Clean(fmt', shown')
    BY <1>0, <2>1, <2>3, <2>4, <2>5, HeadedMore DEF Clean
  <2> QED
    BY <1>0, <2>2, <2>6 DEF HeadInv, Writing
<1>3. CASE OpenFile
  <2>1. PICK append \in BOOLEAN : fmt' = Open(fmt, cursor, ColumnsOf, append)
    BY <1>3 DEF OpenFile, OpenWith
  <2>2. /\ phase' = "open" /\ UNCHANGED <<rs, shown, cursor>> /\ cursor \in Cursors
        /\ ~StaleBook
    BY <1>3 DEF OpenFile, ShapeInv
  <2>3. Clean(fmt', shown) /\ fmt'.columns = ColumnSet(rs[cursor].labels)
    BY <1>0, <2>1, <2>2, OpenClean DEF StaleBook
  <2> QED
    BY <1>0, <2>2, <2>3 DEF HeadInv, Writing
<1>4. CASE OpenRefused
  BY <1>0, <1>4, HeadStays DEF OpenRefused, Writing
<1>5. CASE NewSheet
  <2>1. /\ fmt' = NextSheet(fmt, cursor, ColumnsOf) /\ phase' = "open"
        /\ UNCHANGED <<rs, shown, cursor>> /\ cursor \in Cursors
    BY <1>5 DEF NewSheet, ShapeInv
  <2>2. Clean(fmt', shown) /\ fmt'.columns = ColumnSet(rs[cursor].labels)
    BY <1>0, <2>1, SheetClean
  <2> QED
    BY <1>0, <2>1, <2>2 DEF HeadInv, Writing
<1>6. CASE WriteHeader
  <2>1. /\ fmt' = Header(fmt) /\ phase = "open" /\ phase' = "rows"
        /\ UNCHANGED <<rs, shown, cursor>>
    BY <1>6 DEF WriteHeader
  <2>2. Clean(fmt', shown) /\ Ready(fmt') /\ fmt'.columns = fmt.columns
    BY <1>0, <2>1, HeaderReady
  <2> QED
    BY <1>0, <2>1, <2>2 DEF HeadInv, Writing
<1>7. CASE ClientRow
  <2>1. phase = "rows" /\ WriteRow /\ UNCHANGED <<phase, shown, cursor>>
        /\ cursor \in Cursors
    BY <1>7 DEF ClientRow, ShapeInv
  <2> QED
    BY <1>0, <2>1, HeadWriteRow
<1>8. CASE ClientRowsEnd
  BY <1>0, <1>8, HeadStays DEF ClientRowsEnd, Writing
<1>9. CASE RowRefused \/ CloseFile
  <2>1. /\ fmt' \in {fmt, Close(fmt)} /\ phase' \notin Writing /\ shown' = shown
    BY <1>9 DEF RowRefused, CloseFile, Writing
  <2>2. Clean(fmt', shown)
    BY <1>0, <2>1, CloseClean
  <2> QED
    BY <1>0, <2>1, <2>2 DEF HeadInv, Writing
<1>10. CASE OtherStatement
  <2>1. PICK result \in Selects \cup {Update} :
          RunOn(PoolFor(pool, NoCursor, TRUE, FALSE),
                CursorFor(pool, NoCursor, TRUE, FALSE), result)
    BY <1>10 DEF OtherStatement
  <2>2. MayIntrude /\ UNCHANGED <<phase, fmt, cursor>>
    BY <1>10 DEF OtherStatement
  <2>3. result \in Results /\ shown' = Append(shown, result)
    BY <2>1, SelectsAreResults DEF RunOn
  <2>4. phase \in Writing => rs'[cursor] = rs[cursor]
    <3> DEFINE c == CursorFor(pool, NoCursor, TRUE, FALSE)
               held == [stmt |-> Len(shown) + 1, labels |-> result.labels,
                        next |-> 1, rows |-> result.rows]
    <3>1. rs' = [rs EXCEPT ![c] = held]
      BY <2>1 DEF RunOn
    <3>2. rs \in [Cursors -> HeldShape]
      BY <1>0 DEF DataInv
    <3>3. phase \in Writing => c # cursor /\ cursor \in Cursors
      BY <2>2, OwnResult
    <3> HIDE DEF c, held
    <3> QED
      BY <3>1, <3>2, <3>3
  <2>5. Undisturbed
    BY <2>2, <2>4 DEF Undisturbed
  <2> QED
    BY <1>0, <2>2, <2>3, <2>5, HeadStays
<1>11. CASE EndTransaction
  <2>1. /\ MayIntrude /\ UNCHANGED <<phase, shown, fmt, cursor>>
        /\ rs' = Without(PlainCursors(pool))
    BY <1>11 DEF EndTransaction
  <2>2. phase \in Writing => rs'[cursor] = rs[cursor]
    BY <2>1, OwnResult DEF Without
  <2>3. Undisturbed
    BY <2>1, <2>2 DEF Undisturbed
  <2> QED
    BY <1>0, <2>1, <2>3, HeadStays
<1> QED
  BY <1>1, <1>2, <1>3, <1>4, <1>5, <1>6, <1>7, <1>8, <1>9, <1>10, <1>11 DEF Client

LEMMA HeadNext ==
  ASSUME ~ReuseBooks
  PROVE  ShapeInv /\ HeadInv /\ [Next]_vars => HeadInv'
<1> SUFFICES ASSUME ShapeInv, HeadInv, [Next]_vars PROVE HeadInv'
  OBVIOUS
<1>1. CASE args.program = "sql-query" /\ Program
  BY <1>1, HeadProgram
<1>2. CASE args.program = "client" /\ Client /\ UNCHANGED queryVars
  BY <1>2, HeadClient
<1>3. CASE UNCHANGED vars
  <2>1. UNCHANGED <<fmt, shown, phase, rs, cursor, args, sheet>>
    BY <1>3 DEF vars, exportVars, queryVars
  <2> QED
    BY <2>1 DEF HeadInv
<1> QED
  BY <1>1, <1>2, <1>3 DEF Next

\* Every row, in the file or held back for it, stands below the header of its
\* own query, whatever else is executed on the connection meanwhile: as long as
\* no xml or xlsx formatter that remembers a cursor is opened with another one.
THEOREM RowsBelowOwnHeader ==
  ASSUME ~ReuseBooks
  PROVE  Spec => []RowsUnderOwnHeader
<1>1. HeadInv => RowsUnderOwnHeader
  <2> SUFFICES ASSUME HeadInv PROVE RowsUnderOwnHeader
    OBVIOUS
  <2>1. ASSUME NEW items \in {fmt.out, fmt.book}, NEW i \in DOMAIN items,
               IsRow(items[i]), fmt.class # "sql"
        PROVE  Below(items, i, ColumnSet(shown[items[i].stmt].labels))
    BY <2>1 DEF HeadInv, Clean, Headed
  <2> QED
    BY <2>1 DEF RowsUnderOwnHeader, Below
<1> QED
  BY <1>1, ShapeInit, ShapeNext, HeadInit, HeadNext, PTL DEF Spec

-----------------------------------------------------------------------------
(***************************************************************************)
(* The rows of some statements among the items of a file: taken item by    *)
(* item, and so of a file and of what is added to it.                      *)
(***************************************************************************)
Wanted(item, stmts) == IsRow(item) /\ item.stmt \in stmts

Collected(F, items, stmts, i) ==
  IF i = 0 THEN << >>
  ELSE IF Wanted(items[i], stmts) THEN Append(F[i - 1], items[i]) ELSE F[i - 1]

Collects(F, items, stmts, n) ==
  F = [i \in 0 .. n |-> Collected(F, items, stmts, i)]

LEMMA CollectsExists ==
  ASSUME NEW items, NEW stmts
  PROVE  \A n \in Nat : \E F : Collects(F, items, stmts, n)
<1> DEFINE Has(n) == \E F : Collects(F, items, stmts, n)
           T == {n \in Nat : Has(n)}
<1>1. Has(0)
  <2> DEFINE F == [i \in 0 .. 0 |-> << >>]
  <2>1. F = [i \in 0 .. 0 |-> Collected(F, items, stmts, i)]
    BY DEF Collected
  <2> HIDE DEF F
  <2> QED
    BY <2>1 DEF Collects
<1>2. ASSUME NEW n \in Nat, Has(n) PROVE Has(n + 1)
  <2>1. PICK F : Collects(F, items, stmts, n)
    BY <1>2
  <2> DEFINE next == Collected(F, items, stmts, n + 1)
             G == [i \in 0 .. n + 1 |-> IF i = n + 1 THEN next ELSE F[i]]
  <2>2. ASSUME NEW i \in 0 .. n + 1
        PROVE  G[i] = Collected(G, items, stmts, i)
    <3>1. CASE i = n + 1
      <4>1. n \in 0 .. n + 1 /\ n # n + 1 /\ n + 1 - 1 = n /\ n + 1 # 0
        OBVIOUS
      <4>2. G[n] = F[n] /\ G[i] = next
        BY <3>1, <4>1
      <4> HIDE DEF G
      <4> QED
        BY <3>1, <4>1, <4>2 DEF Collected
    <3>2. CASE i # n + 1
      <4>1. i \in 0 .. n /\ (i # 0 => i - 1 \in 0 .. n)
        BY <3>2
      <4>2. G[i] = F[i] /\ (i # 0 => G[i - 1] = F[i - 1])
        BY <3>2, <4>1
      <4>3. F[i] = Collected(F, items, stmts, i)
        BY <2>1, <4>1 DEF Collects
      <4> HIDE DEF G
      <4> QED
        BY <4>2, <4>3 DEF Collected
    <3> QED
      BY <3>1, <3>2
  <2>3. G = [i \in 0 .. n + 1 |-> Collected(G, items, stmts, i)]
    <3>1. G = [i \in 0 .. n + 1 |-> G[i]]
      OBVIOUS
    <3> HIDE DEF G
    <3> QED
      BY <2>2, <3>1
  <2> HIDE DEF G
  <2> QED
    BY <2>3 DEF Collects
<1> HIDE DEF Has
<1>3. Nat \subseteq T
  <2>1. 0 \in T /\ \A n \in Nat : n \in T => n + 1 \in T
    BY <1>1, <1>2
  <2> HIDE DEF T
  <2> QED
    BY <2>1, Induction
<1> QED
  BY <1>3 DEF Has

\* The collections of two files agree as far as the files do.
LEMMA CollectsAgree ==
  ASSUME NEW items, NEW more, NEW stmts, NEW F, NEW G, NEW n \in Nat,
         NEW m \in Nat, n <= m,
         Collects(F, items, stmts, n), Collects(G, more, stmts, m),
         \A i \in 1 .. n : more[i] = items[i]
  PROVE  \A i \in 0 .. n : F[i] = G[i]
<1> DEFINE T == {i \in Nat : i <= n => F[i] = G[i]}
<1>1. \A i \in 0 .. n : /\ F[i] = Collected(F, items, stmts, i)
                        /\ G[i] = Collected(G, more, stmts, i)
  <2>1. \A i \in 0 .. n : i \in 0 .. m
    OBVIOUS
  <2> QED
    BY <2>1 DEF Collects
<1>2. 0 \in T
  <2>1. 0 \in 0 .. n
    OBVIOUS
  <2> QED
    BY <1>1, <2>1 DEF Collected
<1>3. ASSUME NEW i \in Nat, i \in T PROVE i + 1 \in T
  <2> SUFFICES ASSUME i + 1 <= n PROVE F[i + 1] = G[i + 1]
    OBVIOUS
  <2>1. F[i] = G[i] /\ i + 1 \in 1 .. n /\ i + 1 \in 0 .. n /\ i + 1 - 1 = i
        /\ i + 1 # 0
    BY <1>3
  <2>2. more[i + 1] = items[i + 1]
    BY <2>1
  <2> QED
    BY <1>1, <2>1, <2>2 DEF Collected
<1>4. Nat \subseteq T
  <2> HIDE DEF T
  <2> QED
    BY <1>2, <1>3, Induction
<1> QED
  BY <1>4

LEMMA RowsOfIs ==
  ASSUME NEW items \in Seq(Items), NEW stmts, NEW F,
         Collects(F, items, stmts, Len(items))
  PROVE  RowsOf(items, stmts) = F[Len(items)]
<1> DEFINE G == CHOOSE G : G = [i \in 0 .. Len(items) |->
                                 IF i = 0 THEN << >>
                                 ELSE IF IsRow(items[i]) /\ items[i].stmt \in stmts
                                      THEN Append(G[i - 1], items[i])
                                      ELSE G[i - 1]]
<1>1. RowsOf(items, stmts) = G[Len(items)]
  BY DEF RowsOf
<1>2. Collects(G, items, stmts, Len(items))
  BY DEF Collects, Collected, Wanted
<1> HIDE DEF G
<1>3. Len(items) \in Nat /\ Len(items) \in 0 .. Len(items)
  OBVIOUS
<1>4. F[Len(items)] = G[Len(items)]
  BY <1>2, <1>3, CollectsAgree
<1> QED
  BY <1>1, <1>4

LEMMA RowsOfNone ==
  ASSUME NEW stmts
  PROVE  RowsOf(<< >>, stmts) = << >>
<1>1. Len(<< >>) = 0 /\ << >> \in Seq(Items) /\ 0 \in 0 .. 0
  OBVIOUS
<1>2. PICK F : Collects(F, << >>, stmts, 0)
  BY CollectsExists
<1>3. F[0] = << >>
  BY <1>1, <1>2 DEF Collects, Collected
<1> QED
  BY <1>1, <1>2, <1>3, RowsOfIs

LEMMA RowsOfAppend ==
  ASSUME NEW items \in Seq(Items), NEW item \in Items, NEW stmts
  PROVE  RowsOf(Append(items, item), stmts) =
           IF Wanted(item, stmts) THEN Append(RowsOf(items, stmts), item)
           ELSE RowsOf(items, stmts)
<1> DEFINE more == Append(items, item)
           n == Len(items)
<1>1. /\ more \in Seq(Items) /\ n \in Nat /\ Len(more) = n + 1
      /\ \A i \in 1 .. n : more[i] = items[i]
      /\ more[n + 1] = item
      /\ n <= n + 1 /\ n + 1 \in Nat /\ n \in 0 .. n /\ n + 1 \in 0 .. n + 1
      /\ n + 1 # 0 /\ n + 1 - 1 = n
  OBVIOUS
<1>2. PICK F : Collects(F, items, stmts, n)
  BY <1>1, CollectsExists
<1>3. PICK G : Collects(G, more, stmts, n + 1)
  BY <1>1, CollectsExists
<1> HIDE DEF more
<1>4. F[n] = G[n]
  BY <1>1, <1>2, <1>3, CollectsAgree
<1>5. RowsOf(items, stmts) = F[n] /\ RowsOf(more, stmts) = G[n + 1]
  BY <1>1, <1>2, <1>3, RowsOfIs
<1>6. G[n + 1] = IF Wanted(item, stmts) THEN Append(G[n], item) ELSE G[n]
  <2>1. G[n + 1] = Collected(G, more, stmts, n + 1)
    BY <1>1, <1>3 DEF Collects
  <2> QED
    BY <1>1, <2>1 DEF Collected
<1> QED
  BY <1>4, <1>5, <1>6 DEF more

LEMMA RowsOfSeq ==
  ASSUME NEW items \in Seq(Items), NEW stmts
  PROVE  RowsOf(items, stmts) \in Seq(Items)
<1> DEFINE T == {n \in Nat : \A s \in Seq(Items) :
                   Len(s) = n => RowsOf(s, stmts) \in Seq(Items)}
<1>1. 0 \in T
  <2>1. \A s \in Seq(Items) : Len(s) = 0 => s = << >>
    OBVIOUS
  <2> QED
    BY <2>1, RowsOfNone
<1>2. ASSUME NEW n \in Nat, n \in T PROVE n + 1 \in T
  <2> SUFFICES ASSUME NEW s \in Seq(Items), Len(s) = n + 1
               PROVE  RowsOf(s, stmts) \in Seq(Items)
    OBVIOUS
  <2> DEFINE front == SubSeq(s, 1, n)
             item == s[n + 1]
  <2>1. /\ front \in Seq(Items) /\ Len(front) = n /\ item \in Items
        /\ s = Append(front, item)
    OBVIOUS
  <2>2. RowsOf(front, stmts) \in Seq(Items)
    BY <1>2, <2>1
  <2> HIDE DEF front, item
  <2>3. RowsOf(s, stmts) = IF Wanted(item, stmts)
                           THEN Append(RowsOf(front, stmts), item)
                           ELSE RowsOf(front, stmts)
    BY <2>1, RowsOfAppend
  <2> QED
    BY <2>1, <2>2, <2>3
<1>3. Nat \subseteq T
  <2> HIDE DEF T
  <2> QED
    BY <1>1, <1>2, Induction
<1> QED
  BY <1>3

LEMMA RowsOfConcat ==
  ASSUME NEW s \in Seq(Items), NEW t \in Seq(Items), NEW stmts
  PROVE  RowsOf(s \o t, stmts) = RowsOf(s, stmts) \o RowsOf(t, stmts)
<1> DEFINE Joined(u) == RowsOf(s \o u, stmts) = RowsOf(s, stmts) \o RowsOf(u, stmts)
           T == {n \in Nat : \A u \in Seq(Items) : Len(u) = n => Joined(u)}
<1>1. 0 \in T
  <2> SUFFICES ASSUME NEW u \in Seq(Items), Len(u) = 0 PROVE Joined(u)
    OBVIOUS
  <2>1. u = << >> /\ s \o u = s
    OBVIOUS
  <2>2. RowsOf(u, stmts) = << >> /\ RowsOf(s, stmts) \in Seq(Items)
    BY <2>1, RowsOfNone, RowsOfSeq
  <2> QED
    BY <2>1, <2>2
<1>2. ASSUME NEW n \in Nat, n \in T PROVE n + 1 \in T
  <2> SUFFICES ASSUME NEW u \in Seq(Items), Len(u) = n + 1 PROVE Joined(u)
    OBVIOUS
  <2> DEFINE front == SubSeq(u, 1, n)
             item == u[n + 1]
  <2>1. /\ front \in Seq(Items) /\ Len(front) = n /\ item \in Items
        /\ u = Append(front, item)
    OBVIOUS
  <2>2. Joined(front)
    BY <1>2, <2>1
  <2> HIDE DEF front, item
  <2>3. s \o u = Append(s \o front, item) /\ s \o front \in Seq(Items)
    BY <2>1
  <2>4. RowsOf(s \o u, stmts) = IF Wanted(item, stmts)
                                THEN Append(RowsOf(s \o front, stmts), item)
                                ELSE RowsOf(s \o front, stmts)
    <3> DEFINE head == s \o front
    <3>1. head \in Seq(Items) /\ s \o u = Append(head, item)
      BY <2>3
    <3> HIDE DEF head
    <3>2. RowsOf(s \o u, stmts) = IF Wanted(item, stmts)
                                  THEN Append(RowsOf(head, stmts), item)
                                  ELSE RowsOf(head, stmts)
      BY <2>1, <3>1, RowsOfAppend
    <3> QED
      BY <3>2 DEF head
  <2>5. RowsOf(u, stmts) = IF Wanted(item, stmts)
                           THEN Append(RowsOf(front, stmts), item)
                           ELSE RowsOf(front, stmts)
    BY <2>1, RowsOfAppend
  <2>6. RowsOf(s, stmts) \in Seq(Items) /\ RowsOf(front, stmts) \in Seq(Items)
    BY <2>1, RowsOfSeq
  <2>7. \A a, b \in Seq(Items) : a \o Append(b, item) = Append(a \o b, item)
    BY <2>1
  <2> QED
    BY <2>2, <2>4, <2>5, <2>6, <2>7
<1> HIDE DEF Joined
<1>3. Nat \subseteq T
  <2> HIDE DEF T
  <2> QED
    BY <1>1, <1>2, Induction
<1>4. Joined(t)
  BY <1>3
<1> QED
  BY <1>4 DEF Joined

(***************************************************************************)
(* The file of the client: between two uses it holds what was written;     *)
(* during one, xml and xlsx still hold back what they have been given.     *)
(***************************************************************************)
Saved(f, given0) == RowsOf(f.out, Nat) = given0 /\ f.book = << >>

HeldBack(f, given0) ==
  /\ f.class \notin Books =>
       f.stream /\ f.book = << >> /\ RowsOf(f.out, Nat) = given0
  /\ f.class = "xml" =>
       f.stream /\ RowsOf(f.out, Nat) \o RowsOf(f.book, Nat) = given0
  /\ f.class = "xlsx" => RowsOf(f.book, Nat) = given0

LEMMA NotARow ==
  ASSUME NEW items \in Seq(Items), NEW item \in Items, ~IsRow(item)
  PROVE  RowsOf(Append(items, item), Nat) = RowsOf(items, Nat)
<1>1. ~Wanted(item, Nat)
  BY DEF Wanted
<1>2. RowsOf(Append(items, item), Nat) =
        IF Wanted(item, Nat) THEN Append(RowsOf(items, Nat), item)
        ELSE RowsOf(items, Nat)
  BY RowsOfAppend
<1> QED
  BY <1>1, <1>2

LEMMA OpenHolds ==
  ASSUME NEW f, FmtOK(f), NEW given0, Saved(f, given0), NEW c \in Cursors,
         NEW columnsOf \in [Cursors -> Columns], NEW append \in BOOLEAN
  PROVE  LET g == Open(f, c, columnsOf, append)
             given1 == IF f.class = "xlsx" \/ (f.named /\ ~append)
                       THEN << >> ELSE given0
         IN FmtOK(g) /\ g.class = f.class /\ HeldBack(g, given1)
<1> DEFINE g == Open(f, c, columnsOf, append)
           given1 == IF f.class = "xlsx" \/ (f.named /\ ~append)
                     THEN << >> ELSE given0
           kept == IF f.named /\ ~append THEN << >> ELSE f.out
<1>1. /\ kept \in Seq(Items) /\ f.out \in Seq(Items)
      /\ RowsOf(kept, Nat) = IF f.named /\ ~append THEN << >> ELSE given0
      /\ RowsOf(kept, Nat) \in Seq(Items)
  <2>1. f.out \in Seq(Items) /\ << >> \in Seq(Items)
    BY DEF FmtOK
  <2>2. RowsOf(<< >>, Nat) = << >> /\ RowsOf(f.out, Nat) = given0
        /\ RowsOf(f.out, Nat) \in Seq(Items)
    BY <2>1, RowsOfNone, RowsOfSeq DEF Saved
  <2> QED
    BY <2>1, <2>2
<1> HIDE DEF kept
<1>2. CASE f.class \notin Books
  <2>1. /\ FmtOK(g) /\ g.class = f.class /\ g.stream /\ g.book = f.book
        /\ g.out = kept
    BY <1>2, OpenTextIs DEF kept
  <2>2. f.book = << >> /\ f.class # "xlsx" /\ f.class # "xml"
    BY <1>2 DEF Saved, Books
  <2> HIDE DEF g
  <2> QED
    BY <1>1, <1>2, <2>1, <2>2 DEF HeldBack, g
<1>3. CASE f.class \in Books
  <2>1. /\ FmtOK(g) /\ g.class = f.class /\ g.stream = (f.class = "xml")
        /\ g.book = <<Sheet>> /\ g.out = kept
    BY <1>3, OpenBookIs DEF kept
  <2>2. RowsOf(<<Sheet>>, Nat) = << >>
    <3>1. <<Sheet>> = Append(<< >>, Sheet) /\ << >> \in Seq(Items)
      OBVIOUS
    <3> QED
      BY <3>1, ItemKinds, NotARow, RowsOfNone
  <2>3. RowsOf(kept, Nat) \o << >> = RowsOf(kept, Nat)
    BY <1>1
  <2> HIDE DEF g
  <2> QED
    BY <1>1, <1>3, <2>1, <2>2, <2>3 DEF HeldBack, g
<1> QED
  BY <1>2, <1>3

LEMMA SheetHolds ==
  ASSUME NEW f, FmtOK(f), f.class \in Books, NEW given0, HeldBack(f, given0),
         NEW c \in Cursors, NEW columnsOf \in [Cursors -> Columns]
  PROVE  LET g == NextSheet(f, c, columnsOf)
         IN FmtOK(g) /\ g.class = f.class /\ HeldBack(g, given0)
<1> DEFINE g == NextSheet(f, c, columnsOf)
<1>1. /\ FmtOK(g) /\ g.class = f.class /\ g.stream = f.stream /\ g.out = f.out
      /\ g.book = Append(f.book, Sheet)
  BY NextSheetIs
<1>2. RowsOf(Append(f.book, Sheet), Nat) = RowsOf(f.book, Nat)
  BY ItemKinds, NotARow DEF FmtOK
<1> HIDE DEF g
<1>3. HeldBack(g, given0)
  BY <1>1, <1>2 DEF HeldBack
<1> QED
  BY <1>1, <1>3 DEF g

LEMMA HeaderHolds ==
  ASSUME NEW f, FmtOK(f), NEW given0, HeldBack(f, given0)
  PROVE  /\ FmtOK(Header(f)) /\ Header(f).class = f.class
         /\ HeldBack(Header(f), given0)
<1> DEFINE item == HeaderOf(f.columns)
           g == Header(f)
<1>1. item \in Items /\ ~IsRow(item)
  BY ItemKinds DEF FmtOK
<1>2. CASE f.class = "sql"
  BY <1>2, HeaderIs
<1>3. CASE f.class # "sql"
  <2>1. Given(f, g, item)
    BY <1>3, HeaderIs
  <2> HIDE DEF g, item
  <2>2. /\ RowsOf(Append(f.book, item), Nat) = RowsOf(f.book, Nat)
        /\ RowsOf(Append(f.out, item), Nat) = RowsOf(f.out, Nat)
    BY <1>1, NotARow DEF FmtOK
  <2>3. HeldBack(g, given0)
    BY <2>1, <2>2 DEF HeldBack, Given, Books
  <2> QED
    BY <2>1, <2>3 DEF g, Given
<1> QED
  BY <1>2, <1>3

LEMMA WriteHolds ==
  ASSUME NEW f, FmtOK(f), NEW given0 \in Seq(Items), HeldBack(f, given0),
         NEW row \in Items, IsRow(row), row.stmt \in Nat
  PROVE  /\ FmtOK(Write(f, row)) /\ Write(f, row).class = f.class
         /\ HeldBack(Write(f, row), Append(given0, row))
<1> DEFINE g == Write(f, row)
<1>1. Given(f, g, row)
  BY WriteIs
<1> HIDE DEF g
<1>2. f.book \in Seq(Items) /\ f.out \in Seq(Items)
  BY DEF FmtOK
<1>3. /\ RowsOf(Append(f.book, row), Nat) = Append(RowsOf(f.book, Nat), row)
      /\ RowsOf(Append(f.out, row), Nat) = Append(RowsOf(f.out, Nat), row)
  <2>1. Wanted(row, Nat)
    BY DEF Wanted
  <2> QED
    BY <1>2, <2>1, RowsOfAppend
<1>4. RowsOf(f.book, Nat) \in Seq(Items) /\ RowsOf(f.out, Nat) \in Seq(Items)
  BY <1>2, RowsOfSeq
<1>5. \A a, b \in Seq(Items) : a \o Append(b, row) = Append(a \o b, row)
  OBVIOUS
<1>6. HeldBack(g, Append(given0, row))
  <2>1. CASE f.class \notin Books
    BY <1>1, <1>3, <2>1 DEF HeldBack, Given, Books
  <2>2. CASE f.class = "xml"
    <3>1. /\ f.stream /\ g.stream = f.stream /\ g.class = "xml"
          /\ g.out = f.out /\ g.book = Append(f.book, row)
          /\ RowsOf(f.out, Nat) \o RowsOf(f.book, Nat) = given0
      BY <1>1, <2>2 DEF HeldBack, Given, Books
    <3>2. RowsOf(f.out, Nat) \o Append(RowsOf(f.book, Nat), row) = Append(given0, row)
      BY <1>4, <1>5, <3>1
    <3> QED
      BY <1>3, <3>1, <3>2 DEF HeldBack, Books
  <2>3. CASE f.class = "xlsx"
    BY <1>1, <1>3, <2>3 DEF HeldBack, Given, Books
  <2> QED
    BY <2>1, <2>2, <2>3 DEF Books
<1> QED
  BY <1>1, <1>6 DEF g, Given

LEMMA CloseSaves ==
  ASSUME NEW f, FmtOK(f), NEW given0, HeldBack(f, given0)
  PROVE  FmtOK(Close(f)) /\ Saved(Close(f), given0)
<1> DEFINE g == Close(f)
<1>1. /\ FmtOK(g)
      /\ g.book = IF f.class \in Books THEN << >> ELSE f.book
      /\ g.out = CASE f.class = "xml" /\ f.stream -> f.out \o f.book
                   [] f.class = "xlsx" -> f.book
                   [] OTHER -> f.out
  BY CloseIs
<1> HIDE DEF g
<1>2. f.book \in Seq(Items) /\ f.out \in Seq(Items)
  BY DEF FmtOK
<1>3. Saved(g, given0)
  <2>1. CASE f.class \notin Books
    BY <1>1, <2>1 DEF HeldBack, Saved, Books
  <2>2. CASE f.class = "xml"
    <3>1. g.book = << >> /\ g.out = f.out \o f.book
          /\ RowsOf(f.out, Nat) \o RowsOf(f.book, Nat) = given0
      BY <1>1, <2>2 DEF HeldBack, Books
    <3> QED
      BY <1>2, <3>1, RowsOfConcat DEF Saved
  <2>3. CASE f.class = "xlsx"
    BY <1>1, <2>3 DEF HeldBack, Saved, Books
  <2> QED
    BY <2>1, <2>2, <2>3 DEF Books
<1> QED
  BY <1>1, <1>3 DEF g

FileInv ==
  args.program = "client" =>
    /\ FmtOK(fmt) /\ given \in Seq(Items)
    /\ phase = "sheet" => fmt.class \in Books
    /\ IF phase \in {"idle", "asked", "called"} THEN Saved(fmt, given)
       ELSE HeldBack(fmt, given)

LEMMA FileInit == Init => FileInv
<1> SUFFICES ASSUME Init, args.program = "client" PROVE FileInv
  BY DEF FileInv
<1>1. ExportInit
  BY DEF Init
<1>2. PICK class \in Classes, named \in BOOLEAN : fmt = NewFormatter(class, named)
  BY <1>1 DEF ExportInit
<1>3. FmtOK(fmt) /\ fmt.book = << >> /\ fmt.out = << >>
  BY <1>2, NewFormatterIs
<1>4. phase = "idle" /\ given = << >>
  BY <1>1 DEF ExportInit
<1>5. Saved(fmt, given)
  BY <1>3, <1>4, RowsOfNone DEF Saved
<1> QED
  BY <1>3, <1>4, <1>5 DEF FileInv

LEMMA FileRow ==
  ASSUME ShapeInv, FileInv, args.program = "client", ClientRow, args' = args
  PROVE  FileInv'
<1> DEFINE r == rs[cursor]
           row == RowOf(r.stmt, r.next)
<1>1. /\ phase = "rows" /\ phase' = phase /\ cursor \in Cursors
      /\ fmt' = Write(fmt, row) /\ given' = Append(given, row)
  BY DEF ClientRow, WriteRow, ShapeInv
<1>2. r.stmt \in Nat /\ r.next \in Nat
  <2>1. r \in HeldShape
    BY <1>1 DEF ShapeInv, DataInv
  <2> HIDE DEF r
  <2> QED
    BY <2>1 DEF HeldShape
<1>3. row \in Items /\ IsRow(row) /\ row.stmt \in Nat
  BY <1>2, ItemKinds
<1> HIDE DEF row
<1>4. FmtOK(fmt) /\ given \in Seq(Items) /\ HeldBack(fmt, given)
  BY <1>1 DEF FileInv
<1>5. FmtOK(fmt') /\ HeldBack(fmt', given') /\ given' \in Seq(Items)
  BY <1>1, <1>3, <1>4, WriteHolds
<1> QED
  BY <1>1, <1>5 DEF FileInv

LEMMA FileClient ==
  ASSUME ShapeInv, FileInv, args.program = "client", Client,
         UNCHANGED queryVars
  PROVE  FileInv'
<1>0. args' = args /\ FmtOK(fmt) /\ given \in Seq(Items)
      /\ ColumnsOf \in [Cursors -> Columns]
  BY ColumnsOfCursors DEF queryVars, FileInv, ShapeInv
<1>1. CASE Ask
  <2>1. /\ fmt' = fmt /\ given' = given
        /\ phase = "idle" => phase' = "asked"
        /\ phase # "idle" =>
             phase = "written" /\ phase' = "sheet" /\ fmt.class \in Books
    BY <1>1 DEF Ask
  <2> QED
    BY <1>0, <2>1 DEF FileInv
<1>2. CASE CallFormatter
  <2> DEFINE c == CursorFor(pool, NoCursor, TRUE, FALSE)
  <2>1. /\ phase = "idle" /\ phase' = "called" /\ given' = given
        /\ fmt' = [fmt EXCEPT !.cursor = c] /\ Len(shown) < MaxAsked
        /\ \E result \in Selects : RunOn(PoolFor(pool, NoCursor, TRUE, FALSE), c, result)
    BY <1>2 DEF CallFormatter
  <2>2. c \in Cursors
    BY <2>1, SelectsAreResults, ShapePlainStatement
  <2> HIDE DEF c
  <2>3. fmt = [a \in Attributes |-> fmt[a]]
    BY <1>0 DEF FmtOK
  <2>4. /\ fmt' = [a \in Attributes |-> fmt'[a]]
        /\ fmt'.class = fmt.class /\ fmt'.named = fmt.named /\ fmt'.cursor = c
        /\ fmt'.columns = fmt.columns /\ fmt'.stream = fmt.stream
        /\ fmt'.active = fmt.active /\ fmt'.book = fmt.book /\ fmt'.out = fmt.out
    BY <2>1, <2>3 DEF Attributes
  <2>5. FmtOK(fmt')
    BY <1>0, <2>2, <2>4 DEF FmtOK
  <2>6. Saved(fmt', given')
    BY <2>1, <2>4 DEF FileInv, Saved
  <2> QED
    BY <1>0, <2>1, <2>5, <2>6 DEF FileInv
<1>3. CASE OpenFile
  <2>1. PICK append \in BOOLEAN :
          /\ fmt' = Open(fmt, cursor, ColumnsOf, append)
          /\ given' = IF fmt.class = "xlsx" \/ (fmt.named /\ ~append)
                      THEN << >> ELSE given
    BY <1>3 DEF OpenFile, OpenWith
  <2>2. phase \in {"asked", "called"} /\ phase' = "open" /\ cursor \in Cursors
    BY <1>3 DEF OpenFile, ShapeInv
  <2>3. Saved(fmt, given)
    BY <2>2 DEF FileInv
  <2>4. FmtOK(fmt') /\ HeldBack(fmt', given')
    BY <1>0, <2>1, <2>2, <2>3, OpenHolds
  <2>5. given' \in Seq(Items)
    BY <1>0, <2>1
  <2> QED
    BY <2>2, <2>4, <2>5 DEF FileInv
<1>4. CASE OpenRefused
  <2>1. phase \in {"asked", "called"} /\ phase' = "idle" /\ UNCHANGED <<fmt, given>>
    BY <1>4 DEF OpenRefused
  <2> QED
    BY <1>0, <2>1 DEF FileInv
<1>5. CASE NewSheet
  <2>1. /\ phase = "sheet" /\ phase' = "open" /\ given' = given
        /\ fmt' = NextSheet(fmt, cursor, ColumnsOf) /\ cursor \in Cursors
    BY <1>5 DEF NewSheet, ShapeInv
  <2>2. fmt.class \in Books /\ HeldBack(fmt, given)
    BY <2>1 DEF FileInv
  <2>3. FmtOK(fmt') /\ HeldBack(fmt', given')
    BY <1>0, <2>1, <2>2, SheetHolds
  <2> QED
    BY <1>0, <2>1, <2>3 DEF FileInv
<1>6. CASE WriteHeader
  <2>1. phase = "open" /\ phase' = "rows" /\ given' = given /\ fmt' = Header(fmt)
    BY <1>6 DEF WriteHeader
  <2>2. FmtOK(fmt') /\ HeldBack(fmt', given')
    BY <1>0, <2>1, HeaderHolds DEF FileInv
  <2> QED
    BY <1>0, <2>1, <2>2 DEF FileInv
<1>7. CASE ClientRow
  BY <1>0, <1>7, FileRow
<1>8. CASE ClientRowsEnd
  <2>1. phase = "rows" /\ phase' = "written" /\ UNCHANGED <<fmt, given>>
    BY <1>8 DEF ClientRowsEnd
  <2> QED
    BY <1>0, <2>1 DEF FileInv
<1>9. CASE RowRefused \/ CloseFile
  <2>1. /\ phase \in {"rows", "written"} /\ given' = given
        /\ \/ fmt' = Close(fmt) /\ phase' = "idle"
           \/ fmt' = fmt /\ phase' = "failed"
    BY <1>9 DEF RowRefused, CloseFile
  <2>2. HeldBack(fmt, given)
    BY <2>1 DEF FileInv
  <2>3. CASE fmt' = Close(fmt) /\ phase' = "idle"
    BY <1>0, <2>1, <2>2, <2>3, CloseSaves DEF FileInv
  <2>4. CASE fmt' = fmt /\ phase' = "failed"
    BY <1>0, <2>1, <2>2, <2>4 DEF FileInv
  <2> QED
    BY <2>1, <2>3, <2>4
<1>10. CASE OtherStatement \/ EndTransaction
  <2>1. UNCHANGED <<phase, fmt, given>>
    BY <1>10 DEF OtherStatement, EndTransaction
  <2> QED
    BY <1>0, <2>1 DEF FileInv
<1> QED
  BY <1>1, <1>2, <1>3, <1>4, <1>5, <1>6, <1>7, <1>8, <1>9, <1>10 DEF Client

LEMMA FileNext == ShapeInv /\ FileInv /\ [Next]_vars => FileInv'
<1> SUFFICES ASSUME ShapeInv, FileInv, [Next]_vars PROVE FileInv'
  OBVIOUS
<1>1. CASE args.program = "sql-query" /\ Program
  <2>1. args'.program = "sql-query"
    BY <1>1 DEF Program, ReadSelect, ReadUpdate, ReadFails, ReadEnd, CommitBatch,
                LastCommit, CommitRefused, FirstResult, FurtherSheet, StartOutput,
                OutputRefused, PrintRow, PrintCrashes, PrintEnd, FetchFails,
                FinishOutput, OutputFrame, queryVars
  <2> QED
    BY <2>1 DEF FileInv
<1>2. CASE args.program = "client" /\ Client /\ UNCHANGED queryVars
  BY <1>2, FileClient
<1>3. CASE UNCHANGED vars
  <2>1. UNCHANGED <<fmt, given, phase, args>>
    BY <1>3 DEF vars, exportVars, queryVars
  <2> QED
    BY <2>1 DEF FileInv
<1> QED
  BY <1>1, <1>2, <1>3 DEF Next

\* Whenever the client is between two uses of its formatter, also after one
\* that failed, the file holds every row written to it since it was created.
THEOREM FileHoldsWritten == Spec => []WrittenIsSaved
<1>1. ShapeInv /\ FileInv => WrittenIsSaved
  <2> SUFFICES ASSUME ShapeInv, FileInv, phase = "idle"
               PROVE  RowsOf(fmt.out, Nat) = given
    BY DEF WrittenIsSaved
  <2>1. args.program = "client"
    BY ShapeFacts DEF ShapeInv, ProgramPhases
  <2> QED
    BY <2>1 DEF FileInv, Saved
<1> QED
  BY <1>1, ShapeInit, ShapeNext, FileInit, FileNext, PTL DEF Spec


-----------------------------------------------------------------------------
(***************************************************************************)
(* The output of the program. The rows of a statement reach the file in    *)
(* the order of the cursor that holds its result; a query whose result was *)
(* overwritten or closed before it is printed leaves a place among the     *)
(* collected cursors that has none, or a cursor that is there twice, at    *)
(* which the program will stop.                                            *)
(***************************************************************************)
FirstRows(i, n) == [k \in 1 .. n |-> RowOf(i, k)]

NoRows(c) == rs[c].stmt = 0 \/ rs[c].labels = << >>

\* The results still to be written, the one being written included.
Left == {j \in DOMAIN collected : j > sheet \/ (j = sheet /\ phase = "print")}

Doomed ==
  \/ \E j \in Left : NoRows(collected[j])
  \/ \E j, k \in Left : j # k /\ collected[j] = collected[k]

Delivered(i) == RowsOf(given, {i}) = FirstRows(i, Asked(shown[i].rows))

Told(i) ==
  \/ Doomed
  \/ \E j \in Left : rs[collected[j]].stmt = i
  \/ Delivered(i) /\ \A c \in Cursors : rs[c].stmt # i

\* A book that is not closed yet has left no row in its file.
Unsaved(f) == f.class \in Books => RowsOf(f.out, Nat) = << >>

\* The file and what the formatter holds back are the rows in given.
FilePart ==
  /\ FmtOK(fmt) /\ given \in Seq(Items)
  /\ phase \in {"parse", "commit", "settle"} => sheet = 0
  /\ sheet = 0 => given = << >> /\ Saved(fmt, << >>)
  /\ sheet > 0 /\ phase \in {"output", "print", "crashed"} =>
       HeldBack(fmt, given) /\ Unsaved(fmt)
  /\ phase = "done" => sheet = Len(collected) /\ Saved(fmt, given)

\* A statement has its result on one cursor, and its rows are those the
\* cursor has delivered.
RowsPart ==
  /\ \A c, d \in Cursors : rs[c].stmt # 0 /\ rs[c].stmt = rs[d].stmt => c = d
  /\ \A c \in Cursors : rs[c].stmt # 0 =>
       RowsOf(given, {rs[c].stmt}) = FirstRows(rs[c].stmt, rs[c].next - 1)

StoryPart ==
  faults = 0 /\ phase # "crashed" =>
    /\ \A c \in Cursors :
         rs[c].stmt # 0 /\ rs[c].next # 1 => phase = "print" /\ c = cursor
    /\ phase = "print" =>
         IF NoRows(cursor) THEN written = 0
         ELSE rs[cursor].next = written + 1 /\ written <= Asked(rs[cursor].rows)
    /\ \A i \in Queries : Told(i)
    /\ Len(collected) > 1 => Doomed

\* While statements are read one plain cursor is open, the current one, and a
\* result that can still be read is on it.
Lone(p) == \A c \in PlainCursors(p) : c = p.current /\ ~p.keepCurrent

LonePart ==
  phase \in {"parse", "commit"} =>
    /\ Lone(pool)
    /\ last = NoCursor \/ last \in PlainCursors(pool)
    /\ \A j \in DOMAIN collected :
         NoRows(collected[j]) \/ collected[j] \in PlainCursors(pool)

\* What has ended the reading.
EndPart ==
  phase \in {"settle", "output", "print", "done"} =>
    sqls = << >> \/ TooMany \/ MeaningOf(Head(sqls)) = Fails

\* A result of which some rows, not all, are written is being printed, and
\* its next row fits as they did.
Printing(i) ==
  phase = "print" /\ rs[cursor].stmt = i /\ Fits(fmt, rs[cursor].labels)

WholePart ==
  faults = 0 =>
    \A i \in Queries : RowsOf(given, {i}) = << >> \/ Delivered(i) \/ Printing(i)

OutputInv ==
  args.program = "sql-query" =>
    /\ FilePart /\ RowsPart /\ StoryPart
    /\ LonePart /\ EndPart /\ WholePart

LEMMA RowsOfRows ==
  ASSUME NEW items \in Seq(Items), NEW stmts, stmts \subseteq Nat
  PROVE  RowsOf(RowsOf(items, Nat), stmts) = RowsOf(items, stmts)
<1> DEFINE Twice(s) == RowsOf(RowsOf(s, Nat), stmts) = RowsOf(s, stmts)
           T == {n \in Nat : \A s \in Seq(Items) : Len(s) = n => Twice(s)}
<1>1. 0 \in T
  <2> SUFFICES ASSUME NEW s \in Seq(Items), Len(s) = 0 PROVE Twice(s)
    OBVIOUS
  <2>1. s = << >>
    OBVIOUS
  <2> QED
    BY <2>1, RowsOfNone
<1>2. ASSUME NEW n \in Nat, n \in T PROVE n + 1 \in T
  <2> SUFFICES ASSUME NEW s \in Seq(Items), Len(s) = n + 1 PROVE Twice(s)
    OBVIOUS
  <2> DEFINE front == SubSeq(s, 1, n)
             item == s[n + 1]
             rest == RowsOf(front, Nat)
  <2>1. /\ front \in Seq(Items) /\ Len(front) = n /\ item \in Items
        /\ s = Append(front, item)
    OBVIOUS
  <2>2. Twice(front)
    BY <1>2, <2>1
  <2> HIDE DEF front, item
  <2>3. rest \in Seq(Items)
    BY <2>1, RowsOfSeq
  <2>4. RowsOf(s, Nat) = IF Wanted(item, Nat) THEN Append(rest, item) ELSE rest
    BY <2>1, RowsOfAppend
  <2>5. RowsOf(s, stmts) = IF Wanted(item, stmts)
                           THEN Append(RowsOf(front, stmts), item)
                           ELSE RowsOf(front, stmts)
    BY <2>1, RowsOfAppend
  <2>6. RowsOf(rest, stmts) = RowsOf(front, stmts)
    BY <2>2
  <2> HIDE DEF rest
  <2>7. RowsOf(Append(rest, item), stmts) =
          IF Wanted(item, stmts) THEN Append(RowsOf(rest, stmts), item)
          ELSE RowsOf(rest, stmts)
    BY <2>1, <2>3, RowsOfAppend
  <2>8. Wanted(item, stmts) => Wanted(item, Nat)
    BY DEF Wanted
  <2> QED
    BY <2>4, <2>5, <2>6, <2>7, <2>8
<1> HIDE DEF Twice
<1>3. Nat \subseteq T
  <2> HIDE DEF T
  <2> QED
    BY <1>1, <1>2, Induction
<1>4. Twice(items)
  BY <1>3
<1> QED
  BY <1>4 DEF Twice

LEMMA FirstRowsNext ==
  ASSUME NEW i \in Nat, NEW n \in Nat
  PROVE  Append(FirstRows(i, n), RowOf(i, n + 1)) = FirstRows(i, n + 1)
<1> DEFINE item(k) == RowOf(i, k)
<1> HIDE DEF item
<1>1. Append([k \in 1 .. n |-> item(k)], item(n + 1)) = [k \in 1 .. n + 1 |-> item(k)]
  <2> DEFINE s == [k \in 1 .. n |-> item(k)]
             I == {item(k) : k \in 1 .. n + 1}
  <2>1. s \in Seq(I) /\ Len(s) = n /\ item(n + 1) \in I
    OBVIOUS
  <2> DEFINE t == Append(s, item(n + 1))
  <2>2. t = [k \in 1 .. n + 1 |-> IF k = n + 1 THEN item(n + 1) ELSE s[k]]
    BY <2>1
  <2> QED
    BY <2>2
<1> QED
  BY <1>1 DEF FirstRows, item

\* A row of the statement i adds to its rows and to those of no other.
LEMMA RowsGrow ==
  ASSUME NEW items \in Seq(Items), NEW i \in Nat, NEW n \in Nat
  PROVE  /\ RowsOf(items, {i}) = FirstRows(i, n) =>
              RowsOf(Append(items, RowOf(i, n + 1)), {i}) = FirstRows(i, n + 1)
         /\ \A j \in Nat \ {i} :
              RowsOf(Append(items, RowOf(i, n + 1)), {j}) = RowsOf(items, {j})
<1> DEFINE row == RowOf(i, n + 1)
<1>1. row \in Items /\ IsRow(row) /\ row.stmt = i
  BY ItemKinds
<1> HIDE DEF row
<1>2. RowsOf(Append(items, row), {i}) = Append(RowsOf(items, {i}), row)
  <2>1. Wanted(row, {i})
    BY <1>1 DEF Wanted
  <2> QED
    BY <1>1, <2>1, RowsOfAppend
<1>3. ASSUME NEW j \in Nat \ {i}
      PROVE  RowsOf(Append(items, row), {j}) = RowsOf(items, {j})
  <2>1. ~Wanted(row, {j})
    BY <1>1 DEF Wanted
  <2> QED
    BY <1>1, <2>1, RowsOfAppend
<1> QED
  BY <1>2, <1>3, FirstRowsNext DEF row

-----------------------------------------------------------------------------
LEMMA FileStays ==
  ASSUME FilePart, UNCHANGED <<fmt, given, sheet, collected>>,
         phase' \in {"parse", "commit", "settle"} => sheet = 0,
         phase' \in {"output", "print", "crashed"} =>
           sheet = 0 \/ phase \in {"output", "print"},
         phase' = "done" => sheet = 0 /\ collected = << >>
  PROVE  FilePart'
BY DEF FilePart

LEMMA HeaderUnsaved ==
  ASSUME NEW f, FmtOK(f), Unsaved(f)
  PROVE  Unsaved(Header(f))
BY HeaderIs DEF Given, Unsaved

LEMMA OpenUnsaved ==
  ASSUME NEW f, FmtOK(f), RowsOf(f.out, Nat) = << >>, NEW c \in Cursors,
         NEW columnsOf \in [Cursors -> Columns], NEW append \in BOOLEAN
  PROVE  Unsaved(Open(f, c, columnsOf, append))
<1> DEFINE g == Open(f, c, columnsOf, append)
<1> SUFFICES ASSUME g.class \in Books PROVE RowsOf(g.out, Nat) = << >>
  BY DEF Unsaved
<1>1. f.class \in Books
  BY OpenTextIs
<1>2. g.out = << >> \/ g.out = f.out
  BY <1>1, OpenBookIs
<1> HIDE DEF g
<1> QED
  BY <1>2, RowsOfNone

LEMMA FileSheet ==
  ASSUME ShapeInv, FilePart, args.program = "sql-query", NextCursor \in Cursors,
         FirstResult \/ FurtherSheet
  PROVE  FilePart'
<1>1. /\ ColumnsOf \in [Cursors -> Columns] /\ FmtOK(fmt) /\ given \in Seq(Items)
      /\ sheet \in Nat
  BY ColumnsOfCursors, ShapeFacts DEF ShapeInv, FilePart
<1>2. ASSUME NEW f, FmtOK(f), HeldBack(f, given), Unsaved(f), StartOutput(f),
             given' = given
      PROVE  FilePart'
  <2>1. fmt' = Header(f) /\ phase' = "print" /\ sheet' = sheet + 1
    BY <1>2 DEF StartOutput
  <2>2. FmtOK(fmt') /\ HeldBack(fmt', given') /\ Unsaved(fmt')
    BY <1>2, <2>1, HeaderHolds, HeaderUnsaved
  <2>3. sheet' # 0 /\ sheet' \in Nat
    BY <1>1, <2>1
  <2> QED
    BY <1>1, <1>2, <2>1, <2>2, <2>3 DEF FilePart
<1>3. CASE FirstResult
  <2> DEFINE f == Open(fmt, NextCursor, ColumnsOf, FALSE)
  <2>1. /\ sheet = 0 /\ StartOutput(f)
        /\ given' = IF fmt.named THEN << >> ELSE given
    BY <1>3 DEF FirstResult
  <2>2. given = << >> /\ Saved(fmt, given)
    BY <2>1 DEF FilePart
  <2>3. FALSE \in BOOLEAN
    OBVIOUS
  <2>4. LET g == Open(fmt, NextCursor, ColumnsOf, FALSE)
            given1 == IF fmt.class = "xlsx" \/ (fmt.named /\ ~FALSE)
                      THEN << >> ELSE given
        IN FmtOK(g) /\ g.class = fmt.class /\ HeldBack(g, given1)
    BY <1>1, <2>2, <2>3, OpenHolds
  <2>5. FmtOK(f) /\ HeldBack(f, given)
    BY <2>2, <2>4
  <2>6. Unsaved(f)
    BY <1>1, <2>2, <2>3, OpenUnsaved DEF Saved
  <2> HIDE DEF f
  <2> QED
    BY <1>2, <2>1, <2>2, <2>5, <2>6
<1>4. CASE FurtherSheet
  <2> DEFINE f == IF fmt.class \in Books
                  THEN NextSheet(fmt, NextCursor, ColumnsOf)
                  ELSE Open(Close(fmt), NextCursor, ColumnsOf, TRUE)
  <2>1. /\ phase = "output" /\ sheet \in 1 .. Len(collected) - 1
        /\ StartOutput(f) /\ given' = given
    BY <1>4 DEF FurtherSheet
  <2>2. HeldBack(fmt, given) /\ Unsaved(fmt)
    BY <2>1 DEF FilePart
  <2>3. FmtOK(f) /\ HeldBack(f, given) /\ Unsaved(f)
    <3>1. CASE fmt.class \in Books
      <4>1. LET g == NextSheet(fmt, NextCursor, ColumnsOf)
            IN FmtOK(g) /\ Unsaved(g) /\ HeldBack(g, given)
        BY <1>1, <2>2, <3>1, SheetHolds, NextSheetIs DEF Unsaved
      <4> QED
        BY <3>1, <4>1
    <3>2. CASE fmt.class \notin Books
      <4> DEFINE h == Close(fmt)
      <4>1. FmtOK(h) /\ Saved(h, given)
        BY <1>1, <2>2, CloseSaves
      <4>2. h.class = fmt.class
        BY <1>1, CloseIs
      <4> HIDE DEF h
      <4>3. TRUE \in BOOLEAN
        OBVIOUS
      <4>4. LET g == Open(h, NextCursor, ColumnsOf, TRUE)
                given1 == IF h.class = "xlsx" \/ (h.named /\ ~TRUE)
                          THEN << >> ELSE given
            IN FmtOK(g) /\ g.class = h.class /\ HeldBack(g, given1)
        BY <1>1, <4>1, <4>3, OpenHolds
      <4>5. h.class # "xlsx" /\ h.class \notin Books
        BY <3>2, <4>2 DEF Books
      <4> QED
        BY <3>2, <4>4, <4>5 DEF h, Unsaved
    <3> QED
      BY <3>1, <3>2
  <2> HIDE DEF f
  <2> QED
    BY <1>2, <2>1, <2>3
<1> QED
  BY <1>3, <1>4

\* The cursor of the next result is one of the connection's.
LEMMA NextCursorOK ==
  ASSUME ShapeInv, args.program = "sql-query", phase = "output",
         sheet = 0 \/ sheet \in 1 .. Len(collected) - 1
  PROVE  NextCursor \in Cursors /\ sheet + 1 \in DOMAIN collected /\ sheet \in Nat
<1>1. collected \in Seq(Cursors) /\ sheet \in 0 .. Len(collected)
      /\ collected # << >>
  BY DEF ShapeInv, TypeOK
<1>2. sheet + 1 \in DOMAIN collected
  BY <1>1
<1> QED
  BY <1>1, <1>2 DEF NextCursor

LEMMA FileProgram ==
  ASSUME ShapeInv, FilePart, args.program = "sql-query", Program
  PROVE  FilePart'
<1>0. sheet \in Nat /\ (phase = "print" => sheet > 0) /\ Len(collected) \in Nat
  BY ShapeFacts DEF ShapeInv
<1>1. CASE ReadSelect
  <2>1. /\ UNCHANGED <<fmt, given, sheet>> /\ phase = "parse" /\ phase' = "parse"
    BY <1>1 DEF ReadSelect, Reading
  <2> QED
    BY <2>1 DEF FilePart
<1>2. CASE ReadUpdate \/ ReadFails \/ ReadEnd \/ CommitBatch \/ LastCommit \/ CommitRefused
  <2>1. /\ UNCHANGED <<fmt, given, sheet, collected>>
        /\ phase \in {"parse", "commit", "settle"}
        /\ phase' \in {"parse", "commit", "settle", "output", "done", "crashed"}
        /\ phase' = "done" => collected = << >>
    BY <1>2 DEF ReadUpdate, ReadFails, ReadEnd, CommitBatch, LastCommit,
                CommitRefused, Reading, AfterSettle, queryVars
  <2>2. sheet = 0
    BY <2>1 DEF FilePart
  <2> QED
    BY <2>1, <2>2, FileStays
<1>3. CASE FirstResult \/ FurtherSheet
  <2>1. phase = "output" /\ (sheet = 0 \/ sheet \in 1 .. Len(collected) - 1)
    BY <1>3 DEF FirstResult, FurtherSheet
  <2> QED
    BY <1>3, <2>1, NextCursorOK, FileSheet
<1>4. CASE OutputRefused \/ PrintCrashes \/ PrintEnd \/ FetchFails
  <2>1. /\ UNCHANGED <<fmt, given, sheet, collected>>
        /\ phase \in {"output", "print"} /\ phase' \in {"output", "crashed"}
    BY <1>4 DEF OutputRefused, PrintCrashes, PrintEnd, FetchFails, OutputFrame
  <2> QED
    BY <2>1, FileStays
<1>5. CASE PrintRow
  <2> DEFINE row == RowOf(rs[cursor].stmt, rs[cursor].next)
  <2>1. /\ phase = "print" /\ phase' = phase /\ fmt' = Write(fmt, row)
        /\ given' = Append(given, row) /\ sheet' = sheet
    BY <1>5 DEF PrintRow, WriteRow
  <2>2. rs[cursor] \in HeldShape
    BY <2>1, PrintedCursor DEF ShapeInv, DataInv
  <2>3. row \in Items /\ IsRow(row) /\ row.stmt \in Nat
    BY <2>2, ItemKinds DEF HeldShape
  <2> HIDE DEF row
  <2>4. FmtOK(fmt) /\ given \in Seq(Items) /\ HeldBack(fmt, given) /\ Unsaved(fmt)
    BY <1>0, <2>1 DEF FilePart
  <2>5. FmtOK(fmt') /\ HeldBack(fmt', given') /\ given' \in Seq(Items)
        /\ Unsaved(fmt')
    BY <2>1, <2>3, <2>4, WriteHolds, WriteIs DEF Given, Unsaved
  <2> QED
    BY <1>0, <2>1, <2>5 DEF FilePart
<1>6. CASE FinishOutput
  <2>1. /\ phase = "output" /\ sheet = Len(collected) /\ fmt' = Close(fmt)
        /\ phase' = "done" /\ UNCHANGED <<given, sheet, collected>>
    BY <1>6 DEF FinishOutput, OutputFrame
  <2>2. sheet > 0
    <3>1. collected \in Seq(Cursors) /\ collected # << >>
      BY <2>1 DEF ShapeInv, TypeOK
    <3> QED
      BY <2>1, <3>1
  <2>3. FmtOK(fmt) /\ given \in Seq(Items) /\ HeldBack(fmt, given)
    BY <2>1, <2>2 DEF FilePart
  <2>4. FmtOK(fmt') /\ Saved(fmt', given')
    BY <2>1, <2>3, CloseSaves
  <2> QED
    BY <2>1, <2>2, <2>3, <2>4 DEF FilePart
<1> QED
  BY <1>1, <1>2, <1>3, <1>4, <1>5, <1>6 DEF Program

-----------------------------------------------------------------------------
\* What the next lemmas know of the cursors and of what is collected.
LEMMA HeldFacts ==
  ASSUME ShapeInv, args.program = "sql-query"
  PROVE  /\ rs \in [Cursors -> HeldShape]
         /\ \A c \in Cursors :
              /\ rs[c].stmt \in Nat /\ rs[c].next \in Nat \ {0} /\ rs[c].rows \in Nat
              /\ rs[c].stmt # 0 =>
                   /\ rs[c].stmt \in 1 .. Len(shown) /\ HasCursor(pool, c)
                   /\ rs[c].rows = shown[rs[c].stmt].rows
         /\ collected \in Seq(Cursors) /\ Left \subseteq DOMAIN collected
         /\ \A j \in DOMAIN collected : collected[j] \in Cursors
         /\ \A i \in Queries : i \in 1 .. Len(shown)
<1>1. rs \in [Cursors -> HeldShape] /\ \A c \in Cursors : Holds(c, rs[c], shown, pool)
  BY DEF ShapeInv, DataInv
<1>2. ASSUME NEW c \in Cursors
      PROVE  /\ rs[c].stmt \in Nat /\ rs[c].next \in Nat \ {0} /\ rs[c].rows \in Nat
             /\ rs[c].stmt # 0 =>
                  /\ rs[c].stmt \in 1 .. Len(shown) /\ HasCursor(pool, c)
                  /\ rs[c].rows = shown[rs[c].stmt].rows
  <2>1. rs[c] \in HeldShape /\ Holds(c, rs[c], shown, pool)
    BY <1>1
  <2>2. shown \in Seq(Results)
    BY DEF ShapeInv, DataInv
  <2>3. DOMAIN shown = 1 .. Len(shown)
    BY <2>2
  <2> QED
    BY <2>1, <2>3 DEF HeldShape, Holds
<1>3. collected \in Seq(Cursors)
  BY DEF ShapeInv, TypeOK
<1>4. \A i \in Queries : i \in 1 .. Len(shown)
  <2>1. rows \in Seq(Nat) /\ Len(rows) = Len(shown)
    BY DEF ShapeInv, TypeOK
  <2> QED
    BY <2>1 DEF Queries, Executed
<1> QED
  BY <1>1, <1>2, <1>3, <1>4 DEF Left

\* A statement of the input: what it overwrites is lost, what it adds waits.
LEMMA RowsRun ==
  ASSUME ShapeInv, args.program = "sql-query", FilePart, RowsPart, phase = "parse",
         NEW p, NEW c \in Cursors, NEW result \in Results, RunOn(p, c, result),
         given' = given
  PROVE  RowsPart'
<1> DEFINE n == Len(shown) + 1
           held == [stmt |-> n, labels |-> result.labels, next |-> 1,
                    rows |-> result.rows]
<1>1. /\ rs \in [Cursors -> HeldShape] /\ n \in Nat /\ n # 0
      /\ rs' = [rs EXCEPT ![c] = held]
      /\ \A d \in Cursors : rs[d].stmt \in Nat /\ rs[d].stmt # n
      /\ given = << >>
  <2>1. rs' = [rs EXCEPT ![c] = held] /\ given = << >>
    BY DEF RunOn, FilePart
  <2>2. Len(shown) \in Nat
    BY ShapeFacts
  <2>3. ASSUME NEW d \in Cursors PROVE rs[d].stmt \in Nat /\ rs[d].stmt # n
    <3> DEFINE x == rs[d].stmt
    <3>1. x \in Nat /\ (x # 0 => x \in 1 .. Len(shown))
      BY HeldFacts
    <3> HIDE DEF x
    <3>2. x # n
      BY <2>2, <3>1
    <3> QED
      BY <3>1, <3>2 DEF x
  <2> QED
    BY <2>1, <2>2, <2>3, HeldFacts
<1>2. held.stmt = n /\ held.next = 1
  OBVIOUS
<1> HIDE DEF held, n
<1>3. \A d \in Cursors : rs'[d] = IF d = c THEN held ELSE rs[d]
  BY <1>1
<1>4. \A d, e \in Cursors : rs'[d].stmt # 0 /\ rs'[d].stmt = rs'[e].stmt => d = e
  BY <1>1, <1>2, <1>3 DEF RowsPart
<1>5. RowsOf(given', {n}) = FirstRows(n, 1 - 1)
  <2>1. RowsOf(given', {n}) = << >>
    BY <1>1, RowsOfNone
  <2> QED
    BY <2>1 DEF FirstRows
<1>6. ASSUME NEW d \in Cursors, rs'[d].stmt # 0
      PROVE  RowsOf(given', {rs'[d].stmt}) = FirstRows(rs'[d].stmt, rs'[d].next - 1)
  <2>1. CASE d = c
    <3>1. rs'[d].stmt = n /\ rs'[d].next = 1
      BY <1>2, <1>3, <2>1
    <3> QED
      BY <1>5, <3>1
  <2>2. CASE d # c
    <3>1. rs'[d] = rs[d]
      BY <1>3, <2>2
    <3> QED
      BY <1>6, <3>1 DEF RowsPart
  <2> QED
    BY <2>1, <2>2
<1> QED
  BY <1>4, <1>6 DEF RowsPart

\* Cursors are closed.
LEMMA RowsClosed ==
  ASSUME ShapeInv, args.program = "sql-query", RowsPart, NEW S, rs' = Without(S),
         given' = given
  PROVE  RowsPart'
<1>1. \A d \in Cursors : rs'[d] = IF d \in S THEN NoResult ELSE rs[d]
  BY DEF Without
<1>2. NoResult.stmt = 0
  BY DEF NoResult
<1>3. \A d \in Cursors : rs'[d].stmt # 0 => rs'[d] = rs[d]
  BY <1>1, <1>2
<1> QED
  BY <1>3 DEF RowsPart

LEMMA RowsSame ==
  ASSUME RowsPart, rs' = rs, given' = given
  PROVE  RowsPart'
BY DEF RowsPart

\* A row of the statement i is delivered.
LEMMA RowsRow ==
  ASSUME ShapeInv, args.program = "sql-query", FilePart, RowsPart,
         phase = "print", WriteRow
  PROVE  /\ RowsPart'
         /\ rs[cursor].stmt # 0 /\ rs[cursor].next <= rs[cursor].rows
         /\ \A c \in Cursors :
              /\ rs'[c].stmt = rs[c].stmt /\ rs'[c].labels = rs[c].labels
              /\ rs'[c].rows = rs[c].rows
              /\ rs'[c].next = IF c = cursor THEN rs[c].next + 1 ELSE rs[c].next
         /\ \A i \in Nat \ {rs[cursor].stmt} :
              RowsOf(given', {i}) = RowsOf(given, {i})
<1> DEFINE r == rs[cursor]
           i0 == r.stmt
           m == r.next - 1
<1>1. /\ cursor \in Cursors /\ r \in HeldShape /\ rs \in [Cursors -> HeldShape]
      /\ given \in Seq(Items)
  BY PrintedCursor, HeldFacts DEF FilePart
<1>2. /\ r.next <= r.rows /\ given' = Append(given, RowOf(r.stmt, r.next))
      /\ rs' = [rs EXCEPT ![cursor].next = @ + 1]
  BY DEF WriteRow, HasRow
<1>3. i0 \in Nat /\ i0 # 0 /\ m \in Nat /\ m + 1 = r.next
  <2>1. r.next \in Nat \ {0} /\ r.rows \in Nat /\ r.stmt \in Nat
    BY <1>1 DEF HeldShape
  <2>2. r.stmt = 0 => r.rows = 0
    BY <1>1 DEF ShapeInv, DataInv, Holds
  <2> QED
    BY <1>2, <2>1, <2>2
<1>4. ASSUME NEW c \in Cursors
      PROVE  /\ rs'[c].stmt = rs[c].stmt /\ rs'[c].labels = rs[c].labels
             /\ rs'[c].rows = rs[c].rows
             /\ rs'[c].next = IF c = cursor THEN rs[c].next + 1 ELSE rs[c].next
  <2>1. CASE c = cursor
    <3>1. rs'[c] = [r EXCEPT !.next = @ + 1]
      BY <1>1, <1>2, <2>1
    <3> HIDE DEF r
    <3>2. /\ rs'[c].stmt = r.stmt /\ rs'[c].labels = r.labels
          /\ rs'[c].rows = r.rows /\ rs'[c].next = r.next + 1
      BY <1>1, <3>1 DEF HeldShape
    <3> QED
      BY <2>1, <3>2 DEF r
  <2>2. CASE c # cursor
    <3>1. rs'[c] = rs[c]
      BY <1>1, <1>2, <2>2
    <3> QED
      BY <2>2, <3>1
  <2> QED
    BY <2>1, <2>2
<1>5. RowsOf(given, {i0}) = FirstRows(i0, m)
  BY <1>1, <1>3 DEF RowsPart
<1>6. given' = Append(given, RowOf(i0, m + 1))
  BY <1>2, <1>3
<1>7. r.next + 1 - 1 = m + 1
  BY <1>3
<1> HIDE DEF i0, m
<1>8. /\ RowsOf(given', {i0}) = FirstRows(i0, m + 1)
      /\ \A i \in Nat \ {i0} : RowsOf(given', {i}) = RowsOf(given, {i})
  BY <1>1, <1>3, <1>5, <1>6, RowsGrow
<1>9. RowsPart'
  <2>1. \A d, e \in Cursors : rs'[d].stmt # 0 /\ rs'[d].stmt = rs'[e].stmt => d = e
    BY <1>4 DEF RowsPart
  <2>2. ASSUME NEW d \in Cursors, rs'[d].stmt # 0
        PROVE  RowsOf(given', {rs'[d].stmt}) = FirstRows(rs'[d].stmt, rs'[d].next - 1)
    <3>1. CASE d = cursor
      <4>1. rs'[d].stmt = i0 /\ rs'[d].next = r.next + 1
        BY <1>4, <3>1 DEF i0
      <4>2. rs'[d].next - 1 = m + 1
        BY <1>3, <4>1
      <4> QED
        BY <1>8, <4>1, <4>2
    <3>2. CASE d # cursor
      <4>1. rs'[d].stmt = rs[d].stmt /\ rs'[d].next = rs[d].next
        BY <1>4, <3>2
      <4>2. rs[d].stmt \in Nat \ {i0}
        BY <1>1, <1>3, <2>2, <3>2, <4>1, HeldFacts DEF RowsPart, i0
      <4>3. RowsOf(given', {rs[d].stmt}) = RowsOf(given, {rs[d].stmt})
        BY <1>8, <4>2
      <4> QED
        BY <2>2, <4>1, <4>3 DEF RowsPart
    <3> QED
      BY <3>1, <3>2
  <2> QED
    BY <2>1, <2>2 DEF RowsPart
<1> QED
  BY <1>2, <1>3, <1>4, <1>8, <1>9 DEF i0

-----------------------------------------------------------------------------
LEMMA StoryInit == Init /\ args.program = "sql-query" => FilePart /\ RowsPart /\ StoryPart
<1> SUFFICES ASSUME Init, args.program = "sql-query"
             PROVE  FilePart /\ RowsPart /\ StoryPart
  OBVIOUS
<1>1. /\ phase = "parse" /\ given = << >> /\ sheet = 0
      /\ NotProbed \/ Probed
      /\ \E class \in Classes, named \in BOOLEAN : fmt = NewFormatter(class, named)
  <2>1. args.program # "client"
    OBVIOUS
  <2> QED
    BY <2>1, Zenon DEF Init
<1>2. ShapeInv /\ collected = << >>
  BY ShapeInit DEF Init
<1>3. FilePart
  <2>1. FmtOK(fmt) /\ fmt.book = << >> /\ fmt.out = << >>
    BY <1>1, NewFormatterIs
  <2>2. given \in Seq(Items) /\ Saved(fmt, << >>)
    BY <1>1, <2>1, RowsOfNone DEF Saved
  <2> QED
    BY <1>1, <2>1, <2>2 DEF FilePart
<1>4. \A c \in Cursors : rs[c].stmt # 0 => c = 1 /\ rs[c].stmt = 1 /\ rs[c].next = 1
  <2>1. CASE NotProbed
    BY <2>1 DEF NotProbed, NoResult
  <2>2. CASE Probed
    <3> DEFINE empty == [stmt |-> 1, labels |-> <<"probe">>, next |-> 1, rows |-> 0]
    <3>1. \A c \in Cursors : rs[c] = IF c = 1 THEN empty ELSE NoResult
      BY <2>2 DEF Probed
    <3>2. empty.stmt = 1 /\ empty.next = 1 /\ NoResult.stmt = 0
      BY DEF NoResult
    <3> HIDE DEF empty
    <3> QED
      BY <3>1, <3>2
  <2> QED
    BY <1>1, <2>1, <2>2
<1>5. RowsOf(given, {1}) = FirstRows(1, 1 - 1)
  <2>1. RowsOf(given, {1}) = << >>
    BY <1>1, RowsOfNone
  <2> QED
    BY <2>1 DEF FirstRows
<1>6. RowsPart
  BY <1>4, <1>5 DEF RowsPart
<1>7. Queries = {}
  <2>1. CASE NotProbed
    <3>1. Executed = {}
      <4>1. shown = << >> /\ rows \in Seq(Nat) /\ Len(rows) = Len(shown)
        BY <1>2, <2>1 DEF NotProbed, ShapeInv, TypeOK
      <4> QED
        BY <4>1 DEF Executed
    <3> QED
      BY <3>1 DEF Queries
  <2>2. CASE Probed
    <3>1. shown[1].labels = <<"probe">>
      BY <2>2 DEF Probed
    <3>2. Executed \subseteq {1}
      <4>1. Len(shown) = 1 /\ rows \in Seq(Nat) /\ Len(rows) = Len(shown)
        BY <1>2, <2>2, ProbeHeld DEF ShapeInv, TypeOK
      <4> QED
        BY <4>1 DEF Executed
    <3> QED
      BY <3>1, <3>2 DEF Queries, IsQuery
  <2> QED
    BY <1>1, <2>1, <2>2
<1>8. StoryPart
  BY <1>1, <1>2, <1>4, <1>7 DEF StoryPart
<1> QED
  BY <1>3, <1>6, <1>8

\* A statement is read: a query overwritten leaves a cursor that is there
\* twice, or one without rows.
LEMMA StoryRun ==
  ASSUME ShapeInv, args.program = "sql-query", FilePart, StoryPart, phase = "parse",
         NEW p, NEW c \in Cursors, NEW result \in Results, RunOn(p, c, result),
         \/ collected' = Append(collected, c)
         \/ collected' = collected /\ result = Update,
         NEW n, rows' = Append(rows, n),
         phase' \in {"parse", "commit"}, faults' = faults,
         UNCHANGED <<given, sheet, cursor, written, args>>,
         \A j \in DOMAIN collected :
           collected' # collected => NoRows(collected[j]) \/ collected[j] = c
  PROVE  StoryPart'
<1> DEFINE new == Len(shown) + 1
           held == [stmt |-> new, labels |-> result.labels, next |-> 1,
                    rows |-> result.rows]
<1> SUFFICES ASSUME faults = 0 PROVE StoryPart'
  BY DEF StoryPart
<1>1. /\ rs \in [Cursors -> HeldShape] /\ rs' = [rs EXCEPT ![c] = held]
      /\ shown' = Append(shown, result) /\ Len(shown) \in Nat
      /\ shown \in Seq(Results) /\ rows \in Seq(Nat) /\ Len(rows) = Len(shown)
      /\ collected \in Seq(Cursors) /\ sheet = 0
  BY HeldFacts, ShapeFacts DEF RunOn, FilePart, ShapeInv, DataInv, TypeOK
<1>2. held.stmt = new /\ held.next = 1 /\ held.labels = result.labels
  OBVIOUS
<1> HIDE DEF held
<1>3. \A d \in Cursors : rs'[d] = IF d = c THEN held ELSE rs[d]
  BY <1>1
<1>4. /\ Left = DOMAIN collected /\ Left' = DOMAIN collected'
      /\ \A j \in Left : j \in Left' /\ collected'[j] = collected[j] /\ collected[j] \in Cursors
  <2>0. /\ DOMAIN collected = 1 .. Len(collected) /\ Len(collected) \in Nat
        /\ \A j \in DOMAIN collected : collected[j] \in Cursors /\ j > 0
    <3>1. collected \in Seq(Cursors)
      BY <1>1
    <3> QED
      BY <3>1
  <2>1. Left = DOMAIN collected
    <3>1. sheet = 0
      BY <1>1
    <3> QED
      BY <2>0, <3>1 DEF Left
  <2>2. /\ DOMAIN collected \subseteq DOMAIN collected'
        /\ \A j \in DOMAIN collected' : j > 0
        /\ \A j \in DOMAIN collected : /\ collected'[j] = collected[j]
                                      /\ collected[j] \in Cursors
    <3>1. CASE collected' = Append(collected, c)
      <4>1. collected \in Seq(Cursors) /\ Len(collected) \in Nat
        BY <1>1
      <4>2. DOMAIN collected' = 1 .. Len(collected) + 1
        BY <3>1, <4>1
      <4>3. \A j \in 1 .. Len(collected) : collected'[j] = collected[j]
        BY <3>1, <4>1
      <4> QED
        BY <2>0, <4>1, <4>2, <4>3
    <3>2. CASE collected' = collected
      BY <2>0, <3>2, Zenon
    <3> QED
      BY <3>1, <3>2
  <2>3. Left' = DOMAIN collected'
    <3>1. sheet' = 0
      BY <1>1
    <3> QED
      BY <2>2, <3>1 DEF Left
  <2> QED
    BY <2>1, <2>2, <2>3
<1>5. collected' = Append(collected, c) =>
        \E j \in Left' : collected'[j] = c /\ j \notin Left
  <2> SUFFICES ASSUME collected' = Append(collected, c)
               PROVE  \E j \in Left' : collected'[j] = c /\ j \notin Left
    OBVIOUS
  <2>1. /\ Len(collected) + 1 \in DOMAIN collected'
        /\ collected'[Len(collected) + 1] = c
        /\ Len(collected) + 1 \notin DOMAIN collected
    BY <1>1
  <2> QED
    BY <1>4, <2>1
<1>6. ASSUME NEW j \in Left, collected[j] = c PROVE Doomed'
  <2>1. CASE collected' = Append(collected, c)
    <3>1. PICK k \in Left' : collected'[k] = c /\ k \notin Left
      BY <1>5, <2>1
    <3>2. j \in Left' /\ j # k /\ collected'[j] = collected'[k]
      BY <1>4, <1>6, <3>1
    <3> QED
      BY <3>1, <3>2 DEF Doomed
  <2>2. CASE collected' = collected /\ result = Update
    <3>1. rs'[c].labels = << >>
      BY <1>2, <1>3, <2>2 DEF Update
    <3>2. NoRows(c)' /\ j \in Left' /\ collected'[j] = c
      BY <1>4, <1>6, <3>1 DEF NoRows
    <3> QED
      BY <3>2 DEF Doomed, NoRows
  <2> QED
    BY <2>1, <2>2
<1>7. ASSUME Doomed PROVE Doomed'
  <2>1. CASE \E j \in Left : NoRows(collected[j])
    <3>1. PICK j \in Left : NoRows(collected[j])
      BY <2>1
    <3>2. CASE collected[j] = c
      BY <1>6, <3>2
    <3>3. CASE collected[j] # c
      <4>1. j \in Left' /\ rs'[collected'[j]] = rs[collected[j]]
        BY <1>3, <1>4, <3>3
      <4>2. rs'[collected'[j]].stmt = 0 \/ rs'[collected'[j]].labels = << >>
        BY <3>1, <4>1 DEF NoRows
      <4> QED
        BY <4>1, <4>2 DEF Doomed, NoRows
    <3> QED
      BY <3>2, <3>3
  <2>2. CASE \E j, k \in Left : j # k /\ collected[j] = collected[k]
    BY <1>4, <2>2 DEF Doomed
  <2> QED
    BY <1>7, <2>1, <2>2 DEF Doomed
<1>8. ASSUME NEW i \in Queries' PROVE Told(i)'
  <2>1. i \in 1 .. Len(shown) + 1
    <3>1. i \in DOMAIN Append(rows, n)
      BY DEF Queries, Executed
    <3> QED
      BY <1>1, <3>1
  <2>2. CASE i = new
    <3>1. collected' = Append(collected, c)
      <4>1. shown'[i] = result
        BY <1>1, <2>2
      <4>2. result.labels # << >>
        BY <4>1 DEF Queries, IsQuery
      <4> QED
        BY <4>2 DEF Update
    <3>2. PICK j \in Left' : collected'[j] = c
      BY <1>5, <3>1
    <3>3. rs'[collected'[j]].stmt = i
      BY <1>2, <1>3, <2>2, <3>2
    <3> QED
      BY <3>2, <3>3 DEF Told
  <2>3. CASE i # new
    <3>1. i \in 1 .. Len(shown) /\ shown'[i] = shown[i] /\ i \in DOMAIN rows
      BY <1>1, <2>1, <2>3
    <3>2. i \in Queries
      BY <3>1 DEF Queries, IsQuery, Executed
    <3>3. Told(i)
      BY <3>2 DEF StoryPart
    <3>4. CASE \E j \in Left : rs[collected[j]].stmt = i
      <4>1. PICK j \in Left : rs[collected[j]].stmt = i
        BY <3>4
      <4>2. CASE collected[j] = c
        BY <1>6, <4>2 DEF Told
      <4>3. CASE collected[j] # c
        <5>1. j \in Left' /\ rs'[collected'[j]] = rs[collected[j]]
          BY <1>3, <1>4, <4>3
        <5> QED
          BY <4>1, <5>1 DEF Told
      <4> QED
        BY <4>2, <4>3
    <3>5. CASE Delivered(i) /\ \A d \in Cursors : rs[d].stmt # i
      <4>1. Delivered(i)'
        BY <3>1, <3>5 DEF Delivered, Asked
      <4>2. \A d \in Cursors : rs'[d].stmt # i
        BY <1>2, <1>3, <2>3, <3>5
      <4> QED
        BY <4>1, <4>2 DEF Told, Cursors
    <3> QED
      BY <1>7, <3>3, <3>4, <3>5 DEF Told
  <2> QED
    BY <2>2, <2>3
<1>9. \A d \in Cursors : ~(rs'[d].stmt # 0 /\ rs'[d].next # 1)
  BY <1>2, <1>3 DEF StoryPart
<1>10. ASSUME Len(collected') > 1 PROVE Doomed'
  <2>1. CASE collected' = collected
    BY <1>7, <1>10, <2>1 DEF StoryPart
  <2>2. CASE collected' # collected
    <3>1. collected' = Append(collected, c)
      BY <2>2
    <3>2. 1 \in DOMAIN collected
      BY <1>1, <1>10, <3>1
    <3>3. CASE collected[1] = c
      BY <1>4, <1>6, <3>2, <3>3
    <3>4. CASE NoRows(collected[1])
      BY <1>4, <1>7, <3>2, <3>4 DEF Doomed
    <3> QED
      BY <2>2, <3>2, <3>3, <3>4
  <2> QED
    BY <2>1, <2>2
<1> QED
  BY <1>8, <1>9, <1>10 DEF StoryPart, Cursors

\* Cursors are closed before the output, or nothing happens to them at all.
LEMMA StoryClosed ==
  ASSUME ShapeInv, args.program = "sql-query", StoryPart, phase # "print",
         phase # "crashed", NEW S, rs' = Without(S), phase' # "print",
         faults' = 0 => faults = 0,
         UNCHANGED <<shown, given, sheet, args, collected, rows>>
  PROVE  StoryPart'
<1> SUFFICES ASSUME faults = 0 PROVE StoryPart'
  BY DEF StoryPart
<1>1. \A d \in Cursors : rs'[d] = IF d \in S THEN NoResult ELSE rs[d]
  BY DEF Without
<1>2. NoResult.stmt = 0
  BY DEF NoResult
<1>3. /\ Left' = Left /\ collected' = collected
      /\ \A j \in Left : collected[j] \in Cursors
  BY HeldFacts DEF Left
<1>4. ASSUME NEW j \in Left, rs[collected[j]] # rs'[collected[j]] PROVE Doomed'
  <2>1. rs'[collected[j]].stmt = 0
    BY <1>1, <1>2, <1>3, <1>4
  <2> QED
    BY <1>3, <2>1 DEF Doomed, NoRows
<1>5. ASSUME Doomed PROVE Doomed'
  <2>1. CASE \E j \in Left : NoRows(collected[j])
    <3>1. PICK j \in Left : NoRows(collected[j])
      BY <2>1
    <3>2. CASE rs[collected[j]] = rs'[collected[j]]
      <4>1. rs'[collected'[j]].stmt = 0 \/ rs'[collected'[j]].labels = << >>
        BY <1>3, <3>1, <3>2 DEF NoRows
      <4> QED
        BY <1>3, <4>1 DEF Doomed, NoRows
    <3> QED
      BY <1>4, <3>2
  <2>2. CASE \E j, k \in Left : j # k /\ collected[j] = collected[k]
    BY <1>3, <2>2 DEF Doomed
  <2> QED
    BY <1>5, <2>1, <2>2 DEF Doomed
<1>6. ASSUME NEW i \in Queries' PROVE Told(i)'
  <2>1. i \in Queries /\ i # 0
    <3>1. i \in Queries
      BY DEF Queries, Executed, IsQuery
    <3> QED
      BY <3>1, HeldFacts
  <2>2. Told(i)
    BY <2>1 DEF StoryPart
  <2>3. CASE \E j \in Left : rs[collected[j]].stmt = i
    <3>1. PICK j \in Left : rs[collected[j]].stmt = i
      BY <2>3
    <3>2. CASE rs[collected[j]] = rs'[collected[j]]
      BY <1>3, <3>1, <3>2 DEF Told
    <3> QED
      BY <1>4, <3>2 DEF Told
  <2>4. CASE Delivered(i) /\ \A d \in Cursors : rs[d].stmt # i
    <3>1. Delivered(i)'
      BY <2>4 DEF Delivered, Asked
    <3>2. \A d \in Cursors : rs'[d].stmt # i
      BY <1>1, <1>2, <2>1, <2>4
    <3> QED
      BY <3>1, <3>2 DEF Told, Cursors
  <2> QED
    BY <1>5, <2>2, <2>3, <2>4 DEF Told
<1>7. \A d \in Cursors : ~(rs'[d].stmt # 0 /\ rs'[d].next # 1)
  BY <1>1, <1>2 DEF StoryPart
<1>8. Len(collected') > 1 => Doomed'
  BY <1>3, <1>5 DEF StoryPart
<1> QED
  BY <1>6, <1>7, <1>8 DEF StoryPart, Cursors

\* The next result: its cursor has not been read yet.
LEMMA StorySheet ==
  ASSUME ShapeInv, args.program = "sql-query", FilePart, StoryPart,
         phase = "output", phase' = "print",
         sheet = 0 \/ sheet \in 1 .. Len(collected) - 1,
         sheet' = sheet + 1, cursor' = NextCursor, written' = 0, given' = given,
         faults' = faults,
         UNCHANGED <<rs, shown, args, collected, rows>>
  PROVE  StoryPart'
<1> SUFFICES ASSUME faults = 0 PROVE StoryPart'
  BY DEF StoryPart
<1>1. NextCursor \in Cursors /\ sheet + 1 \in DOMAIN collected /\ sheet \in Nat
  BY NextCursorOK
<1>2. Left' = Left
  <2>1. \A j \in DOMAIN collected : j \in Nat
    <3>1. collected \in Seq(Cursors)
      BY HeldFacts
    <3> QED
      BY <3>1
  <2>2. \A j \in DOMAIN collected : j > sheet <=> j > sheet + 1 \/ j = sheet + 1
    BY <1>1, <2>1
  <2> QED
    BY <2>2 DEF Left
<1>3. \A d \in Cursors : ~(rs[d].stmt # 0 /\ rs[d].next # 1)
  BY DEF StoryPart
<1>4. ASSUME ~NoRows(cursor)'
      PROVE  (rs[cursor].next = written + 1 /\ written <= Asked(rs[cursor].rows))'
  <2>1. rs[cursor'].next = 1 /\ rs[cursor'].rows \in Nat
    BY <1>1, <1>3, <1>4, HeldFacts DEF NoRows
  <2>2. args.maxRows \in Nat
    BY ShapeFacts
  <2> QED
    BY <2>1, <2>2 DEF Asked
<1>5. ASSUME NEW i \in Queries' PROVE Told(i)'
  <2>1. i \in Queries
    BY DEF Queries, Executed, IsQuery
  <2>2. Told(i)
    BY <2>1 DEF StoryPart
  <2> QED
    BY <1>2, <2>2 DEF Told, Doomed, NoRows, Delivered, Asked, Cursors
<1>6. Len(collected') > 1 => Doomed'
  BY <1>2 DEF StoryPart, Doomed, NoRows
<1> QED
  BY <1>3, <1>4, <1>5, <1>6 DEF StoryPart, Cursors

\* A row of the current result.
LEMMA StoryRow ==
  ASSUME ShapeInv, args.program = "sql-query", FilePart, RowsPart, StoryPart,
         PrintRow
  PROVE  StoryPart'
<1>1. /\ phase = "print" /\ ~NoData /\ ~AtLimit /\ WriteRow
      /\ written' = written + 1
      /\ UNCHANGED <<phase, pool, shown, cursor, args, sqls, collected, last,
                     rowCount, saved, pending, rows, sheet, faults>>
  BY DEF PrintRow
<1> SUFFICES ASSUME faults = 0 PROVE StoryPart'
  BY <1>1 DEF StoryPart
<1>2. /\ rs[cursor].stmt # 0 /\ rs[cursor].next <= rs[cursor].rows
      /\ \A c \in Cursors :
           /\ rs'[c].stmt = rs[c].stmt /\ rs'[c].labels = rs[c].labels
           /\ rs'[c].rows = rs[c].rows
           /\ rs'[c].next = IF c = cursor THEN rs[c].next + 1 ELSE rs[c].next
      /\ \A i \in Nat \ {rs[cursor].stmt} :
           RowsOf(given', {i}) = RowsOf(given, {i})
  BY <1>1, RowsRow
<1>3. cursor \in Cursors /\ (\A j \in Left : collected[j] \in Cursors) /\ Left' = Left
  BY <1>1, PrintedCursor, HeldFacts DEF Left
<1>4. \A d \in Cursors : rs'[d].stmt # 0 /\ rs'[d].next # 1 => d = cursor
  BY <1>1, <1>2 DEF StoryPart
<1>5. ~NoRows(cursor) /\ ~NoRows(cursor)'
  BY <1>1, <1>2, <1>3 DEF NoRows, NoData
<1>6. rs[cursor].next = written + 1 /\ written <= Asked(rs[cursor].rows)
  BY <1>1, <1>5 DEF StoryPart
<1>7. rs'[cursor].next = written' + 1 /\ written' <= Asked(rs[cursor].rows)'
  <2>1. rs'[cursor].next = rs[cursor].next + 1 /\ rs'[cursor].rows = rs[cursor].rows
    BY <1>2, <1>3
  <2>2. written \in Nat /\ args.maxRows \in Nat /\ rs[cursor].rows \in Nat
    BY <1>3, ShapeFacts, HeldFacts DEF ShapeInv, TypeOK
  <2>3. args.maxRows > 0 => written < args.maxRows
    BY <1>1, <2>2 DEF AtLimit
  <2>4. written + 1 <= rs[cursor].rows
    BY <1>2, <1>6
  <2>5. written + 1 <= Asked(rs[cursor].rows)
    BY <2>2, <2>3, <2>4 DEF Asked
  <2>6. rs'[cursor].next = written + 1 + 1
    BY <1>6, <2>1
  <2> QED
    BY <1>1, <2>1, <2>5, <2>6 DEF Asked
<1>9. Doomed => Doomed'
  BY <1>1, <1>2, <1>3 DEF Doomed, NoRows
<1>8. ASSUME NEW i \in Queries' PROVE Told(i)'
  <2>1. i \in Queries /\ i \in Nat
    <3>1. i \in Queries
      BY <1>1 DEF Queries, Executed, IsQuery
    <3> QED
      BY <3>1, HeldFacts
  <2>2. Told(i)
    BY <1>1, <2>1 DEF StoryPart
  <2>4. ASSUME NEW j \in Left, rs[collected[j]].stmt = i PROVE Told(i)'
    <3>1. j \in Left' /\ rs'[collected'[j]].stmt = i
      BY <1>1, <1>2, <1>3, <2>4
    <3> QED
      BY <3>1 DEF Told
  <2>5. ASSUME Delivered(i), \A d \in Cursors : rs[d].stmt # i PROVE Told(i)'
    <3>1. RowsOf(given', {i}) = RowsOf(given, {i})
      BY <1>2, <1>3, <2>1, <2>5
    <3>2. Delivered(i)'
      BY <1>1, <2>5, <3>1 DEF Delivered, Asked
    <3>3. \A d \in Cursors : rs'[d].stmt # i
      BY <1>2, <2>5
    <3> QED
      BY <3>2, <3>3 DEF Told, Cursors
  <2> QED
    BY <1>9, <2>2, <2>4, <2>5 DEF Told
<1>10. Len(collected') > 1 => Doomed'
  BY <1>1, <1>9 DEF StoryPart
<1> QED
  BY <1>1, <1>4, <1>5, <1>7, <1>8, <1>10 DEF StoryPart, Cursors

\* The rows of the result end, or the limit: its query is written in full.
LEMMA StoryEnd ==
  ASSUME ShapeInv, args.program = "sql-query", FilePart, RowsPart, StoryPart,
         PrintEnd
  PROVE  StoryPart' /\ (faults = 0 => Delivered(rs[cursor].stmt))
<1>1. /\ phase = "print" /\ phase' = "output"
      /\ AtLimit \/ (~NoData /\ ~HasRow)
      /\ CloseIt(cursor)
      /\ UNCHANGED <<shown, fmt, cursor, given, args, sqls, collected, last,
                     rowCount, saved, pending, rows, sheet, written, faults>>
  BY DEF PrintEnd
<1> SUFFICES ASSUME faults = 0 PROVE StoryPart' /\ Delivered(rs[cursor].stmt)
  BY <1>1 DEF StoryPart
<1> DEFINE i0 == rs[cursor].stmt
<1>2. /\ cursor \in Cursors /\ cursor = collected[sheet] /\ sheet \in Left
      /\ sheet \in Nat /\ \A j \in Left : collected[j] \in Cursors /\ j \in Nat
  <2>1. cursor = collected[sheet] /\ sheet > 0 /\ sheet \in Nat
        /\ sheet <= Len(collected) /\ collected \in Seq(Cursors)
    BY <1>1, ShapeFacts DEF ShapeInv, TypeOK
  <2>2. DOMAIN collected = 1 .. Len(collected) /\ Len(collected) \in Nat
    BY <2>1
  <2>3. sheet \in Left
    BY <1>1, <2>1, <2>2 DEF Left
  <2>4. \A j \in Left : j \in Nat
    BY <2>2 DEF Left
  <2> QED
    BY <1>1, <2>1, <2>3, <2>4, PrintedCursor, HeldFacts
<1>3. ~NoRows(cursor)
  <2>1. CASE NoRows(cursor)
    <3>1. written = 0
      BY <1>1, <2>1 DEF StoryPart
    <3>2. AtLimit
      BY <1>1, <2>1 DEF NoRows, NoData
    <3> QED
      BY <3>1, <3>2 DEF AtLimit
  <2> QED
    BY <2>1
<1>4. rs[cursor].next = written + 1 /\ written <= Asked(rs[cursor].rows)
  BY <1>1, <1>3 DEF StoryPart
<1>5. /\ i0 # 0 /\ i0 \in Nat /\ rs[cursor].rows \in Nat
      /\ rs[cursor].rows = shown[i0].rows /\ HasCursor(pool, cursor)
  BY <1>2, <1>3, HeldFacts DEF NoRows
<1>6. \A d \in Cursors : rs'[d] = IF d = cursor THEN NoResult ELSE rs[d]
  BY <1>1, <1>5 DEF CloseIt, Without
<1>7. NoResult.stmt = 0
  BY DEF NoResult
<1>8. written = Asked(shown[i0].rows)
  <2>1. written \in Nat /\ args.maxRows \in Nat
    BY ShapeFacts DEF ShapeInv, TypeOK
  <2>2. AtLimit \/ rs[cursor].next > rs[cursor].rows
    <3>1. rs[cursor].next \in Nat
      BY <1>2, HeldFacts
    <3> QED
      BY <1>1, <1>5, <3>1 DEF HasRow
  <2> HIDE DEF i0
  <2>3. CASE AtLimit
    BY <1>4, <1>5, <2>1, <2>3 DEF AtLimit, Asked
  <2>4. CASE rs[cursor].next > rs[cursor].rows
    <3>1. written + 1 > shown[i0].rows
      BY <1>4, <1>5, <2>4
    <3>2. written <= Asked(shown[i0].rows) /\ shown[i0].rows \in Nat
      BY <1>4, <1>5
    <3> QED
      BY <2>1, <3>1, <3>2 DEF Asked
  <2> QED
    BY <2>2, <2>3, <2>4
<1>9. Delivered(i0)
  <2>1. RowsOf(given, {i0}) = FirstRows(i0, rs[cursor].next - 1)
    BY <1>2, <1>5 DEF RowsPart
  <2>2. rs[cursor].next - 1 = written
    <3>1. written \in Nat
      BY DEF ShapeInv, TypeOK
    <3> QED
      BY <1>4, <3>1
  <2> QED
    BY <1>8, <2>1, <2>2 DEF Delivered
<1> HIDE DEF i0
<1>10. Left' = Left \ {sheet}
  <2>1. Left' = {j \in DOMAIN collected : j > sheet}
    BY <1>1 DEF Left
  <2>2. Left = {j \in DOMAIN collected : j > sheet \/ j = sheet}
    BY <1>1 DEF Left
  <2>3. ~(sheet > sheet)
    BY <1>2
  <2> QED
    BY <2>1, <2>2, <2>3
<1>11. ASSUME NEW j \in Left, j # sheet, collected[j] = cursor PROVE Doomed'
  <2>1. j \in Left' /\ rs'[collected'[j]].stmt = 0
    BY <1>1, <1>2, <1>6, <1>7, <1>10, <1>11
  <2> QED
    BY <2>1 DEF Doomed, NoRows
<1>12. ASSUME Doomed PROVE Doomed'
  <2>1. CASE \E j \in Left : NoRows(collected[j])
    <3>1. PICK j \in Left : NoRows(collected[j])
      BY <2>1
    <3>2. collected[j] # cursor /\ j # sheet /\ collected[j] \in Cursors
      BY <1>2, <1>3, <3>1
    <3>3. j \in Left' /\ rs'[collected'[j]] = rs[collected[j]]
      BY <1>1, <1>6, <1>10, <3>2
    <3>4. rs'[collected'[j]].stmt = 0 \/ rs'[collected'[j]].labels = << >>
      BY <3>1, <3>3 DEF NoRows
    <3> QED
      BY <3>3, <3>4 DEF Doomed, NoRows
  <2>2. CASE \E j, k \in Left : j # k /\ collected[j] = collected[k]
    <3>1. PICK j, k \in Left : j # k /\ collected[j] = collected[k]
      BY <2>2
    <3>2. CASE j = sheet
      BY <1>2, <1>11, <3>1, <3>2
    <3>3. CASE k = sheet
      BY <1>2, <1>11, <3>1, <3>3
    <3>4. CASE j # sheet /\ k # sheet
      <4>1. j \in Left' /\ k \in Left' /\ collected'[j] = collected'[k]
        BY <1>1, <1>10, <3>1, <3>4
      <4> QED
        BY <3>1, <4>1 DEF Doomed
    <3> QED
      BY <3>2, <3>3, <3>4
  <2> QED
    BY <1>12, <2>1, <2>2 DEF Doomed
<1>13. ASSUME NEW i \in Queries' PROVE Told(i)'
  <2>1. i \in Queries /\ i # 0
    <3>1. i \in Queries
      BY <1>1 DEF Queries, Executed, IsQuery
    <3> QED
      BY <3>1, HeldFacts
  <2>2. Told(i)
    BY <1>1, <2>1 DEF StoryPart
  <2>3. ASSUME Delivered(i), \A d \in Cursors : rs'[d].stmt # i PROVE Told(i)'
    <3>1. Delivered(i)'
      BY <1>1, <2>3 DEF Delivered, Asked
    <3> QED
      BY <2>3, <3>1 DEF Told, Cursors
  <2>4. ASSUME NEW j \in Left, rs[collected[j]].stmt = i PROVE Told(i)'
    <3>1. CASE j = sheet
      <4>1. i = i0
        BY <1>2, <2>4, <3>1 DEF i0
      <4>2. \A d \in Cursors : rs'[d].stmt # i
        BY <1>2, <1>5, <1>6, <1>7, <4>1 DEF RowsPart, i0
      <4> QED
        BY <1>9, <2>3, <4>1, <4>2
    <3>2. CASE j # sheet /\ collected[j] = cursor
      BY <1>11, <3>2 DEF Told
    <3>3. CASE j # sheet /\ collected[j] # cursor
      <4>1. j \in Left' /\ rs'[collected'[j]] = rs[collected[j]]
        BY <1>1, <1>2, <1>6, <1>10, <3>3
      <4> QED
        BY <2>4, <4>1 DEF Told
    <3> QED
      BY <3>1, <3>2, <3>3
  <2>5. ASSUME Delivered(i), \A d \in Cursors : rs[d].stmt # i PROVE Told(i)'
    <3>1. \A d \in Cursors : rs'[d].stmt # i
      BY <1>6, <1>7, <2>1, <2>5
    <3> QED
      BY <2>3, <2>5, <3>1
  <2> QED
    BY <1>12, <2>2, <2>4, <2>5 DEF Told
<1>14. \A d \in Cursors : ~(rs'[d].stmt # 0 /\ rs'[d].next # 1)
  BY <1>1, <1>6, <1>7 DEF StoryPart
<1>15. Len(collected') > 1 => Doomed'
  BY <1>1, <1>12 DEF StoryPart
<1>16. StoryPart'
  BY <1>1, <1>13, <1>14, <1>15 DEF StoryPart, Cursors
<1> QED
  BY <1>9, <1>16 DEF i0

LEMMA LoneTarget ==
  ASSUME NEW p, PoolOK(p), Lone(p), NEW c0, c0 = NoCursor \/ c0 \in PlainCursors(p)
  PROVE  LET q == PoolFor(p, c0, TRUE, FALSE)
             c == CursorFor(p, c0, TRUE, FALSE)
         IN PlainCursors(q) = {c} /\ PlainCursors(p) \subseteq {c} /\ Lone(q)
<1> DEFINE a == Candidate(p, c0, TRUE, FALSE)
<1>1. /\ p.current # NoCursor => Storage(p.current, p.keepCurrent) \in p.cursors
      /\ \A cs \in p.cursors : cs.cursor \in 1 .. p.counter /\ cs.keep \in BOOLEAN
                             /\ cs = Storage(cs.cursor, cs.keep)
      /\ p.counter \in Nat /\ p.keepCurrent \in BOOLEAN
  BY DEF PoolOK, PoolShape, Storage
<1>2. Recall(p, FALSE) = p
  <2>1. CASE p.current = NoCursor
    <3>1. PlainCursors(p) = {}
      BY <1>1, <2>1 DEF Lone, PlainCursors, NoCursor
    <3>2. LastStored(p, FALSE) = {}
      BY <3>1 DEF LastStored, PlainCursors
    <3> QED
      BY <3>2 DEF Recall
  <2>2. CASE p.current # NoCursor
    BY <2>2 DEF Recall
  <2> QED
    BY <2>1, <2>2
<1>3. p.current # NoCursor /\ ~p.keepCurrent => p.current \in PlainCursors(p)
  BY <1>1 DEF PlainCursors, Storage
<1>4. CASE PlainCursors(p) = {}
  <2>1. c0 = NoCursor /\ a = NoCursor
    BY <1>1, <1>3, <1>4 DEF Candidate
  <2> DEFINE q == AddCursor(p, FALSE)
             c == p.counter + 1
  <2>2. PoolFor(p, c0, TRUE, FALSE) = q /\ CursorFor(p, c0, TRUE, FALSE) = c
    BY <1>2, <2>1 DEF PoolFor, CursorFor
  <2>3. /\ q.cursors = p.cursors \cup {Storage(c, FALSE)}
        /\ q.current = c /\ q.keepCurrent = FALSE
    BY DEF AddCursor
  <2>4. Storage(c, FALSE).cursor = c /\ Storage(c, FALSE).keep = FALSE
    BY DEF Storage
  <2> HIDE DEF q, c
  <2>5. PlainCursors(q) = {c}
    BY <1>4, <2>3, <2>4 DEF PlainCursors
  <2> QED
    BY <1>4, <2>2, <2>3, <2>5 DEF Lone
<1>5. CASE PlainCursors(p) # {}
  <2>1. /\ p.current \in PlainCursors(p) /\ PlainCursors(p) = {p.current}
        /\ p.keepCurrent = FALSE
    BY <1>5 DEF Lone
  <2>2. p.current # NoCursor /\ HasCursor(p, p.current)
    BY <1>1, <2>1 DEF PlainCursors, HasCursor, NoCursor
  <2>3. a = p.current
    BY <2>1, <2>2 DEF Candidate
  <2>4. /\ PoolFor(p, c0, TRUE, FALSE) = p
        /\ CursorFor(p, c0, TRUE, FALSE) = p.current
    BY <1>2, <2>2, <2>3 DEF PoolFor, CursorFor
  <2> QED
    BY <2>1, <2>4
<1> QED
  BY <1>4, <1>5

\* What is on the target of a statement, and what is not, can be read no more.
LEMMA LoneRun ==
  ASSUME ShapeInv, args.program = "sql-query", LonePart, phase = "parse",
         NEW result, RunOn(PoolOfTarget, Target, result), Target \in Cursors,
         collected' = collected \/ collected' = Append(collected, Target),
         last' = NoCursor \/ last' = Target
  PROVE  /\ LonePart'
         /\ \A j \in DOMAIN collected : NoRows(collected[j]) \/ collected[j] = Target
<1> DEFINE q == PoolOfTarget
           c == Target
<1>1. /\ PoolOK(pool) /\ Lone(pool) /\ (last = NoCursor \/ last \in PlainCursors(pool))
      /\ \A j \in DOMAIN collected :
           NoRows(collected[j]) \/ collected[j] \in PlainCursors(pool)
  BY DEF LonePart, ShapeInv, DataInv
<1>2. PlainCursors(q) = {c} /\ PlainCursors(pool) \subseteq {c} /\ Lone(q)
  BY <1>1, LoneTarget DEF PoolOfTarget, Target
<1>3. /\ pool' = q /\ c \in Cursors
      /\ \A d \in Cursors : d # c => rs'[d] = rs[d]
  BY HeldFacts DEF RunOn
<1> HIDE DEF q, c
<1>4. \A j \in DOMAIN collected : NoRows(collected[j]) \/ collected[j] = c
  BY <1>1, <1>2
<1>5. last' = NoCursor \/ last' \in PlainCursors(pool')
  BY <1>2, <1>3 DEF c
<1>6. ASSUME NEW j \in DOMAIN collected'
      PROVE  NoRows(collected[j])' \/ collected'[j] \in PlainCursors(pool')
  <2>1. CASE collected'[j] = c
    BY <1>2, <1>3, <2>1
  <2>2. CASE collected'[j] # c
    <3>1. /\ collected \in Seq(Cursors)
          /\ \A k \in DOMAIN collected : collected[k] \in Cursors
      BY HeldFacts
    <3>2. j \in DOMAIN collected /\ collected'[j] = collected[j]
      <4>1. CASE collected' = collected
        BY <4>1
      <4>2. CASE collected' = Append(collected, c)
        BY <2>2, <3>1, <4>2
      <4> QED
        BY <4>1, <4>2 DEF c
    <3>3. NoRows(collected[j]) /\ rs'[collected[j]] = rs[collected[j]]
      BY <1>3, <1>4, <2>2, <3>1, <3>2
    <3> QED
      BY <3>2, <3>3 DEF NoRows
  <2> QED
    BY <2>1, <2>2
<1>7. LonePart'
  BY <1>2, <1>3, <1>5, <1>6 DEF LonePart, NoRows
<1> QED
  BY <1>4, <1>7 DEF c

LEMMA LoneProgram ==
  ASSUME ShapeInv, args.program = "sql-query", LonePart, Program
  PROVE  LonePart'
<1>1. CASE ReadSelect
  <2>1. /\ phase = "parse" /\ Target \in Cursors
        /\ RunOn(PoolOfTarget, Target, MeaningOf(Head(sqls)).result)
        /\ collected' = Append(collected, Target) /\ last' = NoCursor
    BY <1>1 DEF ReadSelect, Reading
  <2> QED
    BY <2>1, LoneRun
<1>2. CASE ReadUpdate
  <2>1. /\ phase = "parse" /\ Target \in Cursors /\ RunOn(PoolOfTarget, Target, Update)
        /\ collected' = collected /\ last' = Target
    BY <1>2 DEF ReadUpdate, Reading
  <2> QED
    BY <2>1, LoneRun
<1>3. CASE CommitBatch
  <2>1. /\ phase = "commit" /\ collected' = collected /\ last' = NoCursor
        /\ pool' = CloseAllCursors(pool, {}) /\ rs' = Without(PlainCursors(pool))
    BY <1>3 DEF CommitBatch, CloseCursors
  <2>2. PlainCursors(pool') = {}
    <3>1. pool'.cursors = Kept(pool)
      <4> DEFINE r == DropCurrent(pool, PlainCursors(pool) \ {})
      <4>1. pool \in PoolShape
        BY DEF ShapeInv, DataInv, PoolOK
      <4>2. r \in PoolShape
        BY <4>1 DEF DropCurrent, SetCurrent, PoolShape, NoCursor
      <4>3. pool' = [r EXCEPT !.cursors = Kept(pool)]
        BY <2>1 DEF CloseAllCursors
      <4> HIDE DEF r
      <4> QED
        BY <4>2, <4>3 DEF PoolShape
    <3> QED
      BY <3>1 DEF PlainCursors, Kept
  <2>3. ASSUME NEW j \in DOMAIN collected PROVE NoRows(collected[j])'
    <3>1. collected[j] \in Cursors /\ (NoRows(collected[j]) \/ collected[j] \in PlainCursors(pool))
      BY <2>1, HeldFacts DEF LonePart
    <3>2. rs'[collected[j]] = IF collected[j] \in PlainCursors(pool) THEN NoResult
                              ELSE rs[collected[j]]
      BY <2>1, <3>1 DEF Without
    <3>3. NoResult.stmt = 0
      BY DEF NoResult
    <3> QED
      BY <2>1, <3>1, <3>2, <3>3 DEF NoRows
  <2> QED
    BY <2>1, <2>2, <2>3 DEF LonePart, Lone, NoRows
<1>4. CASE phase' \notin {"parse", "commit"}
  BY <1>4 DEF LonePart
<1>5. CASE \/ ReadFails \/ ReadEnd \/ LastCommit \/ CommitRefused \/ FirstResult
           \/ FurtherSheet \/ OutputRefused \/ PrintRow \/ PrintCrashes \/ PrintEnd
           \/ FetchFails \/ FinishOutput
  BY <1>4, <1>5 DEF ReadFails, ReadEnd, LastCommit, AfterSettle, CommitRefused,
       FirstResult, FurtherSheet, StartOutput, OutputRefused, PrintRow,
       PrintCrashes, PrintEnd, FetchFails, FinishOutput
<1> QED
  BY <1>1, <1>2, <1>3, <1>5 DEF Program

LEMMA EndProgram ==
  ASSUME ShapeInv, args.program = "sql-query", EndPart, Program
  PROVE  EndPart'
<1>1. CASE ReadFails
  <2>1. sqls # << >> /\ MeaningOf(Head(sqls)).kind = "fails" /\ sqls' = sqls
    BY <1>1 DEF ReadFails, Reading
  <2>2. MeaningOf(Head(sqls)) = Fails
    BY <2>1, MeaningShape DEF Meanings
  <2> QED
    BY <2>1, <2>2 DEF EndPart
<1>2. CASE ReadEnd
  BY <1>2 DEF ReadEnd, EndPart, TooMany, queryVars
<1>3. CASE ReadSelect \/ ReadUpdate \/ CommitBatch \/ CommitRefused \/ OutputRefused
           \/ PrintCrashes
  <2>1. phase' \in {"parse", "commit", "crashed"}
    BY <1>3 DEF ReadSelect, ReadUpdate, Reading, CommitBatch, CommitRefused,
                OutputRefused, PrintCrashes
  <2> QED
    BY <2>1 DEF EndPart
<1>4. CASE \/ LastCommit \/ FirstResult \/ FurtherSheet \/ PrintRow \/ PrintEnd
           \/ FetchFails \/ FinishOutput
  <2>1. phase \in {"settle", "output", "print"} /\ UNCHANGED <<sqls, collected>>
    BY <1>4 DEF LastCommit, FirstResult, FurtherSheet, StartOutput, OutputFrame,
                PrintRow, PrintEnd, FetchFails, FinishOutput
  <2> QED
    BY <2>1 DEF EndPart, TooMany
<1> QED
  BY <1>1, <1>2, <1>3, <1>4 DEF Program

LEMMA ReadsOutput ==
  ASSUME ShapeInv, args.program = "sql-query", FilePart, RowsPart, StoryPart,
         LonePart, ReadSelect \/ ReadUpdate
  PROVE  RowsPart' /\ StoryPart'
<1>1. CASE ReadSelect
  <2> DEFINE result == MeaningOf(Head(sqls)).result
  <2>1. /\ phase = "parse" /\ Target \in Cursors /\ RunOn(PoolOfTarget, Target, result)
        /\ collected' = Append(collected, Target) /\ rows' = Append(rows, 0)
        /\ last' = NoCursor
        /\ UNCHANGED <<phase, given, sheet, cursor, written, args, faults>>
    BY <1>1 DEF ReadSelect, Reading
  <2>2. result \in Results
    BY <1>1, HeadMeaning, SelectMeaning DEF ReadSelect, Reading
  <2> HIDE DEF result
  <2>3. RowsPart'
    BY <2>1, <2>2, RowsRun
  <2>5. \A j \in DOMAIN collected : NoRows(collected[j]) \/ collected[j] = Target
    BY <2>1, LoneRun
  <2>4. StoryPart'
    BY <2>1, <2>2, <2>5, StoryRun
  <2> QED
    BY <2>3, <2>4
<1>2. CASE ReadUpdate
  <2> DEFINE n == MeaningOf(Head(sqls)).rows
  <2>1. /\ phase = "parse" /\ Target \in Cursors /\ RunOn(PoolOfTarget, Target, Update)
        /\ collected' = collected /\ rows' = Append(rows, n)
        /\ phase' \in {"parse", "commit"}
        /\ UNCHANGED <<given, sheet, cursor, written, args, faults>>
    BY <1>2 DEF ReadUpdate, Reading
  <2> HIDE DEF n
  <2>2. Update \in Results
    BY SelectsAreResults
  <2>3. RowsPart'
    BY <2>1, <2>2, RowsRun
  <2>4. StoryPart'
    BY <2>1, <2>2, StoryRun
  <2> QED
    BY <2>3, <2>4
<1> QED
  BY <1>1, <1>2

LEMMA OutputProgram ==
  ASSUME ShapeInv, args.program = "sql-query", FilePart, RowsPart, StoryPart,
         LonePart, Program
  PROVE  RowsPart' /\ StoryPart'
<1>0. Without({}) = rs /\ faults \in Nat
  <2>1. rs \in [Cursors -> HeldShape]
    BY HeldFacts
  <2>2. faults \in Nat
    BY DEF ShapeInv, TypeOK
  <2> QED
    BY <2>1, <2>2 DEF Without
<1>1. CASE ReadSelect \/ ReadUpdate
  BY <1>1, ReadsOutput
<1>2. CASE ReadFails \/ ReadEnd \/ CommitBatch \/ LastCommit \/ FinishOutput
  <2>1. /\ UNCHANGED <<shown, given, sheet, args, collected, rows, faults>>
        /\ phase \in {"parse", "commit", "settle", "output"}
        /\ phase' \in {"parse", "settle", "output", "done"}
        /\ \E S : rs' = Without(S)
    <3>1. CASE ReadFails
      BY <3>1 DEF ReadFails, Reading
    <3>2. CASE ReadEnd
      BY <1>0, <3>2 DEF ReadEnd, queryVars
    <3>3. CASE CommitBatch
      BY <3>3 DEF CommitBatch, CloseCursors
    <3>4. CASE LastCommit
      BY <1>0, <3>4 DEF LastCommit, CloseCursors, AfterSettle
    <3>5. CASE FinishOutput
      BY <1>0, <3>5 DEF FinishOutput, OutputFrame
    <3> QED
      BY <1>2, <3>1, <3>2, <3>3, <3>4, <3>5
  <2>2. PICK S : rs' = Without(S)
    BY <2>1
  <2>3. RowsPart'
    BY <2>1, <2>2, RowsClosed
  <2>4. StoryPart'
    BY <2>1, <2>2, StoryClosed
  <2> QED
    BY <2>3, <2>4
<1>3. CASE CommitRefused
  <2>1. (\E S : rs' = Without(S)) /\ given' = given /\ phase' = "crashed"
    BY <1>0, <1>3 DEF CommitRefused, CloseCursors
  <2> QED
    BY <2>1, RowsClosed DEF StoryPart
<1>4. CASE FirstResult \/ FurtherSheet
  <2>1. /\ phase = "output" /\ phase' = "print"
        /\ sheet = 0 \/ sheet \in 1 .. Len(collected) - 1
        /\ sheet' = sheet + 1 /\ cursor' = NextCursor /\ written' = 0
        /\ UNCHANGED <<rs, shown, args, collected, rows, faults>>
    BY <1>4 DEF FirstResult, FurtherSheet, StartOutput, OutputFrame
  <2>2. given' = given
    BY <1>4 DEF FirstResult, FurtherSheet, FilePart
  <2> QED
    BY <2>1, <2>2, RowsSame, StorySheet
<1>5. CASE OutputRefused \/ PrintCrashes
  <2>1. rs' = rs /\ given' = given /\ phase' = "crashed"
    BY <1>5 DEF OutputRefused, PrintCrashes, OutputFrame
  <2> QED
    BY <2>1, RowsSame DEF StoryPart
<1>6. CASE PrintRow
  <2>1. phase = "print" /\ WriteRow
    BY <1>6 DEF PrintRow
  <2> QED
    BY <1>6, <2>1, RowsRow, StoryRow
<1>7. CASE PrintEnd
  <2>1. \E S : rs' = Without(S)
    BY <1>7 DEF PrintEnd, CloseIt
  <2>2. given' = given
    BY <1>7 DEF PrintEnd
  <2> QED
    BY <1>7, <2>1, <2>2, RowsClosed, StoryEnd
<1>8. CASE FetchFails
  <2>1. rs' = rs /\ given' = given /\ faults' = faults + 1
    BY <1>8 DEF FetchFails
  <2>2. faults' # 0
    BY <1>0, <2>1
  <2> QED
    BY <2>1, <2>2, RowsSame DEF StoryPart
<1> QED
  BY <1>1, <1>2, <1>3, <1>4, <1>5, <1>6, <1>7, <1>8 DEF Program

\* No part of a result is left: before the output nothing is written, a result
\* that is begun fits row by row, and is given up only when it is complete.
LEMMA NothingGiven ==
  ASSUME ShapeInv, args.program = "sql-query", given = << >>
  PROVE  WholePart
<1>1. \A i \in Queries : RowsOf(given, {i}) = << >>
  BY RowsOfNone
<1> QED
  BY <1>1 DEF WholePart

LEMMA WholeKept ==
  ASSUME WholePart, UNCHANGED <<shown, rows, given, args>>, faults' = faults,
         faults = 0 => \A i \in Queries : Printing(i) => Delivered(i) \/ Printing(i)'
  PROVE  WholePart'
<1> SUFFICES ASSUME faults = 0, NEW i \in Queries'
             PROVE  (RowsOf(given, {i}) = << >> \/ Delivered(i) \/ Printing(i))'
  BY DEF WholePart
<1>1. i \in Queries
  BY DEF Queries, Executed, IsQuery
<1>2. RowsOf(given, {i}) = << >> \/ Delivered(i) \/ Printing(i)
  BY <1>1 DEF WholePart
<1>3. Delivered(i) => Delivered(i)'
  BY DEF Delivered, Asked
<1> QED
  BY <1>1, <1>2, <1>3

LEMMA WholeRow ==
  ASSUME ShapeInv, args.program = "sql-query", FilePart, RowsPart, WholePart, PrintRow
  PROVE  WholePart'
<1>1. /\ phase = "print" /\ phase' = "print" /\ WriteRow
      /\ UNCHANGED <<shown, cursor, args, rows, faults>>
  BY DEF PrintRow
<1> SUFFICES ASSUME faults = 0, NEW i \in Queries'
             PROVE  (RowsOf(given, {i}) = << >> \/ Delivered(i) \/ Printing(i))'
  BY <1>1 DEF WholePart
<1>2. i \in Queries /\ i \in Nat
  <2>1. i \in Queries
    BY <1>1 DEF Queries, Executed, IsQuery
  <2> QED
    BY <2>1, HeldFacts
<1>3. /\ cursor \in Cursors
      /\ rs'[cursor].stmt = rs[cursor].stmt /\ rs'[cursor].labels = rs[cursor].labels
      /\ \A k \in Nat \ {rs[cursor].stmt} : RowsOf(given', {k}) = RowsOf(given, {k})
  BY <1>1, PrintedCursor, RowsRow
<1>4. CASE i = rs[cursor].stmt
  <2> DEFINE row == RowOf(rs[cursor].stmt, rs[cursor].next)
  <2>1. Fits(fmt, rs[cursor].labels) /\ fmt' = Write(fmt, row)
    BY <1>1 DEF WriteRow
  <2>2. row \in Items /\ FmtOK(fmt)
    <3>1. rs[cursor] \in HeldShape
      BY <1>3 DEF ShapeInv, DataInv
    <3> QED
      BY <3>1, ItemKinds DEF HeldShape, FilePart
  <2> HIDE DEF row
  <2>3. fmt'.active = fmt.active /\ fmt'.columns = fmt.columns
    BY <2>1, <2>2, WriteIs DEF Given
  <2> QED
    BY <1>1, <1>3, <1>4, <2>1, <2>3 DEF Printing, Fits
<1>5. CASE i # rs[cursor].stmt
  <2>1. RowsOf(given', {i}) = RowsOf(given, {i})
    BY <1>2, <1>3, <1>5
  <2>2. RowsOf(given, {i}) = << >> \/ Delivered(i)
    BY <1>2, <1>5 DEF WholePart, Printing
  <2>3. Delivered(i) => Delivered(i)'
    BY <1>1, <2>1 DEF Delivered, Asked
  <2> QED
    BY <2>1, <2>2, <2>3
<1> QED
  BY <1>4, <1>5

LEMMA WholeProgram ==
  ASSUME ShapeInv, args.program = "sql-query", FilePart, RowsPart, StoryPart,
         WholePart, Program
  PROVE  WholePart'
<1>1. CASE \/ ReadSelect \/ ReadUpdate \/ ReadFails \/ ReadEnd \/ CommitBatch
           \/ LastCommit \/ CommitRefused
  <2>1. phase \in {"parse", "commit", "settle"} /\ given' = given /\ args' = args
    BY <1>1 DEF ReadSelect, ReadUpdate, ReadFails, Reading, ReadEnd, CommitBatch,
                LastCommit, CommitRefused, queryVars
  <2>2. given' = << >>
    BY <2>1 DEF FilePart
  <2>3. \A i \in Queries' : RowsOf(given', {i}) = << >>
    BY <2>2, RowsOfNone
  <2> QED
    BY <2>3 DEF WholePart
<1>2. CASE FirstResult \/ FurtherSheet \/ OutputRefused \/ FinishOutput
  <2>1. phase = "output" /\ UNCHANGED <<shown, rows, given, args>> /\ faults' = faults
    BY <1>2 DEF FirstResult, FurtherSheet, StartOutput, OutputRefused, FinishOutput,
                OutputFrame, FilePart
  <2> QED
    BY <2>1, WholeKept DEF Printing
<1>3. CASE PrintRow
  BY <1>3, WholeRow
<1>4. CASE PrintCrashes
  <2>1. /\ UNCHANGED <<shown, rows, given, args>> /\ faults' = faults /\ phase = "print"
        /\ NoData \/ ~Fits(fmt, rs[cursor].labels)
    BY <1>4 DEF PrintCrashes, OutputFrame
  <2>2. ASSUME NEW i \in Queries, Printing(i) PROVE FALSE
    <3>1. i # 0 /\ rs[cursor].stmt = i /\ Fits(fmt, rs[cursor].labels)
      BY <2>2, HeldFacts DEF Printing
    <3>2. rs[cursor].labels = shown[i].labels
      <4>1. Holds(cursor, rs[cursor], shown, pool)
        BY <2>1, PrintedCursor DEF ShapeInv, DataInv
      <4> QED
        BY <3>1, <4>1 DEF Holds
    <3>3. shown[i].labels # << >>
      BY <2>2 DEF Queries, IsQuery
    <3> QED
      BY <2>1, <3>1, <3>2, <3>3 DEF NoData
  <2> QED
    BY <2>1, <2>2, WholeKept
<1>5. CASE PrintEnd
  <2>1. UNCHANGED <<shown, rows, given, args>> /\ faults' = faults
    BY <1>5 DEF PrintEnd
  <2>2. faults = 0 => Delivered(rs[cursor].stmt)
    BY <1>5, StoryEnd
  <2> QED
    BY <2>1, <2>2, WholeKept DEF Printing
<1>6. CASE FetchFails
  <2>1. faults' = faults + 1 /\ faults \in Nat
    BY <1>6 DEF FetchFails, ShapeInv, TypeOK
  <2> QED
    BY <2>1 DEF WholePart
<1> QED
  BY <1>1, <1>2, <1>3, <1>4, <1>5, <1>6 DEF Program

LEMMA OutputInit == Init => OutputInv
<1> SUFFICES ASSUME Init, args.program = "sql-query" PROVE OutputInv
  BY DEF OutputInv
<1>1. FilePart /\ RowsPart /\ StoryPart
  BY StoryInit
<1>2. /\ phase = "parse" /\ collected = << >> /\ last = NoCursor /\ given = << >>
      /\ NotProbed \/ Probed
  <2>1. args.program # "client"
    OBVIOUS
  <2> QED
    BY <2>1, Zenon DEF Init
<1>3. PlainCursors(pool) = {}
  <2>1. CASE NotProbed
    BY <2>1 DEF NotProbed, EmptyPool, PlainCursors
  <2>2. CASE Probed
    <3>1. pool.cursors = EmptyPool.cursors \cup {Storage(EmptyPool.counter + 1, TRUE)}
      BY <2>2 DEF Probed, AddCursor
    <3>2. EmptyPool.cursors = {} /\ \A c : Storage(c, TRUE).keep
      BY DEF EmptyPool, Storage
    <3> QED
      BY <3>1, <3>2 DEF PlainCursors
  <2> QED
    BY <1>2, <2>1, <2>2
<1>4. LonePart /\ EndPart
  BY <1>2, <1>3 DEF LonePart, Lone, EndPart
<1>5. WholePart
  BY <1>2, ShapeInit, NothingGiven
<1> QED
  BY <1>1, <1>4, <1>5 DEF OutputInv

LEMMA OutputNext == ShapeInv /\ OutputInv /\ [Next]_vars => OutputInv'
<1> SUFFICES ASSUME ShapeInv, OutputInv, [Next]_vars PROVE OutputInv'
  OBVIOUS
<1>1. CASE args.program = "sql-query" /\ Program
  <2>1. /\ FilePart /\ RowsPart /\ StoryPart
        /\ LonePart /\ EndPart /\ WholePart
    BY <1>1 DEF OutputInv
  <2>2. FilePart'
    BY <1>1, <2>1, FileProgram
  <2>3. RowsPart' /\ StoryPart'
    BY <1>1, <2>1, OutputProgram
  <2>4. LonePart' /\ EndPart'
    BY <1>1, <2>1, LoneProgram, EndProgram
  <2>5. WholePart'
    BY <1>1, <2>1, WholeProgram
  <2> QED
    BY <2>2, <2>3, <2>4, <2>5 DEF OutputInv
<1>2. CASE args.program = "client" /\ Client /\ UNCHANGED queryVars
  BY <1>2 DEF OutputInv, queryVars
<1>3. CASE UNCHANGED vars
  <2>1. /\ FilePart => FilePart'
        /\ RowsPart => RowsPart'
        /\ args' = args
    BY <1>3 DEF vars, exportVars, queryVars, FilePart, RowsPart
  <2>2. StoryPart => StoryPart'
    BY <1>3 DEF vars, exportVars, queryVars, StoryPart, Queries, Executed, IsQuery,
                Told, Doomed, Left, NoRows, Delivered, Asked, Cursors
  <2>3. LonePart => LonePart'
    BY <1>3 DEF vars, exportVars, queryVars, LonePart, Lone, NoRows
  <2>4. EndPart => EndPart'
    BY <1>3 DEF vars, exportVars, queryVars, EndPart, TooMany
  <2>5. WholePart => WholePart'
    BY <1>3 DEF vars, exportVars, queryVars, WholePart, Queries, Executed, IsQuery,
                Delivered, Asked, Printing
  <2> QED
    BY <2>1, <2>2, <2>3, <2>4, <2>5 DEF OutputInv
<1> QED
  BY <1>1, <1>2, <1>3 DEF Next

\* Unless the database fails, a result is in the file whole or not at all, for
\* every input and class of formatter: the program that comes to its end has
\* executed the statements up to the first that fails and written each query
\* among them, its rows once, in order and up to the limit; a query whose
\* cursor a later statement took, and with it a second query, makes it crash
\* instead, and then too no part of a result is left behind.
THEOREM ResultsReachFile == Spec => []ResultsWritten
<1>1. ShapeInv /\ OutputInv => ResultsWritten
  <2> SUFFICES ASSUME ShapeInv, OutputInv, args.program = "sql-query", faults = 0
               PROVE  /\ phase = "done" =>
                           /\ sqls = << >> \/ MeaningOf(Head(sqls)) = Fails
                           /\ \A i \in Queries : InFull(i, fmt.out)
                      /\ phase = "crashed" =>
                           \A i \in Queries : \/ InFull(i, fmt.out)
                                              \/ RowsOf(fmt.out, {i}) = << >>
    BY DEF ResultsWritten
  <2>1. /\ FilePart /\ StoryPart /\ EndPart /\ WholePart
        /\ \A i \in Queries : i \in Nat
    <3>1. \A i \in Queries : i \in 1 .. Len(shown)
      BY HeldFacts
    <3> QED
      BY <3>1 DEF OutputInv
  <2>2. ASSUME phase = "done"
        PROVE  /\ sqls = << >> \/ MeaningOf(Head(sqls)) = Fails
               /\ \A i \in Queries : InFull(i, fmt.out)
    <3>1. Left = {}
      <4>1. sheet = Len(collected) /\ collected \in Seq(Cursors)
        BY <2>1, <2>2, HeldFacts DEF FilePart
      <4> QED
        BY <2>2, <4>1 DEF Left
    <3>2. ~Doomed
      BY <3>1 DEF Doomed
    <3>3. ~TooMany
      <4>1. Len(collected) \in Nat /\ ~(Len(collected) > 1)
        BY <2>1, <2>2, <3>2, ShapeFacts DEF StoryPart
      <4> QED
        BY <4>1, SqlQueryAssumption DEF TooMany
    <3>4. ASSUME NEW i \in Queries PROVE InFull(i, fmt.out)
      <4>1. Delivered(i)
        BY <2>1, <2>2, <3>1, <3>2 DEF StoryPart, Told
      <4>2. RowsOf(fmt.out, Nat) = given /\ fmt.out \in Seq(Items)
        BY <2>1, <2>2 DEF FilePart, Saved, FmtOK
      <4>3. RowsOf(fmt.out, {i}) = RowsOf(given, {i})
        BY <2>1, <4>2, RowsOfRows
      <4> QED
        BY <4>1, <4>3 DEF InFull, Delivered, FirstRows
    <3> QED
      BY <2>1, <2>2, <3>3, <3>4 DEF EndPart
  <2>3. ASSUME phase = "crashed", NEW i \in Queries
        PROVE  InFull(i, fmt.out) \/ RowsOf(fmt.out, {i}) = << >>
    <3>1. RowsOf(given, {i}) = << >> \/ Delivered(i)
      BY <2>1, <2>3 DEF WholePart, Printing
    <3>2. fmt.out \in Seq(Items) /\ i \in Nat
      BY <2>1 DEF FilePart, FmtOK
    <3>3. RowsOf(fmt.out, Nat) = given \/ RowsOf(fmt.out, Nat) = << >>
      <4>1. CASE sheet = 0
        BY <2>1, <4>1 DEF FilePart, Saved
      <4>2. CASE sheet # 0
        <5>1. HeldBack(fmt, given) /\ Unsaved(fmt)
          BY <2>1, <2>3, <4>2, ShapeFacts DEF FilePart
        <5> QED
          BY <5>1 DEF HeldBack, Unsaved
      <4> QED
        BY <4>1, <4>2
    <3>4. RowsOf(RowsOf(fmt.out, Nat), {i}) = RowsOf(fmt.out, {i})
      BY <3>2, RowsOfRows
    <3>5. CASE RowsOf(fmt.out, Nat) = given
      BY <3>1, <3>4, <3>5 DEF InFull, Delivered, FirstRows
    <3>6. CASE RowsOf(fmt.out, Nat) = << >>
      BY <3>4, <3>6, RowsOfNone
    <3> QED
      BY <3>3, <3>5, <3>6
  <2> QED
    BY <2>2, <2>3
<1> QED
  BY <1>1, ShapeInit, ShapeNext, OutputInit, OutputNext, PTL DEF Spec

=============================================================================
