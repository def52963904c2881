------------------------- MODULE JdbcCursors_proofs -------------------------
(***************************************************************************)
(* Theorems about JdbcCursors, for every value of its constants: the list  *)
(* of cursors first, then the result sets and the iterators.               *)
(***************************************************************************)
EXTENDS JdbcCursors, TLAPS

USE JdbcAssumption DEF JdbcAssumption

-----------------------------------------------------------------------------
(* The operators of JdbcPool keep the record a record of its type. *)

LEMMA SetCurrentType ==
  ASSUME NEW p \in PoolType, NEW c \in CursorOrNone
  PROVE  SetCurrent(p, c) \in PoolType
BY DEF SetCurrent, PoolType

LEMMA RecallType ==
  ASSUME NEW p \in PoolType, NEW keep \in BOOLEAN
  PROVE  Recall(p, keep) \in PoolType
<1> DEFINE c == CHOOSE c \in LastStored(p, keep) : TRUE
<1>1. LastStored(p, keep) \subseteq Cursors
  BY DEF LastStored, PoolType
<1>2. CASE p.current = NoCursor /\ LastStored(p, keep) # {}
  <2>1. c \in Cursors
    BY <1>1, <1>2
  <2>2. Recall(p, keep) = SetCurrent(p, c)
    BY <1>2 DEF Recall
  <2> HIDE DEF c
  <2> QED
    BY <2>1, <2>2, SetCurrentType DEF CursorOrNone, Cursors
<1>3. CASE ~(p.current = NoCursor /\ LastStored(p, keep) # {})
  BY <1>3 DEF Recall
<1> QED
  BY <1>2, <1>3

LEMMA PoolForType ==
  ASSUME NEW p \in PoolType,
         NEW given \in CursorOrNone, NEW useCurrent \in BOOLEAN,
         NEW keep \in BOOLEAN,
         CursorFor(p, given, useCurrent, keep) \in Cursors
  PROVE  PoolFor(p, given, useCurrent, keep) \in PoolType
<1> DEFINE q == Recall(p, keep)
<1>1. q \in PoolType
  BY RecallType
<1>2. q.counter = p.counter
  BY DEF Recall, SetCurrent
<1>3. CASE Candidate(q, given, useCurrent, keep) = NoCursor
  <2>1. p.counter + 1 \in Cursors
    BY <1>3 DEF CursorFor
  <2>2. AddCursor(q, keep) \in PoolType
    BY <1>1, <1>2, <2>1 DEF AddCursor, PoolType, Storage, CursorOrNone, Cursors
  <2> QED
    BY <1>3, <2>2 DEF PoolFor
<1>4. CASE Candidate(q, given, useCurrent, keep) # NoCursor
  BY <1>1, <1>4 DEF PoolFor
<1> QED
  BY <1>3, <1>4

LEMMA DropCurrentType ==
  ASSUME NEW p \in PoolType, NEW closed
  PROVE  DropCurrent(p, closed) \in PoolType
BY SetCurrentType DEF DropCurrent, CursorOrNone, NoCursor

LEMMA CloseCursorType ==
  ASSUME NEW p \in PoolType, NEW c, NEW ok \in BOOLEAN
  PROVE  CloseCursor(p, c, ok) \in PoolType
<1> DEFINE q == DropCurrent(p, {c})
<1>1. q \in PoolType
  BY DropCurrentType
<1> HIDE DEF q
<1>2. RemoveCursor(q, c) \in PoolType
  BY <1>1 DEF RemoveCursor, PoolType
<1> QED
  BY <1>2 DEF CloseCursor, q

LEMMA CloseAllType ==
  ASSUME NEW p \in PoolType, NEW stuck
  PROVE  CloseAllCursors(p, stuck) \in PoolType
<1> DEFINE q == DropCurrent(p, PlainCursors(p) \ stuck)
<1>1. q \in PoolType
  BY DropCurrentType
<1>2. Kept(p) \subseteq [cursor : Cursors, keep : BOOLEAN]
  BY DEF Kept, PoolType
<1> HIDE DEF q
<1>3. [q EXCEPT !.cursors = Kept(p)] \in PoolType
  BY <1>1, <1>2 DEF PoolType
<1> QED
  BY <1>3 DEF CloseAllCursors, q

-----------------------------------------------------------------------------
(* Iterators and the sequence of them. *)

LEMMA YieldType ==
  ASSUME NEW it \in IteratorType, NEW n \in Nat \ {0},
         NEW s \in 0 .. MaxStmts
  PROVE  Yield(it, n, s) \in IteratorType
<1> DEFINE own     == IF s = it.stmt THEN it.own + 1 ELSE it.own
           foreign == IF s = it.stmt THEN it.foreign ELSE it.foreign + 1
<1>1. own \in Nat /\ foreign \in Nat /\ n - 1 \in Nat
  BY DEF IteratorType
<1>2. Yield(it, n, s) = [it EXCEPT !.buffer = n - 1, !.bufferOf = s,
                                   !.own = own, !.foreign = foreign]
  BY DEF Yield, IteratorType
<1> HIDE DEF own, foreign
<1> QED
  BY <1>1, <1>2 DEF IteratorType

LEMMA UpdateType ==
  ASSUME TypeOK, NEW g \in DOMAIN gens, NEW it \in IteratorType
  PROVE  [gens EXCEPT ![g] = it] \in Seq(IteratorType)
BY DEF TypeOK

LEMMA IteratorsHaveType ==
  ASSUME TypeOK, NEW g \in DOMAIN gens
  PROVE  gens[g] \in IteratorType
BY DEF TypeOK

LEMMA ClosedResultsType ==
  ASSUME TypeOK, NEW cs, NEW stuck
  PROVE  ClosedResults(cs, stuck) \in [Cursors -> ResultType]
BY DEF ClosedResults, NoResult, ResultType, TypeOK

LEMMA RefusalsType ==
  ASSUME NEW cs, NEW stuck \in Refusals(cs)
  PROVE  stuck \subseteq cs
BY DEF Refusals

LEMMA CloseOneType ==
  ASSUME TypeOK, NEW c, CloseOne(c)
  PROVE  /\ pool' \in PoolType
         /\ rs' \in [Cursors -> ResultType]
         /\ unclosed' \subseteq Cursors
<1> DEFINE cs == IF HasCursor(pool, c) THEN {c} ELSE {}
<1>1. PICK stuck \in Refusals(cs) :
        /\ pool' = CloseCursor(pool, c, stuck = {})
        /\ rs' = ClosedResults(cs, stuck)
        /\ unclosed' = unclosed \cup stuck
  BY DEF CloseOne
<1>2. cs \subseteq Cursors
  BY DEF HasCursor, TypeOK, PoolType
<1>3. pool \in PoolType
  BY DEF TypeOK
<1>4. CloseCursor(pool, c, stuck = {}) \in PoolType
  BY <1>3, CloseCursorType
<1>5. stuck \subseteq Cursors
  BY <1>2, RefusalsType
<1> QED
  BY <1>1, <1>4, <1>5, ClosedResultsType DEF TypeOK

LEMMA RunStatementType ==
  ASSUME TypeOK, NEW given \in CursorOrNone, NEW useCurrent \in BOOLEAN,
         NEW keep \in BOOLEAN, NEW result \in ResultType,
         RunStatement(given, useCurrent, keep, result)
  PROVE  /\ pool' \in PoolType
         /\ rs' \in [Cursors -> ResultType]
         /\ stmts' \in 0 .. MaxStmts
<1>1. pool' \in PoolType
  BY PoolForType DEF RunStatement, TypeOK
<1>2. rs' \in [Cursors -> ResultType]
  BY DEF RunStatement, TypeOK
<1>3. stmts' \in 0 .. MaxStmts
  BY DEF RunStatement, TypeOK
<1> QED
  BY <1>1, <1>2, <1>3

\* The statement of a query: a kept cursor of its own.
LEMMA QueryStatementType ==
  ASSUME TypeOK, NEW result \in ResultType,
         RunStatement(NoCursor, FALSE, TRUE, result)
  PROVE  /\ pool' \in PoolType
         /\ rs' \in [Cursors -> ResultType]
         /\ stmts' \in 0 .. MaxStmts
<1>1. NoCursor \in CursorOrNone
  BY DEF NoCursor, CursorOrNone
<1> QED
  BY <1>1, RunStatementType, Zenon

LEMMA NewCursorType ==
  ASSUME NEW result, RunStatement(NoCursor, FALSE, TRUE, result)
  PROVE  pool.counter + 1 \in Cursors
BY DEF RunStatement, CursorFor, Candidate

LEMMA AppendType ==
  ASSUME TypeOK, NEW c \in Cursors, NEW keep \in BOOLEAN,
         NEW result \in ResultType, NEW max \in Nat
  PROVE  Append(gens, Iterator(c, keep, result, max)) \in Seq(IteratorType)
<1>1. Iterator(c, keep, result, max) \in IteratorType
  BY DEF Iterator, IteratorType, ResultType
<1> QED
  BY <1>1 DEF TypeOK

\* An iterator that raises on an open result, or is left: it stands still, its
\* cursor stays where it is, and at most rows of its own result are gone.
LEMMA GaveUp ==
  ASSUME TypeOK, NEW g \in DOMAIN gens, NextRaises(g) \/ Leave(g)
  PROVE  /\ \E how \in {"failed", "left"} :
              gens' = [gens EXCEPT ![g] =
                         [gens[g] EXCEPT !.state = how, !.buffer = 0]]
         /\ pool' = pool /\ handed' = handed /\ stmts' = stmts
         /\ gens[g].state = "open" /\ gens[g].cursor \in abandoned'
         /\ abandoned \subseteq abandoned' /\ abandoned' \subseteq Cursors
         /\ unclosed \subseteq unclosed' /\ unclosed' \subseteq Cursors
         /\ rs' \in [Cursors -> ResultType]
         /\ \A d \in Cursors :
              rs'[d].stmt = rs[d].stmt /\ rs'[d].left <= rs[d].left
         /\ \A d \in Cursors : d # gens[g].cursor => rs'[d] = rs[d]
<1> DEFINE c == gens[g].cursor
<1>1. gens[g] \in IteratorType /\ c \in Cursors /\ gens[g].state = "open"
  <2>1. gens[g] \in IteratorType
    BY DEF TypeOK
  <2> QED
    BY <2>1 DEF IteratorType, NextRaises, Leave, Open
<1>2. /\ pool' = pool /\ handed' = handed /\ stmts' = stmts
      /\ abandoned' = abandoned \cup {c}
      /\ \E how \in {"failed", "left"} :
           gens' = [gens EXCEPT ![g] =
                      [gens[g] EXCEPT !.state = how, !.buffer = 0]]
  BY DEF NextRaises, Leave, GiveUp, TypeOK
<1>3. unclosed \subseteq unclosed' /\ unclosed' \subseteq Cursors
  BY <1>1 DEF NextRaises, Leave, ClosesAtLimit, TypeOK
<1>4. rs' = rs \/ rs' = BatchFetched(c)
  BY DEF NextRaises, Leave
<1>5. CASE rs' = rs
  <2>1. /\ rs' \in [Cursors -> ResultType]
        /\ \A d \in Cursors :
             rs'[d].stmt = rs[d].stmt /\ rs'[d].left <= rs[d].left
        /\ \A d \in Cursors : d # c => rs'[d] = rs[d]
    BY <1>5 DEF TypeOK, ResultType
  <2>2. abandoned' \subseteq Cursors /\ c \in abandoned'
    BY <1>1, <1>2 DEF TypeOK
  <2> QED
    BY <1>1, <1>2, <1>3, <2>1, <2>2
<1>6. CASE rs' = BatchFetched(c)
  <2> DEFINE n == Batch(rs[c])
  <2>1. rs[c] \in ResultType
    BY <1>1 DEF TypeOK
  <2>2. rs[c].left - n \in Nat
    BY <2>1 DEF Batch, ResultType
  <2>3. rs' = [rs EXCEPT ![c].left = rs[c].left - n]
    BY <1>6 DEF BatchFetched
  <2>5. n \in Nat /\ \A d \in Cursors : rs[d].left \in Nat
    BY <2>1 DEF Batch, ResultType, TypeOK
  <2> HIDE DEF n, c
  <2>4. /\ rs' \in [Cursors -> ResultType]
        /\ \A d \in Cursors :
             rs'[d].stmt = rs[d].stmt /\ rs'[d].left <= rs[d].left
        /\ \A d \in Cursors : d # c => rs'[d] = rs[d]
    BY <1>1, <2>1, <2>2, <2>3, <2>5 DEF TypeOK, ResultType
  <2>6. abandoned' \subseteq Cursors /\ c \in abandoned'
    BY <1>1, <1>2 DEF TypeOK
  <2> QED
    BY <1>1, <1>2, <1>3, <2>4, <2>6 DEF c
<1> QED
  BY <1>4, <1>5, <1>6

LEMMA ResultsType ==
  ASSUME TypeOK, stmts < MaxStmts
  PROVE  /\ NoResult \in ResultType
         /\ \A n \in Nat : [stmt |-> stmts + 1, left |-> n] \in ResultType
BY DEF NoResult, ResultType, TypeOK

(***************************************************************************)
(* Every step of the iterators and of the callers keeps the types.         *)
(***************************************************************************)
LEMMA NextRowType ==
  ASSUME TypeOK, NEW g \in DOMAIN gens, Iterate(g)
  PROVE  TypeOK'
<1> DEFINE c == gens[g].cursor
<1>1. gens[g] \in IteratorType /\ c \in Cursors /\ rs[c] \in ResultType
  <2>1. gens[g] \in IteratorType
    BY IteratorsHaveType
  <2>2. c \in Cursors
    BY <2>1 DEF IteratorType
  <2> QED
    BY <2>1, <2>2 DEF TypeOK
<1>2. CASE NextBuffered(g)
  <2>1. gens[g].buffer \in Nat \ {0} /\ gens[g].bufferOf \in 0 .. MaxStmts
    BY <1>1, <1>2 DEF NextBuffered, IteratorType
  <2>2. Yield(gens[g], gens[g].buffer, gens[g].bufferOf) \in IteratorType
    BY <1>1, <2>1, YieldType
  <2> QED
    BY <1>2, <2>2, UpdateType DEF NextBuffered, TypeOK
<1>3. CASE NextFetch(g)
  <2> DEFINE n == IF rs[c].left < ArraySize THEN rs[c].left ELSE ArraySize
  <2>1. n \in Nat \ {0} /\ rs[c].left - n \in Nat /\ rs[c].stmt \in 0 .. MaxStmts
    BY <1>1, <1>3 DEF NextFetch, Batch, BatchFetched, ResultType
  <2>2. Yield(gens[g], n, rs[c].stmt) \in IteratorType
    BY <1>1, <2>1, YieldType
  <2>3. gens' \in Seq(IteratorType)
    BY <1>3, <2>2, UpdateType DEF NextFetch, Batch, BatchFetched
  <2>4. rs' \in [Cursors -> ResultType]
    <3>1. rs' = [rs EXCEPT ![c].left = rs[c].left - n]
      BY <1>3 DEF NextFetch, Batch, BatchFetched
    <3> HIDE DEF n
    <3> QED
      BY <1>1, <2>1, <3>1 DEF TypeOK, ResultType
  <2>5. unclosed' \subseteq Cursors
    BY <1>1, <1>3 DEF NextFetch, ClosesAtLimit, TypeOK
  <2> QED
    BY <1>3, <2>3, <2>4, <2>5 DEF NextFetch, TypeOK
<1>4. CASE NextEnd(g)
  <2>1. [gens[g] EXCEPT !.state = "ended", !.buffer = 0] \in IteratorType
    BY <1>1 DEF IteratorType
  <2>2. gens' = [gens EXCEPT ![g] = [gens[g] EXCEPT !.state = "ended", !.buffer = 0]]
    BY <1>4 DEF NextEnd, TypeOK
  <2>3. gens' \in Seq(IteratorType)
    BY <2>1, <2>2, UpdateType
  <2> QED
    BY <1>4, <2>3, CloseOneType DEF NextEnd, TypeOK
<1>5. CASE NextFails(g)
  <2>1. [gens[g] EXCEPT !.state = "failed", !.buffer = 0] \in IteratorType
    BY <1>1 DEF IteratorType
  <2>2. gens' = [gens EXCEPT ![g] = [gens[g] EXCEPT !.state = "failed", !.buffer = 0]]
    BY <1>5 DEF NextFails, TypeOK
  <2>3. gens' \in Seq(IteratorType)
    BY <2>1, <2>2, UpdateType
  <2>4. pool' \in PoolType
    BY <1>5, CloseCursorType DEF NextFails, TypeOK
  <2> QED
    BY <1>5, <2>3, <2>4, ClosedResultsType DEF NextFails, TypeOK
<1>6. CASE NextRaises(g) \/ Leave(g)
  <2>1. PICK how \in {"failed", "left"} :
          gens' = [gens EXCEPT ![g] =
                     [gens[g] EXCEPT !.state = how, !.buffer = 0]]
    BY <1>6, GaveUp
  <2>2. [gens[g] EXCEPT !.state = how, !.buffer = 0] \in IteratorType
    BY <1>1 DEF IteratorType
  <2>3. gens' \in Seq(IteratorType)
    BY <2>1, <2>2, UpdateType
  <2> QED
    BY <1>6, <2>3, GaveUp DEF TypeOK
<1> QED
  BY <1>2, <1>3, <1>4, <1>5, <1>6 DEF Iterate, NextRow

LEMMA CallerType ==
  ASSUME TypeOK, Caller
  PROVE  TypeOK'
<1>1. ASSUME NEW given \in CursorOrNone, NEW useCurrent \in BOOLEAN,
             NEW keep \in BOOLEAN, Execute(given, useCurrent, keep)
      PROVE  TypeOK'
  <2>1. PICK result \in Results : RunStatement(given, useCurrent, keep, result)
    BY <1>1 DEF Execute
  <2>2. result \in ResultType
    BY <2>1, ResultsType DEF Results, RunStatement
  <2>3. handed' \subseteq [cursor : Cursors, keep : BOOLEAN]
    BY <1>1, <2>1 DEF Execute, RunStatement, Storage, TypeOK
  <2> QED
    BY <1>1, <2>1, <2>2, <2>3, RunStatementType DEF Execute, TypeOK
<1>2. ASSUME NEW given \in CursorOrNone, NEW useCurrent \in BOOLEAN,
             NEW keep \in BOOLEAN, ExecuteFails(given, useCurrent, keep)
      PROVE  TypeOK'
  <2> DEFINE c == CursorFor(pool, given, useCurrent, keep)
             p == PoolFor(pool, given, useCurrent, keep)
             cs == IF HasCursor(p, c) THEN {c} ELSE {}
  <2>1. p \in PoolType
    BY <1>2, PoolForType DEF ExecuteFails, TypeOK
  <2>2. PICK stuck \in Refusals(cs) : /\ pool' = CloseCursor(p, c, stuck = {})
                                      /\ unclosed' = unclosed \cup stuck
    BY <1>2 DEF ExecuteFails
  <2>3. c \in Cursors
    BY <1>2 DEF ExecuteFails
  <2>4. stuck \subseteq Cursors
    BY <2>3, RefusalsType
  <2>5. pool' \in PoolType
    BY <2>1, <2>2, CloseCursorType
  <2>6. rs' \in [Cursors -> ResultType]
    BY <1>2, ResultsType DEF ExecuteFails, TypeOK
  <2> QED
    BY <1>2, <2>2, <2>4, <2>5, <2>6 DEF ExecuteFails, TypeOK
<1>3. ASSUME NEW max \in MaxRows, Query(max)
      PROVE  TypeOK'
  <2>1. PICK n \in ResultSizes :
          /\ RunStatement(NoCursor, FALSE, TRUE, [stmt |-> stmts + 1, left |-> n])
          /\ gens' = Append(gens, Iterator(pool.counter + 1, TRUE,
                                           [stmt |-> stmts + 1, left |-> n], max))
    BY <1>3 DEF Query
  <2>2. [stmt |-> stmts + 1, left |-> n] \in ResultType
    BY <2>1, ResultsType DEF RunStatement
  <2>3. pool.counter + 1 \in Cursors
    BY <2>1 DEF RunStatement, CursorFor, Candidate
  <2>4. gens' \in Seq(IteratorType)
    BY <2>1, <2>2, <2>3, AppendType
  <2> QED
    BY <1>3, <2>1, <2>2, <2>4, QueryStatementType DEF Query, TypeOK
<1>4. ASSUME NEW given \in CursorOrNone, NEW max \in MaxRows, GetData(given, max)
      PROVE  TypeOK'
  <2> DEFINE c == IF given = NoCursor THEN pool.current ELSE given
  <2>1. PICK cs \in pool.cursors :
          /\ cs.cursor = c
          /\ gens' = Append(gens, Iterator(c, cs.keep, rs[c], max))
    BY <1>4 DEF GetData
  <2>2. c \in Cursors /\ cs.keep \in BOOLEAN
    BY <2>1 DEF TypeOK, PoolType
  <2>3. rs[c] \in ResultType
    BY <2>2 DEF TypeOK
  <2>4. gens' \in Seq(IteratorType)
    BY <2>1, <2>2, <2>3, AppendType
  <2> QED
    BY <1>4, <2>4 DEF GetData, TypeOK
<1>5. CASE QueryUpdate
  <2>1. NoResult \in ResultType
    BY <1>5, ResultsType DEF QueryUpdate, RunStatement
  <2> QED
    BY <1>5, <2>1, QueryStatementType, NewCursorType DEF QueryUpdate, TypeOK
<1>6. CASE QuerySingle
  <2>1. PICK n \in ResultSizes \ {0} :
          RunStatement(NoCursor, FALSE, TRUE,
                       [stmt |-> stmts + 1,
                        left |-> IF n > ArraySize THEN n - ArraySize ELSE 0])
    BY <1>6 DEF QuerySingle
  <2>2. (IF n > ArraySize THEN n - ArraySize ELSE 0) \in Nat
    OBVIOUS
  <2>3. [stmt |-> stmts + 1, left |-> IF n > ArraySize THEN n - ArraySize ELSE 0]
          \in ResultType
    BY <2>1, <2>2, ResultsType DEF RunStatement
  <2> QED
    BY <1>6, <2>1, <2>3, QueryStatementType, NewCursorType DEF QuerySingle, TypeOK
<1>7. ASSUME NEW given \in CursorOrNone, Close(given)
      PROVE  TypeOK'
  BY <1>7, CloseOneType DEF Close, TypeOK
<1>8. CASE EndTransaction
  <2>1. PICK stuck \in Refusals(PlainCursors(pool)) :
          /\ pool' = CloseAllCursors(pool, stuck)
          /\ rs' = ClosedResults(PlainCursors(pool), stuck)
          /\ unclosed' = unclosed \cup stuck
    BY <1>8 DEF EndTransaction
  <2>2. PlainCursors(pool) \subseteq Cursors
    BY DEF PlainCursors, TypeOK, PoolType
  <2>3. stuck \subseteq Cursors
    BY <2>2, RefusalsType
  <2>4. pool' \in PoolType
    BY <2>1, CloseAllType DEF TypeOK
  <2> QED
    BY <1>8, <2>1, <2>3, <2>4, ClosedResultsType DEF EndTransaction, TypeOK
<1> QED
  BY <1>1, <1>2, <1>3, <1>4, <1>5, <1>6, <1>7, <1>8 DEF Caller

\* Every variable keeps its type, whatever the calls and their order.
THEOREM TypeCorrect == Spec => []TypeOK
<1>1. Init => TypeOK
  BY DEF Init, TypeOK, EmptyPool, PoolType, NoResult, ResultType, CursorOrNone,
         NoCursor
<1>2. TypeOK /\ [Next]_vars => TypeOK'
  <2>1. CASE Next
    BY <2>1, CallerType, NextRowType DEF Next
  <2>2. CASE UNCHANGED vars
    BY <2>2 DEF vars, TypeOK
  <2> QED
    BY <2>1, <2>2
<1> QED
  BY <1>1, <1>2, PTL DEF Spec

-----------------------------------------------------------------------------
(* The attributes of the pool stay consistent.                             *)

LEMMA RefusedGrows ==
  ASSUME NEW p, NEW u, NEW v, Consistent(p, u)
  PROVE  Consistent(p, u \cup v)
BY DEF Consistent

LEMMA RecallConsistent ==
  ASSUME NEW p \in PoolType, NEW u, Consistent(p, u)
  PROVE  Consistent(Recall(p, FALSE), u)
<1> DEFINE c == CHOOSE c \in LastStored(p, FALSE) : TRUE
<1>1. CASE p.current = NoCursor /\ LastStored(p, FALSE) # {}
  <2>1. c \in LastStored(p, FALSE)
    BY <1>1
  <2>2. PICK cs \in p.cursors : cs.keep = FALSE /\ c = cs.cursor
    BY <2>1 DEF LastStored
  <2>3. cs = Storage(c, FALSE)
    BY <2>2 DEF Storage, PoolType
  <2>4. Recall(p, FALSE) = SetCurrent(p, c)
    BY <1>1 DEF Recall
  <2> DEFINE q == SetCurrent(p, c)
  <2>5. /\ q.cursors = p.cursors /\ q.counter = p.counter
        /\ q.current = c /\ q.keepCurrent = FALSE
    BY DEF SetCurrent
  <2>6. Storage(q.current, q.keepCurrent) = cs
    BY <2>3, <2>5
  <2> HIDE DEF q
  <2>7. Consistent(q, u)
    BY <2>2, <2>5, <2>6 DEF Consistent
  <2> QED
    BY <2>4, <2>7 DEF q
<1>2. CASE ~(p.current = NoCursor /\ LastStored(p, FALSE) # {})
  BY <1>2 DEF Recall
<1> QED
  BY <1>1, <1>2

LEMMA AddConsistent ==
  ASSUME NEW p \in PoolType, NEW u, NEW keep \in BOOLEAN,
         \A cs \in p.cursors : cs.cursor \in 1 .. p.counter,
         \A cs, ct \in p.cursors : cs.cursor = ct.cursor => cs = ct
  PROVE  Consistent(AddCursor(p, keep), u)
BY DEF AddCursor, Consistent, Storage, PoolType, CursorOrNone

LEMMA PoolForConsistent ==
  ASSUME NEW p \in PoolType, NEW u, Consistent(p, u),
         NEW given \in CursorOrNone, NEW useCurrent \in BOOLEAN,
         NEW keep \in BOOLEAN,
         ~keep \/ (given = NoCursor /\ ~useCurrent)
  PROVE  Consistent(PoolFor(p, given, useCurrent, keep), u)
<1> DEFINE q == Recall(p, keep)
<1>1. q \in PoolType
  BY RecallType
<1>2. q.cursors = p.cursors /\ q.counter = p.counter
  BY DEF Recall, SetCurrent
<1>3. CASE Candidate(q, given, useCurrent, keep) = NoCursor
  <2>1. Consistent(AddCursor(q, keep), u)
    BY <1>1, <1>2, AddConsistent DEF Consistent
  <2> QED
    BY <1>3, <2>1 DEF PoolFor
<1>4. CASE Candidate(q, given, useCurrent, keep) # NoCursor
  <2>1. ~keep
    BY <1>4 DEF Candidate, NoCursor
  <2>2. keep = FALSE
    BY <2>1
  <2>3. Consistent(Recall(p, FALSE), u)
    BY RecallConsistent
  <2> QED
    BY <1>4, <2>2, <2>3 DEF PoolFor
<1> QED
  BY <1>3, <1>4

LEMMA CloseConsistent ==
  ASSUME NEW p \in PoolType, NEW u, Consistent(p, u), NEW c, NEW ok \in BOOLEAN
  PROVE  Consistent(CloseCursor(p, c, ok), u)
<1>1. CASE HasCursor(p, c) /\ ok
  <2> DEFINE q == DropCurrent(p, {c})
  <2>1. q.cursors = p.cursors /\ q.counter = p.counter /\ q \in PoolType
    BY DropCurrentType DEF DropCurrent, SetCurrent
  <2>2. \/ q.current = NoCursor
        \/ /\ q.current # c
           /\ q.current \in u \/ Storage(q.current, q.keepCurrent) \in p.cursors
    BY DEF DropCurrent, SetCurrent, Consistent
  <2> HIDE DEF q
  <2>3. Consistent(RemoveCursor(q, c), u)
    BY <2>1, <2>2 DEF RemoveCursor, Consistent, Storage, PoolType
  <2> QED
    BY <1>1, <2>3 DEF CloseCursor, q
<1>2. CASE ~(HasCursor(p, c) /\ ok)
  BY <1>2 DEF CloseCursor
<1> QED
  BY <1>1, <1>2

LEMMA CloseAllConsistent ==
  ASSUME NEW p \in PoolType, NEW u, Consistent(p, u), NEW stuck
  PROVE  Consistent(CloseAllCursors(p, stuck), u \cup stuck)
<1> DEFINE q == DropCurrent(p, PlainCursors(p) \ stuck)
<1>1. q.cursors = p.cursors /\ q.counter = p.counter /\ q \in PoolType
  BY DropCurrentType DEF DropCurrent, SetCurrent
<1>2. \/ q.current = NoCursor
      \/ /\ q.current \notin PlainCursors(p) \ stuck
         /\ q.current \in u \/ Storage(q.current, q.keepCurrent) \in p.cursors
  BY DEF DropCurrent, SetCurrent, Consistent
<1>3. \/ q.current = NoCursor
      \/ q.current \in u \cup stuck
      \/ Storage(q.current, q.keepCurrent) \in Kept(p)
  <2>1. ASSUME Storage(q.current, q.keepCurrent) \in p.cursors,
               Storage(q.current, q.keepCurrent) \notin Kept(p)
        PROVE  q.current \in PlainCursors(p)
    <3> DEFINE cs == Storage(q.current, q.keepCurrent)
    <3>1. cs \in p.cursors /\ ~cs.keep
      BY <2>1 DEF Kept
    <3>2. cs.cursor = q.current
      BY DEF Storage
    <3> HIDE DEF cs, q
    <3> QED
      BY <3>1, <3>2 DEF PlainCursors
  <2> QED
    BY <1>2, <2>1
<1> HIDE DEF q
<1>4. Consistent([q EXCEPT !.cursors = Kept(p)], u \cup stuck)
  BY <1>1, <1>3 DEF Consistent, Kept, PoolType, Storage
<1> QED
  BY <1>4 DEF CloseAllCursors, q

LEMMA CloseOneConsistent ==
  ASSUME TypeOK, PoolInv, NEW c, CloseOne(c)
  PROVE  PoolInv'
<1>1. PICK stuck : /\ pool' = CloseCursor(pool, c, stuck = {})
                   /\ unclosed' = unclosed \cup stuck
  BY DEF CloseOne
<1>2. Consistent(CloseCursor(pool, c, stuck = {}), unclosed)
  BY CloseConsistent DEF TypeOK, PoolInv
<1> QED
  BY <1>1, <1>2, RefusedGrows DEF PoolInv

LEMMA RunStatementConsistent ==
  ASSUME TypeOK, PoolInv,
         NEW given \in CursorOrNone, NEW useCurrent \in BOOLEAN,
         NEW keep \in BOOLEAN, NEW result,
         ~keep \/ (given = NoCursor /\ ~useCurrent),
         RunStatement(given, useCurrent, keep, result)
  PROVE  Consistent(pool', unclosed)
BY PoolForConsistent DEF RunStatement, TypeOK, PoolInv

LEMMA QueryConsistent ==
  ASSUME TypeOK, PoolInv, NEW result,
         RunStatement(NoCursor, FALSE, TRUE, result)
  PROVE  Consistent(pool', unclosed)
<1>1. NoCursor \in CursorOrNone
  BY DEF NoCursor, CursorOrNone
<1> QED
  BY <1>1, RunStatementConsistent, Zenon

LEMMA NextRowConsistent ==
  ASSUME TypeOK, PoolInv, NEW g \in DOMAIN gens, Iterate(g)
  PROVE  PoolInv'
<1>1. CASE NextBuffered(g)
  BY <1>1 DEF NextBuffered, PoolInv
<1>2. CASE NextFetch(g)
  BY <1>2, RefusedGrows DEF NextFetch, PoolInv
<1>3. CASE NextEnd(g)
  BY <1>3, CloseOneConsistent DEF NextEnd
<1>4. CASE NextFails(g)
  <2>1. Consistent(CloseCursor(pool, gens[g].cursor, TRUE), unclosed)
    BY CloseConsistent DEF TypeOK, PoolInv
  <2> QED
    BY <1>4, <2>1 DEF NextFails, PoolInv
<1>5. CASE NextRaises(g) \/ Leave(g)
  <2>1. pool' = pool /\ unclosed \subseteq unclosed'
    BY <1>5, GaveUp
  <2>2. Consistent(pool, unclosed')
    BY <2>1, RefusedGrows DEF PoolInv, Consistent
  <2> QED
    BY <2>1, <2>2 DEF PoolInv
<1> QED
  BY <1>1, <1>2, <1>3, <1>4, <1>5 DEF Iterate, NextRow

LEMMA CallerConsistent ==
  ASSUME TypeOK, PoolInv, Caller, ~ReuseKept
  PROVE  PoolInv'
<1>1. ASSUME NEW given \in CursorOrNone, NEW useCurrent \in BOOLEAN,
             NEW keep \in BOOLEAN, MayCall(given, useCurrent, keep),
             Execute(given, useCurrent, keep)
      PROVE  PoolInv'
  <2>1. ~keep \/ (given = NoCursor /\ ~useCurrent)
    BY <1>1 DEF MayCall
  <2>2. Consistent(pool', unclosed)
    BY <1>1, <2>1, RunStatementConsistent DEF Execute
  <2> QED
    BY <1>1, <2>2 DEF Execute, PoolInv
<1>2. ASSUME NEW given \in CursorOrNone, NEW useCurrent \in BOOLEAN,
             NEW keep \in BOOLEAN, MayCall(given, useCurrent, keep),
             ExecuteFails(given, useCurrent, keep)
      PROVE  PoolInv'
  <2> DEFINE c == CursorFor(pool, given, useCurrent, keep)
             p == PoolFor(pool, given, useCurrent, keep)
  <2>1. ~keep \/ (given = NoCursor /\ ~useCurrent)
    BY <1>2 DEF MayCall
  <2>2. p \in PoolType
    BY <1>2, PoolForType DEF ExecuteFails, TypeOK
  <2>3. Consistent(p, unclosed)
    BY <2>1, PoolForConsistent DEF TypeOK, PoolInv
  <2>4. PICK stuck : /\ pool' = CloseCursor(p, c, stuck = {})
                     /\ unclosed' = unclosed \cup stuck
    BY <1>2 DEF ExecuteFails
  <2> HIDE DEF p
  <2>5. Consistent(CloseCursor(p, c, stuck = {}), unclosed)
    BY <2>2, <2>3, CloseConsistent
  <2> QED
    BY <2>4, <2>5, RefusedGrows DEF PoolInv
<1>3. ASSUME NEW max \in MaxRows, Query(max)
      PROVE  PoolInv'
  BY <1>3, QueryConsistent DEF Query, PoolInv
<1>4. ASSUME NEW given \in CursorOrNone, NEW max \in MaxRows, GetData(given, max)
      PROVE  PoolInv'
  BY <1>4 DEF GetData, PoolInv
<1>5. CASE QueryUpdate
  BY <1>5, QueryConsistent DEF QueryUpdate, PoolInv
<1>6. CASE QuerySingle
  BY <1>6, QueryConsistent DEF QuerySingle, PoolInv
<1>7. ASSUME NEW given \in CursorOrNone, Close(given)
      PROVE  PoolInv'
  BY <1>7, CloseOneConsistent DEF Close
<1>8. CASE EndTransaction
  BY <1>8, CloseAllConsistent DEF EndTransaction, PoolInv, TypeOK
<1> QED
  BY <1>1, <1>2, <1>3, <1>4, <1>5, <1>6, <1>7, <1>8 DEF Caller

\* The attributes of the instance fit together as long as no caller runs a
\* second statement on a kept cursor.
THEOREM PoolConsistent ==
  ASSUME ~ReuseKept
  PROVE  Spec => []PoolInv
<1>1. Init => PoolInv
  BY DEF Init, PoolInv, Consistent, EmptyPool
<1>2. TypeOK /\ PoolInv /\ [Next]_vars => PoolInv'
  <2>1. CASE Next
    BY <2>1, CallerConsistent, NextRowConsistent DEF Next
  <2>2. CASE UNCHANGED vars
    BY <2>2 DEF vars, PoolInv
  <2> QED
    BY <2>1, <2>2
<1> QED
  BY <1>1, <1>2, TypeCorrect, PTL DEF Spec

LEMMA ConsistentLifeCycle ==
  ASSUME TypeOK, PoolInv
  PROVE  SameLifeCycle
<1> SUFFICES ASSUME NEW useCurrent \in BOOLEAN, NEW keep \in BOOLEAN
             PROVE  LET c == CursorFor(pool, NoCursor, useCurrent, keep)
                    IN \/ c > pool.counter
                       \/ Storage(c, keep) \in pool.cursors
                       \/ c \in unclosed
  BY DEF SameLifeCycle
<1> DEFINE q == Recall(pool, keep)
           c == CursorFor(pool, NoCursor, useCurrent, keep)
<1>1. CASE Candidate(q, NoCursor, useCurrent, keep) = NoCursor
  <2>1. c = pool.counter + 1
    BY <1>1 DEF CursorFor
  <2>2. pool.counter \in Nat
    BY DEF TypeOK, PoolType, CursorOrNone
  <2> QED
    BY <2>1, <2>2
<1>2. CASE Candidate(q, NoCursor, useCurrent, keep) # NoCursor
  <2>1. c = q.current /\ keep = q.keepCurrent /\ q.current # NoCursor
    BY <1>2 DEF CursorFor, Candidate
  <2>2. CASE pool.current = NoCursor /\ LastStored(pool, keep) # {}
    <3> DEFINE d == CHOOSE d \in LastStored(pool, keep) : TRUE
    <3>1. q = SetCurrent(pool, d) /\ d \in LastStored(pool, keep)
      BY <2>2 DEF Recall
    <3>2. c \in LastStored(pool, keep)
      <4>1. q.current = d
        BY <3>1 DEF SetCurrent
      <4> QED
        BY <2>1, <3>1, <4>1
    <3>3. PICK cs \in pool.cursors : cs.keep = keep /\ cs.cursor = c
      BY <3>2 DEF LastStored
    <3>4. cs = Storage(c, keep)
      BY <3>3 DEF Storage, TypeOK, PoolType
    <3> QED
      BY <3>3, <3>4
  <2>3. CASE ~(pool.current = NoCursor /\ LastStored(pool, keep) # {})
    <3>1. q = pool
      BY <2>3 DEF Recall
    <3> QED
      BY <2>1, <3>1 DEF PoolInv, Consistent
  <2> QED
    BY <2>2, <2>3
<1> QED
  BY <1>1, <1>2

\* A statement sent without a cursor runs on a new cursor or on one of the
\* life-cycle it asks for.
THEOREM LifeCycleRespected ==
  ASSUME ~ReuseKept
  PROVE  Spec => []SameLifeCycle
BY TypeCorrect, PoolConsistent, ConsistentLifeCycle, PTL

-----------------------------------------------------------------------------
(***************************************************************************)
(* Every open result set is known to the instance. The invariant adds that *)
(* the current cursor is known, for a statement may leave a result on it,  *)
(* and that a cursor without result set has no rows left.                  *)
(***************************************************************************)
Known(p, c) == HasCursor(p, c) \/ c \in unclosed

CurrentKnown == pool.current = NoCursor \/ Known(pool, pool.current)

EmptyWithoutResult == \A c \in Cursors : rs[c].stmt = 0 => rs[c].left = 0

ResultInv == OpenResultsKnown /\ CurrentKnown /\ EmptyWithoutResult

\* The cursor a statement runs on is known, and no known cursor is forgotten.
LEMMA StatementKnown ==
  ASSUME TypeOK, CurrentKnown,
         NEW given \in CursorOrNone, NEW useCurrent \in BOOLEAN, NEW keep \in BOOLEAN
  PROVE  LET p == PoolFor(pool, given, useCurrent, keep)
         IN /\ Known(p, CursorFor(pool, given, useCurrent, keep))
            /\ p.current = NoCursor \/ Known(p, p.current)
            /\ \A c : HasCursor(pool, c) => HasCursor(p, c)
<1> DEFINE q == Recall(pool, keep)
           c == Candidate(q, given, useCurrent, keep)
           p == PoolFor(pool, given, useCurrent, keep)
<1>1. q.cursors = pool.cursors /\ q.counter = pool.counter
  BY DEF Recall, SetCurrent
<1>2. q.current = NoCursor \/ Known(q, q.current)
  <2>1. CASE pool.current = NoCursor /\ LastStored(pool, keep) # {}
    <3> DEFINE d == CHOOSE d \in LastStored(pool, keep) : TRUE
    <3>1. d \in LastStored(pool, keep)
      BY <2>1
    <3>2. HasCursor(pool, d)
      BY <3>1 DEF LastStored, HasCursor
    <3>3. q.current = d
      BY <2>1 DEF Recall, SetCurrent
    <3> HIDE DEF d
    <3> QED
      BY <1>1, <3>2, <3>3 DEF Known, HasCursor
  <2>2. CASE ~(pool.current = NoCursor /\ LastStored(pool, keep) # {})
    BY <2>2 DEF Recall, CurrentKnown
  <2> QED
    BY <2>1, <2>2
<1> HIDE DEF q
<1>3. CASE c = NoCursor
  <2>1. p = AddCursor(q, keep)
    BY <1>3 DEF PoolFor, q
  <2>2. CursorFor(pool, given, useCurrent, keep) = pool.counter + 1
    BY <1>3 DEF CursorFor, q
  <2>3. /\ p.cursors = pool.cursors \cup {Storage(pool.counter + 1, keep)}
        /\ p.current = pool.counter + 1
    BY <1>1, <2>1 DEF AddCursor
  <2> HIDE DEF p
  <2> DEFINE new == Storage(pool.counter + 1, keep)
  <2>6. new.cursor = pool.counter + 1 /\ new \in p.cursors
    BY <2>3 DEF Storage
  <2> HIDE DEF new
  <2>4. HasCursor(p, pool.counter + 1)
    BY <2>6 DEF HasCursor
  <2>5. \A d : HasCursor(pool, d) => HasCursor(p, d)
    BY <2>3 DEF HasCursor
  <2> QED
    BY <2>2, <2>3, <2>4, <2>5 DEF Known, p
<1>4. CASE c # NoCursor
  <2>1. p = q
    BY <1>4 DEF PoolFor, q
  <2>2. CursorFor(pool, given, useCurrent, keep) = c
    BY <1>4 DEF CursorFor, q
  <2>3. Known(q, c)
    BY <1>2, <1>4 DEF Candidate, Known
  <2>4. \A d : HasCursor(pool, d) => HasCursor(q, d)
    BY <1>1 DEF HasCursor
  <2> HIDE DEF p, c
  <2> QED
    BY <1>2, <2>1, <2>2, <2>3, <2>4 DEF p
<1> QED
  BY <1>3, <1>4

LEMMA RunStatementKnown ==
  ASSUME TypeOK, ResultInv,
         NEW given \in CursorOrNone, NEW useCurrent \in BOOLEAN, NEW keep \in BOOLEAN,
         NEW result, result.stmt = 0 => result.left = 0,
         RunStatement(given, useCurrent, keep, result), unclosed' = unclosed
  PROVE  ResultInv'
<1> DEFINE c == CursorFor(pool, given, useCurrent, keep)
           p == PoolFor(pool, given, useCurrent, keep)
<1>1. pool' = p /\ rs' = [rs EXCEPT ![c] = result] /\ c \in Cursors
  BY DEF RunStatement
<1>2. /\ Known(p, c)
      /\ p.current = NoCursor \/ Known(p, p.current)
      /\ \A d : HasCursor(pool, d) => HasCursor(p, d)
  BY StatementKnown DEF ResultInv
<1>3. rs \in [Cursors -> ResultType]
  BY DEF TypeOK
<1> HIDE DEF c, p
<1>4. ASSUME NEW d \in Cursors
      PROVE  /\ rs'[d].stmt # 0 => HasCursor(pool', d) \/ d \in unclosed'
             /\ rs'[d].stmt = 0 => rs'[d].left = 0
  <2>1. CASE d = c
    BY <1>1, <1>2, <1>3, <2>1 DEF Known
  <2>2. CASE d # c
    BY <1>1, <1>2, <1>3, <2>2 DEF ResultInv, OpenResultsKnown, EmptyWithoutResult
  <2> QED
    BY <2>1, <2>2
<1>5. CurrentKnown'
  BY <1>1, <1>2 DEF CurrentKnown, Known
<1> QED
  BY <1>4, <1>5 DEF ResultInv, OpenResultsKnown, EmptyWithoutResult

\* The statement of a query: a kept cursor of its own.
LEMMA QueryKnown ==
  ASSUME TypeOK, ResultInv, NEW result, result.stmt = 0 => result.left = 0,
         RunStatement(NoCursor, FALSE, TRUE, result), unclosed' = unclosed
  PROVE  ResultInv'
<1>1. NoCursor \in CursorOrNone
  BY DEF NoCursor, CursorOrNone
<1> QED
  BY <1>1, RunStatementKnown, Zenon

\* Closing one cursor of a pool in which every cursor with a result is known.
LEMMA CloseKnown ==
  ASSUME NEW p, NEW c \in Cursors, HasCursor(p, c),
         p.current = NoCursor \/ Known(p, p.current)
  PROVE  LET q == CloseCursor(p, c, TRUE)
         IN /\ q.current = NoCursor \/ Known(q, q.current)
            /\ \A d : d # c /\ HasCursor(p, d) => HasCursor(q, d)
<1> DEFINE r == DropCurrent(p, {c})
           q == RemoveCursor(r, c)
<1>1. CloseCursor(p, c, TRUE) = q
  BY DEF CloseCursor
<1>2. r.cursors = p.cursors
  BY DEF DropCurrent, SetCurrent
<1>3. r.current = NoCursor \/ (r.current = p.current /\ p.current # c)
  BY DEF DropCurrent, SetCurrent
<1> HIDE DEF r
<1>4. \A d : d # c /\ HasCursor(p, d) => HasCursor(q, d)
  BY <1>2 DEF RemoveCursor, HasCursor
<1>5. q.current = r.current
  BY DEF RemoveCursor
<1> HIDE DEF q
<1> QED
  BY <1>1, <1>3, <1>4, <1>5 DEF Known

LEMMA CloseOneKnown ==
  ASSUME TypeOK, ResultInv, NEW c \in CursorOrNone, CloseOne(c)
  PROVE  ResultInv'
<1> DEFINE cs == IF HasCursor(pool, c) THEN {c} ELSE {}
<1>1. PICK stuck \in Refusals(cs) :
        /\ pool' = CloseCursor(pool, c, stuck = {})
        /\ rs' = ClosedResults(cs, stuck)
        /\ unclosed' = unclosed \cup stuck
  BY DEF CloseOne
<1>2. stuck \subseteq cs
  BY RefusalsType
<1>3. CASE HasCursor(pool, c) /\ stuck = {}
  <2>1. c \in Cursors
    BY <1>3 DEF HasCursor, TypeOK, PoolType
  <2>2. /\ pool' = CloseCursor(pool, c, TRUE) /\ unclosed' = unclosed
        /\ rs' = [d \in Cursors |-> IF d = c THEN NoResult ELSE rs[d]]
    BY <1>1, <1>3 DEF ClosedResults
  <2>3. /\ pool'.current = NoCursor \/ Known(pool', pool'.current)
        /\ \A d : d # c /\ HasCursor(pool, d) => HasCursor(pool', d)
    BY <1>3, <2>1, <2>2, CloseKnown DEF ResultInv, CurrentKnown
  <2> QED
    BY <2>2, <2>3 DEF ResultInv, OpenResultsKnown, CurrentKnown, Known,
                      EmptyWithoutResult, NoResult
<1>4. CASE ~(HasCursor(pool, c) /\ stuck = {})
  <2>1. pool' = pool
    BY <1>1, <1>4 DEF CloseCursor
  <2>2. cs \ stuck = {}
    BY <1>2, <1>4
  <2>3. rs' = rs
    BY <1>1, <2>2 DEF ClosedResults, TypeOK
  <2> QED
    BY <1>1, <2>1, <2>3 DEF ResultInv, OpenResultsKnown, CurrentKnown, Known,
                            EmptyWithoutResult
<1> QED
  BY <1>3, <1>4

LEMMA EndTransactionKnown ==
  ASSUME TypeOK, ResultInv, EndTransaction
  PROVE  ResultInv'
<1> DEFINE plain == PlainCursors(pool)
<1>1. PICK stuck \in Refusals(plain) :
        /\ pool' = CloseAllCursors(pool, stuck)
        /\ rs' = ClosedResults(plain, stuck)
        /\ unclosed' = unclosed \cup stuck
  BY DEF EndTransaction
<1>2. /\ pool'.cursors = Kept(pool)
      /\ pool'.current = NoCursor
           \/ (pool'.current = pool.current /\ pool.current \notin plain \ stuck)
  <2> DEFINE q == DropCurrent(pool, plain \ stuck)
  <2>1. q.current = NoCursor
          \/ (q.current = pool.current /\ pool.current \notin plain \ stuck)
    BY DEF DropCurrent, SetCurrent
  <2>2. q \in PoolType
    BY DropCurrentType DEF TypeOK
  <2>3. pool' = [q EXCEPT !.cursors = Kept(pool)]
    BY <1>1 DEF CloseAllCursors
  <2> HIDE DEF q
  <2> QED
    BY <2>1, <2>2, <2>3 DEF PoolType
<1>3. \A d : HasCursor(pool, d) => d \in plain \/ HasCursor(pool', d)
  BY <1>2 DEF HasCursor, PlainCursors, Kept
<1> HIDE DEF plain
<1>4. \A d : Known(pool, d) /\ d \notin plain \ stuck
               => HasCursor(pool', d) \/ d \in unclosed'
  BY <1>1, <1>3 DEF Known
<1>5. \A d \in Cursors : rs'[d] = IF d \in plain \ stuck THEN NoResult ELSE rs[d]
  BY <1>1 DEF ClosedResults
<1>6. OpenResultsKnown'
  BY <1>4, <1>5 DEF ResultInv, OpenResultsKnown, Known, NoResult
<1>7. CurrentKnown'
  BY <1>2, <1>4 DEF ResultInv, CurrentKnown, Known
<1>8. EmptyWithoutResult'
  BY <1>5 DEF ResultInv, EmptyWithoutResult, NoResult
<1> QED
  BY <1>6, <1>7, <1>8 DEF ResultInv

LEMMA NextRowKnown ==
  ASSUME TypeOK, ResultInv, NEW g \in DOMAIN gens, Iterate(g)
  PROVE  ResultInv'
<1> DEFINE c == gens[g].cursor
<1>1. c \in Cursors /\ c \in CursorOrNone
  BY IteratorsHaveType DEF IteratorType, CursorOrNone, Cursors
<1>2. CASE NextBuffered(g)
  BY <1>2 DEF NextBuffered, ResultInv, OpenResultsKnown, CurrentKnown, Known,
              EmptyWithoutResult
<1>3. CASE NextFetch(g)
  <2>1. /\ pool' = pool /\ unclosed \subseteq unclosed' /\ rs[c].left > 0
        /\ rs' = [rs EXCEPT ![c].left =
                   @ - IF rs[c].left < ArraySize THEN rs[c].left ELSE ArraySize]
    BY <1>3 DEF NextFetch, Batch, BatchFetched
  <2>2. rs[c].stmt # 0
    BY <1>1, <2>1 DEF ResultInv, EmptyWithoutResult, TypeOK, ResultType
  <2>3. \A d \in Cursors : rs'[d].stmt = rs[d].stmt
    BY <1>1, <2>1 DEF TypeOK, ResultType
  <2>4. \A d \in Cursors : d # c => rs'[d] = rs[d]
    BY <1>1, <2>1 DEF TypeOK
  <2>5. OpenResultsKnown'
    BY <2>1, <2>3 DEF ResultInv, OpenResultsKnown
  <2>6. CurrentKnown'
    BY <2>1 DEF ResultInv, CurrentKnown, Known
  <2>7. EmptyWithoutResult'
    BY <2>2, <2>3, <2>4 DEF ResultInv, EmptyWithoutResult
  <2> QED
    BY <2>5, <2>6, <2>7 DEF ResultInv
<1>4. CASE NextEnd(g)
  BY <1>1, <1>4, CloseOneKnown DEF NextEnd
<1>5. CASE NextFails(g)
  <2>1. CASE ClosesAtLimit(g) = {}
    <3>1. rs' = rs /\ pool' = pool /\ unclosed' = unclosed
      BY <1>5, <2>1 DEF NextFails, ClosedResults, TypeOK
    <3> QED
      BY <3>1 DEF ResultInv, OpenResultsKnown, CurrentKnown, Known,
                  EmptyWithoutResult
  <2>2. CASE ClosesAtLimit(g) # {}
    <3>1. HasCursor(pool, c) /\ ClosesAtLimit(g) = {c}
      BY <2>2 DEF ClosesAtLimit
    <3>2. /\ pool' = CloseCursor(pool, c, TRUE) /\ unclosed' = unclosed
          /\ rs' = [d \in Cursors |-> IF d = c THEN NoResult ELSE rs[d]]
      BY <1>5, <2>2, <3>1 DEF NextFails, ClosedResults
    <3>3. /\ pool'.current = NoCursor \/ Known(pool', pool'.current)
          /\ \A d : d # c /\ HasCursor(pool, d) => HasCursor(pool', d)
      BY <1>1, <3>1, <3>2, CloseKnown DEF ResultInv, CurrentKnown
    <3> QED
      BY <3>2, <3>3 DEF ResultInv, OpenResultsKnown, CurrentKnown, Known,
                        EmptyWithoutResult, NoResult
  <2> QED
    BY <2>1, <2>2
<1>6. CASE NextRaises(g) \/ Leave(g)
  <2>1. /\ pool' = pool /\ unclosed \subseteq unclosed'
        /\ \A d \in Cursors : rs'[d].stmt = rs[d].stmt /\ rs'[d].left <= rs[d].left
        /\ \A d \in Cursors : rs'[d].left \in Nat /\ rs[d].left \in Nat
    BY <1>6, GaveUp DEF TypeOK, ResultType
  <2>2. OpenResultsKnown'
    BY <2>1 DEF ResultInv, OpenResultsKnown
  <2>3. CurrentKnown'
    BY <2>1 DEF ResultInv, CurrentKnown, Known
  <2>4. EmptyWithoutResult'
    BY <2>1 DEF ResultInv, EmptyWithoutResult
  <2> QED
    BY <2>2, <2>3, <2>4 DEF ResultInv
<1> QED
  BY <1>2, <1>3, <1>4, <1>5, <1>6 DEF Iterate, NextRow

LEMMA CallerKnown ==
  ASSUME TypeOK, ResultInv, Caller
  PROVE  ResultInv'
<1>1. ASSUME NEW given \in CursorOrNone, NEW useCurrent \in BOOLEAN,
             NEW keep \in BOOLEAN, Execute(given, useCurrent, keep)
      PROVE  ResultInv'
  <2>1. PICK result \in Results : RunStatement(given, useCurrent, keep, result)
    BY <1>1 DEF Execute
  <2>2. result.stmt = 0 => result.left = 0
    BY <2>1 DEF Results, NoResult, TypeOK
  <2> QED
    BY <1>1, <2>1, <2>2, RunStatementKnown DEF Execute
<1>2. ASSUME NEW given \in CursorOrNone, NEW useCurrent \in BOOLEAN,
             NEW keep \in BOOLEAN, ExecuteFails(given, useCurrent, keep)
      PROVE  ResultInv'
  <2> DEFINE c == CursorFor(pool, given, useCurrent, keep)
             p == PoolFor(pool, given, useCurrent, keep)
             cs == IF HasCursor(p, c) THEN {c} ELSE {}
  <2>1. PICK stuck \in Refusals(cs) : /\ pool' = CloseCursor(p, c, stuck = {})
                                      /\ unclosed' = unclosed \cup stuck
    BY <1>2 DEF ExecuteFails
  <2>2. c \in Cursors /\ rs' = [rs EXCEPT ![c] = NoResult]
    BY <1>2 DEF ExecuteFails
  <2>3. /\ p.current = NoCursor \/ Known(p, p.current)
        /\ \A d : HasCursor(pool, d) => HasCursor(p, d)
    BY StatementKnown DEF ResultInv
  <2> HIDE DEF c, p
  <2>4. \A d \in Cursors : d # c => rs'[d] = rs[d]
    BY <2>2 DEF TypeOK
  <2>5. rs'[c] = NoResult
    BY <2>2 DEF TypeOK
  <2>6. EmptyWithoutResult'
    BY <2>4, <2>5 DEF ResultInv, EmptyWithoutResult, NoResult
  <2>7. CASE HasCursor(p, c) /\ stuck = {}
    <3>1. pool' = CloseCursor(p, c, TRUE) /\ unclosed' = unclosed
      BY <2>1, <2>7
    <3>2. /\ pool'.current = NoCursor \/ Known(pool', pool'.current)
          /\ \A d : d # c /\ HasCursor(p, d) => HasCursor(pool', d)
      BY <2>2, <2>3, <2>7, <3>1, CloseKnown
    <3>3. ASSUME NEW d \in Cursors, rs'[d].stmt # 0
          PROVE  HasCursor(pool', d) \/ d \in unclosed'
      <4>1. d # c
        BY <2>5, <3>3 DEF NoResult
      <4>2. HasCursor(pool, d) \/ d \in unclosed
        BY <2>4, <3>3, <4>1 DEF ResultInv, OpenResultsKnown
      <4> QED
        BY <2>3, <3>1, <3>2, <4>1, <4>2
    <3>4. OpenResultsKnown'
      BY <3>3 DEF OpenResultsKnown
    <3> QED
      BY <2>6, <3>1, <3>2, <3>4 DEF ResultInv, CurrentKnown, Known
  <2>8. CASE ~(HasCursor(p, c) /\ stuck = {})
    <3>1. pool' = p /\ unclosed \subseteq unclosed'
      BY <2>1, <2>8 DEF CloseCursor
    <3>2. OpenResultsKnown'
      BY <2>3, <2>4, <2>5, <3>1 DEF ResultInv, OpenResultsKnown, NoResult
    <3> QED
      BY <2>3, <2>6, <3>1, <3>2 DEF ResultInv, CurrentKnown, Known
  <2> QED
    BY <2>7, <2>8
<1>3. ASSUME NEW max \in MaxRows, Query(max)
      PROVE  ResultInv'
  <2>1. PICK n \in ResultSizes :
          RunStatement(NoCursor, FALSE, TRUE, [stmt |-> stmts + 1, left |-> n])
    BY <1>3 DEF Query
  <2>2. stmts + 1 # 0
    BY DEF TypeOK
  <2> QED
    BY <1>3, <2>1, <2>2, QueryKnown DEF Query
<1>4. ASSUME NEW given \in CursorOrNone, NEW max \in MaxRows, GetData(given, max)
      PROVE  ResultInv'
  BY <1>4 DEF GetData, ResultInv, OpenResultsKnown, CurrentKnown, Known,
              EmptyWithoutResult
<1>5. CASE QueryUpdate
  <2>1. RunStatement(NoCursor, FALSE, TRUE, NoResult) /\ unclosed' = unclosed
    BY <1>5 DEF QueryUpdate
  <2>2. NoResult.stmt = 0 => NoResult.left = 0
    BY DEF NoResult
  <2> QED
    BY <2>1, <2>2, QueryKnown
<1>6. CASE QuerySingle
  <2>1. PICK n \in ResultSizes \ {0} :
          RunStatement(NoCursor, FALSE, TRUE,
                       [stmt |-> stmts + 1,
                        left |-> IF n > ArraySize THEN n - ArraySize ELSE 0])
    BY <1>6 DEF QuerySingle
  <2>2. stmts + 1 # 0
    BY DEF TypeOK
  <2> QED
    BY <1>6, <2>1, <2>2, QueryKnown DEF QuerySingle
<1>7. ASSUME NEW given \in CursorOrNone, Close(given)
      PROVE  ResultInv'
  <2>1. (IF given = NoCursor THEN pool.current ELSE given) \in CursorOrNone
    BY DEF TypeOK, PoolType
  <2> QED
    BY <1>7, <2>1, CloseOneKnown DEF Close
<1>8. CASE EndTransaction
  BY <1>8, EndTransactionKnown
<1> QED
  BY <1>1, <1>2, <1>3, <1>4, <1>5, <1>6, <1>7, <1>8 DEF Caller

LEMMA ResultsInvariant == Spec => []ResultInv
<1>1. Init => ResultInv
  BY DEF Init, ResultInv, OpenResultsKnown, CurrentKnown, EmptyWithoutResult,
         EmptyPool, NoResult, Known
<1>2. TypeOK /\ ResultInv /\ [Next]_vars => ResultInv'
  <2>1. CASE Next
    BY <2>1, CallerKnown, NextRowKnown DEF Next
  <2>2. CASE UNCHANGED vars
    BY <2>2 DEF vars, ResultInv, OpenResultsKnown, CurrentKnown, Known,
                EmptyWithoutResult
  <2> QED
    BY <2>1, <2>2
<1> QED
  BY <1>1, <1>2, TypeCorrect, PTL DEF Spec

\* Every result set open in the driver belongs to a cursor the instance can
\* still close, however callers use its cursors.
THEOREM ResultsKnown == Spec => []OpenResultsKnown
BY ResultsInvariant, PTL DEF ResultInv

-----------------------------------------------------------------------------
(***************************************************************************)
(* The row limit. At the limit the iterator fetches once more, from the    *)
(* cursor it has just closed: only a cursor that is open behind the back   *)
(* of the instance could answer.                                           *)
(***************************************************************************)
LEMMA YieldCount ==
  ASSUME NEW it \in IteratorType, NEW n, NEW s
  PROVE  LET new == Yield(it, n, s)
         IN /\ new.own + new.foreign = it.own + it.foreign + 1
            /\ new.cursor = it.cursor /\ new.max = it.max
BY DEF Yield, IteratorType

Limited(it, refused) ==
  it.max = 0 \/ it.own + it.foreign <= it.max \/ it.cursor \in refused

LEMMA NextRowLimited ==
  ASSUME TypeOK, ResultInv, MaxRowsBound, NEW g \in DOMAIN gens, Iterate(g)
  PROVE  Limited(gens'[g], unclosed')
<1> DEFINE c == gens[g].cursor
<1>1. gens[g] \in IteratorType /\ c \in Cursors
  BY IteratorsHaveType DEF IteratorType
<1>2. gens[g].max \in Nat /\ gens[g].own \in Nat /\ gens[g].foreign \in Nat
  BY <1>1 DEF IteratorType
<1>3. Limited(gens[g], unclosed)
  BY DEF MaxRowsBound, Limited, Delivered
<1>4. ~LimitReached(g) =>
        gens[g].max = 0 \/ gens[g].own + gens[g].foreign + 1 <= gens[g].max
  BY <1>2 DEF LimitReached, Delivered
<1>5. CASE NextBuffered(g)
  <2>1. gens'[g] = Yield(gens[g], gens[g].buffer, gens[g].bufferOf)
    BY <1>5 DEF NextBuffered, TypeOK
  <2>2. ~LimitReached(g)
    BY <1>5 DEF NextBuffered
  <2> QED
    BY <1>1, <1>4, <2>1, <2>2, YieldCount DEF Limited
<1>6. CASE NextFetch(g)
  <2> DEFINE n == IF rs[c].left < ArraySize THEN rs[c].left ELSE ArraySize
  <2>1. gens'[g] = Yield(gens[g], n, rs[c].stmt)
    BY <1>6 DEF NextFetch, Batch, TypeOK
  <2>2. /\ gens'[g].own + gens'[g].foreign = gens[g].own + gens[g].foreign + 1
        /\ gens'[g].cursor = c /\ gens'[g].max = gens[g].max
    BY <1>1, <2>1, YieldCount
  <2>3. CASE ~LimitReached(g)
    BY <1>4, <2>2, <2>3 DEF Limited
  <2>4. CASE LimitReached(g)
    <3>1. rs[c].left > 0 /\ unclosed' = unclosed \cup ClosesAtLimit(g)
      BY <1>6 DEF NextFetch, Batch, BatchFetched
    <3>2. rs[c].stmt # 0
      BY <1>1, <3>1 DEF ResultInv, EmptyWithoutResult
    <3>3. HasCursor(pool, c) \/ c \in unclosed
      BY <1>1, <3>2 DEF ResultInv, OpenResultsKnown
    <3>4. c \in unclosed'
      BY <2>4, <3>1, <3>3 DEF ClosesAtLimit
    <3> QED
      BY <2>2, <3>4 DEF Limited
  <2> QED
    BY <2>3, <2>4
<1>7. CASE NextEnd(g) \/ NextFails(g)
  <2>1. PICK s \in {"ended", "failed"} :
          gens' = [gens EXCEPT ![g].state = s, ![g].buffer = 0]
    BY <1>7 DEF NextEnd, NextFails
  <2>2. gens'[g] = [gens[g] EXCEPT !.state = s, !.buffer = 0]
    BY <2>1 DEF TypeOK
  <2>3. /\ gens'[g].own = gens[g].own /\ gens'[g].foreign = gens[g].foreign
        /\ gens'[g].cursor = c /\ gens'[g].max = gens[g].max
    BY <1>1, <2>2 DEF IteratorType
  <2>4. unclosed \subseteq unclosed'
    BY <1>7 DEF NextEnd, NextFails, CloseOne
  <2> QED
    BY <1>3, <2>3, <2>4 DEF Limited
<1>8. CASE NextRaises(g) \/ Leave(g)
  <2>1. PICK s : gens' = [gens EXCEPT ![g] =
                            [gens[g] EXCEPT !.state = s, !.buffer = 0]]
    BY <1>8, GaveUp
  <2>2. gens'[g] = [gens[g] EXCEPT !.state = s, !.buffer = 0]
    BY <2>1 DEF TypeOK
  <2>3. /\ gens'[g].own = gens[g].own /\ gens'[g].foreign = gens[g].foreign
        /\ gens'[g].cursor = c /\ gens'[g].max = gens[g].max
    BY <1>1, <2>2 DEF IteratorType
  <2>4. unclosed \subseteq unclosed'
    BY <1>8, GaveUp
  <2> QED
    BY <1>3, <2>3, <2>4 DEF Limited
<1> QED
  BY <1>5, <1>6, <1>7, <1>8 DEF Iterate, NextRow

\* The iterators other than the one that advances keep what they have.
LEMMA OthersLimited ==
  ASSUME TypeOK, NEW g \in DOMAIN gens, Iterate(g)
  PROVE  /\ DOMAIN gens' = DOMAIN gens
         /\ \A h \in DOMAIN gens : h # g => gens'[h] = gens[h]
         /\ unclosed \subseteq unclosed'
<1>1. PICK it : gens' = [gens EXCEPT ![g] = it]
  BY GaveUp DEF Iterate, NextRow, NextBuffered, NextFetch, NextEnd, NextFails
<1>2. unclosed \subseteq unclosed'
  BY GaveUp DEF Iterate, NextRow, NextBuffered, NextFetch, NextEnd, NextFails,
                CloseOne
<1> QED
  BY <1>1, <1>2 DEF TypeOK

\* A call of the caller may add an iterator, which has delivered nothing.
LEMMA CallerLimited ==
  ASSUME TypeOK, Caller
  PROVE  /\ unclosed \subseteq unclosed'
         /\ \/ gens' = gens
            \/ \E it : gens' = Append(gens, it) /\ it.own = 0 /\ it.foreign = 0
                       /\ it.max \in Nat
<1>1. unclosed \subseteq unclosed'
  BY DEF Caller, Execute, ExecuteFails, Query, GetData, QueryUpdate, QuerySingle,
         Close, CloseOne, EndTransaction
<1>2. CASE \E given \in CursorOrNone, useCurrent \in BOOLEAN, keep \in BOOLEAN :
             Execute(given, useCurrent, keep) \/ ExecuteFails(given, useCurrent, keep)
  BY <1>1, <1>2 DEF Execute, ExecuteFails
<1>3. ASSUME NEW max \in MaxRows, Query(max)
      PROVE  \E it : gens' = Append(gens, it) /\ it.own = 0 /\ it.foreign = 0
                     /\ it.max \in Nat
  <2>1. PICK result : gens' = Append(gens, Iterator(pool.counter + 1, TRUE, result, max))
    BY <1>3 DEF Query
  <2> DEFINE it == Iterator(pool.counter + 1, TRUE, result, max)
  <2>2. it.own = 0 /\ it.foreign = 0 /\ it.max \in Nat
    BY DEF Iterator
  <2> HIDE DEF it
  <2> QED
    BY <2>1, <2>2 DEF it
<1>4. ASSUME NEW max \in MaxRows, NEW given \in CursorOrNone, GetData(given, max)
      PROVE  \E it : gens' = Append(gens, it) /\ it.own = 0 /\ it.foreign = 0
                     /\ it.max \in Nat
  <2> DEFINE c == IF given = NoCursor THEN pool.current ELSE given
  <2>1. PICK cs \in pool.cursors :
          gens' = Append(gens, Iterator(c, cs.keep, rs[c], max))
    BY <1>4 DEF GetData
  <2> DEFINE it == Iterator(c, cs.keep, rs[c], max)
  <2>2. it.own = 0 /\ it.foreign = 0 /\ it.max \in Nat
    BY DEF Iterator
  <2> HIDE DEF it
  <2> QED
    BY <2>1, <2>2 DEF it
<1>5. CASE QueryUpdate \/ QuerySingle \/ EndTransaction
             \/ \E given \in CursorOrNone : Close(given)
  BY <1>1, <1>5 DEF QueryUpdate, QuerySingle, EndTransaction, Close
<1> QED
  BY <1>1, <1>2, <1>3, <1>4, <1>5 DEF Caller

\* No iterator delivers more rows than max_rows, however often the limit falls
\* together with the end of a batch or of the result.
THEOREM RowLimitKept == Spec => []MaxRowsBound
<1>1. Init => MaxRowsBound
  BY DEF Init, MaxRowsBound
<1>2. TypeOK /\ TypeOK' /\ ResultInv /\ MaxRowsBound /\ [Next]_vars => MaxRowsBound'
  <2> SUFFICES ASSUME TypeOK, TypeOK', ResultInv, MaxRowsBound, [Next]_vars
               PROVE  MaxRowsBound'
    OBVIOUS
  <2>1. CASE Caller
    <3>1. unclosed \subseteq unclosed'
      BY <2>1, CallerLimited
    <3>2. CASE gens' = gens
      BY <3>1, <3>2 DEF MaxRowsBound, Delivered
    <3>3. CASE gens' # gens
      <4>1. PICK it : gens' = Append(gens, it) /\ it.own = 0 /\ it.foreign = 0
                        /\ it.max \in Nat
        BY <2>1, <3>3, CallerLimited
      <4>2. gens \in Seq(IteratorType)
        BY DEF TypeOK
      <4>3. /\ DOMAIN gens' = DOMAIN gens \cup {Len(gens) + 1}
            /\ gens'[Len(gens) + 1] = it
            /\ \A g \in DOMAIN gens : gens'[g] = gens[g]
        BY <4>1, <4>2
      <4> QED
        BY <3>1, <4>1, <4>3 DEF MaxRowsBound, Delivered
    <3> QED
      BY <3>2, <3>3
  <2>2. ASSUME NEW g \in DOMAIN gens, Iterate(g)
        PROVE  MaxRowsBound'
    BY <2>2, NextRowLimited, OthersLimited DEF MaxRowsBound, Limited, Delivered
  <2>3. CASE UNCHANGED vars
    BY <2>3 DEF vars, MaxRowsBound, Delivered
  <2> QED
    BY <2>1, <2>2, <2>3 DEF Next
<1> QED
  BY <1>1, <1>2, TypeCorrect, ResultsInvariant, PTL DEF Spec

-----------------------------------------------------------------------------
(***************************************************************************)
(* The two life-cycles. As long as no caller runs a statement on a kept    *)
(* cursor, no cursor is plain and kept at once: PlainNow has the cursors   *)
(* statements with keep_cursor=False may run on, KeptNow those with        *)
(* keep_cursor=True and those an iterator has taken for such, and both     *)
(* were numbered by the instance.                                          *)
(***************************************************************************)
PlainNow(c) ==
  \/ Storage(c, FALSE) \in pool.cursors
  \/ Storage(c, FALSE) \in handed
  \/ pool.current = c /\ c # NoCursor /\ ~pool.keepCurrent

KeptNow(c) ==
  \/ Storage(c, TRUE) \in pool.cursors
  \/ \E g \in DOMAIN gens : gens[g].keep /\ gens[g].cursor = c

LifeInv ==
  \A c : /\ PlainNow(c) => ~KeptNow(c)
         /\ PlainNow(c) \/ KeptNow(c) => c \in 1 .. pool.counter

\* q is what closing cursors leaves of the pool p.
Fewer(p, q) ==
  /\ q.cursors \subseteq p.cursors /\ q.counter = p.counter
  /\ q.current = NoCursor
       \/ (q.current = p.current /\ q.keepCurrent = p.keepCurrent)

LEMMA CloseFewer ==
  ASSUME NEW p, NEW c, NEW ok \in BOOLEAN
  PROVE  Fewer(p, CloseCursor(p, c, ok))
<1> DEFINE r == DropCurrent(p, {c})
           q == RemoveCursor(r, c)
<1>1. /\ r.cursors = p.cursors /\ r.counter = p.counter
      /\ r.current = NoCursor
           \/ (r.current = p.current /\ r.keepCurrent = p.keepCurrent)
  BY DEF DropCurrent, SetCurrent
<1> HIDE DEF r
<1>2. /\ q.cursors \subseteq r.cursors /\ q.counter = r.counter
      /\ q.current = r.current /\ q.keepCurrent = r.keepCurrent
  BY DEF RemoveCursor
<1>3. CASE HasCursor(p, c) /\ ok
  <2>1. CloseCursor(p, c, ok) = q
    BY <1>3 DEF CloseCursor, r
  <2> HIDE DEF q
  <2> QED
    BY <1>1, <1>2, <2>1 DEF Fewer
<1>4. CASE ~(HasCursor(p, c) /\ ok)
  BY <1>4 DEF CloseCursor, Fewer
<1> QED
  BY <1>3, <1>4

LEMMA CloseAllFewer ==
  ASSUME NEW p \in PoolType, NEW stuck
  PROVE  Fewer(p, CloseAllCursors(p, stuck))
<1> DEFINE r == DropCurrent(p, PlainCursors(p) \ stuck)
<1>1. /\ r.cursors = p.cursors /\ r.counter = p.counter /\ r \in PoolType
      /\ r.current = NoCursor
           \/ (r.current = p.current /\ r.keepCurrent = p.keepCurrent)
  BY DropCurrentType DEF DropCurrent, SetCurrent
<1>2. CloseAllCursors(p, stuck) = [r EXCEPT !.cursors = Kept(p)]
  BY DEF CloseAllCursors
<1>3. Kept(p) \subseteq p.cursors
  BY DEF Kept
<1> HIDE DEF r
<1> QED
  BY <1>1, <1>2, <1>3 DEF Fewer, PoolType

(***************************************************************************)
(* Where a statement may run: on a new cursor, or, for a plain statement,  *)
(* on a plain one.                                                         *)
(***************************************************************************)
OnNewCursor(p, c, keep) ==
  /\ c = pool.counter + 1
  /\ p.cursors = pool.cursors \cup {Storage(c, keep)}
  /\ p.current = c /\ p.keepCurrent = keep /\ p.counter = c

OnPlainCursor(p, c, keep) ==
  /\ ~keep /\ PlainNow(c)
  /\ p.cursors = pool.cursors /\ p.counter = pool.counter
  /\ \/ p.current = pool.current /\ p.keepCurrent = pool.keepCurrent
     \/ Storage(p.current, FALSE) \in pool.cursors

LEMMA StatementLife ==
  ASSUME TypeOK,
         NEW given \in CursorOrNone, NEW useCurrent \in BOOLEAN, NEW keep \in BOOLEAN,
         ~keep \/ (given = NoCursor /\ ~useCurrent),
         given = NoCursor \/ Storage(given, FALSE) \in handed
  PROVE  LET p == PoolFor(pool, given, useCurrent, keep)
             c == CursorFor(pool, given, useCurrent, keep)
         IN OnNewCursor(p, c, keep) \/ OnPlainCursor(p, c, keep)
<1> DEFINE q == Recall(pool, keep)
           d == Candidate(q, given, useCurrent, keep)
           p == PoolFor(pool, given, useCurrent, keep)
           c == CursorFor(pool, given, useCurrent, keep)
<1>1. q.cursors = pool.cursors /\ q.counter = pool.counter
  BY DEF Recall, SetCurrent
<1>2. \/ q = pool
      \/ Storage(q.current, keep) \in pool.cursors /\ q.keepCurrent = FALSE
  <2>1. CASE pool.current = NoCursor /\ LastStored(pool, keep) # {}
    <3> DEFINE e == CHOOSE e \in LastStored(pool, keep) : TRUE
    <3>1. e \in LastStored(pool, keep)
      BY <2>1
    <3>2. PICK cs \in pool.cursors : cs.keep = keep /\ cs.cursor = e
      BY <3>1 DEF LastStored
    <3>3. cs = Storage(e, keep)
      BY <3>2 DEF Storage, TypeOK, PoolType
    <3>4. q.current = e /\ q.keepCurrent = FALSE
      BY <2>1 DEF Recall, SetCurrent
    <3> HIDE DEF e, q
    <3> QED
      BY <3>3, <3>4
  <2>2. CASE ~(pool.current = NoCursor /\ LastStored(pool, keep) # {})
    BY <2>2 DEF Recall
  <2> QED
    BY <2>1, <2>2
<1> HIDE DEF q
<1>3. CASE d = NoCursor
  <2>1. p = AddCursor(q, keep) /\ c = pool.counter + 1
    BY <1>3 DEF PoolFor, CursorFor, q
  <2>2. OnNewCursor(p, c, keep)
    BY <1>1, <2>1 DEF AddCursor, OnNewCursor
  <2> QED
    BY <2>2
<1>4. CASE d # NoCursor
  <2>1. p = q /\ c = d
    BY <1>4 DEF PoolFor, CursorFor, q
  <2>2. ~keep
    BY <1>4 DEF Candidate, NoCursor
  <2>3. keep = FALSE
    BY <2>2
  <2>4. PlainNow(d)
    <3>1. CASE given # NoCursor
      BY <1>4, <3>1 DEF Candidate, PlainNow
    <3>2. CASE given = NoCursor
      <4>1. d = q.current /\ q.keepCurrent = FALSE /\ d # NoCursor
        BY <1>4, <2>3, <3>2 DEF Candidate
      <4> HIDE DEF d
      <4> QED
        BY <1>2, <2>3, <4>1 DEF PlainNow
    <3> QED
      BY <3>1, <3>2
  <2> HIDE DEF p, c, d
  <2>5. OnPlainCursor(p, c, keep)
    BY <1>1, <1>2, <2>1, <2>2, <2>3, <2>4 DEF OnPlainCursor
  <2> QED
    BY <2>5 DEF p, c
<1> QED
  BY <1>3, <1>4

\* After a statement, and the closing of the cursors of a failed one.
LEMMA StatementLifeInv ==
  ASSUME TypeOK, LifeInv, NEW p, NEW c, NEW keep \in BOOLEAN,
         OnNewCursor(p, c, keep) \/ OnPlainCursor(p, c, keep),
         Fewer(p, pool'),
         handed' \subseteq handed \cup {Storage(c, keep)},
         \A g \in DOMAIN gens' :
           \/ g \in DOMAIN gens /\ gens'[g] = gens[g]
           \/ gens'[g].cursor = c /\ keep
  PROVE  LifeInv'
<1>1. \A d, e : /\ Storage(d, TRUE) = Storage(e, TRUE) => d = e
                /\ Storage(d, FALSE) = Storage(e, FALSE) => d = e
                /\ Storage(d, TRUE) # Storage(e, FALSE)
  BY DEF Storage
<1>2. pool.counter \in Nat
  BY DEF TypeOK, PoolType, CursorOrNone
<1>3. CASE OnNewCursor(p, c, keep)
  <2>1. c = pool.counter + 1 /\ pool'.counter = c
    BY <1>3 DEF OnNewCursor, Fewer
  <2>2. /\ pool'.cursors \subseteq pool.cursors \cup {Storage(c, keep)}
        /\ pool'.current = NoCursor \/ (pool'.current = c /\ pool'.keepCurrent = keep)
    BY <1>3 DEF OnNewCursor, Fewer
  <2>3. \A d : PlainNow(d) \/ KeptNow(d) => d # c /\ d \in 1 .. c
    BY <1>2, <2>1 DEF LifeInv
  <2>4. c \in 1 .. c
    BY <1>2, <2>1
  <2>5. CASE keep = TRUE
    <3>1. ASSUME NEW d PROVE PlainNow(d)' => PlainNow(d)
      BY <1>1, <2>2, <2>5 DEF PlainNow
    <3>2. ASSUME NEW d PROVE KeptNow(d)' => KeptNow(d) \/ d = c
      BY <1>1, <2>2, <2>5 DEF KeptNow
    <3> QED
      BY <2>1, <2>3, <2>4, <3>1, <3>2 DEF LifeInv
  <2>6. CASE keep = FALSE
    <3>1. ASSUME NEW d PROVE PlainNow(d)' => PlainNow(d) \/ d = c
      BY <1>1, <2>2, <2>6 DEF PlainNow
    <3>2. ASSUME NEW d PROVE KeptNow(d)' => KeptNow(d)
      BY <1>1, <2>2, <2>6 DEF KeptNow
    <3> QED
      BY <2>1, <2>3, <2>4, <3>1, <3>2 DEF LifeInv
  <2> QED
    BY <2>5, <2>6
<1>4. CASE OnPlainCursor(p, c, keep)
  <2>1. keep = FALSE /\ PlainNow(c) /\ pool'.counter = pool.counter
    BY <1>4 DEF OnPlainCursor, Fewer
  <2>2. /\ pool'.cursors \subseteq pool.cursors
        /\ \/ pool'.current = NoCursor
           \/ pool'.current = pool.current /\ pool'.keepCurrent = pool.keepCurrent
           \/ Storage(pool'.current, FALSE) \in pool.cursors
    BY <1>4 DEF OnPlainCursor, Fewer
  <2>3. ASSUME NEW d, PlainNow(d)' PROVE PlainNow(d)
    <3>1. CASE Storage(d, FALSE) \in pool'.cursors
      BY <2>2, <3>1 DEF PlainNow
    <3>2. CASE Storage(d, FALSE) \in handed'
      <4>1. Storage(d, FALSE) \in handed \/ d = c
        BY <1>1, <2>1, <3>2
      <4> QED
        BY <2>1, <4>1 DEF PlainNow
    <3>3. CASE pool'.current = d /\ d # NoCursor /\ ~pool'.keepCurrent
      BY <2>2, <3>3 DEF PlainNow
    <3> QED
      BY <2>3, <3>1, <3>2, <3>3 DEF PlainNow
  <2>4. ASSUME NEW d PROVE KeptNow(d)' => KeptNow(d)
    BY <1>1, <2>1, <2>2 DEF KeptNow
  <2> QED
    BY <2>1, <2>3, <2>4 DEF LifeInv
<1> QED
  BY <1>3, <1>4

\* After a step that runs no statement.
LEMMA OtherLifeInv ==
  ASSUME LifeInv, Fewer(pool, pool'), handed' = handed,
         \A g \in DOMAIN gens' :
           \/ /\ g \in DOMAIN gens
              /\ gens'[g].cursor = gens[g].cursor /\ gens'[g].keep = gens[g].keep
           \/ gens'[g].keep => KeptNow(gens'[g].cursor)
  PROVE  LifeInv'
<1>1. ASSUME NEW d
      PROVE  /\ PlainNow(d)' => PlainNow(d)
             /\ KeptNow(d)' => KeptNow(d)
  <2>1. PlainNow(d)' => PlainNow(d)
    BY DEF Fewer, PlainNow
  <2>2. KeptNow(d)' => KeptNow(d)
    BY DEF Fewer, KeptNow
  <2> QED
    BY <2>1, <2>2
<1> QED
  BY <1>1 DEF LifeInv, Fewer

\* The statement of a call of execute(), and of a query.
LEMMA CallLife ==
  ASSUME TypeOK, ~ReuseKept,
         NEW given \in CursorOrNone, NEW useCurrent \in BOOLEAN, NEW keep \in BOOLEAN,
         MayCall(given, useCurrent, keep)
  PROVE  LET p == PoolFor(pool, given, useCurrent, keep)
             c == CursorFor(pool, given, useCurrent, keep)
         IN OnNewCursor(p, c, keep) \/ OnPlainCursor(p, c, keep)
<1>1. ~keep \/ (given = NoCursor /\ ~useCurrent)
  BY DEF MayCall
<1>2. given = NoCursor \/ Storage(given, FALSE) \in handed
  BY DEF MayCall
<1> QED
  BY <1>1, <1>2, StatementLife

LEMMA AddCursorNew ==
  ASSUME NEW q, NEW keep \in BOOLEAN,
         q.cursors = pool.cursors, q.counter = pool.counter
  PROVE  OnNewCursor(AddCursor(q, keep), pool.counter + 1, keep)
BY DEF AddCursor, OnNewCursor

LEMMA QueryLife ==
  ASSUME TypeOK
  PROVE  /\ OnNewCursor(PoolFor(pool, NoCursor, FALSE, TRUE),
                        CursorFor(pool, NoCursor, FALSE, TRUE), TRUE)
         /\ CursorFor(pool, NoCursor, FALSE, TRUE) = pool.counter + 1
<1> DEFINE q == Recall(pool, TRUE)
           p == PoolFor(pool, NoCursor, FALSE, TRUE)
           c == CursorFor(pool, NoCursor, FALSE, TRUE)
<1>1. c = pool.counter + 1
  BY DEF CursorFor, Candidate
<1>2. p = AddCursor(q, TRUE)
  BY DEF PoolFor, Candidate
<1>3. q.cursors = pool.cursors /\ q.counter = pool.counter
  BY DEF Recall, SetCurrent
<1> HIDE DEF q
<1>4. OnNewCursor(AddCursor(q, TRUE), pool.counter + 1, TRUE)
  BY <1>3, AddCursorNew, Zenon
<1> HIDE DEF p, c
<1>5. OnNewCursor(p, c, TRUE) /\ c = pool.counter + 1
  BY <1>1, <1>2, <1>4
<1> QED
  BY <1>5 DEF p, c

LEMMA SamePoolFewer == \A p : Fewer(p, p)
BY DEF Fewer

\* An iterator keeps its cursor and its life-cycle.
LEMMA IteratorsKeepCursor ==
  ASSUME TypeOK, NEW g \in DOMAIN gens, Iterate(g)
  PROVE  /\ DOMAIN gens' = DOMAIN gens
         /\ \A h \in DOMAIN gens :
              /\ gens'[h].cursor = gens[h].cursor /\ gens'[h].keep = gens[h].keep
              /\ gens'[h].max = gens[h].max /\ gens'[h].stmt = gens[h].stmt
              /\ gens'[h].size = gens[h].size
              /\ h # g => gens'[h] = gens[h]
         /\ gens'[g] # gens[g]
<1>1. gens[g] \in IteratorType
  BY IteratorsHaveType
<1>2. ASSUME NEW it, gens' = [gens EXCEPT ![g] = it],
             it.cursor = gens[g].cursor, it.keep = gens[g].keep,
             it.max = gens[g].max, it.stmt = gens[g].stmt, it.size = gens[g].size,
             it.own + it.foreign # gens[g].own + gens[g].foreign
               \/ it.state # gens[g].state
      PROVE  /\ DOMAIN gens' = DOMAIN gens
             /\ \A h \in DOMAIN gens :
                  /\ gens'[h].cursor = gens[h].cursor /\ gens'[h].keep = gens[h].keep
                  /\ gens'[h].max = gens[h].max /\ gens'[h].stmt = gens[h].stmt
                  /\ gens'[h].size = gens[h].size
                  /\ h # g => gens'[h] = gens[h]
             /\ gens'[g] # gens[g]
  BY <1>2 DEF TypeOK
<1>3. ASSUME NEW n, NEW s
      PROVE  LET it == Yield(gens[g], n, s)
             IN /\ it.cursor = gens[g].cursor /\ it.keep = gens[g].keep
                /\ it.max = gens[g].max /\ it.stmt = gens[g].stmt
                /\ it.size = gens[g].size
                /\ it.own + it.foreign # gens[g].own + gens[g].foreign
  <2>1. gens[g].own \in Nat /\ gens[g].foreign \in Nat
    BY <1>1 DEF IteratorType
  <2> QED
    BY <1>1, <2>1 DEF Yield, IteratorType
<1>4. CASE NextBuffered(g)
  <2>1. gens' = [gens EXCEPT ![g] = Yield(gens[g], gens[g].buffer, gens[g].bufferOf)]
    BY <1>4 DEF NextBuffered, TypeOK
  <2> QED
    BY <1>2, <1>3, <2>1
<1>5. CASE NextFetch(g)
  <2>1. PICK n, s : gens' = [gens EXCEPT ![g] = Yield(gens[g], n, s)]
    BY <1>5 DEF NextFetch, TypeOK
  <2> QED
    BY <1>2, <1>3, <2>1
<1>6. CASE NextEnd(g) \/ NextFails(g)
  <2>1. PICK s \in {"ended", "failed"} :
          gens' = [gens EXCEPT ![g] = [gens[g] EXCEPT !.state = s, !.buffer = 0]]
    BY <1>6 DEF NextEnd, NextFails, TypeOK
  <2> DEFINE it == [gens[g] EXCEPT !.state = s, !.buffer = 0]
  <2>2. gens[g].state = "open"
    BY <1>6 DEF NextEnd, NextFails, Fetches, Open
  <2>3. /\ it.cursor = gens[g].cursor /\ it.keep = gens[g].keep
        /\ it.max = gens[g].max /\ it.stmt = gens[g].stmt
        /\ it.size = gens[g].size /\ it.state # gens[g].state
    BY <1>1, <2>2 DEF IteratorType
  <2> HIDE DEF it
  <2> QED
    BY <1>2, <2>1, <2>3 DEF it
<1>7. CASE NextRaises(g) \/ Leave(g)
  <2>1. PICK s \in {"left", "failed"} :
          gens' = [gens EXCEPT ![g] = [gens[g] EXCEPT !.state = s, !.buffer = 0]]
    BY <1>7, GaveUp
  <2> DEFINE it == [gens[g] EXCEPT !.state = s, !.buffer = 0]
  <2>2. gens[g].state = "open"
    BY <1>7, GaveUp
  <2>3. /\ it.cursor = gens[g].cursor /\ it.keep = gens[g].keep
        /\ it.max = gens[g].max /\ it.stmt = gens[g].stmt
        /\ it.size = gens[g].size /\ it.state # gens[g].state
    BY <1>1, <2>2 DEF IteratorType
  <2> HIDE DEF it
  <2> QED
    BY <1>2, <2>1, <2>3 DEF it
<1> QED
  BY <1>4, <1>5, <1>6, <1>7 DEF Iterate, NextRow

LEMMA CloseOneFewer ==
  ASSUME NEW c, CloseOne(c)
  PROVE  Fewer(pool, pool')
<1>1. PICK stuck : pool' = CloseCursor(pool, c, stuck = {})
  BY DEF CloseOne
<1>2. Fewer(pool, CloseCursor(pool, c, stuck = {}))
  BY CloseFewer
<1> QED
  BY <1>1, <1>2

LEMMA NextRowLife ==
  ASSUME TypeOK, LifeInv, NEW g \in DOMAIN gens, Iterate(g)
  PROVE  LifeInv'
<1>1. handed' = handed
  BY GaveUp DEF Iterate, NextRow, NextBuffered, NextFetch, NextEnd, NextFails
<1>2. Fewer(pool, pool')
  <2>1. CASE NextBuffered(g) \/ NextFetch(g)
    BY <2>1, SamePoolFewer DEF NextBuffered, NextFetch
  <2>2. CASE NextEnd(g)
    BY <2>2, CloseOneFewer DEF NextEnd
  <2>3. CASE NextFails(g)
    BY <2>3, SamePoolFewer, CloseFewer DEF NextFails
  <2>4. CASE NextRaises(g) \/ Leave(g)
    BY <2>4, SamePoolFewer, GaveUp
  <2> QED
    BY <2>1, <2>2, <2>3, <2>4 DEF Iterate, NextRow
<1> QED
  BY <1>1, <1>2, IteratorsKeepCursor, OtherLifeInv

\* What a call of the callers does to the cursors: a statement runs on a new
\* or on a plain cursor, or cursors are closed, or an iterator is made.
StatementOn(p, c, keep, result) ==
  /\ OnNewCursor(p, c, keep) \/ OnPlainCursor(p, c, keep)
  /\ c \in Cursors /\ keep \in BOOLEAN
  /\ Fewer(p, pool')
  /\ handed' \subseteq handed \cup {Storage(c, keep)}
  /\ rs' = [rs EXCEPT ![c] = result]
  /\ \/ gens' = gens
     \/ /\ c = pool.counter + 1 /\ keep
        /\ \E max \in MaxRows : gens' = Append(gens, Iterator(c, TRUE, result, max))

OnlyCloses(closed) ==
  /\ Fewer(pool, pool')
  /\ handed' = handed /\ gens' = gens
  /\ rs' = [c \in Cursors |-> IF c \in closed THEN NoResult ELSE rs[c]]
  /\ \/ closed = {}
     \/ \E c \in closed : closed = {c} /\ pool' = CloseCursor(pool, c, TRUE)
                            /\ HasCursor(pool, c)
     \/ closed \subseteq PlainCursors(pool)

OnlyReads ==
  /\ UNCHANGED <<pool, handed, rs>>
  /\ \E cs \in pool.cursors, max \in MaxRows :
       gens' = Append(gens, Iterator(cs.cursor, cs.keep, rs[cs.cursor], max))

LEMMA CallerCases ==
  ASSUME TypeOK, ~ReuseKept, Caller
  PROVE  \/ \E p, c, keep, result : StatementOn(p, c, keep, result)
         \/ \E closed : OnlyCloses(closed)
         \/ OnlyReads
<1>1. ASSUME NEW given \in CursorOrNone, NEW useCurrent \in BOOLEAN,
             NEW keep \in BOOLEAN, MayCall(given, useCurrent, keep),
             Execute(given, useCurrent, keep)
      PROVE  \E p, c, k, result : StatementOn(p, c, k, result)
  <2> DEFINE p == PoolFor(pool, given, useCurrent, keep)
             c == CursorFor(pool, given, useCurrent, keep)
  <2>1. PICK result : RunStatement(given, useCurrent, keep, result)
    BY <1>1 DEF Execute
  <2>2. OnNewCursor(p, c, keep) \/ OnPlainCursor(p, c, keep)
    BY <1>1, CallLife
  <2>3. pool' = p /\ c \in Cursors /\ rs' = [rs EXCEPT ![c] = result]
    BY <2>1 DEF RunStatement
  <2>4. handed' = handed \cup {Storage(c, keep)} /\ gens' = gens
    BY <1>1 DEF Execute
  <2> HIDE DEF p, c
  <2>5. StatementOn(p, c, keep, result)
    BY <2>2, <2>3, <2>4, SamePoolFewer DEF StatementOn
  <2> QED
    BY <2>5
<1>2. ASSUME NEW given \in CursorOrNone, NEW useCurrent \in BOOLEAN,
             NEW keep \in BOOLEAN, MayCall(given, useCurrent, keep),
             ExecuteFails(given, useCurrent, keep)
      PROVE  \E p, c, k, result : StatementOn(p, c, k, result)
  <2> DEFINE p == PoolFor(pool, given, useCurrent, keep)
             c == CursorFor(pool, given, useCurrent, keep)
  <2>1. OnNewCursor(p, c, keep) \/ OnPlainCursor(p, c, keep)
    BY <1>2, CallLife
  <2>2. /\ c \in Cursors /\ rs' = [rs EXCEPT ![c] = NoResult]
        /\ handed' = handed /\ gens' = gens
    BY <1>2 DEF ExecuteFails
  <2>3. PICK stuck : pool' = CloseCursor(p, c, stuck = {})
    BY <1>2 DEF ExecuteFails
  <2> HIDE DEF p, c
  <2>6. Fewer(p, CloseCursor(p, c, stuck = {}))
    BY CloseFewer
  <2>4. Fewer(p, pool')
    BY <2>3, <2>6
  <2>5. StatementOn(p, c, keep, NoResult)
    BY <2>1, <2>2, <2>4 DEF StatementOn
  <2> QED
    BY <2>5
<1>3. ASSUME NEW result, RunStatement(NoCursor, FALSE, TRUE, result),
             handed' = handed,
             \/ gens' = gens
             \/ \E max \in MaxRows :
                  gens' = Append(gens, Iterator(pool.counter + 1, TRUE, result, max))
      PROVE  \E p, c, k, r : StatementOn(p, c, k, r)
  <2> DEFINE p == PoolFor(pool, NoCursor, FALSE, TRUE)
             c == CursorFor(pool, NoCursor, FALSE, TRUE)
  <2>1. OnNewCursor(p, c, TRUE) /\ c = pool.counter + 1
    BY QueryLife
  <2>2. pool' = p /\ c \in Cursors /\ rs' = [rs EXCEPT ![c] = result]
    BY <1>3 DEF RunStatement
  <2> HIDE DEF p, c
  <2>3. StatementOn(p, c, TRUE, result)
    BY <1>3, <2>1, <2>2, SamePoolFewer DEF StatementOn
  <2> QED
    BY <2>3
<1>4. ASSUME NEW max \in MaxRows, Query(max)
      PROVE  \E p, c, k, r : StatementOn(p, c, k, r)
  BY <1>3, <1>4 DEF Query
<1>5. CASE QueryUpdate \/ QuerySingle
  <2>1. \E result : RunStatement(NoCursor, FALSE, TRUE, result)
    BY <1>5 DEF QueryUpdate, QuerySingle
  <2>2. handed' = handed /\ gens' = gens
    BY <1>5 DEF QueryUpdate, QuerySingle
  <2> QED
    BY <1>3, <2>1, <2>2
<1>6. ASSUME NEW max \in MaxRows, NEW given \in CursorOrNone, GetData(given, max)
      PROVE  OnlyReads
  BY <1>6 DEF GetData, OnlyReads
<1>7. ASSUME NEW given \in CursorOrNone, Close(given)
      PROVE  \E closed : OnlyCloses(closed)
  <2> DEFINE c == IF given = NoCursor THEN pool.current ELSE given
  <2>1. PICK stuck \in Refusals({c}) :
          /\ pool' = CloseCursor(pool, c, stuck = {})
          /\ rs' = ClosedResults({c}, stuck)
    BY <1>7 DEF Close, CloseOne
  <2>2. HasCursor(pool, c) /\ handed' = handed /\ gens' = gens /\ CloseOne(c)
    BY <1>7 DEF Close
  <2> HIDE DEF c
  <2>3. Fewer(pool, pool')
    BY <2>2, CloseOneFewer
  <2>4. stuck = {} \/ stuck = {c}
    BY <2>1, RefusalsType
  <2>5. CASE stuck = {}
    <3>1. OnlyCloses({c})
      BY <2>1, <2>2, <2>3, <2>5 DEF OnlyCloses, ClosedResults
    <3> QED
      BY <3>1
  <2>6. CASE stuck = {c}
    <3>1. rs' = [d \in Cursors |-> rs[d]]
      BY <2>1, <2>6 DEF ClosedResults
    <3>2. OnlyCloses({})
      BY <2>2, <2>3, <3>1 DEF OnlyCloses
    <3> QED
      BY <3>2
  <2> QED
    BY <2>4, <2>5, <2>6
<1>8. CASE EndTransaction
  <2> DEFINE plain == PlainCursors(pool)
  <2>1. PICK stuck \in Refusals(plain) :
          /\ pool' = CloseAllCursors(pool, stuck)
          /\ rs' = ClosedResults(plain, stuck)
    BY <1>8 DEF EndTransaction
  <2>2. Fewer(pool, pool')
    BY <2>1, CloseAllFewer DEF TypeOK
  <2>3. handed' = handed /\ gens' = gens
    BY <1>8 DEF EndTransaction
  <2>4. rs' = [c \in Cursors |-> IF c \in plain \ stuck THEN NoResult ELSE rs[c]]
    BY <2>1 DEF ClosedResults
  <2> HIDE DEF plain
  <2>5. plain \ stuck \subseteq plain
    OBVIOUS
  <2>6. OnlyCloses(plain \ stuck)
    BY <2>2, <2>3, <2>4, <2>5 DEF OnlyCloses, plain
  <2> QED
    BY <2>6
<1> QED
  BY <1>1, <1>2, <1>4, <1>5, <1>6, <1>7, <1>8 DEF Caller

LEMMA CallerLife ==
  ASSUME TypeOK, LifeInv, ~ReuseKept, Caller
  PROVE  LifeInv'
<1>1. ASSUME NEW p, NEW c, NEW keep, NEW result, StatementOn(p, c, keep, result)
      PROVE  LifeInv'
  <2>1. \A g \in DOMAIN gens' :
           \/ g \in DOMAIN gens /\ gens'[g] = gens[g]
           \/ gens'[g].cursor = c /\ keep
    <3>1. CASE gens' = gens
      BY <3>1
    <3>2. CASE gens' # gens
      <4>1. PICK it : gens' = Append(gens, it) /\ it.cursor = c /\ keep
        BY <1>1, <3>2 DEF StatementOn, Iterator
      <4> QED
        BY <4>1 DEF TypeOK
    <3> QED
      BY <3>1, <3>2
  <2> QED
    BY <1>1, <2>1, StatementLifeInv DEF StatementOn
<1>2. ASSUME NEW closed, OnlyCloses(closed)
      PROVE  LifeInv'
  BY <1>2, OtherLifeInv DEF OnlyCloses
<1>3. CASE OnlyReads
  <2>1. PICK cs \in pool.cursors, max \in MaxRows :
          gens' = Append(gens, Iterator(cs.cursor, cs.keep, rs[cs.cursor], max))
    BY <1>3 DEF OnlyReads
  <2>2. cs.keep => KeptNow(cs.cursor)
    <3>1. ASSUME cs.keep = TRUE
          PROVE  cs = Storage(cs.cursor, TRUE)
      BY <3>1 DEF Storage, TypeOK, PoolType
    <3>2. cs.keep \in BOOLEAN
      BY DEF TypeOK, PoolType
    <3> QED
      BY <3>1, <3>2 DEF KeptNow
  <2>3. PICK it : gens' = Append(gens, it) /\ it.cursor = cs.cursor /\ it.keep = cs.keep
    BY <2>1 DEF Iterator
  <2>4. \A g \in DOMAIN gens' :
           \/ g \in DOMAIN gens /\ gens'[g] = gens[g]
           \/ gens'[g].keep => KeptNow(gens'[g].cursor)
    BY <2>2, <2>3 DEF TypeOK
  <2> QED
    BY <1>3, <2>4, OtherLifeInv, SamePoolFewer DEF OnlyReads
<1> QED
  BY <1>1, <1>2, <1>3, CallerCases

LEMMA LivesInvariant ==
  ASSUME ~ReuseKept
  PROVE  Spec => []LifeInv
<1>1. Init => LifeInv
  BY DEF Init, LifeInv, PlainNow, KeptNow, EmptyPool
<1>2. TypeOK /\ LifeInv /\ [Next]_vars => LifeInv'
  <2>1. CASE Next
    BY <2>1, CallerLife, NextRowLife DEF Next
  <2>2. CASE UNCHANGED vars
    BY <2>2 DEF vars, LifeInv, PlainNow, KeptNow
  <2> QED
    BY <2>1, <2>2
<1> QED
  BY <1>1, <1>2, TypeCorrect, PTL DEF Spec

\* Every known cursor has one storage record.
LEMMA OneStorage ==
  ASSUME TypeOK, LifeInv, NEW cs \in Kept(pool), NEW ct \in pool.cursors,
         ct.cursor = cs.cursor
  PROVE  ct = cs
<1>1. cs.keep = TRUE /\ cs \in pool.cursors
  BY DEF Kept, TypeOK, PoolType
<1>2. cs = Storage(cs.cursor, TRUE)
  BY <1>1 DEF Storage, TypeOK, PoolType
<1>3. ct.keep \in BOOLEAN /\ ct = Storage(cs.cursor, ct.keep)
  BY DEF Storage, TypeOK, PoolType
<1>4. Storage(cs.cursor, FALSE) \notin pool.cursors
  BY <1>1, <1>2 DEF LifeInv, PlainNow, KeptNow
<1> QED
  BY <1>2, <1>3, <1>4

-----------------------------------------------------------------------------
(***************************************************************************)
(* Iterators on kept cursors. While the only iterator of a kept cursor is  *)
(* open, its buffer holds rows of its own statement, and the cursor has    *)
(* what it has not yet delivered, unless it has been closed.               *)
(***************************************************************************)
Sole(g) == gens[g].keep /\ gens[g].max = 0 /\ Alone(g)

OnCourse(it, result) ==
  /\ it.foreign = 0
  /\ it.state = "ended" => it.own = it.size
  /\ it.state = "open" =>
       /\ it.buffer > 0 => it.bufferOf = it.stmt
       /\ \/ result.stmt = 0
          \/ result.stmt = it.stmt /\ it.own + it.buffer + result.left = it.size

CourseInv == \A g \in DOMAIN gens : Sole(g) => OnCourse(gens[g], rs[gens[g].cursor])

LEMMA SoleBefore ==
  ASSUME NEW g \in DOMAIN gens, DOMAIN gens \subseteq DOMAIN gens',
         \A h \in DOMAIN gens :
           /\ gens'[h].cursor = gens[h].cursor /\ gens'[h].keep = gens[h].keep
           /\ gens'[h].max = gens[h].max,
         Sole(g)'
  PROVE  Sole(g)
BY DEF Sole, Alone

\* The row an iterator takes from its buffer or from a fetch is its own.
LEMMA YieldOwn ==
  ASSUME NEW it \in IteratorType, NEW n \in Nat \ {0}
  PROVE  LET new == Yield(it, n, it.stmt)
         IN /\ new.foreign = it.foreign /\ new.own = it.own + 1
            /\ new.buffer = n - 1 /\ new.bufferOf = it.stmt
            /\ new.state = it.state /\ new.size = it.size /\ new.stmt = it.stmt
BY DEF Yield, IteratorType

LEMMA NextRowOnCourse ==
  ASSUME TypeOK, ResultInv, NEW g \in DOMAIN gens, Iterate(g), Sole(g),
         OnCourse(gens[g], rs[gens[g].cursor])
  PROVE  OnCourse(gens'[g], rs'[gens[g].cursor])
<1> DEFINE c == gens[g].cursor
<1>1. gens[g] \in IteratorType /\ c \in Cursors /\ rs[c] \in ResultType
  <2>1. gens[g] \in IteratorType
    BY IteratorsHaveType
  <2>2. c \in Cursors
    BY <2>1 DEF IteratorType
  <2> QED
    BY <2>1, <2>2 DEF TypeOK
<1>2. ~LimitReached(g) /\ ClosesAtLimit(g) = {}
  BY <1>1 DEF Sole, LimitReached, ClosesAtLimit, IteratorType
<1>3. /\ gens[g].own \in Nat /\ gens[g].buffer \in Nat /\ gens[g].size \in Nat
      /\ rs[c].left \in Nat /\ rs[c].stmt \in Nat
  BY <1>1 DEF IteratorType, ResultType
<1>4. CASE NextBuffered(g)
  <2>1. gens[g].state = "open" /\ gens[g].buffer > 0 /\ rs' = rs
    BY <1>4 DEF NextBuffered, Open
  <2>2. gens[g].bufferOf = gens[g].stmt
    BY <2>1 DEF OnCourse
  <2>3. gens'[g] = Yield(gens[g], gens[g].buffer, gens[g].stmt)
    BY <1>4, <2>2 DEF NextBuffered, TypeOK
  <2>4. /\ gens'[g].foreign = gens[g].foreign /\ gens'[g].own = gens[g].own + 1
        /\ gens'[g].buffer = gens[g].buffer - 1 /\ gens'[g].bufferOf = gens[g].stmt
        /\ gens'[g].state = "open" /\ gens'[g].size = gens[g].size
        /\ gens'[g].stmt = gens[g].stmt
    BY <1>1, <1>3, <2>1, <2>3, YieldOwn
  <2> QED
    BY <1>3, <2>1, <2>4 DEF OnCourse
<1>5. CASE NextFetch(g)
  <2> DEFINE n == IF rs[c].left < ArraySize THEN rs[c].left ELSE ArraySize
  <2>1. gens[g].state = "open" /\ gens[g].buffer = 0 /\ rs[c].left > 0
    BY <1>2, <1>5 DEF NextFetch, Fetches, Open
  <2>2. n \in Nat \ {0} /\ rs[c].left - n \in Nat
    BY <1>3, <2>1
  <2>3. /\ gens'[g] = Yield(gens[g], n, rs[c].stmt)
        /\ rs'[c] = [rs[c] EXCEPT !.left = rs[c].left - n]
    BY <1>1, <1>5 DEF NextFetch, Batch, BatchFetched, TypeOK
  <2> HIDE DEF n
  <2>4. rs'[c].left = rs[c].left - n /\ rs'[c].stmt = rs[c].stmt
    BY <1>1, <2>3 DEF ResultType
  <2>8. rs[c].stmt # 0
    BY <1>1, <1>3, <2>1 DEF ResultInv, EmptyWithoutResult
  <2>5. /\ rs[c].stmt = gens[g].stmt
        /\ gens[g].own + gens[g].buffer + rs[c].left = gens[g].size
    BY <2>1, <2>8 DEF OnCourse
  <2>6. /\ gens'[g].foreign = gens[g].foreign /\ gens'[g].own = gens[g].own + 1
        /\ gens'[g].buffer = n - 1 /\ gens'[g].bufferOf = gens[g].stmt
        /\ gens'[g].state = "open" /\ gens'[g].size = gens[g].size
        /\ gens'[g].stmt = gens[g].stmt
    BY <1>1, <2>1, <2>2, <2>3, <2>5, YieldOwn
  <2>7. gens'[g].own + gens'[g].buffer + rs'[c].left = gens'[g].size
    BY <1>3, <2>1, <2>2, <2>4, <2>5, <2>6
  <2> QED
    BY <2>4, <2>5, <2>6, <2>7 DEF OnCourse
<1>6. CASE NextEnd(g)
  <2>1. /\ gens[g].state = "open" /\ gens[g].buffer = 0
        /\ rs[c].stmt # 0 /\ rs[c].left = 0
    BY <1>2, <1>6 DEF NextEnd, Fetches, Open
  <2>2. gens[g].own = gens[g].size
    BY <1>3, <2>1 DEF OnCourse
  <2>3. gens'[g] = [gens[g] EXCEPT !.state = "ended", !.buffer = 0]
    BY <1>6 DEF NextEnd, TypeOK
  <2>4. /\ gens'[g].foreign = gens[g].foreign /\ gens'[g].own = gens[g].own
        /\ gens'[g].size = gens[g].size /\ gens'[g].state = "ended"
    BY <1>1, <2>3 DEF IteratorType
  <2> QED
    BY <2>2, <2>4 DEF OnCourse
<1>7. CASE NextFails(g)
  <2>1. gens'[g] = [gens[g] EXCEPT !.state = "failed", !.buffer = 0]
    BY <1>7 DEF NextFails, TypeOK
  <2>2. gens'[g].foreign = gens[g].foreign /\ gens'[g].state = "failed"
    BY <1>1, <2>1 DEF IteratorType
  <2> QED
    BY <2>2 DEF OnCourse
<1>8. CASE NextRaises(g) \/ Leave(g)
  <2>1. PICK how \in {"failed", "left"} :
          gens' = [gens EXCEPT ![g] =
                     [gens[g] EXCEPT !.state = how, !.buffer = 0]]
    BY <1>8, GaveUp
  <2>2. gens'[g].foreign = gens[g].foreign /\ gens'[g].state = how
    BY <1>1, <2>1 DEF IteratorType, TypeOK
  <2> QED
    BY <2>2 DEF OnCourse
<1> QED
  BY <1>4, <1>5, <1>6, <1>7, <1>8 DEF Iterate, NextRow

\* An iterator touches the result of its own cursor only.
LEMMA NextRowOwnResult ==
  ASSUME TypeOK, NEW g \in DOMAIN gens, Iterate(g),
         NEW c \in Cursors, c # gens[g].cursor
  PROVE  rs'[c] = rs[c]
<1>1. CASE NextBuffered(g)
  BY <1>1 DEF NextBuffered
<1>2. CASE NextFetch(g)
  BY <1>2 DEF NextFetch, BatchFetched, TypeOK
<1>3. CASE NextEnd(g)
  <2>1. CloseOne(gens[g].cursor)
    BY <1>3 DEF NextEnd
  <2>2. PICK closed : rs' = [d \in Cursors |-> IF d \in closed THEN NoResult ELSE rs[d]]
                        /\ closed \subseteq {gens[g].cursor}
    BY <2>1 DEF CloseOne, ClosedResults
  <2> QED
    BY <2>2
<1>4. CASE NextFails(g)
  BY <1>4 DEF NextFails, ClosedResults, ClosesAtLimit
<1>5. CASE NextRaises(g) \/ Leave(g)
  BY <1>5, GaveUp
<1> QED
  BY <1>1, <1>2, <1>3, <1>4, <1>5 DEF Iterate, NextRow

LEMMA NextRowCourse ==
  ASSUME TypeOK, ResultInv, CourseInv, NEW g \in DOMAIN gens, Iterate(g)
  PROVE  CourseInv'
<1> SUFFICES ASSUME NEW h \in DOMAIN gens', Sole(h)'
             PROVE  OnCourse(gens'[h], rs'[gens'[h].cursor])
  BY DEF CourseInv
<1>1. /\ h \in DOMAIN gens /\ gens'[h].cursor = gens[h].cursor
      /\ h # g => gens'[h] = gens[h]
  BY IteratorsKeepCursor
<1>2. Sole(h)
  BY IteratorsKeepCursor, SoleBefore
<1>3. OnCourse(gens[h], rs[gens[h].cursor])
  BY <1>1, <1>2 DEF CourseInv
<1>4. CASE h = g
  BY <1>1, <1>2, <1>3, <1>4, NextRowOnCourse
<1>5. CASE h # g
  <2>1. gens[h].cursor # gens[g].cursor
    BY <1>2, <1>5 DEF Sole, Alone
  <2>2. gens[h].cursor \in Cursors
    BY <1>1, IteratorsHaveType DEF IteratorType
  <2> QED
    BY <1>1, <1>3, <1>5, <2>1, <2>2, NextRowOwnResult
<1> QED
  BY <1>4, <1>5

\* A statement runs on no kept cursor.
LEMMA StatementNotKept ==
  ASSUME TypeOK, LifeInv, NEW p, NEW c, NEW keep, NEW result, NEW d,
         StatementOn(p, c, keep, result), KeptNow(d)
  PROVE  c # d
<1>1. d \in 1 .. pool.counter /\ ~PlainNow(d)
  BY DEF LifeInv
<1>2. CASE OnNewCursor(p, c, keep)
  <2>1. c = pool.counter + 1 /\ pool.counter \in Nat
    BY <1>2 DEF OnNewCursor, TypeOK, PoolType, CursorOrNone
  <2> QED
    BY <1>1, <2>1
<1>3. CASE OnPlainCursor(p, c, keep)
  <2>1. PlainNow(c)
    BY <1>3 DEF OnPlainCursor
  <2> QED
    BY <1>1, <2>1
<1> QED
  BY <1>2, <1>3 DEF StatementOn

\* A call leaves the result of a kept cursor an iterator reads, or drops it.
LEMMA ResultKeptOrDropped ==
  ASSUME TypeOK, LifeInv, ~ReuseKept, Caller, NEW g \in DOMAIN gens, gens[g].keep
  PROVE  rs'[gens[g].cursor] = rs[gens[g].cursor] \/ rs'[gens[g].cursor] = NoResult
<1> DEFINE c == gens[g].cursor
<1>1. c \in Cursors /\ KeptNow(c)
  BY IteratorsHaveType DEF IteratorType, KeptNow
<1> HIDE DEF c
<1>2. ASSUME NEW p, NEW d, NEW keep, NEW result, StatementOn(p, d, keep, result)
      PROVE  rs'[c] = rs[c]
  <2>1. d # c
    BY <1>1, <1>2, StatementNotKept
  <2> QED
    BY <1>1, <1>2, <2>1 DEF StatementOn, TypeOK
<1>3. ASSUME NEW closed, OnlyCloses(closed)
      PROVE  rs'[c] = rs[c] \/ rs'[c] = NoResult
  <2>1. rs' = [d \in Cursors |-> IF d \in closed THEN NoResult ELSE rs[d]]
    BY <1>3 DEF OnlyCloses
  <2> QED
    BY <1>1, <2>1
<1>4. ASSUME OnlyReads PROVE rs'[c] = rs[c]
  BY <1>4 DEF OnlyReads
<1>5. rs'[c] = rs[c] \/ rs'[c] = NoResult
  BY <1>2, <1>3, <1>4, CallerCases
<1> QED
  BY <1>5 DEF c

\* A new iterator begins with the result its cursor holds.
LEMMA NewIteratorCases ==
  ASSUME TypeOK, ~ReuseKept, Caller
  PROVE  \/ gens' = gens
         \/ \E c \in Cursors : \E keep, max :
              gens' = Append(gens, Iterator(c, keep, rs'[c], max))
<1>1. ASSUME NEW p, NEW c, NEW keep, NEW result, StatementOn(p, c, keep, result),
             gens' # gens
      PROVE  \E d \in Cursors : \E k, max :
                gens' = Append(gens, Iterator(d, k, rs'[d], max))
  <2>1. c \in Cursors /\ rs'[c] = result
    BY <1>1 DEF StatementOn, TypeOK
  <2>2. \E max \in MaxRows : gens' = Append(gens, Iterator(c, TRUE, result, max))
    BY <1>1 DEF StatementOn
  <2> QED
    BY <2>1, <2>2
<1>2. ASSUME NEW closed, OnlyCloses(closed)
      PROVE  gens' = gens
  BY <1>2 DEF OnlyCloses
<1>3. CASE OnlyReads
  <2>1. PICK cs \in pool.cursors, max \in MaxRows :
          gens' = Append(gens, Iterator(cs.cursor, cs.keep, rs[cs.cursor], max))
    BY <1>3 DEF OnlyReads
  <2>2. cs.cursor \in Cursors /\ rs'[cs.cursor] = rs[cs.cursor]
    BY <1>3 DEF OnlyReads, TypeOK, PoolType
  <2> QED
    BY <2>1, <2>2
<1> QED
  BY <1>1, <1>2, <1>3, CallerCases

LEMMA CallerCourse ==
  ASSUME TypeOK, TypeOK', LifeInv, CourseInv, ~ReuseKept, Caller
  PROVE  CourseInv'
<1>1. gens \in Seq(IteratorType)
  BY DEF TypeOK
<1>2. ASSUME NEW g \in DOMAIN gens, DOMAIN gens \subseteq DOMAIN gens',
             \A h \in DOMAIN gens : gens'[h] = gens[h], Sole(g)'
      PROVE  OnCourse(gens'[g], rs'[gens'[g].cursor])
  <2>1. Sole(g)
    BY <1>2, SoleBefore
  <2>2. OnCourse(gens[g], rs[gens[g].cursor]) /\ gens[g].keep
    BY <2>1 DEF CourseInv, Sole
  <2>3. rs'[gens[g].cursor] = rs[gens[g].cursor] \/ rs'[gens[g].cursor] = NoResult
    BY <2>2, ResultKeptOrDropped
  <2> QED
    BY <1>2, <2>2, <2>3 DEF OnCourse, NoResult
<1>3. CASE gens' = gens
  BY <1>2, <1>3 DEF CourseInv
<1>4. CASE gens' # gens
  <2>1. PICK c \in Cursors : \E keep, max :
          gens' = Append(gens, Iterator(c, keep, rs'[c], max))
    BY <1>4, NewIteratorCases
  <2>2. PICK keep, max : gens' = Append(gens, Iterator(c, keep, rs'[c], max))
    BY <2>1
  <2> DEFINE it == Iterator(c, keep, rs'[c], max)
  <2>3. rs'[c].stmt \in Nat /\ rs'[c].left \in Nat
    BY DEF TypeOK, ResultType
  <2>4. OnCourse(it, rs'[c]) /\ it.cursor = c
    BY <2>3 DEF Iterator, OnCourse
  <2> HIDE DEF it
  <2>5. /\ DOMAIN gens' = DOMAIN gens \cup {Len(gens) + 1}
        /\ gens'[Len(gens) + 1] = it
        /\ \A g \in DOMAIN gens : gens'[g] = gens[g]
    BY <1>1, <2>2 DEF it
  <2> QED
    BY <1>2, <2>4, <2>5 DEF CourseInv
<1> QED
  BY <1>3, <1>4

\* An iterator on a kept cursor of its own delivers the rows of its statement,
\* all of them when it ends, whatever statements, commits and rollbacks callers
\* put between two rows.
THEOREM KeptIteratorsComplete ==
  ASSUME ~ReuseKept
  PROVE  Spec => []KeptComplete
<1>1. Init => CourseInv
  BY DEF Init, CourseInv
<1>2. TypeOK /\ TypeOK' /\ ResultInv /\ LifeInv /\ CourseInv /\ [Next]_vars => CourseInv'
  <2>1. TypeOK /\ TypeOK' /\ ResultInv /\ LifeInv /\ CourseInv /\ Next => CourseInv'
    BY CallerCourse, NextRowCourse DEF Next
  <2>2. CourseInv /\ UNCHANGED vars => CourseInv'
    BY DEF vars, CourseInv, Sole, Alone
  <2> QED
    BY <2>1, <2>2
<1>3. CourseInv => KeptComplete
  BY DEF CourseInv, KeptComplete, Sole, OnCourse
<1> QED
  BY <1>1, <1>2, <1>3, TypeCorrect, ResultsInvariant, LivesInvariant, PTL DEF Spec

\* No step but that of its own iterator, and its own closing, changes what a
\* kept cursor still has to deliver.
THEOREM KeptCursorsUndisturbed ==
  ASSUME ~ReuseKept
  PROVE  Spec => KeptUndisturbed
<1> DEFINE Undisturbed ==
      \A cs \in Kept(pool) :
        rs'[cs.cursor] # rs[cs.cursor] =>
          \/ \E g \in DOMAIN gens :
               gens[g].cursor = cs.cursor /\ gens'[g] # gens[g]
          \/ pool'.cursors = pool.cursors \ {cs}
<1>1. ASSUME TypeOK, LifeInv, Next
      PROVE  Undisturbed
  <2> SUFFICES ASSUME NEW cs \in Kept(pool), rs'[cs.cursor] # rs[cs.cursor]
               PROVE  \/ \E g \in DOMAIN gens :
                           gens[g].cursor = cs.cursor /\ gens'[g] # gens[g]
                      \/ pool'.cursors = pool.cursors \ {cs}
    OBVIOUS
  <2>1. cs \in pool.cursors /\ cs.keep = TRUE /\ cs.cursor \in Cursors
    BY <1>1 DEF Kept, TypeOK, PoolType
  <2>2. KeptNow(cs.cursor)
    <3>1. cs = Storage(cs.cursor, TRUE)
      BY <1>1, <2>1 DEF Storage, TypeOK, PoolType
    <3> QED
      BY <2>1, <3>1 DEF KeptNow
  <2>3. ASSUME NEW g \in DOMAIN gens, Iterate(g)
        PROVE  gens[g].cursor = cs.cursor /\ gens'[g] # gens[g]
    BY <1>1, <2>1, <2>3, NextRowOwnResult, IteratorsKeepCursor
  <2>4. ASSUME NEW p, NEW c, NEW keep, NEW result, StatementOn(p, c, keep, result)
        PROVE  FALSE
    <3>1. c # cs.cursor
      BY <1>1, <2>2, <2>4, StatementNotKept
    <3> QED
      BY <1>1, <2>1, <2>4, <3>1 DEF StatementOn, TypeOK
  <2>5. ASSUME NEW closed, OnlyCloses(closed)
        PROVE  pool'.cursors = pool.cursors \ {cs}
    <3>1. cs.cursor \in closed
      BY <1>1, <2>1, <2>5 DEF OnlyCloses, TypeOK
    <3>2. cs.cursor \notin PlainCursors(pool)
      BY <1>1, <2>1, OneStorage DEF PlainCursors
    <3>3. pool' = CloseCursor(pool, cs.cursor, TRUE) /\ HasCursor(pool, cs.cursor)
      BY <2>5, <3>1, <3>2 DEF OnlyCloses
    <3>4. pool'.cursors = {ct \in pool.cursors : ct.cursor # cs.cursor}
      <4> DEFINE q == DropCurrent(pool, {cs.cursor})
      <4>1. q.cursors = pool.cursors /\ pool' = RemoveCursor(q, cs.cursor)
        BY <3>3 DEF CloseCursor, DropCurrent, SetCurrent
      <4>2. q \in PoolType
        BY <1>1, DropCurrentType DEF TypeOK
      <4> HIDE DEF q
      <4> QED
        BY <4>1, <4>2 DEF RemoveCursor, PoolType
    <3> QED
      BY <1>1, <2>1, <3>4, OneStorage
  <2>6. ~OnlyReads
    BY DEF OnlyReads
  <2> QED
    BY <1>1, <2>3, <2>4, <2>5, <2>6, CallerCases DEF Next
<1>2. TypeOK /\ LifeInv /\ [Next]_vars => [Undisturbed]_vars
  BY <1>1
<1> QED
  BY <1>2, TypeCorrect, LivesInvariant, PTL DEF Spec, KeptUndisturbed

-----------------------------------------------------------------------------
(***************************************************************************)
(* Kept cursors nobody was given. A query leaves one that only its open    *)
(* iterator can close, and the iterator can do so only while the cursor    *)
(* has a result set: an iterator that fails closes nothing.                *)
(***************************************************************************)
Reachable(c) ==
  \/ \E h \in handed : h.cursor = c
  \/ c \in unclosed \/ c \in abandoned
  \/ rs[c].stmt # 0 /\ \E g \in DOMAIN gens : Open(g) /\ gens[g].cursor = c

LeakInv == \A cs \in Kept(pool) : Reachable(cs.cursor)

LEMMA HandedGrows ==
  ASSUME TypeOK, Next
  PROVE  /\ handed \subseteq handed' /\ unclosed \subseteq unclosed'
         /\ abandoned \subseteq abandoned'
<1>1. CASE Caller
  BY <1>1 DEF Caller, Execute, ExecuteFails, Query, GetData, QueryUpdate,
              QuerySingle, Close, CloseOne, EndTransaction
<1>2. ASSUME NEW g \in DOMAIN gens, Iterate(g)
      PROVE  /\ handed \subseteq handed' /\ unclosed \subseteq unclosed'
             /\ abandoned \subseteq abandoned'
  BY <1>2, GaveUp DEF Iterate, NextRow, NextBuffered, NextFetch, NextEnd,
                      NextFails, CloseOne
<1> QED
  BY <1>1, <1>2 DEF Next

\* A cursor reachable by other means than a result that changes stays so.
LEMMA StillReachable ==
  ASSUME NEW c, Reachable(c),
         handed \subseteq handed', unclosed \subseteq unclosed',
         abandoned \subseteq abandoned',
         rs'[c].stmt = rs[c].stmt, DOMAIN gens \subseteq DOMAIN gens',
         \A g \in DOMAIN gens : gens[g].cursor = c =>
           gens'[g].cursor = c /\ gens'[g].state = gens[g].state
  PROVE  Reachable(c)'
BY DEF Reachable, Open

\* A cursor that is closed leaves the list, unless the driver refuses.
LEMMA ClosedLeaves ==
  ASSUME NEW p, NEW c, p \in PoolType
  PROVE  ~HasCursor(CloseCursor(p, c, TRUE), c)
<1>1. CASE HasCursor(p, c)
  <2> DEFINE r == DropCurrent(p, {c})
  <2>1. r.cursors = p.cursors /\ r \in PoolType
    BY DropCurrentType DEF DropCurrent, SetCurrent
  <2>2. CloseCursor(p, c, TRUE) = RemoveCursor(r, c)
    BY <1>1 DEF CloseCursor
  <2> HIDE DEF r
  <2> QED
    BY <2>1, <2>2 DEF RemoveCursor, HasCursor, PoolType
<1>2. CASE ~HasCursor(p, c)
  BY <1>2 DEF CloseCursor
<1> QED
  BY <1>1, <1>2

\* The new kept cursor of a call: handed to the caller, refused by the driver,
\* or read by the iterator of a query.
LEMMA NewKeptReachable ==
  ASSUME TypeOK, TypeOK', ~ReuseKept, Caller,
         NEW cs \in pool'.cursors, cs \notin pool.cursors
  PROVE  Reachable(cs.cursor)'
<1>1. ASSUME NEW p, NEW c, NEW keep,
             OnNewCursor(p, c, keep) \/ OnPlainCursor(p, c, keep), Fewer(p, pool')
      PROVE  cs.cursor = c
  BY <1>1 DEF OnNewCursor, OnPlainCursor, Fewer, Storage
<1>2. ASSUME Fewer(pool, pool')
      PROVE  FALSE
  BY <1>2 DEF Fewer
<1>3. ASSUME NEW given \in CursorOrNone, NEW useCurrent \in BOOLEAN,
             NEW keep \in BOOLEAN, MayCall(given, useCurrent, keep),
             Execute(given, useCurrent, keep)
      PROVE  Reachable(cs.cursor)'
  <2> DEFINE p == PoolFor(pool, given, useCurrent, keep)
             c == CursorFor(pool, given, useCurrent, keep)
  <2>1. OnNewCursor(p, c, keep) \/ OnPlainCursor(p, c, keep)
    BY <1>3, CallLife
  <2>2. pool' = p /\ Storage(c, keep) \in handed'
    BY <1>3 DEF Execute, RunStatement
  <2> HIDE DEF p, c
  <2>3. cs.cursor = c
    BY <1>1, <2>1, <2>2, SamePoolFewer
  <2>4. Storage(c, keep).cursor = c
    BY DEF Storage
  <2> QED
    BY <2>2, <2>3, <2>4 DEF Reachable
<1>4. ASSUME NEW given \in CursorOrNone, NEW useCurrent \in BOOLEAN,
             NEW keep \in BOOLEAN, MayCall(given, useCurrent, keep),
             ExecuteFails(given, useCurrent, keep)
      PROVE  Reachable(cs.cursor)'
  <2> DEFINE p == PoolFor(pool, given, useCurrent, keep)
             c == CursorFor(pool, given, useCurrent, keep)
             closing == IF HasCursor(p, c) THEN {c} ELSE {}
  <2>1. OnNewCursor(p, c, keep) \/ OnPlainCursor(p, c, keep)
    BY <1>4, CallLife
  <2>2. PICK stuck \in Refusals(closing) :
          /\ pool' = CloseCursor(p, c, stuck = {})
          /\ unclosed' = unclosed \cup stuck
    BY <1>4 DEF ExecuteFails
  <2>3. c \in Cursors
    BY <1>4 DEF ExecuteFails
  <2>4. p \in PoolType
    BY <2>3, PoolForType DEF TypeOK
  <2> HIDE DEF p, c
  <2>5. Fewer(p, CloseCursor(p, c, stuck = {}))
    BY CloseFewer
  <2>6. cs.cursor = c
    BY <1>1, <2>1, <2>2, <2>5
  <2>7. stuck # {}
    BY <2>2, <2>4, <2>6, ClosedLeaves DEF HasCursor
  <2>8. c \in unclosed'
    BY <2>2, <2>7, RefusalsType
  <2> QED
    BY <2>6, <2>8 DEF Reachable
<1>5. ASSUME NEW max \in MaxRows, Query(max)
      PROVE  Reachable(cs.cursor)'
  <2>1. PICK result :
          /\ result.stmt = stmts + 1
          /\ RunStatement(NoCursor, FALSE, TRUE, result)
          /\ gens' = Append(gens, Iterator(pool.counter + 1, TRUE, result, max))
    BY <1>5 DEF Query
  <2> DEFINE p == PoolFor(pool, NoCursor, FALSE, TRUE)
             c == CursorFor(pool, NoCursor, FALSE, TRUE)
             it == Iterator(c, TRUE, result, max)
  <2>2. OnNewCursor(p, c, TRUE) /\ c = pool.counter + 1
    BY QueryLife
  <2>3. pool' = p /\ c \in Cursors /\ rs' = [rs EXCEPT ![c] = result]
    BY <2>1 DEF RunStatement
  <2> HIDE DEF p, c
  <2>4. cs.cursor = c
    BY <1>1, <2>2, <2>3, SamePoolFewer
  <2>5. rs'[c].stmt # 0
    BY <2>1, <2>3 DEF TypeOK
  <2>6. it.cursor = c /\ it.state = "open"
    BY DEF Iterator
  <2>7. gens' = Append(gens, it)
    BY <2>1, <2>2
  <2> HIDE DEF it
  <2>8. Len(gens) + 1 \in DOMAIN gens' /\ gens'[Len(gens) + 1] = it
    BY <2>7 DEF TypeOK
  <2> QED
    BY <2>4, <2>5, <2>6, <2>8 DEF Reachable, Open
<1>6. ASSUME NEW max \in MaxRows, NEW given \in CursorOrNone, GetData(given, max)
      PROVE  FALSE
  BY <1>6 DEF GetData
<1>7. ASSUME NEW given \in CursorOrNone, Close(given)
      PROVE  FALSE
  BY <1>2, <1>7, CloseOneFewer DEF Close
<1>8. ~EndTransaction
  BY <1>2, CloseAllFewer DEF EndTransaction, TypeOK
<1>9. ASSUME QueryUpdate \/ QuerySingle
      PROVE  Reachable(cs.cursor)'
  <2>1. /\ \E result : RunStatement(NoCursor, FALSE, TRUE, result)
        /\ pool.counter + 1 \in abandoned'
    BY <1>9 DEF QueryUpdate, QuerySingle
  <2> DEFINE p == PoolFor(pool, NoCursor, FALSE, TRUE)
             c == CursorFor(pool, NoCursor, FALSE, TRUE)
  <2>2. OnNewCursor(p, c, TRUE) /\ c = pool.counter + 1
    BY QueryLife
  <2>3. pool' = p
    BY <2>1 DEF RunStatement
  <2> HIDE DEF p, c
  <2>4. cs.cursor = c
    BY <1>1, <2>2, <2>3, SamePoolFewer
  <2> QED
    BY <2>1, <2>2, <2>4 DEF Reachable
<1> QED
  BY <1>3, <1>4, <1>5, <1>6, <1>7, <1>8, <1>9 DEF Caller

\* A call leaves every kept cursor of before reachable.
LEMMA CallerReachable ==
  ASSUME TypeOK, TypeOK', LifeInv, LeakInv, ~ReuseKept, Caller,
         NEW cs \in Kept(pool), cs \in pool'.cursors
  PROVE  Reachable(cs.cursor)'
<1> DEFINE c == cs.cursor
<1>1. /\ handed \subseteq handed' /\ unclosed \subseteq unclosed'
      /\ abandoned \subseteq abandoned'
  BY HandedGrows DEF Next
<1>2. c \in Cursors /\ cs = Storage(c, TRUE) /\ cs \in pool.cursors /\ KeptNow(c)
  BY DEF Kept, KeptNow, Storage, TypeOK, PoolType
<1>3. Reachable(c)
  BY DEF LeakInv
<1>4. /\ DOMAIN gens \subseteq DOMAIN gens'
      /\ \A g \in DOMAIN gens : gens'[g] = gens[g]
  <2>1. gens' = gens \/ \E it : gens' = Append(gens, it)
    BY CallerLimited
  <2> QED
    BY <2>1 DEF TypeOK
<1> HIDE DEF c
<1>5. ASSUME rs'[c] = rs[c]
      PROVE  Reachable(c)'
  BY <1>1, <1>3, <1>4, <1>5, StillReachable
<1>6. ASSUME NEW p, NEW d, NEW keep, NEW result, StatementOn(p, d, keep, result)
      PROVE  rs'[c] = rs[c]
  <2>1. d # c
    BY <1>2, <1>6, StatementNotKept
  <2> QED
    BY <1>2, <1>6, <2>1 DEF StatementOn, TypeOK
<1>7. ASSUME NEW closed, OnlyCloses(closed)
      PROVE  rs'[c] = rs[c]
  <2>1. c \notin PlainCursors(pool)
    BY <1>2, OneStorage DEF PlainCursors, c, Kept
  <2>2. ~\E d \in closed : closed = {d} /\ pool' = CloseCursor(pool, d, TRUE) /\ d = c
    BY <1>2, ClosedLeaves DEF c, HasCursor, TypeOK
  <2>3. c \notin closed
    BY <1>7, <2>1, <2>2 DEF OnlyCloses
  <2> QED
    BY <1>2, <1>7, <2>3 DEF OnlyCloses, TypeOK
<1>8. OnlyReads => rs'[c] = rs[c]
  BY DEF OnlyReads
<1>9. Reachable(c)'
  BY <1>5, <1>6, <1>7, <1>8, CallerCases
<1> QED
  BY <1>9 DEF c

\* So does an iterator, which closes its cursor when it ends.
LEMMA NextRowReachable ==
  ASSUME TypeOK, TypeOK', LeakInv, NEW g \in DOMAIN gens, Iterate(g),
         NEW cs \in Kept(pool'), cs \in Kept(pool)
  PROVE  Reachable(cs.cursor)'
<1> DEFINE c == cs.cursor
<1>1. /\ handed \subseteq handed' /\ unclosed \subseteq unclosed'
      /\ abandoned \subseteq abandoned'
  BY HandedGrows DEF Next
<1>2. c \in Cursors /\ HasCursor(pool, c) /\ HasCursor(pool', c)
  BY DEF Kept, HasCursor, TypeOK, PoolType
<1>3. Reachable(c)
  BY DEF LeakInv
<1> HIDE DEF c
<1>4. CASE gens[g].cursor # c
  <2>1. rs'[c] = rs[c]
    BY <1>2, <1>4, NextRowOwnResult
  <2>2. /\ DOMAIN gens' = DOMAIN gens
        /\ \A h \in DOMAIN gens : h # g => gens'[h] = gens[h]
    BY IteratorsKeepCursor
  <2> QED
    BY <1>1, <1>3, <1>4, <2>1, <2>2, StillReachable DEF c
<1>5. CASE gens[g].cursor = c
  <2>1. CASE NextBuffered(g) \/ NextFetch(g)
    <3>1. rs'[c].stmt = rs[c].stmt
      BY <1>2, <1>5, <2>1 DEF NextBuffered, NextFetch, BatchFetched, TypeOK, ResultType
    <3>2. PICK n, s : gens' = [gens EXCEPT ![g] = Yield(gens[g], n, s)]
      BY <2>1 DEF NextBuffered, NextFetch, TypeOK
    <3>3. gens[g] \in IteratorType
      BY IteratorsHaveType
    <3>4. /\ Yield(gens[g], n, s).state = gens[g].state
          /\ Yield(gens[g], n, s).cursor = gens[g].cursor
      BY <3>3 DEF Yield, IteratorType
    <3>5. /\ DOMAIN gens' = DOMAIN gens
          /\ \A h \in DOMAIN gens : gens'[h].cursor = gens[h].cursor
                                      /\ gens'[h].state = gens[h].state
      BY <3>2, <3>4 DEF TypeOK
    <3> QED
      BY <1>1, <1>3, <3>1, <3>5, StillReachable DEF c
  <2>2. CASE NextEnd(g)
    <3>1. PICK stuck \in Refusals({c}) :
            /\ pool' = CloseCursor(pool, c, stuck = {})
            /\ unclosed' = unclosed \cup stuck
      BY <1>2, <1>5, <2>2 DEF NextEnd, CloseOne
    <3>2. stuck # {}
      BY <1>2, <3>1, ClosedLeaves DEF TypeOK
    <3>3. c \in unclosed'
      BY <3>1, <3>2, RefusalsType
    <3> QED
      BY <3>3 DEF Reachable, c
  <2>3. CASE NextFails(g)
    <3>1. ClosesAtLimit(g) = {}
      BY <1>2, <1>5, <2>3, ClosedLeaves DEF NextFails, TypeOK
    <3>2. rs[c].stmt = 0
      BY <1>5, <2>3, <3>1 DEF NextFails
    <3> QED
      BY <1>1, <1>3, <3>2 DEF Reachable, c
  <2>4. CASE NextRaises(g) \/ Leave(g)
    BY <1>5, <2>4, GaveUp DEF Reachable, c
  <2> QED
    BY <2>1, <2>2, <2>3, <2>4 DEF Iterate, NextRow
<1> QED
  BY <1>4, <1>5

\* A kept cursor that callers were never given is being read by an iterator,
\* which closes it at the end and at the row limit, or the query has given up
\* on it: its iterator raised on an open result, was left by its consumer or
\* never came to be. As long as no caller runs a statement on a kept cursor,
\* these are the only queries that leave a cursor behind, whatever else fails
\* or ends, and in whatever order.
THEOREM NoCursorLeaks ==
  ASSUME ~ReuseKept
  PROVE  Spec => []NoLeak
<1>1. Init => LeakInv
  BY DEF Init, LeakInv, EmptyPool, Kept
<1>2. TypeOK /\ TypeOK' /\ LifeInv /\ LeakInv /\ [Next]_vars => LeakInv'
  <2>1. ASSUME TypeOK, TypeOK', LifeInv, LeakInv, Caller PROVE LeakInv'
    <3>1. ASSUME NEW cs \in Kept(pool') PROVE Reachable(cs.cursor)'
      <4>1. cs \in pool'.cursors /\ cs.keep
        BY <3>1 DEF Kept
      <4>2. CASE cs \in pool.cursors
        <5>1. cs \in Kept(pool)
          BY <4>1, <4>2 DEF Kept
        <5> QED
          BY <2>1, <4>1, <5>1, CallerReachable
      <4>3. CASE cs \notin pool.cursors
        BY <2>1, <4>1, <4>3, NewKeptReachable
      <4> QED
        BY <4>2, <4>3
    <3> QED
      BY <3>1 DEF LeakInv
  <2>2. ASSUME TypeOK, TypeOK', LifeInv, LeakInv, NEW g \in DOMAIN gens, Iterate(g)
        PROVE  LeakInv'
    <3>1. Fewer(pool, pool')
      <4>1. CASE NextBuffered(g) \/ NextFetch(g)
        BY <4>1, SamePoolFewer DEF NextBuffered, NextFetch
      <4>2. CASE NextEnd(g)
        BY <4>2, CloseOneFewer DEF NextEnd
      <4>3. CASE NextFails(g)
        BY <4>3, SamePoolFewer, CloseFewer DEF NextFails
      <4>4. CASE NextRaises(g) \/ Leave(g)
        BY <2>2, <4>4, SamePoolFewer, GaveUp
      <4> QED
        BY <2>2, <4>1, <4>2, <4>3, <4>4 DEF Iterate, NextRow
    <3>2. Kept(pool') \subseteq Kept(pool)
      BY <3>1 DEF Fewer, Kept
    <3> QED
      BY <2>2, <3>2, NextRowReachable DEF LeakInv
  <2>3. LeakInv /\ UNCHANGED vars => LeakInv'
    BY DEF vars, LeakInv, Reachable, Open
  <2> QED
    BY <2>1, <2>2, <2>3 DEF Next
<1>3. LeakInv => NoLeak
  BY DEF LeakInv, NoLeak, Reachable
<1> QED
  BY <1>1, <1>2, <1>3, TypeCorrect, LivesInvariant, PTL DEF Spec
=============================================================================
