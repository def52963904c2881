----------------------------- MODULE JdbcCursors -----------------------------
(***************************************************************************)
(* One lwetl.Jdbc connection (src/lwetl/jdbc.py) and its callers: which    *)
(* cursor a statement runs on, the result set that cursor then holds in    *)
(* the driver, the row iterators made by get_data() and query(), and the   *)
(* closing of cursors by commit(), rollback() and close().                 *)
(*                                                                         *)
(* A connection is used by one thread, so each call is one step; iterators *)
(* are lazy, and every other call may come between two of their rows.      *)
(***************************************************************************)
EXTENDS JdbcPool, Sequences

CONSTANTS
  MaxCursors,      \* bound: cursors created
  MaxStmts,        \* bound: statements sent to the database
  MaxGens,         \* bound: iterators created
  ResultSizes,     \* the sizes of result sets
  ArraySize,       \* get_data: array_size, rows fetched per round trip
  MaxRows,         \* get_data: the values of max_rows, 0 for all rows
  CloseMayFail,    \* whether the driver may refuse to close a cursor
  OneShotCalls,    \* which of query_single() (get_int() among its callers) and
                   \* query() of a statement that is an update callers use
  ReuseKept        \* whether callers run a statement on an existing kept cursor

ASSUME JdbcAssumption ==
  /\ MaxCursors \in Nat /\ MaxStmts \in Nat /\ MaxGens \in Nat
  /\ ResultSizes \subseteq Nat
  /\ ArraySize \in Nat \ {0}
  /\ MaxRows \subseteq Nat
  /\ CloseMayFail \in BOOLEAN
  /\ OneShotCalls \subseteq {"query_single", "query_update"}
  /\ ReuseKept \in BOOLEAN

VARIABLES
  pool,     \* the cursor attributes of the Jdbc instance, see JdbcPool
  rs,       \* external: the result set each driver cursor holds
  stmts,    \* number of statements sent to the database
  handed,   \* the storage records of the cursors execute() has returned
  gens,     \* the iterators made by get_data() and query()
  unclosed, \* the cursors whose close() was refused by the driver
  abandoned \* history, read by properties only: the cursors whose iterator
            \* has failed or has been left, or whose query returned none

vars == <<pool, rs, stmts, handed, gens, unclosed, abandoned>>

Cursors == 1 .. MaxCursors
CursorOrNone == 0 .. MaxCursors

\* A result set: the statement it belongs to, and the rows not yet fetched.
\* Statement 0 stands for no result set (closed cursor, or an update).
NoResult == [stmt |-> 0, left |-> 0]

(***************************************************************************)
(* An iterator: the cursor it reads, whether that is a kept cursor, the    *)
(* statement and the number of rows of the result it was created for; the  *)
(* rows it has buffered, and whose they are; how many rows of its own      *)
(* statement and of others it has delivered; and how it stands.            *)
(***************************************************************************)
Iterator(c, keep, result, max) ==
  [cursor |-> c, keep |-> keep, stmt |-> result.stmt, size |-> result.left,
   max |-> max, buffer |-> 0, bufferOf |-> 0, own |-> 0, foreign |-> 0,
   state |-> "open"]

Open(g) == gens[g].state = "open"

\* The outcomes of closing the cursors of the set cs.
Refusals(cs) == IF CloseMayFail THEN SUBSET cs ELSE {{}}

Init ==
  /\ pool = EmptyPool
  /\ rs = [c \in Cursors |-> NoResult]
  /\ stmts = 0
  /\ handed = {}
  /\ gens = << >>
  /\ unclosed = {}
  /\ abandoned = {}

-----------------------------------------------------------------------------
\* A driver cursor that is closed (unless it refuses) loses its result set.
ClosedResults(cs, stuck) ==
  [c \in Cursors |-> IF c \in cs \ stuck THEN NoResult ELSE rs[c]]

\* Closing of the cursor c by the instance, Jdbc.close. The cursor is only
\* closed when it is in the list.
CloseOne(c) ==
  LET cs == IF HasCursor(pool, c) THEN {c} ELSE {}
  IN \E stuck \in Refusals(cs) :
       /\ pool' = CloseCursor(pool, c, stuck = {})
       /\ rs' = ClosedResults(cs, stuck)
       /\ unclosed' = unclosed \cup stuck

(***************************************************************************)
(* The arguments callers give to execute(): no cursor, or one execute()    *)
(* has returned before. No call in the package runs a second statement on  *)
(* a kept cursor: with ReuseKept = FALSE, keep_cursor=True comes without a *)
(* cursor and with use_current_cursor=False, as in query().                *)
(***************************************************************************)
MayCall(given, useCurrent, keep) ==
  \/ ReuseKept /\ \E h \in handed : h.cursor = given
  \/ ReuseKept /\ given = NoCursor
  \/ given = NoCursor /\ (keep => ~useCurrent)
  \/ ~keep /\ Storage(given, FALSE) \in handed

(***************************************************************************)
(* Jdbc.execute: the driver cursor first drops its previous result set; a  *)
(* SELECT then leaves a new one, an update none. A failing statement has   *)
(* its cursor closed and raises.                                           *)
(***************************************************************************)
RunStatement(given, useCurrent, keep, result) ==
  /\ stmts < MaxStmts
  /\ CursorFor(pool, given, useCurrent, keep) \in Cursors
  /\ stmts' = stmts + 1
  /\ pool' = PoolFor(pool, given, useCurrent, keep)
  /\ rs' = [rs EXCEPT ![CursorFor(pool, given, useCurrent, keep)] = result]

Results == {NoResult} \cup {[stmt |-> stmts + 1, left |-> n] : n \in ResultSizes}

Execute(given, useCurrent, keep) ==
  /\ \E result \in Results : RunStatement(given, useCurrent, keep, result)
  /\ handed' = handed \cup
       {Storage(CursorFor(pool, given, useCurrent, keep), keep)}
  /\ UNCHANGED <<gens, unclosed, abandoned>>

ExecuteFails(given, useCurrent, keep) ==
  LET c == CursorFor(pool, given, useCurrent, keep)
      p == PoolFor(pool, given, useCurrent, keep)
  IN /\ stmts < MaxStmts
     /\ c \in Cursors
     /\ stmts' = stmts + 1
     /\ rs' = [rs EXCEPT ![c] = NoResult]
     /\ \E stuck \in Refusals(IF HasCursor(p, c) THEN {c} ELSE {}) :
          /\ pool' = CloseCursor(p, c, stuck = {})
          /\ unclosed' = unclosed \cup stuck
     /\ UNCHANGED <<handed, gens, abandoned>>

\* Jdbc.query: a kept cursor of its own, which the caller never sees.
Query(max) ==
  /\ Len(gens) < MaxGens
  /\ \E n \in ResultSizes :
       LET result == [stmt |-> stmts + 1, left |-> n]
       IN /\ RunStatement(NoCursor, FALSE, TRUE, result)
          /\ gens' = Append(gens, Iterator(pool.counter + 1, TRUE, result, max))
  /\ UNCHANGED <<handed, unclosed, abandoned>>

\* Jdbc.query with an update: it raises, after the statement has run.
QueryUpdate ==
  /\ "query_update" \in OneShotCalls
  /\ RunStatement(NoCursor, FALSE, TRUE, NoResult)
  /\ abandoned' = abandoned \cup {pool.counter + 1}
  /\ UNCHANGED <<handed, gens, unclosed>>

\* Jdbc.query_single: the first row of a query, whose iterator is then dropped.
\* A query without rows has its cursor closed by the iterator, which leaves
\* what ExecuteFails leaves for a kept cursor of its own.
QuerySingle ==
  /\ "query_single" \in OneShotCalls
  /\ \E n \in ResultSizes \ {0} :
       RunStatement(NoCursor, FALSE, TRUE,
                    [stmt |-> stmts + 1,
                     left |-> IF n > ArraySize THEN n - ArraySize ELSE 0])
  /\ abandoned' = abandoned \cup {pool.counter + 1}
  /\ UNCHANGED <<handed, gens, unclosed>>

\* Jdbc.get_data: the cursor must be in the list, None means the current one.
GetData(given, max) ==
  LET c == IF given = NoCursor THEN pool.current ELSE given
  IN /\ Len(gens) < MaxGens
     /\ \E cs \in pool.cursors :
          /\ cs.cursor = c
          /\ gens' = Append(gens, Iterator(c, cs.keep, rs[c], max))
     /\ UNCHANGED <<pool, rs, stmts, handed, unclosed, abandoned>>

-----------------------------------------------------------------------------
(* Jdbc.get_data, the body of the iterator up to the next yield, end or    *)
(* exception.                                                              *)

Delivered(g) == gens[g].own + gens[g].foreign

\* Mutant of LimitReached: one row too many.
LimitPassed(g) == gens[g].max > 0 /\ Delivered(g) > gens[g].max

LimitReached(g) ==
  gens[g].max > 0 /\ Delivered(g) > 0 /\ Delivered(g) >= gens[g].max

\* Mutant of Yield: two rows are taken from the buffer.
YieldSecond(it, n, s) ==
  [it EXCEPT !.buffer = n - 2, !.bufferOf = s,
             !.own = IF s = it.stmt THEN @ + 1 ELSE @,
             !.foreign = IF s = it.stmt THEN @ ELSE @ + 1]

\* Yield one of n buffered rows of the statement s.
Yield(it, n, s) ==
  [it EXCEPT !.buffer = n - 1, !.bufferOf = s,
             !.own = IF s = it.stmt THEN @ + 1 ELSE @,
             !.foreign = IF s = it.stmt THEN @ ELSE @ + 1]

NextBuffered(g) ==
  /\ Open(g) /\ ~LimitReached(g)
  /\ gens[g].buffer > 0
  /\ gens' = [gens EXCEPT ![g] = Yield(@, @.buffer, @.bufferOf)]
  /\ UNCHANGED <<pool, rs, stmts, handed, unclosed, abandoned>>

(***************************************************************************)
(* The iterator goes back to the database when its buffer is empty. At the *)
(* limit it closes its cursor but leaves only the loop over the buffer,    *)
(* and so goes on to fetch from the cursor it has just closed.             *)
(***************************************************************************)
ClosesAtLimit(g) ==
  IF LimitReached(g) /\ HasCursor(pool, gens[g].cursor)
  THEN {gens[g].cursor} ELSE {}

Fetches(g) ==
  /\ Open(g)
  /\ gens[g].buffer = 0 \/ LimitReached(g)

\* The close at the limit, if there is one, is refused.
StillOpen(g) == ClosesAtLimit(g) \in Refusals(ClosesAtLimit(g))

\* The number of rows fetchmany takes from the result r, and the result sets
\* after it has fetched from the cursor c.
Batch(r) == IF r.left < ArraySize THEN r.left ELSE ArraySize

BatchFetched(c) == [rs EXCEPT ![c].left = @ - Batch(rs[c])]

\* fetchmany returns rows: the first of them is yielded.
NextFetch(g) ==
  LET r == rs[gens[g].cursor]
  IN /\ Fetches(g) /\ StillOpen(g)
     /\ r.left > 0
     /\ gens' = [gens EXCEPT ![g] = Yield(@, Batch(r), r.stmt)]
     /\ rs' = BatchFetched(gens[g].cursor)
     /\ unclosed' = unclosed \cup ClosesAtLimit(g)
     /\ UNCHANGED <<pool, stmts, handed, abandoned>>

\* Mutants of NextEnd: a last row is taken for the end; the cursor stays open.
NextEndEarly(g) ==
  LET c == gens[g].cursor
  IN /\ Fetches(g) /\ StillOpen(g)
     /\ rs[c].stmt # 0 /\ rs[c].left <= 1
     /\ gens' = [gens EXCEPT ![g].state = "ended", ![g].buffer = 0]
     /\ CloseOne(c)
     /\ UNCHANGED <<stmts, handed, abandoned>>

NextEndOpen(g) ==
  LET c == gens[g].cursor
  IN /\ Fetches(g) /\ StillOpen(g)
     /\ rs[c].stmt # 0 /\ rs[c].left = 0
     /\ gens' = [gens EXCEPT ![g].state = "ended", ![g].buffer = 0]
     /\ UNCHANGED <<pool, rs, stmts, handed, unclosed, abandoned>>

\* fetchmany returns no row: the cursor is closed and the iterator ends.
NextEnd(g) ==
  LET c == gens[g].cursor
  IN /\ Fetches(g) /\ StillOpen(g)
     /\ rs[c].stmt # 0 /\ rs[c].left = 0
     /\ gens' = [gens EXCEPT ![g].state = "ended", ![g].buffer = 0]
     /\ CloseOne(c)
     /\ UNCHANGED <<stmts, handed, abandoned>>

\* fetchmany fails on a cursor without result set: SQLExecuteException.
NextFails(g) ==
  LET c == gens[g].cursor
  IN /\ Fetches(g)
     /\ ClosesAtLimit(g) # {} \/ rs[c].stmt = 0
     /\ gens' = [gens EXCEPT ![g].state = "failed", ![g].buffer = 0]
     /\ rs' = ClosedResults(ClosesAtLimit(g), {})
     /\ pool' = IF ClosesAtLimit(g) = {} THEN pool ELSE CloseCursor(pool, c, TRUE)
     /\ UNCHANGED <<stmts, handed, unclosed, abandoned>>

\* An iterator is not asked for a row again, and has not closed its cursor.
GiveUp(g, how) ==
  /\ gens' = [gens EXCEPT ![g].state = how, ![g].buffer = 0]
  /\ abandoned' = abandoned \cup {gens[g].cursor}
  /\ UNCHANGED <<pool, stmts, handed>>

(***************************************************************************)
(* The iterator raises on an open result: the database fails to fetch, or  *)
(* the transformer to convert a row just fetched or a buffered one.        *)
(***************************************************************************)
NextRaises(g) ==
  LET c == gens[g].cursor
  IN /\ Open(g)
     /\ \/ /\ gens[g].buffer > 0 /\ ~LimitReached(g)
           /\ UNCHANGED <<rs, unclosed>>
        \/ /\ Fetches(g) /\ StillOpen(g)
           /\ rs[c].stmt # 0
           /\ rs' \in {rs, BatchFetched(c)}
           /\ unclosed' = unclosed \cup ClosesAtLimit(g)
     /\ GiveUp(g, "failed")

NextRow(g) ==
  \/ NextBuffered(g) \/ NextFetch(g) \/ NextEnd(g)
  \/ NextFails(g) \/ NextRaises(g)

\* The consumer breaks out of its loop and drops the iterator at a yield.
Leave(g) ==
  /\ Open(g)
  /\ GiveUp(g, "left")
  /\ UNCHANGED <<rs, unclosed>>

Iterate(g) == NextRow(g) \/ Leave(g)

-----------------------------------------------------------------------------
\* Jdbc.close(cursor), None for the current one.
Close(given) ==
  /\ HasCursor(pool, IF given = NoCursor THEN pool.current ELSE given)
  /\ CloseOne(IF given = NoCursor THEN pool.current ELSE given)
  /\ UNCHANGED <<stmts, handed, gens, abandoned>>

(***************************************************************************)
(* Jdbc.commit and Jdbc.rollback: what both do with the cursors. A commit  *)
(* the database refuses closes the cursors as well before it raises, a     *)
(* refused rollback raises before it touches any.                          *)
(***************************************************************************)
EndTransaction ==
  \E stuck \in Refusals(PlainCursors(pool)) :
    /\ pool' = CloseAllCursors(pool, stuck)
    /\ rs' = ClosedResults(PlainCursors(pool), stuck)
    /\ unclosed' = unclosed \cup stuck
    /\ UNCHANGED <<stmts, handed, gens, abandoned>>

Caller ==
  \/ \E given \in CursorOrNone, useCurrent \in BOOLEAN, keep \in BOOLEAN :
       /\ MayCall(given, useCurrent, keep)
       /\ \/ Execute(given, useCurrent, keep)
          \/ ExecuteFails(given, useCurrent, keep)
  \/ \E max \in MaxRows :
       \/ Query(max)
       \/ \E given \in CursorOrNone :
            /\ given = NoCursor \/ \E h \in handed : h.cursor = given
            /\ GetData(given, max)
  \/ QueryUpdate
  \/ QuerySingle
  \/ \E given \in CursorOrNone :
       /\ given = NoCursor \/ \E h \in handed : h.cursor = given
       /\ Close(given)
  \/ EndTransaction

Next == Caller \/ \E g \in DOMAIN gens : Iterate(g)

Spec == Init /\ [][Next]_vars

\* A consumer asks for the next row or leaves its loop: no loop over an
\* iterator in the package waits for anything else.
Consumed == \A g \in 1 .. MaxGens : WF_vars(g \in DOMAIN gens /\ Iterate(g))

FairSpec == Spec /\ Consumed

-----------------------------------------------------------------------------
ResultType == [stmt : 0 .. MaxStmts, left : Nat]

IteratorType ==
  [cursor : Cursors, keep : BOOLEAN, stmt : 0 .. MaxStmts, size : Nat,
   max : Nat, buffer : Nat, bufferOf : 0 .. MaxStmts, own : Nat,
   foreign : Nat, state : {"open", "ended", "failed", "left"}]

PoolType ==
  [cursors : SUBSET [cursor : Cursors, keep : BOOLEAN],
   current : CursorOrNone, keepCurrent : BOOLEAN, counter : CursorOrNone]

\* The shape of every variable.
TypeOK ==
  /\ pool \in PoolType
  /\ rs \in [Cursors -> ResultType]
  /\ stmts \in 0 .. MaxStmts
  /\ handed \subseteq [cursor : Cursors, keep : BOOLEAN]
  /\ gens \in Seq(IteratorType)
  /\ unclosed \subseteq Cursors
  /\ abandoned \subseteq Cursors

\* The attributes of the instance fit together: a cursor is stored once, and
\* the flag of the current cursor is the one it is stored with (execute,
\* close, close_all_cursors), unless the driver has refused to close it.
Consistent(p, refused) ==
  /\ \A cs \in p.cursors : cs.cursor \in 1 .. p.counter
  /\ \A cs, ct \in p.cursors : cs.cursor = ct.cursor => cs = ct
  /\ \/ p.current = NoCursor
     \/ p.current \in refused
     \/ Storage(p.current, p.keepCurrent) \in p.cursors

PoolInv == Consistent(pool, unclosed)

\* A statement sent without a cursor runs on a new cursor or on one of the
\* life-cycle it asks for (execute's use_current_cursor and keep_cursor),
\* unless the driver has refused to close that cursor before.
SameLifeCycle ==
  \A useCurrent \in BOOLEAN, keep \in BOOLEAN :
    LET c == CursorFor(pool, NoCursor, useCurrent, keep)
    IN \/ c > pool.counter
       \/ Storage(c, keep) \in pool.cursors
       \/ c \in unclosed

\* No other iterator reads the cursor of g.
Alone(g) == \A h \in DOMAIN gens : h # g => gens[h].cursor # gens[g].cursor

\* An iterator on a kept cursor delivers rows of its own statement only, and
\* when it ends without an exception it has delivered all of them, whatever
\* statements, commits and rollbacks came between two rows (get_data, query).
KeptComplete ==
  \A g \in DOMAIN gens :
    gens[g].keep /\ gens[g].max = 0 /\ Alone(g) =>
      /\ gens[g].foreign = 0
      /\ gens[g].state = "ended" => gens[g].own = gens[g].size

\* Every result set that is open in the driver belongs to a cursor the
\* instance still knows, and so can still close (execute, close, commit).
OpenResultsKnown ==
  \A c \in Cursors :
    rs[c].stmt # 0 => HasCursor(pool, c) \/ c \in unclosed

\* get_data never delivers more than max_rows rows.
MaxRowsBound ==
  \A g \in DOMAIN gens :
    \/ gens[g].max = 0
    \/ Delivered(g) <= gens[g].max
    \/ gens[g].cursor \in unclosed

\* A kept cursor that no caller has been given is being read by an iterator,
\* unless a query gave up on it: its iterator failed in the middle of the
\* result or was left by its consumer (query_single always leaves it), or
\* query() raised because the statement was an update. get_data closes the
\* cursor in every other case (a full read, the row limit, a failed statement).
NoLeak ==
  \A cs \in Kept(pool) :
    \/ \E h \in handed : h.cursor = cs.cursor
    \/ \E g \in DOMAIN gens : Open(g) /\ gens[g].cursor = cs.cursor
    \/ cs.cursor \in abandoned
    \/ cs.cursor \in unclosed

\* What a kept cursor still has to deliver changes only when an iterator on it
\* advances, or when that cursor alone is closed: no statement, commit,
\* rollback or other iterator disturbs it (keep_cursor=True).
KeptUndisturbed ==
  [][\A cs \in Kept(pool) :
       rs'[cs.cursor] # rs[cs.cursor] =>
         \/ \E g \in DOMAIN gens :
              gens[g].cursor = cs.cursor /\ gens'[g] # gens[g]
         \/ pool'.cursors = pool.cursors \ {cs}]_vars

\* Every query ends: its cursor is released, or its iterator has failed or
\* been left in the middle of the rows. No iterator goes on for ever, whatever
\* other calls and iterators do with its cursor and with the pool.
QueryReleases ==
  \A g \in 1 .. MaxGens :
    (g \in DOMAIN gens /\ gens[g].keep /\ gens[g].stmt # 0)
      ~> /\ g \in DOMAIN gens
         /\ \/ ~HasCursor(pool, gens[g].cursor)
            \/ gens[g].state \in {"failed", "left"}
=============================================================================
