------------------------------ MODULE JdbcPool ------------------------------
(***************************************************************************)
(* The cursor bookkeeping of lwetl.Jdbc (src/lwetl/jdbc.py), as operators  *)
(* on a record p with the attributes of the class:                         *)
(*   p.cursors      the CursorStorage(cursor, keep) records of the list    *)
(*                  Jdbc.cursors.  Cursors are numbered in the order of    *)
(*                  their creation, which is the order of the list, so the *)
(*                  last element of the list is the highest number;        *)
(*   p.current      Jdbc.current_cursor;                                   *)
(*   p.keepCurrent  Jdbc.keep_current_cursor;                              *)
(*   p.counter      Jdbc.counter, the number of cursors created.           *)
(***************************************************************************)
EXTENDS Naturals, FiniteSets

NoCursor == 0

Storage(c, k) == [cursor |-> c, keep |-> k]

EmptyPool ==
  [cursors |-> {}, current |-> NoCursor, keepCurrent |-> FALSE, counter |-> 0]

HasCursor(p, c) == \E cs \in p.cursors : cs.cursor = c

\* Both places that move current_cursor to an existing cursor or to None
\* leave keep_current_cursor at False.
SetCurrent(p, c) ==
  [cursors |-> p.cursors, current |-> c, keepCurrent |-> FALSE,
   counter |-> p.counter]

\* The current cursor is dropped when it is one of the closed cursors.
DropCurrent(p, closed) ==
  IF p.current \in closed
  THEN SetCurrent(p, NoCursor)
  ELSE p

\* Mutant of RemoveCursor: kept cursors stay in the list when they are closed.
RemovePlainOnly(p, c) ==
  [p EXCEPT !.cursors = {cs \in p.cursors : cs.cursor # c \/ cs.keep}]

\* Jdbc.remove_cursor
RemoveCursor(p, c) ==
  [p EXCEPT !.cursors = {cs \in p.cursors : cs.cursor # c}]

\* Jdbc.close(c): a cursor that is not in the list is ignored; when the
\* cursor itself refuses to close (~ok) nothing is forgotten.
CloseCursor(p, c, ok) ==
  IF HasCursor(p, c) /\ ok
  THEN RemoveCursor(DropCurrent(p, {c}), c)
  ELSE p

Kept(p) == {cs \in p.cursors : cs.keep}

\* Mutant of PlainCursors: the test on keep is missing.
AnyCursors(p) == {cs.cursor : cs \in p.cursors}

PlainCursors(p) == {cs.cursor : cs \in {x \in p.cursors : ~x.keep}}

\* Mutant of CloseAllCursors: current_cursor is not reset.
CloseAllButCurrent(p, stuck) == [p EXCEPT !.cursors = Kept(p)]

\* Jdbc.close_all_cursors: every plain cursor is closed, the list is replaced
\* by the kept ones. A plain cursor in stuck refuses to close: it leaves the
\* list all the same, but close() has not reset current_cursor for it.
CloseAllCursors(p, stuck) ==
  [DropCurrent(p, PlainCursors(p) \ stuck) EXCEPT !.cursors = Kept(p)]

\* The last stored cursor of a life-cycle: a singleton, or empty without any.
LastStored(p, keep) ==
  {c \in {cs.cursor : cs \in {x \in p.cursors : x.keep = keep}} :
     \A cs \in p.cursors : cs.keep = keep => cs.cursor <= c}

\* Jdbc.execute, first step: without a current cursor the last cursor of the
\* requested life-cycle becomes current, flagged as a plain one.
Recall(p, keep) ==
  IF p.current = NoCursor /\ LastStored(p, keep) # {}
  THEN SetCurrent(p, CHOOSE c \in LastStored(p, keep) : TRUE)
  ELSE p

\* Mutant of Candidate: the life-cycle of the current cursor is not compared.
CandidateOfAnyLife(p, given, useCurrent, keep) ==
  IF given # NoCursor
  THEN IF HasCursor(p, given) THEN given ELSE NoCursor
  ELSE IF useCurrent THEN p.current ELSE NoCursor

\* Jdbc.execute, second step: the cursor that will run the statement, or
\* NoCursor when a new one is needed.
Candidate(p, given, useCurrent, keep) ==
  IF given # NoCursor
  THEN IF HasCursor(p, given) THEN given ELSE NoCursor
  ELSE IF useCurrent /\ keep = p.keepCurrent THEN p.current ELSE NoCursor

\* Mutant of AddCursor: a new cursor becomes current but is not stored.
AddUnstored(p, keep) ==
  [cursors |-> p.cursors, current |-> p.counter + 1, keepCurrent |-> keep,
   counter |-> p.counter + 1]

\* Jdbc.execute, third step: a new cursor is stored and becomes current.
AddCursor(p, keep) ==
  [cursors     |-> p.cursors \cup {Storage(p.counter + 1, keep)},
   current     |-> p.counter + 1,
   keepCurrent |-> keep,
   counter     |-> p.counter + 1]

\* The pool after the three steps, and the cursor they settle on.
PoolFor(p, given, useCurrent, keep) ==
  LET q == Recall(p, keep)
  IN IF Candidate(q, given, useCurrent, keep) = NoCursor
     THEN AddCursor(q, keep)
     ELSE q

CursorFor(p, given, useCurrent, keep) ==
  LET c == Candidate(Recall(p, keep), given, useCurrent, keep)
  IN IF c = NoCursor THEN p.counter + 1 ELSE c

=============================================================================
