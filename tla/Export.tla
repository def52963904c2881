------------------------------- MODULE Export -------------------------------
(***************************************************************************)
(* Query results on their way to a file: a Jdbc connection, a formatter    *)
(* (src/lwetl/formatter.py) and a client that uses both the way            *)
(* docs/components/export.rst shows: a query, open() or next_sheet() with  *)
(* its cursor, header(), a write() per row, footer(), and close(), or all  *)
(* of it by calling the formatter. A client keeps its formatter for the    *)
(* next query when it likes. Module SqlQuery adds the program that does    *)
(* the same for the results of an SQL input.                               *)
(***************************************************************************)
EXTENDS JdbcPool, Formatter

CONSTANTS
  MaxStmts,     \* bound: statements of an input, and with it the cursors
  MaxAsked,     \* bound: statements a client sends
  Shapes,       \* the sequences of column labels of result sets
  Sizes,        \* the numbers of rows of result sets
  Classes,      \* the classes of formatters in use
  ReuseBooks    \* whether an xml or xlsx formatter that has been given a
                \* cursor is opened again with another one

ASSUME ExportAssumption ==
  /\ MaxStmts \in Nat /\ MaxAsked \in 0 .. MaxStmts /\ Sizes \subseteq Nat
  /\ \A l \in Shapes : Len(l) > 0
  /\ Classes \subseteq {"text", "csv", "sql"} \cup Books
  /\ ReuseBooks \in BOOLEAN

VARIABLES
  phase,   \* where the client or the program is
  pool,    \* the cursor attributes of the Jdbc instance, see JdbcPool
  rs,      \* external: the result set each driver cursor holds
  shown,   \* external: the result of each statement as the database gave it
  fmt,     \* the formatter
  cursor,  \* the cursor being written
  given    \* history: the rows written to the file since it was created

exportVars == <<phase, pool, rs, shown, fmt, cursor, given>>

Cursors == 1 .. MaxStmts

\* The result of a statement: its column labels and its number of rows. An
\* update, and a cursor that has been closed, has none.
Update == [labels |-> << >>, rows |-> 0]
Selects == {[labels |-> l, rows |-> n] : l \in Shapes, n \in Sizes}

NoResult == [stmt |-> 0, labels |-> << >>, next |-> 1, rows |-> 0]

\* get_columns_of_cursor: a dictionary, so that equal labels are one column.
ColumnSet(labels) == {labels[i] : i \in DOMAIN labels}
ColumnsOf == [c \in Cursors |-> ColumnSet(rs[c].labels)]

\* Jdbc.execute of the statement number Len(shown) + 1: the cursor it runs on
\* loses its result for the new one.
RunOn(p, c, result) ==
  /\ pool' = p
  /\ rs' = [rs EXCEPT ![c] =
              [stmt |-> Len(shown) + 1, labels |-> result.labels, next |-> 1,
               rows |-> result.rows]]
  /\ shown' = Append(shown, result)

\* Closed driver cursors have no result.
Without(cs) == [c \in Cursors |-> IF c \in cs THEN NoResult ELSE rs[c]]

\* Jdbc.close of the cursor c.
CloseIt(c) ==
  /\ pool' = CloseCursor(pool, c, TRUE)
  /\ rs' = Without(IF HasCursor(pool, c) THEN {c} ELSE {})

ExportInit ==
  /\ phase = "idle" /\ cursor = NoCursor
  /\ pool = EmptyPool
  /\ rs = [c \in Cursors |-> NoResult]
  /\ shown = << >> /\ given = << >>
  /\ \E class \in Classes, named \in BOOLEAN : fmt = NewFormatter(class, named)

-----------------------------------------------------------------------------
(* The steps around one result.                                            *)

\* open(cursor, append): what the file holds survives when it is appended to.
OpenWith(c, append) ==
  /\ CanOpen(fmt, c)
  /\ fmt' = Open(fmt, c, ColumnsOf, append)
  /\ given' = IF fmt.class = "xlsx" \/ (fmt.named /\ ~append)
              THEN << >> ELSE given

\* One row of the cursor: fetched, formatted and written.
HasRow == rs[cursor].next <= rs[cursor].rows

WriteRow ==
  LET r == rs[cursor]
      row == RowOf(r.stmt, r.next)
  IN /\ HasRow /\ Fits(fmt, r.labels)
     /\ fmt' = Write(fmt, row)
     /\ given' = Append(given, row)
     /\ rs' = [rs EXCEPT ![cursor].next = @ + 1]

-----------------------------------------------------------------------------
(* The client.                                                             *)

\* jdbc.execute of a SELECT: on the current cursor, or, as the tests do, on a
\* new one that is kept.
Ask ==
  /\ phase \in {"idle", "written"}
  /\ phase = "written" => fmt.class \in Books
  /\ Len(shown) < MaxAsked
  /\ \E result \in Selects, keep \in BOOLEAN :
       LET c == CursorFor(pool, NoCursor, ~keep, keep)
       IN /\ RunOn(PoolFor(pool, NoCursor, ~keep, keep), c, result)
          /\ cursor' = c
  /\ phase' = IF phase = "idle" THEN "asked" ELSE "sheet"
  /\ UNCHANGED <<fmt, given>>

\* The formatter is called with a SELECT: the cursor becomes its own.
CallFormatter ==
  /\ phase = "idle" /\ Len(shown) < MaxAsked
  /\ \E result \in Selects :
       LET c == CursorFor(pool, NoCursor, TRUE, FALSE)
       IN /\ RunOn(PoolFor(pool, NoCursor, TRUE, FALSE), c, result)
          /\ cursor' = c
          /\ fmt' = [fmt EXCEPT !.cursor = c]
  /\ phase' = "called"
  /\ UNCHANGED given

\* An xml or xlsx formatter that already has a cursor is given another one.
StaleBook ==
  fmt.class \in Books /\ fmt.cursor # NoneGiven /\ fmt.cursor # cursor

OpenFile ==
  /\ phase \in {"asked", "called"}
  /\ StaleBook => ReuseBooks
  /\ \E append \in BOOLEAN : OpenWith(cursor, append)
  /\ phase' = "open"
  /\ UNCHANGED <<pool, rs, shown, cursor>>

\* open() raises.
OpenRefused ==
  /\ phase \in {"asked", "called"}
  /\ ~CanOpen(fmt, cursor)
  /\ phase' = "idle"
  /\ UNCHANGED <<pool, rs, shown, fmt, cursor, given>>

NewSheet ==
  /\ phase = "sheet"
  /\ fmt' = NextSheet(fmt, cursor, ColumnsOf)
  /\ phase' = "open"
  /\ UNCHANGED <<pool, rs, shown, cursor, given>>

WriteHeader ==
  /\ phase = "open"
  /\ fmt' = Header(fmt)
  /\ phase' = "rows"
  /\ UNCHANGED <<pool, rs, shown, cursor, given>>

ClientRow == phase = "rows" /\ WriteRow /\ UNCHANGED <<phase, pool, shown, cursor>>

\* The iterator ends, and closes its cursor.
ClientRowsEnd ==
  /\ phase = "rows" /\ ~HasRow
  /\ CloseIt(cursor)
  /\ phase' = "written"
  /\ UNCHANGED <<shown, fmt, cursor, given>>

\* write() raises: the with statement closes the formatter and the client may
\* use it again; without one the client ends.
RowRefused ==
  /\ phase = "rows" /\ HasRow /\ ~Fits(fmt, rs[cursor].labels)
  /\ \/ fmt' = Close(fmt) /\ phase' = "idle"
     \/ fmt' = fmt /\ phase' = "failed"
  /\ UNCHANGED <<pool, rs, shown, cursor, given>>

CloseFile ==
  /\ phase = "written"
  /\ fmt' = Close(fmt)
  /\ phase' = "idle"
  /\ UNCHANGED <<pool, rs, shown, cursor, given>>

\* What else happens on the connection leaves a result alone that is on a kept
\* cursor; clients are told to use one (docs/components/connection.rst).
MayIntrude ==
  \/ phase \in {"idle", "written"}
  \/ Storage(cursor, TRUE) \in pool.cursors

OtherStatement ==
  /\ MayIntrude /\ Len(shown) < MaxAsked
  /\ \E result \in Selects \cup {Update} :
       RunOn(PoolFor(pool, NoCursor, TRUE, FALSE),
             CursorFor(pool, NoCursor, TRUE, FALSE), result)
  /\ UNCHANGED <<phase, fmt, cursor, given>>

\* A commit or a rollback.
EndTransaction ==
  /\ MayIntrude
  /\ pool' = CloseAllCursors(pool, {})
  /\ rs' = Without(PlainCursors(pool))
  /\ UNCHANGED <<phase, shown, fmt, cursor, given>>

Client ==
  \/ Ask \/ CallFormatter \/ OpenFile \/ OpenRefused \/ NewSheet
  \/ WriteHeader \/ ClientRow \/ ClientRowsEnd \/ RowRefused \/ CloseFile
  \/ OtherStatement \/ EndTransaction

-----------------------------------------------------------------------------
(* What reaches the file.                                                  *)

IsRow(item) == item.kind = "row"

\* The rows of the statements stmts among items, in order.
RowsOf(items, stmts) ==
  LET upTo[i \in 0 .. Len(items)] ==
        IF i = 0 THEN << >>
        ELSE IF IsRow(items[i]) /\ items[i].stmt \in stmts
             THEN Append(upTo[i - 1], items[i])
             ELSE upTo[i - 1]
  IN upTo[Len(items)]

\* Every row, in the file or held back for it, stands below the header of its
\* own query (sql writes no header): a cursor that was used again, closed, or
\* remembered by the formatter from an earlier file must not lend its columns.
RowsUnderOwnHeader ==
  \A items \in {fmt.out, fmt.book} : \A i \in DOMAIN items :
    IsRow(items[i]) /\ fmt.class # "sql" =>
      \E h \in 1 .. i - 1 :
        /\ items[h] = HeaderOf(ColumnSet(shown[items[i].stmt].labels))
        /\ \A k \in h + 1 .. i - 1 : IsRow(items[k])

\* Between two uses of the formatter, also after one that failed, the file
\* holds every row that was written to it since it was created, in order, and
\* what it held before when it was appended to (but close() of xlsx replaces
\* the file, so that its rows are those since open()).
WrittenIsSaved == phase = "idle" => RowsOf(fmt.out, Nat) = given

=============================================================================
