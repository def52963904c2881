------------------------------ MODULE SqlQuery ------------------------------
(***************************************************************************)
(* The program sql-query (src/lwetl/programs/sql_query/main.py): it reads  *)
(* the statements of its input, executes them one after the other on one   *)
(* Jdbc connection, collects the cursors of the queries among them,        *)
(* commits (or rolls back) by the number of updated rows, and at the end   *)
(* writes the results of the collected cursors with one formatter. The     *)
(* connection, the formatter and the steps around one result are those of  *)
(* module Export, whose client is the other user of the formatters.        *)
(***************************************************************************)
EXTENDS Export, InputParser

CONSTANTS
  Inputs,        \* the inputs, as sequences of lines (see InputParser)
  Meaning,       \* external: what the database does with a statement
  CommitNr,      \* args.commit_nr
  MaxQueries,    \* the 20 of the limit on queries with a result
  Limits,        \* the values of args.max_rows
  MaxFaults,     \* bound: failures of the database, statements aside
  Programs       \* which users of the formatters there are

ASSUME SqlQueryAssumption ==
  /\ CommitNr \in Nat /\ MaxQueries \in Nat \ {0} /\ MaxFaults \in Nat
  /\ Limits \subseteq Nat
  /\ Programs \subseteq {"sql-query", "client"}

VARIABLES
  args,      \* the command line: program, activate, max_rows
  sqls,      \* the statements of the input not yet executed
  collected, \* cursors: the cursors with a result, in order
  last,      \* cursor: the one the next statement is given
  rowCount,  \* row_count
  saved,     \* external: the updates made durable
  pending,   \* external: the updates in the open transaction
  rows,      \* external: the number of rows each statement has updated
  sheet,     \* sql_count: the place in collected of the result being written
  written,   \* rc: its rows so far
  faults     \* number of failures of the database

queryVars == <<args, sqls, collected, last, rowCount, saved, pending, rows,
               sheet, written, faults>>
database == <<saved, pending, rows>>
vars == <<exportVars, queryVars>>

\* A statement is a query, changes a number of rows, or fails.
Fails == [kind |-> "fails"]
Meanings ==
  [kind : {"select"}, result : [labels : Seq(STRING), rows : Nat]]
    \cup [kind : {"update"}, rows : Nat] \cup {Fails}

\* A statement is the sequence of its lines, see InputParser.
ASSUME InputsAssumption ==
  /\ Inputs \subseteq Seq([text : STRING, ends : BOOLEAN])
  /\ \A sql \in DOMAIN Meaning : Meaning[sql] \in Meanings

\* Lines that are no statement together fail.
MeaningOf(sql) == IF sql \in DOMAIN Meaning THEN Meaning[sql] ELSE Fails

(***************************************************************************)
(* The input is a string or the standard input. When it may be the name of *)
(* a table, main() has tried it with a query() whose hidden kept cursor is *)
(* left current.                                                           *)
(***************************************************************************)
Probed ==
  LET empty == [stmt |-> 1, labels |-> <<"probe">>, next |-> 1, rows |-> 0]
  IN /\ pool = AddCursor(EmptyPool, TRUE)
     /\ rs = [c \in Cursors |-> IF c = 1 THEN empty ELSE NoResult]
     /\ shown = <<[labels |-> <<"probe">>, rows |-> 0]>>

NotProbed ==
  /\ pool = EmptyPool
  /\ rs = [c \in Cursors |-> NoResult]
  /\ shown = << >>

Init ==
  /\ args \in [program : Programs, activate : BOOLEAN, maxRows : Limits]
  /\ IF args.program = "client"
     THEN ExportInit /\ sqls = << >> /\ rows = << >>
     ELSE /\ phase = "parse" /\ cursor = NoCursor /\ given = << >>
          /\ \E input \in Inputs : sqls = Parse(input)
          /\ \/ NotProbed /\ rows = << >>
             \/ /\ Len(sqls) = 1 /\ MeaningOf(sqls[1]).kind = "select"
                /\ Probed /\ rows = <<0>>
          /\ \E class \in Classes, named \in BOOLEAN :
               fmt = NewFormatter(class, named)
  /\ collected = << >> /\ last = NoCursor /\ rowCount = 0
  /\ saved = {} /\ pending = {}
  /\ sheet = 0 /\ written = 0 /\ faults = 0

-----------------------------------------------------------------------------
(* parse_sql_commands                                                      *)

\* The limit is tested before a statement, and lets one more query through.
TooMany == Len(collected) > MaxQueries

\* The cursor a statement runs on: the one of the update before, otherwise
\* the current cursor of the connection, whoever uses it.
Target == CursorFor(pool, last, TRUE, FALSE)
PoolOfTarget == PoolFor(pool, last, TRUE, FALSE)

Reading(kind) ==
  /\ phase = "parse" /\ sqls # << >> /\ ~TooMany
  /\ Target \in Cursors
  /\ MeaningOf(Head(sqls)).kind = kind

\* A query: its cursor is collected, and no longer given to the next one.
ReadSelect ==
  /\ Reading("select")
  /\ RunOn(PoolOfTarget, Target, MeaningOf(Head(sqls)).result)
  /\ collected' = Append(collected, Target)
  /\ last' = NoCursor
  /\ rows' = Append(rows, 0)
  /\ sqls' = Tail(sqls)
  /\ UNCHANGED <<phase, fmt, cursor, given, args, rowCount, saved, pending,
                 sheet, written, faults>>

CommitDue(n) == n >= CommitNr

\* commit(): Jdbc.commit in the mode commit, Jdbc.rollback in all others.
Settle ==
  /\ saved' = IF args.activate THEN saved \cup pending ELSE saved
  /\ pending' = {}

\* An update: the next statement gets its cursor; a full batch is committed.
ReadUpdate ==
  LET n == MeaningOf(Head(sqls)).rows
  IN /\ Reading("update")
     /\ RunOn(PoolOfTarget, Target, Update)
     /\ last' = Target
     /\ rowCount' = rowCount + n
     /\ rows' = Append(rows, n)
     /\ sqls' = Tail(sqls)
     /\ pending' = pending \cup {Len(rows) + 1}
     /\ phase' = IF CommitDue(rowCount + n) THEN "commit" ELSE "parse"
     /\ UNCHANGED <<fmt, cursor, given, args, collected, saved, sheet, written,
                    faults>>

CloseCursors ==
  /\ pool' = CloseAllCursors(pool, {})
  /\ rs' = Without(PlainCursors(pool))

CommitBatch ==
  /\ phase = "commit" /\ phase' = "parse"
  /\ Settle /\ CloseCursors
  /\ last' = NoCursor /\ rowCount' = 0
  /\ UNCHANGED <<shown, fmt, cursor, given, args, sqls, collected, rows, sheet,
                 written, faults>>

AfterSettle == IF collected = << >> THEN "done" ELSE "output"

\* Mutants of ReadFails: nothing is committed after it; the statement is counted.
ReadFailsUnsettled ==
  /\ Reading("fails")
  /\ pool' = CloseCursor(PoolOfTarget, Target, TRUE)
  /\ rs' = Without({Target})
  /\ phase' = AfterSettle
  /\ UNCHANGED <<shown, fmt, cursor, given, args, sqls, collected, last,
                 rowCount, saved, pending, rows, sheet, written, faults>>

ReadFailsCounts ==
  /\ Reading("fails")
  /\ pool' = CloseCursor(PoolOfTarget, Target, TRUE)
  /\ rs' = Without({Target})
  /\ phase' = "settle"
  /\ pending' = pending \cup {Len(rows) + 1}
  /\ UNCHANGED <<shown, fmt, cursor, given, args, sqls, collected, last,
                 rowCount, saved, rows, sheet, written, faults>>

\* A statement fails: execute() has closed the cursor, and the loop ends.
ReadFails ==
  /\ Reading("fails")
  /\ pool' = CloseCursor(PoolOfTarget, Target, TRUE)
  /\ rs' = Without({Target})
  /\ phase' = "settle"
  /\ UNCHANGED <<shown, fmt, cursor, given, args, sqls, collected, last,
                 rowCount, saved, pending, rows, sheet, written, faults>>

ReadEnd ==
  /\ phase = "parse"
  /\ sqls = << >> \/ TooMany
  /\ phase' = "settle"
  /\ UNCHANGED <<pool, rs, shown, fmt, cursor, given, queryVars>>

\* The rest is committed or rolled back, also after a failure, but not when
\* the statements since the last commit have updated no row.
LastCommit ==
  /\ phase = "settle" /\ phase' = AfterSettle
  /\ IF rowCount > 0
     THEN Settle /\ CloseCursors
     ELSE UNCHANGED <<saved, pending, pool, rs>>
  /\ rowCount' = 0
  /\ UNCHANGED <<shown, fmt, cursor, given, args, sqls, collected, last, rows,
                 sheet, written, faults>>

\* The database refuses, which ends the program: a commit closes the cursors
\* before it raises CommitException, a rollback raises where it stands.
CommitRefused ==
  /\ phase = "commit" \/ (phase = "settle" /\ rowCount > 0)
  /\ faults < MaxFaults /\ faults' = faults + 1
  /\ IF args.activate THEN CloseCursors ELSE UNCHANGED <<pool, rs>>
  /\ phase' = "crashed"
  /\ UNCHANGED <<shown, fmt, cursor, given, args, sqls, collected, last,
                 rowCount, saved, pending, rows, sheet, written>>

-----------------------------------------------------------------------------
(* parse_output                                                            *)

\* The formatter is opened for the first result; the others get a sheet of
\* their own, or are appended to the same file.
OutputFrame ==
  UNCHANGED <<pool, rs, shown, args, sqls, collected, last, rowCount, saved,
              pending, rows, faults>>

NextCursor == collected[sheet + 1]

StartOutput(f) ==
  /\ fmt' = Header(f)
  /\ cursor' = NextCursor
  /\ sheet' = sheet + 1 /\ written' = 0
  /\ phase' = "print"
  /\ OutputFrame

FirstResult ==
  /\ phase = "output" /\ sheet = 0
  /\ CanOpen(fmt, NextCursor)
  /\ StartOutput(Open(fmt, NextCursor, ColumnsOf, FALSE))
  /\ given' = IF fmt.named THEN << >> ELSE given

FurtherSheet ==
  /\ phase = "output" /\ sheet \in 1 .. Len(collected) - 1
  /\ StartOutput(IF fmt.class \in Books
                 THEN NextSheet(fmt, NextCursor, ColumnsOf)
                 ELSE Open(Close(fmt), NextCursor, ColumnsOf, TRUE))
  /\ UNCHANGED given

\* xlsx is not written to a stream: AttributeError ends the program.
OutputRefused ==
  /\ phase = "output" /\ sheet = 0
  /\ ~CanOpen(fmt, NextCursor)
  /\ phase' = "crashed"
  /\ UNCHANGED <<fmt, cursor, given, sheet, written>> /\ OutputFrame

\* Mutant of AtLimit: one row more.
PastLimit == args.maxRows > 0 /\ written > args.maxRows

AtLimit == args.maxRows > 0 /\ written >= args.maxRows /\ written > 0

\* get_data() of a cursor without result: None, or an error that is not
\* handled; so is the ValueError of a row that does not fit.
NoData == rs[cursor].stmt = 0 \/ rs[cursor].labels = << >>

PrintRow ==
  /\ phase = "print" /\ ~NoData /\ ~AtLimit
  /\ WriteRow
  /\ written' = written + 1
  /\ UNCHANGED <<phase, pool, shown, cursor, args, sqls, collected, last,
                 rowCount, saved, pending, rows, sheet, faults>>

PrintCrashes ==
  /\ phase = "print" /\ ~AtLimit
  /\ NoData \/ (HasRow /\ ~Fits(fmt, rs[cursor].labels))
  /\ phase' = "crashed"
  /\ UNCHANGED <<fmt, cursor, given, sheet, written>> /\ OutputFrame

\* The rows of a cursor end, or the limit closes it.
PrintEnd ==
  /\ phase = "print"
  /\ AtLimit \/ (~NoData /\ ~HasRow)
  /\ CloseIt(cursor)
  /\ phase' = "output"
  /\ UNCHANGED <<shown, fmt, cursor, given, args, sqls, collected, last,
                 rowCount, saved, pending, rows, sheet, written, faults>>

\* Fetching fails: the error is printed, and the next result follows.
FetchFails ==
  /\ phase = "print" /\ ~NoData /\ ~AtLimit
  /\ faults < MaxFaults /\ faults' = faults + 1
  /\ phase' = "output"
  /\ UNCHANGED <<pool, rs, shown, fmt, cursor, given, args, sqls, collected,
                 last, rowCount, saved, pending, rows, sheet, written>>

FinishOutput ==
  /\ phase = "output" /\ sheet = Len(collected)
  /\ fmt' = Close(fmt)
  /\ phase' = "done"
  /\ UNCHANGED <<cursor, given, sheet, written>> /\ OutputFrame

Program ==
  \/ ReadSelect \/ ReadUpdate \/ ReadFails \/ ReadEnd
  \/ CommitBatch \/ LastCommit \/ CommitRefused
  \/ FirstResult \/ FurtherSheet \/ OutputRefused
  \/ PrintRow \/ PrintCrashes \/ PrintEnd \/ FetchFails \/ FinishOutput

Next ==
  \/ (args.program = "sql-query" /\ Program)
  \/ (args.program = "client" /\ Client /\ UNCHANGED queryVars)

Spec == Init /\ [][Next]_vars

-----------------------------------------------------------------------------
(* The statements executed, by what they are.                              *)

Executed == DOMAIN rows
IsQuery(i) == shown[i].labels \notin {<< >>, <<"probe">>}
Queries == {i \in Executed : IsQuery(i)}

\* The shape of the variables of the program.
TypeOK ==
  /\ args \in [program : Programs, activate : BOOLEAN, maxRows : Limits]
  /\ collected \in Seq(Cursors) /\ sheet \in 0 .. Len(collected)
  /\ last \in {NoCursor} \cup Cursors /\ cursor \in {NoCursor} \cup Cursors
  /\ rowCount \in Nat /\ rows \in Seq(Nat) /\ written \in Nat
  /\ saved \subseteq Executed /\ pending \subseteq Executed
  /\ faults \in 0 .. MaxFaults

\* By the time the results are written the fate of the updates is settled:
\* with -a all that updated rows are durable, those before a failing statement
\* too, and a crash of the output takes none back; without it none ever is.
\* Between two statements fewer rows than commit_nr are uncommitted, however
\* the updates are mixed with queries and statements without rows.
UpdatesSettled ==
  /\ ~args.activate => saved = {}
  /\ args.activate /\ faults = 0 /\ phase \in {"output", "print", "done", "crashed"} =>
       \A i \in Executed : rows[i] > 0 => i \in saved
  /\ phase = "parse" /\ CommitNr > 0 =>
       MapThenSumSet(LAMBDA i : rows[i], pending) < CommitNr

\* Unless the database fails, a result is in the file whole or not at all:
\* its rows once, in order, up to the limit. A program that ends without a
\* traceback has executed the input up to the first statement that fails, and
\* has written every query it has executed; one that crashes, at a query whose
\* cursor a later statement took or whose rows do not fit, leaves no part of
\* a result behind, in the rows it has printed or in a book it never saved.
Asked(n) ==
  IF args.maxRows > 0 /\ args.maxRows < n THEN args.maxRows ELSE n

InFull(i, items) ==
  RowsOf(items, {i}) = [k \in 1 .. Asked(shown[i].rows) |-> RowOf(i, k)]

ResultsWritten ==
  args.program = "sql-query" /\ faults = 0 =>
    /\ phase = "done" =>
         /\ sqls = << >> \/ MeaningOf(Head(sqls)) = Fails
         /\ \A i \in Queries : InFull(i, fmt.out)
    /\ phase = "crashed" =>
         \A i \in Queries : InFull(i, fmt.out) \/ RowsOf(fmt.out, {i}) = << >>

\* sql-query accepts "a string of (multiple) SQL statements" (cmdline.py:36)
\* and up to 20 queries with a result (main.py:218): when no statement and no
\* row fails, each of them is written.
ProperInput ==
  /\ sqls = << >> /\ faults = 0
  /\ fmt.class = "xlsx" => fmt.named
  /\ \A i \in Queries : Len(shown[i].labels) = Cardinality(ColumnSet(shown[i].labels))

EachQueryWritten ==
  /\ args.program = "sql-query" /\ ProperInput /\ args.maxRows = 0
  /\ phase \in {"done", "crashed"}
  => \A i \in Queries : \A k \in 1 .. shown[i].rows :
       \E j \in DOMAIN fmt.out : fmt.out[j] = RowOf(i, k)

=============================================================================
