------------------------------ MODULE Formatter ------------------------------
(***************************************************************************)
(* The output formatters of lwetl (src/lwetl/formatter.py), as operators   *)
(* on a record f with the attributes that decide what reaches the file:    *)
(*   f.class    "text", "csv", "sql", "xml" or "xlsx";                     *)
(*   f.named    whether the output is a file (fname), or standard output;  *)
(*   f.cursor   Formatter.cursor, NoCursor for None;                       *)
(*   f.columns  the keys of Formatter.columns, none when it is None;       *)
(*   f.stream   whether fstream is open;                                   *)
(*   f.active   whether there is a writer, a table, a sheet or an uploader *)
(*              to write with;                                             *)
(*   f.book     the sheets xml and xlsx hold back until close();           *)
(*   f.out      external: what the file or standard output has received.   *)
(* Output is a sequence of items: the start of a sheet, a header with its  *)
(* columns, a row with the statement it comes from. How values are written *)
(* is left out.                                                            *)
(***************************************************************************)
EXTENDS Naturals, Sequences, FiniteSets

NoneGiven == 0

Books == {"xml", "xlsx"}

Sheet == [kind |-> "sheet"]
HeaderOf(columns) == [kind |-> "header", columns |-> columns]
RowOf(stmt, nr) == [kind |-> "row", stmt |-> stmt, nr |-> nr]

\* The constructors; the target is a file when parse_output_selector finds a
\* name in it.
NewFormatter(class, named) ==
  [class |-> class, named |-> named, cursor |-> NoneGiven, columns |-> {},
   stream |-> FALSE, active |-> FALSE, book |-> << >>, out |-> << >>]

\* Formatter.open: a file is truncated unless it is appended to.
OpenStream(f, columns, append) ==
  [f EXCEPT !.columns = columns, !.stream = TRUE,
            !.out = IF f.named /\ ~append THEN << >> ELSE @]

\* Mutant of NextSheet: the columns of the sheet before are kept.
NextSheetKeepsColumns(f, cursor, columnsOf) ==
  [f EXCEPT !.book = Append(@, Sheet), !.active = TRUE,
            !.cursor = IF cursor = NoneGiven THEN @ ELSE cursor]

\* XmlFormatter.next_sheet and XlsxFormatter.next_sheet: without a cursor the
\* columns stay.
NextSheet(f, cursor, columnsOf) ==
  [f EXCEPT !.book = Append(@, Sheet), !.active = TRUE,
            !.cursor  = IF cursor = NoneGiven THEN @ ELSE cursor,
            !.columns = IF cursor = NoneGiven THEN @ ELSE columnsOf[cursor]]

\* TextFormatter.open and CsvFormatter.open.
OpenText(f, cursor, columnsOf, append) ==
  [OpenStream(f, columnsOf[cursor], append) EXCEPT !.active = TRUE]

\* XmlFormatter.open: the cursor given sets the columns, then the first sheet
\* is made for the cursor the instance knows from before.
OpenXml(f, cursor, columnsOf, append) ==
  NextSheet([OpenStream(f, columnsOf[cursor], append) EXCEPT !.book = << >>],
            f.cursor, columnsOf)

\* XlsxFormatter.open: the same; the file has been created and is closed again.
OpenXlsx(f, cursor, columnsOf, append) ==
  NextSheet([OpenStream(f, columnsOf[cursor], append) EXCEPT
               !.book = << >>, !.stream = FALSE],
            f.cursor, columnsOf)

\* SqlFormatter.open, given a connection and its columns, as sql-query does: an
\* uploader in pipe mode. Without columns that uploader asks the database for
\* them, on a cursor it closes before the first row, and open() may fail.
OpenSql(f, cursor, columnsOf, append) ==
  [OpenStream(f, columnsOf[cursor], append) EXCEPT !.active = TRUE]

\* open() raises without a cursor; xlsx cannot be written to a stream.
CanOpen(f, cursor) == cursor # NoneGiven /\ (f.class = "xlsx" => f.named)

Open(f, cursor, columnsOf, append) ==
  CASE f.class = "xml"  -> OpenXml(f, cursor, columnsOf, append)
    [] f.class = "xlsx" -> OpenXlsx(f, cursor, columnsOf, append)
    [] f.class = "sql"  -> OpenSql(f, cursor, columnsOf, append)
    [] OTHER            -> OpenText(f, cursor, columnsOf, append)

Emit(f, item) == [f EXCEPT !.out = Append(@, item)]
Hold(f, item) == [f EXCEPT !.book = Append(@, item)]

\* header() of text and csv, of xml and of xlsx; sql has none.
HeaderText(f) == IF f.stream THEN Emit(f, HeaderOf(f.columns)) ELSE f
HeaderXml(f) == Hold(f, HeaderOf(f.columns))
HeaderXlsx(f) == Hold(f, HeaderOf(f.columns))
Header(f) ==
  CASE f.class = "xml"  -> HeaderXml(f)
    [] f.class = "xlsx" -> HeaderXlsx(f)
    [] f.class = "sql"  -> f
    [] OTHER            -> HeaderText(f)

\* Formatter.format: a row of another width than the columns is refused with
\* ValueError. Equal labels are one column, so their rows are too wide.
Fits(f, labels) == f.active /\ Len(labels) = Cardinality(f.columns)

\* write() of text and csv, of xml, of xlsx, and of sql, which prints the
\* statement its uploader hands back.
WriteText(f, row) == IF f.stream THEN Emit(f, row) ELSE f
WriteXml(f, row) == Hold(f, row)
WriteXlsx(f, row) == Hold(f, row)
WriteSql(f, row) == IF f.stream THEN Emit(f, row) ELSE f
Write(f, row) ==
  CASE f.class = "xml"  -> WriteXml(f, row)
    [] f.class = "xlsx" -> WriteXlsx(f, row)
    [] f.class = "sql"  -> WriteSql(f, row)
    [] OTHER            -> WriteText(f, row)

\* Formatter.close: standard output stays open.
CloseStream(f) ==
  [f EXCEPT !.stream = f.stream /\ ~f.named, !.columns = {}, !.active = FALSE]

\* Mutant of CloseXml: the book is forgotten before it is printed.
CloseXmlFirst(f) == CloseStream([f EXCEPT !.book = << >>])

\* XmlFormatter.close prints the book, XlsxFormatter.close saves it over the
\* file, whatever the file held.
CloseXml(f) ==
  CloseStream([f EXCEPT !.out = IF f.stream THEN @ \o f.book ELSE @,
                        !.book = << >>])
CloseXlsx(f) == CloseStream([f EXCEPT !.out = f.book, !.book = << >>])
Close(f) ==
  CASE f.class = "xml"  -> CloseXml(f)
    [] f.class = "xlsx" -> CloseXlsx(f)
    [] OTHER            -> CloseStream(f)

=============================================================================
