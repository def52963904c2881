----------------------------- MODULE TableImport -----------------------------
(***************************************************************************)
(* The importers of lwetl (src/lwetl/table_import.py): how the rows of a   *)
(* csv file or an xlsx sheet, and the lines of an ldif file, become        *)
(* records. A cell is a number, Empty for none. A record is a function     *)
(* from column names to cells, or, for ldif, from attributes to the        *)
(* sequences of their values. What is not UTF-8, date or base64 text is    *)
(* left out, but for base64 that cannot be decoded.                        *)
(***************************************************************************)
EXTENDS Naturals, Sequences, SequencesExt

Empty == 0
NoName == ""

\* The names C1, C2, ... of the columns without one.
CounterNames == <<"C1", "C2", "C3", "C4", "C5">>
CName(n) == CounterNames[n]

\* unique_column_name: the search for a free name ends with the name that was
\* asked for, so that equal names stay equal.
UniqueColumnName(name, defined) ==
  IF name = NoName THEN CName(Len(defined) + 1) ELSE name

\* CsvImport.open and XlsxImport.open: the columns of a header.
Columns(header) ==
  FoldLeft(LAMBDA defined, name : Append(defined, UniqueColumnName(name, defined)),
           << >>, header)

NoRecord == << >>
Put(record, key, value) ==
  [k \in DOMAIN record \cup {key} |-> IF k = key THEN value ELSE record[k]]

\* The cells of a row under the names of their columns, empty ones left out; of
\* two cells with one name the later one stays.
RecordOf(names, row) ==
  LET filled == {x \in DOMAIN row : row[x] # Empty}
  IN [name \in {names[x] : x \in filled} |->
        row[Max({x \in filled : names[x] = name})]]

\* CsvImport.get_data, one cell: a value right of the columns adds a column,
\* for the rows to come as well, wherever in its row it stands.
CsvCell(acc, x, value) ==
  LET columns == IF x <= Len(acc.columns) \/ value = Empty THEN acc.columns
                 ELSE Append(acc.columns, UniqueColumnName(NoName, acc.columns))
      name == IF x <= Len(columns) THEN columns[x] ELSE Last(columns)
  IN [columns |-> columns, names |-> Append(acc.names, name)]

CsvRow(columns, row) ==
  LET read == FoldLeftDomain(LAMBDA acc, x : CsvCell(acc, x, row[x]),
                             [columns |-> columns, names |-> << >>], row)
  IN [columns |-> read.columns, record |-> RecordOf(read.names, row)]

\* XlsxImport.get_data, one row: a value right of the columns is named by its
\* place, counted from zero.
XlsxRow(columns, row) ==
  RecordOf([x \in DOMAIN row |-> IF x <= Len(columns) THEN columns[x] ELSE CName(x - 1)],
           row)

-----------------------------------------------------------------------------
(* LdifImport. A line is blank, "<attr>: <val>" with one colon or two, a   *)
(* continuation, or none of these; val is the sequence of the pieces of    *)
(* text on it. Text that is not base64 is the piece Garbled.               *)

Garbled == 9
NoAttr == ""

\* init_record
NewEntry == [record |-> NoRecord, attr |-> NoAttr, value |-> << >>,
             base64 |-> FALSE, results |-> << >>, ended |-> FALSE]

\* Mutant of ParseAttribute: a second value replaces the first.
ParseAttributeLast(e) ==
  LET value == IF e.base64 /\ Contains(e.value, Garbled) THEN << >> ELSE e.value
  IN [e EXCEPT !.attr = NoAttr, !.value = << >>, !.base64 = FALSE,
               !.record = IF e.attr = NoAttr \/ value = << >> THEN @
                          ELSE Put(@, e.attr, <<value>>)]

\* parse_attribute: the pending attribute is stored; an empty value, or one
\* that is not the base64 it should be, is not.
ParseAttribute(e) ==
  LET value == IF e.base64 /\ Contains(e.value, Garbled) THEN << >> ELSE e.value
      before == IF e.attr \in DOMAIN e.record THEN e.record[e.attr] ELSE << >>
  IN [e EXCEPT !.attr = NoAttr, !.value = << >>, !.base64 = FALSE,
               !.record = IF e.attr = NoAttr \/ value = << >> THEN @
                          ELSE Put(@, e.attr, Append(before, value))]

\* The record is delivered unless it is empty.
Deliver(e) ==
  [e EXCEPT !.record = NoRecord,
            !.results = IF e.record = NoRecord THEN << >> ELSE <<e.record>>]

\* One line. The last attribute of a record is stored late, when the next one
\* starts or after the blank line has been seen: a blank line below a single
\* attribute meets an empty record and ends the input.
LdifLine(e, line) ==
  CASE e.ended -> e
    [] line.kind = "blank" /\ e.record = NoRecord -> [e EXCEPT !.ended = TRUE]
    [] line.kind = "blank" /\ e.record # NoRecord -> Deliver(ParseAttribute(e))
    [] line.kind = "more" /\ e.attr # NoAttr -> [e EXCEPT !.value = @ \o line.val]
    [] line.kind = "attr" ->
         [ParseAttribute(e) EXCEPT !.attr = line.attr, !.value = line.val,
                                   !.base64 = line.base64]
    [] OTHER -> e

\* The end of the file: the last record is delivered.
LdifEnd(e) == Deliver(ParseAttribute(e))

-----------------------------------------------------------------------------
(* What the documentation says of the files: the reference for both.       *)

\* A table: distinct names, and no row wider than the header. Its records are
\* its rows without the empty cells, those without any value left out.
ProperTable(header, rows) ==
  /\ \A i, j \in DOMAIN header : header[i] # NoName
                                  /\ (i # j => header[i] # header[j])
  /\ \A i \in DOMAIN rows : Len(rows[i]) <= Len(header)

RowAsWritten(header, row) ==
  [name \in {header[x] : x \in {y \in DOMAIN row : row[y] # Empty}} |->
     row[CHOOSE x \in DOMAIN row : header[x] = name]]

TableAsWritten(header, rows) ==
  SelectSeq([i \in DOMAIN rows |-> RowAsWritten(header, rows[i])],
            LAMBDA r : r # NoRecord)

\* An ldif file: entries of attributes with values, separated by one blank
\* line; two blank lines are the end. Entry k is what has k blank lines above.
EndOfEntries(lines) ==
  {i \in DOMAIN lines : i > 1 /\ lines[i].kind = "blank" /\ lines[i - 1].kind = "blank"}
Part(lines) == {i \in DOMAIN lines : \A e \in EndOfEntries(lines) : i < e}
BlanksAbove(lines, i) == Cardinality({j \in 1 .. i - 1 : lines[j].kind = "blank"})
Entry(lines, k) == {i \in Part(lines) : BlanksAbove(lines, i) = k}
Attributes(lines, k) == {i \in Entry(lines, k) : lines[i].kind = "attr"}

\* The lines that continue line i.
Continues(lines, i) ==
  {j \in i + 1 .. Len(lines) : \A m \in i + 1 .. j : lines[m].kind = "more"}
ValueAt(lines, i) ==
  FlattenSeq([j \in 1 .. 1 + Cardinality(Continues(lines, i)) |-> lines[i + j - 1].val])

ProperLdif(lines, least) ==
  /\ lines # << >> => lines[1].kind = "attr"
  /\ \A i \in DOMAIN lines :
       /\ lines[i].kind \in {"attr", "more", "blank"}
       /\ lines[i].kind = "more" => lines[i - 1].kind \in {"attr", "more"}
       /\ lines[i].kind = "attr" =>
            ValueAt(lines, i) # << >>
              /\ (lines[i].base64 => ~Contains(ValueAt(lines, i), Garbled))
  /\ \A k \in 0 .. Len(lines) :
       Attributes(lines, k) # {} => Cardinality(Attributes(lines, k)) >= least

EntryAsWritten(lines, k) ==
  [a \in {lines[i].attr : i \in Attributes(lines, k)} |->
     LET at == SetToSortSeq({i \in Attributes(lines, k) : lines[i].attr = a}, <)
     IN [n \in DOMAIN at |-> ValueAt(lines, at[n])]]

LdifAsWritten(lines) ==
  SelectSeq([k \in 1 .. Len(lines) |-> EntryAsWritten(lines, k - 1)],
            LAMBDA r : r # NoRecord)

=============================================================================
