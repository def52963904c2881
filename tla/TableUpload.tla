----------------------------- MODULE TableUpload -----------------------------
(***************************************************************************)
(* Files on their way into a table: upload_table() of sql-query            *)
(* (src/lwetl/programs/sql_query/main.py) and the same loop over an ldif   *)
(* file in docs and tests. An importer (module TableImport) is read record *)
(* by record and each record is inserted by a ParameterUploader            *)
(* (src/lwetl/uploader.py), whose counter numbers the rows that have no    *)
(* key of their own, while others insert into the same table. A process    *)
(* may upload several times; its counters stay.                            *)
(***************************************************************************)
EXTENDS TableImport, FiniteSets

CONSTANTS
  Jobs,        \* the arguments of an upload
  MaxUploads,  \* bound: uploads of the process
  Names,       \* the spellings of the table's name that callers use
  KeyName,     \* the key column of the table
  BadCells,    \* the cells that cannot be converted for their column
  MaxOutside,  \* bound: rows inserted by other processes
  MaxFaults    \* bound: refused commits and rollbacks, and inserts refused for
               \* other reasons than the key

(***************************************************************************)
(* A job: the file, [class, header, rows] or, for ldif, [class, lines]; the*)
(* chunk size get_data is given as max_rows; the limit args.max_rows, 0 for*)
(* all rows; the mode, and the table's name as it is spelled. An attribute *)
(* of ldif has a name, and is never the key column, which holds numbers.   *)
(***************************************************************************)
Attrs == STRING \ {NoAttr, KeyName}
LdifLines ==
  [kind : {"attr"}, attr : Attrs, val : Seq(Nat), base64 : BOOLEAN]
    \cup [kind : {"more"}, val : Seq(Nat)] \cup [kind : {"blank", "other"}]
Files ==
  [class : {"csv", "xlsx"}, header : Seq(STRING), rows : Seq(Seq(Nat))]
    \cup [class : {"ldif"}, lines : Seq(LdifLines)]

ASSUME BoundsAssumption ==
  MaxUploads \in Nat /\ MaxOutside \in Nat /\ MaxFaults \in Nat

ASSUME JobsAssumption ==
  Jobs \subseteq [file : Files, chunk : Nat \ {0}, limit : Nat,
                 mode : {"commit", "rollback", "dryrun"}, name : Names]

VARIABLES
  job,       \* the arguments of the upload: file, chunk size, limit, mode, name
  phase,     \* "idle", "reading", "leaving" or "done"
  uploads,   \* number of uploads begun
  columns,   \* CsvImport.columns, XlsxImport.columns
  position,  \* rows (or records of an ldif file) taken from the file
  entry,     \* LdifImport.get_data: the record that is being read
  chunk,     \* get_data: the rows read and not yet delivered
  lastChunk, \* whether they are the last
  inserted,  \* row_count of upload_table
  counters,  \* PK_COUNTERS, for the login and the key column
  table,     \* external: the committed rows, key to row
  open,      \* external: the rows of the open transaction
  raised,    \* what ended the upload: "nothing", "sql" (a refused insert),
             \* "value" or "transaction" (a refused commit or rollback)
  clash,     \* history: the rows in the way of a counter's key
  outside,   \* number of rows inserted by others
  faults     \* number of refused inserts, commits and rollbacks

importer == <<columns, position, entry, chunk, lastChunk>>
vars == <<job, phase, uploads, importer, inserted, counters, table, open, raised,
          clash, outside, faults>>

\* A row: its record, where its key comes from, and the upload it belongs to.
RowFrom(origin, name, record) ==
  [origin |-> origin, name |-> name, record |-> record, upload |-> uploads]

Init ==
  /\ job \in Jobs
  /\ phase = "idle" /\ uploads = 0 /\ raised = "nothing"
  /\ columns = << >> /\ position = 0 /\ entry = NewEntry
  /\ chunk = << >> /\ lastChunk = FALSE
  /\ inserted = 0
  /\ counters = << >>
  /\ table = << >> /\ open = << >>
  /\ clash = {} /\ outside = 0 /\ faults = 0

-----------------------------------------------------------------------------
(* The importers, as the loop of upload_table drives them.                 *)

File == job.file

\* open(): an empty file is refused (EmptyFileError). The caller then asks for
\* the counter of the key column, as the documents do (upload_table itself asks
\* for none): add_counter() reads the greatest key of the table, once per
\* process and spelling.
Keys == DOMAIN table \cup DOMAIN open
MaxKey == IF Keys = {} THEN 0 ELSE CHOOSE k \in Keys : \A l \in Keys : k >= l

CounterRead ==
  IF job.name \in DOMAIN counters THEN counters ELSE Put(counters, job.name, MaxKey)

HasHeader == File.class # "ldif" => File.header # << >>

Begin ==
  /\ phase = "idle" /\ uploads < MaxUploads
  /\ uploads' = uploads + 1
  /\ HasHeader
  /\ columns' = IF File.class = "ldif" THEN << >> ELSE Columns(File.header)
  /\ position' = 0 /\ entry' = NewEntry /\ chunk' = << >> /\ lastChunk' = FALSE
  /\ counters' = CounterRead
  /\ inserted' = 0 /\ raised' = "nothing"
  /\ phase' = "reading"
  /\ UNCHANGED <<job, table, open, clash, outside, faults>>

BeginRefused ==
  /\ phase = "idle" /\ uploads < MaxUploads
  /\ ~HasHeader
  /\ uploads' = uploads + 1
  /\ UNCHANGED <<job, phase, importer, inserted, counters, table, open, raised,
                 clash, outside, faults>>

Reading == phase = "reading" /\ chunk = << >> /\ ~lastChunk

\* The rows get_data asks for at once: max_rows of a csv file, and one more of
\* a sheet, as the range of its rows includes both ends.
ChunkSize == IF File.class = "csv" THEN job.chunk ELSE job.chunk + 1

\* Mutant of PositionAfter: the next chunk starts where max_rows would end.
PositionByChunk(rows) == position + job.chunk

\* row_count counts the rows that were read.
PositionAfter(rows) == position + Len(rows)

\* Mutant of IsLast: the test is for more than max_rows.
NeverLast(rows) == Len(rows) > ChunkSize

\* Fewer rows than max_rows are the last.
IsLast(rows) == Len(rows) < job.chunk

\* The next chunk of a csv file or a sheet.
ReadChunk ==
  LET rows == SubSeq(File.rows, position + 1, Len(File.rows))
      taken == IF Len(rows) > ChunkSize THEN SubSeq(rows, 1, ChunkSize) ELSE rows
  IN /\ Reading /\ File.class # "ldif"
     /\ chunk' = taken
     /\ position' = PositionAfter(taken)
     /\ lastChunk' = IsLast(taken)
     /\ UNCHANGED <<job, phase, uploads, columns, entry, inserted, counters, table,
                    open, raised, clash, outside, faults>>

\* The next line of an ldif file, or its end: at most one record is delivered.
ReadLine ==
  LET atEnd == position = Len(File.lines) \/ entry.ended
      e == IF atEnd THEN LdifEnd(entry) ELSE LdifLine(entry, File.lines[position + 1])
  IN /\ Reading /\ File.class = "ldif"
     /\ chunk' = e.results
     /\ entry' = [e EXCEPT !.results = << >>]
     /\ position' = IF atEnd THEN position ELSE position + 1
     /\ lastChunk' = atEnd
     /\ UNCHANGED <<job, phase, uploads, columns, inserted, counters, table, open,
                    raised, clash, outside, faults>>

-----------------------------------------------------------------------------
\* All rows, the committed ones and those of the open transaction.
AllRows == [k \in Keys |-> IF k \in DOMAIN table THEN table[k] ELSE open[k]]

\* Jdbc.commit or Jdbc.rollback: the transaction ends.
EndTransaction(keep) ==
  /\ table' = IF keep THEN AllRows ELSE table
  /\ open' = << >>

\* Whether commit() has anything to do with the transaction: it returns at once
\* when no row was inserted, and a dry run inserts none into the database.
Counted == job.mode # "dryrun" /\ inserted > 0

\* __exit__ calls commit(), which rolls back when an insert has failed, and in all
\* modes but commit; a value that cannot be converted is no failed insert.
TransactionEnds(outcome) ==
  /\ IF Counted THEN EndTransaction(job.mode = "commit" /\ outcome # "sql")
     ELSE UNCHANGED <<table, open>>
  /\ raised' = outcome

\* The database refuses the commit or the rollback: the exception leaves the
\* upload, and its rows stay in the transaction.
TransactionRefused ==
  /\ Counted
  /\ raised' = "transaction"
  /\ UNCHANGED <<table, open>>

\* The upload ends; n refusals were met before.
Exit(outcome, n) ==
  /\ \/ TransactionEnds(outcome) /\ faults' = n
     \/ TransactionRefused /\ n < MaxFaults /\ faults' = n + 1
  /\ phase' = IF uploads < MaxUploads THEN "idle" ELSE "done"

\* The record of the first row of the chunk, and the columns after it.
Parsed ==
  CASE File.class = "csv"  -> CsvRow(columns, Head(chunk))
    [] File.class = "xlsx" ->
         [columns |-> columns, record |-> XlsxRow(columns, Head(chunk))]
    [] File.class = "ldif" -> [columns |-> columns, record |-> Head(chunk)]

\* The next row of the loop, parsed.
NextRow(p) ==
  /\ chunk' = Tail(chunk)
  /\ columns' = p.columns
  /\ UNCHANGED <<position, entry, lastChunk>>

\* A row without a value is not delivered.
SkipRow(p) ==
  /\ NextRow(p) /\ p.record = NoRecord
  /\ UNCHANGED <<job, phase, uploads, inserted, counters, table, open, raised,
                 clash, outside, faults>>

Convertible(record) ==
  File.class # "ldif" => \A c \in DOMAIN record : record[c] \notin BadCells
HasOwnKey(record) == KeyName \in DOMAIN record

\* Mutant of Drawn: the counter gives its value, and then counts.
DrawnBefore == counters[job.name]

\* get_pk_counter: the next key.
Drawn == counters[job.name] + 1

Key(record) == IF HasOwnKey(record) THEN record[KeyName] ELSE Drawn

\* The counter moves on although the insert may fail.
Draw(record) ==
  counters' = IF HasOwnKey(record) THEN counters
              ELSE [counters EXCEPT ![job.name] = Drawn]

LimitReached(n) == job.limit > 0 /\ n >= job.limit

Insert(p) ==
  LET r == p.record
  IN /\ NextRow(p) /\ r # NoRecord
     /\ Convertible(r)
     /\ Draw(r)
     /\ IF job.mode = "dryrun" THEN open' = open
        ELSE /\ Key(r) \notin Keys
             /\ open' = Put(open, Key(r),
                            RowFrom(IF HasOwnKey(r) THEN "file" ELSE "counter",
                                    job.name, r))
     /\ inserted' = inserted + 1
     /\ phase' = IF LimitReached(inserted + 1) THEN "leaving" ELSE "reading"
     /\ UNCHANGED <<job, uploads, table, raised, clash, outside, faults>>

\* The database refuses the insert: its key is taken, or for another reason.
KeyTaken(p) ==
  LET r == p.record
  IN /\ NextRow(p) /\ r # NoRecord
     /\ job.mode # "dryrun" /\ Convertible(r) /\ Key(r) \in Keys
     /\ Draw(r)
     /\ clash' = IF HasOwnKey(r) THEN clash ELSE clash \cup
                 {[row |-> AllRows[Key(r)], name |-> job.name]}
     /\ Exit("sql", faults)
     /\ UNCHANGED <<job, uploads, inserted, outside>>

InsertRefused(p) ==
  LET r == p.record
  IN /\ NextRow(p) /\ r # NoRecord
     /\ job.mode # "dryrun" /\ Convertible(r)
     /\ faults < MaxFaults
     /\ Draw(r)
     /\ Exit("sql", faults + 1)
     /\ UNCHANGED <<job, uploads, inserted, clash, outside>>

\* A value cannot be converted: ValueError before the counter is asked.
BadValue(p) ==
  LET r == p.record
  IN /\ NextRow(p) /\ r # NoRecord
     /\ ~Convertible(r)
     /\ Exit("value", faults)
     /\ UNCHANGED <<job, uploads, inserted, counters, clash, outside>>

\* The loop ends: all rows are read, or the limit is reached.
Leave ==
  /\ \/ phase = "reading" /\ chunk = << >> /\ lastChunk
     \/ phase = "leaving"
  /\ Exit("nothing", faults)
  /\ UNCHANGED <<job, uploads, importer, inserted, counters, clash, outside>>

\* Another process inserts a row, with the next key it can see.
OutsideInsert ==
  LET k == IF DOMAIN table = {} THEN 1
           ELSE 1 + CHOOSE n \in DOMAIN table : \A l \in DOMAIN table : n >= l
  IN /\ outside < MaxOutside /\ outside' = outside + 1
     /\ k \notin DOMAIN open
     /\ table' = Put(table, k, RowFrom("outside", NoName, NoRecord))
     /\ UNCHANGED <<job, phase, uploads, importer, inserted, counters, open, raised,
                    clash, faults>>

\* The caller spells the name of the table for each upload as it likes.
Respell ==
  /\ phase = "idle" /\ uploads > 0 /\ uploads < MaxUploads
  /\ \E n \in Names \ {job.name} : job' = [job EXCEPT !.name = n]
  /\ UNCHANGED <<phase, uploads, importer, inserted, counters, table, open, raised,
                 clash, outside, faults>>

\* What becomes of the next row.
RowOfLoop ==
  /\ phase = "reading" /\ chunk # << >>
  /\ \E p \in {Parsed} :
       SkipRow(p) \/ Insert(p) \/ KeyTaken(p) \/ InsertRefused(p) \/ BadValue(p)

Upload == Begin \/ BeginRefused \/ ReadChunk \/ ReadLine \/ RowOfLoop \/ Leave

Next == Upload \/ OutsideInsert \/ Respell

Spec == Init /\ [][Next]_vars /\ WF_vars(Upload)

-----------------------------------------------------------------------------
\* The shape of every variable.
TypeOK ==
  /\ job.name \in Names /\ job.chunk \in Nat \ {0}
  /\ phase \in {"idle", "reading", "leaving", "done"}
  /\ uploads \in 0 .. MaxUploads
  /\ Len(chunk) + inserted <= position
  /\ position <= IF File.class = "ldif" THEN Len(File.lines) ELSE Len(File.rows)
  /\ entry.attr = NoAttr => entry.value = << >> /\ ~entry.base64
  /\ lastChunk \in BOOLEAN
  /\ DOMAIN counters \subseteq Names
  /\ \A n \in DOMAIN counters : counters[n] \in Nat
  /\ DOMAIN table \subseteq Nat /\ DOMAIN open \subseteq Nat
  /\ raised \in {"nothing", "sql", "value", "transaction"}
  /\ outside \in 0 .. MaxOutside /\ faults \in 0 .. MaxFaults

\* The records of a file as the documentation describes it.
Proper ==
  IF File.class = "ldif" THEN ProperLdif(File.lines, 2)
  ELSE ProperTable(File.header, File.rows)
AsWritten ==
  IF File.class = "ldif" THEN LdifAsWritten(File.lines)
  ELSE TableAsWritten(File.header, File.rows)

\* The records the upload is asked for: all of the file, or the first of them.
Wanted ==
  IF job.limit > 0 /\ job.limit < Len(AsWritten) THEN SubSeq(AsWritten, 1, job.limit)
  ELSE AsWritten

Mine(rows) == {k \in DOMAIN rows : rows[k].origin # "outside" /\ rows[k].upload = uploads}
ByCounter(rows) == {k \in Mine(rows) : rows[k].origin = "counter"}
InOrder(rows, keys) ==
  LET sorted == SetToSortSeq(keys, <) IN [i \in DOMAIN sorted |-> rows[sorted[i]].record]

Stored ==
  /\ Cardinality(Mine(table')) = Len(Wanted)
  /\ InOrder(table', ByCounter(table')) = SelectSeq(Wanted, LAMBDA r : ~HasOwnKey(r))
  /\ \A r \in Range(Wanted) :
       HasOwnKey(r) => r[KeyName] \in Mine(table') /\ table'[r[KeyName]].record = r

Ends == phase \in {"reading", "leaving"} /\ phase' \in {"idle", "done"}

\* An upload in the mode commit that ends without an error has added the
\* records of its file, all of them or as many as the limit says: each once,
\* under its own key if it has one, and else under a key of the counter in the
\* order of the file, whatever the size of the chunks. An upload that ends with
\* a refused insert, and its rollback done, leaves no row of its own behind,
\* neither committed nor for a later upload of the process to commit.
UploadStored ==
  [][/\ Ends /\ raised' = "nothing" /\ job.mode = "commit" /\ Proper => Stored
     /\ Ends /\ raised' = "sql" => Mine(table') \cup Mine(open') = {}]_vars

\* A counter never gives a key twice: what is in the way of a key it has given
\* came from another process, from a key in the file, or from an upload that
\* spelled the table's name in another way.
CounterKeysFresh ==
  \A c \in clash : ~(c.row.origin = "counter" /\ c.row.name = c.name)

\* Every upload ends.
UploadsEnd == [](phase = "reading" => <>(phase \in {"idle", "done"}))

=============================================================================
