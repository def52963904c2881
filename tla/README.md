# A TLA+ verification of lwetl

`lwetl` is a Python package, with a few command-line programs, that moves rows
between databases reached through JDBC drivers. This directory holds TLA+
models of the parts of it that keep state, the TLC configurations that check
them on small instances, and TLAPS proofs of theorems about them. Paths below
are relative to the package, `lwetl/` (`lwetl/jdbc.py` is `jdbc.py`), or to the
root of the repository (`docs/...`).

Contents:

1. [Inventory of the system](#1-inventory-of-the-system)
2. [Modules](#2-modules)
3. [Runs, bounds and fairness](#3-runs-bounds-and-fairness)
4. [Proofs](#4-proofs)
5. [Where the code and its documents disagree](#5-where-the-code-and-its-documents-disagree)
6. [Not modelled](#6-not-modelled)
7. [Plan](#7-plan)

## 1. Inventory of the system

The programs (`sql-query`, `db-copy`, `lwetl-security`, `table-cardinality`) and
the users of the library open one `Jdbc` connection per database, run
statements and read rows on it, and load rows through an *uploader*, which
holds a reference to the connection and ends its transactions. Importers turn
files into rows for uploaders; formatters turn rows into files. All of it runs
in one thread. What makes its behaviour hard is therefore not threads but

- lazy iterators, which stay suspended between two rows while the connection
  is used for other things,
- one transaction and one list of cursors shared by everybody who holds the
  connection,
- exceptions out of the database at every call, which unwind through
  `__exit__` methods that call `commit()` again,
- state kept for later calls: the current cursor and its flag, counters,
  `has_sql_errors`, caches.

| component | state | operations | interacts with | hard behaviour | correct when |
|---|---|---|---|---|---|
| **connection** `jdbc.py` 397-753 | `cursors`, `current_cursor`, `keep_current_cursor`, `cursor_counter`, the suspended iterators, the transaction | `execute`, `query`, `query_single`, `get_data`, `close`, `commit`, `rollback` | driver; every other component | iterators interleaved with statements and commits; a driver that refuses to close; row limits | a statement never runs on a cursor of the other life-cycle; an iterator on a kept cursor is complete and undisturbed; every open result set is known; queries give their cursor back |
| **uploaders** `uploader.py` 73-698 | `row_count`, `has_sql_errors`, `pipe_buffer`, `data_buffer`, `cursor` | `insert`, `update`, `delete`, `commit`, `__enter__`, `__exit__` | connection (execute, commit, rollback) | failure of a statement, of half a batch, of the commit or the rollback; a commit repeated by `__exit__`; several uploaders on one connection | a batch is stored as a whole or not at all, never twice; after a failure nothing more is stored; the pipe mode hands out every statement once and in order |
| **primary-key counters** `uploader.py` 31-61 | a global dictionary of iterators | `get_pk_counter`, `add_counter`, the next number on each insert | connection (MAX query) | the maximum is read once per process; other writers, explicit keys | a number is never given to two rows |
| **db-copy, order of tables** `programs/db_copy/main.py` 30-52, 167-229 | `copy_list`, `not_added` | the two ordering loops | - | circles, tables that are not copied | referred tables first, each common table once, the loop ends |
| **db-copy, copy of a table** `programs/db_copy/main.py` 238-409 | counters, `existing_records`, `found_records`, `to_delete`, two connections, an uploader | the loop over the source rows, commits, sync deletions, three handlers | uploader; both connections | failures tolerated up to a limit; unwinding through `__exit__`; early ends of the loop | untouched without `-a`; complete when it ends well; removes only what the source lost |
| **sql-query** `programs/sql_query/main.py` | `cursors` of pending results, `row_count` | the statements of the input, commit by row count, output | connection, SQL parser, formatters | several results pending on cursors that a later statement may reuse | each SELECT is printed with its own rows |
| **importers** `table_import.py` | position and pending record of the file | `CsvImport`, `LdifImport`, `XlsxImport`: one row per iteration | uploaders, users | blank lines, end of file, overflowing columns, duplicate names | every record of the file is delivered once, with unique column names |
| **SQL input parser** `input.py` 81-112 | buffer of the lines of a statement | one statement per iteration | sql-query | end of file without a terminator, comments | the statements are those of the text |
| **formatters** `formatter.py` | open file, sheet or table | `open`, `header`, `write`, `footer`, `close` | sql-query | closing and reopening, several results in one file | the file is well formed for every legal sequence of calls |
| **row transformation** `jdbc.py` 87-360 | converters chosen per column | `process` | connection | the converter is chosen from the first value seen | a value keeps its meaning |
| **configuration** `config_parser.py` | the merged YAML configuration | merge, `parse_login` | connection, security | precedence of files, aliases | later files override earlier ones; a login names one service |
| **passwords** `security.py`, `programs/lwetl_security/main.py` | key ring, configuration file | `set`, `encrypt`, `test`, `delete-keyring` | key ring, configuration | keys changed between encryption and use | what was encrypted can be read back |
| **statistics** `runtime_statistics.py` | counters and times | `add_exec_time`, ... | connection | rounding | - |
| **the rest** `queries.py`, `jdbc_info.py`, `programs/table_cardinality`, `utils.py`, `exceptions.py` | none that outlives a call | SQL text, printing, conversions | - | - | - |

The list `hazards` of `PROJECT.json` names, line by line, what can go wrong in
this code that a unit test would hardly reach, and the properties that cover it.

## 2. Modules

```
JdbcPool <--EXTENDS-- JdbcCursors <-- MCJdbcCursors
                      JdbcCursors <-- JdbcCursors_proofs
JdbcPool, Formatter <-- Export
Export, InputParser <-- SqlQuery <-- SqlQuery_proofs, MCSqlQuery
AtomicBatches <--INSTANCE (refinement)-- Uploader <-- Uploader_proofs, MCUploader
Uploader <--INSTANCE-- DbCopyTable <-- DbCopyTable_proofs, MCDbCopyTable
DbCopyOrder <-- DbCopyOrder_proofs, MCDbCopyOrder
TableImport <-- TableUpload <-- TableUpload_proofs, MCTableUpload
Security <-- Security_proofs, MCSecurity
FoldLemmas <-- DbCopyTable_proofs, SqlQuery_proofs, TableUpload_proofs, Security_proofs
```

`JdbcPool`, `Formatter`, `InputParser` and `TableImport` are pure: operators on
the state of one object, that the state machines above them compose.

An operator that carries the comment "Mutant of X" is X with a fault a
programmer might make. It stands before X, is used by no specification, and
shows, put in the place of X, that the properties notice the fault.

### JdbcPool and JdbcCursors: the connection

`JdbcPool` is the data structure: the record `pool` holds the attributes
`cursors` (a set of `CursorStorage` records, here a cursor with its `keep`
flag), `current_cursor`, `keep_current_cursor` and `cursor_counter`. Its
operators are what `execute` does to choose a cursor (`Recall`, `Candidate`,
`AddCursor`, composed in `PoolFor` and `CursorFor`), `remove_cursor`, `close`
and `close_all_cursors`. Cursors are numbered in the order of creation, as in
the code.

`JdbcCursors` is the connection at work. Its other variables are the result set
each driver cursor holds (`rs`, external: JayDeBeApi drops the previous result
when a statement runs on a cursor), the iterators (`gens`), the cursors callers
have been given (`handed`), and the cursors the driver has refused to close.
One call is one step, since one thread uses a connection. An iterator takes one
step per row (`NextBuffered`, `NextFetch`, `NextEnd`, `NextFails`,
`NextRaises`: the ways from one `yield` to the next, the end or an exception),
so that any call may come between two rows. `NextRaises` is the failure on an
open result, of the fetch or of the transformer, and `Leave` the consumer that
breaks out of its loop, as `query_single` (736), `parse_output`
(`sql_query/main.py:189`) and the copy (`db_copy/main.py:303`, 340) do: neither
closes the cursor, and `abandoned` remembers it.

| code | definition |
|---|---|
| `execute` 508-601 | `Execute`, `ExecuteFails` |
| `query`, `query_single` 704-753 | `Query`, `QueryUpdate`, `QuerySingle` |
| `get_data` 624-673 | `GetData` (the call), `NextRow` (the iterator), `Leave` (its consumer breaks out) |
| `close` 479-506 | `Close`, `CloseOne` |
| `commit`, `rollback` 675-702 | `EndTransaction` (what both do with cursors) |

A row is not modelled, only which statement it belongs to. Three constants say
what callers do: `ReuseKept` (they run further statements on kept cursors; no
code in the package does), `OneShotCalls` (they use `query_single`, or `query`
with an update) and `CloseMayFail` (the driver may refuse a close).

Properties: `PoolInv` (the attributes fit together), `SameLifeCycle`,
`OpenResultsKnown`, `KeptComplete`, `KeptUndisturbed`, `MaxRowsBound`, `NoLeak`,
`QueryReleases`; their comments state them.

Not modelled: connecting, statistics, `get_columns`, what the row transformation
yields, parameters.

### AtomicBatches and Uploader: the uploaders

`Uploader` has the three classes as two kinds: `NativeUploader` and
`ParameterUploader` run one statement per row and differ in SQL text only
("single"); `MultiParameterUploader` ("multi") buffers inserts and sends them in
one `executemany` at commit. Its database is two counts per change, how often
it is durable (`saved`) and how often it is in the open transaction
(`pending`). The constructor arguments (`conf`) are a free choice of `Init`.

| code | definition |
|---|---|
| `_insert_or_update` 136-172 | `Execute`, `ExecuteFails`, `KeepStatement` |
| `insert` of the multi class 670-679 | `BufferRow` |
| `_convert` raising ValueError 509-548 | `Unconvertible` |
| `__enter__` 122-131 | `Enter` |
| `commit` 256-280 and 681-698 | `CommitNothing`, `BatchFails`, `EndBatch`, `CommitRefused`, `RollbackRefused`, `DryRunFails`, `HandOver`: one action per way out |
| `__exit__` 133-134 | is a call of `commit()` |

`status` is what the caller knows of each change; `SavedIsCommitted`,
`CommittedIsSaved` and `PendingIsCounted` relate it to the database.

`AtomicBatches` is the promise of `docs/components/import.rst` with no word on
how: changes collect in a batch, a batch is stored as a whole or dropped as a
whole, and after a failed call nothing is stored until the session restarts.
`ImplementsAtomicBatches` states that the uploaders in mode commit implement
it: what is durable is `stored`, the unfinished changes of mode commit are the
`batch`, and `raised` is `marked`.

Not modelled: the SQL, the filtering and escaping of columns,
`total_row_count`, a second failure inside one `commit()`, a refused rollback
in `__enter__`, calls that affect no row.

### DbCopyOrder: the order of tables

A direct model of the two nested loops of `main()` and of `referring_tables`,
one action per step of a loop. The foreign keys, the common tables and the
ignored ones are free choices of `Init`. `copy_list` is the sequence of levels
appended to it. `Cyclic = FALSE` restricts `Init` to graphs without circles.
The common tables may refer to tables that are not common, which the loop then
adds and counts with them: `DropsBounded` says how many common tables this may
leave out.

### DbCopyTable: the copy of one table

The body of the loop over the tables: it drives an instance of `Uploader` on
the target, so that every outcome of `insert`, `update`, `commit` and `__exit__`
is that of the uploader's own model. `pc` is where the program is:
`rows` (top of the loop over the source), `check` (after a row: commit due? row
limit?), `rest` (after the loop), `sync` (deletions), `tooMany` and `error` (an
exception on its way through `__exit__`), and three ends: `done` (exit code 0,
or the next table), `failed` (exit code 1) and `crashed` (a traceback).

| code | definition |
|---|---|
| 293-303 skip a row that exists | `SkipRow` |
| 304-326 give it to the uploader | `WriteRow`, `RowFails` |
| 328-340 commit every `commit_nr` rows, row limit | `NoCommit`, `CommitRows` |
| 341-347 the last commit | `NoLastCommit`, `LastCommit` |
| 362-387 deletions of sync | `AfterTable`, `Delete`, `DeleteFails` |
| 388-391 their commit or rollback | `EndSync`, `EndSyncFails` |
| 393-404 the handlers, `__exit__` | `CommitRaises`, `CommitBreaks`, `Unwind` |

A row is its primary key. The command line is a free choice among `Arguments`;
its mode `emtpy` is the default as `cmdline.py:96` spells it, its driver
`single` stands for `native` too. Nobody else writes to the tables.

Not modelled: the selection of tables and the reading of their constraints, a
failure of the source, values, one table's effect on the next (the failure
counter goes on over all tables).

### Formatter, Export, InputParser and SqlQuery: results on their way to a file

`Formatter` has the csv, sql, xml, xlsx and text formatters as operators on a
record with the attributes that decide what reaches the file: the cursor and the
columns taken from it, whether the stream is open, the sheets that xml and xlsx
hold back until `close()`, and the output itself, a sequence of headers and rows,
each row with the statement it comes from.

`Export` puts a connection and a formatter together. Its `Client` is the user of
`docs/components/export.rst`: a query, then `open()`, `header()`, a `write()` per
row and `close()`, or the formatter called as a function, which does the same;
it may keep the formatter for the next query, ask for a further sheet, and
commit or run other statements in between.

`InputParser.Parse` is what `parse()` makes of lines. `SqlQuery` is the program:
one step per statement, per commit, and per row of the output.

| code | definition |
|---|---|
| `input.py` 81-112 | `Parse`, `ReadLine`, `AddSql`, `Strip` |
| `formatter.py` `open`, `next_sheet`, `header`, `write`, `close` of the classes | `Open`, `NextSheet`, `Header`, `Write`, `Close` and one operator per class |
| `formatter.py` 116-135 `_call` | `CallFormatter`, `OpenFile`, `WriteHeader`, `ClientRow`, `CloseFile` |
| `sql_query/main.py` 216-240, the loop over statements | `ReadSelect`, `ReadUpdate`, `ReadFails`, `CommitBatch` |
| 241-247, the last commit | `ReadEnd`, `LastCommit`, `CommitRefused` |
| 160-193 `parse_output` | `NextCursor`, `FirstResult`, `FurtherSheet`, `PrintRow`, `PrintEnd`, `PrintCrashes`, `FetchFails`, `FinishOutput` |
| 292-301, the probe for a table name | `Probed` |

Properties: `UpdatesSettled` (what becomes of the updates, and how many may be
uncommitted between two statements), `ResultsWritten`, `RowsUnderOwnHeader` and
`WrittenIsSaved` (what a formatter's file holds). `ResultsWritten` is about runs
in which the database does not fail. One that ends without a traceback has
executed its input up to the first statement that fails, which ends the loop,
and has written every query it executed. One that crashes has of each result all
rows in the file or none. Every run with two executed queries crashes (section
5), so that several results in one file, and the limit of 20, are only met on
the way to a traceback; `RowsUnderOwnHeader` and `WrittenIsSaved` are checked for
several results with the `Client`.

`OpenSql` is `SqlFormatter.open()` with the columns given, as sql-query does.
Without them the uploader it makes asks the database, on a cursor of its own
that it closes again (`uploader.py:105-112`), and may raise; that is not in the
model.

### TableImport and TableUpload: files on their way into a table

`TableImport` has the column names and the rows of csv and xlsx files, and the
reading of ldif line by line, next to a reference definition of the records of a
file as the documents describe it (`TableAsWritten`, `LdifAsWritten`).
`TableUpload` is `upload_table()` and the same loop over ldif: the importer is
read in chunks, each record is inserted by a `ParameterUploader`, the numbers of
the key column come from `get_pk_counter`, whose counters outlive an upload, and
other processes insert into the same table. The counter is an addition to
`upload_table()`, which asks for none: the model is the program's loop with the
`add_counter()` of the documents before it, as a user of the library would write
it.

| code | definition |
|---|---|
| `table_import.py` 27-49, 150-178 | `UniqueColumnName`, `Columns` |
| 188-219 (csv), 453-480 (xlsx), the chunks | `ReadChunk`, `PositionAfter`, `CsvRow`, `XlsxRow`, `RecordOf` |
| 300-375 (ldif) | `ReadLine`, `LdifLine`, `ParseAttribute`, `Deliver`, `LdifEnd` |
| `uploader.py` 31-61 `get_pk_counter` | `CounterRead`, `MaxKey`, `Drawn`, `Key` |
| `sql_query/main.py` 92-103 | `Begin`, `RowOfLoop` (`SkipRow`, `Insert`, `KeyTaken`, `InsertRefused`, `BadValue`), `Leave` |
| `uploader.py` 133-134, 256-276, the end of the transaction | `Exit` (`TransactionEnds`, `TransactionRefused`) |

Properties: `UploadStored` (an upload that ends well has added the records of its
file, each once, those with a key of their own under it and the others in order; one
that ends with a refused insert, rolled back, leaves nothing), `CounterKeysFresh` (what
is in the way of a counter's key is never a key it gave itself), `UploadsEnd`.

### Security: master passwords, configuration files, lwetl-security

A password is the sequence of keys it is encrypted with, a process the program it
runs and the global `KEY` of `security.py`. The key ring and the files stay
between processes; the user may type any key, and `LWETL` may hold any. A key of
32 characters (`Whole`) stops lwetl-security (`ParseFails`, `SetFails`), but is
in the key ring by then if it was typed; a login that meets one takes the text of
the file for the password, as it does whenever it cannot decrypt.

| code | definition |
|---|---|
| `config_parser.py` 66-83, 189-202 | `Over`, `Merge`, `Loaded` |
| `security.py` 22-66 | `InitKey`, `GetKey`, `KeyAtHand`, `Typed` |
| `security.py` 69-105 | `EncryptAlias`, `EncryptFails`, `Decrypted` |
| `lwetl_security/main.py` 51-63, 108-112 | `ParseCredentials`, `ParseFails`, `Parsed` |
| 114-149, the commands | `Test`, `Set`, `SetFails`, `RemoveEncryption`, `DeleteKeyring` |
| 151-169 | `EncryptAlias`, `Write` |
| `config_parser.py` 86-118, a login by alias | `Login` |

Properties: `NeverTwiceEncrypted`, `LoginsKeepWorking`. Encryption with a key is
taken to be opened by that key only. The output may go to any of the files
(`target`; the option `-o -` chooses the largest, `main.py:105-106`, which need
not be the one that wins). When a file that wins over the output has another
setting of `encrypt`, or another text for one of the aliases, then what it says
stays in force (`Overruled`), and `LoginsKeepWorking` claims nothing until the
next write.

## 3. Runs, bounds and fairness

Passing runs:

| run | question | bounds | states |
|---|---|---|---|
| `JdbcSafety` | is the connection consistent under every sequence of calls, refused closes and one-shot queries included? | 3 cursors, 3 statements, 1 iterator, results of 0 or 2 rows, fetches of 1 row, limits 0 and 1 | 1.43 million |
| `JdbcLive` | do two interleaved iterators end and release their cursors, and who leaves a hidden cursor behind? | 2 cursors, 3 statements, 2 iterators, one-shot calls | 1.04 million |
| `UploaderModes` | do two uploaders of any class, mode and `exit_on_fail` on one connection store nothing twice and pipe in order? | 3 changes, 1 failure | 474 thousand |
| `UploaderRefines` | does an uploader that raises on failure store its batches atomically? | 4 changes, 2 failures | 1830 |
| `DbCopyOrder` | is the order right for every acyclic graph, does the loop end, and how many tables may it leave out? | 3 tables, all acyclic graphs, any of the tables common, any ignored | 20 thousand |
| `DbCopyTable` | does the copy of a table do what its options say, whatever fails? | keys 1 to 4, all sources and targets, commits every 1 or 2 rows, 2 failures, deletions by 2 | 695 thousand |
| `TableUpload` | does the table hold what the file says, numbered without clashes, whatever fails and whoever else inserts? | tables of 2 columns and up to 3 rows, ldif files of up to 3 lines (5 when the first is a dn), chunks of 1 or 2, limits 0 and 1, 2 uploads, 2 spellings, 1 outside insert, 1 failure of an insert, a commit or a rollback | 589 thousand |
| `SqlQuery` | are the updates settled and the results written, and does each row reach the file below its own header? | inputs of up to 4 statements or 3 odd lines, `commit_nr` 2, 1 for the limit of 20 queries, row limits 0 and 1, 1 failure, a statement of two lines; clients with up to 3 statements | 2.8 million |
| `Security` | do passwords stay readable, and encrypted once, through any sequence of commands and keys? | 2 aliases, one with an `@`, 2 files, either of them the output, 2 keys and one of 32 characters, 4 processes | 704 thousand |

Violation runs, each with one property taken from the documents and the trace
that breaks it (section 5): `DbCopyTolerance`, `SqlQueryResults`,
`SecurityReset`.

**Why the bounds are enough.** Connection: a wrong life-cycle needs a kept and
a plain cursor and one statement more; a refused close one cursor more; a
fetch of one row at a time makes each row a separate visit to the driver, and
two rows are one that is delivered and one that is left. With two cursors and
three statements a query may give its cursor up and two others still run. Uploader: a batch
that fails halfway, is sent again and meets a second failure needs two rows
and two faults; four changes are two batches of two. Order of tables: three
tables give a chain, a fork, a join and a circle; the theorems of section 4
cover the rest. Copy of a table: four keys give a full batch, a rest, a failed
row, and two deletions of which one is partial; two failures give the first,
tolerated one and the one that is too many. The commands whose options
do not interact are left out by `MCArguments`.

Upload: the five kinds of row are two good ones, of which one has an empty cell, an
empty one, one with a value that cannot be converted and one wider than the
header; three rows in chunks of two cross a chunk and end inside one, and two
different rows may come in either order; the headers are a proper one, one with a
name twice and one with the key column. Two uploads and two spellings make one
counter stale for the other. Ldif: five lines hold two records, or
one with a continued line and a blank line. sql-query: four
statements are two updates that fill a batch of two rows, a query between them,
and one statement more; one statement has two lines, so that the parser joins
them; with a limit of 1 in place of 20 the limit is reached and
passed by these inputs. The class `text` is not in the run: its operators are
those of csv. Security: two processes that set different keys, one that removes,
and one that connects are all it takes to mix keys; with two files, one wins over
the other, and the output goes to either of them or to standard output.

**Deadlock** is not checked, in any run: the programs end, and every model has
bounds at which its callers have nothing left to ask for.

**Fairness.** `JdbcLive`: weak fairness of each iterator's next visit (`Iterate`):
the consumer of an iterator asks for the next row, or breaks out of its loop
and leaves the iterator, as those in the package do; it does not stay at a row
for ever. Nothing is assumed about callers. `DbCopyOrder` and `DbCopyTable`: weak
fairness of the next step as a whole: a single-threaded program without waits
goes on. `TableUpload`: weak fairness of `Upload`, the steps of the process that
uploads, and none of the others that insert. The uploader has no fairness,
for nothing obliges its caller; `SqlQuery` and `Security` have safety
properties only.

**Waivers in the properties.** `PoolInv`, `SameLifeCycle`, `OpenResultsKnown`,
`MaxRowsBound` and `NoLeak` spare cursors the driver has refused to close,
which the code leaves in an undefined place (`close_all_cursors` drops them
from the list but not from `current_cursor`). `KeptComplete` speaks of kept
cursors with one reader: on plain cursors, commits close and statements
overwrite by design (`docs/components/connection.rst`). `SavedIsCommitted` is
checked for databases that end the transaction when they refuse a commit
(`RefusedCommits`), without auto-commit: in auto-commit mode a half-executed
batch is durable, and no code prevents it. Where uploaders share a connection,
only `AtMostOnce` and `PipeInOrder` are claimed; the documents exclude more
(`import.rst:324-326`). `CommittedIsSaved` leaves `update` and `delete` on the
multi class aside (section 5). `DbCopyTable` leaves out the mode sync with a
row limit, and `UploadStored` speaks of files as the documents describe them
(`Proper`): columns of different names, no row wider than the header, ldif
records of two attributes or more. `RowsUnderOwnHeader` and `WrittenIsSaved`
assume that an xml or xlsx formatter that has a cursor is not opened with
another (`ReuseBooks = FALSE`), and `LoginsKeepWorking` that remove was never
run with a key that does not open the file (`damaged`), and that no file that
wins over the last output says otherwise (`overruled`). `NoLeak` and
`QueryReleases` spare iterators that failed or were left in the middle of a
result, and queries that turn out to be updates (`abandoned`).
`ResultsWritten` and `Mirrored` are stated for runs without a failure of the
database.

**Constants that show what a waiver hides.** With these values TLC finds a
counterexample: `ReuseKept = TRUE` in `JdbcSafety` (`KeptUndisturbed`),
`BadValues = TRUE`
in `UploaderRefines` (`ImplementsAtomicBatches`), `Cyclic = TRUE` (`Terminates`) in `DbCopyOrder`, an
argument with mode sync and `maxRows` above 0 in `DbCopyTable`
(`OnlyObsoleteRemoved`), `ReuseBooks = TRUE` in `SqlQuery`
(`RowsUnderOwnHeader`).

## 4. Proofs

All theorems are proved by TLAPS for every value of the constants that satisfies
the `ASSUME` of the module and the assumptions named here.

`JdbcCursors_proofs`:

- `TypeCorrect`: type correctness, by one lemma per operator of the pool and
  per kind of step.
- `PoolConsistent` (assuming `~ReuseKept`): `PoolInv`. It is inductive as it
  stands, given the types: `Consistent(p, refused)` is stated of a pool and a
  set of refused cursors, so that each operator of `JdbcPool` has a lemma that
  it preserves it, and the lemmas compose as the operators do in `execute`.
- `LifeCycleRespected` (assuming `~ReuseKept`): `SameLifeCycle`, which follows
  from `PoolInv`: the current cursor carries the flag it is stored with, and a
  recalled one is chosen by it.
- `ResultsKnown`: `OpenResultsKnown`, without any assumption on the callers. The
  invariant `ResultInv` adds that the current cursor is known too, since a
  statement may leave its result there.
- `RowLimitKept`: `MaxRowsBound`. An iterator with a limit goes on fetching after
  the limit has closed its cursor (`jdbc.py:671`); `ResultInv` says that a cursor
  without a result has no rows left, so that only one whose close was refused
  could deliver one more.
- `NoCursorLeaks` (assuming `~ReuseKept`): `NoLeak`. `LeakInv`: every kept cursor
  was given to a caller, or its close was refused, or its query gave it up, or
  it holds a result and an iterator that is still open will close it. The
  result is part of it because an iterator on a cursor without one fails and
  closes nothing.
- `KeptIteratorsComplete` and `KeptCursorsUndisturbed` (assuming `~ReuseKept`):
  `KeptComplete` and `KeptUndisturbed`. `LifeInv` says that no cursor serves
  plain and kept users at once; `CourseInv` that an iterator alone on its
  cursor has seen no row of another statement, and that what it has delivered,
  what is in its buffer and what the cursor has left add up to the size of its
  result.

`Uploader_proofs`:

- `UploaderTypeCorrect`: type correctness.
- `OnlyCommittedSaved`, `NothingForgotten`, `CommitStores`, `StoredOnce`:
  `SavedIsCommitted`, `PendingIsCounted`, `CommittedIsSaved` and `AtMostOnce`,
  for any number of uploaders, changes and failures, under `Separate`: one
  uploader touches the database per transaction, no auto-commit, updates and
  deletes not through the multi class, and databases that end the transaction
  when they refuse a commit. One invariant carries the four, `BatchInv`: what
  is pending belongs to the uploader that touches the database and is counted
  (`PendingInv`); while it still asks for commits it is a change of the open
  batch, once (`OpenInv`); what is saved was promised, once (`SavedInv`); the
  buffer holds own changes (`BufferInv`); and nothing of an open batch is
  missing (`CompleteInv`), without which a commit might promise what it does
  not store.
- `BatchesAreAtomic`: under `Strict` (besides, no values that cannot be
  converted, and `exit_on_fail`) each uploader implements `AtomicBatches`, one
  lemma per action that it is a step of the abstract specification or a
  stutter.
- `PipeHandsOver`: `PipeInOrder`, for any number of uploaders on a connection
  and without `Separate`. `PipeLine`: what an uploader has handed over,
  followed by what it keeps for the next `commit()`, is in the order of the
  calls; the first part are its changes with the status "handed", the second
  those that are still asked for, and the count of the next commit is the
  length of the second.

`DbCopyOrder_proofs`:

- `OrderTypeCorrect`: type correctness.
- `ForeignKeysRespected` and `NoTableTwice`: `FKOrder` and `CopiedOnce`, for
  every graph, circles included. Neither is inductive. `OrderInv` adds that
  each level is disjoint from the others and that every prefix of the levels is
  closed under references; `AddLevel` keeps it because it runs when
  `Referring(front)` is empty, and then every table a new one refers to is in
  an earlier level or is the table itself.
- `FewTablesDropped`: `DropsBounded`, for every graph, circles included.
  `WithinInv`: whatever set is closed under the references of the common
  tables holds the list; when the list is as long as there are common tables,
  it lacks as many of them as it holds others, and those are in the set.

`DbCopyTable_proofs`:

- `ToleranceKept`: `FailsTolerated`. `ToleranceInv`: in every place from which the
  program may still end well, the failures counted are within `max_fail`.
- `NothingNeededRemoved` (assuming `SyncWithoutLimit`: no command line joins
  the mode sync and a row limit): `OnlyObsoleteRemoved`. `ObsoleteInv`: the
  mode sync never leaves the loop over the source early, and no key that is to
  be deleted, in an open deletion or removed is in the source.
- `NothingWithoutActivate`: `OnlyActivated`, whatever fails. `UntouchedInv`:
  without `-a` the uploader is in the mode rollback, and nothing is saved or
  removed.

- `CommitsInTime`: `CommittedInTime`, over the invariants of the uploader.
  `BatchInv` compares the rows that are open, in the transaction or in the
  buffer of the multi class (`Open`), with the count of the program: a row that
  was refused is counted and not open, so that the two differ, but never the
  other way.
- `CopyMirrors`: `Mirrored`. `RowsInv`: a row of the source that has been read
  was given to the uploader or existed before. `CoverInv`: without a failure
  each row that was given is open or saved, and none is open after the last
  commit. `EndInv`: without a limit nothing is left unread. `MirrorInv`: the
  deletions of sync that are still to be done, done or committed are together
  what the source lacks.
- `CopyTypeCorrect`: type correctness, with the uploader's (`UploaderInv`).

`FoldLemmas` has what the proofs about parsers, sums and merges share. The folds
of the library are defined by a function on sets of indices that a `CHOOSE`
picks; `FoldExists` shows that there is one, from which follows what a fold
yields for a sequence that is one element longer. `Induction` is the induction
over the numbers as a lemma about the set of those a fact holds for, in which
the provers can instantiate it; `Least` gives it, from the well-foundedness of
the numbers.

`SqlQuery_proofs`:

- `QueryTypeCorrect`: type correctness, for every input. `ParsedStatements`
  says that the parser makes statements of the texts it has read, blank lines
  included (`StatementsOver`); `DataInv` that what a cursor holds is a result
  the input asks for, `ShapeInv` joins them with the phases.
- `UpdatesAreSettled`: `UpdatesSettled`. `UpdInv`: between two statements the
  count of rows is the sum over the uncommitted ones and below the batch size,
  and with `-a` every executed update with a row is pending or saved. When the results
  are written, and also when that ends in a traceback, what is pending has no
  rows.
- `RowsBelowOwnHeader` (assuming `~ReuseBooks`): `RowsUnderOwnHeader`. `HeadInv`:
  in the file and in the sheets held back for it the header above a row has the
  columns of the row's statement (`Clean`); while rows are written, the columns
  of the formatter are those of the cursor, and a further row would stand below
  a header with them (`Ready`).
- `FileHoldsWritten`: `WrittenIsSaved`, for the user of a formatter. `FileInv`: what
  is in the file and what the formatter holds back are together the rows it was
  given, in order.
- `ResultsReachFile`: `ResultsWritten`, for the program, without `~ReuseBooks`,
  since the program never reuses a formatter that way. The statement that takes
  the cursor of a query (section 5) is what makes it hard: `StoryPart` says
  that, as long as nothing was refused, of each query either all rows are
  written, or its result is on a cursor that is still to be printed, or the
  program is bound to stop in a traceback (`Doomed`): a collected cursor has no
  result any more, or stands twice in the list. With two collected results it
  is bound to, which follows from `LonePart`, that while statements are read
  one plain cursor is open at most; so the limit of 20 is not what ends a run
  that ends well, and `EndPart` leaves the end of the input and a statement
  that fails. `WholePart` says of every run, also one that crashes, that a
  result of which some rows are written and some not is being printed, and
  that its next row fits; a book that is not saved has no row in its file
  (`Unsaved`). `FilePart` is `FileInv` for the program, and `RowsPart` says that
  the rows written of a result are those its cursor has moved past.

`TableUpload_proofs`:

- `UploadTypeCorrect`: type correctness; that no more records are inserted, or
  wait in the chunk, than were read needs `CountInv`, which counts the record
  of an ldif file that is still under way: the end of the file delivers it
  without reading a line.
- `CounterNeverRepeats`: `CounterKeysFresh`. `KeyInv`: a row a counter has numbered
  has at most the number that the counter of its spelling has reached, also after
  a failed insert, a rollback or another upload; the keys of the table are
  bounded, without which the greatest key, where a counter begins, need not
  exist, and above 0, as a key of the file's own is a cell that is not empty.

`Security_proofs`:

- `SecurityTypeCorrect`: type correctness. `MergedFiles` shows by induction over
  the files what `Loaded` is, the merge of all of them, and that it is the merge
  of the last one into the others.
- `OneKeyOpens`: `NeverTwiceEncrypted`. `SecInv` says so of the files, of the
  configuration a process works on, and that the key of `got` is the process's.
- `LoginsSucceed`: `LoginsKeepWorking`. `LoginInv`: what the files hold together
  is plain, or encrypted with the key it was last encrypted with (`Readable`),
  until a remove with the wrong key has damaged it or a file that wins over the
  output overrules it; a process in the middle of `set` has left plain or
  encrypted with its `KEY` what it has done so far.

**Assumptions.** The modules assume of their constants what the code takes for
granted: types, and, in `SqlQuery` and `Security`, that the inputs are
statements with a meaning (`InputsAssumption`) and that the first files hold
plain passwords (`FilesAssumption`); in `TableUpload`, that an ldif file has no
attribute with the name of the key column, which holds numbers (`JobsAssumption`). A theorem names what it assumes besides:
`~ReuseKept`, `Separate`, `Strict`, `SyncWithoutLimit`, `~ReuseBooks`. Section 3 lists the
counterexamples TLC finds where one of them does not hold.

**Checked by TLC only.** The liveness properties (`QueryReleases`, `Terminates`,
`CopyEnds`, `UploadsEnd`), which are out of the reach of the prover; and
`UploadStored`, which compares what is stored with a reference reading of the
whole file: an induction over its rows through the operators of the library that
sort and select.

## 5. Where the code and its documents disagree

With a run that shows it:

- `DbCopyTolerance` (`db_copy/main.py:317`): after one tolerated failure every
  later commit of the table is a rollback, and the program reports one error
  and exit code 0.
- `SqlQueryResults` (`sql_query/main.py:222`): after a query the next statement
  runs on the cursor that was just collected for the output; the rows are lost,
  and the output ends in a traceback.
- `SecurityReset` (`security.py:37`): the command set asks for a new password and
  encrypts with the first key the process has used.

Seen while modelling, in the models as the code has them, without a run of
their own (section 3 names the constants that show the first, third and fifth, and that
circles of tables keep the loop busy):

- `jdbc.py:556`: a kept cursor that becomes current again is taken for a plain
  one, and later overwritten or closed.
- `jdbc.py:736`: `query_single` leaves its kept cursor open (`Leave`);
  `jdbc.py:663`, 670: so does an iterator that fails in the middle of its result
  (`NextRaises`).
- `uploader.py:539`: a value that cannot be converted does not mark the uploader,
  and the rows before it are committed, against `import.rst:263`.
- `db_copy/main.py:218`: a table may be left out when common tables refer to
  tables that are not (`DropsBounded`), which `referring_tables` returns too,
  although its comment at 32-33 promises tables "both in the input list and
  referenced"; at 221, tables that refer to each other keep the
  loop busy for ever.
- `db_copy/main.py:363`: `-r` with the mode sync deletes rows that the source has.
- `jdbc.py:671-673`: after its last row an iterator with `max_rows` fetches from
  the cursor it has closed, and raises (`NextFails`).
- `uploader.py:270`: the message of a dry run with `fstream` has an unmatched
  brace; `commit()` raises `ValueError` (`DryRunFails`).
- `uploader.py:682`: `commit()` of the multi class returns without committing
  updates and deletes when no insert is buffered (`CommitNothing`), against
  `import.rst:390`.
- `db_copy/main.py:245`: the switch to the driver single writes to `args.mode`,
  so that the table is copied with the mode `single`, that is, like new (`Mode`).
- `db_copy/main.py:338`: the row limit lets one row more through (`PastLimit`).
- `db_copy/main.py:329`: `SQLExecuteException` of the multi driver's commit has no
  handler (`CommitBreaks`).
- `db_copy/cmdline.py:96`: the default mode is `emtpy`.
- `import.rst:238-240`: describes the mode COMMIT as performing a rollback.
- `sql_query/main.py:217`: the limit of 20 queries is tested with `>`: 21 pass
  (`TooMany`).
- `formatter.py:327-348`, 461-475: an xml or xlsx formatter opened again makes
  its first sheet for the cursor it knows from before (`StaleBook`);
  `formatter.py:480`: xlsx saves over a file that was to be appended to
  (`CloseXlsx`), though `export.rst:87-89` documents `append`.
- `table_import.py:49`: `unique_column_name` searches a free name and returns the
  one it was given (`UniqueColumnName`).
- `table_import.py:348`: a blank line after a record of a single attribute ends
  the input (`LdifLine`).
- `lwetl_security/main.py:53`: a password with an `@` is never encrypted by set
  (`Split`).
- `lwetl_security/main.py:138`: remove with a key that does not open the
  passwords writes them as they are, with `encrypt: false` (`damaged`); a later
  set encrypts none of them: the text is too long, and `encrypt` raises
  (`EncryptFails`).
- `security.py:29`: a key of 32 characters stays a string, and raises `TypeError`;
  `get_key` has put it into the key ring by then, if it was typed, where it
  stops every later run that decrypts (`ParseFails`).
- `lwetl_security/main.py:104`: the output `-` means the largest of the input
  files, which then receives the merged content of all, and need not be the file
  that wins. With an alias in the first file and `encrypt: false` in the second,
  set with output to the first encrypts a password that a login then takes for
  plain (`Overruled`).
- `config.rst:12-14`: the current directory is said to win; `config_parser.py:60`
  reads it first, and later files win.

Seen in lines that no model translates:

- `sql_query/main.py:290`: an argument that is a file name, and a word that is
  no table, make the program read its standard input.
- `formatter.py:370`: xml without pretty print writes the representation of a byte
  string.
- `sql_query/main.py:70`: the test for a known format names `xls` in place of
  `xlsx`; at 93 `commit_count` reaches an uploader that does not look at it.
- `lwetl_security/main.py:142`: `delete-keyring` looks under the service name
  of its own module, under which `security.py` never stores a key; before that,
  reading the aliases may ask for a key and store it.
- `config.rst:56-61`: the options `-c` and `-r` of lwetl-security do not exist;
  the example at 134 spells `encrypt` as `encrypted`.

## 6. Not modelled

- **Row transformation** (`jdbc.py` 87-360): which Python value stands for which
  value of a driver. No model tells values apart.
- **Connecting**: drivers, the Java virtual machine, tnsnames, downloads.
- **Statistics**, `queries.py`, `jdbc_info.py`, `table_cardinality`, `utils.py`,
  `exceptions.py`: SQL text, printing and small conversions; nothing that
  outlives a call.
- **Columns of the sql formatter**: a formatter opened without columns asks the
  database for them (`uploader.py:105-112`), which may fail; the models give
  them, as sql-query does.
- **Layout**: widths, styles, encodings, the guess of a file's format.
- **A crash while the configuration file is written**: the file is opened for
  writing first, without a copy, so the content is lost; what a half-written
  file holds is none of the values the model knows (`Write` is one step).
- **Threads**: one thread uses a connection.

## 7. Plan

1. `DbCopyTable` over several tables, with the failure counter they share and
   the foreign keys of `DbCopyOrder`.
2. `UploadStored` as a theorem, first for files of class csv and xlsx: that the
   rows delivered so far are those the reference reading has up to `position`.
