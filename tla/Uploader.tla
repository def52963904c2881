------------------------------- MODULE Uploader -------------------------------
(***************************************************************************)
(* The uploader classes of src/lwetl/uploader.py at work on one database   *)
(* connection and its transaction: NativeUploader and ParameterUploader    *)
(* ("single", one statement per row) and MultiParameterUploader ("multi",  *)
(* the rows of a batch in one executemany at commit).                      *)
(*                                                                         *)
(* A change is one call of insert(), update() or delete() that affects     *)
(* rows (one that affects none leaves no trace); changes are numbered in   *)
(* the order of the calls. What the SQL says and which cursor carries it   *)
(* is left out: an uploader runs its statements on a cursor of its own     *)
(* (execute with use_current_cursor=False). So is the second failure of    *)
(* one commit(), and a rollback the database refuses in __enter__, which   *)
(* raises before anything is reset.                                        *)
(***************************************************************************)
EXTENDS Integers, Sequences, FiniteSets

CONSTANTS
  Uploaders,      \* the uploaders that share the connection
  Configs,        \* the arguments they may be constructed with: the class
                  \* (kind), commit_mode, exit_on_fail, whether fstream is given
  Shared,         \* whether several of them may touch the database
  AutoCommit,     \* auto_commit of the connection
  MaxChanges,     \* bound: changes asked for
  MaxFaults,      \* bound: failures of the database
  RefusedCommits, \* what a refused commit does: "keep" or "drop" the transaction
  BadValues,      \* whether insert() and update() meet values they cannot convert
  ModifyOnMulti   \* whether update() and delete() are used on the multi class

ConfigType == [kind : {"single", "multi"},
               mode : {"dryrun", "pipe", "commit", "rollback"},
               exit : BOOLEAN,
               stream : BOOLEAN]

ASSUME UploaderAssumption ==
  /\ IsFiniteSet(Uploaders)
  /\ Configs \subseteq ConfigType
  /\ \A f \in Configs : f.kind = "multi" => f.mode # "pipe"
  /\ Shared \in BOOLEAN /\ AutoCommit \in BOOLEAN
  /\ MaxChanges \in Nat /\ MaxFaults \in Nat
  /\ RefusedCommits \subseteq {"keep", "drop"}
  /\ BadValues \in BOOLEAN /\ ModifyOnMulti \in BOOLEAN

VARIABLES
  conf,     \* the arguments of each constructor
  saved,    \* external: how often each change has been made durable
  pending,  \* external: how often each is in the open transaction
  rowCount, \* Uploader.row_count
  errors,   \* Uploader.has_sql_errors
  pipe,     \* Uploader.pipe_buffer
  buffer,   \* MultiParameterUploader.data_buffer
  piped,    \* history: what commit() has returned in pipe mode
  author,   \* history: the uploader of each change
  status,   \* history: what the caller knows about each change, see below
  raised,   \* history: whether a statement or an argument of the session failed
  faults    \* number of failures of the database

vars == <<conf, saved, pending, rowCount, errors, pipe, buffer, piped,
          author, status, raised, faults>>

database == <<saved, pending>>

(***************************************************************************)
(* The status of a change:                                                 *)
(*   "asked"     the call has returned, no commit() of its uploader since; *)
(*   "committed" commit() has returned, having asked for a commit;         *)
(*   "refused"   commit() has raised CommitException;                      *)
(*   "undone"    commit() or __enter__ have rolled back, or the call has   *)
(*               failed;                                                   *)
(*   "handed"    commit() has returned in the modes dryrun and pipe.       *)
(***************************************************************************)
Changes == 1 .. MaxChanges
Asked == DOMAIN author
Own(u) == {c \in Asked : author[c] = u /\ status[c] = "asked"}

Touches(f) == f.mode \in {"commit", "rollback"}

None == [c \in Changes |-> 0]

Init ==
  /\ conf \in [Uploaders -> Configs]
  /\ Shared \/ Cardinality({u \in Uploaders : Touches(conf[u])}) <= 1
  /\ saved = None /\ pending = None
  /\ rowCount = [u \in Uploaders |-> 0]
  /\ errors = [u \in Uploaders |-> FALSE]
  /\ pipe = [u \in Uploaders |-> << >>]
  /\ buffer = [u \in Uploaders |-> << >>]
  /\ piped = [u \in Uploaders |-> << >>]
  /\ author = << >> /\ status = << >>
  /\ raised = [u \in Uploaders |-> FALSE]
  /\ faults = 0

-----------------------------------------------------------------------------
(* The connection. In auto-commit mode a statement is durable at once and  *)
(* Jdbc.commit and Jdbc.rollback do not reach the database.                *)

Plus(f, cs) == [c \in Changes |-> IF c \in cs THEN f[c] + 1 ELSE f[c]]
Saved(cs) == IF AutoCommit THEN Plus(saved, cs) ELSE saved
Pending(cs) == IF AutoCommit THEN pending ELSE Plus(pending, cs)

\* The changes cs are executed, and then nothing, a commit, or a rollback.
Run(cs) == saved' = Saved(cs) /\ pending' = Pending(cs)
RunAndCommit(cs) ==
  /\ saved' = [c \in Changes |-> Saved(cs)[c] + Pending(cs)[c]]
  /\ pending' = None
RunAndUndo(cs) == saved' = Saved(cs) /\ pending' = None

Fault == faults < MaxFaults /\ faults' = faults + 1
NoFault == UNCHANGED faults

-----------------------------------------------------------------------------
NewChange == Len(author) + 1

\* A call of insert, update or delete, and what the caller learns of it.
Call(u, s) ==
  /\ Len(author) < MaxChanges
  /\ author' = Append(author, u)
  /\ status' = Append(status, s)
  /\ UNCHANGED <<conf, piped>>

\* _insert_or_update in the modes commit and rollback: the statement succeeds.
Execute(u) ==
  /\ Touches(conf[u])
  /\ Call(u, "asked")
  /\ Run({NewChange}) /\ NoFault
  /\ rowCount' = [rowCount EXCEPT ![u] = @ + 1]
  /\ UNCHANGED <<errors, pipe, buffer, raised>>

\* The database refuses the statement: with exit_on_fail the call raises and
\* the uploader is marked, otherwise the failure is only logged.
ExecuteFails(u) ==
  /\ Touches(conf[u])
  /\ Call(u, "undone")
  /\ Fault
  /\ errors' = [errors EXCEPT ![u] = @ \/ conf[u].exit]
  /\ raised' = [raised EXCEPT ![u] = @ \/ conf[u].exit]
  /\ UNCHANGED <<database, rowCount, pipe, buffer>>

\* _insert_or_update in the modes dryrun and pipe.
KeepStatement(u) ==
  /\ ~Touches(conf[u])
  /\ Call(u, "asked")
  /\ rowCount' = [rowCount EXCEPT ![u] = @ + 1]
  /\ pipe' = IF conf[u].mode = "pipe"
             THEN [pipe EXCEPT ![u] = Append(@, NewChange)] ELSE pipe
  /\ UNCHANGED <<database, errors, buffer, raised, faults>>

\* A value that cannot be converted (_convert, _convert_date): the call
\* raises ValueError before anything is executed, buffered or counted.
Unconvertible(u) ==
  /\ BadValues
  /\ Call(u, "undone")
  /\ raised' = [raised EXCEPT ![u] = TRUE]
  /\ UNCHANGED <<database, rowCount, errors, pipe, buffer, faults>>

\* insert, update and delete of the single classes; update and delete of the
\* multi class, which inherits them.
Statement(u) ==
  /\ conf[u].kind = "single" \/ ModifyOnMulti
  /\ Execute(u) \/ ExecuteFails(u) \/ KeepStatement(u)

\* insert of the multi class.
BufferRow(u) ==
  /\ conf[u].kind = "multi"
  /\ Call(u, "asked")
  /\ buffer' = [buffer EXCEPT ![u] = Append(@, NewChange)]
  /\ rowCount' = [rowCount EXCEPT ![u] = @ + 1]
  /\ UNCHANGED <<database, errors, pipe, raised, faults>>

-----------------------------------------------------------------------------
\* The end of a batch: what the caller learns of its changes.
Settle(u, s) ==
  status' = [c \in Asked |-> IF c \in Own(u) THEN s ELSE status[c]]

\* Mutants of Enter: the statements kept for the pipe, or those in the
\* transaction, survive the start of a session.
EnterKeepsPipe(u) ==
  /\ IF rowCount[u] > 0 /\ Touches(conf[u])
     THEN RunAndUndo({}) ELSE UNCHANGED database
  /\ Settle(u, "undone")
  /\ rowCount' = [rowCount EXCEPT ![u] = 0]
  /\ errors' = [errors EXCEPT ![u] = FALSE]
  /\ raised' = [raised EXCEPT ![u] = FALSE]
  /\ buffer' = [buffer EXCEPT ![u] = << >>]
  /\ UNCHANGED <<conf, pipe, piped, author, faults>>

EnterKeepsPending(u) ==
  /\ Settle(u, "undone")
  /\ rowCount' = [rowCount EXCEPT ![u] = 0]
  /\ errors' = [errors EXCEPT ![u] = FALSE]
  /\ raised' = [raised EXCEPT ![u] = FALSE]
  /\ pipe' = [pipe EXCEPT ![u] = << >>]
  /\ buffer' = [buffer EXCEPT ![u] = << >>]
  /\ UNCHANGED <<conf, database, piped, author, faults>>

\* __enter__: an unfinished batch is erased.
Enter(u) ==
  /\ IF rowCount[u] > 0 /\ Touches(conf[u])
     THEN RunAndUndo({}) ELSE UNCHANGED database
  /\ Settle(u, "undone")
  /\ rowCount' = [rowCount EXCEPT ![u] = 0]
  /\ errors' = [errors EXCEPT ![u] = FALSE]
  /\ raised' = [raised EXCEPT ![u] = FALSE]
  /\ pipe' = [pipe EXCEPT ![u] = << >>]
  /\ buffer' = [buffer EXCEPT ![u] = << >>]
  /\ UNCHANGED <<conf, piped, author, faults>>

\* Mutant of AsksCommit: failed statements are forgotten.
AsksCommitAnyway(u) == conf[u].mode = "commit"

\* Whether commit() asks the database for a commit, or for a rollback.
AsksCommit(u) == conf[u].mode = "commit" /\ ~errors[u]

\* commit() finds nothing to do and returns.
CommitNothing(u) ==
  /\ IF conf[u].kind = "multi" THEN buffer[u] = << >> ELSE rowCount[u] = 0
  /\ Settle(u, IF ~Touches(conf[u]) THEN "handed"
               ELSE IF AsksCommit(u) THEN "committed" ELSE "undone")
  /\ UNCHANGED <<conf, database, rowCount, errors, pipe, buffer, piped, author,
                 raised, faults>>

HasBatch(u) ==
  IF conf[u].kind = "multi" THEN buffer[u] # << >> ELSE rowCount[u] > 0

BatchRows(u, n) == {buffer[u][i] : i \in 1 .. n}

\* The multi class sends its rows in one executemany. When the database
\* refuses them it may have executed some; with exit_on_fail commit() raises
\* SQLExecuteException and keeps the rows and the count.
BatchFails(u) ==
  /\ HasBatch(u) /\ conf[u].kind = "multi"
  /\ Touches(conf[u]) /\ conf[u].exit
  /\ Fault
  /\ \E n \in 0 .. Len(buffer[u]) - 1 : Run(BatchRows(u, n))
  /\ errors' = [errors EXCEPT ![u] = TRUE]
  /\ raised' = [raised EXCEPT ![u] = TRUE]
  /\ UNCHANGED <<conf, rowCount, pipe, buffer, piped, author, status>>

\* Mutant of Sent: the last row is left out.
SentButLast(u) ==
  {IF conf[u].kind = "multi" THEN BatchRows(u, Len(buffer[u]) - 1) ELSE {}}

\* The rows the multi class sends on the way to the end of commit(): all of
\* them, or fewer when exit_on_fail is off and the failure is only logged.
Sent(u) ==
  {IF conf[u].kind = "multi" THEN BatchRows(u, Len(buffer[u])) ELSE {}}

PartlySent(u) ==
  IF conf[u].kind = "multi" /\ ~conf[u].exit
  THEN {BatchRows(u, n) : n \in 0 .. Len(buffer[u]) - 1}
  ELSE {}

\* Mutant of BatchDone: the rows of all batches are taken off the count.
BatchDoneTotal(u, s) ==
  /\ Settle(u, s)
  /\ rowCount' = [rowCount EXCEPT ![u] = @ - Cardinality({c \in Asked : author[c] = u})]
  /\ buffer' = [buffer EXCEPT ![u] = << >>]
  /\ UNCHANGED <<conf, errors, author, raised>>

\* commit() returns or raises CommitException, its batch is forgotten.
BatchDone(u, s) ==
  /\ Settle(u, s)
  /\ rowCount' = [rowCount EXCEPT ![u] = 0]
  /\ buffer' = [buffer EXCEPT ![u] = << >>]
  /\ UNCHANGED <<conf, errors, author, raised>>

\* commit() in the modes commit and rollback: a marked uploader rolls back.
EndBatch(u) ==
  /\ HasBatch(u) /\ Touches(conf[u])
  /\ \E sent \in Sent(u) \cup PartlySent(u) :
       /\ IF sent \in Sent(u) THEN NoFault ELSE Fault
       /\ IF AsksCommit(u) THEN RunAndCommit(sent) ELSE RunAndUndo(sent)
  /\ BatchDone(u, IF AsksCommit(u) THEN "committed" ELSE "undone")
  /\ UNCHANGED <<pipe, piped>>

\* The database refuses the commit: CommitException, after the reset.
CommitRefused(u) ==
  /\ HasBatch(u) /\ Touches(conf[u]) /\ AsksCommit(u) /\ ~AutoCommit
  /\ Fault
  /\ \E sent \in Sent(u), r \in RefusedCommits :
       IF r = "keep" THEN Run(sent) ELSE RunAndUndo(sent)
  /\ BatchDone(u, "refused")
  /\ UNCHANGED <<pipe, piped>>

\* Mutant of RollbackRefused: the count is reset before the error leaves.
RollbackRefusedResets(u) ==
  /\ HasBatch(u) /\ Touches(conf[u]) /\ ~AsksCommit(u) /\ ~AutoCommit
  /\ Fault
  /\ \E sent \in Sent(u) : Run(sent)
  /\ rowCount' = [rowCount EXCEPT ![u] = 0]
  /\ buffer' = [buffer EXCEPT ![u] = << >>]
  /\ UNCHANGED <<conf, errors, pipe, piped, author, status, raised>>

\* The database refuses the rollback: its DatabaseError is not among the
\* exceptions commit() handles, and leaves before the reset; the rows of the
\* multi class are forgotten all the same.
RollbackRefused(u) ==
  /\ HasBatch(u) /\ Touches(conf[u]) /\ ~AsksCommit(u) /\ ~AutoCommit
  /\ Fault
  /\ \E sent \in Sent(u) : Run(sent)
  /\ rowCount' = [rowCount EXCEPT ![u] = @ + Len(buffer[u])]
  /\ buffer' = [buffer EXCEPT ![u] = << >>]
  /\ UNCHANGED <<conf, errors, pipe, piped, author, status, raised>>

\* commit() of a dry run that reports to fstream: the message cannot be
\* formatted, and ValueError leaves before the reset.
ReportFails(u) == conf[u].mode = "dryrun" /\ conf[u].stream

DryRunFails(u) ==
  /\ HasBatch(u) /\ ReportFails(u)
  /\ rowCount' = [rowCount EXCEPT ![u] = @ + Len(buffer[u])]
  /\ buffer' = [buffer EXCEPT ![u] = << >>]
  /\ raised' = [raised EXCEPT ![u] = TRUE]
  /\ UNCHANGED <<conf, database, errors, pipe, piped, author, status, faults>>

\* commit() in the modes dryrun and pipe; pipe returns the statements.
HandOver(u) ==
  /\ HasBatch(u) /\ ~Touches(conf[u]) /\ ~ReportFails(u)
  /\ BatchDone(u, "handed")
  /\ piped' = [piped EXCEPT ![u] = @ \o pipe[u]]
  /\ pipe' = [pipe EXCEPT ![u] = << >>]
  /\ UNCHANGED <<database, faults>>

Next ==
  \E u \in Uploaders :
    \/ Statement(u) \/ BufferRow(u) \/ Unconvertible(u)
    \/ Enter(u)
    \/ CommitNothing(u) \/ BatchFails(u)
    \/ EndBatch(u) \/ CommitRefused(u) \/ RollbackRefused(u)
    \/ DryRunFails(u) \/ HandOver(u)

Spec == Init /\ [][Next]_vars

-----------------------------------------------------------------------------
Statuses == {"asked", "committed", "refused", "undone", "handed"}

\* The shape of every variable.
TypeOK ==
  /\ conf \in [Uploaders -> Configs]
  /\ saved \in [Changes -> Nat] /\ pending \in [Changes -> Nat]
  /\ rowCount \in [Uploaders -> Nat]
  /\ errors \in [Uploaders -> BOOLEAN] /\ raised \in [Uploaders -> BOOLEAN]
  /\ pipe \in [Uploaders -> Seq(Changes)]
  /\ buffer \in [Uploaders -> Seq(Changes)]
  /\ piped \in [Uploaders -> Seq(Changes)]
  /\ author \in Seq(Uploaders) /\ Len(author) <= MaxChanges
  /\ status \in Seq(Statuses) /\ Len(status) = Len(author)
  /\ faults \in 0 .. MaxFaults

\* When commit() has returned in mode commit, every change of its batch is in
\* the database, unless exit_on_fail is off and failures are only logged.
CommittedIsSaved ==
  \A c \in Asked :
    status[c] = "committed" /\ conf[author[c]].exit => saved[c] > 0

\* No change reaches the database twice, though a batch that failed halfway is
\* sent again by the next commit() of the multi class.
AtMostOnce == \A c \in Changes : saved[c] <= 1

\* Nothing is durable but what a commit() has returned for: not the rows of an
\* open batch, of one rolled back, refused or never sent.
SavedIsCommitted ==
  \A c \in Asked : saved[c] > 0 => status[c] = "committed"

\* What is open in the transaction is still counted by an uploader, so that
\* commit() and __enter__ will not take it for nothing to do.
PendingIsCounted ==
  \A c \in Asked : pending[c] > 0 => rowCount[author[c]] > 0

\* In pipe mode commit() has handed over the statements of the calls in their
\* order, each once, and the others still wait in the buffer, all counted.
PipeInOrder ==
  \A u \in Uploaders :
    LET all == piped[u] \o pipe[u]
        of(s) == {c \in Asked : author[c] = u /\ status[c] = s}
    IN conf[u].mode = "pipe" =>
         /\ \A i, j \in DOMAIN all : i < j => all[i] < all[j]
         /\ {piped[u][i] : i \in DOMAIN piped[u]} = of("handed")
         /\ {pipe[u][i] : i \in DOMAIN pipe[u]} = of("asked")
         /\ rowCount[u] = Len(pipe[u])

-----------------------------------------------------------------------------
(* The uploaders in mode commit, as the batches of AtomicBatches.          *)

Committers == {u \in Uploaders : conf[u].mode = "commit"}

Batches == INSTANCE AtomicBatches WITH
  stored <- {c \in Changes : saved[c] > 0},
  batch  <- UNION {Own(u) : u \in Committers},
  marked <- \E u \in Committers : raised[u]

ImplementsAtomicBatches == Batches!Spec
=============================================================================
