----------------------------- MODULE DbCopyTable -----------------------------
(***************************************************************************)
(* The copy of one table by db-copy (src/lwetl/programs/db_copy/main.py):  *)
(* the loop over the rows of the source, the uploader it drives on the     *)
(* target (an instance of Uploader), the commits every commit_nr rows, the *)
(* tolerance for failures, and the deletions of the mode sync.             *)
(*                                                                         *)
(* A row is its primary key, and keys are numbers: the source is read in   *)
(* their order, downwards with --fast. Nobody else writes to the tables.   *)
(* Rows always convert, so an insert or update fails in the database only. *)
(***************************************************************************)
EXTENDS Integers, Sequences, FiniteSetsExt

CONSTANTS
  MaxKey,     \* bound: primary keys
  Arguments,  \* the command lines
  DeleteSize, \* how many rows one DELETE removes, 500 in the program
  MaxFaults   \* bound: failures of the target database

Keys == 1 .. MaxKey

ArgumentsType ==
  [mode : {"emtpy", "empty", "new", "update", "sync"}, \* --mode, sic
   driver : {"single", "multi"},                       \* --driver; native
                                                       \* is like single
   activate : BOOLEAN, fast : BOOLEAN, ignore : BOOLEAN,
   commitNr : Nat \ {0}, maxRows : Nat, maxFail : Int]

ASSUME CopyAssumption ==
  /\ MaxKey \in Nat /\ MaxFaults \in Nat
  /\ DeleteSize \in Nat \ {0}
  /\ Arguments \subseteq ArgumentsType

VARIABLES
  args,    \* the command line
  source,  \* the keys of the source table
  before,  \* the keys of the target table when the program starts
  unread,  \* the source rows get_data() has not delivered yet
  keyOf,   \* the key each call of the uploader is about
  copied,  \* new_count + upd_count
  fails,   \* counters[CNT_FAIL]
  todo,    \* to_delete, the keys the mode sync still has to delete
  dropped, \* external: the keys deleted in the open transaction
  removed, \* external: the keys deleted for good
  pc,      \* where the program is
  \* the uploader, see Uploader
  conf, saved, pending, rowCount, errors, pipe, buffer, piped, author, status,
  raised, faults

uploader == <<conf, saved, pending, rowCount, errors, pipe, buffer, piped,
              author, status, raised, faults>>
inputs == <<args, source, before>>
vars == <<inputs, unread, keyOf, copied, fails, todo, dropped, removed, pc,
          uploader>>

Target == "target"

\* Mutant of Conf: the changes are committed without -a.
ConfCommits(a) ==
  [kind |-> a.driver, mode |-> "commit", exit |-> TRUE, stream |-> FALSE]

Conf(a) ==
  [kind |-> a.driver, mode |-> IF a.activate THEN "commit" ELSE "rollback",
   exit |-> TRUE, stream |-> FALSE]

Up == INSTANCE Uploader WITH
  Uploaders <- {Target}, Configs <- {Conf(a) : a \in Arguments},
  Shared <- FALSE, AutoCommit <- FALSE, MaxChanges <- MaxKey,
  RefusedCommits <- {"keep", "drop"}, BadValues <- FALSE, ModifyOnMulti <- FALSE

\* The program asks for the driver single when the mode updates rows, but
\* changes the mode, not the driver: args.mode is no longer one that updates.
Mode ==
  IF args.mode \in {"update", "sync"} /\ args.driver = "multi"
  THEN "single" ELSE args.mode

IsUpdate == Mode \in {"update", "sync"}

\* existing_records: the keys read from the target before the copy.
Existing == IF Mode = "empty" THEN {} ELSE before

Init ==
  /\ args \in Arguments
  /\ source \in SUBSET Keys \ {{}}
  /\ before \in SUBSET Keys
  /\ Mode = "empty" => before = {}
  /\ unread = source
  /\ keyOf = << >>
  /\ copied = 0 /\ fails = 0
  /\ todo = {} /\ dropped = {} /\ removed = {}
  /\ pc = "rows"
  /\ Up!Init /\ conf[Target] = Conf(args)

-----------------------------------------------------------------------------
(* One row of the source. *)

Row == IF args.fast THEN Max(unread) ELSE Min(unread)

\* Mutant of SkipRow: a skipped row is read again.
SkipRowStays ==
  /\ pc = "rows" /\ unread # {}
  /\ Row \in Existing /\ ~IsUpdate
  /\ pc' = "check"
  /\ UNCHANGED <<inputs, unread, keyOf, copied, fails, todo, dropped, removed,
                 uploader>>

\* A row that exists in the target is skipped, and with --fast ends the loop.
SkipRow ==
  /\ pc = "rows" /\ unread # {}
  /\ Row \in Existing /\ ~IsUpdate
  /\ unread' = unread \ {Row}
  /\ pc' = IF args.fast THEN "rest" ELSE "check"
  /\ UNCHANGED <<inputs, keyOf, copied, fails, todo, dropped, removed, uploader>>

\* Otherwise it is given to update() or insert() of the uploader.
GiveRow ==
  /\ pc = "rows" /\ unread # {}
  /\ Row \notin Existing \/ IsUpdate
  /\ unread' = unread \ {Row}
  /\ keyOf' = Append(keyOf, Row)
  /\ UNCHANGED <<inputs, todo, dropped, removed>>

WriteRow ==
  /\ GiveRow
  /\ \/ args.driver = "single" /\ Up!Execute(Target)
     \/ args.driver = "multi" /\ Up!BufferRow(Target)
  /\ copied' = copied + 1
  /\ pc' = "check"
  /\ UNCHANGED fails

\* Mutant of TooMany: one failure more than allowed.
OneTooMany(n) == args.maxFail >= 0 /\ n > args.maxFail + 1

TooMany(n) == args.maxFail >= 0 /\ n > args.maxFail

\* SQLExecuteException of the uploader is counted, and tolerated up to
\* max_fail times; then TooMayErrorsException leaves the with block.
RowFails ==
  /\ GiveRow
  /\ args.driver = "single" /\ Up!ExecuteFails(Target)
  /\ fails' = fails + 1
  /\ pc' = IF TooMany(fails + 1) THEN "tooMany" ELSE "check"
  /\ UNCHANGED copied

-----------------------------------------------------------------------------
(* A call of commit() of the uploader, and how the program goes on.        *)

untouched == <<inputs, unread, keyOf, copied, dropped, removed>>

\* CommitException skips the rest of the table; it ends the program unless
\* --ignore tolerates it.
Ignored(n) == args.ignore /\ args.maxFail > 0 /\ n <= args.maxFail

CommitRaises ==
  /\ Up!CommitRefused(Target)
  /\ fails' = fails + 1
  /\ pc' = IF Ignored(fails + 1) THEN "done" ELSE "failed"
  /\ UNCHANGED <<untouched, todo>>

\* No handler knows the other exceptions: SQLExecuteException of the driver
\* multi, and the error of a refused rollback.
CommitBreaks ==
  /\ Up!BatchFails(Target) \/ Up!RollbackRefused(Target)
  /\ pc' = "error"
  /\ UNCHANGED <<untouched, fails, todo>>

\* Mutant of CommitDue: one row late.
CommitDueLate == rowCount[Target] > args.commitNr

CommitDue == rowCount[Target] >= args.commitNr

\* Whether the limit on the number of rows ends the loop.
PastLimit == args.maxRows > 0 /\ copied > args.maxRows

NextRow == pc' = IF PastLimit THEN "rest" ELSE "rows"

NoCommit ==
  /\ pc = "check" /\ ~CommitDue
  /\ NextRow
  /\ UNCHANGED <<untouched, fails, todo, uploader>>

\* Mutant of CommitRows: the rows of the batch are counted again.
CommitRowsCounts ==
  /\ pc = "check" /\ CommitDue
  /\ Up!EndBatch(Target)
  /\ copied' = copied + rowCount[Target]
  /\ NextRow
  /\ UNCHANGED <<inputs, unread, keyOf, fails, todo, dropped, removed>>

CommitRows ==
  /\ pc = "check" /\ CommitDue
  /\ \/ Up!EndBatch(Target) /\ NextRow /\ UNCHANGED <<untouched, fails, todo>>
     \/ CommitRaises
     \/ CommitBreaks

-----------------------------------------------------------------------------
(* After the loop. *)

AtEnd == pc = "rest" \/ (pc = "rows" /\ unread = {})

\* Mutant of AfterTable: the rows found in the source are not spared.
AfterTableAll ==
  /\ todo' = IF Mode = "sync" THEN Existing ELSE {}
  /\ pc' = IF todo' = {} THEN "done" ELSE "sync"
  /\ UNCHANGED <<untouched, fails>>

\* The mode sync deletes what it has not found in the source.
AfterTable ==
  /\ todo' = IF Mode = "sync" THEN Existing \ (source \ unread) ELSE {}
  /\ pc' = IF todo' = {} THEN "done" ELSE "sync"
  /\ UNCHANGED <<untouched, fails>>

\* Mutant of NoLastCommit: the rows since the last commit are forgotten.
NoCommitOfRest ==
  /\ AtEnd
  /\ AfterTable
  /\ UNCHANGED uploader

NoLastCommit ==
  /\ AtEnd /\ rowCount[Target] = 0
  /\ AfterTable
  /\ UNCHANGED uploader

LastCommit ==
  /\ AtEnd /\ rowCount[Target] > 0
  /\ \/ Up!EndBatch(Target) /\ AfterTable
     \/ CommitRaises
     \/ CommitBreaks

\* An exception leaves the with block: __exit__ calls commit() once more, and
\* an exception of that call replaces the first.
Unwind ==
  /\ pc \in {"tooMany", "error"}
  /\ \/ /\ Up!CommitNothing(Target) \/ Up!EndBatch(Target)
        /\ pc' = IF pc = "tooMany" THEN "failed" ELSE "crashed"
     \/ /\ Up!BatchFails(Target) \/ Up!RollbackRefused(Target)
        /\ pc' = "crashed"
  /\ UNCHANGED <<untouched, fails, todo>>

(* The deletions run on the connection, outside of the uploader. *)

OtherFault ==
  /\ faults < MaxFaults /\ faults' = faults + 1
  /\ UNCHANGED <<conf, saved, pending, rowCount, errors, pipe, buffer, piped,
                 author, status, raised>>

Chunks == {c \in SUBSET todo : Cardinality(c) = Min({DeleteSize, Cardinality(todo)})}

Delete ==
  /\ pc = "sync" /\ todo # {}
  /\ \E chunk \in Chunks :
       /\ todo' = todo \ chunk
       /\ dropped' = dropped \cup chunk
  /\ UNCHANGED <<inputs, unread, keyOf, copied, fails, removed, pc, uploader>>

\* A failed DELETE counts as many failures as rows.
DeleteFails ==
  /\ pc = "sync" /\ todo # {}
  /\ \E chunk \in Chunks :
       /\ todo' = todo \ chunk
       /\ fails' = fails + Cardinality(chunk)
       /\ pc' = IF TooMany(fails + Cardinality(chunk)) THEN "failed" ELSE "sync"
  /\ OtherFault
  /\ UNCHANGED untouched

EndSync ==
  /\ pc = "sync" /\ todo = {}
  /\ removed' = IF args.activate THEN removed \cup dropped ELSE removed
  /\ dropped' = {}
  /\ pc' = "done"
  /\ UNCHANGED <<inputs, unread, keyOf, copied, fails, todo, uploader>>

\* The commit or rollback of the deletions is refused: CommitException, or an
\* error no handler knows.
EndSyncFails ==
  /\ pc = "sync" /\ todo = {}
  /\ OtherFault
  /\ fails' = IF args.activate THEN fails + 1 ELSE fails
  /\ pc' = IF ~args.activate THEN "crashed"
           ELSE IF Ignored(fails + 1) THEN "done" ELSE "failed"
  /\ UNCHANGED <<untouched, todo>>

Next ==
  \/ SkipRow \/ WriteRow \/ RowFails
  \/ NoCommit \/ CommitRows
  \/ NoLastCommit \/ LastCommit \/ Unwind
  \/ Delete \/ DeleteFails \/ EndSync \/ EndSyncFails

Spec == Init /\ [][Next]_vars

\* The program goes on by itself.
FairSpec == Spec /\ WF_vars(Next)
-----------------------------------------------------------------------------
Finished == {"done", "failed", "crashed"}

\* The shape of the variables of this module.
TypeOK ==
  /\ args \in Arguments /\ source \subseteq Keys /\ before \subseteq Keys
  /\ unread \subseteq source
  /\ keyOf \in Seq(Keys) /\ Len(keyOf) = Len(author)
  /\ copied \in 0 .. MaxKey /\ fails \in Nat
  /\ todo \subseteq Keys /\ dropped \subseteq Keys /\ removed \subseteq Keys
  /\ pc \in {"rows", "check", "rest", "sync", "tooMany", "error"} \cup Finished

\* The keys whose row has been stored, and the keys of the target.
StoredKeys == {keyOf[c] : c \in {x \in DOMAIN keyOf : saved[x] > 0}}
TargetKeys == (before \ removed) \cup StoredKeys

Unlimited == args.maxRows = 0 /\ (args.fast => IsUpdate)

\* Without -a the target stays as it is, whatever fails on the way.
OnlyActivated ==
  ~args.activate => StoredKeys = {} /\ removed = {}

\* A copy that ends well and reports no failure has copied every row the
\* target did not have; in the modes update and sync it has updated the others,
\* and in the mode sync the target has the rows of the source and no more.
Mirrored ==
  pc = "done" /\ fails = 0 /\ args.activate /\ Unlimited =>
    /\ source \subseteq TargetKeys
    /\ IsUpdate => source \subseteq StoredKeys
    /\ Mode = "sync" => TargetKeys = source

\* The mode sync removes no row that the source has.
OnlyObsoleteRemoved == removed \cap source = {}

\* At most commit_nr rows are open in the transaction of the uploader.
CommittedInTime ==
  Cardinality({c \in DOMAIN keyOf : pending[c] > 0}) <= args.commitNr

\* The program ends without an error code only within the tolerance given by
\* max_fail, whichever of its four places counted the failures.
FailsTolerated ==
  pc = "done" => args.maxFail < 0 \/ fails <= args.maxFail

\* A copy that ends well misses no more rows than it reports as failed.
MissingReported ==
  pc = "done" /\ args.activate /\ Unlimited /\ ~args.ignore =>
    Cardinality(source \ TargetKeys) <= fails

\* The copy of a table comes to an end.
CopyEnds == <>(pc \in Finished)
=============================================================================
