------------------------- MODULE DbCopyTable_proofs -------------------------
(* Theorems about DbCopyTable, for every value of its constants.           *)
EXTENDS DbCopyTable, FoldLemmas, FiniteSetTheorems, TLAPS

USE CopyAssumption DEF CopyAssumption

-----------------------------------------------------------------------------
(* The rows to delete are keys of the target.                              *)

KeysInv ==
  /\ args \in Arguments /\ before \in SUBSET Keys /\ todo \in SUBSET before

LEMMA ArgumentsStay == Next => UNCHANGED inputs
BY DEF Next, SkipRow, WriteRow, RowFails, GiveRow, NoCommit, CommitRows,
       CommitRaises, CommitBreaks, NoLastCommit, LastCommit, AfterTable, Unwind,
       Delete, DeleteFails, EndSync, EndSyncFails, untouched

LEMMA KeysInvariant == Spec => []KeysInv
<1>1. Init => KeysInv
  BY DEF Init, KeysInv
<1>2. KeysInv /\ [Next]_vars => KeysInv'
  <2> SUFFICES ASSUME KeysInv, [Next]_vars PROVE KeysInv'
    OBVIOUS
  <2>1. ASSUME AfterTable, UNCHANGED inputs PROVE KeysInv'
    BY <2>1 DEF AfterTable, Existing, KeysInv, inputs
  <2>2. ASSUME todo' \subseteq todo, UNCHANGED inputs PROVE KeysInv'
    BY <2>2 DEF KeysInv, inputs
  <2>3. CASE Next
    <3>1. UNCHANGED inputs
      BY <2>3, ArgumentsStay
    <3>2. AfterTable \/ todo' \subseteq todo
      BY <2>3 DEF Next, SkipRow, WriteRow, RowFails, GiveRow, NoCommit, CommitRows,
         CommitRaises, CommitBreaks, NoLastCommit, LastCommit, Unwind,
         Delete, DeleteFails, EndSync, EndSyncFails
    <3> QED
      BY <2>1, <2>2, <3>1, <3>2
  <2>4. CASE UNCHANGED vars
    BY <2>2, <2>4 DEF vars
  <2> QED
    BY <2>3, <2>4
<1> QED
  BY <1>1, <1>2, PTL DEF Spec

LEMMA ChunkSize ==
  ASSUME KeysInv, NEW chunk \in Chunks
  PROVE  Cardinality(chunk) \in Nat
<1>1. IsFiniteSet(1 .. MaxKey)
  BY FS_Interval
<1>2. chunk \subseteq 1 .. MaxKey
  BY DEF KeysInv, Chunks, Keys
<1> QED
  BY <1>1, <1>2, FS_Subset, FS_CardinalityType

-----------------------------------------------------------------------------
(***************************************************************************)
(* The tolerance for failures. While the program is in one of the places   *)
(* from which it may still end well, no more failures have been counted    *)
(* than max_fail allows.                                                   *)
(***************************************************************************)
WithinTolerance == args.maxFail < 0 \/ fails <= args.maxFail

ToleranceInv ==
  /\ fails \in Nat
  /\ pc \in {"rows", "check", "rest", "sync", "done"} => WithinTolerance

\* The three ways a call of commit() and the end of the table go on.
LEMMA CommitTolerated ==
  ASSUME KeysInv, ToleranceInv, args' = args, CommitRaises \/ CommitBreaks
  PROVE  ToleranceInv'
<1>1. args.maxFail \in Int
  BY DEF KeysInv, ArgumentsType
<1>2. CASE CommitRaises
  <2>1. fails' = fails + 1 /\ pc' = IF Ignored(fails + 1) THEN "done" ELSE "failed"
    BY <1>2 DEF CommitRaises
  <2> QED
    BY <1>1, <2>1 DEF ToleranceInv, WithinTolerance, Ignored
<1>3. CASE CommitBreaks
  BY <1>3 DEF CommitBreaks, ToleranceInv, WithinTolerance
<1> QED
  BY <1>2, <1>3

LEMMA AfterTableTolerated ==
  ASSUME ToleranceInv, WithinTolerance, args' = args, AfterTable
  PROVE  ToleranceInv'
BY DEF AfterTable, ToleranceInv, WithinTolerance

LEMMA NextTolerated ==
  ASSUME KeysInv, ToleranceInv, Next
  PROVE  ToleranceInv'
<1>1. args' = args
  BY ArgumentsStay DEF inputs
<1>2. args.maxFail \in Int
  BY DEF KeysInv, ArgumentsType
<1>3. CASE SkipRow \/ WriteRow \/ NoCommit \/ Delete \/ EndSync
  <2>1. /\ pc \in {"rows", "check", "rest", "sync"} /\ fails' = fails
        /\ pc' \in {"rows", "check", "rest", "sync", "done"}
    BY <1>3 DEF SkipRow, WriteRow, GiveRow, NoCommit, NextRow, Delete, EndSync
  <2> QED
    BY <1>1, <2>1 DEF ToleranceInv, WithinTolerance
<1>4. CASE RowFails
  <2>1. fails' = fails + 1 /\ pc' = IF TooMany(fails + 1) THEN "tooMany" ELSE "check"
    BY <1>4 DEF RowFails
  <2> QED
    BY <1>1, <1>2, <2>1 DEF ToleranceInv, WithinTolerance, TooMany
<1>5. CASE CommitRows
  <2>1. CASE NextRow /\ UNCHANGED <<untouched, fails, todo>>
    <3>1. pc = "check" /\ fails' = fails /\ pc' \in {"rows", "rest"}
      BY <1>5, <2>1 DEF CommitRows, NextRow
    <3> QED
      BY <1>1, <3>1 DEF ToleranceInv, WithinTolerance
  <2>2. CASE CommitRaises \/ CommitBreaks
    BY <1>1, <2>2, CommitTolerated
  <2> QED
    BY <1>5, <2>1, <2>2 DEF CommitRows
<1>6. CASE NoLastCommit
  <2>1. WithinTolerance
    BY <1>6 DEF NoLastCommit, AtEnd, ToleranceInv
  <2> QED
    BY <1>1, <1>6, <2>1, AfterTableTolerated DEF NoLastCommit
<1>7. CASE LastCommit
  <2>1. WithinTolerance
    BY <1>7 DEF LastCommit, AtEnd, ToleranceInv
  <2>2. AfterTable \/ CommitRaises \/ CommitBreaks
    BY <1>7 DEF LastCommit
  <2> QED
    BY <1>1, <2>1, <2>2, AfterTableTolerated, CommitTolerated
<1>8. CASE Unwind
  <2>1. pc' \in {"failed", "crashed"} /\ fails' = fails
    BY <1>8 DEF Unwind
  <2> QED
    BY <1>1, <2>1 DEF ToleranceInv
<1>9. CASE DeleteFails
  <2>1. PICK chunk \in Chunks :
          /\ fails' = fails + Cardinality(chunk)
          /\ pc' = IF TooMany(fails + Cardinality(chunk)) THEN "failed" ELSE "sync"
    BY <1>9 DEF DeleteFails
  <2>2. Cardinality(chunk) \in Nat
    BY ChunkSize
  <2> QED
    BY <1>1, <1>2, <2>1, <2>2 DEF ToleranceInv, WithinTolerance, TooMany
<1>10. CASE EndSyncFails
  <2>1. /\ pc = "sync" /\ fails' = IF args.activate THEN fails + 1 ELSE fails
        /\ pc' = IF ~args.activate THEN "crashed"
                 ELSE IF Ignored(fails + 1) THEN "done" ELSE "failed"
    BY <1>10 DEF EndSyncFails
  <2>2. fails' \in Nat
    BY <2>1 DEF ToleranceInv
  <2>3. pc' = "done" => WithinTolerance'
    BY <1>1, <1>2, <2>1 DEF Ignored, WithinTolerance
  <2>4. pc' \in {"crashed", "done", "failed"}
    BY <2>1
  <2> QED
    BY <1>1, <2>2, <2>3, <2>4 DEF ToleranceInv
<1> QED
  BY <1>3, <1>4, <1>5, <1>6, <1>7, <1>8, <1>9, <1>10 DEF Next

LEMMA ToleranceInvariant == Spec => []ToleranceInv
<1>1. Init => ToleranceInv
  BY DEF Init, ToleranceInv, WithinTolerance, ArgumentsType
<1>2. KeysInv /\ ToleranceInv /\ [Next]_vars => ToleranceInv'
  <2>1. ToleranceInv /\ UNCHANGED vars => ToleranceInv'
    BY DEF vars, inputs, ToleranceInv, WithinTolerance
  <2> QED
    BY <2>1, NextTolerated
<1> QED
  BY <1>1, <1>2, KeysInvariant, PTL DEF Spec

\* A copy that ends well has not seen more failures than max_fail allows,
\* inserts, commits and deletions counted together.
THEOREM ToleranceKept == Spec => []FailsTolerated
<1>1. ToleranceInv => FailsTolerated
  BY DEF ToleranceInv, FailsTolerated, WithinTolerance
<1> QED
  BY <1>1, ToleranceInvariant, PTL

-----------------------------------------------------------------------------
(***************************************************************************)
(* The deletions of the mode sync. The loop over the source must have come *)
(* to its end when they begin: it does, for the mode updates, unless a row *)
(* limit cuts it short (pc = "rest"). What is to be deleted is then not in *)
(* the source.                                                             *)
(***************************************************************************)
SyncWithoutLimit == \A a \in Arguments : a.mode = "sync" => a.maxRows = 0

ObsoleteInv ==
  /\ Mode = "sync" => pc # "rest"
  /\ todo \cap source = {} /\ dropped \cap source = {} /\ removed \cap source = {}

LEMMA ModeOfSync ==
  ASSUME KeysInv, SyncWithoutLimit, Mode = "sync"
  PROVE  IsUpdate /\ ~PastLimit
BY DEF KeysInv, SyncWithoutLimit, Mode, IsUpdate, PastLimit

LEMMA AfterTableObsolete ==
  ASSUME KeysInv, ObsoleteInv, AtEnd, AfterTable, UNCHANGED inputs
  PROVE  ObsoleteInv'
<1>1. /\ todo' = IF Mode = "sync" THEN Existing \ (source \ unread) ELSE {}
      /\ source' = source /\ dropped' = dropped /\ removed' = removed
  BY DEF AfterTable, untouched, inputs
<1>2. Mode = "sync" => unread = {}
  BY DEF AtEnd, ObsoleteInv
<1>3. todo' \cap source = {}
  BY <1>1, <1>2
<1>4. pc' # "rest"
  BY DEF AfterTable
<1> QED
  BY <1>1, <1>3, <1>4 DEF ObsoleteInv

LEMMA NextObsolete ==
  ASSUME KeysInv, SyncWithoutLimit, ObsoleteInv, Next
  PROVE  ObsoleteInv'
<1>1. source' = source /\ Mode' = Mode
  BY ArgumentsStay DEF inputs, Mode
<1>2. ASSUME todo' \subseteq todo, dropped' \subseteq dropped \cup todo,
             removed' \subseteq removed \cup dropped,
             Mode = "sync" => pc' # "rest"
      PROVE  ObsoleteInv'
  BY <1>1, <1>2 DEF ObsoleteInv
<1>3. CASE SkipRow
  <2>1. Mode = "sync" => pc' # "rest"
    BY <1>3, ModeOfSync DEF SkipRow
  <2> QED
    BY <1>2, <1>3, <2>1 DEF SkipRow
<1>4. CASE WriteRow \/ RowFails
  <2>1. pc' # "rest" /\ todo' = todo /\ dropped' = dropped /\ removed' = removed
    BY <1>4 DEF WriteRow, RowFails, GiveRow
  <2> QED
    BY <1>2, <2>1
<1>5. CASE NoCommit \/ CommitRows \/ Unwind
  <2>1. todo' = todo /\ dropped' = dropped /\ removed' = removed
    BY <1>5 DEF NoCommit, CommitRows, Unwind, CommitRaises, CommitBreaks, untouched
  <2>2. pc' # "rest" \/ PastLimit
    BY <1>5 DEF NoCommit, CommitRows, Unwind, CommitRaises, CommitBreaks, NextRow
  <2>3. Mode = "sync" => pc' # "rest"
    BY <2>2, ModeOfSync
  <2> QED
    BY <1>2, <2>1, <2>3
<1>6. CASE NoLastCommit \/ LastCommit
  <2>1. CASE AfterTable
    <3>1. AtEnd
      BY <1>6 DEF NoLastCommit, LastCommit
    <3> QED
      BY <2>1, <3>1, AfterTableObsolete, ArgumentsStay
  <2>2. CASE CommitRaises \/ CommitBreaks
    <3>1. /\ todo' = todo /\ dropped' = dropped /\ removed' = removed
          /\ pc' # "rest"
      BY <2>2 DEF CommitRaises, CommitBreaks, untouched
    <3> QED
      BY <1>2, <3>1
  <2> QED
    BY <1>6, <2>1, <2>2 DEF NoLastCommit, LastCommit
<1>7. CASE Delete
  <2>1. PICK chunk \in Chunks : todo' = todo \ chunk /\ dropped' = dropped \cup chunk
    BY <1>7 DEF Delete
  <2>2. chunk \subseteq todo
    BY DEF Chunks
  <2>3. removed' = removed /\ pc' # "rest"
    BY <1>7 DEF Delete
  <2> QED
    BY <1>2, <2>1, <2>2, <2>3
<1>8. CASE DeleteFails
  <2>1. /\ todo' \subseteq todo /\ dropped' = dropped /\ removed' = removed
        /\ pc' # "rest"
    BY <1>8 DEF DeleteFails, untouched
  <2> QED
    BY <1>2, <2>1
<1>9. CASE EndSync \/ EndSyncFails
  <2>1. /\ todo' = todo /\ dropped' \subseteq dropped
        /\ removed' \subseteq removed \cup dropped /\ pc' # "rest"
    BY <1>9 DEF EndSync, EndSyncFails, untouched
  <2> QED
    BY <1>2, <2>1
<1> QED
  BY <1>3, <1>4, <1>5, <1>6, <1>7, <1>8, <1>9 DEF Next

\* Without a row limit the mode sync deletes no row that the source has,
\* whatever deletions fail.
THEOREM NothingNeededRemoved ==
  ASSUME SyncWithoutLimit
  PROVE  Spec => []OnlyObsoleteRemoved
<1>1. Init => ObsoleteInv
  BY DEF Init, ObsoleteInv
<1>2. KeysInv /\ ObsoleteInv /\ [Next]_vars => ObsoleteInv'
  <2>1. ObsoleteInv /\ UNCHANGED vars => ObsoleteInv'
    BY DEF vars, inputs, ObsoleteInv, Mode
  <2> QED
    BY <2>1, NextObsolete
<1>3. ObsoleteInv => OnlyObsoleteRemoved
  BY DEF ObsoleteInv, OnlyObsoleteRemoved
<1> QED
  BY <1>1, <1>2, <1>3, KeysInvariant, PTL DEF Spec

-----------------------------------------------------------------------------
(***************************************************************************)
(* Without -a. The uploader is made with the mode rollback, and none of    *)
(* its calls makes anything durable; that has to be known of all changes,  *)
(* so the changes the program knows are those of the uploader.             *)
(***************************************************************************)
UntouchedInv ==
  /\ conf[Target] = Conf(args)
  /\ author \in Seq({Target}) /\ Len(author) <= MaxKey
  /\ \E S : keyOf \in Seq(S)
  /\ Len(keyOf) = Len(author)
  /\ ~args.activate => saved = [c \in 1 .. MaxKey |-> 0] /\ removed = {}

LEMMA RollbackMode ==
  ASSUME conf[Target] = Conf(args), ~args.activate
  PROVE  ~Up!AsksCommit(Target)
BY DEF Conf, Up!AsksCommit

\* A call of commit() in the mode rollback makes nothing durable.
LEMMA CommitDurable ==
  ASSUME conf[Target] = Conf(args), ~args.activate, saved = [c \in 1 .. MaxKey |-> 0],
         \/ Up!EndBatch(Target) \/ Up!BatchFails(Target) \/ Up!RollbackRefused(Target)
         \/ Up!CommitNothing(Target) \/ Up!CommitRefused(Target)
  PROVE  saved' = saved
<1>1. ~Up!AsksCommit(Target)
  BY RollbackMode
<1>2. CASE Up!EndBatch(Target)
  BY <1>1, <1>2 DEF Up!EndBatch, Up!RunAndUndo, Up!Saved
<1>3. CASE Up!BatchFails(Target)
  BY <1>3 DEF Up!BatchFails, Up!Run, Up!Saved
<1>4. CASE Up!RollbackRefused(Target)
  BY <1>4 DEF Up!RollbackRefused, Up!Run, Up!Saved
<1>5. CASE Up!CommitNothing(Target)
  BY <1>5 DEF Up!CommitNothing, Up!database
<1>6. CASE Up!CommitRefused(Target)
  BY <1>1, <1>6 DEF Up!CommitRefused
<1> QED
  BY <1>2, <1>3, <1>4, <1>5, <1>6

LEMMA CommitKeepsAuthors ==
  ASSUME \/ Up!EndBatch(Target) \/ Up!BatchFails(Target) \/ Up!RollbackRefused(Target)
         \/ Up!CommitNothing(Target) \/ Up!CommitRefused(Target)
  PROVE  conf' = conf /\ author' = author
BY DEF Up!EndBatch, Up!BatchFails, Up!RollbackRefused, Up!CommitNothing,
       Up!CommitRefused, Up!BatchDone

LEMMA CommitUntouched ==
  ASSUME UntouchedInv, UNCHANGED <<inputs, keyOf>>,
         ~args.activate => removed' = removed,
         \/ Up!EndBatch(Target) \/ Up!BatchFails(Target) \/ Up!RollbackRefused(Target)
         \/ Up!CommitNothing(Target) \/ Up!CommitRefused(Target)
  PROVE  UntouchedInv'
<1>1. conf' = conf /\ author' = author
  BY CommitKeepsAuthors
<1>2. ~args.activate => saved' = saved
  BY CommitDurable DEF UntouchedInv
<1> QED
  BY <1>1, <1>2 DEF UntouchedInv, Conf, inputs

LEMMA RowUntouched ==
  ASSUME UntouchedInv, GiveRow,
         Up!Execute(Target) \/ Up!BufferRow(Target) \/ Up!ExecuteFails(Target)
  PROVE  UntouchedInv'
<1>1. /\ conf' = conf /\ author' = Append(author, Target) /\ Len(author) < MaxKey
  BY DEF Up!Execute, Up!BufferRow, Up!ExecuteFails, Up!Call
<1>2. saved' = saved
  BY DEF Up!Execute, Up!BufferRow, Up!ExecuteFails, Up!Run, Up!Saved, Up!database
<1>3. UNCHANGED inputs /\ removed' = removed /\ keyOf' = Append(keyOf, Row)
  BY DEF GiveRow
<1>4. author' \in Seq({Target}) /\ Len(author') = Len(author) + 1
  BY <1>1 DEF UntouchedInv
<1>5. (\E S : keyOf' \in Seq(S)) /\ Len(keyOf') = Len(keyOf) + 1
  <2>1. PICK S : keyOf \in Seq(S)
    BY DEF UntouchedInv
  <2> DEFINE T == S \cup {Row}
  <2>2. keyOf \in Seq(T) /\ Row \in T
    BY <2>1
  <2> HIDE DEF T
  <2>3. keyOf' \in Seq(T) /\ Len(keyOf') = Len(keyOf) + 1
    BY <1>3, <2>2
  <2> QED
    BY <2>3
<1> QED
  BY <1>1, <1>2, <1>3, <1>4, <1>5 DEF UntouchedInv, inputs, Conf

LEMMA NextUntouched ==
  ASSUME UntouchedInv, Next
  PROVE  UntouchedInv'
<1>1. UNCHANGED inputs
  BY ArgumentsStay
<1>2. ASSUME UNCHANGED <<conf, saved, author, keyOf>>,
             ~args.activate => removed' = removed
      PROVE  UntouchedInv'
  BY <1>1, <1>2 DEF UntouchedInv, Conf, inputs
<1>3. CASE SkipRow \/ NoCommit \/ NoLastCommit \/ Delete \/ DeleteFails
             \/ EndSync \/ EndSyncFails
  <2>1. UNCHANGED <<conf, saved, author, keyOf>>
    BY <1>3 DEF SkipRow, NoCommit, NoLastCommit, AfterTable, Delete, DeleteFails,
                EndSync, EndSyncFails, OtherFault, untouched, uploader
  <2>2. ~args.activate => removed' = removed
    BY <1>3 DEF SkipRow, NoCommit, NoLastCommit, AfterTable, Delete, DeleteFails,
                EndSync, EndSyncFails, OtherFault, untouched
  <2> QED
    BY <1>2, <2>1, <2>2
<1>4. CASE WriteRow \/ RowFails
  BY <1>4, RowUntouched DEF WriteRow, RowFails
<1>5. CASE CommitRows \/ LastCommit \/ Unwind
  <2>1. keyOf' = keyOf /\ removed' = removed
    BY <1>5 DEF CommitRows, LastCommit, Unwind, CommitRaises, CommitBreaks,
                AfterTable, untouched
  <2>2. \/ Up!EndBatch(Target) \/ Up!BatchFails(Target) \/ Up!RollbackRefused(Target)
        \/ Up!CommitNothing(Target) \/ Up!CommitRefused(Target)
    BY <1>5 DEF CommitRows, LastCommit, Unwind, CommitRaises, CommitBreaks
  <2> QED
    BY <1>1, <2>1, <2>2, CommitUntouched
<1> QED
  BY <1>3, <1>4, <1>5 DEF Next

\* Without -a nothing is stored in the target and nothing removed from it,
\* whichever calls fail and however the program unwinds.
THEOREM NothingWithoutActivate == Spec => []OnlyActivated
<1>1. Init => UntouchedInv
  <2> SUFFICES ASSUME Init PROVE UntouchedInv
    OBVIOUS
  <2>1. /\ conf[Target] = Conf(args) /\ keyOf = << >> /\ removed = {}
        /\ author = << >> /\ saved = [c \in 1 .. MaxKey |-> 0]
    BY DEF Init, Up!Init, Up!None, Up!Changes
  <2>2. keyOf \in Seq({}) /\ author \in Seq({Target})
    BY <2>1
  <2> QED
    BY <2>1, <2>2 DEF UntouchedInv
<1>2. UntouchedInv /\ [Next]_vars => UntouchedInv'
  <2>1. UntouchedInv /\ UNCHANGED vars => UntouchedInv'
    BY DEF vars, uploader, inputs, UntouchedInv, Conf
  <2> QED
    BY <2>1, NextUntouched
<1>3. UntouchedInv => OnlyActivated
  <2> SUFFICES ASSUME UntouchedInv, ~args.activate
               PROVE  StoredKeys = {} /\ removed = {}
    BY DEF OnlyActivated
  <2>1. \A x \in DOMAIN keyOf : saved[x] = 0
    BY DEF UntouchedInv
  <2> QED
    BY <2>1 DEF UntouchedInv, StoredKeys
<1> QED
  BY <1>1, <1>2, <1>3, PTL DEF Spec

-----------------------------------------------------------------------------
(***************************************************************************)
(* The uploader of the copy: its variables as far as the copy depends on   *)
(* them. Open are the rows that are on their way, in the transaction or in *)
(* the buffer of the driver multi.                                         *)
(***************************************************************************)
InBuffer == {buffer[Target][i] : i \in DOMAIN buffer[Target]}
Open == {c \in 1 .. MaxKey : pending[c] > 0} \cup InBuffer

UploaderInv ==
  /\ conf[Target] = Conf(args)
  /\ saved \in [1 .. MaxKey -> Nat] /\ pending \in [1 .. MaxKey -> Nat]
  /\ rowCount \in [{Target} -> Nat]
  /\ buffer \in [{Target} -> Seq(1 .. MaxKey)]
  /\ errors \in [{Target} -> BOOLEAN]
  /\ author \in Seq({Target}) /\ Len(author) <= MaxKey
  /\ args.driver # "multi" => buffer[Target] = << >>

LEMMA BufferTypes ==
  ASSUME UploaderInv, NEW n \in 0 .. Len(buffer[Target])
  PROVE  /\ Len(buffer[Target]) \in Nat
         /\ DOMAIN buffer[Target] = 1 .. Len(buffer[Target])
         /\ InBuffer \subseteq 1 .. MaxKey
         /\ Up!BatchRows(Target, n) \subseteq InBuffer
         /\ Up!BatchRows(Target, Len(buffer[Target])) = InBuffer
<1>1. buffer[Target] \in Seq(1 .. MaxKey)
  BY DEF UploaderInv
<1> DEFINE m == Len(buffer[Target])
<1>2. /\ m \in Nat /\ DOMAIN buffer[Target] = 1 .. m
      /\ \A i \in 1 .. m : buffer[Target][i] \in 1 .. MaxKey
  BY <1>1
<1>3. InBuffer \subseteq 1 .. MaxKey
  BY <1>2 DEF InBuffer
<1>4. Up!BatchRows(Target, n) \subseteq InBuffer
  BY <1>2 DEF InBuffer, Up!BatchRows
<1>5. Up!BatchRows(Target, m) = InBuffer
  BY <1>2 DEF InBuffer, Up!BatchRows
<1> QED
  BY <1>2, <1>3, <1>4, <1>5

\* Without auto-commit: what the steps of the transaction do.
LEMMA TransactionSteps ==
  ASSUME UploaderInv, NEW cs
  PROVE  /\ Up!Run(cs) =>
              /\ saved' = saved /\ pending' \in [1 .. MaxKey -> Nat]
              /\ \A c \in 1 .. MaxKey :
                   pending'[c] = IF c \in cs THEN pending[c] + 1 ELSE pending[c]
         /\ Up!RunAndUndo(cs) =>
              /\ saved' = saved /\ pending' \in [1 .. MaxKey -> Nat]
              /\ \A c \in 1 .. MaxKey : pending'[c] = 0
         /\ Up!RunAndCommit(cs) =>
              /\ saved' \in [1 .. MaxKey -> Nat]
              /\ pending' \in [1 .. MaxKey -> Nat]
              /\ \A c \in 1 .. MaxKey :
                   /\ saved'[c] = saved[c]
                        + (IF c \in cs THEN pending[c] + 1 ELSE pending[c])
                   /\ pending'[c] = 0
<1> DEFINE plus == [c \in 1 .. MaxKey |-> IF c \in cs THEN pending[c] + 1 ELSE pending[c]]
           none == [c \in 1 .. MaxKey |-> 0]
<1>1. /\ saved \in [1 .. MaxKey -> Nat] /\ pending \in [1 .. MaxKey -> Nat]
  BY DEF UploaderInv
<1>2. plus \in [1 .. MaxKey -> Nat] /\ none \in [1 .. MaxKey -> Nat]
  BY <1>1
<1>3. Up!Saved(cs) = saved /\ Up!Pending(cs) = plus /\ Up!None = none
  BY DEF Up!Saved, Up!Pending, Up!Plus, Up!None, Up!Changes
<1>4. Up!Run(cs) => saved' = saved /\ pending' = plus
  BY <1>3 DEF Up!Run
<1>5. Up!RunAndUndo(cs) => saved' = saved /\ pending' = none
  BY <1>3 DEF Up!RunAndUndo
<1>6. Up!RunAndCommit(cs) =>
        saved' = [c \in 1 .. MaxKey |-> saved[c] + plus[c]] /\ pending' = none
  BY <1>3 DEF Up!RunAndCommit, Up!Changes
<1>7. [c \in 1 .. MaxKey |-> saved[c] + plus[c]] \in [1 .. MaxKey -> Nat]
  BY <1>1, <1>2
<1> QED
  BY <1>2, <1>4, <1>5, <1>6, <1>7

\* A row that is written joins the rows on their way.
LEMMA RowOpens ==
  ASSUME UploaderInv, args' = args,
         \/ args.driver = "single" /\ Up!Execute(Target)
         \/ args.driver = "multi" /\ Up!BufferRow(Target)
  PROVE  /\ UploaderInv' /\ Open' = Open \cup {Len(author) + 1}
         /\ Len(author) + 1 \in 1 .. MaxKey /\ author' = Append(author, Target)
         /\ rowCount'[Target] = rowCount[Target] + 1
         /\ UNCHANGED <<saved, errors>>
<1> DEFINE n == Len(author) + 1
           m == Len(buffer[Target])
<1>1. /\ author' = Append(author, Target) /\ conf' = conf /\ errors' = errors
      /\ Len(author) < MaxKey
      /\ rowCount' = [rowCount EXCEPT ![Target] = @ + 1]
  BY DEF Up!Execute, Up!BufferRow, Up!Call
<1>2. /\ author' \in Seq({Target}) /\ Len(author') <= MaxKey
      /\ n \in 1 .. MaxKey
  BY <1>1 DEF UploaderInv
<1>0. rowCount \in [{Target} -> Nat] /\ (args.driver # "multi" => buffer[Target] = << >>)
  BY DEF UploaderInv
<1>3. rowCount' \in [{Target} -> Nat] /\ rowCount'[Target] = rowCount[Target] + 1
  <2>1. rowCount' = [rowCount EXCEPT ![Target] = @ + 1]
    BY <1>1
  <2> QED
    BY <1>0, <2>1
<1>4. CASE args.driver = "single" /\ Up!Execute(Target)
  <2>1. Up!Run({n}) /\ buffer' = buffer
    BY <1>4 DEF Up!Execute, Up!NewChange
  <2>2. /\ saved' = saved /\ pending' \in [1 .. MaxKey -> Nat]
        /\ \A c \in 1 .. MaxKey :
             pending'[c] = IF c \in {n} THEN pending[c] + 1 ELSE pending[c]
    BY <2>1, TransactionSteps
  <2>3. \A c \in 1 .. MaxKey : pending[c] \in Nat /\ n \in 1 .. MaxKey
    BY <1>2 DEF UploaderInv
  <2>4. {c \in 1 .. MaxKey : pending'[c] > 0}
          = {c \in 1 .. MaxKey : pending[c] > 0} \cup {n}
    BY <1>2, <2>2, <2>3
  <2>5. Open' = Open \cup {n}
    BY <2>1, <2>4 DEF Open, InBuffer
  <2>6. UploaderInv'
    <3>1. /\ conf'[Target] = Conf(args)' /\ saved' \in [1 .. MaxKey -> Nat]
          /\ errors' \in [{Target} -> BOOLEAN]
          /\ buffer' \in [{Target} -> Seq(1 .. MaxKey)]
          /\ args'.driver # "multi" => buffer'[Target] = << >>
      BY <1>0, <1>1, <2>1, <2>2 DEF UploaderInv, Conf
    <3> QED
      BY <1>2, <1>3, <2>2, <3>1 DEF UploaderInv
  <2> QED
    BY <1>1, <1>2, <1>3, <2>2, <2>5, <2>6
<1>5. CASE args.driver = "multi" /\ Up!BufferRow(Target)
  <2>1. /\ buffer' = [buffer EXCEPT ![Target] = Append(@, n)]
        /\ saved' = saved /\ pending' = pending
    BY <1>5 DEF Up!BufferRow, Up!NewChange, Up!database
  <2>2. buffer[Target] \in Seq(1 .. MaxKey)
    BY DEF UploaderInv
  <2>3. /\ buffer' \in [{Target} -> Seq(1 .. MaxKey)]
        /\ buffer'[Target] = Append(buffer[Target], n)
    BY <1>2, <2>1, <2>2 DEF UploaderInv
  <2>4. /\ m \in Nat /\ DOMAIN buffer[Target] = 1 .. m
        /\ DOMAIN buffer'[Target] = 1 .. m + 1 /\ buffer'[Target][m + 1] = n
        /\ \A i \in 1 .. m : buffer'[Target][i] = buffer[Target][i]
    BY <1>2, <2>2, <2>3
  <2>5. InBuffer' = InBuffer \cup {n}
    BY <2>4 DEF InBuffer
  <2>6. Open' = Open \cup {n}
    BY <2>1, <2>5 DEF Open
  <2> QED
    BY <1>1, <1>2, <1>3, <1>5, <2>1, <2>3, <2>6 DEF UploaderInv, Conf
<1> QED
  BY <1>4, <1>5

\* A row that is refused leaves them as they are.
LEMMA RefusedRow ==
  ASSUME UploaderInv, args' = args, Up!ExecuteFails(Target)
  PROVE  /\ UploaderInv' /\ Open' = Open /\ author' = Append(author, Target)
         /\ UNCHANGED <<saved, rowCount>>
<1>1. /\ author' = Append(author, Target) /\ conf' = conf /\ Len(author) < MaxKey
      /\ errors' = [errors EXCEPT ![Target] = @ \/ conf[Target].exit]
      /\ UNCHANGED <<saved, pending, rowCount, buffer>>
  BY DEF Up!ExecuteFails, Up!Call, Up!database
<1>2. author' \in Seq({Target}) /\ Len(author') <= MaxKey
  BY <1>1 DEF UploaderInv
<1>3. errors' \in [{Target} -> BOOLEAN]
  BY <1>1 DEF UploaderInv, Conf
<1>4. Open' = Open
  BY <1>1 DEF Open, InBuffer
<1> QED
  BY <1>1, <1>2, <1>3, <1>4 DEF UploaderInv, Conf

\* No call of commit() adds to the rows on their way.
LEMMA CommitNarrows ==
  ASSUME UploaderInv, args' = args,
         \/ Up!EndBatch(Target) \/ Up!BatchFails(Target) \/ Up!RollbackRefused(Target)
         \/ Up!CommitNothing(Target) \/ Up!CommitRefused(Target)
  PROVE  UploaderInv' /\ Open' \subseteq Open /\ author' = author
<1> DEFINE m == Len(buffer[Target])
<1>1. conf' = conf /\ author' = author
  BY CommitKeepsAuthors
<1>2. /\ conf[Target].exit /\ m \in Nat /\ buffer \in [{Target} -> Seq(1 .. MaxKey)]
      /\ saved \in [1 .. MaxKey -> Nat] /\ pending \in [1 .. MaxKey -> Nat]
      /\ rowCount \in [{Target} -> Nat] /\ errors \in [{Target} -> BOOLEAN]
  BY DEF UploaderInv, Conf
<1>3. \A sent \in Up!Sent(Target) : sent \subseteq InBuffer
  BY <1>2, BufferTypes DEF Up!Sent
<1>4. Up!PartlySent(Target) = {}
  BY <1>2 DEF Up!PartlySent
<1>5. ASSUME NEW cs \in SUBSET InBuffer, Up!Run(cs) \/ Up!RunAndUndo(cs) \/ Up!RunAndCommit(cs)
      PROVE  /\ saved' \in [1 .. MaxKey -> Nat] /\ pending' \in [1 .. MaxKey -> Nat]
             /\ \A c \in 1 .. MaxKey : pending'[c] > 0 => pending[c] > 0 \/ c \in InBuffer
  <2>1. \A c \in 1 .. MaxKey : c \notin InBuffer => c \notin cs
    OBVIOUS
  <2>2. CASE Up!Run(cs)
    BY <1>2, <2>1, <2>2, TransactionSteps
  <2>3. CASE Up!RunAndUndo(cs)
    BY <1>2, <2>3, TransactionSteps
  <2>4. CASE Up!RunAndCommit(cs)
    BY <2>4, TransactionSteps
  <2> QED
    BY <1>5, <2>2, <2>3, <2>4
<1>6. /\ saved' \in [1 .. MaxKey -> Nat] /\ pending' \in [1 .. MaxKey -> Nat]
      /\ \A c \in 1 .. MaxKey : pending'[c] > 0 => pending[c] > 0 \/ c \in InBuffer
  <2>1. CASE Up!EndBatch(Target)
    BY <1>3, <1>4, <1>5, <2>1 DEF Up!EndBatch
  <2>2. CASE Up!BatchFails(Target)
    <3>1. PICK n \in 0 .. m - 1 : Up!Run(Up!BatchRows(Target, n))
      BY <2>2 DEF Up!BatchFails
    <3>2. n \in 0 .. m
      BY <1>2
    <3>3. Up!BatchRows(Target, n) \subseteq InBuffer
      BY <3>2, BufferTypes
    <3> QED
      BY <1>5, <3>1, <3>3
  <2>3. CASE Up!RollbackRefused(Target)
    BY <1>3, <1>5, <2>3 DEF Up!RollbackRefused
  <2>4. CASE Up!CommitNothing(Target)
    BY <1>2, <2>4 DEF Up!CommitNothing, Up!database
  <2>5. CASE Up!CommitRefused(Target)
    BY <1>3, <1>5, <2>5 DEF Up!CommitRefused
  <2> QED
    BY <2>1, <2>2, <2>3, <2>4, <2>5
<1>7. /\ buffer' = buffer \/ buffer' = [buffer EXCEPT ![Target] = << >>]
      /\ errors' = errors \/ errors' = [errors EXCEPT ![Target] = TRUE]
  BY DEF Up!EndBatch, Up!BatchDone, Up!BatchFails, Up!RollbackRefused,
         Up!CommitNothing, Up!CommitRefused
<1>11. \/ rowCount' = rowCount
       \/ rowCount' = [rowCount EXCEPT ![Target] = 0]
       \/ rowCount' = [rowCount EXCEPT ![Target] = @ + m]
  BY DEF Up!EndBatch, Up!BatchDone, Up!BatchFails, Up!RollbackRefused,
         Up!CommitNothing, Up!CommitRefused
<1>8. /\ buffer' \in [{Target} -> Seq(1 .. MaxKey)]
      /\ buffer'[Target] = buffer[Target] \/ buffer'[Target] = << >>
  <2>1. << >> \in Seq(1 .. MaxKey)
    OBVIOUS
  <2>2. buffer \in [{Target} -> Seq(1 .. MaxKey)]
    BY <1>2
  <2> QED
    BY <1>7, <2>1, <2>2
<1>9. rowCount' \in [{Target} -> Nat] /\ errors' \in [{Target} -> BOOLEAN]
  <2>1. /\ rowCount \in [{Target} -> Nat] /\ m \in Nat
        /\ errors \in [{Target} -> BOOLEAN]
    BY <1>2
  <2>2. errors' \in [{Target} -> BOOLEAN]
    BY <1>7, <2>1
  <2> HIDE DEF m
  <2>3. rowCount' \in [{Target} -> Nat]
    <3>1. CASE rowCount' = rowCount
      BY <2>1, <3>1
    <3>2. CASE rowCount' = [rowCount EXCEPT ![Target] = 0]
      BY <2>1, <3>2
    <3>3. CASE rowCount' = [rowCount EXCEPT ![Target] = @ + m]
      BY <2>1, <3>3
    <3> QED
      BY <1>11, <3>1, <3>2, <3>3
  <2> QED
    BY <2>2, <2>3
<1>10. Open' \subseteq Open
  <2>1. InBuffer' \subseteq InBuffer
    BY <1>8 DEF InBuffer
  <2> QED
    BY <1>6, <2>1 DEF Open
<1> QED
  BY <1>1, <1>2, <1>6, <1>8, <1>9, <1>10 DEF UploaderInv, Conf

\* A commit() that succeeds leaves none on its way, and an unmarked uploader
\* in the mode commit has stored them.
LEMMA BatchStored ==
  ASSUME UploaderInv, UploaderInv', Up!EndBatch(Target)
  PROVE  /\ Open' = {} /\ rowCount'[Target] = 0 /\ errors' = errors
         /\ args.activate /\ ~errors[Target] =>
              /\ \A c \in Open : saved'[c] > 0
              /\ \A c \in 1 .. MaxKey : saved[c] > 0 => saved'[c] > 0
<1>1. PICK sent \in Up!Sent(Target) \cup Up!PartlySent(Target) :
        IF Up!AsksCommit(Target) THEN Up!RunAndCommit(sent) ELSE Up!RunAndUndo(sent)
  BY DEF Up!EndBatch
<1>2. conf[Target] = Conf(args) /\ Up!PartlySent(Target) = {}
  BY DEF UploaderInv, Up!PartlySent, Conf
<1>3. /\ buffer' = [buffer EXCEPT ![Target] = << >>]
      /\ rowCount' = [rowCount EXCEPT ![Target] = 0] /\ errors' = errors
  BY DEF Up!EndBatch, Up!BatchDone
<1>4. \A c \in 1 .. MaxKey : pending'[c] = 0
  BY <1>1, TransactionSteps
<1>5. Open' = {} /\ rowCount'[Target] = 0
  <2>1. buffer'[Target] = << >> /\ rowCount'[Target] = 0
    BY <1>3 DEF UploaderInv
  <2> QED
    BY <1>4, <2>1 DEF Open, InBuffer
<1>6. ASSUME args.activate, ~errors[Target]
      PROVE  /\ \A c \in Open : saved'[c] > 0
             /\ \A c \in 1 .. MaxKey : saved[c] > 0 => saved'[c] > 0
  <2>1. Up!AsksCommit(Target)
    BY <1>2, <1>6 DEF Up!AsksCommit, Conf
  <2>2. InBuffer \subseteq sent /\ InBuffer \subseteq 1 .. MaxKey
    <3>1. CASE conf[Target].kind = "multi"
      <4>1. sent = Up!BatchRows(Target, Len(buffer[Target]))
        BY <1>1, <1>2, <3>1 DEF Up!Sent
      <4>2. 0 \in 0 .. Len(buffer[Target])
        BY DEF UploaderInv
      <4> QED
        BY <4>1, <4>2, BufferTypes
    <3>2. CASE conf[Target].kind # "multi"
      <4>1. args.driver # "multi"
        BY <1>2, <3>2 DEF Conf
      <4>2. buffer[Target] = << >>
        BY <4>1 DEF UploaderInv
      <4> QED
        BY <4>2 DEF InBuffer
    <3> QED
      BY <3>1, <3>2
  <2>3. \A c \in 1 .. MaxKey :
          saved'[c] = saved[c] + (IF c \in sent THEN pending[c] + 1 ELSE pending[c])
    BY <1>1, <2>1, TransactionSteps
  <2>4. \A c \in 1 .. MaxKey : saved[c] \in Nat /\ pending[c] \in Nat
    BY DEF UploaderInv
  <2>5. ASSUME NEW c \in 1 .. MaxKey, pending[c] > 0 \/ c \in sent \/ saved[c] > 0
        PROVE  saved'[c] > 0
    BY <2>3, <2>4, <2>5
  <2> QED
    BY <2>2, <2>5 DEF Open
<1> QED
  BY <1>3, <1>5, <1>6

LEMMA UploaderInvariant == Spec => []UploaderInv
<1>1. Init => UploaderInv
  <2> SUFFICES ASSUME Init PROVE UploaderInv
    OBVIOUS
  <2>1. << >> \in Seq(1 .. MaxKey) /\ << >> \in Seq({Target})
    OBVIOUS
  <2>2. /\ conf[Target] = Conf(args) /\ author = << >>
        /\ saved = [c \in 1 .. MaxKey |-> 0] /\ pending = [c \in 1 .. MaxKey |-> 0]
        /\ rowCount = [u \in {Target} |-> 0] /\ buffer = [u \in {Target} |-> << >>]
        /\ errors = [u \in {Target} |-> FALSE]
    BY DEF Init, Up!Init, Up!None, Up!Changes
  <2> QED
    BY <2>1, <2>2 DEF UploaderInv
<1>2. UploaderInv /\ [Next]_vars => UploaderInv'
  <2> SUFFICES ASSUME UploaderInv, [Next]_vars PROVE UploaderInv'
    OBVIOUS
  <2>1. ASSUME UNCHANGED <<args, conf, saved, pending, rowCount, buffer, errors, author>>
        PROVE  UploaderInv'
    BY <2>1 DEF UploaderInv, Conf
  <2>2. CASE Next
    <3>1. args' = args
      BY <2>2, ArgumentsStay DEF inputs
    <3>2. CASE SkipRow \/ NoCommit \/ NoLastCommit \/ Delete \/ DeleteFails
                 \/ EndSync \/ EndSyncFails
      BY <2>1, <3>1, <3>2 DEF SkipRow, NoCommit, NoLastCommit, Delete, DeleteFails,
                  EndSync, EndSyncFails, OtherFault, uploader
    <3>3. CASE WriteRow
      BY <3>1, <3>3, RowOpens DEF WriteRow
    <3>4. CASE RowFails
      BY <3>1, <3>4, RefusedRow DEF RowFails
    <3>5. CASE CommitRows \/ LastCommit \/ Unwind
      BY <3>1, <3>5, CommitNarrows
         DEF CommitRows, LastCommit, Unwind, CommitRaises, CommitBreaks
    <3> QED
      BY <2>2, <3>2, <3>3, <3>4, <3>5 DEF Next
  <2>3. CASE UNCHANGED vars
    BY <2>1, <2>3 DEF vars, inputs, uploader
  <2> QED
    BY <2>2, <2>3
<1> QED
  BY <1>1, <1>2, PTL DEF Spec

-----------------------------------------------------------------------------
(***************************************************************************)
(* The rows of the source. The row that is read is one of those not read   *)
(* yet, and all calls of the uploader are about rows of the source.        *)
(***************************************************************************)
LEMMA RowUnread ==
  ASSUME unread \subseteq Keys, unread # {}
  PROVE  Row \in unread
<1>1. Min(unread) \in unread
  <2>1. unread \subseteq Nat
    BY DEF Keys
  <2>2. \E x \in unread : \A y \in unread : x <= y
    BY <2>1, Least
  <2> QED
    BY <2>2 DEF Min
<1>2. Max(unread) \in unread
  <2> DEFINE T == {n \in Nat : \E x \in unread : n = MaxKey - x}
  <2>1. \A x \in unread : x \in Int /\ MaxKey - x \in Nat
    BY DEF Keys
  <2>2. T # {} /\ T \subseteq Nat
    BY <2>1
  <2>3. PICK n \in T : \A y \in T : n <= y
    BY <2>2, Least
  <2>4. PICK x \in unread : n = MaxKey - x
    OBVIOUS
  <2>5. ASSUME NEW y \in unread PROVE x >= y
    <3>1. n <= MaxKey - y
      BY <2>1, <2>3
    <3> QED
      BY <2>1, <2>4, <3>1
  <2> QED
    BY <2>5 DEF Max
<1> QED
  BY <1>1, <1>2 DEF Row

RowsInv ==
  /\ args \in Arguments /\ source \subseteq Keys /\ unread \subseteq source
  /\ keyOf \in Seq(source) /\ Len(keyOf) = Len(author)
  /\ copied \in Nat /\ copied <= Cardinality(source \ unread)
  /\ \A r \in source \ unread :
       (r \in Existing /\ ~IsUpdate) \/ \E c \in DOMAIN keyOf : keyOf[c] = r

LEMMA SourceSize ==
  ASSUME RowsInv, NEW S, S \subseteq source
  PROVE  /\ IsFiniteSet(S) /\ Cardinality(S) \in Nat /\ Cardinality(S) <= MaxKey
<1>1. IsFiniteSet(1 .. MaxKey) /\ Cardinality(1 .. MaxKey) = MaxKey
  BY FS_Interval
<1>2. S \subseteq 1 .. MaxKey
  BY DEF RowsInv, Keys
<1> QED
  BY <1>1, <1>2, FS_Subset, FS_CardinalityType

\* What reading the next row does to the set of those read.
LEMMA ReadRow ==
  ASSUME RowsInv, unread # {}, unread' = unread \ {Row}, source' = source
  PROVE  /\ Row \in unread /\ unread' \subseteq source
         /\ source \ unread' = (source \ unread) \cup {Row}
         /\ Cardinality(source \ unread') = Cardinality(source \ unread) + 1
<1>1. Row \in unread
  BY RowUnread DEF RowsInv
<1>2. /\ source \ unread' = (source \ unread) \cup {Row}
      /\ Row \notin source \ unread /\ unread' \subseteq source
  BY <1>1 DEF RowsInv
<1>3. IsFiniteSet(source \ unread)
  BY SourceSize
<1> QED
  BY <1>1, <1>2, <1>3, FS_AddElement

LEMMA RowsInvariant == Spec => []RowsInv
<1>1. Init => RowsInv
  <2> SUFFICES ASSUME Init PROVE RowsInv
    OBVIOUS
  <2>1. source \ unread = {} /\ keyOf = << >> /\ author = << >> /\ copied = 0
    BY DEF Init, Up!Init
  <2>2. Cardinality({}) = 0
    BY FS_EmptySet
  <2>3. args \in Arguments /\ source \subseteq Keys /\ unread \subseteq source
    BY DEF Init
  <2>4. keyOf \in Seq(source)
    BY <2>1
  <2>5. copied \in Nat /\ copied <= Cardinality(source \ unread)
    BY <2>1, <2>2
  <2>6. Len(keyOf) = Len(author) /\ \A r \in source \ unread : FALSE
    BY <2>1
  <2> QED
    BY <2>3, <2>4, <2>5, <2>6 DEF RowsInv
<1>2. UploaderInv /\ RowsInv /\ [Next]_vars => RowsInv'
  <2> SUFFICES ASSUME UploaderInv, RowsInv, [Next]_vars PROVE RowsInv'
    OBVIOUS
  <2>1. ASSUME UNCHANGED <<inputs, unread, keyOf, copied, author>> PROVE RowsInv'
    BY <2>1 DEF RowsInv, inputs, Existing, IsUpdate, Mode
  <2>2. CASE Next
    <3>1. UNCHANGED inputs
      BY <2>2, ArgumentsStay
    <3>2. Existing' = Existing /\ IsUpdate' = IsUpdate
      BY <3>1 DEF inputs, Existing, IsUpdate, Mode
    <3>3. CASE SkipRow
      <4>1. /\ unread # {} /\ unread' = unread \ {Row} /\ Row \in Existing /\ ~IsUpdate
            /\ UNCHANGED <<keyOf, copied, author>>
        BY <3>3 DEF SkipRow, uploader
      <4>2. /\ unread' \subseteq source /\ source \ unread' = (source \ unread) \cup {Row}
            /\ Cardinality(source \ unread') = Cardinality(source \ unread) + 1
        BY <3>1, <4>1, ReadRow DEF inputs
      <4>3. Cardinality(source \ unread) \in Nat
        BY SourceSize
      <4> QED
        BY <3>1, <3>2, <4>1, <4>2, <4>3 DEF RowsInv, inputs
    <3>4. CASE WriteRow \/ RowFails
      <4>1. GiveRow /\ (copied' = copied + 1 \/ copied' = copied)
        BY <3>4 DEF WriteRow, RowFails
      <4>2. unread # {} /\ unread' = unread \ {Row} /\ keyOf' = Append(keyOf, Row)
        BY <4>1 DEF GiveRow
      <4>3. /\ unread' \subseteq source /\ source \ unread' = (source \ unread) \cup {Row}
            /\ Cardinality(source \ unread') = Cardinality(source \ unread) + 1
            /\ Row \in source
        BY <3>1, <4>2, ReadRow DEF inputs, RowsInv
      <4>4. Cardinality(source \ unread) \in Nat
        BY SourceSize
      <4>5. author' = Append(author, Target)
        BY <3>1, <3>4, RowOpens, RefusedRow DEF WriteRow, RowFails, inputs
      <4>6. Len(author') = Len(author) + 1 /\ Len(author) \in Nat
        BY <4>5 DEF UploaderInv
      <4>7. /\ keyOf \in Seq(source) /\ Len(keyOf) = Len(author)
            /\ \A r \in source \ unread :
                 (r \in Existing /\ ~IsUpdate) \/ \E c \in DOMAIN keyOf : keyOf[c] = r
        BY DEF RowsInv
      <4>8. /\ keyOf' \in Seq(source) /\ Len(keyOf') = Len(keyOf) + 1
            /\ Len(keyOf) + 1 \in DOMAIN keyOf' /\ keyOf'[Len(keyOf) + 1] = Row
            /\ \A c \in DOMAIN keyOf : c \in DOMAIN keyOf' /\ keyOf'[c] = keyOf[c]
        BY <4>2, <4>3, <4>7
      <4>9. \A r \in source \ unread' :
              (r \in Existing /\ ~IsUpdate) \/ \E c \in DOMAIN keyOf' : keyOf'[c] = r
        BY <4>3, <4>7, <4>8
      <4>10. copied' \in Nat /\ copied' <= Cardinality(source \ unread')
        BY <4>1, <4>3, <4>4 DEF RowsInv
      <4>11. source' = source /\ args' = args /\ Len(keyOf') = Len(author')
        BY <3>1, <4>6, <4>7, <4>8 DEF inputs
      <4> QED
        BY <3>2, <4>3, <4>8, <4>9, <4>10, <4>11 DEF RowsInv
    <3>5. CASE CommitRows \/ LastCommit \/ Unwind
      <4>1. UNCHANGED <<unread, keyOf, copied>>
        BY <3>5 DEF CommitRows, LastCommit, Unwind, CommitRaises, CommitBreaks,
                    AfterTable, untouched
      <4>2. author' = author
        BY <3>1, <3>5, CommitKeepsAuthors
           DEF CommitRows, LastCommit, Unwind, CommitRaises, CommitBreaks
      <4> QED
        BY <2>1, <3>1, <4>1, <4>2
    <3>6. CASE NoCommit \/ NoLastCommit \/ Delete \/ DeleteFails \/ EndSync \/ EndSyncFails
      BY <2>1, <3>1, <3>6 DEF NoCommit, NoLastCommit, AfterTable, Delete, DeleteFails,
         EndSync, EndSyncFails, OtherFault, untouched, uploader
    <3> QED
      BY <2>2, <3>3, <3>4, <3>5, <3>6 DEF Next
  <2>3. CASE UNCHANGED vars
    BY <2>1, <2>3 DEF vars, uploader
  <2> QED
    BY <2>2, <2>3
<1> QED
  BY <1>1, <1>2, UploaderInvariant, PTL DEF Spec

-----------------------------------------------------------------------------
(***************************************************************************)
(* The batches of commit_nr rows. In the loop the uploader counts all rows *)
(* on their way, and it is asked to commit as soon as it counts enough. No *)
(* commit that fails afterwards adds to them.                              *)
(***************************************************************************)
BatchInv ==
  /\ Cardinality(Open) <= args.commitNr
  /\ pc \in {"rows", "check", "rest"} =>
       Cardinality(Open) <= rowCount[Target] /\ rowCount[Target] <= args.commitNr
  /\ pc = "rows" => rowCount[Target] < args.commitNr

LEMMA OpenSize ==
  ASSUME UploaderInv
  PROVE  /\ IsFiniteSet(Open) /\ Cardinality(Open) \in Nat
         /\ \A S \in SUBSET Open : Cardinality(S) \in Nat /\ Cardinality(S) <= Cardinality(Open)
<1>1. IsFiniteSet(1 .. MaxKey)
  BY FS_Interval
<1>2. 0 \in 0 .. Len(buffer[Target])
  BY DEF UploaderInv
<1>3. Open \subseteq 1 .. MaxKey
  BY <1>2, BufferTypes DEF Open
<1>4. IsFiniteSet(Open)
  BY <1>1, <1>3, FS_Subset
<1> QED
  BY <1>4, FS_Subset, FS_CardinalityType

LEMMA NextBatches ==
  ASSUME UploaderInv, UploaderInv', RowsInv, BatchInv, Next
  PROVE  BatchInv'
<1>1. args' = args
  BY ArgumentsStay DEF inputs
<1>2. /\ args.commitNr \in Nat /\ args.commitNr > 0
      /\ rowCount[Target] \in Nat /\ rowCount'[Target] \in Nat
  BY DEF RowsInv, ArgumentsType, UploaderInv
<1>3. Cardinality(Open) \in Nat
  BY OpenSize
<1>4. /\ Open' \subseteq Open =>
           Cardinality(Open') \in Nat /\ Cardinality(Open') <= Cardinality(Open)
      /\ Open' = {} => Cardinality(Open') = 0
  BY OpenSize, FS_EmptySet
<1>5. ASSUME Open' \subseteq Open, pc' \notin {"rows", "check", "rest"}
      PROVE  BatchInv'
  BY <1>1, <1>2, <1>3, <1>4, <1>5 DEF BatchInv
<1>6. ASSUME Open' = Open, rowCount' = rowCount,
             pc' \in {"rows", "check", "rest"} => pc \in {"rows", "check", "rest"},
             pc' = "rows" => rowCount[Target] < args.commitNr
      PROVE  BatchInv'
  BY <1>1, <1>6 DEF BatchInv
<1>7. CASE SkipRow \/ NoCommit
  <2>1. /\ pc \in {"rows", "check"} /\ UNCHANGED <<pending, buffer, rowCount>>
        /\ pc' = "rows" => ~CommitDue
    BY <1>7 DEF SkipRow, NoCommit, uploader
  <2>2. Open' = Open
    BY <2>1 DEF Open, InBuffer
  <2> QED
    BY <1>2, <1>6, <2>1, <2>2 DEF CommitDue
<1>8. CASE WriteRow
  <2>1. /\ Open' = Open \cup {Len(author) + 1} /\ rowCount'[Target] = rowCount[Target] + 1
        /\ pc = "rows" /\ pc' = "check"
    BY <1>1, <1>8, RowOpens DEF WriteRow, GiveRow
  <2>2. Cardinality(Open') \in Nat /\ Cardinality(Open') <= Cardinality(Open) + 1
    <3>1. IsFiniteSet(Open) /\ Open' = Open \cup {Len(author) + 1}
      BY <2>1, OpenSize
    <3>2. Cardinality(Open \cup {Len(author) + 1})
            = IF Len(author) + 1 \in Open THEN Cardinality(Open) ELSE Cardinality(Open) + 1
      BY <3>1, FS_AddElement
    <3> QED
      BY <1>3, <3>1, <3>2
  <2> QED
    BY <1>1, <1>2, <1>3, <2>1, <2>2 DEF BatchInv
<1>9. CASE RowFails
  <2>1. /\ Open' = Open /\ rowCount' = rowCount /\ pc = "rows"
        /\ pc' \in {"check", "tooMany"}
    BY <1>1, <1>9, RefusedRow DEF RowFails, GiveRow
  <2> QED
    BY <1>6, <2>1
<1>10. CASE CommitRows \/ LastCommit \/ Unwind
  <2>1. Open' \subseteq Open
    BY <1>1, <1>10, CommitNarrows
       DEF CommitRows, LastCommit, Unwind, CommitRaises, CommitBreaks
  <2>2. Up!EndBatch(Target) \/ pc' \notin {"rows", "check", "rest"}
    BY <1>10 DEF CommitRows, LastCommit, Unwind, CommitRaises, CommitBreaks, AfterTable
  <2>3. CASE Up!EndBatch(Target)
    <3>1. Open' = {} /\ rowCount'[Target] = 0
      BY <2>3, BatchStored
    <3> QED
      BY <1>1, <1>2, <1>4, <3>1 DEF BatchInv
  <2> QED
    BY <1>5, <2>1, <2>2, <2>3
<1>11. CASE NoLastCommit \/ Delete \/ DeleteFails \/ EndSync \/ EndSyncFails
  <2>1. UNCHANGED <<pending, buffer, rowCount>>
    BY <1>11 DEF NoLastCommit, Delete, DeleteFails, EndSync, EndSyncFails, OtherFault,
                 uploader
  <2>2. Open' = Open
    BY <2>1 DEF Open, InBuffer
  <2>3. pc' \notin {"rows", "check", "rest"}
    BY <1>11 DEF NoLastCommit, AfterTable, Delete, DeleteFails, EndSync, EndSyncFails
  <2> QED
    BY <1>5, <2>2, <2>3
<1> QED
  BY <1>7, <1>8, <1>9, <1>10, <1>11 DEF Next

LEMMA BatchInvariant == Spec => []BatchInv
<1>1. Init => BatchInv
  <2> SUFFICES ASSUME Init PROVE BatchInv
    OBVIOUS
  <2>1. /\ pending = [c \in 1 .. MaxKey |-> 0] /\ buffer = [u \in {Target} |-> << >>]
        /\ rowCount = [u \in {Target} |-> 0] /\ args \in Arguments
    BY DEF Init, Up!Init, Up!None, Up!Changes
  <2>2. Open = {} /\ rowCount[Target] = 0
    BY <2>1 DEF Open, InBuffer
  <2>3. args.commitNr \in Nat /\ args.commitNr > 0
    BY <2>1 DEF ArgumentsType
  <2> QED
    BY <2>2, <2>3, FS_EmptySet DEF BatchInv
<1>2. BatchInv /\ UNCHANGED vars => BatchInv'
  BY DEF vars, inputs, uploader, BatchInv, Open, InBuffer
<1> QED
  BY <1>1, <1>2, NextBatches, UploaderInvariant, RowsInvariant, PTL DEF Spec

\* At most commit_nr rows are open in the transaction, however rows are
\* skipped or refused between two commits, and however commits fail.
THEOREM CommitsInTime == Spec => []CommittedInTime
<1>1. UploaderInv /\ RowsInv /\ BatchInv => CommittedInTime
  <2> SUFFICES ASSUME UploaderInv, RowsInv, BatchInv PROVE CommittedInTime
    OBVIOUS
  <2> DEFINE P == {c \in DOMAIN keyOf : pending[c] > 0}
  <2>1. DOMAIN keyOf \subseteq 1 .. MaxKey
    <3>1. DOMAIN keyOf = 1 .. Len(keyOf) /\ Len(keyOf) \in Nat /\ Len(keyOf) <= MaxKey
      BY DEF RowsInv, UploaderInv
    <3> QED
      BY <3>1
  <2>2. P \subseteq Open
    BY <2>1 DEF Open
  <2>3. Cardinality(P) \in Nat /\ Cardinality(P) <= Cardinality(Open)
    BY <2>2, OpenSize
  <2>4. args.commitNr \in Nat /\ Cardinality(Open) \in Nat
    BY OpenSize DEF RowsInv, ArgumentsType
  <2> QED
    BY <2>3, <2>4 DEF BatchInv, CommittedInTime
<1> QED
  BY <1>1, UploaderInvariant, RowsInvariant, BatchInvariant, PTL

-----------------------------------------------------------------------------
(***************************************************************************)
(* What a run that reports no failure has done. Every row given to the     *)
(* uploader is on its way or stored, and after the last commit stored; the *)
(* loop has come to the end of the source unless a limit or --fast ends it *)
(* early; and in the mode sync the rows the source does not have are to be *)
(* deleted, deleted in the open transaction, or deleted.                   *)
(***************************************************************************)
CoverInv ==
  fails = 0 /\ pc \in {"rows", "check", "rest", "sync", "done"} =>
    /\ ~errors[Target]
    /\ args.activate =>
         \A c \in DOMAIN keyOf : c \in Open \/ saved[c] > 0
    /\ pc \in {"sync", "done"} => Open = {}

EndInv ==
  Unlimited =>
    /\ pc # "rest"
    /\ fails = 0 /\ pc \in {"sync", "done"} => unread = {}

MirrorInv ==
  /\ dropped \subseteq before /\ removed \subseteq before
  /\ pc \in {"rows", "check", "rest"} \/ Mode # "sync" =>
       todo = {} /\ dropped = {} /\ removed = {}
  /\ fails = 0 /\ args.activate /\ Unlimited /\ Mode = "sync" /\ pc \in {"sync", "done"} =>
       /\ todo \cup dropped \cup removed = before \ source
       /\ pc = "done" => todo = {} /\ dropped = {}

\* A deletion that fails is counted.
LEMMA FailedDeletionCounts ==
  ASSUME KeysInv, ToleranceInv, DeleteFails
  PROVE  fails' # 0
<1>1. PICK chunk \in Chunks : fails' = fails + Cardinality(chunk)
  BY DEF DeleteFails
<1>2. IsFiniteSet(todo) /\ todo # {}
  <2>1. IsFiniteSet(1 .. MaxKey) /\ todo \subseteq 1 .. MaxKey
    BY FS_Interval DEF KeysInv, Keys
  <2> QED
    BY <2>1, FS_Subset DEF DeleteFails
<1>3. Cardinality(todo) \in Nat /\ Cardinality(todo) # 0
  BY <1>2, FS_CardinalityType, FS_EmptySet
<1>4. Min({DeleteSize, Cardinality(todo)}) \in {DeleteSize, Cardinality(todo)}
  <2>1. {DeleteSize, Cardinality(todo)} \subseteq Nat
    BY <1>3
  <2>2. \E x \in {DeleteSize, Cardinality(todo)} :
          \A y \in {DeleteSize, Cardinality(todo)} : x <= y
    BY <2>1, Least
  <2> QED
    BY <2>2 DEF Min
<1>5. Cardinality(chunk) \in Nat \ {0}
  BY <1>3, <1>4 DEF Chunks
<1> QED
  BY <1>1, <1>5 DEF ToleranceInv

LEMMA NoneOpen ==
  ASSUME UploaderInv, BatchInv, pc \in {"rows", "check", "rest"}, rowCount[Target] = 0
  PROVE  Open = {}
BY OpenSize, FS_EmptySet DEF BatchInv

LEMMA NextCovers ==
  ASSUME KeysInv, UploaderInv, UploaderInv', RowsInv, RowsInv', ToleranceInv,
         BatchInv, CoverInv, Next
  PROVE  CoverInv'
<1>1. args' = args
  BY ArgumentsStay DEF inputs
<1>2. /\ DOMAIN keyOf = 1 .. Len(author) /\ Len(author) \in Nat /\ Len(author) <= MaxKey
      /\ fails \in Nat
  BY DEF RowsInv, UploaderInv, ToleranceInv
<1>3. ASSUME UNCHANGED <<errors, pending, buffer, saved, keyOf>>,
             fails' = 0 => fails = 0,
             pc' \in {"rows", "check", "rest"} => pc \in {"rows", "check", "rest"},
             pc' \in {"sync", "done"} =>
               pc \in {"sync", "done"} \/ (pc \in {"rows", "check", "rest"} /\ Open = {})
      PROVE  CoverInv'
  <2>1. Open' = Open
    BY <1>3 DEF Open, InBuffer
  <2> QED
    BY <1>1, <1>3, <2>1 DEF CoverInv
<1>4. CASE SkipRow \/ NoCommit
  BY <1>3, <1>4 DEF SkipRow, NoCommit, NextRow, untouched, uploader
<1>5. CASE WriteRow
  <2>1. /\ Open' = Open \cup {Len(author) + 1} /\ author' = Append(author, Target)
        /\ UNCHANGED <<saved, errors>>
    BY <1>1, <1>5, RowOpens DEF WriteRow
  <2>2. /\ pc = "rows" /\ pc' = "check" /\ fails' = fails
    BY <1>5 DEF WriteRow, GiveRow
  <2>3. /\ Len(author') = Len(author) + 1
        /\ DOMAIN keyOf' = 1 .. Len(author')
    BY <2>1 DEF UploaderInv, RowsInv
  <2>4. \A c \in DOMAIN keyOf' : c \in DOMAIN keyOf \/ c = Len(author) + 1
    BY <1>2, <2>3
  <2> QED
    BY <1>1, <2>1, <2>2, <2>4 DEF CoverInv
<1>6. CASE RowFails \/ DeleteFails
  <2>2. CASE RowFails
    BY <1>2, <2>2 DEF RowFails, CoverInv
  <2>3. CASE DeleteFails
    BY <1>2, <2>3, FailedDeletionCounts DEF CoverInv
  <2> QED
    BY <1>6, <2>2, <2>3
<1>7. CASE NoLastCommit
  <2>1. pc \in {"rows", "rest"} /\ rowCount[Target] = 0 /\ fails' = fails
    BY <1>7 DEF NoLastCommit, AtEnd, AfterTable
  <2>2. UNCHANGED <<errors, pending, buffer, saved, keyOf>> /\ pc' \in {"done", "sync"}
    BY <1>7 DEF NoLastCommit, AfterTable, untouched, uploader
  <2> QED
    BY <1>3, <2>1, <2>2, NoneOpen
<1>8. CASE CommitRows \/ LastCommit \/ Unwind
  <2>1. CASE CommitRaises \/ CommitBreaks \/ Unwind
    <3>1. fails' = fails + 1 \/ pc' \in {"error", "failed", "crashed"}
      BY <2>1 DEF CommitRaises, CommitBreaks, Unwind
    <3> QED
      BY <1>2, <3>1 DEF CoverInv
  <2>2. CASE ~ (CommitRaises \/ CommitBreaks \/ Unwind)
    <3>1. /\ Up!EndBatch(Target) /\ pc \in {"rows", "check", "rest"}
          /\ fails' = fails /\ keyOf' = keyOf
      BY <1>8, <2>2 DEF CommitRows, LastCommit, AtEnd, AfterTable, untouched
    <3>2. /\ Open' = {} /\ errors' = errors
          /\ args.activate /\ ~errors[Target] =>
               /\ \A c \in Open : saved'[c] > 0
               /\ \A c \in 1 .. MaxKey : saved[c] > 0 => saved'[c] > 0
      BY <3>1, BatchStored
    <3>3. \A c \in DOMAIN keyOf : c \in 1 .. MaxKey
      BY <1>2
    <3> QED
      BY <1>1, <3>1, <3>2, <3>3 DEF CoverInv
  <2> QED
    BY <2>1, <2>2
<1>9. CASE Delete \/ EndSync \/ EndSyncFails
  <2>1. /\ UNCHANGED <<errors, pending, buffer, saved, keyOf>> /\ pc = "sync"
        /\ fails' \in {fails, fails + 1} /\ pc' \notin {"rows", "check", "rest"}
    BY <1>9 DEF Delete, EndSync, EndSyncFails, OtherFault, untouched, uploader
  <2> QED
    BY <1>2, <1>3, <2>1
<1> QED
  BY <1>4, <1>5, <1>6, <1>7, <1>8, <1>9 DEF Next

LEMMA CoverInvariant == Spec => []CoverInv
<1>1. Init => CoverInv
  <2> SUFFICES ASSUME Init PROVE CoverInv
    OBVIOUS
  <2>1. errors = [u \in {Target} |-> FALSE] /\ keyOf = << >> /\ pc = "rows"
    BY DEF Init, Up!Init
  <2> QED
    BY <2>1 DEF CoverInv
<1>2. CoverInv /\ UNCHANGED vars => CoverInv'
  BY DEF vars, inputs, uploader, CoverInv, Open, InBuffer
<1> QED
  BY <1>1, <1>2, NextCovers, KeysInvariant, ToleranceInvariant, UploaderInvariant,
     RowsInvariant, BatchInvariant, PTL DEF Spec

LEMMA NextEnds ==
  ASSUME RowsInv, KeysInv, ToleranceInv, EndInv, Next
  PROVE  EndInv'
<1>1. args' = args /\ Mode' = Mode /\ IsUpdate' = IsUpdate /\ Unlimited' = Unlimited
  BY ArgumentsStay DEF inputs, Mode, IsUpdate, Unlimited
<1>2. fails \in Nat /\ (Unlimited => ~PastLimit)
  BY DEF ToleranceInv, Unlimited, PastLimit
<1>3. CASE SkipRow \/ WriteRow \/ RowFails \/ NoCommit
  <2>1. pc' \in {"rows", "check", "tooMany"} \/ PastLimit \/ (args.fast /\ ~IsUpdate)
    BY <1>3 DEF SkipRow, WriteRow, RowFails, NoCommit, NextRow
  <2>2. pc' \notin {"sync", "done"}
    BY <1>3 DEF SkipRow, WriteRow, RowFails, NoCommit, NextRow
  <2> QED
    BY <1>1, <1>2, <2>1, <2>2 DEF EndInv, Unlimited
<1>4. ASSUME AtEnd, AfterTable PROVE EndInv'
  <2>1. pc' # "rest" /\ unread' = unread
    BY <1>4 DEF AfterTable, untouched
  <2>2. Unlimited => unread = {}
    BY <1>4 DEF EndInv, AtEnd
  <2> QED
    BY <1>1, <2>1, <2>2 DEF EndInv
<1>5. ASSUME CommitRaises \/ CommitBreaks PROVE EndInv'
  <2>1. pc' # "rest" /\ (fails' = fails + 1 \/ pc' = "error")
    BY <1>5 DEF CommitRaises, CommitBreaks
  <2> QED
    BY <1>2, <2>1 DEF EndInv
<1>6. CASE NoLastCommit \/ LastCommit
  BY <1>4, <1>5, <1>6 DEF NoLastCommit, LastCommit
<1>7. CASE CommitRows
  <2>1. CASE NextRow
    <3>1. pc' \notin {"sync", "done"} /\ (pc' # "rest" \/ PastLimit)
      BY <2>1 DEF NextRow
    <3> QED
      BY <1>1, <1>2, <3>1 DEF EndInv
  <2> QED
    BY <1>5, <1>7, <2>1 DEF CommitRows
<1>8. CASE Unwind
  <2>1. pc' \in {"failed", "crashed"}
    BY <1>8 DEF Unwind
  <2> QED
    BY <2>1 DEF EndInv
<1>9. CASE Delete \/ EndSync \/ EndSyncFails
  <2>1. /\ unread' = unread /\ pc = "sync" /\ pc' # "rest"
        /\ fails' \in {fails, fails + 1}
    BY <1>9 DEF Delete, EndSync, EndSyncFails, untouched
  <2> QED
    BY <1>1, <1>2, <2>1 DEF EndInv
<1>10. CASE DeleteFails
  <2>1. fails' # 0 /\ pc' # "rest"
    BY <1>10, FailedDeletionCounts DEF DeleteFails
  <2> QED
    BY <2>1 DEF EndInv
<1> QED
  BY <1>3, <1>6, <1>7, <1>8, <1>9, <1>10 DEF Next

LEMMA EndInvariant == Spec => []EndInv
<1>1. Init => EndInv
  BY DEF Init, EndInv
<1>2. EndInv /\ UNCHANGED vars => EndInv'
  BY DEF vars, inputs, EndInv, Unlimited, IsUpdate, Mode
<1> QED
  BY <1>1, <1>2, NextEnds, RowsInvariant, KeysInvariant, ToleranceInvariant, PTL DEF Spec

LEMMA NextMirrors ==
  ASSUME RowsInv, KeysInv, ToleranceInv, EndInv, MirrorInv, Next
  PROVE  MirrorInv'
<1>1. /\ UNCHANGED inputs /\ Mode' = Mode /\ Unlimited' = Unlimited
      /\ args' = args /\ source' = source /\ before' = before
  BY ArgumentsStay DEF inputs, Mode, IsUpdate, Unlimited
<1>2. fails \in Nat /\ todo \subseteq before
  BY DEF ToleranceInv, KeysInv
<1>3. ASSUME UNCHANGED <<todo, dropped, removed>>,
             fails' # 0 \/ pc' \notin {"sync", "done"},
             pc' \in {"rows", "check", "rest"} => pc \in {"rows", "check", "rest"}
      PROVE  MirrorInv'
  BY <1>1, <1>3 DEF MirrorInv
<1>4. CASE SkipRow \/ WriteRow \/ RowFails \/ NoCommit
  <2>1. /\ UNCHANGED <<todo, dropped, removed>> /\ pc' \notin {"sync", "done"}
        /\ pc \in {"rows", "check", "rest"}
    BY <1>4 DEF SkipRow, WriteRow, RowFails, GiveRow, NoCommit, NextRow, untouched
  <2> QED
    BY <1>3, <2>1
<1>5. ASSUME AtEnd, AfterTable PROVE MirrorInv'
  <2>1. /\ todo' = IF Mode = "sync" THEN Existing \ (source \ unread) ELSE {}
        /\ pc' = IF todo' = {} THEN "done" ELSE "sync"
        /\ dropped' = dropped /\ removed' = removed
    BY <1>5 DEF AfterTable, untouched
  <2>2. todo = {} /\ dropped = {} /\ removed = {}
    BY <1>5 DEF AtEnd, MirrorInv
  <2>3. Unlimited => unread = {}
    BY <1>5 DEF EndInv, AtEnd
  <2>4. Mode = "sync" => Existing = before
    BY DEF Existing
  <2> QED
    BY <1>1, <2>1, <2>2, <2>3, <2>4 DEF MirrorInv
<1>6. ASSUME CommitRaises \/ CommitBreaks PROVE MirrorInv'
  <2>1. /\ UNCHANGED <<todo, dropped, removed>>
        /\ (fails' = fails + 1 \/ pc' = "error")
        /\ pc' \notin {"rows", "check", "rest"}
    BY <1>6 DEF CommitRaises, CommitBreaks, untouched
  <2> QED
    BY <1>2, <1>3, <2>1
<1>7. CASE NoLastCommit \/ LastCommit
  BY <1>5, <1>6, <1>7 DEF NoLastCommit, LastCommit
<1>8. CASE CommitRows
  <2>1. CASE NextRow /\ UNCHANGED <<untouched, fails, todo>>
    <3>1. /\ UNCHANGED <<todo, dropped, removed>> /\ pc = "check"
          /\ pc' \notin {"sync", "done"}
      BY <1>8, <2>1 DEF NextRow, CommitRows, untouched
    <3> QED
      BY <1>3, <3>1
  <2> QED
    BY <1>6, <1>8, <2>1 DEF CommitRows
<1>9. CASE Unwind
  <2>1. UNCHANGED <<todo, dropped, removed>> /\ pc' \in {"failed", "crashed"}
    BY <1>9 DEF Unwind, untouched
  <2> QED
    BY <1>3, <2>1
<1>10. CASE Delete
  <2>1. PICK chunk \in Chunks : todo' = todo \ chunk /\ dropped' = dropped \cup chunk
    BY <1>10 DEF Delete
  <2>2. /\ chunk \subseteq todo /\ removed' = removed /\ pc' = pc /\ pc = "sync"
        /\ todo # {} /\ fails' = fails
    BY <1>10 DEF Delete, Chunks
  <2>3. Mode = "sync" /\ dropped' \subseteq before
    BY <1>2, <2>1, <2>2 DEF MirrorInv
  <2>4. todo' \cup dropped' \cup removed' = todo \cup dropped \cup removed
    BY <2>1, <2>2
  <2> QED
    BY <1>1, <2>2, <2>3, <2>4 DEF MirrorInv
<1>11. CASE DeleteFails
  <2>1. fails' # 0
    BY <1>11, FailedDeletionCounts
  <2>2. /\ todo' \subseteq todo /\ dropped' = dropped /\ removed' = removed
        /\ pc = "sync" /\ pc' \in {"failed", "sync"}
    BY <1>11 DEF DeleteFails, untouched
  <2> QED
    BY <1>1, <2>1, <2>2 DEF MirrorInv
<1>12. CASE EndSync
  <2>1. /\ removed' = IF args.activate THEN removed \cup dropped ELSE removed
        /\ dropped' = {} /\ todo' = todo /\ pc' = "done" /\ pc = "sync" /\ todo = {}
        /\ fails' = fails
    BY <1>12 DEF EndSync
  <2>2. dropped \subseteq before
    BY DEF MirrorInv
  <2> QED
    BY <1>1, <2>1, <2>2 DEF MirrorInv
<1>13. CASE EndSyncFails
  <2>1. /\ UNCHANGED <<todo, dropped, removed>>
        /\ fails' = fails + 1 \/ ~args.activate
        /\ pc = "sync" /\ pc' \in {"crashed", "done", "failed"}
    BY <1>13 DEF EndSyncFails, untouched
  <2> QED
    BY <1>1, <1>2, <2>1 DEF MirrorInv
<1> QED
  BY <1>4, <1>7, <1>8, <1>9, <1>10, <1>11, <1>12, <1>13 DEF Next

LEMMA MirrorInvariant == Spec => []MirrorInv
<1>1. Init => MirrorInv
  BY DEF Init, MirrorInv
<1>2. MirrorInv /\ UNCHANGED vars => MirrorInv'
  BY DEF vars, inputs, MirrorInv, Unlimited, IsUpdate, Mode
<1> QED
  BY <1>1, <1>2, NextMirrors, RowsInvariant, KeysInvariant, ToleranceInvariant,
     EndInvariant, PTL DEF Spec

\* A copy with -a that ends well, reports no failure and is not cut short has
\* copied every row the target did not have; the modes update and sync have
\* updated the others, and the mode sync leaves no row the source does not have.
THEOREM CopyMirrors == Spec => []Mirrored
<1>1. RowsInv /\ UploaderInv /\ CoverInv /\ EndInv /\ MirrorInv => Mirrored
  <2> SUFFICES ASSUME RowsInv, UploaderInv, CoverInv, EndInv, MirrorInv,
                      pc = "done", fails = 0, args.activate, Unlimited
               PROVE  /\ source \subseteq TargetKeys
                      /\ IsUpdate => source \subseteq StoredKeys
                      /\ Mode = "sync" => TargetKeys = source
    BY DEF Mirrored
  <2>1. unread = {} /\ Open = {}
    BY DEF EndInv, CoverInv
  <2>2. \A c \in DOMAIN keyOf : keyOf[c] \in StoredKeys
    BY <2>1 DEF CoverInv, StoredKeys
  <2>3. \A r \in source : (r \in Existing /\ ~IsUpdate) \/ r \in StoredKeys
    BY <2>1, <2>2 DEF RowsInv
  <2>4. StoredKeys \subseteq source
    <3>1. \A c \in DOMAIN keyOf : keyOf[c] \in source
      BY DEF RowsInv
    <3> QED
      BY <3>1 DEF StoredKeys
  <2>5. IsUpdate => source \subseteq StoredKeys
    BY <2>3
  <2>6. source \subseteq TargetKeys
    <3>1. ASSUME NEW r \in source, r \notin StoredKeys PROVE r \in before \ removed
      <4>1. r \in Existing /\ ~IsUpdate
        BY <2>3, <3>1
      <4>2. r \in before /\ Mode # "sync"
        BY <4>1 DEF Existing, IsUpdate
      <4> QED
        BY <4>2 DEF MirrorInv
    <3> QED
      BY <3>1 DEF TargetKeys
  <2>7. ASSUME Mode = "sync" PROVE TargetKeys = source
    <3>1. IsUpdate
      BY <2>7 DEF IsUpdate
    <3>2. removed = before \ source
      BY <2>7 DEF MirrorInv
    <3> QED
      BY <2>4, <2>5, <3>1, <3>2 DEF TargetKeys
  <2> QED
    BY <2>5, <2>6, <2>7
<1> QED
  BY <1>1, RowsInvariant, UploaderInvariant, CoverInvariant, EndInvariant,
     MirrorInvariant, PTL

LEMMA PlacesInvariant ==
  Spec => [](pc \in {"rows", "check", "rest", "sync", "tooMany", "error"} \cup Finished)
<1> DEFINE P == pc \in {"rows", "check", "rest", "sync", "tooMany", "error"} \cup Finished
<1>1. Init => P
  BY DEF Init
<1>2. P /\ [Next]_vars => P'
  <2> SUFFICES ASSUME P, [Next]_vars PROVE P'
    OBVIOUS
  <2>1. CASE UNCHANGED vars
    BY <2>1 DEF vars
  <2>2. CASE SkipRow \/ WriteRow \/ RowFails \/ NoCommit \/ NoLastCommit \/ Unwind
             \/ Delete \/ DeleteFails \/ EndSync \/ EndSyncFails
    BY <2>2 DEF SkipRow, WriteRow, RowFails, NoCommit, NoLastCommit, Unwind, Delete,
                DeleteFails, EndSync, EndSyncFails, AfterTable, NextRow, Finished
  <2>3. CASE CommitRows \/ LastCommit
    BY <2>3 DEF CommitRows, LastCommit, CommitRaises, CommitBreaks, AfterTable,
                NextRow, Finished
  <2> QED
    BY <2>1, <2>2, <2>3 DEF Next
<1> QED
  BY <1>1, <1>2, PTL DEF Spec

\* The shape of the variables: the calls of the uploader and their keys stay in
\* step, and no more rows are counted than the source has.
THEOREM CopyTypeCorrect == Spec => []TypeOK
<1>1. /\ RowsInv /\ UploaderInv /\ KeysInv /\ ToleranceInv /\ MirrorInv
      /\ pc \in {"rows", "check", "rest", "sync", "tooMany", "error"} \cup Finished
      => TypeOK
  <2> SUFFICES ASSUME RowsInv, UploaderInv, KeysInv, ToleranceInv, MirrorInv,
                      pc \in {"rows", "check", "rest", "sync", "tooMany", "error"}
                               \cup Finished
               PROVE  TypeOK
    OBVIOUS
  <2>1. copied \in 0 .. MaxKey
    <3>1. /\ Cardinality(source \ unread) \in Nat
          /\ Cardinality(source \ unread) <= MaxKey
      BY SourceSize
    <3> QED
      BY <3>1 DEF RowsInv
  <2>2. keyOf \in Seq(Keys) /\ Len(keyOf) = Len(author)
    BY DEF RowsInv
  <2>3. fails \in Nat
    BY DEF ToleranceInv
  <2>4. /\ before \subseteq Keys /\ todo \subseteq before
        /\ dropped \subseteq before /\ removed \subseteq before
    BY DEF KeysInv, MirrorInv
  <2>5. args \in Arguments /\ source \subseteq Keys /\ unread \subseteq source
    BY DEF RowsInv
  <2> QED
    BY <2>1, <2>2, <2>3, <2>4, <2>5 DEF TypeOK
<1> QED
  BY <1>1, RowsInvariant, UploaderInvariant, KeysInvariant, ToleranceInvariant,
     MirrorInvariant, PlacesInvariant, PTL
=============================================================================
