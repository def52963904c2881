---------------------------- MODULE Uploader_proofs ----------------------------
(* Proofs about Uploader: type correctness in every case, and what becomes *)
(* of the batches of an uploader that has the transaction for itself.      *)
EXTENDS Uploader, FiniteSetTheorems, SequenceTheorems, TLAPS

USE UploaderAssumption DEF UploaderAssumption

LEMMA Configured ==
  ASSUME TypeOK, NEW u \in Uploaders
  PROVE  /\ conf[u] \in ConfigType
         /\ conf[u].kind = "multi" => conf[u].mode # "pipe"
         /\ (conf[u].kind = "single") = ~(conf[u].kind = "multi")
  BY DEF TypeOK, ConfigType

\* What a call does to the history.
LEMMA CallStep ==
  ASSUME TypeOK, NEW u \in Uploaders, NEW s \in Statuses, Call(u, s)
  PROVE  /\ NewChange \in Changes /\ NewChange \notin Asked
         /\ Asked \subseteq Changes
         /\ Asked' = Asked \cup {NewChange}
         /\ author' \in Seq(Uploaders) /\ Len(author') <= MaxChanges
         /\ status' \in Seq(Statuses) /\ Len(status') = Len(author')
         /\ \A c \in Asked : author'[c] = author[c] /\ status'[c] = status[c]
         /\ author'[NewChange] = u /\ status'[NewChange] = s
         /\ conf' = conf /\ piped' = piped
<1> DEFINE n == Len(author)
<1>1. /\ n \in Nat /\ n < MaxChanges /\ Len(status) = n
      /\ author \in Seq(Uploaders) /\ status \in Seq(Statuses)
      /\ author' = Append(author, u) /\ status' = Append(status, s)
      /\ conf' = conf /\ piped' = piped
  BY DEF Call, TypeOK
<1>2. DOMAIN author = 1 .. n /\ DOMAIN author' = 1 .. n + 1
  BY <1>1
<1> QED
  BY <1>1, <1>2 DEF NewChange, Changes, Asked

\* The changes of an open batch after a call.
LEMMA CallOwn ==
  ASSUME TypeOK, NEW u \in Uploaders, NEW s \in Statuses, Call(u, s)
  PROVE  /\ s = "asked" => Own(u)' = Own(u) \cup {NewChange}
         /\ s # "asked" => Own(u)' = Own(u)
         /\ \A v \in Uploaders : v # u => Own(v)' = Own(v)
  BY CallStep DEF Own

\* What the end of a batch does to the history.
LEMMA SettleStep ==
  ASSUME TypeOK, NEW u \in Uploaders, NEW s \in Statuses, s # "asked",
         Settle(u, s), author' = author
  PROVE  /\ Asked' = Asked
         /\ status' \in Seq(Statuses) /\ Len(status') = Len(author)
         /\ \A c \in Own(u) : status'[c] = s
         /\ \A c \in Asked : c \notin Own(u) => status'[c] = status[c]
         /\ Own(u)' = {}
         /\ \A v \in Uploaders : v # u => Own(v)' = Own(v)
<1> DEFINE n == Len(author)
<1>1. n \in Nat /\ Asked = 1 .. n /\ Asked' = Asked /\ DOMAIN status = 1 .. n
      /\ status \in Seq(Statuses)
  BY DEF TypeOK, Asked
<1>2. status' = [c \in 1 .. n |-> IF c \in Own(u) THEN s ELSE status[c]]
  BY <1>1 DEF Settle
<1>3. \A c \in 1 .. n : status[c] \in Statuses
  BY <1>1
<1>4. status' \in Seq(Statuses) /\ Len(status') = n
  BY <1>1, <1>2, <1>3
<1>5. \A c \in Asked : status'[c] = IF c \in Own(u) THEN s ELSE status[c]
  BY <1>1, <1>2
<1>6. /\ \A c \in Own(u) : status'[c] = s
      /\ \A c \in Asked : c \notin Own(u) => status'[c] = status[c]
  BY <1>5 DEF Own
<1>7. Own(u)' = {}
  BY <1>1, <1>6 DEF Own
<1>8. \A v \in Uploaders : v # u => Own(v)' = Own(v)
  BY <1>1, <1>6 DEF Own
<1> QED
  BY <1>1, <1>4, <1>6, <1>7, <1>8

-----------------------------------------------------------------------------
(* Type correctness.                                                       *)

LEMMA DatabaseTypes ==
  ASSUME TypeOK, NEW cs
  PROVE  /\ Saved(cs) \in [Changes -> Nat] /\ Pending(cs) \in [Changes -> Nat]
         /\ None \in [Changes -> Nat]
         /\ [c \in Changes |-> Saved(cs)[c] + Pending(cs)[c]] \in [Changes -> Nat]
<1>1. Plus(saved, cs) \in [Changes -> Nat] /\ Plus(pending, cs) \in [Changes -> Nat]
  BY DEF TypeOK, Plus
<1>2. Saved(cs) \in [Changes -> Nat] /\ Pending(cs) \in [Changes -> Nat]
  BY <1>1 DEF TypeOK, Saved, Pending
<1> QED
  BY <1>2 DEF None

LEMMA TypeInit == Init => TypeOK
  BY DEF Init, TypeOK, None, Statuses, Changes

\* The calls.
LEMMA TypeCalls ==
  ASSUME TypeOK, NEW u \in Uploaders,
         Statement(u) \/ BufferRow(u) \/ Unconvertible(u)
  PROVE  TypeOK'
<1> USE DEF Statuses
<1>1. CASE Execute(u)
  <2>1. /\ Call(u, "asked") /\ Run({NewChange})
        /\ rowCount' = [rowCount EXCEPT ![u] = @ + 1]
        /\ UNCHANGED <<errors, pipe, buffer, raised, faults>>
    BY <1>1 DEF Execute, NoFault
  <2>2. saved' \in [Changes -> Nat] /\ pending' \in [Changes -> Nat]
    BY <2>1, DatabaseTypes DEF Run
  <2> QED
    BY <2>1, <2>2, CallStep DEF TypeOK
<1>2. CASE ExecuteFails(u)
  <2>1. /\ Call(u, "undone")
        /\ errors' \in [Uploaders -> BOOLEAN] /\ raised' \in [Uploaders -> BOOLEAN]
        /\ faults' \in 0 .. MaxFaults
        /\ UNCHANGED <<saved, pending, rowCount, pipe, buffer>>
    BY <1>2, Configured DEF ExecuteFails, Fault, TypeOK, database, ConfigType
  <2> QED
    BY <2>1, CallStep DEF TypeOK
<1>3. CASE KeepStatement(u)
  <2>1. /\ Call(u, "asked")
        /\ rowCount' = [rowCount EXCEPT ![u] = @ + 1]
        /\ pipe' = IF conf[u].mode = "pipe"
                   THEN [pipe EXCEPT ![u] = Append(@, NewChange)] ELSE pipe
        /\ UNCHANGED <<saved, pending, errors, buffer, raised, faults>>
    BY <1>3 DEF KeepStatement, database
  <2>2. Append(pipe[u], NewChange) \in Seq(Changes)
    BY <2>1, CallStep DEF TypeOK
  <2>3. pipe' \in [Uploaders -> Seq(Changes)]
    BY <2>1, <2>2 DEF TypeOK
  <2>4. /\ conf' = conf /\ piped' = piped
        /\ author' \in Seq(Uploaders) /\ Len(author') <= MaxChanges
        /\ status' \in Seq(Statuses) /\ Len(status') = Len(author')
    BY <2>1, CallStep
  <2>5. /\ rowCount' \in [Uploaders -> Nat]
        /\ UNCHANGED <<saved, pending, errors, buffer, raised, faults>>
    BY <2>1 DEF TypeOK
  <2> QED
    BY <2>3, <2>4, <2>5 DEF TypeOK
<1>4. CASE BufferRow(u)
  <2>1. /\ Call(u, "asked")
        /\ rowCount' = [rowCount EXCEPT ![u] = @ + 1]
        /\ buffer' = [buffer EXCEPT ![u] = Append(@, NewChange)]
        /\ UNCHANGED <<saved, pending, errors, pipe, raised, faults>>
    BY <1>4 DEF BufferRow, database
  <2>2. Append(buffer[u], NewChange) \in Seq(Changes)
    BY <2>1, CallStep DEF TypeOK
  <2>3. buffer' \in [Uploaders -> Seq(Changes)]
    BY <2>1, <2>2 DEF TypeOK
  <2>4. /\ conf' = conf /\ piped' = piped
        /\ author' \in Seq(Uploaders) /\ Len(author') <= MaxChanges
        /\ status' \in Seq(Statuses) /\ Len(status') = Len(author')
    BY <2>1, CallStep
  <2>5. /\ rowCount' \in [Uploaders -> Nat]
        /\ UNCHANGED <<saved, pending, errors, pipe, raised, faults>>
    BY <2>1 DEF TypeOK
  <2> QED
    BY <2>3, <2>4, <2>5 DEF TypeOK
<1>5. CASE Unconvertible(u)
  <2>1. /\ Call(u, "undone") /\ raised' \in [Uploaders -> BOOLEAN]
        /\ UNCHANGED <<saved, pending, rowCount, errors, pipe, buffer, faults>>
    BY <1>5 DEF Unconvertible, TypeOK, database
  <2> QED
    BY <2>1, CallStep DEF TypeOK
<1> QED
  BY <1>1, <1>2, <1>3, <1>4, <1>5 DEF Statement

\* The end of a batch, and its failures.
LEMMA TypeBatches ==
  ASSUME TypeOK, NEW u \in Uploaders,
         \/ Enter(u) \/ CommitNothing(u) \/ BatchFails(u) \/ EndBatch(u)
         \/ CommitRefused(u) \/ RollbackRefused(u) \/ DryRunFails(u)
         \/ HandOver(u)
  PROVE  TypeOK'
<1> USE DEF Statuses
<1>1. /\ << >> \in Seq(Changes) /\ Len(buffer[u]) \in Nat
      /\ rowCount[u] + Len(buffer[u]) \in Nat
      /\ piped[u] \o pipe[u] \in Seq(Changes)
  BY DEF TypeOK
<1>2. \A s \in Statuses : s # "asked" /\ Settle(u, s) /\ author' = author =>
        status' \in Seq(Statuses) /\ Len(status') = Len(author)
  BY SettleStep
<1>3. \A cs : Run(cs) \/ RunAndUndo(cs) \/ RunAndCommit(cs) =>
        saved' \in [Changes -> Nat] /\ pending' \in [Changes -> Nat]
  BY DatabaseTypes DEF Run, RunAndUndo, RunAndCommit
<1>4. Fault \/ NoFault => faults' \in 0 .. MaxFaults
  BY DEF Fault, NoFault, TypeOK
<1>5. CASE Enter(u)
  <2>1. saved' \in [Changes -> Nat] /\ pending' \in [Changes -> Nat]
    BY <1>3, <1>5 DEF Enter, database, TypeOK
  <2>2. status' \in Seq(Statuses) /\ Len(status') = Len(author)
    BY <1>2, <1>5 DEF Enter
  <2> QED
    BY <1>1, <1>5, <2>1, <2>2 DEF Enter, TypeOK
<1>6. CASE CommitNothing(u)
  <2>1. status' \in Seq(Statuses) /\ Len(status') = Len(author)
    BY <1>2, <1>6 DEF CommitNothing
  <2> QED
    BY <1>6, <2>1 DEF CommitNothing, database, TypeOK
<1>7. CASE BatchFails(u)
  <2>1. saved' \in [Changes -> Nat] /\ pending' \in [Changes -> Nat]
    BY <1>3, <1>7 DEF BatchFails
  <2> QED
    BY <1>4, <1>7, <2>1 DEF BatchFails, TypeOK
<1>8. CASE EndBatch(u)
  <2>1. /\ saved' \in [Changes -> Nat] /\ pending' \in [Changes -> Nat]
        /\ faults' \in 0 .. MaxFaults
    BY <1>3, <1>4, <1>8 DEF EndBatch
  <2>2. BatchDone(u, "committed") \/ BatchDone(u, "undone")
    BY <1>8 DEF EndBatch
  <2>3. status' \in Seq(Statuses) /\ Len(status') = Len(author)
    BY <1>2, <2>2 DEF BatchDone
  <2> QED
    BY <1>1, <1>8, <2>1, <2>2, <2>3 DEF EndBatch, BatchDone, TypeOK
<1>9. CASE CommitRefused(u)
  <2>1. saved' \in [Changes -> Nat] /\ pending' \in [Changes -> Nat]
    BY <1>3, <1>9 DEF CommitRefused
  <2>2. BatchDone(u, "refused")
    BY <1>9 DEF CommitRefused
  <2>3. status' \in Seq(Statuses) /\ Len(status') = Len(author)
    BY <1>2, <2>2 DEF BatchDone
  <2> QED
    BY <1>1, <1>4, <1>9, <2>1, <2>2, <2>3 DEF CommitRefused, BatchDone, TypeOK
<1>10. CASE RollbackRefused(u)
  <2>1. saved' \in [Changes -> Nat] /\ pending' \in [Changes -> Nat]
    BY <1>3, <1>10 DEF RollbackRefused
  <2> QED
    BY <1>1, <1>4, <1>10, <2>1 DEF RollbackRefused, TypeOK
<1>11. CASE DryRunFails(u)
  BY <1>1, <1>11 DEF DryRunFails, database, TypeOK
<1>12. CASE HandOver(u)
  <2>1. BatchDone(u, "handed")
    BY <1>12 DEF HandOver
  <2>2. status' \in Seq(Statuses) /\ Len(status') = Len(author)
    BY <1>2, <2>1 DEF BatchDone
  <2> QED
    BY <1>1, <1>12, <2>1, <2>2 DEF HandOver, BatchDone, database, TypeOK
<1> QED
  BY <1>5, <1>6, <1>7, <1>8, <1>9, <1>10, <1>11, <1>12

LEMMA TypeStep ==
  ASSUME TypeOK, [Next]_vars
  PROVE  TypeOK'
<1>1. CASE Next
  BY <1>1, TypeCalls, TypeBatches DEF Next
<1>2. CASE UNCHANGED vars
  BY <1>2 DEF vars, TypeOK
<1> QED
  BY <1>1, <1>2

\* Every variable keeps its shape, whatever the uploaders, their arguments and
\* the failures: counts never fall below zero, and the history stays in step.
THEOREM UploaderTypeCorrect == Spec => []TypeOK
  BY TypeInit, TypeStep, PTL DEF Spec

-----------------------------------------------------------------------------
(* Batches. One uploader has the transaction to itself, and the database   *)
(* drops a transaction whose commit it refuses. The other uploaders, those *)
(* of the modes dryrun and pipe, do not reach the database.                *)

Separate ==
  /\ ~Shared /\ ~AutoCommit /\ ~ModifyOnMulti
  /\ RefusedCommits \subseteq {"drop"}

OneTouches ==
  \A u, v \in Uploaders : Touches(conf[u]) /\ Touches(conf[v]) => u = v

\* What is open in the transaction: rows of the one uploader, counted.
PendingInv ==
  \A c \in Changes : pending[c] > 0 =>
    c \in Asked /\ Touches(conf[author[c]]) /\ rowCount[author[c]] > 0

\* While that uploader still asks for commits, these are changes of its batch,
\* each once, and the multi class has none there.
OpenInv ==
  \A u \in Uploaders : AsksCommit(u) =>
    \A c \in Changes : pending[c] > 0 =>
      status[c] = "asked" /\ conf[u].kind = "single" /\ pending[c] = 1

SavedInv ==
  \A c \in Changes : saved[c] > 0 =>
    c \in Asked /\ status[c] = "committed" /\ saved[c] = 1

BufferInv ==
  \A u \in Uploaders :
    /\ \A i \in DOMAIN buffer[u] : buffer[u][i] \in Own(u)
    /\ buffer[u] # << >> => rowCount[u] > 0 /\ conf[u].kind = "multi"

\* Nothing of an open batch has been forgotten.
CompleteInv ==
  \A u \in Uploaders : conf[u].exit /\ AsksCommit(u) =>
    \A c \in Own(u) :
      IF conf[u].kind = "multi"
      THEN \E i \in DOMAIN buffer[u] : buffer[u][i] = c
      ELSE pending[c] > 0

BatchInv ==
  /\ OneTouches /\ PendingInv /\ OpenInv /\ SavedInv
  /\ BufferInv /\ CompleteInv /\ CommittedIsSaved

LEMMA BatchInit ==
  ASSUME Separate, Init
  PROVE  BatchInv
<1> DEFINE T == {u \in Uploaders : Touches(conf[u])}
<1>1. Cardinality(T) <= 1 /\ T \subseteq Uploaders
  BY DEF Init, Separate
<1>2. ASSUME NEW u \in T, NEW v \in T, u # v
      PROVE  FALSE
  <2>1. IsFiniteSet(T)
    BY <1>1, FS_Subset
  <2>2. IsFiniteSet({u}) /\ Cardinality({u}) = 1
    BY FS_Singleton
  <2>3. Cardinality({u} \cup {v}) = Cardinality({u}) + 1
    BY <1>2, <2>2, FS_AddElement
  <2>4. {u} \cup {v} \subseteq T
    BY <1>2
  <2>5. Cardinality({u} \cup {v}) <= Cardinality(T)
    BY <2>1, <2>4, FS_Subset
  <2>6. Cardinality(T) \in Nat
    BY <2>1, FS_CardinalityType
  <2> QED
    BY <1>1, <2>2, <2>3, <2>5, <2>6
<1>3. OneTouches
  BY <1>2 DEF OneTouches
<1>4. PendingInv /\ OpenInv /\ SavedInv /\ BufferInv
  BY DEF Init, None, PendingInv, OpenInv, SavedInv, BufferInv
<1>5. CompleteInv /\ CommittedIsSaved
  BY DEF Init, CompleteInv, CommittedIsSaved, Own, Asked
<1> QED
  BY <1>3, <1>4, <1>5 DEF BatchInv

\* The transaction, when the connection does not commit by itself.
LEMMA Transaction ==
  ASSUME TypeOK, Separate, NEW cs
  PROVE  /\ Run(cs) =>
              /\ saved' = saved
              /\ \A c \in Changes :
                   pending'[c] = IF c \in cs THEN pending[c] + 1 ELSE pending[c]
         /\ RunAndUndo(cs) =>
              saved' = saved /\ \A c \in Changes : pending'[c] = 0
         /\ RunAndCommit(cs) =>
              /\ \A c \in Changes :
                   saved'[c] = saved[c] + (IF c \in cs THEN pending[c] + 1 ELSE pending[c])
              /\ \A c \in Changes : pending'[c] = 0
<1>1. Saved(cs) = saved /\ Pending(cs) = Plus(pending, cs)
  BY DEF Separate, Saved, Pending
<1>2. \A c \in Changes :
        Plus(pending, cs)[c] = IF c \in cs THEN pending[c] + 1 ELSE pending[c]
  BY DEF Plus
<1>3. \A c \in Changes : None[c] = 0
  BY DEF None
<1> QED
  BY <1>1, <1>2, <1>3 DEF Run, RunAndUndo, RunAndCommit

\* A change that is asked for has no trace in the database before.
LEMMA NewIsNew ==
  ASSUME TypeOK, BatchInv, NEW u \in Uploaders, NEW s \in Statuses, Call(u, s)
  PROVE  saved[NewChange] = 0 /\ pending[NewChange] = 0
<1>1. NewChange \in Changes /\ NewChange \notin Asked
  BY CallStep
<1>2. saved[NewChange] \in Nat /\ pending[NewChange] \in Nat
  BY <1>1 DEF TypeOK
<1> QED
  BY <1>1, <1>2 DEF BatchInv, SavedInv, PendingInv

\* A call that leaves the database and the buffers alone.
LEMMA QuietCall ==
  ASSUME TypeOK, BatchInv, NEW u \in Uploaders, NEW s \in {"asked", "undone"},
         Call(u, s), UNCHANGED <<saved, pending, buffer>>,
         s = "asked" => ~Touches(conf[u]),
         TypeOK', \A v \in Uploaders : rowCount'[v] >= rowCount[v],
         \A v \in Uploaders : errors[v] => errors'[v]
  PROVE  BatchInv'
<1> USE DEF Statuses
<1> DEFINE n == NewChange
<1>1. /\ n \in Changes /\ n \notin Asked /\ Asked' = Asked \cup {n}
      /\ Asked \subseteq Changes
      /\ \A c \in Asked : author'[c] = author[c] /\ status'[c] = status[c]
      /\ author'[n] = u /\ status'[n] = s /\ conf' = conf
  BY CallStep
<1>2. /\ \A v \in Uploaders : Own(v) \subseteq Own(v)'
      /\ \A v \in Uploaders : Touches(conf[v]) => Own(v)' = Own(v)
  BY CallOwn
<1>3. saved[n] = 0 /\ pending[n] = 0
  BY NewIsNew
<1>4. \A c \in Asked : author[c] \in Uploaders
  BY DEF TypeOK, Asked
<1>5. OneTouches' /\ SavedInv'
  BY <1>1 DEF BatchInv, OneTouches, SavedInv
<1>6. PendingInv' /\ OpenInv'
  <2>1. ASSUME NEW c \in Changes, pending[c] > 0
        PROVE  /\ c \in Asked /\ Touches(conf[author[c]])
               /\ rowCount'[author[c]] > 0
    <3>1. c \in Asked /\ Touches(conf[author[c]]) /\ rowCount[author[c]] > 0
      BY <2>1 DEF BatchInv, PendingInv
    <3>2. rowCount[author[c]] \in Nat /\ rowCount'[author[c]] \in Nat
      BY <1>4, <3>1 DEF TypeOK
    <3> QED
      BY <1>4, <3>1, <3>2
  <2>2. PendingInv'
    BY <1>1, <2>1 DEF PendingInv
  <2>3. OpenInv'
    BY <1>1, <2>1 DEF BatchInv, OpenInv, AsksCommit
  <2> QED
    BY <2>2, <2>3
<1>7. BufferInv'
  <2> SUFFICES ASSUME NEW v \in Uploaders
               PROVE  /\ \A i \in DOMAIN buffer[v] : buffer[v][i] \in Own(v)'
                      /\ buffer[v] # << >> =>
                           rowCount'[v] > 0 /\ conf[v].kind = "multi"
    BY <1>1 DEF BufferInv
  <2>1. /\ \A i \in DOMAIN buffer[v] : buffer[v][i] \in Own(v)
        /\ buffer[v] # << >> => rowCount[v] > 0 /\ conf[v].kind = "multi"
    BY DEF BatchInv, BufferInv
  <2>2. rowCount[v] \in Nat /\ rowCount'[v] \in Nat /\ rowCount'[v] >= rowCount[v]
    BY DEF TypeOK
  <2> QED
    BY <1>2, <2>1, <2>2
<1>8. CompleteInv'
  BY <1>1, <1>2 DEF BatchInv, CompleteInv, AsksCommit, Touches
<1>9. CommittedIsSaved'
  BY <1>1 DEF BatchInv, CommittedIsSaved
<1> QED
  BY <1>5, <1>6, <1>7, <1>8, <1>9 DEF BatchInv

\* A statement of the one uploader that succeeds.
LEMMA ExecuteKeeps ==
  ASSUME TypeOK, Separate, BatchInv, NEW u \in Uploaders,
         conf[u].kind = "single", Execute(u)
  PROVE  BatchInv'
<1> USE DEF Statuses
<1> DEFINE n == NewChange
<1>0. /\ Touches(conf[u]) /\ Call(u, "asked") /\ Run({n})
      /\ rowCount' = [rowCount EXCEPT ![u] = @ + 1]
      /\ errors' = errors /\ buffer' = buffer
  BY DEF Execute
<1>1. /\ n \in Changes /\ n \notin Asked /\ Asked' = Asked \cup {n}
      /\ Asked \subseteq Changes
      /\ \A c \in Asked : author'[c] = author[c] /\ status'[c] = status[c]
      /\ author'[n] = u /\ status'[n] = "asked" /\ conf' = conf
  BY <1>0, CallStep
<1>2. /\ \A v \in Uploaders : Own(v) \subseteq Own(v)'
      /\ \A v \in Uploaders : v # u => Own(v)' = Own(v)
      /\ Own(u)' = Own(u) \cup {n}
  BY <1>0, CallOwn
<1>3. saved[n] = 0 /\ pending[n] = 0
  BY <1>0, NewIsNew
<1>4. /\ saved' = saved
      /\ \A c \in Changes : pending'[c] = IF c = n THEN pending[c] + 1 ELSE pending[c]
  BY <1>0, Transaction
<1>5. /\ \A v \in Uploaders : rowCount'[v] >= rowCount[v] /\ rowCount[v] \in Nat
      /\ rowCount'[u] > 0
      /\ \A v \in Uploaders : rowCount[v] > 0 => rowCount'[v] > 0
  BY <1>0 DEF TypeOK
<1>6. \A c \in Asked : author[c] \in Uploaders
  BY DEF TypeOK, Asked
<1>7. OneTouches' /\ SavedInv'
  BY <1>1, <1>4 DEF BatchInv, OneTouches, SavedInv
<1>8. PendingInv'
  BY <1>0, <1>1, <1>4, <1>5, <1>6 DEF BatchInv, PendingInv
<1>9. OpenInv'
  <2> SUFFICES ASSUME NEW v \in Uploaders, AsksCommit(v), NEW c \in Changes,
                      pending'[c] > 0
               PROVE  /\ status'[c] = "asked" /\ conf[v].kind = "single"
                      /\ pending'[c] = 1
    BY <1>0, <1>1 DEF OpenInv, AsksCommit
  <2>1. v = u
    BY <1>0 DEF AsksCommit, Touches, BatchInv, OneTouches
  <2>2. CASE c = n
    BY <1>1, <1>3, <1>4, <2>1, <2>2
  <2>3. CASE c # n
    BY <1>1, <1>4, <2>3 DEF BatchInv, OpenInv, PendingInv
  <2> QED
    BY <2>2, <2>3
<1>10. BufferInv'
  BY <1>0, <1>1, <1>2, <1>5 DEF BatchInv, BufferInv
<1>11. CompleteInv'
  <2> SUFFICES ASSUME NEW v \in Uploaders, conf[v].exit, AsksCommit(v),
                      NEW c \in Own(v)'
               PROVE  IF conf[v].kind = "multi"
                      THEN \E i \in DOMAIN buffer[v] : buffer[v][i] = c
                      ELSE pending'[c] > 0
    BY <1>0, <1>1 DEF CompleteInv, AsksCommit
  <2>1. v = u
    BY <1>0 DEF AsksCommit, Touches, BatchInv, OneTouches
  <2>2. CASE c = n
    BY <1>1, <1>3, <1>4, <2>1, <2>2
  <2>3. CASE c # n
    <3>1. c \in Own(u) /\ c \in Changes
      BY <1>1, <1>2, <2>1, <2>3 DEF Own
    <3> QED
      BY <1>4, <2>1, <2>3, <3>1 DEF BatchInv, CompleteInv
  <2> QED
    BY <2>2, <2>3
<1>12. CommittedIsSaved'
  BY <1>1, <1>4 DEF BatchInv, CommittedIsSaved
<1> QED
  BY <1>7, <1>8, <1>9, <1>10, <1>11, <1>12 DEF BatchInv

\* A row of the multi class joins its buffer.
LEMMA BufferRowKeeps ==
  ASSUME TypeOK, BatchInv, NEW u \in Uploaders, BufferRow(u)
  PROVE  BatchInv'
<1> USE DEF Statuses
<1> DEFINE n == NewChange
           m == Len(buffer[u])
<1>0. /\ conf[u].kind = "multi" /\ Call(u, "asked")
      /\ rowCount' = [rowCount EXCEPT ![u] = @ + 1]
      /\ buffer' = [buffer EXCEPT ![u] = Append(@, n)]
      /\ errors' = errors /\ saved' = saved /\ pending' = pending
  BY DEF BufferRow, database
<1>1. /\ n \in Changes /\ n \notin Asked /\ Asked' = Asked \cup {n}
      /\ Asked \subseteq Changes
      /\ \A c \in Asked : author'[c] = author[c] /\ status'[c] = status[c]
      /\ author'[n] = u /\ status'[n] = "asked" /\ conf' = conf
  BY <1>0, CallStep
<1>2. /\ \A v \in Uploaders : v # u => Own(v)' = Own(v)
      /\ Own(u)' = Own(u) \cup {n}
  BY <1>0, CallOwn
<1>3. saved[n] = 0 /\ pending[n] = 0
  BY <1>0, NewIsNew
<1>4. /\ rowCount'[u] > 0
      /\ \A v \in Uploaders : rowCount[v] > 0 => rowCount'[v] > 0
  BY <1>0 DEF TypeOK
<1>5. \A c \in Asked : author[c] \in Uploaders
  BY DEF TypeOK, Asked
<1>6. /\ m \in Nat /\ DOMAIN buffer[u] = 1 .. m /\ DOMAIN buffer'[u] = 1 .. m + 1
      /\ \A i \in 1 .. m : buffer'[u][i] = buffer[u][i]
      /\ buffer'[u][m + 1] = n
      /\ \A v \in Uploaders : v # u => buffer'[v] = buffer[v]
  BY <1>0 DEF TypeOK
<1>7. OneTouches' /\ SavedInv'
  BY <1>0, <1>1 DEF BatchInv, OneTouches, SavedInv
<1>8. PendingInv' /\ OpenInv'
  <2>1. PendingInv'
    BY <1>0, <1>1, <1>4, <1>5 DEF BatchInv, PendingInv
  <2>2. OpenInv'
    BY <1>0, <1>1 DEF BatchInv, OpenInv, PendingInv, AsksCommit
  <2> QED
    BY <2>1, <2>2
<1>9. BufferInv'
  <2> SUFFICES ASSUME NEW v \in Uploaders
               PROVE  /\ \A i \in DOMAIN buffer'[v] : buffer'[v][i] \in Own(v)'
                      /\ buffer'[v] # << >> =>
                           rowCount'[v] > 0 /\ conf[v].kind = "multi"
    BY <1>1 DEF BufferInv
  <2>1. /\ \A i \in DOMAIN buffer[v] : buffer[v][i] \in Own(v)
        /\ buffer[v] # << >> => rowCount[v] > 0 /\ conf[v].kind = "multi"
    BY DEF BatchInv, BufferInv
  <2>2. CASE v = u
    BY <1>0, <1>2, <1>4, <1>6, <2>1, <2>2
  <2>3. CASE v # u
    BY <1>2, <1>4, <1>6, <2>1, <2>3
  <2> QED
    BY <2>2, <2>3
<1>10. CompleteInv'
  <2> SUFFICES ASSUME NEW v \in Uploaders, conf[v].exit, AsksCommit(v),
                      NEW c \in Own(v)'
               PROVE  IF conf[v].kind = "multi"
                      THEN \E i \in DOMAIN buffer'[v] : buffer'[v][i] = c
                      ELSE pending[c] > 0
    BY <1>0, <1>1 DEF CompleteInv, AsksCommit
  <2>1. CASE c \in Own(v)
    <3>1. IF conf[v].kind = "multi"
          THEN \E i \in DOMAIN buffer[v] : buffer[v][i] = c
          ELSE pending[c] > 0
      BY <2>1 DEF BatchInv, CompleteInv
    <3>2. CASE v = u
      BY <1>0, <1>6, <3>1, <3>2
    <3>3. CASE v # u
      BY <1>6, <3>1, <3>3
    <3> QED
      BY <3>2, <3>3
  <2>2. CASE c \notin Own(v)
    <3>1. v = u /\ c = n
      BY <1>2, <2>2
    <3> QED
      BY <1>0, <1>6, <3>1
  <2> QED
    BY <2>1, <2>2
<1>11. CommittedIsSaved'
  BY <1>0, <1>1 DEF BatchInv, CommittedIsSaved
<1> QED
  BY <1>7, <1>8, <1>9, <1>10, <1>11 DEF BatchInv

\* The end of a batch, whatever ends it: the batch is stored and committed,
\* or not stored.
LEMMA BatchEnds ==
  ASSUME TypeOK, BatchInv, NEW u \in Uploaders, NEW s \in Statuses, s # "asked",
         Settle(u, s), UNCHANGED <<conf, author>>,
         \A v \in Uploaders : v # u =>
           /\ rowCount'[v] = rowCount[v] /\ buffer'[v] = buffer[v]
           /\ errors'[v] = errors[v],
         buffer'[u] = << >>,
         \/ \A c \in Changes : pending'[c] = 0
         \/ /\ pending' = pending /\ ~AsksCommit(u)'
            /\ Touches(conf[u]) => rowCount' = rowCount,
         ~Touches(conf[u]) => pending' = pending,
         \A c \in Changes :
           \/ saved'[c] = saved[c]
           \/ c \in Own(u) /\ s = "committed" /\ saved'[c] = 1,
         s = "committed" /\ conf[u].exit => \A c \in Own(u) : saved'[c] > 0
  PROVE  BatchInv'
<1>1. /\ Asked' = Asked /\ Asked \subseteq Changes
      /\ \A c \in Own(u) : status'[c] = s
      /\ \A c \in Asked : c \notin Own(u) => status'[c] = status[c]
      /\ Own(u)' = {}
      /\ \A v \in Uploaders : v # u => Own(v)' = Own(v)
  BY SettleStep DEF TypeOK, Asked, Changes
<1>2. \A c \in Asked : author[c] \in Uploaders
  BY DEF TypeOK, Asked
<1>3. OneTouches'
  BY DEF BatchInv, OneTouches
<1>4. SavedInv'
  BY <1>1 DEF BatchInv, SavedInv, Own
<1>5. PendingInv'
  BY <1>1, <1>2 DEF BatchInv, PendingInv
<1>6. OpenInv'
  <2> SUFFICES ASSUME NEW v \in Uploaders, AsksCommit(v)', NEW c \in Changes,
                      pending'[c] > 0
               PROVE  /\ status'[c] = "asked" /\ conf[v].kind = "single"
                      /\ pending'[c] = 1
    BY DEF OpenInv
  <2>1. pending' = pending /\ v # u
    OBVIOUS
  <2>2. AsksCommit(v)
    BY <2>1 DEF AsksCommit
  <2>3. /\ status[c] = "asked" /\ conf[v].kind = "single" /\ pending[c] = 1
        /\ c \in Asked /\ Touches(conf[author[c]])
    BY <2>1, <2>2 DEF BatchInv, OpenInv, PendingInv
  <2>4. author[c] = v
    BY <1>2, <2>2, <2>3 DEF BatchInv, OneTouches, AsksCommit, Touches
  <2>5. c \notin Own(u)
    BY <2>1, <2>4 DEF Own
  <2> QED
    BY <1>1, <2>1, <2>3, <2>5
<1>7. BufferInv'
  <2> SUFFICES ASSUME NEW v \in Uploaders
               PROVE  /\ \A i \in DOMAIN buffer'[v] : buffer'[v][i] \in Own(v)'
                      /\ buffer'[v] # << >> =>
                           rowCount'[v] > 0 /\ conf[v].kind = "multi"
    BY DEF BufferInv
  <2>1. CASE v = u
    BY <2>1
  <2>2. CASE v # u
    BY <1>1, <2>2 DEF BatchInv, BufferInv
  <2> QED
    BY <2>1, <2>2
<1>8. CompleteInv'
  <2> SUFFICES ASSUME NEW v \in Uploaders, conf[v].exit, AsksCommit(v)',
                      NEW c \in Own(v)'
               PROVE  IF conf[v].kind = "multi"
                      THEN \E i \in DOMAIN buffer'[v] : buffer'[v][i] = c
                      ELSE pending'[c] > 0
    BY DEF CompleteInv
  <2>1. v # u /\ c \in Own(v)
    BY <1>1
  <2>2. AsksCommit(v)
    BY <2>1 DEF AsksCommit
  <2>3. IF conf[v].kind = "multi"
        THEN \E i \in DOMAIN buffer[v] : buffer[v][i] = c
        ELSE pending[c] > 0
    BY <2>1, <2>2 DEF BatchInv, CompleteInv
  <2>4. pending' = pending
    BY <2>1, <2>2 DEF BatchInv, OneTouches, AsksCommit, Touches
  <2> QED
    BY <2>1, <2>3, <2>4
<1>9. CommittedIsSaved'
  BY <1>1 DEF BatchInv, CommittedIsSaved, Own
<1> QED
  BY <1>3, <1>4, <1>5, <1>6, <1>7, <1>8, <1>9 DEF BatchInv

\* A commit() that fails before it settles its batch: a refused row or
\* rollback leaves a marked uploader, or one that does not commit, behind.
LEMMA BatchStays ==
  ASSUME TypeOK, TypeOK', BatchInv, NEW u \in Uploaders,
         UNCHANGED <<conf, saved, author, status>>, ~AsksCommit(u)',
         errors[u] => errors'[u],
         \A v \in Uploaders : v # u =>
           /\ rowCount'[v] = rowCount[v] /\ buffer'[v] = buffer[v]
           /\ errors'[v] = errors[v],
         rowCount'[u] >= rowCount[u], buffer'[u] \in {buffer[u], << >>},
         \A c \in Changes :
           \/ pending'[c] = pending[c]
           \/ \E i \in DOMAIN buffer[u] : buffer[u][i] = c,
         ~Touches(conf[u]) => pending' = pending
  PROVE  BatchInv'
<1>1. /\ Asked' = Asked /\ \A v \in Uploaders : Own(v)' = Own(v)
  BY DEF Asked, Own
<1>2. \A c \in Asked : author[c] \in Uploaders
  BY DEF TypeOK, Asked
<1>3. \A v \in Uploaders :
        /\ rowCount[v] \in Nat /\ rowCount'[v] \in Nat /\ rowCount'[v] >= rowCount[v]
        /\ rowCount[v] > 0 => rowCount'[v] > 0
  <2>1. \A v \in Uploaders : rowCount[v] \in Nat /\ rowCount'[v] \in Nat
    BY DEF TypeOK
  <2>2. \A v \in Uploaders : rowCount'[v] = rowCount[v] \/ v = u
    OBVIOUS
  <2>3. \A v \in Uploaders : rowCount'[v] >= rowCount[v]
    BY <2>1, <2>2
  <2> QED
    BY <2>1, <2>3
<1>4. ASSUME NEW v \in Uploaders, AsksCommit(v)'
      PROVE  v # u /\ AsksCommit(v) /\ pending' = pending
  BY <1>4 DEF AsksCommit, Touches, BatchInv, OneTouches
<1>5. OneTouches' /\ SavedInv' /\ CommittedIsSaved'
  BY <1>1 DEF BatchInv, OneTouches, SavedInv, CommittedIsSaved
<1>6. PendingInv'
  <2> SUFFICES ASSUME NEW c \in Changes, pending'[c] > 0
               PROVE  /\ c \in Asked /\ Touches(conf[author[c]])
                      /\ rowCount'[author[c]] > 0
    BY <1>1 DEF PendingInv
  <2>1. CASE pending'[c] = pending[c]
    BY <1>2, <1>3, <2>1 DEF BatchInv, PendingInv
  <2>2. CASE pending'[c] # pending[c]
    <3>1. PICK i \in DOMAIN buffer[u] : buffer[u][i] = c
      BY <2>2
    <3>2. Touches(conf[u]) /\ c \in Own(u) /\ buffer[u] # << >>
      BY <2>2, <3>1 DEF BatchInv, BufferInv
    <3>3. rowCount'[u] > 0
      BY <1>3, <3>2 DEF BatchInv, BufferInv
    <3> QED
      BY <3>2, <3>3 DEF Own
  <2> QED
    BY <2>1, <2>2
<1>7. OpenInv'
  BY <1>4 DEF BatchInv, OpenInv
<1>8. BufferInv'
  <2> SUFFICES ASSUME NEW v \in Uploaders
               PROVE  /\ \A i \in DOMAIN buffer'[v] : buffer'[v][i] \in Own(v)
                      /\ buffer'[v] # << >> =>
                           rowCount'[v] > 0 /\ conf[v].kind = "multi"
    BY <1>1 DEF BufferInv
  <2>1. buffer'[v] = buffer[v] \/ buffer'[v] = << >>
    OBVIOUS
  <2> QED
    BY <1>3, <2>1 DEF BatchInv, BufferInv
<1>9. CompleteInv'
  BY <1>1, <1>4 DEF BatchInv, CompleteInv
<1> QED
  BY <1>5, <1>6, <1>7, <1>8, <1>9 DEF BatchInv

\* No row is open in the transaction of an uploader without a batch that
\* commits, nor in that of one whose count is zero.
LEMMA NothingOpen ==
  ASSUME TypeOK, BatchInv, NEW u \in Uploaders, Touches(conf[u]),
         \/ rowCount[u] = 0
         \/ AsksCommit(u) /\ conf[u].kind = "multi"
  PROVE  \A c \in Changes : pending[c] = 0
<1> SUFFICES ASSUME NEW c \in Changes, pending[c] # 0
             PROVE  FALSE
  OBVIOUS
<1>1. pending[c] > 0
  BY DEF TypeOK
<1>2. /\ c \in Asked /\ Touches(conf[author[c]]) /\ rowCount[author[c]] > 0
  BY <1>1 DEF BatchInv, PendingInv
<1>3. author[c] \in Uploaders
  BY <1>2 DEF TypeOK, Asked
<1>4. author[c] = u
  BY <1>2, <1>3 DEF BatchInv, OneTouches
<1>5. AsksCommit(u) => conf[u].kind = "single"
  BY <1>1 DEF BatchInv, OpenInv
<1> QED
  BY <1>2, <1>4, <1>5

LEMMA EnterKeeps ==
  ASSUME TypeOK, Separate, BatchInv, NEW u \in Uploaders, Enter(u)
  PROVE  BatchInv'
<1>1. /\ Settle(u, "undone") /\ UNCHANGED <<conf, author>>
      /\ rowCount' = [rowCount EXCEPT ![u] = 0]
      /\ errors' = [errors EXCEPT ![u] = FALSE]
      /\ buffer' = [buffer EXCEPT ![u] = << >>]
  BY DEF Enter
<1>2. /\ buffer'[u] = << >>
      /\ \A v \in Uploaders : v # u =>
           /\ rowCount'[v] = rowCount[v] /\ buffer'[v] = buffer[v]
           /\ errors'[v] = errors[v]
  BY <1>1 DEF TypeOK
<1>3. CASE Touches(conf[u])
  <2>1. saved' = saved /\ \A c \in Changes : pending'[c] = 0
    <3>1. CASE rowCount[u] > 0
      BY <1>3, <3>1, Transaction DEF Enter
    <3>2. CASE ~(rowCount[u] > 0)
      <4>1. rowCount[u] = 0 /\ UNCHANGED <<saved, pending>>
        BY <3>2 DEF Enter, database, TypeOK
      <4> QED
        BY <1>3, <4>1, NothingOpen
    <3> QED
      BY <3>1, <3>2
  <2> QED
    BY <1>1, <1>2, <1>3, <2>1, BatchEnds DEF Statuses
<1>4. CASE ~Touches(conf[u])
  <2>1. UNCHANGED <<saved, pending>> /\ ~AsksCommit(u)'
    BY <1>1, <1>4 DEF Enter, database, AsksCommit, Touches
  <2> QED
    BY <1>1, <1>2, <1>4, <2>1, BatchEnds DEF Statuses
<1> QED
  BY <1>3, <1>4

LEMMA CommitNothingKeeps ==
  ASSUME TypeOK, BatchInv, NEW u \in Uploaders, CommitNothing(u)
  PROVE  BatchInv'
<1> DEFINE s == IF ~Touches(conf[u]) THEN "handed"
                ELSE IF AsksCommit(u) THEN "committed" ELSE "undone"
<1>1. /\ Settle(u, s)
      /\ UNCHANGED <<conf, saved, pending, rowCount, errors, buffer, author>>
  BY DEF CommitNothing, database
<1>2. s \in Statuses /\ s # "asked"
  BY DEF Statuses
<1>3. buffer[u] = << >>
  <2>1. CASE conf[u].kind = "multi"
    BY <2>1 DEF CommitNothing
  <2>2. CASE conf[u].kind # "multi"
    BY <2>2 DEF BatchInv, BufferInv
  <2> QED
    BY <2>1, <2>2
<1>4. CASE AsksCommit(u)
  <2>1. Touches(conf[u]) /\ s = "committed"
    BY <1>4 DEF AsksCommit, Touches
  <2>2. rowCount[u] = 0 \/ conf[u].kind = "multi"
    BY DEF CommitNothing
  <2>3. \A c \in Changes : pending[c] = 0
    BY <1>4, <2>1, <2>2, NothingOpen
  <2>4. conf[u].exit => Own(u) = {}
    <3> SUFFICES ASSUME conf[u].exit, NEW c \in Own(u)
                 PROVE  FALSE
      OBVIOUS
    <3>1. IF conf[u].kind = "multi"
          THEN \E i \in DOMAIN buffer[u] : buffer[u][i] = c
          ELSE pending[c] > 0
      BY <1>4 DEF BatchInv, CompleteInv
    <3>2. c \in Changes
      BY DEF Own, Asked, TypeOK, Changes
    <3> QED
      BY <1>3, <2>3, <3>1, <3>2
  <2> QED
    BY <1>1, <1>2, <1>3, <2>3, <2>4, BatchEnds
<1>5. CASE ~AsksCommit(u)
  <2>1. ~AsksCommit(u)' /\ s # "committed"
    BY <1>1, <1>5 DEF AsksCommit
  <2> QED
    BY <1>1, <1>2, <1>3, <2>1, BatchEnds
<1> QED
  BY <1>4, <1>5

\* The variables of an uploader after its batch is done with.
LEMMA DoneStep ==
  ASSUME TypeOK, NEW u \in Uploaders, NEW s, BatchDone(u, s)
  PROVE  /\ Settle(u, s) /\ UNCHANGED <<conf, author, errors>>
         /\ buffer'[u] = << >>
         /\ \A v \in Uploaders : v # u =>
              /\ rowCount'[v] = rowCount[v] /\ buffer'[v] = buffer[v]
              /\ errors'[v] = errors[v]
  BY DEF BatchDone, TypeOK

\* What the multi class sends are rows of its batch.
LEMMA SentRows ==
  ASSUME TypeOK, BatchInv, NEW u \in Uploaders
  PROVE  /\ \A n \in 0 .. Len(buffer[u]) : BatchRows(u, n) \subseteq Own(u)
         /\ \A sent \in Sent(u) \cup PartlySent(u) :
              /\ sent \subseteq Own(u)
              /\ conf[u].kind # "multi" => sent = {}
         /\ conf[u].exit => PartlySent(u) = {}
         /\ \A sent \in Sent(u) : conf[u].kind = "multi" =>
              \A i \in DOMAIN buffer[u] : buffer[u][i] \in sent
<1>1. Len(buffer[u]) \in Nat /\ DOMAIN buffer[u] = 1 .. Len(buffer[u])
  BY DEF TypeOK
<1>2. \A n \in 0 .. Len(buffer[u]) : BatchRows(u, n) \subseteq Own(u)
  BY <1>1 DEF BatchRows, BatchInv, BufferInv
<1>3. \A sent \in Sent(u) : sent \subseteq Own(u) /\ (conf[u].kind # "multi" => sent = {})
  BY <1>1, <1>2 DEF Sent
<1>4. \A sent \in PartlySent(u) :
        conf[u].kind = "multi" /\ ~conf[u].exit /\ sent \subseteq Own(u)
  BY <1>1, <1>2 DEF PartlySent
<1>5. \A sent \in Sent(u) : conf[u].kind = "multi" =>
        \A i \in DOMAIN buffer[u] : buffer[u][i] \in sent
  BY <1>1 DEF Sent, BatchRows
<1> QED
  BY <1>2, <1>3, <1>4, <1>5

LEMMA EndBatchKeeps ==
  ASSUME TypeOK, Separate, BatchInv, NEW u \in Uploaders, EndBatch(u)
  PROVE  BatchInv'
<1>1. PICK sent \in Sent(u) \cup PartlySent(u) :
        /\ IF sent \in Sent(u) THEN NoFault ELSE Fault
        /\ IF AsksCommit(u) THEN RunAndCommit(sent) ELSE RunAndUndo(sent)
  BY DEF EndBatch
<1>2. Touches(conf[u]) /\ BatchDone(u, IF AsksCommit(u) THEN "committed" ELSE "undone")
  BY DEF EndBatch
<1>3. sent \subseteq Own(u) /\ (conf[u].kind # "multi" => sent = {})
  BY <1>1, SentRows
<1>4. \A c \in Changes : saved[c] \in Nat /\ pending[c] \in Nat
  BY DEF TypeOK
<1>5. CASE AsksCommit(u)
  <2>1. /\ \A c \in Changes :
             saved'[c] = saved[c] + (IF c \in sent THEN pending[c] + 1 ELSE pending[c])
        /\ \A c \in Changes : pending'[c] = 0
    BY <1>1, <1>5, Transaction
  <2>2. ASSUME NEW c \in Changes
        PROVE  \/ saved'[c] = saved[c]
               \/ c \in Own(u) /\ saved'[c] = 1
    <3>1. CASE pending[c] > 0
      <4>1. /\ status[c] = "asked" /\ conf[u].kind = "single" /\ pending[c] = 1
            /\ c \in Asked /\ Touches(conf[author[c]])
        BY <1>5, <3>1 DEF BatchInv, OpenInv, PendingInv
      <4>2. author[c] = u
        BY <1>2, <4>1 DEF BatchInv, OneTouches, TypeOK, Asked
      <4>3. saved[c] = 0 /\ sent = {}
        BY <1>3, <1>4, <4>1 DEF BatchInv, SavedInv
      <4> QED
        BY <2>1, <4>1, <4>2, <4>3 DEF Own
    <3>2. CASE pending[c] = 0 /\ c \in sent
      <4>1. c \in Own(u) /\ saved[c] = 0
        BY <1>3, <1>4, <3>2 DEF BatchInv, SavedInv, Own
      <4> QED
        BY <2>1, <3>2, <4>1
    <3>3. CASE pending[c] = 0 /\ c \notin sent
      BY <1>4, <2>1, <3>3
    <3> QED
      BY <1>4, <3>1, <3>2, <3>3
  <2>3. ASSUME conf[u].exit, NEW c \in Own(u)
        PROVE  saved'[c] > 0
    <3>1. c \in Changes
      BY DEF Own, Asked, TypeOK, Changes
    <3>2. pending[c] > 0 \/ c \in sent
      <4>1. IF conf[u].kind = "multi"
            THEN \E i \in DOMAIN buffer[u] : buffer[u][i] = c
            ELSE pending[c] > 0
        BY <1>5, <2>3 DEF BatchInv, CompleteInv
      <4>2. sent \in Sent(u)
        BY <1>1, <2>3, SentRows
      <4> QED
        BY <4>1, <4>2, SentRows
    <3> QED
      BY <1>4, <2>1, <3>1, <3>2
  <2>4. BatchDone(u, "committed")
    BY <1>2, <1>5
  <2> QED
    BY <1>2, <2>1, <2>2, <2>3, <2>4, DoneStep, BatchEnds DEF Statuses
<1>6. CASE ~AsksCommit(u)
  <2>1. saved' = saved /\ \A c \in Changes : pending'[c] = 0
    BY <1>1, <1>6, Transaction
  <2>2. BatchDone(u, "undone")
    BY <1>2, <1>6
  <2> QED
    BY <1>2, <2>1, <2>2, DoneStep, BatchEnds DEF Statuses
<1> QED
  BY <1>5, <1>6

LEMMA CommitRefusedKeeps ==
  ASSUME TypeOK, Separate, BatchInv, NEW u \in Uploaders, CommitRefused(u)
  PROVE  BatchInv'
<1>1. PICK sent \in Sent(u), r \in RefusedCommits :
        IF r = "keep" THEN Run(sent) ELSE RunAndUndo(sent)
  BY DEF CommitRefused
<1>2. Touches(conf[u]) /\ BatchDone(u, "refused")
  BY DEF CommitRefused
<1>3. saved' = saved /\ \A c \in Changes : pending'[c] = 0
  BY <1>1, Transaction DEF Separate
<1> QED
  BY <1>2, <1>3, DoneStep, BatchEnds DEF Statuses

LEMMA HandOverKeeps ==
  ASSUME TypeOK, BatchInv, NEW u \in Uploaders, HandOver(u)
  PROVE  BatchInv'
<1>1. /\ ~Touches(conf[u]) /\ BatchDone(u, "handed")
      /\ UNCHANGED <<saved, pending>>
  BY DEF HandOver, database
<1>2. ~AsksCommit(u)'
  BY <1>1, DoneStep DEF AsksCommit, Touches
<1> QED
  BY <1>1, <1>2, DoneStep, BatchEnds DEF Statuses

LEMMA FailuresKeep ==
  ASSUME TypeOK, TypeOK', Separate, BatchInv, NEW u \in Uploaders,
         BatchFails(u) \/ RollbackRefused(u) \/ DryRunFails(u)
  PROVE  BatchInv'
<1>1. /\ Len(buffer[u]) \in Nat /\ DOMAIN buffer[u] = 1 .. Len(buffer[u])
      /\ rowCount[u] \in Nat
  BY DEF TypeOK
<1>2. \A n \in 0 .. Len(buffer[u]) : \A c \in BatchRows(u, n) :
        \E i \in DOMAIN buffer[u] : buffer[u][i] = c
  BY <1>1 DEF BatchRows
<1>3. CASE BatchFails(u)
  <2>1. /\ Touches(conf[u]) /\ UNCHANGED <<conf, author, status, rowCount, buffer>>
        /\ errors' = [errors EXCEPT ![u] = TRUE]
    BY <1>3 DEF BatchFails
  <2>2. PICK n \in 0 .. Len(buffer[u]) - 1 : Run(BatchRows(u, n))
    BY <1>3 DEF BatchFails
  <2>3. /\ saved' = saved
        /\ \A c \in Changes : \/ pending'[c] = pending[c]
                              \/ \E i \in DOMAIN buffer[u] : buffer[u][i] = c
    BY <1>1, <1>2, <2>2, Transaction
  <2>4. /\ errors'[u] /\ ~AsksCommit(u)'
        /\ \A v \in Uploaders : v # u => errors'[v] = errors[v]
    BY <2>1 DEF TypeOK, AsksCommit
  <2>5. /\ rowCount'[u] >= rowCount[u] /\ buffer'[u] \in {buffer[u], << >>}
        /\ \A v \in Uploaders : v # u =>
             /\ rowCount'[v] = rowCount[v] /\ buffer'[v] = buffer[v]
             /\ errors'[v] = errors[v]
    BY <1>1, <2>1, <2>4
  <2> QED
    BY <2>1, <2>3, <2>4, <2>5, BatchStays
<1>4. CASE RollbackRefused(u)
  <2>1. /\ Touches(conf[u]) /\ ~AsksCommit(u)
        /\ UNCHANGED <<conf, author, status, errors>>
        /\ rowCount' = [rowCount EXCEPT ![u] = @ + Len(buffer[u])]
        /\ buffer' = [buffer EXCEPT ![u] = << >>]
    BY <1>4 DEF RollbackRefused
  <2>2. PICK sent \in Sent(u) : Run(sent)
    BY <1>4 DEF RollbackRefused
  <2>3. \A c \in sent : \E i \in DOMAIN buffer[u] : buffer[u][i] = c
    BY <1>1, <1>2 DEF Sent
  <2>4. /\ saved' = saved
        /\ \A c \in Changes : \/ pending'[c] = pending[c]
                              \/ \E i \in DOMAIN buffer[u] : buffer[u][i] = c
    BY <2>2, <2>3, Transaction
  <2>5. /\ rowCount'[u] >= rowCount[u] /\ buffer'[u] = << >>
        /\ ~AsksCommit(u)'
        /\ \A v \in Uploaders : v # u =>
             /\ rowCount'[v] = rowCount[v] /\ buffer'[v] = buffer[v]
             /\ errors'[v] = errors[v]
    BY <1>1, <2>1 DEF TypeOK, AsksCommit
  <2> QED
    BY <2>1, <2>4, <2>5, BatchStays
<1>5. CASE DryRunFails(u)
  <2>1. /\ conf[u].mode = "dryrun"
        /\ UNCHANGED <<conf, author, status, errors, saved, pending>>
        /\ rowCount' = [rowCount EXCEPT ![u] = @ + Len(buffer[u])]
        /\ buffer' = [buffer EXCEPT ![u] = << >>]
    BY <1>5 DEF DryRunFails, ReportFails, database
  <2>2. /\ rowCount'[u] >= rowCount[u] /\ buffer'[u] = << >>
        /\ ~AsksCommit(u)'
        /\ \A v \in Uploaders : v # u =>
             /\ rowCount'[v] = rowCount[v] /\ buffer'[v] = buffer[v]
             /\ errors'[v] = errors[v]
    BY <1>1, <2>1 DEF TypeOK, AsksCommit
  <2> QED
    BY <2>1, <2>2, BatchStays
<1> QED
  BY <1>3, <1>4, <1>5

LEMMA CallsKeep ==
  ASSUME TypeOK, TypeOK', Separate, BatchInv, NEW u \in Uploaders,
         Statement(u) \/ BufferRow(u) \/ Unconvertible(u)
  PROVE  BatchInv'
<1>1. ~ModifyOnMulti
  BY DEF Separate
<1>2. Execute(u) \/ ExecuteFails(u) => conf[u].kind = "single" \/ ~Statement(u)
  BY <1>1 DEF Statement
<1>3. CASE Statement(u) /\ Execute(u)
  BY <1>2, <1>3, ExecuteKeeps
<1>4. CASE ExecuteFails(u)
  <2>1. /\ Call(u, "undone") /\ UNCHANGED <<saved, pending, buffer, rowCount>>
        /\ errors' = [errors EXCEPT ![u] = @ \/ conf[u].exit]
    BY <1>4 DEF ExecuteFails, database
  <2>2. \A v \in Uploaders : errors[v] => errors'[v]
    BY <2>1 DEF TypeOK
  <2>3. \A v \in Uploaders : rowCount'[v] >= rowCount[v]
    BY <2>1 DEF TypeOK
  <2> QED
    BY <2>1, <2>2, <2>3, QuietCall
<1>5. CASE KeepStatement(u)
  <2>1. /\ Call(u, "asked") /\ ~Touches(conf[u])
        /\ UNCHANGED <<saved, pending, buffer, errors>>
        /\ rowCount' = [rowCount EXCEPT ![u] = @ + 1]
    BY <1>5 DEF KeepStatement, database
  <2>2. \A v \in Uploaders : rowCount'[v] >= rowCount[v]
    BY <2>1 DEF TypeOK
  <2> QED
    BY <2>1, <2>2, QuietCall
<1>6. CASE Unconvertible(u)
  <2>1. /\ Call(u, "undone")
        /\ UNCHANGED <<saved, pending, buffer, errors, rowCount>>
    BY <1>6 DEF Unconvertible, database
  <2>2. \A v \in Uploaders : rowCount'[v] >= rowCount[v]
    BY <2>1 DEF TypeOK
  <2> QED
    BY <2>1, <2>2, QuietCall
<1>7. CASE BufferRow(u)
  BY <1>7, BufferRowKeeps
<1> QED
  BY <1>3, <1>4, <1>5, <1>6, <1>7 DEF Statement

LEMMA BatchStep ==
  ASSUME TypeOK, TypeOK', Separate, BatchInv, [Next]_vars
  PROVE  BatchInv'
<1>1. CASE Next
  <2>1. PICK u \in Uploaders :
          \/ Statement(u) \/ BufferRow(u) \/ Unconvertible(u)
          \/ Enter(u) \/ CommitNothing(u) \/ BatchFails(u) \/ EndBatch(u)
          \/ CommitRefused(u) \/ RollbackRefused(u) \/ DryRunFails(u)
          \/ HandOver(u)
    BY <1>1 DEF Next
  <2> QED
    BY <2>1, CallsKeep, EnterKeeps, CommitNothingKeeps, EndBatchKeeps,
       CommitRefusedKeeps, HandOverKeeps, FailuresKeep
<1>2. CASE UNCHANGED vars
  <2>1. UNCHANGED <<conf, saved, pending, rowCount, errors, buffer, author, status>>
    BY <1>2 DEF vars
  <2>2. Asked' = Asked /\ \A u \in Uploaders : Own(u)' = Own(u)
    BY <2>1 DEF Asked, Own
  <2>3. OneTouches' /\ PendingInv' /\ SavedInv' /\ CommittedIsSaved'
    BY <2>1, <2>2 DEF BatchInv, OneTouches, PendingInv, SavedInv, CommittedIsSaved
  <2>4. OpenInv' /\ CompleteInv' /\ BufferInv'
    BY <2>1, <2>2 DEF BatchInv, OpenInv, CompleteInv, BufferInv, AsksCommit
  <2> QED
    BY <2>3, <2>4 DEF BatchInv
<1> QED
  BY <1>1, <1>2

LEMMA BatchInvariant ==
  ASSUME Separate
  PROVE  Spec => []BatchInv
  BY BatchInit, BatchStep, UploaderTypeCorrect, PTL DEF Spec

LEMMA Countable ==
  ASSUME TypeOK
  PROVE  /\ Asked \subseteq Changes
         /\ \A c \in Changes : saved[c] \in Nat /\ pending[c] \in Nat
<1>1. Asked = 1 .. Len(author) /\ Len(author) \in Nat /\ Len(author) <= MaxChanges
  BY DEF TypeOK, Asked
<1> QED
  BY <1>1 DEF TypeOK, Changes

\* Nothing is stored but what a commit() has returned for.
THEOREM OnlyCommittedSaved ==
  ASSUME Separate
  PROVE  Spec => []SavedIsCommitted
<1>1. TypeOK /\ BatchInv => SavedIsCommitted
  BY Countable DEF BatchInv, SavedInv, SavedIsCommitted
<1> QED
  BY <1>1, BatchInvariant, UploaderTypeCorrect, PTL

\* What is open in the transaction is counted.
THEOREM NothingForgotten ==
  ASSUME Separate
  PROVE  Spec => []PendingIsCounted
<1>1. TypeOK /\ BatchInv => PendingIsCounted
  BY Countable DEF BatchInv, PendingInv, PendingIsCounted
<1> QED
  BY <1>1, BatchInvariant, UploaderTypeCorrect, PTL

\* When commit() has returned, with exit_on_fail its batch is stored.
THEOREM CommitStores ==
  ASSUME Separate
  PROVE  Spec => []CommittedIsSaved
<1>1. BatchInv => CommittedIsSaved
  BY DEF BatchInv
<1> QED
  BY <1>1, BatchInvariant, PTL

\* No change is stored twice, though a failed batch is sent again.
THEOREM StoredOnce ==
  ASSUME Separate
  PROVE  Spec => []AtMostOnce
<1>1. TypeOK /\ BatchInv => AtMostOnce
  <2> SUFFICES ASSUME TypeOK, SavedInv, NEW c \in Changes
               PROVE  saved[c] <= 1
    BY DEF BatchInv, AtMostOnce
  <2>1. saved[c] \in Nat /\ (saved[c] > 0 => saved[c] = 1)
    BY Countable DEF SavedInv
  <2> QED
    BY <2>1
<1> QED
  BY <1>1, BatchInvariant, UploaderTypeCorrect, PTL

-----------------------------------------------------------------------------
(* The uploader that raises on failure implements AtomicBatches.           *)

Strict == Separate /\ ~BadValues /\ \A f \in Configs : f.exit

RaisedInv ==
  \A u \in Uploaders : conf[u].mode = "commit" /\ raised[u] => errors[u]

Action(u) ==
  \/ Statement(u) \/ BufferRow(u) \/ Unconvertible(u)
  \/ Enter(u) \/ CommitNothing(u) \/ BatchFails(u) \/ EndBatch(u)
  \/ CommitRefused(u) \/ RollbackRefused(u) \/ DryRunFails(u) \/ HandOver(u)

LEMMA RaisedStep ==
  ASSUME TypeOK, Strict, RaisedInv, NEW u \in Uploaders, Action(u)
  PROVE  RaisedInv'
<1>1. ASSUME UNCHANGED <<conf, errors, raised>> PROVE RaisedInv'
  BY <1>1 DEF RaisedInv
<1>2. conf[u].exit
  BY DEF Strict, TypeOK
<1>3. CASE ExecuteFails(u)
  <2>1. /\ conf' = conf
        /\ errors' = [errors EXCEPT ![u] = @ \/ conf[u].exit]
        /\ raised' = [raised EXCEPT ![u] = @ \/ conf[u].exit]
    BY <1>3 DEF ExecuteFails, Call
  <2>2. errors'[u] = TRUE
    BY <1>2, <2>1 DEF TypeOK
  <2>3. \A v \in Uploaders : v # u => errors'[v] = errors[v] /\ raised'[v] = raised[v]
    BY <2>1 DEF TypeOK
  <2> QED
    BY <2>1, <2>2, <2>3 DEF RaisedInv
<1>4. CASE Enter(u)
  <2>1. /\ conf' = conf
        /\ errors' = [errors EXCEPT ![u] = FALSE]
        /\ raised' = [raised EXCEPT ![u] = FALSE]
    BY <1>4 DEF Enter
  <2>2. ~raised'[u]
    BY <2>1 DEF TypeOK
  <2>3. \A v \in Uploaders : v # u => errors'[v] = errors[v] /\ raised'[v] = raised[v]
    BY <2>1 DEF TypeOK
  <2> QED
    BY <2>1, <2>2, <2>3 DEF RaisedInv
<1>5. CASE BatchFails(u)
  <2>1. /\ conf' = conf
        /\ errors' = [errors EXCEPT ![u] = TRUE]
        /\ raised' = [raised EXCEPT ![u] = TRUE]
    BY <1>5 DEF BatchFails
  <2>2. errors'[u] = TRUE
    BY <2>1 DEF TypeOK
  <2>3. \A v \in Uploaders : v # u => errors'[v] = errors[v] /\ raised'[v] = raised[v]
    BY <2>1 DEF TypeOK
  <2> QED
    BY <2>1, <2>2, <2>3 DEF RaisedInv
<1>6. CASE DryRunFails(u)
  BY <1>6 DEF DryRunFails, ReportFails, RaisedInv, TypeOK
<1>7. CASE Execute(u) \/ KeepStatement(u) \/ BufferRow(u)
  BY <1>1, <1>7 DEF Execute, KeepStatement, BufferRow, Call
<1>8. CASE CommitNothing(u) \/ EndBatch(u) \/ CommitRefused(u)
           \/ RollbackRefused(u) \/ HandOver(u)
  BY <1>1, <1>8 DEF CommitNothing, EndBatch, CommitRefused, RollbackRefused,
                    HandOver, BatchDone
<1>9. ~Unconvertible(u)
  BY DEF Unconvertible, Strict
<1> QED
  BY <1>3, <1>4, <1>5, <1>6, <1>7, <1>8, <1>9 DEF Action, Statement

\* A step of one uploader leaves the batches of the others alone.
LEMMA OthersKept ==
  ASSUME TypeOK, NEW u \in Uploaders, Action(u)
  PROVE  /\ conf' = conf
         /\ \A v \in Uploaders : v # u => Own(v)' = Own(v) /\ raised'[v] = raised[v]
<1> USE DEF Statuses
<1>1. ASSUME NEW s \in Statuses, Call(u, s)
      PROVE  conf' = conf /\ \A v \in Uploaders : v # u => Own(v)' = Own(v)
  BY <1>1, CallStep, CallOwn
<1>2. ASSUME NEW s \in Statuses, s # "asked", Settle(u, s), author' = author
      PROVE  \A v \in Uploaders : v # u => Own(v)' = Own(v)
  BY <1>2, SettleStep
<1>3. ASSUME UNCHANGED <<author, status>>
      PROVE  \A v \in Uploaders : Own(v)' = Own(v)
  BY <1>3 DEF Own, Asked
<1>4. CASE Statement(u) \/ BufferRow(u) \/ Unconvertible(u)
  <2>1. Call(u, "asked") \/ Call(u, "undone")
    BY <1>4 DEF Statement, Execute, ExecuteFails, KeepStatement, BufferRow, Unconvertible
  <2>2. \A v \in Uploaders : v # u => raised'[v] = raised[v]
    BY <1>4 DEF Statement, Execute, ExecuteFails, KeepStatement, BufferRow,
                Unconvertible, TypeOK
  <2> QED
    BY <1>1, <2>1, <2>2
<1>5. CASE Enter(u)
  BY <1>2, <1>5 DEF Enter, TypeOK
<1>6. CASE CommitNothing(u)
  BY <1>2, <1>6 DEF CommitNothing
<1>7. CASE EndBatch(u) \/ CommitRefused(u) \/ HandOver(u)
  <2>1. BatchDone(u, "committed") \/ BatchDone(u, "undone")
        \/ BatchDone(u, "refused") \/ BatchDone(u, "handed")
    BY <1>7 DEF EndBatch, CommitRefused, HandOver
  <2> QED
    BY <1>2, <2>1 DEF BatchDone
<1>8. CASE BatchFails(u) \/ RollbackRefused(u) \/ DryRunFails(u)
  BY <1>3, <1>8 DEF BatchFails, RollbackRefused, DryRunFails, TypeOK
<1> QED
  BY <1>4, <1>5, <1>6, <1>7, <1>8 DEF Action

Stored == {c \in Changes : saved[c] > 0}
Batch == UNION {Own(u) : u \in Committers}
Marked == \E u \in Committers : raised[u]

\* A step of an uploader that does not commit changes nothing of the table's.
LEMMA OtherModeStutters ==
  ASSUME TypeOK, Strict, NEW u \in Uploaders, conf[u].mode # "commit", Action(u)
  PROVE  UNCHANGED <<Stored, Batch, Marked>>
<1>1. /\ conf' = conf
      /\ \A v \in Uploaders : v # u => Own(v)' = Own(v) /\ raised'[v] = raised[v]
  BY OthersKept
<1>2. Committers' = Committers /\ u \notin Committers /\ Committers \subseteq Uploaders
  BY <1>1 DEF Committers
<1>3. Batch' = Batch /\ Marked' = Marked
  BY <1>1, <1>2 DEF Batch, Marked
<1>4. ~AsksCommit(u) /\ Separate
  BY DEF AsksCommit, Strict
<1>5. saved' = saved
  <2>1. \A cs : Run(cs) \/ RunAndUndo(cs) => saved' = saved
    BY <1>4, Transaction
  <2>2. CASE Statement(u) \/ BufferRow(u) \/ Unconvertible(u)
    BY <2>1, <2>2 DEF Statement, Execute, ExecuteFails, KeepStatement, BufferRow,
                      Unconvertible, database
  <2>3. CASE Enter(u) \/ CommitNothing(u) \/ DryRunFails(u) \/ HandOver(u)
    BY <2>1, <2>3 DEF Enter, CommitNothing, DryRunFails, HandOver, database
  <2>4. CASE BatchFails(u) \/ EndBatch(u) \/ CommitRefused(u) \/ RollbackRefused(u)
    BY <1>4, <2>1, <2>4 DEF BatchFails, EndBatch, CommitRefused, RollbackRefused
  <2> QED
    BY <2>2, <2>3, <2>4 DEF Action
<1> QED
  BY <1>3, <1>5 DEF Stored

\* The one uploader that commits: its batch is the batch, before and after.
LEMMA TheCommitter ==
  ASSUME BatchInv, NEW u \in Uploaders, conf[u].mode = "commit", conf' = conf
  PROVE  /\ Batch = Own(u) /\ (Marked <=> raised[u])
         /\ Batch' = Own(u)' /\ (Marked' <=> raised'[u])
<1>1. Committers = {u} /\ Committers' = {u}
  BY DEF Committers, BatchInv, OneTouches, Touches
<1>2. Batch = Own(u)
  BY <1>1 DEF Batch
<1>3. Batch' = Own(u)'
  BY <1>1 DEF Batch
<1>4. Marked <=> raised[u]
  BY <1>1 DEF Marked
<1>5. Marked' <=> raised'[u]
  BY <1>1 DEF Marked
<1> QED
  BY <1>2, <1>3, <1>4, <1>5

LEMMA CommitterCalls ==
  ASSUME TypeOK, Strict, BatchInv, NEW u \in Uploaders,
         conf[u].mode = "commit", Statement(u) \/ BufferRow(u)
  PROVE  Batches!Next \/ UNCHANGED <<Stored, Batch, Marked>>
<1>1. Separate /\ Touches(conf[u])
  BY DEF Strict, Touches
<1>2. ASSUME Call(u, "asked"), saved' = saved, raised' = raised
      PROVE  Batches!Next
  <2>1. /\ NewChange \in Changes /\ NewChange \notin Asked /\ conf' = conf
        /\ Own(u)' = Own(u) \cup {NewChange}
    BY <1>2, CallStep, CallOwn DEF Statuses
  <2>2. saved[NewChange] = 0
    BY <1>2, NewIsNew DEF Statuses
  <2>3. NewChange \notin Stored \cup Own(u)
    BY <2>1, <2>2 DEF Stored, Own
  <2>4. Stored' = Stored
    BY <1>2 DEF Stored
  <2>5. /\ Batch = Own(u) /\ (Marked <=> raised[u])
        /\ Batch' = Own(u)' /\ (Marked' <=> raised'[u])
    BY <2>1, TheCommitter
  <2>6. Marked' = Marked
    BY <1>2, <2>1 DEF Marked, Committers
  <2>7. /\ NewChange \notin Stored \cup Batch /\ Batch' = Batch \cup {NewChange}
        /\ Stored' = Stored /\ Marked' = Marked
    BY <1>2, <2>1, <2>3, <2>4, <2>5, <2>6
  <2>8. Batches!Add(NewChange)
    BY <2>7 DEF Batches!Add, Stored, Batch, Marked
  <2> QED
    BY <2>1, <2>8 DEF Batches!Next
<1>3. CASE Execute(u)
  BY <1>1, <1>2, <1>3, Transaction DEF Execute
<1>4. CASE ExecuteFails(u)
  <2>1. /\ Call(u, "undone") /\ saved' = saved
        /\ raised' = [raised EXCEPT ![u] = @ \/ conf[u].exit]
    BY <1>4 DEF ExecuteFails, database
  <2>2. conf[u].exit
    BY DEF Strict, TypeOK
  <2>3. raised'[u] = TRUE
    BY <2>1, <2>2 DEF TypeOK
  <2>4. Own(u)' = Own(u) /\ conf' = conf
    BY <2>1, CallStep, CallOwn DEF Statuses
  <2>5. Stored' = Stored /\ Batch' = Batch /\ Marked' = TRUE
    BY <2>1, <2>3, <2>4, TheCommitter DEF Stored
  <2>6. Batches!Fail
    BY <2>5 DEF Batches!Fail, Stored, Batch, Marked
  <2> QED
    BY <2>6 DEF Batches!Next
<1>5. ~KeepStatement(u)
  BY <1>1 DEF KeepStatement
<1>6. CASE BufferRow(u)
  BY <1>2, <1>6 DEF BufferRow, database
<1> QED
  BY <1>3, <1>4, <1>5, <1>6 DEF Statement

\* A batch the committer drops.
LEMMA CommitterDrops ==
  ASSUME TypeOK, BatchInv, NEW u \in Uploaders, conf[u].mode = "commit",
         NEW s \in Statuses, s # "asked", Settle(u, s),
         UNCHANGED <<conf, author, saved, raised>>
  PROVE  Batches!Next
<1>1. Batch' = {}
  BY SettleStep, TheCommitter
<1>2. Stored' = Stored
  BY DEF Stored
<1>3. Marked' = Marked
  BY DEF Marked, Committers
<1>4. Batches!Drop
  BY <1>1, <1>2, <1>3 DEF Batches!Drop, Stored, Batch, Marked
<1> QED
  BY <1>4 DEF Batches!Next

\* A batch the committer stores.
LEMMA CommitterSaves ==
  ASSUME TypeOK, TypeOK', Strict, BatchInv, BatchInv', RaisedInv,
         NEW u \in Uploaders, conf[u].mode = "commit", EndBatch(u), AsksCommit(u)
  PROVE  Batches!Save
<1>1. Separate /\ Touches(conf[u]) /\ conf[u].exit
  BY DEF Strict, Touches, TypeOK
<1>2. PICK sent \in Sent(u) \cup PartlySent(u) : RunAndCommit(sent)
  BY DEF EndBatch
<1>3. /\ BatchDone(u, "committed") /\ UNCHANGED <<conf, author, raised>>
      /\ Settle(u, "committed")
  BY DEF EndBatch, BatchDone
<1>4. /\ Own(u)' = {} /\ Asked' = Asked
      /\ \A c \in Own(u) : status'[c] = "committed"
      /\ \A c \in Asked : c \notin Own(u) => status'[c] = status[c]
  BY <1>3, SettleStep DEF Statuses
<1>5. Batch = Own(u) /\ Batch' = {} /\ (Marked <=> raised[u])
  BY <1>3, <1>4, TheCommitter
<1>6. ~Marked
  BY <1>5 DEF RaisedInv, AsksCommit
<1>7. Marked' = Marked
  BY <1>3 DEF Marked, Committers
<1>8. /\ \A c \in Changes : saved[c] \in Nat /\ pending[c] \in Nat /\ saved'[c] \in Nat
      /\ \A c \in Changes :
           saved'[c] = saved[c] + (IF c \in sent THEN pending[c] + 1 ELSE pending[c])
  BY <1>1, <1>2, Transaction DEF TypeOK
<1>9. Stored' = Stored \cup Batch
  <2>1. ASSUME NEW c \in Changes, saved[c] > 0
        PROVE  saved'[c] > 0
    BY <1>8, <2>1
  <2>2. ASSUME NEW c \in Own(u)
        PROVE  c \in Changes /\ saved'[c] > 0
    <3>1. c \in Asked' /\ status'[c] = "committed" /\ author'[c] = u /\ conf'[u].exit
      BY <1>1, <1>3, <1>4 DEF Own
    <3>2. saved'[c] > 0
      BY <3>1 DEF BatchInv, CommittedIsSaved
    <3> QED
      BY <3>2, Countable DEF Own
  <2>3. ASSUME NEW c \in Changes, saved'[c] > 0, c \notin Stored
        PROVE  c \in Own(u)
    <3>1. saved[c] = 0 /\ (c \in sent \/ pending[c] > 0)
      BY <1>8, <2>3 DEF Stored
    <3>2. CASE c \in sent
      BY <3>2, SentRows
    <3>3. CASE pending[c] > 0
      <4>1. /\ status[c] = "asked" /\ c \in Asked /\ Touches(conf[author[c]])
        BY <3>3 DEF BatchInv, OpenInv, PendingInv
      <4>2. author[c] = u
        BY <1>1, <4>1 DEF BatchInv, OneTouches, TypeOK, Asked
      <4> QED
        BY <4>1, <4>2 DEF Own
    <3> QED
      BY <3>1, <3>2, <3>3
  <2> QED
    BY <1>5, <2>1, <2>2, <2>3 DEF Stored
<1> QED
  BY <1>5, <1>6, <1>7, <1>9 DEF Batches!Save, Stored, Batch, Marked

LEMMA CommitterBatches ==
  ASSUME TypeOK, TypeOK', Strict, BatchInv, BatchInv', RaisedInv,
         NEW u \in Uploaders, conf[u].mode = "commit",
         \/ Enter(u) \/ CommitNothing(u) \/ BatchFails(u) \/ EndBatch(u)
         \/ CommitRefused(u) \/ RollbackRefused(u) \/ DryRunFails(u)
         \/ HandOver(u)
  PROVE  Batches!Next \/ UNCHANGED <<Stored, Batch, Marked>>
<1> USE DEF Statuses
<1>1. Separate /\ Touches(conf[u])
  BY DEF Strict, Touches
<1>2. \A cs : Run(cs) \/ RunAndUndo(cs) => saved' = saved
  BY <1>1, Transaction
<1>3. CASE Enter(u)
  <2>1. /\ Settle(u, "undone") /\ UNCHANGED <<conf, author>> /\ saved' = saved
        /\ raised' = [raised EXCEPT ![u] = FALSE]
    BY <1>2, <1>3 DEF Enter, database
  <2>2. raised'[u] = FALSE
    BY <2>1 DEF TypeOK
  <2>3. Stored' = Stored /\ Batch' = {} /\ ~Marked'
    BY <2>1, <2>2, SettleStep, TheCommitter DEF Stored
  <2>4. Batches!Restart
    BY <2>3 DEF Batches!Restart, Stored, Batch, Marked
  <2> QED
    BY <2>4 DEF Batches!Next
<1>4. CASE CommitNothing(u)
  <2>1. /\ Settle(u, "committed") \/ Settle(u, "undone")
        /\ UNCHANGED <<conf, author, saved, raised>>
    BY <1>1, <1>4 DEF CommitNothing, database
  <2> QED
    BY <2>1, CommitterDrops
<1>5. CASE BatchFails(u)
  <2>1. /\ UNCHANGED <<conf, author, status>> /\ saved' = saved
        /\ raised' = [raised EXCEPT ![u] = TRUE]
    BY <1>2, <1>5 DEF BatchFails
  <2>2. raised'[u] = TRUE
    BY <2>1 DEF TypeOK
  <2>3. Own(u)' = Own(u)
    BY <2>1 DEF Own, Asked
  <2>4. Stored' = Stored /\ Batch' = Batch /\ Marked' = TRUE
    BY <2>1, <2>2, <2>3, TheCommitter DEF Stored
  <2>5. Batches!Fail
    BY <2>4 DEF Batches!Fail, Stored, Batch, Marked
  <2> QED
    BY <2>5 DEF Batches!Next
<1>6. CASE EndBatch(u) /\ AsksCommit(u)
  BY <1>6, CommitterSaves DEF Batches!Next
<1>7. CASE EndBatch(u) /\ ~AsksCommit(u)
  <2>1. /\ Settle(u, "undone") /\ UNCHANGED <<conf, author, raised>>
        /\ saved' = saved
    BY <1>2, <1>7 DEF EndBatch, BatchDone
  <2> QED
    BY <2>1, CommitterDrops
<1>8. CASE CommitRefused(u)
  <2>1. /\ Settle(u, "refused") /\ UNCHANGED <<conf, author, raised>>
        /\ saved' = saved
    BY <1>2, <1>8 DEF CommitRefused, BatchDone
  <2> QED
    BY <2>1, CommitterDrops
<1>9. CASE RollbackRefused(u)
  <2>1. UNCHANGED <<conf, author, status, raised>> /\ saved' = saved
    BY <1>2, <1>9 DEF RollbackRefused
  <2>2. Own(u)' = Own(u)
    BY <2>1 DEF Own, Asked
  <2>3. Stored' = Stored /\ Batch' = Batch
    BY <2>1, <2>2, TheCommitter DEF Stored
  <2>4. Marked' = Marked
    BY <2>1 DEF Marked, Committers
  <2> QED
    BY <2>3, <2>4
<1>10. ~DryRunFails(u) /\ ~HandOver(u)
  BY <1>1 DEF DryRunFails, ReportFails, HandOver
<1> QED
  BY <1>3, <1>4, <1>5, <1>6, <1>7, <1>8, <1>9, <1>10

\* Every step of the uploaders is a step of AtomicBatches, or none.
LEMMA BatchesStep ==
  ASSUME TypeOK, TypeOK', Strict, BatchInv, BatchInv', RaisedInv, [Next]_vars
  PROVE  RaisedInv' /\ (Batches!Next \/ UNCHANGED <<Stored, Batch, Marked>>)
<1>1. CASE Next
  <2>1. PICK u \in Uploaders : Action(u)
    BY <1>1 DEF Next, Action
  <2>2. RaisedInv'
    BY <2>1, RaisedStep
  <2>3. CASE conf[u].mode # "commit"
    BY <2>1, <2>2, <2>3, OtherModeStutters
  <2>4. CASE conf[u].mode = "commit"
    <3>1. ~Unconvertible(u)
      BY DEF Unconvertible, Strict
    <3> QED
      BY <2>1, <2>2, <2>4, <3>1, CommitterCalls, CommitterBatches DEF Action
  <2> QED
    BY <2>3, <2>4
<1>2. CASE UNCHANGED vars
  <2>1. UNCHANGED <<conf, saved, author, status, raised, errors>>
    BY <1>2 DEF vars
  <2>2. RaisedInv'
    BY <2>1 DEF RaisedInv
  <2>3. Stored' = Stored
    BY <2>1 DEF Stored
  <2>4. Batch' = Batch
    BY <2>1 DEF Batch, Committers, Own, Asked
  <2>5. Marked' = Marked
    BY <2>1 DEF Marked, Committers
  <2> QED
    BY <2>2, <2>3, <2>4, <2>5
<1> QED
  BY <1>1, <1>2

\* An uploader that raises on failure and has the transaction to itself stores
\* its batches as a whole or not at all, and nothing after a failure.
THEOREM BatchesAreAtomic ==
  ASSUME Strict
  PROVE  Spec => ImplementsAtomicBatches
<1>1. Init => RaisedInv /\ Batches!Init
  <2> SUFFICES ASSUME Init PROVE RaisedInv /\ Batches!Init
    OBVIOUS
  <2>1. \A u \in Uploaders : raised[u] = FALSE
    BY DEF Init
  <2>2. \A u \in Uploaders : Own(u) = {}
    BY DEF Init, Own, Asked
  <2>3. Stored = {} /\ Batch = {} /\ Marked = FALSE
    BY <2>1, <2>2 DEF Init, None, Stored, Batch, Marked, Committers
  <2> QED
    BY <2>1, <2>3 DEF RaisedInv, Batches!Init, Stored, Batch, Marked
<1>2. TypeOK /\ TypeOK' /\ BatchInv /\ BatchInv' /\ RaisedInv /\ [Next]_vars
        => RaisedInv' /\ [Batches!Next]_<<Stored, Batch, Marked>>
  BY BatchesStep
<1>3. Separate
  BY DEF Strict
<1>4. Spec => []TypeOK /\ []BatchInv
  BY <1>3, UploaderTypeCorrect, BatchInvariant, PTL
<1>5. Spec => Batches!Init /\ [][Batches!Next]_<<Stored, Batch, Marked>>
  BY <1>1, <1>2, <1>4, PTL DEF Spec
<1> QED
  BY <1>5, PTL DEF ImplementsAtomicBatches, Batches!Spec, Stored, Batch, Marked

-----------------------------------------------------------------------------
(***************************************************************************)
(* Pipe mode, whatever the other uploaders of the connection do. The       *)
(* property is inductive: what is in the pipe has been asked for, so every *)
(* new change is later than all of it, and the count tells commit() when   *)
(* there is nothing to hand over.                                          *)
(***************************************************************************)
ChangesOf(u, s) == {c \in Asked : author[c] = u /\ status[c] = s}

Ascending(seq) == \A i, j \in DOMAIN seq : i < j => seq[i] < seq[j]

Elements(seq) == {seq[i] : i \in DOMAIN seq}

PipeLine(u) ==
  conf[u].mode = "pipe" =>
    /\ Ascending(piped[u] \o pipe[u])
    /\ Elements(piped[u]) = ChangesOf(u, "handed")
    /\ Elements(pipe[u]) = ChangesOf(u, "asked")
    /\ rowCount[u] = Len(pipe[u])

\* The elements of two sequences, one after the other.
LEMMA ConcatElements ==
  ASSUME NEW S, NEW s \in Seq(S), NEW t \in Seq(S)
  PROVE  Elements(s \o t) = Elements(s) \cup Elements(t)
<1> DEFINE st == s \o t
<1>1. /\ st \in Seq(S) /\ Len(st) = Len(s) + Len(t)
      /\ Len(s) \in Nat /\ Len(t) \in Nat
      /\ DOMAIN s = 1 .. Len(s) /\ DOMAIN t = 1 .. Len(t)
      /\ DOMAIN st = 1 .. Len(s) + Len(t)
      /\ \A i \in 1 .. Len(s) + Len(t) :
           st[i] = IF i <= Len(s) THEN s[i] ELSE t[i - Len(s)]
  BY ConcatProperties
<1> HIDE DEF st
<1>2. ASSUME NEW i \in DOMAIN st
      PROVE  st[i] \in Elements(s) \cup Elements(t)
  <2>1. CASE i <= Len(s)
    BY <1>1, <1>2, <2>1 DEF Elements
  <2>2. CASE ~(i <= Len(s))
    <3>1. i - Len(s) \in DOMAIN t /\ st[i] = t[i - Len(s)]
      BY <1>1, <1>2, <2>2
    <3> QED
      BY <3>1 DEF Elements
  <2> QED
    BY <2>1, <2>2
<1>3. ASSUME NEW i \in DOMAIN s
      PROVE  s[i] \in Elements(st)
  <2>1. i \in DOMAIN st /\ st[i] = s[i]
    BY <1>1
  <2> QED
    BY <2>1 DEF Elements
<1>4. ASSUME NEW i \in DOMAIN t
      PROVE  t[i] \in Elements(st)
  <2>1. Len(s) + i \in DOMAIN st /\ st[Len(s) + i] = t[i]
    BY <1>1
  <2> QED
    BY <2>1 DEF Elements
<1> QED
  BY <1>2, <1>3, <1>4 DEF Elements, st

\* An element appended to the second of two sequences.
LEMMA AppendToConcat ==
  ASSUME NEW S, NEW s \in Seq(S), NEW t \in Seq(S), NEW x \in S
  PROVE  /\ s \o Append(t, x) = Append(s \o t, x)
         /\ Elements(Append(t, x)) = Elements(t) \cup {x}
<1> DEFINE one == <<x>>
<1>1. one \in Seq(S) /\ Elements(one) = {x}
  BY DEF Elements
<1>2. s \o t \in Seq(S)
  BY ConcatProperties
<1>3. Append(t, x) = t \o one /\ Append(s \o t, x) = (s \o t) \o one
  BY <1>2, AppendIsConcat
<1> HIDE DEF one
<1>4. (s \o t) \o one = s \o (t \o one)
  BY <1>1, ConcatAssociative
<1>5. Elements(t \o one) = Elements(t) \cup Elements(one)
  BY <1>1, ConcatElements
<1> QED
  BY <1>1, <1>3, <1>4, <1>5

\* An ascending sequence stays so when a later element is appended.
LEMMA AppendAscending ==
  ASSUME NEW s \in Seq(Nat), NEW n \in Nat, Ascending(s),
         \A x \in Elements(s) : x < n
  PROVE  /\ Ascending(Append(s, n))
         /\ Elements(Append(s, n)) = Elements(s) \cup {n}
<1> DEFINE new == Append(s, n)
<1>1. /\ new \in Seq(Nat) /\ Len(new) = Len(s) + 1 /\ new[Len(s) + 1] = n
      /\ \A i \in 1 .. Len(s) : new[i] = s[i]
      /\ Len(s) \in Nat /\ DOMAIN s = 1 .. Len(s) /\ DOMAIN new = 1 .. Len(s) + 1
  BY AppendProperties
<1> HIDE DEF new
<1>2. Ascending(new)
  <2> SUFFICES ASSUME NEW i \in DOMAIN new, NEW j \in DOMAIN new, i < j
               PROVE  new[i] < new[j]
    BY DEF Ascending
  <2>1. i \in DOMAIN s /\ new[i] = s[i]
    BY <1>1
  <2>2. CASE j \in DOMAIN s
    BY <1>1, <2>1, <2>2 DEF Ascending
  <2>3. CASE j \notin DOMAIN s
    <3>1. new[j] = n
      BY <1>1, <2>3
    <3> QED
      BY <2>1, <3>1 DEF Elements
  <2> QED
    BY <2>2, <2>3
<1>3. Elements(new) = Elements(s) \cup {n}
  <2>1. Len(s) + 1 \in DOMAIN new
    BY <1>1
  <2>2. \A i \in DOMAIN new : i \in DOMAIN s \/ i = Len(s) + 1
    BY <1>1
  <2>3. \A i \in DOMAIN s : i \in DOMAIN new
    BY <1>1
  <2> QED
    BY <1>1, <2>1, <2>2, <2>3 DEF Elements
<1> QED
  BY <1>2, <1>3 DEF new

LEMMA CallChanges ==
  ASSUME TypeOK, NEW u \in Uploaders, NEW s \in Statuses, Call(u, s)
  PROVE  \A v \in Uploaders, t \in Statuses :
           ChangesOf(v, t)' =
             IF v = u /\ t = s THEN ChangesOf(v, t) \cup {NewChange}
             ELSE ChangesOf(v, t)
BY CallStep DEF ChangesOf

LEMMA SettleChanges ==
  ASSUME TypeOK, NEW u \in Uploaders, NEW s \in Statuses, s # "asked",
         Settle(u, s), author' = author
  PROVE  /\ \A v \in Uploaders, t \in Statuses :
              v # u => ChangesOf(v, t)' = ChangesOf(v, t)
         /\ ChangesOf(u, "asked")' = {}
         /\ ChangesOf(u, s)' = ChangesOf(u, s) \cup ChangesOf(u, "asked")
         /\ \A t \in Statuses : t # s /\ t # "asked" =>
              ChangesOf(u, t)' = ChangesOf(u, t)
<1>1. /\ Asked' = Asked /\ author' = author
      /\ \A c \in Own(u) : status'[c] = s
      /\ \A c \in Asked : c \notin Own(u) => status'[c] = status[c]
  BY SettleStep
<1>2. ChangesOf(u, "asked")' = {}
  BY <1>1 DEF Own, ChangesOf
<1>3. ChangesOf(u, s)' = ChangesOf(u, s) \cup ChangesOf(u, "asked")
  BY <1>1 DEF Own, ChangesOf
<1>4. ASSUME NEW v \in Uploaders, NEW t \in Statuses,
             v # u \/ (t # s /\ t # "asked")
      PROVE  ChangesOf(v, t)' = ChangesOf(v, t)
  BY <1>1, <1>4 DEF Own, ChangesOf
<1> QED
  BY <1>2, <1>3, <1>4

\* The pipe of an uploader whose changes, buffer and count stay.
LEMMA PipeLineStays ==
  ASSUME NEW v \in Uploaders, PipeLine(v), conf' = conf,
         conf[v].mode = "pipe" =>
           /\ pipe'[v] = pipe[v] /\ piped'[v] = piped[v]
           /\ rowCount'[v] = rowCount[v]
           /\ ChangesOf(v, "handed")' = ChangesOf(v, "handed")
           /\ ChangesOf(v, "asked")' = ChangesOf(v, "asked")
  PROVE  PipeLine(v)'
<1> SUFFICES ASSUME conf[v].mode = "pipe"
             PROVE  /\ Ascending(piped'[v] \o pipe'[v])
                    /\ Elements(piped'[v]) = ChangesOf(v, "handed")'
                    /\ Elements(pipe'[v]) = ChangesOf(v, "asked")'
                    /\ rowCount'[v] = Len(pipe'[v])
  BY DEF PipeLine, Ascending, Elements
<1> QED
  BY DEF PipeLine

\* A statement kept for the pipe is the last in order.
LEMMA PipeLineGrows ==
  ASSUME TypeOK, NEW u \in Uploaders, PipeLine(u), KeepStatement(u)
  PROVE  PipeLine(u)'
<1> USE DEF Statuses
<1> SUFFICES ASSUME conf[u].mode = "pipe"
             PROVE  PipeLine(u)'
  BY DEF PipeLine, KeepStatement, Call
<1> DEFINE n == NewChange
           old == piped[u] \o pipe[u]
           new == piped[u] \o Append(pipe[u], n)
<1>1. /\ Call(u, "asked") /\ rowCount'[u] = rowCount[u] + 1
      /\ pipe'[u] = Append(pipe[u], n) /\ piped'[u] = piped[u] /\ conf' = conf
  BY DEF KeepStatement, Call, TypeOK
<1>2. /\ ChangesOf(u, "handed")' = ChangesOf(u, "handed")
      /\ ChangesOf(u, "asked")' = ChangesOf(u, "asked") \cup {n}
  BY <1>1, CallChanges
<1>3. /\ Ascending(old) /\ Elements(piped[u]) = ChangesOf(u, "handed")
      /\ Elements(pipe[u]) = ChangesOf(u, "asked") /\ rowCount[u] = Len(pipe[u])
  BY DEF PipeLine
<1>4. /\ piped[u] \in Seq(Changes) /\ pipe[u] \in Seq(Changes) /\ n \in Nat
      /\ \A c \in Asked : c \in Nat /\ c < n
  BY DEF TypeOK, Asked, NewChange
<1> HIDE DEF n
<1>5. /\ old \in Seq(Nat) /\ pipe[u] \in Seq(Nat)
      /\ new = Append(old, n)
      /\ Elements(Append(pipe[u], n)) = Elements(pipe[u]) \cup {n}
  <2>1. pipe[u] \in Seq(Nat) /\ piped[u] \in Seq(Nat)
    BY <1>4 DEF Changes
  <2>2. old \in Seq(Nat)
    BY <2>1, ConcatProperties
  <2> QED
    <3>1. \A s, t \in Seq(Nat), x \in Nat :
            /\ s \o Append(t, x) = Append(s \o t, x)
            /\ Elements(Append(t, x)) = Elements(t) \cup {x}
      BY AppendToConcat, Zenon
    <3> QED
      BY <1>4, <2>1, <2>2, <3>1, Zenon
<1>6. \A x \in Elements(old) : x < n
  BY <1>3, <1>4, ConcatElements DEF ChangesOf
<1> HIDE DEF old, new
<1>7. Ascending(new)
  BY <1>3, <1>4, <1>5, <1>6, AppendAscending
<1>9. rowCount'[u] = Len(Append(pipe[u], n))
  BY <1>1, <1>3, <1>4
<1>10. Ascending(piped'[u] \o pipe'[u])
  BY <1>1, <1>7 DEF new
<1>11. /\ Elements(piped'[u]) = ChangesOf(u, "handed")'
       /\ Elements(pipe'[u]) = ChangesOf(u, "asked")'
       /\ rowCount'[u] = Len(pipe'[u])
  BY <1>1, <1>2, <1>3, <1>5, <1>9
<1> QED
  BY <1>10, <1>11 DEF PipeLine, Ascending, Elements

\* commit() hands over what is in the pipe.
LEMMA PipeLineHandedOver ==
  ASSUME TypeOK, NEW u \in Uploaders, PipeLine(u), HandOver(u)
  PROVE  PipeLine(u)'
<1> USE DEF Statuses
<1> SUFFICES ASSUME conf[u].mode = "pipe"
             PROVE  PipeLine(u)'
  BY DEF PipeLine, HandOver, BatchDone
<1> DEFINE old == piped[u] \o pipe[u]
<1>1. /\ Settle(u, "handed") /\ author' = author /\ rowCount'[u] = 0
      /\ pipe'[u] = << >> /\ piped'[u] = old
  BY DEF HandOver, BatchDone, TypeOK
<1>2. /\ ChangesOf(u, "asked")' = {}
      /\ ChangesOf(u, "handed")' =
           ChangesOf(u, "handed") \cup ChangesOf(u, "asked")
  BY <1>1, SettleChanges
<1>3. /\ Ascending(old) /\ Elements(piped[u]) = ChangesOf(u, "handed")
      /\ Elements(pipe[u]) = ChangesOf(u, "asked")
  BY DEF PipeLine
<1>4. piped[u] \in Seq(Changes) /\ pipe[u] \in Seq(Changes)
  BY DEF TypeOK
<1>5. Elements(old) = Elements(piped[u]) \cup Elements(pipe[u])
  BY <1>4, ConcatElements
<1>6. old \o << >> = old
  BY <1>4
<1> HIDE DEF old
<1>7. /\ Ascending(piped'[u] \o pipe'[u])
      /\ Elements(piped'[u]) = ChangesOf(u, "handed")'
      /\ Elements(pipe'[u]) = ChangesOf(u, "asked")'
      /\ rowCount'[u] = Len(pipe'[u])
  BY <1>1, <1>2, <1>3, <1>5, <1>6 DEF Elements
<1> QED
  BY <1>7 DEF PipeLine, Ascending, Elements

\* __enter__ empties the pipe and takes its changes back.
LEMMA PipeLineErased ==
  ASSUME TypeOK, NEW u \in Uploaders, PipeLine(u), Enter(u)
  PROVE  PipeLine(u)'
<1> USE DEF Statuses
<1> SUFFICES ASSUME conf[u].mode = "pipe"
             PROVE  PipeLine(u)'
  BY DEF PipeLine, Enter
<1>1. /\ Settle(u, "undone") /\ author' = author /\ rowCount'[u] = 0
      /\ pipe'[u] = << >> /\ piped'[u] = piped[u]
  BY DEF Enter, TypeOK
<1>2. /\ ChangesOf(u, "asked")' = {}
      /\ ChangesOf(u, "handed")' = ChangesOf(u, "handed")
  BY <1>1, SettleChanges
<1>3. piped[u] \in Seq(Changes) /\ pipe[u] \in Seq(Changes)
  BY DEF TypeOK
<1>4. Ascending(piped[u] \o << >>)
  <2>1. Ascending(piped[u] \o pipe[u])
    BY DEF PipeLine
  <2>2. Ascending(piped[u])
    <3> DEFINE s == piped[u]
               t == pipe[u]
    <3>1. /\ Len(s) \in Nat /\ Len(t) \in Nat /\ DOMAIN s = 1 .. Len(s)
          /\ DOMAIN (s \o t) = 1 .. Len(s) + Len(t)
          /\ \A i \in 1 .. Len(s) : (s \o t)[i] = s[i]
      <4>1. s \in Seq(Changes) /\ t \in Seq(Changes)
        BY <1>3
      <4> HIDE DEF s, t
      <4> QED
        BY <4>1, ConcatProperties
    <3>3. Ascending(s \o t)
      BY <2>1
    <3> HIDE DEF s, t
    <3>2. Ascending(s)
      BY <3>1, <3>3 DEF Ascending
    <3> QED
      BY <3>2 DEF s
  <2> QED
    BY <1>3, <2>2
<1>5. /\ Elements(piped[u]) = ChangesOf(u, "handed") /\ Elements(<< >>) = {}
      /\ Len(<< >>) = 0
  BY DEF PipeLine, Elements
<1>6. /\ Ascending(piped'[u] \o pipe'[u])
      /\ Elements(piped'[u]) = ChangesOf(u, "handed")'
      /\ Elements(pipe'[u]) = ChangesOf(u, "asked")'
      /\ rowCount'[u] = Len(pipe'[u])
  BY <1>1, <1>2, <1>4, <1>5
<1> QED
  BY <1>6 DEF PipeLine, Ascending, Elements

\* A commit() that finds nothing to do finds an empty pipe.
LEMMA PipeLineIdle ==
  ASSUME TypeOK, NEW u \in Uploaders, PipeLine(u), CommitNothing(u)
  PROVE  PipeLine(u)'
<1> USE DEF Statuses
<1> SUFFICES ASSUME conf[u].mode = "pipe"
             PROVE  PipeLine(u)'
  BY DEF PipeLine, CommitNothing
<1>1. conf[u].kind # "multi" /\ ~Touches(conf[u])
  BY Configured DEF Touches
<1>2. Settle(u, "handed") /\ author' = author /\ rowCount[u] = 0 /\ conf' = conf
  BY <1>1 DEF CommitNothing
<1>3. ChangesOf(u, "asked") = {}
  <2>1. Len(pipe[u]) = 0 /\ pipe[u] \in Seq(Changes)
    BY <1>2 DEF PipeLine, TypeOK
  <2> QED
    BY <2>1 DEF PipeLine, Elements
<1>4. /\ ChangesOf(u, "asked")' = ChangesOf(u, "asked")
      /\ ChangesOf(u, "handed")' = ChangesOf(u, "handed")
  BY <1>2, <1>3, SettleChanges
<1>5. pipe' = pipe /\ piped' = piped /\ rowCount' = rowCount
  BY DEF CommitNothing
<1> QED
  BY <1>2, <1>4, <1>5, PipeLineStays

\* What a step of the uploader u leaves of the pipes.
LEMMA PipeStep ==
  ASSUME TypeOK, NEW u \in Uploaders, NEW v \in Uploaders, PipeLine(v),
         \/ Statement(u) \/ BufferRow(u) \/ Unconvertible(u)
         \/ Enter(u)
         \/ CommitNothing(u) \/ BatchFails(u)
         \/ EndBatch(u) \/ CommitRefused(u) \/ RollbackRefused(u)
         \/ DryRunFails(u) \/ HandOver(u)
  PROVE  PipeLine(v)'
<1> USE DEF Statuses
<1>1. /\ conf' = conf
      /\ v # u => pipe'[v] = pipe[v] /\ piped'[v] = piped[v]
                  /\ rowCount'[v] = rowCount[v]
  <2>1. CASE Statement(u) \/ BufferRow(u) \/ Unconvertible(u)
    <3>1. /\ conf' = conf /\ piped' = piped
          /\ rowCount' = rowCount \/ rowCount' = [rowCount EXCEPT ![u] = @ + 1]
          /\ pipe' = pipe \/ pipe' = [pipe EXCEPT ![u] = Append(@, NewChange)]
      BY <2>1 DEF Statement, Execute, ExecuteFails, KeepStatement, BufferRow,
                  Unconvertible, Call
    <3> QED
      BY <3>1 DEF TypeOK
  <2>2. CASE Enter(u) \/ HandOver(u)
    <3>1. /\ conf' = conf
          /\ piped' = piped \/ piped' = [piped EXCEPT ![u] = @ \o pipe[u]]
          /\ rowCount' = [rowCount EXCEPT ![u] = 0]
          /\ pipe' = [pipe EXCEPT ![u] = << >>]
      BY <2>2 DEF Enter, HandOver, BatchDone
    <3> QED
      BY <3>1 DEF TypeOK
  <2>3. CASE \/ CommitNothing(u) \/ BatchFails(u) \/ EndBatch(u)
             \/ CommitRefused(u) \/ RollbackRefused(u) \/ DryRunFails(u)
    <3>1. /\ conf' = conf /\ piped' = piped /\ pipe' = pipe
          /\ \/ rowCount' = rowCount
             \/ rowCount' = [rowCount EXCEPT ![u] = 0]
             \/ rowCount' = [rowCount EXCEPT ![u] = @ + Len(buffer[u])]
      BY <2>3 DEF CommitNothing, BatchFails, EndBatch, CommitRefused, BatchDone,
                  RollbackRefused, DryRunFails
    <3> QED
      BY <3>1 DEF TypeOK
  <2> QED
    BY <2>1, <2>2, <2>3
<1>2. v # u => /\ ChangesOf(v, "handed")' = ChangesOf(v, "handed")
               /\ ChangesOf(v, "asked")' = ChangesOf(v, "asked")
  <2>1. CASE \E s \in Statuses : Call(u, s)
    BY <2>1, CallChanges
  <2>2. CASE author' = author /\ \E s \in Statuses : s # "asked" /\ Settle(u, s)
    BY <2>2, SettleChanges
  <2>3. CASE author' = author /\ status' = status
    BY <2>3 DEF ChangesOf, Asked
  <2>4. \/ \E s \in Statuses : Call(u, s)
        \/ author' = author /\ status' = status
        \/ author' = author /\ \E s \in Statuses : s # "asked" /\ Settle(u, s)
    BY DEF Statement, Execute, ExecuteFails, KeepStatement, BufferRow,
           Unconvertible, Enter, CommitNothing, BatchFails, EndBatch, CommitRefused,
           BatchDone, RollbackRefused, DryRunFails, HandOver
  <2> QED
    BY <2>1, <2>2, <2>3, <2>4
<1>3. CASE v # u
  BY <1>1, <1>2, <1>3, PipeLineStays
<1>4. CASE v = u
  <2>1. CASE conf[u].mode # "pipe"
    BY <1>1, <1>4, <2>1 DEF PipeLine
  <2>2. CASE conf[u].mode = "pipe"
    <3>1. conf[u].kind # "multi" /\ ~Touches(conf[u])
      BY <2>2, Configured DEF Touches
    <3>2. \/ KeepStatement(u) \/ Unconvertible(u) \/ Enter(u)
          \/ CommitNothing(u) \/ HandOver(u)
      BY <2>2, <3>1 DEF Statement, Execute, ExecuteFails, BufferRow, BatchFails,
                        EndBatch, CommitRefused, RollbackRefused, DryRunFails,
                        ReportFails
    <3>3. CASE Unconvertible(u)
      <4>1. Call(u, "undone") /\ rowCount' = rowCount /\ pipe' = pipe
            /\ piped' = piped
        BY <3>3 DEF Unconvertible, Call
      <4>2. /\ ChangesOf(u, "handed")' = ChangesOf(u, "handed")
            /\ ChangesOf(u, "asked")' = ChangesOf(u, "asked")
        BY <4>1, CallChanges
      <4> QED
        BY <1>1, <1>4, <4>1, <4>2, PipeLineStays
    <3> QED
      BY <1>4, <3>2, <3>3, PipeLineGrows, PipeLineErased, PipeLineIdle,
         PipeLineHandedOver
  <2> QED
    BY <2>1, <2>2
<1> QED
  BY <1>3, <1>4

\* In pipe mode the callers of commit() get the statements of their calls, each
\* once and in the order of the calls, whatever fails and whatever the other
\* uploaders of the connection do in between.
THEOREM PipeHandsOver == Spec => []PipeInOrder
<1> DEFINE I == \A u \in Uploaders : PipeLine(u)
<1>1. Init => I
  BY DEF Init, PipeLine, Ascending, Elements, ChangesOf, Asked
<1>2. TypeOK /\ I /\ [Next]_vars => I'
  <2>1. ASSUME TypeOK, I, Next PROVE I'
    BY <2>1, PipeStep DEF Next
  <2>2. ASSUME I, UNCHANGED vars PROVE I'
    <3>1. /\ conf' = conf /\ pipe' = pipe /\ piped' = piped
          /\ rowCount' = rowCount /\ author' = author /\ status' = status
      BY <2>2 DEF vars
    <3>2. \A u, s : ChangesOf(u, s)' = ChangesOf(u, s)
      BY <3>1 DEF ChangesOf, Asked
    <3> QED
      BY <2>2, <3>1, <3>2, PipeLineStays
  <2> QED
    BY <2>1, <2>2
<1>3. I => PipeInOrder
  BY DEF PipeLine, Ascending, Elements, ChangesOf, PipeInOrder
<1> HIDE DEF I
<1> QED
  BY <1>1, <1>2, <1>3, UploaderTypeCorrect, PTL DEF Spec
=============================================================================
