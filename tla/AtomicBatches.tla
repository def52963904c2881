---------------------------- MODULE AtomicBatches ----------------------------
(***************************************************************************)
(* What the uploaders of src/lwetl/uploader.py promise about a table, with *)
(* no word on how: changes are collected in a batch, and a batch is either *)
(* stored as a whole or dropped as a whole. Once a call of the session has *)
(* failed, nothing more is stored until the session is started again       *)
(* (exit_on_fail in docs/components/import.rst).                           *)
(***************************************************************************)
CONSTANT Changes

VARIABLES
  stored, \* the changes that are durable
  batch,  \* the changes asked for since the last batch
  marked  \* whether a call of the session has failed

Init == stored = {} /\ batch = {} /\ marked = FALSE

Add(c) ==
  /\ c \notin stored \cup batch
  /\ batch' = batch \cup {c}
  /\ UNCHANGED <<stored, marked>>

Fail == marked' = TRUE /\ UNCHANGED <<stored, batch>>

Save ==
  /\ ~marked
  /\ stored' = stored \cup batch
  /\ batch' = {}
  /\ UNCHANGED marked

Drop == batch' = {} /\ UNCHANGED <<stored, marked>>

Restart == batch' = {} /\ marked' = FALSE /\ UNCHANGED stored

Next == (\E c \in Changes : Add(c)) \/ Fail \/ Save \/ Drop \/ Restart

Spec == Init /\ [][Next]_<<stored, batch, marked>>
=============================================================================
