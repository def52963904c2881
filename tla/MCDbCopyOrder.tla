---------------------------- MODULE MCDbCopyOrder ----------------------------
(* Small instances of DbCopyOrder for TLC. *)
EXTENDS DbCopyOrder

CONSTANTS t1, t2, t3
=============================================================================
