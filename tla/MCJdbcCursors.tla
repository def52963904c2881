---------------------------- MODULE MCJdbcCursors ----------------------------
(* Small instances of JdbcCursors for TLC. *)
EXTENDS JdbcCursors

MCResultSizes == {0, 2}
MCMaxRows == {0, 1}
=============================================================================
