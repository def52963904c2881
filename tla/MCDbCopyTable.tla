---------------------------- MODULE MCDbCopyTable ----------------------------
(* Small instances of DbCopyTable for TLC. *)
EXTENDS DbCopyTable

CommandLines ==
  [mode : {"emtpy", "empty", "new", "update", "sync"}, driver : {"single", "multi"},
   activate : BOOLEAN, fast : BOOLEAN, ignore : BOOLEAN,
   commitNr : {1, 2}, maxRows : {0, 1}, maxFail : {-1, 0, 1}]

\* The options that interact. In the mode sync a row limit makes the copy delete
\* rows it has not read, which no run needs to show.
MCArguments ==
  {a \in CommandLines :
     /\ a.ignore => a.maxFail = 1
     /\ a.fast => a.mode \in {"new", "sync"}
     /\ a.maxRows > 0 => a.mode # "sync" /\ a.maxFail = 0
     /\ a.mode = "emtpy" => a.driver = "single" /\ a.maxFail = 0}

Tolerant ==
  {a \in CommandLines :
     a.mode = "empty" /\ a.driver = "single" /\ a.activate /\ a.maxFail = 1
       /\ a.maxRows = 0 /\ ~a.ignore /\ ~a.fast}
=============================================================================
