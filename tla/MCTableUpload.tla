---------------------------- MODULE MCTableUpload ----------------------------
(* Values for the model checker: small tables and ldif files.              *)
EXTENDS TableUpload

SeqsUpTo(S, n) == UNION {[1 .. m -> S] : m \in 0 .. n}

\* 8 cannot be converted; the last row is wider than the headers.
Cells == {<<1, 2>>, <<3, 0>>, <<0, 0>>, <<8, 1>>, <<0, 3, 2>>}
Tables(headers, n) ==
  {[class |-> c, header |-> h, rows |-> r] :
     c \in {"csv", "xlsx"}, h \in headers, r \in SeqsUpTo(Cells, n)}
Empties == {[class |-> c, header |-> << >>, rows |-> << >>] : c \in {"csv", "xlsx"}}

Attr(a, v, b) == [kind |-> "attr", attr |-> a, val |-> v, base64 |-> b]
Lines ==
  {Attr("dn", <<1>>, FALSE), Attr("cn", <<2>>, FALSE), Attr("cn", <<Garbled>>, TRUE),
   [kind |-> "more", val |-> <<3>>], [kind |-> "blank"]}
FiveLines == {<<Attr("dn", <<1>>, FALSE)>> \o l : l \in [1 .. 4 -> Lines]}
Ldifs == {[class |-> "ldif", lines |-> l] : l \in SeqsUpTo(Lines, 3) \cup FiveLines}

MCJobs ==
  [file : Tables({<<"A", "B">>, <<"A", "ID">>}, 3) \cup Tables({<<"A", "A">>}, 2),
   chunk : {1, 2}, limit : {0, 1}, mode : {"commit"}, name : {"T"}]
    \cup [file : Tables({<<"A", "ID">>}, 2) \cup Empties, chunk : {1}, limit : {0},
          mode : {"rollback", "dryrun"}, name : {"T"}]
    \cup [file : Ldifs, chunk : {1}, limit : {0}, mode : {"commit"}, name : {"T"}]
=============================================================================
