----------------------------- MODULE MCSqlQuery -----------------------------
(* Values for the model checker: five statements of one line and one of    *)
(* two, inputs of up to four.                                              *)
EXTENDS SqlQuery

Select(labels, n) ==
  [kind |-> "select", result |-> [labels |-> labels, rows |-> n]]

MCMeaning ==
     <<"query">>           :> Select(<<"a">>, 2)
  @@ <<"joined">>          :> Select(<<"a", "a">>, 1)
  @@ <<"query", "change">> :> Select(<<"b">>, 1)
  @@ <<"change">>          :> [kind |-> "update", rows |-> 1]
  @@ <<"create">>          :> [kind |-> "update", rows |-> 0]

Line(text, ends) == [text |-> text, ends |-> ends]
Statements ==
  {Line(text, TRUE) : text \in {"query", "joined", "change", "create", "wrong"}}
OddLines ==
  {Line(text, ends) : text \in {Blank, "query", "change"}, ends \in BOOLEAN}

MCInputs ==
  UNION {[1 .. n -> Statements] : n \in 0 .. 4}
    \cup UNION {[1 .. n -> OddLines] : n \in 1 .. 3}

MCShapes == {<<"a">>, <<"b">>, <<"a", "a">>}
=============================================================================
