------------------------------ MODULE MCSecurity ------------------------------
(* Two aliases in two configuration files, the second one winning.           *)
EXTENDS Security

Of(encrypt, aliases) == [encrypt |-> encrypt, alias |-> [a \in aliases |-> Plain]]

MCFirstFiles ==
  {<<Of(e1, A1), Of(e2, A2)>> :
     e1, e2 \in {"yes", "no", "absent"}, A1, A2 \in SUBSET Aliases}
=============================================================================
