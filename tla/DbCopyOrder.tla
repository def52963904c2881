----------------------------- MODULE DbCopyOrder -----------------------------
(***************************************************************************)
(* The order in which db-copy copies its tables                            *)
(* (src/lwetl/programs/db_copy/main.py): the common tables are put in      *)
(* levels, each level holding tables that refer only to earlier ones.      *)
(*                                                                         *)
(* The list copy_list is modelled as the sequence of the levels that are   *)
(* appended to it; inside a level the program sorts by name, which no      *)
(* property depends on. Leaving out the first n tables on request (-e n)   *)
(* is not modelled.                                                        *)
(***************************************************************************)
EXTENDS Naturals, Sequences, FiniteSets

CONSTANTS
  Tables, \* the tables of the target database
  Cyclic  \* whether tables may refer to each other in a circle

ASSUME OrderAssumption ==
  /\ IsFiniteSet(Tables)
  /\ Cyclic \in BOOLEAN

VARIABLES
  fk,      \* the foreign keys, as pairs <<referring table, referred table>>
  common,  \* table_admin[COMMON]: tables to copy
  ignored, \* table_admin[IGNORED]: tables excluded, or not empty
  levels,  \* copy_list
  front,   \* not_added
  pc       \* where the program is

vars == <<fk, common, ignored, levels, front, pc>>

Acyclic ==
  \E rank \in [Tables -> 1 .. Cardinality(Tables)] :
    \A t, r \in Tables : <<t, r>> \in fk /\ t # r => rank[r] < rank[t]

\* Tables may also be in neither class: those that are empty at the source or
\* that the source does not have.
Init ==
  /\ fk \in SUBSET (Tables \X Tables)
  /\ common \in SUBSET Tables
  /\ ignored \in SUBSET (Tables \ common)
  /\ Cyclic \/ Acyclic
  /\ levels = << >>
  /\ front = {}
  /\ pc = "start"

\* The tables of copy_list.
Copied == UNION {levels[i] : i \in DOMAIN levels}

\* Mutants of Referring: tables already in the list are followed again; a
\* reference of a table to itself is followed.
ReferringAgain(S) == {r \in Tables : \E t \in S : <<t, r>> \in fk /\ t # r}

ReferringSelf(S) == {r \in Tables : \E t \in S : <<t, r>> \in fk} \ Copied

\* referring_tables: the tables the given ones refer to, without themselves
\* and without those already in the list.
Referring(S) ==
  {r \in Tables : \E t \in S : <<t, r>> \in fk /\ t # r} \ Copied

inputs == <<fk, common, ignored>>

\* With fewer than two common tables there is nothing to order.
Short ==
  /\ pc = "start" /\ Cardinality(common) < 2
  /\ levels' = <<common>>
  /\ pc' = "done"
  /\ UNCHANGED <<inputs, front>>

Begin ==
  /\ pc = "start" /\ Cardinality(common) >= 2
  /\ pc' = "outer"
  /\ UNCHANGED <<inputs, levels, front>>

\* The outer loop, until the list is as long as that of the common tables.
Outer ==
  /\ pc = "outer" /\ Cardinality(Copied) < Cardinality(common)
  /\ front' = common \ Copied
  /\ pc' = "inner"
  /\ UNCHANGED <<inputs, levels>>

\* The inner loop, from the tables not added to the tables they refer to.
Descend ==
  /\ pc = "inner" /\ Referring(front) # {}
  /\ front' = Referring(front)
  /\ UNCHANGED <<inputs, levels, pc>>

\* Mutants of AddLevel: the level is appended as one element; the tables it
\* refers to are not looked at.
AddLevelNested ==
  /\ pc = "inner" /\ Referring(front) = {}
  /\ levels' = Append(levels, {front})
  /\ pc' = "outer"
  /\ UNCHANGED <<inputs, front>>

AddLevelAtOnce ==
  /\ pc = "inner"
  /\ levels' = Append(levels, front)
  /\ pc' = "outer"
  /\ UNCHANGED <<inputs, front>>

AddLevel ==
  /\ pc = "inner" /\ Referring(front) = {}
  /\ levels' = Append(levels, front)
  /\ pc' = "outer"
  /\ UNCHANGED <<inputs, front>>

\* Mutant of Finish: the loop ends one table too early.
FinishEarly ==
  /\ pc = "outer" /\ Cardinality(Copied) + 1 >= Cardinality(common)
  /\ levels' = [i \in DOMAIN levels |-> levels[i] \ ignored]
  /\ pc' = "done"
  /\ UNCHANGED <<inputs, front>>

\* The ignored tables are taken off the list.
Finish ==
  /\ pc = "outer" /\ Cardinality(Copied) >= Cardinality(common)
  /\ levels' = [i \in DOMAIN levels |-> levels[i] \ ignored]
  /\ pc' = "done"
  /\ UNCHANGED <<inputs, front>>

Next == Short \/ Begin \/ Outer \/ Descend \/ AddLevel \/ Finish

Spec == Init /\ [][Next]_vars

\* The program goes on by itself.
FairSpec == Spec /\ WF_vars(Next)

-----------------------------------------------------------------------------
\* The shape of every variable.
TypeOK ==
  /\ fk \in SUBSET (Tables \X Tables)
  /\ common \in SUBSET Tables /\ ignored \in SUBSET Tables
  /\ levels \in Seq(SUBSET Tables)
  /\ front \in SUBSET Tables
  /\ pc \in {"start", "outer", "inner", "done"}

\* A table is copied after every table it refers to, when both are copied.
FKOrder ==
  \A i, j \in DOMAIN levels :
    \A t \in levels[i], r \in levels[j] : <<t, r>> \in fk /\ t # r => j < i

\* No table is copied twice.
CopiedOnce ==
  \A i, j \in DOMAIN levels : i # j => levels[i] \cap levels[j] = {}

\* S holds the common tables and every table they refer to, directly or
\* through others.
ReferredWithin(S) ==
  /\ common \subseteq S
  /\ \A t \in S, r \in Tables : <<t, r>> \in fk => r \in S

\* The outer loop counts tables that are not common, when common ones refer to
\* them, and so it may stop before it has added every common table. It leaves
\* out no more of them than there are such other tables, and none when the
\* common tables refer to each other only.
DropsBounded ==
  pc = "done" =>
    \A S \in SUBSET Tables :
      ReferredWithin(S) =>
        Cardinality(common \ Copied) <= Cardinality(S \ common)

\* The ordering comes to an end, unless tables refer to each other in a circle.
Terminates == <>(pc = "done")
=============================================================================
