----------------------------- MODULE InputParser -----------------------------
(***************************************************************************)
(* The SQL input parser (src/lwetl/input.py): the statements in a sequence *)
(* of lines. A line is [text, ends]: what stands before the terminator,    *)
(* and whether the terminator is at its end. A statement is the sequence   *)
(* of its lines without the blank ones around it.                          *)
(***************************************************************************)
EXTENDS Naturals, Sequences, SequencesExt

Blank == ""

\* strip(): the blank lines at both ends go.
Strip(lines) ==
  LET filled == {i \in DOMAIN lines : lines[i] # Blank}
  IN IF filled = {} THEN << >>
     ELSE SubSeq(lines, CHOOSE i \in filled : \A j \in filled : i <= j,
                        CHOOSE i \in filled : \A j \in filled : i >= j)

\* add_sql: a statement without text is not delivered.
AddSql(lines, results) ==
  IF Strip(lines) = << >> THEN results ELSE Append(results, Strip(lines))

\* One round of the loop of parse().
ReadLine(acc, line) ==
  LET lines == Append(acc.lines, line.text)
  IN IF line.ends
     THEN [lines |-> << >>, results |-> AddSql(lines, acc.results)]
     ELSE [lines |-> lines, results |-> acc.results]

\* parse() with array_size = 1: at the end of the input the lines without a
\* terminator are a statement as well.
Parse(input) ==
  LET read == FoldLeft(ReadLine, [lines |-> << >>, results |-> << >>], input)
  IN AddSql(read.lines, read.results)

=============================================================================
