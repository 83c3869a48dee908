------------------------------ MODULE Labelling ------------------------------
(***************************************************************************)
(* What a classifier that answers in batches promises: every row gets one  *)
(* verdict, in the order of the rows, no verdict is taken back, and in the *)
(* end there is one for each row.                                          *)
(***************************************************************************)
EXTENDS Naturals, Sequences

CONSTANT Statements  \* the sequences of rows there may be

VARIABLES rows,      \* the rows to label
          labelled   \* those that have a verdict

vars == <<rows, labelled>>

Init == rows \in Statements /\ labelled = << >>

Label ==
  /\ \E n \in Len(labelled) + 1 .. Len(rows) : labelled' = [i \in 1 .. n |-> rows[i]]
  /\ UNCHANGED rows

Spec == Init /\ [][Label]_vars

\* All of them, in the end.
AllLabelled == <>(labelled = rows)
=============================================================================
