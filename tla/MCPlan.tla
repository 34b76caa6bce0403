------------------------------- MODULE MCPlan -------------------------------
(* Instances of Plan for TLC: one month of two weeks.                       *)
EXTENDS Plan, TLC

\* A sheet with two rows on one cell.
MCSheets == {[c \in Cells |-> IF c[2] = 1 THEN <<Row(1, "planned"), Row(2, "planned")>> ELSE <<>>]}
MCSymmetry == Permutations(Versions)
=============================================================================
