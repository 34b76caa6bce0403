--------------------------- MODULE MCDisbursement ---------------------------
(* Instances of Disbursement for TLC.                                      *)
EXTENDS Disbursement, TLC

CONSTANTS r1, r2

\* Two requests of different amounts, so that sums tell them apart.
MCAmount == [r \in Requests |-> IF r = r1 THEN 1 ELSE 2]

\* References and handlers are interchangeable in the safety runs.
MCSymmetry == Permutations(Refs) \cup Permutations(FinTasks) \cup Permutations(HookTasks)
=============================================================================
