----------------------------- MODULE MCMoresPay -----------------------------
(* Instances of MoresPay for TLC: every transaction is for one unit.        *)
EXTENDS MoresPay, TLC

MCAmount == [t \in Txns |-> 1]
MCSymmetry == Permutations(Refs) \cup Permutations(Sessions) \cup Permutations(Finance)
                \cup Permutations(Threads)
=============================================================================
