------------------------------ MODULE MCBooks -------------------------------
(* Instances of Books for TLC: two companies, two entries.                  *)
EXTENDS Books, TLC

\* Bank lines are booked as posted; an entry by hand takes the same way.
MCForms == Refs \X {"posted"}
\* A workbook of two entries.
MCWorkbooks == {<<m, m>> : m \in Months}
MCSymmetry == Permutations(Companies)
=============================================================================
