--------------------------- MODULE MCRestoreContents ---------------------------
(* The restore keys of expenses are interchangeable. *)
EXTENDS RestoreContents, TLC

MCAmounts == {-1}

MCWorks == {{"invoices"}, {"dollars"}, {"tariffs"}}

\* Two months of a day each.
MCCalendar == [d \in 1 .. 2 |-> d]

Symmetry == Permutations(Manual)
================================================================================
