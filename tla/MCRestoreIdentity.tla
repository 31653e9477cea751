--------------------------- MODULE MCRestoreIdentity ---------------------------
(* Keys, names and the installations that delete nothing are interchangeable. *)
EXTENDS RestoreIdentity, TLC

Symmetry == Permutations(Keys) \cup Permutations(Names) \cup Permutations(Installations \ Deleting)
================================================================================
