---------------------------- MODULE MCWorkingCopy ----------------------------
(***************************************************************************)
(* WorkingCopy on a small instance.                                        *)
(***************************************************************************)
EXTENDS WorkingCopy, TLC

Symmetry == Permutations(Paths) \cup Permutations(Contents)

=============================================================================
