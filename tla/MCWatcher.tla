------------------------------ MODULE MCWatcher ------------------------------
(***************************************************************************)
(* Watcher on a small instance.                                            *)
(***************************************************************************)
EXTENDS Watcher, TLC

Symmetry == Permutations(Paths) \cup Permutations(Contents)

=============================================================================
