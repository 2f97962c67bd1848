---------------------------- MODULE MCSqliteLog -----------------------------
(***************************************************************************)
(* SqliteLog on a small instance: Stores that do the same are alike.       *)
(***************************************************************************)
EXTENDS SqliteLog, TLC

Symmetry == Permutations(Stores)

=============================================================================
