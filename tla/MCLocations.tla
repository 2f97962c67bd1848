---------------------------- MODULE MCLocations ----------------------------
(***************************************************************************)
(* Locations on a small instance: apps and syncs are told apart by nothing *)
(* but their names.                                                        *)
(***************************************************************************)
EXTENDS Locations, TLC

Symmetry == Permutations(Openers) \cup Permutations(Syncs)
=============================================================================
