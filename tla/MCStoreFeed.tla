---------------------------- MODULE MCStoreFeed -----------------------------
(***************************************************************************)
(* StoreFeed on a small instance: one Path, written, deleted and written   *)
(* again by this Store and by another.                                     *)
(***************************************************************************)
EXTENDS StoreFeed, TLC

MCWrites   == {[p \in Paths |-> "write"]}
MCRequests == MCWrites \cup {[p \in Paths |-> "delete"]}
Symmetry == Permutations(Commits)

=============================================================================
