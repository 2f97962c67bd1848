---------------------------- MODULE MCFsJournal ----------------------------
(***************************************************************************)
(* FsJournal on a small instance: two Paths in directories of their own,   *)
(* two contents, and Commits that write both Paths, write one and delete   *)
(* the other, only delete, and require what they replace.                  *)
(***************************************************************************)
EXTENDS FsJournal, TLC

CONSTANTS a, b, v, w, da, db

MCPaths == {a, b}
MCContents == {v, w}
MCDirectory == a :> da @@ b :> db
MCOneDirectory == a :> da @@ b :> da

Request(ea, eb, sa, sb) ==
  [expects |-> a :> ea @@ b :> eb, sets |-> a :> sa @@ b :> sb]

WriteBoth    == Request(Anything, Anything, w, w)
Move         == Request(v, Anything, Absent, v)
DeleteBoth   == Request(Anything, Anything, Absent, Absent)
ReplaceIfNew == Request(w, Anything, v, Keep)

MCRequests == {WriteBoth, Move, DeleteBoth, ReplaceIfNew}

Symmetry == Permutations(Stores) \cup Permutations(Ids)

=============================================================================
