----------------------------- MODULE MCPlanning -----------------------------
(***************************************************************************)
(* Planning on small instances.  The segments are a, its upper case A, b   *)
(* and c.                                                                  *)
(***************************************************************************)
EXTENDS Planning, TLC

CONSTANTS x, y

MCFold == "A" :> "a" @@ "a" :> "a" @@ "b" :> "b" @@ "c" :> "c"
MCRank == "A" :> 1 @@ "a" :> 2 @@ "b" :> 3 @@ "c" :> 4

(* A File, one under its name, and one that clashes with both in letter case. *)
MCPaths == {<<"a">>, <<"a", "b">>, <<"A", "c">>}
MCPrefixes == {<< >>, <<"a">>}
MCContents == {x, y}
MCNeeds == {Anything, x}

Holding(held) == [p \in Paths |-> IF p \in held THEN x ELSE Absent]

MCStart == {Holding({}), Holding({<<"a">>}), Holding({<<"a", "b">>})}

(* One File in each letter case. *)
MCCasePaths == {<<"a">>, <<"A">>}
MCCaseStart == {Holding({}), Holding({<<"a">>})}

Symmetry == Permutations(Tasks)
=============================================================================
