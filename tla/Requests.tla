------------------------------ MODULE Requests ------------------------------
(***************************************************************************)
(* A Commit as a Backend is given it: what it requires of each Path (its   *)
(* Preconditions) and what it makes of each Path (its staged actions).     *)
(*                                                                         *)
(* A File is its contents.  Its Revision is a hash of them, taken to be    *)
(* injective, so "the File has the Revision I read" and "the File has the  *)
(* contents I read" are the same condition.                                *)
(***************************************************************************)

CONSTANTS
  Paths,     \* the Paths of the Store
  Contents,  \* what a File can hold
  Absent,    \* no File at a Path
  Keep,      \* a Commit leaves the Path alone
  Anything,       \* a Commit requires nothing of the Path
  Requests   \* the Commits that are asked for

(* The Files of a Store. *)
Files == [Paths -> Contents \cup {Absent}]

AllRequests ==
  [expects : [Paths -> Contents \cup {Absent, Anything}],
   sets    : [Paths -> Contents \cup {Absent, Keep}]]

ASSUME RequestsAssumption ==
  /\ Absent \notin Contents
  /\ Keep \notin Contents \cup {Absent}
  /\ Anything \notin Contents \cup {Absent}
  /\ Requests \subseteq AllRequests

(* Whether the Preconditions of request r hold of the Files f. *)
Holds(r, f) == \A p \in Paths : r.expects[p] \in {Anything, f[p]}

(* The Paths request r writes, and those it deletes, when the Files are f: a *)
(* write of what is there already and a delete of nothing are left out.      *)
Written(r, f) == {p \in Paths : r.sets[p] \in Contents \ {f[p]}}
Deleted(r, f) == {p \in Paths : r.sets[p] = Absent /\ f[p] # Absent}

(* The Files once request r is made of the Files f. *)
Made(r, f) == [p \in Paths |-> IF r.sets[p] = Keep THEN f[p] ELSE r.sets[p]]

=============================================================================
