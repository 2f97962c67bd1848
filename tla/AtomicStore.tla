---------------------------- MODULE AtomicStore ----------------------------
(***************************************************************************)
(* What a Store promises of its Commits: each is made whole, at one moment *)
(* at which its Preconditions hold, or is refused and changes nothing.  It *)
(* knows of no journal, lock, crash or power cut: a Backend implements it  *)
(* when none of these can be told from what the Files are.                 *)
(***************************************************************************)
EXTENDS Requests

CONSTANTS
  Ids,       \* the Commits ever asked for
  NoRequest  \* a Commit not asked for yet

VARIABLES
  files,    \* what reading each Path gives
  asked,    \* the request of each Commit
  outcome   \* whether each Commit "happened", was "refused", or neither yet

vars == <<files, asked, outcome>>

TypeOK ==
  /\ files \in Files
  /\ asked \in [Ids -> Requests \cup {NoRequest}]
  /\ outcome \in [Ids -> {"open", "happened", "refused"}]

Init ==
  /\ files \in Files
  /\ asked = [i \in Ids |-> NoRequest]
  /\ outcome = [i \in Ids |-> "open"]

(* A caller asks for a Commit. *)
Ask(i, r) ==
  /\ asked[i] = NoRequest
  /\ asked' = [asked EXCEPT ![i] = r]
  /\ UNCHANGED <<files, outcome>>

(* A Commit is made, whole, where its Preconditions hold. *)
Happen(i) ==
  /\ asked[i] # NoRequest
  /\ outcome[i] = "open"
  /\ Holds(asked[i], files)
  /\ files' = Made(asked[i], files)
  /\ outcome' = [outcome EXCEPT ![i] = "happened"]
  /\ UNCHANGED asked

(* A Commit is not made, and never will be. *)
Refuse(i) ==
  /\ asked[i] # NoRequest
  /\ outcome[i] = "open"
  /\ outcome' = [outcome EXCEPT ![i] = "refused"]
  /\ UNCHANGED <<files, asked>>

Next ==
  \E i \in Ids :
    \/ \E r \in Requests : Ask(i, r)
    \/ Happen(i)
    \/ Refuse(i)

Spec == Init /\ [][Next]_vars

=============================================================================
