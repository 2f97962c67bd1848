----------------------------- MODULE StoreFeed ------------------------------
(***************************************************************************)
(* A Store's Commits, the task that follows other Stores' Commits, and how *)
(* what they changed reaches the app on the Change feed (store.rs).        *)
(*                                                                         *)
(* The Backend is SQLite's, as far as the Store layer sees it: a Commit is *)
(* made whole, and gives with it what other Stores committed before it and *)
(* this Store hasn't observed yet (observed_before).                       *)
(***************************************************************************)
EXTENDS ChangeFeed, Naturals, Sequences, SequencesExt

CONSTANTS
  Commits,    \* the Commits the app makes through this Store
  Requests,   \* what a Commit or another Store's may do: [Paths -> Actions]
  MaxTheirs,  \* how many Commits other Stores make
  MaxFailures,\* how many times the database can't be read
  Follower,   \* the task that follows other Stores' Commits
  Supervisor, \* the task that waits for the Follower to end
  Inner       \* what drops `Inner` once nobody holds it

Actions == {"keep", "write", "delete"}
Tellers == Commits \cup {Follower, Supervisor, Inner}

ASSUME StoreAssumption ==
  /\ Requests \subseteq [Paths -> Actions]
  /\ MaxTheirs \in Nat /\ MaxFailures \in Nat
  /\ Follower \notin Commits /\ Supervisor \notin Commits /\ Inner \notin Commits
  /\ Follower # Supervisor /\ Follower # Inner /\ Supervisor # Inner

VARIABLES
  there,    \* the Paths there is a File at
  log,      \* other Stores' Commits this Store hasn't observed, in order
  theirs,   \* how many Commits other Stores have made
  newer,    \* data_version isn't what it was when the Follower last checked it
  failures, \* how many times the Follower couldn't check it, or read the log
  handles,  \* whether the app has a Store handle left
  turn,     \* who holds commit_order, followed by who waits for it
  step,     \* where each of Tellers is
  telling,  \* what it has still to record on the feed
  waits,    \* the Commits the app still waits for
  failing,  \* the Follower couldn't read the log the last time it tried
  ours,     \* the Paths this Store changed since the app last read them
  foreign   \* those other Stores changed, since it did because of an external Change

vars == <<feedVars, there, log, theirs, newer, failures, handles, turn, step, telling, waits, failing,
          ours, foreign>>

Steps == {"new", "waiting", "started", "telling", "waking", "done", "never"}

-----------------------------------------------------------------------------
(* What is told.                                                           *)

Told == [what : {"changes", "missed", "end"}, kinds : [Paths -> Kinds], origin : Origins]

Changes(kinds, origin) == [what |-> "changes", kinds |-> kinds, origin |-> origin]
Missed == [what |-> "missed", kinds |-> [p \in Paths |-> "none"], origin |-> "external"]
End    == [Missed EXCEPT !.what = "end"]

(* What request r changes where there are Files at the Paths of t: a delete  *)
(* of nothing changes nothing.  (A write is of other contents.)              *)
Kind(r, t) == [p \in Paths |-> IF r[p] = "write" THEN "changed"
                               ELSE IF r[p] = "delete" /\ p \in t THEN "removed"
                               ELSE "none"]

Changed(kinds) == {p \in Paths : kinds[p] # "none"}

After(kinds, t) == (t \cup {p \in Paths : kinds[p] = "changed"})
                     \ {p \in Paths : kinds[p] = "removed"}

(* What a Commit that changed kinds records: what others committed before   *)
(* it, Commit by Commit, and then its own.  No Changes, no record.          *)
Outcome(kinds) ==
  [n \in DOMAIN log |-> Changes(log[n], "external")]
    \o (IF Changed(kinds) = {} THEN <<>> ELSE <<Changes(kinds, "local")>>)

HasTurn(a) == turn # <<>> /\ Head(turn) = a

-----------------------------------------------------------------------------
(* A Commit (Store::commit).                                               *)

Commit(c) ==
  /\ handles = "held"
  /\ step[c] = "new"
  /\ step' = [step EXCEPT ![c] = "waiting"]
  /\ turn' = Append(turn, c)
  /\ waits' = waits \cup {c}
  /\ UNCHANGED <<feedVars, there, log, theirs, newer, failures, handles, telling, failing, ours, foreign>>

(* It gets its turn, and starts: it holds the turn and Inner from here on. *)
Start(c) ==
  /\ step[c] = "waiting"
  /\ HasTurn(c)
  /\ step' = [step EXCEPT ![c] = "started"]
  /\ UNCHANGED <<feedVars, there, log, theirs, newer, failures, handles, turn, telling, waits, failing,
                 ours, foreign>>

(* Dropping the future: a Commit waiting for its turn never happens; one    *)
(* that has started goes on in a task of its own.                           *)
Cancel(c) ==
  /\ c \in waits
  /\ waits' = waits \ {c}
  /\ IF step[c] = "waiting"
       THEN /\ step' = [step EXCEPT ![c] = "never"]
            /\ turn' = RemoveFirst(turn, c)
       ELSE UNCHANGED <<step, turn>>
  /\ UNCHANGED <<feedVars, there, log, theirs, newer, failures, handles, telling, failing, ours, foreign>>

ReleaseFirst(c, r) ==
  LET kinds == Kind(r, there) IN
  /\ step[c] = "started"
  /\ there' = After(kinds, there)
  /\ ours' = ours \cup Changed(kinds)
  /\ telling' = [telling EXCEPT ![c] = Outcome(kinds)]
  /\ log' = <<>>
  /\ step' = [step EXCEPT ![c] = "telling"]
  /\ turn' = Tail(turn)
  /\ UNCHANGED <<feedVars, theirs, newer, failures, handles, waits, failing, foreign>>

(* The Backend makes the Commit.                                           *)
Apply(c, r) ==
  LET kinds == Kind(r, there) IN
  /\ step[c] = "started"
  /\ there' = After(kinds, there)
  /\ ours' = ours \cup Changed(kinds)
  /\ telling' = [telling EXCEPT ![c] = Outcome(kinds)]
  /\ log' = <<>>
  /\ step' = [step EXCEPT ![c] = "telling"]
  /\ UNCHANGED <<feedVars, theirs, newer, failures, handles, turn, waits, failing, foreign>>

(* The Backend gives an error: a Precondition doesn't hold, say.  Nothing is *)
(* recorded, and what was read of the log is read again next time.           *)
ApplyFails(c) ==
  /\ step[c] = "started"
  /\ step' = [step EXCEPT ![c] = "telling"]
  /\ UNCHANGED <<feedVars, there, log, theirs, newer, failures, handles, turn, telling, waits, failing,
                 ours, foreign>>

FinishAwaited(c) ==
  /\ step[c] = "telling"
  /\ telling[c] = <<>>
  /\ c \in waits
  /\ step' = [step EXCEPT ![c] = "done"]
  /\ turn' = RemoveFirst(turn, c)
  /\ waits' = waits \ {c}
  /\ UNCHANGED <<feedVars, there, log, theirs, newer, failures, handles, telling, failing, ours, foreign>>

(* The Commit has recorded everything, gives its answer, and drops its turn *)
(* and its hold on Inner.                                                   *)
Finish(c) ==
  /\ step[c] = "telling"
  /\ telling[c] = <<>>
  /\ step' = [step EXCEPT ![c] = "done"]
  /\ turn' = RemoveFirst(turn, c)
  /\ waits' = waits \ {c}
  /\ UNCHANGED <<feedVars, there, log, theirs, newer, failures, handles, telling, failing, ours, foreign>>

-----------------------------------------------------------------------------
(* Recording on the feed: first what is unread, then the wake-up.          *)

Tell(a) ==
  /\ step[a] = "telling"
  /\ telling[a] # <<>>
  /\ LET told == Head(telling[a]) IN
       CASE told.what = "changes" -> RecordChanges(told.kinds, told.origin)
         [] told.what = "missed"  -> RecordResync
         [] told.what = "end"     -> RecordEnd
  /\ telling' = [telling EXCEPT ![a] = Tail(@)]
  /\ step' = [step EXCEPT ![a] = "waking"]
  /\ UNCHANGED <<permit, reader, inHand, there, log, theirs, newer, failures, handles, turn, waits, failing,
                 ours, foreign>>

WakeReader(a) ==
  /\ step[a] = "waking"
  /\ NotifyOne
  /\ step' = [step EXCEPT ![a] = "telling"]
  /\ UNCHANGED <<unread, inHand, there, log, theirs, newer, failures, handles, turn, telling, waits, failing,
                 ours, foreign>>

-----------------------------------------------------------------------------
(* Other Stores, and the task that follows them (follow_other_stores).     *)

(* Another Store commits request r.                                        *)
TheyCommit(r) ==
  LET kinds == Kind(r, there) IN
  /\ theirs < MaxTheirs
  /\ theirs' = theirs + 1
  /\ Changed(kinds) # {}
  /\ there' = After(kinds, there)
  /\ log' = Append(log, kinds)
  /\ newer' = TRUE
  /\ foreign' = foreign \cup Changed(kinds)
  /\ UNCHANGED <<feedVars, failures, handles, turn, step, telling, waits, failing, ours>>

(* The poller notices that others may have committed, or can't tell, and the *)
(* Follower queues for the turn (SqlitePoller::wait).                        *)
Notice ==
  /\ step[Follower] = "new"
  /\ \/ newer /\ newer' = FALSE /\ UNCHANGED failures
     \/ failures < MaxFailures /\ failures' = failures + 1 /\ UNCHANGED newer
  /\ step' = [step EXCEPT ![Follower] = "waiting"]
  /\ turn' = Append(turn, Follower)
  /\ UNCHANGED <<feedVars, there, log, theirs, handles, telling, waits, failing, ours, foreign>>

(* With the turn, it reads what it hasn't observed (poller.read).          *)
ReadLog ==
  /\ step[Follower] = "waiting"
  /\ HasTurn(Follower)
  /\ telling' = [telling EXCEPT ![Follower] = Outcome([p \in Paths |-> "none"])]
  /\ log' = <<>>
  /\ failing' = FALSE
  /\ step' = [step EXCEPT ![Follower] = "telling"]
  /\ UNCHANGED <<feedVars, there, theirs, newer, failures, handles, turn, waits, ours, foreign>>

(* Reading fails: a Resync is sent, once until it can be read again.       *)
ReadLogFails ==
  /\ step[Follower] = "waiting"
  /\ HasTurn(Follower)
  /\ telling' = [telling EXCEPT ![Follower] = IF failing THEN <<>> ELSE <<Missed>>]
  /\ failing' = TRUE
  /\ failures < MaxFailures /\ failures' = failures + 1
  /\ step' = [step EXCEPT ![Follower] = "telling"]
  /\ UNCHANGED <<feedVars, there, log, theirs, newer, handles, turn, waits, ours, foreign>>

Followed ==
  /\ step[Follower] = "telling"
  /\ telling[Follower] = <<>>
  /\ step' = [step EXCEPT ![Follower] = "new"]
  /\ turn' = Tail(turn)
  /\ UNCHANGED <<feedVars, there, log, theirs, newer, failures, handles, telling, waits, failing, ours, foreign>>

(* The Follower panics, which may lose what it was reading, and its turn is *)
(* dropped.  The Supervisor sends a Resync (supervise).                     *)
FollowerPanics ==
  /\ step[Follower] \in {"new", "waiting"}
  /\ log' \in {log} \cup (IF HasTurn(Follower) THEN {<<>>} ELSE {})
  /\ turn' = RemoveFirst(turn, Follower)
  /\ step' = [step EXCEPT ![Follower] = "never", ![Supervisor] = "telling"]
  /\ telling' = [telling EXCEPT ![Supervisor] = <<Missed>>]
  /\ UNCHANGED <<feedVars, there, theirs, newer, failures, handles, waits, failing, ours, foreign>>

Supervised ==
  /\ step[Supervisor] = "telling"
  /\ telling[Supervisor] = <<>>
  /\ step' = [step EXCEPT ![Supervisor] = "done"]
  /\ UNCHANGED <<feedVars, there, log, theirs, newer, failures, handles, turn, telling, waits, failing,
                 ours, foreign>>

-----------------------------------------------------------------------------
(* The end.                                                                *)

(* The app drops its last Store handle, which a Commit it waits for borrows.*)
DropStore ==
  /\ handles = "held"
  /\ waits = {}
  /\ handles' = "dropped"
  /\ UNCHANGED <<feedVars, there, log, theirs, newer, failures, turn, step, telling, waits, failing, ours, foreign>>

HeldByHandles == handles = "held"

(* Commits that have started hold Inner.                                   *)
Held == handles = "held" \/ \E c \in Commits : step[c] \in {"started", "telling", "waking"}

(* Inner::drop stops the Follower, and ends the feed.                      *)
DropInner ==
  /\ ~Held
  /\ step[Inner] = "new"
  /\ step' = [step EXCEPT ![Inner] = "telling"]
  /\ telling' = [telling EXCEPT ![Inner] = <<End>>]
  /\ UNCHANGED <<feedVars, there, log, theirs, newer, failures, handles, turn, waits, failing, ours, foreign>>

(* The Follower stops where it next waits, once it is told to.  What it was *)
(* reading may be lost, and it drops its turn.                              *)
FollowerStops ==
  /\ step[Inner] # "new"
  /\ step[Follower] \in {"new", "waiting"}
  /\ step' = [step EXCEPT ![Follower] = "done"]
  /\ log' \in {log} \cup (IF HasTurn(Follower) THEN {<<>>} ELSE {})
  /\ turn' = RemoveFirst(turn, Follower)
  /\ UNCHANGED <<feedVars, there, theirs, newer, failures, handles, telling, waits, failing, ours, foreign>>

InnerDropped ==
  /\ step[Inner] = "telling"
  /\ telling[Inner] = <<>>
  /\ step' = [step EXCEPT ![Inner] = "done"]
  /\ UNCHANGED <<feedVars, there, log, theirs, newer, failures, handles, turn, telling, waits, failing,
                 ours, foreign>>

-----------------------------------------------------------------------------
(* The app.                                                                *)

(* It reads a Path again because of an item it was given.                  *)
ReadAgain(p) ==
  /\ reader = "app"
  /\ inHand[p] # "nothing"
  /\ inHand' = [inHand EXCEPT ![p] = "nothing"]
  /\ ours' = ours \ {p}
  /\ foreign' = IF inHand[p] = "external" THEN foreign \ {p} ELSE foreign
  /\ UNCHANGED <<unread, permit, reader, there, log, theirs, newer, failures, handles, turn, step, telling,
                 waits, failing>>

Reading ==
  /\ CallNext \/ Look \/ Wait \/ Wake \/ CancelNext \/ DropFeed
  /\ UNCHANGED <<there, log, theirs, newer, failures, handles, turn, step, telling, waits, failing,
                 ours, foreign>>

-----------------------------------------------------------------------------
Init ==
  /\ FeedInit
  /\ there \in SUBSET Paths
  /\ log = <<>>
  /\ theirs = 0
  /\ newer = FALSE
  /\ failures = 0
  /\ handles = "held"
  /\ turn = <<>>
  /\ step = [a \in Tellers |-> "new"]
  /\ telling = [a \in Tellers |-> <<>>]
  /\ waits = {}
  /\ failing = FALSE
  /\ ours = {}
  /\ foreign = {}

Committing(c) ==
  Start(c) \/ (\E r \in Requests : Apply(c, r)) \/ ApplyFails(c) \/ Finish(c)

Following ==
  Notice \/ ReadLog \/ ReadLogFails \/ Followed \/ FollowerStops

Ending == Supervised \/ DropInner \/ InnerDropped

Next ==
  \/ \E c \in Commits : Commit(c) \/ Cancel(c) \/ Committing(c)
  \/ \E a \in Tellers : Tell(a) \/ WakeReader(a)
  \/ \E r \in Requests : TheyCommit(r)
  \/ Following \/ FollowerPanics
  \/ DropStore \/ Ending
  \/ \E p \in Paths : ReadAgain(p)
  \/ Reading

Spec == Init /\ [][Next]_vars

(* The tasks of the runtime go on, as does an app that reads its feed: it    *)
(* calls `next` again and again, and reads what it is told of.               *)
FairSpec ==
  /\ Spec
  /\ \A c \in Commits : WF_vars(Committing(c))
  /\ \A a \in Tellers : WF_vars(Tell(a) \/ WakeReader(a))
  /\ WF_vars(Following)
  /\ WF_vars(Ending)
  /\ \A p \in Paths : WF_vars(ReadAgain(p))
  /\ WF_vars((CallNext \/ Look \/ Wait \/ Wake) /\ Reading)

-----------------------------------------------------------------------------
(* Properties.                                                             *)

(* The type of every variable; and commit_order's queue holds, once, each     *)
(* Commit and Follower that waits for the turn or works under it.             *)
TypeOK ==
  /\ FeedTypeOK
  /\ there \subseteq Paths
  /\ log \in Seq([Paths -> Kinds])
  /\ theirs \in 0..MaxTheirs
  /\ newer \in BOOLEAN
  /\ failures \in 0..MaxFailures
  /\ handles \in {"held", "dropped"}
  /\ turn \in Seq(Commits \cup {Follower})
  /\ IsInjective(turn)
  /\ Range(turn) = {a \in Commits \cup {Follower} :
                      step[a] \in {"waiting", "started", "telling", "waking"}}
  /\ step \in [Tellers -> Steps]
  /\ telling \in [Tellers -> Seq(Told)]
  /\ waits \subseteq Commits
  /\ failing \in BOOLEAN
  /\ ours \subseteq Paths
  /\ foreign \subseteq Paths

(* Somebody has still to record a Change of p, or that Changes were missed.  *)
ToBeTold(p, origins) ==
  \E a \in Tellers : \E n \in DOMAIN telling[a] :
    \/ telling[a][n].what = "missed"
    \/ telling[a][n].kinds[p] # "none" /\ telling[a][n].origin \in origins

(* The app is told of it, or has been and is going to read p.                *)
OnItsWay(p, origins) ==
  \/ unread.resync
  \/ unread.merged[p].kind # "none" /\ unread.merged[p].origin \in origins
  \/ inHand[p] \in origins
  \/ ToBeTold(p, origins)

(* Nothing goes untold, as long as the feed isn't dropped.  A Path the app    *)
(* hasn't read since a Commit of this Store changed it is on its way to the   *)
(* app, also when the app stopped waiting for the Commit or dropped its last  *)
(* handle (store.rs: "which keeps the feed open until it is done").  And what *)
(* other Stores change while this one is open is on its way as theirs, so     *)
(* that "an app that skips its own Changes never misses someone else's"       *)
(* (change.rs).                                                               *)
OnTheirWay ==
  \/ unread.feedDropped
  \/ /\ \A p \in ours : OnItsWay(p, Origins)
     /\ \A p \in foreign :
          \/ step[Inner] # "new"
          \/ \E n \in DOMAIN log : log[n][p] # "none"
          \/ OnItsWay(p, {"external"})

(* The merged Change of a Path says truly whether it was changed or removed,  *)
(* once everything that was committed is recorded, while this Store is open:  *)
(* Changes reach the feed in the order they were made (Inner::commit_order).  *)
KindIsLatest ==
  \A p \in Paths :
    /\ step[Inner] = "new"
    /\ unread.merged[p].kind # "none"
    /\ ~ToBeTold(p, Origins)
    /\ \A n \in DOMAIN log : log[n][p] = "none"
    => (unread.merged[p].kind = "removed" <=> p \notin there)

(* Nobody waits while there is something to be had: a reader that waits will  *)
(* be woken for what is unread, and for the end (Shared::recorded).           *)
NoLostWakeUp ==
  reader = "waiting" /\ (unread.resync \/ unread.merged # Nothing \/ unread.storeDropped) =>
    \E a \in Tellers : step[a] = "waking"

(* The feed ends only when nothing more can be recorded and all that was has  *)
(* been read.                                                                 *)
EndIsTheEnd ==
  reader = "ended" =>
    /\ handles = "dropped"
    /\ ours = {} \/ unread.feedDropped
    /\ \A c \in Commits : step[c] \in {"new", "done", "never"}

(* Reading the log failed, not for the first time: nobody knows any more that *)
(* it has anything new, as the poller has taken the new data_version already, *)
(* and no Resync is sent again.                                               *)
Forgotten == failures > 1 /\ failing /\ ~newer

(* What this Store changed is told and read, if the app goes on reading, and  *)
(* so is what others changed, while this Store is open and the Follower       *)
(* hasn't panicked (change.rs:56-57: "every Change after the Store is opened  *)
(* is reported"), also when checking for it or reading the log fails once.    *)
(* When that fails again, what others changed may be Forgotten, and this is   *)
(* false without that exception.                                              *)
ChangesAreTold ==
  \A p \in Paths :
    /\ p \in ours ~> (p \notin ours \/ unread.feedDropped)
    /\ p \in foreign ~> \/ p \notin foreign
                       \/ unread.feedDropped \/ step[Inner] # "new" \/ step[Follower] = "never"
                       \/ Forgotten

(* A Commit gets its turn and an answer, unless the app stops waiting: the    *)
(* Follower and the Commits before it never keep the turn for ever.           *)
CommitsAnswer ==
  \A c \in Commits : step[c] = "waiting" ~> step[c] \in {"done", "never"}

(* Once the last handle is dropped, the feed ends for the app that reads it.  *)
FeedEnds == (handles = "dropped") ~> (reader = "ended" \/ unread.feedDropped)

=============================================================================
