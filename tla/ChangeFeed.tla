----------------------------- MODULE ChangeFeed -----------------------------
(***************************************************************************)
(* The Change feed of a Store (change.rs): what is recorded and not yet    *)
(* read, merged per Path, and the one reader that waits for it.            *)
(*                                                                         *)
(* Whoever records does it in two steps: it changes what is unread, under  *)
(* the lock of `Unread`, and then wakes the reader (`Notify`).  The reader *)
(* looks at what is unread, and waits if there is nothing, in two steps    *)
(* too, so anything may come between.                                      *)
(***************************************************************************)

CONSTANT Paths

VARIABLES
  unread,  \* what is recorded and not yet read (Unread)
  permit,  \* a wake-up with nobody waiting, kept for the next wait
  reader,  \* where the app is: between calls of `next`, or in one
  inHand   \* what the app still has to do about the items it was given

feedVars == <<unread, permit, reader, inHand>>

Kinds   == {"none", "changed", "removed"}
Origins == {"local", "external"}
NoChange == [kind |-> "none", origin |-> "local"]
Nothing  == [p \in Paths |-> NoChange]

Unread == [resync : BOOLEAN, merged : [Paths -> [kind : Kinds, origin : Origins]],
           storeDropped : BOOLEAN, feedDropped : BOOLEAN]

Readers == {"app", "looking", "empty", "waiting", "woken", "ended"}

(* What the app does about a Path: nothing, or read it again because of a   *)
(* Change of this origin (a Resync is as good as an external Change).       *)
Doings == {"nothing", "local", "external"}

FeedTypeOK ==
  /\ unread \in Unread
  /\ permit \in BOOLEAN
  /\ reader \in Readers
  /\ inHand \in [Paths -> Doings]

FeedInit ==
  /\ unread = [resync |-> FALSE, merged |-> Nothing,
               storeDropped |-> FALSE, feedDropped |-> FALSE]
  /\ permit = FALSE
  /\ reader = "app"
  /\ inHand = [p \in Paths |-> "nothing"]

-----------------------------------------------------------------------------
(* Recording.                                                              *)

RecordedLatestOrigin(kinds, origin) ==
  [p \in Paths |-> IF kinds[p] = "none" THEN unread.merged[p]
                   ELSE [kind |-> kinds[p], origin |-> origin]]

(* The latest kind of each Path, and external if any of its Changes was.    *)
Recorded(kinds, origin) ==
  [p \in Paths |->
     IF kinds[p] = "none" THEN unread.merged[p]
     ELSE [kind |-> kinds[p],
           origin |-> IF unread.merged[p].kind = "none" \/ origin = "external"
                        THEN origin ELSE unread.merged[p].origin]]

(* Unread::record: everything at once, merged with what is unread; a Resync  *)
(* that is unread covers it.                                                 *)
RecordChanges(kinds, origin) ==
  unread' = IF unread.storeDropped \/ unread.feedDropped \/ unread.resync THEN unread
            ELSE [unread EXCEPT !.merged = Recorded(kinds, origin)]

(* Unread::resync: a Resync takes the place of what is unread.             *)
RecordResync ==
  unread' = IF unread.storeDropped \/ unread.feedDropped THEN unread
            ELSE [unread EXCEPT !.resync = TRUE, !.merged = Nothing]

(* FeedSender::end.                                                        *)
RecordEnd == unread' = [unread EXCEPT !.storeDropped = TRUE]

(* Notify::notify_one: wakes the reader if it waits, or else is kept.      *)
NotifyOne ==
  IF reader = "waiting"
    THEN reader' = "woken" /\ UNCHANGED permit
    ELSE permit' = TRUE /\ UNCHANGED reader

-----------------------------------------------------------------------------
(* Reading: ChangeFeed::next, one step for each thing it does.             *)

CallNext ==
  /\ reader = "app"
  /\ ~unread.feedDropped
  /\ \A p \in Paths : inHand[p] = "nothing"
  /\ reader' = "looking"
  /\ UNCHANGED <<unread, permit, inHand>>

(* Unread::next: a Resync, or else every unread Change, or else the end.   *)
Look ==
  /\ reader = "looking"
  /\ unread' = [unread EXCEPT !.resync = FALSE, !.merged = Nothing]
  /\ \/ /\ unread.resync
        /\ inHand' = [p \in Paths |-> "external"]
        /\ reader' = "app"
     \/ /\ ~unread.resync /\ unread.merged # Nothing
        /\ inHand' = [p \in Paths |-> IF unread.merged[p].kind = "none" THEN "nothing"
                                      ELSE unread.merged[p].origin]
        /\ reader' = "app"
     \/ /\ ~unread.resync /\ unread.merged = Nothing
        /\ reader' = IF unread.storeDropped THEN "ended" ELSE "empty"
        /\ UNCHANGED inHand
  /\ UNCHANGED permit

WaitAnyway ==
  /\ reader = "empty"
  /\ permit' = FALSE
  /\ reader' = "waiting"
  /\ UNCHANGED <<unread, inHand>>

(* Notify::notified: takes the wake-up that is kept, or waits for one.     *)
Wait ==
  /\ reader = "empty"
  /\ permit' = FALSE
  /\ reader' = IF permit THEN "looking" ELSE "waiting"
  /\ UNCHANGED <<unread, inHand>>

Wake ==
  /\ reader = "woken"
  /\ reader' = "looking"
  /\ UNCHANGED <<unread, permit, inHand>>

(* The app drops the future of `next` while it waits, as a timeout does.  A  *)
(* wake-up it was given and hasn't taken is kept for the next wait.          *)
CancelNext ==
  /\ reader \in {"waiting", "woken"}
  /\ permit' = (permit \/ reader = "woken")
  /\ reader' = "app"
  /\ UNCHANGED <<unread, inHand>>

(* ChangeFeed::drop.                                                       *)
DropFeed ==
  /\ reader \in {"app", "ended"}
  /\ ~unread.feedDropped
  /\ unread' = [unread EXCEPT !.feedDropped = TRUE, !.resync = FALSE, !.merged = Nothing]
  /\ inHand' = [p \in Paths |-> "nothing"]
  /\ UNCHANGED <<permit, reader>>

=============================================================================
