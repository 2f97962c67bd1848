----------------------------- MODULE Locations -----------------------------
(***************************************************************************)
(* Opening and making Stores and Working copies.  A Location is marked for *)
(* the Backend of the first Store to open it; a folder becomes a Working   *)
(* copy when `tidings sync` saves a record there that names its Store.     *)
(* Both are made in several steps on disk, by processes that race, fail    *)
(* and die between any two of them, while a person may remove the Location.*)
(*                                                                         *)
(* There is one Location and one folder, which is not the Location and not *)
(* in it.  Each time the Location is removed another one begins, which the *)
(* files still open in the old one don't belong to.                        *)
(***************************************************************************)
EXTENDS Naturals, FiniteSets

CONSTANTS
  Openers,     \* apps that open a Store at the Location
  Syncs,       \* runs of `tidings sync` on the folder
  Nothing,     \* no marker, no record, no flag, no lock
  MaxWaits,    \* how often an empty marker is read again
  MaxRemovals  \* bound: how often the Location is removed

ASSUME LocationsAssumption ==
  /\ MaxWaits \in Nat /\ MaxRemovals \in Nat
  /\ Nothing \notin Nat \cup Syncs \cup {"fs", "sqlite", "empty"}

Processes == Openers \cup Syncs
Kinds == {"fs", "sqlite"}

(* The entries of the folder's .tidings/, other than the record. *)
LockFiles   == {"lock", "sync.lock"}
Temporaries == {"record temporary", "ignore temporary"}
Leftovers   == LockFiles \cup Temporaries \cup {"ignore"}

VARIABLES
  tidings,   \* whether the Location and its .tidings/ exist
  marker,    \* what the Location's Backend marker holds: a kind, "empty", or Nothing
  removals,  \* which Location it is: how many were removed before
  folder,    \* the entries of the folder's .tidings/, other than the record
  record,    \* the Backend of the Store the folder's record names, or Nothing
  syncing,   \* the sync that holds sync.lock, or Nothing
  pc,        \* where each process is
  kind,      \* the Backend each process opens the Store on, as far as it knows
  flags,     \* what each sync was told, until it used it: --create and --backend
  waits,     \* how often each process has read an empty marker
  made,      \* the Location in which each process made the marker it writes
  claimed,   \* the Location each process found or made marked for its Backend
  within,    \* the Location each process has its Store's lock or database in
  making     \* the syncs that make a Working copy, rather than resume one

location == <<tidings, marker, removals>>
workingCopy == <<folder, record, syncing>>
own == <<kind, flags, waits, made, claimed, within, making>>
vars == <<location, workingCopy, pc, own>>

Claiming == {"detect", "make directory", "make marker", "write marker", "read marker"}
Creating == {"address", "check", "lock", "check again", "lock record", "ignore",
             "rename ignore", "record", "rename record"}
Steps == {"start", "open", "use", "resume", "match", "find"} \cup Claiming \cup Creating

TypeOK ==
  /\ tidings \in BOOLEAN
  /\ marker \in Kinds \cup {"empty", Nothing}
  /\ removals \in 0 .. MaxRemovals
  /\ folder \subseteq Leftovers
  /\ record \in Kinds \cup {Nothing}
  /\ syncing \in Syncs \cup {Nothing}
  /\ pc \in [Processes -> Steps]
  /\ kind \in [Processes -> Kinds \cup {Nothing}]
  /\ flags \in [Processes -> [create : BOOLEAN, backend : Kinds \cup {Nothing}]]
  /\ waits \in [Processes -> 0 .. MaxWaits]
  /\ made \in [Processes -> 0 .. MaxRemovals \cup {Nothing}]
  /\ claimed \in [Processes -> 0 .. MaxRemovals \cup {Nothing}]
  /\ within \in [Processes -> 0 .. MaxRemovals \cup {Nothing}]
  /\ making \subseteq Syncs

NoFlags == [create |-> FALSE, backend |-> Nothing]

Init ==
  /\ tidings = FALSE /\ marker = Nothing /\ removals = 0
  /\ folder = {} /\ record = Nothing /\ syncing = Nothing
  /\ pc = [p \in Processes |-> "start"]
  /\ kind = [p \in Processes |-> Nothing]
  /\ flags = [p \in Processes |-> NoFlags]
  /\ waits = [p \in Processes |-> 0]
  /\ made = [p \in Processes |-> Nothing]
  /\ claimed = [p \in Processes |-> Nothing]
  /\ within = [p \in Processes |-> Nothing]
  /\ making = {}

Go(p, from, to) == pc[p] = from /\ pc' = [pc EXCEPT ![p] = to]

(* Process p ends: it fails, is stopped or dies, and its locks go with it. *)
Ended(p) ==
  /\ pc' = [pc EXCEPT ![p] = "start"]
  /\ kind' = [kind EXCEPT ![p] = Nothing]
  /\ flags' = [flags EXCEPT ![p] = NoFlags]
  /\ waits' = [waits EXCEPT ![p] = 0]
  /\ made' = [made EXCEPT ![p] = Nothing]
  /\ claimed' = [claimed EXCEPT ![p] = Nothing]
  /\ within' = [within EXCEPT ![p] = Nothing]
  /\ making' = making \ {p}
  /\ syncing' = IF syncing = p THEN Nothing ELSE syncing
  /\ UNCHANGED <<location, folder, record>>

-----------------------------------------------------------------------------
(* Reading and making the Backend marker.                                    *)

(* Process p, at step `from`, reads the marker again after a while, since it *)
(* is empty and another may be writing it.                                   *)
WaitForMarker(p, from) ==
  /\ pc[p] = from
  /\ marker = "empty"
  /\ waits[p] < MaxWaits
  /\ waits' = [waits EXCEPT ![p] = @ + 1]
  /\ UNCHANGED <<location, workingCopy, pc, kind, flags, made, claimed, within, making>>

(* It stays empty, which is an error. *)
EmptyMarker(p, from) ==
  /\ pc[p] = from
  /\ marker = "empty"
  /\ waits[p] = MaxWaits
  /\ Ended(p)

(* A claim first looks whether the Location is the other Backend's. *)
Detect(p) ==
  /\ marker \in {kind[p], Nothing}
  /\ Go(p, "detect", "make directory")
  /\ waits' = [waits EXCEPT ![p] = 0]
  /\ UNCHANGED <<location, workingCopy, kind, flags, made, claimed, within, making>>

WrongBackend(p) ==
  /\ pc[p] \in {"detect", "read marker"}
  /\ marker \in Kinds \ {kind[p]}
  /\ Ended(p)

MakeDirectory(p) ==
  /\ Go(p, "make directory", "make marker")
  /\ tidings' = TRUE
  /\ UNCHANGED <<marker, removals, workingCopy, own>>

MakeMarkerAnyway(p) ==
  /\ tidings
  /\ Go(p, "make marker", "write marker")
  /\ marker' = "empty"
  /\ made' = [made EXCEPT ![p] = removals]
  /\ UNCHANGED <<tidings, removals, workingCopy, kind, flags, waits, claimed, within, making>>

MakeMarker(p) ==
  /\ tidings /\ marker = Nothing
  /\ Go(p, "make marker", "write marker")
  /\ marker' = "empty"
  /\ made' = [made EXCEPT ![p] = removals]
  /\ UNCHANGED <<tidings, removals, workingCopy, kind, flags, waits, claimed, within, making>>

(* Another made it meanwhile. *)
MarkerExists(p) ==
  /\ marker # Nothing
  /\ Go(p, "make marker", "read marker")
  /\ UNCHANGED <<location, workingCopy, own>>

(* The directory went again. *)
MakeMarkerFails(p) == pc[p] = "make marker" /\ ~tidings /\ Ended(p)

(* The step after a claim: a Store of the filesystem opens its lock file, one *)
(* of SQLite its database.                                                    *)
Claimed(p, from, where) ==
  /\ Go(p, from, "open")
  /\ claimed' = [claimed EXCEPT ![p] = where]
  /\ waits' = [waits EXCEPT ![p] = 0]
  /\ made' = [made EXCEPT ![p] = Nothing]
  /\ UNCHANGED <<tidings, removals, workingCopy, kind, flags, within, making>>

(* The marker is written where it was made, even if that Location is gone. *)
WriteMarker(p) ==
  /\ marker' = IF made[p] = removals THEN kind[p] ELSE marker
  /\ Claimed(p, "write marker", made[p])

(* A marker that is gone again is taken for one that agrees. *)
ReadMarker(p) ==
  /\ marker \in {kind[p], Nothing}
  /\ Claimed(p, "read marker", IF marker = Nothing THEN Nothing ELSE removals)
  /\ UNCHANGED marker

-----------------------------------------------------------------------------
(* Opening the Store once its Location is claimed, and using it.             *)

Open(p) ==
  /\ tidings
  /\ Go(p, "open", IF p \in making THEN "lock record" ELSE "use")
  /\ within' = [within EXCEPT ![p] = removals]
  /\ UNCHANGED <<location, workingCopy, kind, flags, waits, made, claimed, making>>

(* The filesystem claims a Location that is missing again, while SQLite     *)
(* can't open its database there.                                           *)
ClaimMissing(p) ==
  /\ kind[p] = "fs"
  /\ ~tidings
  /\ Go(p, "open", "detect")
  /\ claimed' = [claimed EXCEPT ![p] = Nothing]
  /\ UNCHANGED <<location, workingCopy, kind, flags, waits, made, within, making>>

NoDatabase(p) == pc[p] = "open" /\ kind[p] = "sqlite" /\ ~tidings /\ Ended(p)

(* Before each Commit an open Store of the filesystem claims the Location    *)
(* again if it is missing; one of SQLite does before each call if its        *)
(* database is not the one there.                                            *)
ClaimAgain(p) ==
  /\ IF kind[p] = "fs" THEN ~tidings ELSE within[p] # removals
  /\ Go(p, "use", "detect")
  /\ claimed' = [claimed EXCEPT ![p] = Nothing]
  /\ UNCHANGED <<location, workingCopy, kind, flags, waits, made, within, making>>

(* Each Commit of a Store of the filesystem opens the lock file that is there, *)
(* whoever made the Location since the Store was opened.                     *)
LockAgain(p) ==
  /\ pc[p] = "use" /\ kind[p] = "fs"
  /\ tidings /\ within[p] # removals
  /\ within' = [within EXCEPT ![p] = removals]
  /\ UNCHANGED <<location, workingCopy, pc, kind, flags, waits, made, claimed, making>>

(* An app opens a Store on a Backend of its choice. *)
StartOpening(p, k) ==
  /\ Go(p, "start", "detect")
  /\ kind' = [kind EXCEPT ![p] = k]
  /\ UNCHANGED <<location, workingCopy, flags, waits, made, claimed, within, making>>

-----------------------------------------------------------------------------
(* tidings sync: resuming the Working copy the folder is.                    *)

StartSync(p, create, backend) ==
  /\ Go(p, "start", IF record = Nothing THEN "address" ELSE "resume")
  /\ flags' = [flags EXCEPT ![p] = [create |-> create, backend |-> backend]]
  /\ kind' = [kind EXCEPT ![p] = record]
  /\ making' = IF record = Nothing THEN making \cup {p} ELSE making
  /\ UNCHANGED <<location, workingCopy, waits, made, claimed, within>>

(* Sync p takes sync.lock, or finds another sync holding it.  The lock file  *)
(* is made, with .tidings/, where it is missing.                             *)
TakeSyncLock(p, from, to) ==
  /\ syncing = Nothing
  /\ Go(p, from, to)
  /\ syncing' = p
  /\ folder' = folder \cup {"sync.lock"}
  /\ UNCHANGED <<location, record, own>>

SyncLockHeld(p) ==
  /\ pc[p] \in {"resume", "lock"}
  /\ syncing # Nothing
  /\ Ended(p)

(* The flags must agree with the record, and --create agrees with none. *)
Mismatched(p) == flags[p].create \/ flags[p].backend \notin {Nothing, kind[p]}

MatchFlags(p) ==
  /\ ~Mismatched(p)
  /\ Go(p, "match", "find")
  /\ flags' = [flags EXCEPT ![p] = NoFlags]
  /\ UNCHANGED <<location, workingCopy, kind, waits, made, claimed, within, making>>

MismatchedFlags(p) == pc[p] = "match" /\ Mismatched(p) /\ Ended(p)

(* The Store of a Working copy must be there, since it is never made anew. *)
FindStore(p) ==
  /\ marker \in Kinds
  /\ Go(p, "find", "detect")
  /\ waits' = [waits EXCEPT ![p] = 0]
  /\ UNCHANGED <<location, workingCopy, kind, flags, made, claimed, within, making>>

StoreMissing(p) == pc[p] = "find" /\ marker = Nothing /\ Ended(p)

-----------------------------------------------------------------------------
(* tidings sync: making the folder a Working copy.                           *)

(* The Backend is the one --backend names, or the one the Location has; a    *)
(* Store that isn't there needs --create.                                    *)
Address(p) ==
  /\ marker # "empty"
  /\ marker # Nothing \/ (flags[p].create /\ flags[p].backend # Nothing)
  /\ Go(p, "address", "check")
  /\ kind' = [kind EXCEPT ![p] = IF flags[p].backend # Nothing THEN flags[p].backend ELSE marker]
  /\ flags' = [flags EXCEPT ![p] = NoFlags]
  /\ waits' = [waits EXCEPT ![p] = 0]
  /\ UNCHANGED <<location, workingCopy, made, claimed, within, making>>

NoAddress(p) ==
  /\ pc[p] = "address"
  /\ marker = Nothing
  /\ ~flags[p].create \/ flags[p].backend = Nothing
  /\ Ended(p)

(* The folder is missing, empty, or has no more than a sync that stopped     *)
(* before it saved a record left.                                            *)
AllowedFinished == LockFiles \cup {"record temporary", "ignore"}
Allowed == LockFiles \cup Temporaries \cup {"ignore"}
CanCreate == record = Nothing /\ folder \subseteq Allowed

CheckFolderOnce(p) ==
  /\ \/ Go(p, "check", "lock") /\ CanCreate
     \/ Go(p, "check again", "detect")
  /\ UNCHANGED <<location, workingCopy, own>>

CheckFolder(p) ==
  /\ CanCreate
  /\ \/ Go(p, "check", "lock")
     \/ Go(p, "check again", "detect")
  /\ UNCHANGED <<location, workingCopy, own>>

CannotCreate(p) == pc[p] \in {"check", "check again"} /\ ~CanCreate /\ Ended(p)

(* Step `from` of saving the new record: the folder then has these entries. *)
Saving(p, from, to, entries) ==
  /\ Go(p, from, to)
  /\ folder' = entries
  /\ making' = IF to = "use" THEN making \ {p} ELSE making
  /\ UNCHANGED <<location, syncing, kind, flags, waits, made, claimed, within>>

LockRecord(p) == Saving(p, "lock record", "ignore", folder \cup {"lock"}) /\ UNCHANGED record

SaveIgnore(p) ==
  /\ IF "ignore" \in folder
       THEN Saving(p, "ignore", "record", folder)
       ELSE Saving(p, "ignore", "rename ignore", folder \cup {"ignore temporary"})
  /\ UNCHANGED record

RenameIgnore(p) ==
  /\ Saving(p, "rename ignore", "record", (folder \ {"ignore temporary"}) \cup {"ignore"})
  /\ UNCHANGED record

SaveRecord(p) ==
  Saving(p, "record", "rename record", folder \cup {"record temporary"}) /\ UNCHANGED record

RenameRecord(p) ==
  /\ Saving(p, "rename record", "use", folder \ {"record temporary"})
  /\ record' = kind[p]

-----------------------------------------------------------------------------
(* What happens to them.                                                     *)

(* A process stops or dies; any step of it that fails ends it too. *)
Stop(p) == pc[p] # "start" /\ Ended(p)

(* Someone removes the Location. *)
Remove ==
  /\ tidings
  /\ removals < MaxRemovals
  /\ removals' = removals + 1
  /\ tidings' = FALSE
  /\ marker' = Nothing
  /\ UNCHANGED <<workingCopy, pc, own>>

(* Someone removes a marker that stayed empty, as the error says to, while   *)
(* no Store is being opened.                                                 *)
ClearMarker ==
  /\ marker = "empty"
  /\ \A p \in Processes : pc[p] \notin Claiming
  /\ marker' = Nothing
  /\ UNCHANGED <<tidings, removals, workingCopy, pc, own>>

ClaimSteps(p) ==
  \/ \E from \in {"detect", "read marker", "find", "address"} :
       WaitForMarker(p, from) \/ EmptyMarker(p, from)
  \/ Detect(p) \/ WrongBackend(p) \/ MakeDirectory(p)
  \/ MakeMarker(p) \/ MarkerExists(p) \/ MakeMarkerFails(p)
  \/ WriteMarker(p) \/ ReadMarker(p)
  \/ Open(p) \/ ClaimMissing(p) \/ NoDatabase(p) \/ ClaimAgain(p)

SyncSteps(p) ==
  \/ \E create \in BOOLEAN, backend \in Kinds \cup {Nothing} : StartSync(p, create, backend)
  \/ TakeSyncLock(p, "resume", "match")
  \/ TakeSyncLock(p, "lock", "check again")
  \/ SyncLockHeld(p)
  \/ MatchFlags(p) \/ MismatchedFlags(p) \/ FindStore(p) \/ StoreMissing(p)
  \/ Address(p) \/ NoAddress(p) \/ CheckFolder(p) \/ CannotCreate(p)
  \/ LockRecord(p) \/ SaveIgnore(p) \/ RenameIgnore(p) \/ SaveRecord(p) \/ RenameRecord(p)

Next ==
  \/ \E p \in Processes : ClaimSteps(p) \/ Stop(p)
  \/ \E p \in Openers, k \in Kinds : StartOpening(p, k)
  \/ \E p \in Openers : LockAgain(p)
  \/ \E p \in Syncs : SyncSteps(p)
  \/ Remove
  \/ ClearMarker

Spec == Init /\ [][Next]_vars

-----------------------------------------------------------------------------
(* The Stores past their claim of the Location. *)
Claimants == {p \in Processes : claimed[p] # Nothing}

(* However many processes open an unmarked Location at once, and wherever    *)
(* they die, those that get it have it on one Backend, the one its marker    *)
(* names for as long as it is there.                                         *)
OneBackend ==
  \A p, q \in Claimants :
    /\ claimed[p] = claimed[q] => kind[p] = kind[q]
    /\ claimed[p] = removals => marker = kind[p]

(* A sync that raced to make the folder a Working copy never replaces the    *)
(* record another saved, which names the Store the files there came from;    *)
(* and it saves one only with that Store made, on the Backend it names, so   *)
(* that they part only when the Location is removed.                         *)
RecordStays ==
  [][record' # record => record = Nothing /\ (removals = 0 => marker = record')]_vars

(* Wherever a sync stops while it makes a Working copy, the folder can still *)
(* be made one.                                                              *)
CanBeMadeAgain == record = Nothing => CanCreate

-----------------------------------------------------------------------------
(* The inductive invariant behind TypeOK, OneBackend, RecordStays and        *)
(* CanBeMadeAgain.                                                           *)

Early     == {"address", "check", "lock"}
Recording == {"lock record", "ignore", "rename ignore", "record", "rename record"}

(* Every process past choosing a Backend knows which it opens the Store on.  *)
KnowsBackend ==
  \A p \in Processes : pc[p] \notin {"start", "address"} => kind[p] \in Kinds

(* A claim is of a Location there was, and is given up to claim another.     *)
KeepsClaim ==
  \A p \in Processes :
    claimed[p] # Nothing =>
      claimed[p] \in 0 .. removals /\ pc[p] \in {"open", "use"} \cup Recording

(* A marker that was made and not written is one process's to write, in a    *)
(* Location nobody has claimed.                                              *)
WritesOwnMarker ==
  \A p \in Processes :
    pc[p] = "write marker" =>
      /\ made[p] \in 0 .. removals
      /\ made[p] = removals => marker = "empty"
      /\ \A q \in Processes :
           /\ claimed[q] # made[p]
           /\ pc[q] = "write marker" /\ made[q] = made[p] => q = p

(* Until the Location is removed, nobody takes it for theirs with no marker. *)
FindsMarker ==
  removals = 0 =>
    \A p \in Processes :
      /\ pc[p] = "read marker" => marker # Nothing
      /\ pc[p] \in {"open"} \cup Recording => claimed[p] # Nothing

(* One sync at a time makes the Working copy, and there is no record till it *)
(* saves one.                                                                *)
OneMakes ==
  /\ \A p \in making :
       /\ pc[p] \in Early \cup {"check again", "open"} \cup Claiming \cup Recording
       /\ pc[p] \notin Early => syncing = p
       /\ pc[p] \notin Early \cup {"check again"} => record = Nothing
  /\ \A p \in Processes : pc[p] \in Early \cup {"check again"} \cup Recording => p \in making

IInv ==
  /\ TypeOK
  /\ KnowsBackend
  /\ KeepsClaim
  /\ WritesOwnMarker
  /\ OneBackend
  /\ FindsMarker
  /\ OneMakes

=============================================================================
