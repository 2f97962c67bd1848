------------------------------- MODULE Watcher --------------------------------
(***************************************************************************)
(* The watcher of a Store's Location (backend/fs/watch.rs): events say     *)
(* which names something happened to, the watcher reads what they name     *)
(* without the Store's turn with Commits, and then, holding the turn,      *)
(* compares it with what the Change feed was last told (`Reported`).       *)
(*                                                                         *)
(* Every Path is in one directory, Dir, which can be moved away and in     *)
(* again with all its Files; then Dir's own event is all there is.  The    *)
(* app reads a File as soon as it is told of it.                           *)
(***************************************************************************)
EXTENDS Naturals, FiniteSets

CONSTANTS
  Paths,
  Dir,         \* the directory they are in
  Contents,
  Absent,      \* there is no File
  Unknown,     \* there is one, and its Revision isn't known
  MaxEdits,    \* how many times other programs change something
  MaxCommits,  \* how many Commits the Store makes
  MaxLosses,   \* how many times watching loses track, or the Location is removed
  MaxErrors,   \* how many times reading, listing or watching gives an error
  Swaps        \* whether a directory can be put in the place of another at once

States  == Contents \cup {Absent}
NotSeen == "notSeen"

ASSUME WatcherAssumption ==
  /\ {MaxEdits, MaxCommits, MaxLosses, MaxErrors} \subseteq Nat
  /\ Swaps \in BOOLEAN
  /\ Dir \notin Paths /\ Absent # Unknown /\ {Absent, Unknown} \cap Contents = {}
  /\ NotSeen \notin States \cup {Unknown}

VARIABLES
  disk,       \* the Files, as reads through tidings see them
  events,     \* the names events have come for, which the watcher hasn't taken
  lost,       \* watching lost track of events, gave an error, or the Location was removed
  watching,   \* whether the Location is watched; if it isn't, it is tried again
  reported,   \* what the Change feed was told of each File (Reported::files)
  noted,      \* the Paths the Store's Commits changed while the watcher reads
  committing, \* the Commit that is on disk and not reported yet: what it changed
  step,       \* where the watcher is
  names,      \* the names it looks at
  toRead,     \* the Paths it has still to read
  seen,       \* what it saw of those it has read
  listed,     \* whether it lists the whole Location, as Changes may have been missed
  app,        \* what the app read of each File when it was last told of it
  theirs,     \* the Paths others changed since the app was told of them
  edited,     \* the Paths others ever changed
  forgotten,  \* the Paths whose Files were forgotten when an error cleared `reported`
  counts      \* how often each bounded thing has happened

vars == <<disk, events, lost, watching, reported, noted, committing, step, names, toRead,
          seen, listed, app, theirs, edited, forgotten, counts>>
watcher == <<step, names, toRead, seen, listed>>
feed    == <<app, theirs, edited, forgotten>>

NoCommit == [p \in {} |-> Absent]
Names == Paths \cup {Dir}

Count(what, max) == counts[what] < max /\ counts' = [counts EXCEPT ![what] = @ + 1]

-----------------------------------------------------------------------------
(* What happens in the Location.                                           *)

(* Events come for names in the Location while it is watched.              *)
Happened(ns) == events' = IF watching THEN events \cup ns ELSE events

ByOthers(ps) == theirs' = theirs \cup ps /\ edited' = edited \cup ps

Edit(p, v) ==
  /\ v # disk[p]
  /\ Count("edits", MaxEdits)
  /\ disk' = [disk EXCEPT ![p] = v]
  /\ ByOthers({p})
  /\ Happened({p})
  /\ UNCHANGED <<lost, watching, reported, noted, committing, watcher, app, forgotten>>

(* The directory is moved away, or one is moved in.  Unless Swaps, none is moved *)
(* in while the watcher has yet to see that the one before was moved away.       *)
MoveDirectory(f) ==
  /\ Count("edits", MaxEdits)
  /\ f # disk
  /\ \/ \A p \in Paths : f[p] = Absent
     \/ /\ \A p \in Paths : disk[p] = Absent
        /\ Swaps \/ (Dir \notin events /\ step = "idle")
  /\ disk' = f
  /\ ByOthers({p \in Paths : f[p] # disk[p]})
  /\ Happened({Dir})
  /\ UNCHANGED <<lost, watching, reported, noted, committing, watcher, app, forgotten>>

(* Some events are dropped.                                                *)
DropEvents == \E left \in SUBSET events : events' = left

(* The platform's watcher fails, or loses track of events.                 *)
LoseTrack ==
  /\ watching /\ Count("losses", MaxLosses)
  /\ lost' = TRUE
  /\ DropEvents
  /\ UNCHANGED <<disk, watching, reported, noted, committing, watcher, feed>>

(* The Location is removed, with every File in it and the watches of it.     *)
RemoveLocation ==
  /\ watching /\ Count("losses", MaxLosses)
  /\ lost' = TRUE
  /\ watching' = FALSE
  /\ disk' = [p \in Paths |-> Absent]
  /\ ByOthers({p \in Paths : disk[p] # Absent})
  /\ UNCHANGED <<events, reported, noted, committing, watcher, app, forgotten>>

-----------------------------------------------------------------------------
(* The Store's own Commits (FsBackend::commit).  From here on a Commit holds *)
(* the Store's turn, which the watcher needs to conclude.                    *)

ApplyCommit(f) ==
  /\ committing = NoCommit
  /\ Count("commits", MaxCommits)
  /\ f # disk
  /\ disk' = f
  /\ committing' = [p \in {q \in Paths : f[q] # disk[q]} |-> f[p]]
  /\ Happened(DOMAIN committing')
  /\ UNCHANGED <<lost, watching, reported, noted, watcher, feed>>

(* What it changed is taken as reported (Reported::committed), and noted if   *)
(* the watcher is reading; and it is recorded on the feed, which the app reads.*)
ReportCommit ==
  /\ committing # NoCommit
  /\ LET changed == DOMAIN committing IN
       /\ reported' = [p \in Paths |-> IF p \in changed THEN committing[p] ELSE reported[p]]
       /\ noted' = IF step = "idle" THEN noted ELSE noted \cup changed
       /\ app' = [p \in Paths |-> IF p \in changed THEN disk[p] ELSE app[p]]
       /\ forgotten' = forgotten \ changed
  /\ committing' = NoCommit
  /\ UNCHANGED <<disk, events, lost, watching, watcher, theirs, edited, counts>>

-----------------------------------------------------------------------------
(* Looking at a burst, without the turn (Watched::read).                   *)

Look(ns, whole, paths) ==
  /\ step' = "reading"
  /\ names' = ns
  /\ listed' = whole
  /\ toRead' = paths
  /\ seen' = [p \in Paths |-> NotSeen]

(* Events for some names have settled: it reads those, and everything under  *)
(* a directory.                                                              *)
ReadNames(ns) ==
  /\ step = "idle" /\ ~lost
  /\ ns # {} /\ ns \subseteq events
  /\ events' = events \ ns
  /\ noted' = {}
  /\ Look(ns, FALSE, IF Dir \in ns THEN Paths ELSE ns)
  /\ UNCHANGED <<disk, lost, watching, reported, committing, feed, counts>>

WatchIfLost == lost

(* It lost track, or it is time to try again to watch the Location.           *)
MustWatch == lost \/ ~watching

(* It is watched again from the top, and listed.                              *)
WatchAgain ==
  /\ step = "idle" /\ MustWatch /\ DropEvents
  /\ watching' = TRUE
  /\ lost' = FALSE
  /\ noted' = {}
  /\ Look({}, TRUE, Paths)
  /\ UNCHANGED <<disk, reported, committing, feed, counts>>

(* Watching it fails, and will be tried again.  If it was lost just now, it   *)
(* is listed all the same; if not, nothing is looked at.                      *)
WatchAgainFails ==
  /\ step = "idle" /\ MustWatch /\ DropEvents
  /\ Count("errors", MaxErrors)
  /\ watching' = FALSE
  /\ lost' = FALSE
  /\ IF lost
       THEN noted' = {} /\ Look({}, TRUE, Paths)
       ELSE UNCHANGED <<noted, watcher>>
  /\ UNCHANGED <<disk, reported, committing, feed>>

(* One File is read (read_name).  Under a directory, one reported already     *)
(* isn't read.  In a listing, none is read.                                   *)
ReadFile(p) ==
  /\ step = "reading" /\ p \in toRead
  /\ toRead' = toRead \ {p}
  /\ seen' = [seen EXCEPT ![p] =
       IF p \in names THEN disk[p]
       ELSE IF disk[p] = Absent THEN NotSeen
       ELSE IF listed \/ reported[p] # Absent THEN Unknown
       ELSE disk[p]]
  /\ UNCHANGED <<disk, events, lost, watching, reported, noted, committing, step, names, listed,
                 feed, counts>>

(* Reading a File fails: the Location is listed instead.                      *)
ReadFails ==
  /\ step = "reading" /\ ~listed /\ toRead # {}
  /\ Count("errors", MaxErrors)
  /\ Look({}, TRUE, Paths)
  /\ UNCHANGED <<disk, events, lost, watching, reported, noted, committing, feed>>

(* So does listing it.                                                     *)
ListFails ==
  /\ step = "reading" /\ listed
  /\ Count("errors", MaxErrors)
  /\ step' = "failed"
  /\ UNCHANGED <<disk, events, lost, watching, reported, noted, committing, names, toRead, seen,
                 listed, feed>>

-----------------------------------------------------------------------------
(* Concluding, with the turn (Watched::conclude).                          *)

Turn == committing = NoCommit

(* The Paths it looked at (ReadFiles::covers).                             *)
Covered == IF listed \/ Dir \in names THEN Paths ELSE names

ReadNothingAgain == {}

(* What the Store's Commits changed meanwhile is read again.               *)
Again == noted \cap Covered
Seen(p) == IF p \in Again THEN disk[p] ELSE seen[p]

GoneUnseen(p) == Seen(p) = Absent

(* A File that was reported isn't there: nothing was found where it was.    *)
Gone(p) == Seen(p) = Absent \/ (Seen(p) = NotSeen /\ Dir \in names)

(* The Paths whose Files aren't as they were reported (Reported::catch_up). *)
Differ == {p \in Paths : \/ Seen(p) \in Contents /\ reported[p] # Seen(p)
                         \/ Gone(p) /\ reported[p] # Absent}

(* The app reads the Paths it is told of.                                  *)
TellOf(ps) ==
  /\ app' = [p \in Paths |-> IF p \in ps THEN disk[p] ELSE app[p]]
  /\ theirs' = theirs \ ps

Idle ==
  /\ step' = "idle"
  /\ names' = {} /\ toRead' = {} /\ listed' = FALSE /\ noted' = {}
  /\ seen' = [p \in Paths |-> NotSeen]
  /\ UNCHANGED <<disk, events, lost, watching, committing, edited>>

(* The difference is taken as reported, and told as external Changes.       *)
CatchUp ==
  /\ step = "reading" /\ toRead = {} /\ ~listed /\ Turn
  /\ reported' = [p \in Paths |-> IF p \notin Differ THEN reported[p]
                                  ELSE IF Gone(p) THEN Absent ELSE Seen(p)]
  /\ TellOf(Differ)
  /\ forgotten' = forgotten \ Differ
  /\ Idle
  /\ UNCHANGED counts

ListedAsSeen(p) == Seen(p)

(* A File that wasn't found isn't listed.                                   *)
Listed(p) == IF Seen(p) = NotSeen THEN Absent ELSE Seen(p)

(* The Files listed are taken as reported, and the app is told Changes were   *)
(* missed (Reported::replace).                                                *)
Replace ==
  /\ step = "reading" /\ toRead = {} /\ listed /\ Turn
  /\ reported' = [p \in Paths |-> Listed(p)]
  /\ TellOf(Paths)
  /\ forgotten' = {}
  /\ Idle
  /\ UNCHANGED counts

(* The Location couldn't be listed, or what was noted can't be read again:    *)
(* nothing is known any more.                                                 *)
Forget ==
  /\ Turn
  /\ \/ step = "failed" /\ UNCHANGED counts
     \/ step = "reading" /\ toRead = {} /\ Again # {} /\ Count("errors", MaxErrors)
  /\ reported' = [p \in Paths |-> Absent]
  /\ TellOf(Paths)
  /\ forgotten' = Paths
  /\ Idle

-----------------------------------------------------------------------------
(* FsWatcher::start lists the Location, and reads no File.  It may fail to    *)
(* watch it.                                                                 *)
Init ==
  /\ disk \in [Paths -> States]
  /\ events = {} /\ lost = FALSE /\ watching \in BOOLEAN
  /\ reported = [p \in Paths |-> IF disk[p] = Absent THEN Absent ELSE Unknown]
  /\ noted = {} /\ committing = NoCommit
  /\ step = "idle" /\ names = {} /\ toRead = {} /\ listed = FALSE
  /\ seen = [p \in Paths |-> NotSeen]
  /\ app = disk /\ theirs = {} /\ edited = {} /\ forgotten = {}
  /\ counts = [w \in {"edits", "commits", "losses", "errors"} |-> 0]

Environment ==
  \/ \E p \in Paths, v \in States : Edit(p, v)
  \/ \E f \in [Paths -> States] : MoveDirectory(f) \/ ApplyCommit(f)
  \/ LoseTrack \/ RemoveLocation

Watching ==
  \/ \E ns \in SUBSET Names : ReadNames(ns)
  \/ WatchAgain \/ WatchAgainFails
  \/ (\E p \in Paths : ReadFile(p)) \/ ReadFails \/ ListFails
  \/ CatchUp \/ Replace \/ Forget

Next == Environment \/ ReportCommit \/ Watching

Spec == Init /\ [][Next]_vars

-----------------------------------------------------------------------------
(* Properties.                                                             *)

Known == States \cup {Unknown}

(* The type of every variable; and the watcher has something it looks at, or  *)
(* is idle.                                                                   *)
TypeOK ==
  /\ disk \in [Paths -> States] /\ app \in [Paths -> States]
  /\ reported \in [Paths -> Known]
  /\ \E ps \in SUBSET Paths : committing \in [ps -> States]
  /\ events \subseteq Names /\ names \subseteq Names
  /\ noted \subseteq Paths /\ toRead \subseteq Paths
  /\ theirs \subseteq edited /\ edited \subseteq Paths /\ forgotten \subseteq Paths
  /\ {lost, watching, listed} \subseteq BOOLEAN
  /\ step \in {"idle", "reading", "failed"}
  /\ seen \in [Paths -> Known \cup {NotSeen}]
  /\ step = "idle" <=> names = {} /\ ~listed

(* Every event has been looked at, and nothing is under way.                  *)
Settled == events = {} /\ ~lost /\ watching /\ step = "idle" /\ committing = NoCommit

(* Once everything has settled, the feed was told of every File as it is: as   *)
(* the Revision last reported says, or, where none is known, as the app knows  *)
(* since nobody changed it (the module's doc, "What changed").  Files that     *)
(* were forgotten after an error are left out.                                 *)
SettledIsReported ==
  Settled => \A p \in Paths :
    \/ reported[p] = disk[p]
    \/ reported[p] = Unknown /\ disk[p] # Absent /\ p \notin theirs
    \/ p \in forgotten

(* The Store's own Commits are never told as external Changes (the module's    *)
(* doc: "every Change the watcher gives is external"): the watcher tells of a   *)
(* Path only if somebody else changed it, or its Revision isn't known, or it was *)
(* forgotten.                                                                  *)
OwnCommitsAreNotTheirs ==
  [][\A p \in Paths :
       step = "reading" /\ step' = "idle" /\ ~listed /\ reported'[p] # reported[p] =>
         p \in edited \cup forgotten \cup forgotten' \/ reported[p] = Unknown]_vars

(* The watcher comes to rest only once everything has settled: it never leaves *)
(* an event, a loss of track or a Location that isn't watched with nobody to     *)
(* look at it again, and it and a Commit never wait for each other.              *)
RestsWhenSettled == Settled \/ ENABLED (Watching \/ ReportCommit)

=============================================================================
