---------------------------- MODULE WatcherProofs ----------------------------
(***************************************************************************)
(* Proofs about Watcher, for any Paths and contents and however often      *)
(* other programs and the Store change them, watching loses track and      *)
(* reading fails: what others change is told, and the Store's own Commits  *)
(* aren't told as theirs.                                                  *)
(***************************************************************************)
EXTENDS Watcher, TLAPS

-----------------------------------------------------------------------------
(* The inductive invariant.                                                *)

InCommit(p) == p \in DOMAIN committing

(* What it looks at: it reads only what it covers, and has seen nothing of   *)
(* the rest.                                                                 *)
KnowsWhatItReads ==
  /\ listed => names = {}
  /\ step = "reading" => toRead \subseteq Covered /\ \A p \in Paths \ Covered : seen[p] = NotSeen

(* What was forgotten is reported again once something is known of it.      *)
ForgottenIsUnreported == \A p \in forgotten : reported[p] = Absent

(* What an event or a loss will have the watcher look at.                   *)
Lost == lost \/ ~watching
Moved(p) == Dir \in events /\ disk[p] = Absent

(* A Commit that isn't reported yet is looked at afterwards: what it changed *)
(* is noted while the watcher reads.                                         *)
CommitIsSeen ==
  \A p \in DOMAIN committing :
    \/ p \in events \/ Lost
    \/ step = "reading" /\ p \in Covered
    \/ step = "failed"

(* What was seen of a Path is right, unless it is looked at again.           *)
Right(p) ==
  IF p \in names THEN seen[p] = disk[p]
  ELSE IF disk[p] = Absent THEN seen[p] = NotSeen
  ELSE seen[p] = IF listed THEN Unknown ELSE disk[p]

Skipped(p) == p \notin names /\ ~listed /\ seen[p] = Unknown

SeenIsRight ==
  step = "reading" =>
    \A p \in Covered \ (toRead \cup noted \cup DOMAIN committing) :
      p \in events \/ Lost \/ Moved(p) \/ Right(p) \/ Skipped(p)

(* Each Path is as it was reported; or there is an event for it, or for the  *)
(* directory if that is enough to tell; or it is in a Commit to be reported; *)
(* or what the watcher reads will tell.                                      *)
AsReported(p) ==
  \/ reported[p] = disk[p]
  \/ reported[p] = Unknown /\ disk[p] # Absent /\ p \notin theirs
  \/ p \in forgotten

FoundByName(p)  == p \in names \/ listed
FoundInDir(p)   == disk[p] = Absent \/ reported[p] = Absent

ToBeLookedAt(p) == p \in events \/ Lost \/ (Dir \in events /\ FoundInDir(p))

LookedAt(p) ==
  \/ step = "failed"
  \/ /\ step = "reading" /\ p \in Covered
     /\ \/ p \in toRead /\ (FoundByName(p) \/ FoundInDir(p))
        \/ p \in noted
        \/ p \notin toRead /\ Right(p)

NothingIsMissed == \A p \in Paths : AsReported(p) \/ ToBeLookedAt(p) \/ InCommit(p) \/ LookedAt(p)

(* Of what nobody else ever changed, only the Store's Commits change what is *)
(* there, and what was seen.                                                 *)
OwnIsKnown ==
  \A p \in Paths \ edited :
    /\ InCommit(p) => committing[p] = disk[p]
    /\ ~InCommit(p) => reported[p] \in {disk[p], Unknown} \/ p \in forgotten
    /\ step = "reading" /\ p \in Covered /\ p \notin toRead /\ p \notin noted /\ ~InCommit(p) =>
         Right(p) \/ (Skipped(p) /\ disk[p] # Absent)

IInv ==
  /\ TypeOK
  /\ KnowsWhatItReads
  /\ ForgottenIsUnreported
  /\ CommitIsSeen
  /\ OwnIsKnown
  /\ ~Swaps => SeenIsRight /\ NothingIsMissed

-----------------------------------------------------------------------------
(* Values, and what a step can be.                                         *)

LEMMA ValuesAre ==
  /\ Absent \in States /\ Contents \subseteq States /\ States \subseteq Known
  /\ Unknown \in Known /\ Unknown \notin States /\ Unknown # Absent
  /\ NotSeen \notin Known /\ NotSeen # Absent /\ NotSeen # Unknown
  /\ \A v \in States : v = Absent \/ v \in Contents
BY WatcherAssumption DEF States, Known

LEMMA NoneInNoCommit == DOMAIN NoCommit = {}
BY DEF NoCommit

(* What happens to a Path that the watcher hasn't done.                    *)
ToldOf(p) ==
  \/ lost' \/ ~watching' \/ p \in events'
  \/ Dir \in events' /\ disk'[p] = Absent
  \/ step = "idle" /\ Dir \notin events /\ Dir \in events' /\ disk[p] = Absent

(* Others change the Files, or watching gets worse.                        *)
OthersStep ==
  /\ UNCHANGED <<reported, noted, committing, step, names, toRead, seen, listed, app, forgotten>>
  /\ disk' \in [Paths -> States]
  /\ edited \subseteq edited' /\ edited' \subseteq Paths /\ theirs' \subseteq edited'
  /\ events' \subseteq Names /\ lost' \in BOOLEAN /\ watching' \in BOOLEAN
  /\ lost' \/ ~watching' \/ (events \subseteq events' /\ lost' = lost /\ watching' = watching)
  /\ \A p \in Paths :
       \/ disk'[p] = disk[p] /\ (p \in theirs' <=> p \in theirs)
       \/ p \in edited' /\ (Swaps \/ ToldOf(p))

(* A Commit is on disk.                                                    *)
CommitStep ==
  /\ UNCHANGED <<lost, watching, reported, noted, step, names, toRead, seen, listed, app, theirs, edited, forgotten>>
  /\ disk' \in [Paths -> States]
  /\ DOMAIN committing = {} /\ DOMAIN committing' \subseteq Paths
  /\ \A p \in DOMAIN committing' : committing'[p] = disk'[p]
  /\ \A p \in Paths \ DOMAIN committing' : disk'[p] = disk[p]
  /\ \E ps \in SUBSET Paths : committing' \in [ps -> States]
  /\ events \subseteq events' /\ events' \subseteq Names /\ (watching => DOMAIN committing' \subseteq events')

(* It is reported.                                                         *)
ReportStep ==
  /\ UNCHANGED <<disk, events, lost, watching, step, names, toRead, seen, listed, theirs, edited>>
  /\ committing' = NoCommit
  /\ DOMAIN committing \subseteq Paths
  /\ \A p \in DOMAIN committing : reported'[p] = committing[p]
  /\ \A p \in Paths \ DOMAIN committing : reported'[p] = reported[p]
  /\ reported' \in [Paths -> Known] /\ app' \in [Paths -> States]
  /\ noted \subseteq noted' /\ noted' \subseteq Paths /\ (step # "idle" => DOMAIN committing \subseteq noted')
  /\ forgotten' = forgotten \ DOMAIN committing

(* It begins to list the Location.                                         *)
ListingStep ==
  /\ UNCHANGED <<disk, reported, committing, app, theirs, edited, forgotten>>
  /\ events' \subseteq Names /\ noted' \subseteq Paths /\ lost' \in BOOLEAN /\ watching' \in BOOLEAN
  /\ step' = "reading" /\ names' = {} /\ listed' = TRUE /\ toRead' = Paths
  /\ seen' = [p \in Paths |-> NotSeen]

(* It begins to read what events name.                                     *)
NamesStep ==
  \E ns \in SUBSET Names :
    /\ step = "idle" /\ step' = "reading" /\ ns # {}
    /\ events' = events \ ns /\ noted' = {}
    /\ names' = ns /\ listed' = FALSE /\ toRead' = IF Dir \in ns THEN Paths ELSE ns
    /\ seen' = [p \in Paths |-> NotSeen]
    /\ UNCHANGED <<disk, lost, watching, reported, committing, app, theirs, edited, forgotten>>

LEMMA OthersAre ==
  ASSUME TypeOK,
         \/ \E p \in Paths, v \in States : Edit(p, v)
         \/ \E f \in [Paths -> States] : MoveDirectory(f)
         \/ LoseTrack \/ RemoveLocation \/ UNCHANGED vars
         \/ WatchAgainFails /\ ~lost
  PROVE  OthersStep
<1>1. /\ disk \in [Paths -> States] /\ theirs \subseteq edited /\ edited \subseteq Paths
      /\ events \subseteq Names /\ lost \in BOOLEAN /\ watching \in BOOLEAN
  BY DEF TypeOK
<1>2. ASSUME NEW p \in Paths, NEW v \in States, Edit(p, v) PROVE OthersStep
  <2>1. /\ disk' = [disk EXCEPT ![p] = v] /\ theirs' = theirs \cup {p} /\ edited' = edited \cup {p}
        /\ events' = IF watching THEN events \cup {p} ELSE events
        /\ UNCHANGED <<lost, watching, reported, noted, committing, step, names, toRead, seen, listed, app, forgotten>>
    BY <1>2 DEF Edit, ByOthers, Happened, watcher
  <2>2. disk' \in [Paths -> States] /\ \A q \in Paths \ {p} : disk'[q] = disk[q]
    BY <1>1, <2>1
  <2>3. ToldOf(p)
    BY <1>1, <2>1 DEF ToldOf
  <2>4. \A q \in Paths \ {p} : q \in theirs' <=> q \in theirs
    BY <2>1
  <2>5. lost' \/ ~watching' \/ (events \subseteq events' /\ lost' = lost /\ watching' = watching)
    BY <2>1
  <2>6. events' \subseteq Names /\ edited' \subseteq Paths /\ theirs' \subseteq edited' /\ p \in edited' /\ edited \subseteq edited'
    BY <1>1, <2>1 DEF Names
  <2> QED
    BY <1>1, <2>1, <2>2, <2>3, <2>4, <2>5, <2>6 DEF OthersStep
<1>3. ASSUME NEW f \in [Paths -> States], MoveDirectory(f) PROVE OthersStep
  <2>1. /\ disk' = f /\ theirs' = theirs \cup {p \in Paths : f[p] # disk[p]}
        /\ edited' = edited \cup {p \in Paths : f[p] # disk[p]}
        /\ events' = IF watching THEN events \cup {Dir} ELSE events
        /\ UNCHANGED <<lost, watching, reported, noted, committing, step, names, toRead, seen, listed, app, forgotten>>
    BY <1>3 DEF MoveDirectory, ByOthers, Happened, watcher
  <2>2. \/ \A p \in Paths : f[p] = Absent
        \/ /\ \A p \in Paths : disk[p] = Absent
           /\ Swaps \/ (Dir \notin events /\ step = "idle")
    BY <1>3 DEF MoveDirectory
  <2>3. Swaps \/ \A p \in Paths : ToldOf(p)
    BY <1>1, <2>1, <2>2 DEF ToldOf
  <2>4. \A p \in Paths : disk'[p] = disk[p] => (p \in theirs' <=> p \in theirs)
    BY <2>1
  <2>5. \A p \in Paths : disk'[p] # disk[p] => p \in edited'
    BY <2>1
  <2>6. events' \subseteq Names /\ edited' \subseteq Paths /\ theirs' \subseteq edited' /\ edited \subseteq edited'
    BY <1>1, <2>1 DEF Names
  <2>7. lost' \/ ~watching' \/ (events \subseteq events' /\ lost' = lost /\ watching' = watching)
    BY <2>1
  <2> QED
    BY <1>1, <2>1, <2>3, <2>4, <2>5, <2>6, <2>7 DEF OthersStep
<1>4. CASE RemoveLocation
  <2>1. /\ disk' = [p \in Paths |-> Absent] /\ theirs' = theirs \cup {p \in Paths : disk[p] # Absent}
        /\ edited' = edited \cup {p \in Paths : disk[p] # Absent} /\ lost' = TRUE /\ watching' = FALSE
        /\ UNCHANGED <<events, reported, noted, committing, step, names, toRead, seen, listed, app, forgotten>>
    BY <1>4 DEF RemoveLocation, ByOthers, watcher
  <2>2. disk' \in [Paths -> States] /\ \A p \in Paths : ToldOf(p)
    BY <2>1, ValuesAre DEF ToldOf
  <2>3. \A p \in Paths : disk'[p] = disk[p] => (p \in theirs' <=> p \in theirs)
    BY <2>1
  <2>4. \A p \in Paths : disk'[p] # disk[p] => p \in edited'
    BY <2>1
  <2>5. edited' \subseteq Paths /\ theirs' \subseteq edited' /\ edited \subseteq edited'
    BY <1>1, <2>1
  <2> QED
    BY <1>1, <2>1, <2>2, <2>3, <2>4, <2>5 DEF OthersStep
<1>5. CASE LoseTrack
  BY <1>1, <1>5 DEF LoseTrack, DropEvents, watcher, feed, OthersStep
<1>6. CASE WatchAgainFails /\ ~lost
  BY <1>1, <1>6 DEF WatchAgainFails, DropEvents, watcher, feed, OthersStep
<1>7. CASE UNCHANGED vars
  BY <1>1, <1>7 DEF vars, OthersStep
<1> QED
  BY <1>2, <1>3, <1>4, <1>5, <1>6, <1>7

LEMMA CommitsAre ==
  ASSUME TypeOK, NEW f \in [Paths -> States], ApplyCommit(f)
  PROVE  CommitStep
<1> DEFINE changed == {q \in Paths : f[q] # disk[q]}
<1>1. /\ committing = NoCommit /\ disk' = f
      /\ committing' = [p \in changed |-> f[p]]
      /\ events' = IF watching THEN events \cup DOMAIN committing' ELSE events
      /\ UNCHANGED <<lost, watching, reported, noted, step, names, toRead, seen, listed, app, theirs, edited, forgotten>>
  BY DEF ApplyCommit, Happened, watcher, feed
<1>2. changed \subseteq Paths /\ \A p \in Paths \ changed : f[p] = disk[p]
  OBVIOUS
<1> HIDE DEF changed
<1>3. /\ DOMAIN committing' = changed /\ \A p \in changed : committing'[p] = f[p]
      /\ committing' \in [changed -> States]
  BY <1>1, <1>2
<1>4. events \subseteq events' /\ events' \subseteq Names /\ (watching => DOMAIN committing' \subseteq events')
  BY <1>1, <1>2, <1>3 DEF TypeOK, Names
<1>5. \E ps \in SUBSET Paths : committing' \in [ps -> States]
  BY <1>2, <1>3
<1> QED
  BY <1>1, <1>2, <1>3, <1>4, <1>5, NoneInNoCommit DEF CommitStep

LEMMA ReportsAre ==
  ASSUME TypeOK, ReportCommit
  PROVE  ReportStep
<1> DEFINE changed == DOMAIN committing
<1>1. /\ reported' = [p \in Paths |-> IF p \in changed THEN committing[p] ELSE reported[p]]
      /\ noted' = IF step = "idle" THEN noted ELSE noted \cup changed
      /\ app' = [p \in Paths |-> IF p \in changed THEN disk[p] ELSE app[p]]
      /\ forgotten' = forgotten \ changed /\ committing' = NoCommit
      /\ UNCHANGED <<disk, events, lost, watching, step, names, toRead, seen, listed, theirs, edited>>
  BY DEF ReportCommit, watcher
<1>2. changed \subseteq Paths /\ \A p \in changed : committing[p] \in States
  BY DEF TypeOK
<1>3. /\ reported \in [Paths -> Known] /\ disk \in [Paths -> States] /\ app \in [Paths -> States]
      /\ noted \subseteq Paths
  BY DEF TypeOK
<1> HIDE DEF changed
<1>4. reported' \in [Paths -> Known] /\ app' \in [Paths -> States]
  BY <1>1, <1>2, <1>3, ValuesAre
<1>5. /\ \A p \in changed : reported'[p] = committing[p]
      /\ \A p \in Paths \ changed : reported'[p] = reported[p]
  BY <1>1, <1>2
<1>6. noted \subseteq noted' /\ noted' \subseteq Paths /\ (step # "idle" => changed \subseteq noted')
  BY <1>1, <1>2, <1>3
<1> QED
  BY <1>1, <1>2, <1>4, <1>5, <1>6 DEF ReportStep, changed

LEMMA ListingsAre ==
  ASSUME TypeOK, WatchAgain \/ (WatchAgainFails /\ lost) \/ ReadFails
  PROVE  ListingStep
<1>1. events \subseteq Names /\ noted \subseteq Paths /\ lost \in BOOLEAN /\ watching \in BOOLEAN
  BY DEF TypeOK
<1>2. CASE WatchAgain
  BY <1>1, <1>2 DEF WatchAgain, DropEvents, Look, feed, ListingStep
<1>3. CASE WatchAgainFails /\ lost
  BY <1>1, <1>3 DEF WatchAgainFails, DropEvents, Look, feed, ListingStep
<1>4. CASE ReadFails
  BY <1>1, <1>4 DEF ReadFails, Look, feed, ListingStep
<1> QED
  BY <1>2, <1>3, <1>4

LEMMA NamesAre ==
  ASSUME NEW ns \in SUBSET Names, ReadNames(ns)
  PROVE  NamesStep
BY DEF ReadNames, Look, feed, NamesStep

LEMMA StepsAre ==
  ASSUME TypeOK, [Next]_vars
  PROVE  \/ OthersStep \/ CommitStep \/ ReportStep \/ ListingStep \/ NamesStep
         \/ (\E p \in Paths : ReadFile(p)) \/ ListFails
         \/ CatchUp \/ Replace \/ Forget
<1>1. CASE Environment
  BY <1>1, OthersAre, CommitsAre DEF Environment
<1>2. CASE ReportCommit
  BY <1>2, ReportsAre
<1>3. CASE Watching
  <2>1. CASE WatchAgainFails
    BY <2>1, OthersAre, ListingsAre
  <2> QED
    BY <1>3, <2>1, ListingsAre, NamesAre DEF Watching
<1>4. CASE UNCHANGED vars
  BY <1>4, OthersAre
<1> QED
  BY <1>1, <1>2, <1>3, <1>4 DEF Next

-----------------------------------------------------------------------------
(* What it comes to when the watcher concludes.                            *)

AsItWas(p) ==
  /\ reported'[p] = reported[p]
  /\ p \in theirs' <=> p \in theirs
  /\ p \in forgotten' <=> p \in forgotten

(* Each File is as reported, or an event or loss is still to be looked at,   *)
(* or nothing was found out about it.  What nobody else changed isn't told   *)
(* as different from what is there.                                        *)
ConcludeStep ==
  /\ UNCHANGED <<disk, events, lost, watching, committing, edited>>
  /\ DOMAIN committing = {}
  /\ step' = "idle" /\ names' = {} /\ toRead' = {} /\ listed' = FALSE /\ noted' = {}
  /\ seen' = [p \in Paths |-> NotSeen]
  /\ reported' \in [Paths -> Known] /\ app' \in [Paths -> States]
  /\ theirs' \subseteq theirs /\ forgotten' \subseteq Paths
  /\ \A p \in forgotten' : reported'[p] = Absent
  /\ ~Swaps => \A p \in Paths :
       \/ AsReported(p)'
       \/ p \in events \/ Lost \/ Moved(p)
       \/ AsItWas(p) /\ ~LookedAt(p)
  /\ \A p \in Paths \ edited : reported'[p] \in {disk[p], Unknown} \/ p \in forgotten'
  /\ ~listed => \A p \in Paths : reported'[p] = reported[p] \/ reported'[p] # Unknown \/ p \in forgotten'

LEMMA IdleIs ==
  ASSUME Turn, Idle
  PROVE  /\ UNCHANGED <<disk, events, lost, watching, committing, edited>>
         /\ DOMAIN committing = {}
         /\ step' = "idle" /\ names' = {} /\ toRead' = {} /\ listed' = FALSE /\ noted' = {}
         /\ seen' = [p \in Paths |-> NotSeen]
BY NoneInNoCommit DEF Turn, Idle

LEMMA TellIs ==
  ASSUME TypeOK, NEW ps, TellOf(ps)
  PROVE  app' \in [Paths -> States] /\ theirs' = theirs \ ps
BY DEF TellOf, TypeOK

LEMMA SeenIs ==
  ASSUME NEW p \in Paths
  PROVE  /\ p \in Covered /\ p \in noted => Seen(p) = disk[p]
         /\ p \notin Covered \/ p \notin noted => Seen(p) = seen[p]
BY DEF Seen, Again

LEMMA CatchUpIs ==
  ASSUME TypeOK, KnowsWhatItReads, ForgottenIsUnreported, CatchUp
  PROVE  /\ reported' \in [Paths -> Known] /\ app' \in [Paths -> States]
         /\ theirs' = theirs \ Differ /\ forgotten' = forgotten \ Differ
         /\ \A p \in Paths \ Differ : reported'[p] = reported[p]
         /\ \A p \in Paths : p \in noted \cap Covered => reported'[p] = disk[p]
         /\ \A p \in Paths : p \in Covered \ noted /\ Right(p) => reported'[p] = disk[p]
         /\ \A p \in Paths : p \notin Covered => p \notin Differ
         /\ \A p \in Paths : p \notin noted /\ Skipped(p) => p \notin Differ
         /\ \A p \in Differ : reported'[p] # Unknown
<1>1. /\ step = "reading" /\ toRead = {} /\ ~listed
      /\ reported' = [p \in Paths |-> IF p \notin Differ THEN reported[p]
                                      ELSE IF Gone(p) THEN Absent ELSE Seen(p)]
      /\ TellOf(Differ) /\ forgotten' = forgotten \ Differ
  BY DEF CatchUp
<1>2. app' \in [Paths -> States] /\ theirs' = theirs \ Differ
  BY <1>1, TellIs
<1>3. /\ disk \in [Paths -> States] /\ reported \in [Paths -> Known]
      /\ seen \in [Paths -> Known \cup {NotSeen}]
  BY DEF TypeOK
<1>4. \A p \in Differ : p \in Paths /\ (Gone(p) \/ (Seen(p) \in Contents /\ ~Gone(p)))
  BY DEF Differ
<1>5. \A p \in Paths : /\ p \notin Differ => reported'[p] = reported[p]
                       /\ p \in Differ /\ Gone(p) => reported'[p] = Absent
                       /\ p \in Differ /\ ~Gone(p) => reported'[p] = Seen(p)
  BY <1>1
<1>6. reported' \in [Paths -> Known]
  <2>1. \A p \in Paths : (IF p \notin Differ THEN reported[p] ELSE IF Gone(p) THEN Absent ELSE Seen(p)) \in Known
    BY <1>3, <1>4, ValuesAre
  <2> QED
    BY <1>1, <2>1
<1>7. \A p \in Differ : reported'[p] # Unknown
  BY <1>4, <1>5, ValuesAre
<1>8. ASSUME NEW p \in Paths
      PROVE  /\ Seen(p) = disk[p] => reported'[p] = disk[p]
             /\ Seen(p) = Unknown => p \notin Differ
             /\ Seen(p) = NotSeen /\ Dir \in names => reported'[p] = Absent
             /\ Seen(p) = NotSeen /\ Dir \notin names => p \notin Differ
  <2>1. disk[p] \in States
    BY <1>3
  <2>2. /\ p \in Differ <=> (Seen(p) \in Contents /\ reported[p] # Seen(p)) \/ (Gone(p) /\ reported[p] # Absent)
        /\ Gone(p) <=> Seen(p) = Absent \/ (Seen(p) = NotSeen /\ Dir \in names)
    BY DEF Differ, Gone
  <2>3. NotSeen \notin Contents /\ Unknown \notin Contents
    BY ValuesAre
  <2>4. Seen(p) = disk[p] => reported'[p] = disk[p]
    <3>1. CASE disk[p] = Absent
      BY <1>5, <2>2, <3>1, ValuesAre
    <3>2. CASE disk[p] # Absent
      <4>1. disk[p] \in Contents /\ disk[p] # NotSeen
        BY <2>1, <3>2, ValuesAre
      <4> QED
        BY <1>5, <2>2, <3>2, <4>1
    <3> QED
      BY <3>1, <3>2
  <2> QED
    BY <1>5, <2>2, <2>3, <2>4, ValuesAre
<1>9. ASSUME NEW p \in Paths, p \in noted \cap Covered PROVE reported'[p] = disk[p]
  BY <1>8, <1>9, SeenIs
<1>10. ASSUME NEW p \in Paths, p \in Covered \ noted, Right(p) PROVE reported'[p] = disk[p]
  <2>1. Seen(p) = seen[p]
    BY <1>10, SeenIs
  <2>2. CASE p \in names \/ disk[p] # Absent
    BY <1>1, <1>8, <1>10, <2>1, <2>2 DEF Right
  <2>3. CASE p \notin names /\ disk[p] = Absent
    <3>1. Dir \in names
      BY <1>1, <1>10, <2>3 DEF Covered
    <3> QED
      BY <1>8, <1>10, <2>1, <2>3, <3>1 DEF Right
  <2> QED
    BY <2>2, <2>3
<1>11. ASSUME NEW p \in Paths, p \notin Covered PROVE p \notin Differ
  <2>1. seen[p] = NotSeen
    BY <1>1, <1>11 DEF KnowsWhatItReads
  <2>2. Dir \notin names
    BY <1>11 DEF Covered
  <2> QED
    BY <1>8, <1>11, <2>1, <2>2, SeenIs
<1>12. ASSUME NEW p \in Paths, p \notin noted, Skipped(p) PROVE p \notin Differ
  BY <1>8, <1>12, SeenIs DEF Skipped
<1> QED
  BY <1>1, <1>2, <1>5, <1>6, <1>7, <1>9, <1>10, <1>11, <1>12

LEMMA ReplaceIs ==
  ASSUME TypeOK, KnowsWhatItReads, Replace
  PROVE  /\ reported' \in [Paths -> Known] /\ app' \in [Paths -> States]
         /\ theirs' = theirs \ Paths /\ forgotten' = {} /\ Covered = Paths /\ names = {}
         /\ \A p \in Paths : p \in noted => reported'[p] = disk[p]
         /\ \A p \in Paths : p \notin noted /\ Right(p) =>
              reported'[p] = IF disk[p] = Absent THEN Absent ELSE Unknown
<1>1. /\ step = "reading" /\ toRead = {} /\ listed
      /\ reported' = [p \in Paths |-> Listed(p)]
      /\ TellOf(Paths) /\ forgotten' = {}
  BY DEF Replace
<1>2. app' \in [Paths -> States] /\ theirs' = theirs \ Paths
  BY <1>1, TellIs
<1>3. /\ disk \in [Paths -> States] /\ seen \in [Paths -> Known \cup {NotSeen}]
  BY DEF TypeOK
<1>4. Covered = Paths /\ names = {}
  BY <1>1 DEF Covered, KnowsWhatItReads
<1>5. \A p \in Paths : Seen(p) \in Known \cup {NotSeen}
  BY <1>3, SeenIs, ValuesAre
<1>6. \A p \in Paths : Listed(p) \in Known
  BY <1>5, ValuesAre DEF Listed
<1>7. reported' \in [Paths -> Known] /\ \A p \in Paths : reported'[p] = Listed(p)
  BY <1>1, <1>6
<1>8. ASSUME NEW p \in Paths, p \in noted PROVE reported'[p] = disk[p]
  <2>1. Seen(p) = disk[p] /\ disk[p] # NotSeen
    BY <1>3, <1>4, <1>8, SeenIs, ValuesAre
  <2> QED
    BY <1>7, <2>1 DEF Listed
<1>9. ASSUME NEW p \in Paths, p \notin noted, Right(p)
      PROVE  reported'[p] = IF disk[p] = Absent THEN Absent ELSE Unknown
  <2>1. Seen(p) = seen[p] /\ seen[p] = IF disk[p] = Absent THEN NotSeen ELSE Unknown
    BY <1>1, <1>4, <1>9, SeenIs DEF Right
  <2> QED
    BY <1>7, <2>1, ValuesAre DEF Listed
<1> QED
  BY <1>1, <1>2, <1>4, <1>7, <1>8, <1>9

LEMMA CatchUpConcludes ==
  ASSUME TypeOK, KnowsWhatItReads, ForgottenIsUnreported, ~Swaps => SeenIsRight, OwnIsKnown, CatchUp
  PROVE  ConcludeStep
<1>1. /\ step = "reading" /\ toRead = {} /\ ~listed /\ Turn /\ Idle
  BY DEF CatchUp
<1>2. /\ UNCHANGED <<disk, events, lost, watching, committing, edited>>
      /\ DOMAIN committing = {}
      /\ step' = "idle" /\ names' = {} /\ toRead' = {} /\ listed' = FALSE /\ noted' = {}
      /\ seen' = [p \in Paths |-> NotSeen]
  BY <1>1, IdleIs
<1>3. /\ reported' \in [Paths -> Known] /\ app' \in [Paths -> States]
      /\ theirs' = theirs \ Differ /\ forgotten' = forgotten \ Differ
      /\ \A p \in Paths \ Differ : reported'[p] = reported[p]
      /\ \A p \in Paths : p \in noted \cap Covered => reported'[p] = disk[p]
      /\ \A p \in Paths : p \in Covered \ noted /\ Right(p) => reported'[p] = disk[p]
      /\ \A p \in Paths : p \notin Covered => p \notin Differ
      /\ \A p \in Paths : p \notin noted /\ Skipped(p) => p \notin Differ
      /\ \A p \in Differ : reported'[p] # Unknown
  BY CatchUpIs
<1>4. forgotten \subseteq Paths
  BY DEF TypeOK
<1>5. \A p \in forgotten' : reported'[p] = Absent
  BY <1>3, <1>4 DEF ForgottenIsUnreported
<1>6. \A p \in Paths \ Differ : AsItWas(p)
  BY <1>3 DEF AsItWas
<1>7. \A p \in Paths : reported'[p] = disk[p] => AsReported(p)'
  BY <1>2 DEF AsReported
<1>8. ASSUME ~Swaps, NEW p \in Paths
      PROVE  \/ AsReported(p)'
             \/ p \in events \/ Lost \/ Moved(p)
             \/ AsItWas(p) /\ ~LookedAt(p)
  <2>1. CASE p \notin Covered
    BY <1>1, <1>3, <1>6, <2>1 DEF LookedAt
  <2>2. CASE p \in Covered /\ p \in noted
    BY <1>3, <1>7, <2>2
  <2>3. CASE p \in Covered /\ p \notin noted /\ Right(p)
    BY <1>3, <1>7, <2>3
  <2>4. CASE p \in Covered /\ p \notin noted /\ Skipped(p) /\ ~Right(p)
    BY <1>1, <1>3, <1>6, <2>4 DEF LookedAt
  <2> QED
    BY <1>1, <1>2, <1>8, <2>1, <2>2, <2>3, <2>4 DEF SeenIsRight
<1>9. ASSUME NEW p \in Paths \ edited PROVE reported'[p] \in {disk[p], Unknown} \/ p \in forgotten'
  <2>1. p \notin Differ => reported'[p] \in {disk[p], Unknown} \/ p \in forgotten'
    BY <1>2, <1>3, <1>9 DEF OwnIsKnown, InCommit
  <2>2. p \in Covered /\ p \notin noted => Right(p) \/ Skipped(p)
    BY <1>1, <1>2, <1>9 DEF OwnIsKnown, InCommit
  <2> QED
    BY <1>3, <2>1, <2>2
<1>10. \A p \in Paths : reported'[p] = reported[p] \/ reported'[p] # Unknown
  BY <1>3
<1>11. theirs' \subseteq theirs /\ forgotten' \subseteq Paths
  BY <1>3, <1>4
<1> QED
  BY <1>2, <1>3, <1>5, <1>8, <1>9, <1>10, <1>11 DEF ConcludeStep

LEMMA ReplaceConcludes ==
  ASSUME TypeOK, KnowsWhatItReads, ~Swaps => SeenIsRight, OwnIsKnown, Replace
  PROVE  ConcludeStep
<1>1. /\ step = "reading" /\ toRead = {} /\ listed /\ Turn /\ Idle
  BY DEF Replace
<1>2. /\ UNCHANGED <<disk, events, lost, watching, committing, edited>>
      /\ DOMAIN committing = {}
      /\ step' = "idle" /\ names' = {} /\ toRead' = {} /\ listed' = FALSE /\ noted' = {}
      /\ seen' = [p \in Paths |-> NotSeen]
  BY <1>1, IdleIs
<1>3. /\ reported' \in [Paths -> Known] /\ app' \in [Paths -> States]
      /\ theirs' = theirs \ Paths /\ forgotten' = {} /\ Covered = Paths
      /\ \A p \in Paths : p \in noted => reported'[p] = disk[p]
      /\ \A p \in Paths : p \notin noted /\ Right(p) =>
           reported'[p] = IF disk[p] = Absent THEN Absent ELSE Unknown
  BY ReplaceIs
<1>4. \A p \in Paths : p \in noted \/ Right(p) =>
        AsReported(p)' /\ reported'[p] \in {disk[p], Unknown}
  BY <1>2, <1>3 DEF AsReported
<1>5. ~Swaps => \A p \in Paths : AsReported(p)' \/ p \in events \/ Lost \/ Moved(p)
  BY <1>1, <1>2, <1>3, <1>4 DEF SeenIsRight, Skipped
<1>6. \A p \in Paths \ edited : reported'[p] \in {disk[p], Unknown}
  BY <1>1, <1>2, <1>3, <1>4 DEF OwnIsKnown, InCommit, Skipped
<1> QED
  BY <1>1, <1>2, <1>3, <1>5, <1>6 DEF ConcludeStep

LEMMA ForgetConcludes ==
  ASSUME TypeOK, Forget
  PROVE  ConcludeStep
<1>1. /\ Turn /\ Idle /\ TellOf(Paths) /\ reported' = [p \in Paths |-> Absent] /\ forgotten' = Paths
  BY DEF Forget
<1>2. app' \in [Paths -> States] /\ theirs' = theirs \ Paths
  BY <1>1, TellIs
<1>3. /\ UNCHANGED <<disk, events, lost, watching, committing, edited>>
      /\ DOMAIN committing = {}
      /\ step' = "idle" /\ names' = {} /\ toRead' = {} /\ listed' = FALSE /\ noted' = {}
      /\ seen' = [p \in Paths |-> NotSeen]
  BY <1>1, IdleIs
<1>4. reported' \in [Paths -> Known] /\ \A p \in forgotten' : reported'[p] = Absent
  BY <1>1, ValuesAre
<1>5. \A p \in Paths : AsReported(p)'
  BY <1>1 DEF AsReported
<1> QED
  BY <1>1, <1>2, <1>3, <1>4, <1>5 DEF ConcludeStep

LEMMA ConcludesAre ==
  ASSUME IInv, CatchUp \/ Replace \/ Forget
  PROVE  ConcludeStep
BY CatchUpConcludes, ReplaceConcludes, ForgetConcludes DEF IInv

-----------------------------------------------------------------------------
(* Reading a File, and failing to.                                         *)

ReadStep(p) ==
  /\ UNCHANGED <<disk, events, lost, watching, reported, noted, committing, step, names, listed,
                 app, theirs, edited, forgotten>>
  /\ step = "reading" /\ p \in toRead /\ toRead' = toRead \ {p}
  /\ seen' \in [Paths -> Known \cup {NotSeen}]
  /\ \A q \in Paths \ {p} : seen'[q] = seen[q]
  /\ Right(p)' \/ (Skipped(p)' /\ reported[p] # Absent /\ disk[p] # Absent)

FailStep ==
  /\ UNCHANGED <<disk, events, lost, watching, reported, noted, committing, names, toRead, seen,
                 listed, app, theirs, edited, forgotten>>
  /\ listed /\ step' = "failed"

LEMMA ReadsAre ==
  ASSUME TypeOK, NEW p \in Paths, ReadFile(p)
  PROVE  ReadStep(p)
<1> DEFINE what == IF p \in names THEN disk[p]
                   ELSE IF disk[p] = Absent THEN NotSeen
                   ELSE IF listed \/ reported[p] # Absent THEN Unknown
                   ELSE disk[p]
<1>1. /\ UNCHANGED <<disk, events, lost, watching, reported, noted, committing, step, names, listed,
                     app, theirs, edited, forgotten>>
      /\ step = "reading" /\ p \in toRead /\ toRead' = toRead \ {p}
      /\ seen' = [seen EXCEPT ![p] = what]
  BY DEF ReadFile, feed
<1>2. disk[p] \in States /\ seen \in [Paths -> Known \cup {NotSeen}] /\ listed \in BOOLEAN
  BY DEF TypeOK
<1>3. what \in Known \cup {NotSeen}
  BY <1>2, ValuesAre
<1>4. /\ p \in names => what = disk[p]
      /\ p \notin names /\ disk[p] = Absent => what = NotSeen
      /\ p \notin names /\ disk[p] # Absent /\ (listed \/ reported[p] # Absent) => what = Unknown
      /\ p \notin names /\ disk[p] # Absent /\ ~listed /\ reported[p] = Absent => what = disk[p]
  OBVIOUS
<1> HIDE DEF what
<1>5. /\ seen' \in [Paths -> Known \cup {NotSeen}]
      /\ \A q \in Paths \ {p} : seen'[q] = seen[q]
      /\ seen'[p] = what
  BY <1>1, <1>2, <1>3
<1>6. Right(p)' \/ (Skipped(p)' /\ reported[p] # Absent /\ disk[p] # Absent)
  <2>1. disk' = disk /\ names' = names /\ listed' = listed
    BY <1>1
  <2> QED
    BY <1>2, <1>4, <1>5, <2>1 DEF Right, Skipped
<1> QED
  BY <1>1, <1>5, <1>6 DEF ReadStep

LEMMA FailsAre ==
  ASSUME ListFails
  PROVE  FailStep
BY DEF ListFails, feed, FailStep

(* The steps, as the invariant sees them.                                  *)
IStep ==
  \/ OthersStep \/ CommitStep \/ ReportStep \/ ListingStep \/ NamesStep
  \/ (\E p \in Paths : ReadStep(p)) \/ FailStep \/ ConcludeStep

LEMMA StepsAreSeen ==
  ASSUME IInv, [Next]_vars
  PROVE  IStep
BY StepsAre, ReadsAre, FailsAre, ConcludesAre DEF IInv, IStep

-----------------------------------------------------------------------------
(* Each step keeps each part of the invariant.                             *)

LEMMA StillTyped ==
  ASSUME IInv, IStep
  PROVE  TypeOK'
<1>1. TypeOK
  BY DEF IInv
<1>2. CASE OthersStep
  BY <1>1, <1>2 DEF TypeOK, OthersStep
<1>3. CASE CommitStep
  BY <1>1, <1>3 DEF TypeOK, CommitStep
<1>4. CASE ReportStep
  <2>1. committing' \in [{} -> States]
    BY <1>4 DEF ReportStep, NoCommit
  <2> QED
    BY <1>1, <1>4, <2>1 DEF TypeOK, ReportStep
<1>5. CASE ListingStep
  BY <1>1, <1>5 DEF TypeOK, ListingStep
<1>6. CASE NamesStep
  BY <1>1, <1>6 DEF TypeOK, NamesStep, Names
<1>7. CASE \E p \in Paths : ReadStep(p)
  BY <1>1, <1>7 DEF TypeOK, ReadStep
<1>8. CASE FailStep
  BY <1>1, <1>8 DEF TypeOK, FailStep
<1>9. CASE ConcludeStep
  BY <1>1, <1>9 DEF TypeOK, ConcludeStep
<1> QED
  BY <1>2, <1>3, <1>4, <1>5, <1>6, <1>7, <1>8, <1>9 DEF IStep

LEMMA StillKnowsWhatItReads ==
  ASSUME IInv, IStep
  PROVE  KnowsWhatItReads'
<1>1. KnowsWhatItReads /\ TypeOK
  BY DEF IInv
<1>2. CASE OthersStep
  BY <1>1, <1>2 DEF KnowsWhatItReads, Covered, OthersStep
<1>3. CASE CommitStep
  BY <1>1, <1>3 DEF KnowsWhatItReads, Covered, CommitStep
<1>4. CASE ReportStep
  BY <1>1, <1>4 DEF KnowsWhatItReads, Covered, ReportStep
<1>5. CASE ListingStep
  BY <1>5 DEF KnowsWhatItReads, Covered, ListingStep
<1>6. CASE NamesStep
  BY <1>6 DEF KnowsWhatItReads, Covered, NamesStep
<1>7. CASE \E p \in Paths : ReadStep(p)
  BY <1>1, <1>7 DEF KnowsWhatItReads, Covered, ReadStep
<1>8. CASE FailStep
  BY <1>1, <1>8 DEF KnowsWhatItReads, Covered, FailStep
<1>9. CASE ConcludeStep
  BY <1>9 DEF KnowsWhatItReads, ConcludeStep
<1> QED
  BY <1>2, <1>3, <1>4, <1>5, <1>6, <1>7, <1>8, <1>9 DEF IStep

LEMMA StillUnreported ==
  ASSUME IInv, IStep
  PROVE  ForgottenIsUnreported'
<1>1. ForgottenIsUnreported /\ forgotten \subseteq Paths
  BY DEF IInv, TypeOK
<1> QED
  BY <1>1 DEF IStep, ForgottenIsUnreported, OthersStep, CommitStep, ReportStep, ListingStep, NamesStep,
              ReadStep, FailStep, ConcludeStep

LEMMA CommitStillSeen ==
  ASSUME IInv, IStep
  PROVE  CommitIsSeen'
<1>1. CommitIsSeen /\ DOMAIN committing \subseteq Paths
  BY DEF IInv, TypeOK
<1>2. CASE OthersStep
  BY <1>1, <1>2 DEF CommitIsSeen, Covered, Lost, OthersStep
<1>3. CASE CommitStep
  BY <1>3 DEF CommitIsSeen, Lost, CommitStep
<1>4. CASE ReportStep
  BY <1>4, NoneInNoCommit DEF CommitIsSeen, ReportStep
<1>5. CASE ListingStep
  BY <1>1, <1>5 DEF CommitIsSeen, Covered, ListingStep
<1>6. CASE NamesStep
  BY <1>1, <1>6 DEF CommitIsSeen, Covered, Lost, NamesStep
<1>7. CASE \E p \in Paths : ReadStep(p)
  BY <1>1, <1>7 DEF CommitIsSeen, Covered, Lost, ReadStep
<1>8. CASE FailStep
  BY <1>1, <1>8 DEF CommitIsSeen, FailStep
<1>9. CASE ConcludeStep
  BY <1>9 DEF CommitIsSeen, ConcludeStep
<1> QED
  BY <1>2, <1>3, <1>4, <1>5, <1>6, <1>7, <1>8, <1>9 DEF IStep

(* What was seen of a Path stays right while it doesn't change.             *)
LEMMA SameIsAsRight ==
  ASSUME NEW p \in Paths, disk'[p] = disk[p], seen'[p] = seen[p], names' = names, listed' = listed
  PROVE  /\ Right(p)' <=> Right(p)
         /\ Skipped(p)' <=> Skipped(p)
BY DEF Right, Skipped

LEMMA CoversPaths ==
  ASSUME TypeOK
  PROVE  Covered \subseteq Paths
BY DEF TypeOK, Covered, Names

LEMMA SeenStillRight ==
  ASSUME IInv, ~Swaps, IStep
  PROVE  SeenIsRight'
<1>1. /\ SeenIsRight /\ DOMAIN committing \subseteq Paths /\ KnowsWhatItReads /\ toRead \subseteq Paths
      /\ Covered \subseteq Paths /\ TypeOK
  BY CoversPaths DEF IInv, TypeOK
<1>2. CASE OthersStep
  <2>1. /\ Covered' = Covered /\ step' = step /\ names' = names /\ listed' = listed /\ seen' = seen
        /\ toRead' = toRead /\ noted' = noted /\ committing' = committing
        /\ lost' \/ ~watching' \/ (events \subseteq events' /\ lost' = lost /\ watching' = watching)
        /\ \A p \in Paths : disk'[p] = disk[p] \/ ToldOf(p)
    BY <1>2 DEF OthersStep, Covered
  <2>2. ASSUME step = "reading", NEW p \in Covered \ (toRead \cup noted \cup DOMAIN committing)
        PROVE  (p \in events \/ Lost \/ Moved(p) \/ Right(p) \/ Skipped(p))'
    <3>1. p \in Paths /\ (p \in events \/ Lost \/ Moved(p) \/ Right(p) \/ Skipped(p))
      BY <1>1, <2>2 DEF SeenIsRight
    <3>2. CASE ToldOf(p)
      BY <2>2, <3>2 DEF ToldOf, Lost, Moved
    <3>3. CASE disk'[p] = disk[p]
      <4>1. /\ Right(p)' <=> Right(p)
            /\ Skipped(p)' <=> Skipped(p)
        BY <2>1, <3>1, <3>3, SameIsAsRight
      <4> QED
        BY <2>1, <3>1, <3>3, <4>1 DEF Lost, Moved
    <3> QED
      BY <2>1, <3>1, <3>2, <3>3
  <2> QED
    BY <2>1, <2>2 DEF SeenIsRight
<1>3. CASE CommitStep
  <2>1. /\ Covered' = Covered /\ step' = step /\ names' = names /\ listed' = listed /\ seen' = seen
        /\ toRead' = toRead /\ noted' = noted /\ DOMAIN committing = {}
        /\ events \subseteq events' /\ lost' = lost /\ watching' = watching
        /\ \A p \in Paths \ DOMAIN committing' : disk'[p] = disk[p]
    BY <1>3 DEF CommitStep, Covered
  <2>2. ASSUME step = "reading", NEW p \in Covered \ (toRead \cup noted \cup DOMAIN committing')
        PROVE  (p \in events \/ Lost \/ Moved(p) \/ Right(p) \/ Skipped(p))'
    <3>1. p \in Paths /\ (p \in events \/ Lost \/ Moved(p) \/ Right(p) \/ Skipped(p))
      BY <1>1, <2>1, <2>2 DEF SeenIsRight
    <3>2. /\ disk'[p] = disk[p]
          /\ Right(p)' <=> Right(p)
          /\ Skipped(p)' <=> Skipped(p)
      BY <2>1, <2>2, <3>1, SameIsAsRight
    <3> QED
      BY <2>1, <3>1, <3>2 DEF Lost, Moved
  <2> QED
    BY <2>1, <2>2 DEF SeenIsRight
<1>4. CASE ReportStep
  <2>1. /\ Covered' = Covered /\ step' = step /\ names' = names /\ listed' = listed /\ seen' = seen
        /\ disk' = disk /\ toRead' = toRead /\ events' = events /\ lost' = lost /\ watching' = watching
        /\ noted \subseteq noted' /\ (step # "idle" => DOMAIN committing \subseteq noted')
        /\ committing' = NoCommit
    BY <1>4 DEF ReportStep, Covered
  <2>2. ASSUME step = "reading", NEW p \in Covered \ (toRead \cup noted' \cup DOMAIN NoCommit)
        PROVE  (p \in events \/ Lost \/ Moved(p) \/ Right(p) \/ Skipped(p))'
    <3>1. p \in Paths /\ (p \in events \/ Lost \/ Moved(p) \/ Right(p) \/ Skipped(p))
      BY <1>1, <2>1, <2>2 DEF SeenIsRight
    <3>2. /\ Right(p)' <=> Right(p)
          /\ Skipped(p)' <=> Skipped(p)
      BY <2>1, <3>1, SameIsAsRight
    <3> QED
      BY <2>1, <3>1, <3>2 DEF Lost, Moved
  <2> QED
    BY <2>1, <2>2 DEF SeenIsRight
<1>5. CASE ListingStep
  BY <1>5 DEF SeenIsRight, Covered, ListingStep
<1>6. CASE NamesStep
  BY <1>6 DEF SeenIsRight, Covered, NamesStep
<1>7. ASSUME NEW q \in Paths, ReadStep(q) PROVE SeenIsRight'
  <2>1. /\ Covered' = Covered /\ step' = step /\ names' = names /\ listed' = listed
        /\ disk' = disk /\ events' = events /\ lost' = lost /\ watching' = watching
        /\ noted' = noted /\ committing' = committing /\ toRead' = toRead \ {q}
        /\ \A p \in Paths \ {q} : seen'[p] = seen[p]
        /\ Right(q)' \/ Skipped(q)'
    BY <1>7 DEF ReadStep, Covered
  <2>2. ASSUME step = "reading", NEW p \in Covered \ ((toRead \ {q}) \cup noted \cup DOMAIN committing)
        PROVE  (p \in events \/ Lost \/ Moved(p) \/ Right(p) \/ Skipped(p))'
    <3>1. CASE p # q
      <4>1. p \in Paths /\ (p \in events \/ Lost \/ Moved(p) \/ Right(p) \/ Skipped(p))
        BY <1>1, <2>2, <3>1 DEF SeenIsRight
      <4>2. /\ Right(p)' <=> Right(p)
            /\ Skipped(p)' <=> Skipped(p)
        BY <2>1, <3>1, <4>1, SameIsAsRight
      <4> QED
        BY <2>1, <4>1, <4>2 DEF Lost, Moved
    <3> QED
      BY <2>1, <3>1
  <2> QED
    BY <2>1, <2>2 DEF SeenIsRight
<1>8. CASE FailStep
  BY <1>8 DEF SeenIsRight, FailStep
<1>9. CASE ConcludeStep
  BY <1>9 DEF SeenIsRight, ConcludeStep
<1> QED
  BY <1>2, <1>3, <1>4, <1>5, <1>6, <1>7, <1>8, <1>9 DEF IStep

LEMMA OwnStillKnown ==
  ASSUME IInv, IStep
  PROVE  OwnIsKnown'
<1>1. /\ OwnIsKnown /\ DOMAIN committing \subseteq Paths /\ TypeOK
      /\ Covered \subseteq Paths
  BY CoversPaths DEF IInv, TypeOK
<1>2. CASE OthersStep
  <2>1. /\ Covered' = Covered /\ step' = step /\ names' = names /\ listed' = listed /\ seen' = seen
        /\ toRead' = toRead /\ noted' = noted /\ committing' = committing /\ reported' = reported
        /\ forgotten' = forgotten /\ edited \subseteq edited'
        /\ \A p \in Paths \ edited' : disk'[p] = disk[p]
    BY <1>2 DEF OthersStep, Covered
  <2>2. \A p \in Paths \ edited' : /\ Right(p)' <=> Right(p)
                                   /\ Skipped(p)' <=> Skipped(p)
    BY <2>1, SameIsAsRight
  <2> QED
    BY <1>1, <2>1, <2>2 DEF OwnIsKnown, InCommit
<1>3. CASE CommitStep
  <2>1. /\ Covered' = Covered /\ step' = step /\ names' = names /\ listed' = listed /\ seen' = seen
        /\ toRead' = toRead /\ noted' = noted /\ reported' = reported /\ forgotten' = forgotten
        /\ edited' = edited /\ DOMAIN committing = {}
        /\ \A p \in DOMAIN committing' : committing'[p] = disk'[p]
        /\ \A p \in Paths \ DOMAIN committing' : disk'[p] = disk[p]
    BY <1>3 DEF CommitStep, Covered
  <2>2. \A p \in Paths \ DOMAIN committing' : /\ Right(p)' <=> Right(p)
                                              /\ Skipped(p)' <=> Skipped(p)
    BY <2>1, SameIsAsRight
  <2> QED
    BY <1>1, <2>1, <2>2 DEF OwnIsKnown, InCommit
<1>4. CASE ReportStep
  <2>1. /\ Covered' = Covered /\ step' = step /\ names' = names /\ listed' = listed /\ seen' = seen
        /\ disk' = disk /\ toRead' = toRead /\ edited' = edited
        /\ noted \subseteq noted' /\ (step # "idle" => DOMAIN committing \subseteq noted')
        /\ DOMAIN committing' = {}
        /\ \A p \in DOMAIN committing : reported'[p] = committing[p]
        /\ \A p \in Paths \ DOMAIN committing : reported'[p] = reported[p]
        /\ forgotten' = forgotten \ DOMAIN committing
    BY <1>4, NoneInNoCommit DEF ReportStep, Covered
  <2>2. \A p \in Paths : /\ Right(p)' <=> Right(p)
                         /\ Skipped(p)' <=> Skipped(p)
    BY <2>1, SameIsAsRight
  <2> QED
    BY <1>1, <2>1, <2>2 DEF OwnIsKnown, InCommit
<1>5. CASE ListingStep
  BY <1>1, <1>5 DEF OwnIsKnown, InCommit, ListingStep
<1>6. CASE NamesStep
  BY <1>1, <1>6 DEF OwnIsKnown, InCommit, Covered, NamesStep
<1>7. ASSUME NEW q \in Paths, ReadStep(q) PROVE OwnIsKnown'
  <2>1. /\ Covered' = Covered /\ step' = step /\ names' = names /\ listed' = listed
        /\ disk' = disk /\ edited' = edited /\ reported' = reported /\ forgotten' = forgotten
        /\ noted' = noted /\ committing' = committing /\ toRead' = toRead \ {q}
        /\ \A p \in Paths \ {q} : seen'[p] = seen[p]
        /\ Right(q)' \/ (Skipped(q)' /\ disk[q] # Absent)
    BY <1>7 DEF ReadStep, Covered
  <2>2. \A p \in Paths \ {q} : /\ Right(p)' <=> Right(p)
                               /\ Skipped(p)' <=> Skipped(p)
    BY <2>1, SameIsAsRight
  <2> QED
    BY <1>1, <2>1, <2>2 DEF OwnIsKnown, InCommit
<1>8. CASE FailStep
  BY <1>1, <1>8 DEF OwnIsKnown, InCommit, FailStep
<1>9. CASE ConcludeStep
  BY <1>9 DEF OwnIsKnown, InCommit, ConcludeStep
<1> QED
  BY <1>2, <1>3, <1>4, <1>5, <1>6, <1>7, <1>8, <1>9 DEF IStep

(* What was known of a Path, and what there is to look at, stays while      *)
(* nothing changes there and events and losses don't get fewer.             *)
LEMMA SameIsAsReported ==
  ASSUME NEW p \in Paths, disk'[p] = disk[p], reported'[p] = reported[p],
         p \in theirs' <=> p \in theirs, p \in forgotten' <=> p \in forgotten
  PROVE  /\ AsReported(p)' <=> AsReported(p)
         /\ FoundInDir(p)' <=> FoundInDir(p)
BY DEF AsReported, FoundInDir

LEMMA StillToBeLookedAt ==
  ASSUME NEW p \in Paths, ToBeLookedAt(p), FoundInDir(p) => FoundInDir(p)',
         lost' \/ ~watching' \/ (events \subseteq events' /\ lost' = lost /\ watching' = watching)
  PROVE  ToBeLookedAt(p)'
BY DEF ToBeLookedAt, Lost

LEMMA StillNothingMissed ==
  ASSUME IInv, ~Swaps, IStep
  PROVE  NothingIsMissed'
<1>1. /\ NothingIsMissed /\ DOMAIN committing \subseteq Paths /\ TypeOK
      /\ Covered \subseteq Paths
  BY CoversPaths DEF IInv, TypeOK
<1>2. \A p \in Paths : AsReported(p) \/ ToBeLookedAt(p) \/ InCommit(p) \/ LookedAt(p)
  BY <1>1 DEF NothingIsMissed
<1>3. SUFFICES ASSUME NEW p \in Paths
               PROVE  (AsReported(p) \/ ToBeLookedAt(p) \/ InCommit(p) \/ LookedAt(p))'
  BY DEF NothingIsMissed
<1>4. CASE OthersStep
  <2>1. /\ Covered' = Covered /\ step' = step /\ names' = names /\ listed' = listed /\ seen' = seen
        /\ toRead' = toRead /\ noted' = noted /\ committing' = committing /\ reported' = reported
        /\ forgotten' = forgotten
        /\ lost' \/ ~watching' \/ (events \subseteq events' /\ lost' = lost /\ watching' = watching)
        /\ (disk'[p] = disk[p] /\ (p \in theirs' <=> p \in theirs)) \/ ToldOf(p)
    BY <1>4 DEF OthersStep, Covered
  <2>2. CASE disk'[p] = disk[p] /\ (p \in theirs' <=> p \in theirs)
    <3>1. /\ AsReported(p)' <=> AsReported(p)
          /\ FoundInDir(p)' <=> FoundInDir(p)
      BY <2>1, <2>2, SameIsAsReported
    <3>2. Right(p)' <=> Right(p)
      BY <2>1, <2>2, SameIsAsRight
    <3>3. ToBeLookedAt(p) => ToBeLookedAt(p)'
      BY <2>1, <3>1, StillToBeLookedAt
    <3>4. LookedAt(p) => LookedAt(p)'
      BY <2>1, <3>1, <3>2 DEF LookedAt, FoundByName
    <3>5. InCommit(p) => InCommit(p)'
      BY <2>1 DEF InCommit
    <3> QED
      BY <1>2, <3>1, <3>3, <3>4, <3>5
  <2>3. CASE lost' \/ ~watching' \/ p \in events' \/ (Dir \in events' /\ disk'[p] = Absent)
    BY <2>3 DEF ToBeLookedAt, Lost, FoundInDir
  <2>4. CASE step = "idle" /\ Dir \notin events /\ Dir \in events' /\ disk[p] = Absent
    <3>1. ~LookedAt(p)
      BY <2>4 DEF LookedAt
    <3>2. AsReported(p) => reported[p] = Absent
      BY <2>4 DEF AsReported, IInv, ForgottenIsUnreported
    <3>3. reported[p] = Absent => ToBeLookedAt(p)'
      BY <2>1, <2>4 DEF ToBeLookedAt, FoundInDir
    <3>4. ToBeLookedAt(p) => ToBeLookedAt(p)'
      BY <2>1, <2>4 DEF ToBeLookedAt, Lost
    <3>5. InCommit(p) => InCommit(p)'
      BY <2>1 DEF InCommit
    <3> QED
      BY <1>2, <3>1, <3>2, <3>3, <3>4, <3>5
  <2> QED
    BY <2>1, <2>2, <2>3, <2>4 DEF ToldOf
<1>5. CASE CommitStep
  <2>1. /\ Covered' = Covered /\ step' = step /\ names' = names /\ listed' = listed /\ seen' = seen
        /\ toRead' = toRead /\ noted' = noted /\ reported' = reported /\ forgotten' = forgotten
        /\ theirs' = theirs /\ DOMAIN committing = {}
        /\ events \subseteq events' /\ lost' = lost /\ watching' = watching
        /\ p \notin DOMAIN committing' => disk'[p] = disk[p]
    BY <1>5 DEF CommitStep, Covered
  <2>2. CASE p \in DOMAIN committing'
    BY <2>2 DEF InCommit
  <2>3. CASE p \notin DOMAIN committing'
    <3>1. /\ AsReported(p)' <=> AsReported(p)
          /\ FoundInDir(p)' <=> FoundInDir(p)
      BY <2>1, <2>3, SameIsAsReported
    <3>2. Right(p)' <=> Right(p)
      BY <2>1, <2>3, SameIsAsRight
    <3>3. ToBeLookedAt(p) => ToBeLookedAt(p)'
      BY <2>1, <3>1, StillToBeLookedAt
    <3>4. LookedAt(p) => LookedAt(p)'
      BY <2>1, <3>1, <3>2 DEF LookedAt, FoundByName
    <3> QED
      BY <1>2, <2>1, <3>1, <3>3, <3>4 DEF InCommit
  <2> QED
    BY <2>2, <2>3
<1>6. CASE ReportStep
  <2>1. /\ Covered' = Covered /\ step' = step /\ names' = names /\ listed' = listed /\ seen' = seen
        /\ disk' = disk /\ toRead' = toRead /\ theirs' = theirs
        /\ events' = events /\ lost' = lost /\ watching' = watching
        /\ noted \subseteq noted' /\ (step # "idle" => DOMAIN committing \subseteq noted')
        /\ p \notin DOMAIN committing => reported'[p] = reported[p]
        /\ forgotten' = forgotten \ DOMAIN committing
    BY <1>6 DEF ReportStep, Covered
  <2>2. CASE p \in DOMAIN committing
    <3>1. p \in events \/ Lost \/ (step = "reading" /\ p \in Covered) \/ step = "failed"
      BY <2>2 DEF IInv, CommitIsSeen
    <3> QED
      BY <2>1, <2>2, <3>1 DEF ToBeLookedAt, Lost, LookedAt
  <2>3. CASE p \notin DOMAIN committing
    <3>1. /\ AsReported(p)' <=> AsReported(p)
          /\ FoundInDir(p)' <=> FoundInDir(p)
      BY <2>1, <2>3, SameIsAsReported
    <3>2. Right(p)' <=> Right(p)
      BY <2>1, <2>3, SameIsAsRight
    <3>3. ToBeLookedAt(p) => ToBeLookedAt(p)'
      BY <2>1, <3>1, StillToBeLookedAt
    <3>4. LookedAt(p) => LookedAt(p)'
      BY <2>1, <3>1, <3>2 DEF LookedAt, FoundByName
    <3> QED
      BY <1>2, <2>3, <3>1, <3>3, <3>4 DEF InCommit
  <2> QED
    BY <2>2, <2>3
<1>7. CASE ListingStep
  BY <1>7 DEF ListingStep, LookedAt, FoundByName, Covered
<1>8. CASE NamesStep
  <2>1. PICK ns \in SUBSET Names :
          /\ step = "idle" /\ step' = "reading"
          /\ events' = events \ ns
          /\ names' = ns /\ listed' = FALSE /\ toRead' = IF Dir \in ns THEN Paths ELSE ns
          /\ UNCHANGED <<disk, lost, watching, reported, committing, app, theirs, edited, forgotten>>
    BY <1>8 DEF NamesStep
  <2>2. /\ AsReported(p)' <=> AsReported(p)
        /\ FoundInDir(p)' <=> FoundInDir(p)
    BY <2>1, SameIsAsReported
  <2>3. ToBeLookedAt(p) => ToBeLookedAt(p)' \/ LookedAt(p)'
    BY <2>1, <2>2 DEF ToBeLookedAt, LookedAt, Lost, FoundByName, Covered
  <2>4. ~LookedAt(p)
    BY <2>1 DEF LookedAt
  <2>5. InCommit(p) => InCommit(p)'
    BY <2>1 DEF InCommit
  <2> QED
    BY <1>2, <2>2, <2>3, <2>4, <2>5
<1>9. ASSUME NEW q \in Paths, ReadStep(q)
      PROVE  (AsReported(p) \/ ToBeLookedAt(p) \/ InCommit(p) \/ LookedAt(p))'
  <2>1. /\ Covered' = Covered /\ step' = step /\ names' = names /\ listed' = listed
        /\ disk' = disk /\ events' = events /\ lost' = lost /\ watching' = watching
        /\ reported' = reported /\ theirs' = theirs /\ forgotten' = forgotten
        /\ noted' = noted /\ committing' = committing /\ toRead' = toRead \ {q}
        /\ p # q => seen'[p] = seen[p]
        /\ step = "reading" /\ q \in toRead
        /\ Right(q)' \/ (Skipped(q)' /\ reported[q] # Absent /\ disk[q] # Absent)
    BY <1>9 DEF ReadStep, Covered
  <2>2. /\ AsReported(p)' <=> AsReported(p)
        /\ FoundInDir(p)' <=> FoundInDir(p)
    BY <2>1, SameIsAsReported
  <2>3. ToBeLookedAt(p) => ToBeLookedAt(p)'
    BY <2>1, <2>2, StillToBeLookedAt
  <2>4. InCommit(p) => InCommit(p)'
    BY <2>1 DEF InCommit
  <2>5. CASE p = q
    <3>1. LookedAt(p) => LookedAt(p)'
      BY <2>1, <2>2, <2>5 DEF LookedAt, FoundByName, FoundInDir, Skipped
    <3> QED
      BY <1>2, <2>2, <2>3, <2>4, <3>1
  <2>6. CASE p # q
    <3>1. Right(p)' <=> Right(p)
      BY <2>1, <2>6, SameIsAsRight
    <3>2. LookedAt(p) => LookedAt(p)'
      BY <2>1, <2>2, <2>6, <3>1 DEF LookedAt, FoundByName
    <3> QED
      BY <1>2, <2>2, <2>3, <2>4, <3>2
  <2> QED
    BY <2>5, <2>6
<1>10. CASE FailStep
  BY <1>10 DEF FailStep, LookedAt
<1>11. CASE ConcludeStep
  <2>1. /\ disk' = disk /\ events' = events /\ lost' = lost /\ watching' = watching
        /\ DOMAIN committing = {}
        /\ AsReported(p)' \/ p \in events \/ Lost \/ Moved(p) \/ (AsItWas(p) /\ ~LookedAt(p))
    BY <1>11 DEF ConcludeStep
  <2>2. CASE p \in events \/ Lost \/ Moved(p)
    BY <2>1, <2>2 DEF ToBeLookedAt, Lost, Moved, FoundInDir
  <2>3. CASE AsItWas(p) /\ ~LookedAt(p)
    <3>1. /\ AsReported(p)' <=> AsReported(p)
          /\ FoundInDir(p)' <=> FoundInDir(p)
      BY <2>1, <2>3, SameIsAsReported DEF AsItWas
    <3>2. ToBeLookedAt(p) => ToBeLookedAt(p)'
      BY <2>1, <3>1, StillToBeLookedAt
    <3> QED
      BY <1>2, <2>1, <2>3, <3>1, <3>2 DEF InCommit
  <2> QED
    BY <2>1, <2>2, <2>3
<1> QED
  BY <1>4, <1>5, <1>6, <1>7, <1>8, <1>9, <1>10, <1>11 DEF IStep

-----------------------------------------------------------------------------
(* The theorems.                                                           *)

LEMMA Initially ==
  ASSUME Init
  PROVE  IInv
<1>1. /\ disk \in [Paths -> States] /\ events = {} /\ lost = FALSE /\ watching \in BOOLEAN
      /\ reported = [p \in Paths |-> IF disk[p] = Absent THEN Absent ELSE Unknown]
      /\ noted = {} /\ committing = NoCommit
      /\ step = "idle" /\ names = {} /\ toRead = {} /\ listed = FALSE
      /\ seen = [p \in Paths |-> NotSeen]
      /\ app = disk /\ theirs = {} /\ edited = {} /\ forgotten = {}
  BY DEF Init
<1>2. reported \in [Paths -> Known] /\ committing \in [{} -> States]
  BY <1>1, ValuesAre DEF NoCommit
<1>3. \A p \in Paths : reported[p] = IF disk[p] = Absent THEN Absent ELSE Unknown
  BY <1>1
<1>4. DOMAIN committing = {}
  BY <1>1, NoneInNoCommit
<1>5. TypeOK
  <2>1. \E ps \in SUBSET Paths : committing \in [ps -> States]
    BY <1>2
  <2> QED
    BY <1>1, <1>2, <2>1 DEF TypeOK
<1>6. KnowsWhatItReads /\ ForgottenIsUnreported /\ CommitIsSeen /\ SeenIsRight
  BY <1>1, <1>4 DEF KnowsWhatItReads, ForgottenIsUnreported, CommitIsSeen, SeenIsRight
<1>7. NothingIsMissed
  BY <1>1, <1>3 DEF NothingIsMissed, AsReported
<1>8. OwnIsKnown
  BY <1>1, <1>3, <1>4 DEF OwnIsKnown, InCommit
<1> QED
  BY <1>5, <1>6, <1>7, <1>8 DEF IInv

LEMMA EveryStep ==
  ASSUME IInv, [Next]_vars
  PROVE  IInv'
<1>1. IStep
  BY StepsAreSeen
<1> QED
  BY <1>1, StillTyped, StillKnowsWhatItReads, StillUnreported, CommitStillSeen, SeenStillRight,
     StillNothingMissed, OwnStillKnown DEF IInv

(* The inductive invariant.                                                *)
THEOREM WatcherInductive ==
  Spec => []IInv
<1>1. Init => IInv
  BY Initially
<1>2. IInv /\ [Next]_vars => IInv'
  BY EveryStep
<1> QED
  BY <1>1, <1>2, PTL DEF Spec

(* What the watcher keeps has its type: what a Commit changed is noted only  *)
(* under Paths of the Store, and it is at rest exactly when it looks at nothing. *)
THEOREM TypeCorrect ==
  Spec => []TypeOK
<1>1. IInv => TypeOK
  BY DEF IInv
<1> QED
  BY <1>1, WatcherInductive, PTL

(* Once everything has settled, the feed was told of every File as it is:    *)
(* no change by others, nor one that meets a Commit, a failed read or a lost *)
(* event, stays untold, as long as no directory is put in the place of       *)
(* another at once (Swaps).                                                *)
THEOREM SettledIsTold ==
  ASSUME ~Swaps
  PROVE  Spec => []SettledIsReported
<1>1. IInv => SettledIsReported
  <2> SUFFICES ASSUME IInv, Settled, NEW p \in Paths
               PROVE  AsReported(p)
    BY DEF SettledIsReported, AsReported
  <2>1. ~ToBeLookedAt(p) /\ ~LookedAt(p)
    BY DEF Settled, ToBeLookedAt, Lost, LookedAt
  <2>2. ~InCommit(p)
    BY NoneInNoCommit DEF Settled, InCommit
  <2> QED
    BY <2>1, <2>2 DEF IInv, NothingIsMissed
<1> QED
  BY <1>1, WatcherInductive, PTL

(* The Store's own Commits are never told as external Changes, whatever the  *)
(* watcher read before, during and after them.                             *)
THEOREM OwnStaysOwn ==
  Spec => OwnCommitsAreNotTheirs
<1>1. ASSUME IInv, [Next]_vars
      PROVE  \A p \in Paths :
               step = "reading" /\ step' = "idle" /\ ~listed /\ reported'[p] # reported[p] =>
                 p \in edited \cup forgotten \cup forgotten' \/ reported[p] = Unknown
  <2>1. SUFFICES ASSUME step = "reading", step' = "idle", ~listed, NEW p \in Paths \ edited,
                        reported'[p] # reported[p], p \notin forgotten, p \notin forgotten'
                 PROVE  reported[p] = Unknown
    OBVIOUS
  <2>2. IStep
    BY <1>1, StepsAreSeen
  <2>3. ConcludeStep
    BY <2>1, <2>2 DEF IStep, OthersStep, CommitStep, ReportStep, ListingStep, NamesStep, ReadStep, FailStep
  <2>4. DOMAIN committing = {} /\ reported'[p] = disk[p]
    BY <2>1, <2>3 DEF ConcludeStep
  <2>5. reported[p] \in {disk[p], Unknown}
    BY <1>1, <2>1, <2>4 DEF IInv, OwnIsKnown, InCommit
  <2> QED
    BY <2>1, <2>4, <2>5
<1> QED
  BY <1>1, WatcherInductive, PTL DEF Spec, OwnCommitsAreNotTheirs
=============================================================================
