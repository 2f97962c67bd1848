-------------------------- MODULE FsAtomicProofs ---------------------------
(***************************************************************************)
(* FsJournal implements AtomicStore: crashes, failures and power cuts at   *)
(* any step show nothing, to those who read through tidings, but Commits   *)
(* that happen whole; and a read beside them, which takes no lock, gives   *)
(* what the Path had at some moment of it.                                 *)
(***************************************************************************)
EXTENDS FsReads, FsJournalProofs

-----------------------------------------------------------------------------
(* What is shown of the Store.                                             *)

(* The faults a Commit is atomic under.  Other programs leave the Files be,  *)
(* and a power cut doesn't come after a failure that left a directory or the *)
(* journal not forced to disk (README, 5.1).                                 *)
Gentle ==
  /\ "external" \notin Faults
  /\ "power" \in Faults => Faults \cap {"process", "rename", "journalSync"} = {}

(* The journals there may be next, and what may be on disk for a Path, given *)
(* that nobody works.                                                        *)
JournalsLeft == {journal} \cup (IF "power" \in Faults THEN {stableJournal} ELSE {})
Left(p) == {cached[p]} \cup (IF "power" \in Faults THEN {stable[p]} ELSE {})

ShowsTheSame ==
  \A p \in Paths : \A e \in Left(p), j \in JournalsLeft : Shown(j, p, e) = View[p]

(* A journal is on disk before anything is done by it.                       *)
Forced == journal.state # "none" => \A j \in JournalsLeft : j = journal

(* Store s may still make the Commit i, or somebody still ask for it.        *)
NotBegun(i) ==
  asked[i] = NoRequest \/ \E s \in Stores : task[s].id = i /\ ~Begun(s)

(* Nothing of a Commit that hasn't begun is in a journal, and none that is   *)
(* prepared has happened.                                                    *)
NotYetThere ==
  /\ \A i \in Ids : NotBegun(i) => \A j \in JournalsLeft : j.id # i
  /\ \A j \in JournalsLeft : j.state = "prepared" => j.id \notin happened

Whole(j) ==
  j.state = "committed" =>
    \A p \in j.writes : \A e \in Left(p) :
      \/ e.temps[j.id] = asked[j.id].sets[p]
      \/ e.temps[j.id] = Absent /\ e.file = asked[j.id].sets[p]

AllWhole == \A j \in JournalsLeft : Whole(j)

(* What Store s planned from the Files still holds of them, and the          *)
(* temporary files it has written are there.                                 *)
HoldsToItsPlan(s) ==
  LET r == asked[task[s].id]
      j == task[s].journal
  IN
  task[s].step \in {"preparing", "writing"} =>
    /\ Holds(r, Disk)
    /\ j = Planned(s)
    /\ \A p \in j.writes \ task[s].todo : \A e \in Left(p) : e.temps[task[s].id] = r.sets[p]

Done(j, p, e) ==
  /\ p \in j.writes => e.temps[j.id] = Absent
  /\ p \in Removed(j) => e.file # j.removes[p]

(* What Store s has finished of a Commit is done, and on disk or in a        *)
(* directory it will force there.                                            *)
KnowsWhatIsDone(s) ==
  LET j == task[s].journal IN
  task[s].step = "finishing" =>
    /\ \A p \in Paths \ task[s].todo : Done(j, p, cached[p])
    /\ ~Again(s) => \A p \in task[s].todo \cap Removed(j) : cached[p].file = j.removes[p]
    /\ "power" \in Faults =>
         \A p \in Paths :
           \/ Done(j, p, stable[p])
           \/ Directory[p] \in task[s].changed
           \/ p \in task[s].todo /\ ~Done(j, p, cached[p])

(* Nobody finishes the Commit that is in the journal: what is on disk has    *)
(* been forced there.                                                        *)
LeftAsForced ==
  "power" \in Faults /\ journal.state = "committed"
  /\ (\A s \in Stores : task[s].step # "finishing") =>
    stable = cached

GInv ==
  /\ ShowsTheSame
  /\ Forced
  /\ NotYetThere
  /\ AllWhole
  /\ \A s \in Stores : HoldsToItsPlan(s) /\ KnowsWhatIsDone(s)
  /\ LeftAsForced

-----------------------------------------------------------------------------
(* What a step may change of it.                                           *)

LEMMA JournalsLeftAre ==
  \A j : j \in JournalsLeft <=> j = journal \/ ("power" \in Faults /\ j = stableJournal)
BY DEF JournalsLeft

LEMMA LeftIs ==
  ASSUME NEW p
  PROVE  \A e : e \in Left(p) <=> e = cached[p] \/ ("power" \in Faults /\ e = stable[p])
BY DEF Left

(* While the journal isn't committed, the Files are what is shown.         *)
LEMMA FilesAreShown ==
  ASSUME ShowsTheSame, journal.state # "committed", NEW p \in Paths
  PROVE  /\ View[p] = Disk[p]
         /\ \A e \in Left(p) : e.file = Disk[p]
<1>1. View[p] = Disk[p] /\ journal \in JournalsLeft
  BY JournalsLeftAre, ViewIs DEF Shown, Disk
<1>2. \A e \in Left(p) : Shown(journal, p, e) = View[p]
  BY <1>1 DEF ShowsTheSame
<1>3. QED
  BY <1>1, <1>2 DEF Shown

(* A Store that works leaves no Commit behind that hadn't begun, and a       *)
(* Commit of its own that happens has begun.                                 *)
LEMMA WorkNotBegun ==
  ASSUME IInv, NEW s \in Stores, Work(s), NEW i \in Ids, NotBegun(i)'
  PROVE  /\ NotBegun(i)
         /\ i = task[s].id => ~Begun(s) /\ happened' = happened
<1>1. /\ asked' = asked
      /\ \A t \in Stores \ {s} : task'[t] = task[t] /\ (Begun(t)' <=> Begun(t))
      /\ \/ task'[s].id = NoId
         \/ /\ task'[s].id = task[s].id
            /\ ~Begun(s)' => ~Begun(s) /\ happened' = happened
  BY WorkTask DEF NoTask, Begun
<1>2. CASE asked'[i] = NoRequest
  BY <1>1, <1>2 DEF NotBegun, IInv, OwnCommits
<1>3. ASSUME NEW t \in Stores \ {s}, task'[t].id = i, ~Begun(t)'
      PROVE  task[t].id = i /\ ~Begun(t) /\ i # task[s].id
  BY <1>1, <1>3, JournalAssumption DEF IInv, OwnCommits
<1>4. CASE task'[s].id = i /\ ~Begun(s)'
  BY <1>1, <1>4, JournalAssumption DEF NotBegun
<1>5. QED
  BY <1>2, <1>3, <1>4 DEF NotBegun

(* Preparing a Commit, it has begun, or its Store has left.                *)
LEMMA PrepareNotBegun ==
  ASSUME IInv, NEW s \in Stores, Prepare(s) \/ PrepareFails(s)
  PROVE  \A i \in Ids : NotBegun(i)' => i # task[s].id
<1>1. /\ task[s].id \in Ids /\ asked[task[s].id] # NoRequest /\ TypeOK /\ Work(s)
      /\ \A t \in Stores \ {s} : task[t].id # task[s].id
  BY JournalAssumption
     DEF IInv, OwnSteps, KnowsItsCommit, OwnCommits, Prepare, PrepareFails, Busy, Work
<1>2. asked' = asked /\ \A t \in Stores \ {s} : task'[t].id # task[s].id
  BY <1>1, OthersWait DEF Prepare, PrepareFails, history
<1>3. task'[s].id = NoId \/ Begun(s)'
  <2>1. CASE Prepare(s)
    BY <1>1, <2>1, PrepareIs DEF Begun
  <2>2. CASE PrepareFails(s)
    BY <1>1, <2>2, AnswerIs DEF PrepareFails
  <2>3. QED
    BY <2>1, <2>2
<1>4. QED
  BY <1>1, <1>2, <1>3, JournalAssumption DEF NotBegun

(* What a working Store does to the journals there may be next.            *)
KeepsJournals == journal' = journal /\ stableJournal' = stableJournal

Prepares(s) ==
  /\ task[s].step = "preparing" /\ journal' = task[s].journal /\ JournalsLeft' = {journal'}
  /\ UNCHANGED disk /\ happened' = happened
  /\ \A i \in Ids : NotBegun(i)' => i # task[s].id

Commits(s) ==
  /\ task[s].step = "writing" /\ task[s].todo = {}
  /\ journal' = Committed(s) /\ JournalsLeft' = {journal'}
  /\ UNCHANGED disk /\ happened' = happened \cup {task[s].id}

Removes(s) ==
  /\ task[s].step \in {"discarding", "finishing"} /\ task[s].todo = {}
  /\ task[s].step = "finishing" => task[s].changed = {}
  /\ journal' = NoJournal /\ JournalsLeft' \subseteq JournalsLeft \cup {NoJournal}
  /\ UNCHANGED disk /\ happened' = happened

NothingToDo(s) ==
  /\ task[s].step = "ready" /\ task[s].id \in Ids
  /\ Holds(asked[task[s].id], Disk)
  /\ Planned(s).writes = {} /\ Removed(Planned(s)) = {}
  /\ UNCHANGED disk /\ happened' = happened \cup {task[s].id}

DoesToDisk(s) ==
  \/ UNCHANGED disk
  \/ \E p \in Paths :
       \/ StartTemporary(s, p) \/ EndTemporary(s, p) \/ DiscardTemporary(s, p)
       \/ FinishDelete(s, p) \/ FinishRename(s, p)
  \/ \E d \in task[s].changed : FinishSync(s, d)

LEMMA WorkIs ==
  ASSUME IInv, Gentle, NEW s \in Stores, Work(s)
  PROVE  \/ Prepares(s) \/ Commits(s) \/ Removes(s)
         \/ KeepsJournals /\ NothingToDo(s)
         \/ KeepsJournals /\ happened' = happened /\ DoesToDisk(s)
<1>1. CASE Prepare(s)
  BY <1>1, PrepareNotBegun DEF Prepare, Prepares, Busy, JournalsLeft, history
<1>2. CASE PrepareFails(s)
  <2>1. CASE UNCHANGED journal
    BY <1>2, <2>1 DEF PrepareFails, KeepsJournals, DoesToDisk
  <2>2. CASE journal' # journal
    BY <1>2, <2>2, PrepareNotBegun DEF PrepareFails, Prepares, Busy, JournalsLeft, Gentle
  <2>3. QED
    BY <2>1, <2>2
<1>3. CASE CommitJournal(s)
  BY <1>3 DEF CommitJournal, Commits, Busy, AllWritten, JournalsLeft, Gentle
<1>4. CASE CommitJournalUnreadable(s)
  <2>1. CASE UNCHANGED <<journal, happened>>
    BY <1>4, <2>1 DEF CommitJournalUnreadable, KeepsJournals, DoesToDisk
  <2>2. CASE /\ "journalSync" \in Faults /\ journal' = Committed(s)
             /\ happened' = happened \cup {task[s].id}
    BY <1>4, <2>2
       DEF CommitJournalUnreadable, Commits, Busy, AllWritten, JournalsLeft, Gentle
  <2>3. QED
    BY <1>4, <2>1, <2>2 DEF CommitJournalUnreadable
<1>5. CASE Discarded(s) \/ Finished(s)
  BY <1>5 DEF Discarded, Finished, RemoveJournal, Removes, Busy, JournalsLeft
<1>6. CASE Plan(s)
  <2>1. TypeOK
    BY DEF IInv
  <2>2. QED
    BY <1>6, <2>1, PlanIs DEF NothingToDo, KeepsJournals, DoesToDisk, disk
<1>7. CASE \/ \E p \in Paths :
                \/ StartTemporary(s, p) \/ EndTemporary(s, p) \/ DiscardTemporary(s, p)
                \/ FinishDelete(s, p) \/ FinishRename(s, p)
           \/ \E d \in task[s].changed : FinishSync(s, d)
  <2>1. KeepsJournals /\ happened' = happened
    BY <1>7 DEF StartTemporary, EndTemporary, DiscardTemporary, FinishDelete, FinishRename,
                FinishSync, KeepsJournals, journals, history
  <2>2. QED
    BY <1>7, <2>1 DEF DoesToDisk
<1>8. CASE \/ Recover(s) \/ RecoverUnreadable(s) \/ Opened(s) \/ Refuse(s)
           \/ TemporaryFails(s) \/ CommitJournalFails(s) \/ DiscardFails(s)
           \/ FinishRetries(s) \/ FinishFails(s)
  BY <1>8 DEF Recover, RecoverUnreadable, Opened, Refuse, TemporaryFails, CommitJournalFails,
              DiscardFails, FinishRetries, FinishFails, KeepsJournals, DoesToDisk,
              journals, history
<1>9. QED
  BY <1>1, <1>2, <1>3, <1>4, <1>5, <1>6, <1>7, <1>8 DEF Work

LEMMA WorkForced ==
  ASSUME IInv, JInv, GInv, Gentle, NEW s \in Stores, Work(s)
  PROVE  Forced'
<1>1. CASE Prepares(s) \/ Commits(s)
  BY <1>1 DEF Prepares, Commits, Forced
<1>2. CASE Removes(s)
  BY <1>2 DEF Removes, Forced, NoJournal
<1>3. CASE KeepsJournals
  BY <1>3 DEF KeepsJournals, GInv, Forced, JournalsLeft
<1>4. QED
  BY <1>1, <1>2, <1>3, WorkIs

LEMMA WorkNotYetThere ==
  ASSUME IInv, JInv, GInv, Gentle, NEW s \in Stores, Work(s)
  PROVE  NotYetThere'
<1>1. /\ \A i \in Ids : NotBegun(i) => \A j \in JournalsLeft : j.id # i
      /\ \A j \in JournalsLeft : j.state = "prepared" => j.id \notin happened
      /\ TypeOK /\ KnowsItsCommit(s)
  BY DEF GInv, NotYetThere, IInv, OwnSteps
<1>2. \A i \in Ids : NotBegun(i)' =>
        NotBegun(i) /\ (i = task[s].id => ~Begun(s) /\ happened' = happened)
  BY WorkNotBegun
<1>3. CASE Prepares(s)
  <2>1. /\ JournalsLeft' = {task[s].journal} /\ happened' = happened
        /\ task[s].journal.id = task[s].id /\ task[s].id \in Ids
        /\ \A i \in Ids : NotBegun(i)' => i # task[s].id
    BY <1>1, <1>3 DEF Prepares, KnowsItsCommit
  <2>2. task[s].id \notin happened
    BY <1>3, <2>1 DEF Prepares, IInv, NothingBefore, Begun
  <2>3. QED
    BY <2>1, <2>2 DEF NotYetThere
<1>4. CASE Commits(s)
  <2>1. /\ JournalsLeft' = {Committed(s)} /\ task[s].step = "writing"
        /\ Committed(s).id = task[s].id /\ Committed(s).state = "committed"
    BY <1>1, <1>4, CommittedIs DEF Commits, KnowsItsCommit
  <2>2. \A i \in Ids : NotBegun(i)' => i # task[s].id
    BY <1>2, <2>1 DEF Begun
  <2>3. QED
    BY <2>1, <2>2 DEF NotYetThere
<1>5. CASE Removes(s)
  <2>1. JournalsLeft' \subseteq JournalsLeft \cup {NoJournal} /\ happened' = happened
    BY <1>5 DEF Removes
  <2>2. NoJournal.state # "prepared" /\ NoJournal.id \notin Ids
    BY JournalAssumption DEF NoJournal
  <2>3. QED
    BY <1>1, <1>2, <2>1, <2>2 DEF NotYetThere
<1>6. CASE KeepsJournals /\ NothingToDo(s)
  <2>1. JournalsLeft' = JournalsLeft
    BY <1>6 DEF KeepsJournals, JournalsLeft
  <2>2. task[s].id \in Ids /\ NotBegun(task[s].id) /\ happened' = happened \cup {task[s].id}
    BY <1>6 DEF NothingToDo, NotBegun, Begun
  <2>3. QED
    BY <1>1, <1>2, <2>1, <2>2 DEF NotYetThere
<1>7. CASE KeepsJournals /\ happened' = happened
  <2>1. JournalsLeft' = JournalsLeft
    BY <1>7 DEF KeepsJournals, JournalsLeft
  <2>2. QED
    BY <1>1, <1>2, <1>7, <2>1 DEF NotYetThere
<1>8. QED
  BY <1>3, <1>4, <1>5, <1>6, <1>7, WorkIs

(* What is left for a Path, if the disk stays as it is.                    *)
LEMMA DiskKept ==
  ASSUME UNCHANGED disk
  PROVE  Disk' = Disk /\ cached' = cached /\ \A p \in Paths : Left(p)' = Left(p)
<1>1. cached' = cached /\ stable' = stable
  BY DEF disk
<1>2. QED
  BY <1>1 DEF Disk, Left

(* A step shows the same as before, and leaves the Commits whole.          *)
Unseen == View' = View /\ ShowsTheSame' /\ AllWhole'

(* It is enough to look at one Path, one journal and what is on disk.      *)
LEMMA UnseenIf ==
  ASSUME asked' = asked, KeepsJournals,
         \A p \in Paths : View'[p] = View[p],
         \A p \in Paths, j \in JournalsLeft : \A e \in Left(p)' :
           /\ Shown(j, p, e) = View[p]
           /\ j.state = "committed" /\ p \in j.writes =>
                \/ e.temps[j.id] = asked[j.id].sets[p]
                \/ e.temps[j.id] = Absent /\ e.file = asked[j.id].sets[p],
         \A j \in JournalsLeft : j.writes \subseteq Paths
  PROVE  Unseen
<1>1. JournalsLeft' = JournalsLeft
  BY DEF KeepsJournals, JournalsLeft
<1>2. View' = View
  BY DEF View
<1>3. ShowsTheSame'
  BY <1>1 DEF ShowsTheSame, Shown
<1>4. AllWhole'
  BY <1>1 DEF AllWhole, Whole
<1>5. QED
  BY <1>2, <1>3, <1>4 DEF Unseen

LEMMA JournalsLeftType ==
  ASSUME IInv, JInv, NEW j \in JournalsLeft
  PROVE  j \in Journals /\ j.writes \subseteq Paths /\ Agrees(j)
<1>1. j \in Journals /\ Agrees(j)
  BY JournalsLeftAre DEF IInv, TypeOK, JInv, JournalsAgree
<1>2. QED
  BY <1>1 DEF Journals

LEMMA LeftNextIs ==
  ASSUME NEW p
  PROVE  \A e : e \in Left(p)' <=> e = cached'[p] \/ ("power" \in Faults /\ e = stable'[p])
BY DEF Left

(* What GInv says of one Path, one journal and what is on disk.            *)
LEMMA ShownIs ==
  ASSUME GInv, NEW p \in Paths, NEW j \in JournalsLeft, NEW e \in Left(p)
  PROVE  /\ Shown(j, p, e) = View[p]
         /\ j.state = "committed" /\ p \in j.writes =>
              \/ e.temps[j.id] = asked[j.id].sets[p]
              \/ e.temps[j.id] = Absent /\ e.file = asked[j.id].sets[p]
BY DEF GInv, ShowsTheSame, AllWhole, Whole

LEMMA KeptUnseen ==
  ASSUME IInv, JInv, GInv, asked' = asked, KeepsJournals, UNCHANGED disk
  PROVE  Unseen
<1>1. \A p \in Paths : View'[p] = View[p]
  BY ViewIs, ViewIsNext DEF KeepsJournals, disk
<1>2. \A p \in Paths : Left(p)' = Left(p)
  BY DiskKept
<1>3. \A p \in Paths, j \in JournalsLeft : \A e \in Left(p)' :
        /\ Shown(j, p, e) = View[p]
        /\ j.state = "committed" /\ p \in j.writes =>
             \/ e.temps[j.id] = asked[j.id].sets[p]
             \/ e.temps[j.id] = Absent /\ e.file = asked[j.id].sets[p]
  BY <1>2, ShownIs
<1>4. \A j \in JournalsLeft : j.writes \subseteq Paths
  BY JournalsLeftType
<1>5. QED
  BY <1>1, <1>3, <1>4, UnseenIf

(* The temporary files of a Commit that hasn't happened are not shown.     *)
LEMMA TempsUnseen ==
  ASSUME IInv, JInv, GInv, asked' = asked, KeepsJournals, NEW i \in Ids, i \notin happened,
         \A p \in Paths : cached'[p].file = cached[p].file /\ stable'[p].file = stable[p].file,
         \A p \in Paths, k \in Ids : k # i =>
           /\ cached'[p].temps[k] = cached[p].temps[k]
           /\ stable'[p].temps[k] = stable[p].temps[k]
  PROVE  Unseen
<1>1. ASSUME NEW j \in JournalsLeft, j.state = "committed"
      PROVE  j.id \in Ids /\ j.id # i
  <2>1. j.id \in happened
    BY <1>1, JournalsLeftAre DEF IInv, HappenedIsWhole
  <2>2. QED
    BY <2>1 DEF IInv, TypeOK
<1>2. ASSUME NEW p \in Paths, NEW j \in JournalsLeft
      PROVE  /\ Shown(j, p, cached'[p]) = Shown(j, p, cached[p])
             /\ Shown(j, p, stable'[p]) = Shown(j, p, stable[p])
  BY <1>1 DEF Shown
<1>3. ASSUME NEW p \in Paths
      PROVE  View'[p] = View[p]
  <2>1. journal' = journal /\ journal \in JournalsLeft
    BY JournalsLeftAre DEF KeepsJournals
  <2>2. QED
    BY <1>2, <2>1, ViewIs, ViewIsNext
<1>4. ASSUME NEW p \in Paths, NEW j \in JournalsLeft, NEW e \in Left(p)'
      PROVE  /\ Shown(j, p, e) = View[p]
             /\ j.state = "committed" /\ p \in j.writes =>
                  \/ e.temps[j.id] = asked[j.id].sets[p]
                  \/ e.temps[j.id] = Absent /\ e.file = asked[j.id].sets[p]
  <2>1. PICK f \in Left(p) : /\ Shown(j, p, e) = Shown(j, p, f) /\ e.file = f.file
                             /\ j.state = "committed" => e.temps[j.id] = f.temps[j.id]
    <3>1. CASE e = cached'[p]
      BY <1>1, <1>2, <3>1, LeftIs
    <3>2. CASE "power" \in Faults /\ e = stable'[p]
      BY <1>1, <1>2, <3>2, LeftIs
    <3>3. QED
      BY <3>1, <3>2, LeftNextIs
  <2>2. QED
    BY <2>1, ShownIs
<1>5. \A j \in JournalsLeft : j.writes \subseteq Paths
  BY JournalsLeftType
<1>6. QED
  BY <1>3, <1>4, <1>5, UnseenIf

(* Before the journal is committed, and after, what is left of it to rename  *)
(* or delete is what the Files are.                                          *)
LEMMA PreparesUnseen ==
  ASSUME IInv, JInv, GInv, NEW s \in Stores, Work(s), Prepares(s)
  PROVE  Unseen
<1>1. /\ journal.state = "none" /\ journal'.state = "prepared" /\ JournalsLeft' = {journal'}
      /\ UNCHANGED disk
  BY DEF Prepares, JInv, KnowsItsJournal, IInv, OwnSteps, KnowsItsCommit
<1>2. ASSUME NEW p \in Paths
      PROVE  /\ View[p] = cached[p].file
             /\ \A e \in Left(p) : e.file = cached[p].file
  BY <1>1, FilesAreShown DEF GInv, Disk
<1>3. ASSUME NEW p \in Paths
      PROVE  View'[p] = View[p]
  BY <1>1, <1>2, ViewIsNext DEF Shown, disk
<1>4. View' = View
  BY <1>3 DEF View
<1>5. ShowsTheSame'
  <2>1. ASSUME NEW p \in Paths, NEW e \in Left(p)', NEW j \in JournalsLeft'
        PROVE  Shown(j, p, e) = View'[p]
    <3>1. e \in Left(p) /\ j.state = "prepared"
      BY <1>1, DiskKept
    <3>2. QED
      BY <1>2, <1>3, <3>1 DEF Shown
  <2>2. QED
    BY <2>1 DEF ShowsTheSame, Shown
<1>6. AllWhole'
  BY <1>1 DEF AllWhole, Whole
<1>7. QED
  BY <1>4, <1>5, <1>6 DEF Unseen

LEMMA RemovesUnseen ==
  ASSUME IInv, JInv, GInv, NEW s \in Stores, Work(s), Removes(s)
  PROVE  Unseen
<1>1. /\ journal' = NoJournal /\ NoJournal.state = "none"
      /\ JournalsLeft' \subseteq JournalsLeft \cup {NoJournal}
      /\ UNCHANGED disk /\ asked' = asked
  BY WorkTask DEF Removes, NoJournal
<1>2. ASSUME NEW p \in Paths
      PROVE  /\ View[p] = cached[p].file
             /\ \A e \in Left(p) : e.file = cached[p].file
  <2>1. CASE task[s].step = "discarding"
    BY <2>1, FilesAreShown DEF GInv, Disk, JInv, KnowsItsJournal
  <2>2. CASE task[s].step = "finishing"
    <3>1. /\ journal = task[s].journal /\ journal.state = "committed"
          /\ task[s].todo = {} /\ task[s].changed = {}
      BY <2>2 DEF JInv, KnowsItsJournal, Removes
    <3>2. \A e \in Left(p) : Done(journal, p, e)
      BY <2>2, <3>1, LeftIs DEF GInv, KnowsWhatIsDone
    <3>3. \A e \in Left(p) : Shown(journal, p, e) = e.file
      BY <3>2 DEF Done, Shown
    <3>4. \A e \in Left(p) : Shown(journal, p, e) = View[p]
      BY ShownIs, JournalsLeftAre
    <3>5. cached[p] \in Left(p)
      BY LeftIs
    <3>6. QED
      BY <3>3, <3>4, <3>5
  <2>3. QED
    BY <2>1, <2>2 DEF Removes
<1>3. ASSUME NEW p \in Paths
      PROVE  View'[p] = View[p]
  BY <1>1, <1>2, ViewIsNext DEF Shown, disk
<1>4. View' = View
  BY <1>3 DEF View
<1>5. ShowsTheSame'
  <2>1. ASSUME NEW p \in Paths, NEW e \in Left(p)', NEW j \in JournalsLeft'
        PROVE  Shown(j, p, e) = View'[p]
    <3>1. e \in Left(p) /\ (j \in JournalsLeft \/ j.state = "none")
      BY <1>1, DiskKept
    <3>2. CASE j \in JournalsLeft
      BY <1>3, <3>1, <3>2, ShownIs
    <3>3. CASE j.state = "none"
      BY <1>2, <1>3, <3>1, <3>3 DEF Shown
    <3>4. QED
      BY <3>1, <3>2, <3>3
  <2>2. QED
    BY <2>1 DEF ShowsTheSame, Shown
<1>6. AllWhole'
  <2>1. ASSUME NEW j \in JournalsLeft', j.state = "committed", NEW p \in j.writes,
               NEW e \in Left(p)'
        PROVE  \/ e.temps[j.id] = asked[j.id].sets[p]
               \/ e.temps[j.id] = Absent /\ e.file = asked[j.id].sets[p]
    <3>1. j \in JournalsLeft
      BY <1>1, <2>1
    <3>2. p \in Paths /\ e \in Left(p)
      BY <1>1, <3>1, JournalsLeftType, DiskKept
    <3>3. QED
      BY <2>1, <3>1, <3>2, ShownIs
  <2>2. QED
    BY <1>1, <2>1 DEF AllWhole, Whole
<1>7. QED
  BY <1>4, <1>5, <1>6 DEF Unseen

(* A request makes of each Path what it writes there, or deletes it, or      *)
(* leaves it as it is.                                                       *)
LEMMA MadeIs ==
  ASSUME NEW r \in Requests, NEW f \in Files, NEW p \in Paths
  PROVE  /\ p \in Written(r, f) => Made(r, f)[p] = r.sets[p] /\ r.sets[p] # Absent
         /\ p \in Deleted(r, f) => Made(r, f)[p] = Absent /\ f[p] # Absent
         /\ p \notin Written(r, f) \cup Deleted(r, f) => Made(r, f)[p] = f[p]
<1>1. r.sets[p] \in Contents \cup {Absent, Keep} /\ f[p] \in Contents \cup {Absent}
  BY RequestsAssumption DEF AllRequests, Files
<1>2. Absent \notin Contents /\ Keep \notin Contents /\ Keep # Absent
  BY RequestsAssumption
<1>3. Made(r, f)[p] = IF r.sets[p] = Keep THEN f[p] ELSE r.sets[p]
  BY DEF Made
<1>4. QED
  BY <1>1, <1>2, <1>3 DEF Written, Deleted

LEMMA AskedIs ==
  ASSUME IInv, NEW s \in Stores, task[s].id \in Ids
  PROVE  asked[task[s].id] \in Requests
BY DEF IInv, TypeOK, OwnCommits

LEMMA DiskType ==
  ASSUME TypeOK
  PROVE  Disk \in Files
BY DEF Disk, Files, TypeOK, Entries

(* A Commit happens whole, of the Files that are shown.                      *)
LEMMA CommitsMakes ==
  ASSUME IInv, JInv, GInv, NEW s \in Stores, Work(s), Commits(s)
  PROVE  /\ Holds(asked[task[s].id], View)
         /\ View' = Made(asked[task[s].id], View)
         /\ ShowsTheSame' /\ AllWhole'
<1> DEFINE r == asked[task[s].id]
           c == Committed(s)
<1>1. /\ task[s].step = "writing" /\ task[s].todo = {} /\ task[s].id \in Ids
      /\ journal' = c /\ JournalsLeft' = {c} /\ UNCHANGED disk /\ asked' = asked
      /\ journal.state # "committed" /\ task[s].journal = Planned(s) /\ Holds(r, Disk)
      /\ \A p \in Planned(s).writes : \A e \in Left(p) : e.temps[task[s].id] = r.sets[p]
  BY WorkTask
     DEF Commits, JInv, KnowsItsJournal, IInv, OwnSteps, KnowsItsCommit, GInv, HoldsToItsPlan
<1>2. r \in Requests /\ Disk \in Files /\ TypeOK
  BY <1>1, AskedIs, DiskType DEF IInv
<1>3. /\ c.state = "committed" /\ c.id = task[s].id
      /\ c.writes = Written(r, Disk) /\ Removed(c) = Deleted(r, Disk)
      /\ \A p \in Removed(c) : c.removes[p] = Disk[p]
  <2>1. /\ c.state = "committed" /\ c.id = task[s].journal.id
        /\ c.writes = Planned(s).writes /\ c.removes = Planned(s).removes
        /\ Removed(c) = Removed(Planned(s))
    BY <1>1, <1>2, CommittedIs
  <2>2. Removed(Planned(s)) = Deleted(r, Disk)
    BY <1>1, AgreesPlanned
  <2>3. /\ Planned(s).id = task[s].id /\ Planned(s).writes = Written(r, Disk)
        /\ \A p \in Deleted(r, Disk) : Planned(s).removes[p] = Disk[p]
    BY DEF Planned, Deleted
  <2>4. QED
    BY <1>1, <2>1, <2>2, <2>3
<1> HIDE DEF r, c
<1>4. ASSUME NEW p \in Paths
      PROVE  View[p] = Disk[p] /\ \A e \in Left(p) : e.file = Disk[p]
  BY <1>1, FilesAreShown DEF GInv
<1>5. ASSUME NEW p \in Paths, NEW e \in Left(p)
      PROVE  /\ Shown(c, p, e) = Made(r, Disk)[p]
             /\ p \in c.writes => e.temps[c.id] = r.sets[p]
  <2>1. e.file = Disk[p]
    BY <1>4, <1>5
  <2>2. p \in c.writes => e.temps[c.id] = r.sets[p]
    BY <1>1, <1>3, <1>5 DEF Planned, r
  <2>3. /\ p \in c.writes => Made(r, Disk)[p] = r.sets[p] /\ r.sets[p] # Absent
        /\ p \in Removed(c) => Made(r, Disk)[p] = Absent
        /\ p \notin c.writes \cup Removed(c) => Made(r, Disk)[p] = Disk[p]
    BY <1>2, <1>3, MadeIs
  <2>4. p \in Removed(c) => c.removes[p] = Disk[p] /\ p \notin c.writes
    BY <1>2, <1>3, RequestsAssumption DEF Written, Deleted
  <2>5. QED
    BY <1>3, <2>1, <2>2, <2>3, <2>4 DEF Shown
<1>6. \A p \in Paths : Left(p)' = Left(p) /\ cached'[p] \in Left(p)
  BY <1>1, DiskKept, LeftIs DEF disk
<1>7. Disk = View
  BY <1>4 DEF Disk, View
<1>8. ASSUME NEW p \in Paths
      PROVE  View'[p] = Made(r, Disk)[p]
  BY <1>1, <1>5, <1>6, ViewIsNext
<1>9. View' = Made(r, View)
  BY <1>7, <1>8 DEF View, Made
<1>10. ShowsTheSame'
  BY <1>1, <1>5, <1>6, <1>8 DEF ShowsTheSame, Shown
<1>11. AllWhole'
  <2>1. c.writes \subseteq Paths
    BY <1>3 DEF Written
  <2>2. ASSUME NEW p \in c.writes, NEW e \in Left(p)'
        PROVE  e.temps[c.id] = asked'[c.id].sets[p]
    BY <1>1, <1>3, <1>5, <1>6, <2>1, <2>2 DEF r
  <2>3. QED
    BY <1>1, <2>2 DEF AllWhole, Whole
<1>12. QED
  BY <1>1, <1>7, <1>9, <1>10, <1>11 DEF r

(* Finishing a Path, or forcing a directory to disk, shows nothing new.      *)
LEMMA DeleteUnseen ==
  ASSUME IInv, JInv, GInv, Gentle, NEW s \in Stores, Work(s),
         NEW p \in Paths, FinishDelete(s, p)
  PROVE  Unseen
<1> DEFINE j == task[s].journal
<1>1. /\ journal = j /\ j.state = "committed" /\ p \in task[s].todo \cap Removed(j)
      /\ KeepsJournals /\ stable' = stable /\ asked' = asked
      /\ TypeOK /\ p \notin j.writes /\ j.removes[p] # Absent
  BY RecoversOfACommit
     DEF FinishDelete, Busy, JInv, KnowsItsJournal, KeepsJournals, journals, history,
         IInv, Removed
<1>2. /\ \A q \in Paths :
           /\ cached'[q].file = IF q = p /\ Deletes(s, p) THEN Absent ELSE cached[q].file
           /\ cached'[q].temps = cached[q].temps
  BY <1>1, FinishDeleteIs
<1>3. Deletes(s, p) => cached[p].file = j.removes[p]
  BY <1>1 DEF Deletes, GInv, KnowsWhatIsDone, FinishDelete, Busy, Disk
<1>4. \A k \in JournalsLeft : k = j
  BY <1>1 DEF GInv, Forced
<1> HIDE DEF j
<1>5. ASSUME NEW q \in Paths
      PROVE  Shown(j, q, cached'[q]) = Shown(j, q, cached[q])
  BY <1>1, <1>2, <1>3 DEF Shown
<1>6. ASSUME NEW q \in Paths
      PROVE  View'[q] = View[q]
  BY <1>1, <1>5, ViewIs, ViewIsNext DEF KeepsJournals
<1>7. ASSUME NEW q \in Paths, NEW k \in JournalsLeft, NEW e \in Left(q)'
      PROVE  /\ Shown(k, q, e) = View[q]
             /\ k.state = "committed" /\ q \in k.writes =>
                  \/ e.temps[k.id] = asked[k.id].sets[q]
                  \/ e.temps[k.id] = Absent /\ e.file = asked[k.id].sets[q]
  <2>1. CASE e = cached'[q]
    <3>1. k = j /\ cached[q] \in Left(q)
      BY <1>4, LeftIs
    <3>2. /\ Shown(k, q, cached[q]) = View[q]
          /\ k.state = "committed" /\ q \in k.writes =>
               \/ cached[q].temps[k.id] = asked[k.id].sets[q]
               \/ cached[q].temps[k.id] = Absent /\ cached[q].file = asked[k.id].sets[q]
      BY <3>1, ShownIs
    <3>3. q \in k.writes => q # p
      BY <1>1, <3>1
    <3>4. Shown(k, q, e) = View[q]
      BY <1>5, <2>1, <3>1, <3>2
    <3>5. q # p => e.file = cached[q].file /\ e.temps = cached[q].temps
      BY <1>2, <2>1
    <3>6. QED
      BY <3>2, <3>3, <3>4, <3>5
  <2>2. CASE "power" \in Faults /\ e = stable'[q]
    BY <1>1, <2>2, ShownIs, LeftIs
  <2>3. QED
    BY <2>1, <2>2, LeftNextIs
<1>8. \A k \in JournalsLeft : k.writes \subseteq Paths
  BY JournalsLeftType
<1>9. QED
  BY <1>1, <1>6, <1>7, <1>8, UnseenIf

LEMMA RenameUnseen ==
  ASSUME IInv, JInv, GInv, Gentle, NEW s \in Stores, Work(s),
         NEW p \in Paths, FinishRename(s, p)
  PROVE  Unseen
<1> DEFINE j == task[s].journal
<1>1. /\ journal = j /\ j.state = "committed" /\ task[s].todo \cap Removed(j) = {}
      /\ p \in task[s].todo
      /\ KeepsJournals /\ stable' = stable /\ asked' = asked
      /\ TypeOK /\ j.id \in Ids
  BY RecoversOfACommit
     DEF FinishRename, Busy, JInv, KnowsItsJournal, KeepsJournals, journals, history, IInv
<1>2. \A q \in Paths :
        /\ cached'[q].file = IF q = p /\ Renames(s, p) THEN cached[p].temps[j.id]
                             ELSE cached[q].file
        /\ \A k \in Ids : cached'[q].temps[k] =
             IF q = p /\ k = j.id /\ Renames(s, p) THEN Absent ELSE cached[q].temps[k]
  BY <1>1, FinishRenameIs
<1>3. /\ \A k \in JournalsLeft : k = j
      /\ j \in JournalsLeft
  BY <1>1, JournalsLeftAre DEF GInv, Forced
<1>4. Renames(s, p) <=> p \in j.writes /\ cached[p].temps[j.id] # Absent
  BY DEF Renames, Temporary
<1> HIDE DEF j
<1>5. ASSUME NEW q \in Paths
      PROVE  /\ Shown(j, q, cached'[q]) = Shown(j, q, cached[q])
             /\ q \in j.writes =>
                  \/ cached'[q].temps[j.id] = asked[j.id].sets[q]
                  \/ /\ cached'[q].temps[j.id] = Absent
                     /\ cached'[q].file = asked[j.id].sets[q]
  <2>1. q \in j.writes =>
          \/ cached[q].temps[j.id] = asked[j.id].sets[q]
          \/ cached[q].temps[j.id] = Absent /\ cached[q].file = asked[j.id].sets[q]
    BY <1>1, <1>3, ShownIs, LeftIs
  <2>2. CASE q = p /\ Renames(s, p)
    <3>1. /\ cached'[q].file = cached[q].temps[j.id] /\ cached'[q].temps[j.id] = Absent
          /\ q \in j.writes /\ cached[q].temps[j.id] # Absent /\ q \notin Removed(j)
      BY <1>1, <1>2, <1>4, <2>2
    <3>2. QED
      BY <1>1, <2>1, <3>1 DEF Shown
  <2>3. CASE ~(q = p /\ Renames(s, p))
    <3>1. cached'[q].file = cached[q].file /\ cached'[q].temps[j.id] = cached[q].temps[j.id]
      BY <1>1, <1>2, <2>3
    <3>2. QED
      BY <2>1, <3>1 DEF Shown
  <2>4. QED
    BY <2>2, <2>3
<1>6. ASSUME NEW q \in Paths
      PROVE  View'[q] = View[q]
  BY <1>1, <1>5, ViewIs, ViewIsNext DEF KeepsJournals
<1>7. ASSUME NEW q \in Paths, NEW k \in JournalsLeft, NEW e \in Left(q)'
      PROVE  /\ Shown(k, q, e) = View[q]
             /\ k.state = "committed" /\ q \in k.writes =>
                  \/ e.temps[k.id] = asked[k.id].sets[q]
                  \/ e.temps[k.id] = Absent /\ e.file = asked[k.id].sets[q]
  <2>1. CASE e = cached'[q]
    <3>1. k = j /\ Shown(j, q, cached[q]) = View[q]
      BY <1>3, ShownIs, LeftIs
    <3>2. QED
      BY <1>5, <2>1, <3>1
  <2>2. CASE "power" \in Faults /\ e = stable'[q]
    BY <1>1, <2>2, ShownIs, LeftIs
  <2>3. QED
    BY <2>1, <2>2, LeftNextIs
<1>8. \A k \in JournalsLeft : k.writes \subseteq Paths
  BY JournalsLeftType
<1>9. QED
  BY <1>1, <1>6, <1>7, <1>8, UnseenIf

LEMMA SyncUnseen ==
  ASSUME IInv, JInv, GInv, NEW s \in Stores, NEW d, FinishSync(s, d)
  PROVE  Unseen
<1>1. /\ KeepsJournals /\ cached' = cached /\ asked' = asked /\ TypeOK
      /\ \A q \in Paths : stable'[q] \in {stable[q], cached[q]}
  BY DEF FinishSync, KeepsJournals, journals, history, IInv
<1>2. \A q \in Paths : View'[q] = View[q]
  BY <1>1, ViewIs, ViewIsNext DEF KeepsJournals
<1>3. ASSUME NEW q \in Paths, NEW e \in Left(q)'
      PROVE  e \in Left(q)
  BY <1>1, LeftIs, LeftNextIs
<1>4. \A q \in Paths, k \in JournalsLeft : \A e \in Left(q)' :
        /\ Shown(k, q, e) = View[q]
        /\ k.state = "committed" /\ q \in k.writes =>
             \/ e.temps[k.id] = asked[k.id].sets[q]
             \/ e.temps[k.id] = Absent /\ e.file = asked[k.id].sets[q]
  BY <1>3, ShownIs
<1>5. \A k \in JournalsLeft : k.writes \subseteq Paths
  BY JournalsLeftType
<1>6. QED
  BY <1>1, <1>2, <1>4, <1>5, UnseenIf

LEMMA DiskStepUnseen ==
  ASSUME IInv, JInv, GInv, Gentle, NEW s \in Stores, Work(s), KeepsJournals, DoesToDisk(s)
  PROVE  Unseen
<1>1. asked' = asked /\ TypeOK /\ KnowsItsCommit(s) /\ KnowsItsJournal(s)
  BY WorkTask DEF IInv, OwnSteps, JInv
<1>2. CASE UNCHANGED disk
  BY <1>1, <1>2, KeptUnseen
<1>3. ASSUME NEW p \in Paths, StartTemporary(s, p) \/ EndTemporary(s, p)
      PROVE  Unseen
  <2>1. task[s].id \in Ids /\ task[s].id \notin happened
    BY <1>1, <1>3 DEF StartTemporary, EndTemporary, Busy, KnowsItsCommit
  <2>2. CASE StartTemporary(s, p)
    <3>1. stable' = stable
      BY <2>2 DEF StartTemporary
    <3>2. \A q \in Paths :
            /\ cached'[q].file = cached[q].file
            /\ \A k \in Ids : k # task[s].id => cached'[q].temps[k] = cached[q].temps[k]
      BY <2>2, StartTemporaryIs
    <3>3. QED
      BY <1>1, <2>1, <3>1, <3>2, TempsUnseen
  <2>3. CASE EndTemporary(s, p)
    <3>1. \A q \in Paths :
            /\ cached'[q].file = cached[q].file /\ stable'[q].file = stable[q].file
            /\ \A k \in Ids : k # task[s].id =>
                 /\ cached'[q].temps[k] = cached[q].temps[k]
                 /\ stable'[q].temps[k] = stable[q].temps[k]
      BY <2>3, EndTemporaryIs
    <3>2. QED
      BY <1>1, <2>1, <3>1, TempsUnseen
  <2>4. QED
    BY <1>3, <2>2, <2>3
<1>4. ASSUME NEW p \in Paths, DiscardTemporary(s, p)
      PROVE  Unseen
  <2>1. /\ task[s].step = "discarding" /\ p \in task[s].todo /\ stable' = stable
        /\ task[s].journal.id \in Ids
    BY <1>4, RecoversOfACommit DEF DiscardTemporary, Busy
  <2>2. journal = task[s].journal /\ journal.state = "prepared"
    BY <1>1, <2>1 DEF KnowsItsJournal
  <2>3. task[s].journal.id \notin happened
    BY <2>2, JournalsLeftAre DEF GInv, NotYetThere
  <2>4. \A q \in Paths :
          /\ cached'[q].file = cached[q].file
          /\ \A k \in Ids : k # task[s].journal.id => cached'[q].temps[k] = cached[q].temps[k]
    BY <1>1, <1>4, <2>1, DiscardTemporaryIs
  <2>5. QED
    BY <1>1, <2>1, <2>3, <2>4, TempsUnseen
<1>5. ASSUME NEW p \in Paths, FinishDelete(s, p) \/ FinishRename(s, p)
      PROVE  Unseen
  BY <1>5, DeleteUnseen, RenameUnseen
<1>6. ASSUME NEW d \in task[s].changed, FinishSync(s, d)
      PROVE  Unseen
  BY <1>6, SyncUnseen
<1>7. QED
  BY <1>2, <1>3, <1>4, <1>5, <1>6 DEF DoesToDisk

(* A working Store shows nothing new, but for the moment its Commit happens: *)
(* then all of it is shown, of Files of which its Preconditions hold.        *)
LEMMA WorkShows ==
  ASSUME IInv, JInv, GInv, Gentle, NEW s \in Stores, Work(s)
  PROVE  /\ ShowsTheSame' /\ AllWhole'
         /\ \/ happened' = happened /\ View' = View
            \/ /\ task[s].id \in Ids \ happened
               /\ happened' = happened \cup {task[s].id}
               /\ Holds(asked[task[s].id], View)
               /\ View' = Made(asked[task[s].id], View)
<1>1. asked' = asked /\ TypeOK /\ KnowsItsCommit(s) /\ KnowsItsJournal(s)
  BY WorkTask DEF IInv, OwnSteps, JInv
<1>2. CASE Prepares(s)
  BY <1>2, PreparesUnseen DEF Unseen, Prepares
<1>3. CASE Removes(s)
  BY <1>3, RemovesUnseen DEF Unseen, Removes
<1>4. CASE Commits(s)
  <2>1. task[s].id \in Ids \ happened /\ happened' = happened \cup {task[s].id}
    BY <1>1, <1>4 DEF Commits, KnowsItsCommit
  <2>2. QED
    BY <1>4, <2>1, CommitsMakes
<1>5. CASE KeepsJournals /\ NothingToDo(s)
  <2>1. /\ task[s].id \in Ids /\ task[s].step = "ready" /\ Holds(asked[task[s].id], Disk)
        /\ Planned(s).writes = {} /\ Removed(Planned(s)) = {}
        /\ UNCHANGED disk /\ happened' = happened \cup {task[s].id}
    BY <1>5 DEF NothingToDo
  <2>2. task[s].id \notin happened
    BY <2>1 DEF IInv, NothingBefore, Begun
  <2>3. Unseen
    BY <1>1, <1>5, <2>1, KeptUnseen
  <2>4. \A p \in Paths : View[p] = Disk[p]
    BY <1>1, <2>1, FilesAreShown DEF KnowsItsJournal, GInv
  <2>5. View = Disk
    BY <2>4 DEF View, Disk
  <2>6. Written(asked[task[s].id], Disk) = {} /\ Deleted(asked[task[s].id], Disk) = {}
    <3>1. Written(asked[task[s].id], Disk) = {}
      BY <2>1 DEF Planned
    <3>2. QED
      BY <2>1, <3>1, AgreesPlanned
  <2>7. asked[task[s].id] \in Requests /\ Disk \in Files
    BY <1>1, <2>1, AskedIs, DiskType
  <2>8. \A p \in Paths : Made(asked[task[s].id], Disk)[p] = Disk[p]
    BY <2>6, <2>7, MadeIs
  <2>9. Made(asked[task[s].id], View) = View
    BY <2>5, <2>8 DEF Made, Disk
  <2>10. QED
    BY <2>1, <2>2, <2>3, <2>5, <2>9 DEF Unseen
<1>6. CASE KeepsJournals /\ happened' = happened /\ DoesToDisk(s)
  BY <1>6, DiskStepUnseen DEF Unseen
<1>7. QED
  BY <1>2, <1>3, <1>4, <1>5, <1>6, WorkIs

(* A Store holds to its plan until its Commit happens.                     *)
LEMMA WorkHoldsToItsPlan ==
  ASSUME IInv, JInv, GInv, Gentle, NEW s \in Stores, Work(s)
  PROVE  HoldsToItsPlan(s)'
<1> DEFINE i == task[s].id
<1>1. /\ TypeOK /\ KnowsItsCommit(s) /\ HoldsToItsPlan(s) /\ asked' = asked
      /\ task[s] \in Tasks
  BY WorkTask DEF IInv, TypeOK, OwnSteps, GInv
<1>2. ASSUME task'[s].step \notin {"preparing", "writing"}
      PROVE  HoldsToItsPlan(s)'
  BY <1>2 DEF HoldsToItsPlan
<1>3. ASSUME UNCHANGED disk, task'[s].id = task[s].id, task'[s].journal = Planned(s),
             Holds(asked[i], Disk),
             \A p \in Planned(s).writes \ task'[s].todo : \A e \in Left(p) :
               e.temps[i] = asked[i].sets[p]
      PROVE  HoldsToItsPlan(s)'
  <2>1. Disk' = Disk /\ \A p \in Paths : Left(p)' = Left(p)
    BY <1>3, DiskKept
  <2>2. Planned(s).writes \subseteq Paths
    BY DEF Planned, Written
  <2>3. Planned(s)' = Planned(s)
    BY <1>1, <1>3, <2>1 DEF Planned
  <2>4. QED
    BY <1>1, <1>3, <2>1, <2>2, <2>3 DEF HoldsToItsPlan
<1>4. CASE Plan(s)
  <2>1. UNCHANGED disk /\ Holds(asked[i], Disk)
    BY <1>1, <1>4, PlanIs DEF disk
  <2>2. QED
    BY <1>1, <1>2, <1>3, <1>4, <2>1, PlanIs
<1>5. CASE Prepare(s)
  <2>1. UNCHANGED disk /\ task[s].step = "preparing"
    BY <1>5 DEF Prepare, Busy
  <2>2. /\ task'[s].id = task[s].id /\ task'[s].journal = task[s].journal
        /\ task'[s].todo = task[s].todo
    BY <1>1, <1>5, PrepareIs
  <2>3. QED
    BY <1>1, <1>3, <2>1, <2>2 DEF HoldsToItsPlan
<1>6. ASSUME NEW p \in Paths, StartTemporary(s, p) \/ EndTemporary(s, p)
      PROVE  HoldsToItsPlan(s)'
  <2>1. /\ task[s].step = "writing" /\ i \in Ids /\ p \in task[s].todo
        /\ Holds(asked[i], Disk) /\ task[s].journal = Planned(s)
        /\ \A q \in Planned(s).writes \ task[s].todo : \A e \in Left(q) :
             e.temps[i] = asked[i].sets[q]
    BY <1>1, <1>6 DEF StartTemporary, EndTemporary, Busy, KnowsItsCommit, HoldsToItsPlan
  <2>2. /\ task'[s].id = task[s].id /\ task'[s].journal = Planned(s)
        /\ \A q \in Paths : cached'[q].file = cached[q].file
        /\ \A q \in Planned(s).writes \ task'[s].todo : \A e \in Left(q)' :
             e.temps[i] = asked[i].sets[q]
    <3>1. CASE StartTemporary(s, p)
      <4>1. task' = task /\ stable' = stable
        BY <3>1 DEF StartTemporary
      <4>2. \A q \in Paths :
              /\ cached'[q].file = cached[q].file
              /\ q # p => cached'[q].temps[i] = cached[q].temps[i]
        BY <2>1, <3>1, StartTemporaryIs
      <4>3. Planned(s).writes \subseteq Paths
        BY DEF Planned, Written
      <4>4. QED
        BY <2>1, <4>1, <4>2, <4>3, LeftIs, LeftNextIs
    <3>2. CASE EndTemporary(s, p)
      <4>1. GoesOn(s) /\ task'[s].todo = task[s].todo \ {p}
        BY <3>2, EndTemporaryIs
      <4>2. \A q \in Paths :
              /\ cached'[q].file = cached[q].file
              /\ cached'[q].temps[i] = IF q = p THEN asked[i].sets[p] ELSE cached[q].temps[i]
              /\ stable'[q].temps[i] = IF q = p THEN asked[i].sets[p] ELSE stable[q].temps[i]
        BY <2>1, <3>2, EndTemporaryIs
      <4>3. Planned(s).writes \subseteq Paths
        BY DEF Planned, Written
      <4>4. QED
        BY <2>1, <4>1, <4>2, <4>3, LeftIs, LeftNextIs DEF GoesOn
    <3>3. QED
      BY <1>6, <3>1, <3>2
  <2>3. Disk' = Disk
    BY <2>2 DEF Disk
  <2>4. Planned(s)' = Planned(s)
    BY <1>1, <2>2, <2>3 DEF Planned
  <2>5. QED
    BY <1>1, <2>1, <2>2, <2>3, <2>4 DEF HoldsToItsPlan
<1>7. ASSUME NEW a, Answer(s, a)
      PROVE  HoldsToItsPlan(s)'
  BY <1>1, <1>2, <1>7, AnswerIs
<1>8. CASE \/ RecoverUnreadable(s) \/ Refuse(s) \/ DiscardFails(s) \/ FinishFails(s)
           \/ PrepareFails(s) \/ CommitJournalUnreadable(s)
  BY <1>7, <1>8 DEF RecoverUnreadable, Refuse, DiscardFails, FinishFails, PrepareFails,
                    CommitJournalUnreadable
<1>9. CASE Opened(s)
  BY <1>1, <1>2, <1>9, LeaveIs DEF Opened
<1>10. CASE Recover(s)
  BY <1>1, <1>2, <1>10, RecoverIs
<1>11. CASE TemporaryFails(s) \/ CommitJournalFails(s) \/ CommitJournal(s)
  <2>1. PICK step, j, todo : /\ step \in {"discarding", "finishing"}
                              /\ Begin(s, step, j, todo, "own")
    BY <1>11
       DEF TemporaryFails, CommitJournalFails, StartDiscarding, CommitJournal, StartFinishing
  <2>2. task'[s].step = step
    BY <1>1, <2>1, BeginIs
  <2>3. QED
    BY <1>2, <2>1, <2>2
<1>12. CASE Discarded(s) \/ Finished(s)
  <2>1. PICK a : RemoveJournal(s, a)
    BY <1>12 DEF Discarded, Finished
  <2>2. QED
    BY <1>1, <1>2, <2>1, RemoveJournalIs
<1>13. ASSUME task[s].step \in {"discarding", "finishing"}, GoesOn(s)
       PROVE  HoldsToItsPlan(s)'
  BY <1>2, <1>13 DEF GoesOn
<1>14. ASSUME NEW p \in Paths,
              DiscardTemporary(s, p) \/ FinishDelete(s, p) \/ FinishRename(s, p)
       PROVE  HoldsToItsPlan(s)'
  <2>1. task[s].step \in {"discarding", "finishing"} /\ task[s].journal.id \in Ids
    BY <1>14, RecoversOfACommit DEF DiscardTemporary, FinishDelete, FinishRename, Busy
  <2>2. GoesOn(s)
    BY <1>1, <1>14, <2>1, DiscardTemporaryIs, FinishDeleteIs, FinishRenameIs
  <2>3. QED
    BY <1>13, <2>1, <2>2
<1>15. ASSUME NEW d \in task[s].changed, FinishSync(s, d)
       PROVE  HoldsToItsPlan(s)'
  <2>1. GoesOn(s)
    BY <1>1, <1>15, FinishSyncIs
  <2>2. task[s].step = "finishing"
    BY <1>15 DEF FinishSync, Busy
  <2>3. QED
    BY <1>13, <2>1, <2>2
<1>16. CASE FinishRetries(s)
  BY <1>1, <1>13, <1>16, FinishRetriesIs DEF FinishRetries, Busy
<1>17. QED
  BY <1>4, <1>5, <1>6, <1>8, <1>9, <1>10, <1>11, <1>12, <1>14, <1>15, <1>16 DEF Work

(* A Store that starts finishing a Commit has all of it to do.             *)
LEMMA StartsFinishing ==
  ASSUME NEW j, NEW p, NEW todo, todo = j.writes \cup Removed(j), p \notin todo, NEW e
  PROVE  Done(j, p, e)
BY DEF Done

LEMMA RecoverKnowsWhatIsDone ==
  ASSUME IInv, JInv, GInv, NEW s \in Stores, Work(s), Recover(s)
  PROVE  KnowsWhatIsDone(s)'
<1> SUFFICES ASSUME task'[s].step = "finishing"
             PROVE  KnowsWhatIsDone(s)'
  BY DEF KnowsWhatIsDone
<1>1. /\ journal.state = "committed" /\ task'[s].journal = journal
      /\ task'[s].whose = "found" /\ task'[s].todo = journal.writes \cup Removed(journal)
      /\ cached' = cached /\ stable' = stable /\ task[s].step = "locked"
  BY RecoverIs DEF IInv, Recover, Busy, disk
<1>2. \A t \in Stores : task[t].step # "finishing"
  BY <1>1, OthersWait
<1>3. "power" \in Faults => stable = cached
  BY <1>1, <1>2 DEF GInv, LeftAsForced
<1>4. Again(s)'
  BY <1>1 DEF Again
<1>5. ASSUME NEW p \in Paths, NEW e, p \notin task'[s].todo
      PROVE  Done(journal, p, e)
  BY <1>1, <1>5, StartsFinishing
<1>6. QED
  BY <1>1, <1>3, <1>4, <1>5 DEF KnowsWhatIsDone, Done

LEMMA CommitKnowsWhatIsDone ==
  ASSUME IInv, JInv, GInv, NEW s \in Stores, Work(s), CommitJournal(s)
  PROVE  KnowsWhatIsDone(s)'
<1> DEFINE c == Committed(s)
           r == asked[task[s].id]
<1>1. /\ task'[s].journal = c /\ task'[s].todo = c.writes \cup Removed(c)
      /\ cached' = cached /\ stable' = stable /\ TypeOK
  BY BeginIs DEF CommitJournal, StartFinishing, IInv, disk
<1>2. /\ task[s].step = "writing" /\ task[s].todo = {} /\ task[s].id \in Ids
      /\ task[s].journal = Planned(s)
      /\ \A p \in Planned(s).writes : cached[p].temps[task[s].id] = r.sets[p]
  BY LeftIs DEF CommitJournal, Busy, AllWritten, IInv, OwnSteps, KnowsItsCommit, GInv,
                HoldsToItsPlan
<1>3. /\ c.id = task[s].id /\ c.writes = Written(r, Disk) /\ Removed(c) = Deleted(r, Disk)
      /\ \A p \in Removed(c) : c.removes[p] = Disk[p]
      /\ \A p \in c.writes : cached[p].temps[c.id] = r.sets[p]
  <2>1. /\ c.id = task[s].journal.id
        /\ c.writes = Planned(s).writes /\ c.removes = Planned(s).removes
        /\ Removed(c) = Removed(Planned(s))
    BY <1>1, <1>2, CommittedIs
  <2>2. Removed(Planned(s)) = Deleted(r, Disk)
    BY <1>2, AgreesPlanned
  <2>3. /\ Planned(s).id = task[s].id /\ Planned(s).writes = Written(r, Disk)
        /\ \A p \in Deleted(r, Disk) : Planned(s).removes[p] = Disk[p]
    BY DEF Planned, Deleted
  <2>4. QED
    BY <1>2, <2>1, <2>2, <2>3
<1> HIDE DEF c
<1>4. ASSUME NEW p \in Paths, NEW e, p \notin task'[s].todo
      PROVE  Done(c, p, e)
  BY <1>1, <1>4, StartsFinishing
<1>5. \A p \in Removed(c) : cached[p].file = c.removes[p]
  BY <1>3 DEF Disk, Deleted
<1>6. ASSUME NEW p \in task'[s].todo
      PROVE  ~Done(c, p, cached[p])
  <2>1. CASE p \in Removed(c)
    BY <1>5, <2>1 DEF Done
  <2>2. CASE p \in c.writes
    <3>1. r.sets[p] \in Contents /\ Absent \notin Contents
      BY <1>3, <2>2, RequestsAssumption DEF Written
    <3>2. QED
      BY <1>3, <2>2, <3>1 DEF Done
  <2>3. QED
    BY <1>1, <2>1, <2>2
<1>7. QED
  BY <1>1, <1>4, <1>5, <1>6 DEF KnowsWhatIsDone

LEMMA DeleteKnowsWhatIsDone ==
  ASSUME IInv, JInv, GInv, NEW s \in Stores, Work(s), NEW p \in Paths, FinishDelete(s, p)
  PROVE  KnowsWhatIsDone(s)'
<1> DEFINE j == task[s].journal
<1>1. /\ task[s].step = "finishing" /\ p \in task[s].todo \cap Removed(j)
      /\ stable' = stable /\ TypeOK /\ p \notin j.writes /\ j.removes[p] # Absent
  BY RecoversOfACommit DEF FinishDelete, Busy, IInv, Removed
<1>2. /\ GoesOn(s) /\ task'[s].todo = task[s].todo \ {p} /\ task'[s].tries = task[s].tries
      /\ task'[s].changed = IF Deletes(s, p) THEN task[s].changed \cup {Directory[p]}
                            ELSE task[s].changed
  BY <1>1, FinishDeleteIs
<1>3. \A q \in Paths :
        /\ cached'[q].file = IF q = p /\ Deletes(s, p) THEN Absent ELSE cached[q].file
        /\ cached'[q].temps = cached[q].temps
  BY <1>1, FinishDeleteIs
<1>4. /\ \A q \in Paths \ task[s].todo : Done(j, q, cached[q])
      /\ ~Again(s) => \A q \in task[s].todo \cap Removed(j) : cached[q].file = j.removes[q]
      /\ "power" \in Faults =>
           \A q \in Paths :
             \/ Done(j, q, stable[q])
             \/ Directory[q] \in task[s].changed
             \/ q \in task[s].todo /\ ~Done(j, q, cached[q])
  BY <1>1 DEF GInv, KnowsWhatIsDone
<1>5. Again(s)' <=> Again(s)
  BY <1>2 DEF Again, GoesOn
<1> HIDE DEF j
<1>6. Deletes(s, p) <=> cached[p].file = j.removes[p]
  BY <1>1, <1>4 DEF Deletes, Disk, j
<1>7. Done(j, p, cached'[p])
  BY <1>1, <1>3, <1>6 DEF Done
<1>8. \A q \in Paths : q # p => (Done(j, q, cached'[q]) <=> Done(j, q, cached[q]))
  BY <1>3 DEF Done
<1>9. ASSUME "power" \in Faults, NEW q \in Paths
      PROVE  \/ Done(j, q, stable'[q])
             \/ Directory[q] \in task'[s].changed
             \/ q \in task'[s].todo /\ ~Done(j, q, cached'[q])
  <2>1. CASE q = p
    <3>1. ~Done(j, p, cached[p]) => Deletes(s, p)
      BY <1>1, <1>6 DEF Done
    <3>2. QED
      BY <1>1, <1>2, <1>4, <1>9, <2>1, <3>1
  <2>2. CASE q # p
    BY <1>1, <1>2, <1>4, <1>8, <1>9, <2>2
  <2>3. QED
    BY <2>1, <2>2
<1>10. task'[s].journal = j
  BY <1>2 DEF GoesOn, j
<1>11. \A q \in Paths \ task'[s].todo : Done(j, q, cached'[q])
  BY <1>2, <1>4, <1>7, <1>8
<1>12. ~Again(s)' => \A q \in task'[s].todo \cap Removed(j) : cached'[q].file = j.removes[q]
  <2>1. task[s].todo \subseteq Paths
    BY <1>1 DEF TypeOK, Tasks
  <2>2. QED
    BY <1>2, <1>3, <1>4, <1>5, <2>1
<1>13. QED
  BY <1>9, <1>10, <1>11, <1>12 DEF KnowsWhatIsDone

LEMMA RenameKnowsWhatIsDone ==
  ASSUME IInv, JInv, GInv, NEW s \in Stores, Work(s), NEW p \in Paths, FinishRename(s, p)
  PROVE  KnowsWhatIsDone(s)'
<1> DEFINE j == task[s].journal
<1>1. /\ task[s].step = "finishing" /\ task[s].todo \cap Removed(j) = {}
      /\ p \in task[s].todo /\ stable' = stable /\ TypeOK /\ j.id \in Ids
  BY RecoversOfACommit DEF FinishRename, Busy, IInv
<1>2. /\ GoesOn(s) /\ task'[s].todo = task[s].todo \ {p} /\ task'[s].tries = task[s].tries
      /\ task'[s].changed = IF Renames(s, p) THEN task[s].changed \cup {Directory[p]}
                            ELSE task[s].changed
  BY <1>1, FinishRenameIs
<1>3. \A q \in Paths :
        /\ cached'[q].file = IF q = p /\ Renames(s, p) THEN cached[p].temps[j.id]
                             ELSE cached[q].file
        /\ \A k \in Ids : cached'[q].temps[k] =
             IF q = p /\ k = j.id /\ Renames(s, p) THEN Absent ELSE cached[q].temps[k]
  BY <1>1, FinishRenameIs
<1>4. /\ \A q \in Paths \ task[s].todo : Done(j, q, cached[q])
      /\ "power" \in Faults =>
           \A q \in Paths :
             \/ Done(j, q, stable[q])
             \/ Directory[q] \in task[s].changed
             \/ q \in task[s].todo /\ ~Done(j, q, cached[q])
  BY <1>1 DEF GInv, KnowsWhatIsDone
<1>5. Renames(s, p) <=> p \in j.writes /\ cached[p].temps[j.id] # Absent
  BY DEF Renames, Temporary
<1> HIDE DEF j
<1>6. Done(j, p, cached'[p]) /\ (~Done(j, p, cached[p]) => Renames(s, p))
  BY <1>1, <1>3, <1>5 DEF Done
<1>7. \A q \in Paths : q # p => (Done(j, q, cached'[q]) <=> Done(j, q, cached[q]))
  BY <1>1, <1>3 DEF Done
<1>8. ASSUME "power" \in Faults, NEW q \in Paths
      PROVE  \/ Done(j, q, stable'[q])
             \/ Directory[q] \in task'[s].changed
             \/ q \in task'[s].todo /\ ~Done(j, q, cached'[q])
  <2>1. CASE q = p
    BY <1>1, <1>2, <1>4, <1>6, <1>8, <2>1
  <2>2. CASE q # p
    BY <1>1, <1>2, <1>4, <1>7, <1>8, <2>2
  <2>3. QED
    BY <2>1, <2>2
<1>9. task'[s].journal = j
  BY <1>2 DEF GoesOn, j
<1>10. \A q \in Paths \ task'[s].todo : Done(j, q, cached'[q])
  BY <1>2, <1>4, <1>6, <1>7
<1>11. task'[s].todo \cap Removed(j) = {}
  BY <1>1, <1>2
<1>12. QED
  BY <1>8, <1>9, <1>10, <1>11 DEF KnowsWhatIsDone

LEMMA SyncKnowsWhatIsDone ==
  ASSUME IInv, JInv, GInv, NEW s \in Stores, Work(s), NEW d, FinishSync(s, d)
  PROVE  KnowsWhatIsDone(s)'
<1> DEFINE j == task[s].journal
<1>1. task[s].step = "finishing" /\ task[s].todo = {} /\ cached' = cached /\ TypeOK
  BY DEF FinishSync, Busy, IInv
<1>2. /\ GoesOn(s) /\ task'[s].todo = {} /\ task'[s].changed = task[s].changed \ {d}
      /\ \A q \in Paths : stable'[q] = IF Directory[q] = d THEN cached[q] ELSE stable[q]
  BY <1>1, FinishSyncIs
<1>3. /\ \A q \in Paths : Done(j, q, cached[q])
      /\ "power" \in Faults =>
           \A q \in Paths : Done(j, q, stable[q]) \/ Directory[q] \in task[s].changed
  BY <1>1 DEF GInv, KnowsWhatIsDone
<1>4. task'[s].journal = j
  BY <1>2 DEF GoesOn
<1> HIDE DEF j
<1>5. ASSUME "power" \in Faults, NEW q \in Paths
      PROVE  Done(j, q, stable'[q]) \/ Directory[q] \in task'[s].changed
  BY <1>2, <1>3, <1>5
<1>6. QED
  BY <1>1, <1>2, <1>3, <1>4, <1>5 DEF KnowsWhatIsDone

LEMMA RetriesKnowsWhatIsDone ==
  ASSUME IInv, JInv, GInv, Gentle, NEW s \in Stores, Work(s), FinishRetries(s)
  PROVE  KnowsWhatIsDone(s)'
<1>1. /\ "power" \notin Faults /\ TypeOK
  BY DEF FinishRetries, Gentle, IInv
<1>2. /\ task'[s].journal = task[s].journal /\ task'[s].tries > 0
      /\ task'[s].todo = task[s].journal.writes \cup Removed(task[s].journal)
  BY <1>1, FinishRetriesIs DEF GoesOn
<1>3. Again(s)'
  BY <1>2 DEF Again
<1>4. ASSUME NEW p \in Paths, NEW e, p \notin task'[s].todo
      PROVE  Done(task'[s].journal, p, e)
  BY <1>2, <1>4, StartsFinishing
<1>5. QED
  BY <1>1, <1>3, <1>4 DEF KnowsWhatIsDone

LEMMA WorkKnowsWhatIsDone ==
  ASSUME IInv, JInv, GInv, Gentle, NEW s \in Stores, Work(s)
  PROVE  KnowsWhatIsDone(s)'
<1>1. TypeOK
  BY DEF IInv
<1>2. ASSUME task'[s].step # "finishing"
      PROVE  KnowsWhatIsDone(s)'
  BY <1>2 DEF KnowsWhatIsDone
<1>3. ASSUME NEW a, Answer(s, a)
      PROVE  KnowsWhatIsDone(s)'
  BY <1>1, <1>2, <1>3, AnswerIs
<1>4. CASE \/ RecoverUnreadable(s) \/ Refuse(s) \/ DiscardFails(s) \/ FinishFails(s)
           \/ PrepareFails(s) \/ CommitJournalUnreadable(s)
  BY <1>3, <1>4 DEF RecoverUnreadable, Refuse, DiscardFails, FinishFails, PrepareFails,
                    CommitJournalUnreadable
<1>5. CASE Opened(s)
  BY <1>1, <1>2, <1>5, LeaveIs DEF Opened
<1>6. CASE Plan(s)
  BY <1>1, <1>2, <1>6, PlanIs
<1>7. CASE Prepare(s)
  BY <1>1, <1>2, <1>7, PrepareIs
<1>8. ASSUME NEW p \in Paths, StartTemporary(s, p) \/ EndTemporary(s, p)
      PROVE  KnowsWhatIsDone(s)'
  <2>1. CASE StartTemporary(s, p)
    BY <1>2, <2>1 DEF StartTemporary, Busy
  <2>2. CASE EndTemporary(s, p)
    BY <1>2, <2>2, EndTemporaryIs DEF EndTemporary, Busy, GoesOn
  <2>3. QED
    BY <1>8, <2>1, <2>2
<1>9. CASE TemporaryFails(s) \/ CommitJournalFails(s)
  <2>1. PICK j, todo : Begin(s, "discarding", j, todo, "own")
    BY <1>9 DEF TemporaryFails, CommitJournalFails, StartDiscarding
  <2>2. QED
    BY <1>1, <1>2, <2>1, BeginIs
<1>10. ASSUME NEW p \in Paths, DiscardTemporary(s, p)
       PROVE  KnowsWhatIsDone(s)'
  <2>1. task[s].step = "discarding" /\ task[s].journal.id \in Ids
    BY <1>10, RecoversOfACommit DEF DiscardTemporary, Busy
  <2>2. GoesOn(s)
    BY <1>1, <1>10, <2>1, DiscardTemporaryIs
  <2>3. QED
    BY <1>2, <2>1, <2>2 DEF GoesOn
<1>11. CASE Discarded(s) \/ Finished(s)
  <2>1. PICK a : RemoveJournal(s, a)
    BY <1>11 DEF Discarded, Finished
  <2>2. QED
    BY <1>1, <1>2, <2>1, RemoveJournalIs
<1>12. QED
  BY <1>4, <1>5, <1>6, <1>7, <1>8, <1>9, <1>10, <1>11, RecoverKnowsWhatIsDone,
     CommitKnowsWhatIsDone, DeleteKnowsWhatIsDone, RenameKnowsWhatIsDone,
     SyncKnowsWhatIsDone, RetriesKnowsWhatIsDone DEF Work

LEMMA WorkLeftAsForced ==
  ASSUME IInv, JInv, GInv, Gentle, NEW s \in Stores, Work(s)
  PROVE  LeftAsForced'
<1> SUFFICES ASSUME "power" \in Faults, journal'.state = "committed",
                    \A t \in Stores : task'[t].step # "finishing"
             PROVE  stable' = cached'
  BY DEF LeftAsForced
<1>1. /\ TypeOK /\ task[s] \in Tasks /\ KnowsItsJournal(s)
      /\ task[s].step \notin {"idle", "waiting"}
      /\ Faults \cap {"process", "rename", "journalSync"} = {}
  BY WorkTask DEF IInv, TypeOK, JInv, Gentle
<1>2. task[s].step # "finishing"
  <2>1. ASSUME NEW p \in Paths, FinishDelete(s, p) \/ FinishRename(s, p)
        PROVE  task'[s].step = "finishing"
    <3>1. task[s].step = "finishing" /\ task[s].journal.id \in Ids
      BY <2>1, RecoversOfACommit DEF FinishDelete, FinishRename, Busy
    <3>2. GoesOn(s)
      BY <1>1, <2>1, <3>1, FinishDeleteIs, FinishRenameIs
    <3>3. QED
      BY <3>1, <3>2 DEF GoesOn
  <2>2. ASSUME NEW d \in task[s].changed, FinishSync(s, d)
        PROVE  task'[s].step = "finishing"
    <3>1. GoesOn(s)
      BY <1>1, <2>2, FinishSyncIs
    <3>2. QED
      BY <2>2, <3>1 DEF FinishSync, Busy, GoesOn
  <2>3. ~Finished(s)
    BY DEF Finished, RemoveJournal, NoJournal
  <2>4. ~FinishRetries(s) /\ ~FinishFails(s)
    BY <1>1 DEF FinishRetries, FinishFails
  <2>5. QED
    BY <2>1, <2>2, <2>3, <2>4
       DEF Work, Busy, Recover, RecoverUnreadable, Opened, Refuse, Plan, Prepare, PrepareFails,
           StartTemporary, EndTemporary, TemporaryFails, CommitJournal, CommitJournalFails,
           CommitJournalUnreadable, DiscardTemporary, Discarded, DiscardFails
<1>3. task[s].step = "locked" /\ journal' = journal
  <2>1. CASE journal' = journal
    BY <1>1, <1>2, <2>1 DEF KnowsItsJournal, Tasks
  <2>2. CASE task[s].step = "preparing" /\ journal' = task[s].journal
    BY <2>2 DEF IInv, OwnSteps, KnowsItsCommit
  <2>3. CASE task[s].step = "writing" /\ journal' = Committed(s)
    <3>1. journal.state # "committed" /\ journal # journal'
      BY <1>1, <2>3 DEF KnowsItsJournal
    <3>2. ~CommitJournal(s)
      <4>1. ASSUME CommitJournal(s)
            PROVE  task'[s].step = "finishing"
        BY <1>1, <4>1, BeginIs DEF CommitJournal, StartFinishing
      <4>2. QED
        BY <4>1
    <3>3. ~CommitJournalUnreadable(s)
      BY <1>1, <3>1 DEF CommitJournalUnreadable
    <3>4. QED
      BY <2>3, <3>1, <3>2, <3>3
         DEF Work, Busy, Recover, RecoverUnreadable, Opened, Refuse, Plan, Prepare,
             PrepareFails, StartTemporary, EndTemporary, TemporaryFails, CommitJournalFails,
             DiscardTemporary, Discarded, DiscardFails, FinishDelete, FinishRename,
             FinishSync, Finished, FinishRetries, FinishFails, journals
  <2>4. CASE journal' = NoJournal
    BY <2>4 DEF NoJournal
  <2>5. QED
    BY <2>1, <2>2, <2>3, <2>4, JournalChanges
<1>4. \A t \in Stores : task[t].step # "finishing"
  BY <1>2, OthersWait
<1>5. stable = cached
  BY <1>3, <1>4 DEF GInv, LeftAsForced
<1>6. UNCHANGED disk
  BY <1>3 DEF Work, Busy, Recover, RecoverUnreadable, Opened, Refuse, Plan, Prepare,
             PrepareFails, StartTemporary, EndTemporary, TemporaryFails, CommitJournal,
             CommitJournalFails, CommitJournalUnreadable, DiscardTemporary, Discarded,
             DiscardFails, FinishDelete, FinishRename, FinishSync, Finished, FinishRetries,
             FinishFails
<1>7. QED
  BY <1>5, <1>6 DEF disk

LEMMA WorkGInv ==
  ASSUME IInv, JInv, GInv, Gentle, NEW s \in Stores, Work(s)
  PROVE  GInv'
<1>1. ASSUME NEW t \in Stores \ {s}
      PROVE  HoldsToItsPlan(t)' /\ KnowsWhatIsDone(t)'
  <2>1. task'[t].step \in {"idle", "waiting"}
    BY OthersWait
  <2>2. QED
    BY <2>1 DEF HoldsToItsPlan, KnowsWhatIsDone
<1>2. \A t \in Stores : HoldsToItsPlan(t)' /\ KnowsWhatIsDone(t)'
  BY <1>1, WorkHoldsToItsPlan, WorkKnowsWhatIsDone
<1>3. ShowsTheSame' /\ AllWhole'
  BY WorkShows
<1>4. QED
  BY <1>2, <1>3, WorkForced, WorkNotYetThere, WorkLeftAsForced DEF GInv

(* Steps that change neither the journals nor what is on disk, and only what *)
(* is asked for and what Stores do that aren't past the lock.                *)
LEMMA OutsideGInv ==
  ASSUME IInv, JInv, GInv, KeepsJournals, UNCHANGED disk, happened' = happened,
         \A i \in Ids : asked[i] # NoRequest => asked'[i] = asked[i],
         \A i \in Ids : NotBegun(i)' => NotBegun(i),
         \A t \in Stores :
           \/ task'[t] = task[t]
           \/ task[t].step # "finishing" /\ task'[t].step \in {"idle", "waiting", "locked"}
  PROVE  GInv' /\ View' = View
<1>1. /\ cached' = cached /\ stable' = stable
      /\ journal' = journal /\ stableJournal' = stableJournal
      /\ JournalsLeft' = JournalsLeft /\ \A p \in Paths : Left(p)' = Left(p)
  BY DEF disk, KeepsJournals, JournalsLeft, Left
<1>2. View' = View /\ Disk' = Disk
  BY <1>1 DEF View, AsFinished, Temporary, Disk
<1>3. ShowsTheSame' /\ Forced'
  BY <1>1, <1>2 DEF GInv, ShowsTheSame, Shown, Forced
<1>4. NotYetThere'
  BY <1>1 DEF GInv, NotYetThere
<1>5. AllWhole'
  <2>1. ASSUME NEW j \in JournalsLeft, j.state = "committed"
        PROVE  /\ j.writes \subseteq Paths
               /\ asked'[j.id] = asked[j.id]
    <3>1. j.writes \subseteq Paths /\ Agrees(j)
      BY JournalsLeftType
    <3>2. QED
      BY <2>1, <3>1 DEF Agrees, NoJournal
  <2>2. QED
    BY <1>1, <2>1 DEF GInv, AllWhole, Whole
<1>6. ASSUME NEW t \in Stores
      PROVE  HoldsToItsPlan(t)' /\ KnowsWhatIsDone(t)'
  <2>1. HoldsToItsPlan(t) /\ KnowsWhatIsDone(t)
    BY DEF GInv
  <2>2. CASE task'[t] = task[t]
    <3>1. HoldsToItsPlan(t)'
      <4>1. CASE task[t].step \in {"preparing", "writing"}
        <5>1. asked'[task[t].id] = asked[task[t].id]
          BY <4>1 DEF IInv, OwnSteps, KnowsItsCommit, OwnCommits
        <5>2. Planned(t)' = Planned(t)
          BY <1>2, <2>2, <5>1 DEF Planned
        <5>3. Planned(t).writes \subseteq Paths
          BY DEF Planned, Written
        <5>4. QED
          BY <1>1, <1>2, <2>1, <2>2, <5>1, <5>2, <5>3 DEF HoldsToItsPlan
      <4>2. CASE task[t].step \notin {"preparing", "writing"}
        BY <2>2, <4>2 DEF HoldsToItsPlan
      <4>3. QED
        BY <4>1, <4>2
    <3>2. KnowsWhatIsDone(t)'
      BY <1>1, <2>1, <2>2 DEF KnowsWhatIsDone, Again
    <3>3. QED
      BY <3>1, <3>2
  <2>3. CASE task'[t].step \in {"idle", "waiting", "locked"}
    BY <2>3 DEF HoldsToItsPlan, KnowsWhatIsDone
  <2>4. QED
    BY <2>2, <2>3
<1>7. LeftAsForced'
  BY <1>1 DEF GInv, LeftAsForced
<1>8. QED
  BY <1>2, <1>3, <1>4, <1>5, <1>6, <1>7 DEF GInv

LEMMA CallGInv ==
  ASSUME IInv, JInv, GInv, NEW s \in Stores, NEW i \in Ids, NEW r \in Requests, Call(s, i, r)
  PROVE  GInv' /\ View' = View
<1>1. /\ asked[i] = NoRequest /\ asked' = [asked EXCEPT ![i] = r] /\ r # NoRequest
      /\ task' = [task EXCEPT ![s].step = "waiting", ![s].id = i]
      /\ KeepsJournals /\ UNCHANGED disk /\ happened' = happened
      /\ task[s].step = "idle"
      /\ task[s] \in Tasks /\ task \in [Stores -> Tasks]
      /\ asked \in [Ids -> Requests \cup {NoRequest}]
  BY JournalAssumption DEF Call, IInv, TypeOK, KeepsJournals, journals
<1>2. /\ \A t \in Stores \ {s} : task'[t] = task[t]
      /\ task'[s].step = "waiting" /\ task'[s].id = i
  BY <1>1 DEF Tasks
<1>3. \A k \in Ids : k # i => asked'[k] = asked[k]
  BY <1>1
<1>4. \A k \in Ids : NotBegun(k)' => NotBegun(k)
  BY <1>1, <1>2, <1>3 DEF NotBegun, Begun
<1>5. QED
  BY <1>1, <1>2, <1>3, <1>4, OutsideGInv

LEMMA OpenLockCrashGInv ==
  ASSUME IInv, JInv, GInv, NEW s \in Stores, Open(s) \/ Lock(s) \/ (Crash(s) /\ Gentle)
  PROVE  GInv' /\ View' = View
<1>1. /\ KeepsJournals /\ UNCHANGED disk /\ UNCHANGED history /\ asked' = asked
      /\ happened' = happened
      /\ task[s] \in Tasks /\ task \in [Stores -> Tasks]
  BY DEF IInv, TypeOK, Open, Lock, Crash, KeepsJournals, journals, history
<1>2. /\ \A t \in Stores \ {s} : task'[t] = task[t]
      /\ task'[s].step \in {"idle", "waiting", "locked"}
      /\ \/ task'[s].id = NoId
         \/ task'[s].id = task[s].id /\ task[s].step \in {"idle", "waiting"}
  <2>1. CASE Open(s)
    <3>1. task' = [task EXCEPT ![s] = [task[s] EXCEPT !.step = "waiting"]]
      BY <1>1, <2>1 DEF Open
    <3>2. QED
      BY <1>1, <2>1, <3>1, PartIs DEF Open
  <2>2. CASE Lock(s)
    <3>1. task' = [task EXCEPT ![s] = [task[s] EXCEPT !.step = "locked"]]
      BY <1>1, <2>2 DEF Lock
    <3>2. QED
      BY <1>1, <2>2, <3>1, PartIs DEF Lock
  <2>3. CASE Crash(s)
    BY <1>1, <2>3 DEF Crash, NoTask
  <2>4. QED
    BY <2>1, <2>2, <2>3
<1>3. \A k \in Ids : NotBegun(k)' => NotBegun(k)
  BY <1>1, <1>2, JournalAssumption DEF NotBegun, Begun
<1>4. CASE task[s].step # "finishing"
  BY <1>1, <1>2, <1>3, <1>4, OutsideGInv
<1>5. CASE task[s].step = "finishing"
  (* A process dies: the power isn't cut, and what is left is what was seen. *)
  <2>1. "power" \notin Faults /\ Crash(s)
    BY <1>5 DEF Open, Lock, Crash, Gentle
  <2>2. /\ cached' = cached /\ JournalsLeft' = JournalsLeft
        /\ journal' = journal /\ Disk' = Disk /\ \A p \in Paths : Left(p)' = Left(p)
    BY <1>1, DiskKept DEF KeepsJournals, JournalsLeft
  <2>3. Unseen
    BY <1>1, KeptUnseen
  <2>4. Forced' /\ NotYetThere'
    BY <1>1, <1>3, <2>2 DEF GInv, Forced, NotYetThere
  <2>5. ASSUME NEW t \in Stores
        PROVE  HoldsToItsPlan(t)' /\ KnowsWhatIsDone(t)'
    <3>1. CASE t = s
      BY <1>2, <3>1 DEF HoldsToItsPlan, KnowsWhatIsDone
    <3>2. CASE t # s
      <4>1. task'[t] = task[t] /\ task[t] \in Tasks /\ task[t].step \in {"idle", "waiting"}
        BY <1>1, <1>2, <1>5, <3>2 DEF IInv, OneAtATime
      <4>2. QED
        BY <4>1 DEF HoldsToItsPlan, KnowsWhatIsDone
    <3>3. QED
      BY <3>1, <3>2
  <2>6. LeftAsForced'
    BY <2>1 DEF LeftAsForced
  <2>7. QED
    BY <2>3, <2>4, <2>5, <2>6 DEF GInv, Unseen
<1>6. QED
  BY <1>4, <1>5

LEMMA PowerCutGInv ==
  ASSUME IInv, JInv, GInv, PowerCut
  PROVE  GInv' /\ View' = View
<1>1. /\ "power" \in Faults
      /\ journal' \in {journal, stableJournal} /\ stableJournal' = journal'
      /\ \A p \in Paths : cached'[p] \in {cached[p], stable[p]}
      /\ stable' = cached' /\ asked' = asked /\ happened' = happened
      /\ \A t \in Stores : task'[t].step = "idle" /\ task'[t].id = NoId
  BY DEF PowerCut, history, NoTask
<1>2. /\ journal' \in JournalsLeft /\ \A j \in JournalsLeft' : j = journal'
      /\ \A p \in Paths : cached'[p] \in Left(p) /\ \A e \in Left(p)' : e = cached'[p]
  BY <1>1, JournalsLeftAre, LeftIs, LeftNextIs DEF JournalsLeft
<1>3. \A p \in Paths : Shown(journal', p, cached'[p]) = View[p]
  BY <1>2, ShownIs
<1>4. \A p \in Paths : View'[p] = View[p]
  BY <1>3, ViewIsNext
<1>5. View' = View
  BY <1>4 DEF View
<1>6. ShowsTheSame'
  BY <1>2, <1>3, <1>4 DEF ShowsTheSame, Shown
<1>7. Forced' /\ LeftAsForced'
  BY <1>1, <1>2 DEF Forced, LeftAsForced
<1>8. NotYetThere'
  <2>1. \A i \in Ids : NotBegun(i)' => NotBegun(i)
    BY <1>1, JournalAssumption DEF NotBegun
  <2>2. QED
    BY <1>1, <1>2, <2>1 DEF GInv, NotYetThere
<1>9. AllWhole'
  <2>1. journal'.writes \subseteq Paths
    BY <1>2, JournalsLeftType
  <2>2. ASSUME journal'.state = "committed", NEW p \in journal'.writes
        PROVE  LET e == cached'[p] IN
               \/ e.temps[journal'.id] = asked[journal'.id].sets[p]
               \/ e.temps[journal'.id] = Absent /\ e.file = asked[journal'.id].sets[p]
    BY <1>2, <2>1, <2>2, ShownIs
  <2>3. QED
    BY <1>1, <1>2, <2>1, <2>2 DEF AllWhole, Whole
<1>10. \A t \in Stores : HoldsToItsPlan(t)' /\ KnowsWhatIsDone(t)'
  BY <1>1 DEF HoldsToItsPlan, KnowsWhatIsDone
<1>11. QED
  BY <1>5, <1>6, <1>7, <1>8, <1>9, <1>10 DEF GInv

LEMMA InitGInv == Init => GInv
<1> SUFFICES ASSUME Init PROVE GInv
  OBVIOUS
<1>1. /\ stable = cached /\ journal = NoJournal /\ stableJournal = NoJournal
      /\ \A s \in Stores : task[s].step = "idle"
      /\ NoJournal.state = "none" /\ NoJournal.id = NoId /\ NoId \notin Ids
  BY JournalAssumption DEF Init, NoTask, NoJournal
<1>2. /\ \A j \in JournalsLeft : j = NoJournal
      /\ \A p \in Paths : \A e \in Left(p) : e = cached[p]
  BY <1>1, JournalsLeftAre, LeftIs
<1>3. ShowsTheSame
  BY <1>1, <1>2, ViewIs DEF ShowsTheSame
<1>4. Forced /\ NotYetThere /\ AllWhole /\ LeftAsForced
  BY <1>1, <1>2 DEF Forced, NotYetThere, AllWhole, Whole, LeftAsForced
<1>5. \A s \in Stores : HoldsToItsPlan(s) /\ KnowsWhatIsDone(s)
  BY <1>1 DEF HoldsToItsPlan, KnowsWhatIsDone
<1>6. QED
  BY <1>3, <1>4, <1>5 DEF GInv

LEMMA NextGInv == Gentle /\ IInv /\ JInv /\ GInv /\ [Next]_vars => GInv'
<1> SUFFICES ASSUME Gentle, IInv, JInv, GInv, [Next]_vars PROVE GInv'
  OBVIOUS
<1>1. ASSUME NEW s \in Stores, NEW i \in Ids, NEW r \in Requests, Call(s, i, r)
      PROVE  GInv'
  BY <1>1, CallGInv
<1>2. ASSUME NEW s \in Stores, Open(s) \/ Lock(s) \/ Crash(s)
      PROVE  GInv'
  BY <1>2, OpenLockCrashGInv
<1>3. ASSUME NEW s \in Stores, Work(s)
      PROVE  GInv'
  BY <1>3, WorkGInv
<1>4. CASE PowerCut
  BY <1>4, PowerCutGInv
<1>5. ~ \E p \in Paths, c \in Contents \cup {Absent} : Edit(p, c)
  BY DEF Edit, Gentle
<1>6. CASE UNCHANGED vars
  <2>1. /\ KeepsJournals /\ UNCHANGED disk /\ happened' = happened /\ asked' = asked
        /\ task' = task
    BY <1>6 DEF vars, KeepsJournals, journals, history
  <2>2. \A i \in Ids : NotBegun(i)' => NotBegun(i)
    BY <2>1 DEF NotBegun, Begun
  <2>3. QED
    BY <2>1, <2>2, OutsideGInv
<1>7. QED
  BY <1>1, <1>2, <1>3, <1>4, <1>5, <1>6 DEF Next

-----------------------------------------------------------------------------
(* Theorems.                                                               *)

(* What is shown of the Store, and what is left to be done of the Commit in  *)
(* the journal, holds in every state FsJournal reaches.                      *)
THEOREM AtomicInductive ==
  ASSUME Gentle
  PROVE  Spec => [](IInv /\ JInv /\ GInv)
<1>1. Init => IInv /\ JInv /\ GInv
  BY InitIInv, InitJInv, InitGInv
<1>2. (IInv /\ JInv /\ GInv) /\ [Next]_vars => (IInv /\ JInv /\ GInv)'
  BY NextIInv, NextJInv, NextGInv
<1>3. QED
  BY <1>1, <1>2, PTL DEF Spec

(* Once a Commit has happened, each of its writes is to be had whole, from    *)
(* its temporary file or its File, however often finishing was begun.        *)
THEOREM NothingLost ==
  ASSUME Gentle
  PROVE  Spec => []CommittedIsWhole
<1>1. IInv /\ JInv /\ GInv => CommittedIsWhole
  <2> SUFFICES ASSUME IInv, JInv, GInv, journal.state = "committed", NEW p \in journal.writes
               PROVE  \/ Temporary(journal, p) = asked[journal.id].sets[p]
                      \/ /\ Temporary(journal, p) = Absent
                         /\ Disk[p] = asked[journal.id].sets[p]
    BY DEF CommittedIsWhole
  <2>1. journal \in JournalsLeft /\ p \in Paths
    BY JournalsLeftAre DEF IInv, TypeOK, Journals
  <2>2. \/ cached[p].temps[journal.id] = asked[journal.id].sets[p]
        \/ /\ cached[p].temps[journal.id] = Absent
           /\ cached[p].file = asked[journal.id].sets[p]
    BY <2>1, ShownIs, LeftIs
  <2>3. QED
    BY <2>1, <2>2 DEF Temporary, Disk
<1>2. QED
  BY AtomicInductive, <1>1, PTL

(* Whenever the power may be cut, and whatever that takes back Path by Path,  *)
(* reads give the same afterwards: temporary files, directories and the      *)
(* journal are forced to disk in the order this takes (Journal::finish).     *)
THEOREM PowerCutsShowNothing ==
  ASSUME Gentle, "power" \in Faults
  PROVE  Spec => []SurvivesPowerCut
<1>1. IInv /\ JInv /\ GInv => SurvivesPowerCut
  <2> SUFFICES ASSUME GInv, NEW lost \in SUBSET Paths, NEW j \in {journal, stableJournal},
                      NEW p \in Paths
               PROVE  LET left == IF p \in lost THEN stable[p] ELSE cached[p]
                          temporary == IF p \in j.writes THEN left.temps[j.id] ELSE Absent
                      IN  View[p] = IF j.state = "committed" /\ temporary # Absent
                                    THEN temporary
                                    ELSE IF j.state = "committed" /\ p \in Removed(j)
                                            /\ left.file = j.removes[p]
                                         THEN Absent
                                    ELSE left.file
    BY DEF SurvivesPowerCut
  <2> DEFINE left == IF p \in lost THEN stable[p] ELSE cached[p]
  <2>1. j \in JournalsLeft /\ left \in Left(p)
    BY JournalsLeftAre, LeftIs
  <2> HIDE DEF left
  <2>2. Shown(j, p, left) = View[p]
    BY <2>1, ShownIs
  <2>3. QED
    BY <2>2 DEF Shown, left
<1>2. QED
  BY AtomicInductive, <1>1, PTL

(* But for the moment a Commit happens, nothing a Store does changes what     *)
(* reads through tidings give, whatever dies or fails at whichever step.     *)
THEOREM FinishingIsUnseen ==
  ASSUME Gentle
  PROVE  Spec => OnlyCommitsShow
<1>1. IInv /\ JInv /\ GInv /\ [Next]_vars =>
        [(\E s \in Stores : Work(s)) /\ happened' = happened => View' = View]_vars
  BY WorkShows
<1>2. QED
  BY AtomicInductive, <1>1, PTL DEF Spec, OnlyCommitsShow

-----------------------------------------------------------------------------
(* FsJournal implements AtomicStore.                                       *)

LEMMA OutcomeIs ==
  ASSUME NEW i \in Ids
  PROVE  /\ Outcome[i] = IF i \in happened THEN "happened"
                         ELSE IF answered[i] = "failed" THEN "refused" ELSE "open"
         /\ Outcome'[i] = IF i \in happened' THEN "happened"
                          ELSE IF answered'[i] = "failed" THEN "refused" ELSE "open"
BY DEF Outcome

LEMMA OutcomeKept ==
  ASSUME happened' = happened,
         \A i \in Ids : answered'[i] # answered[i] => "failed" \notin {answered[i], answered'[i]}
  PROVE  Outcome' = Outcome
<1>1. ASSUME NEW i \in Ids
      PROVE  Outcome'[i] = Outcome[i]
  BY OutcomeIs
<1>2. QED
  BY <1>1 DEF Outcome

(* The outcome of one Commit may change.                                   *)
LEMMA OutcomeOfOne ==
  ASSUME NEW i \in Ids, NEW o, Outcome'[i] = o,
         \A k \in Ids \ {i} : Outcome'[k] = Outcome[k]
  PROVE  Outcome' = [Outcome EXCEPT ![i] = o]
BY DEF Outcome

LEMMA InitAtomic == Init => Atomic!Init
<1> SUFFICES ASSUME Init PROVE Atomic!Init
  OBVIOUS
<1>1. TypeOK /\ JInv /\ GInv /\ journal.state # "committed"
  BY InitIInv, InitJInv, InitGInv DEF IInv, Init, NoJournal
<1>2. \A p \in Paths : View[p] = Disk[p]
  BY <1>1, FilesAreShown DEF GInv
<1>3. View \in Files
  BY <1>1, <1>2, DiskType DEF View, Disk
<1>4. \A i \in Ids : Outcome[i] = "open"
  BY OutcomeIs DEF Init
<1>5. Outcome = [i \in Ids |-> "open"]
  BY <1>4 DEF Outcome
<1>6. QED
  BY <1>3, <1>5 DEF Init, Atomic!Init, Atomic!Files, Files

(* A Commit that is made happens, or is refused, or neither yet.             *)
LEMMA WorkAtomic ==
  ASSUME IInv, JInv, GInv, Gentle, NEW s \in Stores, Work(s)
  PROVE  [Atomic!Next]_(Atomic!vars)
<1> DEFINE i == task[s].id
<1>1. /\ asked' = asked
      /\ \A k \in Ids : answered'[k] # answered[k] => k = i
      /\ i \in Ids => asked[i] # NoRequest /\ answered[i] = "none"
  BY WorkTask, WorkAnswers DEF IInv, OwnCommits
<1>2. CASE /\ i \in Ids \ happened /\ happened' = happened \cup {i}
           /\ Holds(asked[i], View) /\ View' = Made(asked[i], View)
  <2>1. Outcome[i] = "open" /\ Outcome'[i] = "happened"
    BY <1>1, <1>2, OutcomeIs
  <2>2. \A k \in Ids \ {i} : Outcome'[k] = Outcome[k]
    BY <1>1, <1>2, OutcomeIs
  <2>3. Outcome' = [Outcome EXCEPT ![i] = "happened"]
    BY <1>2, <2>1, <2>2, OutcomeOfOne
  <2>4. Atomic!Happen(i)
    BY <1>1, <1>2, <2>1, <2>3 DEF Atomic!Happen, Atomic!Holds, Atomic!Made, Holds, Made
  <2>5. QED
    BY <1>2, <2>4 DEF Atomic!Next
<1>3. CASE /\ happened' = happened /\ View' = View
           /\ i \in Ids /\ answered'[i] = "failed"
  <2>1. i \notin happened
    BY <1>1, <1>3, WorkAnswers
  <2>2. Outcome[i] = "open" /\ Outcome'[i] = "refused"
    BY <1>1, <1>3, <2>1, OutcomeIs
  <2>3. \A k \in Ids \ {i} : Outcome'[k] = Outcome[k]
    BY <1>1, <1>3, OutcomeIs
  <2>4. Outcome' = [Outcome EXCEPT ![i] = "refused"]
    BY <1>3, <2>2, <2>3, OutcomeOfOne
  <2>5. Atomic!Refuse(i)
    BY <1>1, <1>3, <2>2, <2>4 DEF Atomic!Refuse
  <2>6. QED
    BY <1>3, <2>5 DEF Atomic!Next
<1>4. CASE /\ happened' = happened /\ View' = View
           /\ ~(i \in Ids /\ answered'[i] = "failed")
  <2>1. Outcome' = Outcome
    BY <1>1, <1>4, OutcomeKept
  <2>2. QED
    BY <1>1, <1>4, <2>1 DEF Atomic!vars
<1>5. QED
  BY <1>2, <1>3, <1>4, WorkShows

LEMMA NextAtomic ==
  ASSUME Gentle, IInv, JInv, GInv, [Next]_vars
  PROVE  [Atomic!Next]_(Atomic!vars)
<1>1. ASSUME NEW s \in Stores, NEW i \in Ids, NEW r \in Requests, Call(s, i, r)
      PROVE  Atomic!Next
  <2>1. /\ asked[i] = NoRequest /\ asked' = [asked EXCEPT ![i] = r]
        /\ answered' = answered /\ happened' = happened
    BY <1>1 DEF Call
  <2>2. View' = View /\ Outcome' = Outcome
    BY <1>1, <2>1, CallGInv, OutcomeKept
  <2>3. Atomic!Ask(i, r)
    BY <2>1, <2>2 DEF Atomic!Ask
  <2>4. QED
    BY <2>3 DEF Atomic!Next
<1>2. ASSUME NEW s \in Stores, Work(s)
      PROVE  [Atomic!Next]_(Atomic!vars)
  BY <1>2, WorkAtomic
<1>3. CASE \/ \E s \in Stores : Open(s) \/ Lock(s) \/ Crash(s)
           \/ PowerCut
           \/ UNCHANGED vars
  <2>1. /\ asked' = asked /\ answered' = answered /\ happened' = happened
    BY <1>3 DEF Open, Lock, Crash, PowerCut, history, vars
  <2>2. View' = View
    <3>1. CASE UNCHANGED vars
      BY <3>1 DEF vars, disk, journals, View, AsFinished, Temporary, Disk
    <3>2. QED
      BY <1>3, <3>1, OpenLockCrashGInv, PowerCutGInv
  <2>3. Outcome' = Outcome
    BY <2>1, OutcomeKept
  <2>4. QED
    BY <2>1, <2>2, <2>3 DEF Atomic!vars
<1>4. ~ \E p \in Paths, c \in Contents \cup {Absent} : Edit(p, c)
  BY DEF Edit, Gentle
<1>5. QED
  BY <1>1, <1>2, <1>3, <1>4 DEF Next

(* To those who read through tidings, the journal, the lock, the temporary    *)
(* files, crashes and power cuts are not there: each Commit happens whole,   *)
(* at one moment at which its Preconditions hold, or it doesn't.             *)
THEOREM Atomicity ==
  ASSUME Gentle
  PROVE  Spec => ImplementsAtomicStore
<1>1. Init => Atomic!Init
  BY InitAtomic
<1>2. IInv /\ JInv /\ GInv /\ [Next]_vars => [Atomic!Next]_(Atomic!vars)
  BY NextAtomic
<1>3. QED
  BY <1>1, <1>2, AtomicInductive, PTL DEF Spec, ImplementsAtomicStore, Atomic!Spec

-----------------------------------------------------------------------------
(* Part two: reads.  The inductive invariant.                              *)

(* Nothing is shown of the Files that the Commit in the journal deletes.     *)
Gone ==
  \A j \in JournalsLeft : j.state = "committed" => \A p \in Removed(j) : View[p] = Absent

Readings == [path : Paths, step : {"temporary", "file", "done"},
             gives : Contents \cup {Absent, Torn}, written : Ids \cup {NoId},
             removed : Contents \cup {Absent}]

(* What the journal said of the Path stays true of what the Path has had:    *)
(* its temporary file was shown, and so was every File that there was since  *)
(* but the one that the journal deletes, when that there is none was shown.  *)
KnowsWhatItReads ==
  LET p == reader.path
      i == reader.written
  IN
  reader # NoRead =>
    /\ reader \in Readings
    /\ View[p] \in seen
    /\ reader.removed # Absent => Absent \in seen
    /\ i # NoId => i \in happened /\ asked[i] # NoRequest /\ asked[i].sets[p] \in seen
    /\ i # NoId => cached[p].temps[i] \in {Absent, asked[i].sets[p]}
    /\ reader.step = "file" => i = NoId
    /\ reader.step \in {"temporary", "file"} /\ Temp = Absent =>
         Disk[p] \in seen \/ (Disk[p] = reader.removed /\ Absent \in seen)
    /\ reader.step = "done" => reader.gives \in seen

RInv == IInv /\ JInv /\ GInv /\ Gone /\ KnowsWhatItReads

-----------------------------------------------------------------------------
(* What is gone.                                                           *)

LEMMA GoneKept ==
  ASSUME Gone, View' = View,
         \A j \in JournalsLeft' : j \in JournalsLeft \/ j.state # "committed"
  PROVE  Gone'
<1>1. ASSUME NEW j \in JournalsLeft', j.state = "committed", NEW p \in Removed(j)
      PROVE  View'[p] = Absent
  BY <1>1 DEF Gone
<1>2. QED
  BY <1>1 DEF Gone, Removed

LEMMA WorkGone ==
  ASSUME IInv, JInv, GInv, Gone, Gentle, NEW s \in Stores, Work(s)
  PROVE  Gone'
<1>1. asked' = asked
  BY WorkTask
<1>2. CASE Prepares(s)
  <2>1. \A j \in JournalsLeft' : j.state # "committed"
    BY <1>2 DEF Prepares, IInv, OwnSteps, KnowsItsCommit
  <2>2. QED
    BY <1>2, <2>1, PreparesUnseen, GoneKept DEF Unseen
<1>3. CASE Commits(s)
  <2>1. /\ Holds(asked[task[s].id], View)
        /\ View' = Made(asked[task[s].id], View)
    BY <1>3, CommitsMakes
  <2>2. /\ \A j \in JournalsLeft' : j = Committed(s)
        /\ task[s].step = "writing" /\ task[s].id \in Ids
        /\ task[s].journal.id = task[s].id
    BY <1>3 DEF Commits, IInv, OwnSteps, KnowsItsCommit
  <2>3. /\ Removed(Committed(s)) = Removed(task[s].journal)
        /\ task[s].journal.state # "none"
    <3>1. task[s].journal.state = "prepared" /\ TypeOK
      BY <2>2 DEF IInv, OwnSteps, KnowsItsCommit
    <3>2. QED
      BY <3>1, CommittedIs
  <2>4. ASSUME NEW p \in Removed(task[s].journal)
        PROVE  View'[p] = Absent
    <3>1. p \in Paths /\ asked[task[s].id].sets[p] = Absent
      <4>1. Agrees(task[s].journal) /\ task[s].journal # NoJournal
        BY <2>3 DEF JInv, JournalsAgree, NoJournal
      <4>2. QED
        BY <2>2, <4>1 DEF Agrees, Removed
    <3>2. QED
      BY <2>1, <3>1, RequestsAssumption DEF Made
  <2>5. ASSUME NEW j \in JournalsLeft', j.state = "committed", NEW p \in Removed(j)
        PROVE  View'[p] = Absent
    BY <2>2, <2>3, <2>4, <2>5
  <2>6. QED
    BY <2>5 DEF Gone, Removed
<1>4. CASE Removes(s)
  <2>1. \A j \in JournalsLeft' : j \in JournalsLeft \/ j.state # "committed"
    BY <1>4 DEF Removes, NoJournal
  <2>2. QED
    BY <1>4, <2>1, RemovesUnseen, GoneKept DEF Unseen
<1>5. CASE KeepsJournals /\ (NothingToDo(s) \/ DoesToDisk(s))
  <2>1. JournalsLeft' = JournalsLeft
    BY <1>5 DEF KeepsJournals, JournalsLeft
  <2>2. Unseen
    BY <1>1, <1>5, KeptUnseen, DiskStepUnseen DEF NothingToDo
  <2>3. QED
    BY <2>1, <2>2, GoneKept DEF Unseen
<1>6. QED
  BY <1>2, <1>3, <1>4, <1>5, WorkIs

-----------------------------------------------------------------------------
(* What a Store does to what is on disk, for who reads it.                 *)

(* A File that is replaced or deleted is then what is shown.  The temporary  *)
(* file of a Commit that has happened stays until it is renamed.             *)
LEMMA WorkPublishes ==
  ASSUME IInv, JInv, GInv, Gone, Gentle, NEW s \in Stores, Work(s), NEW p \in Paths
  PROVE  /\ cached'[p].file # cached[p].file => cached'[p].file = View'[p]
         /\ \A i \in happened : cached'[p].temps[i] # cached[p].temps[i] =>
              cached'[p].temps[i] = Absent /\ cached'[p].file = View'[p]
<1>1. TypeOK /\ KnowsItsCommit(s) /\ KnowsItsJournal(s) /\ happened \subseteq Ids
  BY DEF IInv, OwnSteps, JInv, TypeOK
<1>2. CASE UNCHANGED disk
  BY <1>2 DEF disk
<1>3. ASSUME NEW q \in Paths, StartTemporary(s, q) \/ EndTemporary(s, q)
      PROVE  /\ cached'[p].file = cached[p].file
             /\ \A i \in happened : cached'[p].temps[i] = cached[p].temps[i]
  <2>1. task[s].id \in Ids /\ task[s].id \notin happened
    BY <1>1, <1>3 DEF StartTemporary, EndTemporary, Busy, KnowsItsCommit
  <2>2. CASE StartTemporary(s, q)
    BY <1>1, <2>1, <2>2, StartTemporaryIs
  <2>3. CASE EndTemporary(s, q)
    BY <1>1, <2>1, <2>3, EndTemporaryIs
  <2>4. QED
    BY <1>3, <2>2, <2>3
<1>4. ASSUME NEW q \in Paths, DiscardTemporary(s, q)
      PROVE  /\ cached'[p].file = cached[p].file
             /\ \A i \in happened : cached'[p].temps[i] = cached[p].temps[i]
  <2>1. /\ task[s].step = "discarding" /\ q \in task[s].todo /\ task[s].journal.id \in Ids
    BY <1>4, RecoversOfACommit DEF DiscardTemporary, Busy
  <2>2. task[s].journal.id \notin happened
    <3>1. journal = task[s].journal /\ journal.state = "prepared"
      BY <1>1, <2>1 DEF KnowsItsJournal
    <3>2. QED
      BY <3>1, JournalsLeftAre DEF GInv, NotYetThere
  <2>3. QED
    BY <1>1, <1>4, <2>1, <2>2, DiscardTemporaryIs
<1>5. ASSUME NEW q \in Paths, FinishDelete(s, q)
      PROVE  /\ cached'[p].file # cached[p].file => cached'[p].file = View'[p]
             /\ cached'[p].temps = cached[p].temps
  <2>1. /\ journal = task[s].journal /\ journal.state = "committed" /\ q \in Removed(journal)
    BY <1>1, <1>5 DEF FinishDelete, Busy, KnowsItsJournal
  <2>2. View[q] = Absent
    BY <2>1, JournalsLeftAre DEF Gone
  <2>3. View' = View
    BY <1>5, DeleteUnseen DEF Unseen
  <2>4. \A r \in Paths :
          /\ cached'[r].file = IF r = q /\ Deletes(s, q) THEN Absent ELSE cached[r].file
          /\ cached'[r].temps = cached[r].temps
    BY <1>1, <1>5, FinishDeleteIs
  <2>5. QED
    BY <2>2, <2>3, <2>4
<1>6. ASSUME NEW q \in Paths, FinishRename(s, q)
      PROVE  /\ cached'[p].file # cached[p].file => cached'[p].file = View'[p]
             /\ \A i \in happened : cached'[p].temps[i] # cached[p].temps[i] =>
                  cached'[p].temps[i] = Absent /\ cached'[p].file = View'[p]
  <2> DEFINE j == task[s].journal
  <2>1. /\ journal = j /\ j.state = "committed" /\ j.id \in Ids /\ journal' = journal
        /\ task[s].todo \cap Removed(j) = {} /\ q \in task[s].todo
    BY <1>1, <1>6, RecoversOfACommit DEF FinishRename, Busy, KnowsItsJournal, journals
  <2>2. \A r \in Paths :
          /\ cached'[r].file = IF r = q /\ Renames(s, q) THEN cached[q].temps[j.id]
                               ELSE cached[r].file
          /\ \A k \in Ids : cached'[r].temps[k] =
               IF r = q /\ k = j.id /\ Renames(s, q) THEN Absent ELSE cached[r].temps[k]
    BY <1>1, <1>6, <2>1, FinishRenameIs
  <2>3. Renames(s, q) => cached'[q].file = View'[q]
    <3>1. SUFFICES ASSUME Renames(s, q)
                   PROVE  cached'[q].file = View'[q]
      OBVIOUS
    <3>2. cached'[q].temps[j.id] = Absent /\ q \notin Removed(j)
      BY <2>1, <2>2, <3>1
    <3>3. View'[q] = Shown(journal', q, cached'[q]) /\ journal' = j
      BY <2>1, ViewIsNext
    <3>4. QED
      BY <3>2, <3>3 DEF Shown
  <2>4. CASE p = q /\ Renames(s, q)
    BY <1>1, <2>2, <2>3, <2>4
  <2>5. CASE ~(p = q /\ Renames(s, q))
    BY <1>1, <2>2, <2>5
  <2>6. QED
    BY <2>4, <2>5
<1>7. CASE DoesToDisk(s)
  <2>1. ASSUME NEW d \in task[s].changed, FinishSync(s, d)
        PROVE  cached' = cached
    BY <2>1 DEF FinishSync
  <2>2. QED
    BY <1>2, <1>3, <1>4, <1>5, <1>6, <1>7, <2>1 DEF DoesToDisk
<1>8. CASE Prepares(s) \/ Commits(s) \/ Removes(s) \/ NothingToDo(s)
  BY <1>2, <1>8 DEF Prepares, Commits, Removes, NothingToDo
<1>9. QED
  BY <1>7, <1>8, WorkIs

-----------------------------------------------------------------------------
(* Reading.                                                                *)

(* Unless a temporary file is still to be renamed over it, the File is what  *)
(* is shown, or the one that the journal deletes.                            *)
LEMMA FileShown ==
  ASSUME GInv, NEW p \in Paths
  PROVE  \/ /\ journal.state = "committed" /\ p \in journal.writes
            /\ cached[p].temps[journal.id] # Absent
         \/ Disk[p] = View[p]
         \/ /\ journal.state = "committed" /\ p \in Removed(journal)
            /\ Disk[p] = journal.removes[p]
BY ViewIs DEF Shown, Disk

LEMMA StartReadKnows ==
  ASSUME RInv, NEW p \in Paths, StartRead(p), UNCHANGED vars
  PROVE  KnowsWhatItReads'
<1> DEFINE j == journal
           w == IF j.state = "committed" /\ p \in j.writes THEN j.id ELSE NoId
           x == IF j.state = "committed" THEN j.removes[p] ELSE Absent
<1>1. /\ reader' = [path |-> p, step |-> "temporary", gives |-> Absent,
                    written |-> w, removed |-> x]
      /\ seen' = {View[p]}
  BY DEF StartRead, Value, View
<1>2. /\ cached' = cached /\ journal' = journal /\ asked' = asked /\ happened' = happened
      /\ View' = View /\ Disk' = Disk
  BY DEF vars, disk, journals, history, View, AsFinished, Temporary, Disk
<1>3. j \in Journals /\ TypeOK /\ j \in JournalsLeft /\ Agrees(j)
  BY JournalsLeftAre DEF RInv, IInv, TypeOK, JInv, JournalsAgree
<1>4. /\ w \in Ids \cup {NoId} /\ x \in Contents \cup {Absent}
      /\ x # Absent => View[p] = Absent
  BY <1>3 DEF Journals, RInv, Gone, Removed
<1>5. w # NoId =>
        /\ w = j.id /\ j.state = "committed" /\ p \in j.writes
        /\ w \in Ids /\ w \in happened /\ asked[w] # NoRequest
        /\ asked[w].sets[p] # Absent
  BY <1>3, JournalAssumption, RequestsAssumption
     DEF RInv, IInv, HappenedIsWhole, Agrees, NoJournal
<1> HIDE DEF x
<1>6. w # NoId =>
        /\ cached[p].temps[w] \in {Absent, asked[w].sets[p]}
        /\ View[p] = asked[w].sets[p]
  <2>1. SUFFICES ASSUME w # NoId
                 PROVE  /\ cached[p].temps[w] \in {Absent, asked[w].sets[p]}
                        /\ View[p] = asked[w].sets[p]
    OBVIOUS
  <2>2. \/ cached[p].temps[j.id] = asked[j.id].sets[p]
        \/ cached[p].temps[j.id] = Absent /\ cached[p].file = asked[j.id].sets[p]
    BY <1>3, <1>5, <2>1, ShownIs, LeftIs DEF RInv
  <2>3. p \notin Removed(j)
    BY <1>3, <1>5, <2>1, AgreesMeans
  <2>4. QED
    BY <1>5, <2>1, <2>2, <2>3, ViewIs DEF Shown
<1>7. w = NoId \/ cached[p].temps[w] = Absent =>
        Disk[p] = View[p] \/ (Disk[p] = x /\ View[p] = Absent)
  <2>1. SUFFICES ASSUME w = NoId \/ cached[p].temps[w] = Absent
                 PROVE  Disk[p] = View[p] \/ (Disk[p] = x /\ View[p] = Absent)
    OBVIOUS
  <2>2. ~(/\ j.state = "committed" /\ p \in j.writes /\ cached[p].temps[j.id] # Absent)
    <3>1. j.state = "committed" => j.id # NoId
      BY <1>3, JournalAssumption DEF Agrees, NoJournal
    <3>2. QED
      BY <2>1, <3>1
  <2>3. CASE Disk[p] = View[p]
    BY <2>3
  <2>4. CASE j.state = "committed" /\ p \in Removed(j) /\ Disk[p] = j.removes[p]
    BY <1>3, <2>4 DEF RInv, Gone, x
  <2>5. QED
    BY <2>2, <2>3, <2>4, FileShown DEF RInv
<1> HIDE DEF w
<1>8. reader' # NoRead =>
        /\ reader' \in Readings
        /\ reader'.path = p /\ reader'.written = w /\ reader'.removed = x
        /\ reader'.step = "temporary"
  BY <1>1, <1>4 DEF Readings
<1>9. Temp' = IF reader'.written = NoId THEN Absent ELSE cached'[reader'.path].temps[reader'.written]
  BY DEF Temp
<1>10. QED
  BY <1>1, <1>2, <1>4, <1>5, <1>6, <1>7, <1>8, <1>9 DEF KnowsWhatItReads

LEMMA ReadKnows ==
  ASSUME RInv, ReadTemporary \/ NoTemporary \/ ReadFile \/ EndRead, UNCHANGED vars
  PROVE  KnowsWhatItReads'
<1>1. /\ cached' = cached /\ journal' = journal /\ asked' = asked /\ happened' = happened
      /\ View' = View /\ Disk' = Disk
  BY DEF vars, disk, journals, history, View, AsFinished, Temporary, Disk
<1>2. /\ KnowsWhatItReads /\ TypeOK
      /\ NoId \notin Ids /\ Torn \notin Contents \cup {Absent}
  BY JournalAssumption DEF RInv, IInv
<1>3. CASE ReadTemporary
  <2>1. /\ reader # NoRead /\ reader \in Readings /\ reader.step = "temporary"
        /\ Temp # Absent /\ seen' = seen
        /\ reader' = [reader EXCEPT !.step = "done", !.gives = Temp]
    BY <1>2, <1>3 DEF ReadTemporary, Gives, At, KnowsWhatItReads
  <2>2. Temp = cached[reader.path].temps[reader.written] /\ reader.written # NoId
    BY <2>1 DEF Temp
  <2>3. Temp \in Contents \cup {Torn} /\ Temp \in seen
    BY <1>2, <2>1, <2>2 DEF KnowsWhatItReads, Readings, TypeOK, Entries
  <2>4. /\ reader' \in Readings /\ reader'.path = reader.path
        /\ reader'.written = reader.written /\ reader'.removed = reader.removed
        /\ reader'.step = "done" /\ reader'.gives = Temp
    BY <2>1, <2>3 DEF Readings
  <2>5. QED
    BY <1>1, <1>2, <2>1, <2>3, <2>4 DEF KnowsWhatItReads
<1>4. CASE NoTemporary
  <2>1. /\ reader # NoRead /\ reader \in Readings /\ reader.step = "temporary"
        /\ Temp = Absent /\ seen' = seen
        /\ reader' = [reader EXCEPT !.step = "file", !.written = NoId]
    BY <1>2, <1>4 DEF NoTemporary, At, KnowsWhatItReads
  <2>2. /\ reader' \in Readings /\ reader'.path = reader.path
        /\ reader'.written = NoId /\ reader'.removed = reader.removed
        /\ reader'.step = "file"
    BY <2>1 DEF Readings
  <2>3. QED
    BY <1>1, <1>2, <2>1, <2>2 DEF KnowsWhatItReads
<1>5. CASE ReadFile
  <2> DEFINE p == reader.path
             c == IF Disk[p] = reader.removed THEN Absent ELSE Disk[p]
  <2>1. /\ reader # NoRead /\ reader \in Readings /\ reader.step = "file"
        /\ seen' = seen
        /\ reader' = [reader EXCEPT !.step = "done", !.gives = c]
    BY <1>2, <1>5 DEF ReadFile, Gives, At, KnowsWhatItReads
  <2>2. p \in Paths /\ Disk[p] \in Contents \cup {Absent} /\ reader.written = NoId /\ Temp = Absent
    BY <1>2, <2>1 DEF Readings, KnowsWhatItReads, TypeOK, Entries, Disk, Temp
  <2>3. c \in Contents \cup {Absent} /\ c \in seen
    BY <1>2, <2>1, <2>2 DEF KnowsWhatItReads
  <2> HIDE DEF c
  <2>4. /\ reader' \in Readings /\ reader'.path = reader.path
        /\ reader'.written = NoId /\ reader'.removed = reader.removed
        /\ reader'.step = "done" /\ reader'.gives = c
    BY <2>1, <2>2, <2>3 DEF Readings
  <2>5. QED
    BY <1>1, <1>2, <2>1, <2>3, <2>4 DEF KnowsWhatItReads
<1>6. CASE EndRead
  BY <1>6 DEF EndRead, KnowsWhatItReads
<1>7. QED
  BY <1>3, <1>4, <1>5, <1>6

(* A step of a Store while a read goes on.                                 *)
LEMMA ObserveKnows ==
  ASSUME RInv, Observe,
         \A i \in Ids : asked[i] # NoRequest => asked'[i] = asked[i],
         happened \subseteq happened',
         \A p \in Paths :
           /\ cached'[p].file # cached[p].file => cached'[p].file = View'[p]
           /\ \A i \in happened : cached'[p].temps[i] # cached[p].temps[i] =>
                cached'[p].temps[i] = Absent /\ cached'[p].file = View'[p]
  PROVE  KnowsWhatItReads'
<1> SUFFICES ASSUME reader' # NoRead
             PROVE  KnowsWhatItReads'
  BY DEF KnowsWhatItReads
<1> DEFINE p == reader.path
           i == reader.written
<1>1. /\ reader' = reader /\ reader # NoRead /\ reader \in Readings
      /\ seen' = seen \cup {View'[p]} /\ reader.step # "done"
      /\ p \in Paths /\ i \in Ids \cup {NoId} /\ KnowsWhatItReads
  BY DEF Observe, At, RInv, KnowsWhatItReads, Value, View, Readings
<1>2. i # NoId => i \in happened' /\ asked'[i] = asked[i] /\ i \in happened /\ i \in Ids
  BY <1>1 DEF KnowsWhatItReads
<1>3. i # NoId => cached'[p].temps[i] \in {Absent, asked'[i].sets[p]}
  BY <1>1, <1>2 DEF KnowsWhatItReads
<1>4. Temp' = Absent =>
        Disk'[p] \in seen' \/ (Disk'[p] = reader.removed /\ Absent \in seen')
  <2>1. /\ Temp' = IF i = NoId THEN Absent ELSE cached'[p].temps[i]
        /\ Temp = IF i = NoId THEN Absent ELSE cached[p].temps[i]
        /\ Disk'[p] = cached'[p].file /\ Disk[p] = cached[p].file
    BY <1>1 DEF Temp, Disk
  <2>2. CASE cached'[p].file = View'[p]
    BY <1>1, <2>1, <2>2
  <2>3. CASE cached'[p].file # View'[p]
    <3>1. cached'[p].file = cached[p].file
      BY <1>1, <2>3
    <3>2. i # NoId => cached'[p].temps[i] = cached[p].temps[i]
      BY <1>1, <1>2, <2>3
    <3>3. Temp' = Temp
      BY <2>1, <3>2
    <3>4. reader.step \in {"temporary", "file"}
      BY <1>1 DEF Readings
    <3>5. Temp = Absent =>
            Disk[p] \in seen \/ (Disk[p] = reader.removed /\ Absent \in seen)
      BY <1>1, <3>4 DEF KnowsWhatItReads
    <3>6. QED
      BY <1>1, <2>1, <3>1, <3>3, <3>5
  <2>4. QED
    BY <2>2, <2>3
<1>5. QED
  BY <1>1, <1>2, <1>3, <1>4 DEF KnowsWhatItReads

LEMMA StoreStepRInv ==
  ASSUME RInv, Gentle, Observe, [Next]_vars, NEW s \in Stores,
         \/ \E i \in Ids, r \in Requests : Call(s, i, r)
         \/ Open(s) \/ Lock(s) \/ Work(s) \/ Crash(s)
  PROVE  RInv'
<1>1. IInv' /\ JInv' /\ GInv'
  BY NextIInv, NextJInv, NextGInv DEF RInv
<1>2. CASE Work(s)
  <2>1. Gone'
    BY <1>2, WorkGone DEF RInv
  <2>2. KnowsWhatItReads'
    <3>1. asked' = asked /\ happened \subseteq happened'
      BY <1>2, WorkTask, WorkHappened DEF RInv
    <3>2. QED
      BY <1>2, <3>1, WorkPublishes, ObserveKnows DEF RInv
  <2>3. QED
    BY <1>1, <2>1, <2>2 DEF RInv
<1>3. CASE ~Work(s)
  <2>1. /\ View' = View /\ KeepsJournals /\ UNCHANGED disk /\ happened' = happened
        /\ \A i \in Ids : asked[i] # NoRequest => asked'[i] = asked[i]
    <3>1. View' = View
      BY <1>3, CallGInv, OpenLockCrashGInv DEF RInv
    <3>2. KeepsJournals /\ UNCHANGED disk /\ happened' = happened
      BY <1>3 DEF Call, Open, Lock, Crash, KeepsJournals, journals, history
    <3>3. \A i \in Ids : asked[i] # NoRequest => asked'[i] = asked[i]
      BY <1>3 DEF Call, Open, Lock, Crash, history, RInv, IInv, TypeOK
    <3>4. QED
      BY <3>1, <3>2, <3>3
  <2>2. JournalsLeft' = JournalsLeft /\ cached' = cached
    BY <2>1 DEF KeepsJournals, JournalsLeft, disk
  <2>3. Gone'
    BY <2>1, <2>2, GoneKept DEF RInv
  <2>4. KnowsWhatItReads'
    BY <2>1, <2>2, ObserveKnows
  <2>5. QED
    BY <1>1, <2>3, <2>4 DEF RInv
<1>4. QED
  BY <1>2, <1>3

LEMMA PowerCutRInv ==
  ASSUME RInv, Gentle, PowerCut, StopRead
  PROVE  RInv'
<1>1. IInv' /\ JInv' /\ GInv' /\ View' = View
  BY NextIInv, NextJInv, NextGInv, PowerCutGInv DEF RInv, Next
<1>2. \A j \in JournalsLeft' : j \in JournalsLeft
  BY JournalsLeftAre DEF PowerCut, JournalsLeft
<1>3. Gone'
  BY <1>1, <1>2, GoneKept DEF RInv
<1>4. KnowsWhatItReads'
  BY DEF StopRead, KnowsWhatItReads
<1>5. QED
  BY <1>1, <1>3, <1>4 DEF RInv

LEMMA InitRInv == ReadInit => RInv
<1> SUFFICES ASSUME ReadInit PROVE RInv
  OBVIOUS
<1>1. IInv /\ JInv /\ GInv
  BY InitIInv, InitJInv, InitGInv DEF ReadInit
<1>2. Gone
  <2>1. \A j \in JournalsLeft : j.state = "none"
    BY JournalsLeftAre DEF ReadInit, Init, NoJournal
  <2>2. QED
    BY <2>1 DEF Gone
<1>3. KnowsWhatItReads
  BY DEF ReadInit, KnowsWhatItReads
<1>4. QED
  BY <1>1, <1>2, <1>3 DEF RInv

LEMMA NextRInv == Gentle /\ RInv /\ [ReadNext]_<<vars, reading>> => RInv'
<1> SUFFICES ASSUME Gentle, RInv, [ReadNext]_<<vars, reading>> PROVE RInv'
  OBVIOUS
<1>1. ASSUME UNCHANGED vars, KnowsWhatItReads'
      PROVE  RInv'
  <2>1. IInv' /\ JInv' /\ GInv'
    BY <1>1, NextIInv, NextJInv, NextGInv DEF RInv
  <2>2. View' = View /\ JournalsLeft' = JournalsLeft
    BY <1>1 DEF vars, disk, journals, View, AsFinished, Temporary, Disk, JournalsLeft
  <2>3. Gone'
    BY <2>2, GoneKept DEF RInv
  <2>4. QED
    BY <1>1, <2>1, <2>3 DEF RInv
<1>2. CASE /\ \/ \E p \in Paths : StartRead(p)
              \/ ReadTemporary \/ NoTemporary \/ ReadFile \/ EndRead
           /\ UNCHANGED vars
  BY <1>1, <1>2, StartReadKnows, ReadKnows
<1>3. CASE /\ \E s \in Stores :
                \/ \E i \in Ids, r \in Requests : Call(s, i, r)
                \/ Open(s) \/ Lock(s) \/ Work(s) \/ Crash(s)
           /\ Observe
  BY <1>3, StoreStepRInv DEF Next
<1>4. CASE PowerCut /\ StopRead
  BY <1>4, PowerCutRInv
<1>5. CASE UNCHANGED <<vars, reading>>
  <2>1. /\ cached' = cached /\ asked' = asked /\ happened' = happened
        /\ reader' = reader /\ seen' = seen
    BY <1>5 DEF vars, disk, history, reading
  <2>2. View' = View /\ Disk' = Disk /\ Temp' = Temp
    BY <1>5, <2>1 DEF vars, disk, journals, View, AsFinished, Temporary, Disk, Temp
  <2>3. KnowsWhatItReads'
    BY <2>1, <2>2 DEF RInv, KnowsWhatItReads
  <2>4. QED
    BY <1>1, <1>5, <2>3
<1>6. QED
  BY <1>2, <1>3, <1>4, <1>5 DEF ReadNext

-----------------------------------------------------------------------------
(* Theorems.                                                               *)

(* What a read has found in the journal stays true of what its Path has had, *)
(* whatever happens between its steps (AsFinished::of, AsFinished::read).    *)
THEOREM ReadInductive ==
  ASSUME Gentle
  PROVE  ReadSpec => []RInv
<1>1. QED
  BY InitRInv, NextRInv, PTL DEF ReadSpec

LEMMA ListingReads ==
  ASSUME RInv
  PROVE  ListedIsRead
<1> SUFFICES ASSUME NEW p \in Paths
             PROVE  p \in Listed(journal) <=> View[p] # Absent
  BY DEF ListedIsRead, Listed
<1>1. View[p] = AsFinished(journal, p) /\ View[p] = Shown(journal, p, cached[p])
  BY ViewIs DEF View
<1>2. CASE journal.state = "committed" /\ p \in journal.writes
  <2>1. /\ journal \in JournalsLeft /\ Agrees(journal) /\ cached[p] \in Left(p)
        /\ p \notin Removed(journal)
    BY <1>2, JournalsLeftAre, LeftIs, AgreesMeans DEF RInv, JInv, JournalsAgree
  <2>2. asked[journal.id].sets[p] # Absent
    BY <1>2, <2>1, RequestsAssumption DEF Agrees, NoJournal
  <2>3. \/ cached[p].temps[journal.id] = asked[journal.id].sets[p]
        \/ /\ cached[p].temps[journal.id] = Absent
           /\ cached[p].file = asked[journal.id].sets[p]
    BY <1>2, <2>1, ShownIs DEF RInv
  <2>4. View[p] # Absent
    BY <1>1, <1>2, <2>1, <2>2, <2>3 DEF Shown
  <2>5. QED
    BY <1>2, <2>4 DEF Listed
<1>3. CASE journal.state = "committed" /\ p \notin journal.writes
  BY <1>1, <1>3, RequestsAssumption DEF Listed, Shown, Disk, Removed
<1>4. CASE journal.state # "committed"
  BY <1>1, <1>4 DEF Listed, Shown, Disk
<1>5. QED
  BY <1>2, <1>3, <1>4

(* Though a read takes no lock, what it gives is what the Path had at some   *)
(* moment of it, and the Paths listed are those that can be read, whatever   *)
(* Commits are made, finished, discarded or recovered meanwhile.             *)
THEOREM ReadsTellTheTruth ==
  ASSUME Gentle
  PROVE  ReadSpec => []ReadsAreTrue
<1>1. RInv => ReadsAreTrue
  BY ListingReads DEF RInv, KnowsWhatItReads, ReadsAreTrue, At
<1>2. QED
  BY ReadInductive, <1>1, PTL
=============================================================================
