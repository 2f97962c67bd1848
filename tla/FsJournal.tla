----------------------------- MODULE FsJournal -----------------------------
(***************************************************************************)
(* A Commit on the filesystem Backend (ADR 0005): the lock, the journal,   *)
(* the temporary files, the deletes and renames, and what finishes or      *)
(* discards a Commit that a crash or a failure left behind.                *)
(*                                                                         *)
(* Several Stores, each in a process of its own, have the Location open.   *)
(* What is on disk is kept twice: as programs see it now, and as it would  *)
(* be after a power cut.  Faults are the things that may go wrong.         *)
(***************************************************************************)
EXTENDS Requests, Naturals

CONSTANTS
  Stores,     \* the Stores that have the Location open
  Ids,        \* the ids of the Commits ever asked for
  NoRequest,  \* a Commit not asked for yet
  NoStore,    \* nobody holds the lock
  NoId,       \* no Commit: an `open`, or no journal
  Torn,       \* a temporary file not whole yet
  Directory,  \* the directory each Path's File and temporary files are in
  Retries,    \* how often finishing is tried again (RETRY_DELAYS: 3)
  Faults      \* which of AllFaults may happen

AllFaults ==
  {"process",       \* a process dies
   "power",         \* the power is cut
   "write",         \* writing or removing a temporary file fails
   "rename",        \* a delete, a rename or forcing a directory to disk fails
   "journalWrite",  \* writing the journal fails
   "journalSync",   \* writing it fails once it is renamed into place
   "journalRead",   \* reading it back fails
   "external"}      \* another program edits a File

ASSUME JournalAssumption ==
  /\ NoStore \notin Stores
  /\ NoId \notin Ids
  /\ NoRequest \notin Requests
  /\ Torn \notin Contents \cup {Absent}
  /\ Retries \in Nat
  /\ Faults \subseteq AllFaults
  /\ DOMAIN Directory = Paths

VARIABLES
  cached,         \* each Path's File and temporary files, as programs see them
  stable,         \* the same, as a power cut would leave them
  journal,        \* .tidings/journal
  stableJournal,  \* the same, as a power cut would leave it
  holder,         \* who holds the lock on .tidings/lock
  task,           \* what each Store is doing
  asked,          \* the request of each Commit
  answered,       \* what each Commit gave its caller
  happened        \* the Commits that have happened

disk    == <<cached, stable>>
journals == <<journal, stableJournal>>
history == <<asked, answered, happened>>
vars    == <<disk, journals, holder, task, history>>

-----------------------------------------------------------------------------
(* State.                                                                  *)

(* What is on disk for one Path.                                           *)
Entries == [file : Contents \cup {Absent},
            temps : [Ids -> Contents \cup {Absent, Torn}]]

(* A Commit as the journal records it: the Paths whose temporary files it    *)
(* renames, and the Revision of each File it deletes (Absent for the Paths   *)
(* it doesn't delete).                                                       *)
Journals == [state : {"none", "prepared", "committed"}, id : Ids \cup {NoId},
             writes : SUBSET Paths, removes : [Paths -> Contents \cup {Absent}]]

NoJournal == [state |-> "none", id |-> NoId, writes |-> {},
              removes |-> [p \in Paths |-> Absent]]

(* step is where the Store is in Location::commit or FsBackend::open; id the *)
(* Commit it makes, NoId when it opens; journal the Commit it finishes or    *)
(* discards; todo the Paths still to do of the step; changed the directories *)
(* this try changed; tries how often finishing failed; whose whether the     *)
(* journal is the Commit's own, or one found under the lock.                 *)
Tasks == [step : {"idle", "waiting", "locked", "ready", "preparing", "writing",
                  "discarding", "finishing"},
          id : Ids \cup {NoId}, journal : Journals, todo : SUBSET Paths,
          changed : SUBSET {Directory[p] : p \in Paths},
          tries : 0..Retries, whose : {"own", "found"}]

NoTask == [step |-> "idle", id |-> NoId, journal |-> NoJournal, todo |-> {},
           changed |-> {}, tries |-> 0, whose |-> "own"]

Disk == [p \in Paths |-> cached[p].file]

Removed(j) == {p \in Paths : j.removes[p] # Absent}

(* The temporary file of p's write by the Commit j, or Absent.             *)
Temporary(j, p) ==
  IF p \in j.writes THEN cached[p].temps[j.id] ELSE Absent

Busy(s, step) == task[s].step = step /\ holder = s

ReadFromDisk(j, p) == Disk[p]

(* What AsFinished::read gives for p, having read the journal j.           *)
AsFinished(j, p) ==
  IF j.state = "committed" /\ Temporary(j, p) # Absent THEN Temporary(j, p)
  ELSE IF j.state = "committed" /\ p \in Removed(j) /\ Disk[p] = j.removes[p]
       THEN Absent
  ELSE Disk[p]

(* The Paths AsFinished::paths_under lists, having read the journal j.     *)
Listed(j) ==
  {p \in Paths :
     \/ j.state = "committed" /\ p \in j.writes
     \/ /\ Disk[p] # Absent
        /\ j.state = "committed" /\ p \in Removed(j) => AsFinished(j, p) # Absent}

-----------------------------------------------------------------------------
(* Calling, locking and answering.                                         *)

Call(s, i, r) ==
  /\ task[s].step = "idle"
  /\ asked[i] = NoRequest
  /\ asked' = [asked EXCEPT ![i] = r]
  /\ task' = [task EXCEPT ![s].step = "waiting", ![s].id = i]
  /\ UNCHANGED <<disk, journals, holder, answered, happened>>

Open(s) ==
  /\ task[s].step = "idle"
  /\ task' = [task EXCEPT ![s].step = "waiting"]
  /\ UNCHANGED <<disk, journals, holder, history>>

Lock(s) ==
  /\ task[s].step = "waiting"
  /\ holder = NoStore
  /\ holder' = s
  /\ task' = [task EXCEPT ![s].step = "locked"]
  /\ UNCHANGED <<disk, journals, history>>

(* The Store goes on to another step of its call, with the Paths to do of it.*)
Begin(s, step, j, todo, whose) ==
  task' = [task EXCEPT ![s] =
             [step |-> step, id |-> task[s].id, journal |-> j, todo |-> todo,
              changed |-> {}, tries |-> 0, whose |-> whose]]

(* The end of a call: the Store unlocks the Location.                      *)
Leave(s) ==
  /\ task' = [task EXCEPT ![s] = NoTask]
  /\ holder' = NoStore

(* The end of a call that gives answer.  An `open` has no Commit to answer.*)
Answer(s, answer) ==
  /\ Leave(s)
  /\ answered' = IF task[s].id = NoId THEN answered
                 ELSE [answered EXCEPT ![task[s].id] = answer]

-----------------------------------------------------------------------------
(* Recovering: the Commit found in the journal is finished or discarded.   *)

StartFinishing(s, j, whose) ==
  Begin(s, "finishing", j, j.writes \cup Removed(j), whose)

StartDiscardingJournal(s, j, whose) == Begin(s, "discarding", j, {}, whose)

StartDiscarding(s, j, whose) == Begin(s, "discarding", j, j.writes, whose)

Recover(s) ==
  /\ Busy(s, "locked")
  /\ \/ /\ journal.state = "none"
        /\ task' = [task EXCEPT ![s].step = "ready"]
     \/ /\ journal.state = "prepared"
        /\ StartDiscarding(s, journal, "found")
     \/ /\ journal.state = "committed"
        /\ StartFinishing(s, journal, "found")
  /\ UNCHANGED <<disk, journals, holder, history>>

(* The journal can't be read: the call gives an error and changes nothing. *)
RecoverUnreadable(s) ==
  /\ "journalRead" \in Faults
  /\ Busy(s, "locked")
  /\ Answer(s, "failed")
  /\ UNCHANGED <<disk, journals, asked, happened>>

(* `open` is done once the Location is recovered.                          *)
Opened(s) ==
  /\ Busy(s, "ready")
  /\ task[s].id = NoId
  /\ Leave(s)
  /\ UNCHANGED <<disk, journals, history>>

-----------------------------------------------------------------------------
(* Planning, and the journal as prepared.                                  *)

(* A Precondition doesn't hold, a Path is refused, or the disk can't be      *)
(* read: the Commit gives an error before it changes anything.               *)
Refuse(s) ==
  /\ Busy(s, "ready")
  /\ task[s].id # NoId
  /\ Answer(s, "failed")
  /\ UNCHANGED <<disk, journals, asked, happened>>

Plan(s) ==
  LET i == task[s].id
      r == asked[i]
      j == [state |-> "prepared", id |-> i, writes |-> Written(r, Disk),
            removes |-> [p \in Paths |-> IF p \in Deleted(r, Disk)
                                           THEN Disk[p] ELSE Absent]]
  IN
  /\ Busy(s, "ready")
  /\ i # NoId
  /\ Holds(r, Disk)
  /\ IF j.writes = {} /\ Removed(j) = {}
       THEN /\ happened' = happened \cup {i}
            /\ Answer(s, "ok")
       ELSE /\ Begin(s, IF j.writes = {} THEN "writing" ELSE "preparing",
                     j, j.writes, "own")
            /\ UNCHANGED <<holder, answered, happened>>
  /\ UNCHANGED <<disk, journals, asked>>

Prepare(s) ==
  /\ Busy(s, "preparing")
  /\ journal' = task[s].journal
  /\ stableJournal' = task[s].journal
  /\ task' = [task EXCEPT ![s].step = "writing"]
  /\ UNCHANGED <<disk, holder, history>>

(* Writing it fails, before or after it is renamed into place.             *)
PrepareFails(s) ==
  /\ Busy(s, "preparing")
  /\ \/ /\ "journalWrite" \in Faults
        /\ UNCHANGED journal
     \/ /\ "journalSync" \in Faults
        /\ journal' = task[s].journal
  /\ Answer(s, "failed")
  /\ UNCHANGED <<disk, stableJournal, asked, happened>>

-----------------------------------------------------------------------------
(* The temporary files.                                                    *)

StartTemporary(s, p) ==
  LET i == task[s].id IN
  /\ Busy(s, "writing")
  /\ p \in task[s].todo
  /\ \A q \in task[s].todo : cached[q].temps[i] = Absent
  /\ cached' = [cached EXCEPT ![p].temps[i] = Torn]
  /\ UNCHANGED <<stable, journals, holder, task, history>>

(* The temporary file is whole, and forced to disk.                        *)
EndTemporary(s, p) ==
  LET i == task[s].id
      contents == asked[i].sets[p]
  IN
  /\ Busy(s, "writing")
  /\ p \in task[s].todo
  /\ cached[p].temps[i] = Torn
  /\ cached' = [cached EXCEPT ![p].temps[i] = contents]
  /\ stable' = [stable EXCEPT ![p].temps[i] = contents]
  /\ task' = [task EXCEPT ![s].todo = @ \ {p}]
  /\ UNCHANGED <<journals, holder, history>>

TemporaryFails(s) ==
  /\ "write" \in Faults
  /\ Busy(s, "writing")
  /\ task[s].todo # {}
  /\ StartDiscarding(s, task[s].journal, "own")
  /\ UNCHANGED <<disk, journals, holder, history>>

-----------------------------------------------------------------------------
(* The journal as committed.                                               *)

Committed(s) == [task[s].journal EXCEPT !.state = "committed"]

OneToWrite(s) == \A p, q \in task[s].todo : p = q

(* Every temporary file is whole and on disk.                              *)
AllWritten(s) == task[s].todo = {}

(* From here on, the Commit has happened.  Writing the journal gives an    *)
(* error if it can't be forced to disk, but it is read back as committed.  *)
CommitJournal(s) ==
  /\ Busy(s, "writing")
  /\ AllWritten(s)
  /\ journal' = Committed(s)
  /\ \/ stableJournal' = Committed(s)
     \/ "journalSync" \in Faults /\ UNCHANGED stableJournal
  /\ happened' = happened \cup {task[s].id}
  /\ StartFinishing(s, Committed(s), "own")
  /\ UNCHANGED <<disk, holder, asked, answered>>

(* It fails, and the journal read back is as it was.                       *)
CommitJournalFails(s) ==
  /\ "journalWrite" \in Faults
  /\ Busy(s, "writing")
  /\ AllWritten(s)
  /\ StartDiscarding(s, task[s].journal, "own")
  /\ UNCHANGED <<disk, journals, holder, history>>

(* It fails, and the journal can't be read back, so nobody can tell whether  *)
(* it is committed: the Commit leaves it, and gives the error that a Commit  *)
(* that never happens gives too.                                             *)
CommitJournalUnreadable(s) ==
  /\ "journalRead" \in Faults
  /\ Busy(s, "writing")
  /\ AllWritten(s)
  /\ \/ /\ "journalWrite" \in Faults
        /\ UNCHANGED <<journal, happened>>
     \/ /\ "journalSync" \in Faults
        /\ journal' = Committed(s)
        /\ happened' = happened \cup {task[s].id}
  /\ Answer(s, "failed")
  /\ UNCHANGED <<disk, stableJournal, asked>>

-----------------------------------------------------------------------------
(* The end of finishing or discarding: the journal is removed, which isn't   *)
(* forced to disk.  A Commit found in the journal makes way for the call.    *)
RemoveJournal(s, answer) ==
  /\ journal' = NoJournal
  /\ IF task[s].whose = "found"
       THEN Begin(s, "ready", NoJournal, {}, "own") /\ UNCHANGED <<holder, answered>>
       ELSE Answer(s, answer)
  /\ UNCHANGED <<disk, stableJournal, asked, happened>>

-----------------------------------------------------------------------------
(* Discarding a Commit that never happened.                                *)

DiscardTemporary(s, p) ==
  /\ Busy(s, "discarding")
  /\ p \in task[s].todo
  /\ cached' = [cached EXCEPT ![p].temps[task[s].journal.id] = Absent]
  /\ task' = [task EXCEPT ![s].todo = @ \ {p}]
  /\ UNCHANGED <<stable, journals, holder, history>>

Discarded(s) ==
  /\ Busy(s, "discarding")
  /\ task[s].todo = {}
  /\ RemoveJournal(s, "failed")

(* The journal stays, for the next Commit or `open` to discard.            *)
DiscardFails(s) ==
  /\ "write" \in Faults
  /\ Busy(s, "discarding")
  /\ Answer(s, "failed")
  /\ UNCHANGED <<disk, journals, asked, happened>>

-----------------------------------------------------------------------------
(* Finishing a Commit that has happened (Journal::finish).                 *)

AgainIfFound(s) == task[s].whose = "found"

(* Whether the Commit may be partly finished already.                      *)
Again(s) == task[s].whose = "found" \/ task[s].tries > 0

ChangingNothing(s, p, changes) == task[s].changed

(* The directories this try changed, once it has or hasn't changed p's.    *)
Changing(s, p, changes) ==
  task[s].changed \cup (IF changes THEN {Directory[p]} ELSE {})

(* Every delete comes before the first rename.  Finishing again, a File is *)
(* deleted only if it is still the one the Commit deletes.                 *)
FinishDelete(s, p) ==
  LET j == task[s].journal
      deletes == Disk[p] # Absent /\ (Again(s) => Disk[p] = j.removes[p])
  IN
  /\ Busy(s, "finishing")
  /\ p \in task[s].todo \cap Removed(j)
  /\ cached' = IF deletes THEN [cached EXCEPT ![p].file = Absent] ELSE cached
  /\ task' = [task EXCEPT ![s].todo = @ \ {p},
                          ![s].changed = Changing(s, p, deletes)]
  /\ UNCHANGED <<stable, journals, holder, history>>

(* A temporary file that is gone was renamed already.                      *)
FinishRename(s, p) ==
  LET j == task[s].journal
      renames == Temporary(j, p) # Absent
  IN
  /\ Busy(s, "finishing")
  /\ task[s].todo \cap Removed(j) = {}
  /\ p \in task[s].todo
  /\ cached' = IF renames
                 THEN [cached EXCEPT ![p].file = Temporary(j, p),
                                     ![p].temps[j.id] = Absent]
                 ELSE cached
  /\ task' = [task EXCEPT ![s].todo = @ \ {p},
                          ![s].changed = Changing(s, p, renames)]
  /\ UNCHANGED <<stable, journals, holder, history>>

(* A directory this try changed is forced to disk.                         *)
FinishSync(s, d) ==
  /\ Busy(s, "finishing")
  /\ task[s].todo = {}
  /\ d \in task[s].changed
  /\ stable' = [p \in Paths |-> IF Directory[p] = d THEN cached[p] ELSE stable[p]]
  /\ task' = [task EXCEPT ![s].changed = @ \ {d}]
  /\ UNCHANGED <<cached, journals, holder, history>>

Finished(s) ==
  /\ Busy(s, "finishing")
  /\ task[s].todo = {}
  /\ task[s].changed = {}
  /\ RemoveJournal(s, "ok")

(* Another of the RETRY_DELAYS is left.                                    *)
MayRetry(s) == task[s].tries < Retries

FinishRetriesForever(s) ==
  /\ "rename" \in Faults
  /\ Busy(s, "finishing")
  /\ task' = [task EXCEPT ![s] = [@ EXCEPT
                !.todo = task[s].journal.writes \cup Removed(task[s].journal),
                !.changed = {}]]
  /\ UNCHANGED <<disk, journals, holder, history>>

(* Finishing fails part way, and is tried again as finishing again.        *)
FinishRetries(s) ==
  /\ "rename" \in Faults
  /\ Busy(s, "finishing")
  /\ MayRetry(s)
  /\ task' = [task EXCEPT ![s] = [@ EXCEPT
                !.todo = task[s].journal.writes \cup Removed(task[s].journal),
                !.changed = {}, !.tries = task[s].tries + 1]]
  /\ UNCHANGED <<disk, journals, holder, history>>

UnfinishedFailed(s) == "failed"
UnfinishedOk(s) == "ok"

(* The Commit's own caller gets Pending; a Commit that found it in the     *)
(* journal isn't made.                                                     *)
Unfinished(s) == IF task[s].whose = "found" THEN "failed" ELSE "pending"

(* It fails for the last time: the journal stays.                          *)
FinishFails(s) ==
  /\ "rename" \in Faults
  /\ Busy(s, "finishing")
  /\ ~MayRetry(s)
  /\ Answer(s, Unfinished(s))
  /\ UNCHANGED <<disk, journals, asked, happened>>

-----------------------------------------------------------------------------
(* What happens to the Stores.                                             *)

(* The process of s dies, and the system drops its lock.                   *)
Crash(s) ==
  /\ "process" \in Faults
  /\ task[s].step # "idle"
  /\ task' = [task EXCEPT ![s] = NoTask]
  /\ holder' = IF holder = s THEN NoStore ELSE holder
  /\ UNCHANGED <<disk, journals, history>>

(* The power is cut: what wasn't forced to disk may be lost, Path by Path. *)
PowerCut ==
  /\ "power" \in Faults
  /\ \E lost \in SUBSET Paths :
       cached' = [p \in Paths |-> IF p \in lost THEN stable[p] ELSE cached[p]]
  /\ journal' \in {journal, stableJournal}
  /\ stable' = cached'
  /\ stableJournal' = journal'
  /\ task' = [s \in Stores |-> NoTask]
  /\ holder' = NoStore
  /\ UNCHANGED history

(* Another program writes or deletes a File.                               *)
Edit(p, c) ==
  /\ "external" \in Faults
  /\ Disk[p] # c
  /\ cached' = [cached EXCEPT ![p].file = c]
  /\ UNCHANGED <<stable, journals, holder, task, history>>

-----------------------------------------------------------------------------
Init ==
  /\ cached \in {[p \in Paths |-> [file |-> f[p], temps |-> [i \in Ids |-> Absent]]] :
                   f \in Files}
  /\ stable = cached
  /\ journal = NoJournal
  /\ stableJournal = NoJournal
  /\ holder = NoStore
  /\ task = [s \in Stores |-> NoTask]
  /\ asked = [i \in Ids |-> NoRequest]
  /\ answered = [i \in Ids |-> "none"]
  /\ happened = {}

(* What Store s does once it holds the lock.                               *)
Work(s) ==
  \/ Recover(s) \/ RecoverUnreadable(s) \/ Opened(s)
  \/ Refuse(s) \/ Plan(s) \/ Prepare(s) \/ PrepareFails(s)
  \/ \E p \in Paths : StartTemporary(s, p) \/ EndTemporary(s, p)
  \/ TemporaryFails(s)
  \/ CommitJournal(s) \/ CommitJournalFails(s) \/ CommitJournalUnreadable(s)
  \/ \E p \in Paths : DiscardTemporary(s, p)
  \/ Discarded(s) \/ DiscardFails(s)
  \/ \E p \in Paths : FinishDelete(s, p) \/ FinishRename(s, p)
  \/ \E d \in task[s].changed : FinishSync(s, d)
  \/ Finished(s) \/ FinishRetries(s) \/ FinishFails(s)

Next ==
  \/ \E s \in Stores :
       \/ \E i \in Ids, r \in Requests : Call(s, i, r)
       \/ Open(s)
       \/ Lock(s)
       \/ Work(s)
       \/ Crash(s)
  \/ PowerCut
  \/ \E p \in Paths, c \in Contents \cup {Absent} : Edit(p, c)

Spec == Init /\ [][Next]_vars

(* A Store that holds the lock goes on to the end of its call: it runs on a  *)
(* blocking thread, and waits for nothing but the disk.                      *)
FairSpec == Spec /\ \A s \in Stores : WF_vars(Work(s))
-----------------------------------------------------------------------------
(* Properties.                                                             *)

(* Every variable has values of its kind.                                  *)
TypeOK ==
  /\ cached \in [Paths -> Entries]
  /\ stable \in [Paths -> Entries]
  /\ journal \in Journals
  /\ stableJournal \in Journals
  /\ holder \in Stores \cup {NoStore}
  /\ task \in [Stores -> Tasks]
  /\ asked \in [Ids -> Requests \cup {NoRequest}]
  /\ answered \in [Ids -> {"none", "ok", "pending", "failed"}]
  /\ happened \subseteq Ids

(* What reads through tidings give for each Path is the Store of             *)
(* AtomicStore: a Commit is seen whole or not at all, at a moment its       *)
(* Preconditions hold, whatever is on disk, whoever died, and however often *)
(* finishing it was started.                                                *)
View == [p \in Paths |-> AsFinished(journal, p)]

Outcome == [i \in Ids |-> IF i \in happened THEN "happened"
                         ELSE IF answered[i] = "failed" THEN "refused"
                         ELSE "open"]

Atomic == INSTANCE AtomicStore WITH files <- View, outcome <- Outcome

ImplementsAtomicStore == Atomic!Spec

(* Only one Store at a time is past the lock, so nothing it plans from disk  *)
(* is changed by another Store before it is done (Location::lock).           *)
OneAtATime ==
  \A s \in Stores : task[s].step \notin {"idle", "waiting"} => holder = s

(* Once a Commit has happened, each of its writes is still to be had whole:  *)
(* in a temporary file, or in the File it was renamed over.  So finishing it *)
(* again, from any point, never publishes half a File or loses one.          *)
CommittedIsWhole ==
  journal.state = "committed" =>
    \A p \in journal.writes :
      \/ Temporary(journal, p) = asked[journal.id].sets[p]
      \/ /\ Temporary(journal, p) = Absent
         /\ Disk[p] = asked[journal.id].sets[p]

(* Every temporary file on disk is named by the journal, so whatever died    *)
(* or failed, the next Commit or `open` finds it (ADR 0005: "a crash could   *)
(* leave temporary files scattered that nothing knows about").               *)
NoScatteredTemporaries ==
  \A p \in Paths, i \in Ids :
    cached[p].temps[i] # Absent =>
      journal.state # "none" /\ journal.id = i /\ p \in journal.writes

(* Ok and Pending mean that the Commit has happened.                         *)
SuccessesAreTrue ==
  \A i \in Ids : answered[i] \in {"ok", "pending"} => i \in happened

(* An error means that it never happens, not even when a later Commit        *)
(* recovers (store.rs: "Nothing is written if the Commit fails").            *)
ErrorsAreTrue == \A i \in Ids : answered[i] = "failed" => i \notin happened

(* A journal renamed into place but not forced to disk can be read back.     *)
ReadsBack == ~({"journalSync", "journalRead"} \subseteq Faults)

(* What a Commit gave its caller is true, for as long as ReadsBack.  Without   *)
(* it this is false of the code: commit_journal then gives the caller of a   *)
(* Commit that has happened a plain error (CommitJournalUnreadable).         *)
AnswersAreTrue == SuccessesAreTrue /\ ErrorsAreTrue

(* A Commit that gave Ok is finished: no temporary file of it is left to be  *)
(* renamed, so other programs see it whole too.                              *)
OkIsFinished ==
  \A i \in Ids, p \in Paths : answered[i] = "ok" => cached[p].temps[i] = Absent

(* Listing and reading agree on which Files there are, also while a Commit   *)
(* is being finished (AsFinished::paths_under and AsFinished::read).         *)
ListedIsRead == Listed(journal) = {p \in Paths : View[p] # Absent}

(* Another program's File at a Path that the Commit s is finishing deletes:    *)
(* the first try deletes whatever is there by then, and a File written again *)
(* as the one that was deleted shows once the journal is gone.               *)
MeetsADelete(s, p) ==
  LET j == task[s].journal IN
  /\ task[s].step = "finishing"
  /\ p \in Removed(j)
  /\ \/ task[s].whose = "own" /\ task[s].tries = 0 /\ Disk[p] # j.removes[p]
     \/ p \notin task[s].todo /\ Disk[p] = j.removes[p]

(* But for the moment a Commit happens, nothing a Store does changes what    *)
(* reads give: finishing, recovering and discarding show nothing new, also   *)
(* while other programs edit Files.  In particular, finishing again deletes  *)
(* a File only if it is the one the Commit deletes; MeetsADelete is where    *)
(* the code doesn't keep to that (journal.rs: "deleting it is only made, and *)
(* shown, of the File it deletes").                                          *)
FinishingShowsNothing ==
  [][\A s \in Stores : Work(s) /\ happened' = happened =>
       \A p \in Paths : View'[p] = View[p] \/ MeetsADelete(s, p)]_vars

(* The same of every Path, with no exemption: it takes that nobody else edits  *)
(* what the Commits delete.                                                  *)
OnlyCommitsShow ==
  [][(\E s \in Stores : Work(s)) /\ happened' = happened => View' = View]_vars

(* Whenever the power might be cut, reads afterwards give what they gave     *)
(* before (journal.rs: each directory is forced to disk before the journal   *)
(* is removed, "so that the Commit is on disk before").                      *)
SurvivesPowerCut ==
  \A lost \in SUBSET Paths, j \in {journal, stableJournal}, p \in Paths :
    LET left == IF p \in lost THEN stable[p] ELSE cached[p]
        temporary == IF p \in j.writes THEN left.temps[j.id] ELSE Absent
    IN  View[p] = IF j.state = "committed" /\ temporary # Absent THEN temporary
                  ELSE IF j.state = "committed" /\ p \in Removed(j)
                          /\ left.file = j.removes[p]
                       THEN Absent
                  ELSE left.file

(* A Commit or `open` that gets the lock gives it back, however its steps    *)
(* fail: finishing is only tried a few times.                                *)
LockIsGivenBack == \A s \in Stores : (holder = s) ~> (holder # s)
-----------------------------------------------------------------------------
(* The inductive invariant behind TypeOK, OneAtATime and AnswersAreTrue.     *)

(* Store s has begun to make its Commit: its temporary files may be there.   *)
Begun(s) ==
  \/ task[s].step = "writing"
  \/ task[s].step \in {"discarding", "finishing"} /\ task[s].whose = "own"

(* A Commit belongs to one call, which is the only one to answer it.         *)
OwnCommits ==
  /\ \A s \in Stores : task[s].id \in Ids =>
       asked[task[s].id] # NoRequest /\ answered[task[s].id] = "none"
  /\ \A s, t \in Stores : s # t /\ task[s].id = task[t].id => task[s].id = NoId
  /\ \A i \in Ids : asked[i] = NoRequest => answered[i] = "none"

(* Before a Commit has begun, nothing of it is on disk.                      *)
NothingBefore ==
  \A i \in Ids :
    asked[i] = NoRequest \/ (\E s \in Stores : task[s].id = i /\ ~Begun(s)) =>
      /\ i \notin happened
      /\ \A p \in Paths : cached[p].temps[i] = Absent /\ stable[p].temps[i] = Absent

(* What a Store that makes, discards or finishes a Commit knows of it.       *)
KnowsItsCommit(s) ==
  /\ task[s].step \in {"preparing", "writing"} =>
       /\ task[s].id \in Ids
       /\ task[s].journal.id = task[s].id
       /\ task[s].journal.state = "prepared"
       /\ task[s].todo \subseteq task[s].journal.writes
       /\ \A p \in task[s].journal.writes : asked[task[s].id].sets[p] \in Contents
  /\ task[s].step = "writing" =>
       /\ task[s].id \notin happened
       /\ \A p \in Paths :
            /\ stable[p].temps[task[s].id] # Torn
            /\ cached[p].temps[task[s].id] = Torn => p \in task[s].todo
  /\ task[s].step \in {"discarding", "finishing"} /\ task[s].whose = "own" =>
       /\ task[s].id \in Ids
       /\ task[s].journal.id = task[s].id
       /\ task[s].step = "discarding" => task[s].id \notin happened
  /\ task[s].step = "finishing" => task[s].journal.id \in happened

OwnSteps == \A s \in Stores : KnowsItsCommit(s)

(* A committed journal is one of a Commit that has happened, whose temporary *)
(* files are all whole.                                                      *)
HappenedIsWhole ==
  /\ journal.state = "committed" => journal.id \in happened
  /\ stableJournal.state = "committed" => stableJournal.id \in happened
  /\ \A i \in happened, p \in Paths :
       cached[p].temps[i] # Torn /\ stable[p].temps[i] # Torn

(* What callers were told is true, the errors for as long as ReadsBack.      *)
AnsweredRightly == SuccessesAreTrue /\ (ReadsBack => ErrorsAreTrue)

IInv ==
  /\ TypeOK
  /\ OneAtATime
  /\ OwnCommits
  /\ NothingBefore
  /\ OwnSteps
  /\ HappenedIsWhole
  /\ AnsweredRightly

=============================================================================
