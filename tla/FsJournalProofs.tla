-------------------------- MODULE FsJournalProofs --------------------------
(***************************************************************************)
(* What holds of FsJournal for any Stores, Paths, contents, Commits and    *)
(* Faults.                                                                 *)
(***************************************************************************)
EXTENDS FsJournal, TLAPS

-----------------------------------------------------------------------------
(* Types.                                                                  *)

LEMMA NoJournalType == NoJournal \in Journals
BY DEF NoJournal, Journals

LEMMA NoTaskType == NoTask \in Tasks
BY NoJournalType, JournalAssumption DEF NoTask, Tasks

LEMMA TypeInit == Init => TypeOK
<1> SUFFICES ASSUME Init PROVE TypeOK
  OBVIOUS
<1>1. cached \in [Paths -> Entries]
  BY DEF Init, Entries, Files
<1>2. QED
  BY <1>1, NoJournalType, NoTaskType DEF Init, TypeOK

(* A Store that goes on to another step has a task of the right kind.      *)
LEMMA BeginType ==
  ASSUME TypeOK, NEW s \in Stores,
         NEW step \in {"locked", "ready", "preparing", "writing", "discarding", "finishing"},
         NEW j \in Journals, NEW todo \in SUBSET Paths, NEW whose \in {"own", "found"},
         Begin(s, step, j, todo, whose)
  PROVE  task' \in [Stores -> Tasks]
<1>1. task[s] \in Tasks /\ Retries \in Nat
  BY JournalAssumption DEF TypeOK
<1>2. [step |-> step, id |-> task[s].id, journal |-> j, todo |-> todo,
       changed |-> {}, tries |-> 0, whose |-> whose] \in Tasks
  BY <1>1 DEF Tasks
<1>3. QED
  BY <1>2 DEF Begin, TypeOK

LEMMA AnswerType ==
  ASSUME TypeOK, NEW s \in Stores,
         NEW a \in {"none", "ok", "pending", "failed"}, Answer(s, a)
  PROVE  /\ task' \in [Stores -> Tasks]
         /\ holder' \in Stores \cup {NoStore}
         /\ answered' \in [Ids -> {"none", "ok", "pending", "failed"}]
<1>1. task' \in [Stores -> Tasks] /\ holder' \in Stores \cup {NoStore}
  BY NoTaskType DEF Answer, Leave, TypeOK
<1>2. answered' \in [Ids -> {"none", "ok", "pending", "failed"}]
  BY DEF Answer, TypeOK
<1>3. QED
  BY <1>1, <1>2

LEMMA StartType ==
  ASSUME TypeOK, NEW s \in Stores, NEW j \in Journals, NEW whose \in {"own", "found"},
         StartFinishing(s, j, whose) \/ StartDiscarding(s, j, whose)
  PROVE  task' \in [Stores -> Tasks]
<1>1. j.writes \in SUBSET Paths /\ j.writes \cup Removed(j) \in SUBSET Paths
  BY DEF Journals, Removed
<1>2. CASE StartFinishing(s, j, whose)
  BY <1>1, <1>2, BeginType DEF StartFinishing
<1>3. CASE StartDiscarding(s, j, whose)
  BY <1>1, <1>3, BeginType DEF StartDiscarding
<1>4. QED
  BY <1>2, <1>3

(* A task stays of its kind when one part of it is replaced.               *)
LEMMA TaskPart ==
  ASSUME NEW t \in Tasks
  PROVE  /\ \A step \in {"waiting", "locked", "ready", "writing"} :
              [t EXCEPT !.step = step] \in Tasks
         /\ \A todo \in SUBSET Paths : [t EXCEPT !.todo = todo] \in Tasks
         /\ \A i \in Ids : [t EXCEPT !.step = "waiting", !.id = i] \in Tasks
         /\ \A p \in Paths : [t EXCEPT !.todo = @ \ {p}] \in Tasks
BY DEF Tasks

LEMMA RemoveJournalType ==
  ASSUME TypeOK, NEW s \in Stores, NEW a \in {"ok", "failed"}, RemoveJournal(s, a)
  PROVE  TypeOK'
<1>1. journal' \in Journals
  BY NoJournalType DEF RemoveJournal
<1>2. /\ task' \in [Stores -> Tasks]
      /\ holder' \in Stores \cup {NoStore}
      /\ answered' \in [Ids -> {"none", "ok", "pending", "failed"}]
  <2>1. CASE task[s].whose = "found"
    <3>1. Begin(s, "ready", NoJournal, {}, "own") /\ UNCHANGED <<holder, answered>>
      BY <2>1 DEF RemoveJournal
    <3>2. task' \in [Stores -> Tasks]
      BY <3>1, NoJournalType, BeginType
    <3>3. QED
      BY <3>1, <3>2 DEF TypeOK
  <2>2. CASE task[s].whose # "found"
    BY <2>2, AnswerType DEF RemoveJournal
  <2>3. QED
    BY <2>1, <2>2
<1>3. QED
  BY <1>1, <1>2 DEF RemoveJournal, TypeOK, disk

(* What is on disk for a Path stays of its kind when a File or a temporary   *)
(* file of it is replaced.                                                   *)
LEMMA EntryPart ==
  ASSUME NEW d \in [Paths -> Entries], NEW p \in Paths
  PROVE  /\ \A i \in Ids, c \in Contents \cup {Absent, Torn} :
              [d EXCEPT ![p].temps[i] = c] \in [Paths -> Entries]
         /\ \A c \in Contents \cup {Absent} :
              [d EXCEPT ![p].file = c] \in [Paths -> Entries]
BY DEF Entries

LEMMA PlanType ==
  ASSUME TypeOK, NEW s \in Stores, Plan(s)
  PROVE  TypeOK'
<1> DEFINE r == asked[task[s].id]
           j == [state |-> "prepared", id |-> task[s].id, writes |-> Written(r, Disk),
                 removes |-> [p \in Paths |-> IF p \in Deleted(r, Disk)
                                                THEN Disk[p] ELSE Absent]]
<1>1. task[s].id \in Ids /\ Disk \in Files
  BY DEF Plan, TypeOK, Tasks, Disk, Entries, Files
<1>2. j \in Journals /\ j.writes \in SUBSET Paths
  BY <1>1 DEF Journals, Written, Files
<1>3. CASE j.writes = {} /\ Removed(j) = {}
  <2>1. /\ Answer(s, "ok")
        /\ happened' = happened \cup {task[s].id}
        /\ UNCHANGED <<disk, journals, asked>>
    BY <1>3 DEF Plan
  <2>2. QED
    BY <1>1, <2>1, AnswerType DEF TypeOK, disk, journals
<1>4. CASE ~(j.writes = {} /\ Removed(j) = {})
  <2>1. /\ Begin(s, IF j.writes = {} THEN "writing" ELSE "preparing", j, j.writes, "own")
        /\ UNCHANGED <<disk, journals, asked, holder, answered, happened>>
    BY <1>4 DEF Plan
  <2>2. task' \in [Stores -> Tasks]
    BY <1>2, <2>1, BeginType
  <2>3. QED
    BY <2>1, <2>2 DEF TypeOK, disk, journals
<1>5. QED
  BY <1>3, <1>4

LEMMA CommittedType ==
  ASSUME TypeOK, NEW s \in Stores
  PROVE  Committed(s) \in Journals
BY DEF TypeOK, Tasks, Journals, Committed

(* Every step of a Store that holds the lock leaves each variable of its     *)
(* kind: only whole temporary files are renamed (Torn is no File).           *)
LEMMA WorkType ==
  ASSUME IInv, NEW s \in Stores, Work(s)
  PROVE  TypeOK'
<1>1. /\ TypeOK
      /\ task[s] \in Tasks /\ task \in [Stores -> Tasks]
      /\ cached \in [Paths -> Entries] /\ stable \in [Paths -> Entries]
  BY DEF IInv, TypeOK
<1>2. CASE Recover(s)
  <2>1. CASE task' = [task EXCEPT ![s].step = "ready"]
    <3>1. task' \in [Stores -> Tasks]
      BY <1>1, <2>1, TaskPart
    <3>2. QED
      BY <1>1, <1>2, <3>1 DEF Recover, TypeOK, disk, journals, history
  <2>2. CASE StartDiscarding(s, journal, "found") \/ StartFinishing(s, journal, "found")
    <3>1. task' \in [Stores -> Tasks]
      BY <1>1, <2>2, StartType DEF TypeOK
    <3>2. QED
      BY <1>1, <1>2, <3>1 DEF Recover, TypeOK, disk, journals, history
  <2>3. QED
    BY <1>2, <2>1, <2>2 DEF Recover
<1>3. CASE RecoverUnreadable(s) \/ Refuse(s) \/ DiscardFails(s)
  BY <1>1, <1>3, AnswerType
     DEF RecoverUnreadable, Refuse, DiscardFails, TypeOK, disk, journals
<1>4. CASE FinishFails(s)
  <2>1. Unfinished(s) \in {"failed", "pending"}
    BY DEF Unfinished
  <2>2. QED
    BY <1>1, <1>4, <2>1, AnswerType DEF FinishFails, TypeOK, disk, journals
<1>5. CASE Opened(s)
  BY <1>1, <1>5, NoTaskType DEF Opened, Leave, TypeOK, disk, journals, history
<1>6. CASE Plan(s)
  BY <1>1, <1>6, PlanType
<1>7. CASE Prepare(s)
  <2>1. task' \in [Stores -> Tasks] /\ task[s].journal \in Journals
    BY <1>1, <1>7, TaskPart DEF Prepare, Tasks
  <2>2. QED
    BY <1>1, <1>7, <2>1 DEF Prepare, TypeOK, disk, history
<1>8. CASE PrepareFails(s)
  <2>1. journal' \in Journals
    BY <1>1, <1>8 DEF PrepareFails, TypeOK, Tasks
  <2>2. QED
    BY <1>1, <1>8, <2>1, AnswerType DEF PrepareFails, TypeOK, disk
<1>9. ASSUME NEW p \in Paths, StartTemporary(s, p)
      PROVE  TypeOK'
  <2>1. task[s].id \in Ids
    BY <1>9 DEF IInv, OwnSteps, KnowsItsCommit, StartTemporary, Busy
  <2>2. cached' \in [Paths -> Entries]
    BY <1>1, <1>9, <2>1, EntryPart DEF StartTemporary
  <2>3. QED
    BY <1>1, <1>9, <2>2 DEF StartTemporary, TypeOK, journals, history
<1>10. ASSUME NEW p \in Paths, EndTemporary(s, p)
       PROVE  TypeOK'
  <2>1. task[s].id \in Ids /\ asked[task[s].id].sets[p] \in Contents
    BY <1>10 DEF IInv, OwnSteps, KnowsItsCommit, EndTemporary, Busy
  <2>2. cached' \in [Paths -> Entries] /\ stable' \in [Paths -> Entries]
    BY <1>1, <1>10, <2>1, EntryPart DEF EndTemporary
  <2>3. task' \in [Stores -> Tasks]
    BY <1>1, <1>10, TaskPart DEF EndTemporary
  <2>4. QED
    BY <1>1, <1>10, <2>2, <2>3 DEF EndTemporary, TypeOK, journals, history
<1>11. CASE TemporaryFails(s) \/ CommitJournalFails(s)
  <2>1. task' \in [Stores -> Tasks]
    BY <1>1, <1>11, StartType DEF TemporaryFails, CommitJournalFails, Tasks
  <2>2. QED
    BY <1>1, <1>11, <2>1 DEF TemporaryFails, CommitJournalFails, TypeOK, disk, journals, history
<1>12. CASE CommitJournal(s)
  <2>1. task' \in [Stores -> Tasks]
    BY <1>1, <1>12, StartType, CommittedType DEF CommitJournal
  <2>2. task[s].id \in Ids
    BY <1>12 DEF IInv, OwnSteps, KnowsItsCommit, CommitJournal, Busy
  <2>3. QED
    BY <1>1, <1>12, <2>1, <2>2, CommittedType DEF CommitJournal, TypeOK, disk
<1>13. CASE CommitJournalUnreadable(s)
  <2>1. task[s].id \in Ids
    BY <1>13 DEF IInv, OwnSteps, KnowsItsCommit, CommitJournalUnreadable, Busy
  <2>2. journal' \in Journals /\ happened' \subseteq Ids
    BY <1>1, <1>13, <2>1, CommittedType DEF CommitJournalUnreadable, TypeOK
  <2>3. QED
    BY <1>1, <1>13, <2>2, AnswerType DEF CommitJournalUnreadable, TypeOK, disk
<1>14. ASSUME NEW p \in Paths, DiscardTemporary(s, p)
       PROVE  TypeOK'
  <2>1. task' \in [Stores -> Tasks]
    BY <1>1, <1>14, TaskPart DEF DiscardTemporary
  <2>2. cached' \in [Paths -> Entries]
    BY <1>1, <1>14 DEF DiscardTemporary, Entries
  <2>3. QED
    BY <1>1, <1>14, <2>1, <2>2 DEF DiscardTemporary, TypeOK, journals, history
<1>15. CASE Discarded(s) \/ Finished(s)
  BY <1>1, <1>15, RemoveJournalType DEF Discarded, Finished
<1>16. ASSUME NEW p \in Paths, FinishDelete(s, p) \/ FinishRename(s, p)
       PROVE  TypeOK'
  <2>1. PICK changes \in BOOLEAN :
           task' = [task EXCEPT ![s].todo = @ \ {p},
                                ![s].changed = Changing(s, p, changes)]
    BY <1>16 DEF FinishDelete, FinishRename
  <2>2. /\ task[s].todo \ {p} \in SUBSET Paths
        /\ Changing(s, p, changes) \in SUBSET {Directory[q] : q \in Paths}
    BY <1>1 DEF Changing, Tasks
  <2>3. task' \in [Stores -> Tasks]
    BY <1>1, <2>1, <2>2 DEF Tasks
  <2>4. cached' \in [Paths -> Entries]
    <3>1. CASE UNCHANGED cached
      BY <1>1, <3>1
    <3>2. CASE cached' = [cached EXCEPT ![p].file = Absent]
      BY <1>1, <3>2, EntryPart
    <3>3. CASE /\ FinishRename(s, p) /\ Temporary(task[s].journal, p) # Absent
               /\ cached' = [cached EXCEPT
                               ![p].file = Temporary(task[s].journal, p),
                               ![p].temps[task[s].journal.id] = Absent]
      <4>1. task[s].journal.id \in happened /\ task[s].journal.id \in Ids
        BY <3>3 DEF FinishRename, Busy, IInv, OwnSteps, KnowsItsCommit, TypeOK
      <4>2. Temporary(task[s].journal, p) \in Contents
        BY <1>1, <3>3, <4>1 DEF Temporary, Entries, IInv, HappenedIsWhole
      <4>3. [cached EXCEPT ![p].file = Temporary(task[s].journal, p)] \in [Paths -> Entries]
        BY <1>1, <4>2, EntryPart
      <4>4. QED
        BY <3>3, <4>1, <4>3, EntryPart
    <3>4. QED
      BY <1>16, <3>1, <3>2, <3>3 DEF FinishDelete, FinishRename
  <2>5. QED
    BY <1>1, <1>16, <2>3, <2>4 DEF FinishDelete, FinishRename, TypeOK, journals, history
<1>17. ASSUME NEW d \in task[s].changed, FinishSync(s, d)
       PROVE  TypeOK'
  <2>1. stable' \in [Paths -> Entries]
    BY <1>1, <1>17 DEF FinishSync
  <2>2. task' \in [Stores -> Tasks]
    BY <1>1, <1>17 DEF FinishSync, Tasks
  <2>3. QED
    BY <1>1, <1>17, <2>1, <2>2 DEF FinishSync, TypeOK, journals, history
<1>18. CASE FinishRetries(s)
  <2>1. /\ task[s].journal.writes \cup Removed(task[s].journal) \in SUBSET Paths
        /\ task[s].tries + 1 \in 0..Retries
    BY <1>1, <1>18, JournalAssumption
       DEF FinishRetries, MayRetry, Tasks, Journals, Removed
  <2>2. task' \in [Stores -> Tasks]
    BY <1>1, <1>18, <2>1 DEF FinishRetries, Tasks
  <2>3. QED
    BY <1>1, <1>18, <2>2 DEF FinishRetries, TypeOK, disk, journals, history
<1>19. QED
  BY <1>2, <1>3, <1>4, <1>5, <1>6, <1>7, <1>8, <1>9, <1>10, <1>11, <1>12, <1>13, <1>14,
     <1>15, <1>16, <1>17, <1>18 DEF Work

-----------------------------------------------------------------------------
(* What a step of a Store that holds the lock may change.                  *)

(* Only the holder works, only its own task changes, and it either goes on   *)
(* with the same Commit or leaves.                                           *)
LEMMA WorkTask ==
  ASSUME IInv, NEW s \in Stores, Work(s)
  PROVE  /\ holder = s /\ task[s].step \notin {"idle", "waiting"}
         /\ asked' = asked
         /\ \A t \in Stores \ {s} : task'[t] = task[t]
         /\ \/ /\ task'[s] = NoTask
               /\ holder' = NoStore
            \/ /\ task'[s].id = task[s].id
               /\ task'[s].step \notin {"idle", "waiting"}
               /\ holder' = holder /\ answered' = answered
               /\ ~Begun(s)' => ~Begun(s) /\ happened' = happened
<1> USE DEF IInv, TypeOK
<1>1. task[s] \in Tasks /\ task \in [Stores -> Tasks]
  OBVIOUS
<1> DEFINE Same == /\ task'[s].id = task[s].id
                   /\ task'[s].step \notin {"idle", "waiting"}
                   /\ holder' = holder /\ answered' = answered
                   /\ ~Begun(s)' => ~Begun(s) /\ happened' = happened
           Others == \A t \in Stores \ {s} : task'[t] = task[t]
<1>2. ASSUME NEW a, Answer(s, a) \/ Leave(s)
      PROVE  task'[s] = NoTask /\ holder' = NoStore /\ Others
  BY <1>1, <1>2 DEF Answer, Leave
<1>3. ASSUME NEW step, NEW j, NEW todo, NEW whose, Begin(s, step, j, todo, whose)
      PROVE  /\ task'[s].id = task[s].id /\ task'[s].step = step
             /\ task'[s].whose = whose /\ Others
  BY <1>1, <1>3 DEF Begin
<1>4. CASE Recover(s)
  <2>1. CASE task' = [task EXCEPT ![s].step = "ready"]
    BY <1>1, <1>4, <2>1 DEF Recover, Busy, Begun, history
  <2>2. CASE StartDiscarding(s, journal, "found") \/ StartFinishing(s, journal, "found")
    BY <1>3, <1>4, <2>2 DEF Recover, Busy, StartDiscarding, StartFinishing, Begun, history
  <2>3. QED
    BY <1>4, <2>1, <2>2 DEF Recover
<1>5. CASE RecoverUnreadable(s) \/ Refuse(s) \/ DiscardFails(s) \/ FinishFails(s)
  BY <1>2, <1>5 DEF RecoverUnreadable, Refuse, DiscardFails, FinishFails, Busy
<1>6. CASE Opened(s) \/ PrepareFails(s) \/ CommitJournalUnreadable(s)
  BY <1>2, <1>6 DEF Opened, PrepareFails, CommitJournalUnreadable, Busy, history
<1>7. CASE Plan(s)
  BY <1>2, <1>3, <1>7 DEF Plan, Busy, Begun
<1>8. CASE Prepare(s)
  BY <1>1, <1>8 DEF Prepare, Busy, Begun, history
<1>9. ASSUME NEW p \in Paths, StartTemporary(s, p) \/ EndTemporary(s, p)
      PROVE  Busy(s, "writing") /\ asked' = asked /\ Others /\ Same
  <2>1. CASE StartTemporary(s, p)
    BY <2>1 DEF StartTemporary, Busy, Begun, history
  <2>2. CASE EndTemporary(s, p)
    <3>1. task' = [task EXCEPT ![s].todo = @ \ {p}]
      BY <2>2 DEF EndTemporary
    <3>2. /\ task'[s].id = task[s].id /\ task'[s].step = task[s].step
          /\ task'[s].whose = task[s].whose /\ Others
      BY <1>1, <3>1 DEF Tasks
    <3>3. QED
      BY <2>2, <3>2 DEF EndTemporary, Busy, Begun, history
  <2>3. QED
    BY <1>9, <2>1, <2>2
<1>10. CASE TemporaryFails(s) \/ CommitJournalFails(s)
  BY <1>3, <1>10 DEF TemporaryFails, CommitJournalFails, StartDiscarding, Busy, Begun, history
<1>11. CASE CommitJournal(s)
  BY <1>3, <1>11 DEF CommitJournal, StartFinishing, Busy, Begun
<1>12. ASSUME NEW p \in Paths, DiscardTemporary(s, p)
       PROVE  Busy(s, "discarding") /\ asked' = asked /\ Others /\ Same
  BY <1>1, <1>12 DEF DiscardTemporary, Busy, Begun, history
<1>13. CASE Discarded(s) \/ Finished(s)
  BY <1>2, <1>3, <1>13 DEF Discarded, Finished, RemoveJournal, Busy, Begun
<1>14. ASSUME NEW p \in Paths, FinishDelete(s, p) \/ FinishRename(s, p)
       PROVE  Busy(s, "finishing") /\ asked' = asked /\ Others /\ Same
  <2>1. PICK todo, changed :
           task' = [task EXCEPT ![s].todo = todo, ![s].changed = changed]
    BY <1>14 DEF FinishDelete, FinishRename
  <2>2. /\ task'[s].id = task[s].id /\ task'[s].step = task[s].step
        /\ task'[s].whose = task[s].whose /\ Others
    BY <1>1, <2>1 DEF Tasks
  <2>3. QED
    BY <1>14, <2>2 DEF FinishDelete, FinishRename, Busy, Begun, history
<1>15. ASSUME NEW d \in task[s].changed, FinishSync(s, d)
       PROVE  Busy(s, "finishing") /\ asked' = asked /\ Others /\ Same
  BY <1>1, <1>15 DEF FinishSync, Busy, Begun, history
<1>16. CASE FinishRetries(s)
  BY <1>1, <1>16 DEF FinishRetries, Busy, Begun, history
<1>17. QED
  BY <1>4, <1>5, <1>6, <1>7, <1>8, <1>9, <1>10, <1>11, <1>12, <1>13, <1>14, <1>15, <1>16
     DEF Work, Busy

(* But for those of the Commit it is making, a Store only ever removes       *)
(* temporary files, and forces to disk what is there.                        *)
LEMMA WorkDisk ==
  ASSUME IInv, NEW s \in Stores, Work(s), NEW p \in Paths, NEW i \in Ids,
         ~(i = task[s].id /\ task[s].step = "writing")
  PROVE  /\ cached'[p].temps[i] \in {cached[p].temps[i], Absent}
         /\ stable'[p].temps[i] \in {stable[p].temps[i], cached[p].temps[i]}
<1>1. /\ cached \in [Paths -> Entries] /\ stable \in [Paths -> Entries]
      /\ task[s] \in Tasks
  BY DEF IInv, TypeOK
<1>2. CASE UNCHANGED disk
  BY <1>2 DEF disk
<1>3. ASSUME NEW q \in Paths, StartTemporary(s, q) \/ EndTemporary(s, q)
      PROVE  /\ cached'[p].temps[i] = cached[p].temps[i]
             /\ stable'[p].temps[i] = stable[p].temps[i]
  <2>1. task[s].step = "writing" /\ i # task[s].id
    BY <1>3 DEF StartTemporary, EndTemporary, Busy
  <2>2. CASE StartTemporary(s, q)
    BY <1>1, <2>1, <2>2 DEF StartTemporary, Entries
  <2>3. CASE EndTemporary(s, q)
    BY <1>1, <2>1, <2>3 DEF EndTemporary, Entries
  <2>4. QED
    BY <1>3, <2>2, <2>3
<1>4. ASSUME NEW q \in Paths, DiscardTemporary(s, q)
      PROVE  /\ cached'[p].temps[i] \in {cached[p].temps[i], Absent}
             /\ stable' = stable
  BY <1>1, <1>4 DEF DiscardTemporary, Entries
<1>5. ASSUME NEW q \in Paths, FinishDelete(s, q) \/ FinishRename(s, q)
      PROVE  /\ cached'[p].temps[i] \in {cached[p].temps[i], Absent}
             /\ stable' = stable
  <2>1. CASE FinishDelete(s, q)
    BY <1>1, <2>1 DEF FinishDelete, Entries
  <2>2. CASE FinishRename(s, q)
    <3>1. CASE UNCHANGED cached
      BY <2>2, <3>1 DEF FinishRename
    <3>2. CASE cached' = [cached EXCEPT ![q].file = Temporary(task[s].journal, q),
                                        ![q].temps[task[s].journal.id] = Absent]
      BY <1>1, <2>2, <3>2 DEF FinishRename, Entries
    <3>3. QED
      BY <2>2, <3>1, <3>2 DEF FinishRename
  <2>3. QED
    BY <1>5, <2>1, <2>2
<1>6. ASSUME NEW d \in task[s].changed, FinishSync(s, d)
      PROVE  cached' = cached /\ stable'[p] \in {stable[p], cached[p]}
  BY <1>6 DEF FinishSync
<1>7. QED
  BY <1>2, <1>3, <1>4, <1>5, <1>6
     DEF Work, Recover, RecoverUnreadable, Opened, Refuse, Plan, Prepare, PrepareFails,
         TemporaryFails, CommitJournal, CommitJournalFails, CommitJournalUnreadable,
         Discarded, DiscardFails, Finished, RemoveJournal, FinishRetries, FinishFails

(* A Store makes a Commit happen with nothing of it still to be written, and *)
(* a journal on disk is only ever committed by one that happens.             *)
LEMMA WorkHappened ==
  ASSUME IInv, NEW s \in Stores, Work(s)
  PROVE  /\ \/ happened' = happened
            \/ /\ happened' = happened \cup {task[s].id}
               /\ task[s].id \in Ids
               /\ cached' = cached /\ stable' = stable
               /\ \/ task[s].step = "ready"
                  \/ task[s].step = "writing" /\ task[s].todo = {}
         /\ journal'.state = "committed" => journal' = journal \/ journal'.id \in happened'
         /\ stableJournal'.state = "committed" =>
              stableJournal' = stableJournal \/ stableJournal'.id \in happened'
<1>1. task[s] \in Tasks /\ journal \in Journals /\ task[s].journal \in Journals
  BY DEF IInv, TypeOK, Tasks
<1>2. ASSUME Busy(s, "preparing") \/ Busy(s, "writing")
      PROVE  /\ task[s].id \in Ids /\ Committed(s).id = task[s].id
             /\ Committed(s) \in Journals
  BY <1>1, <1>2 DEF Busy, IInv, OwnSteps, KnowsItsCommit, Committed, Journals
<1>3. CASE UNCHANGED <<journals, happened>>
  BY <1>3 DEF journals
<1>4. CASE Plan(s)
  <2>1. /\ task[s].id \in Ids /\ task[s].step = "ready"
        /\ cached' = cached /\ stable' = stable
        /\ journal' = journal /\ stableJournal' = stableJournal
    BY <1>1, <1>4 DEF Plan, Busy, Tasks, disk, journals
  <2>2. happened' \in {happened, happened \cup {task[s].id}}
    BY <1>4 DEF Plan
  <2>3. QED
    BY <2>1, <2>2
<1>5. CASE Prepare(s) \/ PrepareFails(s)
  <2>1. task[s].journal.state # "committed"
    BY <1>5 DEF Prepare, PrepareFails, Busy, IInv, OwnSteps, KnowsItsCommit
  <2>2. QED
    BY <1>5, <2>1 DEF Prepare, PrepareFails, history
<1>6. CASE CommitJournal(s) \/ CommitJournalUnreadable(s)
  BY <1>2, <1>6 DEF CommitJournal, CommitJournalUnreadable, AllWritten, Busy, disk
<1>7. CASE Discarded(s) \/ Finished(s)
  BY <1>7 DEF Discarded, Finished, RemoveJournal, NoJournal
<1>8. QED
  BY <1>3, <1>4, <1>5, <1>6, <1>7
     DEF Work, Recover, RecoverUnreadable, Opened, Refuse, StartTemporary, EndTemporary,
         TemporaryFails, CommitJournalFails, DiscardTemporary, DiscardFails, FinishDelete,
         FinishRename, FinishSync, FinishRetries, FinishFails, history

(* A Store answers only its own Commit, and what it answers is true.         *)
LEMMA WorkAnswers ==
  ASSUME IInv, NEW s \in Stores, Work(s), NEW i \in Ids, answered'[i] # answered[i]
  PROVE  /\ i = task[s].id
         /\ answered'[i] = "failed" /\ (ReadsBack \/ happened' = happened) =>
              i \notin happened'
         /\ answered'[i] \in {"ok", "pending"} => i \in happened'
<1>1. task[s] \in Tasks /\ answered \in [Ids -> {"none", "ok", "pending", "failed"}]
  BY DEF IInv, TypeOK
<1>2. ASSUME NEW a, Answer(s, a)
      PROVE  i = task[s].id /\ answered'[i] = a
  BY <1>1, <1>2 DEF Answer
<1>3. ASSUME i = task[s].id, ~Begun(s)
      PROVE  i \notin happened
  BY <1>3 DEF IInv, NothingBefore
<1>4. CASE RecoverUnreadable(s) \/ Refuse(s) \/ PrepareFails(s)
  BY <1>2, <1>3, <1>4 DEF RecoverUnreadable, Refuse, PrepareFails, Busy, Begun
<1>5. CASE Plan(s)
  BY <1>2, <1>5 DEF Plan
<1>6. CASE CommitJournalUnreadable(s)
  <2>1. i = task[s].id /\ answered'[i] = "failed" /\ task[s].step = "writing"
    BY <1>2, <1>6 DEF CommitJournalUnreadable, Busy
  <2>2. i \notin happened
    BY <2>1 DEF IInv, OwnSteps, KnowsItsCommit
  <2>3. CASE happened' = happened
    BY <2>1, <2>2, <2>3
  <2>4. CASE happened' # happened
    BY <1>6, <2>1, <2>4 DEF CommitJournalUnreadable, ReadsBack
  <2>5. QED
    BY <2>3, <2>4
<1>7. CASE Discarded(s)
  <2>1. task[s].whose = "own" /\ Answer(s, "failed") /\ task[s].step = "discarding"
    BY <1>1, <1>7 DEF Discarded, RemoveJournal, Tasks, Busy
  <2>2. QED
    BY <1>2, <1>7, <2>1 DEF Discarded, RemoveJournal, IInv, OwnSteps, KnowsItsCommit
<1>8. CASE DiscardFails(s)
  BY <1>1, <1>2, <1>3, <1>8 DEF DiscardFails, Busy, Begun, IInv, OwnSteps, KnowsItsCommit
<1>9. CASE Finished(s)
  <2>1. task[s].whose = "own" /\ Answer(s, "ok") /\ task[s].step = "finishing"
    BY <1>1, <1>9 DEF Finished, RemoveJournal, Tasks, Busy
  <2>2. QED
    BY <1>2, <1>9, <2>1 DEF Finished, RemoveJournal, IInv, OwnSteps, KnowsItsCommit
<1>10. CASE FinishFails(s)
  <2>1. Answer(s, Unfinished(s)) /\ task[s].step = "finishing" /\ happened' = happened
    BY <1>10 DEF FinishFails, Busy
  <2>2. CASE task[s].whose = "found"
    BY <1>2, <1>3, <2>1, <2>2 DEF Unfinished, Begun
  <2>3. CASE task[s].whose = "own"
    BY <1>2, <2>1, <2>3 DEF Unfinished, IInv, OwnSteps, KnowsItsCommit
  <2>4. QED
    BY <1>1, <2>2, <2>3 DEF Tasks
<1>11. QED
  BY <1>4, <1>5, <1>6, <1>7, <1>8, <1>9, <1>10
     DEF Work, Recover, Opened, Prepare, StartTemporary, EndTemporary, TemporaryFails,
         CommitJournal, CommitJournalFails, DiscardTemporary, FinishDelete, FinishRename,
         FinishSync, FinishRetries, history

(* A Store goes on knowing of its Commit what it has to.                     *)
LEMMA WorkOwnSteps ==
  ASSUME IInv, NEW s \in Stores, Work(s)
  PROVE  KnowsItsCommit(s)'
<1>1. /\ task[s] \in Tasks /\ task \in [Stores -> Tasks] /\ KnowsItsCommit(s)
      /\ cached \in [Paths -> Entries] /\ stable \in [Paths -> Entries]
  BY DEF IInv, TypeOK, OwnSteps
<1>2. ASSUME task[s].id \in Ids, ~Begun(s), NEW p \in Paths
      PROVE  /\ task[s].id \notin happened
             /\ cached[p].temps[task[s].id] # Torn /\ stable[p].temps[task[s].id] # Torn
  BY <1>2, JournalAssumption DEF IInv, NothingBefore
<1>3. ASSUME task'[s] = NoTask
      PROVE  KnowsItsCommit(s)'
  BY <1>3 DEF NoTask, KnowsItsCommit
<1>4. ASSUME NEW a, Answer(s, a) \/ Leave(s)
      PROVE  KnowsItsCommit(s)'
  BY <1>1, <1>3, <1>4 DEF Answer, Leave
<1>5. ASSUME NEW step, NEW j, NEW todo, NEW whose, Begin(s, step, j, todo, whose)
      PROVE  /\ task'[s].id = task[s].id /\ task'[s].step = step
             /\ task'[s].whose = whose /\ task'[s].journal = j /\ task'[s].todo = todo
  BY <1>1, <1>5 DEF Begin
<1>6. CASE Recover(s)
  <2>1. CASE journal.state = "none"
    <3>1. task' = [task EXCEPT ![s].step = "ready"]
      BY <1>6, <2>1 DEF Recover
    <3>2. task'[s].step = "ready"
      BY <1>1, <3>1 DEF Tasks
    <3>3. QED
      BY <3>2 DEF KnowsItsCommit
  <2>2. CASE journal.state = "prepared"
    BY <1>5, <1>6, <2>2 DEF Recover, StartDiscarding, KnowsItsCommit
  <2>3. CASE journal.state = "committed"
    BY <1>5, <1>6, <2>3
       DEF Recover, StartFinishing, KnowsItsCommit, IInv, HappenedIsWhole, history
  <2>4. QED
    BY <1>6, <2>1, <2>2, <2>3 DEF Recover
<1>7. CASE RecoverUnreadable(s) \/ Opened(s) \/ Refuse(s) \/ PrepareFails(s)
           \/ CommitJournalUnreadable(s) \/ DiscardFails(s) \/ FinishFails(s)
  BY <1>4, <1>7 DEF RecoverUnreadable, Opened, Refuse, PrepareFails,
                    CommitJournalUnreadable, DiscardFails, FinishFails
<1>8. CASE Plan(s)
  <2> DEFINE r == asked[task[s].id]
             j == [state |-> "prepared", id |-> task[s].id, writes |-> Written(r, Disk),
                   removes |-> [p \in Paths |-> IF p \in Deleted(r, Disk)
                                                  THEN Disk[p] ELSE Absent]]
  <2>1. /\ task[s].id \in Ids /\ ~Begun(s) /\ asked' = asked
        /\ cached' = cached /\ stable' = stable
    <3>1. /\ task[s].id \in Ids /\ task[s].step = "ready"
          /\ asked' = asked /\ disk' = disk
      BY <1>1, <1>8 DEF Plan, Busy, Tasks
    <3>2. QED
      BY <3>1 DEF Begun, disk
  <2>2. CASE j.writes = {} /\ Removed(j) = {}
    BY <1>4, <1>8, <2>2 DEF Plan
  <2>3. CASE ~(j.writes = {} /\ Removed(j) = {})
    <3>1. /\ Begin(s, IF j.writes = {} THEN "writing" ELSE "preparing", j, j.writes, "own")
          /\ happened' = happened
      BY <1>8, <2>3 DEF Plan
    <3>2. \A p \in j.writes : r.sets[p] \in Contents
      BY DEF Written
    <3>3. /\ task'[s].id = task[s].id /\ task'[s].step \in {"preparing", "writing"}
          /\ task'[s].journal = j /\ task'[s].todo = j.writes
      BY <1>5, <3>1
    <3>4. j.id = task[s].id /\ j.state = "prepared"
      OBVIOUS
    <3> HIDE DEF j, r
    <3>5. /\ task[s].id \notin happened
          /\ \A p \in Paths : /\ cached[p].temps[task[s].id] # Torn
                              /\ stable[p].temps[task[s].id] # Torn
      BY <1>2, <2>1 DEF IInv, NothingBefore
    <3>6. QED
      BY <2>1, <3>1, <3>2, <3>3, <3>4, <3>5 DEF KnowsItsCommit, r
  <2>4. QED
    BY <2>2, <2>3
<1>9. CASE Prepare(s)
  <2>1. /\ task[s].id \in Ids /\ ~Begun(s) /\ task[s].step = "preparing"
        /\ cached' = cached /\ stable' = stable /\ happened' = happened /\ asked' = asked
        /\ task' = [task EXCEPT ![s].step = "writing"]
    BY <1>1, <1>9 DEF Prepare, Busy, Begun, KnowsItsCommit, disk, history
  <2>2. task'[s] = [task[s] EXCEPT !.step = "writing"]
    BY <1>1, <2>1
  <2>3. /\ task'[s].step = "writing" /\ task'[s].id = task[s].id
        /\ task'[s].journal = task[s].journal /\ task'[s].todo = task[s].todo
    BY <1>1, <2>2 DEF Tasks
  <2>4. task[s].id \notin happened
    BY <2>1 DEF IInv, NothingBefore
  <2>5. QED
    BY <1>1, <1>2, <2>1, <2>3, <2>4 DEF KnowsItsCommit
<1>10. ASSUME NEW p \in Paths, StartTemporary(s, p)
       PROVE  KnowsItsCommit(s)'
  <2>1. /\ task' = task /\ stable' = stable /\ happened' = happened /\ asked' = asked
        /\ task[s].step = "writing" /\ p \in task[s].todo
        /\ cached' = [cached EXCEPT ![p].temps[task[s].id] = Torn]
    BY <1>10 DEF StartTemporary, Busy, history
  <2>2. \A q \in Paths : q # p => cached'[q] = cached[q]
    BY <1>1, <2>1
  <2>3. QED
    BY <1>1, <2>1, <2>2 DEF KnowsItsCommit
<1>11. ASSUME NEW p \in Paths, EndTemporary(s, p)
       PROVE  KnowsItsCommit(s)'
  <2>1. /\ happened' = happened /\ asked' = asked /\ task[s].step = "writing"
        /\ task[s].id \in Ids /\ asked[task[s].id].sets[p] \in Contents
        /\ cached' = [cached EXCEPT ![p].temps[task[s].id] = asked[task[s].id].sets[p]]
        /\ stable' = [stable EXCEPT ![p].temps[task[s].id] = asked[task[s].id].sets[p]]
        /\ task' = [task EXCEPT ![s].todo = @ \ {p}]
    BY <1>1, <1>11 DEF EndTemporary, Busy, KnowsItsCommit, history
  <2>2. /\ task'[s].step = "writing" /\ task'[s].id = task[s].id
        /\ task'[s].journal = task[s].journal /\ task'[s].todo = task[s].todo \ {p}
    BY <1>1, <2>1 DEF Tasks
  <2>3. /\ \A q \in Paths : q # p => cached'[q] = cached[q] /\ stable'[q] = stable[q]
        /\ cached'[p].temps[task[s].id] # Torn /\ stable'[p].temps[task[s].id] # Torn
    BY <1>1, <2>1, JournalAssumption DEF Entries
  <2>4. /\ task[s].journal.id = task[s].id /\ task[s].journal.state = "prepared"
        /\ task'[s].todo \subseteq task[s].journal.writes
        /\ \A q \in task[s].journal.writes : asked[task[s].id].sets[q] \in Contents
        /\ task[s].id \notin happened
    BY <1>1, <2>1, <2>2 DEF KnowsItsCommit
  <2>5. \A q \in Paths :
          /\ stable'[q].temps[task[s].id] # Torn
          /\ cached'[q].temps[task[s].id] = Torn => q \in task'[s].todo
    BY <1>1, <2>1, <2>2, <2>3 DEF KnowsItsCommit
  <2>6. QED
    BY <2>1, <2>2, <2>4, <2>5 DEF KnowsItsCommit
<1>12. CASE TemporaryFails(s) \/ CommitJournalFails(s)
  BY <1>1, <1>5, <1>12
     DEF TemporaryFails, CommitJournalFails, StartDiscarding, Busy, KnowsItsCommit, history
<1>13. CASE CommitJournal(s)
  <2>1. /\ task[s].id \in Ids /\ Committed(s).id = task[s].id
        /\ task[s].id \in happened'
    BY <1>1, <1>13 DEF CommitJournal, Busy, Committed, KnowsItsCommit, Tasks, Journals
  <2>2. QED
    BY <1>5, <1>13, <2>1 DEF CommitJournal, StartFinishing, KnowsItsCommit
<1>14. ASSUME NEW p \in Paths, DiscardTemporary(s, p) \/ FinishDelete(s, p) \/ FinishRename(s, p)
       PROVE  KnowsItsCommit(s)'
  <2>1. PICK todo, changed :
           task'[s] = [task[s] EXCEPT !.todo = todo, !.changed = changed]
    <3>1. CASE DiscardTemporary(s, p)
      <4>1. task'[s] = [task[s] EXCEPT !.todo = @ \ {p}]
        BY <1>1, <3>1 DEF DiscardTemporary
      <4>2. task'[s] = [task[s] EXCEPT !.todo = task[s].todo \ {p}, !.changed = task[s].changed]
        BY <1>1, <4>1 DEF Tasks
      <4>3. QED
        BY <4>2
    <3>2. CASE FinishDelete(s, p) \/ FinishRename(s, p)
      <4>1. PICK changes \in BOOLEAN :
               task' = [task EXCEPT ![s].todo = @ \ {p},
                                    ![s].changed = Changing(s, p, changes)]
        BY <3>2 DEF FinishDelete, FinishRename
      <4>2. task'[s] = [task[s] EXCEPT !.todo = task[s].todo \ {p},
                                       !.changed = Changing(s, p, changes)]
        BY <1>1, <4>1
      <4>3. QED
        BY <4>2
    <3>3. QED
      BY <1>14, <3>1, <3>2
  <2>2. /\ task'[s].id = task[s].id /\ task'[s].step = task[s].step
        /\ task'[s].whose = task[s].whose /\ task'[s].journal = task[s].journal
    BY <1>1, <2>1 DEF Tasks
  <2>3. happened' = happened /\ task[s].step \in {"discarding", "finishing"}
    BY <1>14 DEF DiscardTemporary, FinishDelete, FinishRename, Busy, history
  <2>4. QED
    BY <1>1, <2>2, <2>3 DEF KnowsItsCommit
<1>15. CASE Discarded(s) \/ Finished(s)
  <2>1. CASE task[s].whose = "found"
    BY <1>5, <1>15, <2>1 DEF Discarded, Finished, RemoveJournal, KnowsItsCommit
  <2>2. CASE task[s].whose # "found"
    BY <1>4, <1>15, <2>2 DEF Discarded, Finished, RemoveJournal
  <2>3. QED
    BY <2>1, <2>2
<1>16. ASSUME NEW d \in task[s].changed, FinishSync(s, d)
       PROVE  KnowsItsCommit(s)'
  <2>1. /\ task'[s].id = task[s].id /\ task'[s].step = "finishing"
        /\ task'[s].whose = task[s].whose /\ task'[s].journal = task[s].journal
    BY <1>1, <1>16 DEF FinishSync, Busy, Tasks
  <2>2. happened' = happened
    BY <1>16 DEF FinishSync, history
  <2>3. QED
    BY <1>1, <1>16, <2>1, <2>2 DEF FinishSync, Busy, KnowsItsCommit
<1>17. CASE FinishRetries(s)
  <2>1. /\ task'[s].id = task[s].id /\ task'[s].step = "finishing"
        /\ task'[s].whose = task[s].whose /\ task'[s].journal = task[s].journal
    BY <1>1, <1>17 DEF FinishRetries, Busy, Tasks
  <2>2. happened' = happened
    BY <1>17 DEF FinishRetries, history
  <2>3. QED
    BY <1>1, <1>17, <2>1, <2>2 DEF FinishRetries, Busy, KnowsItsCommit
<1>18. QED
  BY <1>6, <1>7, <1>8, <1>9, <1>10, <1>11, <1>12, <1>13, <1>14, <1>15, <1>16, <1>17
     DEF Work

-----------------------------------------------------------------------------
(* IInv is inductive.                                                      *)

LEMMA WorkOwnCommits ==
  ASSUME IInv, NEW s \in Stores, Work(s)
  PROVE  OwnCommits'
<1>1. /\ asked' = asked
      /\ \A t \in Stores \ {s} : task'[t] = task[t]
      /\ \/ task'[s].id = NoId
         \/ task'[s].id = task[s].id /\ answered' = answered
  BY WorkTask DEF NoTask
<1>2. \A i \in Ids : i # task[s].id => answered'[i] = answered[i]
  BY WorkAnswers
<1>3. ASSUME NEW t \in Stores, task'[t].id \in Ids
      PROVE  asked'[task'[t].id] # NoRequest /\ answered'[task'[t].id] = "none"
  BY <1>1, <1>2, <1>3, JournalAssumption DEF IInv, OwnCommits
<1>4. ASSUME NEW t \in Stores, NEW u \in Stores, t # u, task'[t].id = task'[u].id
      PROVE  task'[t].id = NoId
  BY <1>1, <1>4 DEF IInv, OwnCommits
<1>5. ASSUME NEW i \in Ids, asked'[i] = NoRequest
      PROVE  answered'[i] = "none"
  BY <1>1, <1>2, <1>5 DEF IInv, OwnCommits
<1>6. QED
  BY <1>3, <1>4, <1>5 DEF OwnCommits

LEMMA WorkNothingBefore ==
  ASSUME IInv, NEW s \in Stores, Work(s)
  PROVE  NothingBefore'
<1> SUFFICES ASSUME NEW i \in Ids,
                    \/ asked'[i] = NoRequest
                    \/ \E t \in Stores : task'[t].id = i /\ ~Begun(t)'
             PROVE  /\ i \notin happened'
                    /\ \A p \in Paths : /\ cached'[p].temps[i] = Absent
                                        /\ stable'[p].temps[i] = Absent
  BY DEF NothingBefore
<1>1. /\ asked' = asked
      /\ \A t \in Stores \ {s} : task'[t] = task[t] /\ (Begun(t)' <=> Begun(t))
      /\ \/ task'[s].id = NoId
         \/ /\ task'[s].id = task[s].id
            /\ ~Begun(s)' => ~Begun(s) /\ happened' = happened
  BY WorkTask DEF NoTask, Begun
<1>2. /\ asked[i] = NoRequest \/ \E t \in Stores : task[t].id = i /\ ~Begun(t)
      /\ i = task[s].id => ~Begun(s) /\ happened' = happened
  <2>1. CASE asked'[i] = NoRequest
    BY <1>1, <2>1 DEF IInv, OwnCommits
  <2>2. ASSUME NEW t \in Stores \ {s}, task'[t].id = i, ~Begun(t)'
        PROVE  task[t].id = i /\ ~Begun(t) /\ i # task[s].id
    BY <1>1, <2>2, JournalAssumption DEF IInv, OwnCommits
  <2>3. CASE task'[s].id = i /\ ~Begun(s)'
    BY <1>1, <2>3, JournalAssumption
  <2>4. QED
    BY <2>1, <2>2, <2>3
<1>3. /\ i \notin happened
      /\ \A p \in Paths : cached[p].temps[i] = Absent /\ stable[p].temps[i] = Absent
  BY <1>2 DEF IInv, NothingBefore
<1>4. i \notin happened'
  BY <1>2, <1>3, WorkHappened
<1>5. ~(i = task[s].id /\ task[s].step = "writing")
  BY <1>2 DEF Begun
<1>6. QED
  BY <1>3, <1>4, <1>5, WorkDisk

LEMMA WorkHappenedIsWhole ==
  ASSUME IInv, NEW s \in Stores, Work(s)
  PROVE  HappenedIsWhole'
<1>1. /\ journal'.state = "committed" => journal'.id \in happened'
      /\ stableJournal'.state = "committed" => stableJournal'.id \in happened'
  BY WorkHappened DEF IInv, HappenedIsWhole
<1>2. ASSUME NEW i \in happened', NEW p \in Paths
      PROVE  cached'[p].temps[i] # Torn /\ stable'[p].temps[i] # Torn
  <2>1. CASE i \in happened
    <3>1. ~(i = task[s].id /\ task[s].step = "writing") /\ i \in Ids
      BY <2>1 DEF IInv, OwnSteps, KnowsItsCommit, TypeOK
    <3>2. cached[p].temps[i] # Torn /\ stable[p].temps[i] # Torn /\ Absent # Torn
      BY <2>1, JournalAssumption DEF IInv, HappenedIsWhole
    <3>3. QED
      BY <3>1, <3>2, WorkDisk
  <2>2. CASE i \notin happened
    <3>1. /\ i = task[s].id /\ i \in Ids
          /\ cached' = cached /\ stable' = stable
          /\ \/ task[s].step = "ready"
             \/ task[s].step = "writing" /\ task[s].todo = {}
      BY <1>2, <2>2, WorkHappened
    <3>2. CASE task[s].step = "ready"
      BY <3>1, <3>2, JournalAssumption DEF IInv, NothingBefore, Begun
    <3>3. CASE task[s].step = "writing" /\ task[s].todo = {}
      BY <3>1, <3>3 DEF IInv, OwnSteps, KnowsItsCommit
    <3>4. QED
      BY <3>1, <3>2, <3>3
  <2>3. QED
    BY <2>1, <2>2
<1>3. QED
  BY <1>1, <1>2 DEF HappenedIsWhole

LEMMA WorkAnsweredRightly ==
  ASSUME IInv, NEW s \in Stores, Work(s)
  PROVE  AnsweredRightly'
<1> SUFFICES ASSUME NEW i \in Ids
             PROVE  /\ ReadsBack /\ answered'[i] = "failed" => i \notin happened'
                    /\ answered'[i] \in {"ok", "pending"} => i \in happened'
  BY DEF AnsweredRightly, SuccessesAreTrue, ErrorsAreTrue, ReadsBack
<1>1. CASE answered'[i] # answered[i]
  BY <1>1, WorkAnswers
<1>2. CASE answered'[i] = answered[i]
  <2>1. i \notin happened /\ i \in happened' => answered[i] = "none"
    BY WorkHappened DEF IInv, OwnCommits
  <2>2. i \in happened => i \in happened'
    BY WorkHappened
  <2>3. QED
    BY <1>2, <2>1, <2>2 DEF IInv, AnsweredRightly, SuccessesAreTrue, ErrorsAreTrue
<1>3. QED
  BY <1>1, <1>2

LEMMA WorkStep ==
  ASSUME IInv, NEW s \in Stores, Work(s)
  PROVE  IInv'
<1>1. holder = s /\ \A t \in Stores \ {s} : task'[t] = task[t]
  BY WorkTask
<1>2. OneAtATime'
  BY WorkTask DEF IInv, OneAtATime, NoTask
<1>3. OwnSteps'
  <2>1. ASSUME NEW t \in Stores \ {s}
        PROVE  KnowsItsCommit(t)'
    <3>1. task'[t].step \in {"idle", "waiting"}
      <4>1. task[t] \in Tasks
        BY DEF IInv, TypeOK
      <4>2. task[t].step \in {"idle", "waiting"}
        BY <1>1, <4>1 DEF IInv, OneAtATime
      <4>3. QED
        BY <1>1, <4>2
    <3>2. QED
      BY <3>1 DEF KnowsItsCommit
  <2>2. QED
    BY <2>1, WorkOwnSteps DEF OwnSteps
<1>4. QED
  BY <1>2, <1>3, WorkType, WorkOwnCommits, WorkNothingBefore, WorkHappenedIsWhole,
     WorkAnsweredRightly DEF IInv

(* Steps that change nothing but what Stores are doing, and leave no Store   *)
(* past the lock that wasn't, but for one that gets it.                      *)
LEMMA TasksStep ==
  ASSUME IInv, TypeOK', OneAtATime', UNCHANGED <<disk, journals, history>>,
         \A t \in Stores :
           \/ task'[t] = task[t]
           \/ /\ task'[t].step \in {"idle", "waiting", "locked"}
              /\ \/ task'[t].id = NoId
                 \/ task'[t].id = task[t].id /\ ~Begun(t)
  PROVE  IInv'
<1>1. /\ cached' = cached /\ stable' = stable
      /\ journal' = journal /\ stableJournal' = stableJournal
      /\ asked' = asked /\ answered' = answered /\ happened' = happened
  BY DEF disk, journals, history
<1>2. \A t \in Stores : task'[t].id = NoId \/ task'[t].id = task[t].id
  OBVIOUS
<1>3. OwnCommits'
  <2>1. \A t \in Stores : task'[t].id \in Ids =>
          asked'[task'[t].id] # NoRequest /\ answered'[task'[t].id] = "none"
    BY <1>1, <1>2, JournalAssumption DEF IInv, OwnCommits
  <2>2. ASSUME NEW t \in Stores, NEW u \in Stores, t # u, task'[t].id = task'[u].id
        PROVE  task'[t].id = NoId
    BY <1>2, <2>2 DEF IInv, OwnCommits
  <2>3. \A i \in Ids : asked'[i] = NoRequest => answered'[i] = "none"
    BY <1>1 DEF IInv, OwnCommits
  <2>4. QED
    BY <2>1, <2>2, <2>3 DEF OwnCommits
<1>4. NothingBefore'
  <2>1. ASSUME NEW t \in Stores, NEW i \in Ids, task'[t].id = i, ~Begun(t)'
        PROVE  task[t].id = i /\ ~Begun(t)
    BY <2>1, JournalAssumption DEF Begun
  <2>2. QED
    BY <1>1, <2>1 DEF IInv, NothingBefore
<1>5. OwnSteps'
  <2>1. ASSUME NEW t \in Stores
        PROVE  KnowsItsCommit(t)'
    <3>1. CASE task'[t] = task[t]
      <4>1. KnowsItsCommit(t)
        BY DEF IInv, OwnSteps
      <4>2. QED
        BY <1>1, <3>1, <4>1 DEF KnowsItsCommit
    <3>2. CASE task'[t].step \in {"idle", "waiting", "locked"}
      BY <3>2 DEF KnowsItsCommit
    <3>3. QED
      BY <3>1, <3>2
  <2>2. QED
    BY <2>1 DEF OwnSteps
<1>6. HappenedIsWhole' /\ AnsweredRightly'
  BY <1>1 DEF IInv, HappenedIsWhole, AnsweredRightly,
         SuccessesAreTrue, ErrorsAreTrue, ReadsBack
<1>7. QED
  BY <1>3, <1>4, <1>5, <1>6 DEF IInv

LEMMA OpenLockCrashStep ==
  ASSUME IInv, NEW s \in Stores, Open(s) \/ Lock(s) \/ Crash(s)
  PROVE  IInv'
<1>1. task[s] \in Tasks /\ task \in [Stores -> Tasks] /\ holder \in Stores \cup {NoStore}
  BY DEF IInv, TypeOK
<1>2. \A t \in Stores : task[t].step \notin {"idle", "waiting"} => holder = t
  BY DEF IInv, OneAtATime
<1>3. CASE Open(s)
  <2>1. /\ task[s].step = "idle" /\ holder' = holder
        /\ UNCHANGED <<disk, journals, history>>
        /\ task' = [task EXCEPT ![s].step = "waiting"]
    BY <1>3 DEF Open
  <2>2. task' \in [Stores -> Tasks]
    BY <1>1, <2>1, TaskPart
  <2>3. /\ \A t \in Stores \ {s} : task'[t] = task[t]
        /\ task'[s].step = "waiting" /\ task'[s].id = task[s].id
    BY <1>1, <2>1 DEF Tasks
  <2>4. TypeOK'
    BY <2>1, <2>2 DEF IInv, TypeOK, disk, journals, history
  <2>5. OneAtATime' /\ ~Begun(s)
    BY <1>2, <2>1, <2>3 DEF OneAtATime, Begun
  <2>6. QED
    BY <2>1, <2>3, <2>4, <2>5, TasksStep
<1>4. CASE Lock(s)
  <2>1. /\ task[s].step = "waiting" /\ holder = NoStore /\ holder' = s
        /\ UNCHANGED <<disk, journals, history>>
        /\ task' = [task EXCEPT ![s].step = "locked"]
    BY <1>4 DEF Lock
  <2>2. task' \in [Stores -> Tasks]
    BY <1>1, <2>1, TaskPart
  <2>3. /\ \A t \in Stores \ {s} : task'[t] = task[t]
        /\ task'[s].step = "locked" /\ task'[s].id = task[s].id
    BY <1>1, <2>1 DEF Tasks
  <2>4. TypeOK'
    BY <2>1, <2>2 DEF IInv, TypeOK, disk, journals, history
  <2>5. OneAtATime' /\ ~Begun(s)
    BY <1>2, <2>1, <2>3, JournalAssumption DEF OneAtATime, Begun
  <2>6. QED
    BY <2>1, <2>3, <2>4, <2>5, TasksStep
<1>5. CASE Crash(s)
  <2>1. /\ task' = [task EXCEPT ![s] = NoTask]
        /\ holder' = IF holder = s THEN NoStore ELSE holder
        /\ UNCHANGED <<disk, journals, history>>
    BY <1>5 DEF Crash
  <2>2. task' \in [Stores -> Tasks]
    BY <1>1, <2>1, NoTaskType
  <2>3. /\ \A t \in Stores \ {s} : task'[t] = task[t]
        /\ task'[s].step = "idle" /\ task'[s].id = NoId
    BY <1>1, <2>1 DEF NoTask
  <2>4. TypeOK'
    BY <2>1, <2>2 DEF IInv, TypeOK, disk, journals, history
  <2>5. OneAtATime'
    BY <1>2, <2>1, <2>3 DEF OneAtATime
  <2>6. QED
    BY <2>1, <2>3, <2>4, <2>5, TasksStep
<1>6. QED
  BY <1>3, <1>4, <1>5

LEMMA PowerCutStep ==
  ASSUME IInv, PowerCut
  PROVE  IInv'
<1>1. /\ \A p \in Paths : cached'[p] \in {cached[p], stable[p]}
      /\ stable' = cached'
      /\ \E lost \in SUBSET Paths :
           cached' = [p \in Paths |-> IF p \in lost THEN stable[p] ELSE cached[p]]
      /\ journal' \in {journal, stableJournal} /\ stableJournal' = journal'
      /\ task' = [s \in Stores |-> NoTask] /\ holder' = NoStore
      /\ asked' = asked /\ answered' = answered /\ happened' = happened
  BY DEF PowerCut, history
<1>2. TypeOK'
  <2>1. cached' \in [Paths -> Entries]
    BY <1>1 DEF IInv, TypeOK
  <2>2. journal' \in Journals
    BY <1>1 DEF IInv, TypeOK
  <2>3. QED
    BY <1>1, <2>1, <2>2, NoTaskType DEF IInv, TypeOK
<1>3. \A s \in Stores : task'[s].step = "idle" /\ task'[s].id = NoId
  BY <1>1 DEF NoTask
<1>4. OneAtATime' /\ OwnCommits' /\ OwnSteps'
  <2>1. OneAtATime' /\ OwnSteps'
    BY <1>3 DEF OneAtATime, OwnSteps, KnowsItsCommit
  <2>2. OwnCommits'
    BY <1>1, <1>3, JournalAssumption DEF IInv, OwnCommits
  <2>3. QED
    BY <2>1, <2>2
<1>5. NothingBefore'
  BY <1>1, <1>3, JournalAssumption DEF IInv, NothingBefore
<1>6. HappenedIsWhole' /\ AnsweredRightly'
  BY <1>1 DEF IInv, HappenedIsWhole, AnsweredRightly,
         SuccessesAreTrue, ErrorsAreTrue, ReadsBack
<1>7. QED
  BY <1>2, <1>4, <1>5, <1>6 DEF IInv

LEMMA EditStep ==
  ASSUME IInv, NEW p \in Paths, NEW c \in Contents \cup {Absent}, Edit(p, c)
  PROVE  IInv'
<1>1. /\ cached' = [cached EXCEPT ![p].file = c] /\ cached \in [Paths -> Entries]
      /\ stable' = stable /\ journal' = journal /\ stableJournal' = stableJournal
      /\ holder' = holder /\ task' = task
      /\ asked' = asked /\ answered' = answered /\ happened' = happened
  BY DEF Edit, IInv, TypeOK, journals, history
<1>2. cached' \in [Paths -> Entries] /\ \A q \in Paths : cached'[q].temps = cached[q].temps
  BY <1>1, EntryPart DEF Entries
<1>3. TypeOK'
  BY <1>1, <1>2 DEF IInv, TypeOK
<1>4. OneAtATime' /\ OwnCommits' /\ AnsweredRightly'
  BY <1>1 DEF IInv, OneAtATime, OwnCommits, AnsweredRightly,
         SuccessesAreTrue, ErrorsAreTrue, ReadsBack
<1>5. NothingBefore' /\ HappenedIsWhole'
  BY <1>1, <1>2 DEF IInv, NothingBefore, HappenedIsWhole, Begun
<1>6. OwnSteps'
  BY <1>1, <1>2 DEF IInv, OwnSteps, KnowsItsCommit
<1>7. QED
  BY <1>3, <1>4, <1>5, <1>6 DEF IInv

LEMMA CallStep ==
  ASSUME IInv, NEW s \in Stores, NEW i \in Ids, NEW r \in Requests, Call(s, i, r)
  PROVE  IInv'
<1>1. /\ task[s].step = "idle" /\ asked[i] = NoRequest /\ r # NoRequest
      /\ asked' = [asked EXCEPT ![i] = r]
      /\ task' = [task EXCEPT ![s].step = "waiting", ![s].id = i]
      /\ cached' = cached /\ stable' = stable
      /\ journal' = journal /\ stableJournal' = stableJournal
      /\ holder' = holder /\ answered' = answered /\ happened' = happened
      /\ task[s] \in Tasks /\ task \in [Stores -> Tasks]
      /\ asked \in [Ids -> Requests \cup {NoRequest}]
  BY JournalAssumption DEF Call, IInv, TypeOK, disk, journals
<1>2. task' = [task EXCEPT ![s] = [task[s] EXCEPT !.step = "waiting", !.id = i]]
  BY <1>1
<1>3. /\ task' \in [Stores -> Tasks]
      /\ task'[s].step = "waiting" /\ task'[s].id = i
      /\ \A t \in Stores \ {s} : task'[t] = task[t]
  <2>1. [task[s] EXCEPT !.step = "waiting", !.id = i] \in Tasks
    BY <1>1, TaskPart
  <2>2. /\ [task[s] EXCEPT !.step = "waiting", !.id = i].step = "waiting"
        /\ [task[s] EXCEPT !.step = "waiting", !.id = i].id = i
    BY <1>1 DEF Tasks
  <2>3. QED
    BY <1>1, <1>2, <2>1, <2>2
<1>4. /\ \A t \in Stores : task[t].id # i
      /\ answered[i] = "none" /\ i \notin happened
      /\ \A k \in Ids : k # i => asked'[k] = asked[k]
      /\ asked'[i] = r
  BY <1>1 DEF IInv, OwnCommits, NothingBefore
<1>5. TypeOK'
  BY <1>1, <1>3 DEF IInv, TypeOK
<1>6. OneAtATime'
  BY <1>1, <1>3 DEF IInv, OneAtATime
<1>7. OwnCommits'
  <2>1. \A t \in Stores : task'[t].id \in Ids =>
          asked'[task'[t].id] # NoRequest /\ answered'[task'[t].id] = "none"
    BY <1>1, <1>3, <1>4 DEF IInv, OwnCommits
  <2>2. \A t, u \in Stores : t # u /\ task'[t].id = task'[u].id => task'[t].id = NoId
    BY <1>3, <1>4 DEF IInv, OwnCommits
  <2>3. \A k \in Ids : asked'[k] = NoRequest => answered'[k] = "none"
    BY <1>1, <1>4 DEF IInv, OwnCommits
  <2>4. QED
    BY <2>1, <2>2, <2>3 DEF OwnCommits
<1>8. NothingBefore'
  <2>1. ASSUME NEW k \in Ids, \/ asked'[k] = NoRequest
                              \/ \E t \in Stores : task'[t].id = k /\ ~Begun(t)'
        PROVE  asked[k] = NoRequest \/ \E t \in Stores : task[t].id = k /\ ~Begun(t)
    BY <1>1, <1>3, <1>4, <2>1 DEF Begun
  <2>2. QED
    BY <1>1, <2>1 DEF IInv, NothingBefore
<1>9. OwnSteps'
  <2>1. ASSUME NEW t \in Stores \ {s}
        PROVE  KnowsItsCommit(t)'
    <3>1. KnowsItsCommit(t) /\ task'[t] = task[t] /\ task[t].id # i
      BY <1>3, <1>4 DEF IInv, OwnSteps
    <3>2. task[t].id \in Ids => asked'[task[t].id] = asked[task[t].id]
      BY <1>4, <3>1
    <3>3. QED
      BY <1>1, <3>1, <3>2 DEF KnowsItsCommit
  <2>2. KnowsItsCommit(s)'
    BY <1>3 DEF KnowsItsCommit
  <2>3. QED
    BY <2>1, <2>2 DEF OwnSteps
<1>10. HappenedIsWhole' /\ AnsweredRightly'
  BY <1>1 DEF IInv, HappenedIsWhole, AnsweredRightly,
         SuccessesAreTrue, ErrorsAreTrue, ReadsBack
<1>11. QED
  BY <1>5, <1>6, <1>7, <1>8, <1>9, <1>10 DEF IInv

LEMMA InitIInv == Init => IInv
<1> SUFFICES ASSUME Init PROVE IInv
  OBVIOUS
<1>1. TypeOK
  BY TypeInit
<1>2. /\ \A s \in Stores : task[s].step = "idle" /\ task[s].id = NoId
      /\ \A p \in Paths, i \in Ids : cached[p].temps[i] = Absent /\ stable[p].temps[i] = Absent
      /\ journal.state = "none" /\ stableJournal.state = "none"
      /\ \A i \in Ids : asked[i] = NoRequest /\ answered[i] = "none"
      /\ happened = {} /\ NoId \notin Ids
  BY JournalAssumption DEF Init, NoTask, NoJournal
<1>3. OneAtATime /\ OwnCommits /\ NothingBefore /\ OwnSteps
  BY <1>2 DEF OneAtATime, OwnCommits, NothingBefore, OwnSteps, KnowsItsCommit
<1>4. HappenedIsWhole /\ AnsweredRightly
  BY <1>2 DEF HappenedIsWhole, AnsweredRightly, SuccessesAreTrue, ErrorsAreTrue
<1>5. QED
  BY <1>1, <1>3, <1>4 DEF IInv

LEMMA NextIInv == IInv /\ [Next]_vars => IInv'
<1> SUFFICES ASSUME IInv, [Next]_vars PROVE IInv'
  OBVIOUS
<1>1. ASSUME NEW s \in Stores, NEW i \in Ids, NEW r \in Requests, Call(s, i, r)
      PROVE  IInv'
  BY <1>1, CallStep
<1>2. ASSUME NEW s \in Stores, Open(s) \/ Lock(s) \/ Crash(s)
      PROVE  IInv'
  BY <1>2, OpenLockCrashStep
<1>3. ASSUME NEW s \in Stores, Work(s)
      PROVE  IInv'
  BY <1>3, WorkStep
<1>4. CASE PowerCut
  BY <1>4, PowerCutStep
<1>5. ASSUME NEW p \in Paths, NEW c \in Contents \cup {Absent}, Edit(p, c)
      PROVE  IInv'
  BY <1>5, EditStep
<1>6. CASE UNCHANGED vars
  BY <1>6 DEF vars, disk, journals, history, IInv, TypeOK, OneAtATime, OwnCommits,
              NothingBefore, Begun, OwnSteps, KnowsItsCommit, HappenedIsWhole,
              AnsweredRightly, SuccessesAreTrue, ErrorsAreTrue, ReadsBack
<1>7. QED
  BY <1>1, <1>2, <1>3, <1>4, <1>5, <1>6 DEF Next

-----------------------------------------------------------------------------
(* Theorems.                                                               *)

(* The inductive invariant holds in every state FsJournal reaches, for any   *)
(* number of Stores, Paths, Commits and tries, with any Faults.              *)
THEOREM Inductive == Spec => []IInv
<1>1. QED
  BY InitIInv, NextIInv, PTL DEF Spec

(* Every variable of FsJournal always has values of its kind.                *)
THEOREM TypeCorrect == Spec => []TypeOK
<1>1. IInv => TypeOK
  BY DEF IInv
<1>2. QED
  BY Inductive, <1>1, PTL

(* Two Stores never work on the disk at the same time (Location::lock), so   *)
(* what one of them planned from disk is not changed under it by another.    *)
THEOREM Exclusive == Spec => []OneAtATime
<1>1. IInv => OneAtATime
  BY DEF IInv
<1>2. QED
  BY Inductive, <1>1, PTL

(* Ok and Pending are true, whatever fails: the Commit has happened.         *)
THEOREM Happened == Spec => []SuccessesAreTrue
<1>1. IInv => SuccessesAreTrue
  BY DEF IInv, AnsweredRightly
<1>2. QED
  BY Inductive, <1>1, PTL

(* What Location::commit gives its caller is true, whoever died and however  *)
(* its steps failed, as long as a journal renamed into place but not forced  *)
(* to disk can be read back: a Commit that gave an error other than Pending  *)
(* never happens, not even when a later Commit or `open` recovers, and one   *)
(* that gave Ok or Pending has happened.                                     *)
THEOREM Truthful ==
  ASSUME ReadsBack
  PROVE  Spec => []AnswersAreTrue
<1>1. IInv => AnswersAreTrue
  BY DEF IInv, AnsweredRightly, AnswersAreTrue
<1>2. QED
  BY Inductive, <1>1, PTL

-----------------------------------------------------------------------------
(* Part two.  What a Store that has the lock knows of the journal and of    *)
(* the temporary files, whatever may go wrong: what it leaves is found by   *)
(* the next, and what only writes Files is finished unseen.                 *)

-----------------------------------------------------------------------------
(* What each step does, Path by Path and part by part.                     *)

LEMMA UnchangedJournals ==
  ASSUME UNCHANGED journals
  PROVE  journal' = journal /\ stableJournal' = stableJournal
BY DEF journals

(* A Store that leaves is idle, with no Commit and no journal of its own.    *)
LEMMA LeaveIs ==
  ASSUME TypeOK, NEW s \in Stores, Leave(s)
  PROVE  /\ task'[s].step = "idle" /\ task'[s].id = NoId
         /\ task'[s].journal = NoJournal
BY DEF Leave, TypeOK, NoTask

LEMMA AnswerIs ==
  ASSUME TypeOK, NEW s \in Stores, NEW a, Answer(s, a)
  PROVE  /\ task'[s].step = "idle" /\ task'[s].id = NoId
         /\ task'[s].journal = NoJournal
         /\ \A i \in Ids : answered'[i] = IF i = task[s].id THEN a ELSE answered[i]
<1>1. Leave(s)
  BY DEF Answer
<1>2. \A i \in Ids : answered'[i] = IF i = task[s].id THEN a ELSE answered[i]
  BY JournalAssumption DEF Answer, TypeOK
<1>3. QED
  BY <1>1, <1>2, LeaveIs

LEMMA BeginIs ==
  ASSUME TypeOK, NEW s \in Stores, NEW step, NEW j, NEW todo, NEW whose,
         Begin(s, step, j, todo, whose)
  PROVE  /\ task'[s].step = step /\ task'[s].id = task[s].id
         /\ task'[s].journal = j /\ task'[s].todo = todo
         /\ task'[s].changed = {} /\ task'[s].tries = 0 /\ task'[s].whose = whose
BY DEF Begin, TypeOK

(* A Store that goes on with the same step, but for what is to do.         *)
GoesOn(s) ==
  /\ task'[s].id = task[s].id /\ task'[s].journal = task[s].journal
  /\ task'[s].whose = task[s].whose /\ task'[s].step = task[s].step

LEMMA PartIs ==
  ASSUME NEW t \in Tasks
  PROVE  /\ \A step : LET u == [t EXCEPT !.step = step] IN
              /\ u.step = step /\ u.id = t.id /\ u.journal = t.journal /\ u.todo = t.todo
              /\ u.whose = t.whose
         /\ \A todo : LET u == [t EXCEPT !.todo = todo] IN
              /\ u.step = t.step /\ u.id = t.id /\ u.journal = t.journal /\ u.todo = todo
              /\ u.whose = t.whose /\ u.tries = t.tries /\ u.changed = t.changed
         /\ \A todo, changed : LET u == [t EXCEPT !.todo = todo, !.changed = changed] IN
              /\ u.step = t.step /\ u.id = t.id /\ u.journal = t.journal /\ u.todo = todo
              /\ u.whose = t.whose /\ u.tries = t.tries /\ u.changed = changed
         /\ \A todo, tries : LET u == [t EXCEPT !.todo = todo, !.changed = {}, !.tries = tries] IN
              /\ u.step = t.step /\ u.id = t.id /\ u.journal = t.journal /\ u.todo = todo
              /\ u.whose = t.whose /\ u.tries = tries /\ u.changed = {}
BY DEF Tasks


LEMMA PrepareIs ==
  ASSUME TypeOK, NEW s \in Stores, Prepare(s)
  PROVE  /\ task'[s].step = "writing" /\ task'[s].id = task[s].id
         /\ task'[s].journal = task[s].journal /\ task'[s].todo = task[s].todo
<1>1. task[s] \in Tasks /\ task \in [Stores -> Tasks]
  BY DEF TypeOK
<1>2. task'[s] = [task[s] EXCEPT !.step = "writing"]
  BY <1>1 DEF Prepare
<1>3. QED
  BY <1>1, <1>2, PartIs

LEMMA StartTemporaryIs ==
  ASSUME IInv, NEW s \in Stores, NEW p \in Paths, StartTemporary(s, p)
  PROVE  \A q \in Paths :
           /\ cached'[q].file = cached[q].file
           /\ \A k \in Ids : cached'[q].temps[k] =
                IF q = p /\ k = task[s].id THEN Torn ELSE cached[q].temps[k]
<1>1. task[s].id \in Ids /\ cached \in [Paths -> Entries]
  BY DEF IInv, TypeOK, OwnSteps, KnowsItsCommit, StartTemporary, Busy
<1>2. cached' = [cached EXCEPT ![p].temps[task[s].id] = Torn]
  BY DEF StartTemporary
<1>3. QED
  BY <1>1, <1>2 DEF Entries

LEMMA EndTemporaryIs ==
  ASSUME IInv, NEW s \in Stores, NEW p \in Paths, EndTemporary(s, p)
  PROVE  /\ \A q \in Paths :
              /\ cached'[q].file = cached[q].file /\ stable'[q].file = stable[q].file
              /\ \A k \in Ids : cached'[q].temps[k] =
                   IF q = p /\ k = task[s].id THEN asked[task[s].id].sets[p]
                   ELSE cached[q].temps[k]
              /\ \A k \in Ids : stable'[q].temps[k] =
                   IF q = p /\ k = task[s].id THEN asked[task[s].id].sets[p]
                   ELSE stable[q].temps[k]
         /\ GoesOn(s) /\ task'[s].todo = task[s].todo \ {p}
<1>1. /\ task[s].id \in Ids /\ task[s] \in Tasks /\ task \in [Stores -> Tasks]
      /\ cached \in [Paths -> Entries] /\ stable \in [Paths -> Entries]
  BY DEF IInv, TypeOK, OwnSteps, KnowsItsCommit, EndTemporary, Busy
<1>2. task'[s] = [task[s] EXCEPT !.todo = task[s].todo \ {p}]
  BY <1>1 DEF EndTemporary
<1>3. GoesOn(s) /\ task'[s].todo = task[s].todo \ {p}
  BY <1>1, <1>2, PartIs DEF GoesOn
<1>4. /\ cached' = [cached EXCEPT ![p].temps[task[s].id] = asked[task[s].id].sets[p]]
      /\ stable' = [stable EXCEPT ![p].temps[task[s].id] = asked[task[s].id].sets[p]]
  BY DEF EndTemporary
<1>5. \A q \in Paths :
        /\ cached'[q].file = cached[q].file
        /\ \A k \in Ids : cached'[q].temps[k] =
             IF q = p /\ k = task[s].id THEN asked[task[s].id].sets[p]
             ELSE cached[q].temps[k]
  BY <1>1, <1>4 DEF Entries
<1>6. \A q \in Paths :
        /\ stable'[q].file = stable[q].file
        /\ \A k \in Ids : stable'[q].temps[k] =
             IF q = p /\ k = task[s].id THEN asked[task[s].id].sets[p]
             ELSE stable[q].temps[k]
  BY <1>1, <1>4 DEF Entries
<1>7. QED
  BY <1>3, <1>5, <1>6

LEMMA DiscardTemporaryIs ==
  ASSUME TypeOK, NEW s \in Stores, NEW p \in Paths, DiscardTemporary(s, p),
         task[s].journal.id \in Ids
  PROVE  /\ \A q \in Paths :
              /\ cached'[q].file = cached[q].file
              /\ \A k \in Ids : cached'[q].temps[k] =
                   IF q = p /\ k = task[s].journal.id THEN Absent ELSE cached[q].temps[k]
         /\ GoesOn(s) /\ task'[s].todo = task[s].todo \ {p}
<1>1. /\ task[s] \in Tasks /\ task \in [Stores -> Tasks] /\ cached \in [Paths -> Entries]
  BY DEF TypeOK
<1>2. task'[s] = [task[s] EXCEPT !.todo = task[s].todo \ {p}]
  BY <1>1 DEF DiscardTemporary
<1>3. GoesOn(s) /\ task'[s].todo = task[s].todo \ {p}
  BY <1>1, <1>2, PartIs DEF GoesOn
<1>4. cached' = [cached EXCEPT ![p].temps[task[s].journal.id] = Absent]
  BY DEF DiscardTemporary
<1>5. \A q \in Paths :
        /\ cached'[q].file = cached[q].file
        /\ \A k \in Ids : cached'[q].temps[k] =
             IF q = p /\ k = task[s].journal.id THEN Absent ELSE cached[q].temps[k]
  BY <1>1, <1>4 DEF Entries
<1>6. QED
  BY <1>3, <1>5

(* Whether finishing a Path deletes its File, or renames over it.          *)
Deletes(s, p) == Disk[p] # Absent /\ (Again(s) => Disk[p] = task[s].journal.removes[p])
Renames(s, p) == Temporary(task[s].journal, p) # Absent

LEMMA FinishDeleteIs ==
  ASSUME TypeOK, NEW s \in Stores, NEW p \in Paths, FinishDelete(s, p)
  PROVE  /\ \A q \in Paths :
              /\ cached'[q].file = IF q = p /\ Deletes(s, p) THEN Absent ELSE cached[q].file
              /\ cached'[q].temps = cached[q].temps
         /\ GoesOn(s) /\ task'[s].todo = task[s].todo \ {p}
         /\ task'[s].tries = task[s].tries
         /\ task'[s].changed = IF Deletes(s, p) THEN task[s].changed \cup {Directory[p]}
                               ELSE task[s].changed
<1>1. /\ cached \in [Paths -> Entries]
      /\ task[s] \in Tasks /\ task \in [Stores -> Tasks]
  BY DEF TypeOK
<1>2. cached' = IF Deletes(s, p) THEN [cached EXCEPT ![p].file = Absent] ELSE cached
  BY DEF FinishDelete, Deletes
<1>3. task'[s] = [task[s] EXCEPT
                    !.todo = task[s].todo \ {p},
                    !.changed = IF Deletes(s, p) THEN task[s].changed \cup {Directory[p]}
                                ELSE task[s].changed]
  BY <1>1 DEF FinishDelete, Deletes, Changing
<1>4. \A q \in Paths :
        /\ cached'[q].file = IF q = p /\ Deletes(s, p) THEN Absent ELSE cached[q].file
        /\ cached'[q].temps = cached[q].temps
  BY <1>1, <1>2 DEF Entries
<1>5. /\ GoesOn(s) /\ task'[s].todo = task[s].todo \ {p}
      /\ task'[s].tries = task[s].tries
      /\ task'[s].changed = IF Deletes(s, p) THEN task[s].changed \cup {Directory[p]}
                            ELSE task[s].changed
  BY <1>1, <1>3, PartIs DEF GoesOn
<1>6. QED
  BY <1>4, <1>5

LEMMA FinishRenameIs ==
  ASSUME TypeOK, NEW s \in Stores, NEW p \in Paths, FinishRename(s, p),
         task[s].journal.id \in Ids
  PROVE  /\ \A q \in Paths :
              /\ cached'[q].file = IF q = p /\ Renames(s, p)
                                     THEN cached[p].temps[task[s].journal.id]
                                   ELSE cached[q].file
              /\ \A k \in Ids : cached'[q].temps[k] =
                   IF q = p /\ k = task[s].journal.id /\ Renames(s, p) THEN Absent
                   ELSE cached[q].temps[k]
         /\ GoesOn(s) /\ task'[s].todo = task[s].todo \ {p}
         /\ task'[s].tries = task[s].tries
         /\ task'[s].changed = IF Renames(s, p) THEN task[s].changed \cup {Directory[p]}
                               ELSE task[s].changed
<1>1. /\ cached \in [Paths -> Entries]
      /\ task[s] \in Tasks /\ task \in [Stores -> Tasks]
  BY DEF TypeOK
<1>2. cached' = IF Renames(s, p)
                     THEN [cached EXCEPT ![p].file = Temporary(task[s].journal, p),
                                         ![p].temps[task[s].journal.id] = Absent]
                     ELSE cached
  BY DEF FinishRename, Renames
<1>3. task'[s] = [task[s] EXCEPT
                    !.todo = task[s].todo \ {p},
                    !.changed = IF Renames(s, p) THEN task[s].changed \cup {Directory[p]}
                                ELSE task[s].changed]
  BY <1>1 DEF FinishRename, Renames, Changing
<1>4. Renames(s, p) =>
        Temporary(task[s].journal, p) = cached[p].temps[task[s].journal.id]
  BY DEF Renames, Temporary
<1>5. \A q \in Paths :
        /\ cached'[q].file = IF q = p /\ Renames(s, p)
                               THEN cached[p].temps[task[s].journal.id]
                             ELSE cached[q].file
        /\ \A k \in Ids : cached'[q].temps[k] =
             IF q = p /\ k = task[s].journal.id /\ Renames(s, p) THEN Absent
             ELSE cached[q].temps[k]
  BY <1>1, <1>2, <1>4 DEF Entries
<1>6. /\ GoesOn(s) /\ task'[s].todo = task[s].todo \ {p}
      /\ task'[s].tries = task[s].tries
      /\ task'[s].changed = IF Renames(s, p) THEN task[s].changed \cup {Directory[p]}
                            ELSE task[s].changed
  BY <1>1, <1>3, PartIs DEF GoesOn
<1>7. QED
  BY <1>5, <1>6

LEMMA FinishSyncIs ==
  ASSUME TypeOK, NEW s \in Stores, NEW d, FinishSync(s, d)
  PROVE  /\ \A q \in Paths :
              stable'[q] = IF Directory[q] = d THEN cached[q] ELSE stable[q]
         /\ GoesOn(s) /\ task'[s].todo = task[s].todo
         /\ task'[s].changed = task[s].changed \ {d}
BY DEF FinishSync, TypeOK, Tasks, GoesOn

LEMMA FinishRetriesIs ==
  ASSUME TypeOK, NEW s \in Stores, FinishRetries(s)
  PROVE  /\ GoesOn(s)
         /\ task'[s].todo = task[s].journal.writes \cup Removed(task[s].journal)
         /\ task'[s].tries > 0
<1>1. task[s] \in Tasks /\ task \in [Stores -> Tasks]
  BY DEF TypeOK
<1>2. task'[s] = [task[s] EXCEPT
                    !.todo = task[s].journal.writes \cup Removed(task[s].journal),
                    !.changed = {}, !.tries = task[s].tries + 1]
  BY <1>1 DEF FinishRetries
<1>3. /\ GoesOn(s)
      /\ task'[s].todo = task[s].journal.writes \cup Removed(task[s].journal)
      /\ task'[s].tries = task[s].tries + 1
  BY <1>1, <1>2, PartIs DEF GoesOn
<1>4. task[s].tries \in Nat
  BY <1>1, JournalAssumption DEF Tasks
<1>5. task[s].tries + 1 > 0
  BY <1>4
<1>6. QED
  BY <1>3, <1>5

(* The Commit of the journal is finished or discarded: a Store that found it *)
(* goes on to its own call, and one whose own it was leaves.                 *)
LEMMA RemoveJournalIs ==
  ASSUME TypeOK, NEW s \in Stores, NEW a, RemoveJournal(s, a)
  PROVE  \/ /\ task[s].whose = "found"
            /\ task'[s].step = "ready" /\ task'[s].id = task[s].id
            /\ task'[s].journal = NoJournal
            /\ answered' = answered
         \/ /\ task[s].whose = "own"
            /\ task'[s].step = "idle" /\ task'[s].id = NoId /\ task'[s].journal = NoJournal
            /\ \A i \in Ids : answered'[i] = IF i = task[s].id THEN a ELSE answered[i]
<1>1. task[s] \in Tasks
  BY DEF TypeOK
<1>2. CASE task[s].whose = "found"
  BY <1>2, BeginIs DEF RemoveJournal
<1>3. CASE task[s].whose # "found"
  BY <1>1, <1>3, AnswerIs DEF RemoveJournal, Tasks
<1>4. QED
  BY <1>2, <1>3

LEMMA RecoverIs ==
  ASSUME TypeOK, NEW s \in Stores, Recover(s)
  PROVE  /\ task'[s].id = task[s].id
         /\ \/ /\ journal.state = "none" /\ task'[s].step = "ready"
               /\ task'[s].journal = task[s].journal
            \/ /\ journal.state = "prepared" /\ task'[s].step = "discarding"
               /\ task'[s].journal = journal /\ task'[s].todo = journal.writes
               /\ task'[s].whose = "found"
            \/ /\ journal.state = "committed" /\ task'[s].step = "finishing"
               /\ task'[s].journal = journal /\ task'[s].whose = "found"
               /\ task'[s].todo = journal.writes \cup Removed(journal)
<1>1. task[s] \in Tasks /\ task \in [Stores -> Tasks]
  BY DEF TypeOK
<1>2. CASE journal.state = "none" /\ task' = [task EXCEPT ![s].step = "ready"]
  <2>1. task'[s] = [task[s] EXCEPT !.step = "ready"]
    BY <1>1, <1>2
  <2>2. QED
    BY <1>1, <1>2, <2>1, PartIs
<1>3. CASE journal.state = "prepared" /\ StartDiscarding(s, journal, "found")
  BY <1>3, BeginIs DEF StartDiscarding
<1>4. CASE journal.state = "committed" /\ StartFinishing(s, journal, "found")
  BY <1>4, BeginIs DEF StartFinishing
<1>5. QED
  BY <1>2, <1>3, <1>4 DEF Recover

(* The journal a Commit prepares.                                          *)
Planned(s) ==
  LET r == asked[task[s].id] IN
  [state |-> "prepared", id |-> task[s].id, writes |-> Written(r, Disk),
   removes |-> [p \in Paths |-> IF p \in Deleted(r, Disk) THEN Disk[p] ELSE Absent]]

LEMMA PlanIs ==
  ASSUME TypeOK, NEW s \in Stores, Plan(s)
  PROVE  /\ task[s].id \in Ids /\ task[s].step = "ready" /\ Holds(asked[task[s].id], Disk)
         /\ cached' = cached /\ stable' = stable /\ asked' = asked
         /\ journal' = journal /\ stableJournal' = stableJournal
         /\ \/ /\ Planned(s).writes = {} /\ Removed(Planned(s)) = {}
               /\ task'[s].step = "idle" /\ task'[s].id = NoId /\ task'[s].journal = NoJournal
               /\ happened' = happened \cup {task[s].id}
               /\ \A i \in Ids : answered'[i] = IF i = task[s].id THEN "ok" ELSE answered[i]
            \/ /\ task'[s].step \in {"preparing", "writing"} /\ task'[s].id = task[s].id
               /\ task'[s].journal = Planned(s) /\ task'[s].todo = Planned(s).writes
               /\ task'[s].step = "writing" => Planned(s).writes = {}
               /\ task'[s].whose = "own"
               /\ happened' = happened /\ answered' = answered
<1>1. task[s].id \in Ids /\ task[s].step = "ready" /\ Holds(asked[task[s].id], Disk)
  BY DEF Plan, Busy, TypeOK, Tasks
<1>2. /\ cached' = cached /\ stable' = stable /\ asked' = asked
      /\ journal' = journal /\ stableJournal' = stableJournal
  BY DEF Plan, disk, journals
<1>3. CASE Planned(s).writes = {} /\ Removed(Planned(s)) = {}
  <2>1. Answer(s, "ok") /\ happened' = happened \cup {task[s].id}
    BY <1>3 DEF Plan, Planned
  <2>2. QED
    BY <1>1, <1>2, <1>3, <2>1, AnswerIs
<1>4. CASE ~(Planned(s).writes = {} /\ Removed(Planned(s)) = {})
  <2>1. /\ Begin(s, IF Planned(s).writes = {} THEN "writing" ELSE "preparing",
                 Planned(s), Planned(s).writes, "own")
        /\ happened' = happened /\ answered' = answered
    BY <1>4 DEF Plan, Planned
  <2>2. QED
    BY <1>1, <1>2, <2>1, BeginIs
<1>5. QED
  BY <1>3, <1>4

LEMMA CommittedIs ==
  ASSUME TypeOK, NEW s \in Stores
  PROVE  /\ Committed(s).state = "committed" /\ Committed(s).id = task[s].journal.id
         /\ Committed(s).writes = task[s].journal.writes
         /\ Committed(s).removes = task[s].journal.removes
         /\ Removed(Committed(s)) = Removed(task[s].journal)
BY DEF Committed, TypeOK, Tasks, Journals, Removed

-----------------------------------------------------------------------------
(* The journal and the temporary files, whatever may go wrong.             *)

(* A journal that isn't empty is of a Commit that was asked for, and writes  *)
(* and deletes Files as that Commit does.                                    *)
Agrees(j) ==
  \/ j = NoJournal
  \/ /\ j.state # "none"
     /\ j.id \in Ids /\ asked[j.id] # NoRequest
     /\ \A p \in j.writes : asked[j.id].sets[p] \in Contents
     /\ \A p \in Removed(j) : asked[j.id].sets[p] = Absent

JournalsAgree ==
  /\ Agrees(journal) /\ Agrees(stableJournal)
  /\ \A s \in Stores : Agrees(task[s].journal)

(* While Store s has the lock, the journal is as its last step left it, and  *)
(* what it has done of the journal's Commit is done.                         *)
KnowsItsJournal(s) ==
  LET j == task[s].journal IN
  /\ task[s].step \in {"ready", "preparing"} => journal.state = "none"
  /\ task[s].step \in {"writing", "discarding"} =>
       /\ journal.state # "committed" /\ j.state = "prepared"
       /\ \/ journal = j
          \/ journal.state = "none" /\ j.writes = {}
  /\ task[s].step = "discarding" => task[s].todo \subseteq j.writes
  /\ task[s].step = "finishing" => journal = j /\ j.state = "committed"
  /\ task[s].step \in {"discarding", "finishing"} =>
       \A p \in j.writes \ task[s].todo : cached[p].temps[j.id] = Absent

(* A power cut takes back that the journal was removed and a temporary file  *)
(* was renamed, but nothing else leaves a temporary file behind.             *)
NothingLeft == "power" \notin Faults => NoScatteredTemporaries /\ OkIsFinished

JInv ==
  /\ JournalsAgree
  /\ \A s \in Stores : KnowsItsJournal(s)
  /\ NothingLeft

(* Nobody but the holder of the lock is past it, so nobody but it has        *)
(* anything to know.                                                         *)
LEMMA OthersWait ==
  ASSUME IInv, NEW s \in Stores, Work(s), NEW t \in Stores \ {s}
  PROVE  task'[t] = task[t] /\ task[t].step \in {"idle", "waiting"}
<1>1. holder = s /\ task'[t] = task[t] /\ task[t] \in Tasks
  BY WorkTask DEF IInv, TypeOK
<1>2. task[t].step \in {"idle", "waiting"}
  BY <1>1 DEF IInv, OneAtATime
<1>3. QED
  BY <1>1, <1>2

(* Which journals a Store writes, and which it keeps.                      *)
LEMMA WorkJournals ==
  ASSUME IInv, NEW s \in Stores, Work(s)
  PROVE  /\ \/ journal' \in {journal, NoJournal, task[s].journal}
            \/ journal' = Committed(s) /\ task[s].step = "writing"
         /\ \/ stableJournal' \in {stableJournal, task[s].journal}
            \/ stableJournal' = Committed(s) /\ task[s].step = "writing"
         /\ \/ task'[s].journal \in {NoJournal, journal, task[s].journal}
            \/ task'[s].journal = Planned(s) /\ task[s].step = "ready" /\ task[s].id \in Ids
            \/ task'[s].journal = Committed(s) /\ task[s].step = "writing"
<1>1. TypeOK /\ task[s] \in Tasks /\ task \in [Stores -> Tasks]
  BY DEF IInv, TypeOK
<1>2. CASE Recover(s)
  BY <1>1, <1>2, RecoverIs DEF Recover, journals
<1>3. CASE RecoverUnreadable(s) \/ Refuse(s) \/ DiscardFails(s) \/ FinishFails(s)
  BY <1>1, <1>3, AnswerIs DEF RecoverUnreadable, Refuse, DiscardFails, FinishFails, journals
<1>4. CASE Opened(s)
  BY <1>1, <1>4, LeaveIs DEF Opened, journals
<1>5. CASE PrepareFails(s)
  BY <1>1, <1>5, AnswerIs DEF PrepareFails
<1>6. CASE CommitJournalUnreadable(s)
  BY <1>1, <1>6, AnswerIs DEF CommitJournalUnreadable, Busy
<1>7. CASE Plan(s)
  BY <1>1, <1>7, PlanIs
<1>8. CASE Prepare(s)
  BY <1>1, <1>8, PrepareIs DEF Prepare
<1>9. ASSUME NEW p \in Paths, StartTemporary(s, p)
      PROVE  task' = task /\ journal' = journal /\ stableJournal' = stableJournal
  BY <1>9 DEF StartTemporary, journals
<1>10. ASSUME NEW p \in Paths, EndTemporary(s, p)
       PROVE  /\ task'[s].journal = task[s].journal
              /\ journal' = journal /\ stableJournal' = stableJournal
  BY <1>10, EndTemporaryIs DEF EndTemporary, journals, GoesOn
<1>11. CASE TemporaryFails(s) \/ CommitJournalFails(s)
  BY <1>1, <1>11, BeginIs DEF TemporaryFails, CommitJournalFails, StartDiscarding, journals
<1>12. CASE CommitJournal(s)
  BY <1>1, <1>12, BeginIs DEF CommitJournal, StartFinishing, Busy
<1>13. ASSUME NEW p \in Paths, DiscardTemporary(s, p)
       PROVE  /\ task'[s].journal = task[s].journal
              /\ journal' = journal /\ stableJournal' = stableJournal
  <2>1. task'[s] = [task[s] EXCEPT !.todo = @ \ {p}]
    BY <1>1, <1>13 DEF DiscardTemporary
  <2>2. QED
    BY <1>1, <1>13, <2>1, PartIs DEF DiscardTemporary, journals
<1>14. CASE Discarded(s) \/ Finished(s)
  <2>1. PICK a : RemoveJournal(s, a)
    BY <1>14 DEF Discarded, Finished
  <2>2. journal' = NoJournal /\ stableJournal' = stableJournal
    BY <2>1 DEF RemoveJournal
  <2>3. QED
    BY <1>1, <2>1, <2>2, RemoveJournalIs
<1>15. ASSUME NEW p \in Paths, FinishDelete(s, p) \/ FinishRename(s, p)
       PROVE  /\ task'[s].journal = task[s].journal
              /\ journal' = journal /\ stableJournal' = stableJournal
  <2>1. CASE FinishDelete(s, p)
    BY <1>1, <2>1, FinishDeleteIs DEF FinishDelete, journals, GoesOn
  <2>2. CASE FinishRename(s, p)
    <3>1. PICK todo, changed : task' = [task EXCEPT ![s].todo = todo, ![s].changed = changed]
      BY <2>2 DEF FinishRename
    <3>2. task'[s] = [task[s] EXCEPT !.todo = todo, !.changed = changed]
      BY <1>1, <3>1
    <3>3. QED
      BY <1>1, <2>2, <3>2, PartIs DEF FinishRename, journals
  <2>3. QED
    BY <1>15, <2>1, <2>2
<1>16. ASSUME NEW d \in task[s].changed, FinishSync(s, d)
       PROVE  /\ task'[s].journal = task[s].journal
              /\ journal' = journal /\ stableJournal' = stableJournal
  BY <1>1, <1>16, FinishSyncIs DEF FinishSync, journals, GoesOn
<1>17. CASE FinishRetries(s)
  BY <1>1, <1>17, FinishRetriesIs DEF FinishRetries, journals, GoesOn
<1>18. QED
  BY <1>2, <1>3, <1>4, <1>5, <1>6, <1>7, <1>8, <1>9, <1>10, <1>11, <1>12, <1>13, <1>14,
     <1>15, <1>16, <1>17 DEF Work

LEMMA AgreesPlanned ==
  ASSUME IInv, NEW s \in Stores, task[s].id \in Ids
  PROVE  Agrees(Planned(s)) /\ Removed(Planned(s)) = Deleted(asked[task[s].id], Disk)
<1>1. asked[task[s].id] # NoRequest
  BY DEF IInv, OwnCommits
<1>2. /\ Planned(s).state = "prepared" /\ Planned(s).id = task[s].id
      /\ Planned(s).writes = Written(asked[task[s].id], Disk)
      /\ \A p \in Paths : Planned(s).removes[p] =
           IF p \in Deleted(asked[task[s].id], Disk) THEN Disk[p] ELSE Absent
  BY DEF Planned
<1>3. Removed(Planned(s)) = Deleted(asked[task[s].id], Disk)
  BY <1>2 DEF Removed, Deleted
<1>4. QED
  BY <1>1, <1>2, <1>3 DEF Agrees, Written, Deleted

LEMMA AgreesCommitted ==
  ASSUME TypeOK, NEW s \in Stores, Agrees(task[s].journal), task[s].journal.state # "none"
  PROVE  Agrees(Committed(s))
<1>1. /\ Committed(s).state # "none" /\ Committed(s).id = task[s].journal.id
      /\ Committed(s).writes = task[s].journal.writes
      /\ Removed(Committed(s)) = Removed(task[s].journal)
  BY CommittedIs
<1>2. task[s].journal # NoJournal
  BY DEF NoJournal
<1>3. QED
  BY <1>1, <1>2 DEF Agrees

LEMMA WorkJournalsAgree ==
  ASSUME IInv, JInv, NEW s \in Stores, Work(s)
  PROVE  JournalsAgree'
<1>1. /\ asked' = asked /\ TypeOK
      /\ Agrees(journal) /\ Agrees(stableJournal)
      /\ \A t \in Stores : Agrees(task[t].journal)
  BY WorkTask DEF JInv, JournalsAgree, IInv
<1>2. Agrees(NoJournal)
  BY DEF Agrees
<1>3. task[s].step = "writing" => Agrees(Committed(s))
  BY <1>1, AgreesCommitted DEF JInv, KnowsItsJournal
<1>4. task[s].id \in Ids => Agrees(Planned(s))
  BY AgreesPlanned
<1>5. Agrees(journal') /\ Agrees(stableJournal') /\ Agrees(task'[s].journal)
  BY <1>1, <1>2, <1>3, <1>4, WorkJournals
<1>6. \A t \in Stores : Agrees(task'[t].journal)
  BY <1>1, <1>5, OthersWait
<1>7. QED
  BY <1>1, <1>5, <1>6 DEF JournalsAgree, Agrees

(* The journal of a Commit names no Path twice.                            *)
LEMMA AgreesMeans ==
  ASSUME NEW j, Agrees(j), j.state # "none"
  PROVE  j.id \in Ids /\ j.writes \cap Removed(j) = {}
BY RequestsAssumption DEF Agrees, NoJournal

LEMMA RecoversOfACommit ==
  ASSUME JInv, NEW s \in Stores, task[s].step \in {"writing", "discarding", "finishing"}
  PROVE  /\ Agrees(task[s].journal) /\ task[s].journal.state # "none"
         /\ task[s].journal.id \in Ids
         /\ task[s].journal.writes \cap Removed(task[s].journal) = {}
<1>1. Agrees(task[s].journal) /\ task[s].journal.state # "none"
  BY DEF JInv, JournalsAgree, KnowsItsJournal
<1>2. QED
  BY <1>1, AgreesMeans

LEMMA WorkKnowsItsJournal ==
  ASSUME IInv, JInv, NEW s \in Stores, Work(s)
  PROVE  KnowsItsJournal(s)'
<1>1. /\ TypeOK /\ KnowsItsJournal(s) /\ KnowsItsCommit(s)
  BY DEF IInv, JInv, OwnSteps
<1>2. ASSUME task'[s].step = "idle"
      PROVE  KnowsItsJournal(s)'
  BY <1>2 DEF KnowsItsJournal
<1>3. ASSUME NEW a, Answer(s, a)
      PROVE  KnowsItsJournal(s)'
  BY <1>1, <1>2, <1>3, AnswerIs
<1>4. CASE Recover(s)
  BY <1>1, <1>4, RecoverIs, UnchangedJournals DEF Recover, KnowsItsJournal
<1>5. CASE RecoverUnreadable(s) \/ Refuse(s) \/ DiscardFails(s) \/ FinishFails(s)
           \/ PrepareFails(s) \/ CommitJournalUnreadable(s)
  BY <1>3, <1>5 DEF RecoverUnreadable, Refuse, DiscardFails, FinishFails, PrepareFails,
                    CommitJournalUnreadable
<1>6. CASE Opened(s)
  BY <1>1, <1>2, <1>6, LeaveIs DEF Opened
<1>7. CASE Plan(s)
  <2>1. Planned(s).state = "prepared"
    BY DEF Planned
  <2>2. QED
    BY <1>1, <1>2, <1>7, <2>1, PlanIs DEF KnowsItsJournal
<1>8. CASE Prepare(s)
  <2>1. journal' = task[s].journal /\ task[s].journal.state = "prepared"
    BY <1>1, <1>8 DEF Prepare, Busy, KnowsItsCommit
  <2>2. QED
    BY <1>1, <1>8, <2>1, PrepareIs DEF KnowsItsJournal
<1>9. ASSUME NEW p \in Paths, StartTemporary(s, p)
      PROVE  KnowsItsJournal(s)'
  <2>1. task' = task /\ journal' = journal /\ task[s].step = "writing"
    BY <1>9 DEF StartTemporary, Busy, journals
  <2>2. QED
    BY <1>1, <2>1 DEF KnowsItsJournal
<1>10. ASSUME NEW p \in Paths, EndTemporary(s, p)
       PROVE  KnowsItsJournal(s)'
  <2>1. journal' = journal /\ task[s].step = "writing"
    BY <1>10 DEF EndTemporary, Busy, journals
  <2>2. QED
    BY <1>1, <1>10, <2>1, EndTemporaryIs DEF KnowsItsJournal, GoesOn
<1>11. CASE TemporaryFails(s) \/ CommitJournalFails(s)
  <2>1. /\ journal' = journal /\ task[s].step = "writing"
        /\ task'[s].step = "discarding" /\ task'[s].journal = task[s].journal
        /\ task'[s].todo = task[s].journal.writes
    BY <1>1, <1>11, BeginIs
       DEF TemporaryFails, CommitJournalFails, StartDiscarding, journals, Busy
  <2>2. QED
    BY <1>1, <2>1 DEF KnowsItsJournal
<1>12. CASE CommitJournal(s)
  <2>1. /\ journal' = Committed(s) /\ task'[s].step = "finishing"
        /\ task'[s].journal = Committed(s) /\ Committed(s).state = "committed"
        /\ task'[s].todo = Committed(s).writes \cup Removed(Committed(s))
    BY <1>1, <1>12, BeginIs, CommittedIs DEF CommitJournal, StartFinishing
  <2>2. QED
    BY <2>1 DEF KnowsItsJournal
<1>13. ASSUME NEW p \in Paths, DiscardTemporary(s, p)
       PROVE  KnowsItsJournal(s)'
  <2>1. journal' = journal /\ task[s].step = "discarding" /\ p \in task[s].todo
    BY <1>13 DEF DiscardTemporary, Busy, journals
  <2>2. task[s].journal.id \in Ids
    BY <2>1, RecoversOfACommit
  <2>3. /\ GoesOn(s) /\ task'[s].todo = task[s].todo \ {p}
        /\ \A q \in Paths : cached'[q].temps[task[s].journal.id] =
             IF q = p THEN Absent ELSE cached[q].temps[task[s].journal.id]
    BY <1>1, <1>13, <2>2, DiscardTemporaryIs
  <2>4. task[s].journal.writes \subseteq Paths
    BY <1>1 DEF TypeOK, Tasks, Journals
  <2>5. QED
    BY <1>1, <2>1, <2>3, <2>4 DEF KnowsItsJournal, GoesOn
<1>14. CASE Discarded(s) \/ Finished(s)
  <2>1. PICK a : RemoveJournal(s, a)
    BY <1>14 DEF Discarded, Finished
  <2>2. journal'.state = "none" /\ task'[s].step \in {"ready", "idle"}
    BY <1>1, <2>1, RemoveJournalIs DEF RemoveJournal, NoJournal
  <2>3. QED
    BY <2>2 DEF KnowsItsJournal
<1>15. ASSUME NEW p \in Paths, FinishDelete(s, p) \/ FinishRename(s, p)
       PROVE  KnowsItsJournal(s)'
  <2> DEFINE j == task[s].journal
  <2>1. /\ journal' = journal /\ task[s].step = "finishing"
    BY <1>15 DEF FinishDelete, FinishRename, Busy, journals
  <2>2. j.id \in Ids /\ j.writes \cap Removed(j) = {} /\ j.writes \subseteq Paths
    BY <1>1, <2>1, RecoversOfACommit DEF TypeOK, Tasks, Journals
  <2>3. /\ GoesOn(s) /\ task'[s].todo = task[s].todo \ {p}
        /\ p \in j.writes => cached'[p].temps[j.id] = Absent
        /\ \A q \in Paths : cached'[q].temps[j.id] \in {cached[q].temps[j.id], Absent}
    <3>1. CASE FinishDelete(s, p)
      BY <1>1, <2>2, <3>1, FinishDeleteIs DEF FinishDelete
    <3>2. CASE FinishRename(s, p)
      <4>1. p \in j.writes /\ ~Renames(s, p) => cached[p].temps[j.id] = Absent
        BY DEF Renames, Temporary
      <4>2. TypeOK /\ task[s].journal.id \in Ids
        BY <1>1, <2>2
      <4>3. /\ \A q \in Paths :
                 /\ cached'[q].file = IF q = p /\ Renames(s, p)
                                        THEN cached[p].temps[task[s].journal.id]
                                      ELSE cached[q].file
                 /\ \A k \in Ids : cached'[q].temps[k] =
                      IF q = p /\ k = task[s].journal.id /\ Renames(s, p) THEN Absent
                      ELSE cached[q].temps[k]
            /\ GoesOn(s) /\ task'[s].todo = task[s].todo \ {p}
        BY <3>2, <4>2, FinishRenameIs, Zenon
      <4>4. QED
        BY <2>2, <4>1, <4>3
    <3>3. QED
      BY <1>15, <3>1, <3>2
  <2>4. QED
    BY <1>1, <2>1, <2>2, <2>3 DEF KnowsItsJournal, GoesOn
<1>16. ASSUME NEW d \in task[s].changed, FinishSync(s, d)
       PROVE  KnowsItsJournal(s)'
  <2>1. journal' = journal /\ cached' = cached /\ task[s].step = "finishing"
    BY <1>16 DEF FinishSync, Busy, journals
  <2>2. QED
    BY <1>1, <1>16, <2>1, FinishSyncIs DEF KnowsItsJournal, GoesOn
<1>17. CASE FinishRetries(s)
  <2>1. journal' = journal /\ cached' = cached /\ task[s].step = "finishing"
    BY <1>17 DEF FinishRetries, Busy, journals, disk
  <2>2. QED
    BY <1>1, <1>17, <2>1, FinishRetriesIs DEF KnowsItsJournal, GoesOn
<1>18. QED
  BY <1>4, <1>5, <1>6, <1>7, <1>8, <1>9, <1>10, <1>11, <1>12, <1>13, <1>14,
     <1>15, <1>16, <1>17 DEF Work

(* The journal changes only when a Commit is prepared, when it happens and   *)
(* when nothing of it is left to do, and then nothing else on disk changes.  *)
LEMMA JournalChanges ==
  ASSUME IInv, NEW s \in Stores, Work(s)
  PROVE  /\ journal' # journal =>
              /\ cached' = cached /\ stable' = stable
              /\ \/ task[s].step = "preparing" /\ journal' = task[s].journal
                 \/ /\ task[s].step = "writing" /\ task[s].todo = {}
                    /\ journal' = Committed(s)
                 \/ /\ task[s].step \in {"discarding", "finishing"} /\ task[s].todo = {}
                    /\ journal' = NoJournal
         /\ stableJournal' # stableJournal => stableJournal' = journal'
<1>1. CASE UNCHANGED journals
  BY <1>1 DEF journals
<1>2. CASE Prepare(s) \/ PrepareFails(s)
  BY <1>2 DEF Prepare, PrepareFails, Busy, disk
<1>3. CASE CommitJournal(s) \/ CommitJournalUnreadable(s)
  BY <1>3 DEF CommitJournal, CommitJournalUnreadable, AllWritten, Busy, disk
<1>4. CASE Discarded(s) \/ Finished(s)
  BY <1>4 DEF Discarded, Finished, RemoveJournal, Busy, disk
<1>5. CASE Plan(s)
  BY <1>5, PlanIs DEF IInv
<1>6. QED
  BY <1>1, <1>2, <1>3, <1>4, <1>5
     DEF Work, Recover, RecoverUnreadable, Opened, Refuse, StartTemporary, EndTemporary,
         TemporaryFails, CommitJournalFails, DiscardTemporary, DiscardFails, FinishDelete,
         FinishRename, FinishSync, FinishRetries, FinishFails

(* A temporary file is written only of a Path still to do.                   *)
LEMMA WorkWrites ==
  ASSUME IInv, NEW s \in Stores, Work(s), NEW p \in Paths, NEW i \in Ids,
         cached'[p].temps[i] \notin {cached[p].temps[i], Absent}
  PROVE  /\ i = task[s].id /\ task[s].step = "writing" /\ p \in task[s].todo
         /\ journal' = journal
<1>1. i = task[s].id /\ task[s].step = "writing"
  BY WorkDisk
<1>2. ASSUME NEW q \in Paths, StartTemporary(s, q) \/ EndTemporary(s, q)
      PROVE  p \in task[s].todo /\ journal' = journal
  <2>1. q \in task[s].todo /\ journal' = journal
    BY <1>2 DEF StartTemporary, EndTemporary, journals
  <2>2. q # p => cached'[p].temps[i] = cached[p].temps[i]
    BY <1>2, StartTemporaryIs, EndTemporaryIs
  <2>3. QED
    BY <2>1, <2>2
<1>3. CASE TemporaryFails(s) \/ CommitJournal(s) \/ CommitJournalFails(s)
           \/ CommitJournalUnreadable(s)
  <2>1. cached' = cached
    BY <1>3 DEF TemporaryFails, CommitJournal, CommitJournalFails, CommitJournalUnreadable,
                disk
  <2>2. QED
    BY <2>1
<1>4. QED
  BY <1>1, <1>2, <1>3
     DEF Work, Busy, Recover, RecoverUnreadable, Opened, Refuse, Plan, Prepare, PrepareFails,
         DiscardTemporary, Discarded, DiscardFails, FinishDelete, FinishRename, FinishSync,
         Finished, FinishRetries, FinishFails

(* A Commit gives Ok when there is nothing to change, or all is done.        *)
LEMMA WorkOk ==
  ASSUME IInv, NEW s \in Stores, Work(s), NEW i \in Ids,
         answered'[i] = "ok", answered[i] # "ok"
  PROVE  /\ i = task[s].id /\ cached' = cached
         /\ \/ task[s].step = "ready"
            \/ task[s].step = "finishing" /\ task[s].whose = "own" /\ task[s].todo = {}
<1>1. TypeOK /\ answered'[i] # answered[i]
  BY DEF IInv
<1>2. i = task[s].id
  BY <1>1, WorkAnswers
<1>3. ASSUME NEW a, Answer(s, a)
      PROVE  a = "ok"
  BY <1>1, <1>2, <1>3, AnswerIs
<1>4. CASE Plan(s)
  BY <1>1, <1>2, <1>4, PlanIs
<1>5. CASE Finished(s)
  <2>1. RemoveJournal(s, "ok") /\ task[s].step = "finishing" /\ task[s].todo = {}
    BY <1>5 DEF Finished, Busy
  <2>2. QED
    BY <1>1, <1>2, <2>1, RemoveJournalIs DEF RemoveJournal, disk
<1>6. CASE Discarded(s)
  <2>1. RemoveJournal(s, "failed")
    BY <1>6 DEF Discarded
  <2>2. QED
    BY <1>1, <1>2, <2>1, RemoveJournalIs
<1>7. CASE FinishFails(s)
  BY <1>3, <1>7 DEF FinishFails, Unfinished
<1>8. CASE RecoverUnreadable(s) \/ Refuse(s) \/ PrepareFails(s) \/ CommitJournalUnreadable(s)
           \/ DiscardFails(s)
  BY <1>3, <1>8 DEF RecoverUnreadable, Refuse, PrepareFails, CommitJournalUnreadable,
                    DiscardFails
<1>9. QED
  BY <1>1, <1>4, <1>5, <1>6, <1>7, <1>8
     DEF Work, Recover, Opened, Prepare, StartTemporary, EndTemporary, TemporaryFails,
         CommitJournal, CommitJournalFails, DiscardTemporary, FinishDelete, FinishRename,
         FinishSync, FinishRetries, history

LEMMA WorkNothingLeft ==
  ASSUME IInv, JInv, NEW s \in Stores, Work(s)
  PROVE  NothingLeft'
<1> SUFFICES ASSUME "power" \notin Faults
             PROVE  NoScatteredTemporaries' /\ OkIsFinished'
  BY DEF NothingLeft
<1>1. NoScatteredTemporaries /\ OkIsFinished /\ TypeOK
      /\ KnowsItsJournal(s) /\ KnowsItsCommit(s)
  BY DEF JInv, NothingLeft, IInv, OwnSteps
<1>2. ASSUME NEW p \in Paths, NEW i \in Ids, cached'[p].temps[i] # Absent
      PROVE  journal'.state # "none" /\ journal'.id = i /\ p \in journal'.writes
  <2>1. CASE cached'[p].temps[i] = cached[p].temps[i]
    <3>1. journal.state # "none" /\ journal.id = i /\ p \in journal.writes
      BY <1>1, <1>2, <2>1 DEF NoScatteredTemporaries
    <3>2. CASE journal' = journal
      BY <3>1, <3>2
    <3>3. CASE task[s].step = "preparing"
      BY <1>1, <3>1, <3>3 DEF KnowsItsJournal
    <3>4. CASE task[s].step = "writing" /\ journal' = Committed(s)
      BY <1>1, <3>1, <3>4, CommittedIs DEF KnowsItsJournal
    <3>5. CASE task[s].step \in {"discarding", "finishing"} /\ task[s].todo = {}
      BY <1>1, <1>2, <2>1, <3>1, <3>5 DEF KnowsItsJournal
    <3>6. QED
      BY <3>2, <3>3, <3>4, <3>5, JournalChanges
  <2>2. CASE cached'[p].temps[i] # cached[p].temps[i]
    <3>1. /\ i = task[s].id /\ task[s].step = "writing" /\ p \in task[s].todo
          /\ journal' = journal
      BY <1>2, <2>2, WorkWrites
    <3>2. task[s].todo \subseteq task[s].journal.writes /\ task[s].journal.id = i
          /\ task[s].journal.state = "prepared"
      BY <1>1, <3>1 DEF KnowsItsCommit
    <3>3. QED
      BY <1>1, <3>1, <3>2 DEF KnowsItsJournal
  <2>3. QED
    BY <2>1, <2>2
<1>3. ASSUME NEW i \in Ids, NEW p \in Paths, answered'[i] = "ok"
      PROVE  cached'[p].temps[i] = Absent
  <2>1. CASE answered[i] = "ok"
    <3>1. cached[p].temps[i] = Absent
      BY <1>1, <2>1 DEF OkIsFinished
    <3>2. i # task[s].id
      BY <2>1 DEF IInv, OwnCommits
    <3>3. QED
      BY <3>1, <3>2, WorkWrites
  <2>2. CASE answered[i] # "ok"
    <3>1. /\ i = task[s].id /\ cached' = cached
          /\ \/ task[s].step = "ready"
             \/ task[s].step = "finishing" /\ task[s].whose = "own" /\ task[s].todo = {}
      BY <1>3, <2>2, WorkOk
    <3>2. CASE task[s].step = "ready"
      BY <3>1, <3>2 DEF IInv, NothingBefore, Begun
    <3>3. CASE task[s].step = "finishing" /\ task[s].whose = "own" /\ task[s].todo = {}
      <4>1. task[s].journal.id = i /\ journal = task[s].journal
        BY <1>1, <3>1, <3>3 DEF KnowsItsCommit, KnowsItsJournal
      <4>2. p \in journal.writes => cached[p].temps[i] = Absent
        BY <1>1, <3>3, <4>1 DEF KnowsItsJournal
      <4>3. QED
        BY <1>1, <3>1, <4>2 DEF NoScatteredTemporaries
    <3>4. QED
      BY <3>1, <3>2, <3>3
  <2>3. QED
    BY <2>1, <2>2
<1>4. QED
  BY <1>2, <1>3 DEF NoScatteredTemporaries, OkIsFinished

LEMMA WorkJInv ==
  ASSUME IInv, JInv, NEW s \in Stores, Work(s)
  PROVE  JInv'
<1>1. ASSUME NEW t \in Stores \ {s}
      PROVE  KnowsItsJournal(t)'
  <2>1. task'[t].step \in {"idle", "waiting"}
    BY OthersWait
  <2>2. QED
    BY <2>1 DEF KnowsItsJournal
<1>2. \A t \in Stores : KnowsItsJournal(t)'
  BY <1>1, WorkKnowsItsJournal
<1>3. QED
  BY <1>2, WorkJournalsAgree, WorkNothingLeft DEF JInv

LEMMA CallJInv ==
  ASSUME IInv, JInv, NEW s \in Stores, NEW i \in Ids, NEW r \in Requests, Call(s, i, r)
  PROVE  JInv'
<1>1. /\ asked[i] = NoRequest /\ asked' = [asked EXCEPT ![i] = r] /\ r # NoRequest
      /\ task' = [task EXCEPT ![s].step = "waiting", ![s].id = i]
      /\ cached' = cached /\ stable' = stable /\ answered' = answered
      /\ journal' = journal /\ stableJournal' = stableJournal
      /\ task[s] \in Tasks /\ task \in [Stores -> Tasks]
      /\ asked \in [Ids -> Requests \cup {NoRequest}]
  BY JournalAssumption DEF Call, IInv, TypeOK, disk, journals
<1>2. /\ \A t \in Stores \ {s} : task'[t] = task[t]
      /\ task'[s].step = "waiting" /\ task'[s].journal = task[s].journal
  BY <1>1 DEF Tasks
<1>3. \A k \in Ids : asked[k] # NoRequest => asked'[k] = asked[k]
  BY <1>1
<1>4. ASSUME NEW j, Agrees(j)
      PROVE  \/ j = NoJournal
             \/ /\ j.state # "none"
                /\ j.id \in Ids /\ asked'[j.id] # NoRequest
                /\ \A p \in j.writes : asked'[j.id].sets[p] \in Contents
                /\ \A p \in Removed(j) : asked'[j.id].sets[p] = Absent
  BY <1>3, <1>4 DEF Agrees
<1>5. Agrees(journal) /\ Agrees(stableJournal) /\ \A t \in Stores : Agrees(task[t].journal)
  BY DEF JInv, JournalsAgree
<1>6. Agrees(journal)' /\ Agrees(stableJournal)'
  BY <1>1, <1>4, <1>5 DEF Agrees
<1>7. ASSUME NEW t \in Stores
      PROVE  Agrees(task[t].journal)'
  <2>1. task'[t].journal = task[t].journal
    BY <1>2
  <2>2. Agrees(task[t].journal)
    BY <1>5
  <2>3. QED
    <3> DEFINE j == task[t].journal
    <3> HIDE DEF j
    <3>1. task'[t].journal = j /\ Agrees(j)
      BY <2>1, <2>2 DEF j
    <3>2. \/ j = NoJournal
          \/ /\ j.state # "none"
             /\ j.id \in Ids /\ asked'[j.id] # NoRequest
             /\ \A p \in j.writes : asked'[j.id].sets[p] \in Contents
             /\ \A p \in Removed(j) : asked'[j.id].sets[p] = Absent
      BY <1>4, <3>1
    <3>3. QED
      BY <3>1, <3>2 DEF Agrees
<1>8. ASSUME NEW t \in Stores
      PROVE  KnowsItsJournal(t)'
  BY <1>1, <1>2 DEF KnowsItsJournal, JInv
<1>9. NothingLeft'
  BY <1>1 DEF JInv, NothingLeft, NoScatteredTemporaries, OkIsFinished
<1>10. QED
  BY <1>6, <1>7, <1>8, <1>9 DEF JInv, JournalsAgree

(* Steps of no Store past the lock that change nothing but Files, and what   *)
(* Stores do that aren't past it afterwards.                                 *)
LEMMA OutsideJInv ==
  ASSUME TypeOK, JInv, UNCHANGED <<journals, history>>,
         \A p \in Paths : cached'[p].temps = cached[p].temps,
         \A t \in Stores :
           \/ task'[t] = task[t]
           \/ /\ task'[t].step \in {"idle", "waiting", "locked"}
              /\ task'[t].journal \in {task[t].journal, NoJournal}
  PROVE  JInv'
<1>1. /\ journal' = journal /\ stableJournal' = stableJournal
      /\ asked' = asked /\ answered' = answered
  BY DEF journals, history
<1>2. Agrees(NoJournal)
  BY DEF Agrees
<1>3. ASSUME NEW t \in Stores
      PROVE  Agrees(task'[t].journal) /\ KnowsItsJournal(t)'
  <2>1. Agrees(task[t].journal) /\ KnowsItsJournal(t)
    BY DEF JInv, JournalsAgree
  <2>2. CASE task'[t] = task[t]
    <3>1. task[t].journal.writes \subseteq Paths
      BY DEF TypeOK, Tasks, Journals
    <3>2. QED
      BY <1>1, <2>1, <2>2, <3>1 DEF KnowsItsJournal
  <2>3. CASE task'[t] # task[t]
    <3>1. /\ task'[t].step \in {"idle", "waiting", "locked"}
          /\ task'[t].journal \in {task[t].journal, NoJournal}
      BY <2>3
    <3>2. Agrees(task'[t].journal)
      BY <1>2, <2>1, <3>1
    <3>3. KnowsItsJournal(t)'
      BY <3>1 DEF KnowsItsJournal
    <3>4. QED
      BY <3>2, <3>3
  <2>4. QED
    BY <2>2, <2>3
<1>4. NothingLeft'
  BY <1>1 DEF JInv, NothingLeft, NoScatteredTemporaries, OkIsFinished
<1>5. QED
  BY <1>1, <1>3, <1>4 DEF JInv, JournalsAgree, Agrees

LEMMA OpenLockCrashJInv ==
  ASSUME IInv, JInv, NEW s \in Stores, Open(s) \/ Lock(s) \/ Crash(s)
  PROVE  JInv'
<1>1. /\ TypeOK /\ cached' = cached /\ UNCHANGED <<journals, history>>
      /\ task[s] \in Tasks /\ task \in [Stores -> Tasks]
  BY DEF IInv, TypeOK, Open, Lock, Crash, disk
<1>2. /\ \A t \in Stores \ {s} : task'[t] = task[t]
      /\ task'[s].step \in {"idle", "waiting", "locked"}
      /\ task'[s].journal \in {task[s].journal, NoJournal}
      /\ task'[s].id = NoId \/ task'[s].id = task[s].id
  <2>1. CASE Open(s)
    <3>1. task' = [task EXCEPT ![s] = [task[s] EXCEPT !.step = "waiting"]]
      BY <1>1, <2>1 DEF Open
    <3>2. QED
      BY <1>1, <3>1, PartIs
  <2>2. CASE Lock(s)
    <3>1. task' = [task EXCEPT ![s] = [task[s] EXCEPT !.step = "locked"]]
      BY <1>1, <2>2 DEF Lock
    <3>2. QED
      BY <1>1, <3>1, PartIs
  <2>3. CASE Crash(s)
    BY <1>1, <2>3 DEF Crash, NoTask
  <2>4. QED
    BY <2>1, <2>2, <2>3
<1>3. QED
  BY <1>1, <1>2, OutsideJInv

LEMMA PowerCutJInv ==
  ASSUME IInv, JInv, PowerCut
  PROVE  JInv'
<1>1. /\ "power" \in Faults
      /\ journal' \in {journal, stableJournal} /\ stableJournal' = journal'
      /\ asked' = asked
      /\ \A t \in Stores : task'[t].step = "idle" /\ task'[t].journal = NoJournal
  BY DEF PowerCut, history, NoTask
<1>2. Agrees(journal)' /\ Agrees(stableJournal)'
  BY <1>1 DEF JInv, JournalsAgree, Agrees
<1>3. ASSUME NEW t \in Stores
      PROVE  Agrees(task[t].journal)' /\ KnowsItsJournal(t)'
  BY <1>1 DEF Agrees, KnowsItsJournal
<1>4. QED
  BY <1>1, <1>2, <1>3 DEF JInv, JournalsAgree, NothingLeft

LEMMA EditJInv ==
  ASSUME IInv, JInv, NEW p \in Paths, NEW c \in Contents \cup {Absent}, Edit(p, c)
  PROVE  JInv'
<1>1. /\ TypeOK /\ task' = task /\ UNCHANGED <<journals, history>>
      /\ cached' = [cached EXCEPT ![p].file = c] /\ cached \in [Paths -> Entries]
  BY DEF IInv, TypeOK, Edit
<1>2. \A q \in Paths : cached'[q].temps = cached[q].temps
  BY <1>1 DEF Entries
<1>3. QED
  BY <1>1, <1>2, OutsideJInv

LEMMA InitJInv == Init => JInv
<1> SUFFICES ASSUME Init PROVE JInv
  OBVIOUS
<1>1. /\ journal = NoJournal /\ stableJournal = NoJournal
      /\ \A s \in Stores : task[s].step = "idle" /\ task[s].journal = NoJournal
      /\ \A p \in Paths, i \in Ids : cached[p].temps[i] = Absent
  BY DEF Init, NoTask
<1>2. JournalsAgree /\ \A s \in Stores : KnowsItsJournal(s)
  BY <1>1 DEF JournalsAgree, Agrees, KnowsItsJournal
<1>3. NothingLeft
  BY <1>1 DEF NothingLeft, NoScatteredTemporaries, OkIsFinished
<1>4. QED
  BY <1>2, <1>3 DEF JInv

LEMMA NextJInv == IInv /\ JInv /\ [Next]_vars => JInv'
<1> SUFFICES ASSUME IInv, JInv, [Next]_vars PROVE JInv'
  OBVIOUS
<1>1. ASSUME NEW s \in Stores, NEW i \in Ids, NEW r \in Requests, Call(s, i, r)
      PROVE  JInv'
  BY <1>1, CallJInv
<1>2. ASSUME NEW s \in Stores, Open(s) \/ Lock(s) \/ Crash(s)
      PROVE  JInv'
  BY <1>2, OpenLockCrashJInv
<1>3. ASSUME NEW s \in Stores, Work(s)
      PROVE  JInv'
  BY <1>3, WorkJInv
<1>4. CASE PowerCut
  BY <1>4, PowerCutJInv
<1>5. ASSUME NEW p \in Paths, NEW c \in Contents \cup {Absent}, Edit(p, c)
      PROVE  JInv'
  BY <1>5, EditJInv
<1>6. CASE UNCHANGED vars
  <2>1. /\ UNCHANGED <<journals, history>> /\ task' = task /\ cached' = cached /\ TypeOK
    BY <1>6 DEF vars, disk, IInv
  <2>2. QED
    BY <2>1, OutsideJInv
<1>7. QED
  BY <1>1, <1>2, <1>3, <1>4, <1>5, <1>6 DEF Next

-----------------------------------------------------------------------------
(* What finishing, discarding and recovering a Commit shows.               *)

(* What AsFinished::read gives for p with the journal j and e on disk.     *)
Shown(j, p, e) ==
  IF j.state = "committed" /\ p \in j.writes /\ e.temps[j.id] # Absent THEN e.temps[j.id]
  ELSE IF j.state = "committed" /\ p \in Removed(j) /\ e.file = j.removes[p] THEN Absent
  ELSE e.file

LEMMA ViewIs ==
  ASSUME NEW p \in Paths
  PROVE  View[p] = Shown(journal, p, cached[p])
BY DEF View, AsFinished, Temporary, Disk, Shown

LEMMA ViewIsNext ==
  ASSUME NEW p \in Paths
  PROVE  View'[p] = Shown(journal', p, cached'[p])
BY DEF View, AsFinished, Temporary, Disk, Shown

(* A step that isn't the commit point shows nothing new of a Path, but where *)
(* another program edits what the Commit deletes.                            *)
LEMMA WorkUnseen ==
  ASSUME IInv, JInv, IInv', NEW s \in Stores, Work(s), happened' = happened,
         NEW p \in Paths
  PROVE  View'[p] = View[p] \/ MeetsADelete(s, p)
<1> DEFINE j == task[s].journal
<1>1. TypeOK /\ KnowsItsJournal(s) /\ KnowsItsCommit(s) /\ task[s] \in Tasks
  BY DEF IInv, OwnSteps, JInv, TypeOK
<1>2. /\ View[p] = Shown(journal, p, cached[p])
      /\ View'[p] = Shown(journal', p, cached'[p])
  BY ViewIs, ViewIsNext
<1>3. CASE journal' # journal
  <2>1. cached' = cached
    BY <1>3, JournalChanges
  <2>2. CASE task[s].step = "preparing" /\ journal' = j
    BY <1>1, <1>2, <2>1, <2>2 DEF KnowsItsJournal, KnowsItsCommit, Shown
  <2>3. CASE task[s].step = "writing" /\ journal' = Committed(s)
    <3>1. journal'.state = "committed" /\ journal'.id = task[s].id
      BY <1>1, <2>3, CommittedIs DEF KnowsItsCommit, IInv, TypeOK, Tasks
    <3>2. journal'.id \in happened /\ task[s].id \notin happened
      BY <1>1, <2>3, <3>1 DEF KnowsItsCommit, IInv, HappenedIsWhole
    <3>3. QED
      BY <3>1, <3>2
  <2>4. CASE /\ task[s].step \in {"discarding", "finishing"} /\ task[s].todo = {}
             /\ journal' = NoJournal
    <3>1. View'[p] = cached[p].file
      BY <1>2, <2>1, <2>4 DEF NoJournal, Shown
    <3>2. CASE task[s].step = "discarding"
      BY <1>1, <1>2, <3>1, <3>2 DEF KnowsItsJournal, Shown
    <3>3. CASE task[s].step = "finishing"
      <4>1. /\ journal = j /\ journal.state = "committed"
            /\ p \in journal.writes => cached[p].temps[journal.id] = Absent
        BY <1>1, <2>4, <3>3 DEF KnowsItsJournal
      <4>2. CASE p \in Removed(journal) /\ cached[p].file = journal.removes[p]
        BY <2>4, <3>3, <4>1, <4>2 DEF MeetsADelete, Disk
      <4>3. CASE ~(p \in Removed(journal) /\ cached[p].file = journal.removes[p])
        BY <1>2, <3>1, <4>1, <4>3 DEF Shown
      <4>4. QED
        BY <4>2, <4>3
    <3>4. QED
      BY <2>4, <3>2, <3>3
  <2>5. QED
    BY <1>3, <2>2, <2>3, <2>4, JournalChanges
<1>4. CASE journal' = journal /\ cached' = cached
  BY <1>2, <1>4
<1>5. ASSUME NEW q \in Paths, StartTemporary(s, q) \/ EndTemporary(s, q) \/ DiscardTemporary(s, q)
      PROVE  View'[p] = View[p]
  <2>1. task[s].step \in {"writing", "discarding"} /\ journal' = journal
    BY <1>5 DEF StartTemporary, EndTemporary, DiscardTemporary, Busy, journals
  <2>2. journal.state # "committed"
    BY <1>1, <2>1 DEF KnowsItsJournal
  <2>3. cached'[p].file = cached[p].file
    <3>1. CASE DiscardTemporary(s, q)
      <4>1. task[s].journal.id \in Ids
        BY <3>1, RecoversOfACommit DEF DiscardTemporary, Busy
      <4>2. QED
        BY <1>1, <3>1, <4>1, DiscardTemporaryIs
    <3>2. QED
      BY <1>1, <1>5, <3>1, StartTemporaryIs, EndTemporaryIs DEF StartTemporary, EndTemporary,
         Busy, KnowsItsCommit
  <2>4. QED
    BY <1>2, <2>1, <2>2, <2>3 DEF Shown
<1>6. ASSUME NEW q \in Paths, FinishDelete(s, q)
      PROVE  View'[p] = View[p] \/ MeetsADelete(s, p)
  <2>1. /\ task[s].step = "finishing" /\ journal' = journal /\ journal = j
        /\ journal.state = "committed" /\ q \in task[s].todo \cap Removed(j)
        /\ q \notin j.writes
    BY <1>1, <1>6, RecoversOfACommit DEF FinishDelete, Busy, journals, KnowsItsJournal
  <2>2. /\ cached'[p].file = IF p = q /\ Deletes(s, q) THEN Absent ELSE cached[p].file
        /\ cached'[p].temps = cached[p].temps
    BY <1>1, <1>6, FinishDeleteIs
  <2>3. CASE ~(p = q /\ Deletes(s, q))
    BY <1>2, <2>1, <2>2, <2>3 DEF Shown
  <2>4. CASE p = q /\ cached[p].file = j.removes[p]
    BY <1>2, <2>1, <2>2, <2>4 DEF Shown
  <2>5. CASE p = q /\ Deletes(s, q) /\ cached[p].file # j.removes[p]
    <3>1. ~Again(s)
      BY <2>5 DEF Deletes, Disk
    <3>2. task[s].whose = "own" /\ task[s].tries = 0
      BY <1>1, <3>1, JournalAssumption DEF Again, Tasks
    <3>3. QED
      BY <2>1, <2>5, <3>2 DEF MeetsADelete, Disk
  <2>6. QED
    BY <2>3, <2>4, <2>5
<1>7. ASSUME NEW q \in Paths, FinishRename(s, q)
      PROVE  View'[p] = View[p]
  <2>1. /\ task[s].step = "finishing" /\ journal' = journal /\ journal = j
        /\ journal.state = "committed" /\ journal.id \in Ids
        /\ q \in j.writes => q \notin Removed(j)
    BY <1>1, <1>7, RecoversOfACommit DEF FinishRename, Busy, journals, KnowsItsJournal
  <2>2. TypeOK /\ task[s].journal.id \in Ids
    BY <1>1, <2>1
  <2>3. \A r \in Paths :
          /\ cached'[r].file = IF r = q /\ Renames(s, q)
                                 THEN cached[q].temps[task[s].journal.id]
                               ELSE cached[r].file
          /\ \A k \in Ids : cached'[r].temps[k] =
               IF r = q /\ k = task[s].journal.id /\ Renames(s, q) THEN Absent
               ELSE cached[r].temps[k]
    BY <1>7, <2>2, FinishRenameIs, Zenon
  <2>4. Renames(s, q) <=> q \in journal.writes /\ cached[q].temps[journal.id] # Absent
    BY <2>1 DEF Renames, Temporary
  <2>5. CASE p = q /\ Renames(s, q)
    <3>1. /\ p \in journal.writes /\ p \notin Removed(journal)
          /\ cached[p].temps[journal.id] # Absent
          /\ cached'[p].file = cached[p].temps[journal.id]
          /\ cached'[p].temps[journal.id] = Absent
      BY <2>1, <2>3, <2>4, <2>5
    <3>2. QED
      BY <1>2, <2>1, <3>1 DEF Shown
  <2>6. CASE ~(p = q /\ Renames(s, q))
    <3>1. /\ cached'[p].file = cached[p].file
          /\ cached'[p].temps[journal.id] = cached[p].temps[journal.id]
      BY <2>1, <2>3, <2>6
    <3>2. QED
      BY <1>2, <2>1, <3>1 DEF Shown
  <2>7. QED
    BY <2>5, <2>6
<1>8. QED
  BY <1>3, <1>4, <1>5, <1>6, <1>7
     DEF Work, Recover, RecoverUnreadable, Opened, Refuse, Plan, Prepare, PrepareFails,
         TemporaryFails, CommitJournal, CommitJournalFails, CommitJournalUnreadable,
         Discarded, DiscardFails, RemoveJournal, FinishSync, Finished, FinishRetries,
         FinishFails, disk

-----------------------------------------------------------------------------
(* Theorems, whatever may go wrong.                                        *)

(* What the journal, the Commits in it and what each Store knows of them are  *)
(* holds in every state FsJournal reaches, with any Faults.                   *)
THEOREM JournalInductive == Spec => [](IInv /\ JInv)
<1>1. Init => IInv /\ JInv
  BY InitIInv, InitJInv
<1>2. (IInv /\ JInv) /\ [Next]_vars => (IInv /\ JInv)'
  BY NextIInv, NextJInv
<1>3. QED
  BY <1>1, <1>2, PTL DEF Spec

(* Unless the power is cut, every temporary file on disk is named by the     *)
(* journal, whoever died and whatever failed, so the next Commit or `open`   *)
(* that recovers renames or removes it (ADR 0005).                           *)
THEOREM NothingScattered ==
  ASSUME "power" \notin Faults
  PROVE  Spec => []NoScatteredTemporaries
<1>1. IInv /\ JInv => NoScatteredTemporaries
  BY DEF JInv, NothingLeft
<1>2. QED
  BY JournalInductive, <1>1, PTL

(* Unless the power is cut, a Commit that gave its caller Ok has been        *)
(* finished: none of its temporary files is left to be renamed, so programs  *)
(* that know nothing of the journal see it whole too (Journal::finish).      *)
THEOREM FinishedIfOk ==
  ASSUME "power" \notin Faults
  PROVE  Spec => []OkIsFinished
<1>1. IInv /\ JInv => OkIsFinished
  BY DEF JInv, NothingLeft
<1>2. QED
  BY JournalInductive, <1>1, PTL

(* Recovering, finishing and discarding Commits changes nothing that reads   *)
(* through tidings give, also while other programs edit the Files, processes *)
(* die and the power is cut, but for a Path that a Commit deletes and another *)
(* program writes to meanwhile: there the first try deletes whatever is      *)
(* there (journal.rs, Journal::finish), and the same File written again shows. *)
THEOREM WorkIsUnseen == Spec => FinishingShowsNothing
<1>1. (IInv /\ JInv) /\ (IInv /\ JInv)' /\ [Next]_vars =>
        [\A s \in Stores : Work(s) /\ happened' = happened =>
           \A p \in Paths : View'[p] = View[p] \/ MeetsADelete(s, p)]_vars
  BY WorkUnseen
<1>2. QED
  BY JournalInductive, <1>1, PTL DEF Spec, FinishingShowsNothing

=============================================================================
