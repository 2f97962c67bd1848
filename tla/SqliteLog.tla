------------------------------ MODULE SqliteLog -------------------------------
(***************************************************************************)
(* Stores on one SQLite database, and the change log in it from which each *)
(* learns of the others' Commits (backend/sqlite.rs): numbered Stores, how *)
(* far each has read, pruning by age, and the database being made again    *)
(* when the Location was removed.                                          *)
(*                                                                         *)
(* A transaction of SQLite is one step.  What is not under one transaction *)
(* (looking which file is at the database's place, opening it, registering *)
(* in it, noting which file it is) is a step each, and the Location may be *)
(* removed between any two.  A Store does one thing at a time, under the   *)
(* lock of its connection.                                                 *)
(***************************************************************************)
EXTENDS Integers, Sequences, SequencesExt, FiniteSetsExt

CONSTANTS
  Stores,
  MaxTime,             \* timestamps are 0..MaxTime, in any order: the clock may step back
  Retention,           \* how old Commits in the log get (change_log_retention)
  MaxCommits,          \* how many Commits the Stores make
  MaxRemovals,         \* how many times the Location is removed
  RemovedWhileOpening  \* whether that may happen while a Store opens the database

ASSUME SqliteAssumption ==
  /\ {MaxTime, Retention, MaxCommits, MaxRemovals} \subseteq Nat
  /\ RemovedWhileOpening \in BOOLEAN

VARIABLES
  databases, \* every database there has been; a Store may have a removed one open
  place,     \* which of them is at its place in the Location, or 0
  reader,    \* each Store's LogReader, and the database its connection is on
  opening,   \* the same, of the connection it is opening
  step,      \* where each Store is
  op,        \* what it is doing
  untold,    \* others' Commits since it opened that it hasn't been told of
  heard,     \* what it was told since then, or since it was told it missed some
  removed    \* whether the Location was removed since it began what it is doing

vars == <<databases, place, reader, opening, step, op, untold, heard, removed>>
ghosts == <<untold, heard, removed>>

Ops   == {"open", "commit", "poll", "read", "none"}
Steps == {"closed", "idle", "opening", "connected", "registered", "checked"}

(* The log holds the Commits after `pruned`; a Commit's id is its place among *)
(* all that were made (AUTOINCREMENT).                                        *)
Commit   == [by : Nat, time : 0..MaxTime, who : Stores]
Database == [commits : Seq(Commit), pruned : Nat, stores : Nat]
Empty    == [commits |-> <<>>, pruned |-> 0, stores |-> 0]

LogReader == [on : Nat, store : Nat, seen : Nat, database : Nat, missed : BOOLEAN]
NotOpen   == [on |-> 0, store |-> 0, seen |-> 0, database |-> 0, missed |-> FALSE]

(* Store s is done with what it was doing.                                   *)
Done(s) ==
  /\ step' = [step EXCEPT ![s] = "idle"]
  /\ op' = [op EXCEPT ![s] = "none"]
  /\ removed' = [removed EXCEPT ![s] = FALSE]

Of(s) == databases[reader[s].on]
MadeSoFar == FoldSeq(LAMBDA d, n : n + Len(d.commits), 0, databases)

-----------------------------------------------------------------------------
(* Opening the database: when the Store is opened, and again when the       *)
(* database isn't the one at its place (open_database).                      *)

Open(s) ==
  /\ step[s] = "closed"
  /\ step' = [step EXCEPT ![s] = "opening"]
  /\ op' = [op EXCEPT ![s] = "open"]
  /\ UNCHANGED <<databases, place, reader, opening, ghosts>>

(* The Location is made and marked, and the connection opened, on a new      *)
(* database if there is none.                                                *)
Connect(s) ==
  /\ step[s] = "opening"
  /\ IF place = 0
       THEN databases' = Append(databases, Empty) /\ place' = Len(databases) + 1
       ELSE UNCHANGED <<databases, place>>
  /\ opening' = [opening EXCEPT ![s] = [NotOpen EXCEPT !.on = place']]
  /\ step' = [step EXCEPT ![s] = "connected"]
  /\ UNCHANGED <<reader, op, ghosts>>

RegisterUnnumbered(s) ==
  LET d == opening[s].on IN
  /\ step[s] = "connected"
  /\ opening' = [opening EXCEPT ![s].store = 1, ![s].seen = Len(databases[d].commits)]
  /\ step' = [step EXCEPT ![s] = "registered"]
  /\ UNCHANGED <<databases, place, reader, op, ghosts>>

(* It takes a number no other Store has had on the database, and reads the   *)
(* log from its end (new_log_reader).                                        *)
Register(s) ==
  LET d == opening[s].on IN
  /\ step[s] = "connected"
  /\ databases' = [databases EXCEPT ![d].stores = @ + 1]
  /\ opening' = [opening EXCEPT ![s].store = databases[d].stores + 1,
                                ![s].seen = Len(databases[d].commits)]
  /\ step' = [step EXCEPT ![s] = "registered"]
  /\ UNCHANGED <<place, reader, op, ghosts>>

IdentifyOnly(s) ==
  /\ step[s] = "registered"
  /\ reader' = [reader EXCEPT ![s] = [opening[s] EXCEPT !.database = place]]
  /\ opening' = [opening EXCEPT ![s] = NotOpen]
  /\ IF op[s] = "open" THEN Done(s)
     ELSE step' = [step EXCEPT ![s] = "checked"] /\ UNCHANGED <<op, removed>>
  /\ UNCHANGED <<databases, place, untold, heard>>

IdentifyKeepsSeen(s) ==
  /\ step[s] = "registered"
  /\ reader' = [reader EXCEPT ![s] = [opening[s] EXCEPT !.database = place,
                                       !.missed = op[s] # "open", !.seen = reader[s].seen]]
  /\ opening' = [opening EXCEPT ![s] = NotOpen]
  /\ IF op[s] = "open" THEN Done(s)
     ELSE step' = [step EXCEPT ![s] = "checked"] /\ UNCHANGED <<op, removed>>
  /\ UNCHANGED <<databases, place, untold, heard>>

(* It notes which file the database is, and uses it from here on.  When it    *)
(* opened it again, Changes were missed (open_again_if_removed).              *)
Identify(s) ==
  /\ step[s] = "registered"
  /\ reader' = [reader EXCEPT ![s] = [opening[s] EXCEPT !.database = place,
                                                         !.missed = op[s] # "open"]]
  /\ opening' = [opening EXCEPT ![s] = NotOpen]
  /\ IF op[s] = "open" THEN Done(s)
     ELSE step' = [step EXCEPT ![s] = "checked"] /\ UNCHANGED <<op, removed>>
  /\ UNCHANGED <<databases, place, untold, heard>>

(* An error before it has registered: a Store already open keeps the          *)
(* connection it has.                                                         *)
OpenFails(s) ==
  /\ step[s] \in {"opening", "connected"}
  /\ opening' = [opening EXCEPT ![s] = NotOpen]
  /\ IF op[s] = "open"
       THEN step' = [step EXCEPT ![s] = "closed"] /\ UNCHANGED <<op, removed>>
       ELSE Done(s)
  /\ UNCHANGED <<databases, place, reader, untold, heard>>

-----------------------------------------------------------------------------
(* What a Store does with the database.                                     *)

BeginUnchecked(s, o) ==
  /\ step[s] = "idle"
  /\ step' = [step EXCEPT ![s] = "checked"]
  /\ op' = [op EXCEPT ![s] = o]
  /\ UNCHANGED <<databases, place, reader, opening, ghosts>>

(* It looks whether the file at the database's place is the one it has open. *)
Begin(s, o) ==
  /\ step[s] = "idle"
  /\ step' = [step EXCEPT ![s] = IF place = reader[s].database THEN "checked" ELSE "opening"]
  /\ op' = [op EXCEPT ![s] = o]
  /\ UNCHANGED <<databases, place, reader, opening, ghosts>>

MissedFromEqual(s) == reader[s].missed \/ Of(s).pruned >= reader[s].seen

(* Whether it missed Commits: they were pruned before it read them, or the   *)
(* database was made again (read_log, and read_log_and).                     *)
Missed(s) == reader[s].missed \/ Of(s).pruned > reader[s].seen

(* The Commits read from the log (read_log).                                *)
Read(s) ==
  [n \in 1..(Len(Of(s).commits) - Max({reader[s].seen, Of(s).pruned})) |->
     LET id == Max({reader[s].seen, Of(s).pruned}) + n IN
       [id |-> id, who |-> Of(s).commits[id].who,
        origin |-> IF Of(s).commits[id].by = reader[s].store THEN "local" ELSE "external"]]

(* Appends a Commit at time t (append_to_log), and prunes the Commits that    *)
(* are too old, with every Commit before them (prune_log).                    *)
Logged(s, t) ==
  LET commits == Append(Of(s).commits, [by |-> reader[s].store, time |-> t, who |-> s])
      old == {id \in (Of(s).pruned + 1)..Len(commits) : commits[id].time < t - Retention}
  IN  [Of(s) EXCEPT !.commits = commits, !.pruned = Max(old \cup {Of(s).pruned})]

Appended(s) == Len(Of(s).commits) + 1

-----------------------------------------------------------------------------
(* Telling the Store layer, which records it on the Change feed.             *)

(* A Store is to be told of what others commit once it has registered.       *)
Registered(s) == step[s] # "closed" /\ (op[s] = "open" => step[s] = "registered")

(* Commits made by s that the others are to be told of.                      *)
ToTell(s, made) == untold' = [r \in Stores |->
  IF r # s /\ Registered(r) /\ reader[s].on = place THEN untold[r] \cup made ELSE untold[r]]

(* Store s is told what it read, and then of its own Commits (RawChanges of   *)
(* the CommitOutcome), which the others are to be told of.                    *)
Tell(s, own) ==
  LET read == {[on |-> reader[s].on, id |-> Read(s)[n].id] : n \in DOMAIN Read(s)}
      made == {[on |-> reader[s].on, id |-> own[n].id] : n \in DOMAIN own}
  IN
  /\ heard' = [heard EXCEPT ![s] = (IF Missed(s) THEN <<>> ELSE @) \o Read(s) \o own]
  /\ untold' = [r \in Stores |->
       IF r = s THEN IF Missed(s) THEN {} ELSE untold[s] \ read
       ELSE IF Registered(r) /\ reader[s].on = place THEN untold[r] \cup made ELSE untold[r]]

OwnCommit(s) == [id |-> Appended(s), who |-> s, origin |-> "local"]

CommitUnmoved(s, t) ==
  /\ step[s] = "checked" /\ op[s] = "commit"
  /\ MadeSoFar < MaxCommits
  /\ databases' = [databases EXCEPT ![reader[s].on] = Logged(s, t)]
  /\ reader' = [reader EXCEPT ![s].seen = Len(Of(s).commits), ![s].missed = FALSE]
  /\ Tell(s, <<OwnCommit(s)>>)
  /\ Done(s)
  /\ UNCHANGED <<place, opening>>

(* A Commit that changes something, in one transaction with reading the log   *)
(* before it (SqliteBackend::commit).  The Store moves past both.             *)
MakeCommit(s, t) ==
  /\ step[s] = "checked" /\ op[s] = "commit"
  /\ MadeSoFar < MaxCommits
  /\ databases' = [databases EXCEPT ![reader[s].on] = Logged(s, t)]
  /\ reader' = [reader EXCEPT ![s].seen = Appended(s), ![s].missed = FALSE]
  /\ Tell(s, <<OwnCommit(s)>>)
  /\ Done(s)
  /\ UNCHANGED <<place, opening>>

(* The transaction is committed, but SQLite gives an error: nothing is told,  *)
(* and the Store will find its own Commit in the log.                         *)
CommitLost(s, t) ==
  /\ step[s] = "checked" /\ op[s] = "commit"
  /\ MadeSoFar < MaxCommits
  /\ databases' = [databases EXCEPT ![reader[s].on] = Logged(s, t)]
  /\ ToTell(s, {[on |-> reader[s].on, id |-> Appended(s)]})
  /\ Done(s)
  /\ UNCHANGED <<place, reader, opening, heard>>

(* The log is read, by the poller or by a Commit that changes nothing.        *)
ReadLog(s) ==
  /\ step[s] = "checked" /\ op[s] \in {"commit", "poll"}
  /\ reader' = [reader EXCEPT ![s].seen = Len(Of(s).commits), ![s].missed = FALSE]
  /\ Tell(s, <<>>)
  /\ Done(s)
  /\ UNCHANGED <<databases, place, opening>>

(* A read of Files; or a Commit or a poll that gives an error (a Conflict,     *)
(* say), and leaves everything as it was.                                     *)
Leave(s) ==
  /\ step[s] = "checked"
  /\ Done(s)
  /\ UNCHANGED <<databases, place, reader, opening, untold, heard>>

-----------------------------------------------------------------------------
(* Somebody removes the Location, and the database in it.                    *)
RemoveLocation ==
  /\ place # 0
  /\ Len(databases) <= MaxRemovals
  /\ RemovedWhileOpening \/ \A s \in Stores : step[s] \notin {"connected", "registered"}
  /\ place' = 0
  /\ removed' = [s \in Stores |-> step[s] \notin {"closed", "idle"}]
  /\ UNCHANGED <<databases, reader, opening, step, op, untold, heard>>

-----------------------------------------------------------------------------
Init ==
  /\ databases = <<>>
  /\ place = 0
  /\ reader = [s \in Stores |-> NotOpen]
  /\ opening = [s \in Stores |-> NotOpen]
  /\ step = [s \in Stores |-> "closed"]
  /\ op = [s \in Stores |-> "open"]
  /\ untold = [s \in Stores |-> {}]
  /\ heard = [s \in Stores |-> <<>>]
  /\ removed = [s \in Stores |-> FALSE]

Opening(s) == Open(s) \/ Connect(s) \/ Register(s) \/ Identify(s) \/ OpenFails(s)

Using(s) ==
  \/ \E o \in {"commit", "poll", "read"} : Begin(s, o)
  \/ \E t \in 0..MaxTime : MakeCommit(s, t) \/ CommitLost(s, t)
  \/ ReadLog(s) \/ Leave(s)

Next == RemoveLocation \/ \E s \in Stores : Opening(s) \/ Using(s)

Spec == Init /\ [][Next]_vars

-----------------------------------------------------------------------------
(* Properties.                                                             *)

(* The type of every variable; the log holds what was made after the Commit   *)
(* it was pruned through, and nobody has read further than was made.          *)
TypeOK ==
  /\ databases \in Seq(Database)
  /\ \A d \in DOMAIN databases : databases[d].pruned <= Len(databases[d].commits)
  /\ place \in 0..Len(databases)
  /\ reader \in [Stores -> LogReader] /\ opening \in [Stores -> LogReader]
  /\ step \in [Stores -> Steps]
  /\ op \in [Stores -> Ops]
  /\ \A s \in Stores : reader[s].on # 0 => reader[s].seen <= Len(Of(s).commits)
  /\ untold \in [Stores -> SUBSET [on : Nat, id : Nat]]
  /\ heard \in [Stores -> Seq([id : Nat, who : Stores, origin : {"local", "external"}])]
  /\ removed \in [Stores -> BOOLEAN]

(* The reader of a Store that is open, or of one that is about to be.        *)
Current(s) == IF op[s] = "open" /\ step[s] = "registered" THEN opening[s] ELSE reader[s]

(* Nothing another Store commits is lost: until a Store is told of it, the    *)
(* Store will read it from the log, or find that it was pruned, or that the   *)
(* database was removed and made again, and be told that it missed Changes    *)
(* (LogReader::missed: "so that a Commit that fails after making it again     *)
(* doesn't lose the Resync").                                                 *)
NothingIsLost ==
  \A s \in Stores : \A c \in untold[s] :
    \/ reader[s].missed
    \/ Current(s) = reader[s] /\ reader[s].database # place
    \/ /\ c.on = Current(s).on
       /\ c.id > Current(s).seen
       /\ c.id \in 1..Len(databases[c.on].commits)

(* A Store is told of every Commit since it was opened, its own too, or since *)
(* it was told it missed some, exactly once and in the order they were made   *)
(* (Store::commit: "On SQLite, other Stores' Commits do too, in order with    *)
(* this Store's"), its own as local and others' as external.                  *)
HeardOnceInOrder ==
  \A s \in Stores : \A n \in DOMAIN heard[s] :
    n > 1 => heard[s][n].id = heard[s][n - 1].id + 1

OriginIsTrue ==
  \A s \in Stores : \A n \in DOMAIN heard[s] :
    heard[s][n].origin = "local" <=> heard[s][n].who = s

(* What a Store does is done to the database at its place, unless the Location *)
(* was removed since it began (StoreConnection::call: "once it has opened the  *)
(* database again if the Location was removed").                               *)
OnTheDatabaseThere ==
  \A s \in Stores : step[s] = "checked" => reader[s].on = place \/ removed[s]

(* A Resync costs the app reading everything again: a Store is told it missed *)
(* Changes only if the database was removed or made again, or Commits were    *)
(* pruned that it hadn't been told of.                                        *)
MissedOnlyIfSo ==
  [][\A s \in Stores :
       step[s] = "checked" /\ reader'[s].seen # reader[s].seen /\ Missed(s) =>
         \/ reader[s].missed
         \/ reader[s].on # place
         \/ \E id \in (reader[s].seen + 1)..Of(s).pruned :
              Of(s).commits[id].who = s \/ [on |-> reader[s].on, id |-> id] \in untold[s]]_vars

=============================================================================
