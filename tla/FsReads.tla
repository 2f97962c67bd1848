------------------------------ MODULE FsReads ------------------------------
(***************************************************************************)
(* Reading a File on the filesystem Backend while Commits are made: a read *)
(* takes no lock.  It reads the journal, then the temporary file of the    *)
(* Path's write, then the File, and Commits may be made, finished and      *)
(* discarded between any two of these.  Other programs leave the Files be. *)
(***************************************************************************)
EXTENDS FsJournal

CONSTANTS
  NoRead  \* nothing is being read

VARIABLES
  reader,  \* the read going on
  seen     \* what the Path being read has had, from the read's start to its end

reading == <<reader, seen>>

Value(p) == AsFinished(journal, p)

(* The journal is read first.  If it is committed, the read keeps what it    *)
(* says of the Path: whose temporary file it writes it with, or the Revision *)
(* it deletes it at.                                                         *)
StartRead(p) ==
  LET committed == journal.state = "committed" IN
  /\ reader = NoRead
  /\ reader' = [path |-> p, step |-> "temporary", gives |-> Absent,
                written |-> IF committed /\ p \in journal.writes THEN journal.id ELSE NoId,
                removed |-> IF committed THEN journal.removes[p] ELSE Absent]
  /\ seen' = {Value(p)}

Gives(contents) ==
  /\ reader' = [reader EXCEPT !.step = "done", !.gives = contents]
  /\ UNCHANGED seen

At(step) == reader # NoRead /\ reader.step = step

Temp == IF reader.written = NoId THEN Absent
        ELSE cached[reader.path].temps[reader.written]

(* The temporary file of the Path's write is what the read gives. *)
ReadTemporary ==
  /\ At("temporary")
  /\ Temp # Absent
  /\ Gives(Temp)

(* The journal doesn't write the Path, or the temporary file was renamed. *)
NoTemporary ==
  /\ At("temporary")
  /\ Temp = Absent
  /\ reader' = [reader EXCEPT !.step = "file", !.written = NoId]
  /\ UNCHANGED seen

(* The File is what it gives, unless it is the one the journal deletes. *)
ReadFileAsIs ==
  LET contents == Disk[reader.path] IN
  /\ At("file")
  /\ Gives(contents)

ReadFile ==
  LET contents == Disk[reader.path] IN
  /\ At("file")
  /\ Gives(IF contents = reader.removed THEN Absent ELSE contents)

EndRead ==
  /\ At("done")
  /\ reader' = NoRead
  /\ seen' = {}

(* While the read goes on, the Stores go on too.  What a read gave is        *)
(* forgotten before they do, since nothing depends on it any more.           *)
Observe ==
  /\ ~At("done")
  /\ UNCHANGED reader
  /\ seen' = IF reader = NoRead THEN seen ELSE seen \cup {Value(reader.path)'}

(* A power cut ends the read. *)
StopRead == reader' = NoRead /\ seen' = {}

ReadInit == Init /\ reader = NoRead /\ seen = {}

ReadNext ==
  \/ /\ \/ \E p \in Paths : StartRead(p)
        \/ ReadTemporary
        \/ NoTemporary
        \/ ReadFile
        \/ EndRead
     /\ UNCHANGED vars
  \/ /\ \E s \in Stores :
          \/ \E i \in Ids, r \in Requests : Call(s, i, r)
          \/ Open(s)
          \/ Lock(s)
          \/ Work(s)
          \/ Crash(s)
     /\ Observe
  \/ PowerCut /\ StopRead

ReadSpec == ReadInit /\ [][ReadNext]_<<vars, reading>>

(* Though it takes no lock, and the journal it read may be finished, removed *)
(* or another's by the time it reads the File, a read gives what the Path    *)
(* had at some moment of the read: never half a File, nor one that was       *)
(* replaced before the read began.  And at every moment the Paths listed are *)
(* those that can be read.                                                   *)
ReadsAreTrue == (At("done") => reader.gives \in seen) /\ ListedIsRead

=============================================================================
