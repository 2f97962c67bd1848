----------------------------- MODULE WorkingCopy -----------------------------
(***************************************************************************)
(* A Working copy (cli/src/working_copy.rs, working_copy/settle.rs and     *)
(* scan.rs): a folder holding a Store's Files, and its record in           *)
(* .tidings/.  `sync` keeps it in step with the Store from the Change      *)
(* feed; `commit`, `discard` and `resolve` are commands the person runs.   *)
(* Each works under the lock on .tidings/lock, while the person edits      *)
(* files and others commit to the Store, and each can die at any step:     *)
(* the Store, the folder, the theirs files and the record change one       *)
(* after the other.                                                        *)
(*                                                                         *)
(* A Revision is a hash of contents, so a Base is the contents it is of.   *)
(***************************************************************************)
EXTENDS Naturals, Functions

CONSTANTS
  Paths,
  Contents,
  Absent,     \* no File, no file, or no Base
  Unfit,      \* what is at the Path can't become a File: a symlink, or not text
  Blocked,    \* a directory is at the Path, or a file where a directory should be
  Linked,     \* a directory the Path is in is a symlink
  Obstacles,  \* those of the last three that the folder can hold
  Agreed,     \* the Path isn't Diverged
  Unread,     \* the Store isn't read at the Path, or what was read is dealt with
  MaxChanges, \* how many times the person changes a file, or others a File in the Store
  MaxCommands,  \* how many commands the person runs, beside `sync`
  MaxFaults   \* how many times a command dies, a theirs file fails, or the feed loses Changes

ASSUME WorkingCopyAssumption ==
  /\ {MaxChanges, MaxCommands, MaxFaults} \subseteq Nat
  /\ Obstacles \subseteq {Unfit, Blocked, Linked}
  /\ Contents \cap {Absent, Unfit, Blocked, Linked, Agreed, Unread} = {}
  /\ IsInjective(<<Absent, Unfit, Blocked, Linked, Agreed, Unread>>)
  /\ Unread \notin Paths

VARIABLES
  store,      \* the Store's Files
  folder,     \* what is at each Path in the folder
  theirs,     \* the theirs file of each Path
  saved,      \* the record on disk: each Path's Base and Divergence
  record,     \* the record as the holder of the lock has it
  syncing,    \* whether a `sync` runs
  resync,     \* whether `sync` is to reconcile every Path: it starts, or Changes were missed
  news,       \* the Paths of the Changes on `sync`'s feed
  failing,    \* the Paths whose theirs file `sync` couldn't settle (theirs_failures)
  command,    \* which command holds the lock
  step,       \* where it is
  covers,     \* the Paths it covers
  todo,       \* the Paths it has still to read
  read,       \* what the Store held at each Path it has to deal with
  found,      \* what it found in the folder
  at,         \* the Path it deals with
  flags,      \* what else it keeps track of
  mine,       \* the Paths where the folder holds what only the person has
  unsettled,  \* the Paths whose theirs file couldn't be settled, or was when the record wasn't saved
  merged,     \* the Store's versions each Path's file is made from, as far as the person knows
  counts      \* how often each bounded thing has happened

vars == <<store, folder, theirs, saved, record, syncing, resync, news, failing, command, step,
          covers, todo, read, found, at, flags, mine, unsettled, merged, counts>>
feed   == <<syncing, resync, news>>
ghosts == <<mine, unsettled, merged>>

Versions == Contents \cup {Absent}
Locals   == Versions \cup Obstacles
Records  == [bases : [Paths -> Versions], divergences : [Paths -> Versions \cup {Agreed}]]
NoFlags  == [all |-> FALSE, changed |-> FALSE, quiet |-> TRUE, retried |-> FALSE, result |-> "none"]
NotRead  == [p \in Paths |-> Unread]
NotFound == [p \in Paths |-> Absent]

Free == step = "free"

Count(what, max) == counts[what] < max /\ counts' = [counts EXCEPT ![what] = @ + 1]

Diverged(r) == {p \in Paths : r.divergences[p] # Agreed}

(* A directory, or nothing reached through one, is no file.                *)
Held(local) == IF local \in {Blocked, Linked} THEN Absent ELSE local

(* The File that v is, if it is one.                                       *)
File(v) == {v} \cap Contents

WithBase(r, p, v)       == [r EXCEPT !.bases[p] = v]
WithDivergence(r, p, v) == [r EXCEPT !.divergences[p] = v]

(* Lets go of the lock, and forgets what was done under it.                *)
Release ==
  /\ step' = "free" /\ command' = "none"
  /\ covers' = {} /\ todo' = {} /\ read' = NotRead
  /\ found' = NotFound
  /\ at' = Unread /\ flags' = NoFlags

-----------------------------------------------------------------------------
(* The person, and others.                                                 *)

Edit(p, v) ==
  /\ v # folder[p]
  /\ Count("changes", MaxChanges)
  /\ folder' = [folder EXCEPT ![p] = v]
  /\ mine' = IF Held(v) \in {saved.bases[p], record.bases[p]} THEN mine \ {p} ELSE mine \cup {p}
  /\ UNCHANGED <<store, theirs, saved, record, feed, failing, command, step, covers, todo, read,
                 found, at, flags, unsettled, merged>>

(* A reconcile of every Path to come takes the place of Changes before it. *)
Told(ps) == news' = IF syncing /\ ~resync THEN news \cup ps ELSE news

TheyCommit(p, v) ==
  /\ v # store[p]
  /\ Count("changes", MaxChanges)
  /\ store' = [store EXCEPT ![p] = v]
  /\ Told({p})
  /\ UNCHANGED <<folder, theirs, saved, record, syncing, resync, failing, command, step, covers,
                 todo, read, found, at, flags, ghosts>>

-----------------------------------------------------------------------------
(* `sync`: a reconcile of every Path, then of those on each batch of        *)
(* Changes.  `stop` is acted on between reconciles.                         *)

StartSync ==
  /\ ~syncing
  /\ syncing' = TRUE /\ resync' = TRUE
  /\ UNCHANGED <<store, folder, theirs, saved, record, news, failing, command, step, covers, todo,
                 read, found, at, flags, ghosts, counts>>

SyncEndsButFailing == syncing' = FALSE /\ resync' = FALSE /\ news' = {} /\ UNCHANGED failing

SyncEnds ==
  /\ syncing' = FALSE /\ resync' = FALSE /\ news' = {} /\ failing' = {}

StopSync ==
  /\ syncing /\ command # "sync"
  /\ SyncEnds
  /\ UNCHANGED <<store, folder, theirs, saved, record, command, step, covers, todo, read, found, at,
                 flags, ghosts, counts>>

(* The feed loses Changes, and gives a Resync in their place.              *)
LoseNews ==
  /\ syncing /\ ~resync
  /\ Count("faults", MaxFaults)
  /\ resync' = TRUE /\ news' = {}
  /\ UNCHANGED <<store, folder, theirs, saved, record, syncing, failing, command, step, covers,
                 todo, read, found, at, flags, ghosts>>

(* Every Diverged Path is reconciled every time, and those whose theirs    *)
(* file couldn't be settled.                                               *)
Reconcile(ps, all) ==
  /\ command' = "sync" /\ step' = "reconciling"
  /\ todo' = ps \cup Diverged(record) \cup failing
  /\ flags' = [NoFlags EXCEPT !.all = all]

ReconcileAll ==
  /\ Free /\ syncing /\ resync
  /\ resync' = FALSE
  /\ Reconcile({p \in Paths : store[p] # Absent \/ record.bases[p] # Absent}, TRUE)
  /\ UNCHANGED <<store, folder, theirs, saved, record, syncing, news, failing, covers, read, found,
                 at, ghosts, counts>>

ReconcileBatchOnly(batch) ==
  /\ Free /\ syncing /\ ~resync
  /\ batch \subseteq news /\ batch # {}
  /\ news' = {}
  /\ Reconcile(batch, FALSE)
  /\ UNCHANGED <<store, folder, theirs, saved, record, syncing, resync, failing, covers, read, found,
                 at, ghosts, counts>>

ReconcileBatch(batch) ==
  /\ Free /\ syncing /\ ~resync
  /\ batch \subseteq news /\ batch # {}
  /\ news' = news \ batch
  /\ Reconcile(batch, FALSE)
  /\ UNCHANGED <<store, folder, theirs, saved, record, syncing, resync, failing, covers, read, found,
                 at, ghosts, counts>>

-----------------------------------------------------------------------------
(* Reconciling Paths: the Store is read at each, then each is looked at in  *)
(* the folder and dealt with, those the Store has no File at first.         *)

Retrying(p) == command = "sync" /\ p \in failing

ReadStore(p) ==
  /\ step = "reconciling" /\ p \in todo
  /\ todo' = todo \ {p}
  /\ read' = IF store[p] # record.bases[p] \/ p \in Diverged(record) \/ Retrying(p)
             THEN [read EXCEPT ![p] = store[p]] ELSE read
  /\ UNCHANGED <<store, folder, theirs, saved, record, feed, failing, command, step, covers, found,
                 at, flags, ghosts, counts>>

Due(p) ==
  /\ todo = {} /\ read[p] # Unread
  /\ read[p] = Absent \/ \A q \in Paths : read[q] # Absent

(* What the record and the folder are to be at p, where the Store holds v   *)
(* (reconcile_path): one of these four.                                     *)
AsBase(p, v)     == v = record.bases[p]
Same(p, v)       == folder[p] # Linked /\ Held(folder[p]) = v
ApplicableToNew(p, v) == folder[p] \notin {Linked, Blocked} /\ record.bases[p] \in {folder[p], Absent}
Applicable(p, v) == folder[p] \notin {Linked, Blocked} /\ folder[p] = record.bases[p]

(* Whether nothing was reported of the Paths a commit's Conflict named.    *)
Quiet(unreported) == flags.quiet /\ (flags.result = "conflict" => unreported)

Outcome(p, v) ==
  IF AsBase(p, v) THEN WithDivergence(record, p, Agreed)
  ELSE IF Same(p, v) THEN WithBase(WithDivergence(record, p, Agreed), p, v)
  ELSE WithDivergence(record, p, v)

(* What p's theirs file is to hold.  It is settled if it is to hold a File, *)
(* the Divergence changed, or it couldn't be settled before; in the last    *)
(* two cases even one that is there is written again.                       *)
Theirs(r, p) == IF r.divergences[p] \in Contents THEN r.divergences[p] ELSE Absent
ForcedAgain(p) == Retrying(p)
Forced(p)     == flags.changed \/ Retrying(p)
ToSettle(p)  == IF Theirs(record, p) # Absent THEN Forced(p) \/ theirs[p] = Absent
                                              ELSE Forced(p) /\ theirs[p] # Absent

DealtWith(p) ==
  /\ read' = [read EXCEPT ![p] = Unread]
  /\ at' = Unread /\ step' = "reconciling"

Record(p, r, unreported) ==
  LET changed == r.divergences[p] # record.divergences[p] IN
  /\ record' = r
  /\ flags' = [flags EXCEPT !.changed = changed, !.quiet = Quiet(unreported /\ ~changed)]
  /\ IF changed \/ Theirs(r, p) # Absent \/ Retrying(p)
     THEN step' = "settling" /\ at' = p /\ UNCHANGED read
     ELSE DealtWith(p)

Look(p) ==
  /\ step = "reconciling" /\ Due(p)
  /\ LET v == read[p] IN
     IF ~AsBase(p, v) /\ ~Same(p, v) /\ Applicable(p, v)
     THEN step' = "applying" /\ at' = p /\ UNCHANGED <<record, flags, read, mine, merged>>
     ELSE /\ Record(p, Outcome(p, v), TRUE)
          /\ mine' = IF Same(p, v) THEN mine \ {p} ELSE mine
          /\ merged' = IF Same(p, v) THEN [merged EXCEPT ![p] = @ \cup File(v)] ELSE merged
  /\ UNCHANGED <<store, folder, theirs, saved, feed, failing, command, covers, todo, found,
                 unsettled, counts>>

(* A file is written in .tidings/tmp and renamed, or is removed, as long as *)
(* nothing keeps it from being.                                             *)
CanApply(p, v) == folder[p] \notin {Blocked, Linked} /\ (v = Absent => folder[p] # Absent)

Apply ==
  /\ step = "applying" /\ CanApply(at, read[at])
  /\ folder' = [folder EXCEPT ![at] = read[at]]
  /\ Record(at, WithBase(WithDivergence(record, at, Agreed), at, read[at]), FALSE)
  /\ mine' = mine \ {at}
  /\ merged' = [merged EXCEPT ![at] = @ \cup File(read[at])]
  /\ UNCHANGED <<store, theirs, saved, feed, failing, command, covers, todo, found, unsettled, counts>>

SettleTheirs ==
  /\ step = "settling"
  /\ theirs' = IF ToSettle(at) THEN [theirs EXCEPT ![at] = Theirs(record, at)] ELSE theirs
  /\ failing' = IF command = "sync" THEN failing \ {at} ELSE failing
  /\ unsettled' = IF ToSettle(at) THEN unsettled \ {at} ELSE unsettled
  /\ flags' = [flags EXCEPT !.changed = FALSE]
  /\ DealtWith(at)
  /\ UNCHANGED <<store, folder, saved, record, feed, command, covers, todo, found, mine, merged, counts>>

(* It fails, maybe once the file is changed, as forcing that to disk can.  *)
SettleFails ==
  /\ step = "settling" /\ ToSettle(at)
  /\ Count("faults", MaxFaults)
  /\ theirs' \in {theirs, [theirs EXCEPT ![at] = Theirs(record, at)]}
  /\ failing' = IF command = "sync" THEN failing \cup {at} ELSE failing
  /\ unsettled' = unsettled \cup {at}
  /\ flags' = [flags EXCEPT !.changed = FALSE, !.quiet = Quiet(FALSE)]
  /\ DealtWith(at)
  /\ UNCHANGED <<store, folder, saved, record, feed, command, covers, todo, found, mine, merged>>

(* All that was read is dealt with.                                        *)
Done(doing) == step = doing /\ todo = {} /\ read = NotRead

(* The theirs files of Paths that aren't Diverged are removed, but those   *)
(* that can't be.                                                          *)
Stale == {p \in Paths : theirs[p] # Absent /\ p \notin Diverged(record)}

RemoveStaleTheirs(failed) ==
  /\ step = "clearing" \/ (Done("reconciling") /\ flags.all)
  /\ failed \subseteq Stale
  /\ IF failed = {} THEN UNCHANGED counts ELSE Count("faults", MaxFaults)
  /\ theirs' = [p \in Paths |-> IF p \in Stale \ failed THEN Absent ELSE theirs[p]]
  /\ unsettled' = (unsettled \ (Stale \ failed)) \cup failed
  /\ IF command = "sync"
     THEN /\ step' = "saving" /\ failing' = failing \cup failed
          /\ UNCHANGED <<command, covers, todo, read, found, at, flags>>
     ELSE Release /\ UNCHANGED failing
  /\ UNCHANGED <<store, folder, saved, record, feed, mine, merged>>

(* The record is replaced whole.  A commit that met a Conflict starts over  *)
(* once, if each Path it named already held the local contents.  A discard  *)
(* that failed partway leaves its theirs files for the next to remove.      *)
Again == flags.result = "conflict" /\ flags.quiet /\ ~flags.retried

Save ==
  /\ \/ step = "saving" \/ Done("choosing")
     \/ Done("reconciling") /\ ~flags.all
  /\ saved' = record
  /\ \/ /\ command = "commit" /\ Again
        /\ step' = "scanning" /\ todo' = covers
        /\ flags' = [NoFlags EXCEPT !.retried = TRUE]
        /\ found' = NotFound
        /\ UNCHANGED <<command, covers, read, at, unsettled>>
     \/ /\ command \in {"discard", "resolve"} /\ flags.result # "failed"
        /\ step' = "clearing"
        /\ UNCHANGED <<command, covers, todo, read, found, at, flags, unsettled>>
     \/ /\ command = "discard" /\ flags.result = "failed"
        /\ unsettled' = unsettled \cup Stale
        /\ Release
     \/ /\ command = "sync" \/ (command = "commit" /\ ~Again)
        /\ Release
        /\ UNCHANGED unsettled
  /\ UNCHANGED <<store, folder, theirs, record, feed, failing, mine, merged, counts>>

(* A crash, or a failure that ends the command: what it did to the folder, *)
(* the theirs files and the Store stays, and the record isn't saved.       *)
Die ==
  /\ ~Free
  /\ Count("faults", MaxFaults)
  /\ IF command = "sync" THEN SyncEnds ELSE UNCHANGED <<feed, failing>>
  /\ record' = saved
  /\ unsettled' = unsettled \cup {p \in Paths : theirs[p] # Theirs(saved, p)}
  /\ Release
  /\ UNCHANGED <<store, folder, theirs, saved, mine, merged>>

-----------------------------------------------------------------------------
(* The person's commands.  `commit` and `discard` first scan the folder.    *)

Begin(which, ps) ==
  /\ Free /\ ps # {}
  /\ Count("commands", MaxCommands)
  /\ command' = which /\ step' = "scanning"
  /\ covers' = ps /\ todo' = ps
  /\ UNCHANGED <<store, folder, theirs, saved, record, feed, failing, read, found, at, flags, ghosts>>

BeginCommit(ps) == ps \cap Diverged(record) = {} /\ Begin("commit", ps)
BeginDiscard(ps) == Begin("discard", ps)

ScanFile(p) ==
  /\ step = "scanning" /\ p \in todo
  /\ todo' = todo \ {p}
  /\ found' = [found EXCEPT ![p] = folder[p]]
  /\ UNCHANGED <<store, folder, theirs, saved, record, feed, failing, command, step, covers, read,
                 at, flags, ghosts, counts>>

Scanned(which) == command = which /\ step = "scanning" /\ todo = {}

(* A commit of what can't become a File is refused, and one of no changes  *)
(* has nothing to do.  A symlink to a directory can be covered or not.      *)
Changes == {p \in covers : Held(found[p]) # record.bases[p]}

NothingToCommit ==
  /\ Scanned("commit")
  /\ Changes = {} \/ \E p \in covers : found[p] \in {Unfit, Linked}
  /\ Release
  /\ UNCHANGED <<store, folder, theirs, saved, record, feed, failing, ghosts, counts>>

CanCommit == Scanned("commit") /\ Changes # {} /\ \A p \in covers : found[p] # Unfit
ConflictsOfFiles == {p \in Changes : record.bases[p] # Absent /\ store[p] # record.bases[p]}
Conflicts == {p \in Changes : store[p] # record.bases[p]}

(* Each change requires the Store to hold its Base, or no File if it has    *)
(* none.  A Commit that gives Pending has happened, and its Paths are       *)
(* reconciled; so are those a Conflict names.                               *)
Commit(pending) ==
  /\ CanCommit /\ Conflicts = {}
  /\ store' = [p \in Paths |-> IF p \in Changes THEN Held(found[p]) ELSE store[p]]
  /\ Told(Changes)
  /\ mine' = mine \ {p \in Changes : Held(folder[p]) = store'[p]}
  /\ merged' = [p \in Paths |-> IF p \in Changes THEN merged[p] \cup File(store'[p]) ELSE merged[p]]
  /\ IF pending
     THEN /\ step' = "reconciling" /\ todo' = Changes
          /\ flags' = [flags EXCEPT !.result = "pending"]
          /\ UNCHANGED record
     ELSE /\ step' = "saving"
          /\ record' = [record EXCEPT !.bases = [p \in Paths |-> IF p \in Changes THEN store'[p] ELSE @[p]]]
          /\ UNCHANGED <<todo, flags>>
  /\ found' = NotFound
  /\ UNCHANGED <<folder, theirs, saved, syncing, resync, failing, command, covers, read, at,
                 unsettled, counts>>

CommitConflicts ==
  /\ CanCommit /\ Conflicts # {}
  /\ step' = "reconciling" /\ todo' = Conflicts
  /\ flags' = [flags EXCEPT !.result = "conflict"]
  /\ found' = NotFound
  /\ UNCHANGED <<store, folder, theirs, saved, record, feed, failing, command, covers, read, at,
                 ghosts, counts>>

(* `discard` chooses what differs from its Base, or is Diverged, then reads *)
(* the Store and the folder at each, and is refused if one is blocked.      *)
Choose ==
  /\ Scanned("discard")
  /\ step' = "choosing"
  /\ todo' = Changes \cup (covers \cap Diverged(record))
  /\ found' = NotFound
  /\ UNCHANGED <<store, folder, theirs, saved, record, feed, failing, command, covers, read, at,
                 flags, ghosts, counts>>

ReadBoth(p) ==
  /\ step = "choosing" /\ p \in todo
  /\ todo' = todo \ {p}
  /\ read' = [read EXCEPT ![p] = store[p]]
  /\ found' = [found EXCEPT ![p] = folder[p]]
  /\ UNCHANGED <<store, folder, theirs, saved, record, feed, failing, command, step, covers, at,
                 flags, ghosts, counts>>

InTheWay == \E p \in Paths : read[p] \in Contents /\ found[p] \in {Blocked, Linked}

DiscardRefused ==
  /\ step = "choosing" /\ todo = {} /\ InTheWay
  /\ Release
  /\ UNCHANGED <<store, folder, theirs, saved, record, feed, failing, ghosts, counts>>

Applies(p) == read[p] # Absent \/ found[p] \in Contents \cup {Unfit}

Discard(p) ==
  /\ step = "choosing" /\ todo = {} /\ ~InTheWay /\ read[p] # Unread
  /\ Applies(p) => CanApply(p, read[p])
  /\ folder' = IF Applies(p) THEN [folder EXCEPT ![p] = read[p]] ELSE folder
  /\ record' = WithBase(WithDivergence(record, p, Agreed), p, read[p])
  /\ read' = [read EXCEPT ![p] = Unread]
  /\ found' = [found EXCEPT ![p] = Absent]
  /\ mine' = mine \ {p}
  /\ merged' = [merged EXCEPT ![p] = @ \cup File(read[p])]
  /\ UNCHANGED <<store, theirs, saved, feed, failing, command, step, covers, todo, at, flags,
                 unsettled, counts>>

(* What was applied so far is recorded.                                    *)
DiscardFails(p) ==
  /\ step = "choosing" /\ todo = {} /\ ~InTheWay /\ read[p] # Unread /\ Applies(p)
  /\ Count("faults", MaxFaults)
  /\ step' = "saving"
  /\ flags' = [flags EXCEPT !.result = "failed"]
  /\ UNCHANGED <<store, folder, theirs, saved, record, feed, failing, command, covers, todo, read,
                 found, at, ghosts>>

(* `resolve` takes the version recorded for the theirs file as the Base.    *)
(* What the person merged is what that file holds.                          *)
Resolve(ps) ==
  /\ Free /\ ps # {} /\ ps \subseteq Diverged(record)
  /\ Count("commands", MaxCommands)
  /\ command' = "resolve" /\ step' = "saving"
  /\ record' = [bases |-> [p \in Paths |-> IF p \in ps THEN record.divergences[p] ELSE record.bases[p]],
                divergences |-> [p \in Paths |-> IF p \in ps THEN Agreed ELSE record.divergences[p]]]
  /\ mine' = mine \ {p \in ps : Held(folder[p]) = record.divergences[p]}
  /\ merged' = [p \in Paths |-> IF p \notin ps THEN merged[p]
                                ELSE merged[p] \cup File(theirs[p])
                                       \cup (IF p \in unsettled THEN File(record.divergences[p]) ELSE {})]
  /\ UNCHANGED <<store, folder, theirs, saved, feed, failing, covers, todo, read, found, at, flags,
                 unsettled>>

-----------------------------------------------------------------------------
Init ==
  /\ store \in [Paths -> Versions]
  /\ folder = store
  /\ theirs = [p \in Paths |-> Absent]
  /\ saved = [bases |-> store, divergences |-> [p \in Paths |-> Agreed]]
  /\ record = saved
  /\ syncing = FALSE /\ resync = FALSE /\ news = {} /\ failing = {}
  /\ command = "none" /\ step = "free"
  /\ covers = {} /\ todo = {} /\ read = NotRead
  /\ found = NotFound
  /\ at = Unread /\ flags = NoFlags
  /\ mine = {} /\ unsettled = {}
  /\ merged = [p \in Paths |-> File(store[p])]
  /\ counts = [what \in {"changes", "commands", "faults"} |-> 0]

Next ==
  \/ \E p \in Paths, v \in Locals : Edit(p, v)
  \/ \E p \in Paths, v \in Versions : TheyCommit(p, v)
  \/ StartSync \/ StopSync \/ LoseNews
  \/ ReconcileAll
  \/ \E batch \in SUBSET Paths : ReconcileBatch(batch)
  \/ \E p \in Paths : ReadStore(p) \/ Look(p)
  \/ Apply \/ SettleTheirs \/ SettleFails
  \/ \E failed \in SUBSET Paths : RemoveStaleTheirs(failed)
  \/ Save \/ Die
  \/ \E ps \in SUBSET Paths : BeginCommit(ps) \/ BeginDiscard(ps) \/ Resolve(ps)
  \/ \E p \in Paths : ScanFile(p)
  \/ NothingToCommit
  \/ \E pending \in BOOLEAN : Commit(pending)
  \/ CommitConflicts
  \/ Choose \/ DiscardRefused
  \/ \E p \in Paths : ReadBoth(p) \/ Discard(p) \/ DiscardFails(p)

Spec == Init /\ [][Next]_vars

-----------------------------------------------------------------------------
(* Every variable has a value of its kind, and the record the lock's holder *)
(* works on is the saved one while nobody holds the lock.                   *)
TypeOK ==
  /\ store \in [Paths -> Versions] /\ folder \in [Paths -> Locals] /\ theirs \in [Paths -> Versions]
  /\ saved \in Records /\ record \in Records
  /\ {syncing, resync} \subseteq BOOLEAN /\ (resync \/ news # {} \/ failing # {} => syncing)
  /\ command \in {"none", "sync", "commit", "discard", "resolve"}
  /\ step \in {"free", "reconciling", "applying", "settling", "clearing", "saving", "scanning", "choosing"}
  /\ Free <=> command = "none"
  /\ Free => record = saved
  /\ UNION {news, failing, covers, todo, mine, unsettled} \subseteq Paths
  /\ read \in [Paths -> Versions \cup {Unread}] /\ found \in [Paths -> Locals]
  /\ at \in Paths \cup {Unread} /\ (at # Unread <=> step \in {"applying", "settling"})
  /\ merged \in [Paths -> SUBSET Contents]

(* What the person put in the folder, and has neither committed nor agreed  *)
(* to throw away, only the person changes: no reconcile, Conflict, crash or *)
(* retry chooses to replace it.  Only what is edited after sync looked at   *)
(* the Path, in the moment before it replaces the file, can be overwritten. *)
Replaces(p) == step' = "applying" /\ at' = p /\ step # "applying"

EditsAreKept ==
  [][\A p \in mine :
       /\ ~Replaces(p)
       /\ folder'[p] # folder[p] =>
            \/ Edit(p, folder'[p])
            \/ command = "discard" /\ p \in covers
            \/ step = "applying" /\ at = p]_vars

(* While nobody works on it, a Diverged Path's theirs file holds the very   *)
(* version the record says, which `resolve` takes as the Base, and no other *)
(* Path has one, unless settling it failed or the record wasn't saved after.*)
TheirsAsRecorded ==
  Free => \A p \in Paths \ unsettled : theirs[p] = Theirs(saved, p)

(* Once `sync` says it is caught up, each Path's Base is what the Store     *)
(* holds, or the Path is Diverged from it, whatever commands ran meanwhile  *)
(* and wherever they died.                                                  *)
CaughtUp ==
  Free /\ syncing /\ ~resync /\ news = {} =>
    \A p \in Paths : store[p] \in {saved.bases[p], saved.divergences[p]}

(* A commit replaces only a version of the Store's that the person's file   *)
(* is made from: one it held, or one that was in the theirs file when the   *)
(* person said it was merged, unless that theirs file was never settled.    *)
ReplacedWasMerged ==
  [][\A p \in Paths :
       store'[p] # store[p] => TheyCommit(p, store'[p]) \/ File(store[p]) \subseteq merged[p]]_vars
=============================================================================
