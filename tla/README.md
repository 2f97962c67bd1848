# TLA+ specifications of tidings

tidings keeps small text files ("Files", each at a "Path") in a Store at a
Location, on one of three Backends: the filesystem, SQLite or memory. Files change only
through all-or-nothing Commits with Preconditions, and an app hears of every Change, its own
and others', on the Store's Change feed. The CLI keeps a folder (a Working copy) in step with
a Store.

These modules specify the parts of it that are hard to test: what a Commit does of what was staged, Commits on
a filesystem that can fail or lose power at any moment with reads beside them, the feed and the tasks behind it,
the SQLite change log that several processes read and prune, the watcher of a filesystem Location, how Locations
and Working copies come to be, and how a Working copy is kept in step. TLC checks each on a small
instance; TLAPS proves, for every instance, what matters most of what a Commit makes of what was staged, of filesystem Commits and reads, of the feed and the tasks behind it, of the
SQLite change log, of the watcher, of Locations and of the Working copy.

Paths below are relative to the repository. Where this text says "the code", it names what the
specifications were written from; nothing is specified from the docs alone.

## 1. Inventory

| Part | Code | State it keeps | Operations | Specified in |
|---|---|---|---|---|
| Store layer | `src/store.rs` | `commit_order` (a fair mutex), handles, background task | `commit`, following other Stores, supervising that task, dropping handles | `StoreFeed` |
| Change feed | `src/change.rs` | `Unread` (merged Changes, Resync, ended), `Notify` | record, resync, end, `next`, drop | `ChangeFeed` |
| Planning a Commit | `src/staging.rs`, `src/backend/mod.rs`, `src/precondition.rs` | the staged actions and Preconditions | stage, check Preconditions, expand deletes of Prefixes, leave out what changes nothing, refuse clashes | `Planning`, `Requests` |
| Filesystem Backend | `src/backend/fs.rs`, `src/backend/fs/journal.rs` | Files, temporary files, `.tidings/journal`, `.tidings/lock` | open, commit, recover, discard, finish, reads | `FsJournal`, `FsReads`, `Locations` |
| Filesystem watcher | `src/backend/fs/watch.rs` | `Reported`, watches, symlink chains, bursts | start, next burst, read, conclude, watch again | `Watcher` |
| SQLite Backend | `src/backend/sqlite.rs` | database, change log, `LogReader`, the file's identity | open, commit, read the log, prune, poll, make again | `SqliteLog`, `StoreFeed`, `Locations` |
| Memory Backend | `src/backend/memory.rs` | a map and an index of folds, under one mutex | commit, reads, Snapshots | `Planning` |
| Markers | `src/backend/marker.rs` | `.tidings/backend` | detect, claim, refuse nesting | `Locations` |
| Blocking API | `src/blocking.rs` | a runtime of its own | each async call, waited for | no (section 8) |
| Values | `path.rs`, `prefix.rs`, `revision.rs`, `file.rs`, `snapshot.rs`, `committed.rs`, `error.rs` | none | pure rules | `Planning` (partly) |
| Working copy | `cli/src/working_copy.rs` and `working_copy/` | the folder, the record (Bases and Divergences), `theirs` files, two locks | make, resume, sync, commit, discard, resolve, status | `WorkingCopy`, `Locations` |
| Shell and output | the rest of `cli/src/` | none | parse, choose a Store, run, print | `Locations` (`location.rs`) |

(`src/` and `cli/` stand for the crates of those names at the root of the repository.)

### How they interact

- The app calls `Store::commit`. The Store layer takes its turn (`commit_order`), has the Backend make
  the Commit, and records what it changed on the Change feed before it lets go of the turn.
- On SQLite, a poller sees that the database's `data_version` changed, takes the same turn, reads
  the change log from where its `LogReader` is, and records external Changes. A Commit reads the log too,
  in its own transaction, so that both are in the order they were made.
- On the filesystem, the watcher reads what events name *without* the turn, takes the turn, and
  compares it with `Reported`, which Commits update under the turn.
- Stores in different processes share only the disk: on the filesystem a lock file, the journal and the
  Files; on SQLite the database.
- Reads take no turn and no lock. On the filesystem they read the journal first and show a committed
  Commit as finished (`AsFinished`).
- A Store that opens claims its Location's marker, and claims it again when it finds the Location removed.
- `tidings sync` makes the Store and the Working copy's record, or resumes the one the record names.
- The Working copy reads the feed and the Store, and writes the folder, then its record.

### What is hard, and what makes each part correct

- **Filesystem Commits.** The journal, temporary files, deletes and renames are many steps; a process may
  die, a write fail, or the power be cut between any two. Reads must see a Commit whole or not at all, the
  answer given to the caller must stay true, and nothing may be left that nobody finds again.
- **Store layer and feed.** A Commit's future may be dropped, the background task may panic, the reader
  may be between finding nothing and waiting, the last handle may go while a Commit runs. Every Change
  must reach the app, with its true kind and Origin, and the feed must end only when nothing more comes.
- **SQLite log.** Other processes append and prune while this one isn't looking; clocks step back; the Location
  is removed and made again under an open connection; a transaction may be committed though it gave an error.
  Each Commit must be told once, in order, with its true Origin, or a Resync sent.
- **Watcher.** What it reads is old by the time it compares it. Everything others change must be told,
  and the Store's own Commits must not be told as external.
- **Markers and new Working copies.** Two Backends may claim one Location at once, two `sync`s may make one folder a
  Working copy, and each may die at any step or find the Location removed. A Location must be one Backend's, a
  record must name a Store that is there and never be replaced, and what a crash leaves must not be in the way.
- **Planning.** What calls on a Staging amount to, in any order, with others committing between them; and which Commits
  are refused. Names that some platform takes for one must never be in a Store together.
- **Reads on the filesystem.** A read is several steps with no lock; the journal it has read may be finished, removed or
  another Commit's before it reads the File.
- **Working copy.** The Store, the folder and the record are changed in three steps with no transaction
  around them, and people edit the folder meanwhile. No local edit may be lost, a commit may replace only what the person has
  seen, and the folder must catch up, wherever a command died.

`PROJECT.json` lists the hazards one by one, each at its line, with the properties that are there for it.

## 2. Modules

| Module | What it is |
|---|---|
| `Requests` | what a Commit requires and makes of each Path; shared |
| `AtomicStore` | abstract: what a Store promises of its Commits |
| `FsJournal` | a Commit on the filesystem, step by step, with faults; implements `AtomicStore` |
| `FsJournalProofs` | theorems about `FsJournal`: types, the lock, answers; then the journal and temporary files, whatever may go wrong |
| `FsAtomicProofs` | more of them: what reads are shown, power cuts, and that `FsJournal` implements `AtomicStore`; then `FsReads` |
| `FsReads` | a read of a File in steps, beside everything `FsJournal` does |
| `Planning` | Stagings, the rules every Backend plans a Commit by, and the memory Backend |
| `PlanningProofs` | theorems about `Planning` |
| `Locations` | claiming and making Locations and Working copies, by processes that race and die |
| `LocationsProofs` | theorems about `Locations` |
| `ChangeFeed` | `Unread`, `Notify` and the reader |
| `StoreFeed` | composes `ChangeFeed` with Commits, the task that follows others and dropping handles |
| `StoreFeedProofs` | theorems about `StoreFeed` |
| `SqliteLog` | Stores on one SQLite database and its change log |
| `SqliteLogProofs` | theorems about `SqliteLog` |
| `Watcher` | the watcher, the Store's own Commits and the platform's events |
| `WatcherProofs` | theorems about `Watcher` |
| `WorkingCopy` | `sync` and the commands on a folder, its record, its theirs files and a Store that others commit to |
| `WorkingCopyProofs` | theorems about `WorkingCopy` |
| `MC...` | instances of each for TLC |

### FsJournal

A *Path* is a model value. A *File* is its contents; its Revision, a SHA-256, is taken to be
injective, so a Revision equals the contents. `cached` is what programs see of each Path (the File and each
Commit's temporary file), `stable` what a power cut would leave; steps copy one to
the other where the code calls `sync_all` or `sync_directory`. `journal` and
`stableJournal` are the same for `.tidings/journal`. `holder` is the lock file's owner; `task[s]` is where
Store `s` is in `Location::commit` or `FsBackend::open`: `locked` (recovering), `ready` (planning),
`preparing` (writing the journal as prepared), `writing` (temporary files), then `finishing` or `discarding`.
`asked`, `answered` and `happened` are history.

Each fault the code handles is an action that needs its name in `Faults`: `process`, `power`,
`write`, `rename`, `journalWrite` (the journal isn't replaced), `journalSync` (it is, but the call fails),
`journalRead`, `external` (another program edits a File). The runs choose.

Simplifications: the directory entry of a temporary file is persisted by its `sync_all` (as it is on the
filesystems tidings supports; the code forces the directories later anyway); renaming the journal into place and forcing its
directory to disk is one step but for `journalSync`; after a power cut each Path has its old or its
new state, chosen Path by Path; `finish` checks and deletes a File in one step; the deletes and renames are made in any
order where the code has one, which only adds behaviour. Directories are only named (`Directory`), to be forced to disk.

### FsReads

Extends `FsJournal` with one read at a time: `StartRead` reads the journal and keeps what it says of the Path (`AsFinished::of`),
`ReadTemporary` or `NoTemporary` looks for the temporary file, `ReadFile` reads the File and compares it with the Revision
the journal deletes (`AsFinished::read`). Stores commit, recover, finish and die between any two of these (`Observe`). `seen` is what the Path had since
the read began. This is what justifies `FsJournal`'s `View`, in which a read is one step. Other programs' edits are left out: one that puts back, in the middle of a
read, the very contents a Commit deleted would be given as absent, which it was not.

### Planning

A Path is the sequence of its segments and a Prefix that of its own, so that what a Prefix covers, the names of a Path and their folds
are operators on sequences; `Fold` and `Rank` stand for the Unicode folding and the order of strings. `staged` is each task's `Staged`, with its four fields as in the code, and
`taken` the Prefix Revision a task holds, which it may have taken for another Prefix or from another Store (`Elsewhere`). `Write`, `Delete`, `DeletePrefix`, `Require`,
`RequirePrefix` and `StatPrefix` are the calls. `Conflicts`, `Expanded`, `Effective` and `Refused` are the four steps of `CommitRequest::plan`
in their order; `Commit`, `RefuseConflict`, `RefuseClash` and `RefuseWrongPrefixRevision` are how a Commit ends. `files` and
`folds` are the memory Backend's `Held`; `FoldsAfter` is what its Commit leaves in the index, worked out for each fold from the last of the changes, in order
of Path, that touch it. Which of its two reasons a clash is refused for is left out.

The properties don't go through any of these operators. `said` is the log of calls; `Meant`, `Failing` and `RequiresElsewhere` say what
a log of calls means, last call first, and `MadeAsStaged` and `RefusedForAReason` compare what a Commit did with that.
`Asked` puts it as a request of `Requests`, which is what `FsJournal` and `AtomicStore` take: `MadeAsAsked` says that what is planned at a Commit's
turn, on whatever Files there are by then, is that one request, so that nothing is lost by taking a Commit there as a request known before its turn.

### Locations

`tidings`, `marker` and `removals` are the Location: whether `.tidings/` is there, what the marker holds (`"empty"` once made and not written), and which of the Locations that
were there in turn it is. `folder`, `record` and `syncing` are the folder that becomes a Working copy. `pc` says where each process is:
`marker::claim` is `Detect`, `MakeDirectory`, `MakeMarker` and `WriteMarker`, or `MarkerExists` and `ReadMarker`, with an empty marker read again after
a while (`WaitForMarker`, `EmptyMarker`); then `Open`. An open Store of the filesystem claims the Location again when it is missing, one of SQLite when its
database is another (`ClaimAgain`). Each Commit of the former opens the lock file that is there, whoever made that Location (`LockAgain`). `tidings sync` is `StartSync`, then either `TakeSyncLock`, `MatchFlags` and `FindStore`, or `Address`, `CheckFolder`, `TakeSyncLock`,
`CheckFolder` again, the claim, `LockRecord`, `SaveIgnore` and `SaveRecord` with their renames. `Stop` ends a process at any step. `made`, `claimed` and `within` say which Location a
process made its marker in, claimed, and has its lock or database in; a file that is open when the Location is removed goes on belonging to that one.

### ChangeFeed and StoreFeed

`unread` is `Unread` with its merged Changes, the Resync and both ends' being dropped; `permit` and the
reader's states are `tokio::sync::Notify` with one waiter, permits included. `StoreFeed` adds `turn`, the FIFO
queue of `commit_order`; one `step` for each Commit, for the Follower (`follow_other_stores`), its
Supervisor and `Inner::drop`; `telling`, what each of them has still to record; and the other Stores' log, `newer` (the
`data_version` not yet noticed), `failures` and `failing`. `ours` and `foreign` are the Paths changed since
the app last read them, by this Store and by others. One Path is enough: merging, Kinds and Origins are per
Path, and nothing in either module compares two of them. A Backend that panics after it applied a Commit isn't modelled.

### SqliteLog

`databases` is every database there ever was at the Location, `place` the one there now (0 if removed). A `LogReader` is as in
the code: which database, `seen`, `missed`, the Store's id. A transaction is one step, since SQLite makes it so, but what
surrounds it isn't: opening is `Open`, `Connect`, `Register`, `Identify`; a call is `Begin` (which checks the
file's identity), the transaction, and `Leave`. `RemoveLocation` may come between any two. `CommitLost` is a transaction that is committed
though SQLite gave an error. Time is chosen at each Commit, so clocks step back; `Retention` decides what is
pruned. `untold` is what a Store has to be told of, `heard` what it was.

### Watcher

`disk` is the Files as reads through tidings see them. Every Path is in one directory, `Dir`, which can be moved away and in with
its Files: then `Dir`'s event is the only one. `events` are names the debouncer has settled but the watcher hasn't taken; `step`, `names`, `toRead`,
`seen` and `listed` are one look at a burst (`Watched::read`), with each File read in a step of its own;
`noted` is `changed_while_reading`; `reported` is `Reported::files`, with `Unknown` for a File whose Revision isn't known.
A Commit is two steps, on disk and reported, and holds the turn between them; `CatchUp`, `Replace` and `Forget` (the ends
of `Watched::conclude`) need the turn. `app` is what the app last read of each Path; it reads as soon as it is told.
`theirs`, `edited` and `forgotten` are history.

Not modelled: symlink chains and watches outside the Location, nested Locations, other
tidings processes' Commits in the journal (to the watcher they are edits, made by rename), and how long anything takes: a
burst is any set of names, so every outcome of the debouncer's timing is included, but for a look taking names
in the middle of a Commit of another process.

### WorkingCopy

`store`, `folder`, `theirs` and `saved` are what lasts: the Store's Files, the files in the folder, `.tidings/theirs/` and the record. All
that a command does, it does holding `.tidings/lock`, so there is one `command` with its `step`, and `record` is the record in its memory; `todo`, `read`,
`found`, `at` and `flags` are its local variables. `syncing`, `resync`, `news` and `failing` are the running `sync`: whether
a reconcile of every Path is due, the Changes on its feed, and `theirs_failures`.

`ReconcileAll` and `ReconcileBatch` take the lock; `ReadStore` reads the Store at each Path; `Look` is `reconcile_path`, whose
cases are `AsBase`, `Same`, `Applicable` and none of them (Diverged); `Apply` replaces or removes the file in a step of its own; `SettleTheirs` and
`SettleFails` bring the theirs file in line; `RemoveStaleTheirs` and `Save` end it. `commit` is `BeginCommit`, `ScanFile` at each Path,
`Commit` (with or without `Pending`) or `CommitConflicts`, then the same reconcile of the Paths concerned, and `Save`, which starts it over when `Again`.
`discard` is `BeginDiscard`, `ScanFile`, `Choose`, `ReadBoth`, `Discard`; `resolve` is `Resolve`. `Die` is a crash, or
any failure that ends a command, at any step: memory is lost, and what is on disk stays. The person (`Edit`) and
others (`TheyCommit`) act at any moment, also between `Look` and `Apply`.

A file in the folder is its contents, or an obstacle: `Blocked` (a directory in its place, or a file where its directory should be), `Linked`
(under a symlink) or `Unfit` (not text, or a symlink). A Base, a Divergence and a Revision are contents, as Revisions and the record's hashes are
hashes of them.

`mine`, `unsettled` and `merged` are history: where the folder holds what only the person has, which theirs files a crash or a failure left as
they happened to be, and which versions of the Store's each file is made from.

Making a Working copy and `sync.lock` are in `Locations`; here `StartSync` is enabled when no `sync` runs, which is what that lock is for. Not modelled: directories that
hold several Paths (a Path becomes blocked by an edit, never by another Path), the ignore file (an ignored file is one a command
doesn't cover), merging inside a theirs file, and `status`, which changes nothing.

## 3. Runs

| Run | Instance | Shows |
|---|---|---|
| `FsCrash` | 2 Stores, 2 Commits, 2 Paths in 2 directories, 2 contents, 4 requests, 1 retry; processes die, writes, renames and the journal fail, but it can be read back | `AtomicStore` is implemented; a committed Commit's Files are whole; no temporary file the journal doesn't name; answers stay true; Ok means finished |
| `FsPowerCut` | the same with a read step by step, power cuts, failing writes, journal writes and journal reads | reads after a power cut give what they gave before; a read gives what the Path had at some moment of it, and listing agrees with reading |
| `FsEdits` | 1 Store, 1 Commit, 4 requests, 2 retries; other programs edit, renames fail, the journal can't be forced to disk or read, the power is cut; fairness | finishing and discarding change nothing reads give, but where an edit meets a delete (`MeetsADelete`); the lock is given back |
| `FsUnsynced` | 1 Store, 1 Commit, 1 retry, a rename fails, then the power is cut | *violation*, see section 5 |
| `Planning` | 3 Paths (a File, one under its name, one that clashes with both in letter case), 2 Prefixes, 2 contents, 2 tasks, 3 calls, 2 Commits | a Commit makes what its calls say last, or is refused for what fails; it is the one request its calls ask for; names never clash |
| `LetterCase` | 2 Paths that differ in letter case, otherwise the same | *violation*, see section 5 |
| `Locations` | 1 app, 2 `sync`s, 2 Backends, 1 removal, an empty marker read once more | a Location is one Backend's; a record is saved once, for a Store that is there; a folder can be made a Working copy after a crash |
| `StoreFeed` | 2 Commits, 2 of others, 1 failure to read the log, all faults | what is on its way, true Kinds, no lost wake-up, the end is the end |
| `StoreFeedLive` | 2 Commits that write, 1 of another's, 1 failure; fairness | what is changed is told and read, but what is `Forgotten` after a second failure, Commits get their turn, the feed ends |
| `SqliteLog` | 2 Stores, 3 Commits, 2 times, retention 0, 1 removal | nothing is lost, all is heard once in order with its Origin, no removed database is used, no needless Resync |
| `Watcher` | 2 Paths, 2 contents, 2 edits, 1 Commit, 1 loss or removal, 1 error | all is reported once settled, and each File is as it was reported or the app read it; own Commits aren't external; the watcher rests only when settled |
| `WorkingCopy` | 2 Paths, 2 contents, 2 obstacles, 3 changes by the person or others, 2 commands and `sync`, 1 fault | local edits stay; theirs files are what the record says; `sync` catches up; a commit replaces only what was merged |

Each property has a mutant in `PROJECT.json`: a plausible bug in one definition that makes the property fail in the same
run. Mutated forms stand just before the definitions they replace, and are used nowhere else. `TypeOK` of `FsJournal`, `Planning` and
`Locations`, and `OneAtATime`, are proved (section 4), and so are in no run.

### Bounds, and why they are enough

- Two Stores: every rule about others is about one other (who holds the lock, whose Commit is left). Two
  Commits: one is left behind, one finds it. The second can be left behind and be found by an `open`.
- Two Paths in two directories: enough for half a Commit, for a directory forced to disk and one not. The four requests write both,
  move, delete both, and require what they replace, so every pair of what a Commit does to two Paths in this code
  happens but writing one and leaving one alone, which is part of `ReplaceIfNew`.
- `Retries` is 1 or 2 where the code has 3 (`RETRY_DELAYS`): the loop's body doesn't depend on the number.
- The read of `FsReads` is of one Path at a time, with two Commits to be made and finished between its steps: one whose journal it
  read, and one that replaces what it left.
- Three calls and two Commits for `Planning`: an action replaced by a delete of its Prefix and one staged after it, or two Preconditions and a
  write, on either side of another task's Commit. Two Paths that differ in letter case only are kept out of this instance, because of what
  `LetterCase` shows; the third Path clashes with the others by its Prefix. The Files there at first are none, the File, or the one under its name.
- One removal of the Location, so there are two in turn; an empty marker is read once more where the code has four delays, and the loop's body doesn't depend
  on the number. Two `sync`s race for the record, and an app with either for the marker.
- Three SQLite Commits: one read, one pruned unread and one after. Two times: before and after.
- Two edits and a Commit for the watcher: one edit the watcher sees and one behind its back, with a Commit of the same or the
  other Path in between.
- Three changes for the Working copy, by the person and others in any mix: enough for a Conflict over one of two local changes, a Divergence
  whose theirs changes, and a Store that changes and comes back. Two commands and any number of `sync`s: a `resolve` and the commit after it, or a
  commit that died and the one that finds out. The run has the obstacles `Blocked` and `Linked`; an `Unfit` file is like any file that
  equals no version, but that it can't be committed.
- Symmetry is used only in runs with no liveness property, over sets whose values the specifications never
  order or name.
- `CHECK_DEADLOCK FALSE` where a system that has done all its bounded work may stop (`StoreFeed`, `Watcher`, `WorkingCopy`, `Planning`).

### Fairness

`FsJournal!FairSpec`: a Store that holds the lock goes on working, weakly fair; nothing makes a caller call, a process die or a
call fail. `Location::finish` gives up after its retries, which is what makes `LockIsGivenBack` true with renames that fail for ever.
`StoreFeed!FairSpec`: each task of the runtime goes on when it can (tokio polls what is woken), `commit_order` is FIFO so
weak fairness is enough for a turn, and the app calls `next` again and again and reads what it is told of. Reading the log may fail, but only
`MaxFailures` times: with a log that can never be read, nothing could be told. After a second failure the code may tell nothing until the next Commit (section 5, 3), which
`ChangesAreTold` names as its exception, `Forgotten`; it holds, with it, in `StoreFeedLive.cfg` with `MaxFailures = 2`, `MaxTheirs = 2` and `Commits = {}` too.
`Watcher` states no fairness: `RestsWhenSettled` says that the watcher and a Commit under way are never both stuck while anything is left
to look at. As everything that gives them work is bounded, and each of their steps uses some up, they come to rest.

## 4. Proofs

`FsJournalProofs` proves, for any sets of Stores, Paths, contents, Commits and directories, any requests, any number of
retries and any faults:

- `Inductive`: `Spec => []IInv`
- `TypeCorrect`: `Spec => []TypeOK`
- `Exclusive`: `Spec => []OneAtATime`
- `Happened`: `Spec => []SuccessesAreTrue`
- `Truthful`: `Spec => []AnswersAreTrue`, if `ReadsBack`

from the assumptions `RequestsAssumption` and `JournalAssumption` (the special values differ from the others, and
requests, faults, retries and directories are of their kinds), which TLC evaluates in every run. `ReadsBack` is the one condition on faults: a journal that was renamed into
place but couldn't be forced to disk can be read back. Without it an error isn't true of the code (section 5, 6); Ok and Pending still are.

`AnswersAreTrue` isn't inductive: it says that what failed doesn't happen later, which needs to know that nobody
else can make that Commit happen. `IInv` adds:

- `OwnCommits`: a Commit belongs to one call, which alone will answer it;
- `NothingBefore`: before its call has begun to write, nothing of a Commit is on disk;
- `OwnSteps` (`KnowsItsCommit`): a Store that writes, discards or finishes knows which Commit that is and how far it
  is: a Commit its own Store discards has not happened, and one that is being finished has;
- `HappenedIsWhole`: a committed journal, on disk or as a power cut would leave it, is one of a Commit that has
  happened, and no temporary file of such a Commit is partly written;
- `AnsweredRightly`: what `Happened` and `Truthful` say, the second for as long as `ReadsBack`.

`HappenedIsWhole` is what a power cut needs: it may bring an old journal back, but not a committed one that was
never committed. The proof first shows
what a step of a Store's work keeps (`WorkType`) and the little it can change (`WorkTask`, `WorkDisk`, `WorkHappened`,
`WorkAnswers`); from these, one lemma per conjunct shows that work keeps it (`WorkOwnSteps` and so on), and one lemma for each
kind of other step (`CallStep`, `OpenLockCrashStep`, `PowerCutStep`, `EditStep`) that it keeps them all.

Its second part goes on from there, for any faults:

- `JournalInductive`: `Spec => [](IInv /\ JInv)`
- `NothingScattered`: `Spec => []NoScatteredTemporaries`, and `FinishedIfOk`: `Spec => []OkIsFinished`, unless `"power" \in Faults`
- `WorkIsUnseen`: `Spec => FinishingShowsNothing`

`JInv` adds what a Store knows of the journal: that it is of a Commit that was asked for (`JournalsAgree`), that while the Store has the lock it is
as that Store's last step left it, and that what the Store has done of it is done (`KnowsItsJournal`). The condition is where the code promises no more:
a power cut brings back temporary files that were renamed, or a journal that was removed, and the directory entries of the
rest are only forced to disk when a Commit is finished. `WorkIsUnseen` has no condition: `FinishingShowsNothing` itself names, Path by Path, where another program's edit
meets a delete (`MeetsADelete`, section 5).

`FsAtomicProofs` proves, under `Gentle`:

- `AtomicInductive`: `Spec => [](IInv /\ JInv /\ GInv)`
- `NothingLost`: `Spec => []CommittedIsWhole`
- `PowerCutsShowNothing`: `Spec => []SurvivesPowerCut`, with `"power" \in Faults`
- `FinishingIsUnseen`: `Spec => OnlyCommitsShow`, which is `FinishingShowsNothing` of every Path, with no exception
- `Atomicity`: `Spec => ImplementsAtomicStore`
- `ReadInductive`: `ReadSpec => []RInv`, and `ReadsTellTheTruth`: `ReadSpec => []ReadsAreTrue`

`Gentle` says which faults a Commit is atomic under: other programs leave the Files alone, and a power cut doesn't follow a failure after which a
directory or the journal isn't forced to disk (a rename that fails, a process that dies part way, a journal renamed but not synced). The first is
documented by the repository; the second is what `FsUnsynced` shows. Processes may die and anything may fail where the power isn't cut, and writes and
the journal's may fail where it is. `GInv` says what is on disk, now and as a power cut would leave it (`JournalsLeft`, `Left`):

- `ShowsTheSame`: each of these shows what reads give now, Path by Path;
- `Forced`, `NotYetThere`, `AllWhole`: a journal is forced to disk before anything is done by it, is of a Commit that has begun, and while it is committed each File
  it writes is whole in its temporary file or in place;
- `HoldsToItsPlan`: what a Commit planned from still holds while it is prepared and written, as the lock keeps others out;
- `KnowsWhatIsDone`: what is done of a Commit being finished is on disk, or in a directory that will be forced there;
- `LeftAsForced`: a committed journal nobody works on has not been begun to finish since the last power cut.

`Atomicity` is a refinement: the initial states map to initial states, a Commit's moment (`happened` grows) to `AtomicStore`'s Commit, where its Preconditions hold of
what is shown, and every other step to an answer, a call or a stutter. `FsReads` adds to it that a
read of a Path that the journal deletes gives nothing (`Gone`) and that what it learned from the journal stays true of what the Path has had since (`KnowsWhatItReads`).

`StoreFeedProofs` proves, for any Paths, requests, Commits, others' Commits and failures:

- `FeedInductive`: `Spec => []IInv`
- `TypeCorrect`: `Spec => []TypeOK`
- `NobodySleepsOn`: `Spec => []NoLostWakeUp`
- `EndsAtTheEnd`: `Spec => []EndIsTheEnd`
- `NothingUntold`: `Spec => []OnTheirWay`
- `KindsAreTrue`: `Spec => []KindIsLatest`

from `StoreAssumption` alone. None of the last four is inductive. `IInv` adds:

- `Places`: who works has the turn, who doesn't tell has nothing to tell;
- `Closing`: only `Inner::drop` ends the feed, when nobody holds a handle, and only who has the turn tells Changes;
- `Covering`: a Resync stands for all that is unread, and `next` is called when all has been read again;
- `Awake`: a reader that found nothing will find what there is, by a permit or by who is about to wake it, also while it is between looking and waiting;
- `OursComing`: what this Store changed is on its way by its own Commits alone. What the Follower has to tell doesn't count: the feed may be ended
  before it tells it;
- `ForeignComing`: what others changed is in the log or on its way as theirs;
- `LogIsRight`, `TellingIsRight`: the last that the log, or who is telling, says of a Path is true, if nothing says more of it. That one teller at a time has
  Changes to tell, because of the turn, makes `KindIsLatest` follow.

`DataSteps` and `FeedSteps` say once what a step may change of each part; then there is one lemma for each conjunct.

`SqliteLogProofs` proves, for any Stores, times, retention, Commits and removals, unless `RemovedWhileOpening`:

- `SqliteInductive`: `Spec => []SInv`
- `TypeCorrect`: `Spec => []TypeOK`
- `NoCommitIsLost`: `Spec => []NothingIsLost`
- `ToldOnceInOrder`: `Spec => []HeardOnceInOrder`
- `OriginsAreTrue`: `Spec => []OriginIsTrue`
- `DoneToTheDatabaseThere`: `Spec => []OnTheDatabaseThere`
- `NoNeedlessResync`: `Spec => MissedOnlyIfSo`

`~RemovedWhileOpening` says that no Location is removed between a connection's opening the database and its noting which file that is; with it,
`OnTheDatabaseThere` is false of the code (section 5, 4). `SInv` is these invariants and:

- `LastIsThere`, `KnowsItsPlace`: which databases a Store has open at each step, and that it opens one again only if another is there;
- `OwnNumbers`, `LogIsTrue`: a number on a database is one Store's, on all the connections it has, so the log says whose each Commit is;
- `HeardAll`, `Follows`: a Store has been told of what it read, and what comes after that in the log is its own or it is to be told of it.

A step that finds the log pruned needs the first Commit that is missing, and `TypeOK`'s bounds the last that was read: both are least or greatest elements of a set of
numbers, which the proofs take from the library's well-founded induction (`WFMin`), as they can't use induction itself.

`LocationsProofs` proves, for any numbers of apps and `sync`s, of removals of the Location and of readings of an empty
marker:

- `Invariance`: `Spec => []IInv`
- `TypeCorrect`: `Spec => []TypeOK`
- `LocationIsOneBackends`: `Spec => []OneBackend`
- `MakingCanBeginAgain`: `Spec => []CanBeMadeAgain`
- `RecordIsKept`: `Spec => RecordStays`

from `LocationsAssumption` (the bounds are numbers, and `Nothing` differs from the values it stands in for). `OneBackend` isn't inductive:
a process that writes the marker it made would break it if another had claimed that Location meanwhile. `IInv` adds:

- `KnowsBackend`: a process past choosing a Backend knows which;
- `KeepsClaim`: a claim is of a Location there was, and is given up before the next;
- `WritesOwnMarker`: a marker that was made and not written is one process's to write, and nobody has claimed its Location;
- `FindsMarker`: until the Location is removed, nobody takes a missing marker for theirs;
- `OneMakes`: past the early steps, a `sync` that makes the Working copy holds `sync.lock`, and there is no record till it saves one.

There is a lemma for each action that does more than end its process, with a step for each conjunct; `EndedStep` serves all the others.
`RecordStays` follows from the last two and `OneBackend` at the one step that changes the record (`RenamesRecord`, `OtherStepsKeepRecord`).

`WorkingCopyProofs` proves, for any Paths and contents, any obstacles in the folder, and any numbers of edits, others' Commits, commands and failures:

- `WorkingCopyInductive`: `Spec => []IInv`
- `TypeCorrect`: `Spec => []TypeOK`
- `TheirsAreAsRecorded`: `Spec => []TheirsAsRecorded`
- `SyncCatchesUp`: `Spec => []CaughtUp`
- `NoEditIsReplaced`: `Spec => EditsAreKept`
- `OnlyMergedIsReplaced`: `Spec => ReplacedWasMerged`

from `WorkingCopyAssumption` (the bounds are numbers, and what stands for no File, an obstacle and so on differ). The two invariants speak of a Working copy
nobody works on; `IInv` says what holds on the way there:

- `KnowsWhatItDoes`: which command can be at which step, and what it has read and is yet to read there;
- `KeepsToWhatItCovers`: a discard reads only what it covers, and a commit never replaces the Base of a Path that is Diverged. That one is subtle: a commit starts over
  after a Conflict only if no Path became Diverged by reconciling it (`flags.quiet`);
- `SavedFirst`: the record in memory is the saved one until a command changes something;
- `TheirsFollow`: `TheirsAsRecorded` at each step, but for the theirs file being settled, and those a discard or a resolve removes at its end;
- `UpToDate`, `NoNewsBefore`: each Path that isn't news to `sync` has the Store's version as its Base or Divergence, or `sync` has it in hand. What another command has saved follows the
  Store too, wherever it dies; the record of a `sync` that dies needn't, but the next one starts with every Path;
- `MineDiffers`: what only the person has isn't the Base, in memory or saved, so `Applicable` is false of it. This is why a reconcile leaves it;
- `BasesAreMerged`: each Base, in memory or saved, is a version the person's file is made from. `resolve` keeps that because of `TheirsFollow`.

What each step that records something does is said once (`LookIs`, `ApplyIs`, `CommitIs`, `DiscardIs`, `ResolveIs`, with `Recording` and `Follows`), then there is one lemma for each
conjunct (`StillKnows` to `StillMerged`), with a step for each action.

`WatcherProofs` proves, for any Paths and contents, and any numbers of edits, Commits, losses and errors:

- `WatcherInductive`: `Spec => []IInv`
- `TypeCorrect`: `Spec => []TypeOK`
- `OwnStaysOwn`: `Spec => OwnCommitsAreNotTheirs`
- `SettledIsTold`: `Spec => []SettledIsReported`, if `~Swaps`

from `WatcherAssumption` (the bounds are numbers, and what stands for no File, an unknown Revision and what wasn't seen are no contents). The condition is finding 5 in the next section:
with `Swaps` it is false. `SettledIsReported` is about a moment at which nothing is left to do; `IInv` says, of each Path at every moment, why it will hold by then:

- `NothingIsMissed`: the Path is as it was reported, or an event or a loss of track will have it looked at, or a Commit that changed it is yet to be reported, or the burst being
  read has it still to read, will read it again, or has read what is there. An event for the directory is enough only if the directory was found empty, or the Path was never
  reported: under a directory, what is reported isn't read (`FoundInDir`, `Skipped`);
- `SeenIsRight`: what was read is what is there now, or another event tells, or a Commit changed it since, which is noted or will be (`noted`). This is why the watcher may read without the turn;
- `CommitIsSeen`: a Commit on disk is either reported before the watcher takes the turn, or has events of its own. Taking it as reported can't hide what came after it;
- `OwnIsKnown`: of a Path only the Store's Commits change, what is reported is what is there, and what was read of it is right or will be read again;
- `ForgottenIsUnreported`, `KnowsWhatItReads`: what an error cleared, and what a burst covers.

`SeenIsRight` and `NothingIsMissed` hold under `~Swaps`, the others always. `StepsAreSeen` reduces every action to one of eight kinds of step (`IStep`: others change Files or
events are lost, a Commit is on disk, it is reported, a listing or a burst begins, a File is read, a listing fails, the watcher concludes); `CatchUpIs` and `ReplaceIs` say what concluding makes
of each Path. Then one lemma for each conjunct has a step for each kind.

`PlanningProofs` proves, for any Paths, Prefixes, folds, contents and tasks, and any numbers of calls and Commits:

- `PlanningInductive`: `Spec => []IInv`
- `TypeCorrect`: `Spec => []TypeOK`
- `CommitsAsStaged`: `Spec => MadeAsStaged`
- `CommitsAsAsked`: `Spec => MadeAsAsked`
- `RefusedRightly`: `Spec => RefusedForAReason`
- `NamesNeverClash`: `Spec /\ [][NoRenames]_vars => []NothingClashes`

from `PlanningAssumption`: the bounds are numbers, what stands for no File, nothing staged, nothing required or no Path differs from what it stands in for, a Path is one or more
segments, each of which has a fold, and of two Paths one comes before the other, as of strings. `MadeAsStaged` and `RefusedForAReason` compare what a Commit does
with the calls made on its Staging, told in another way (`Meant`, `Failing`), so `IInv` says what ties the two together:

- `AsSaid`: a Path's action is what the last call that speaks of it makes. A delete of a Prefix leaves no action but the Prefix, of which the Path is `Dropped`; a
  write after it stages the action again, and the action wins. Preconditions are exactly those ever stated;
- `RevisionsAreUnder`: a Prefix Revision, held or required, has no Files from outside its Prefix, so that its differences are all under it;
- `Indexed`: what the index has under a fold is a File that is there and folds so. This is all that is always true of it, and enough for a Commit to be refused only for a real clash.

That a Commit's effective actions make of the Files what its calls meant is `MadeIsMeant`; `ConflictsAreFailing` and `WrongIsElsewhere` do the same for its refusals.
`MadeAsAsked` follows from these: what the calls mean of a Path, and whether what they require of it holds, is the same worked out on any Files, so
it can be said before there are any; only Preconditions that contradict one another (`Contradicts`) can't be put as one request, and such a Commit always gives a Conflict.
`NothingClashes` needs the index to be complete as well, and it is only while no Commit renames a File in letter case to a name that comes before (`NoRenames`, of
`RenamedBefore`): that Commit is finding 2 in the next section. `NothingNewClashes` shows that a Commit that isn't refused leaves no clash where the index is complete,
and `FoldsStayWhole` that the index stays complete.

Only model-checked: what the theorems' conditions leave out (`NoScatteredTemporaries`
under power cuts is not claimed at all), and all liveness (`LockIsGivenBack`, `ChangesAreTold`, `CommitsAnswer`, `FeedEnds`), which TLAPS can't do; nor can it do
`ENABLED`, on which `RestsWhenSettled` rests, or induction over data. `Meant` is therefore told by the last call that speaks of a Path and not by making the calls one by one.

## 5. Where the code and its own words differ

Two are runs that TLC finds violated; `PROJECT.json` quotes the lines.

1. **A directory is never forced to disk** (`FsUnsynced`). Finishing remembers the directories it changed for one try only. When a try
   fails part way and the next one succeeds, what the first did is skipped and its directory never forced to disk, but the journal is removed
   and Ok given. A power cut can then undo part of the Commit.
2. **Two Files differ in letter case only** (`LetterCase`). A Commit on the memory Backend that renames `a` to `A` writes `A` first, as changes are made in order
   of Path, which takes the entry of their fold in the index; removing `a` then clears that entry. The next Commit that writes `a` finds nothing like it, and both
   are there, though memory.rs:31-32 says that no two Paths fold the same. (`a` comes after `A`; renaming `A` to `a` goes well.)

Four more have no run of their own; each shows when an instance is changed as said here.

3. **A Commit of another Store isn't told.** The poller takes the new `data_version` before it reads the log (sqlite.rs:447). If reading
   fails twice in a row, the second failure sends no Resync, and nothing has the log read again until the next Commit, though store.rs:456 says that a Resync is sent
   "once until it can be read again". `ChangesAreTold` names this (`Forgotten`), and fails without it in `StoreFeedLive.cfg` with `MaxFailures = 2`, `MaxTheirs = 2` and `Commits = {}`.
4. **A removed database is used.** A connection notes which file the database is only after it is open
   and set up, from the path (sqlite.rs:523, though sqlite.rs:190-191 says "when the connection opened it"). If the Location was removed in between, the check before each call
   compares the wrong file, and finds all well. `OnTheDatabaseThere` fails with the constants given in `SqliteLog.cfg` but `RemovedWhileOpening = TRUE`.
5. **A directory put in the place of another isn't noticed.** Files under a directory that were reported aren't read, as "its own
   events say if it changed" (watch.rs:970-971), but a directory moved in gives no events for its Files. `SettledIsReported` fails
   in `Watcher.cfg` with `Swaps = TRUE`: the app keeps what it read of the first directory's Files.
6. **An error for a Commit that happens.** If the journal is renamed into place as committed but can't be forced to disk, and can't be read back either, `commit_journal`
   gives the caller the error of a Commit that failed (fs.rs:767-769), although the Commit has happened: reads show it at once, and the next Commit or `open` finishes it. But
   store.rs:327 says that "Nothing is written if the Commit fails", and fs.rs:62-63 that if any step before 5 fails "the Commit is discarded, and nothing was written". (The comment
   at fs.rs:748-749 says that the next Commit or `open` does whichever the journal says, not what the caller is to think.) `AnswersAreTrue` fails in `FsCrash.cfg` with
   `"journalRead"` added to `Faults`, and `Truthful` is proved without that (`ReadsBack`). The specification has the step (`CommitJournalUnreadable`), in `FsPowerCut` and `FsEdits`.

And one of markers, which `Locations` has as a step (`LockAgain`) and no property rules out, as `OneBackend` is about the Location a Store claimed: `lock_file` (fs.rs:478-480) says it "Gives `Error::WrongBackend` if a
Store on the other Backend has marked it since", but it looks at the marker only if `.tidings/` is missing. If the Location is removed and made again by a Store of SQLite before
an open Store of the filesystem commits, that one commits into it, beside the database. The same goes for a Location removed and made again between a
Store's claim and its opening the lock file or database.

Three of the Working copy have no run of their own, but the specification has the steps, and each is a hazard without a property or an exception a property names:
an edit saved between `reconcile_path`'s reading the file and `apply`'s rename is overwritten, though the repository's `README.md:106` says that syncing never overwrites
a local edit (the last case of `EditsAreKept`); a theirs file rewritten by a `sync` that died before saving the record isn't what `resolve` takes
as the Base, so a commit can replace a version nobody merged (`unsettled` in `ReplacedWasMerged`); and a commit that gives `Pending` can make a Path
Diverged although no other Commit landed in between, as `working_copy.rs:137` says it would have to, if the person saves the file again meanwhile.

Known and documented by the repository, so no run of its own: another program's edit that lands between a Commit's plan and its first try
of finishing can be lost (`README.md` of the repository says so). Where the Commit deletes the File, reads show this before the loss: its first try deletes whatever is
there (journal.rs:294), although `AsFinished` shows the other program's File until then, and journal.rs:98-99 and ADR 0005 (lines 100-101) say that finishing deletes only the one
the Commit deletes. And if another program writes the deleted File again as it was, before the journal is removed, reads don't show it till then. These two are `MeetsADelete`,
the exception of `FinishingShowsNothing`; without either, TLC finds it violated in `FsEdits`. Two more are among the hazards without a property, both of the watcher: after an error that clears `Reported`, the
removal of a File isn't told (`watch.rs:834`), and a File changed between the watcher's read and its telling, then changed back within one burst, leaves
the app with what it read in between (`watch.rs:167`).

## 6. Plan

Modelled so far, as above: filesystem Commits (every app's data depends on them) with reads beside them, planning, the feed, the log, the watcher, Locations and the Working copy. Next, in this order:

1. `WorkingCopy` again: liveness under a running `sync` (a Path that isn't Diverged and unchanged comes to hold the Store's File), and a property of the edit that is
   overwritten.
2. `Watcher` again: what is forgotten after an error, and what the app read between the watcher's read and its telling.
3. `FsJournal` with directories that are made and removed; `SqliteLog` with Snapshots.
4. Composing `Planning` with `FsJournal` in one specification. `MadeAsAsked` already shows that what `Planning` works out is one of the requests `FsJournal` takes.

Theorems to prove next: `RestsWhenSettled` of `Watcher` with the guards of its steps written out in place of `ENABLED`, and what 1 to 4 add.

## 7. How to run

    tlc -workers 2 -config FsCrash.cfg MCFsJournal.tla
    tlapm FsJournalProofs.tla

and so on for each pair of `cfg` and `module` in `PROJECT.json`, and for each module whose name ends in `Proofs`. The longest run takes about three minutes on two cores,
the longest proof about five.

## 8. Not modelled, and why

- *Values*: which strings are Paths and Prefixes, and the text of Revisions, are pure and sequential rules; tests cover them, and they have no states.
  What a Prefix covers, folds, Preconditions and Prefix Revisions are in `Planning`.
- *Blocking API*: each call waits for the async one. What is its own, in which order a runtime and what runs on it are dropped, is the
  runtime's doing.
- *Shell, commands and output*: parsing and formatting. How flags choose a Store is in `Locations`.
- *Snapshots*: the memory Backend's keeps the map it was taken of, and SQLite's is a transaction; nothing can change either.
- Nested Locations (`marker::refuse_nested`): a look at the directories above, which changes nothing.
- Which of the two reasons a clash is refused for, and what else an error says.
- Symlinks, and filesystems that take names in two letter cases for one (`names_fold`): rules about names on a real filesystem; `FsJournal` and `Watcher` take Paths that don't clash.
