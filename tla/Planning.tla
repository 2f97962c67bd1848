------------------------------ MODULE Planning ------------------------------
(***************************************************************************)
(* What a Commit does, worked out from what was staged: the Stagings apps  *)
(* build while others commit, the rules every Backend shares (check the    *)
(* Preconditions, expand the Prefix deletes, leave out what changes        *)
(* nothing, refuse clashing names), and the memory Backend they are        *)
(* applied to, with its index of letter-case folds.                        *)
(*                                                                         *)
(* A Path is the sequence of its segments, a Prefix the sequence of those  *)
(* before its last "/", so the empty Prefix is << >>.  A Revision stands   *)
(* for the contents it is the hash of, a Prefix Revision for the Files it  *)
(* was taken over; a Precondition is the contents it requires, or Absent.  *)
(***************************************************************************)
EXTENDS Naturals, Sequences, FiniteSets

CONSTANTS
  Paths,      \* the Paths Files can have
  Prefixes,   \* the Prefixes apps use
  Fold,       \* the form of a segment that is the same in every letter case
  Rank,       \* where a segment comes in the order of segments
  Contents,   \* what a File can hold
  Absent,     \* no File at a Path
  Keep,       \* a Staging does nothing to a Path
  Anything,   \* the Precondition that requires nothing
  Needs,      \* the Preconditions apps use
  None,       \* no Path, or no Prefix Revision
  Tasks,      \* those who stage and commit, each with one Staging at a time
  Store,      \* the Store they commit to
  Elsewhere,  \* another Store, which holds no Files
  Start,      \* the Files there may be at first
  MaxCalls,   \* bound: calls on Stagings and Prefix Revisions taken
  MaxCommits  \* bound: Commits made

VARIABLES
  files,    \* the Files of the Store
  folds,    \* the Path held under each fold, or None
  staged,   \* what each task's Staging holds
  taken,    \* the Prefix Revision each task holds, or None
  said,     \* the calls each task has made on its Staging, in order
  answer,   \* what the last Commit gave, if nothing was done since
  calls,    \* how many calls were made
  commits   \* how many Commits were made

vars == <<files, folds, staged, taken, said, answer, calls, commits>>

(* Whether Path p is under Prefix x: whole segments only. *)
Covers(x, p) == Len(x) < Len(p) /\ SubSeq(p, 1, Len(x)) = x

(* The letter-case fold of a Path, or of a Prefix without its last "/". *)
FoldOf(s) == [i \in DOMAIN s |-> Fold[s[i]]]

Folds == {FoldOf(p) : p \in Paths}

(* Each Prefix Path p is under, other than the empty one, and p itself. *)
Names(p) == [segments : {SubSeq(p, 1, n) : n \in 1 .. Len(p) - 1}, prefix : {TRUE}]
              \cup {[segments |-> p, prefix |-> FALSE]}

HasName(p, n) == IF n.prefix THEN Covers(n.segments, p) ELSE p = n.segments

(* The order of Paths, which is that of strings: segment by segment, with a  *)
(* Path before those under it, for segments of which none begins another.    *)
Before(p, q) ==
  \/ Covers(p, q)
  \/ \E i \in DOMAIN p \cap DOMAIN q :
       /\ Rank[p[i]] < Rank[q[i]]
       /\ SubSeq(p, 1, i - 1) = SubSeq(q, 1, i - 1)

Actions   == [Paths -> Contents \cup {Absent, Keep}]
Files     == [Paths -> Contents \cup {Absent}]
Required  == Contents \cup {Absent}
Revisions == [store : {Store, Elsewhere}, prefix : Prefixes, files : Files]

NothingStaged ==
  [actions |-> [p \in Paths |-> Keep], prefixDeletes |-> {},
   preconditions |-> {}, prefixPreconditions |-> {}]

NoAnswer == [result |-> "none"]

(* Whether Files f hold two names that some platform takes for one: two that *)
(* differ in letter case only, or a File and the Prefix of another File.     *)
Clashes(f) ==
  \E p, q \in {p \in Paths : f[p] # Absent} : \E n \in Names(p), m \in Names(q) :
    n # m /\ FoldOf(n.segments) = FoldOf(m.segments)

(* The index as it is made for Files f, no two of whose Paths fold the same. *)
IndexOf(f) ==
  [k \in Folds |-> IF \E p \in Paths : f[p] # Absent /\ FoldOf(p) = k
                     THEN CHOOSE p \in Paths : f[p] # Absent /\ FoldOf(p) = k
                     ELSE None]

ASSUME PlanningAssumption ==
  /\ {MaxCalls, MaxCommits} \subseteq Nat
  /\ Absent \notin Contents /\ {Keep, Anything} \cap Required = {} /\ None \notin Paths
  /\ Paths \subseteq Seq(DOMAIN Fold) \ {<< >>}
  /\ \A p, q \in Paths : p = q \/ Before(p, q) \/ Before(q, p)
  /\ Needs \subseteq Required \cup {Anything}
  /\ Start \subseteq {f \in Files : ~Clashes(f)}

TypeOK ==
  /\ files \in Files
  /\ folds \in [Folds -> Paths \cup {None}]
  /\ \A c \in Tasks :
       /\ staged[c].actions \in Actions
       /\ staged[c].prefixDeletes \subseteq Prefixes
       /\ staged[c].preconditions \subseteq Paths \X Required
       /\ staged[c].prefixPreconditions \subseteq Prefixes \X Revisions
       /\ taken[c] \in Revisions \cup {None}
  /\ calls \in 0 .. MaxCalls
  /\ commits \in 0 .. MaxCommits

-----------------------------------------------------------------------------
(* Building a Staging.                                                       *)

(* One more call; those no Commit can follow are left out. *)
Called ==
  /\ calls < MaxCalls
  /\ commits < MaxCommits
  /\ calls' = calls + 1

(* Task c makes the call `call` on its Staging, which is then s. *)
Said(c, call, s) ==
  /\ Called
  /\ staged' = [staged EXCEPT ![c] = s]
  /\ said' = [said EXCEPT ![c] = Append(@, call)]
  /\ answer' = NoAnswer
  /\ UNCHANGED <<files, folds, taken, commits>>

WithPrecondition(s, p, needs) ==
  IF needs = Anything THEN s ELSE [s EXCEPT !.preconditions = @ \cup {<<p, needs>>}]

(* The action at p replaces the one there; Preconditions are only added. *)
Stage(s, p, action, needs) ==
  [WithPrecondition(s, p, needs) EXCEPT !.actions[p] = action]

Write(c, p, x, needs) ==
  Said(c, [op |-> "write", path |-> p, makes |-> x, needs |-> needs],
       Stage(staged[c], p, x, needs))

Delete(c, p, needs) ==
  Said(c, [op |-> "delete", path |-> p, makes |-> Absent, needs |-> needs],
       Stage(staged[c], p, Absent, needs))

(* What was staged under the Prefix is dropped, but for its Preconditions. *)
DeletePrefix(c, x) ==
  Said(c, [op |-> "delete_prefix", prefix |-> x, makes |-> Absent],
       [staged[c] EXCEPT
          !.actions = [p \in Paths |-> IF Covers(x, p) THEN Keep ELSE @[p]],
          !.prefixDeletes = @ \cup {x}])

Require(c, p, needs) ==
  Said(c, [op |-> "require", path |-> p, needs |-> needs],
       WithPrecondition(staged[c], p, needs))

(* The Prefix need not be the one the Prefix Revision was taken for. *)
RequirePrefix(c, x) ==
  /\ taken[c] # None
  /\ Said(c, [op |-> "require_prefix", prefix |-> x, since |-> taken[c]],
          [staged[c] EXCEPT !.prefixPreconditions = @ \cup {<<x, taken[c]>>}])

(* Task c takes the Prefix Revision of x in a Store. *)
Under(f, x) == [p \in Paths |-> IF Covers(x, p) THEN f[p] ELSE Absent]

NoFiles == [p \in Paths |-> Absent]

StatPrefix(c, store, x) ==
  /\ Called
  /\ taken' = [taken EXCEPT ![c] =
       [store |-> store, prefix |-> x,
        files |-> Under(IF store = Store THEN files ELSE NoFiles, x)]]
  /\ answer' = NoAnswer
  /\ UNCHANGED <<files, folds, staged, said, commits>>

-----------------------------------------------------------------------------
(* The rules every Backend shares, in the order they apply, on a Staging s.  *)

(* Whether a Prefix Revision was taken for another Prefix or another Store. *)
HasWrongPrefixRevision(s) ==
  \E r \in s.prefixPreconditions : ~(r[2].store = Store /\ r[2].prefix = r[1])

(* The Files the Prefix Revision was taken over alone are compared. *)
DifferencesOfThose(r) ==
  {p \in Paths : r.files[p] # Absent /\ r.files[p] # Under(files, r.prefix)[p]}

Differences(r) == {p \in Paths : r.files[p] # Under(files, r.prefix)[p]}

(* Each Path where a Precondition fails. *)
Conflicts(s) ==
  {r[1] : r \in {r \in s.preconditions : r[2] # files[r[1]]}}
    \cup UNION {Differences(r[2]) : r \in s.prefixPreconditions}

(* The Prefix deletes, as deletes of what is under them and has no action. *)
ExpandedLast(s) ==
  [p \in Paths |->
     IF files[p] # Absent /\ \E x \in s.prefixDeletes : Covers(x, p)
       THEN Absent
       ELSE s.actions[p]]

Expanded(s) ==
  [p \in Paths |->
     IF /\ s.actions[p] = Keep
        /\ files[p] # Absent
        /\ \E x \in s.prefixDeletes : Covers(x, p)
       THEN Absent
       ELSE s.actions[p]]

(* The actions that change something. *)
Effective(a) == [p \in Paths |-> IF a[p] = files[p] THEN Keep ELSE a[p]]

(* The Paths the Backend has under its index with a name like n but not n. *)
NamedSame(n) ==
  {p \in {folds[k] : k \in {k \in Folds : k = FoldOf(n.segments)}} \ {None} : ~HasName(p, n)}

NamedLike(n) ==
  LET f == FoldOf(n.segments)
  IN {p \in {folds[k] : k \in {k \in Folds : k = f \/ Covers(f, k)}} \ {None} :
        ~HasName(p, n)}

(* The writes of a refused: a name of theirs is like another name written by *)
(* an earlier write, or like one the Store has and the Commit doesn't delete.*)
RefusedForDeleted(a) ==
  LET writes == {p \in Paths : a[p] \in Contents}
  IN {p \in writes : \E n \in Names(p) :
        \/ \E q \in writes : /\ Before(q, p)
                             /\ \E m \in Names(q) :
                                  m # n /\ FoldOf(m.segments) = FoldOf(n.segments)
        \/ NamedLike(n) # {}}

Refused(a) ==
  LET writes == {p \in Paths : a[p] \in Contents}
  IN {p \in writes : \E n \in Names(p) :
        \/ \E q \in writes : /\ Before(q, p)
                             /\ \E m \in Names(q) :
                                  m # n /\ FoldOf(m.segments) = FoldOf(n.segments)
        \/ \E q \in NamedLike(n) : a[q] # Absent}

(* Each fold's entry, once the changes of a are applied in order of Path: a  *)
(* new File takes the entry of its fold, a removal clears it.                *)
FoldsAfter(a) ==
  [k \in Folds |->
     LET entering == {p \in Paths : FoldOf(p) = k /\ a[p] \in Contents /\ files[p] = Absent}
         clearing == {p \in Paths : FoldOf(p) = k /\ a[p] = Absent}
         last == CHOOSE p \in entering \cup clearing :
                   \A q \in (entering \cup clearing) \ {p} : Before(q, p)
     IN IF entering \cup clearing = {} THEN folds[k]
        ELSE IF last \in entering THEN last
        ELSE None]

-----------------------------------------------------------------------------
(* Committing: the Staging is handed over, and the plan is worked out and    *)
(* applied under the Backend's one lock.                                     *)

Ended(c, gives) ==
  /\ commits < MaxCommits
  /\ commits' = commits + 1
  /\ staged' = [staged EXCEPT ![c] = NothingStaged]
  /\ said' = [said EXCEPT ![c] = << >>]
  /\ answer' = gives
  /\ UNCHANGED <<taken, calls>>

RefuseWrongPrefixRevision(c) ==
  /\ HasWrongPrefixRevision(staged[c])
  /\ Ended(c, [result |-> "wrong prefix revision", by |-> c])
  /\ UNCHANGED <<files, folds>>

RefuseConflict(c) ==
  /\ ~HasWrongPrefixRevision(staged[c])
  /\ Conflicts(staged[c]) # {}
  /\ Ended(c, [result |-> "conflict", by |-> c, paths |-> Conflicts(staged[c])])
  /\ UNCHANGED <<files, folds>>

RefuseClash(c) ==
  LET refused == Refused(Effective(Expanded(staged[c])))
  IN /\ ~HasWrongPrefixRevision(staged[c])
     /\ Conflicts(staged[c]) = {}
     /\ refused # {}
     /\ Ended(c, [result |-> "clash", by |-> c,
                  path |-> CHOOSE p \in refused : \A q \in refused \ {p} : Before(p, q)])
     /\ UNCHANGED <<files, folds>>

Commit(c) ==
  LET a == Effective(Expanded(staged[c]))
  IN /\ ~HasWrongPrefixRevision(staged[c])
     /\ Conflicts(staged[c]) = {}
     /\ Refused(a) = {}
     /\ files' = [p \in Paths |-> IF a[p] = Keep THEN files[p] ELSE a[p]]
     /\ folds' = FoldsAfter(a)
     /\ Ended(c, [result |-> "ok", by |-> c,
                  written |-> {p \in Paths : Expanded(staged[c])[p] \in Contents},
                  changed |-> {p \in Paths : a[p] \in Contents},
                  removed |-> {p \in Paths : a[p] = Absent}])

Init ==
  /\ files \in Start
  /\ folds = IndexOf(files)
  /\ staged = [c \in Tasks |-> NothingStaged]
  /\ taken = [c \in Tasks |-> None]
  /\ said = [c \in Tasks |-> << >>]
  /\ answer = NoAnswer
  /\ calls = 0
  /\ commits = 0

Next ==
  \E c \in Tasks :
    \/ \E p \in Paths, needs \in Needs :
         \/ \E x \in Contents : Write(c, p, x, needs)
         \/ Delete(c, p, needs)
         \/ needs # Anything /\ Require(c, p, needs)
    \/ \E x \in Prefixes :
         \/ DeletePrefix(c, x)
         \/ RequirePrefix(c, x)
         \/ \E store \in {Store, Elsewhere} : StatPrefix(c, store, x)
    \/ RefuseWrongPrefixRevision(c)
    \/ RefuseConflict(c)
    \/ RefuseClash(c)
    \/ Commit(c)

Spec == Init /\ [][Next]_vars

-----------------------------------------------------------------------------
(* What a Staging means, told from the calls made on it alone.               *)

(* Whether a call says what becomes of Path p. *)
SpeaksOf(call, p) ==
  \/ call.op \in {"write", "delete"} /\ call.path = p
  \/ call.op = "delete_prefix" /\ Covers(call.prefix, p)

(* The Files once the calls of log are made of the Files f: the last call    *)
(* that speaks of a Path has it, and the others are as they were.            *)
Meant(log, f) ==
  [p \in Paths |->
     LET speaking == {i \in DOMAIN log : SpeaksOf(log[i], p)}
     IN IF speaking = {} THEN f[p]
        ELSE log[CHOOSE i \in speaking : \A j \in speaking : j <= i].makes]

(* Each Path the calls of log require something of that doesn't hold of f. *)
Failing(log, f) ==
  {p \in Paths : \E i \in DOMAIN log :
     \/ /\ log[i].op \in {"write", "delete", "require"}
        /\ log[i].path = p
        /\ log[i].needs \notin {Anything, f[p]}
     \/ /\ log[i].op = "require_prefix"
        /\ Covers(log[i].since.prefix, p)
        /\ log[i].since.files[p] # f[p]}

RequiresElsewhere(log) ==
  \E i \in DOMAIN log :
    /\ log[i].op = "require_prefix"
    /\ log[i].since.store # Store \/ log[i].since.prefix # log[i].prefix

(* What the calls of log require of Path p. *)
Demanded(log, p) ==
  {v \in Required : \E i \in DOMAIN log :
     \/ /\ log[i].op \in {"write", "delete", "require"}
        /\ log[i].path = p
        /\ log[i].needs = v
     \/ /\ log[i].op = "require_prefix"
        /\ Covers(log[i].since.prefix, p)
        /\ log[i].since.files[p] = v}

(* Whether they require two things of one Path, so that they never hold. *)
Contradicts(log) == \E p \in Paths : \E v, w \in Demanded(log, p) : v # w

(* The Commit the calls of log ask for, as Requests has it: it doesn't depend  *)
(* on the Files there are.                                                     *)
R == INSTANCE Requests WITH Requests <- {}

Asked(log) ==
  [expects |-> [p \in Paths |-> IF Demanded(log, p) = {} THEN Anything
                                ELSE CHOOSE v \in Demanded(log, p) : TRUE],
   sets    |-> Meant(log, [p \in Paths |-> Keep])]

(* A Commit that succeeds makes of every Path what was staged for it last,   *)
(* by a write, a delete or the delete of a Prefix it is under, with every    *)
(* Precondition ever staged holding at that moment, even one whose action    *)
(* was replaced; and it tells of each Path it changed and of no other.       *)
MadeAsStaged ==
  [][commits' # commits /\ answer'.result = "ok" =>
       LET log == said[answer'.by]
       IN /\ files' = Meant(log, files)
          /\ Failing(log, files) = {} /\ ~RequiresElsewhere(log)
          /\ answer'.changed \cup answer'.removed = {p \in Paths : files'[p] # files[p]}
          /\ answer'.removed = {p \in Paths : files[p] # Absent /\ files'[p] = Absent}]_vars

(* A Commit that is refused changes nothing, and is refused for what it says:*)
(* a Conflict names exactly the Paths whose Preconditions fail, and names    *)
(* clash only if the Files would have clashed with the Commit made.          *)
RefusedForAReason ==
  [][commits' # commits /\ answer'.result # "ok" =>
       LET log == said[answer'.by]
       IN /\ files' = files
          /\ answer'.result = "wrong prefix revision" <=> RequiresElsewhere(log)
          /\ answer'.result = "conflict" =>
               answer'.paths = Failing(log, files) /\ answer'.paths # {}
          /\ answer'.result = "clash" =>
               Failing(log, files) = {} /\ Clashes(Meant(log, files))]_vars

(* Whatever others commit between the calls and the plan, what is planned is *)
(* the request the calls ask for: it is made if its Preconditions hold, and  *)
(* there is a Conflict only if they don't.  So a Commit can be taken as one  *)
(* request, known before its turn comes, as FsJournal and AtomicStore do.    *)
MadeAsAsked ==
  [][commits' # commits =>
       LET log == said[answer'.by]
           r   == Asked(log)
       IN /\ r \in R!AllRequests
          /\ answer'.result = "ok" =>
               /\ ~Contradicts(log) /\ R!Holds(r, files)
               /\ files' = R!Made(r, files)
               /\ answer'.changed = R!Written(r, files)
               /\ answer'.removed = R!Deleted(r, files)
          /\ answer'.result = "conflict" => Contradicts(log) \/ ~R!Holds(r, files)]_vars

(* No two Files of the Store have names that some platform takes for one,    *)
(* and the index the next Commit is checked by has each File under its fold. *)
NothingClashes == ~Clashes(files) /\ folds = IndexOf(files)

(* No two Paths fold the same, in any letter case Files are renamed to, as   *)
(* the memory Backend's own words about its index have it.                   *)
NoTwoPathsFoldTheSame ==
  \A p, q \in {p \in Paths : files[p] # Absent} : FoldOf(p) = FoldOf(q) => p = q

=============================================================================
