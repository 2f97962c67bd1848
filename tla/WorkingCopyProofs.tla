-------------------------- MODULE WorkingCopyProofs --------------------------
(***************************************************************************)
(* Proofs about WorkingCopy, for any Paths and contents and however often  *)
(* the person and others change them, commands are run and things go       *)
(* wrong: what the folder, the theirs files and the record hold.           *)
(***************************************************************************)
EXTENDS WorkingCopy, TLAPS

-----------------------------------------------------------------------------
(* The inductive invariant.                                                *)

Commands == {"sync", "commit", "discard", "resolve"}
Results  == {"none", "pending", "conflict", "failed"}
Flags    == [all : BOOLEAN, changed : BOOLEAN, quiet : BOOLEAN, retried : BOOLEAN, result : Results]

(* What the Store holds at p, as record r has it: what the person's file is *)
(* Diverged from, or its Base.                                              *)
Version(r, p) == IF r.divergences[p] = Agreed THEN r.bases[p] ELSE r.divergences[p]

(* A discard has read the Store and the folder, or is going to be refused: *)
(* it has changed nothing.                                                  *)
Pristine == step = "choosing" /\ (todo # {} \/ InTheWay)

(* Which command is at which step, and what it has in hand there.          *)
KnowsWhatItDoes ==
  /\ flags \in Flags
  /\ Free => todo = {} /\ read = NotRead /\ flags = NoFlags
  /\ command = "sync" => syncing /\ step \in {"reconciling", "applying", "settling", "saving"}
  /\ command = "commit" => step \in {"scanning", "reconciling", "applying", "settling", "saving"}
  /\ command = "discard" => step \in {"scanning", "choosing", "saving", "clearing"}
  /\ command = "resolve" => step \in {"saving", "clearing"}
  /\ flags.all => command = "sync"
  /\ flags.changed => step = "settling"
  /\ flags.result \in {"pending", "conflict"} => command = "commit"
  /\ flags.result = "failed" => command = "discard"
  /\ step = "scanning" => read = NotRead /\ flags.quiet /\ flags.result = "none"
  /\ step = "saving" /\ command \in {"sync", "commit"} => todo = {} /\ read = NotRead
  /\ step \in {"applying", "settling"} => todo = {} /\ read[at] # Unread
  /\ step = "settling" => Version(record, at) = read[at]

(* What a command covers: what a discard reads, and what a commit replaces  *)
(* the Base of, which never is Diverged when the folder is scanned.  A      *)
(* commit reconciles because of what became of it.                          *)
KeepsToWhatItCovers ==
  /\ command = "discard" => todo \subseteq covers /\ \A p \in Paths : read[p] # Unread => p \in covers
  /\ command = "commit" /\ step \in {"reconciling", "applying", "settling"} =>
       flags.result \in {"pending", "conflict"}
  /\ command = "commit" /\ flags.quiet /\ flags.result # "pending" => covers \cap Diverged(record) = {}

(* The record is as saved until a command works on it.                     *)
Unsaved == step \notin {"free", "scanning", "clearing"} /\ ~Pristine
SavedFirst == ~Unsaved => record = saved

(* Each settled theirs file is as the record says, but for the one being    *)
(* settled, and those that a discard or a resolve removes at its end.       *)
TheirsFollow ==
  \A p \in Paths \ unsettled :
    \/ theirs[p] = Theirs(record, p)
    \/ step = "settling" /\ at = p /\ flags.changed
    \/ /\ command \in {"discard", "resolve"}
       /\ step \in {"choosing", "saving", "clearing"} /\ ~Pristine
       /\ p \in Stale

(* What `sync` hasn't been told of, it knows.  What it reads again may be   *)
(* out of date in the record it works on; no other command leaves the saved *)
(* one out of date either, wherever it dies.                                *)
InHand(p) ==
  /\ command = "sync"
  /\ (step = "reconciling" /\ p \in todo) \/ read[p] # Unread

UpToDate ==
  syncing /\ ~resync =>
    \A p \in Paths \ news :
      /\ read[p] \in {Unread, store[p]}
      /\ Version(record, p) = store[p] \/ InHand(p)
      /\ command # "sync" => Version(saved, p) = store[p]

NoNewsBefore == resync => news = {}

(* What only the person has isn't the Base.                                *)
MineDiffers == \A p \in mine : Held(folder[p]) \notin {saved.bases[p], record.bases[p]}

(* A Base is a version that the person's file is made from.                *)
BasesAreMerged == \A p \in Paths : File(saved.bases[p]) \cup File(record.bases[p]) \subseteq merged[p]

IInv ==
  /\ TypeOK
  /\ KnowsWhatItDoes
  /\ KeepsToWhatItCovers
  /\ SavedFirst
  /\ TheirsFollow
  /\ UpToDate
  /\ NoNewsBefore
  /\ MineDiffers
  /\ BasesAreMerged

-----------------------------------------------------------------------------
(* Values and records.                                                     *)

LEMMA Special ==
  /\ {Absent, Unfit, Blocked, Linked, Agreed, Unread} \cap Contents = {}
  /\ Absent # Unfit /\ Absent # Blocked /\ Absent # Linked /\ Absent # Agreed /\ Absent # Unread
  /\ Unfit # Blocked /\ Unfit # Linked /\ Unfit # Agreed /\ Unfit # Unread
  /\ Blocked # Linked /\ Blocked # Agreed /\ Blocked # Unread
  /\ Linked # Agreed /\ Linked # Unread /\ Agreed # Unread
<1> DEFINE special == <<Absent, Unfit, Blocked, Linked, Agreed, Unread>>
<1>1. \A i, j \in 1..6 : special[i] = special[j] => i = j
  BY WorkingCopyAssumption DEF IsInjective
<1> QED
  BY <1>1, WorkingCopyAssumption

LEMMA VersionsAre ==
  /\ Absent \in Versions /\ Contents \subseteq Versions /\ Versions \subseteq Locals
  /\ Agreed \notin Versions /\ Unread \notin Versions
  /\ Unfit \notin Versions /\ Blocked \notin Versions /\ Linked \notin Versions
BY Special DEF Versions, Locals

LEMMA HeldIs ==
  ASSUME NEW v \in Locals
  PROVE  /\ Held(v) \in Locals
         /\ v # Unfit => Held(v) \in Versions
         /\ v \notin {Blocked, Linked} => Held(v) = v
         /\ v \in {Blocked, Linked} => Held(v) = Absent
BY VersionsAre, WorkingCopyAssumption DEF Held, Locals, Versions

LEMMA FileIs ==
  ASSUME NEW v
  PROVE  /\ File(v) \subseteq Contents
         /\ v \in Contents => File(v) = {v}
         /\ v \notin Contents => File(v) = {}
BY DEF File

LEMMA RecordParts ==
  ASSUME NEW r \in Records
  PROVE  /\ r = [bases |-> r.bases, divergences |-> r.divergences]
         /\ r.bases \in [Paths -> Versions]
         /\ r.divergences \in [Paths -> Versions \cup {Agreed}]
BY DEF Records

LEMMA WithBaseIs ==
  ASSUME NEW r \in Records, NEW p \in Paths, NEW v \in Versions
  PROVE  /\ WithBase(r, p, v) \in Records
         /\ WithBase(r, p, v).divergences = r.divergences
         /\ WithBase(r, p, v).bases[p] = v
         /\ \A q \in Paths \ {p} : WithBase(r, p, v).bases[q] = r.bases[q]
<1>1. WithBase(r, p, v) = [bases |-> [r.bases EXCEPT ![p] = v], divergences |-> r.divergences]
  BY RecordParts DEF WithBase
<1> QED
  BY <1>1, RecordParts DEF Records

LEMMA WithDivergenceIs ==
  ASSUME NEW r \in Records, NEW p \in Paths, NEW v \in Versions \cup {Agreed}
  PROVE  /\ WithDivergence(r, p, v) \in Records
         /\ WithDivergence(r, p, v).bases = r.bases
         /\ WithDivergence(r, p, v).divergences[p] = v
         /\ \A q \in Paths \ {p} : WithDivergence(r, p, v).divergences[q] = r.divergences[q]
<1>1. WithDivergence(r, p, v) = [bases |-> r.bases, divergences |-> [r.divergences EXCEPT ![p] = v]]
  BY RecordParts DEF WithDivergence
<1> QED
  BY <1>1, RecordParts DEF Records

(* Record r after p has been looked at, where the Store held v: nothing      *)
(* else has changed.                                                         *)
Follows(r, p, v) ==
  /\ r \in Records
  /\ Version(r, p) = v
  /\ \A q \in Paths \ {p} :
       r.bases[q] = record.bases[q] /\ r.divergences[q] = record.divergences[q]

LEMMA OutcomeIs ==
  ASSUME record \in Records, NEW p \in Paths, NEW v \in Versions
  PROVE  /\ Follows(Outcome(p, v), p, v)
         /\ Outcome(p, v).bases[p] = record.bases[p] \/ (Same(p, v) /\ Outcome(p, v).bases[p] = v)
<1> DEFINE agreed == WithDivergence(record, p, Agreed)
<1>1. /\ agreed \in Records /\ agreed.bases = record.bases /\ agreed.divergences[p] = Agreed
      /\ \A q \in Paths \ {p} : agreed.divergences[q] = record.divergences[q]
  BY WithDivergenceIs
<1> HIDE DEF agreed
<1>2. CASE AsBase(p, v)
  <2>1. Outcome(p, v) = agreed
    BY <1>2 DEF Outcome, agreed
  <2> QED
    BY <1>1, <1>2, <2>1 DEF Follows, Version, AsBase
<1>3. CASE ~AsBase(p, v) /\ Same(p, v)
  <2>1. Outcome(p, v) = WithBase(agreed, p, v)
    BY <1>3 DEF Outcome, agreed
  <2>2. /\ WithBase(agreed, p, v) \in Records
        /\ WithBase(agreed, p, v).divergences = agreed.divergences
        /\ WithBase(agreed, p, v).bases[p] = v
        /\ \A q \in Paths \ {p} : WithBase(agreed, p, v).bases[q] = agreed.bases[q]
    BY <1>1, WithBaseIs
  <2> QED
    BY <1>1, <1>3, <2>1, <2>2 DEF Follows, Version
<1>4. CASE ~AsBase(p, v) /\ ~Same(p, v)
  <2>1. Outcome(p, v) = WithDivergence(record, p, v)
    BY <1>4 DEF Outcome
  <2>2. /\ WithDivergence(record, p, v) \in Records
        /\ WithDivergence(record, p, v).bases = record.bases
        /\ WithDivergence(record, p, v).divergences[p] = v
        /\ \A q \in Paths \ {p} : WithDivergence(record, p, v).divergences[q] = record.divergences[q]
    BY WithDivergenceIs
  <2> QED
    BY <2>1, <2>2, VersionsAre DEF Follows, Version
<1> QED
  BY <1>2, <1>3, <1>4

(* The record after the Store's v is put into the folder.                  *)
LEMMA AppliedIs ==
  ASSUME record \in Records, NEW p \in Paths, NEW v \in Versions
  PROVE  LET r == WithBase(WithDivergence(record, p, Agreed), p, v)
         IN  Follows(r, p, v) /\ r.bases[p] = v /\ r.divergences[p] = Agreed
<1> DEFINE agreed == WithDivergence(record, p, Agreed)
<1>1. /\ agreed \in Records /\ agreed.bases = record.bases /\ agreed.divergences[p] = Agreed
      /\ \A q \in Paths \ {p} : agreed.divergences[q] = record.divergences[q]
  BY WithDivergenceIs
<1> HIDE DEF agreed
<1>2. /\ WithBase(agreed, p, v) \in Records
      /\ WithBase(agreed, p, v).divergences = agreed.divergences
      /\ WithBase(agreed, p, v).bases[p] = v
      /\ \A q \in Paths \ {p} : WithBase(agreed, p, v).bases[q] = agreed.bases[q]
  BY <1>1, WithBaseIs
<1>3. /\ Follows(WithBase(agreed, p, v), p, v)
      /\ WithBase(agreed, p, v).bases[p] = v /\ WithBase(agreed, p, v).divergences[p] = Agreed
  BY <1>1, <1>2 DEF Follows, Version
<1> QED
  BY <1>3 DEF agreed

-----------------------------------------------------------------------------
(* What steps do.                                                          *)

LEMMA TheirsIs ==
  ASSUME NEW r \in Records, NEW p \in Paths
  PROVE  /\ Theirs(r, p) \in Versions
         /\ r.divergences[p] \in Contents => Theirs(r, p) = r.divergences[p]
         /\ r.divergences[p] \notin Contents => Theirs(r, p) = Absent
BY VersionsAre, RecordParts DEF Theirs

(* What is recorded of p, and whether its theirs file is settled then.     *)
Recording(p) ==
  LET changed == record'.divergences[p] # record.divergences[p] IN
  /\ flags' \in Flags
  /\ flags'.all = flags.all /\ flags'.result = flags.result /\ flags'.changed = changed
  /\ flags'.quiet => flags.quiet /\ (flags.result = "conflict" => ~changed)
  /\ \/ step' = "settling" /\ at' = p /\ read' = read
     \/ /\ step' = "reconciling" /\ at' = Unread /\ read' = [read EXCEPT ![p] = Unread]
        /\ ~changed

LEMMA RecordIs ==
  ASSUME flags \in Flags, NEW p \in Paths, NEW r, NEW u \in BOOLEAN, Record(p, r, u)
  PROVE  record' = r /\ Recording(p)
<1> DEFINE changed == r.divergences[p] # record.divergences[p]
<1>1. /\ record' = r
      /\ flags' = [flags EXCEPT !.changed = changed, !.quiet = Quiet(u /\ ~changed)]
      /\ IF changed \/ Theirs(r, p) # Absent \/ Retrying(p)
         THEN step' = "settling" /\ at' = p /\ UNCHANGED read
         ELSE DealtWith(p)
  BY DEF Record
<1>2. flags' = [all |-> flags.all, changed |-> changed, quiet |-> Quiet(u /\ ~changed),
                retried |-> flags.retried, result |-> flags.result]
  BY <1>1 DEF Flags
<1>3. Quiet(u /\ ~changed) => flags.quiet /\ (flags.result = "conflict" => ~changed)
  BY DEF Quiet
<1>4. Quiet(u /\ ~changed) \in BOOLEAN /\ changed \in BOOLEAN
  BY DEF Quiet, Flags
<1>5. flags' \in Flags
  BY <1>2, <1>4 DEF Flags
<1> HIDE DEF changed
<1>6. /\ flags'.all = flags.all /\ flags'.result = flags.result /\ flags'.changed = changed
      /\ flags'.quiet => flags.quiet /\ (flags.result = "conflict" => ~changed)
  BY <1>2, <1>3
<1>7. \/ step' = "settling" /\ at' = p /\ read' = read
      \/ /\ step' = "reconciling" /\ at' = Unread /\ read' = [read EXCEPT ![p] = Unread]
         /\ ~changed
  BY <1>1 DEF DealtWith
<1> QED
  BY <1>1, <1>5, <1>6, <1>7 DEF Recording, changed

LEMMA LookIs ==
  ASSUME TypeOK, KnowsWhatItDoes, NEW p \in Paths, Look(p)
  PROVE  /\ step = "reconciling" /\ todo = {} /\ read[p] \in Versions
         /\ \/ /\ step' = "applying" /\ at' = p
               /\ ~Same(p, read[p]) /\ Applicable(p, read[p])
               /\ UNCHANGED <<record, flags, read, mine, merged>>
            \/ /\ Recording(p) /\ Follows(record', p, read[p])
               /\ record'.bases[p] = record.bases[p] \/ (Same(p, read[p]) /\ record'.bases[p] = read[p])
               /\ mine' = IF Same(p, read[p]) THEN mine \ {p} ELSE mine
               /\ merged' = IF Same(p, read[p]) THEN [merged EXCEPT ![p] = @ \cup File(read[p])] ELSE merged
<1>1. step = "reconciling" /\ todo = {} /\ read[p] \in Versions
  BY DEF Look, Due, TypeOK
<1>2. record \in Records /\ flags \in Flags
  BY DEF TypeOK, KnowsWhatItDoes
<1>3. CASE step' = "applying" /\ at' = p /\ UNCHANGED <<record, flags, read, mine, merged>>
           /\ ~Same(p, read[p]) /\ Applicable(p, read[p])
  BY <1>1, <1>3
<1>4. CASE /\ Record(p, Outcome(p, read[p]), TRUE)
           /\ mine' = IF Same(p, read[p]) THEN mine \ {p} ELSE mine
           /\ merged' = IF Same(p, read[p]) THEN [merged EXCEPT ![p] = @ \cup File(read[p])] ELSE merged
  <2>1. record' = Outcome(p, read[p]) /\ Recording(p)
    BY <1>2, <1>4, RecordIs
  <2>2. /\ Follows(Outcome(p, read[p]), p, read[p])
        /\ \/ Outcome(p, read[p]).bases[p] = record.bases[p]
           \/ Same(p, read[p]) /\ Outcome(p, read[p]).bases[p] = read[p]
    BY <1>1, <1>2, OutcomeIs
  <2> QED
    BY <1>1, <1>4, <2>1, <2>2
<1> QED
  BY <1>3, <1>4 DEF Look

LEMMA ApplyIs ==
  ASSUME TypeOK, KnowsWhatItDoes, Apply
  PROVE  /\ step = "applying" /\ at \in Paths /\ todo = {} /\ read[at] \in Versions
         /\ folder' = [folder EXCEPT ![at] = read[at]]
         /\ Recording(at) /\ Follows(record', at, read[at])
         /\ record'.bases[at] = read[at]
         /\ mine' = mine \ {at}
         /\ merged' = [merged EXCEPT ![at] = @ \cup File(read[at])]
<1>1. step = "applying" /\ at \in Paths /\ todo = {} /\ read[at] \in Versions
  BY DEF Apply, KnowsWhatItDoes, TypeOK
<1>2. record \in Records /\ flags \in Flags
  BY DEF TypeOK, KnowsWhatItDoes
<1> DEFINE r == WithBase(WithDivergence(record, at, Agreed), at, read[at])
<1>3. /\ Record(at, r, FALSE)
      /\ folder' = [folder EXCEPT ![at] = read[at]] /\ mine' = mine \ {at}
      /\ merged' = [merged EXCEPT ![at] = @ \cup File(read[at])]
  BY DEF Apply
<1>4. Follows(r, at, read[at]) /\ r.bases[at] = read[at]
  BY <1>1, <1>2, AppliedIs
<1> HIDE DEF r
<1>5. record' = r /\ Recording(at)
  BY <1>1, <1>2, <1>3, RecordIs
<1> QED
  BY <1>1, <1>3, <1>4, <1>5

(* What a commit makes.                                                    *)
LEMMA CommitIs ==
  ASSUME TypeOK, KnowsWhatItDoes, KeepsToWhatItCovers, NEW pending \in BOOLEAN, Commit(pending)
  PROVE  /\ Changes \subseteq Paths /\ \A p \in Changes : Held(found[p]) \in Versions
         /\ store' \in [Paths -> Versions]
         /\ \A p \in Changes : /\ store[p] = record.bases[p] /\ store'[p] = Held(found[p])
                               /\ record.divergences[p] = Agreed
         /\ \A p \in Paths \ Changes : store'[p] = store[p]
         /\ command = "commit" /\ step = "scanning" /\ todo = {} /\ read = NotRead
         /\ \/ /\ pending /\ record' = record
               /\ step' = "reconciling" /\ todo' = Changes
               /\ flags' = [flags EXCEPT !.result = "pending"]
            \/ /\ ~pending /\ step' = "saving" /\ todo' = todo /\ flags' = flags
               /\ record' \in Records /\ record'.divergences = record.divergences
               /\ \A p \in Changes : record'.bases[p] = store'[p]
               /\ \A p \in Paths \ Changes : record'.bases[p] = record.bases[p]
<1>1. /\ covers \subseteq Paths /\ found \in [Paths -> Locals] /\ store \in [Paths -> Versions]
      /\ record \in Records
  BY DEF TypeOK
<1>2. command = "commit" /\ step = "scanning" /\ todo = {} /\ \A p \in covers : found[p] # Unfit
  BY DEF Commit, CanCommit, Scanned
<1>3. read = NotRead /\ flags.quiet /\ flags.result = "none"
  BY <1>2 DEF KnowsWhatItDoes
<1>4. Changes \subseteq Paths /\ \A p \in Changes : Held(found[p]) \in Versions
  BY <1>1, <1>2, HeldIs DEF Changes
<1>5. \A p \in Changes : store[p] = record.bases[p]
  BY DEF Commit, Conflicts
<1>6. \A p \in Changes : record.divergences[p] = Agreed
  BY <1>1, <1>2, <1>3, <1>4 DEF KeepsToWhatItCovers, Changes, Diverged
<1>7. store' = [p \in Paths |-> IF p \in Changes THEN Held(found[p]) ELSE store[p]]
  BY DEF Commit
<1>8. /\ store' \in [Paths -> Versions]
      /\ \A p \in Changes : store'[p] = Held(found[p])
      /\ \A p \in Paths \ Changes : store'[p] = store[p]
  BY <1>1, <1>4, <1>7
<1>9. CASE pending
  BY <1>2, <1>3, <1>4, <1>5, <1>6, <1>8, <1>9 DEF Commit
<1>10. CASE ~pending
  <2>1. /\ step' = "saving" /\ todo' = todo /\ flags' = flags
        /\ record' = [record EXCEPT !.bases = [p \in Paths |-> IF p \in Changes THEN store'[p] ELSE @[p]]]
    BY <1>10 DEF Commit
  <2>2. record' = [bases |-> [p \in Paths |-> IF p \in Changes THEN store'[p] ELSE record.bases[p]],
                   divergences |-> record.divergences]
    BY <1>1, <2>1, RecordParts
  <2>3. /\ record' \in Records /\ record'.divergences = record.divergences
        /\ \A p \in Changes : record'.bases[p] = store'[p]
        /\ \A p \in Paths \ Changes : record'.bases[p] = record.bases[p]
    BY <1>1, <1>4, <1>8, <2>2, RecordParts DEF Records
  <2> QED
    BY <1>2, <1>3, <1>4, <1>5, <1>6, <1>8, <1>10, <2>1, <2>3
<1> QED
  BY <1>9, <1>10

LEMMA DiscardIs ==
  ASSUME TypeOK, NEW p \in Paths, Discard(p)
  PROVE  /\ step = "choosing" /\ todo = {} /\ ~InTheWay /\ read[p] \in Versions
         /\ folder' \in [Paths -> Locals]
         /\ Applies(p) => folder'[p] = read[p]
         /\ ~Applies(p) => folder'[p] = folder[p]
         /\ \A q \in Paths \ {p} : folder'[q] = folder[q]
         /\ Follows(record', p, read[p])
         /\ record'.bases[p] = read[p] /\ record'.divergences[p] = Agreed
         /\ read' = [read EXCEPT ![p] = Unread] /\ found' = [found EXCEPT ![p] = Absent]
         /\ mine' = mine \ {p} /\ merged' = [merged EXCEPT ![p] = @ \cup File(read[p])]
<1>1. /\ step = "choosing" /\ todo = {} /\ ~InTheWay /\ read[p] \in Versions
      /\ folder \in [Paths -> Locals] /\ record \in Records
  BY DEF Discard, TypeOK
<1>2. record' = WithBase(WithDivergence(record, p, Agreed), p, read[p])
  BY DEF Discard
<1>3. /\ Follows(record', p, read[p])
      /\ record'.bases[p] = read[p] /\ record'.divergences[p] = Agreed
  BY <1>1, <1>2, AppliedIs
<1>4. folder' = IF Applies(p) THEN [folder EXCEPT ![p] = read[p]] ELSE folder
  BY DEF Discard
<1>5. /\ folder' \in [Paths -> Locals]
      /\ Applies(p) => folder'[p] = read[p]
      /\ ~Applies(p) => folder'[p] = folder[p]
      /\ \A q \in Paths \ {p} : folder'[q] = folder[q]
  BY <1>1, <1>4, VersionsAre
<1> QED
  BY <1>1, <1>3, <1>5 DEF Discard

LEMMA ResolveIs ==
  ASSUME TypeOK, NEW ps \in SUBSET Paths, Resolve(ps)
  PROVE  /\ Free /\ step' = "saving" /\ command' = "resolve"
         /\ record' \in Records
         /\ \A p \in ps : /\ record.divergences[p] # Agreed
                          /\ record'.bases[p] = record.divergences[p] /\ record'.divergences[p] = Agreed
         /\ \A p \in Paths \ ps : /\ record'.bases[p] = record.bases[p]
                                  /\ record'.divergences[p] = record.divergences[p]
<1>1. Free /\ record \in Records /\ step' = "saving" /\ command' = "resolve"
  BY DEF Resolve, TypeOK
<1>2. \A p \in ps : record.divergences[p] \in Versions /\ record.divergences[p] # Agreed
  BY <1>1, RecordParts DEF Resolve, Diverged
<1>3. record' = [bases |-> [p \in Paths |-> IF p \in ps THEN record.divergences[p] ELSE record.bases[p]],
                 divergences |-> [p \in Paths |-> IF p \in ps THEN Agreed ELSE record.divergences[p]]]
  BY DEF Resolve
<1>4. record' \in Records
  BY <1>1, <1>2, <1>3, RecordParts DEF Records
<1> QED
  BY <1>1, <1>2, <1>3, <1>4

-----------------------------------------------------------------------------
(* Types.                                                                  *)

LEMMA ReleaseIs ==
  ASSUME Release
  PROVE  /\ Free' /\ command' = "none" /\ covers' = {} /\ todo' = {} /\ read' = NotRead
         /\ found' = NotFound /\ at' = Unread /\ flags' = NoFlags
BY DEF Release, Free

LEMMA EmptyHanded ==
  /\ NotRead \in [Paths -> Versions \cup {Unread}] /\ \A p \in Paths : NotRead[p] = Unread
  /\ NotFound \in [Paths -> Locals]
  /\ NoFlags \in Flags /\ ~NoFlags.all /\ ~NoFlags.changed /\ NoFlags.quiet /\ NoFlags.result = "none"
BY VersionsAre DEF NotRead, NotFound, NoFlags, Flags, Results

FileTypes ==
  /\ store \in [Paths -> Versions] /\ folder \in [Paths -> Locals] /\ theirs \in [Paths -> Versions]
  /\ saved \in Records /\ record \in Records

SyncTypes ==
  /\ syncing \in BOOLEAN /\ resync \in BOOLEAN
  /\ news \subseteq Paths /\ failing \subseteq Paths
  /\ resync \/ news # {} \/ failing # {} => syncing

HandTypes ==
  /\ covers \subseteq Paths /\ todo \subseteq Paths
  /\ read \in [Paths -> Versions \cup {Unread}] /\ found \in [Paths -> Locals]

StepTypes ==
  /\ command \in {"none", "sync", "commit", "discard", "resolve"}
  /\ step \in {"free", "reconciling", "applying", "settling", "clearing", "saving", "scanning", "choosing"}
  /\ Free <=> command = "none"
  /\ at \in Paths \cup {Unread} /\ (at # Unread <=> step \in {"applying", "settling"})

GhostTypes ==
  /\ mine \subseteq Paths /\ unsettled \subseteq Paths
  /\ merged \in [Paths -> SUBSET Contents]

LEMMA TypeParts ==
  /\ TypeOK => FileTypes /\ SyncTypes /\ HandTypes /\ StepTypes /\ GhostTypes
  /\ FileTypes /\ SyncTypes /\ HandTypes /\ StepTypes /\ GhostTypes /\ (Free => record = saved) => TypeOK
BY DEF TypeOK, FileTypes, SyncTypes, HandTypes, StepTypes, GhostTypes

LEMMA FilesKeepType ==
  ASSUME TypeOK, KnowsWhatItDoes, KeepsToWhatItCovers, [Next]_vars
  PROVE  FileTypes'
<1>1. /\ store \in [Paths -> Versions] /\ folder \in [Paths -> Locals] /\ theirs \in [Paths -> Versions]
      /\ saved \in Records /\ record \in Records
  BY DEF TypeOK
<1>2. ASSUME UNCHANGED <<store, folder, theirs, saved, record>> PROVE FileTypes'
  BY <1>1, <1>2 DEF FileTypes
<1>3. ASSUME NEW p \in Paths, NEW v \in Locals, Edit(p, v) PROVE FileTypes'
  BY <1>1, <1>3 DEF Edit, FileTypes
<1>4. ASSUME NEW p \in Paths, NEW v \in Versions, TheyCommit(p, v) PROVE FileTypes'
  BY <1>1, <1>4 DEF TheyCommit, FileTypes
<1>5. ASSUME NEW p \in Paths, Look(p) PROVE FileTypes'
  <2>1. record' \in Records
    BY <1>1, <1>5, LookIs DEF Follows
  <2> QED
    BY <1>1, <1>5, <2>1 DEF Look, FileTypes
<1>6. ASSUME Apply PROVE FileTypes'
  <2>1. record' \in Records /\ at \in Paths /\ read[at] \in Versions /\ folder' = [folder EXCEPT ![at] = read[at]]
    BY <1>6, ApplyIs DEF Follows
  <2> QED
    BY <1>1, <1>6, <2>1, VersionsAre DEF Apply, FileTypes
<1>7. ASSUME SettleTheirs \/ SettleFails PROVE FileTypes'
  <2>1. at \in Paths /\ Theirs(record, at) \in Versions
    BY <1>1, <1>7, TheirsIs DEF SettleTheirs, SettleFails, TypeOK
  <2>2. theirs' \in [Paths -> Versions]
    BY <1>1, <1>7, <2>1 DEF SettleTheirs, SettleFails
  <2> QED
    BY <1>1, <1>7, <2>2 DEF SettleTheirs, SettleFails, FileTypes
<1>8. ASSUME NEW failed \in SUBSET Paths, RemoveStaleTheirs(failed) PROVE FileTypes'
  <2>1. theirs' \in [Paths -> Versions]
    BY <1>1, <1>8, VersionsAre DEF RemoveStaleTheirs
  <2> QED
    BY <1>1, <1>8, <2>1 DEF RemoveStaleTheirs, FileTypes
<1>9. ASSUME Save \/ Die PROVE FileTypes'
  BY <1>1, <1>9 DEF Save, Die, FileTypes
<1>10. ASSUME NEW pending \in BOOLEAN, Commit(pending) PROVE FileTypes'
  <2>1. store' \in [Paths -> Versions] /\ record' \in Records
    BY <1>1, <1>10, CommitIs
  <2> QED
    BY <1>1, <1>10, <2>1 DEF Commit, FileTypes
<1>11. ASSUME NEW p \in Paths, Discard(p) PROVE FileTypes'
  <2>1. folder' \in [Paths -> Locals] /\ record' \in Records
    BY <1>11, DiscardIs DEF Follows
  <2> QED
    BY <1>1, <1>11, <2>1 DEF Discard, FileTypes
<1>12. ASSUME NEW ps \in SUBSET Paths, Resolve(ps) PROVE FileTypes'
  <2>1. record' \in Records
    BY <1>12, ResolveIs
  <2> QED
    BY <1>1, <1>12, <2>1 DEF Resolve, FileTypes
<1>13. ASSUME NEW p \in Paths, ReadStore(p) \/ ScanFile(p) \/ ReadBoth(p) \/ DiscardFails(p) PROVE FileTypes'
  BY <1>2, <1>13 DEF ReadStore, ScanFile, ReadBoth, DiscardFails
<1>14. ASSUME NEW ps \in SUBSET Paths, ReconcileBatch(ps) \/ BeginCommit(ps) \/ BeginDiscard(ps) PROVE FileTypes'
  BY <1>2, <1>14 DEF ReconcileBatch, BeginCommit, BeginDiscard, Begin
<1>15. ASSUME StartSync \/ StopSync \/ LoseNews \/ ReconcileAll PROVE FileTypes'
  BY <1>2, <1>15 DEF StartSync, StopSync, LoseNews, ReconcileAll
<1>16. ASSUME NothingToCommit \/ CommitConflicts \/ Choose \/ DiscardRefused PROVE FileTypes'
  BY <1>2, <1>16 DEF NothingToCommit, CommitConflicts, Choose, DiscardRefused
<1>17. ASSUME UNCHANGED vars PROVE FileTypes'
  BY <1>2, <1>17 DEF vars
<1> QED
  BY <1>3, <1>4, <1>5, <1>6, <1>7, <1>8, <1>9, <1>10, <1>11, <1>12, <1>13, <1>14, <1>15, <1>16, <1>17 DEF Next

LEMMA SyncKeepsType ==
  ASSUME TypeOK, KnowsWhatItDoes, KeepsToWhatItCovers, [Next]_vars
  PROVE  SyncTypes'
<1>1. /\ syncing \in BOOLEAN /\ resync \in BOOLEAN
      /\ news \subseteq Paths /\ failing \subseteq Paths
      /\ resync \/ news # {} \/ failing # {} => syncing
      /\ command = "sync" => syncing
  BY TypeParts DEF SyncTypes, KnowsWhatItDoes
<1>2. ASSUME UNCHANGED <<syncing, resync, news, failing>> PROVE SyncTypes'
  BY <1>1, <1>2 DEF SyncTypes
<1>3. ASSUME NEW p \in Paths, NEW v \in Versions, TheyCommit(p, v) PROVE SyncTypes'
  BY <1>1, <1>3 DEF TheyCommit, Told, SyncTypes
<1>4. ASSUME SyncEnds PROVE SyncTypes'
  BY <1>4 DEF SyncEnds, SyncTypes
<1>5. ASSUME StartSync \/ LoseNews \/ ReconcileAll PROVE SyncTypes'
  BY <1>1, <1>5 DEF StartSync, LoseNews, ReconcileAll, SyncTypes
<1>6. ASSUME SettleTheirs \/ SettleFails PROVE SyncTypes'
  <2>1. at \in Paths
    BY <1>6 DEF SettleTheirs, SettleFails, TypeOK
  <2> QED
    BY <1>1, <1>6, <2>1 DEF SettleTheirs, SettleFails, feed, SyncTypes
<1>7. ASSUME NEW failed \in SUBSET Paths, RemoveStaleTheirs(failed) PROVE SyncTypes'
  BY <1>1, <1>7 DEF RemoveStaleTheirs, feed, SyncTypes
<1>8. ASSUME Die PROVE SyncTypes'
  BY <1>2, <1>4, <1>8 DEF Die, feed
<1>9. ASSUME NEW pending \in BOOLEAN, Commit(pending) PROVE SyncTypes'
  <2>1. Changes \subseteq Paths
    BY <1>9, CommitIs
  <2>2. Told(Changes) /\ syncing' = syncing /\ resync' = resync /\ failing' = failing
    BY <1>9 DEF Commit
  <2> QED
    BY <1>1, <2>1, <2>2 DEF Told, SyncTypes
<1>10. ASSUME NEW ps \in SUBSET Paths, ReconcileBatch(ps) PROVE SyncTypes'
  BY <1>1, <1>10 DEF ReconcileBatch, SyncTypes
<1>11. ASSUME NEW p \in Paths, NEW v \in Locals, Edit(p, v) PROVE SyncTypes'
  BY <1>2, <1>11 DEF Edit, feed
<1>12. ASSUME NEW p \in Paths, ReadStore(p) \/ Look(p) \/ ScanFile(p) \/ ReadBoth(p) PROVE SyncTypes'
  BY <1>2, <1>12 DEF ReadStore, Look, ScanFile, ReadBoth, feed
<1>13. ASSUME NEW p \in Paths, Discard(p) \/ DiscardFails(p) PROVE SyncTypes'
  BY <1>2, <1>13 DEF Discard, DiscardFails, feed
<1>14. ASSUME NEW ps \in SUBSET Paths, BeginCommit(ps) \/ BeginDiscard(ps) \/ Resolve(ps) PROVE SyncTypes'
  BY <1>2, <1>14 DEF BeginCommit, BeginDiscard, Begin, Resolve, feed
<1>15. ASSUME Apply \/ Save \/ NothingToCommit \/ CommitConflicts \/ Choose \/ DiscardRefused PROVE SyncTypes'
  BY <1>2, <1>15 DEF Apply, Save, NothingToCommit, CommitConflicts, Choose, DiscardRefused, feed
<1>16. ASSUME UNCHANGED vars PROVE SyncTypes'
  BY <1>2, <1>16 DEF vars
<1>17. ASSUME StopSync PROVE SyncTypes'
  BY <1>4, <1>17 DEF StopSync
<1> QED
  BY <1>3, <1>5, <1>6, <1>7, <1>8, <1>9, <1>10, <1>11, <1>12, <1>13, <1>14, <1>15, <1>16, <1>17 DEF Next

(* What a step that records p leaves in hand.                              *)
LEMMA RecordingLeaves ==
  ASSUME read \in [Paths -> Versions \cup {Unread}], NEW p \in Paths, Recording(p)
  PROVE  /\ read' \in [Paths -> Versions \cup {Unread}]
         /\ step' \in {"settling", "reconciling"}
         /\ at' \in Paths \cup {Unread} /\ (at' # Unread <=> step' = "settling")
<1>1. CASE step' = "settling" /\ at' = p /\ read' = read
  BY <1>1, WorkingCopyAssumption
<1>2. CASE step' = "reconciling" /\ at' = Unread /\ read' = [read EXCEPT ![p] = Unread]
  BY <1>2
<1> QED
  BY <1>1, <1>2 DEF Recording

LEMMA HandsKeepType ==
  ASSUME TypeOK, KnowsWhatItDoes, KeepsToWhatItCovers, [Next]_vars
  PROVE  HandTypes'
<1>1. /\ covers \subseteq Paths /\ todo \subseteq Paths
      /\ read \in [Paths -> Versions \cup {Unread}] /\ found \in [Paths -> Locals]
      /\ store \in [Paths -> Versions] /\ folder \in [Paths -> Locals] /\ record \in Records
      /\ failing \subseteq Paths /\ news \subseteq Paths
  BY DEF TypeOK
<1>2. ASSUME UNCHANGED <<covers, todo, read, found>> PROVE HandTypes'
  BY <1>1, <1>2 DEF HandTypes
<1>3. ASSUME Release PROVE HandTypes'
  BY <1>3, ReleaseIs, EmptyHanded DEF HandTypes
<1>4. Diverged(record) \subseteq Paths /\ Stale \subseteq Paths
  BY DEF Diverged, Stale
<1>5. ASSUME NEW ps \in SUBSET Paths, ReconcileBatch(ps) PROVE HandTypes'
  BY <1>1, <1>4, <1>5 DEF ReconcileBatch, Reconcile, HandTypes
<1>6. ASSUME ReconcileAll PROVE HandTypes'
  BY <1>1, <1>4, <1>6 DEF ReconcileAll, Reconcile, HandTypes
<1>7. ASSUME NEW p \in Paths, ReadStore(p) PROVE HandTypes'
  BY <1>1, <1>7 DEF ReadStore, HandTypes
<1>8. ASSUME NEW p \in Paths, Look(p) PROVE HandTypes'
  <2>1. read' \in [Paths -> Versions \cup {Unread}]
    BY <1>1, <1>8, LookIs, RecordingLeaves
  <2> QED
    BY <1>1, <1>8, <2>1 DEF Look, HandTypes
<1>9. ASSUME Apply PROVE HandTypes'
  <2>1. read' \in [Paths -> Versions \cup {Unread}]
    BY <1>1, <1>9, ApplyIs, RecordingLeaves
  <2> QED
    BY <1>1, <1>9, <2>1 DEF Apply, HandTypes
<1>10. ASSUME SettleTheirs \/ SettleFails PROVE HandTypes'
  BY <1>1, <1>10 DEF SettleTheirs, SettleFails, DealtWith, HandTypes
<1>11. ASSUME NEW failed \in SUBSET Paths, RemoveStaleTheirs(failed) PROVE HandTypes'
  BY <1>2, <1>3, <1>11 DEF RemoveStaleTheirs
<1>12. ASSUME Save PROVE HandTypes'
  <2>1. ASSUME todo' = covers, found' = NotFound, UNCHANGED <<covers, read>> PROVE HandTypes'
    BY <1>1, <2>1, EmptyHanded DEF HandTypes
  <2> QED
    BY <1>2, <1>3, <1>12, <2>1 DEF Save
<1>13. ASSUME Die \/ NothingToCommit \/ DiscardRefused PROVE HandTypes'
  BY <1>3, <1>13 DEF Die, NothingToCommit, DiscardRefused
<1>14. ASSUME NEW ps \in SUBSET Paths, BeginCommit(ps) \/ BeginDiscard(ps) PROVE HandTypes'
  BY <1>1, <1>14 DEF BeginCommit, BeginDiscard, Begin, HandTypes
<1>15. ASSUME NEW p \in Paths, ScanFile(p) PROVE HandTypes'
  BY <1>1, <1>15 DEF ScanFile, HandTypes
<1>16. ASSUME NEW pending \in BOOLEAN, Commit(pending) PROVE HandTypes'
  <2>1. /\ covers' = covers /\ read' = read /\ found' = NotFound
        /\ todo' \subseteq Paths
    BY <1>1, <1>16, CommitIs DEF Commit
  <2> QED
    BY <1>1, <2>1, EmptyHanded DEF HandTypes
<1>17. ASSUME CommitConflicts \/ Choose PROVE HandTypes'
  <2>1. Changes \subseteq covers /\ Conflicts \subseteq covers
    BY DEF Changes, Conflicts
  <2>2. todo' \subseteq Paths /\ covers' = covers /\ read' = read /\ found' = NotFound
    BY <1>1, <1>4, <1>17, <2>1 DEF CommitConflicts, Choose
  <2> QED
    BY <1>1, <2>2, EmptyHanded DEF HandTypes
<1>18. ASSUME NEW p \in Paths, ReadBoth(p) PROVE HandTypes'
  BY <1>1, <1>18 DEF ReadBoth, HandTypes
<1>19. ASSUME NEW p \in Paths, Discard(p) PROVE HandTypes'
  <2>1. /\ read' = [read EXCEPT ![p] = Unread] /\ found' = [found EXCEPT ![p] = Absent]
        /\ covers' = covers /\ todo' = todo
    BY <1>19 DEF Discard
  <2> QED
    BY <1>1, <2>1, VersionsAre DEF HandTypes
<1>20. ASSUME NEW p \in Paths, NEW v \in Locals, Edit(p, v) PROVE HandTypes'
  BY <1>2, <1>20 DEF Edit
<1>21. ASSUME NEW p \in Paths, NEW v \in Versions, TheyCommit(p, v) PROVE HandTypes'
  BY <1>2, <1>21 DEF TheyCommit
<1>22. ASSUME StartSync \/ StopSync \/ LoseNews PROVE HandTypes'
  BY <1>2, <1>22 DEF StartSync, StopSync, LoseNews
<1>23. ASSUME NEW p \in Paths, DiscardFails(p) PROVE HandTypes'
  BY <1>2, <1>23 DEF DiscardFails
<1>24. ASSUME NEW ps \in SUBSET Paths, Resolve(ps) PROVE HandTypes'
  BY <1>2, <1>24 DEF Resolve
<1>25. ASSUME UNCHANGED vars PROVE HandTypes'
  BY <1>2, <1>25 DEF vars
<1> QED
  BY <1>5, <1>6, <1>7, <1>8, <1>9, <1>10, <1>11, <1>12, <1>13, <1>14, <1>15, <1>16, <1>17, <1>18, <1>19,
     <1>20, <1>21, <1>22, <1>23, <1>24, <1>25 DEF Next

LEMMA StepsKeepType ==
  ASSUME TypeOK, KnowsWhatItDoes, KeepsToWhatItCovers, [Next]_vars
  PROVE  StepTypes'
<1>1. /\ command \in {"none", "sync", "commit", "discard", "resolve"}
      /\ step \in {"free", "reconciling", "applying", "settling", "clearing", "saving", "scanning", "choosing"}
      /\ Free <=> command = "none"
      /\ at \in Paths \cup {Unread} /\ (at # Unread <=> step \in {"applying", "settling"})
      /\ read \in [Paths -> Versions \cup {Unread}]
  BY DEF TypeOK
<1>2. ASSUME UNCHANGED <<command, step, at>> PROVE StepTypes'
  BY <1>1, <1>2 DEF StepTypes, Free
<1>3. ASSUME Release PROVE StepTypes'
  BY <1>3 DEF Release, StepTypes, Free
<1>4. ASSUME step' \in {"reconciling", "saving", "scanning", "choosing", "clearing"}, command' = command,
             ~Free, at' = Unread
      PROVE  StepTypes'
  BY <1>1, <1>4 DEF StepTypes, Free
<1>5. ASSUME step' \in {"reconciling", "saving", "scanning", "choosing", "clearing"},
             command' \in {"sync", "commit", "discard", "resolve"},
             at' = Unread
      PROVE  StepTypes'
  BY <1>5 DEF StepTypes, Free
<1>6. ASSUME NEW p \in Paths, Recording(p), command' = command, ~Free PROVE StepTypes'
  BY <1>1, <1>6, RecordingLeaves DEF StepTypes, Free
<1>7. ASSUME NEW p \in Paths, Look(p) PROVE StepTypes'
  <2>1. CASE step' = "applying" /\ at' = p
    BY <1>1, <1>7, <2>1, WorkingCopyAssumption DEF Look, StepTypes, Free
  <2>2. CASE Recording(p)
    BY <1>6, <1>7, <2>2 DEF Look, Free
  <2> QED
    BY <1>7, <2>1, <2>2, LookIs
<1>8. ASSUME Apply PROVE StepTypes'
  BY <1>6, <1>8, ApplyIs DEF Apply, Free
<1>9. ASSUME SettleTheirs \/ SettleFails PROVE StepTypes'
  BY <1>4, <1>9 DEF SettleTheirs, SettleFails, DealtWith, Free
<1>10. ASSUME NEW failed \in SUBSET Paths, RemoveStaleTheirs(failed) PROVE StepTypes'
  BY <1>1, <1>3, <1>4, <1>10 DEF RemoveStaleTheirs, Done, Free
<1>11. ASSUME Save PROVE StepTypes'
  BY <1>1, <1>3, <1>4, <1>11 DEF Save, Done, Free
<1>12. ASSUME Die \/ NothingToCommit \/ DiscardRefused PROVE StepTypes'
  BY <1>3, <1>12 DEF Die, NothingToCommit, DiscardRefused
<1>13. ASSUME NEW ps \in SUBSET Paths, ReconcileBatch(ps) \/ BeginCommit(ps) \/ BeginDiscard(ps) \/ Resolve(ps)
       PROVE  StepTypes'
  BY <1>1, <1>5, <1>13 DEF ReconcileBatch, Reconcile, BeginCommit, BeginDiscard, Begin, Resolve, Free
<1>14. ASSUME ReconcileAll PROVE StepTypes'
  BY <1>1, <1>5, <1>14 DEF ReconcileAll, Reconcile, Free
<1>15. ASSUME NEW pending \in BOOLEAN, Commit(pending) PROVE StepTypes'
  BY <1>1, <1>4, <1>15 DEF Commit, CanCommit, Scanned, Free
<1>16. ASSUME CommitConflicts \/ Choose PROVE StepTypes'
  BY <1>1, <1>4, <1>16 DEF CommitConflicts, CanCommit, Choose, Scanned, Free
<1>17. ASSUME NEW p \in Paths, DiscardFails(p) PROVE StepTypes'
  BY <1>1, <1>4, <1>17 DEF DiscardFails, Free
<1>18. ASSUME NEW p \in Paths, NEW v \in Locals, Edit(p, v) PROVE StepTypes'
  BY <1>2, <1>18 DEF Edit
<1>19. ASSUME NEW p \in Paths, NEW v \in Versions, TheyCommit(p, v) PROVE StepTypes'
  BY <1>2, <1>19 DEF TheyCommit
<1>20. ASSUME StartSync \/ StopSync \/ LoseNews PROVE StepTypes'
  BY <1>2, <1>20 DEF StartSync, StopSync, LoseNews
<1>21. ASSUME NEW p \in Paths, ReadStore(p) \/ ScanFile(p) \/ ReadBoth(p) \/ Discard(p) PROVE StepTypes'
  BY <1>2, <1>21 DEF ReadStore, ScanFile, ReadBoth, Discard
<1>22. ASSUME UNCHANGED vars PROVE StepTypes'
  BY <1>2, <1>22 DEF vars
<1> QED
  BY <1>7, <1>8, <1>9, <1>10, <1>11, <1>12, <1>13, <1>14, <1>15, <1>16, <1>17, <1>18, <1>19, <1>20, <1>21,
     <1>22 DEF Next

LEMMA GhostsKeepType ==
  ASSUME TypeOK, KnowsWhatItDoes, KeepsToWhatItCovers, [Next]_vars
  PROVE  GhostTypes'
<1>1. /\ mine \subseteq Paths /\ unsettled \subseteq Paths
      /\ merged \in [Paths -> SUBSET Contents]
  BY DEF TypeOK
<1>2. ASSUME UNCHANGED ghosts PROVE GhostTypes'
  BY <1>1, <1>2 DEF ghosts, GhostTypes
<1>3. ASSUME UNCHANGED <<mine, merged>>, unsettled' \subseteq Paths PROVE GhostTypes'
  BY <1>1, <1>3 DEF GhostTypes
<1>4. ASSUME mine' \subseteq Paths, merged' \in [Paths -> SUBSET Contents], UNCHANGED unsettled PROVE GhostTypes'
  BY <1>1, <1>4 DEF GhostTypes
<1>5. Stale \subseteq Paths
  BY DEF Stale
<1>6. ASSUME NEW p \in Paths, NEW v \in Locals, Edit(p, v) PROVE GhostTypes'
  BY <1>1, <1>4, <1>6 DEF Edit
<1>7. ASSUME NEW p \in Paths, Look(p) PROVE GhostTypes'
  <2>1. mine' \subseteq Paths /\ merged' \in [Paths -> SUBSET Contents]
    BY <1>1, <1>7, LookIs, FileIs
  <2> QED
    BY <1>4, <1>7, <2>1 DEF Look
<1>8. ASSUME Apply PROVE GhostTypes'
  <2>1. mine' \subseteq Paths /\ merged' \in [Paths -> SUBSET Contents]
    BY <1>1, <1>8, ApplyIs, FileIs
  <2> QED
    BY <1>4, <1>8, <2>1 DEF Apply
<1>9. ASSUME SettleTheirs \/ SettleFails PROVE GhostTypes'
  <2>1. at \in Paths
    BY <1>9 DEF SettleTheirs, SettleFails, TypeOK
  <2>2. unsettled' \subseteq Paths /\ mine' = mine /\ merged' = merged
    BY <1>1, <1>9, <2>1 DEF SettleTheirs, SettleFails
  <2> QED
    BY <1>3, <2>2
<1>10. ASSUME NEW failed \in SUBSET Paths, RemoveStaleTheirs(failed) PROVE GhostTypes'
  BY <1>1, <1>3, <1>10 DEF RemoveStaleTheirs
<1>11. ASSUME Save PROVE GhostTypes'
  BY <1>1, <1>3, <1>5, <1>11 DEF Save
<1>12. ASSUME Die PROVE GhostTypes'
  <2>1. unsettled' = unsettled \cup {p \in Paths : theirs[p] # Theirs(saved, p)} /\ UNCHANGED <<mine, merged>>
    BY <1>12 DEF Die
  <2> QED
    BY <1>1, <1>3, <2>1
<1>13. ASSUME NEW pending \in BOOLEAN, Commit(pending) PROVE GhostTypes'
  <2>1. /\ mine' = mine \ {p \in Changes : Held(folder[p]) = store'[p]} /\ unsettled' = unsettled
        /\ merged' = [p \in Paths |-> IF p \in Changes THEN merged[p] \cup File(store'[p]) ELSE merged[p]]
    BY <1>13 DEF Commit
  <2>2. merged' \in [Paths -> SUBSET Contents]
    BY <1>1, <2>1, FileIs
  <2> QED
    BY <1>1, <1>4, <2>1, <2>2
<1>14. ASSUME NEW p \in Paths, Discard(p) PROVE GhostTypes'
  <2>1. mine' \subseteq Paths /\ merged' \in [Paths -> SUBSET Contents]
    BY <1>1, <1>14, DiscardIs, FileIs
  <2> QED
    BY <1>4, <1>14, <2>1 DEF Discard
<1>15. ASSUME NEW ps \in SUBSET Paths, Resolve(ps) PROVE GhostTypes'
  <2>1. merged' = [p \in Paths |-> IF p \notin ps THEN merged[p]
                                ELSE merged[p] \cup File(theirs[p])
                                       \cup (IF p \in unsettled THEN File(record.divergences[p]) ELSE {})]
    BY <1>15 DEF Resolve
  <2>2. merged' \in [Paths -> SUBSET Contents]
    BY <1>1, <2>1, FileIs
  <2> QED
    BY <1>1, <1>4, <1>15, <2>2 DEF Resolve
<1>16. ASSUME NEW p \in Paths, NEW v \in Versions, TheyCommit(p, v) PROVE GhostTypes'
  BY <1>2, <1>16 DEF TheyCommit
<1>17. ASSUME NEW ps \in SUBSET Paths, ReconcileBatch(ps) \/ BeginCommit(ps) \/ BeginDiscard(ps) PROVE GhostTypes'
  BY <1>2, <1>17 DEF ReconcileBatch, BeginCommit, BeginDiscard, Begin
<1>18. ASSUME StartSync \/ StopSync \/ LoseNews \/ ReconcileAll PROVE GhostTypes'
  BY <1>2, <1>18 DEF StartSync, StopSync, LoseNews, ReconcileAll
<1>19. ASSUME NEW p \in Paths, ReadStore(p) \/ ScanFile(p) \/ ReadBoth(p) \/ DiscardFails(p) PROVE GhostTypes'
  BY <1>2, <1>19 DEF ReadStore, ScanFile, ReadBoth, DiscardFails
<1>20. ASSUME NothingToCommit \/ CommitConflicts \/ Choose \/ DiscardRefused PROVE GhostTypes'
  BY <1>2, <1>20 DEF NothingToCommit, CommitConflicts, Choose, DiscardRefused
<1>21. ASSUME UNCHANGED vars PROVE GhostTypes'
  BY <1>2, <1>21 DEF vars, ghosts
<1> QED
  BY <1>6, <1>7, <1>8, <1>9, <1>10, <1>11, <1>12, <1>13, <1>14, <1>15, <1>16, <1>17, <1>18, <1>19, <1>20,
     <1>21 DEF Next

-----------------------------------------------------------------------------
(* Which command does what.                                                *)

LEMMA FlagsAre ==
  ASSUME NEW f \in Flags
  PROVE  /\ [f EXCEPT !.result = "pending"] \in Flags /\ [f EXCEPT !.result = "conflict"] \in Flags
         /\ [f EXCEPT !.result = "failed"] \in Flags
         /\ \A r \in Results :
              /\ [f EXCEPT !.result = r].all = f.all /\ [f EXCEPT !.result = r].changed = f.changed
              /\ [f EXCEPT !.result = r].quiet = f.quiet /\ [f EXCEPT !.result = r].result = r
BY DEF Flags, Results

LEMMA NewFlagsAre ==
  /\ \A all \in BOOLEAN : /\ [NoFlags EXCEPT !.all = all] \in Flags
                          /\ [NoFlags EXCEPT !.all = all].all = all
                          /\ ~[NoFlags EXCEPT !.all = all].changed
                          /\ [NoFlags EXCEPT !.all = all].result = "none"
  /\ [NoFlags EXCEPT !.retried = TRUE] \in Flags /\ ~[NoFlags EXCEPT !.retried = TRUE].all
  /\ ~[NoFlags EXCEPT !.retried = TRUE].changed /\ [NoFlags EXCEPT !.retried = TRUE].quiet
  /\ [NoFlags EXCEPT !.retried = TRUE].result = "none"
BY DEF NoFlags, Flags, Results

LEMMA SettledFlagsAre ==
  ASSUME flags \in Flags, SettleTheirs \/ SettleFails
  PROVE  /\ flags' \in Flags /\ flags'.all = flags.all /\ flags'.result = flags.result /\ ~flags'.changed
         /\ flags'.quiet => flags.quiet
<1>1. CASE SettleTheirs
  BY <1>1 DEF SettleTheirs, Flags
<1>2. CASE SettleFails
  <2>1. flags' = [flags EXCEPT !.changed = FALSE, !.quiet = Quiet(FALSE)]
    BY <1>2 DEF SettleFails
  <2>2. Quiet(FALSE) \in BOOLEAN /\ (Quiet(FALSE) => flags.quiet)
    BY DEF Quiet, Flags
  <2> QED
    BY <2>1, <2>2 DEF Flags
<1> QED
  BY <1>1, <1>2

LEMMA RestKnows ==
  ASSUME Release
  PROVE  KnowsWhatItDoes'
<1>1. /\ step' = "free" /\ command' = "none" /\ todo' = {} /\ read' = NotRead /\ flags' = NoFlags
      /\ at' = Unread
  BY ReleaseIs DEF Free
<1>2. /\ flags' \in Flags /\ ~flags'.all /\ ~flags'.changed /\ flags'.result = "none"
  BY <1>1, EmptyHanded
<1> QED
  BY <1>1, <1>2 DEF KnowsWhatItDoes, Free

LEMMA QuietKnows ==
  ASSUME KnowsWhatItDoes, UNCHANGED <<command, step, todo, read, flags, record, at>>,
         command = "sync" => syncing'
  PROVE  KnowsWhatItDoes'
BY DEF KnowsWhatItDoes, Free, Version

(* A step between two that record nothing and settle nothing.              *)
LEMMA KnowsNext ==
  ASSUME StepTypes, flags' \in Flags, ~Free',
         ~flags'.changed, step' \notin {"applying", "settling"},
         command' = "sync" => syncing' /\ step' \in {"reconciling", "saving"},
         command' = "commit" => step' \in {"scanning", "reconciling", "saving"},
         command' = "discard" => step' \in {"scanning", "choosing", "saving", "clearing"},
         command' = "resolve" => step' \in {"saving", "clearing"},
         flags'.all => command' = "sync",
         flags'.result \in {"pending", "conflict"} => command' = "commit",
         flags'.result = "failed" => command' = "discard",
         step' = "scanning" => read' = NotRead /\ flags'.quiet /\ flags'.result = "none",
         step' = "saving" /\ command' \in {"sync", "commit"} => todo' = {} /\ read' = NotRead
  PROVE  KnowsWhatItDoes'
BY DEF KnowsWhatItDoes

LEMMA RecordingKnows ==
  ASSUME TypeOK, KnowsWhatItDoes, step \in {"reconciling", "applying"}, todo = {},
         NEW p \in Paths, read[p] # Unread, Recording(p), Follows(record', p, read[p]),
         UNCHANGED <<command, todo, syncing>>
  PROVE  KnowsWhatItDoes'
<1>1. /\ flags' \in Flags /\ flags'.all = flags.all /\ flags'.result = flags.result
      /\ flags'.changed => step' = "settling"
      /\ step' \in {"settling", "reconciling"}
      /\ step' = "settling" => at' = p /\ read' = read
  BY DEF Recording
<1>2. Version(record', p) = read[p]
  BY DEF Follows
<1>3. command \in {"sync", "commit"} /\ (command = "sync" => syncing)
  BY DEF KnowsWhatItDoes, TypeOK, Free
<1>4. step' = "settling" => todo' = {} /\ read'[at'] # Unread /\ Version(record', at') = read'[at']
  BY <1>1, <1>2
<1>5. ~Free'
  BY <1>1 DEF Free
<1>6. /\ flags.all => command = "sync"
      /\ flags.result \in {"pending", "conflict"} => command = "commit"
      /\ flags.result = "failed" => command = "discard"
  BY DEF KnowsWhatItDoes
<1> QED
  BY <1>1, <1>3, <1>4, <1>5, <1>6 DEF KnowsWhatItDoes, Version

LEMMA StillKnows ==
  ASSUME TypeOK, KnowsWhatItDoes, KeepsToWhatItCovers, [Next]_vars
  PROVE  KnowsWhatItDoes'
<1>1. /\ flags \in Flags /\ StepTypes
      /\ Free => todo = {} /\ read = NotRead /\ flags = NoFlags
      /\ command = "sync" => syncing /\ step \in {"reconciling", "applying", "settling", "saving"}
      /\ command = "commit" => step \in {"scanning", "reconciling", "applying", "settling", "saving"}
      /\ command = "discard" => step \in {"scanning", "choosing", "saving", "clearing"}
      /\ command = "resolve" => step \in {"saving", "clearing"}
      /\ flags.all => command = "sync"
      /\ flags.changed => step = "settling"
      /\ flags.result \in {"pending", "conflict"} => command = "commit"
      /\ flags.result = "failed" => command = "discard"
      /\ step = "scanning" => read = NotRead /\ flags.quiet /\ flags.result = "none"
      /\ step = "saving" /\ command \in {"sync", "commit"} => todo = {} /\ read = NotRead
  BY TypeParts DEF KnowsWhatItDoes
<1>2. /\ command \in {"none", "sync", "commit", "discard", "resolve"}
      /\ Free <=> command = "none"
  BY DEF TypeOK
<1>3. ASSUME NEW p \in Paths, NEW v \in Locals, Edit(p, v) PROVE KnowsWhatItDoes'
  BY <1>1, <1>3, QuietKnows DEF Edit, feed
<1>4. ASSUME NEW p \in Paths, NEW v \in Versions, TheyCommit(p, v) PROVE KnowsWhatItDoes'
  BY <1>1, <1>4, QuietKnows DEF TheyCommit
<1>5. ASSUME StartSync \/ StopSync \/ LoseNews PROVE KnowsWhatItDoes'
  BY <1>1, <1>5, QuietKnows DEF StartSync, StopSync, LoseNews
<1>6. ASSUME ReconcileAll PROVE KnowsWhatItDoes'
  <2>1. /\ step' = "reconciling" /\ command' = "sync" /\ syncing' /\ flags' = [NoFlags EXCEPT !.all = TRUE]
    BY <1>6 DEF ReconcileAll, Reconcile
  <2> QED
    BY <1>1, <2>1, NewFlagsAre, KnowsNext DEF Free
<1>7. ASSUME NEW batch \in SUBSET Paths, ReconcileBatch(batch) PROVE KnowsWhatItDoes'
  <2>1. /\ step' = "reconciling" /\ command' = "sync" /\ syncing' /\ flags' = [NoFlags EXCEPT !.all = FALSE]
    BY <1>7 DEF ReconcileBatch, Reconcile
  <2> QED
    BY <1>1, <2>1, NewFlagsAre, KnowsNext DEF Free
<1>8. ASSUME NEW p \in Paths, ReadStore(p) PROVE KnowsWhatItDoes'
  <2>1. /\ step = "reconciling" /\ UNCHANGED <<command, step, flags, syncing>>
    BY <1>8 DEF ReadStore, feed
  <2> QED
    BY <1>1, <1>2, <2>1, KnowsNext DEF Free
<1>9. ASSUME NEW p \in Paths, Look(p) PROVE KnowsWhatItDoes'
  <2>1. /\ step = "reconciling" /\ todo = {} /\ read[p] # Unread /\ UNCHANGED <<command, todo, syncing>>
    BY <1>9 DEF Look, Due, feed
  <2>2. CASE step' = "applying" /\ at' = p /\ UNCHANGED <<record, flags, read>>
    <3>1. command \in {"sync", "commit"} /\ ~flags.changed /\ ~Free'
      BY <1>1, <1>2, <2>1, <2>2 DEF Free
    <3> QED
      BY <1>1, <2>1, <2>2, <3>1 DEF KnowsWhatItDoes
  <2>3. CASE Recording(p) /\ Follows(record', p, read[p])
    BY <2>1, <2>3, RecordingKnows
  <2> QED
    BY <1>9, <2>2, <2>3, LookIs
<1>10. ASSUME Apply PROVE KnowsWhatItDoes'
  <2>1. UNCHANGED <<command, todo, syncing>>
    BY <1>10 DEF Apply, feed
  <2>2. step = "applying" /\ at \in Paths /\ todo = {} /\ read[at] # Unread
    BY <1>10, ApplyIs, VersionsAre
  <2> QED
    BY <1>10, <2>1, <2>2, ApplyIs, RecordingKnows
<1>11. ASSUME SettleTheirs \/ SettleFails PROVE KnowsWhatItDoes'
  <2>1. step = "settling" /\ step' = "reconciling" /\ UNCHANGED <<command, syncing>>
    BY <1>11 DEF SettleTheirs, SettleFails, DealtWith, feed
  <2> QED
    BY <1>1, <1>2, <1>11, <2>1, SettledFlagsAre, KnowsNext DEF Free
<1>12. ASSUME NEW failed \in SUBSET Paths, RemoveStaleTheirs(failed) PROVE KnowsWhatItDoes'
  <2>1. CASE command = "sync"
    <3>1. /\ step = "reconciling" /\ todo = {} /\ read = NotRead /\ step' = "saving"
          /\ UNCHANGED <<command, todo, read, flags, syncing>>
      BY <1>1, <1>12, <2>1 DEF RemoveStaleTheirs, Done, feed
    <3> QED
      BY <1>1, <2>1, <3>1, KnowsNext DEF Free
  <2>2. CASE command # "sync"
    BY <1>12, <2>2, RestKnows DEF RemoveStaleTheirs
  <2> QED
    BY <2>1, <2>2
<1>13. ASSUME Save PROVE KnowsWhatItDoes'
  <2>1. CASE command = "commit" /\ Again /\ step' = "scanning" /\ flags' = [NoFlags EXCEPT !.retried = TRUE]
    <3>1. command' = command /\ read' = read
      BY <1>13, <2>1 DEF Save, Release, Free
    <3>2. read = NotRead
      BY <1>1, <1>13, <2>1 DEF Save, Done
    <3> QED
      BY <1>1, <2>1, <3>1, <3>2, NewFlagsAre, KnowsNext DEF Free
  <2>2. CASE /\ command \in {"discard", "resolve"} /\ step' = "clearing"
             /\ UNCHANGED <<command, todo, read, flags>>
    <3>1. step \in {"saving", "choosing", "reconciling"}
      BY <1>13 DEF Save, Done
    <3>2. flags' \in Flags /\ ~flags'.changed
      BY <1>1, <2>2, <3>1
    <3> QED
      BY <1>1, <2>2, <3>1, <3>2, KnowsNext DEF Free
  <2>3. CASE Release
    BY <2>3, RestKnows
  <2> QED
    BY <1>13, <2>1, <2>2, <2>3 DEF Save
<1>14. ASSUME Die \/ NothingToCommit \/ DiscardRefused PROVE KnowsWhatItDoes'
  BY <1>14, RestKnows DEF Die, NothingToCommit, DiscardRefused
<1>15. ASSUME NEW ps \in SUBSET Paths, BeginCommit(ps) \/ BeginDiscard(ps) PROVE KnowsWhatItDoes'
  <2>1. /\ Free /\ command' \in {"commit", "discard"} /\ step' = "scanning"
        /\ UNCHANGED <<read, flags>>
    BY <1>15 DEF BeginCommit, BeginDiscard, Begin
  <2> QED
    BY <1>1, <2>1, EmptyHanded, KnowsNext DEF Free
<1>16. ASSUME NEW ps \in SUBSET Paths, Resolve(ps) PROVE KnowsWhatItDoes'
  <2>1. Free /\ command' = "resolve" /\ step' = "saving" /\ UNCHANGED <<read, flags>>
    BY <1>16 DEF Resolve
  <2> QED
    BY <1>1, <2>1, EmptyHanded, KnowsNext DEF Free
<1>17. ASSUME NEW p \in Paths, ScanFile(p) PROVE KnowsWhatItDoes'
  <2>1. step = "scanning" /\ UNCHANGED <<command, step, read, flags, syncing>>
    BY <1>17 DEF ScanFile, feed
  <2> QED
    BY <1>1, <1>2, <2>1, KnowsNext DEF Free
<1>18. ASSUME NEW pending \in BOOLEAN, Commit(pending) PROVE KnowsWhatItDoes'
  <2>1. /\ command = "commit" /\ command' = command /\ step = "scanning"
        /\ todo = {} /\ read = NotRead /\ read' = read
    BY <1>18, CommitIs DEF Commit
  <2>2. CASE step' = "reconciling" /\ flags' = [flags EXCEPT !.result = "pending"]
    <3>1. /\ flags' \in Flags /\ flags'.all = flags.all /\ flags'.changed = flags.changed
          /\ flags'.result = "pending"
      BY <1>1, <2>2, FlagsAre DEF Results
    <3> QED
      BY <1>1, <2>1, <2>2, <3>1, KnowsNext DEF Free
  <2>3. CASE step' = "saving" /\ todo' = todo /\ flags' = flags
    BY <1>1, <2>1, <2>3, KnowsNext DEF Free
  <2> QED
    BY <1>18, <2>2, <2>3, CommitIs
<1>19. ASSUME CommitConflicts PROVE KnowsWhatItDoes'
  <2>1. /\ command = "commit" /\ command' = command /\ step = "scanning" /\ step' = "reconciling"
        /\ flags' = [flags EXCEPT !.result = "conflict"]
    BY <1>19 DEF CommitConflicts, CanCommit, Scanned
  <2>2. /\ flags' \in Flags /\ flags'.all = flags.all /\ flags'.changed = flags.changed
        /\ flags'.result = "conflict"
    BY <1>1, <2>1, FlagsAre DEF Results
  <2> QED
    BY <1>1, <2>1, <2>2, KnowsNext DEF Free
<1>20. ASSUME Choose PROVE KnowsWhatItDoes'
  <2>1. /\ command = "discard" /\ command' = command /\ step = "scanning" /\ step' = "choosing"
        /\ flags' = flags
    BY <1>20 DEF Choose, Scanned
  <2> QED
    BY <1>1, <2>1, KnowsNext DEF Free
<1>21. ASSUME NEW p \in Paths, ReadBoth(p) \/ Discard(p) PROVE KnowsWhatItDoes'
  <2>1. step = "choosing" /\ UNCHANGED <<command, step, flags, syncing>>
    BY <1>21 DEF ReadBoth, Discard, feed
  <2> QED
    BY <1>1, <1>2, <2>1, KnowsNext DEF Free
<1>22. ASSUME NEW p \in Paths, DiscardFails(p) PROVE KnowsWhatItDoes'
  <2>1. step = "choosing" /\ step' = "saving" /\ command' = command /\ flags' = [flags EXCEPT !.result = "failed"]
    BY <1>22 DEF DiscardFails
  <2>2. command = "discard"
    BY <1>1, <1>2, <2>1 DEF Free
  <2>3. /\ flags' \in Flags /\ flags'.all = flags.all /\ flags'.changed = flags.changed
        /\ flags'.result = "failed"
    BY <1>1, <2>1, FlagsAre DEF Results
  <2> QED
    BY <1>1, <2>1, <2>2, <2>3, KnowsNext DEF Free
<1>23. ASSUME UNCHANGED vars PROVE KnowsWhatItDoes'
  BY <1>1, <1>23, QuietKnows DEF vars
<1> QED
  BY <1>3, <1>4, <1>5, <1>6, <1>7, <1>8, <1>9, <1>10, <1>11, <1>12, <1>13, <1>14, <1>15, <1>16, <1>17,
     <1>18, <1>19, <1>20, <1>21, <1>22, <1>23 DEF Next

-----------------------------------------------------------------------------
(* What a command covers, and the record it starts from.                   *)

LEMMA StillCovers ==
  ASSUME TypeOK, KnowsWhatItDoes, KeepsToWhatItCovers, [Next]_vars
  PROVE  KeepsToWhatItCovers'
<1> DEFINE Reconciling == {"reconciling", "applying", "settling"}
<1>1. /\ command = "discard" => todo \subseteq covers /\ \A p \in Paths : read[p] # Unread => p \in covers
      /\ command = "commit" /\ step \in Reconciling => flags.result \in {"pending", "conflict"}
      /\ command = "commit" /\ flags.quiet /\ flags.result # "pending" => covers \cap Diverged(record) = {}
      /\ record \in Records /\ flags \in Flags /\ read \in [Paths -> Versions \cup {Unread}]
      /\ covers \subseteq Paths
  BY DEF KeepsToWhatItCovers, KnowsWhatItDoes, TypeOK
<1>2. /\ (step = "free" <=> command = "none")
      /\ command \in {"none", "sync", "commit", "discard", "resolve"}
      /\ command = "sync" => step \in {"reconciling", "applying", "settling", "saving"}
      /\ command = "commit" => step \in {"scanning", "reconciling", "applying", "settling", "saving"}
      /\ command = "discard" => step \in {"scanning", "choosing", "saving", "clearing"}
      /\ command = "resolve" => step \in {"saving", "clearing"}
      /\ step = "scanning" => read = NotRead /\ flags.quiet /\ flags.result = "none"
      /\ Free => read = NotRead
      /\ step = "choosing" => command = "discard"
  BY DEF KnowsWhatItDoes, TypeOK, Free
<1>3. ASSUME command' \notin {"commit", "discard"} PROVE KeepsToWhatItCovers'
  BY <1>3 DEF KeepsToWhatItCovers
<1>4. ASSUME UNCHANGED <<command, step, flags, record, covers, todo, read>> PROVE KeepsToWhatItCovers'
  BY <1>1, <1>4 DEF KeepsToWhatItCovers, Diverged
<1>5. ASSUME Release PROVE KeepsToWhatItCovers'
  BY <1>3, <1>5 DEF Release
(* Of a commit, only what is recorded, and how it went, matters.           *)
<1>6. ASSUME command = "commit", command' = command, covers' = covers,
             step' \in Reconciling => flags'.result \in {"pending", "conflict"},
             flags'.quiet /\ flags'.result # "pending" =>
               flags.quiet /\ flags.result # "pending" /\ \A p \in covers : record'.divergences[p] = record.divergences[p]
      PROVE  KeepsToWhatItCovers'
  <2>1. flags'.quiet /\ flags'.result # "pending" => covers' \cap Diverged(record') = {}
    BY <1>1, <1>6 DEF Diverged
  <2> QED
    BY <1>6, <2>1 DEF KeepsToWhatItCovers, Diverged
(* Of a discard, only what it reads.                                       *)
<1>7. ASSUME command = "discard", command' = command, covers' = covers, todo' \subseteq covers,
             \A p \in Paths : read'[p] # Unread => p \in covers
      PROVE  KeepsToWhatItCovers'
  BY <1>7 DEF KeepsToWhatItCovers
<1>8. ASSUME NEW p \in Paths, Recording(p), Follows(record', p, read[p]), step \in Reconciling,
             UNCHANGED <<command, covers>>
      PROVE  KeepsToWhatItCovers'
  <2>1. \A q \in Paths \ {p} : record'.divergences[q] = record.divergences[q]
    BY <1>8 DEF Follows
  <2>2. /\ flags'.result = flags.result
        /\ flags'.quiet => flags.quiet
        /\ flags'.quiet /\ flags.result = "conflict" => record'.divergences[p] = record.divergences[p]
    BY <1>8 DEF Recording
  <2>3. CASE command = "commit"
    <3>1. flags.result \in {"pending", "conflict"}
      BY <1>1, <1>8, <2>3
    <3>2. flags'.quiet /\ flags'.result # "pending" =>
            flags.quiet /\ flags.result # "pending" /\ \A q \in covers : record'.divergences[q] = record.divergences[q]
      BY <1>1, <2>1, <2>2, <3>1
    <3> QED
      BY <1>6, <1>8, <2>2, <2>3, <3>1, <3>2
  <2>4. CASE command # "commit"
    <3>1. command # "discard"
      BY <1>2, <1>8
    <3> QED
      BY <1>3, <1>8, <2>4, <3>1
  <2> QED
    BY <2>3, <2>4
<1>9. ASSUME NEW p \in Paths, NEW v \in Locals, Edit(p, v) PROVE KeepsToWhatItCovers'
  BY <1>4, <1>9 DEF Edit
<1>10. ASSUME NEW p \in Paths, NEW v \in Versions, TheyCommit(p, v) PROVE KeepsToWhatItCovers'
  BY <1>4, <1>10 DEF TheyCommit
<1>11. ASSUME StartSync \/ StopSync \/ LoseNews PROVE KeepsToWhatItCovers'
  BY <1>4, <1>11 DEF StartSync, StopSync, LoseNews
<1>12. ASSUME ReconcileAll PROVE KeepsToWhatItCovers'
  BY <1>3, <1>12 DEF ReconcileAll, Reconcile
<1>13. ASSUME NEW ps \in SUBSET Paths, ReconcileBatch(ps) \/ Resolve(ps) PROVE KeepsToWhatItCovers'
  BY <1>3, <1>13 DEF ReconcileBatch, Reconcile, Resolve
<1>14. ASSUME NEW p \in Paths, ReadStore(p) PROVE KeepsToWhatItCovers'
  <2>1. step = "reconciling" /\ UNCHANGED <<command, step, covers, flags, record>>
    BY <1>14 DEF ReadStore
  <2> QED
    BY <1>1, <1>2, <1>3, <1>6, <2>1
<1>15. ASSUME NEW p \in Paths, Look(p) PROVE KeepsToWhatItCovers'
  <2>1. step = "reconciling" /\ UNCHANGED <<command, covers>>
    BY <1>15 DEF Look
  <2>2. CASE step' = "applying" /\ UNCHANGED <<record, flags>>
    BY <1>1, <1>2, <1>3, <1>6, <2>1, <2>2
  <2> QED
    BY <1>8, <1>15, <2>1, <2>2, LookIs
<1>16. ASSUME Apply PROVE KeepsToWhatItCovers'
  <2>1. step = "applying" /\ at \in Paths /\ Recording(at) /\ Follows(record', at, read[at])
    BY <1>16, ApplyIs
  <2> QED
    BY <1>8, <1>16, <2>1 DEF Apply
<1>17. ASSUME SettleTheirs \/ SettleFails PROVE KeepsToWhatItCovers'
  <2>1. step = "settling" /\ UNCHANGED <<command, covers, record>>
    BY <1>17 DEF SettleTheirs, SettleFails
  <2>2. flags'.result = flags.result /\ (flags'.quiet => flags.quiet)
    BY <1>1, <1>17, SettledFlagsAre
  <2> QED
    BY <1>1, <1>2, <1>3, <1>6, <2>1, <2>2
<1>18. ASSUME NEW failed \in SUBSET Paths, RemoveStaleTheirs(failed) PROVE KeepsToWhatItCovers'
  BY <1>3, <1>5, <1>18 DEF RemoveStaleTheirs
<1>19. ASSUME Save PROVE KeepsToWhatItCovers'
  <2>1. record' = record
    BY <1>19 DEF Save
  <2>2. CASE command = "commit" /\ Again /\ step' = "scanning" /\ UNCHANGED <<command, covers>>
    BY <1>6, <2>1, <2>2 DEF Again
  <2>3. CASE command \in {"discard", "resolve"} /\ UNCHANGED <<command, covers, todo, read>>
    BY <1>1, <1>3, <1>7, <2>3
  <2> QED
    BY <1>5, <1>19, <2>2, <2>3 DEF Save
<1>20. ASSUME Die \/ NothingToCommit \/ DiscardRefused PROVE KeepsToWhatItCovers'
  BY <1>5, <1>20 DEF Die, NothingToCommit, DiscardRefused
<1>21. ASSUME NEW ps \in SUBSET Paths, BeginCommit(ps) PROVE KeepsToWhatItCovers'
  BY <1>21 DEF BeginCommit, Begin, KeepsToWhatItCovers, Diverged
<1>22. ASSUME NEW ps \in SUBSET Paths, BeginDiscard(ps) PROVE KeepsToWhatItCovers'
  <2>1. command' = "discard" /\ covers' = ps /\ todo' = ps /\ read' = NotRead
    BY <1>2, <1>22 DEF BeginDiscard, Begin
  <2> QED
    BY <2>1, EmptyHanded DEF KeepsToWhatItCovers
<1>23. ASSUME NEW p \in Paths, ScanFile(p) PROVE KeepsToWhatItCovers'
  <2>1. todo' \subseteq todo /\ step = "scanning" /\ UNCHANGED <<command, step, covers, read, record, flags>>
    BY <1>23 DEF ScanFile
  <2> QED
    BY <1>1, <1>2, <1>3, <1>6, <1>7, <2>1
<1>24. ASSUME NEW pending \in BOOLEAN, Commit(pending) PROVE KeepsToWhatItCovers'
  <2>1. command = "commit" /\ command' = command /\ covers' = covers
    BY <1>24, CommitIs DEF Commit
  <2>2. CASE record' = record /\ flags' = [flags EXCEPT !.result = "pending"]
    <3>1. flags'.result = "pending"
      BY <1>1, <2>2, FlagsAre DEF Results
    <3> QED
      BY <1>6, <2>1, <3>1
  <2>3. CASE step' = "saving" /\ flags' = flags /\ record'.divergences = record.divergences
    BY <1>6, <2>1, <2>3
  <2> QED
    BY <1>24, <2>2, <2>3, CommitIs
<1>25. ASSUME CommitConflicts PROVE KeepsToWhatItCovers'
  <2>1. /\ command = "commit" /\ step = "scanning" /\ flags' = [flags EXCEPT !.result = "conflict"]
        /\ UNCHANGED <<command, covers, record>>
    BY <1>25 DEF CommitConflicts, CanCommit, Scanned
  <2>2. flags'.result = "conflict" /\ flags'.quiet = flags.quiet
    BY <1>1, <2>1, FlagsAre DEF Results
  <2> QED
    BY <1>2, <1>6, <2>1, <2>2
<1>26. ASSUME Choose PROVE KeepsToWhatItCovers'
  <2>1. /\ command = "discard" /\ step = "scanning" /\ UNCHANGED <<command, covers, read>>
        /\ todo' \subseteq covers
    BY <1>26 DEF Choose, Scanned, Changes
  <2> QED
    BY <1>1, <1>7, <2>1
<1>27. ASSUME NEW p \in Paths, ReadBoth(p) PROVE KeepsToWhatItCovers'
  <2>1. /\ command = "discard" /\ p \in covers
    BY <1>1, <1>2, <1>27 DEF ReadBoth
  <2>2. /\ UNCHANGED <<command, covers>> /\ todo' \subseteq todo
        /\ \A q \in Paths \ {p} : read'[q] = read[q]
    BY <1>1, <1>27 DEF ReadBoth
  <2> QED
    BY <1>1, <1>7, <2>1, <2>2
<1>28. ASSUME NEW p \in Paths, Discard(p) PROVE KeepsToWhatItCovers'
  <2>1. command = "discard" /\ UNCHANGED <<command, covers, todo>> /\ read' = [read EXCEPT ![p] = Unread]
    BY <1>2, <1>28 DEF Discard
  <2> QED
    BY <1>1, <1>7, <2>1
<1>29. ASSUME NEW p \in Paths, DiscardFails(p) PROVE KeepsToWhatItCovers'
  <2>1. command = "discard" /\ UNCHANGED <<command, covers, todo, read>>
    BY <1>2, <1>29 DEF DiscardFails
  <2> QED
    BY <1>1, <1>7, <2>1
<1>30. ASSUME UNCHANGED vars PROVE KeepsToWhatItCovers'
  BY <1>4, <1>30 DEF vars
<1> QED
  BY <1>9, <1>10, <1>11, <1>12, <1>13, <1>14, <1>15, <1>16, <1>17, <1>18, <1>19, <1>20, <1>21, <1>22, <1>23,
     <1>24, <1>25, <1>26, <1>27, <1>28, <1>29, <1>30 DEF Next

LEMMA StillSavedFirst ==
  ASSUME TypeOK, KnowsWhatItDoes, SavedFirst, [Next]_vars
  PROVE  SavedFirst'
<1>1. /\ step \in {"free", "scanning", "clearing"} \/ Pristine => record = saved
      /\ Free <=> step = "free"
      /\ read \in [Paths -> Versions \cup {Unread}] /\ found \in [Paths -> Locals]
  BY DEF SavedFirst, Unsaved, Free, TypeOK
<1>2. ASSUME saved' = record' PROVE SavedFirst'
  BY <1>2 DEF SavedFirst
<1>3. ASSUME step' \notin {"free", "scanning", "clearing", "choosing"} PROVE SavedFirst'
  BY <1>3 DEF SavedFirst, Unsaved, Pristine
<1>4. ASSUME UNCHANGED <<step, todo, read, found, record, saved>> PROVE SavedFirst'
  BY <1>1, <1>4 DEF SavedFirst, Unsaved, Pristine, InTheWay
<1>5. ASSUME NEW p \in Paths, NEW v \in Locals, Edit(p, v) PROVE SavedFirst'
  BY <1>4, <1>5 DEF Edit
<1>6. ASSUME NEW p \in Paths, NEW v \in Versions, TheyCommit(p, v) PROVE SavedFirst'
  BY <1>4, <1>6 DEF TheyCommit
<1>7. ASSUME StartSync \/ StopSync \/ LoseNews PROVE SavedFirst'
  BY <1>4, <1>7 DEF StartSync, StopSync, LoseNews
<1>8. ASSUME ReconcileAll PROVE SavedFirst'
  BY <1>3, <1>8 DEF ReconcileAll, Reconcile
<1>9. ASSUME NEW ps \in SUBSET Paths, ReconcileBatch(ps) \/ Resolve(ps) PROVE SavedFirst'
  BY <1>3, <1>9 DEF ReconcileBatch, Reconcile, Resolve
<1>10. ASSUME NEW p \in Paths, ReadStore(p) PROVE SavedFirst'
  BY <1>3, <1>10 DEF ReadStore
<1>11. ASSUME NEW p \in Paths, Look(p) PROVE SavedFirst'
  <2>1. step' \in {"applying", "settling", "reconciling"}
    BY <1>1, <1>11, LookIs, RecordingLeaves
  <2> QED
    BY <1>3, <2>1
<1>12. ASSUME Apply PROVE SavedFirst'
  <2>1. step' \in {"settling", "reconciling"}
    BY <1>1, <1>12, ApplyIs, RecordingLeaves
  <2> QED
    BY <1>3, <2>1
<1>13. ASSUME SettleTheirs \/ SettleFails PROVE SavedFirst'
  BY <1>3, <1>13 DEF SettleTheirs, SettleFails, DealtWith
<1>14. ASSUME NEW failed \in SUBSET Paths, RemoveStaleTheirs(failed) PROVE SavedFirst'
  <2>1. CASE command = "sync"
    BY <1>3, <1>14, <2>1 DEF RemoveStaleTheirs
  <2>2. CASE command # "sync"
    <3>1. step = "clearing"
      BY <1>14, <2>2 DEF RemoveStaleTheirs, KnowsWhatItDoes
    <3> QED
      BY <1>1, <1>2, <1>14, <3>1 DEF RemoveStaleTheirs
  <2> QED
    BY <2>1, <2>2
<1>15. ASSUME Save \/ Die PROVE SavedFirst'
  BY <1>2, <1>15 DEF Save, Die
<1>16. ASSUME NEW ps \in SUBSET Paths, BeginCommit(ps) \/ BeginDiscard(ps) PROVE SavedFirst'
  BY <1>1, <1>2, <1>16 DEF BeginCommit, BeginDiscard, Begin
<1>17. ASSUME NEW p \in Paths, ScanFile(p) PROVE SavedFirst'
  BY <1>1, <1>2, <1>17 DEF ScanFile
<1>18. ASSUME NothingToCommit \/ Choose PROVE SavedFirst'
  BY <1>1, <1>2, <1>18 DEF NothingToCommit, Choose, Scanned
<1>19. ASSUME NEW pending \in BOOLEAN, Commit(pending) PROVE SavedFirst'
  BY <1>3, <1>19 DEF Commit
<1>20. ASSUME CommitConflicts PROVE SavedFirst'
  BY <1>3, <1>20 DEF CommitConflicts
<1>21. ASSUME DiscardRefused PROVE SavedFirst'
  BY <1>1, <1>2, <1>21 DEF DiscardRefused, Pristine
<1>22. ASSUME NEW p \in Paths, ReadBoth(p) PROVE SavedFirst'
  BY <1>1, <1>2, <1>22 DEF ReadBoth, Pristine
<1>23. ASSUME NEW p \in Paths, Discard(p) PROVE SavedFirst'
  <2>1. /\ step' = "choosing" /\ todo' = {} /\ ~InTheWay
        /\ read' = [read EXCEPT ![p] = Unread] /\ found' = [found EXCEPT ![p] = Absent]
    BY <1>23 DEF Discard
  <2>2. ~InTheWay'
    BY <1>1, <2>1, Special DEF InTheWay
  <2> QED
    BY <2>1, <2>2 DEF SavedFirst, Unsaved, Pristine
<1>24. ASSUME NEW p \in Paths, DiscardFails(p) PROVE SavedFirst'
  BY <1>3, <1>24 DEF DiscardFails
<1>25. ASSUME UNCHANGED vars PROVE SavedFirst'
  BY <1>4, <1>25 DEF vars
<1> QED
  BY <1>5, <1>6, <1>7, <1>8, <1>9, <1>10, <1>11, <1>12, <1>13, <1>14, <1>15, <1>16, <1>17, <1>18, <1>19,
     <1>20, <1>21, <1>22, <1>23, <1>24, <1>25 DEF Next

LEMMA Types ==
  ASSUME TypeOK, KnowsWhatItDoes, KeepsToWhatItCovers, SavedFirst, [Next]_vars
  PROVE  TypeOK'
<1>1. Free' => record' = saved'
  BY StillSavedFirst DEF SavedFirst, Unsaved, Free
<1>2. FileTypes' /\ SyncTypes' /\ HandTypes' /\ StepTypes' /\ GhostTypes'
  BY FilesKeepType, SyncKeepsType, HandsKeepType, StepsKeepType, GhostsKeepType
<1> QED
  BY <1>1, <1>2 DEF TypeOK, FileTypes, SyncTypes, HandTypes, StepTypes, GhostTypes

LEMMA StillNoNewsBefore ==
  ASSUME TypeOK, NoNewsBefore, [Next]_vars
  PROVE  NoNewsBefore'
<1>1. resync => news = {} /\ syncing
  BY DEF NoNewsBefore, TypeOK
<1>2. news # {} => syncing
  BY DEF TypeOK
<1>3. ASSUME UNCHANGED <<resync, news>> \/ ~resync' \/ news' = {} PROVE NoNewsBefore'
  BY <1>1, <1>3 DEF NoNewsBefore
<1>4. ASSUME NEW p \in Paths, NEW v \in Versions, TheyCommit(p, v) PROVE NoNewsBefore'
  BY <1>1, <1>3, <1>4 DEF TheyCommit, Told
<1>5. ASSUME NEW pending \in BOOLEAN, Commit(pending) PROVE NoNewsBefore'
  BY <1>1, <1>3, <1>5 DEF Commit, Told
<1>6. ASSUME StartSync \/ StopSync \/ LoseNews \/ ReconcileAll PROVE NoNewsBefore'
  BY <1>2, <1>3, <1>6 DEF StartSync, StopSync, LoseNews, ReconcileAll, SyncEnds
<1>7. ASSUME NEW ps \in SUBSET Paths, ReconcileBatch(ps) PROVE NoNewsBefore'
  BY <1>3, <1>7 DEF ReconcileBatch
<1>8. ASSUME Die PROVE NoNewsBefore'
  BY <1>3, <1>8 DEF Die, SyncEnds, feed
<1>9. ASSUME NEW p \in Paths, NEW v \in Locals, Edit(p, v) PROVE NoNewsBefore'
  BY <1>3, <1>9 DEF Edit, feed
<1>10. ASSUME NEW p \in Paths, ReadStore(p) \/ Look(p) \/ ScanFile(p) \/ ReadBoth(p) PROVE NoNewsBefore'
  BY <1>3, <1>10 DEF ReadStore, Look, ScanFile, ReadBoth, feed
<1>11. ASSUME NEW p \in Paths, Discard(p) \/ DiscardFails(p) PROVE NoNewsBefore'
  BY <1>3, <1>11 DEF Discard, DiscardFails, feed
<1>12. ASSUME NEW ps \in SUBSET Paths, BeginCommit(ps) \/ BeginDiscard(ps) \/ Resolve(ps) PROVE NoNewsBefore'
  BY <1>3, <1>12 DEF BeginCommit, BeginDiscard, Begin, Resolve, feed
<1>13. ASSUME NEW failed \in SUBSET Paths, RemoveStaleTheirs(failed) PROVE NoNewsBefore'
  BY <1>3, <1>13 DEF RemoveStaleTheirs, feed
<1>14. ASSUME Apply \/ SettleTheirs \/ SettleFails \/ Save PROVE NoNewsBefore'
  BY <1>3, <1>14 DEF Apply, SettleTheirs, SettleFails, Save, feed
<1>15. ASSUME NothingToCommit \/ CommitConflicts \/ Choose \/ DiscardRefused PROVE NoNewsBefore'
  BY <1>3, <1>15 DEF NothingToCommit, CommitConflicts, Choose, DiscardRefused, feed
<1>16. ASSUME UNCHANGED vars PROVE NoNewsBefore'
  BY <1>3, <1>16 DEF vars
<1> QED
  BY <1>4, <1>5, <1>6, <1>7, <1>8, <1>9, <1>10, <1>11, <1>12, <1>13, <1>14, <1>15, <1>16 DEF Next

-----------------------------------------------------------------------------
(* The theirs files.                                                       *)

(* No theirs file waits to be settled or removed.                          *)
Flat == \A p \in Paths \ unsettled : theirs[p] = Theirs(record, p)

LEMMA FlatIs ==
  ASSUME KnowsWhatItDoes, TheirsFollow,
         \/ step \in {"free", "scanning", "reconciling", "applying"}
         \/ Pristine
         \/ step = "saving" /\ command \in {"sync", "commit"}
  PROVE  Flat
BY DEF TheirsFollow, Flat, Pristine

LEMMA TheirsSame ==
  ASSUME NEW r, NEW s, NEW p, r.divergences[p] = s.divergences[p]
  PROVE  Theirs(r, p) = Theirs(s, p)
BY DEF Theirs

LEMMA TheirsOfAgreed ==
  ASSUME NEW r, NEW p, r.divergences[p] = Agreed
  PROVE  Theirs(r, p) = Absent
BY Special DEF Theirs

LEMMA RecordingFollows ==
  ASSUME Flat, NEW p \in Paths, Recording(p), Follows(record', p, read[p]), UNCHANGED <<theirs, unsettled>>
  PROVE  TheirsFollow'
<1>1. \A q \in Paths \ {p} : record'.divergences[q] = record.divergences[q]
  BY DEF Follows
<1>2. \A q \in Paths \ {p} : Theirs(record', q) = Theirs(record, q)
  BY <1>1, TheirsSame
<1>3. CASE record'.divergences[p] = record.divergences[p]
  <2>1. Theirs(record', p) = Theirs(record, p)
    BY <1>3, TheirsSame
  <2> QED
    BY <1>2, <2>1 DEF Flat, TheirsFollow
<1>4. CASE record'.divergences[p] # record.divergences[p]
  <2>1. step' = "settling" /\ at' = p /\ flags'.changed
    BY <1>4 DEF Recording
  <2> QED
    BY <1>2, <2>1 DEF Flat, TheirsFollow
<1> QED
  BY <1>3, <1>4

LEMMA StillFollow ==
  ASSUME TypeOK, KnowsWhatItDoes, TheirsFollow, [Next]_vars
  PROVE  TheirsFollow'
<1>1. /\ read \in [Paths -> Versions \cup {Unread}] /\ found \in [Paths -> Locals]
      /\ theirs \in [Paths -> Versions] /\ record \in Records /\ saved \in Records
      /\ at \in Paths \cup {Unread} /\ (at # Unread <=> step \in {"applying", "settling"})
  BY DEF TypeOK
<1>2. /\ (step = "free" <=> command = "none")
      /\ command \in {"none", "sync", "commit", "discard", "resolve"}
      /\ command = "sync" => step \in {"reconciling", "applying", "settling", "saving"}
      /\ command = "commit" => step \in {"scanning", "reconciling", "applying", "settling", "saving"}
      /\ command = "discard" => step \in {"scanning", "choosing", "saving", "clearing"}
      /\ command = "resolve" => step \in {"saving", "clearing"}
      /\ step = "choosing" => command = "discard"
  BY DEF KnowsWhatItDoes, TypeOK, Free
<1>3. ASSUME Flat, UNCHANGED <<theirs, unsettled>>,
             \A p \in Paths : record'.divergences[p] = record.divergences[p]
      PROVE  TheirsFollow'
  <2>1. \A p \in Paths : Theirs(record', p) = Theirs(record, p)
    BY <1>3, TheirsSame
  <2> QED
    BY <1>3, <2>1 DEF Flat, TheirsFollow
<1>4. ASSUME UNCHANGED <<theirs, unsettled, record, command, step, at, flags, todo, read, found>> PROVE TheirsFollow'
  BY <1>4 DEF TheirsFollow, Theirs, Stale, Diverged, Pristine, InTheWay
(* A discard and a resolve leave what is stale to the end.                 *)
<1>5. ASSUME step \in {"choosing", "saving"}, command \in {"discard", "resolve"}, command' = command,
             step' \in {"choosing", "saving", "clearing"}, ~Pristine',
             NEW P \in SUBSET Paths, \A p \in P : record'.divergences[p] = Agreed,
             \A p \in Paths \ P : record'.divergences[p] = record.divergences[p],
             UNCHANGED <<theirs, unsettled>>
      PROVE  TheirsFollow'
  <2> SUFFICES ASSUME NEW p \in Paths \ unsettled'
               PROVE  theirs'[p] = Theirs(record', p) \/ (theirs'[p] # Absent /\ record'.divergences[p] = Agreed)
    BY <1>5 DEF TheirsFollow, Stale, Diverged
  <2>1. CASE p \in P
    BY <1>5, <2>1, TheirsOfAgreed
  <2>2. CASE p \notin P
    <3>1. theirs[p] = Theirs(record, p) \/ (theirs[p] # Absent /\ record.divergences[p] = Agreed)
      BY <1>5 DEF TheirsFollow, Stale, Diverged
    <3> QED
      BY <1>5, <2>2, <3>1, TheirsSame
  <2> QED
    BY <2>1, <2>2
<1>6. ASSUME NEW p \in Paths, NEW v \in Locals, Edit(p, v) PROVE TheirsFollow'
  BY <1>4, <1>6 DEF Edit
<1>7. ASSUME NEW p \in Paths, NEW v \in Versions, TheyCommit(p, v) PROVE TheirsFollow'
  BY <1>4, <1>7 DEF TheyCommit, ghosts
<1>8. ASSUME StartSync \/ StopSync \/ LoseNews PROVE TheirsFollow'
  BY <1>4, <1>8 DEF StartSync, StopSync, LoseNews, ghosts
<1>9. ASSUME ReconcileAll PROVE TheirsFollow'
  <2>1. Flat
    BY <1>9, FlatIs DEF ReconcileAll, Free
  <2> QED
    BY <1>3, <1>9, <2>1 DEF ReconcileAll, ghosts
<1>10. ASSUME NEW ps \in SUBSET Paths, ReconcileBatch(ps) \/ BeginCommit(ps) \/ BeginDiscard(ps) PROVE TheirsFollow'
  <2>1. Flat
    BY <1>10, FlatIs DEF ReconcileBatch, BeginCommit, BeginDiscard, Begin, Free
  <2> QED
    BY <1>3, <1>10, <2>1 DEF ReconcileBatch, BeginCommit, BeginDiscard, Begin, ghosts
<1>11. ASSUME NEW p \in Paths, ReadStore(p) \/ ScanFile(p) PROVE TheirsFollow'
  <2>1. Flat
    BY <1>11, FlatIs DEF ReadStore, ScanFile
  <2> QED
    BY <1>3, <1>11, <2>1 DEF ReadStore, ScanFile, ghosts
<1>12. ASSUME NEW p \in Paths, Look(p) PROVE TheirsFollow'
  <2>1. Flat /\ UNCHANGED <<theirs, unsettled>>
    BY <1>12, FlatIs DEF Look
  <2>2. CASE record' = record
    BY <1>3, <2>1, <2>2
  <2>3. CASE Recording(p) /\ Follows(record', p, read[p])
    BY <2>1, <2>3, RecordingFollows
  <2> QED
    BY <1>12, <2>2, <2>3, LookIs
<1>13. ASSUME Apply PROVE TheirsFollow'
  <2>1. Flat /\ UNCHANGED <<theirs, unsettled>>
    BY <1>13, FlatIs DEF Apply
  <2> QED
    BY <1>13, <2>1, ApplyIs, RecordingFollows
<1>14. ASSUME SettleTheirs \/ SettleFails PROVE TheirsFollow'
  <2>1. step = "settling" /\ at \in Paths /\ record' = record
    BY <1>1, <1>14 DEF SettleTheirs, SettleFails
  <2>2. \A p \in Paths \ (unsettled \cup {at}) : theirs[p] = Theirs(record, p)
    BY <2>1 DEF TheirsFollow
  <2>3. \A p \in Paths \ {at} : theirs'[p] = theirs[p] /\ (p \in unsettled' <=> p \in unsettled)
    BY <1>1, <1>14, <2>1 DEF SettleTheirs, SettleFails
  <2>4. at \notin unsettled' => theirs'[at] = Theirs(record, at)
    <3>1. CASE SettleFails
      BY <3>1 DEF SettleFails
    <3>2. CASE SettleTheirs /\ ToSettle(at)
      BY <1>1, <2>1, <3>2 DEF SettleTheirs
    <3>3. CASE SettleTheirs /\ ~ToSettle(at)
      <4>1. UNCHANGED <<theirs, unsettled>>
        BY <3>3 DEF SettleTheirs
      <4>2. at \notin unsettled => theirs[at] = Theirs(record, at) \/ flags.changed
        BY <2>1 DEF TheirsFollow
      <4>3. flags.changed => theirs[at] = Theirs(record, at)
        BY <3>3 DEF ToSettle, Forced
      <4> QED
        BY <4>1, <4>2, <4>3
    <3> QED
      BY <1>14, <3>1, <3>2, <3>3
  <2>5. \A p \in Paths \ unsettled' : theirs'[p] = Theirs(record', p)
    BY <2>1, <2>2, <2>3, <2>4
  <2> QED
    BY <2>5 DEF TheirsFollow
<1>15. ASSUME NEW failed \in SUBSET Paths, RemoveStaleTheirs(failed) PROVE TheirsFollow'
  <2>1. /\ step \in {"clearing", "reconciling"} /\ record' = record
        /\ theirs' = [p \in Paths |-> IF p \in Stale \ failed THEN Absent ELSE theirs[p]]
        /\ unsettled' = (unsettled \ (Stale \ failed)) \cup failed
    BY <1>15 DEF RemoveStaleTheirs, Done
  <2>2. \A p \in Stale : Theirs(record, p) = Absent
    BY TheirsOfAgreed DEF Stale, Diverged
  <2>3. \A p \in Paths \ (unsettled \cup Stale) : theirs[p] = Theirs(record, p)
    BY <2>1 DEF TheirsFollow
  <2>4. \A p \in Paths \ unsettled' : theirs'[p] = Theirs(record', p)
    BY <2>1, <2>2, <2>3
  <2> QED
    BY <2>4 DEF TheirsFollow
<1>16. ASSUME Save PROVE TheirsFollow'
  <2>1. UNCHANGED <<record, theirs>> /\ step \in {"saving", "choosing", "reconciling"}
    BY <1>16 DEF Save, Done
  <2>2. CASE command \in {"sync", "commit"} /\ unsettled' = unsettled
    <3>1. Flat
      BY <1>2, <2>1, <2>2, FlatIs
    <3> QED
      BY <1>3, <2>1, <2>2, <3>1
  <2>3. CASE /\ command \in {"discard", "resolve"} /\ command' = command
             /\ step' = "clearing" /\ unsettled' = unsettled
    <3>1. step \in {"choosing", "saving"} /\ ~Pristine'
      BY <1>2, <2>1, <2>3 DEF Pristine
    <3>2. /\ {} \in SUBSET Paths /\ \A p \in {} : record'.divergences[p] = Agreed
          /\ \A p \in Paths \ {} : record'.divergences[p] = record.divergences[p]
      BY <2>1
    <3> QED
      BY <1>5, <2>1, <2>3, <3>1, <3>2
  <2>4. CASE command = "discard" /\ unsettled' = unsettled \cup Stale
    <3>1. \A p \in Paths \ unsettled' : theirs'[p] = Theirs(record', p)
      BY <2>1, <2>4 DEF TheirsFollow
    <3> QED
      BY <3>1 DEF TheirsFollow
  <2> QED
    BY <1>16, <2>2, <2>3, <2>4 DEF Save
<1>17. ASSUME Die PROVE TheirsFollow'
  <2>1. /\ record' = saved /\ theirs' = theirs
        /\ unsettled' = unsettled \cup {p \in Paths : theirs[p] # Theirs(saved, p)}
    BY <1>17 DEF Die
  <2>2. \A p \in Paths \ unsettled' : theirs'[p] = Theirs(record', p)
    BY <2>1
  <2> QED
    BY <2>2 DEF TheirsFollow
<1>18. ASSUME NothingToCommit \/ CommitConflicts \/ Choose PROVE TheirsFollow'
  <2>1. Flat
    BY <1>18, FlatIs DEF NothingToCommit, CommitConflicts, CanCommit, Choose, Scanned
  <2> QED
    BY <1>3, <1>18, <2>1 DEF NothingToCommit, CommitConflicts, Choose, ghosts
<1>19. ASSUME NEW pending \in BOOLEAN, Commit(pending) PROVE TheirsFollow'
  <2>1. Flat /\ UNCHANGED <<theirs, unsettled>>
    BY <1>19, FlatIs DEF Commit, CanCommit, Scanned
  <2>2. pending => record' = record
    BY <1>19 DEF Commit
  <2>3. ~pending => record' = [record EXCEPT !.bases = [p \in Paths |-> IF p \in Changes THEN store'[p] ELSE @[p]]]
    BY <1>19 DEF Commit
  <2>4. record'.divergences = record.divergences
    BY <1>1, <2>2, <2>3, RecordParts
  <2> QED
    BY <1>3, <2>1, <2>4
<1>20. ASSUME DiscardRefused PROVE TheirsFollow'
  <2>1. Flat
    BY <1>20, FlatIs DEF DiscardRefused, Pristine
  <2> QED
    BY <1>3, <1>20, <2>1 DEF DiscardRefused, ghosts
<1>21. ASSUME NEW p \in Paths, ReadBoth(p) PROVE TheirsFollow'
  <2>1. Flat
    BY <1>21, FlatIs DEF ReadBoth, Pristine
  <2> QED
    BY <1>3, <1>21, <2>1 DEF ReadBoth, ghosts
<1>22. ASSUME NEW p \in Paths, Discard(p) PROVE TheirsFollow'
  <2>1. /\ step = "choosing" /\ step' = step /\ command' = command /\ todo' = {} /\ ~InTheWay
        /\ read' = [read EXCEPT ![p] = Unread] /\ found' = [found EXCEPT ![p] = Absent]
        /\ UNCHANGED <<theirs, unsettled>>
    BY <1>22 DEF Discard
  <2>2. ~InTheWay'
    BY <1>1, <2>1, Special DEF InTheWay
  <2>3. ~Pristine' /\ command = "discard"
    BY <1>2, <2>1, <2>2 DEF Pristine
  <2>4. record'.divergences[p] = Agreed /\ \A q \in Paths \ {p} : record'.divergences[q] = record.divergences[q]
    BY <1>22, DiscardIs DEF Follows
  <2>5. {p} \in SUBSET Paths /\ \A q \in {p} : record'.divergences[q] = Agreed
    BY <2>4
  <2> QED
    BY <1>5, <2>1, <2>3, <2>4, <2>5
<1>23. ASSUME NEW p \in Paths, DiscardFails(p) PROVE TheirsFollow'
  <2>1. /\ step = "choosing" /\ step' = "saving" /\ UNCHANGED <<command, record, theirs, unsettled>>
    BY <1>23 DEF DiscardFails, ghosts
  <2>2. ~Pristine' /\ command = "discard"
    BY <1>2, <2>1 DEF Pristine
  <2>3. /\ {} \in SUBSET Paths /\ \A q \in {} : record'.divergences[q] = Agreed
        /\ \A q \in Paths \ {} : record'.divergences[q] = record.divergences[q]
    BY <2>1
  <2> QED
    BY <1>5, <2>1, <2>2, <2>3
<1>24. ASSUME NEW ps \in SUBSET Paths, Resolve(ps) PROVE TheirsFollow'
  <2>1. Flat /\ UNCHANGED <<theirs, unsettled>> /\ step' = "saving" /\ command' = "resolve"
    BY <1>24, FlatIs DEF Resolve, Free
  <2>2. /\ \A p \in ps : record'.divergences[p] = Agreed
        /\ \A p \in Paths \ ps : record'.divergences[p] = record.divergences[p]
    BY <1>24, ResolveIs
  <2>3. /\ \A p \in ps : Theirs(record', p) = Absent
        /\ \A p \in Paths \ ps : Theirs(record', p) = Theirs(record, p)
    BY <2>2, TheirsSame, TheirsOfAgreed
  <2>4. ~Pristine'
    BY <2>1 DEF Pristine
  <2> QED
    BY <2>1, <2>2, <2>3, <2>4 DEF Flat, TheirsFollow, Stale, Diverged
<1>25. ASSUME UNCHANGED vars PROVE TheirsFollow'
  BY <1>4, <1>25 DEF vars
<1> QED
  BY <1>6, <1>7, <1>8, <1>9, <1>10, <1>11, <1>12, <1>13, <1>14, <1>15, <1>16, <1>17, <1>18, <1>19, <1>20,
     <1>21, <1>22, <1>23, <1>24, <1>25 DEF Next

-----------------------------------------------------------------------------
(* What `sync` knows of the Store.                                         *)

(* It follows while `sync` runs without having lost Changes.               *)
LEMMA FollowsStore ==
  ASSUME syncing' /\ ~resync' =>
           \A p \in Paths \ news' :
             /\ read'[p] \in {Unread, store'[p]}
             /\ Version(record', p) = store'[p] \/ InHand(p)'
             /\ command' # "sync" => Version(saved', p) = store'[p]
  PROVE  UpToDate'
BY DEF UpToDate, Version

LEMMA VersionSame ==
  ASSUME NEW r, NEW s, NEW p, r.bases[p] = s.bases[p], r.divergences[p] = s.divergences[p]
  PROVE  Version(r, p) = Version(s, p)
BY DEF Version

LEMMA VersionOfAgreed ==
  ASSUME NEW r, NEW p, r.divergences[p] = Agreed
  PROVE  Version(r, p) = r.bases[p]
BY DEF Version

(* A command at rest, or one other than `sync`, has nothing in hand.       *)
LEMMA NothingInHand ==
  ASSUME UpToDate, syncing, ~resync, NEW p \in Paths \ news, ~InHand(p)
  PROVE  Version(record, p) = store[p]
BY DEF UpToDate

LEMMA RecordingUpToDate ==
  ASSUME TypeOK, UpToDate, todo = {}, step' # "reconciling" \/ todo' = {},
         NEW p \in Paths, read[p] # Unread, Recording(p), Follows(record', p, read[p]),
         UNCHANGED <<command, feed, store, saved>>
  PROVE  UpToDate'
<1> SUFFICES ASSUME syncing' /\ ~resync', NEW q \in Paths \ news'
             PROVE  /\ read'[q] \in {Unread, store'[q]}
                    /\ Version(record', q) = store'[q] \/ InHand(q)'
                    /\ command' # "sync" => Version(saved', q) = store'[q]
  BY FollowsStore
<1>1. /\ read[q] \in {Unread, store[q]}
      /\ Version(record, q) = store[q] \/ InHand(q)
      /\ command # "sync" => Version(saved, q) = store[q]
  BY DEF UpToDate, feed
<1>2. UNCHANGED <<command, store, saved>> /\ read \in [Paths -> Versions \cup {Unread}]
  BY DEF TypeOK
<1>3. read' = read \/ read' = [read EXCEPT ![p] = Unread]
  BY DEF Recording
<1>4. CASE q = p
  <2>1. Version(record', q) = store'[q]
    BY <1>1, <1>2, <1>4 DEF Follows
  <2> QED
    BY <1>1, <1>2, <1>3, <1>4, <2>1 DEF Version
<1>5. CASE q # p
  <2>1. Version(record', q) = Version(record, q)
    BY <1>5, VersionSame DEF Follows
  <2>2. read'[q] = read[q]
    BY <1>2, <1>3, <1>5
  <2>3. InHand(q) => InHand(q)'
    BY <1>2, <2>2 DEF InHand
  <2> QED
    BY <1>1, <1>2, <2>1, <2>2, <2>3 DEF Version
<1> QED
  BY <1>4, <1>5

(* Another command keeps to the saved record until it saves one that       *)
(* follows the Store as well.                                              *)
LEMMA OthersUpToDate ==
  ASSUME UpToDate, command # "sync", command' # "sync",
         syncing' /\ ~resync' => syncing /\ ~resync,
         \A p \in Paths \ news' : p \notin news /\ store'[p] = store[p],
         \A p \in Paths \ news' : read'[p] \in {Unread, read[p], store[p]},
         \A p \in Paths \ news' :
           Version(record', p) \in {Version(record, p), Version(saved, p), store[p]},
         \A p \in Paths : Version(saved', p) \in {Version(record, p), Version(saved, p)}
  PROVE  UpToDate'
<1> SUFFICES ASSUME syncing' /\ ~resync', NEW p \in Paths \ news'
             PROVE  /\ read'[p] \in {Unread, store'[p]}
                    /\ Version(record', p) = store'[p] \/ InHand(p)'
                    /\ command' # "sync" => Version(saved', p) = store'[p]
  BY FollowsStore
<1>1. /\ read[p] \in {Unread, store[p]}
      /\ Version(record, p) = store[p]
      /\ Version(saved, p) = store[p]
  BY DEF UpToDate, InHand
<1>2. store'[p] = store[p]
  OBVIOUS
<1>3. Version(record', p) = store'[p] /\ Version(saved', p) = store'[p]
  BY <1>1, <1>2
<1>4. read'[p] \in {Unread, store'[p]}
  BY <1>1, <1>2
<1> QED
  BY <1>3, <1>4

LEMMA StillUpToDate ==
  ASSUME TypeOK, KnowsWhatItDoes, KeepsToWhatItCovers, NoNewsBefore, UpToDate, [Next]_vars
  PROVE  UpToDate'
<1>1. /\ store \in [Paths -> Versions] /\ record \in Records /\ saved \in Records
      /\ read \in [Paths -> Versions \cup {Unread}]
  BY DEF TypeOK
<1>2. /\ (step = "free" <=> command = "none")
      /\ command \in {"none", "sync", "commit", "discard", "resolve"}
      /\ command = "sync" => syncing /\ step \in {"reconciling", "applying", "settling", "saving"}
      /\ command = "commit" => step \in {"scanning", "reconciling", "applying", "settling", "saving"}
      /\ step = "free" => todo = {} /\ read = NotRead
      /\ step = "saving" /\ command \in {"sync", "commit"} => todo = {} /\ read = NotRead
      /\ step \in {"applying", "settling"} => todo = {} /\ read[at] # Unread
      /\ step = "settling" => Version(record, at) = read[at]
      /\ at \in Paths \cup {Unread} /\ (at # Unread <=> step \in {"applying", "settling"})
  BY DEF KnowsWhatItDoes, TypeOK, Free
<1>3. \A p \in Paths : NotRead[p] = Unread
  BY DEF NotRead
<1>4. ASSUME ~(syncing' /\ ~resync') PROVE UpToDate'
  BY <1>4 DEF UpToDate
(* What the lock's holder has stays, and the Store but for what is news.   *)
<1>5. ASSUME UNCHANGED <<command, step, todo, read, record, saved, syncing, resync>>,
             \A p \in Paths \ news' : p \notin news /\ store'[p] = store[p]
      PROVE  UpToDate'
  BY <1>5 DEF UpToDate, InHand, Version
(* A command other than `sync` does nothing to the Store and its feed.     *)
<1>6. ASSUME command # "sync", command' # "sync", UNCHANGED <<store, feed, record, saved>>,
             \A p \in Paths : read'[p] \in {Unread, read[p], store[p]}
      PROVE  UpToDate'
  <2>1. UNCHANGED <<store, syncing, resync, news, record, saved>>
    BY <1>6 DEF feed
  <2>2. \A p \in Paths : /\ Version(record', p) = Version(record, p)
                         /\ Version(saved', p) = Version(saved, p)
    BY <2>1
  <2> QED
    BY <1>6, <2>1, <2>2, OthersUpToDate
<1>7. ASSUME NEW p \in Paths, NEW v \in Locals, Edit(p, v) PROVE UpToDate'
  BY <1>5, <1>7 DEF Edit, feed
<1>8. ASSUME NEW p \in Paths, NEW v \in Versions, TheyCommit(p, v) PROVE UpToDate'
  <2>1. CASE syncing /\ ~resync
    BY <1>1, <1>5, <1>8, <2>1 DEF TheyCommit, Told
  <2>2. CASE ~(syncing /\ ~resync)
    BY <1>4, <1>8, <2>2 DEF TheyCommit
  <2> QED
    BY <2>1, <2>2
<1>9. ASSUME StartSync \/ StopSync \/ LoseNews PROVE UpToDate'
  BY <1>4, <1>9 DEF StartSync, StopSync, LoseNews, SyncEnds
<1>10. ASSUME ReconcileAll PROVE UpToDate'
  <2>1. /\ step = "free" /\ news' = {} /\ read' = NotRead /\ command' = "sync" /\ step' = "reconciling"
        /\ {p \in Paths : store[p] # Absent \/ record.bases[p] # Absent} \cup Diverged(record) \subseteq todo'
        /\ UNCHANGED <<store, record>>
    BY <1>2, <1>10 DEF ReconcileAll, Reconcile, Free, NoNewsBefore
  <2> SUFFICES ASSUME NEW p \in Paths
               PROVE  /\ read'[p] \in {Unread, store'[p]}
                      /\ Version(record', p) = store'[p] \/ InHand(p)'
                      /\ command' # "sync" => Version(saved', p) = store'[p]
    BY FollowsStore
  <2>2. CASE p \in todo'
    BY <1>3, <2>1, <2>2 DEF InHand
  <2>3. CASE p \notin todo'
    <3>1. store[p] = Absent /\ record.bases[p] = Absent /\ record.divergences[p] = Agreed
      BY <2>1, <2>3 DEF Diverged
    <3>2. Version(record', p) = store'[p]
      BY <2>1, <3>1, VersionOfAgreed
    <3> QED
      BY <1>3, <2>1, <3>2
  <2> QED
    BY <2>2, <2>3
<1>11. ASSUME NEW batch \in SUBSET Paths, ReconcileBatch(batch) PROVE UpToDate'
  <2>1. /\ step = "free" /\ syncing /\ ~resync /\ news' = news \ batch /\ read = NotRead /\ read' = NotRead
        /\ command' = "sync" /\ step' = "reconciling" /\ batch \subseteq todo'
        /\ UNCHANGED <<store, record>>
    BY <1>2, <1>11 DEF ReconcileBatch, Reconcile, Free
  <2> SUFFICES ASSUME NEW p \in Paths \ news'
               PROVE  /\ read'[p] \in {Unread, store'[p]}
                      /\ Version(record', p) = store'[p] \/ InHand(p)'
                      /\ command' # "sync" => Version(saved', p) = store'[p]
    BY FollowsStore
  <2>2. CASE p \in batch
    BY <1>3, <2>1, <2>2 DEF InHand
  <2>3. CASE p \notin batch
    <3>1. Version(record, p) = store[p]
      BY <1>2, <2>1, <2>3, NothingInHand DEF InHand
    <3> QED
      BY <1>3, <2>1, <3>1
  <2> QED
    BY <2>2, <2>3
<1>12. ASSUME NEW p \in Paths, ReadStore(p) PROVE UpToDate'
  <2>1. /\ step = "reconciling" /\ todo' = todo \ {p}
        /\ UNCHANGED <<store, saved, record, syncing, resync, news, command, step>>
        /\ read' = read \/ read' = [read EXCEPT ![p] = store[p]]
    BY <1>12 DEF ReadStore, feed
  <2>2. /\ \A q \in Paths : q # p => read'[q] = read[q]
        /\ read'[p] = read[p] \/ read'[p] = store[p]
    BY <1>1, <2>1
  <2>3. read' = read => Version(record, p) = store[p] \/ read[p] # Unread
    <3>1. CASE store[p] # record.bases[p] \/ p \in Diverged(record) \/ Retrying(p)
      BY <1>1, <1>12, <3>1, VersionsAre DEF ReadStore
    <3>2. CASE store[p] = record.bases[p] /\ p \notin Diverged(record)
      BY <3>2, VersionOfAgreed DEF Diverged
    <3> QED
      BY <3>1, <3>2
  <2>4. read' # read => read'[p] # Unread
    BY <1>1, <2>1, VersionsAre
  <2> SUFFICES ASSUME syncing /\ ~resync, NEW q \in Paths \ news
               PROVE  /\ read'[q] \in {Unread, store'[q]}
                      /\ Version(record', q) = store'[q] \/ InHand(q)'
                      /\ command' # "sync" => Version(saved', q) = store'[q]
    BY <2>1, FollowsStore
  <2>5. /\ read[q] \in {Unread, store[q]}
        /\ Version(record, q) = store[q] \/ InHand(q)
        /\ command # "sync" => Version(saved, q) = store[q]
    BY DEF UpToDate
  <2>6. read'[q] \in {Unread, store'[q]} /\ (command' # "sync" => Version(saved', q) = store'[q])
    BY <2>1, <2>2, <2>5
  <2>7. Version(record, q) = store[q] \/ InHand(q)'
    <3>1. CASE command # "sync"
      BY <2>5, <3>1 DEF InHand
    <3>2. CASE command = "sync" /\ q = p
      BY <2>1, <2>3, <2>4, <3>2 DEF InHand
    <3>3. CASE command = "sync" /\ q # p
      BY <2>1, <2>2, <2>5, <3>3 DEF InHand
    <3> QED
      BY <3>1, <3>2, <3>3
  <2> QED
    BY <2>1, <2>6, <2>7
<1>13. ASSUME NEW p \in Paths, Look(p) PROVE UpToDate'
  <2>1. UNCHANGED <<command, feed, store, saved, todo>> /\ step = "reconciling" /\ todo = {} /\ read[p] # Unread
    BY <1>13 DEF Look, Due
  <2>2. CASE step' = "applying" /\ UNCHANGED <<record, read>>
    BY <2>1, <2>2 DEF UpToDate, InHand, Version, feed
  <2>3. CASE Recording(p) /\ Follows(record', p, read[p])
    BY <2>1, <2>3, RecordingUpToDate
  <2> QED
    BY <1>13, <2>2, <2>3, LookIs
<1>14. ASSUME Apply PROVE UpToDate'
  <2>1. UNCHANGED <<command, feed, store, saved, todo>>
    BY <1>14 DEF Apply
  <2>2. at \in Paths /\ todo = {} /\ read[at] # Unread /\ Recording(at) /\ Follows(record', at, read[at])
    BY <1>14, ApplyIs, VersionsAre
  <2> QED
    BY <2>1, <2>2, RecordingUpToDate
<1>15. ASSUME SettleTheirs \/ SettleFails PROVE UpToDate'
  <2>1. /\ step = "settling" /\ step' = "reconciling" /\ todo' = todo /\ read' = [read EXCEPT ![at] = Unread]
        /\ UNCHANGED <<command, store, saved, record, syncing, resync, news>>
    BY <1>15 DEF SettleTheirs, SettleFails, DealtWith, feed
  <2>2. at \in Paths /\ todo = {} /\ read[at] # Unread /\ Version(record, at) = read[at]
    BY <1>2, <2>1
  <2> SUFFICES ASSUME syncing /\ ~resync, NEW q \in Paths \ news
               PROVE  /\ read'[q] \in {Unread, store'[q]}
                      /\ Version(record', q) = store'[q] \/ InHand(q)'
                      /\ command' # "sync" => Version(saved', q) = store'[q]
    BY <2>1, FollowsStore
  <2>3. /\ read[q] \in {Unread, store[q]}
        /\ Version(record, q) = store[q] \/ InHand(q)
        /\ command # "sync" => Version(saved, q) = store[q]
    BY DEF UpToDate
  <2>4. read'[q] \in {Unread, store'[q]} /\ (command' # "sync" => Version(saved', q) = store'[q])
    BY <1>1, <2>1, <2>3
  <2>5. Version(record, q) = store[q] \/ InHand(q)'
    <3>1. CASE q = at
      BY <2>2, <2>3, <3>1
    <3>2. CASE q # at
      <4>1. read'[q] = read[q]
        BY <1>1, <2>1, <3>2
      <4> QED
        BY <2>1, <2>2, <2>3, <4>1 DEF InHand
    <3> QED
      BY <3>1, <3>2
  <2> QED
    BY <2>1, <2>4, <2>5
<1>16. ASSUME NEW failed \in SUBSET Paths, RemoveStaleTheirs(failed) PROVE UpToDate'
  <2>1. CASE command = "sync"
    <3>1. /\ step = "reconciling" /\ todo = {} /\ read = NotRead
          /\ UNCHANGED <<command, todo, read, store, saved, record, syncing, resync, news>>
      BY <1>2, <1>16, <2>1 DEF RemoveStaleTheirs, Done, feed
    <3>2. \A p \in Paths : ~InHand(p)
      BY <1>3, <3>1 DEF InHand
    <3> QED
      BY <3>1, <3>2 DEF UpToDate, Version
  <2>2. CASE command # "sync"
    <3>1. command' # "sync" /\ UNCHANGED <<store, feed, record, saved>> /\ \A p \in Paths : read'[p] = Unread
      BY <1>3, <1>16, <2>2 DEF RemoveStaleTheirs, Release
    <3> QED
      BY <1>6, <2>2, <3>1
  <2> QED
    BY <2>1, <2>2
<1>17. ASSUME Save PROVE UpToDate'
  <2>1. /\ saved' = record /\ record' = record /\ UNCHANGED <<store, syncing, resync, news>>
        /\ read' = read \/ read' = NotRead
    BY <1>17 DEF Save, Release, feed
  <2>2. command = "sync" => todo = {} /\ read = NotRead
    BY <1>2, <1>17 DEF Save, Done
  <2>3. \A p \in Paths : ~InHand(p)
    BY <1>3, <2>2 DEF InHand
  <2> SUFFICES ASSUME syncing /\ ~resync, NEW q \in Paths \ news
               PROVE  /\ read'[q] \in {Unread, store'[q]}
                      /\ Version(record', q) = store'[q] \/ InHand(q)'
                      /\ command' # "sync" => Version(saved', q) = store'[q]
    BY <2>1, FollowsStore
  <2>4. read[q] \in {Unread, store[q]} /\ Version(record, q) = store[q]
    BY <2>3 DEF UpToDate
  <2> QED
    BY <1>3, <2>1, <2>4
<1>18. ASSUME Die PROVE UpToDate'
  <2>1. CASE command = "sync"
    BY <1>4, <1>18, <2>1 DEF Die, SyncEnds
  <2>2. CASE command # "sync"
    <3>1. /\ command' # "sync" /\ UNCHANGED <<store, syncing, resync, news, saved>> /\ record' = saved
          /\ \A p \in Paths : read'[p] = Unread
      BY <1>3, <1>18, <2>2 DEF Die, Release, feed
    <3>2. \A p \in Paths : /\ Version(record', p) = Version(saved, p)
                           /\ Version(saved', p) = Version(saved, p)
      BY <3>1
    <3> QED
      BY <2>2, <3>1, <3>2, OthersUpToDate
  <2> QED
    BY <2>1, <2>2
<1>19. ASSUME NEW ps \in SUBSET Paths, BeginCommit(ps) \/ BeginDiscard(ps) PROVE UpToDate'
  <2>1. /\ command # "sync" /\ command' # "sync" /\ UNCHANGED <<store, feed, record, saved, read>>
    BY <1>2, <1>19 DEF BeginCommit, BeginDiscard, Begin, Free
  <2> QED
    BY <1>6, <2>1
<1>20. ASSUME NEW p \in Paths, ScanFile(p) PROVE UpToDate'
  <2>1. /\ command # "sync" /\ command' # "sync" /\ UNCHANGED <<store, feed, record, saved, read>>
    BY <1>2, <1>20 DEF ScanFile
  <2> QED
    BY <1>6, <2>1
<1>21. ASSUME NothingToCommit PROVE UpToDate'
  <2>1. /\ command # "sync" /\ command' # "sync" /\ UNCHANGED <<store, feed, record, saved>>
        /\ \A p \in Paths : read'[p] = Unread
    BY <1>3, <1>21 DEF NothingToCommit, Scanned, Release
  <2> QED
    BY <1>6, <2>1
<1>22. ASSUME CommitConflicts \/ Choose PROVE UpToDate'
  <2>1. /\ command # "sync" /\ command' # "sync" /\ UNCHANGED <<store, feed, record, saved, read>>
    BY <1>22 DEF CommitConflicts, CanCommit, Choose, Scanned
  <2> QED
    BY <1>6, <2>1
<1>23. ASSUME DiscardRefused PROVE UpToDate'
  <2>1. /\ command # "sync" /\ command' # "sync" /\ UNCHANGED <<store, feed, record, saved>>
        /\ \A p \in Paths : read'[p] = Unread
    BY <1>2, <1>3, <1>23 DEF DiscardRefused, Release
  <2> QED
    BY <1>6, <2>1
<1>24. ASSUME NEW p \in Paths, ReadBoth(p) PROVE UpToDate'
  <2>1. /\ command # "sync" /\ command' # "sync" /\ UNCHANGED <<store, feed, record, saved>>
        /\ read' = [read EXCEPT ![p] = store[p]]
    BY <1>2, <1>24 DEF ReadBoth
  <2>2. \A q \in Paths : read'[q] \in {Unread, read[q], store[q]}
    BY <1>1, <2>1
  <2> QED
    BY <1>6, <2>1, <2>2
<1>25. ASSUME NEW p \in Paths, Discard(p) PROVE UpToDate'
  <2>1. /\ command # "sync" /\ command' # "sync" /\ UNCHANGED <<store, syncing, resync, news, saved>>
        /\ read' = [read EXCEPT ![p] = Unread]
    BY <1>2, <1>25 DEF Discard, feed
  <2>2. read[p] \in Versions /\ Follows(record', p, read[p])
    BY <1>25, DiscardIs
  <2>3. \A q \in Paths \ {p} : Version(record', q) = Version(record, q)
    BY <2>2, VersionSame DEF Follows
  <2>4. Version(record', p) = read[p]
    BY <2>2 DEF Follows
  <2>5. CASE syncing /\ ~resync
    <3>1. p \notin news => read[p] = store[p]
      BY <2>2, <2>5, VersionsAre DEF UpToDate
    <3>2. \A q \in Paths \ news' : Version(record', q) \in {Version(record, q), Version(saved, q), store[q]}
      BY <2>1, <2>3, <2>4, <3>1
    <3>3. \A q \in Paths : read'[q] \in {Unread, read[q], store[q]}
      BY <1>1, <2>1
    <3>4. \A q \in Paths : Version(saved', q) = Version(saved, q)
      BY <2>1
    <3> QED
      BY <2>1, <3>2, <3>3, <3>4, OthersUpToDate
  <2>6. CASE ~(syncing /\ ~resync)
    BY <1>4, <2>1, <2>6
  <2> QED
    BY <2>5, <2>6
<1>26. ASSUME NEW p \in Paths, DiscardFails(p) PROVE UpToDate'
  <2>1. /\ command # "sync" /\ command' # "sync" /\ UNCHANGED <<store, feed, record, saved, read>>
    BY <1>2, <1>26 DEF DiscardFails
  <2> QED
    BY <1>6, <2>1
<1>27. ASSUME NEW ps \in SUBSET Paths, Resolve(ps) PROVE UpToDate'
  <2>1. /\ command # "sync" /\ command' # "sync" /\ UNCHANGED <<store, syncing, resync, news, saved, read>>
    BY <1>2, <1>27 DEF Resolve, Free, feed
  <2>2. /\ \A p \in ps : /\ record.divergences[p] # Agreed
                         /\ record'.bases[p] = record.divergences[p] /\ record'.divergences[p] = Agreed
        /\ \A p \in Paths \ ps : /\ record'.bases[p] = record.bases[p]
                                 /\ record'.divergences[p] = record.divergences[p]
    BY <1>27, ResolveIs
  <2>3. \A p \in Paths : Version(record', p) = Version(record, p)
    BY <2>2 DEF Version
  <2>4. \A p \in Paths : Version(saved', p) = Version(saved, p)
    BY <2>1
  <2> QED
    BY <2>1, <2>3, <2>4, OthersUpToDate
<1>28. ASSUME NEW pending \in BOOLEAN, Commit(pending) PROVE UpToDate'
  <2>1. /\ command # "sync" /\ command' # "sync" /\ UNCHANGED <<syncing, resync, saved, read>>
        /\ Told(Changes)
    BY <1>28, CommitIs DEF Commit
  <2>2. /\ \A p \in Paths \ Changes : store'[p] = store[p]
        /\ \A p \in Paths \ Changes :
             record'.bases[p] = record.bases[p] /\ record'.divergences[p] = record.divergences[p]
    BY <1>28, CommitIs
  <2>3. CASE syncing /\ ~resync
    <3>1. \A p \in Paths \ news' : p \notin news /\ p \notin Changes
      BY <2>1, <2>3 DEF Told
    <3>2. \A p \in Paths \ news' : Version(record', p) = Version(record, p)
      BY <2>2, <3>1, VersionSame
    <3>3. \A p \in Paths : Version(saved', p) = Version(saved, p)
      BY <2>1
    <3> QED
      BY <2>1, <2>2, <2>3, <3>1, <3>2, <3>3, OthersUpToDate
  <2>4. CASE ~(syncing /\ ~resync)
    BY <1>4, <2>1, <2>4
  <2> QED
    BY <2>3, <2>4
<1>29. ASSUME UNCHANGED vars PROVE UpToDate'
  BY <1>5, <1>29 DEF vars
<1> QED
  BY <1>7, <1>8, <1>9, <1>10, <1>11, <1>12, <1>13, <1>14, <1>15, <1>16, <1>17, <1>18, <1>19, <1>20, <1>21,
     <1>22, <1>23, <1>24, <1>25, <1>26, <1>27, <1>28, <1>29 DEF Next

-----------------------------------------------------------------------------
(* What only the person has, and what their files are made from.           *)

LEMMA StillMine ==
  ASSUME TypeOK, KnowsWhatItDoes, KeepsToWhatItCovers, MineDiffers, [Next]_vars
  PROVE  MineDiffers'
<1>1. /\ folder \in [Paths -> Locals] /\ mine \subseteq Paths
      /\ \A p \in mine : Held(folder[p]) # saved.bases[p] /\ Held(folder[p]) # record.bases[p]
  BY DEF TypeOK, MineDiffers
<1>2. ASSUME UNCHANGED folder, mine' \subseteq mine, saved' \in {saved, record}, record' \in {saved, record}
      PROVE  MineDiffers'
  BY <1>1, <1>2 DEF MineDiffers
<1>3. ASSUME UNCHANGED saved, mine' \subseteq mine,
             \A p \in mine' : folder'[p] = folder[p] /\ (record'.bases[p] = record.bases[p] \/ Held(folder[p]) # record'.bases[p])
      PROVE  MineDiffers'
  BY <1>1, <1>3 DEF MineDiffers
<1>4. ASSUME NEW p \in Paths, NEW v \in Locals, Edit(p, v) PROVE MineDiffers'
  <2>1. /\ folder' = [folder EXCEPT ![p] = v] /\ UNCHANGED <<saved, record>>
        /\ mine' = IF Held(v) \in {saved.bases[p], record.bases[p]} THEN mine \ {p} ELSE mine \cup {p}
    BY <1>4 DEF Edit
  <2>2. folder'[p] = v /\ \A q \in Paths \ {p} : folder'[q] = folder[q]
    BY <1>1, <2>1
  <2>3. \A q \in mine' : Held(folder'[q]) # saved.bases[q] /\ Held(folder'[q]) # record.bases[q]
    BY <1>1, <2>1, <2>2
  <2> QED
    BY <2>1, <2>3 DEF MineDiffers
<1>5. ASSUME NEW p \in Paths, Look(p) PROVE MineDiffers'
  <2>1. UNCHANGED <<folder, saved>>
    BY <1>5 DEF Look
  <2>2. CASE UNCHANGED <<record, mine>>
    BY <1>2, <2>1, <2>2
  <2>3. CASE /\ Follows(record', p, read[p])
             /\ record'.bases[p] = record.bases[p] \/ (Same(p, read[p]) /\ record'.bases[p] = read[p])
             /\ mine' = IF Same(p, read[p]) THEN mine \ {p} ELSE mine
    <3>1. \A q \in mine' : record'.bases[q] = record.bases[q]
      BY <1>1, <2>3 DEF Follows
    <3> QED
      BY <1>3, <2>1, <2>3, <3>1
  <2> QED
    BY <1>5, <2>2, <2>3, LookIs
<1>6. ASSUME Apply PROVE MineDiffers'
  <2>1. /\ at \in Paths /\ folder' = [folder EXCEPT ![at] = read[at]] /\ mine' = mine \ {at}
        /\ \A q \in Paths \ {at} : record'.bases[q] = record.bases[q]
    BY <1>6, ApplyIs DEF Follows
  <2>2. \A q \in mine' : folder'[q] = folder[q]
    BY <1>1, <2>1
  <2> QED
    BY <1>1, <1>3, <1>6, <2>1, <2>2 DEF Apply
<1>7. ASSUME Save \/ Die PROVE MineDiffers'
  BY <1>2, <1>7 DEF Save, Die
<1>8. ASSUME NEW pending \in BOOLEAN, Commit(pending) PROVE MineDiffers'
  <2>1. /\ UNCHANGED <<folder, saved>> /\ mine' = mine \ {p \in Changes : Held(folder[p]) = store'[p]}
    BY <1>8 DEF Commit
  <2>2. CASE record' = record
    BY <1>2, <2>1, <2>2
  <2>3. CASE /\ \A p \in Changes : record'.bases[p] = store'[p]
             /\ \A p \in Paths \ Changes : record'.bases[p] = record.bases[p]
    BY <1>1, <1>3, <2>1, <2>3
  <2> QED
    BY <1>8, <2>2, <2>3, CommitIs
<1>9. ASSUME NEW p \in Paths, Discard(p) PROVE MineDiffers'
  <2>1. \A q \in Paths \ {p} : folder'[q] = folder[q] /\ record'.bases[q] = record.bases[q]
    BY <1>9, DiscardIs DEF Follows
  <2> QED
    BY <1>1, <1>3, <1>9, <2>1 DEF Discard
<1>10. ASSUME NEW ps \in SUBSET Paths, Resolve(ps) PROVE MineDiffers'
  <2>1. /\ UNCHANGED <<folder, saved>>
        /\ mine' = mine \ {p \in ps : Held(folder[p]) = record.divergences[p]}
    BY <1>10 DEF Resolve
  <2>2. /\ \A p \in ps : record'.bases[p] = record.divergences[p]
        /\ \A p \in Paths \ ps : record'.bases[p] = record.bases[p]
    BY <1>10, ResolveIs
  <2> QED
    BY <1>1, <1>3, <2>1, <2>2
<1>11. ASSUME NEW p \in Paths, NEW v \in Versions, TheyCommit(p, v) PROVE MineDiffers'
  BY <1>2, <1>11 DEF TheyCommit, ghosts
<1>12. ASSUME StartSync \/ StopSync \/ LoseNews \/ ReconcileAll PROVE MineDiffers'
  BY <1>2, <1>12 DEF StartSync, StopSync, LoseNews, ReconcileAll, ghosts
<1>13. ASSUME NEW ps \in SUBSET Paths, ReconcileBatch(ps) \/ BeginCommit(ps) \/ BeginDiscard(ps) PROVE MineDiffers'
  BY <1>2, <1>13 DEF ReconcileBatch, BeginCommit, BeginDiscard, Begin, ghosts
<1>14. ASSUME NEW p \in Paths, ReadStore(p) \/ ScanFile(p) \/ ReadBoth(p) \/ DiscardFails(p) PROVE MineDiffers'
  BY <1>2, <1>14 DEF ReadStore, ScanFile, ReadBoth, DiscardFails, ghosts
<1>15. ASSUME SettleTheirs \/ SettleFails PROVE MineDiffers'
  BY <1>2, <1>15 DEF SettleTheirs, SettleFails
<1>16. ASSUME NEW failed \in SUBSET Paths, RemoveStaleTheirs(failed) PROVE MineDiffers'
  BY <1>2, <1>16 DEF RemoveStaleTheirs
<1>17. ASSUME NothingToCommit \/ CommitConflicts \/ Choose \/ DiscardRefused PROVE MineDiffers'
  BY <1>2, <1>17 DEF NothingToCommit, CommitConflicts, Choose, DiscardRefused, ghosts
<1>18. ASSUME UNCHANGED vars PROVE MineDiffers'
  BY <1>2, <1>18 DEF vars
<1> QED
  BY <1>4, <1>5, <1>6, <1>7, <1>8, <1>9, <1>10, <1>11, <1>12, <1>13, <1>14, <1>15, <1>16, <1>17, <1>18 DEF Next

LEMMA StillMerged ==
  ASSUME TypeOK, KnowsWhatItDoes, KeepsToWhatItCovers, TheirsFollow, BasesAreMerged, [Next]_vars
  PROVE  BasesAreMerged'
<1>1. /\ merged \in [Paths -> SUBSET Contents]
      /\ \A p \in Paths : File(saved.bases[p]) \subseteq merged[p] /\ File(record.bases[p]) \subseteq merged[p]
  BY DEF TypeOK, BasesAreMerged
<1>2. ASSUME UNCHANGED merged, saved' \in {saved, record}, record' \in {saved, record}
      PROVE  BasesAreMerged'
  BY <1>1, <1>2 DEF BasesAreMerged
<1>3. ASSUME UNCHANGED saved, \A p \in Paths : merged[p] \subseteq merged'[p],
             \A p \in Paths : record'.bases[p] = record.bases[p] \/ File(record'.bases[p]) \subseteq merged'[p]
      PROVE  BasesAreMerged'
  <2>1. \A p \in Paths : File(saved'.bases[p]) \subseteq merged'[p] /\ File(record'.bases[p]) \subseteq merged'[p]
    BY <1>1, <1>3
  <2> QED
    BY <2>1 DEF BasesAreMerged
<1>4. ASSUME NEW p \in Paths, UNCHANGED saved, merged' = [merged EXCEPT ![p] = @ \cup File(record'.bases[p])],
             \A q \in Paths \ {p} : record'.bases[q] = record.bases[q]
      PROVE  BasesAreMerged'
  <2>1. /\ \A q \in Paths : merged[q] \subseteq merged'[q]
        /\ File(record'.bases[p]) \subseteq merged'[p]
    BY <1>1, <1>4
  <2> QED
    BY <1>3, <1>4, <2>1
<1>5. ASSUME NEW p \in Paths, Look(p) PROVE BasesAreMerged'
  <2>1. saved' = saved
    BY <1>5 DEF Look
  <2>2. CASE UNCHANGED <<record, merged>>
    BY <1>2, <2>1, <2>2
  <2>3. CASE /\ Follows(record', p, read[p])
             /\ record'.bases[p] = record.bases[p] \/ (Same(p, read[p]) /\ record'.bases[p] = read[p])
             /\ merged' = IF Same(p, read[p]) THEN [merged EXCEPT ![p] = @ \cup File(read[p])] ELSE merged
    <3>1. \A q \in Paths : merged[q] \subseteq merged'[q]
      BY <1>1, <2>3
    <3>2. Same(p, read[p]) => File(read[p]) \subseteq merged'[p]
      BY <1>1, <2>3
    <3>3. \A q \in Paths \ {p} : record'.bases[q] = record.bases[q]
      BY <2>3 DEF Follows
    <3> QED
      BY <1>3, <2>1, <2>3, <3>1, <3>2, <3>3
  <2> QED
    BY <1>5, <2>2, <2>3, LookIs
<1>6. ASSUME Apply PROVE BasesAreMerged'
  <2>1. /\ at \in Paths /\ merged' = [merged EXCEPT ![at] = @ \cup File(read[at])]
        /\ record'.bases[at] = read[at]
        /\ \A q \in Paths \ {at} : record'.bases[q] = record.bases[q]
    BY <1>6, ApplyIs DEF Follows
  <2> QED
    BY <1>4, <1>6, <2>1 DEF Apply
<1>7. ASSUME Save \/ Die PROVE BasesAreMerged'
  BY <1>2, <1>7 DEF Save, Die
<1>8. ASSUME NEW pending \in BOOLEAN, Commit(pending) PROVE BasesAreMerged'
  <2>1. /\ saved' = saved
        /\ merged' = [p \in Paths |-> IF p \in Changes THEN merged[p] \cup File(store'[p]) ELSE merged[p]]
    BY <1>8 DEF Commit
  <2>2. /\ \A p \in Paths : merged[p] \subseteq merged'[p]
        /\ \A p \in Paths : p \in Changes => File(store'[p]) \subseteq merged'[p]
    BY <2>1
  <2>3. CASE record' = record
    BY <1>3, <2>1, <2>2, <2>3
  <2>4. CASE /\ \A p \in Changes : record'.bases[p] = store'[p]
             /\ \A p \in Paths \ Changes : record'.bases[p] = record.bases[p]
    BY <1>3, <2>1, <2>2, <2>4
  <2> QED
    BY <1>8, <2>3, <2>4, CommitIs
<1>9. ASSUME NEW p \in Paths, Discard(p) PROVE BasesAreMerged'
  <2>1. /\ merged' = [merged EXCEPT ![p] = @ \cup File(read[p])]
        /\ record'.bases[p] = read[p]
        /\ \A q \in Paths \ {p} : record'.bases[q] = record.bases[q]
    BY <1>9, DiscardIs DEF Follows
  <2> QED
    BY <1>4, <1>9, <2>1 DEF Discard
<1>10. ASSUME NEW ps \in SUBSET Paths, Resolve(ps) PROVE BasesAreMerged'
  <2>1. /\ saved' = saved
        /\ merged' = [p \in Paths |-> IF p \notin ps THEN merged[p]
                                ELSE merged[p] \cup File(theirs[p])
                                       \cup (IF p \in unsettled THEN File(record.divergences[p]) ELSE {})]
    BY <1>10 DEF Resolve
  <2>2. \A p \in Paths : merged[p] \subseteq merged'[p]
    BY <2>1
  <2>3. /\ \A p \in ps : record'.bases[p] = record.divergences[p]
        /\ \A p \in Paths \ ps : record'.bases[p] = record.bases[p]
    BY <1>10, ResolveIs
  <2>4. Flat
    BY <1>10, FlatIs DEF Resolve, Free
  <2>5. ASSUME NEW p \in ps PROVE File(record'.bases[p]) \subseteq merged'[p]
    <3>1. CASE p \in unsettled
      BY <2>1, <2>3, <3>1
    <3>2. CASE p \notin unsettled /\ record.divergences[p] \in Contents
      <4>1. theirs[p] = record.divergences[p]
        BY <2>4, <3>2 DEF Flat, Theirs
      <4> QED
        BY <2>1, <2>3, <4>1
    <3>3. CASE record.divergences[p] \notin Contents
      BY <2>3, <3>3 DEF File
    <3> QED
      BY <3>1, <3>2, <3>3
  <2> QED
    BY <1>3, <2>1, <2>2, <2>3, <2>5
<1>11. ASSUME NEW p \in Paths, NEW v \in Locals, Edit(p, v) PROVE BasesAreMerged'
  BY <1>2, <1>11 DEF Edit
<1>12. ASSUME NEW p \in Paths, NEW v \in Versions, TheyCommit(p, v) PROVE BasesAreMerged'
  BY <1>2, <1>12 DEF TheyCommit, ghosts
<1>13. ASSUME StartSync \/ StopSync \/ LoseNews \/ ReconcileAll PROVE BasesAreMerged'
  BY <1>2, <1>13 DEF StartSync, StopSync, LoseNews, ReconcileAll, ghosts
<1>14. ASSUME NEW ps \in SUBSET Paths, ReconcileBatch(ps) \/ BeginCommit(ps) \/ BeginDiscard(ps) PROVE BasesAreMerged'
  BY <1>2, <1>14 DEF ReconcileBatch, BeginCommit, BeginDiscard, Begin, ghosts
<1>15. ASSUME NEW p \in Paths, ReadStore(p) \/ ScanFile(p) \/ ReadBoth(p) \/ DiscardFails(p) PROVE BasesAreMerged'
  BY <1>2, <1>15 DEF ReadStore, ScanFile, ReadBoth, DiscardFails, ghosts
<1>16. ASSUME SettleTheirs \/ SettleFails PROVE BasesAreMerged'
  BY <1>2, <1>16 DEF SettleTheirs, SettleFails
<1>17. ASSUME NEW failed \in SUBSET Paths, RemoveStaleTheirs(failed) PROVE BasesAreMerged'
  BY <1>2, <1>17 DEF RemoveStaleTheirs
<1>18. ASSUME NothingToCommit \/ CommitConflicts \/ Choose \/ DiscardRefused PROVE BasesAreMerged'
  BY <1>2, <1>18 DEF NothingToCommit, CommitConflicts, Choose, DiscardRefused, ghosts
<1>19. ASSUME UNCHANGED vars PROVE BasesAreMerged'
  BY <1>2, <1>19 DEF vars
<1> QED
  BY <1>5, <1>6, <1>7, <1>8, <1>9, <1>10, <1>11, <1>12, <1>13, <1>14, <1>15, <1>16, <1>17, <1>18, <1>19 DEF Next

-----------------------------------------------------------------------------
(* The invariant holds from the start.                                     *)

LEMMA Initially ==
  ASSUME Init
  PROVE  IInv
<1>1. /\ store \in [Paths -> Versions] /\ folder = store
      /\ theirs = [p \in Paths |-> Absent]
      /\ saved = [bases |-> store, divergences |-> [p \in Paths |-> Agreed]] /\ record = saved
      /\ syncing = FALSE /\ resync = FALSE /\ news = {} /\ failing = {}
      /\ command = "none" /\ step = "free" /\ covers = {} /\ todo = {} /\ read = NotRead
      /\ found = NotFound /\ at = Unread /\ flags = NoFlags
      /\ mine = {} /\ unsettled = {} /\ merged = [p \in Paths |-> File(store[p])]
  BY DEF Init
<1>2. saved \in Records /\ record \in Records /\ saved.bases = store /\ \A p \in Paths : record.divergences[p] = Agreed
  BY <1>1 DEF Records
<1>3. merged \in [Paths -> SUBSET Contents]
  BY <1>1, FileIs
<1>4. store \in [Paths -> Locals] /\ theirs \in [Paths -> Versions]
  BY <1>1, VersionsAre
<1>5. TypeOK
  BY <1>1, <1>2, <1>3, <1>4, EmptyHanded DEF TypeOK, Free
<1>6. KnowsWhatItDoes
  BY <1>1, EmptyHanded DEF KnowsWhatItDoes, Free
<1>7. KeepsToWhatItCovers /\ SavedFirst /\ UpToDate /\ NoNewsBefore /\ MineDiffers
  BY <1>1 DEF KeepsToWhatItCovers, SavedFirst, UpToDate, NoNewsBefore, MineDiffers
<1>8. TheirsFollow
  BY <1>1, <1>2, TheirsOfAgreed DEF TheirsFollow
<1>9. BasesAreMerged
  BY <1>1, <1>2 DEF BasesAreMerged
<1> QED
  BY <1>5, <1>6, <1>7, <1>8, <1>9 DEF IInv

LEMMA Inductive ==
  ASSUME IInv, [Next]_vars
  PROVE  IInv'
<1>1. /\ TypeOK /\ KnowsWhatItDoes /\ KeepsToWhatItCovers /\ SavedFirst /\ TheirsFollow
      /\ UpToDate /\ NoNewsBefore /\ MineDiffers /\ BasesAreMerged
  BY DEF IInv
<1>2. TypeOK' /\ KnowsWhatItDoes' /\ KeepsToWhatItCovers' /\ SavedFirst'
  BY <1>1, Types, StillKnows, StillCovers, StillSavedFirst
<1>3. TheirsFollow' /\ UpToDate' /\ NoNewsBefore'
  BY <1>1, StillFollow, StillUpToDate, StillNoNewsBefore
<1>4. MineDiffers' /\ BasesAreMerged'
  BY <1>1, StillMine, StillMerged
<1> QED
  BY <1>2, <1>3, <1>4 DEF IInv

-----------------------------------------------------------------------------
(* The theorems.                                                           *)

(* Whatever order the person's edits and commands, others' Commits, `sync`  *)
(* and failures come in, the invariant above holds.                         *)
THEOREM WorkingCopyInductive == Spec => []IInv
<1>1. Init => IInv
  BY Initially
<1>2. IInv /\ [Next]_vars => IInv'
  BY Inductive
<1> QED
  BY <1>1, <1>2, PTL DEF Spec

(* Every variable has a value of its kind, and while nobody holds the lock  *)
(* the record is the saved one (WorkingCopy::lock and save).                *)
THEOREM TypeCorrect == Spec => []TypeOK
<1>1. IInv => TypeOK
  BY DEF IInv
<1> QED
  BY <1>1, WorkingCopyInductive, PTL

(* While nobody works on it, each theirs file holds the version the record  *)
(* says, and there is none of a Path that isn't Diverged, unless settling   *)
(* it failed or the record wasn't saved after (settle_theirs,               *)
(* remove_stale_theirs).                                                    *)
THEOREM TheirsAreAsRecorded == Spec => []TheirsAsRecorded
<1>1. IInv => TheirsAsRecorded
  <2> SUFFICES ASSUME IInv, Free PROVE \A p \in Paths \ unsettled : theirs[p] = Theirs(saved, p)
    BY DEF TheirsAsRecorded
  <2>1. Flat /\ record = saved
    BY FlatIs DEF IInv, TypeOK, Free
  <2> QED
    BY <2>1 DEF Flat
<1> QED
  BY <1>1, WorkingCopyInductive, PTL

(* Once `sync` is caught up, each Path's Base is what the Store holds, or   *)
(* the Path is Diverged from it, whatever commands ran meanwhile and        *)
(* wherever they died (Syncing::run, reconcile).                            *)
THEOREM SyncCatchesUp == Spec => []CaughtUp
<1>1. IInv => CaughtUp
  <2> SUFFICES ASSUME IInv, Free, syncing, ~resync, news = {}, NEW p \in Paths
               PROVE  store[p] \in {saved.bases[p], saved.divergences[p]}
    BY DEF CaughtUp
  <2>1. command # "sync"
    BY DEF IInv, TypeOK
  <2>2. Version(saved, p) = store[p]
    BY <2>1 DEF IInv, UpToDate
  <2> QED
    BY <2>2 DEF Version
<1> QED
  BY <1>1, WorkingCopyInductive, PTL

(* No reconcile, Conflict, crash or retry chooses to replace what only the  *)
(* person has, and nothing does but the person, a discard that covers it    *)
(* and what is edited after sync looked (reconcile_path, apply, discard).   *)
THEOREM NoEditIsReplaced == Spec => EditsAreKept
<1> DEFINE Kept(p) ==
      /\ ~Replaces(p)
      /\ folder'[p] # folder[p] =>
           \/ Edit(p, folder'[p])
           \/ command = "discard" /\ p \in covers
           \/ step = "applying" /\ at = p
<1>1. ASSUME IInv, [Next]_vars, NEW p \in mine PROVE Kept(p)
  <2>1. /\ p \in Paths /\ folder \in [Paths -> Locals] /\ read \in [Paths -> Versions \cup {Unread}]
        /\ Held(folder[p]) # record.bases[p]
        /\ TypeOK /\ KnowsWhatItDoes /\ KeepsToWhatItCovers
    BY <1>1 DEF IInv, TypeOK, MineDiffers
  <2>2. /\ command \in {"none", "sync", "commit", "discard", "resolve"}
        /\ (step = "free" <=> command = "none")
        /\ command = "sync" => step # "choosing"
        /\ command = "commit" => step # "choosing"
        /\ command = "resolve" => step # "choosing"
    BY <2>1 DEF KnowsWhatItDoes, TypeOK, Free
  <2>3. ASSUME folder' = folder, step' # "applying" \/ step' = step PROVE Kept(p)
    BY <2>3 DEF Replaces
  <2>4. ASSUME NEW q \in Paths, NEW v \in Locals, Edit(q, v) PROVE Kept(p)
    <3>1. folder' = [folder EXCEPT ![q] = v] /\ step' = step
      BY <2>4 DEF Edit
    <3>2. folder'[p] # folder[p] => p = q /\ v = folder'[p]
      BY <2>1, <3>1
    <3> QED
      BY <2>4, <3>1, <3>2 DEF Replaces
  <2>5. ASSUME NEW q \in Paths, Look(q) PROVE Kept(p)
    <3>1. folder' = folder
      BY <2>5 DEF Look
    <3>2. CASE Recording(q)
      BY <2>3, <3>1, <3>2 DEF Recording
    <3>3. CASE at' = q /\ Applicable(q, read[q])
      <4>1. p # q
        BY <2>1, <3>3 DEF Applicable, Held
      <4> QED
        BY <3>1, <3>3, <4>1 DEF Replaces
    <3> QED
      BY <2>1, <2>5, <3>2, <3>3, LookIs
  <2>6. CASE Apply
    <3>1. step = "applying" /\ folder' = [folder EXCEPT ![at] = read[at]]
      BY <2>6 DEF Apply
    <3>2. folder'[p] # folder[p] => at = p
      BY <2>1, <3>1
    <3> QED
      BY <3>1, <3>2 DEF Replaces
  <2>7. ASSUME NEW q \in Paths, Discard(q) PROVE Kept(p)
    <3>1. /\ step = "choosing" /\ step' = step /\ read[q] # Unread
          /\ folder' = folder \/ folder' = [folder EXCEPT ![q] = read[q]]
      BY <2>7 DEF Discard
    <3>2. command = "discard" /\ q \in covers
      BY <2>1, <2>2, <3>1 DEF KeepsToWhatItCovers
    <3>3. folder'[p] # folder[p] => p = q
      BY <2>1, <3>1
    <3> QED
      BY <3>1, <3>2, <3>3 DEF Replaces
  <2>8. ASSUME NEW q \in Paths, NEW v \in Versions, TheyCommit(q, v) PROVE Kept(p)
    BY <2>3, <2>8 DEF TheyCommit
  <2>9. CASE StartSync \/ StopSync \/ LoseNews
    BY <2>3, <2>9 DEF StartSync, StopSync, LoseNews
  <2>10. CASE ReconcileAll
    BY <2>3, <2>10 DEF ReconcileAll, Reconcile
  <2>11. ASSUME NEW ps \in SUBSET Paths, ReconcileBatch(ps) PROVE Kept(p)
    BY <2>3, <2>11 DEF ReconcileBatch, Reconcile
  <2>12. ASSUME NEW q \in Paths, ReadStore(q) \/ ScanFile(q) PROVE Kept(p)
    BY <2>3, <2>12 DEF ReadStore, ScanFile
  <2>13. CASE SettleTheirs \/ SettleFails
    BY <2>3, <2>13 DEF SettleTheirs, SettleFails, DealtWith
  <2>14. ASSUME NEW failed \in SUBSET Paths, RemoveStaleTheirs(failed) PROVE Kept(p)
    BY <2>3, <2>14 DEF RemoveStaleTheirs, Release
  <2>15. CASE Save
    BY <2>3, <2>15 DEF Save, Release
  <2>16. CASE Die \/ NothingToCommit \/ DiscardRefused
    BY <2>3, <2>16 DEF Die, NothingToCommit, DiscardRefused, Release
  <2>17. ASSUME NEW ps \in SUBSET Paths, BeginCommit(ps) \/ BeginDiscard(ps) \/ Resolve(ps) PROVE Kept(p)
    BY <2>3, <2>17 DEF BeginCommit, BeginDiscard, Begin, Resolve
  <2>18. ASSUME NEW pending \in BOOLEAN, Commit(pending) PROVE Kept(p)
    BY <2>3, <2>18 DEF Commit
  <2>19. CASE CommitConflicts \/ Choose
    BY <2>3, <2>19 DEF CommitConflicts, Choose
  <2>20. ASSUME NEW q \in Paths, ReadBoth(q) \/ DiscardFails(q) PROVE Kept(p)
    BY <2>3, <2>20 DEF ReadBoth, DiscardFails
  <2>21. CASE UNCHANGED vars
    BY <2>3, <2>21 DEF vars
  <2> HIDE DEF Kept
  <2> QED
    BY <1>1, <2>4, <2>5, <2>6, <2>7, <2>8, <2>9, <2>10, <2>11, <2>12, <2>13, <2>14, <2>15, <2>16, <2>17,
       <2>18, <2>19, <2>20, <2>21 DEF Next
<1>2. IInv /\ [Next]_vars => [\A p \in mine : Kept(p)]_vars
  BY <1>1
<1> QED
  BY <1>2, WorkingCopyInductive, PTL DEF Spec, EditsAreKept

(* A commit replaces only a version of the Store's that the person's file   *)
(* is made from, as far as the person knows: one it held, or that was in    *)
(* the theirs file when they said it was merged (commit, resolve).          *)
THEOREM OnlyMergedIsReplaced == Spec => ReplacedWasMerged
<1> DEFINE Known(p) ==
      store'[p] # store[p] => TheyCommit(p, store'[p]) \/ File(store[p]) \subseteq merged[p]
<1>1. ASSUME IInv, [Next]_vars, NEW p \in Paths PROVE Known(p)
  <2>1. /\ store \in [Paths -> Versions] /\ File(record.bases[p]) \subseteq merged[p]
        /\ TypeOK /\ KnowsWhatItDoes /\ KeepsToWhatItCovers
    BY <1>1 DEF IInv, TypeOK, BasesAreMerged
  <2>2. ASSUME store' = store PROVE Known(p)
    BY <2>2
  <2>3. ASSUME NEW q \in Paths, NEW v \in Versions, TheyCommit(q, v) PROVE Known(p)
    <3>1. store' = [store EXCEPT ![q] = v]
      BY <2>3 DEF TheyCommit
    <3>2. store'[p] # store[p] => p = q /\ v = store'[p]
      BY <2>1, <3>1
    <3> QED
      BY <2>3, <3>2
  <2>4. ASSUME NEW pending \in BOOLEAN, Commit(pending) PROVE Known(p)
    <3>1. p \notin Changes => store'[p] = store[p]
      BY <2>1, <2>4, CommitIs
    <3>2. p \in Changes => store[p] = record.bases[p]
      BY <2>1, <2>4, CommitIs
    <3> QED
      BY <2>1, <3>1, <3>2
  <2>5. ASSUME NEW q \in Paths, NEW v \in Locals, Edit(q, v) PROVE Known(p)
    BY <2>2, <2>5 DEF Edit
  <2>6. CASE StartSync \/ StopSync \/ LoseNews \/ ReconcileAll
    BY <2>2, <2>6 DEF StartSync, StopSync, LoseNews, ReconcileAll
  <2>7. ASSUME NEW ps \in SUBSET Paths, ReconcileBatch(ps) \/ BeginCommit(ps) \/ BeginDiscard(ps) \/ Resolve(ps)
        PROVE  Known(p)
    BY <2>2, <2>7 DEF ReconcileBatch, BeginCommit, BeginDiscard, Begin, Resolve
  <2>8. ASSUME NEW q \in Paths, ReadStore(q) \/ Look(q) \/ ScanFile(q) PROVE Known(p)
    BY <2>2, <2>8 DEF ReadStore, Look, ScanFile
  <2>9. ASSUME NEW q \in Paths, ReadBoth(q) \/ Discard(q) \/ DiscardFails(q) PROVE Known(p)
    BY <2>2, <2>9 DEF ReadBoth, Discard, DiscardFails
  <2>10. CASE Apply \/ SettleTheirs \/ SettleFails \/ Save \/ Die
    BY <2>2, <2>10 DEF Apply, SettleTheirs, SettleFails, Save, Die
  <2>11. ASSUME NEW failed \in SUBSET Paths, RemoveStaleTheirs(failed) PROVE Known(p)
    BY <2>2, <2>11 DEF RemoveStaleTheirs
  <2>12. CASE NothingToCommit \/ CommitConflicts \/ Choose \/ DiscardRefused
    BY <2>2, <2>12 DEF NothingToCommit, CommitConflicts, Choose, DiscardRefused
  <2>13. CASE UNCHANGED vars
    BY <2>2, <2>13 DEF vars
  <2> HIDE DEF Known
  <2> QED
    BY <1>1, <2>3, <2>4, <2>5, <2>6, <2>7, <2>8, <2>9, <2>10, <2>11, <2>12, <2>13 DEF Next
<1>2. IInv /\ [Next]_vars => [\A p \in Paths : Known(p)]_vars
  BY <1>1
<1> QED
  BY <1>2, WorkingCopyInductive, PTL DEF Spec, ReplacedWasMerged
=============================================================================
