--------------------------- MODULE PlanningProofs ---------------------------
(***************************************************************************)
(* Proofs about Planning, for any Paths, Prefixes, contents and tasks, and *)
(* any number of calls and Commits: a Commit makes what its calls say, is  *)
(* refused for what it says, and leaves no names that clash.               *)
(***************************************************************************)
EXTENDS Planning, SequenceTheorems, TLAPS

-----------------------------------------------------------------------------
(* The inductive invariant.                                                *)

Stagings == [actions : Actions, prefixDeletes : SUBSET Prefixes,
             preconditions : SUBSET (Paths \X Required),
             prefixPreconditions : SUBSET (Prefixes \X Revisions)]

Calls ==
  [op : {"write", "delete"}, path : Paths, makes : Required, needs : Needs]
    \cup [op : {"require"}, path : Paths, needs : Needs]
    \cup [op : {"delete_prefix"}, prefix : Prefixes, makes : {Absent}]
    \cup [op : {"require_prefix"}, prefix : Prefixes, since : Revisions]

KeepsItsKinds ==
  /\ files \in Files /\ folds \in [Folds -> Paths \cup {None}]
  /\ staged \in [Tasks -> Stagings] /\ said \in [Tasks -> Seq(Calls)]
  /\ taken \in [Tasks -> Revisions \cup {None}]
  /\ calls \in 0 .. MaxCalls /\ commits \in 0 .. MaxCommits

(* Call i of log is the last that speaks of p.                             *)
IsLast(log, i, p) ==
  /\ i \in DOMAIN log /\ SpeaksOf(log[i], p)
  /\ \A j \in DOMAIN log : SpeaksOf(log[j], p) => j <= i

Dropped(s, p) == \E x \in s.prefixDeletes : Covers(x, p)

(* What Staging s holds is what the calls of log said.                     *)
ActionAsSaid(log, s, p) ==
  LET makes(v) == \E i \in DOMAIN log : IsLast(log, i, p) /\ log[i].makes = v
  IN \/ s.actions[p] = Keep /\ ~Dropped(s, p) /\ \A i \in DOMAIN log : ~SpeaksOf(log[i], p)
     \/ s.actions[p] = Keep /\ Dropped(s, p) /\ makes(Absent)
     \/ s.actions[p] # Keep /\ makes(s.actions[p])

Requires(call, p, v) ==
  /\ call.op \in {"write", "delete", "require"}
  /\ call.path = p /\ call.needs = v /\ v # Anything

RequiresPrefix(call, x, r) == call.op = "require_prefix" /\ call.prefix = x /\ call.since = r

AsSaid(log, s) ==
  /\ \A p \in Paths : ActionAsSaid(log, s, p)
  /\ \A p \in Paths, v \in Required :
       <<p, v>> \in s.preconditions <=> \E i \in DOMAIN log : Requires(log[i], p, v)
  /\ \A x \in Prefixes, r \in Revisions :
       <<x, r>> \in s.prefixPreconditions <=> \E i \in DOMAIN log : RequiresPrefix(log[i], x, r)

(* A Prefix Revision holds no Files from elsewhere.                        *)
OnlyUnder(r) == \A p \in Paths : ~Covers(r.prefix, p) => r.files[p] = Absent

RevisionsAreUnder ==
  \A c \in Tasks :
    /\ taken[c] # None => OnlyUnder(taken[c])
    /\ \A i \in DOMAIN said[c] : said[c][i].op = "require_prefix" => OnlyUnder(said[c][i].since)

(* What the index holds is there.                                          *)
Indexed(f, g) == \A k \in Folds : g[k] # None => f[g[k]] # Absent /\ FoldOf(g[k]) = k

IInv ==
  /\ KeepsItsKinds
  /\ \A c \in Tasks : AsSaid(said[c], staged[c])
  /\ RevisionsAreUnder
  /\ Indexed(files, folds)

-----------------------------------------------------------------------------
(* Paths, their names and folds.                                           *)

Segments == DOMAIN Fold
Folded   == {Fold[g] : g \in Segments}

LEMMA PathsAre ==
  ASSUME NEW p \in Paths
  PROVE  /\ p \in Seq(Segments) /\ Len(p) \in Nat \ {0} /\ DOMAIN p = 1 .. Len(p)
         /\ \A i \in 1 .. Len(p) : p[i] \in Segments
<1>1. p \in Seq(Segments) /\ p # << >>
  BY PlanningAssumption DEF Segments
<1>2. Len(p) \in Nat /\ DOMAIN p = 1 .. Len(p) /\ Len(p) # 0
  BY <1>1, EmptySeq, LenProperties
<1>3. \A i \in 1 .. Len(p) : p[i] \in Segments
  BY <1>1, ElementOfSeq
<1> QED
  BY <1>1, <1>2, <1>3

(* A fold has as many segments as what it is of.                           *)
LEMMA FoldsAre ==
  ASSUME NEW s \in Seq(Segments)
  PROVE  /\ FoldOf(s) \in Seq(Folded) /\ Len(FoldOf(s)) = Len(s)
         /\ \A i \in 1 .. Len(s) : FoldOf(s)[i] = Fold[s[i]]
<1>1. Len(s) \in Nat /\ DOMAIN s = 1 .. Len(s) /\ \A i \in 1 .. Len(s) : s[i] \in Segments
  BY LenProperties, ElementOfSeq
<1>2. FoldOf(s) = [i \in 1 .. Len(s) |-> Fold[s[i]]]
  BY <1>1 DEF FoldOf
<1>3. \A i \in 1 .. Len(s) : Fold[s[i]] \in Folded
  BY <1>1 DEF Folded
<1>4. FoldOf(s) \in [1 .. Len(s) -> Folded]
  BY <1>2, <1>3
<1>5. FoldOf(s) \in Seq(Folded)
  BY <1>1, <1>4
<1>6. Len(FoldOf(s)) = Len(s)
  BY <1>1, <1>4, <1>5
<1> QED
  BY <1>2, <1>5, <1>6

(* The first n segments of a Path.                                         *)
LEMMA BeginningsAre ==
  ASSUME NEW S, NEW s \in Seq(S), NEW n \in 1 .. Len(s)
  PROVE  /\ SubSeq(s, 1, n) \in Seq(S) /\ Len(SubSeq(s, 1, n)) = n
         /\ \A i \in 1 .. n : SubSeq(s, 1, n)[i] = s[i]
<1>1. Len(s) \in Nat /\ \A i \in 1 .. n : s[i] \in S
  BY LenProperties, ElementOfSeq
<1>2. /\ SubSeq(s, 1, n) \in Seq(S)
      /\ Len(SubSeq(s, 1, n)) = IF 1 <= n THEN n - 1 + 1 ELSE 0
      /\ \A i \in 1 .. n - 1 + 1 : SubSeq(s, 1, n)[i] = s[1 + i - 1]
  BY <1>1, SubSeqProperties
<1> QED
  BY <1>1, <1>2

(* A name is told by how many segments it has.                             *)
LEMMA NamesAre ==
  ASSUME NEW p \in Paths, NEW n \in Names(p)
  PROVE  /\ n.segments \in Seq(Segments) /\ Len(n.segments) \in 1 .. Len(p)
         /\ \A i \in 1 .. Len(n.segments) : n.segments[i] = p[i]
         /\ n.prefix = IF Len(n.segments) < Len(p) THEN TRUE ELSE FALSE
         /\ n = [segments |-> n.segments, prefix |-> n.prefix]
<1>1. p \in Seq(Segments) /\ Len(p) \in Nat \ {0}
  BY PathsAre
<1>2. CASE n = [segments |-> p, prefix |-> FALSE]
  <2>1. n.segments = p /\ n.prefix = FALSE /\ n = [segments |-> n.segments, prefix |-> n.prefix]
    BY <1>2
  <2>2. ~(Len(p) < Len(p)) /\ Len(p) \in 1 .. Len(p)
    BY <1>1
  <2> QED
    BY <1>1, <2>1, <2>2
<1>3. CASE n \in [segments : {SubSeq(p, 1, k) : k \in 1 .. Len(p) - 1}, prefix : {TRUE}]
  <2>1. PICK k \in 1 .. Len(p) - 1 : n.segments = SubSeq(p, 1, k)
    BY <1>3
  <2>2. n.prefix = TRUE /\ n = [segments |-> n.segments, prefix |-> n.prefix]
    BY <1>3
  <2>3. k \in 1 .. Len(p) /\ k < Len(p)
    BY <1>1
  <2>4. /\ n.segments \in Seq(Segments) /\ Len(n.segments) = k
        /\ \A i \in 1 .. k : n.segments[i] = p[i]
    BY <1>1, <2>1, <2>3, BeginningsAre
  <2> QED
    BY <2>2, <2>3, <2>4
<1> QED
  BY <1>2, <1>3 DEF Names

LEMMA NameOfLength ==
  ASSUME NEW p \in Paths, NEW k \in 1 .. Len(p)
  PROVE  \E n \in Names(p) : Len(n.segments) = k
<1>1. p \in Seq(Segments) /\ Len(p) \in Nat \ {0}
  BY PathsAre
<1>2. CASE k = Len(p)
  <2>1. [segments |-> p, prefix |-> FALSE] \in Names(p)
    BY DEF Names
  <2> QED
    BY <1>2, <2>1
<1>3. CASE k # Len(p)
  <2>1. k \in 1 .. Len(p) - 1
    BY <1>1, <1>3
  <2>2. [segments |-> SubSeq(p, 1, k), prefix |-> TRUE] \in Names(p)
    BY <2>1 DEF Names
  <2>3. Len(SubSeq(p, 1, k)) = k
    BY <1>1, BeginningsAre
  <2> QED
    BY <2>2, <2>3
<1> QED
  BY <1>2, <1>3

LEMMA SameLengthIsSameName ==
  ASSUME NEW p \in Paths, NEW n \in Names(p), NEW m \in Names(p), Len(n.segments) = Len(m.segments)
  PROVE  n = m
<1>1. /\ n.segments \in Seq(Segments) /\ m.segments \in Seq(Segments)
      /\ \A i \in 1 .. Len(n.segments) : n.segments[i] = m.segments[i]
      /\ n.prefix = m.prefix
      /\ n = [segments |-> n.segments, prefix |-> n.prefix]
      /\ m = [segments |-> m.segments, prefix |-> m.prefix]
  BY NamesAre
<1>2. n.segments = m.segments
  BY <1>1, SeqEqual
<1> QED
  BY <1>1, <1>2

LEMMA SameFoldIsSameLength ==
  ASSUME NEW s \in Seq(Segments), NEW t \in Seq(Segments), FoldOf(s) = FoldOf(t)
  PROVE  Len(s) = Len(t)
BY FoldsAre

LEMMA WholeName ==
  ASSUME NEW p \in Paths
  PROVE  /\ [segments |-> p, prefix |-> FALSE] \in Names(p)
         /\ FoldOf(p) \in Folds
BY DEF Names, Folds

(* The fold of a name is that of its Path, or what that begins with.        *)
LEMMA NameBeginsFold ==
  ASSUME NEW q \in Paths, NEW m \in Names(q)
  PROVE  FoldOf(q) = FoldOf(m.segments) \/ Covers(FoldOf(m.segments), FoldOf(q))
<1>1. q \in Seq(Segments) /\ Len(q) \in Nat \ {0}
  BY PathsAre
<1>2. /\ m.segments \in Seq(Segments) /\ Len(m.segments) \in 1 .. Len(q)
      /\ \A i \in 1 .. Len(m.segments) : m.segments[i] = q[i]
  BY NamesAre
<1>3. /\ FoldOf(q) \in Seq(Folded) /\ Len(FoldOf(q)) = Len(q)
      /\ \A i \in 1 .. Len(q) : FoldOf(q)[i] = Fold[q[i]]
  BY <1>1, FoldsAre
<1>4. /\ FoldOf(m.segments) \in Seq(Folded) /\ Len(FoldOf(m.segments)) = Len(m.segments)
      /\ \A i \in 1 .. Len(m.segments) : FoldOf(m.segments)[i] = Fold[m.segments[i]]
  BY <1>2, FoldsAre
<1> DEFINE k == Len(m.segments)
<1>5. \A i \in 1 .. k : FoldOf(m.segments)[i] = FoldOf(q)[i]
  BY <1>1, <1>2, <1>3, <1>4
<1>6. CASE k = Len(q)
  BY <1>3, <1>4, <1>5, <1>6, SeqEqual
<1>7. CASE k < Len(q)
  <2>1. /\ SubSeq(FoldOf(q), 1, k) \in Seq(Folded) /\ Len(SubSeq(FoldOf(q), 1, k)) = k
        /\ \A i \in 1 .. k : SubSeq(FoldOf(q), 1, k)[i] = FoldOf(q)[i]
    BY <1>2, <1>3, BeginningsAre
  <2>2. SubSeq(FoldOf(q), 1, k) = FoldOf(m.segments)
    BY <1>4, <1>5, <2>1, SeqEqual
  <2> QED
    BY <1>3, <1>4, <1>7, <2>2 DEF Covers
<1> QED
  BY <1>1, <1>2, <1>6, <1>7

(* And the other way.                                                      *)
LEMMA FoldBeginsWithName ==
  ASSUME NEW q \in Paths, NEW s \in Seq(Segments), Len(s) > 0,
         FoldOf(q) = FoldOf(s) \/ Covers(FoldOf(s), FoldOf(q))
  PROVE  \E m \in Names(q) : FoldOf(m.segments) = FoldOf(s)
<1>1. q \in Seq(Segments) /\ Len(q) \in Nat \ {0} /\ Len(s) \in Nat
  BY PathsAre, LenProperties
<1>2. /\ FoldOf(q) \in Seq(Folded) /\ Len(FoldOf(q)) = Len(q)
      /\ \A i \in 1 .. Len(q) : FoldOf(q)[i] = Fold[q[i]]
  BY <1>1, FoldsAre
<1>3. /\ FoldOf(s) \in Seq(Folded) /\ Len(FoldOf(s)) = Len(s)
  BY FoldsAre
<1>4. Len(s) \in 1 .. Len(q) /\ \A i \in 1 .. Len(s) : FoldOf(s)[i] = FoldOf(q)[i]
  <2>1. CASE FoldOf(q) = FoldOf(s)
    BY <1>1, <1>2, <1>3, <2>1
  <2>2. CASE Covers(FoldOf(s), FoldOf(q))
    <3>1. Len(s) \in 1 .. Len(q) /\ SubSeq(FoldOf(q), 1, Len(s)) = FoldOf(s)
      BY <1>1, <1>2, <1>3, <2>2 DEF Covers
    <3>2. \A i \in 1 .. Len(s) : SubSeq(FoldOf(q), 1, Len(s))[i] = FoldOf(q)[i]
      BY <1>2, <3>1, BeginningsAre
    <3> QED
      BY <3>1, <3>2
  <2> QED
    BY <2>1, <2>2
<1>5. PICK m \in Names(q) : Len(m.segments) = Len(s)
  BY <1>4, NameOfLength
<1>6. m.segments \in Seq(Segments) /\ \A i \in 1 .. Len(s) : m.segments[i] = q[i]
  BY <1>5, NamesAre
<1>7. /\ FoldOf(m.segments) \in Seq(Folded) /\ Len(FoldOf(m.segments)) = Len(s)
      /\ \A i \in 1 .. Len(s) : FoldOf(m.segments)[i] = Fold[m.segments[i]]
  BY <1>5, <1>6, FoldsAre
<1>8. \A i \in 1 .. Len(s) : FoldOf(m.segments)[i] = FoldOf(s)[i]
  BY <1>1, <1>2, <1>4, <1>6, <1>7
<1>9. FoldOf(m.segments) = FoldOf(s)
  BY <1>3, <1>7, <1>8, SeqEqual
<1> QED
  BY <1>9

(* A Path has a name exactly if it is among its own.                       *)
LEMMA NamesAreHad ==
  ASSUME NEW q \in Paths, NEW n \in Names(q)
  PROVE  HasName(q, n)
<1>1. q \in Seq(Segments) /\ Len(q) \in Nat \ {0}
  BY PathsAre
<1>2. /\ n.segments \in Seq(Segments) /\ Len(n.segments) \in 1 .. Len(q)
      /\ \A i \in 1 .. Len(n.segments) : n.segments[i] = q[i]
      /\ n.prefix = IF Len(n.segments) < Len(q) THEN TRUE ELSE FALSE
  BY NamesAre
<1>3. CASE Len(n.segments) < Len(q)
  <2> DEFINE k == Len(n.segments)
  <2>1. /\ SubSeq(q, 1, k) \in Seq(Segments) /\ Len(SubSeq(q, 1, k)) = k
        /\ \A i \in 1 .. k : SubSeq(q, 1, k)[i] = q[i]
    BY <1>1, <1>2, BeginningsAre
  <2>2. SubSeq(q, 1, k) = n.segments
    BY <1>2, <2>1, SeqEqual
  <2> QED
    BY <1>2, <1>3, <2>2 DEF HasName, Covers
<1>4. CASE Len(n.segments) = Len(q)
  <2>1. q = n.segments
    BY <1>1, <1>2, <1>4, SeqEqual
  <2>2. ~n.prefix
    BY <1>1, <1>2, <1>4
  <2> QED
    BY <2>1, <2>2 DEF HasName
<1> QED
  BY <1>1, <1>2, <1>3, <1>4

LEMMA HadAreNames ==
  ASSUME NEW p \in Paths, NEW n \in Names(p), NEW q \in Paths, HasName(q, n)
  PROVE  n \in Names(q)
<1>1. q \in Seq(Segments) /\ Len(q) \in Nat \ {0} /\ p \in Seq(Segments) /\ Len(p) \in Nat \ {0}
  BY PathsAre
<1>2. /\ n.segments \in Seq(Segments) /\ Len(n.segments) \in 1 .. Len(p)
      /\ n = [segments |-> n.segments, prefix |-> n.prefix]
      /\ n.prefix = IF Len(n.segments) < Len(p) THEN TRUE ELSE FALSE
  BY NamesAre
<1>3. CASE n.prefix
  <2>1. Len(n.segments) \in 1 .. Len(q) - 1 /\ n.segments = SubSeq(q, 1, Len(n.segments))
    BY <1>1, <1>2, <1>3 DEF HasName, Covers
  <2>2. n = [segments |-> n.segments, prefix |-> TRUE]
    BY <1>2, <1>3
  <2>3. [segments |-> SubSeq(q, 1, Len(n.segments)), prefix |-> TRUE] \in Names(q)
    BY <2>1 DEF Names
  <2>4. [segments |-> SubSeq(q, 1, Len(n.segments)), prefix |-> TRUE] = n
    BY <2>1, <2>2
  <2> QED
    BY <2>3, <2>4
<1>4. CASE ~n.prefix
  <2>1. n.prefix = FALSE
    BY <1>2, <1>4
  <2>2. n = [segments |-> q, prefix |-> FALSE]
    BY <1>2, <1>4, <2>1 DEF HasName
  <2> QED
    BY <2>2, WholeName
<1> QED
  BY <1>3, <1>4

-----------------------------------------------------------------------------
(* Names that clash.                                                       *)

LEMMA TheyClash ==
  ASSUME NEW f, NEW p \in Paths, NEW q \in Paths, f[p] # Absent, f[q] # Absent,
         NEW n \in Names(p), NEW m \in Names(q), n # m, FoldOf(n.segments) = FoldOf(m.segments)
  PROVE  Clashes(f)
BY DEF Clashes

(* Where no names clash, no two Files fold the same, so that the index holds *)
(* each.                                                                   *)
LEMMA OneOfAFold ==
  ASSUME NEW f, ~Clashes(f), NEW p \in Paths, NEW q \in Paths, f[p] # Absent, f[q] # Absent,
         FoldOf(p) = FoldOf(q)
  PROVE  p = q
<1> DEFINE n == [segments |-> p, prefix |-> FALSE]
           m == [segments |-> q, prefix |-> FALSE]
<1>1. n \in Names(p) /\ m \in Names(q)
  BY WholeName
<1>2. n.segments = p /\ m.segments = q
  OBVIOUS
<1> HIDE DEF n, m
<1>3. n = m
  BY <1>1, <1>2, TheyClash
<1> QED
  BY <1>2, <1>3

LEMMA IndexIs ==
  ASSUME NEW f, NEW k \in Folds
  PROVE  /\ (\A p \in Paths : f[p] = Absent \/ FoldOf(p) # k) => IndexOf(f)[k] = None
         /\ (\E p \in Paths : f[p] # Absent /\ FoldOf(p) = k) =>
              IndexOf(f)[k] \in Paths /\ f[IndexOf(f)[k]] # Absent /\ FoldOf(IndexOf(f)[k]) = k
<1> DEFINE Holds(p) == f[p] # Absent /\ FoldOf(p) = k
<1>1. IndexOf(f)[k] = IF \E p \in Paths : Holds(p) THEN CHOOSE p \in Paths : Holds(p) ELSE None
  BY DEF IndexOf
<1> QED
  BY <1>1

LEMMA IndexIsRight ==
  ASSUME NEW f
  PROVE  IndexOf(f) \in [Folds -> Paths \cup {None}] /\ Indexed(f, IndexOf(f))
<1>1. \A k \in Folds : /\ IndexOf(f)[k] \in Paths \cup {None}
                       /\ IndexOf(f)[k] # None => f[IndexOf(f)[k]] # Absent /\ FoldOf(IndexOf(f)[k]) = k
  BY IndexIs
<1>2. IndexOf(f) = [k \in Folds |-> IndexOf(f)[k]]
  BY DEF IndexOf
<1> QED
  BY <1>1, <1>2 DEF Indexed

LEMMA IndexHoldsEach ==
  ASSUME NEW f, ~Clashes(f), NEW p \in Paths, f[p] # Absent
  PROVE  IndexOf(f)[FoldOf(p)] = p
<1>1. FoldOf(p) \in Folds
  BY DEF Folds
<1> QED
  BY <1>1, IndexIs, OneOfAFold

LEMMA ValuesAre ==
  /\ Absent \notin Contents /\ Keep \notin Contents /\ Keep # Absent /\ None \notin Paths
  /\ Contents \subseteq Required /\ Absent \in Required
BY PlanningAssumption DEF Required

(* The Files once the actions of a are carried out.                        *)
After(a) == [p \in Paths |-> IF a[p] = Keep THEN files[p] ELSE a[p]]

LEMMA AfterIs ==
  ASSUME files \in Files, NEW a \in Actions
  PROVE  /\ After(a) \in Files
         /\ \A p \in Paths : /\ a[p] = Keep => After(a)[p] = files[p]
                             /\ a[p] # Keep => After(a)[p] = a[p]
                             /\ a[p] \in Contents \/ a[p] \in {Absent, Keep}
<1>1. \A p \in Paths : a[p] \in Contents \/ a[p] \in {Absent, Keep}
  BY DEF Actions
<1>2. \A p \in Paths : files[p] \in Contents \cup {Absent}
  BY DEF Files
<1>3. \A p \in Paths : (IF a[p] = Keep THEN files[p] ELSE a[p]) \in Contents \cup {Absent}
  BY <1>1, <1>2
<1> QED
  BY <1>1, <1>3 DEF After, Files

LEMMA RefusedIs ==
  ASSUME NEW a, NEW p \in Paths
  PROVE  p \in Refused(a) <=>
           /\ a[p] \in Contents
           /\ \E n \in Names(p) :
                \/ \E q \in Paths : /\ a[q] \in Contents /\ Before(q, p)
                                    /\ \E m \in Names(q) : m # n /\ FoldOf(m.segments) = FoldOf(n.segments)
                \/ \E q \in NamedLike(n) : a[q] # Absent
BY DEF Refused

LEMMA NamedLikeIs ==
  ASSUME NEW n, NEW q
  PROVE  q \in NamedLike(n) <=>
           /\ q # None /\ ~HasName(q, n)
           /\ \E k \in Folds : q = folds[k] /\ (k = FoldOf(n.segments) \/ Covers(FoldOf(n.segments), k))
BY DEF NamedLike

(* A refused Commit would have left names that clash.                      *)
LEMMA RefusedWouldClash ==
  ASSUME files \in Files, folds \in [Folds -> Paths \cup {None}], Indexed(files, folds),
         NEW a \in Actions, Refused(a) # {}
  PROVE  Clashes(After(a))
<1>1. PICK p \in Paths : p \in Refused(a)
  BY DEF Refused
<1>2. a[p] \in Contents
  BY <1>1, RefusedIs
<1>3. PICK n \in Names(p) :
        \/ \E q \in Paths : /\ a[q] \in Contents /\ Before(q, p)
                            /\ \E m \in Names(q) : m # n /\ FoldOf(m.segments) = FoldOf(n.segments)
        \/ \E q \in NamedLike(n) : a[q] # Absent
  BY <1>1, RefusedIs
<1>4. After(a)[p] # Absent
  BY <1>2, AfterIs, ValuesAre
<1>5. CASE \E q \in Paths : /\ a[q] \in Contents /\ Before(q, p)
                            /\ \E m \in Names(q) : m # n /\ FoldOf(m.segments) = FoldOf(n.segments)
  <2>1. PICK q \in Paths : /\ a[q] \in Contents
                           /\ \E m \in Names(q) : m # n /\ FoldOf(m.segments) = FoldOf(n.segments)
    BY <1>5
  <2>2. After(a)[q] # Absent
    BY <2>1, AfterIs, ValuesAre
  <2> QED
    BY <1>4, <2>1, <2>2, TheyClash
<1>6. CASE \E q \in NamedLike(n) : a[q] # Absent
  <2>1. PICK q \in NamedLike(n) : a[q] # Absent
    BY <1>6
  <2>2. PICK k \in Folds : q = folds[k] /\ (k = FoldOf(n.segments) \/ Covers(FoldOf(n.segments), k))
    BY <2>1, NamedLikeIs
  <2>3. q # None /\ ~HasName(q, n)
    BY <2>1, NamedLikeIs
  <2>4. q \in Paths /\ files[q] # Absent /\ FoldOf(q) = k
    BY <2>2, <2>3 DEF Indexed
  <2>5. After(a)[q] # Absent
    BY <2>1, <2>4, AfterIs, ValuesAre
  <2>6. n.segments \in Seq(Segments) /\ Len(n.segments) > 0
    <3>1. n.segments \in Seq(Segments) /\ Len(n.segments) \in 1 .. Len(p) /\ Len(p) \in Nat
      BY NamesAre, PathsAre
    <3> QED
      BY <3>1
  <2>7. PICK m \in Names(q) : FoldOf(m.segments) = FoldOf(n.segments)
    BY <2>2, <2>4, <2>6, FoldBeginsWithName
  <2>8. m # n
    BY <2>3, <2>4, <2>7, NamesAreHad
  <2> QED
    BY <1>4, <2>4, <2>5, <2>7, <2>8, TheyClash
<1> QED
  BY <1>3, <1>5, <1>6

(* What is written where it would clash is refused.                        *)
LEMMA ClashWithAnother ==
  ASSUME NEW a \in Actions, NEW p \in Paths, NEW q \in Paths, a[p] \in Contents, a[q] \in Contents,
         Before(q, p), NEW n \in Names(p), NEW m \in Names(q), n # m,
         FoldOf(n.segments) = FoldOf(m.segments)
  PROVE  p \in Refused(a)
BY RefusedIs

LEMMA ClashWithAFile ==
  ASSUME files \in Files, ~Clashes(files), folds = IndexOf(files),
         NEW a \in Actions, NEW p \in Paths, NEW q \in Paths, a[p] \in Contents,
         a[q] = Keep, files[q] # Absent, NEW n \in Names(p), NEW m \in Names(q), n # m,
         FoldOf(n.segments) = FoldOf(m.segments)
  PROVE  p \in Refused(a)
<1>1. folds[FoldOf(q)] = q /\ FoldOf(q) \in Folds /\ q # None
  BY IndexHoldsEach, WholeName, ValuesAre
<1>2. FoldOf(q) = FoldOf(n.segments) \/ Covers(FoldOf(n.segments), FoldOf(q))
  BY NameBeginsFold
<1>3. ~HasName(q, n)
  <2>1. SUFFICES ASSUME HasName(q, n) PROVE FALSE
    OBVIOUS
  <2>2. n \in Names(q)
    BY <2>1, HadAreNames
  <2>3. Len(n.segments) = Len(m.segments)
    BY NamesAre, SameFoldIsSameLength
  <2> QED
    BY <2>2, <2>3, SameLengthIsSameName
<1>4. q \in NamedLike(n)
  BY <1>1, <1>2, <1>3, NamedLikeIs
<1>5. a[q] # Absent
  BY ValuesAre
<1> QED
  BY <1>4, <1>5, RefusedIs

(* A Commit that isn't refused leaves no names that clash.                 *)
LEMMA NothingNewClashes ==
  ASSUME files \in Files, ~Clashes(files), folds = IndexOf(files), NEW a \in Actions, Refused(a) = {}
  PROVE  ~Clashes(After(a))
<1>1. SUFFICES ASSUME NEW p \in Paths, NEW q \in Paths, After(a)[p] # Absent, After(a)[q] # Absent,
                      NEW n \in Names(p), NEW m \in Names(q), n # m,
                      FoldOf(n.segments) = FoldOf(m.segments)
               PROVE  FALSE
  BY DEF Clashes
<1>2. p # q
  <2>1. Len(n.segments) = Len(m.segments)
    BY <1>1, NamesAre, SameFoldIsSameLength
  <2> QED
    BY <1>1, <2>1, SameLengthIsSameName
<1>3. /\ a[p] \in Contents \/ (a[p] = Keep /\ files[p] # Absent)
      /\ a[q] \in Contents \/ (a[q] = Keep /\ files[q] # Absent)
  BY <1>1, AfterIs
<1>4. CASE a[p] \in Contents /\ a[q] \in Contents
  BY <1>1, <1>2, <1>4, ClashWithAnother, PlanningAssumption
<1>5. CASE a[p] \in Contents /\ a[q] = Keep /\ files[q] # Absent
  BY <1>1, <1>5, ClashWithAFile
<1>6. CASE a[q] \in Contents /\ a[p] = Keep /\ files[p] # Absent
  BY <1>1, <1>6, ClashWithAFile
<1>7. CASE files[p] # Absent /\ files[q] # Absent
  BY <1>1, <1>7, TheyClash
<1> QED
  BY <1>3, <1>4, <1>5, <1>6, <1>7

-----------------------------------------------------------------------------
(* The index after a Commit.                                               *)

Entering(a, k) == {p \in Paths : FoldOf(p) = k /\ a[p] \in Contents /\ files[p] = Absent}
Clearing(a, k) == {p \in Paths : FoldOf(p) = k /\ a[p] = Absent}

LEMMA FoldsAfterIs ==
  ASSUME NEW a, NEW k \in Folds
  PROVE  LET changes == Entering(a, k) \cup Clearing(a, k)
             last == CHOOSE p \in changes : \A q \in changes \ {p} : Before(q, p)
         IN FoldsAfter(a)[k] = IF changes = {} THEN folds[k]
                               ELSE IF last \in Entering(a, k) THEN last
                               ELSE None
BY DEF FoldsAfter, Entering, Clearing

LEMMA FoldsStayIndexed ==
  ASSUME files \in Files, folds \in [Folds -> Paths \cup {None}], Indexed(files, folds),
         NEW a \in Actions
  PROVE  FoldsAfter(a) \in [Folds -> Paths \cup {None}] /\ Indexed(After(a), FoldsAfter(a))
<1>1. ASSUME NEW k \in Folds
      PROVE  LET g == FoldsAfter(a)[k]
             IN g \in Paths \cup {None} /\ (g # None => After(a)[g] # Absent /\ FoldOf(g) = k)
  <2> DEFINE g == FoldsAfter(a)[k]
  <2>1. CASE Entering(a, k) \cup Clearing(a, k) = {}
    <3>1. g = folds[k]
      BY <2>1, FoldsAfterIs
    <3>2. CASE folds[k] # None
      <4>1. folds[k] \in Paths /\ files[folds[k]] # Absent /\ FoldOf(folds[k]) = k
        BY <3>2 DEF Indexed
      <4>2. a[folds[k]] # Absent
        BY <2>1, <4>1 DEF Clearing
      <4>3. After(a)[folds[k]] # Absent
        BY <4>1, <4>2, AfterIs
      <4> QED
        BY <3>1, <4>1, <4>3
    <3> QED
      BY <3>1, <3>2
  <2>2. CASE g \in Entering(a, k)
    BY <2>2, AfterIs, ValuesAre DEF Entering
  <2>3. CASE g = None
    BY <2>3
  <2> HIDE DEF g
  <2> QED
    BY <2>1, <2>2, <2>3, FoldsAfterIs DEF g
<1>2. FoldsAfter(a) = [k \in Folds |-> FoldsAfter(a)[k]]
  BY DEF FoldsAfter
<1> QED
  BY <1>1, <1>2 DEF Indexed

(* A File is renamed to a name that is the same in another letter case, and  *)
(* that comes before.                                                      *)
RenamedBefore(f, g, p, q) ==
  /\ FoldOf(p) = FoldOf(q) /\ Before(p, q)
  /\ f[p] = Absent /\ g[p] # Absent
  /\ f[q] # Absent /\ g[q] = Absent

LEMMA FoldsStayWhole ==
  ASSUME files \in Files, ~Clashes(files), folds = IndexOf(files), NEW a \in Actions,
         \A p \in Paths : a[p] # files[p], ~Clashes(After(a)),
         \A p, q \in Paths : ~RenamedBefore(files, After(a), p, q)
  PROVE  FoldsAfter(a) = IndexOf(After(a))
<1>1. ASSUME NEW k \in Folds PROVE FoldsAfter(a)[k] = IndexOf(After(a))[k]
  <2> DEFINE changes == Entering(a, k) \cup Clearing(a, k)
             last == CHOOSE p \in changes : \A q \in changes \ {p} : Before(q, p)
  <2>1. FoldsAfter(a)[k] = IF changes = {} THEN folds[k] ELSE IF last \in Entering(a, k) THEN last ELSE None
    BY FoldsAfterIs
  <2>2. \A p \in Entering(a, k) : /\ p \in Paths /\ FoldOf(p) = k /\ files[p] = Absent
                                  /\ After(a)[p] # Absent /\ p \notin Clearing(a, k)
    BY AfterIs, ValuesAre DEF Entering, Clearing
  <2>3. \A q \in Clearing(a, k) : q \in Paths /\ FoldOf(q) = k /\ files[q] # Absent /\ After(a)[q] = Absent
    BY AfterIs, ValuesAre DEF Clearing
  <2>4. ASSUME NEW r \in Paths, FoldOf(r) = k
        PROVE  /\ r \in Entering(a, k) \/ r \in Clearing(a, k)
                    \/ (After(a)[r] # Absent <=> files[r] # Absent)
               /\ After(a)[r] # Absent /\ r \notin Entering(a, k) => files[r] # Absent
    BY <2>4, AfterIs, ValuesAre DEF Entering, Clearing
  <2>5. CASE Entering(a, k) # {}
    <3>1. PICK p \in Entering(a, k) : TRUE
      BY <2>5
    <3>2. IndexOf(After(a))[k] = p
      BY <2>2, <3>1, IndexHoldsEach
    <3>3. Entering(a, k) = {p}
      BY <2>2, <3>1, OneOfAFold
    <3>4. \A q \in Clearing(a, k) : q # p /\ ~Before(p, q) /\ Before(q, p)
      BY <2>2, <2>3, <3>1, PlanningAssumption DEF RenamedBefore
    <3>5. changes = {p} \cup Clearing(a, k)
      BY <3>3
    <3>6. \A q \in changes \ {p} : Before(q, p)
      BY <3>4, <3>5
    <3>7. \A l \in changes : (\A q \in changes \ {l} : Before(q, l)) => l = p
      BY <3>4, <3>5
    <3>8. p \in changes
      BY <3>5
    <3> HIDE DEF changes
    <3>9. last = p
      BY <3>6, <3>7, <3>8
    <3> QED
      BY <2>1, <3>1, <3>2, <3>8, <3>9
  <2>6. CASE Entering(a, k) = {} /\ Clearing(a, k) # {}
    <3>1. PICK q \in Clearing(a, k) : TRUE
      BY <2>6
    <3>2. FoldsAfter(a)[k] = None
      BY <2>1, <2>6
    <3>3. \A r \in Paths : After(a)[r] = Absent \/ FoldOf(r) # k
      BY <2>3, <2>4, <2>6, <3>1, OneOfAFold
    <3> QED
      BY <3>2, <3>3, IndexIs
  <2>7. CASE changes = {}
    <3>1. FoldsAfter(a)[k] = IndexOf(files)[k]
      BY <2>1, <2>7
    <3>2. \A r \in Paths : FoldOf(r) = k => (After(a)[r] # Absent <=> files[r] # Absent)
      BY <2>4, <2>7
    <3>3. CASE \E r \in Paths : FoldOf(r) = k /\ files[r] # Absent
      <4>1. PICK r \in Paths : FoldOf(r) = k /\ files[r] # Absent
        BY <3>3
      <4>2. IndexOf(files)[k] = r
        BY <4>1, IndexHoldsEach
      <4>3. IndexOf(After(a))[k] = r
        BY <3>2, <4>1, IndexHoldsEach
      <4> QED
        BY <3>1, <4>2, <4>3
    <3>4. CASE \A r \in Paths : FoldOf(r) # k \/ files[r] = Absent
      BY <3>1, <3>2, <3>4, IndexIs
    <3> QED
      BY <3>3, <3>4
  <2> QED
    BY <2>5, <2>6, <2>7
<1>2. FoldsAfter(a) = [k \in Folds |-> FoldsAfter(a)[k]]
  BY DEF FoldsAfter
<1>3. IndexOf(After(a)) = [k \in Folds |-> IndexOf(After(a))[k]]
  BY DEF IndexOf
<1> QED
  BY <1>1, <1>2, <1>3

-----------------------------------------------------------------------------
(* What one more call says.                                                *)

LEMMA AppendIs ==
  ASSUME NEW S, NEW log \in Seq(S), NEW call \in S
  PROVE  /\ Len(log) \in Nat /\ DOMAIN log = 1 .. Len(log)
         /\ Append(log, call) \in Seq(S)
         /\ DOMAIN Append(log, call) = 1 .. Len(log) + 1
         /\ Append(log, call)[Len(log) + 1] = call
         /\ \A i \in 1 .. Len(log) : Append(log, call)[i] = log[i]
<1>1. Len(log) \in Nat /\ DOMAIN log = 1 .. Len(log)
  BY LenProperties
<1>2. Append(log, call) \in Seq(S) /\ Len(Append(log, call)) = Len(log) + 1
  OBVIOUS
<1>3. DOMAIN Append(log, call) = 1 .. Len(log) + 1
  BY <1>2, LenProperties
<1>4. /\ Append(log, call)[Len(log) + 1] = call
      /\ \A i \in 1 .. Len(log) : Append(log, call)[i] = log[i]
  BY <1>1
<1> QED
  BY <1>1, <1>2, <1>3, <1>4

(* The calls of a log with one more.                                       *)
LEMMA OneMoreCall ==
  ASSUME NEW log \in Seq(Calls), NEW call \in Calls, NEW log2, log2 = Append(log, call)
  PROVE  /\ \A i \in DOMAIN log : i \in DOMAIN log2 /\ log2[i] = log[i] /\ i <= Len(log) + 1
         /\ Len(log) + 1 \in DOMAIN log2 /\ log2[Len(log) + 1] = call
         /\ \A i \in DOMAIN log2 : i \in DOMAIN log \/ i = Len(log) + 1
         /\ \A i \in DOMAIN log2 : i <= Len(log) + 1
         /\ Len(log) + 1 \notin DOMAIN log
BY AppendIs

LEMMA LastCall ==
  ASSUME NEW log \in Seq(Calls), NEW call \in Calls, NEW log2, log2 = Append(log, call), NEW p
  PROVE  /\ SpeaksOf(call, p) => IsLast(log2, Len(log) + 1, p)
         /\ ~SpeaksOf(call, p) =>
              /\ \A i \in DOMAIN log : IsLast(log, i, p) => IsLast(log2, i, p)
              /\ (\A i \in DOMAIN log : ~SpeaksOf(log[i], p)) => \A i \in DOMAIN log2 : ~SpeaksOf(log2[i], p)
<1>1. /\ \A i \in DOMAIN log : i \in DOMAIN log2 /\ log2[i] = log[i]
      /\ Len(log) + 1 \in DOMAIN log2 /\ log2[Len(log) + 1] = call
      /\ \A i \in DOMAIN log2 : i \in DOMAIN log \/ i = Len(log) + 1
      /\ \A i \in DOMAIN log2 : i <= Len(log) + 1
  BY OneMoreCall
<1>2. SpeaksOf(call, p) => IsLast(log2, Len(log) + 1, p)
  BY <1>1 DEF IsLast
<1>3. ASSUME ~SpeaksOf(call, p), NEW i \in DOMAIN log, IsLast(log, i, p) PROVE IsLast(log2, i, p)
  <2>1. \A j \in DOMAIN log2 : SpeaksOf(log2[j], p) => j \in DOMAIN log /\ SpeaksOf(log[j], p)
    BY <1>1, <1>3
  <2> QED
    BY <1>1, <1>3, <2>1 DEF IsLast
<1>4. ~SpeaksOf(call, p) /\ (\A i \in DOMAIN log : ~SpeaksOf(log[i], p)) =>
        \A i \in DOMAIN log2 : ~SpeaksOf(log2[i], p)
  BY <1>1
<1> QED
  BY <1>2, <1>3, <1>4

LEMMA ActionSaidNow ==
  ASSUME NEW log \in Seq(Calls), NEW call \in Calls, NEW log2, log2 = Append(log, call), NEW p, NEW s,
         SpeaksOf(call, p),
         \/ s.actions[p] = call.makes /\ call.makes # Keep
         \/ s.actions[p] = Keep /\ Dropped(s, p) /\ call.makes = Absent
  PROVE  ActionAsSaid(log2, s, p)
<1>1. IsLast(log2, Len(log) + 1, p) /\ log2[Len(log) + 1] = call /\ Len(log) + 1 \in DOMAIN log2
  BY LastCall, OneMoreCall
<1> QED
  BY <1>1 DEF ActionAsSaid

LEMMA ActionAsBefore ==
  ASSUME NEW log \in Seq(Calls), NEW call \in Calls, NEW log2, log2 = Append(log, call), NEW p,
         NEW s, NEW s2, ~SpeaksOf(call, p),
         s2.actions[p] = s.actions[p], Dropped(s2, p) <=> Dropped(s, p), ActionAsSaid(log, s, p)
  PROVE  ActionAsSaid(log2, s2, p)
<1>1. \A i \in DOMAIN log : i \in DOMAIN log2 /\ log2[i] = log[i]
  BY OneMoreCall
<1>2. /\ \A i \in DOMAIN log : IsLast(log, i, p) => IsLast(log2, i, p)
      /\ (\A i \in DOMAIN log : ~SpeaksOf(log[i], p)) => \A i \in DOMAIN log2 : ~SpeaksOf(log2[i], p)
  BY LastCall
<1>3. ASSUME NEW v, \E i \in DOMAIN log : IsLast(log, i, p) /\ log[i].makes = v
      PROVE  \E i \in DOMAIN log2 : IsLast(log2, i, p) /\ log2[i].makes = v
  BY <1>1, <1>2, <1>3
<1> QED
  BY <1>1, <1>2, <1>3 DEF ActionAsSaid

LEMMA RequiredNow ==
  ASSUME NEW log \in Seq(Calls), NEW call \in Calls, NEW log2, log2 = Append(log, call)
  PROVE  /\ \A p, v : (\E i \in DOMAIN log2 : Requires(log2[i], p, v)) <=>
                        (\E i \in DOMAIN log : Requires(log[i], p, v)) \/ Requires(call, p, v)
         /\ \A x, r : (\E i \in DOMAIN log2 : RequiresPrefix(log2[i], x, r)) <=>
                        (\E i \in DOMAIN log : RequiresPrefix(log[i], x, r)) \/ RequiresPrefix(call, x, r)
<1>1. /\ \A i \in DOMAIN log : i \in DOMAIN log2 /\ log2[i] = log[i]
      /\ Len(log) + 1 \in DOMAIN log2 /\ log2[Len(log) + 1] = call
      /\ \A i \in DOMAIN log2 : i \in DOMAIN log \/ i = Len(log) + 1
  BY OneMoreCall
<1> QED
  BY <1>1

(* A Staging, and what a call makes of it.                                 *)
LEMMA StagingIs ==
  ASSUME NEW s \in Stagings
  PROVE  /\ s = [actions |-> s.actions, prefixDeletes |-> s.prefixDeletes,
                 preconditions |-> s.preconditions, prefixPreconditions |-> s.prefixPreconditions]
         /\ s.actions \in Actions /\ s.prefixDeletes \in SUBSET Prefixes
         /\ s.preconditions \in SUBSET (Paths \X Required)
         /\ s.prefixPreconditions \in SUBSET (Prefixes \X Revisions)
BY DEF Stagings

LEMMA WithPreconditionIs ==
  ASSUME NEW s \in Stagings, NEW p \in Paths, NEW needs \in Needs
  PROVE  LET w == WithPrecondition(s, p, needs)
         IN /\ w \in Stagings
            /\ w.actions = s.actions /\ w.prefixDeletes = s.prefixDeletes
            /\ w.prefixPreconditions = s.prefixPreconditions
            /\ w.preconditions = s.preconditions \cup {<<p, v>> : v \in {needs} \ {Anything}}
<1>1. /\ s = [actions |-> s.actions, prefixDeletes |-> s.prefixDeletes,
              preconditions |-> s.preconditions, prefixPreconditions |-> s.prefixPreconditions]
      /\ s.actions \in Actions /\ s.prefixDeletes \in SUBSET Prefixes
      /\ s.preconditions \in SUBSET (Paths \X Required)
      /\ s.prefixPreconditions \in SUBSET (Prefixes \X Revisions)
  BY StagingIs
<1>2. CASE needs = Anything
  <2>1. WithPrecondition(s, p, needs) = s
    BY <1>2 DEF WithPrecondition
  <2> QED
    BY <1>2, <2>1
<1>3. CASE needs # Anything
  <2>1. needs \in Required
    BY <1>3, PlanningAssumption
  <2>2. WithPrecondition(s, p, needs) =
          [actions |-> s.actions, prefixDeletes |-> s.prefixDeletes,
           preconditions |-> s.preconditions \cup {<<p, needs>>},
           prefixPreconditions |-> s.prefixPreconditions]
    BY <1>1, <1>3 DEF WithPrecondition
  <2>3. s.preconditions \cup {<<p, needs>>} \in SUBSET (Paths \X Required)
    BY <1>1, <2>1
  <2>4. {<<p, v>> : v \in {needs} \ {Anything}} = {<<p, needs>>}
    BY <1>3
  <2> QED
    BY <1>1, <2>2, <2>3, <2>4 DEF Stagings
<1> QED
  BY <1>2, <1>3

LEMMA StageIs ==
  ASSUME NEW s \in Stagings, NEW p \in Paths, NEW action \in Required, NEW needs \in Needs
  PROVE  LET w == Stage(s, p, action, needs)
         IN /\ w \in Stagings
            /\ w.actions = [s.actions EXCEPT ![p] = action] /\ w.prefixDeletes = s.prefixDeletes
            /\ w.prefixPreconditions = s.prefixPreconditions
            /\ w.preconditions = s.preconditions \cup {<<p, v>> : v \in {needs} \ {Anything}}
<1> DEFINE w == WithPrecondition(s, p, needs)
<1>1. /\ w \in Stagings
      /\ w.actions = s.actions /\ w.prefixDeletes = s.prefixDeletes
      /\ w.prefixPreconditions = s.prefixPreconditions
      /\ w.preconditions = s.preconditions \cup {<<p, v>> : v \in {needs} \ {Anything}}
  BY WithPreconditionIs
<1>2. Stage(s, p, action, needs) = [w EXCEPT !.actions = [w.actions EXCEPT ![p] = action]]
  BY DEF Stage
<1> HIDE DEF w
<1>3. /\ w = [actions |-> w.actions, prefixDeletes |-> w.prefixDeletes,
              preconditions |-> w.preconditions, prefixPreconditions |-> w.prefixPreconditions]
      /\ w.prefixDeletes \in SUBSET Prefixes
      /\ w.preconditions \in SUBSET (Paths \X Required)
      /\ w.prefixPreconditions \in SUBSET (Prefixes \X Revisions)
      /\ w.actions \in Actions
  BY <1>1, StagingIs
<1>4. Stage(s, p, action, needs) =
        [actions |-> [w.actions EXCEPT ![p] = action], prefixDeletes |-> w.prefixDeletes,
         preconditions |-> w.preconditions, prefixPreconditions |-> w.prefixPreconditions]
  BY <1>2, <1>3
<1>5. [w.actions EXCEPT ![p] = action] \in Actions
  BY <1>3 DEF Actions, Required
<1>6. Stage(s, p, action, needs) \in Stagings
  BY <1>3, <1>4, <1>5 DEF Stagings
<1> QED
  BY <1>1, <1>4, <1>6

(* A call that stages an action.                                           *)
LEMMA StageSaid ==
  ASSUME NEW log \in Seq(Calls), NEW s \in Stagings, AsSaid(log, s),
         NEW op \in {"write", "delete"}, NEW p \in Paths, NEW action \in Required, NEW needs \in Needs
  PROVE  LET call == [op |-> op, path |-> p, makes |-> action, needs |-> needs]
         IN call \in Calls /\ AsSaid(Append(log, call), Stage(s, p, action, needs))
<1> DEFINE call == [op |-> op, path |-> p, makes |-> action, needs |-> needs]
           log2 == Append(log, call)
           w    == Stage(s, p, action, needs)
<1>1. call \in Calls
  BY DEF Calls
<1>2. /\ w.actions = [s.actions EXCEPT ![p] = action] /\ w.prefixDeletes = s.prefixDeletes
      /\ w.prefixPreconditions = s.prefixPreconditions
      /\ w.preconditions = s.preconditions \cup {<<p, v>> : v \in {needs} \ {Anything}}
  BY StageIs
<1>3. s.actions \in Actions
  BY StagingIs
<1>4. w.actions[p] = action /\ \A q \in Paths \ {p} : w.actions[q] = s.actions[q]
  BY <1>2, <1>3 DEF Actions
<1>5. \A q \in Paths : Dropped(w, q) <=> Dropped(s, q)
  BY <1>2 DEF Dropped
<1>6. \A q : SpeaksOf(call, q) <=> q = p
  BY DEF SpeaksOf
<1>7. /\ \A q, v : Requires(call, q, v) <=> q = p /\ v = needs /\ v # Anything
      /\ \A x, r : ~RequiresPrefix(call, x, r)
      /\ call.makes = action
  BY DEF Requires, RequiresPrefix
<1> HIDE DEF call, w
<1>8. action # Keep
  BY PlanningAssumption
<1>9. ASSUME NEW q \in Paths PROVE ActionAsSaid(log2, w, q)
  <2>1. CASE q = p
    BY <1>1, <1>4, <1>6, <1>7, <1>8, <2>1, ActionSaidNow
  <2>2. CASE q # p
    <3>1. ActionAsSaid(log, s, q) /\ ~SpeaksOf(call, q) /\ w.actions[q] = s.actions[q]
      BY <1>4, <1>6, <2>2 DEF AsSaid
    <3> QED
      BY <1>1, <1>5, <3>1, ActionAsBefore
  <2> QED
    BY <2>1, <2>2
<1>10. ASSUME NEW q \in Paths, NEW v \in Required
       PROVE  <<q, v>> \in w.preconditions <=> \E i \in DOMAIN log2 : Requires(log2[i], q, v)
  <2>1. <<q, v>> \in w.preconditions <=> <<q, v>> \in s.preconditions \/ (q = p /\ v = needs /\ v # Anything)
    BY <1>2
  <2>2. (\E i \in DOMAIN log2 : Requires(log2[i], q, v)) <=>
          (\E i \in DOMAIN log : Requires(log[i], q, v)) \/ Requires(call, q, v)
    BY <1>1, RequiredNow
  <2> QED
    BY <1>7, <2>1, <2>2 DEF AsSaid
<1>11. ASSUME NEW x \in Prefixes, NEW r \in Revisions
       PROVE  <<x, r>> \in w.prefixPreconditions <=> \E i \in DOMAIN log2 : RequiresPrefix(log2[i], x, r)
  <2>1. (\E i \in DOMAIN log2 : RequiresPrefix(log2[i], x, r)) <=>
          (\E i \in DOMAIN log : RequiresPrefix(log[i], x, r)) \/ RequiresPrefix(call, x, r)
    BY <1>1, RequiredNow
  <2> QED
    BY <1>2, <1>7, <2>1 DEF AsSaid
<1> QED
  BY <1>1, <1>9, <1>10, <1>11 DEF AsSaid, call, w

(* One that only requires something of a Path.                              *)
LEMMA RequireSaid ==
  ASSUME NEW log \in Seq(Calls), NEW s \in Stagings, AsSaid(log, s),
         NEW p \in Paths, NEW needs \in Needs
  PROVE  LET call == [op |-> "require", path |-> p, needs |-> needs]
         IN call \in Calls /\ AsSaid(Append(log, call), WithPrecondition(s, p, needs))
<1> DEFINE call == [op |-> "require", path |-> p, needs |-> needs]
           log2 == Append(log, call)
           w    == WithPrecondition(s, p, needs)
<1>1. call \in Calls
  BY DEF Calls
<1>2. /\ w.actions = s.actions /\ w.prefixDeletes = s.prefixDeletes
      /\ w.prefixPreconditions = s.prefixPreconditions
      /\ w.preconditions = s.preconditions \cup {<<p, v>> : v \in {needs} \ {Anything}}
  BY WithPreconditionIs
<1>3. \A q \in Paths : Dropped(w, q) <=> Dropped(s, q)
  BY <1>2 DEF Dropped
<1>4. \A q : ~SpeaksOf(call, q)
  BY DEF SpeaksOf
<1>5. /\ \A q, v : Requires(call, q, v) <=> q = p /\ v = needs /\ v # Anything
      /\ \A x, r : ~RequiresPrefix(call, x, r)
  BY DEF Requires, RequiresPrefix
<1> HIDE DEF call, w
<1>6. ASSUME NEW q \in Paths PROVE ActionAsSaid(log2, w, q)
  <2>1. ActionAsSaid(log, s, q) /\ ~SpeaksOf(call, q) /\ w.actions[q] = s.actions[q]
    BY <1>2, <1>4 DEF AsSaid
  <2> QED
    BY <1>1, <1>3, <2>1, ActionAsBefore
<1>7. ASSUME NEW q \in Paths, NEW v \in Required
      PROVE  <<q, v>> \in w.preconditions <=> \E i \in DOMAIN log2 : Requires(log2[i], q, v)
  <2>1. <<q, v>> \in w.preconditions <=> <<q, v>> \in s.preconditions \/ (q = p /\ v = needs /\ v # Anything)
    BY <1>2
  <2>2. (\E i \in DOMAIN log2 : Requires(log2[i], q, v)) <=>
          (\E i \in DOMAIN log : Requires(log[i], q, v)) \/ Requires(call, q, v)
    BY <1>1, RequiredNow
  <2> QED
    BY <1>5, <2>1, <2>2 DEF AsSaid
<1>8. ASSUME NEW x \in Prefixes, NEW r \in Revisions
      PROVE  <<x, r>> \in w.prefixPreconditions <=> \E i \in DOMAIN log2 : RequiresPrefix(log2[i], x, r)
  <2>1. (\E i \in DOMAIN log2 : RequiresPrefix(log2[i], x, r)) <=>
          (\E i \in DOMAIN log : RequiresPrefix(log[i], x, r)) \/ RequiresPrefix(call, x, r)
    BY <1>1, RequiredNow
  <2> QED
    BY <1>2, <1>5, <2>1 DEF AsSaid
<1> QED
  BY <1>1, <1>6, <1>7, <1>8 DEF AsSaid, call, w

(* The delete of a Prefix.                                                 *)
LEMMA DeletePrefixSaid ==
  ASSUME NEW log \in Seq(Calls), NEW s \in Stagings, AsSaid(log, s), NEW x \in Prefixes
  PROVE  LET call == [op |-> "delete_prefix", prefix |-> x, makes |-> Absent]
             w == [s EXCEPT !.actions = [p \in Paths |-> IF Covers(x, p) THEN Keep ELSE @[p]],
                            !.prefixDeletes = @ \cup {x}]
         IN call \in Calls /\ w \in Stagings /\ AsSaid(Append(log, call), w)
<1> DEFINE call == [op |-> "delete_prefix", prefix |-> x, makes |-> Absent]
           log2 == Append(log, call)
           w    == [s EXCEPT !.actions = [p \in Paths |-> IF Covers(x, p) THEN Keep ELSE @[p]],
                             !.prefixDeletes = @ \cup {x}]
           kept == [p \in Paths |-> IF Covers(x, p) THEN Keep ELSE s.actions[p]]
<1>1. call \in Calls
  BY DEF Calls
<1>2. /\ s = [actions |-> s.actions, prefixDeletes |-> s.prefixDeletes,
              preconditions |-> s.preconditions, prefixPreconditions |-> s.prefixPreconditions]
      /\ s.actions \in Actions /\ s.prefixDeletes \in SUBSET Prefixes
      /\ s.preconditions \in SUBSET (Paths \X Required)
      /\ s.prefixPreconditions \in SUBSET (Prefixes \X Revisions)
  BY StagingIs
<1>3. w = [actions |-> kept, prefixDeletes |-> s.prefixDeletes \cup {x},
           preconditions |-> s.preconditions, prefixPreconditions |-> s.prefixPreconditions]
  <2> DEFINE now == s.prefixDeletes \cup {x}
  <2>1. w = [s EXCEPT !.actions = kept, !.prefixDeletes = now]
    OBVIOUS
  <2> HIDE DEF now, kept, w
  <2>2. w = [actions |-> kept, prefixDeletes |-> now, preconditions |-> s.preconditions,
             prefixPreconditions |-> s.prefixPreconditions]
    BY <1>2, <2>1
  <2> QED
    BY <2>2 DEF now
<1>4. kept \in Actions
  BY <1>2 DEF Actions
<1>5. w \in Stagings
  BY <1>2, <1>3, <1>4 DEF Stagings
<1>6. /\ \A p \in Paths : w.actions[p] = IF Covers(x, p) THEN Keep ELSE s.actions[p]
      /\ w.prefixDeletes = s.prefixDeletes \cup {x}
      /\ w.preconditions = s.preconditions /\ w.prefixPreconditions = s.prefixPreconditions
  BY <1>3
<1>7. \A p \in Paths : Dropped(w, p) <=> Dropped(s, p) \/ Covers(x, p)
  BY <1>6 DEF Dropped
<1>8. \A p : SpeaksOf(call, p) <=> Covers(x, p)
  BY DEF SpeaksOf
<1>9. /\ \A p, v : ~Requires(call, p, v)
      /\ \A y, r : ~RequiresPrefix(call, y, r)
      /\ call.makes = Absent
  BY DEF Requires, RequiresPrefix
<1> HIDE DEF call, w
<1>10. ASSUME NEW p \in Paths PROVE ActionAsSaid(log2, w, p)
  <2>1. CASE Covers(x, p)
    BY <1>1, <1>6, <1>7, <1>8, <1>9, <2>1, ActionSaidNow
  <2>2. CASE ~Covers(x, p)
    <3>1. /\ ActionAsSaid(log, s, p) /\ ~SpeaksOf(call, p) /\ w.actions[p] = s.actions[p]
          /\ Dropped(w, p) <=> Dropped(s, p)
      BY <1>6, <1>7, <1>8, <2>2 DEF AsSaid
    <3> QED
      BY <1>1, <3>1, ActionAsBefore
  <2> QED
    BY <2>1, <2>2
<1>11. ASSUME NEW p \in Paths, NEW v \in Required
       PROVE  <<p, v>> \in w.preconditions <=> \E i \in DOMAIN log2 : Requires(log2[i], p, v)
  <2>1. (\E i \in DOMAIN log2 : Requires(log2[i], p, v)) <=>
          (\E i \in DOMAIN log : Requires(log[i], p, v)) \/ Requires(call, p, v)
    BY <1>1, RequiredNow
  <2> QED
    BY <1>6, <1>9, <2>1 DEF AsSaid
<1>12. ASSUME NEW y \in Prefixes, NEW r \in Revisions
       PROVE  <<y, r>> \in w.prefixPreconditions <=> \E i \in DOMAIN log2 : RequiresPrefix(log2[i], y, r)
  <2>1. (\E i \in DOMAIN log2 : RequiresPrefix(log2[i], y, r)) <=>
          (\E i \in DOMAIN log : RequiresPrefix(log[i], y, r)) \/ RequiresPrefix(call, y, r)
    BY <1>1, RequiredNow
  <2> QED
    BY <1>6, <1>9, <2>1 DEF AsSaid
<1>13. AsSaid(log2, w)
  BY <1>10, <1>11, <1>12 DEF AsSaid
<1> QED
  BY <1>1, <1>5, <1>13 DEF call, w

(* And one that requires something of a Prefix.                             *)
LEMMA RequirePrefixSaid ==
  ASSUME NEW log \in Seq(Calls), NEW s \in Stagings, AsSaid(log, s),
         NEW x \in Prefixes, NEW since \in Revisions
  PROVE  LET call == [op |-> "require_prefix", prefix |-> x, since |-> since]
             w == [s EXCEPT !.prefixPreconditions = @ \cup {<<x, since>>}]
         IN call \in Calls /\ w \in Stagings /\ AsSaid(Append(log, call), w)
<1> DEFINE call == [op |-> "require_prefix", prefix |-> x, since |-> since]
           log2 == Append(log, call)
           w    == [s EXCEPT !.prefixPreconditions = @ \cup {<<x, since>>}]
<1>1. call \in Calls
  BY DEF Calls
<1>2. /\ s = [actions |-> s.actions, prefixDeletes |-> s.prefixDeletes,
              preconditions |-> s.preconditions, prefixPreconditions |-> s.prefixPreconditions]
      /\ s.actions \in Actions /\ s.prefixDeletes \in SUBSET Prefixes
      /\ s.preconditions \in SUBSET (Paths \X Required)
      /\ s.prefixPreconditions \in SUBSET (Prefixes \X Revisions)
  BY StagingIs
<1>3. w = [actions |-> s.actions, prefixDeletes |-> s.prefixDeletes, preconditions |-> s.preconditions,
           prefixPreconditions |-> s.prefixPreconditions \cup {<<x, since>>}]
  <2> DEFINE now == s.prefixPreconditions \cup {<<x, since>>}
  <2>1. w = [s EXCEPT !.prefixPreconditions = now]
    OBVIOUS
  <2> HIDE DEF now, w
  <2>2. w = [actions |-> s.actions, prefixDeletes |-> s.prefixDeletes, preconditions |-> s.preconditions,
             prefixPreconditions |-> now]
    BY <1>2, <2>1
  <2> QED
    BY <2>2 DEF now
<1>4. s.prefixPreconditions \cup {<<x, since>>} \in SUBSET (Prefixes \X Revisions)
  BY <1>2
<1>5. w \in Stagings
  BY <1>2, <1>3, <1>4 DEF Stagings
<1>6. /\ w.actions = s.actions /\ w.prefixDeletes = s.prefixDeletes /\ w.preconditions = s.preconditions
      /\ w.prefixPreconditions = s.prefixPreconditions \cup {<<x, since>>}
  BY <1>3
<1>7. \A p \in Paths : Dropped(w, p) <=> Dropped(s, p)
  BY <1>6 DEF Dropped
<1>8. \A p : ~SpeaksOf(call, p)
  BY DEF SpeaksOf
<1>9. /\ \A p, v : ~Requires(call, p, v)
      /\ \A y, r : RequiresPrefix(call, y, r) <=> y = x /\ r = since
  BY DEF Requires, RequiresPrefix
<1> HIDE DEF call, w
<1>10. ASSUME NEW p \in Paths PROVE ActionAsSaid(log2, w, p)
  <2>1. ActionAsSaid(log, s, p) /\ ~SpeaksOf(call, p) /\ w.actions[p] = s.actions[p]
    BY <1>6, <1>8 DEF AsSaid
  <2> QED
    BY <1>1, <1>7, <2>1, ActionAsBefore
<1>11. ASSUME NEW p \in Paths, NEW v \in Required
       PROVE  <<p, v>> \in w.preconditions <=> \E i \in DOMAIN log2 : Requires(log2[i], p, v)
  <2>1. (\E i \in DOMAIN log2 : Requires(log2[i], p, v)) <=>
          (\E i \in DOMAIN log : Requires(log[i], p, v)) \/ Requires(call, p, v)
    BY <1>1, RequiredNow
  <2> QED
    BY <1>6, <1>9, <2>1 DEF AsSaid
<1>12. ASSUME NEW y \in Prefixes, NEW r \in Revisions
       PROVE  <<y, r>> \in w.prefixPreconditions <=> \E i \in DOMAIN log2 : RequiresPrefix(log2[i], y, r)
  <2>1. (\E i \in DOMAIN log2 : RequiresPrefix(log2[i], y, r)) <=>
          (\E i \in DOMAIN log : RequiresPrefix(log[i], y, r)) \/ RequiresPrefix(call, y, r)
    BY <1>1, RequiredNow
  <2>2. <<y, r>> \in w.prefixPreconditions <=> <<y, r>> \in s.prefixPreconditions \/ (y = x /\ r = since)
    BY <1>6
  <2> QED
    BY <1>9, <2>1, <2>2 DEF AsSaid
<1>13. AsSaid(log2, w)
  BY <1>10, <1>11, <1>12 DEF AsSaid
<1> QED
  BY <1>1, <1>5, <1>13 DEF call, w

-----------------------------------------------------------------------------
(* What a Commit works out of a Staging is what its calls mean.             *)

LEMMA PairsAre ==
  ASSUME NEW A, NEW B, NEW Pairs \in SUBSET (A \X B), NEW r \in Pairs
  PROVE  r[1] \in A /\ r[2] \in B /\ <<r[1], r[2]>> \in Pairs
<1>1. r \in A \X B
  OBVIOUS
<1>2. r[1] \in A /\ r[2] \in B /\ r = <<r[1], r[2]>>
  BY <1>1
<1> QED
  BY <1>2

LEMMA CallsAre ==
  ASSUME NEW call \in Calls
  PROVE  /\ call.op \in {"write", "delete", "require"} => call.path \in Paths /\ call.needs \in Needs
         /\ call.op = "require_prefix" => call.prefix \in Prefixes /\ call.since \in Revisions
BY DEF Calls

LEMMA LogIs ==
  ASSUME NEW log \in Seq(Calls)
  PROVE  /\ DOMAIN log \subseteq Nat
         /\ \A i \in DOMAIN log : log[i] \in Calls
BY LenProperties, ElementOfSeq

LEMMA ExpandedIs ==
  ASSUME NEW s \in Stagings
  PROVE  /\ Expanded(s) \in Actions
         /\ \A p \in Paths : Expanded(s)[p] =
              IF s.actions[p] = Keep /\ files[p] # Absent /\ Dropped(s, p) THEN Absent ELSE s.actions[p]
<1>1. s.actions \in Actions
  BY StagingIs
<1>2. \A p \in Paths : Expanded(s)[p] =
        IF s.actions[p] = Keep /\ files[p] # Absent /\ Dropped(s, p) THEN Absent ELSE s.actions[p]
  BY DEF Expanded, Dropped
<1>3. \A p \in Paths : Expanded(s)[p] \in Contents \cup {Absent, Keep}
  BY <1>1, <1>2 DEF Actions
<1>4. Expanded(s) = [p \in Paths |-> Expanded(s)[p]]
  BY DEF Expanded
<1>5. Expanded(s) \in Actions
  BY <1>3, <1>4 DEF Actions
<1> QED
  BY <1>2, <1>5

LEMMA EffectiveIs ==
  ASSUME NEW b \in Actions, files \in Files
  PROVE  /\ Effective(b) \in Actions
         /\ \A p \in Paths : /\ Effective(b)[p] = IF b[p] = files[p] THEN Keep ELSE b[p]
                             /\ Effective(b)[p] # files[p]
<1>1. \A p \in Paths : b[p] \in Contents \cup {Absent, Keep} /\ files[p] \in Contents \cup {Absent}
  BY DEF Actions, Files
<1>2. \A p \in Paths : Effective(b)[p] = IF b[p] = files[p] THEN Keep ELSE b[p]
  BY DEF Effective
<1>3. \A p \in Paths : Effective(b)[p] \in Contents \cup {Absent, Keep} /\ Effective(b)[p] # files[p]
  BY <1>1, <1>2, ValuesAre
<1>4. Effective(b) = [p \in Paths |-> Effective(b)[p]]
  BY DEF Effective
<1>5. Effective(b) \in Actions
  BY <1>3, <1>4 DEF Actions
<1> QED
  BY <1>2, <1>3, <1>5

LEMMA LastIs ==
  ASSUME NEW log \in Seq(Calls), NEW p \in Paths, NEW f, NEW i, IsLast(log, i, p)
  PROVE  Meant(log, f)[p] = log[i].makes
<1> DEFINE speaking == {j \in DOMAIN log : SpeaksOf(log[j], p)}
<1>1. i \in speaking /\ \A j \in speaking : j <= i
  BY DEF IsLast
<1>2. speaking \subseteq Nat
  BY LogIs
<1>3. Meant(log, f)[p] = IF speaking = {} THEN f[p]
                         ELSE log[CHOOSE k \in speaking : \A j \in speaking : j <= k].makes
  BY DEF Meant
<1> HIDE DEF speaking
<1>4. \A k \in speaking : (\A j \in speaking : j <= k) => k = i
  BY <1>1, <1>2
<1>5. (CHOOSE k \in speaking : \A j \in speaking : j <= k) = i
  BY <1>1, <1>4
<1> QED
  BY <1>1, <1>3, <1>5

LEMMA MadeIsMeant ==
  ASSUME files \in Files, NEW log \in Seq(Calls), NEW s \in Stagings, AsSaid(log, s)
  PROVE  After(Effective(Expanded(s))) = Meant(log, files)
<1> DEFINE b == Expanded(s)
           a == Effective(b)
<1>1. b \in Actions /\ a \in Actions
  BY ExpandedIs, EffectiveIs
<1>2. \A p \in Paths : a[p] = IF b[p] = files[p] THEN Keep ELSE b[p]
  BY <1>1, EffectiveIs
<1>3. \A p \in Paths : b[p] = IF s.actions[p] = Keep /\ files[p] # Absent /\ Dropped(s, p) THEN Absent
                              ELSE s.actions[p]
  BY ExpandedIs
<1> HIDE DEF a, b
<1>4. \A p \in Paths : After(a)[p] = IF b[p] = Keep THEN files[p] ELSE b[p]
  BY <1>1, <1>2, AfterIs
<1>5. ASSUME NEW p \in Paths PROVE After(a)[p] = Meant(log, files)[p]
  <2>1. ActionAsSaid(log, s, p)
    BY DEF AsSaid
  <2>2. \A v : (\E i \in DOMAIN log : IsLast(log, i, p) /\ log[i].makes = v) => Meant(log, files)[p] = v
    BY LastIs
  <2>3. (\A i \in DOMAIN log : ~SpeaksOf(log[i], p)) => Meant(log, files)[p] = files[p]
    BY DEF Meant
  <2>4. CASE s.actions[p] = Keep /\ ~Dropped(s, p) /\ \A i \in DOMAIN log : ~SpeaksOf(log[i], p)
    BY <1>3, <1>4, <2>3, <2>4
  <2>5. CASE s.actions[p] = Keep /\ Dropped(s, p)
               /\ \E i \in DOMAIN log : IsLast(log, i, p) /\ log[i].makes = Absent
    BY <1>3, <1>4, <2>2, <2>5, ValuesAre
  <2>6. CASE s.actions[p] # Keep /\ \E i \in DOMAIN log : IsLast(log, i, p) /\ log[i].makes = s.actions[p]
    BY <1>3, <1>4, <2>2, <2>6
  <2> QED
    BY <2>1, <2>4, <2>5, <2>6 DEF ActionAsSaid
<1>6. After(a) = [p \in Paths |-> After(a)[p]] /\ Meant(log, files) = [p \in Paths |-> Meant(log, files)[p]]
  BY DEF After, Meant
<1>7. After(a) = Meant(log, files)
  BY <1>5, <1>6
<1> QED
  BY <1>7 DEF a, b

LEMMA DifferenceIs ==
  ASSUME NEW r \in Revisions, OnlyUnder(r), NEW p \in Paths
  PROVE  p \in Differences(r) <=> Covers(r.prefix, p) /\ r.files[p] # files[p]
BY DEF Differences, Under, OnlyUnder

LEMMA ConflictsAreFailing ==
  ASSUME NEW log \in Seq(Calls), NEW s \in Stagings, AsSaid(log, s),
         \A i \in DOMAIN log : log[i].op = "require_prefix" => OnlyUnder(log[i].since)
  PROVE  Conflicts(s) = Failing(log, files)
<1> DEFINE Direct(p)  == \E v \in Required : <<p, v>> \in s.preconditions /\ v # files[p]
           Through(p) == \E x \in Prefixes, r \in Revisions : <<x, r>> \in s.prefixPreconditions /\ p \in Differences(r)
<1>1. /\ s.preconditions \in SUBSET (Paths \X Required)
      /\ s.prefixPreconditions \in SUBSET (Prefixes \X Revisions)
  BY StagingIs
<1>2. \A i \in DOMAIN log : log[i] \in Calls
  BY LogIs
<1>3. \A p : p \in Conflicts(s) <=> p \in Paths /\ (Direct(p) \/ Through(p))
  <2> DEFINE Failed == {r \in s.preconditions : r[2] # files[r[1]]}
  <2>1. ASSUME NEW r \in Failed PROVE r[1] \in Paths /\ Direct(r[1])
    <3>1. r[1] \in Paths /\ r[2] \in Required /\ <<r[1], r[2]>> \in s.preconditions
      BY <1>1, PairsAre
    <3> QED
      BY <3>1
  <2>2. ASSUME NEW p, Direct(p) PROVE \E r \in Failed : p = r[1]
    <3>1. PICK v \in Required : <<p, v>> \in s.preconditions /\ v # files[p]
      BY <2>2
    <3>2. <<p, v>> \in Failed /\ <<p, v>>[1] = p
      BY <3>1
    <3> QED
      BY <3>2
  <2>3. ASSUME NEW r \in s.prefixPreconditions, NEW p \in Differences(r[2]) PROVE p \in Paths /\ Through(p)
    <3>1. r[1] \in Prefixes /\ r[2] \in Revisions /\ <<r[1], r[2]>> \in s.prefixPreconditions
      BY <1>1, PairsAre
    <3>2. p \in Paths
      BY DEF Differences
    <3> QED
      BY <3>1, <3>2
  <2>4. ASSUME NEW p, Through(p) PROVE \E r \in s.prefixPreconditions : p \in Differences(r[2])
    <3>1. PICK x \in Prefixes, r \in Revisions : <<x, r>> \in s.prefixPreconditions /\ p \in Differences(r)
      BY <2>4
    <3>2. <<x, r>>[2] = r
      OBVIOUS
    <3> QED
      BY <3>1, <3>2
  <2>5. \A p : p \in Conflicts(s) <=>
          (\E r \in Failed : p = r[1]) \/ \E r \in s.prefixPreconditions : p \in Differences(r[2])
    BY DEF Conflicts
  <2> HIDE DEF Failed, Direct, Through
  <2>6. \A p : (\E r \in Failed : p = r[1]) => p \in Paths /\ Direct(p)
    BY <2>1
  <2>7. \A p : (\E r \in s.prefixPreconditions : p \in Differences(r[2])) => p \in Paths /\ Through(p)
    BY <2>3
  <2> QED
    BY <2>2, <2>4, <2>5, <2>6, <2>7
<1>4. ASSUME NEW p \in Paths
      PROVE  Direct(p) <=> \E i \in DOMAIN log : /\ log[i].op \in {"write", "delete", "require"}
                                                 /\ log[i].path = p
                                                 /\ log[i].needs \notin {Anything, files[p]}
  <2>1. \A v \in Required : <<p, v>> \in s.preconditions <=> \E i \in DOMAIN log : Requires(log[i], p, v)
    BY DEF AsSaid
  <2>2. ASSUME NEW i \in DOMAIN log, log[i].op \in {"write", "delete", "require"}, log[i].path = p,
               log[i].needs \notin {Anything, files[p]}
        PROVE  Direct(p)
    <3>1. log[i].needs \in Required
      BY <1>2, <2>2, CallsAre, PlanningAssumption
    <3>2. Requires(log[i], p, log[i].needs)
      BY <2>2 DEF Requires
    <3> QED
      BY <2>1, <2>2, <3>1, <3>2
  <2>3. Direct(p) => \E i \in DOMAIN log : /\ log[i].op \in {"write", "delete", "require"}
                                           /\ log[i].path = p
                                           /\ log[i].needs \notin {Anything, files[p]}
    BY <2>1 DEF Requires
  <2> QED
    BY <2>2, <2>3
<1>5. ASSUME NEW p \in Paths
      PROVE  Through(p) <=> \E i \in DOMAIN log : /\ log[i].op = "require_prefix"
                                                  /\ Covers(log[i].since.prefix, p)
                                                  /\ log[i].since.files[p] # files[p]
  <2>1. \A x \in Prefixes, r \in Revisions :
          <<x, r>> \in s.prefixPreconditions <=> \E i \in DOMAIN log : RequiresPrefix(log[i], x, r)
    BY DEF AsSaid
  <2>2. ASSUME NEW i \in DOMAIN log, log[i].op = "require_prefix"
        PROVE  /\ log[i].prefix \in Prefixes /\ log[i].since \in Revisions
               /\ RequiresPrefix(log[i], log[i].prefix, log[i].since)
               /\ p \in Differences(log[i].since) <=>
                    Covers(log[i].since.prefix, p) /\ log[i].since.files[p] # files[p]
    <3>1. log[i].prefix \in Prefixes /\ log[i].since \in Revisions
      BY <1>2, <2>2, CallsAre
    <3> QED
      BY <2>2, <3>1, DifferenceIs DEF RequiresPrefix
  <2>3. Through(p) => \E i \in DOMAIN log : log[i].op = "require_prefix" /\ p \in Differences(log[i].since)
    BY <2>1 DEF RequiresPrefix
  <2>4. ASSUME NEW i \in DOMAIN log, log[i].op = "require_prefix", p \in Differences(log[i].since)
        PROVE  Through(p)
    BY <2>1, <2>2, <2>4
  <2> QED
    BY <2>2, <2>3, <2>4
<1>6. \A p : p \in Failing(log, files) <=>
        /\ p \in Paths
        /\ \/ \E i \in DOMAIN log : /\ log[i].op \in {"write", "delete", "require"}
                                    /\ log[i].path = p
                                    /\ log[i].needs \notin {Anything, files[p]}
           \/ \E i \in DOMAIN log : /\ log[i].op = "require_prefix"
                                    /\ Covers(log[i].since.prefix, p)
                                    /\ log[i].since.files[p] # files[p]
  BY DEF Failing
<1> HIDE DEF Direct, Through
<1>7. \A p : p \in Conflicts(s) <=> p \in Failing(log, files)
  BY <1>3, <1>4, <1>5, <1>6
<1> QED
  BY <1>7

LEMMA WrongIsElsewhere ==
  ASSUME NEW log \in Seq(Calls), NEW s \in Stagings, AsSaid(log, s)
  PROVE  HasWrongPrefixRevision(s) <=> RequiresElsewhere(log)
<1>1. s.prefixPreconditions \in SUBSET (Prefixes \X Revisions)
  BY StagingIs
<1>2. \A x \in Prefixes, r \in Revisions :
        <<x, r>> \in s.prefixPreconditions <=> \E i \in DOMAIN log : RequiresPrefix(log[i], x, r)
  BY DEF AsSaid
<1>3. ASSUME HasWrongPrefixRevision(s) PROVE RequiresElsewhere(log)
  <2>1. PICK r \in s.prefixPreconditions : ~(r[2].store = Store /\ r[2].prefix = r[1])
    BY <1>3 DEF HasWrongPrefixRevision
  <2>2. r[1] \in Prefixes /\ r[2] \in Revisions /\ <<r[1], r[2]>> \in s.prefixPreconditions
    BY <1>1, PairsAre
  <2>3. PICK i \in DOMAIN log : RequiresPrefix(log[i], r[1], r[2])
    BY <1>2, <2>2
  <2>4. log[i].op = "require_prefix" /\ log[i].prefix = r[1] /\ log[i].since = r[2]
    BY <2>3 DEF RequiresPrefix
  <2>5. log[i].since.store # Store \/ log[i].since.prefix # log[i].prefix
    BY <2>1, <2>4
  <2> QED
    BY <2>4, <2>5 DEF RequiresElsewhere
<1>4. ASSUME NEW i \in DOMAIN log, log[i].op = "require_prefix",
             log[i].since.store # Store \/ log[i].since.prefix # log[i].prefix
      PROVE  HasWrongPrefixRevision(s)
  <2>1. log[i].prefix \in Prefixes /\ log[i].since \in Revisions
    BY <1>4, LogIs, CallsAre
  <2>2. RequiresPrefix(log[i], log[i].prefix, log[i].since)
    BY <1>4 DEF RequiresPrefix
  <2> DEFINE r == <<log[i].prefix, log[i].since>>
  <2>3. r \in s.prefixPreconditions
    BY <1>2, <2>1, <2>2
  <2>4. r[1] = log[i].prefix /\ r[2] = log[i].since
    OBVIOUS
  <2> HIDE DEF r
  <2>5. ~(r[2].store = Store /\ r[2].prefix = r[1])
    BY <1>4, <2>4
  <2> QED
    BY <2>3, <2>5 DEF HasWrongPrefixRevision
<1> QED
  BY <1>3, <1>4 DEF RequiresElsewhere

-----------------------------------------------------------------------------
(* The invariant holds at first and through every step.                    *)

LEMMA NothingSaid ==
  NothingStaged \in Stagings /\ << >> \in Seq(Calls) /\ AsSaid(<< >>, NothingStaged)
<1>1. [p \in Paths |-> Keep] \in Actions
  BY DEF Actions
<1>2. NothingStaged \in Stagings
  BY <1>1 DEF NothingStaged, Stagings
<1>3. << >> \in Seq(Calls) /\ DOMAIN << >> = {}
  BY EmptySeq
<1>4. \A p \in Paths : NothingStaged.actions[p] = Keep /\ ~Dropped(NothingStaged, p)
  BY DEF NothingStaged, Dropped
<1>5. NothingStaged.preconditions = {} /\ NothingStaged.prefixPreconditions = {}
  BY DEF NothingStaged
<1>6. AsSaid(<< >>, NothingStaged)
  BY <1>3, <1>4, <1>5 DEF AsSaid, ActionAsSaid
<1> QED
  BY <1>2, <1>3, <1>6

LEMMA Initially ==
  ASSUME Init
  PROVE  IInv
<1>1. files \in Files /\ ~Clashes(files) /\ folds = IndexOf(files)
  BY PlanningAssumption DEF Init
<1>2. folds \in [Folds -> Paths \cup {None}] /\ Indexed(files, folds)
  BY <1>1, IndexIsRight
<1>3. \A c \in Tasks : staged[c] = NothingStaged /\ said[c] = << >> /\ taken[c] = None
  BY DEF Init
<1>4. staged \in [Tasks -> Stagings] /\ said \in [Tasks -> Seq(Calls)] /\ taken \in [Tasks -> Revisions \cup {None}]
  BY NothingSaid DEF Init
<1>5. calls \in 0 .. MaxCalls /\ commits \in 0 .. MaxCommits
  BY PlanningAssumption DEF Init
<1>6. KeepsItsKinds
  BY <1>1, <1>2, <1>4, <1>5 DEF KeepsItsKinds
<1>7. \A c \in Tasks : AsSaid(said[c], staged[c])
  BY <1>3, NothingSaid
<1>8. RevisionsAreUnder
  BY <1>3, EmptySeq DEF RevisionsAreUnder
<1> QED
  BY <1>2, <1>6, <1>7, <1>8 DEF IInv

(* A call on a Staging.                                                    *)
LEMMA SaidKeeps ==
  ASSUME IInv, NEW c \in Tasks, NEW call \in Calls, NEW s \in Stagings, Said(c, call, s),
         AsSaid(Append(said[c], call), s), call.op = "require_prefix" => OnlyUnder(call.since)
  PROVE  IInv'
<1>1. /\ files \in Files /\ folds \in [Folds -> Paths \cup {None}]
      /\ staged \in [Tasks -> Stagings] /\ said \in [Tasks -> Seq(Calls)]
      /\ taken \in [Tasks -> Revisions \cup {None}]
      /\ calls \in 0 .. MaxCalls /\ commits \in 0 .. MaxCommits
  BY DEF IInv, KeepsItsKinds
<1> DEFINE log2 == Append(said[c], call)
<1>2. /\ staged' = [staged EXCEPT ![c] = s] /\ said' = [said EXCEPT ![c] = log2]
      /\ UNCHANGED <<files, folds, taken, commits>> /\ calls' = calls + 1 /\ calls < MaxCalls
  BY DEF Said, Called
<1>3. log2 \in Seq(Calls)
  BY <1>1, AppendIs
<1>4. \A i \in DOMAIN log2 : (i \in DOMAIN said[c] /\ log2[i] = said[c][i]) \/ log2[i] = call
  <2>1. said[c] \in Seq(Calls)
    BY <1>1
  <2> QED
    BY <2>1, OneMoreCall
<1>5. AsSaid(log2, s)
  OBVIOUS
<1> HIDE DEF log2
<1>6. /\ staged' \in [Tasks -> Stagings] /\ said' \in [Tasks -> Seq(Calls)]
      /\ \A d \in Tasks : IF d = c THEN said'[d] = log2 /\ staged'[d] = s
                          ELSE said'[d] = said[d] /\ staged'[d] = staged[d]
  BY <1>1, <1>2, <1>3
<1>7. calls' \in 0 .. MaxCalls
  BY <1>1, <1>2, PlanningAssumption
<1>8. KeepsItsKinds'
  BY <1>1, <1>2, <1>6, <1>7 DEF KeepsItsKinds
<1>9. \A d \in Tasks : AsSaid(said'[d], staged'[d])
  BY <1>5, <1>6 DEF IInv
<1>10. RevisionsAreUnder
  BY DEF IInv
<1>11. \A d \in Tasks : /\ taken'[d] # None => OnlyUnder(taken'[d])
                        /\ \A i \in DOMAIN said'[d] :
                             said'[d][i].op = "require_prefix" => OnlyUnder(said'[d][i].since)
  BY <1>2, <1>4, <1>6, <1>10 DEF RevisionsAreUnder
<1>12. Indexed(files', folds')
  BY <1>2 DEF IInv
<1> QED
  BY <1>8, <1>9, <1>11, <1>12 DEF IInv, RevisionsAreUnder

LEMMA StatKeeps ==
  ASSUME IInv, NEW c \in Tasks, NEW store \in {Store, Elsewhere}, NEW x \in Prefixes,
         StatPrefix(c, store, x)
  PROVE  IInv'
<1>1. /\ files \in Files /\ folds \in [Folds -> Paths \cup {None}]
      /\ staged \in [Tasks -> Stagings] /\ said \in [Tasks -> Seq(Calls)]
      /\ taken \in [Tasks -> Revisions \cup {None}]
      /\ calls \in 0 .. MaxCalls /\ commits \in 0 .. MaxCommits
  BY DEF IInv, KeepsItsKinds
<1> DEFINE f == IF store = Store THEN files ELSE NoFiles
           u == Under(f, x)
           r == [store |-> store, prefix |-> x, files |-> u]
<1>2. /\ taken' = [taken EXCEPT ![c] = r]
      /\ UNCHANGED <<files, folds, staged, said, commits>> /\ calls' = calls + 1 /\ calls < MaxCalls
  BY DEF StatPrefix, Called
<1>3. f \in Files
  BY <1>1 DEF NoFiles, Files
<1> HIDE DEF f
<1>4. \A p \in Paths : u[p] \in Contents \cup {Absent} /\ (~Covers(x, p) => u[p] = Absent)
  BY <1>3 DEF Under, Files
<1>5. u \in Files
  BY <1>4 DEF Under, Files
<1> HIDE DEF u
<1>6. r.prefix = x /\ r.files = u /\ r \in Revisions
  BY <1>5 DEF Revisions
<1> HIDE DEF r
<1>7. OnlyUnder(r)
  BY <1>4, <1>6 DEF OnlyUnder
<1>8. /\ taken' \in [Tasks -> Revisions \cup {None}]
      /\ \A d \in Tasks : taken'[d] = IF d = c THEN r ELSE taken[d]
  BY <1>1, <1>2, <1>6
<1>9. calls' \in 0 .. MaxCalls
  BY <1>1, <1>2, PlanningAssumption
<1>10. KeepsItsKinds'
  BY <1>1, <1>2, <1>8, <1>9 DEF KeepsItsKinds
<1>11. /\ \A d \in Tasks : AsSaid(said'[d], staged'[d])
       /\ Indexed(files', folds')
  BY <1>2 DEF IInv
<1>12. \A d \in Tasks : /\ taken'[d] # None => OnlyUnder(taken'[d])
                        /\ \A i \in DOMAIN said'[d] :
                             said'[d][i].op = "require_prefix" => OnlyUnder(said'[d][i].since)
  BY <1>2, <1>7, <1>8 DEF IInv, RevisionsAreUnder
<1> QED
  BY <1>10, <1>11, <1>12 DEF IInv, RevisionsAreUnder

(* A Commit that ends leaves its task nothing staged.                      *)
LEMMA EndedKeeps ==
  ASSUME IInv, NEW c \in Tasks, NEW gives, Ended(c, gives),
         files' \in Files, folds' \in [Folds -> Paths \cup {None}], Indexed(files', folds')
  PROVE  IInv'
<1>1. /\ staged \in [Tasks -> Stagings] /\ said \in [Tasks -> Seq(Calls)]
      /\ taken \in [Tasks -> Revisions \cup {None}]
      /\ calls \in 0 .. MaxCalls /\ commits \in 0 .. MaxCommits
  BY DEF IInv, KeepsItsKinds
<1>2. /\ staged' = [staged EXCEPT ![c] = NothingStaged] /\ said' = [said EXCEPT ![c] = << >>]
      /\ UNCHANGED <<taken, calls>> /\ commits' = commits + 1 /\ commits < MaxCommits
  BY DEF Ended
<1>3. NothingStaged \in Stagings /\ << >> \in Seq(Calls) /\ AsSaid(<< >>, NothingStaged)
  BY NothingSaid
<1>4. /\ staged' \in [Tasks -> Stagings] /\ said' \in [Tasks -> Seq(Calls)]
      /\ \A d \in Tasks : IF d = c THEN said'[d] = << >> /\ staged'[d] = NothingStaged
                          ELSE said'[d] = said[d] /\ staged'[d] = staged[d]
  BY <1>1, <1>2, <1>3
<1>5. commits' \in 0 .. MaxCommits
  BY <1>1, <1>2, PlanningAssumption
<1>6. KeepsItsKinds'
  BY <1>1, <1>2, <1>4, <1>5 DEF KeepsItsKinds
<1>7. \A d \in Tasks : AsSaid(said'[d], staged'[d])
  BY <1>3, <1>4 DEF IInv
<1>8. DOMAIN << >> = {}
  BY EmptySeq
<1>9. \A d \in Tasks : /\ taken'[d] # None => OnlyUnder(taken'[d])
                       /\ \A i \in DOMAIN said'[d] :
                            said'[d][i].op = "require_prefix" => OnlyUnder(said'[d][i].since)
  BY <1>2, <1>4, <1>8 DEF IInv, RevisionsAreUnder
<1> QED
  BY <1>6, <1>7, <1>9 DEF IInv, RevisionsAreUnder

(* The plan of a Commit, as the calls on its Staging have it.              *)
LEMMA PlanIs ==
  ASSUME IInv, NEW c \in Tasks
  PROVE  /\ staged[c] \in Stagings /\ said[c] \in Seq(Calls) /\ files \in Files
         /\ folds \in [Folds -> Paths \cup {None}] /\ Indexed(files, folds)
         /\ Effective(Expanded(staged[c])) \in Actions
         /\ \A p \in Paths : Effective(Expanded(staged[c]))[p] # files[p]
         /\ After(Effective(Expanded(staged[c]))) = Meant(said[c], files)
         /\ Conflicts(staged[c]) = Failing(said[c], files)
         /\ HasWrongPrefixRevision(staged[c]) <=> RequiresElsewhere(said[c])
<1>1. /\ staged[c] \in Stagings /\ said[c] \in Seq(Calls) /\ files \in Files
      /\ folds \in [Folds -> Paths \cup {None}] /\ Indexed(files, folds) /\ AsSaid(said[c], staged[c])
      /\ \A i \in DOMAIN said[c] : said[c][i].op = "require_prefix" => OnlyUnder(said[c][i].since)
  BY DEF IInv, KeepsItsKinds, RevisionsAreUnder
<1>2. Expanded(staged[c]) \in Actions
  BY <1>1, ExpandedIs
<1>3. /\ Effective(Expanded(staged[c])) \in Actions
      /\ \A p \in Paths : Effective(Expanded(staged[c]))[p] # files[p]
  BY <1>1, <1>2, EffectiveIs
<1>4. After(Effective(Expanded(staged[c]))) = Meant(said[c], files)
  BY <1>1, MadeIsMeant
<1>5. Conflicts(staged[c]) = Failing(said[c], files)
  BY <1>1, ConflictsAreFailing
<1>6. HasWrongPrefixRevision(staged[c]) <=> RequiresElsewhere(said[c])
  BY <1>1, WrongIsElsewhere
<1> QED
  BY <1>1, <1>3, <1>4, <1>5, <1>6

LEMMA RefusalKeeps ==
  ASSUME IInv, NEW c \in Tasks, NEW gives, Ended(c, gives), UNCHANGED <<files, folds>>
  PROVE  IInv'
<1>1. files' \in Files /\ folds' \in [Folds -> Paths \cup {None}] /\ Indexed(files', folds')
  BY PlanIs
<1> QED
  BY <1>1, EndedKeeps

LEMMA CommitKeeps ==
  ASSUME IInv, NEW c \in Tasks, Commit(c)
  PROVE  IInv'
<1> DEFINE a == Effective(Expanded(staged[c]))
<1>1. a \in Actions /\ files \in Files /\ folds \in [Folds -> Paths \cup {None}] /\ Indexed(files, folds)
  BY PlanIs
<1>2. files' = After(a) /\ folds' = FoldsAfter(a) /\ \E gives : Ended(c, gives)
  BY DEF Commit, After
<1> HIDE DEF a
<1>3. After(a) \in Files
  BY <1>1, AfterIs
<1>4. FoldsAfter(a) \in [Folds -> Paths \cup {None}] /\ Indexed(After(a), FoldsAfter(a))
  BY <1>1, FoldsStayIndexed
<1>5. files' \in Files /\ folds' \in [Folds -> Paths \cup {None}] /\ Indexed(files', folds')
  BY <1>2, <1>3, <1>4
<1> QED
  BY <1>2, <1>5, EndedKeeps

LEMMA StepKeeps ==
  ASSUME IInv, Next
  PROVE  IInv'
<1> PICK c \in Tasks :
      \/ \E p \in Paths, needs \in Needs :
           \/ \E x \in Contents : Write(c, p, x, needs)
           \/ Delete(c, p, needs)
           \/ needs # Anything /\ Require(c, p, needs)
      \/ \E x \in Prefixes :
           \/ DeletePrefix(c, x)
           \/ RequirePrefix(c, x)
           \/ \E store \in {Store, Elsewhere} : StatPrefix(c, store, x)
      \/ RefuseWrongPrefixRevision(c)
      \/ RefuseConflict(c)
      \/ RefuseClash(c)
      \/ Commit(c)
  BY DEF Next
<1>1. /\ staged[c] \in Stagings /\ said[c] \in Seq(Calls) /\ AsSaid(said[c], staged[c])
  BY DEF IInv, KeepsItsKinds
<1>2. ASSUME NEW p \in Paths, NEW needs \in Needs, NEW x \in Contents, Write(c, p, x, needs) PROVE IInv'
  <2> DEFINE call == [op |-> "write", path |-> p, makes |-> x, needs |-> needs]
             s    == Stage(staged[c], p, x, needs)
  <2>1. x \in Required
    BY ValuesAre
  <2>2. s \in Stagings
    BY <1>1, <2>1, StageIs
  <2>3. call \in Calls /\ AsSaid(Append(said[c], call), s)
    BY <1>1, <2>1, StageSaid
  <2>4. Said(c, call, s) /\ call.op # "require_prefix"
    BY <1>2 DEF Write
  <2> HIDE DEF call, s
  <2> QED
    BY <2>2, <2>3, <2>4, SaidKeeps
<1>3. ASSUME NEW p \in Paths, NEW needs \in Needs, Delete(c, p, needs) PROVE IInv'
  <2> DEFINE call == [op |-> "delete", path |-> p, makes |-> Absent, needs |-> needs]
             s    == Stage(staged[c], p, Absent, needs)
  <2>1. Absent \in Required
    BY ValuesAre
  <2>2. s \in Stagings
    BY <1>1, <2>1, StageIs
  <2>3. call \in Calls /\ AsSaid(Append(said[c], call), s)
    BY <1>1, <2>1, StageSaid
  <2>4. Said(c, call, s) /\ call.op # "require_prefix"
    BY <1>3 DEF Delete
  <2> HIDE DEF call, s
  <2> QED
    BY <2>2, <2>3, <2>4, SaidKeeps
<1>4. ASSUME NEW p \in Paths, NEW needs \in Needs, Require(c, p, needs) PROVE IInv'
  <2> DEFINE call == [op |-> "require", path |-> p, needs |-> needs]
             s    == WithPrecondition(staged[c], p, needs)
  <2>1. s \in Stagings
    BY <1>1, WithPreconditionIs
  <2>2. call \in Calls /\ AsSaid(Append(said[c], call), s)
    BY <1>1, RequireSaid
  <2>3. Said(c, call, s) /\ call.op # "require_prefix"
    BY <1>4 DEF Require
  <2> HIDE DEF call, s
  <2> QED
    BY <2>1, <2>2, <2>3, SaidKeeps
<1>5. ASSUME NEW x \in Prefixes, DeletePrefix(c, x) PROVE IInv'
  <2> DEFINE call == [op |-> "delete_prefix", prefix |-> x, makes |-> Absent]
             s    == [staged[c] EXCEPT !.actions = [p \in Paths |-> IF Covers(x, p) THEN Keep ELSE @[p]],
                                       !.prefixDeletes = @ \cup {x}]
  <2>1. call \in Calls /\ s \in Stagings /\ AsSaid(Append(said[c], call), s)
    BY <1>1, DeletePrefixSaid
  <2>2. Said(c, call, s) /\ call.op # "require_prefix"
    BY <1>5 DEF DeletePrefix
  <2> HIDE DEF call, s
  <2> QED
    BY <2>1, <2>2, SaidKeeps
<1>6. ASSUME NEW x \in Prefixes, RequirePrefix(c, x) PROVE IInv'
  <2> DEFINE call == [op |-> "require_prefix", prefix |-> x, since |-> taken[c]]
             s    == [staged[c] EXCEPT !.prefixPreconditions = @ \cup {<<x, taken[c]>>}]
  <2>1. taken[c] \in Revisions /\ OnlyUnder(taken[c])
    BY <1>6 DEF RequirePrefix, IInv, KeepsItsKinds, RevisionsAreUnder
  <2>2. call \in Calls /\ s \in Stagings /\ AsSaid(Append(said[c], call), s)
    BY <1>1, <2>1, RequirePrefixSaid
  <2>3. Said(c, call, s) /\ call.since = taken[c]
    BY <1>6 DEF RequirePrefix
  <2> HIDE DEF call, s
  <2> QED
    BY <2>1, <2>2, <2>3, SaidKeeps
<1>7. ASSUME NEW x \in Prefixes, NEW store \in {Store, Elsewhere}, StatPrefix(c, store, x) PROVE IInv'
  BY <1>7, StatKeeps
<1>8. CASE RefuseWrongPrefixRevision(c)
  BY <1>8, RefusalKeeps DEF RefuseWrongPrefixRevision
<1>9. CASE RefuseConflict(c)
  BY <1>9, RefusalKeeps DEF RefuseConflict
<1>10. CASE RefuseClash(c)
  BY <1>10, RefusalKeeps DEF RefuseClash
<1>11. CASE Commit(c)
  BY <1>11, CommitKeeps
<1> QED
  BY <1>2, <1>3, <1>4, <1>5, <1>6, <1>7, <1>8, <1>9, <1>10, <1>11

(* What was staged is what the calls on the Staging said, however many       *)
(* there were and whoever else commits meanwhile.                          *)
THEOREM PlanningInductive == Spec => []IInv
<1>1. Init => IInv
  BY Initially
<1>2. IInv /\ [Next]_vars => IInv'
  <2>1. ASSUME IInv, UNCHANGED vars PROVE IInv'
    BY <2>1 DEF IInv, KeepsItsKinds, RevisionsAreUnder, vars
  <2> QED
    BY <2>1, StepKeeps
<1> QED
  BY <1>1, <1>2, PTL DEF Spec

(* Everything keeps to its kind.                                           *)
THEOREM TypeCorrect == Spec => []TypeOK
<1>1. IInv => TypeOK
  BY StagingIs DEF IInv, KeepsItsKinds, TypeOK
<1> QED
  BY <1>1, PlanningInductive, PTL

-----------------------------------------------------------------------------
(* What a Commit gives.                                                    *)

(* Only the end of a Commit counts one.                                    *)
LEMMA EndsOf ==
  ASSUME [Next]_vars, commits' # commits
  PROVE  \E c \in Tasks : \/ RefuseWrongPrefixRevision(c) \/ RefuseConflict(c)
                          \/ RefuseClash(c) \/ Commit(c)
<1>1. \A c, call, s : Said(c, call, s) => commits' = commits
  BY DEF Said
<1>2. \A c, store, x : StatPrefix(c, store, x) => commits' = commits
  BY DEF StatPrefix
<1>3. Next
  BY DEF vars
<1> QED
  BY <1>1, <1>2, <1>3 DEF Next, Write, Delete, Require, DeletePrefix, RequirePrefix

LEMMA RefusalsAre ==
  ASSUME NEW c \in Tasks
  PROVE  /\ RefuseWrongPrefixRevision(c) => answer'.result = "wrong prefix revision" /\ answer'.by = c
         /\ RefuseConflict(c) => /\ answer'.result = "conflict" /\ answer'.by = c
                                 /\ answer'.paths = Conflicts(staged[c])
         /\ RefuseClash(c) => answer'.result = "clash" /\ answer'.by = c
<1>1. ASSUME RefuseWrongPrefixRevision(c)
      PROVE  answer'.result = "wrong prefix revision" /\ answer'.by = c
  BY <1>1 DEF RefuseWrongPrefixRevision, Ended
<1>2. ASSUME RefuseConflict(c)
      PROVE  answer'.result = "conflict" /\ answer'.by = c /\ answer'.paths = Conflicts(staged[c])
  BY <1>2 DEF RefuseConflict, Ended
<1>3. ASSUME RefuseClash(c)
      PROVE  answer'.result = "clash" /\ answer'.by = c
  BY <1>3 DEF RefuseClash, Ended
<1> QED
  BY <1>1, <1>2, <1>3

LEMMA CommitIs ==
  ASSUME NEW c \in Tasks, Commit(c)
  PROVE  LET a == Effective(Expanded(staged[c]))
         IN /\ answer'.result = "ok" /\ answer'.by = c
            /\ answer'.changed = {p \in Paths : a[p] \in Contents}
            /\ answer'.removed = {p \in Paths : a[p] = Absent}
            /\ files' = After(a) /\ folds' = FoldsAfter(a)
            /\ ~HasWrongPrefixRevision(staged[c]) /\ Conflicts(staged[c]) = {} /\ Refused(a) = {}
BY DEF Commit, Ended, After

(* A Commit that succeeds makes of every Path what its calls said of it      *)
(* last, with every Precondition they ever stated holding, and it tells of   *)
(* the Paths it changed and of no others.                                  *)
THEOREM CommitsAsStaged == Spec => MadeAsStaged
<1> DEFINE Made ==
      commits' # commits /\ answer'.result = "ok" =>
        LET log == said[answer'.by]
        IN /\ files' = Meant(log, files)
           /\ Failing(log, files) = {} /\ ~RequiresElsewhere(log)
           /\ answer'.changed \cup answer'.removed = {p \in Paths : files'[p] # files[p]}
           /\ answer'.removed = {p \in Paths : files[p] # Absent /\ files'[p] = Absent}
<1>1. IInv /\ [Next]_vars => Made
  <2> SUFFICES ASSUME IInv, [Next]_vars, commits' # commits, answer'.result = "ok" PROVE Made
    OBVIOUS
  <2>1. PICK c \in Tasks : Commit(c)
    <3>1. PICK c \in Tasks : \/ RefuseWrongPrefixRevision(c) \/ RefuseConflict(c)
                             \/ RefuseClash(c) \/ Commit(c)
      BY EndsOf
    <3> QED
      BY <3>1, RefusalsAre
  <2> DEFINE a == Effective(Expanded(staged[c]))
  <2>2. /\ answer'.by = c
        /\ answer'.changed = {p \in Paths : a[p] \in Contents}
        /\ answer'.removed = {p \in Paths : a[p] = Absent}
        /\ files' = After(a)
        /\ ~HasWrongPrefixRevision(staged[c]) /\ Conflicts(staged[c]) = {}
    BY <2>1, CommitIs
  <2>3. /\ a \in Actions /\ files \in Files
        /\ \A p \in Paths : a[p] # files[p]
        /\ After(a) = Meant(said[c], files)
        /\ Conflicts(staged[c]) = Failing(said[c], files)
        /\ HasWrongPrefixRevision(staged[c]) <=> RequiresElsewhere(said[c])
    BY PlanIs
  <2> HIDE DEF a
  <2>4. \A p \in Paths : /\ a[p] = Keep => files'[p] = files[p]
                         /\ a[p] # Keep => files'[p] = a[p]
                         /\ a[p] \in Contents \/ a[p] \in {Absent, Keep}
    BY <2>2, <2>3, AfterIs
  <2>5. answer'.changed \cup answer'.removed = {p \in Paths : files'[p] # files[p]}
    BY <2>2, <2>3, <2>4, ValuesAre
  <2>6. \A p \in Paths : a[p] = Absent <=> files[p] # Absent /\ files'[p] = Absent
    BY <2>3, <2>4, ValuesAre
  <2>7. answer'.removed = {p \in Paths : files[p] # Absent /\ files'[p] = Absent}
    BY <2>2, <2>6
  <2> QED
    BY <2>2, <2>3, <2>5, <2>7
<1> QED
  BY <1>1, PlanningInductive, PTL DEF Spec, MadeAsStaged

(* A Commit that is refused changes nothing and is refused for what it says: *)
(* a Conflict names exactly the Paths a call required something else of, and *)
(* it is refused for names that clash only if they would.                  *)
THEOREM RefusedRightly == Spec => RefusedForAReason
<1> DEFINE Right ==
      commits' # commits /\ answer'.result # "ok" =>
        LET log == said[answer'.by]
        IN /\ files' = files
           /\ answer'.result = "wrong prefix revision" <=> RequiresElsewhere(log)
           /\ answer'.result = "conflict" =>
                answer'.paths = Failing(log, files) /\ answer'.paths # {}
           /\ answer'.result = "clash" =>
                Failing(log, files) = {} /\ Clashes(Meant(log, files))
<1>1. IInv /\ [Next]_vars => Right
  <2> SUFFICES ASSUME IInv, [Next]_vars, commits' # commits, answer'.result # "ok" PROVE Right
    OBVIOUS
  <2>1. PICK c \in Tasks : RefuseWrongPrefixRevision(c) \/ RefuseConflict(c) \/ RefuseClash(c)
    <3>1. PICK c \in Tasks : \/ RefuseWrongPrefixRevision(c) \/ RefuseConflict(c)
                             \/ RefuseClash(c) \/ Commit(c)
      BY EndsOf
    <3> QED
      BY <3>1, CommitIs
  <2> DEFINE a == Effective(Expanded(staged[c]))
  <2>2. /\ a \in Actions /\ files \in Files
        /\ folds \in [Folds -> Paths \cup {None}] /\ Indexed(files, folds)
        /\ After(a) = Meant(said[c], files)
        /\ Conflicts(staged[c]) = Failing(said[c], files)
        /\ HasWrongPrefixRevision(staged[c]) <=> RequiresElsewhere(said[c])
    BY PlanIs
  <2>3. CASE RefuseWrongPrefixRevision(c)
    <3>1. answer'.result = "wrong prefix revision" /\ answer'.by = c
      BY <2>3, RefusalsAre
    <3>2. files' = files /\ HasWrongPrefixRevision(staged[c])
      BY <2>3 DEF RefuseWrongPrefixRevision
    <3> QED
      BY <2>2, <3>1, <3>2
  <2>4. CASE RefuseConflict(c)
    <3>1. answer'.result = "conflict" /\ answer'.by = c /\ answer'.paths = Conflicts(staged[c])
      BY <2>4, RefusalsAre
    <3>2. files' = files /\ ~HasWrongPrefixRevision(staged[c]) /\ Conflicts(staged[c]) # {}
      BY <2>4 DEF RefuseConflict
    <3> QED
      BY <2>2, <3>1, <3>2
  <2>5. CASE RefuseClash(c)
    <3>1. answer'.result = "clash" /\ answer'.by = c
      BY <2>5, RefusalsAre
    <3>2. /\ files' = files /\ ~HasWrongPrefixRevision(staged[c]) /\ Conflicts(staged[c]) = {}
          /\ Refused(a) # {}
      BY <2>5 DEF RefuseClash
    <3> HIDE DEF a
    <3>3. Clashes(After(a))
      BY <2>2, <3>2, RefusedWouldClash
    <3> QED
      BY <2>2, <3>1, <3>2, <3>3
  <2> QED
    BY <2>1, <2>3, <2>4, <2>5
<1> QED
  BY <1>1, PlanningInductive, PTL DEF Spec, RefusedForAReason

-----------------------------------------------------------------------------
(* The request the calls ask for.                                          *)

(* What Staging s makes of Path p, whatever File there is.                   *)
Makes(s, p) == IF s.actions[p] = Keep /\ Dropped(s, p) THEN Absent ELSE s.actions[p]

LEMMA MeantIs ==
  ASSUME NEW log \in Seq(Calls), NEW s \in Stagings, AsSaid(log, s), NEW f, NEW p \in Paths
  PROVE  /\ Makes(s, p) \in Contents \cup {Absent, Keep}
         /\ Meant(log, f)[p] = IF Makes(s, p) = Keep THEN f[p] ELSE Makes(s, p)
<1>1. s.actions[p] \in Contents \cup {Absent, Keep}
  BY StagingIs DEF Actions
<1>2. ActionAsSaid(log, s, p)
  BY DEF AsSaid
<1>3. \A v : (\E i \in DOMAIN log : IsLast(log, i, p) /\ log[i].makes = v) => Meant(log, f)[p] = v
  BY LastIs
<1>4. (\A i \in DOMAIN log : ~SpeaksOf(log[i], p)) => Meant(log, f)[p] = f[p]
  BY DEF Meant
<1>5. CASE s.actions[p] = Keep /\ ~Dropped(s, p) /\ \A i \in DOMAIN log : ~SpeaksOf(log[i], p)
  BY <1>4, <1>5 DEF Makes
<1>6. CASE s.actions[p] = Keep /\ Dropped(s, p)
             /\ \E i \in DOMAIN log : IsLast(log, i, p) /\ log[i].makes = Absent
  BY <1>3, <1>6, ValuesAre DEF Makes
<1>7. CASE s.actions[p] # Keep /\ \E i \in DOMAIN log : IsLast(log, i, p) /\ log[i].makes = s.actions[p]
  BY <1>1, <1>3, <1>7 DEF Makes
<1> QED
  BY <1>2, <1>5, <1>6, <1>7 DEF ActionAsSaid

(* The effective actions are what differs from the Files.                  *)
LEMMA EffectIs ==
  ASSUME files \in Files, NEW s \in Stagings, NEW p \in Paths, Makes(s, p) \in Contents \cup {Absent, Keep}
  PROVE  LET a == Effective(Expanded(s))
         IN /\ a[p] \in Contents <=> Makes(s, p) \in Contents \ {files[p]}
            /\ a[p] = Absent <=> Makes(s, p) = Absent /\ files[p] # Absent
<1> DEFINE b == Expanded(s)
           a == Effective(b)
<1>1. b \in Actions /\ b[p] = IF s.actions[p] = Keep /\ files[p] # Absent /\ Dropped(s, p) THEN Absent
                              ELSE s.actions[p]
  BY ExpandedIs
<1> HIDE DEF b
<1>2. a[p] = IF b[p] = files[p] THEN Keep ELSE b[p]
  BY <1>1, EffectiveIs
<1>3. files[p] \in Contents \cup {Absent}
  BY DEF Files
<1> HIDE DEF a
<1>4. a[p] \in Contents <=> Makes(s, p) \in Contents \ {files[p]}
  BY <1>1, <1>2, <1>3, ValuesAre DEF Makes
<1>5. a[p] = Absent <=> Makes(s, p) = Absent /\ files[p] # Absent
  BY <1>1, <1>2, <1>3, ValuesAre DEF Makes
<1> QED
  BY <1>4, <1>5 DEF a, b

LEMMA FailingIsDemanded ==
  ASSUME NEW log \in Seq(Calls), NEW p \in Paths
  PROVE  p \in Failing(log, files) <=> \E v \in Demanded(log, p) : v # files[p]
<1>1. ASSUME NEW i \in DOMAIN log, log[i].op \in {"write", "delete", "require"}, log[i].path = p,
             log[i].needs \notin {Anything, files[p]}
      PROVE  \E v \in Demanded(log, p) : v # files[p]
  <2>1. log[i].needs \in Required
    BY <1>1, LogIs, CallsAre, PlanningAssumption
  <2>2. log[i].needs \in Demanded(log, p)
    BY <1>1, <2>1 DEF Demanded
  <2> QED
    BY <1>1, <2>2
<1>2. ASSUME NEW i \in DOMAIN log, log[i].op = "require_prefix", Covers(log[i].since.prefix, p),
             log[i].since.files[p] # files[p]
      PROVE  \E v \in Demanded(log, p) : v # files[p]
  <2>1. log[i].since \in Revisions
    BY <1>2, LogIs, CallsAre
  <2>2. log[i].since.files[p] \in Required
    BY <2>1 DEF Revisions, Files, Required
  <2>3. log[i].since.files[p] \in Demanded(log, p)
    BY <1>2, <2>2 DEF Demanded
  <2> QED
    BY <1>2, <2>3
<1>3. ASSUME NEW v \in Demanded(log, p), v # files[p] PROVE p \in Failing(log, files)
  <2>1. v \in Required /\ v # Anything
    BY PlanningAssumption DEF Demanded
  <2>2. PICK i \in DOMAIN log :
          \/ log[i].op \in {"write", "delete", "require"} /\ log[i].path = p /\ log[i].needs = v
          \/ log[i].op = "require_prefix" /\ Covers(log[i].since.prefix, p) /\ log[i].since.files[p] = v
    BY DEF Demanded
  <2> QED
    BY <1>3, <2>1, <2>2 DEF Failing
<1> QED
  BY <1>1, <1>2, <1>3 DEF Failing

LEMMA ExpectedIs ==
  ASSUME NEW log, NEW p \in Paths
  PROVE  /\ Asked(log).expects[p] \in Demanded(log, p) \cup {Anything}
         /\ Asked(log).expects[p] = Anything => Demanded(log, p) = {}
         /\ Demanded(log, p) \subseteq Required
<1>1. Asked(log).expects[p] = IF Demanded(log, p) = {} THEN Anything ELSE CHOOSE v \in Demanded(log, p) : TRUE
  BY DEF Asked
<1>2. Demanded(log, p) \subseteq Required /\ Anything \notin Required
  BY PlanningAssumption DEF Demanded
<1> QED
  BY <1>1, <1>2

LEMMA AskedIs ==
  ASSUME NEW log \in Seq(Calls), NEW s \in Stagings, AsSaid(log, s)
  PROVE  /\ Asked(log) \in R!AllRequests
         /\ \A p \in Paths : Asked(log).sets[p] = Makes(s, p)
<1> DEFINE k == [p \in Paths |-> Keep]
           e == Asked(log).expects
           m == Asked(log).sets
<1>1. \A p \in Paths : e[p] \in Contents \cup {Absent, Anything}
  BY ExpectedIs DEF Required
<1>2. m = Meant(log, k) /\ \A p \in Paths : k[p] = Keep
  BY DEF Asked
<1>3. \A p \in Paths : m[p] = Makes(s, p) /\ Makes(s, p) \in Contents \cup {Absent, Keep}
  BY <1>2, MeantIs
<1>4. e = [p \in Paths |-> e[p]] /\ m = [p \in Paths |-> m[p]] /\ Asked(log) = [expects |-> e, sets |-> m]
  BY DEF Asked, Meant
<1> HIDE DEF e, m
<1>5. e \in [Paths -> Contents \cup {Absent, Anything}]
  BY <1>1, <1>4
<1>6. m \in [Paths -> Contents \cup {Absent, Keep}]
  BY <1>3, <1>4
<1>7. [expects |-> e, sets |-> m] \in R!AllRequests
  BY <1>5, <1>6 DEF R!AllRequests
<1> QED
  BY <1>3, <1>4, <1>7 DEF m

(* What is demanded holds exactly if nothing fails.                        *)
LEMMA HoldsIs ==
  ASSUME NEW log \in Seq(Calls), files \in Files
  PROVE  Failing(log, files) = {} <=> ~Contradicts(log) /\ R!Holds(Asked(log), files)
<1>1. ASSUME Failing(log, files) = {} PROVE ~Contradicts(log) /\ R!Holds(Asked(log), files)
  <2>1. \A p \in Paths : \A v \in Demanded(log, p) : v = files[p]
    BY <1>1, FailingIsDemanded
  <2>2. ~Contradicts(log)
    BY <2>1 DEF Contradicts
  <2>3. \A p \in Paths : Asked(log).expects[p] \in {Anything, files[p]}
    BY <2>1, ExpectedIs
  <2> QED
    BY <2>2, <2>3 DEF R!Holds
<1>2. ASSUME Failing(log, files) # {}, ~Contradicts(log) PROVE ~R!Holds(Asked(log), files)
  <2>1. PICK p \in Paths : p \in Failing(log, files)
    BY <1>2 DEF Failing
  <2>2. PICK v \in Demanded(log, p) : v # files[p]
    BY <2>1, FailingIsDemanded
  <2>3. \A w \in Demanded(log, p) : w = v
    BY <1>2 DEF Contradicts
  <2>4. Asked(log).expects[p] = v /\ v # Anything
    BY <2>2, <2>3, ExpectedIs, PlanningAssumption
  <2> QED
    BY <2>2, <2>4 DEF R!Holds
<1> QED
  BY <1>1, <1>2

(* What is planned is the request the calls ask for, whatever others         *)
(* committed since: a Commit that succeeds makes that request, at a moment   *)
(* its Preconditions hold, and a Conflict means that they don't.           *)
THEOREM CommitsAsAsked == Spec => MadeAsAsked
<1> DEFINE Right ==
      commits' # commits =>
        LET log == said[answer'.by]
            r   == Asked(log)
        IN /\ r \in R!AllRequests
           /\ answer'.result = "ok" =>
                /\ ~Contradicts(log) /\ R!Holds(r, files)
                /\ files' = R!Made(r, files)
                /\ answer'.changed = R!Written(r, files)
                /\ answer'.removed = R!Deleted(r, files)
           /\ answer'.result = "conflict" => Contradicts(log) \/ ~R!Holds(r, files)
<1>1. IInv /\ [Next]_vars => Right
  <2> SUFFICES ASSUME IInv, [Next]_vars, commits' # commits PROVE Right
    OBVIOUS
  <2>1. PICK c \in Tasks : \/ RefuseWrongPrefixRevision(c) \/ RefuseConflict(c)
                           \/ RefuseClash(c) \/ Commit(c)
    BY EndsOf
  <2> DEFINE log == said[c]
             s   == staged[c]
             r   == Asked(log)
             a   == Effective(Expanded(s))
  <2>2. log \in Seq(Calls) /\ s \in Stagings /\ AsSaid(log, s) /\ files \in Files
    BY DEF IInv, KeepsItsKinds
  <2>3. After(a) = Meant(log, files) /\ Conflicts(s) = Failing(log, files)
    BY PlanIs
  <2>4. \A p \in Paths : /\ Makes(s, p) \in Contents \cup {Absent, Keep}
                         /\ Meant(log, files)[p] = IF Makes(s, p) = Keep THEN files[p] ELSE Makes(s, p)
    BY <2>2, MeantIs
  <2>5. \A p \in Paths : /\ a[p] \in Contents <=> Makes(s, p) \in Contents \ {files[p]}
                         /\ a[p] = Absent <=> Makes(s, p) = Absent /\ files[p] # Absent
    BY <2>2, <2>4, EffectIs
  <2>6. r \in R!AllRequests /\ \A p \in Paths : r.sets[p] = Makes(s, p)
    BY <2>2, AskedIs
  <2>7. Failing(log, files) = {} <=> ~Contradicts(log) /\ R!Holds(r, files)
    BY <2>2, HoldsIs
  <2>8. Meant(log, files) = [p \in Paths |-> Meant(log, files)[p]]
    BY DEF Meant
  <2>9. CASE RefuseWrongPrefixRevision(c) \/ RefuseClash(c)
    <3>1. answer'.by = c /\ answer'.result \notin {"ok", "conflict"}
      BY <2>9, RefusalsAre
    <3> QED
      BY <2>6, <3>1
  <2>10. CASE RefuseConflict(c)
    <3>1. answer'.by = c /\ answer'.result = "conflict"
      BY <2>10, RefusalsAre
    <3>2. Failing(log, files) # {}
      BY <2>3, <2>10 DEF RefuseConflict
    <3> HIDE DEF log, r
    <3>3. Contradicts(log) \/ ~R!Holds(r, files)
      BY <2>7, <3>2
    <3> QED
      BY <2>6, <3>1, <3>3 DEF log, r
  <2>11. CASE Commit(c)
    <3>1. /\ answer'.by = c /\ answer'.result = "ok"
          /\ answer'.changed = {p \in Paths : a[p] \in Contents}
          /\ answer'.removed = {p \in Paths : a[p] = Absent}
          /\ files' = After(a) /\ Conflicts(s) = {}
      BY <2>11, CommitIs
    <3> HIDE DEF log, r, a, s
    <3>2. ~Contradicts(log) /\ R!Holds(r, files)
      BY <2>3, <2>7, <3>1
    <3>3. files' = R!Made(r, files)
      <4>1. \A p \in Paths : Meant(log, files)[p] = IF r.sets[p] = Keep THEN files[p] ELSE r.sets[p]
        BY <2>4, <2>6
      <4> QED
        BY <2>3, <2>8, <3>1, <4>1 DEF R!Made
    <3>4. answer'.changed = R!Written(r, files)
      BY <2>5, <2>6, <3>1 DEF R!Written
    <3>5. answer'.removed = R!Deleted(r, files)
      BY <2>5, <2>6, <3>1 DEF R!Deleted
    <3> QED
      BY <2>6, <3>1, <3>2, <3>3, <3>4, <3>5 DEF log, r
  <2> QED
    BY <2>1, <2>9, <2>10, <2>11
<1> QED
  BY <1>1, PlanningInductive, PTL DEF Spec, MadeAsAsked

-----------------------------------------------------------------------------
(* Names that clash.                                                       *)

(* No step renames a File to a name that differs in letter case only and     *)
(* comes before, after which the index has lost it: see the run LetterCase.*)
NoRenames == \A p, q \in Paths : ~RenamedBefore(files, files', p, q)

LEMMA CommitsLeaveNoClash ==
  ASSUME IInv, NothingClashes, NEW c \in Tasks, Commit(c), NoRenames
  PROVE  NothingClashes'
<1> DEFINE a == Effective(Expanded(staged[c]))
<1>1. files' = After(a) /\ folds' = FoldsAfter(a) /\ Refused(a) = {}
  BY CommitIs
<1>2. a \in Actions /\ files \in Files /\ \A p \in Paths : a[p] # files[p]
  BY PlanIs
<1>3. ~Clashes(files) /\ folds = IndexOf(files)
  BY DEF NothingClashes
<1> HIDE DEF a
<1>4. ~Clashes(After(a))
  BY <1>1, <1>2, <1>3, NothingNewClashes
<1>5. \A p, q \in Paths : ~RenamedBefore(files, After(a), p, q)
  BY <1>1 DEF NoRenames
<1>6. FoldsAfter(a) = IndexOf(After(a))
  BY <1>2, <1>3, <1>4, <1>5, FoldsStayWhole
<1>7. ~Clashes(files') /\ folds' = IndexOf(files')
  BY <1>1, <1>4, <1>6
<1> QED
  BY <1>7 DEF NothingClashes

LEMMA OthersChangeNoFiles ==
  ASSUME [Next]_vars
  PROVE  UNCHANGED <<files, folds>> \/ \E c \in Tasks : Commit(c)
<1>1. \A c, call, s : Said(c, call, s) => UNCHANGED <<files, folds>>
  BY DEF Said
<1>2. \A c \in Tasks : /\ RefuseWrongPrefixRevision(c) => UNCHANGED <<files, folds>>
                       /\ RefuseConflict(c) => UNCHANGED <<files, folds>>
                       /\ RefuseClash(c) => UNCHANGED <<files, folds>>
  BY DEF RefuseWrongPrefixRevision, RefuseConflict, RefuseClash
<1>3. \A c, store, x : StatPrefix(c, store, x) => UNCHANGED <<files, folds>>
  BY DEF StatPrefix
<1>4. UNCHANGED vars => UNCHANGED <<files, folds>>
  BY DEF vars
<1> QED
  BY <1>1, <1>2, <1>3, <1>4 DEF Next, Write, Delete, Require, DeletePrefix, RequirePrefix

(* As long as nobody renames a File to a name that differs in letter case    *)
(* only and comes before, no two Files come to have names that some platform *)
(* takes for one, and the index has each File under its fold.              *)
THEOREM NamesNeverClash == Spec /\ [][NoRenames]_vars => []NothingClashes
<1>1. Init => NothingClashes
  BY PlanningAssumption DEF Init, NothingClashes
<1>2. IInv /\ NothingClashes /\ [Next]_vars /\ [NoRenames]_vars => NothingClashes'
  <2> SUFFICES ASSUME IInv, NothingClashes, [Next]_vars, [NoRenames]_vars PROVE NothingClashes'
    OBVIOUS
  <2>1. CASE UNCHANGED <<files, folds>>
    BY <2>1 DEF NothingClashes
  <2>2. ASSUME NEW c \in Tasks, Commit(c), NoRenames PROVE NothingClashes'
    BY <2>2, CommitsLeaveNoClash
  <2>3. CASE UNCHANGED vars
    BY <2>3 DEF vars, NothingClashes
  <2> QED
    BY <2>1, <2>2, <2>3, OthersChangeNoFiles
<1> QED
  BY <1>1, <1>2, PlanningInductive, PTL DEF Spec
=============================================================================
