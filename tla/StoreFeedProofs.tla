--------------------------- MODULE StoreFeedProofs ---------------------------
(***************************************************************************)
(* Proofs about StoreFeed, for any numbers of Paths, of this Store's       *)
(* Commits, of others' and of failures: what reaches the app, and when.    *)
(***************************************************************************)
EXTENDS StoreFeed, SequenceTheorems, TLAPS

(* Who waits for commit_order and works under it.                          *)
Queuers == Commits \cup {Follower}
InLine  == {"waiting", "started", "telling", "waking"}

-----------------------------------------------------------------------------
(* The inductive invariant.                                                *)

(* Who works holds the turn, who doesn't tell has nothing to tell, and who  *)
(* waits for the turn is waited for.                                        *)
Places ==
  /\ \A a \in Queuers : step[a] \in {"started", "telling", "waking"} => HasTurn(a)
  /\ \A a \in Tellers : step[a] \notin {"telling", "waking"} => telling[a] = <<>>
  /\ \A c \in Commits : step[c] = "waiting" => c \in waits
  /\ handles = "dropped" => waits = {}
  /\ step[Supervisor] # "new" => step[Follower] = "never"

(* Only Inner ends the feed, once nobody holds it, and only who has the turn *)
(* tells Changes.                                                           *)
Closing ==
  /\ unread.storeDropped => step[Inner] # "new"
  /\ step[Inner] # "new" => ~Held
  /\ \A a \in Tellers : \A n \in DOMAIN telling[a] :
       /\ telling[a][n].what = "end" => a = Inner
       /\ telling[a][n].what = "changes" => a \in Queuers
  /\ reader = "ended" => unread.storeDropped /\ ~unread.resync /\ unread.merged = Nothing

(* A Resync covers what is unread, and the app calls `next` with its hands  *)
(* empty.                                                                   *)
Covering ==
  /\ unread.resync \/ unread.feedDropped => unread.merged = Nothing
  /\ reader # "app" => \A p \in Paths : inHand[p] = "nothing"

(* There is something `next` would give.                                   *)
ToHave == unread.resync \/ unread.merged # Nothing \/ unread.storeDropped

(* A reader that has found nothing will find what there is now.            *)
Awake ==
  reader \in {"empty", "waiting"} /\ ToHave =>
    (reader = "empty" /\ permit) \/ \E a \in Tellers : step[a] = "waking"

(* What this Store changed is on its way by its own Commits alone: what the *)
(* Follower has to tell may come too late.                                  *)
OwnOnItsWay(p) ==
  \/ unread.resync
  \/ unread.merged[p].kind # "none"
  \/ inHand[p] # "nothing"
  \/ \E c \in Commits : \E n \in DOMAIN telling[c] : telling[c][n].kinds[p] # "none"

OursComing == unread.feedDropped \/ \A p \in ours : OwnOnItsWay(p)

(* What others changed is in the log, or on its way as theirs.             *)
ForeignComing ==
  \/ unread.feedDropped
  \/ step[Inner] # "new"
  \/ \A p \in foreign :
       \/ \E n \in DOMAIN log : log[n][p] # "none"
       \/ OnItsWay(p, {"external"})

TrueKind(kind, p, files) == (kind = "removed") <=> (p \notin files)
LogSilent(p) == \A n \in DOMAIN log : log[n][p] = "none"

(* The last that the log says of a Path is true.                           *)
LogIsRight ==
  \A p \in Paths : \A n \in DOMAIN log :
    /\ log[n][p] # "none"
    /\ \A m \in DOMAIN log : m > n => log[m][p] = "none"
    => TrueKind(log[n][p], p, there)

(* The last that is still to be told of a Path is true, unless the log says *)
(* more of it.                                                              *)
TellingIsRight ==
  \A a \in Queuers, p \in Paths : \A n \in DOMAIN telling[a] :
    /\ telling[a][n].kinds[p] # "none"
    /\ \A m \in DOMAIN telling[a] : m > n => telling[a][m].kinds[p] = "none"
    /\ LogSilent(p)
    => TrueKind(telling[a][n].kinds[p], p, there)

IInv ==
  /\ TypeOK
  /\ Places
  /\ Closing
  /\ Covering
  /\ Awake
  /\ OursComing
  /\ ForeignComing
  /\ LogIsRight
  /\ TellingIsRight
  /\ KindIsLatest

-----------------------------------------------------------------------------
(* commit_order's queue.                                                   *)

(* RemoveFirst of the community modules, in a queue that holds each of its  *)
(* elements once.                                                           *)
LEMMA RemoveFirstIs ==
  ASSUME NEW S, NEW q \in Seq(S), IsInjective(q), NEW i \in 1..Len(q)
  PROVE  RemoveFirst(q, q[i]) = SubSeq(q, 1, i - 1) \o SubSeq(q, i + 1, Len(q))
<1>1. {j \in 1..Len(q) : q[j] = q[i]} = {i}
  BY DEF IsInjective
<1>2. Min({i}) = i
  BY DEF Min
<1>3. SelectInSeq(q, LAMBDA v : v = q[i]) = i
  BY <1>1, <1>2 DEF SelectInSeq
<1> QED
  BY <1>3 DEF RemoveFirst, RemoveAt

LEMMA RemoveFirstOther ==
  ASSUME NEW S, NEW q \in Seq(S), NEW e, e \notin Range(q)
  PROVE  RemoveFirst(q, e) = q
BY DEF RemoveFirst, Range

(* What is left, element by element.                                       *)
LEMMA RemovedAt ==
  ASSUME NEW S, NEW q \in Seq(S), NEW i \in 1..Len(q)
  PROVE  LET r == SubSeq(q, 1, i - 1) \o SubSeq(q, i + 1, Len(q))
         IN  /\ r \in Seq(S)
             /\ DOMAIN r = 1..(Len(q) - 1)
             /\ \A j \in 1..(Len(q) - 1) : r[j] = IF j < i THEN q[j] ELSE q[j + 1]
<1> DEFINE before == SubSeq(q, 1, i - 1)
           after  == SubSeq(q, i + 1, Len(q))
<1>1. /\ before \in Seq(S)
      /\ Len(before) = i - 1
      /\ \A j \in 1..(i - 1) : before[j] = q[j]
  BY SubSeqProperties
<1>2. /\ after \in Seq(S)
      /\ Len(after) = Len(q) - i
      /\ \A j \in 1..(Len(q) - i) : after[j] = q[i + j]
  BY SubSeqProperties
<1> HIDE DEF before, after
<1> DEFINE r == before \o after
<1>3. /\ r \in Seq(S)
      /\ Len(r) = Len(before) + Len(after)
      /\ \A j \in 1..(Len(before) + Len(after)) :
           r[j] = IF j <= Len(before) THEN before[j] ELSE after[j - Len(before)]
  BY <1>1, <1>2, ConcatProperties
<1> HIDE DEF before, after, r
<1>4. Len(q) \in Nat /\ i \in Nat /\ Len(r) = Len(q) - 1
  BY <1>1, <1>2, <1>3
<1>5. ASSUME NEW j \in 1..(Len(q) - 1) PROVE r[j] = IF j < i THEN q[j] ELSE q[j + 1]
  <2>1. r[j] = IF j <= i - 1 THEN before[j] ELSE after[j - (i - 1)]
    BY <1>1, <1>2, <1>3, <1>4
  <2>2. CASE j < i
    <3>1. j \in 1..(i - 1) /\ j <= i - 1
      BY <2>2, <1>4
    <3> QED
      BY <2>1, <3>1, <2>2, <1>1
  <2>3. CASE ~(j < i)
    <3>1. j - (i - 1) \in 1..(Len(q) - i) /\ ~(j <= i - 1) /\ i + (j - (i - 1)) = j + 1
      BY <2>3, <1>4
    <3> QED
      BY <2>1, <3>1, <2>3, <1>2
  <2> QED
    BY <2>2, <2>3
<1>6. r \in Seq(S) /\ DOMAIN r = 1..(Len(q) - 1)
  BY <1>3, <1>4
<1> QED
  BY <1>5, <1>6 DEF before, after, r

LEMMA Removed ==
  ASSUME NEW S, NEW q \in Seq(S), IsInjective(q), NEW e \in Range(q)
  PROVE  LET r == RemoveFirst(q, e)
         IN  /\ r \in Seq(S)
             /\ IsInjective(r)
             /\ Range(r) = Range(q) \ {e}
             /\ q # <<>> /\ Head(q) # e => r # <<>> /\ Head(r) = Head(q)
<1>1. PICK i \in 1..Len(q) : q[i] = e
  BY DEF Range
<1> DEFINE r == RemoveFirst(q, e)
<1>2. /\ r \in Seq(S)
      /\ DOMAIN r = 1..(Len(q) - 1)
      /\ \A j \in 1..(Len(q) - 1) : r[j] = IF j < i THEN q[j] ELSE q[j + 1]
  <2>1. r = SubSeq(q, 1, i - 1) \o SubSeq(q, i + 1, Len(q))
    BY <1>1, RemoveFirstIs
  <2> QED
    BY <2>1, RemovedAt
<1> HIDE DEF r
<1>3. \A j, k \in 1..Len(q) : q[j] = q[k] => j = k
  BY DEF IsInjective
<1>4. Len(q) \in Nat /\ DOMAIN q = 1..Len(q)
  OBVIOUS
<1>5. IsInjective(r)
  BY <1>2, <1>3, <1>4 DEF IsInjective
<1>6. Range(r) = Range(q) \ {e}
  <2>1. ASSUME NEW x \in Range(r) PROVE x \in Range(q) \ {e}
    <3>1. PICK j \in 1..(Len(q) - 1) : r[j] = x
      BY <1>2 DEF Range
    <3>2. PICK k \in 1..Len(q) : x = q[k] /\ k # i
      BY <3>1, <1>2, <1>4
    <3> QED
      BY <3>2, <1>1, <1>3, <1>4 DEF Range
  <2>2. ASSUME NEW x \in Range(q) \ {e} PROVE x \in Range(r)
    <3>1. PICK k \in 1..Len(q) : q[k] = x /\ k # i
      BY <1>1 DEF Range
    <3>2. PICK j \in 1..(Len(q) - 1) : r[j] = x
      <4>1. CASE k < i
        BY <4>1, <3>1, <1>2, <1>4
      <4>2. CASE k > i
        <5>1. k - 1 \in 1..(Len(q) - 1) /\ ~(k - 1 < i) /\ (k - 1) + 1 = k
          BY <4>2, <1>4
        <5> QED
          BY <5>1, <3>1, <1>2
      <4> QED
        BY <4>1, <4>2, <3>1, <1>4
    <3> QED
      BY <3>2, <1>2 DEF Range
  <2> QED
    BY <2>1, <2>2
<1>7. ASSUME q # <<>>, Head(q) # e PROVE r # <<>> /\ Head(r) = Head(q)
  <2>1. i # 1 /\ Head(q) = q[1]
    BY <1>1, <1>7
  <2>2. 1 \in 1..(Len(q) - 1) /\ 1 < i
    BY <2>1, <1>4
  <2>3. r # <<>> /\ r[1] = q[1]
    BY <2>2, <1>2, EmptySeq
  <2> QED
    BY <2>1, <2>3, <1>2
<1> QED
  BY <1>2, <1>5, <1>6, <1>7 DEF r

LEMMA Appended ==
  ASSUME NEW S, NEW q \in Seq(S), IsInjective(q), NEW e \in S, e \notin Range(q)
  PROVE  LET r == Append(q, e)
         IN  /\ r \in Seq(S)
             /\ IsInjective(r)
             /\ Range(r) = Range(q) \cup {e}
             /\ q # <<>> => r # <<>> /\ Head(r) = Head(q)
<1> DEFINE r == Append(q, e)
<1>1. /\ r \in Seq(S)
      /\ Len(r) = Len(q) + 1
      /\ \A j \in 1..Len(q) : r[j] = q[j]
      /\ r[Len(q) + 1] = e
  BY AppendProperties
<1> HIDE DEF r
<1>2. Len(q) \in Nat /\ DOMAIN q = 1..Len(q) /\ DOMAIN r = 1..(Len(q) + 1)
  BY <1>1
<1>3. \A j \in 1..(Len(q) + 1) : j \in 1..Len(q) \/ j = Len(q) + 1
  BY <1>2
<1>4. Range(r) = Range(q) \cup {e}
  <2>1. \A x \in Range(r) : x \in Range(q) \cup {e}
    BY <1>1, <1>2, <1>3 DEF Range
  <2>2. \A x \in Range(q) : x \in Range(r)
    BY <1>1, <1>2 DEF Range
  <2>3. e \in Range(r)
    BY <1>1, <1>2 DEF Range
  <2> QED
    BY <2>1, <2>2, <2>3
<1>5. IsInjective(r)
  <2>1. \A j \in 1..Len(q) : q[j] # e
    BY <1>2 DEF Range
  <2> QED
    BY <2>1, <1>1, <1>2, <1>3 DEF IsInjective
<1>6. q # <<>> => r # <<>> /\ Head(r) = Head(q)
  BY <1>1, <1>2, EmptySeq
<1> QED
  BY <1>1, <1>4, <1>5, <1>6 DEF r

LEMMA WithoutHead ==
  ASSUME NEW S, NEW q \in Seq(S), IsInjective(q), q # <<>>
  PROVE  Tail(q) = RemoveFirst(q, Head(q))
<1>1. Head(q) = q[1] /\ 1 \in 1..Len(q)
  BY EmptySeq
<1>2. RemoveFirst(q, q[1]) = SubSeq(q, 1, 1 - 1) \o SubSeq(q, 1 + 1, Len(q))
  BY <1>1, RemoveFirstIs
<1>3. SubSeq(q, 1, 0) = <<>> /\ SubSeq(q, 2, Len(q)) = Tail(q)
  BY <1>1, SubSeqEmpty, TailIsSubSeq
<1>4. Tail(q) \in Seq(S)
  BY HeadTailProperties
<1> QED
  BY <1>1, <1>2, <1>3, <1>4, ConcatEmptySeq

-----------------------------------------------------------------------------
(* Types.                                                                  *)

Line ==
  /\ turn \in Seq(Queuers)
  /\ IsInjective(turn)
  /\ Range(turn) = {a \in Queuers : step[a] \in InLine}

(* The ways in which the queue and the steps of those in it change.        *)
LEMMA JoinLine ==
  ASSUME Line, NEW a \in Queuers, step[a] \notin InLine, step' \in [Tellers -> Steps],
         step'[a] = "waiting", \A b \in Queuers \ {a} : step'[b] = step[b],
         turn' = Append(turn, a)
  PROVE  Line' /\ \A b : HasTurn(b) => HasTurn(b)'
<1>1. a \notin Range(turn)
  BY DEF Line
<1>2. /\ turn' \in Seq(Queuers)
      /\ IsInjective(turn')
      /\ Range(turn') = Range(turn) \cup {a}
      /\ turn # <<>> => turn' # <<>> /\ Head(turn') = Head(turn)
  BY <1>1, Appended DEF Line
<1>3. Range(turn') = {b \in Queuers : step'[b] \in InLine}
  <2>1. \A b \in Queuers : b \in Range(turn') <=> step'[b] \in InLine
    BY <1>2 DEF Line, InLine
  <2>2. Range(turn') \subseteq Queuers
    BY <1>2 DEF Line
  <2> QED
    BY <2>1, <2>2
<1> QED
  BY <1>2, <1>3 DEF Line, HasTurn

LEMMA LeaveLine ==
  ASSUME Line, NEW a \in Queuers, step'[a] \notin InLine,
         \A b \in Queuers \ {a} : step'[b] = step[b],
         turn' = RemoveFirst(turn, a)
  PROVE  Line' /\ \A b : HasTurn(b) /\ b # a => HasTurn(b)'
<1>1. /\ turn' \in Seq(Queuers)
      /\ IsInjective(turn')
      /\ Range(turn') = Range(turn) \ {a}
      /\ turn # <<>> /\ Head(turn) # a => turn' # <<>> /\ Head(turn') = Head(turn)
  <2>1. CASE a \in Range(turn)
    BY <2>1, Removed DEF Line
  <2>2. CASE a \notin Range(turn)
    <3>1. turn' = turn
      BY <2>2, RemoveFirstOther DEF Line
    <3> QED
      BY <2>2, <3>1 DEF Line
  <2> QED
    BY <2>1, <2>2
<1>2. Range(turn') = {b \in Queuers : step'[b] \in InLine}
  <2>1. \A b \in Queuers : b \in Range(turn') <=> step'[b] \in InLine
    BY <1>1 DEF Line
  <2>2. Range(turn') \subseteq Queuers
    BY <1>1 DEF Line
  <2> QED
    BY <2>1, <2>2
<1> QED
  BY <1>1, <1>2 DEF Line, HasTurn

LEMMA GiveTurnBack ==
  ASSUME Line, NEW a \in Queuers, HasTurn(a)
  PROVE  Tail(turn) = RemoveFirst(turn, a)
BY WithoutHead DEF Line, HasTurn

LEMMA StayInLine ==
  ASSUME Line, \A a \in Queuers : step'[a] \in InLine <=> step[a] \in InLine, turn' = turn
  PROVE  Line' /\ \A b : HasTurn(b) <=> HasTurn(b)'
BY DEF Line, HasTurn

(* What a Commit has to record.                                            *)
LEMMA OutcomeIs ==
  ASSUME log \in Seq([Paths -> Kinds]), NEW kinds \in [Paths -> Kinds]
  PROVE  /\ Outcome(kinds) \in Seq(Told)
         /\ \A n \in DOMAIN log : /\ n \in DOMAIN Outcome(kinds)
                                  /\ Outcome(kinds)[n] = Changes(log[n], "external")
         /\ Changed(kinds) = {} => DOMAIN Outcome(kinds) = DOMAIN log
         /\ Changed(kinds) # {} =>
              /\ DOMAIN Outcome(kinds) = 1..(Len(log) + 1)
              /\ Outcome(kinds)[Len(log) + 1] = Changes(kinds, "local")
<1> DEFINE theirsToo == [n \in DOMAIN log |-> Changes(log[n], "external")]
           own == IF Changed(kinds) = {} THEN <<>> ELSE <<Changes(kinds, "local")>>
<1>1. \A k \in [Paths -> Kinds] : \A o \in Origins : Changes(k, o) \in Told
  BY DEF Changes, Told
<1>2. theirsToo \in Seq(Told) /\ Len(theirsToo) = Len(log)
  <2>1. Len(log) \in Nat /\ DOMAIN log = 1..Len(log)
    OBVIOUS
  <2>2. ASSUME NEW n \in 1..Len(log) PROVE Changes(log[n], "external") \in Told
    BY <1>1, <2>1, <2>2 DEF Origins
  <2>3. theirsToo = [n \in 1..Len(log) |-> Changes(log[n], "external")]
    BY <2>1
  <2> HIDE DEF theirsToo
  <2> QED
    BY <2>1, <2>2, <2>3, IsASeq
<1>3. \A n \in DOMAIN log : theirsToo[n] = Changes(log[n], "external")
  OBVIOUS
<1>4. /\ own \in Seq(Told)
      /\ Changed(kinds) = {} => own = <<>> /\ Len(own) = 0
      /\ Changed(kinds) # {} => Len(own) = 1 /\ own[1] = Changes(kinds, "local")
  BY <1>1 DEF Origins
<1> HIDE DEF theirsToo, own
<1>5. /\ theirsToo \o own \in Seq(Told)
      /\ Len(theirsToo \o own) = Len(log) + Len(own)
      /\ \A i \in 1..(Len(log) + Len(own)) :
           (theirsToo \o own)[i] = IF i <= Len(log) THEN theirsToo[i] ELSE own[i - Len(log)]
  <2>1. Len(theirsToo) = Len(log) /\ theirsToo \in Seq(Told) /\ own \in Seq(Told)
    BY <1>2, <1>4
  <2>2. /\ theirsToo \o own \in Seq(Told)
        /\ Len(theirsToo \o own) = Len(theirsToo) + Len(own)
        /\ \A i \in 1..(Len(theirsToo) + Len(own)) :
             (theirsToo \o own)[i] = IF i <= Len(theirsToo) THEN theirsToo[i]
                                     ELSE own[i - Len(theirsToo)]
    BY <2>1, ConcatProperties
  <2> QED
    BY <2>1, <2>2
<1>6. Outcome(kinds) = theirsToo \o own
  BY DEF Outcome, theirsToo, own
<1>7. DOMAIN log = 1..Len(log) /\ Len(log) \in Nat
  OBVIOUS
<1>8. DOMAIN Outcome(kinds) = 1..(Len(log) + Len(own))
  BY <1>5, <1>6
<1>9. \A n \in DOMAIN log : n \in 1..(Len(log) + Len(own)) /\ n <= Len(log)
  BY <1>7, <1>4
<1>10. \A n \in DOMAIN log : n \in DOMAIN Outcome(kinds)
                            /\ Outcome(kinds)[n] = Changes(log[n], "external")
  BY <1>3, <1>5, <1>6, <1>8, <1>9
<1>11. ASSUME Changed(kinds) # {}
       PROVE  Outcome(kinds)[Len(log) + 1] = Changes(kinds, "local")
  <2>1. Len(log) + 1 \in 1..(Len(log) + Len(own)) /\ ~(Len(log) + 1 <= Len(log))
        /\ (Len(log) + 1) - Len(log) = 1
    BY <1>4, <1>7, <1>11
  <2> QED
    BY <2>1, <1>4, <1>5, <1>6, <1>11
<1>12. Changed(kinds) = {} => DOMAIN Outcome(kinds) = DOMAIN log
  BY <1>4, <1>7, <1>8
<1>13. Changed(kinds) # {} => DOMAIN Outcome(kinds) = 1..(Len(log) + 1)
  BY <1>4, <1>7, <1>8
<1>14. Outcome(kinds) \in Seq(Told)
  BY <1>5, <1>6
<1> QED
  BY <1>10, <1>11, <1>12, <1>13, <1>14

LEMMA KindType ==
  ASSUME NEW r \in Requests
  PROVE  Kind(r, there) \in [Paths -> Kinds]
BY DEF Kind, Kinds

LEMMA AfterType ==
  ASSUME there \subseteq Paths, NEW kinds
  PROVE  After(kinds, there) \subseteq Paths
BY DEF After

LEMMA MissedType == Missed \in Told /\ End \in Told
BY DEF Missed, End, Told, Kinds, Origins

LEMMA NoneType == [p \in Paths |-> "none"] \in [Paths -> Kinds]
BY DEF Kinds

(* The rest of a sequence.                                                 *)
LEMMA TailIs ==
  ASSUME NEW S, NEW q \in Seq(S), q # <<>>
  PROVE  /\ 1 \in DOMAIN q /\ Head(q) = q[1] /\ q[1] \in S
         /\ Tail(q) \in Seq(S)
         /\ \A n \in DOMAIN Tail(q) : n \in Nat /\ n + 1 \in DOMAIN q /\ Tail(q)[n] = q[n + 1]
         /\ \A n \in DOMAIN q : n \in Nat /\ (n # 1 => n - 1 \in DOMAIN Tail(q)
                                                       /\ Tail(q)[n - 1] = q[n])
<1>1. /\ Head(q) \in S /\ Tail(q) \in Seq(S) /\ Len(Tail(q)) = Len(q) - 1
      /\ \A i \in 1..Len(Tail(q)) : Tail(q)[i] = q[i + 1]
  BY HeadTailProperties
<1>2. Len(q) \in Nat \ {0} /\ DOMAIN q = 1..Len(q) /\ Head(q) = q[1]
  BY EmptySeq
<1>3. DOMAIN Tail(q) = 1..(Len(q) - 1)
  BY <1>1, <1>2
<1>4. ASSUME NEW n \in DOMAIN q, n # 1
      PROVE  n - 1 \in DOMAIN Tail(q) /\ Tail(q)[n - 1] = q[n]
  <2>1. n \in Nat /\ n - 1 \in 1..(Len(q) - 1) /\ (n - 1) + 1 = n
    BY <1>2, <1>4
  <2> QED
    BY <2>1, <1>1, <1>3
<1>5. ASSUME NEW n \in DOMAIN Tail(q)
      PROVE  n \in Nat /\ n + 1 \in DOMAIN q /\ Tail(q)[n] = q[n + 1]
  BY <1>1, <1>2, <1>3
<1>6. 1 \in DOMAIN q /\ \A n \in DOMAIN q : n \in Nat
  BY <1>2
<1> QED
  BY <1>1, <1>2, <1>4, <1>5, <1>6

LEMMA RecordedIs ==
  ASSUME FeedTypeOK, NEW kinds \in [Paths -> Kinds], NEW origin \in Origins
  PROVE  /\ Recorded(kinds, origin) \in [Paths -> [kind : Kinds, origin : Origins]]
         /\ \A p \in Paths :
              /\ kinds[p] = "none" => Recorded(kinds, origin)[p] = unread.merged[p]
              /\ kinds[p] # "none" =>
                   /\ Recorded(kinds, origin)[p].kind = kinds[p]
                   /\ origin = "external" => Recorded(kinds, origin)[p].origin = "external"
                   /\ unread.merged[p].kind # "none" =>
                        (unread.merged[p].origin = "external"
                           => Recorded(kinds, origin)[p].origin = "external")
<1>1. \A p \in Paths : unread.merged[p] \in [kind : Kinds, origin : Origins]
  BY DEF FeedTypeOK, Unread
<1>2. \A p \in Paths : kinds[p] \in Kinds
  OBVIOUS
<1> QED
  BY <1>1, <1>2 DEF Recorded

(* What is unread of a Path stays so when more is recorded, and stays others'. *)
LEMMA RecordedKeeps ==
  ASSUME FeedTypeOK, NEW kinds \in [Paths -> Kinds], NEW origin \in Origins, NEW p \in Paths,
         unread.merged[p].kind # "none"
  PROVE  /\ Recorded(kinds, origin)[p].kind # "none"
         /\ unread.merged[p].origin = "external" => Recorded(kinds, origin)[p].origin = "external"
<1>1. CASE kinds[p] = "none"
  <2>1. Recorded(kinds, origin)[p] = unread.merged[p]
    BY <1>1, RecordedIs
  <2> QED
    BY <2>1
<1>2. CASE kinds[p] # "none"
  BY <1>2, RecordedIs
<1> QED
  BY <1>1, <1>2

LEMMA NothingIs ==
  /\ Nothing \in [Paths -> [kind : Kinds, origin : Origins]]
  /\ \A p \in Paths : Nothing[p].kind = "none"
BY DEF Nothing, NoChange, Kinds, Origins

LEMMA UnreadIs ==
  ASSUME FeedTypeOK
  PROVE  /\ unread = [resync |-> unread.resync, merged |-> unread.merged,
                      storeDropped |-> unread.storeDropped, feedDropped |-> unread.feedDropped]
         /\ unread.resync \in BOOLEAN
         /\ unread.merged \in [Paths -> [kind : Kinds, origin : Origins]]
         /\ unread.storeDropped \in BOOLEAN
         /\ unread.feedDropped \in BOOLEAN
BY DEF FeedTypeOK, Unread

Blocked == unread.storeDropped \/ unread.feedDropped

(* What is unread once something is recorded, field by field.              *)
LEMMA ChangesRecorded ==
  ASSUME FeedTypeOK, NEW kinds \in [Paths -> Kinds], NEW origin \in Origins,
         RecordChanges(kinds, origin)
  PROVE  /\ unread' \in Unread
         /\ Blocked \/ unread.resync => unread' = unread
         /\ ~Blocked /\ ~unread.resync =>
              /\ unread'.resync = unread.resync
              /\ unread'.storeDropped = unread.storeDropped
              /\ unread'.feedDropped = unread.feedDropped
              /\ unread'.merged = Recorded(kinds, origin)
<1>1. CASE Blocked \/ unread.resync
  BY <1>1 DEF RecordChanges, Blocked, FeedTypeOK
<1>2. CASE ~Blocked /\ ~unread.resync
  <2>1. unread' = [resync |-> unread.resync, merged |-> Recorded(kinds, origin),
                   storeDropped |-> unread.storeDropped, feedDropped |-> unread.feedDropped]
    BY <1>2, UnreadIs DEF RecordChanges, Blocked
  <2>2. Recorded(kinds, origin) \in [Paths -> [kind : Kinds, origin : Origins]]
    BY RecordedIs
  <2> QED
    BY <1>2, <2>1, <2>2, UnreadIs DEF Unread
<1> QED
  BY <1>1, <1>2

LEMMA ResyncRecorded ==
  ASSUME FeedTypeOK, RecordResync
  PROVE  /\ unread' \in Unread
         /\ Blocked => unread' = unread
         /\ ~Blocked => /\ unread'.resync
                        /\ unread'.merged = Nothing
                        /\ unread'.storeDropped = unread.storeDropped
                        /\ unread'.feedDropped = unread.feedDropped
<1>1. CASE Blocked
  BY <1>1 DEF RecordResync, Blocked, FeedTypeOK
<1>2. CASE ~Blocked
  <2>1. unread' = [resync |-> TRUE, merged |-> Nothing,
                   storeDropped |-> unread.storeDropped, feedDropped |-> unread.feedDropped]
    BY <1>2, UnreadIs DEF RecordResync, Blocked
  <2> QED
    BY <1>2, <2>1, UnreadIs, NothingIs DEF Unread
<1> QED
  BY <1>1, <1>2

LEMMA EndRecorded ==
  ASSUME FeedTypeOK, RecordEnd
  PROVE  /\ unread' \in Unread
         /\ unread'.storeDropped
         /\ unread'.resync = unread.resync
         /\ unread'.merged = unread.merged
         /\ unread'.feedDropped = unread.feedDropped
<1>1. unread' = [resync |-> unread.resync, merged |-> unread.merged,
                 storeDropped |-> TRUE, feedDropped |-> unread.feedDropped]
  BY UnreadIs DEF RecordEnd
<1> QED
  BY <1>1, UnreadIs DEF Unread

(* What the reader leaves unread.                                          *)
LEMMA ReadAll ==
  ASSUME FeedTypeOK, unread' = [unread EXCEPT !.resync = FALSE, !.merged = Nothing]
  PROVE  /\ unread' \in Unread
         /\ ~unread'.resync
         /\ unread'.merged = Nothing
         /\ unread'.storeDropped = unread.storeDropped
         /\ unread'.feedDropped = unread.feedDropped
         /\ ~unread.resync /\ unread.merged = Nothing => unread' = unread
<1>1. unread' = [resync |-> FALSE, merged |-> Nothing,
                 storeDropped |-> unread.storeDropped, feedDropped |-> unread.feedDropped]
  BY UnreadIs
<1>2. unread' \in Unread
  BY <1>1, UnreadIs, NothingIs DEF Unread
<1>3. ~unread.resync /\ unread.merged = Nothing => unread' = unread
  BY <1>1, UnreadIs
<1> QED
  BY <1>1, <1>2, <1>3

LEMMA FeedIsDropped ==
  ASSUME FeedTypeOK, DropFeed
  PROVE  /\ unread' \in Unread
         /\ ~unread'.resync
         /\ unread'.merged = Nothing
         /\ unread'.storeDropped = unread.storeDropped
         /\ unread'.feedDropped
<1>1. unread' = [resync |-> FALSE, merged |-> Nothing,
                 storeDropped |-> unread.storeDropped, feedDropped |-> TRUE]
  BY UnreadIs DEF DropFeed
<1> QED
  BY <1>1, UnreadIs, NothingIs DEF Unread

(* What Tell records, and what it leaves to be told.                       *)
LEMMA TellIs ==
  ASSUME TypeOK, NEW a \in Tellers, Tell(a)
  PROVE  /\ telling[a] \in Seq(Told) /\ telling[a] # <<>>
         /\ 1 \in DOMAIN telling[a] /\ telling[a][1] \in Told
         /\ telling[a][1].what = "changes" =>
              RecordChanges(telling[a][1].kinds, telling[a][1].origin)
         /\ telling[a][1].what = "missed" => RecordResync
         /\ telling[a][1].what = "end" => RecordEnd
         /\ telling' \in [Tellers -> Seq(Told)]
         /\ telling'[a] = Tail(telling[a])
         /\ \A b \in Tellers \ {a} : telling'[b] = telling[b]
<1>1. telling \in [Tellers -> Seq(Told)] /\ telling[a] \in Seq(Told) /\ telling[a] # <<>>
  BY DEF TypeOK, Tell
<1>2. /\ 1 \in DOMAIN telling[a] /\ Head(telling[a]) = telling[a][1] /\ telling[a][1] \in Told
      /\ Tail(telling[a]) \in Seq(Told)
  BY <1>1, TailIs
<1>3. telling' = [telling EXCEPT ![a] = Tail(telling[a])]
  BY DEF Tell
<1>4. telling' \in [Tellers -> Seq(Told)]
  BY <1>1, <1>2, <1>3
<1>5. telling'[a] = Tail(telling[a]) /\ \A b \in Tellers \ {a} : telling'[b] = telling[b]
  BY <1>1, <1>3
<1>6. /\ telling[a][1].what = "changes" =>
              RecordChanges(telling[a][1].kinds, telling[a][1].origin)
      /\ telling[a][1].what = "missed" => RecordResync
      /\ telling[a][1].what = "end" => RecordEnd
  BY <1>2 DEF Tell
<1> QED
  BY <1>1, <1>2, <1>4, <1>5, <1>6

(* The variables of TypeOK but the feed's, the queue and the steps.        *)
Others ==
  /\ there \subseteq Paths
  /\ log \in Seq([Paths -> Kinds])
  /\ theirs \in 0..MaxTheirs
  /\ newer \in BOOLEAN
  /\ failures \in 0..MaxFailures
  /\ handles \in {"held", "dropped"}
  /\ telling \in [Tellers -> Seq(Told)]
  /\ waits \subseteq Commits
  /\ failing \in BOOLEAN
  /\ ours \subseteq Paths
  /\ foreign \subseteq Paths

LEMMA TypeParts ==
  TypeOK <=> FeedTypeOK /\ Line /\ step \in [Tellers -> Steps] /\ Others
BY DEF TypeOK, Line, Others, Queuers, InLine

LEMMA TellersAre ==
  /\ Queuers \subseteq Tellers /\ Commits \subseteq Queuers
  /\ Follower \in Queuers /\ Supervisor \in Tellers /\ Inner \in Tellers
  /\ Supervisor \notin Queuers /\ Inner \notin Queuers
  /\ Follower \notin Commits /\ Supervisor # Inner
BY StoreAssumption DEF Queuers, Tellers

LEMMA TellingIs ==
  ASSUME telling \in [Tellers -> Seq(Told)], NEW a \in Tellers, NEW q \in Seq(Told),
         telling' = [telling EXCEPT ![a] = q]
  PROVE  /\ telling' \in [Tellers -> Seq(Told)]
         /\ telling'[a] = q
         /\ \A b \in Tellers \ {a} : telling'[b] = telling[b]
OBVIOUS

LEMMA NoLog == <<>> \in Seq([Paths -> Kinds])
OBVIOUS

LEMMA FeedTypes ==
  ASSUME TypeOK, [Next]_vars
  PROVE  FeedTypeOK'
<1>1. FeedTypeOK /\ telling \in [Tellers -> Seq(Told)]
  BY DEF TypeOK
<1>2. ASSUME NEW a \in Tellers, Tell(a) PROVE FeedTypeOK'
  <2>1. unread' \in Unread
    <3>1. telling[a][1] \in Told
      BY <1>2, TellIs
    <3>2. /\ telling[a][1].what \in {"changes", "missed", "end"}
          /\ telling[a][1].kinds \in [Paths -> Kinds] /\ telling[a][1].origin \in Origins
      BY <3>1 DEF Told
    <3>3. CASE telling[a][1].what = "changes"
      BY <1>1, <1>2, <3>2, <3>3, TellIs, ChangesRecorded
    <3>4. CASE telling[a][1].what = "missed"
      BY <1>1, <1>2, <3>4, TellIs, ResyncRecorded
    <3>5. CASE telling[a][1].what = "end"
      BY <1>1, <1>2, <3>5, TellIs, EndRecorded
    <3> QED
      BY <3>2, <3>3, <3>4, <3>5
  <2> QED
    BY <1>1, <1>2, <2>1 DEF FeedTypeOK, Tell
<1>3. ASSUME NEW a \in Tellers, WakeReader(a) PROVE FeedTypeOK'
  BY <1>1, <1>3 DEF WakeReader, NotifyOne, FeedTypeOK, Readers
<1>4. ASSUME Look PROVE FeedTypeOK'
  <2>1. unread' \in Unread
    BY <1>1, <1>4, ReadAll DEF Look
  <2>2. \A p \in Paths : unread.merged[p].kind # "none" => unread.merged[p].origin \in Doings
    BY <1>1 DEF FeedTypeOK, Unread, Origins, Doings
  <2>3. inHand' \in [Paths -> Doings]
    BY <1>1, <1>4, <2>2 DEF Look, FeedTypeOK, Doings, Unread, Origins
  <2> QED
    BY <1>1, <1>4, <2>1, <2>3 DEF Look, FeedTypeOK, Readers
<1>5. ASSUME DropFeed PROVE FeedTypeOK'
  <2>1. unread' \in Unread
    BY <1>1, <1>5, FeedIsDropped
  <2> QED
    BY <1>1, <1>5, <2>1 DEF DropFeed, FeedTypeOK, Doings
<1>6. ASSUME CallNext \/ Wait \/ Wake \/ CancelNext PROVE FeedTypeOK'
  BY <1>1, <1>6 DEF CallNext, Wait, Wake, CancelNext, FeedTypeOK, Readers
<1>7. ASSUME NEW p \in Paths, ReadAgain(p) PROVE FeedTypeOK'
  BY <1>1, <1>7 DEF ReadAgain, FeedTypeOK, Doings
<1>8. CASE UNCHANGED feedVars
  BY <1>1, <1>8 DEF feedVars, FeedTypeOK
<1>9. ASSUME NEW c \in Commits, Commit(c) \/ Cancel(c) \/ Committing(c) PROVE UNCHANGED feedVars
  BY <1>9 DEF Commit, Cancel, Committing, Start, Apply, ApplyFails, Finish
<1>10. ASSUME NEW r \in Requests, TheyCommit(r) PROVE UNCHANGED feedVars
  BY <1>10 DEF TheyCommit
<1>11. ASSUME Following \/ FollowerPanics \/ DropStore \/ Ending PROVE UNCHANGED feedVars
  BY <1>11 DEF Following, Notice, ReadLog, ReadLogFails, Followed, FollowerStops, FollowerPanics,
               DropStore, Ending, Supervised, DropInner, InnerDropped
<1>12. ASSUME UNCHANGED vars PROVE UNCHANGED feedVars
  BY <1>12 DEF vars
<1> QED
  BY <1>2, <1>3, <1>4, <1>5, <1>6, <1>7, <1>8, <1>9, <1>10, <1>11, <1>12 DEF Next, Reading

LEMMA OtherTypes ==
  ASSUME TypeOK, [Next]_vars
  PROVE  Others'
<1>1. Others
  BY TypeParts
<1>2. ASSUME NEW c \in Commits, Commit(c) \/ Cancel(c) \/ Start(c) \/ ApplyFails(c) \/ Finish(c)
      PROVE  Others'
  BY <1>1, <1>2 DEF Others, Commit, Cancel, Start, ApplyFails, Finish
<1>3. ASSUME NEW c \in Commits, NEW r \in Requests, Apply(c, r) PROVE Others'
  <2> DEFINE kinds == Kind(r, there)
  <2>1. kinds \in [Paths -> Kinds] /\ Changed(kinds) \subseteq Paths
    BY KindType DEF Changed
  <2> HIDE DEF kinds
  <2>2. Outcome(kinds) \in Seq(Told)
    BY <1>1, <2>1, OutcomeIs DEF Others
  <2>3. After(kinds, there) \subseteq Paths
    BY <1>1, AfterType DEF Others
  <2>4. /\ there' = After(kinds, there) /\ ours' = ours \cup Changed(kinds)
        /\ telling' = [telling EXCEPT ![c] = Outcome(kinds)] /\ log' = <<>>
        /\ UNCHANGED <<theirs, newer, failures, handles, waits, failing, foreign>>
    BY <1>3 DEF Apply, kinds
  <2>5. telling' \in [Tellers -> Seq(Told)] /\ log' \in Seq([Paths -> Kinds])
    <3>1. telling' \in [Tellers -> Seq(Told)]
      <4>1. c \in Tellers
        BY TellersAre
      <4> QED
        BY <1>1, <2>2, <2>4, <4>1, TellingIs DEF Others
    <3> QED
      BY <2>4, <3>1, NoLog
  <2>6. there' \subseteq Paths /\ ours' \subseteq Paths
    BY <1>1, <2>1, <2>3, <2>4 DEF Others
  <2>7. UNCHANGED <<theirs, newer, failures, handles, waits, failing, foreign>>
    BY <2>4
  <2> HIDE <2>4
  <2> QED
    BY <1>1, <2>5, <2>6, <2>7 DEF Others
<1>4. ASSUME NEW a \in Tellers, Tell(a) PROVE Others'
  <2>1. telling' \in [Tellers -> Seq(Told)]
    BY <1>4, TellIs
  <2> QED
    BY <1>1, <1>4, <2>1 DEF Others, Tell
<1>5. ASSUME NEW a \in Tellers, WakeReader(a) PROVE Others'
  BY <1>1, <1>5 DEF Others, WakeReader
<1>6. ASSUME NEW r \in Requests, TheyCommit(r) PROVE Others'
  <2> DEFINE kinds == Kind(r, there)
  <2>1. kinds \in [Paths -> Kinds] /\ Changed(kinds) \subseteq Paths
    BY KindType DEF Changed
  <2> HIDE DEF kinds
  <2>2. Append(log, kinds) \in Seq([Paths -> Kinds])
    BY <1>1, <2>1, AppendProperties DEF Others
  <2>3. After(kinds, there) \subseteq Paths
    BY <1>1, AfterType DEF Others
  <2>4. theirs + 1 \in 0..MaxTheirs
    <3>1. theirs \in 0..MaxTheirs /\ theirs < MaxTheirs
      BY <1>1, <1>6 DEF Others, TheyCommit
    <3> QED
      BY <3>1, StoreAssumption
  <2>5. /\ there' = After(kinds, there) /\ foreign' = foreign \cup Changed(kinds)
        /\ log' = Append(log, kinds) /\ theirs' = theirs + 1 /\ newer' = TRUE
        /\ UNCHANGED <<failures, handles, telling, waits, failing, ours>>
    BY <1>6 DEF TheyCommit, kinds
  <2>6. theirs' \in 0..MaxTheirs /\ log' \in Seq([Paths -> Kinds]) /\ there' \subseteq Paths
    BY <2>2, <2>3, <2>4, <2>5
  <2>7. foreign' \subseteq Paths /\ newer' \in BOOLEAN
    BY <1>1, <2>1, <2>5 DEF Others
  <2>8. UNCHANGED <<failures, handles, telling, waits, failing, ours>>
    BY <2>5
  <2> HIDE <2>4, <2>5
  <2> QED
    BY <1>1, <2>6, <2>7, <2>8 DEF Others
<1>7. ASSUME Notice PROVE Others'
  <2>1. failures \in 0..MaxFailures /\ newer \in BOOLEAN
    BY <1>1 DEF Others
  <2>2. \/ newer' = FALSE /\ failures' = failures
        \/ failures < MaxFailures /\ failures' = failures + 1 /\ newer' = newer
    BY <1>7 DEF Notice
  <2>3. failures' \in 0..MaxFailures
    BY <2>1, <2>2, StoreAssumption
  <2>4. newer' \in BOOLEAN
    BY <2>1, <2>2
  <2> QED
    BY <1>1, <1>7, <2>3, <2>4 DEF Others, Notice
<1>8. ASSUME ReadLog PROVE Others'
  <2>1. Outcome([p \in Paths |-> "none"]) \in Seq(Told)
    BY <1>1, NoneType, OutcomeIs DEF Others
  <2>2. telling' \in [Tellers -> Seq(Told)] /\ log' \in Seq([Paths -> Kinds])
    <3>1. telling' \in [Tellers -> Seq(Told)]
      <4>1. telling' = [telling EXCEPT ![Follower] = Outcome([p \in Paths |-> "none"])]
        BY <1>8 DEF ReadLog
      <4> QED
        BY <1>1, <2>1, <4>1, TellersAre, TellingIs DEF Others
    <3>2. log' = <<>>
      BY <1>8 DEF ReadLog
    <3> QED
      BY <3>1, <3>2, NoLog
  <2>3. failing' \in BOOLEAN /\ UNCHANGED <<there, theirs, newer, failures, handles, waits, ours, foreign>>
    BY <1>8 DEF ReadLog
  <2> QED
    BY <1>1, <2>2, <2>3 DEF Others
<1>9. ASSUME ReadLogFails PROVE Others'
  <2>1. <<Missed>> \in Seq(Told) /\ <<>> \in Seq(Told)
    BY MissedType
  <2>2. telling' \in [Tellers -> Seq(Told)]
    BY <1>1, <1>9, <2>1 DEF Others, ReadLogFails
  <2>3. failures' \in 0..MaxFailures
    BY <1>1, <1>9, StoreAssumption DEF Others, ReadLogFails
  <2> QED
    BY <1>1, <1>9, <2>2, <2>3 DEF Others, ReadLogFails
<1>10. ASSUME Followed \/ Supervised \/ InnerDropped PROVE Others'
  BY <1>1, <1>10 DEF Others, Followed, Supervised, InnerDropped
<1>16. ASSUME DropStore PROVE Others'
  BY <1>1, <1>16 DEF Others, DropStore
<1>11. ASSUME FollowerPanics PROVE Others'
  <2>1. <<Missed>> \in Seq(Told) /\ <<>> \in Seq([Paths -> Kinds])
    BY MissedType
  <2>2. log' \in Seq([Paths -> Kinds]) /\ telling' \in [Tellers -> Seq(Told)]
    BY <1>1, <1>11, <2>1 DEF Others, FollowerPanics
  <2> QED
    BY <1>1, <1>11, <2>2 DEF Others, FollowerPanics
<1>12. ASSUME FollowerStops PROVE Others'
  <2>1. log' \in Seq([Paths -> Kinds])
    <3>1. <<>> \in Seq([Paths -> Kinds])
      OBVIOUS
    <3>2. log' = log \/ log' = <<>>
      BY <1>12 DEF FollowerStops
    <3> QED
      BY <1>1, <3>1, <3>2 DEF Others
  <2> QED
    BY <1>1, <1>12, <2>1 DEF Others, FollowerStops
<1>13. ASSUME DropInner PROVE Others'
  <2>1. <<End>> \in Seq(Told)
    BY MissedType
  <2> QED
    BY <1>1, <1>13, <2>1 DEF Others, DropInner
<1>14. ASSUME NEW p \in Paths, ReadAgain(p) PROVE Others'
  BY <1>1, <1>14 DEF Others, ReadAgain
<1>15. ASSUME Reading \/ UNCHANGED vars PROVE Others'
  BY <1>1, <1>15 DEF Others, Reading, vars
<1> QED
  BY <1>2, <1>3, <1>4, <1>5, <1>6, <1>7, <1>8, <1>9, <1>10, <1>11, <1>12, <1>13, <1>14, <1>15, <1>16
  DEF Next, Committing, Following, Ending

-----------------------------------------------------------------------------
(* Turns.                                                                  *)

LEMMA StepIs ==
  ASSUME step \in [Tellers -> Steps], NEW a \in Tellers, NEW v \in Steps,
         step' = [step EXCEPT ![a] = v]
  PROVE  /\ step' \in [Tellers -> Steps]
         /\ step'[a] = v
         /\ \A b \in Tellers \ {a} : step'[b] = step[b]
OBVIOUS

(* A step that moves one of the Tellers on, the queue with it.             *)
LEMMA OneMoves ==
  ASSUME TypeOK, Places, NEW a \in Tellers, NEW v \in Steps, step' = [step EXCEPT ![a] = v],
         \/ turn' = turn /\ (a \in Queuers => (v \in InLine <=> step[a] \in InLine))
         \/ a \in Queuers /\ turn' = Append(turn, a) /\ step[a] \notin InLine /\ v = "waiting"
         \/ a \in Queuers /\ turn' = RemoveFirst(turn, a) /\ v \notin InLine,
         a \in Queuers /\ v \in {"started", "telling", "waking"} => HasTurn(a),
         \A b \in Tellers \ {a} : telling'[b] = telling[b],
         v \notin {"telling", "waking"} => telling'[a] = <<>>,
         a \in Commits /\ v = "waiting" => a \in waits',
         \A c \in Commits \ {a} : c \in waits => c \in waits',
         handles' = "dropped" => waits' = {},
         step[a] # "never", a = Supervisor => step[a] # "new"
  PROVE  step' \in [Tellers -> Steps] /\ Line' /\ Places'
<1>1. Line /\ step \in [Tellers -> Steps]
  BY TypeParts
<1>2. /\ step' \in [Tellers -> Steps]
      /\ step'[a] = v
      /\ \A b \in Tellers \ {a} : step'[b] = step[b]
  BY <1>1, StepIs
<1>3. /\ Line'
      /\ \A b \in Queuers : HasTurn(b) /\ (b # a \/ turn' = turn) => HasTurn(b)'
  <2>1. CASE turn' = turn /\ (a \in Queuers => (v \in InLine <=> step[a] \in InLine))
    <3>1. \A b \in Queuers : step'[b] \in InLine <=> step[b] \in InLine
      BY <1>2, <2>1, TellersAre
    <3> QED
      BY <1>1, <2>1, <3>1, StayInLine
  <2>2. CASE a \in Queuers /\ turn' = Append(turn, a) /\ step[a] \notin InLine /\ v = "waiting"
    <3>1. Line' /\ \A b : HasTurn(b) => HasTurn(b)'
      BY <1>1, <1>2, <2>2, TellersAre, JoinLine
    <3> QED
      BY <3>1
  <2>3. CASE a \in Queuers /\ turn' = RemoveFirst(turn, a) /\ v \notin InLine
    <3>1. Line' /\ \A b : HasTurn(b) /\ b # a => HasTurn(b)'
      BY <1>1, <1>2, <2>3, TellersAre, LeaveLine
    <3>2. turn' = turn => \A b : HasTurn(b) => HasTurn(b)'
      BY DEF HasTurn
    <3> QED
      BY <3>1, <3>2
  <2> QED
    BY <2>1, <2>2, <2>3
<1>4. ASSUME NEW b \in Queuers, step'[b] \in {"started", "telling", "waking"} PROVE HasTurn(b)'
  <2>1. CASE b = a
    <3>1. turn' = turn
      BY <1>2, <1>4, <2>1 DEF InLine
    <3> QED
      BY <1>2, <1>3, <1>4, <2>1, <3>1
  <2>2. CASE b # a
    <3>1. step[b] \in {"started", "telling", "waking"}
      BY <1>2, <1>4, <2>2, TellersAre
    <3> QED
      BY <1>3, <2>2, <3>1 DEF Places
  <2> QED
    BY <2>1, <2>2
<1>5. ASSUME NEW b \in Tellers, step'[b] \notin {"telling", "waking"} PROVE telling'[b] = <<>>
  BY <1>2, <1>5 DEF Places
<1>6. ASSUME NEW c \in Commits, step'[c] = "waiting" PROVE c \in waits'
  BY <1>2, <1>6, TellersAre DEF Places
<1>7. step'[Supervisor] # "new" => step'[Follower] = "never"
  BY <1>2, TellersAre DEF Places
<1> QED
  BY <1>2, <1>3, <1>4, <1>5, <1>6, <1>7 DEF Places

LEMMA NobodyMoves ==
  ASSUME TypeOK, Places, UNCHANGED <<step, turn, telling, waits>>,
         handles' = handles \/ waits = {}
  PROVE  step' \in [Tellers -> Steps] /\ Line' /\ Places'
<1>1. Line /\ step \in [Tellers -> Steps]
  BY TypeParts
<1>2. step' = step /\ turn' = turn /\ telling' = telling /\ waits' = waits
  OBVIOUS
<1>3. Line' /\ \A b : HasTurn(b) => HasTurn(b)'
  BY <1>1, <1>2 DEF Line, HasTurn
<1> QED
  BY <1>1, <1>2, <1>3 DEF Places

LEMMA PanicMoves ==
  ASSUME TypeOK, Places, FollowerPanics
  PROVE  step' \in [Tellers -> Steps] /\ Line' /\ Places'
<1>1. Line /\ step \in [Tellers -> Steps] /\ telling \in [Tellers -> Seq(Told)]
  BY TypeParts DEF Others
<1>2. /\ step' \in [Tellers -> Steps]
      /\ step'[Follower] = "never" /\ step'[Supervisor] = "telling"
      /\ \A b \in Tellers \ {Follower, Supervisor} : step'[b] = step[b]
  <2>1. step' = [step EXCEPT ![Follower] = "never", ![Supervisor] = "telling"]
    BY DEF FollowerPanics
  <2> QED
    BY <1>1, <2>1, TellersAre DEF Steps
<1>3. \A b \in Tellers \ {Supervisor} : telling'[b] = telling[b]
  BY <1>1 DEF FollowerPanics
<1>4. Line' /\ \A b : HasTurn(b) /\ b # Follower => HasTurn(b)'
  <2>1. step'[Follower] \notin InLine /\ \A b \in Queuers \ {Follower} : step'[b] = step[b]
    BY <1>2, TellersAre DEF InLine
  <2>2. turn' = RemoveFirst(turn, Follower)
    BY DEF FollowerPanics
  <2> QED
    BY <1>1, <2>1, <2>2, TellersAre, LeaveLine
<1>5. ASSUME NEW b \in Queuers, step'[b] \in {"started", "telling", "waking"} PROVE HasTurn(b)'
  <2>1. b # Follower /\ step[b] = step'[b]
    BY <1>2, <1>5, TellersAre
  <2> QED
    BY <1>4, <1>5, <2>1 DEF Places
<1>6. step[Follower] \in {"new", "waiting"} /\ waits' = waits /\ handles' = handles
  BY DEF FollowerPanics
<1>7. ASSUME NEW b \in Tellers, step'[b] \notin {"telling", "waking"} PROVE telling'[b] = <<>>
  BY <1>2, <1>3, <1>6, <1>7 DEF Places
<1>8. ASSUME NEW c \in Commits, step'[c] = "waiting" PROVE c \in waits'
  BY <1>2, <1>6, <1>8, TellersAre DEF Places
<1> QED
  BY <1>2, <1>4, <1>5, <1>6, <1>7, <1>8 DEF Places

LEMMA Moves ==
  ASSUME TypeOK, Places, [Next]_vars
  PROVE  step' \in [Tellers -> Steps] /\ Line' /\ Places'
<1> DEFINE Goal == step' \in [Tellers -> Steps] /\ Line' /\ Places'
<1>1. /\ Line /\ step \in [Tellers -> Steps] /\ telling \in [Tellers -> Seq(Told)]
      /\ waits \subseteq Commits
  BY TypeParts DEF Others
<1>2. /\ \A a \in Queuers : step[a] \in {"started", "telling", "waking"} => HasTurn(a)
      /\ \A a \in Tellers : step[a] \notin {"telling", "waking"} => telling[a] = <<>>
      /\ handles = "dropped" => waits = {}
  BY DEF Places
<1>3. \A a \in Commits : a \in Tellers /\ a \in Queuers /\ a # Supervisor
  BY TellersAre
<1>4. ASSUME NEW c \in Commits, Commit(c) PROVE Goal
  <2>1. /\ step[c] = "new" /\ step' = [step EXCEPT ![c] = "waiting"]
        /\ turn' = Append(turn, c) /\ waits' = waits \cup {c}
        /\ handles' = "held" /\ telling' = telling
    BY <1>4 DEF Commit
  <2>2. telling'[c] = <<>>
    BY <1>2, <1>3, <2>1
  <2> QED
    BY <1>3, <2>1, <2>2, OneMoves DEF InLine, Steps
<1>5. ASSUME NEW c \in Commits, Cancel(c) PROVE Goal
  <2>1. CASE step[c] = "waiting"
    <3>1. /\ step' = [step EXCEPT ![c] = "never"] /\ turn' = RemoveFirst(turn, c)
          /\ waits' = waits \ {c} /\ handles' = handles /\ telling' = telling
      BY <1>5, <2>1 DEF Cancel
    <3>2. telling'[c] = <<>>
      BY <1>2, <1>3, <2>1, <3>1
    <3> QED
      BY <1>2, <1>3, <2>1, <3>1, <3>2, OneMoves DEF InLine, Steps
  <2>2. CASE step[c] # "waiting"
    <3>1. /\ step' = step /\ turn' = turn /\ telling' = telling
          /\ waits' = waits \ {c} /\ handles' = handles
      BY <1>5, <2>2 DEF Cancel
    <3>2. Line' /\ \A b : HasTurn(b) => HasTurn(b)'
      BY <1>1, <3>1 DEF Line, HasTurn
    <3> QED
      BY <1>1, <2>2, <3>1, <3>2 DEF Places
  <2> QED
    BY <2>1, <2>2
<1>6. ASSUME NEW c \in Commits, Start(c) PROVE Goal
  <2>1. /\ step[c] = "waiting" /\ step' = [step EXCEPT ![c] = "started"] /\ turn' = turn
        /\ waits' = waits /\ handles' = handles /\ telling' = telling /\ HasTurn(c)
    BY <1>6 DEF Start
  <2>2. telling'[c] = <<>>
    BY <1>2, <1>3, <2>1
  <2> QED
    BY <1>2, <1>3, <2>1, <2>2, OneMoves DEF InLine, Steps
<1>7. ASSUME NEW c \in Commits, NEW r \in Requests, Apply(c, r) PROVE Goal
  <2>1. /\ step[c] = "started" /\ step' = [step EXCEPT ![c] = "telling"] /\ turn' = turn
        /\ waits' = waits /\ handles' = handles
        /\ \A b \in Tellers \ {c} : telling'[b] = telling[b]
    BY <1>1, <1>7 DEF Apply
  <2> QED
    BY <1>2, <1>3, <2>1, OneMoves DEF InLine, Steps
<1>8. ASSUME NEW c \in Commits, ApplyFails(c) PROVE Goal
  <2>1. /\ step[c] = "started" /\ step' = [step EXCEPT ![c] = "telling"] /\ turn' = turn
        /\ waits' = waits /\ handles' = handles /\ telling' = telling
    BY <1>8 DEF ApplyFails
  <2> QED
    BY <1>2, <1>3, <2>1, OneMoves DEF InLine, Steps
<1>9. ASSUME NEW c \in Commits, Finish(c) PROVE Goal
  <2>1. /\ step[c] = "telling" /\ step' = [step EXCEPT ![c] = "done"]
        /\ turn' = RemoveFirst(turn, c)
        /\ waits' = waits \ {c} /\ handles' = handles /\ telling' = telling /\ telling[c] = <<>>
    BY <1>9 DEF Finish
  <2> QED
    BY <1>2, <1>3, <2>1, OneMoves DEF InLine, Steps
<1>10. ASSUME NEW a \in Tellers, Tell(a) PROVE Goal
  <2>1. /\ step[a] = "telling" /\ step' = [step EXCEPT ![a] = "waking"] /\ turn' = turn
        /\ waits' = waits /\ handles' = handles
        /\ \A b \in Tellers \ {a} : telling'[b] = telling[b]
    BY <1>1, <1>10 DEF Tell
  <2> QED
    BY <1>2, <1>3, <2>1, OneMoves DEF InLine, Steps
<1>11. ASSUME NEW a \in Tellers, WakeReader(a) PROVE Goal
  <2>1. /\ step[a] = "waking" /\ step' = [step EXCEPT ![a] = "telling"] /\ turn' = turn
        /\ waits' = waits /\ handles' = handles /\ telling' = telling
    BY <1>11 DEF WakeReader
  <2> QED
    BY <1>2, <1>3, <2>1, OneMoves DEF InLine, Steps
<1>12. ASSUME Notice PROVE Goal
  <2>1. /\ step[Follower] = "new" /\ step' = [step EXCEPT ![Follower] = "waiting"]
        /\ turn' = Append(turn, Follower)
        /\ waits' = waits /\ handles' = handles /\ telling' = telling
    BY <1>12 DEF Notice
  <2>2. telling'[Follower] = <<>> /\ Follower \in Queuers /\ Follower \in Tellers
        /\ Follower # Supervisor /\ Follower \notin Commits
    BY <1>2, <2>1, TellersAre
  <2> QED
    BY <1>2, <2>1, <2>2, OneMoves DEF InLine, Steps
<1>13. ASSUME ReadLog \/ ReadLogFails PROVE Goal
  <2>1. /\ step[Follower] = "waiting" /\ step' = [step EXCEPT ![Follower] = "telling"]
        /\ turn' = turn /\ waits' = waits /\ handles' = handles /\ HasTurn(Follower)
        /\ \A b \in Tellers \ {Follower} : telling'[b] = telling[b]
    BY <1>1, <1>13 DEF ReadLog, ReadLogFails
  <2>2. Follower \in Tellers /\ Follower # Supervisor /\ Follower \notin Commits
    BY TellersAre
  <2> QED
    BY <1>2, <2>1, <2>2, OneMoves DEF InLine, Steps
<1>14. ASSUME Followed PROVE Goal
  <2>1. /\ step[Follower] = "telling" /\ step' = [step EXCEPT ![Follower] = "new"]
        /\ waits' = waits /\ handles' = handles /\ telling' = telling /\ telling[Follower] = <<>>
        /\ turn' = Tail(turn)
    BY <1>14 DEF Followed
  <2>2. Follower \in Queuers /\ Follower \in Tellers /\ Follower # Supervisor
        /\ Follower \notin Commits
    BY TellersAre
  <2>3. turn' = RemoveFirst(turn, Follower)
    BY <1>1, <1>2, <2>1, <2>2, GiveTurnBack
  <2> QED
    BY <1>2, <2>1, <2>2, <2>3, OneMoves DEF InLine, Steps
<1>15. ASSUME FollowerStops PROVE Goal
  <2>1. /\ step[Follower] \in {"new", "waiting"} /\ step' = [step EXCEPT ![Follower] = "done"]
        /\ turn' = RemoveFirst(turn, Follower)
        /\ waits' = waits /\ handles' = handles /\ telling' = telling
    BY <1>15 DEF FollowerStops
  <2>2. telling'[Follower] = <<>> /\ Follower \in Queuers /\ Follower \in Tellers
        /\ Follower # Supervisor /\ Follower \notin Commits
    BY <1>2, <2>1, TellersAre
  <2> QED
    BY <1>2, <2>1, <2>2, OneMoves DEF InLine, Steps
<1>16. ASSUME Supervised PROVE Goal
  <2>1. /\ step[Supervisor] = "telling" /\ step' = [step EXCEPT ![Supervisor] = "done"]
        /\ turn' = turn /\ waits' = waits /\ handles' = handles /\ telling' = telling
        /\ telling[Supervisor] = <<>>
    BY <1>16 DEF Supervised
  <2> QED
    BY <1>2, <2>1, TellersAre, OneMoves DEF InLine, Steps
<1>17. ASSUME DropInner PROVE Goal
  <2>1. /\ step[Inner] = "new" /\ step' = [step EXCEPT ![Inner] = "telling"]
        /\ turn' = turn /\ waits' = waits /\ handles' = handles
        /\ \A b \in Tellers \ {Inner} : telling'[b] = telling[b]
    BY <1>1, <1>17 DEF DropInner
  <2> QED
    BY <1>2, <2>1, TellersAre, OneMoves DEF InLine, Steps
<1>18. ASSUME InnerDropped PROVE Goal
  <2>1. /\ step[Inner] = "telling" /\ step' = [step EXCEPT ![Inner] = "done"]
        /\ turn' = turn /\ waits' = waits /\ handles' = handles /\ telling' = telling
        /\ telling[Inner] = <<>>
    BY <1>18 DEF InnerDropped
  <2> QED
    BY <1>2, <2>1, TellersAre, OneMoves DEF InLine, Steps
<1>19. ASSUME NEW r \in Requests, TheyCommit(r) PROVE Goal
  BY <1>19, NobodyMoves DEF TheyCommit
<1>20. ASSUME DropStore PROVE Goal
  BY <1>20, NobodyMoves DEF DropStore
<1>21. ASSUME NEW p \in Paths, ReadAgain(p) PROVE Goal
  BY <1>21, NobodyMoves DEF ReadAgain
<1>22. ASSUME Reading \/ UNCHANGED vars PROVE Goal
  BY <1>22, NobodyMoves DEF Reading, vars
<1>23. ASSUME FollowerPanics PROVE Goal
  BY <1>23, PanicMoves
<1> QED
  BY <1>4, <1>5, <1>6, <1>7, <1>8, <1>9, <1>10, <1>11, <1>12, <1>13, <1>14, <1>15, <1>16, <1>17,
     <1>18, <1>19, <1>20, <1>21, <1>22, <1>23
  DEF Next, Committing, Following, Ending

(* Every variable keeps its type.                                          *)
LEMMA Types ==
  ASSUME TypeOK, Places, [Next]_vars
  PROVE  TypeOK'
<1>1. FeedTypeOK' /\ Others' /\ step' \in [Tellers -> Steps] /\ Line'
  BY FeedTypes, OtherTypes, Moves
<1> QED
  BY <1>1 DEF TypeOK, Others, Line, Queuers, InLine

-----------------------------------------------------------------------------
(* The feed: what each step can do to it.                                  *)

LEMMA FeedSteps ==
  ASSUME [Next]_vars
  PROVE  \/ \E a \in Tellers : Tell(a) \/ WakeReader(a)
         \/ \E p \in Paths : ReadAgain(p)
         \/ Reading
         \/ UNCHANGED feedVars
<1>1. ASSUME NEW c \in Commits, Commit(c) \/ Cancel(c) \/ Committing(c) PROVE UNCHANGED feedVars
  BY <1>1 DEF Commit, Cancel, Committing, Start, Apply, ApplyFails, Finish
<1>2. ASSUME NEW r \in Requests, TheyCommit(r) PROVE UNCHANGED feedVars
  BY <1>2 DEF TheyCommit
<1>3. ASSUME Following \/ FollowerPanics \/ DropStore \/ Ending PROVE UNCHANGED feedVars
  BY <1>3 DEF Following, Notice, ReadLog, ReadLogFails, Followed, FollowerStops, FollowerPanics,
               DropStore, Ending, Supervised, DropInner, InnerDropped
<1>4. ASSUME UNCHANGED vars PROVE UNCHANGED feedVars
  BY <1>4 DEF vars
<1> QED
  BY <1>1, <1>2, <1>3, <1>4 DEF Next

(* What comes of telling: nothing where it isn't heard, Changes, a Resync,  *)
(* or the end.                                                              *)
LEMMA TellCases ==
  ASSUME TypeOK, NEW a \in Tellers, Tell(a)
  PROVE  /\ permit' = permit /\ reader' = reader /\ inHand' = inHand
         /\ step[a] = "telling" /\ step' = [step EXCEPT ![a] = "waking"]
         /\ \/ /\ unread' = unread
               /\ \/ telling[a][1].what = "changes" /\ (Blocked \/ unread.resync)
                  \/ telling[a][1].what = "missed" /\ Blocked
            \/ /\ telling[a][1].what = "changes" /\ ~Blocked /\ ~unread.resync
               /\ unread'.resync = unread.resync
               /\ unread'.storeDropped = unread.storeDropped
               /\ unread'.feedDropped = unread.feedDropped
               /\ unread'.merged = Recorded(telling[a][1].kinds, telling[a][1].origin)
            \/ /\ telling[a][1].what = "missed" /\ ~Blocked
               /\ unread'.resync
               /\ unread'.merged = Nothing
               /\ unread'.storeDropped = unread.storeDropped
               /\ unread'.feedDropped = unread.feedDropped
            \/ /\ telling[a][1].what = "end"
               /\ unread'.storeDropped
               /\ unread'.resync = unread.resync
               /\ unread'.merged = unread.merged
               /\ unread'.feedDropped = unread.feedDropped
<1>1. FeedTypeOK
  BY DEF TypeOK
<1>2. telling[a][1] \in Told
  BY TellIs
<1>3. /\ telling[a][1].what \in {"changes", "missed", "end"}
      /\ telling[a][1].kinds \in [Paths -> Kinds] /\ telling[a][1].origin \in Origins
  BY <1>2 DEF Told
<1>4. /\ permit' = permit /\ reader' = reader /\ inHand' = inHand
      /\ step[a] = "telling" /\ step' = [step EXCEPT ![a] = "waking"]
  BY DEF Tell
<1>5. CASE telling[a][1].what = "changes"
  <2>1. RecordChanges(telling[a][1].kinds, telling[a][1].origin)
    BY <1>5, TellIs
  <2> QED
    BY <1>1, <1>3, <1>4, <1>5, <2>1, ChangesRecorded
<1>6. CASE telling[a][1].what = "missed"
  <2>1. RecordResync
    BY <1>6, TellIs
  <2> QED
    BY <1>1, <1>4, <1>6, <2>1, ResyncRecorded
<1>7. CASE telling[a][1].what = "end"
  <2>1. RecordEnd
    BY <1>7, TellIs
  <2> QED
    BY <1>1, <1>4, <1>7, <2>1, EndRecorded
<1> QED
  BY <1>3, <1>5, <1>6, <1>7

(* A Store nobody holds stays so.                                          *)
LEMMA StaysClosed ==
  ASSUME TypeOK, Places, ~Held, [Next]_vars
  PROVE  ~Held'
<1>1. /\ handles = "dropped" /\ waits = {}
      /\ \A c \in Commits : step[c] \notin {"waiting", "started", "telling", "waking"}
  BY DEF Held, Places, TypeOK
<1>2. step \in [Tellers -> Steps]
  BY DEF TypeOK
<1>3. \A c \in Commits : c \in Tellers /\ c # Follower /\ c # Supervisor /\ c # Inner
  BY StoreAssumption DEF Tellers
<1> DEFINE Still == handles' = handles /\ \A c \in Commits : step'[c] = step[c]
<1>4. ASSUME NEW c \in Commits, Commit(c) \/ Cancel(c) \/ Committing(c) PROVE FALSE
  BY <1>1, <1>4 DEF Commit, Cancel, Committing, Start, Apply, ApplyFails, Finish
<1>5. ASSUME NEW a \in Tellers, Tell(a) \/ WakeReader(a) PROVE Still
  BY <1>1, <1>2, <1>3, <1>5 DEF Tell, WakeReader
<1>6. ASSUME Notice \/ ReadLog \/ ReadLogFails \/ Followed \/ FollowerStops PROVE Still
  BY <1>2, <1>3, <1>6 DEF Notice, ReadLog, ReadLogFails, Followed, FollowerStops
<1>7. ASSUME FollowerPanics PROVE Still
  BY <1>2, <1>3, <1>7 DEF FollowerPanics
<1>8. ASSUME Supervised \/ DropInner \/ InnerDropped PROVE Still
  BY <1>2, <1>3, <1>8 DEF Supervised, DropInner, InnerDropped
<1>9. ASSUME DropStore PROVE FALSE
  BY <1>1, <1>9 DEF DropStore
<1>10. ASSUME NEW r \in Requests, TheyCommit(r) PROVE Still
  BY <1>10 DEF TheyCommit
<1>11. ASSUME NEW p \in Paths, ReadAgain(p) PROVE Still
  BY <1>11 DEF ReadAgain
<1>12. ASSUME Reading \/ UNCHANGED vars PROVE Still
  BY <1>12 DEF Reading, vars
<1>13. Still
  BY <1>4, <1>5, <1>6, <1>7, <1>8, <1>9, <1>10, <1>11, <1>12 DEF Next, Following, Ending
<1> QED
  BY <1>1, <1>13 DEF Held

(* Inner is dropped once.                                                  *)
LEMMA InnerMoves ==
  ASSUME TypeOK, [Next]_vars
  PROVE  /\ step[Inner] # "new" => step'[Inner] # "new"
         /\ step'[Inner] # "new" => step[Inner] # "new" \/ DropInner
<1>1. step \in [Tellers -> Steps] /\ Inner \in Tellers /\ Inner # Follower /\ Inner # Supervisor
  BY TellersAre DEF TypeOK
<1>2. \A c \in Commits : c # Inner
  BY StoreAssumption
<1> DEFINE Still == step'[Inner] = step[Inner]
<1>3. ASSUME NEW c \in Commits, Commit(c) \/ Cancel(c) \/ Committing(c) PROVE Still
  BY <1>1, <1>2, <1>3 DEF Commit, Cancel, Committing, Start, Apply, ApplyFails, Finish
<1>4. ASSUME NEW a \in Tellers, Tell(a) \/ WakeReader(a)
      PROVE  step[Inner] # "new" <=> step'[Inner] # "new"
  BY <1>1, <1>4 DEF Tell, WakeReader
<1>5. ASSUME Notice \/ ReadLog \/ ReadLogFails \/ Followed \/ FollowerStops PROVE Still
  BY <1>1, <1>5 DEF Notice, ReadLog, ReadLogFails, Followed, FollowerStops
<1>6. ASSUME FollowerPanics PROVE Still
  BY <1>1, <1>6 DEF FollowerPanics
<1>7. ASSUME Supervised \/ DropStore PROVE Still
  BY <1>1, <1>7 DEF Supervised, DropStore
<1>8. ASSUME InnerDropped PROVE step[Inner] # "new" /\ step'[Inner] # "new"
  BY <1>1, <1>8 DEF InnerDropped
<1>9. ASSUME DropInner PROVE step[Inner] = "new"
  BY <1>9 DEF DropInner
<1>10. ASSUME NEW r \in Requests, TheyCommit(r) PROVE Still
  BY <1>10 DEF TheyCommit
<1>11. ASSUME NEW p \in Paths, ReadAgain(p) PROVE Still
  BY <1>11 DEF ReadAgain
<1>12. ASSUME Reading \/ UNCHANGED vars PROVE Still
  BY <1>12 DEF Reading, vars
<1> QED
  BY <1>3, <1>4, <1>5, <1>6, <1>7, <1>8, <1>9, <1>10, <1>11, <1>12 DEF Next, Following, Ending

(* Whoever is about to wake the reader does so next.                       *)
LEMMA StillWaking ==
  ASSUME TypeOK, Places, [Next]_vars, NEW a \in Tellers, step[a] = "waking", ~WakeReader(a)
  PROVE  step'[a] = "waking"
<1>1. step \in [Tellers -> Steps]
  BY DEF TypeOK
<1>2. ASSUME NEW c \in Commits, Commit(c) \/ Cancel(c) \/ Committing(c) PROVE step'[a] = step[a]
  BY <1>1, <1>2, TellersAre DEF Commit, Cancel, Committing, Start, Apply, ApplyFails, Finish
<1>3. ASSUME NEW b \in Tellers, Tell(b) \/ WakeReader(b) PROVE step'[a] = step[a]
  BY <1>1, <1>3 DEF Tell, WakeReader
<1>4. ASSUME Notice \/ ReadLog \/ ReadLogFails \/ Followed \/ FollowerStops
      PROVE  step'[a] = step[a]
  BY <1>1, <1>4 DEF Notice, ReadLog, ReadLogFails, Followed, FollowerStops
<1>5. ASSUME FollowerPanics PROVE step'[a] = step[a]
  <2>1. step[Supervisor] = "new" /\ step[Follower] # "waking"
    BY <1>5 DEF Places, FollowerPanics
  <2> QED
    BY <1>1, <1>5, <2>1 DEF FollowerPanics
<1>6. ASSUME Supervised \/ DropInner \/ InnerDropped \/ DropStore PROVE step'[a] = step[a]
  BY <1>1, <1>6 DEF Supervised, DropInner, InnerDropped, DropStore
<1>7. ASSUME NEW r \in Requests, TheyCommit(r) PROVE step'[a] = step[a]
  BY <1>7 DEF TheyCommit
<1>8. ASSUME NEW p \in Paths, ReadAgain(p) PROVE step'[a] = step[a]
  BY <1>8 DEF ReadAgain
<1>9. ASSUME Reading \/ UNCHANGED vars PROVE step'[a] = step[a]
  BY <1>9 DEF Reading, vars
<1> QED
  BY <1>2, <1>3, <1>4, <1>5, <1>6, <1>7, <1>8, <1>9 DEF Next, Following, Ending

LEMMA StaysAwake ==
  ASSUME TypeOK, Places, Awake, [Next]_vars
  PROVE  Awake'
<1>1. FeedTypeOK /\ step \in [Tellers -> Steps]
  BY DEF TypeOK
<1>2. ASSUME NEW a \in Tellers, Tell(a) PROVE Awake'
  <2>1. step'[a] = "waking"
    BY <1>1, <1>2 DEF Tell
  <2> QED
    BY <2>1 DEF Awake
<1>3. ASSUME NEW a \in Tellers, WakeReader(a) PROVE Awake'
  BY <1>3 DEF WakeReader, NotifyOne, Awake
<1>4. ASSUME Look PROVE Awake'
  <2>1. /\ ~unread'.resync /\ unread'.merged = Nothing
        /\ unread'.storeDropped = unread.storeDropped
    BY <1>1, <1>4, ReadAll DEF Look
  <2>2. reader' \in {"app", "ended"} \/ ~unread.storeDropped
    BY <1>4 DEF Look
  <2>3. ASSUME ToHave' PROVE unread'.storeDropped
    BY <2>1, <2>3 DEF ToHave, Nothing
  <2>4. reader' \in {"app", "ended"} \/ ~ToHave'
    BY <2>1, <2>2, <2>3
  <2> QED
    BY <2>4 DEF Awake
<1>5. ASSUME Wait, UNCHANGED step PROVE Awake'
  BY <1>1, <1>5 DEF Wait, Awake, ToHave, Nothing
<1>6. ASSUME CallNext \/ Wake \/ CancelNext PROVE Awake'
  BY <1>6 DEF CallNext, Wake, CancelNext, Awake
<1>7. ASSUME DropFeed PROVE Awake'
  BY <1>7 DEF DropFeed, Awake
<1>8. ASSUME NEW p \in Paths, ReadAgain(p) PROVE Awake'
  BY <1>8 DEF ReadAgain, Awake
<1>9. ASSUME UNCHANGED feedVars PROVE Awake'
  <2>1. CASE \E a \in Tellers : step[a] = "waking"
    <3>1. PICK a \in Tellers : step[a] = "waking"
      BY <2>1
    <3>2. CASE WakeReader(a)
      BY <3>2, <1>3
    <3>3. CASE ~WakeReader(a)
      BY <3>1, <3>3, StillWaking DEF Awake
    <3> QED
      BY <3>2, <3>3
  <2>2. CASE ~\E a \in Tellers : step[a] = "waking"
    <3>1. unread' = unread /\ permit' = permit /\ reader' = reader
      BY <1>9 DEF feedVars
    <3>2. ToHave' = ToHave
      BY <3>1 DEF ToHave, Nothing
    <3> QED
      BY <2>2, <3>1, <3>2 DEF Awake
  <2> QED
    BY <2>1, <2>2
<1>10. ASSUME Reading PROVE Awake'
  BY <1>4, <1>5, <1>6, <1>7, <1>10 DEF Reading
<1> QED
  BY <1>2, <1>3, <1>8, <1>9, <1>10, FeedSteps

LEMMA StaysCovered ==
  ASSUME TypeOK, Covering, [Next]_vars
  PROVE  Covering'
<1>1. FeedTypeOK
  BY DEF TypeOK
<1>2. ASSUME NEW a \in Tellers, Tell(a) PROVE Covering'
  <2>1. unread'.resync \/ unread'.feedDropped => unread'.merged = Nothing
    BY <1>2, TellCases DEF Covering, Blocked
  <2>2. reader' = reader /\ inHand' = inHand
    BY <1>2, TellCases
  <2> QED
    BY <2>1, <2>2 DEF Covering, Nothing
<1>3. ASSUME NEW a \in Tellers, WakeReader(a) PROVE Covering'
  BY <1>3 DEF WakeReader, NotifyOne, Covering, Nothing
<1>4. ASSUME Look PROVE Covering'
  <2>1. unread'.merged = Nothing
    BY <1>1, <1>4, ReadAll DEF Look
  <2>2. reader' # "app" => inHand' = inHand /\ reader # "app"
    BY <1>4 DEF Look
  <2> QED
    BY <2>1, <2>2 DEF Covering, Nothing
<1>5. ASSUME CallNext \/ Wait \/ Wake \/ CancelNext PROVE Covering'
  BY <1>5 DEF CallNext, Wait, Wake, CancelNext, Covering, Nothing
<1>6. ASSUME DropFeed PROVE Covering'
  <2>1. unread'.merged = Nothing
    BY <1>1, <1>6, FeedIsDropped
  <2>2. \A p \in Paths : inHand'[p] = "nothing"
    BY <1>6 DEF DropFeed
  <2> QED
    BY <2>1, <2>2 DEF Covering, Nothing
<1>7. ASSUME NEW p \in Paths, ReadAgain(p) PROVE Covering'
  BY <1>7 DEF ReadAgain, Covering, Nothing
<1>8. ASSUME UNCHANGED feedVars PROVE Covering'
  BY <1>8 DEF feedVars, Covering, Nothing
<1> QED
  BY <1>2, <1>3, <1>4, <1>5, <1>6, <1>7, <1>8, FeedSteps DEF Reading

-----------------------------------------------------------------------------
(* The end of the feed.                                                    *)

Data == <<unread, inHand, there, log, telling, ours, foreign>>

(* The steps that change what is there, what is told, or what was heard.   *)
LEMMA DataSteps ==
  ASSUME [Next]_vars
  PROVE  \/ \E c \in Commits, r \in Requests : Apply(c, r)
         \/ ReadLog \/ ReadLogFails \/ FollowerPanics \/ FollowerStops \/ DropInner
         \/ \E r \in Requests : TheyCommit(r)
         \/ \E a \in Tellers : Tell(a)
         \/ (Look \/ DropFeed) /\ UNCHANGED <<there, log, telling, ours, foreign, step>>
         \/ \E p \in Paths : ReadAgain(p)
         \/ UNCHANGED Data
<1>1. ASSUME NEW c \in Commits, Commit(c) \/ Cancel(c) \/ Start(c) \/ ApplyFails(c) \/ Finish(c)
      PROVE  UNCHANGED Data
  BY <1>1 DEF Commit, Cancel, Start, ApplyFails, Finish, Data, feedVars
<1>2. ASSUME NEW a \in Tellers, WakeReader(a) PROVE UNCHANGED Data
  BY <1>2 DEF WakeReader, Data
<1>3. ASSUME Notice \/ Followed \/ DropStore \/ Supervised \/ InnerDropped PROVE UNCHANGED Data
  BY <1>3 DEF Notice, Followed, DropStore, Supervised, InnerDropped, Data, feedVars
<1>4. ASSUME Reading
      PROVE  \/ (Look \/ DropFeed) /\ UNCHANGED <<there, log, telling, ours, foreign, step>>
             \/ UNCHANGED Data
  BY <1>4 DEF Reading, CallNext, Wait, Wake, CancelNext, Data
<1>5. ASSUME UNCHANGED vars PROVE UNCHANGED Data
  BY <1>5 DEF vars, feedVars, Data
<1> QED
  BY <1>1, <1>2, <1>3, <1>4, <1>5 DEF Next, Committing, Following, Ending

(* A Commit, and the Follower, have Changes to tell.                       *)
LEMMA OutcomeSays ==
  ASSUME log \in Seq([Paths -> Kinds]), NEW kinds \in [Paths -> Kinds],
         NEW n \in DOMAIN Outcome(kinds)
  PROVE  /\ n \in Nat
         /\ Outcome(kinds)[n].what = "changes"
         /\ \/ n \in DOMAIN log /\ Outcome(kinds)[n] = Changes(log[n], "external")
            \/ /\ n = Len(log) + 1 /\ Changed(kinds) # {}
               /\ Outcome(kinds)[n] = Changes(kinds, "local")
<1>1. Len(log) \in Nat /\ DOMAIN log = 1..Len(log)
  OBVIOUS
<1>2. n \in Nat /\ (n \in DOMAIN log \/ (n = Len(log) + 1 /\ Changed(kinds) # {}))
  BY <1>1, OutcomeIs
<1>3. CASE n \in DOMAIN log
  <2>1. Outcome(kinds)[n] = Changes(log[n], "external")
    BY <1>3, OutcomeIs
  <2> QED
    BY <1>2, <1>3, <2>1 DEF Changes
<1>4. CASE n = Len(log) + 1 /\ Changed(kinds) # {}
  <2>1. Outcome(kinds)[n] = Changes(kinds, "local")
    BY <1>4, OutcomeIs
  <2> QED
    BY <1>2, <1>4, <2>1 DEF Changes
<1> QED
  BY <1>2, <1>3, <1>4

(* What is left to tell was to be told, and what was is left or told now.  *)
LEMMA TellLeaves ==
  ASSUME TypeOK, NEW a \in Tellers, Tell(a), NEW b \in Tellers
  PROVE  /\ \A n \in DOMAIN telling'[b] : \E m \in DOMAIN telling[b] :
              telling'[b][n] = telling[b][m]
         /\ \A m \in DOMAIN telling[b] :
              \/ b = a /\ m = 1
              \/ \E n \in DOMAIN telling'[b] : telling'[b][n] = telling[b][m]
<1>1. CASE b # a
  BY <1>1, TellIs
<1>2. CASE b = a
  <2>1. telling'[a] = Tail(telling[a]) /\ telling[a] \in Seq(Told) /\ telling[a] # <<>>
    BY TellIs
  <2>2. /\ \A n \in DOMAIN Tail(telling[a]) :
             n + 1 \in DOMAIN telling[a] /\ Tail(telling[a])[n] = telling[a][n + 1]
        /\ \A n \in DOMAIN telling[a] :
             n # 1 => n - 1 \in DOMAIN Tail(telling[a]) /\ Tail(telling[a])[n - 1] = telling[a][n]
    BY <2>1, TailIs
  <2> QED
    BY <1>2, <2>1, <2>2, SMTT(20)
<1> QED
  BY <1>1, <1>2

LEMMA EndIsInners ==
  ASSUME TypeOK, Closing, [Next]_vars
  PROVE  \A a \in Tellers : \A n \in DOMAIN telling'[a] :
           /\ telling'[a][n].what = "end" => a = Inner
           /\ telling'[a][n].what = "changes" => a \in Queuers
<1>1. /\ telling \in [Tellers -> Seq(Told)] /\ log \in Seq([Paths -> Kinds])
      /\ \A a \in Tellers : \A n \in DOMAIN telling[a] :
           /\ telling[a][n].what = "end" => a = Inner
           /\ telling[a][n].what = "changes" => a \in Queuers
  BY DEF TypeOK, Closing
<1>2. Missed.what = "missed" /\ End.what = "end"
  BY DEF Missed, End
<1> SUFFICES ASSUME NEW a \in Tellers, NEW n \in DOMAIN telling'[a],
                    \/ telling'[a][n].what = "end" /\ a # Inner
                    \/ telling'[a][n].what = "changes" /\ a \notin Queuers
             PROVE  FALSE
  OBVIOUS
<1>3. CASE telling'[a] = telling[a]
  BY <1>1, <1>3
<1>4. ASSUME NEW c \in Commits, NEW r \in Requests, Apply(c, r) PROVE FALSE
  <2> DEFINE kinds == Kind(r, there)
  <2>1. kinds \in [Paths -> Kinds]
    BY KindType
  <2>2. telling' = [telling EXCEPT ![c] = Outcome(kinds)]
    BY <1>4 DEF Apply
  <2> HIDE DEF kinds
  <2>3. telling'[a] = telling[a] \/ (telling'[a] = Outcome(kinds) /\ a \in Queuers)
    BY <1>1, <2>2, TellersAre
  <2>4. \A m \in DOMAIN Outcome(kinds) : Outcome(kinds)[m].what = "changes"
    BY <1>1, <2>1, OutcomeSays
  <2> QED
    BY <1>3, <2>3, <2>4
<1>5. ASSUME ReadLog PROVE FALSE
  <2> DEFINE kinds == [p \in Paths |-> "none"]
  <2>1. kinds \in [Paths -> Kinds]
    BY NoneType
  <2>2. telling' = [telling EXCEPT ![Follower] = Outcome(kinds)]
    BY <1>5 DEF ReadLog
  <2> HIDE DEF kinds
  <2>3. telling'[a] = telling[a] \/ (telling'[a] = Outcome(kinds) /\ a \in Queuers)
    BY <1>1, <2>2, TellersAre
  <2>4. \A m \in DOMAIN Outcome(kinds) : Outcome(kinds)[m].what = "changes"
    BY <1>1, <2>1, OutcomeSays
  <2> QED
    BY <1>3, <2>3, <2>4
<1>6. ASSUME ReadLogFails \/ FollowerPanics PROVE FALSE
  <2>1. telling'[a] = telling[a] \/ telling'[a] = <<>> \/ telling'[a] = <<Missed>>
    BY <1>1, <1>6 DEF ReadLogFails, FollowerPanics
  <2> QED
    BY <1>2, <1>3, <2>1
<1>7. ASSUME DropInner PROVE FALSE
  <2>1. telling'[a] = telling[a] \/ (telling'[a] = <<End>> /\ a = Inner)
    BY <1>1, <1>7 DEF DropInner
  <2> QED
    BY <1>2, <1>3, <2>1
<1>8. ASSUME NEW b \in Tellers, Tell(b) PROVE FALSE
  <2>1. PICK m \in DOMAIN telling[a] : telling'[a][n] = telling[a][m]
    BY <1>8, TellLeaves
  <2> QED
    BY <1>1, <2>1
<1>9. ASSUME FollowerStops \/ UNCHANGED telling PROVE FALSE
  BY <1>3, <1>9 DEF FollowerStops
<1>10. ASSUME NEW r \in Requests, TheyCommit(r) PROVE FALSE
  BY <1>9, <1>10 DEF TheyCommit
<1>11. ASSUME NEW p \in Paths, ReadAgain(p) PROVE FALSE
  BY <1>9, <1>11 DEF ReadAgain
<1> QED
  BY <1>4, <1>5, <1>6, <1>7, <1>8, <1>9, <1>10, <1>11, DataSteps DEF Data

LEMMA StaysClosing ==
  ASSUME TypeOK, Places, Closing, [Next]_vars
  PROVE  Closing'
<1>1. FeedTypeOK /\ step \in [Tellers -> Steps]
  BY DEF TypeOK
<1>2. /\ unread.storeDropped => step[Inner] # "new"
      /\ step[Inner] # "new" => ~Held
      /\ \A a \in Tellers : \A n \in DOMAIN telling[a] :
           /\ telling[a][n].what = "end" => a = Inner
           /\ telling[a][n].what = "changes" => a \in Queuers
      /\ reader = "ended" => unread.storeDropped /\ ~unread.resync /\ unread.merged = Nothing
  BY DEF Closing
<1>3. unread'.storeDropped => step'[Inner] # "new"
  <2>1. ASSUME NEW a \in Tellers, Tell(a), unread'.storeDropped PROVE step'[Inner] # "new"
    <3>1. CASE unread.storeDropped
      BY <1>2, <3>1, InnerMoves
    <3>2. CASE ~unread.storeDropped
      <4>1. telling[a][1].what = "end" /\ 1 \in DOMAIN telling[a]
        BY <2>1, <3>2, TellCases, TellIs
      <4>2. a = Inner
        BY <1>2, <4>1
      <4> QED
        BY <1>1, <2>1, <4>2 DEF Tell
    <3> QED
      BY <3>1, <3>2
  <2>2. ASSUME Look \/ DropFeed PROVE unread'.storeDropped = unread.storeDropped
    BY <1>1, <2>2, ReadAll, FeedIsDropped DEF Look
  <2>3. ASSUME CallNext \/ Wait \/ Wake \/ CancelNext \/ UNCHANGED feedVars
        PROVE  unread' = unread
    BY <2>3 DEF CallNext, Wait, Wake, CancelNext, feedVars
  <2>4. ASSUME NEW a \in Tellers, WakeReader(a) PROVE unread' = unread
    BY <2>4 DEF WakeReader
  <2>5. ASSUME NEW p \in Paths, ReadAgain(p) PROVE unread' = unread
    BY <2>5 DEF ReadAgain
  <2> QED
    BY <1>2, <2>1, <2>2, <2>3, <2>4, <2>5, FeedSteps, InnerMoves DEF Reading
<1>4. step'[Inner] # "new" => ~Held'
  <2>1. ASSUME DropInner PROVE ~Held
    BY <2>1 DEF DropInner
  <2> QED
    BY <1>2, <2>1, InnerMoves, StaysClosed
<1>5. ASSUME reader' = "ended"
      PROVE  unread'.storeDropped /\ ~unread'.resync /\ unread'.merged = Nothing
  <2>1. ASSUME NEW a \in Tellers, Tell(a)
        PROVE  unread'.storeDropped /\ ~unread'.resync /\ unread'.merged = Nothing
    <3>1. reader = "ended"
      BY <1>5, <2>1, TellCases
    <3> QED
      BY <1>2, <2>1, <3>1, TellCases DEF Blocked
  <2>2. ASSUME Look PROVE unread'.storeDropped /\ ~unread'.resync /\ unread'.merged = Nothing
    <3>1. unread.storeDropped
      BY <1>5, <2>2 DEF Look
    <3> QED
      BY <1>1, <2>2, <3>1, ReadAll DEF Look
  <2>3. ASSUME DropFeed PROVE unread'.storeDropped /\ ~unread'.resync /\ unread'.merged = Nothing
    <3>1. reader = "ended"
      BY <1>5, <2>3 DEF DropFeed
    <3> QED
      BY <1>1, <1>2, <2>3, <3>1, FeedIsDropped
  <2>4. ASSUME CallNext \/ Wait \/ Wake \/ CancelNext PROVE FALSE
    BY <1>5, <2>4 DEF CallNext, Wait, Wake, CancelNext
  <2>5. ASSUME NEW a \in Tellers, WakeReader(a) PROVE unread' = unread /\ reader = "ended"
    BY <1>5, <2>5 DEF WakeReader, NotifyOne
  <2>6. ASSUME NEW p \in Paths, ReadAgain(p) PROVE FALSE
    BY <1>5, <2>6 DEF ReadAgain
  <2>7. ASSUME UNCHANGED feedVars PROVE unread' = unread /\ reader = "ended"
    BY <1>5, <2>7 DEF feedVars
  <2> QED
    BY <1>2, <2>1, <2>2, <2>3, <2>4, <2>5, <2>6, <2>7, FeedSteps DEF Reading
<1>6. \A a \in Tellers : \A n \in DOMAIN telling'[a] :
        /\ telling'[a][n].what = "end" => a = Inner
        /\ telling'[a][n].what = "changes" => a \in Queuers
  BY EndIsInners
<1> QED
  BY <1>3, <1>4, <1>5, <1>6 DEF Closing, Nothing, Queuers

-----------------------------------------------------------------------------
(* What this Store changed is on its way.                                  *)

LEMMA FeedDroppedIs ==
  ASSUME TypeOK, [Next]_vars
  PROVE  unread.feedDropped => unread'.feedDropped
<1>1. FeedTypeOK
  BY DEF TypeOK
<1>2. ASSUME NEW a \in Tellers, Tell(a) PROVE unread'.feedDropped = unread.feedDropped
  BY <1>2, TellCases
<1>3. ASSUME Look \/ DropFeed PROVE unread.feedDropped => unread'.feedDropped
  BY <1>1, <1>3, ReadAll, FeedIsDropped DEF Look
<1>4. ASSUME CallNext \/ Wait \/ Wake \/ CancelNext \/ UNCHANGED feedVars PROVE unread' = unread
  BY <1>4 DEF CallNext, Wait, Wake, CancelNext, feedVars
<1>5. ASSUME NEW a \in Tellers, WakeReader(a) PROVE unread' = unread
  BY <1>5 DEF WakeReader
<1>6. ASSUME NEW p \in Paths, ReadAgain(p) PROVE unread' = unread
  BY <1>6 DEF ReadAgain
<1> QED
  BY <1>2, <1>3, <1>4, <1>5, <1>6, FeedSteps DEF Reading

(* What is in hand after the reader looked.                                *)
LEMMA LookIs ==
  ASSUME TypeOK, Covering, Look, NEW p \in Paths
  PROVE  /\ inHand[p] = "nothing"
         /\ unread.resync => inHand'[p] = "external"
         /\ ~unread.resync /\ unread.merged[p].kind # "none" =>
              inHand'[p] = unread.merged[p].origin
         /\ unread.merged[p].origin \in Origins
<1>1. reader = "looking"
  BY DEF Look
<1>2. inHand[p] = "nothing"
  BY <1>1 DEF Covering
<1>3. unread.merged[p].origin \in Origins
  BY DEF TypeOK, FeedTypeOK, Unread
<1>4. ASSUME ~unread.resync, unread.merged[p].kind # "none"
      PROVE  inHand'[p] = unread.merged[p].origin
  <2>1. unread.merged # Nothing
    BY <1>4, NothingIs
  <2> QED
    BY <1>4, <2>1 DEF Look
<1>5. unread.resync => inHand'[p] = "external"
  BY DEF Look
<1> QED
  BY <1>2, <1>3, <1>4, <1>5

LEMMA TellOwn ==
  ASSUME TypeOK, Closing, ~unread.feedDropped, NEW a \in Tellers, Tell(a), NEW p \in Paths,
         OwnOnItsWay(p)
  PROVE  OwnOnItsWay(p)'
<1> DEFINE t == telling[a][1]
<1>1. /\ t.kinds \in [Paths -> Kinds] /\ t.origin \in Origins
      /\ t.what \in {"changes", "missed", "end"}
  BY TellIs DEF Told
<1>2. FeedTypeOK
  BY DEF TypeOK
<1>3. inHand' = inHand
  BY TellCases
<1>4. CASE unread.resync
  <2>1. unread'.resync
    BY <1>4, TellCases
  <2> QED
    BY <2>1 DEF OwnOnItsWay
<1>5. CASE unread.merged[p].kind # "none"
  <2>1. unread'.resync \/ unread'.merged = unread.merged
          \/ unread'.merged = Recorded(t.kinds, t.origin)
    BY TellCases
  <2>2. Recorded(t.kinds, t.origin)[p].kind # "none"
    <3> HIDE DEF t
    <3> QED
      BY <1>1, <1>2, <1>5, RecordedKeeps
  <2>3. unread'.resync \/ unread'.merged[p].kind # "none"
    BY <1>5, <2>1, <2>2
  <2> QED
    BY <2>3 DEF OwnOnItsWay
<1>6. CASE inHand[p] # "nothing"
  BY <1>3, <1>6 DEF OwnOnItsWay
<1>7. ASSUME NEW c \in Commits, NEW m \in DOMAIN telling[c], telling[c][m].kinds[p] # "none"
      PROVE  OwnOnItsWay(p)'
  <2>1. c \in Tellers
    BY TellersAre
  <2>2. ASSUME NEW n \in DOMAIN telling'[c], telling'[c][n] = telling[c][m]
        PROVE  OwnOnItsWay(p)'
    BY <1>7, <2>2 DEF OwnOnItsWay
  <2>3. CASE c = a /\ m = 1
    <3>1. Held
      BY <2>3 DEF Tell, Held
    <3>2. ~Blocked
      BY <3>1 DEF Blocked, Closing
    <3>3. t.what # "end"
      <4>1. c # Inner /\ 1 \in DOMAIN telling[a]
        BY TellIs, StoreAssumption
      <4> QED
        BY <2>3, <4>1 DEF Closing
    <3>4. unread'.resync \/ unread'.merged = Recorded(t.kinds, t.origin)
      BY <1>1, <3>2, <3>3, TellCases
    <3>5. Recorded(t.kinds, t.origin)[p].kind # "none"
      BY <1>1, <1>2, <1>7, <2>3, RecordedIs
    <3>6. unread'.resync \/ unread'.merged[p].kind # "none"
      BY <3>4, <3>5
    <3> QED
      BY <3>6 DEF OwnOnItsWay
  <2> QED
    BY <2>1, <2>2, <2>3, TellLeaves
<1> QED
  BY <1>4, <1>5, <1>6, <1>7 DEF OwnOnItsWay

LEMMA OursStayComing ==
  ASSUME TypeOK, Places, Closing, Covering, OursComing, [Next]_vars
  PROVE  OursComing'
<1>1. /\ telling \in [Tellers -> Seq(Told)] /\ log \in Seq([Paths -> Kinds]) /\ ours \subseteq Paths
      /\ ours' \subseteq Paths
  BY Types DEF TypeOK
<1>2. \A c \in Commits : c \in Tellers /\ c # Follower /\ c # Supervisor /\ c # Inner
  BY StoreAssumption DEF Tellers
<1> SUFFICES ASSUME ~unread'.feedDropped, NEW p \in ours' PROVE OwnOnItsWay(p)'
  BY DEF OursComing
<1>3. ~unread.feedDropped /\ p \in Paths /\ \A q \in ours : OwnOnItsWay(q)
  BY <1>1, FeedDroppedIs DEF OursComing
<1>4. ASSUME p \in ours, unread' = unread, inHand'[p] = inHand[p],
             \A c \in Commits : telling'[c] = telling[c]
      PROVE  OwnOnItsWay(p)'
  BY <1>3, <1>4 DEF OwnOnItsWay
<1>5. ASSUME NEW c \in Commits, NEW r \in Requests, Apply(c, r) PROVE OwnOnItsWay(p)'
  <2> DEFINE kinds == Kind(r, there)
  <2>1. kinds \in [Paths -> Kinds]
    BY KindType
  <2>2. /\ telling' = [telling EXCEPT ![c] = Outcome(kinds)] /\ ours' = ours \cup Changed(kinds)
        /\ step[c] = "started" /\ unread' = unread /\ inHand' = inHand
    BY <1>5 DEF Apply, feedVars
  <2> HIDE DEF kinds
  <2>3. telling'[c] = Outcome(kinds) /\ \A b \in Tellers \ {c} : telling'[b] = telling[b]
    BY <1>1, <1>2, <2>2
  <2>4. CASE p \in Changed(kinds)
    <3>1. /\ Len(log) + 1 \in DOMAIN Outcome(kinds)
          /\ Outcome(kinds)[Len(log) + 1] = Changes(kinds, "local")
      <4>1. Changed(kinds) # {} /\ Len(log) \in Nat
        BY <1>1, <2>4
      <4> QED
        BY <1>1, <2>1, <4>1, OutcomeIs
    <3>2. Outcome(kinds)[Len(log) + 1].kinds[p] # "none"
      BY <2>4, <3>1 DEF Changes, Changed
    <3> QED
      BY <2>3, <3>1, <3>2 DEF OwnOnItsWay
  <2>5. CASE p \in ours
    <3>1. telling[c] = <<>>
      BY <1>2, <2>2 DEF Places
    <3>2. OwnOnItsWay(p)
      BY <1>3, <2>5
    <3>3. CASE unread.resync \/ unread.merged[p].kind # "none" \/ inHand[p] # "nothing"
      BY <2>2, <3>3 DEF OwnOnItsWay
    <3>4. ASSUME NEW b \in Commits, NEW n \in DOMAIN telling[b], telling[b][n].kinds[p] # "none"
          PROVE  OwnOnItsWay(p)'
      <4>1. b # c
        BY <3>1, <3>4
      <4>2. telling'[b] = telling[b]
        BY <1>2, <2>3, <4>1
      <4> QED
        BY <3>4, <4>2 DEF OwnOnItsWay
    <3> QED
      BY <3>2, <3>3, <3>4 DEF OwnOnItsWay
  <2> QED
    BY <2>2, <2>4, <2>5
<1>6. ASSUME ReadLog \/ ReadLogFails \/ FollowerPanics \/ FollowerStops \/ DropInner
      PROVE  OwnOnItsWay(p)'
  <2>1. /\ unread' = unread /\ inHand' = inHand /\ ours' = ours
        /\ \A c \in Commits : telling'[c] = telling[c]
    BY <1>1, <1>2, <1>6 DEF ReadLog, ReadLogFails, FollowerPanics, FollowerStops, DropInner, feedVars
  <2> QED
    BY <1>4, <2>1
<1>7. ASSUME NEW r \in Requests, TheyCommit(r) PROVE OwnOnItsWay(p)'
  BY <1>4, <1>7 DEF TheyCommit, feedVars
<1>8. ASSUME NEW a \in Tellers, Tell(a) PROVE OwnOnItsWay(p)'
  <2>1. ours' = ours
    BY <1>8 DEF Tell
  <2> QED
    BY <1>3, <1>8, <2>1, TellOwn
<1>9. ASSUME Look, UNCHANGED <<telling, ours>> PROVE OwnOnItsWay(p)'
  <2>1. OwnOnItsWay(p)
    BY <1>3, <1>9
  <2>2. inHand[p] = "nothing" /\ "nothing" \notin Origins
    BY <1>3, <1>9, LookIs DEF Origins
  <2>3. CASE unread.resync \/ unread.merged[p].kind # "none"
    <3>1. inHand'[p] # "nothing"
      BY <1>3, <1>9, <2>2, <2>3, LookIs
    <3> QED
      BY <3>1 DEF OwnOnItsWay
  <2>4. CASE \E c \in Commits : \E n \in DOMAIN telling[c] : telling[c][n].kinds[p] # "none"
    <3>1. telling' = telling
      BY <1>9
    <3> QED
      BY <2>4, <3>1 DEF OwnOnItsWay
  <2> QED
    BY <2>1, <2>2, <2>3, <2>4 DEF OwnOnItsWay
<1>10. ASSUME DropFeed PROVE FALSE
  <2>1. unread'.feedDropped
    BY <1>10, FeedIsDropped DEF TypeOK
  <2> QED
    BY <2>1
<1>11. ASSUME NEW q \in Paths, ReadAgain(q) PROVE OwnOnItsWay(p)'
  <2>1. /\ ours' = ours \ {q} /\ unread' = unread /\ telling' = telling
        /\ inHand' = [inHand EXCEPT ![q] = "nothing"]
    BY <1>11 DEF ReadAgain
  <2>2. p \in ours /\ p # q
    BY <2>1
  <2>3. inHand'[p] = inHand[p]
    BY <1>3, <2>1, <2>2 DEF TypeOK, FeedTypeOK
  <2> QED
    BY <1>4, <2>1, <2>2, <2>3
<1>12. ASSUME UNCHANGED Data PROVE OwnOnItsWay(p)'
  BY <1>4, <1>12 DEF Data
<1> QED
  BY <1>5, <1>6, <1>7, <1>8, <1>9, <1>10, <1>11, <1>12, DataSteps

-----------------------------------------------------------------------------
(* What others changed is on its way.                                      *)

LEMMA TellForeign ==
  ASSUME TypeOK, Closing, ~unread.feedDropped, step[Inner] = "new",
         NEW a \in Tellers, Tell(a), NEW p \in Paths, OnItsWay(p, {"external"})
  PROVE  OnItsWay(p, {"external"})'
<1> DEFINE t == telling[a][1]
<1>1. /\ t.kinds \in [Paths -> Kinds] /\ t.origin \in Origins
      /\ t.what \in {"changes", "missed", "end"}
      /\ 1 \in DOMAIN telling[a]
  BY TellIs DEF Told
<1>2. FeedTypeOK
  BY DEF TypeOK
<1>3. inHand' = inHand /\ ~Blocked
  BY TellCases DEF Blocked, Closing
<1>4. t.what # "end"
  <2>1. a # Inner
    BY DEF Tell
  <2> QED
    BY <1>1, <2>1 DEF Closing
<1>5. \/ unread'.resync
      \/ unread'.merged = Recorded(t.kinds, t.origin)
  BY <1>1, <1>3, <1>4, TellCases
<1>6. CASE unread.resync
  <2>1. unread'.resync
    BY <1>6, TellCases
  <2> QED
    BY <2>1 DEF OnItsWay
<1>7. CASE unread.merged[p].kind # "none" /\ unread.merged[p].origin = "external"
  <2>1. /\ Recorded(t.kinds, t.origin)[p].kind # "none"
        /\ Recorded(t.kinds, t.origin)[p].origin = "external"
    <3> HIDE DEF t
    <3> QED
      BY <1>1, <1>2, <1>7, RecordedKeeps
  <2>2. \/ unread'.resync
        \/ unread'.merged[p].kind # "none" /\ unread'.merged[p].origin = "external"
    BY <1>5, <2>1
  <2> QED
    BY <2>2 DEF OnItsWay
<1>8. CASE inHand[p] \in {"external"}
  BY <1>3, <1>8 DEF OnItsWay
<1>9. ASSUME NEW b \in Tellers, NEW m \in DOMAIN telling[b],
             \/ telling[b][m].what = "missed"
             \/ telling[b][m].kinds[p] # "none" /\ telling[b][m].origin \in {"external"}
      PROVE  OnItsWay(p, {"external"})'
  <2>1. ASSUME NEW n \in DOMAIN telling'[b], telling'[b][n] = telling[b][m]
        PROVE  OnItsWay(p, {"external"})'
    <3>1. ToBeTold(p, {"external"})'
      BY <1>9, <2>1 DEF ToBeTold
    <3> QED
      BY <3>1 DEF OnItsWay
  <2>2. CASE b = a /\ m = 1
    <3>1. CASE t.what = "missed"
      <4>1. unread'.resync
        BY <1>3, <3>1, TellCases
      <4> QED
        BY <4>1 DEF OnItsWay
    <3>2. CASE t.what # "missed"
      <4>1. t.kinds[p] # "none" /\ t.origin = "external"
        BY <1>9, <2>2, <3>2
      <4>2. /\ Recorded(t.kinds, t.origin)[p].kind # "none"
            /\ Recorded(t.kinds, t.origin)[p].origin = "external"
        BY <1>1, <1>2, <4>1, RecordedIs
      <4>3. \/ unread'.resync
            \/ unread'.merged[p].kind # "none" /\ unread'.merged[p].origin = "external"
        BY <1>5, <4>2
      <4> QED
        BY <4>3 DEF OnItsWay
    <3> QED
      BY <3>1, <3>2
  <2> QED
    BY <2>1, <2>2, TellLeaves
<1> QED
  BY <1>6, <1>7, <1>8, <1>9 DEF OnItsWay, ToBeTold

(* A Path is on its way as before if what is told of it only grows.        *)
LEMMA StillOnItsWay ==
  ASSUME unread' = unread, NEW p \in Paths, NEW origins, OnItsWay(p, origins),
         inHand'[p] = inHand[p] \/ inHand[p] \notin origins,
         \A a \in Tellers : telling'[a] = telling[a] \/ telling[a] = <<>>
  PROVE  OnItsWay(p, origins)'
<1>1. ASSUME ToBeTold(p, origins) PROVE ToBeTold(p, origins)'
  <2>1. PICK a \in Tellers : \E n \in DOMAIN telling[a] :
          \/ telling[a][n].what = "missed"
          \/ telling[a][n].kinds[p] # "none" /\ telling[a][n].origin \in origins
    BY <1>1 DEF ToBeTold
  <2>2. telling'[a] = telling[a]
    BY <2>1
  <2> QED
    BY <2>1, <2>2 DEF ToBeTold
<1>2. CASE inHand[p] \in origins
  <2>1. inHand'[p] \in origins
    BY <1>2
  <2> QED
    BY <2>1 DEF OnItsWay
<1>3. CASE unread.resync \/ (unread.merged[p].kind # "none" /\ unread.merged[p].origin \in origins)
  BY <1>3 DEF OnItsWay
<1> QED
  BY <1>1, <1>2, <1>3 DEF OnItsWay

(* Whoever reads the log has it to tell.                                   *)
LEMMA LogIsTold ==
  ASSUME TypeOK, NEW a \in Tellers, NEW kinds \in [Paths -> Kinds],
         telling' = [telling EXCEPT ![a] = Outcome(kinds)],
         NEW p \in Paths, NEW n \in DOMAIN log, log[n][p] # "none"
  PROVE  ToBeTold(p, {"external"})'
<1>1. /\ telling \in [Tellers -> Seq(Told)] /\ log \in Seq([Paths -> Kinds])
  BY DEF TypeOK
<1>2. telling'[a] = Outcome(kinds)
  BY <1>1
<1>3. n \in DOMAIN Outcome(kinds) /\ Outcome(kinds)[n] = Changes(log[n], "external")
  BY <1>1, OutcomeIs
<1>4. Outcome(kinds)[n].kinds[p] # "none" /\ Outcome(kinds)[n].origin = "external"
  BY <1>3 DEF Changes
<1> QED
  BY <1>2, <1>3, <1>4 DEF ToBeTold

LEMMA ForeignStayComing ==
  ASSUME TypeOK, Places, Closing, Covering, ForeignComing, [Next]_vars
  PROVE  ForeignComing'
<1>1. /\ telling \in [Tellers -> Seq(Told)] /\ log \in Seq([Paths -> Kinds])
      /\ foreign \subseteq Paths /\ foreign' \subseteq Paths /\ inHand \in [Paths -> Doings]
  BY Types DEF TypeOK, FeedTypeOK
<1> DEFINE Logged(p) == \E n \in DOMAIN log : log[n][p] # "none"
           Goal(p)   == \/ \E n \in DOMAIN log' : log'[n][p] # "none"
                        \/ OnItsWay(p, {"external"})'
<1> SUFFICES ASSUME ~unread'.feedDropped, step'[Inner] = "new", NEW p \in foreign' PROVE Goal(p)
  BY DEF ForeignComing
<1>2. /\ ~unread.feedDropped /\ step[Inner] = "new" /\ p \in Paths
      /\ \A q \in foreign : Logged(q) \/ OnItsWay(q, {"external"})
  BY <1>1, FeedDroppedIs, InnerMoves DEF ForeignComing
<1>3. ASSUME p \in foreign, log' = log, unread' = unread, inHand' = inHand,
             \A a \in Tellers : telling'[a] = telling[a] \/ telling[a] = <<>>
      PROVE  Goal(p)
  <2>1. CASE Logged(p)
    BY <1>3, <2>1
  <2>2. CASE OnItsWay(p, {"external"})
    BY <1>2, <1>3, <2>2, StillOnItsWay
  <2> QED
    BY <1>2, <1>3, <2>1, <2>2
<1>4. ASSUME NEW a \in Tellers, NEW kinds \in [Paths -> Kinds],
             telling' = [telling EXCEPT ![a] = Outcome(kinds)], telling[a] = <<>>,
             p \in foreign, unread' = unread, inHand' = inHand
      PROVE  Goal(p)
  <2>1. CASE Logged(p)
    <3>1. ToBeTold(p, {"external"})'
      BY <1>2, <1>4, <2>1, LogIsTold
    <3> QED
      BY <3>1 DEF OnItsWay
  <2>2. CASE OnItsWay(p, {"external"})
    <3>1. \A b \in Tellers : telling'[b] = telling[b] \/ telling[b] = <<>>
      BY <1>1, <1>4
    <3> QED
      BY <1>2, <1>4, <2>2, <3>1, StillOnItsWay
  <2> QED
    BY <1>2, <1>4, <2>1, <2>2
<1>5. ASSUME NEW c \in Commits, NEW r \in Requests, Apply(c, r) PROVE Goal(p)
  <2>1. c \in Tellers /\ Kind(r, there) \in [Paths -> Kinds]
    BY TellersAre, KindType
  <2>2. /\ telling' = [telling EXCEPT ![c] = Outcome(Kind(r, there))]
        /\ unread' = unread /\ inHand' = inHand /\ foreign' = foreign /\ step[c] = "started"
    BY <1>5 DEF Apply, feedVars
  <2>3. telling[c] = <<>>
    BY <2>1, <2>2 DEF Places
  <2> QED
    BY <1>4, <2>1, <2>2, <2>3
<1>6. ASSUME ReadLog PROVE Goal(p)
  <2>1. /\ telling' = [telling EXCEPT ![Follower] = Outcome([q \in Paths |-> "none"])]
        /\ unread' = unread /\ inHand' = inHand /\ foreign' = foreign
        /\ step[Follower] = "waiting"
    BY <1>6 DEF ReadLog, feedVars
  <2>2. telling[Follower] = <<>> /\ Follower \in Tellers
    BY <2>1, TellersAre DEF Places
  <2> QED
    BY <1>4, <2>1, <2>2, NoneType
<1>7. ASSUME ReadLogFails PROVE Goal(p)
  <2>1. /\ log' = log /\ unread' = unread /\ inHand' = inHand /\ foreign' = foreign
        /\ step[Follower] = "waiting"
        /\ \A b \in Tellers \ {Follower} : telling'[b] = telling[b]
    BY <1>1, <1>7 DEF ReadLogFails, feedVars
  <2>2. telling[Follower] = <<>>
    BY <2>1, TellersAre DEF Places
  <2> QED
    BY <1>3, <2>1, <2>2
<1>8. ASSUME FollowerPanics PROVE Goal(p)
  <2>1. telling'[Supervisor] = <<Missed>>
    BY <1>1, <1>8, TellersAre DEF FollowerPanics
  <2>2. 1 \in DOMAIN telling'[Supervisor] /\ telling'[Supervisor][1].what = "missed"
    BY <2>1 DEF Missed
  <2>3. ToBeTold(p, {"external"})'
    BY <2>2, TellersAre DEF ToBeTold
  <2> QED
    BY <2>3 DEF OnItsWay
<1>9. ASSUME FollowerStops \/ DropInner PROVE FALSE
  <2>1. ASSUME DropInner PROVE step'[Inner] = "telling"
    BY <2>1, TellersAre DEF DropInner, TypeOK
  <2> QED
    BY <1>2, <1>9, <2>1 DEF FollowerStops
<1>10. ASSUME NEW r \in Requests, TheyCommit(r) PROVE Goal(p)
  <2> DEFINE kinds == Kind(r, there)
  <2>1. kinds \in [Paths -> Kinds]
    BY KindType
  <2>2. /\ log' = Append(log, kinds) /\ foreign' = foreign \cup Changed(kinds)
        /\ unread' = unread /\ inHand' = inHand /\ telling' = telling
    BY <1>10 DEF TheyCommit, feedVars
  <2> HIDE DEF kinds
  <2>3. /\ \A n \in DOMAIN log : n \in DOMAIN log' /\ log'[n] = log[n]
        /\ Len(log) + 1 \in DOMAIN log' /\ log'[Len(log) + 1] = kinds
    <3>1. Len(log) \in Nat /\ DOMAIN log = 1..Len(log)
      BY <1>1
    <3>2. /\ log' \in Seq([Paths -> Kinds]) /\ Len(log') = Len(log) + 1
          /\ \A n \in 1..Len(log) : log'[n] = log[n]
          /\ log'[Len(log) + 1] = kinds
      BY <1>1, <2>1, <2>2, AppendProperties
    <3> QED
      BY <3>1, <3>2
  <2>4. CASE p \in Changed(kinds)
    BY <2>3, <2>4 DEF Changed
  <2>5. CASE p \in foreign /\ Logged(p)
    BY <2>3, <2>5
  <2>6. CASE p \in foreign /\ OnItsWay(p, {"external"})
    BY <1>2, <2>2, <2>6, StillOnItsWay
  <2> QED
    BY <1>2, <2>2, <2>4, <2>5, <2>6
<1>11. ASSUME NEW a \in Tellers, Tell(a) PROVE Goal(p)
  <2>1. log' = log /\ foreign' = foreign
    BY <1>11 DEF Tell
  <2>2. CASE Logged(p)
    BY <2>1, <2>2
  <2>3. CASE OnItsWay(p, {"external"})
    BY <1>2, <1>11, <2>3, TellForeign
  <2> QED
    BY <1>2, <2>1, <2>2, <2>3
<1>12. ASSUME Look, UNCHANGED <<log, telling, foreign>> PROVE Goal(p)
  <2>1. CASE Logged(p)
    BY <1>12, <2>1
  <2>2. CASE OnItsWay(p, {"external"})
    <3>1. inHand[p] = "nothing"
      BY <1>2, <1>12, LookIs
    <3>2. CASE unread.resync \/ (unread.merged[p].kind # "none"
                                /\ unread.merged[p].origin \in {"external"})
      <4>1. inHand'[p] \in {"external"}
        BY <1>2, <1>12, <3>2, LookIs
      <4> QED
        BY <4>1 DEF OnItsWay
    <3>3. CASE ToBeTold(p, {"external"})
      <4>1. telling' = telling
        BY <1>12
      <4>2. ToBeTold(p, {"external"})'
        BY <3>3, <4>1 DEF ToBeTold
      <4> QED
        BY <4>2 DEF OnItsWay
    <3> QED
      BY <2>2, <3>1, <3>2, <3>3 DEF OnItsWay
  <2> QED
    BY <1>2, <1>12, <2>1, <2>2
<1>13. ASSUME DropFeed PROVE FALSE
  <2>1. unread'.feedDropped
    BY <1>13, FeedIsDropped DEF TypeOK
  <2> QED
    BY <2>1
<1>14. ASSUME NEW q \in Paths, ReadAgain(q) PROVE Goal(p)
  <2>1. /\ foreign' = IF inHand[q] = "external" THEN foreign \ {q} ELSE foreign
        /\ unread' = unread /\ telling' = telling /\ log' = log
        /\ inHand' = [inHand EXCEPT ![q] = "nothing"]
    BY <1>14 DEF ReadAgain
  <2>2. p \in foreign /\ (inHand'[p] = inHand[p] \/ inHand[p] \notin {"external"})
    BY <1>1, <1>2, <2>1
  <2>3. CASE Logged(p)
    BY <2>1, <2>3
  <2>4. CASE OnItsWay(p, {"external"})
    BY <1>2, <2>1, <2>2, <2>4, StillOnItsWay
  <2> QED
    BY <1>2, <2>2, <2>3, <2>4
<1>15. ASSUME UNCHANGED Data PROVE Goal(p)
  BY <1>3, <1>15 DEF Data
<1> QED
  BY <1>5, <1>6, <1>7, <1>8, <1>9, <1>10, <1>11, <1>12, <1>13, <1>14, <1>15, DataSteps

-----------------------------------------------------------------------------
(* What is told is true.                                                   *)

(* What a request makes of a Path.                                         *)
LEMMA AfterIs ==
  ASSUME NEW r \in Requests, NEW p \in Paths
  PROVE  LET kinds == Kind(r, there)
         IN  /\ kinds[p] # "none" => (kinds[p] = "removed" <=> p \notin After(kinds, there))
             /\ kinds[p] = "none" => (p \in After(kinds, there) <=> p \in there)
BY DEF Kind, After

LEMMA LogGrows ==
  ASSUME TypeOK, NEW r \in Requests, TheyCommit(r)
  PROVE  /\ DOMAIN log = 1..Len(log) /\ Len(log) \in Nat
         /\ DOMAIN log' = 1..(Len(log) + 1)
         /\ \A n \in DOMAIN log : log'[n] = log[n]
         /\ log'[Len(log) + 1] = Kind(r, there)
         /\ there' = After(Kind(r, there), there)
         /\ unread' = unread /\ telling' = telling /\ step' = step
<1> DEFINE kinds == Kind(r, there)
<1>1. kinds \in [Paths -> Kinds] /\ log \in Seq([Paths -> Kinds])
  BY KindType DEF TypeOK
<1>2. /\ log' = Append(log, kinds) /\ there' = After(kinds, there)
      /\ unread' = unread /\ telling' = telling /\ step' = step
  BY DEF TheyCommit, feedVars
<1> HIDE DEF kinds
<1>3. /\ log' \in Seq([Paths -> Kinds]) /\ Len(log') = Len(log) + 1
      /\ \A n \in 1..Len(log) : log'[n] = log[n]
      /\ log'[Len(log) + 1] = kinds
  BY <1>1, <1>2, AppendProperties
<1>4. DOMAIN log = 1..Len(log) /\ Len(log) \in Nat /\ DOMAIN log' = 1..(Len(log) + 1)
  BY <1>1, <1>3
<1> QED
  BY <1>2, <1>3, <1>4 DEF kinds

(* Others' Commits apart, what is in the log stays or goes as a whole.     *)
LEMMA LogSteps ==
  ASSUME TypeOK, [Next]_vars
  PROVE  \/ \E r \in Requests : TheyCommit(r)
         \/ log' = <<>>
         \/ log' = log /\ there' = there
<1>1. ASSUME NEW c \in Commits, NEW r \in Requests, Apply(c, r) PROVE log' = <<>>
  BY <1>1 DEF Apply
<1>2. ASSUME FollowerPanics \/ FollowerStops
      PROVE  there' = there /\ (log' = log \/ log' = <<>>)
  BY <1>2 DEF FollowerPanics, FollowerStops
<1>3. ASSUME ReadLog PROVE log' = <<>>
  BY <1>3 DEF ReadLog
<1>4. ASSUME ReadLogFails \/ DropInner PROVE log' = log /\ there' = there
  BY <1>4 DEF ReadLogFails, DropInner
<1>5. ASSUME NEW a \in Tellers, Tell(a) PROVE log' = log /\ there' = there
  BY <1>5 DEF Tell
<1>6. ASSUME NEW p \in Paths, ReadAgain(p) PROVE log' = log /\ there' = there
  BY <1>6 DEF ReadAgain
<1>7. ASSUME UNCHANGED Data PROVE log' = log /\ there' = there
  BY <1>7 DEF Data
<1> QED
  BY <1>1, <1>2, <1>3, <1>4, <1>5, <1>6, <1>7, DataSteps

LEMMA LogStaysRight ==
  ASSUME TypeOK, LogIsRight, [Next]_vars
  PROVE  LogIsRight'
<1>1. CASE log' = <<>>
  BY <1>1 DEF LogIsRight
<1>2. CASE log' = log /\ there' = there
  BY <1>2 DEF LogIsRight, TrueKind
<1>3. ASSUME NEW r \in Requests, TheyCommit(r) PROVE LogIsRight'
  <2> SUFFICES ASSUME NEW p \in Paths, NEW n \in DOMAIN log', log'[n][p] # "none",
                      \A m \in DOMAIN log' : m > n => log'[m][p] = "none"
               PROVE  TrueKind(log'[n][p], p, there')
    BY DEF LogIsRight
  <2> DEFINE kinds == Kind(r, there)
             end == Len(log) + 1
  <2>1. /\ kinds[p] # "none" => (kinds[p] = "removed" <=> p \notin there')
        /\ kinds[p] = "none" => (p \in there' <=> p \in there)
    BY <1>3, AfterIs, LogGrows
  <2>2. /\ \A m \in DOMAIN log : m \in DOMAIN log' /\ log'[m] = log[m] /\ m < end
        /\ end \in DOMAIN log' /\ log'[end] = kinds
        /\ n \in DOMAIN log \/ n = end
    BY <1>3, LogGrows
  <2> HIDE DEF kinds, end
  <2>3. CASE n = end
    BY <2>1, <2>2, <2>3 DEF TrueKind
  <2>4. CASE n \in DOMAIN log
    <3>1. end > n
      BY <1>3, <2>4, LogGrows DEF end
    <3>2. kinds[p] = "none"
      BY <2>2, <3>1
    <3>3. log[n][p] # "none" /\ \A m \in DOMAIN log : m > n => log[m][p] = "none"
      BY <2>2, <2>4
    <3>4. TrueKind(log[n][p], p, there)
      BY <2>4, <3>3 DEF LogIsRight
    <3>5. TrueKind(log[n][p], p, there')
      BY <2>1, <3>2, <3>4 DEF TrueKind
    <3> QED
      BY <2>2, <2>4, <3>5
  <2> QED
    BY <2>2, <2>3, <2>4
<1> QED
  BY <1>1, <1>2, <1>3, LogSteps

LEMMA OutcomeKinds ==
  ASSUME log \in Seq([Paths -> Kinds]), NEW kinds \in [Paths -> Kinds]
  PROVE  /\ Len(log) \in Nat /\ DOMAIN log = 1..Len(log)
         /\ \A n \in DOMAIN log : n \in DOMAIN Outcome(kinds) /\ Outcome(kinds)[n].kinds = log[n]
         /\ Changed(kinds) # {} =>
              /\ Len(log) + 1 \in DOMAIN Outcome(kinds)
              /\ Outcome(kinds)[Len(log) + 1].kinds = kinds
<1>1. Len(log) \in Nat /\ DOMAIN log = 1..Len(log)
  OBVIOUS
<1>2. \A k, o : Changes(k, o).kinds = k
  BY DEF Changes
<1>3. ASSUME NEW n \in DOMAIN log
      PROVE  n \in DOMAIN Outcome(kinds) /\ Outcome(kinds)[n].kinds = log[n]
  BY <1>2, OutcomeIs
<1>4. ASSUME Changed(kinds) # {}
      PROVE  /\ Len(log) + 1 \in DOMAIN Outcome(kinds)
             /\ Outcome(kinds)[Len(log) + 1].kinds = kinds
  <2>1. Len(log) + 1 \in 1..(Len(log) + 1)
    BY <1>1
  <2> QED
    BY <1>2, <1>4, <2>1, OutcomeIs
<1> QED
  BY <1>1, <1>3, <1>4

(* What is told of a Path last, by whoever has just read the log.          *)
LEMMA OutcomeIsRight ==
  ASSUME log \in Seq([Paths -> Kinds]), LogIsRight, NEW kinds \in [Paths -> Kinds], NEW p \in Paths,
         NEW files,
         kinds[p] # "none" => (kinds[p] = "removed" <=> p \notin files),
         kinds[p] = "none" => (p \in files <=> p \in there),
         NEW n \in DOMAIN Outcome(kinds), Outcome(kinds)[n].kinds[p] # "none",
         \A m \in DOMAIN Outcome(kinds) : m > n => Outcome(kinds)[m].kinds[p] = "none"
  PROVE  Outcome(kinds)[n].kinds[p] = "removed" <=> p \notin files
<1>1. Len(log) \in Nat /\ DOMAIN log = 1..Len(log)
  OBVIOUS
<1>2. CASE n \in DOMAIN log
  <2>1. Outcome(kinds)[n].kinds = log[n]
    BY <1>2, OutcomeKinds
  <2>2. kinds[p] = "none"
    <3>1. ASSUME kinds[p] # "none" PROVE FALSE
      <4>1. Changed(kinds) # {}
        BY <3>1 DEF Changed
      <4>2. /\ Len(log) + 1 \in DOMAIN Outcome(kinds)
            /\ Outcome(kinds)[Len(log) + 1].kinds = kinds
        BY <4>1, OutcomeKinds
      <4>3. Len(log) + 1 > n
        BY <1>1, <1>2
      <4> QED
        BY <3>1, <4>2, <4>3
    <3> QED
      BY <3>1
  <2>3. ASSUME NEW m \in DOMAIN log, m > n PROVE log[m][p] = "none"
    <3>1. m \in DOMAIN Outcome(kinds) /\ Outcome(kinds)[m].kinds = log[m]
      BY <2>3, OutcomeKinds
    <3> QED
      BY <2>3, <3>1
  <2>4. TrueKind(log[n][p], p, there)
    BY <1>2, <2>1, <2>3 DEF LogIsRight
  <2> QED
    BY <2>1, <2>2, <2>4 DEF TrueKind
<1>3. CASE Outcome(kinds)[n] = Changes(kinds, "local")
  BY <1>3 DEF Changes
<1> QED
  BY <1>2, <1>3, OutcomeSays

(* Whoever has something to tell, but for the Supervisor and Inner, has the *)
(* turn.                                                                    *)
LEMMA OneTells ==
  ASSUME TypeOK, Places, NEW a \in Queuers, NEW n \in DOMAIN telling[a]
  PROVE  HasTurn(a) /\ step[a] \in {"telling", "waking"}
<1>1. telling[a] # <<>>
  OBVIOUS
<1>2. step[a] \in {"telling", "waking"}
  BY <1>1, TellersAre DEF Places
<1> QED
  BY <1>2 DEF Places

LEMMA OneHasTurn ==
  ASSUME NEW a, NEW b, HasTurn(a), HasTurn(b)
  PROVE  a = b
BY DEF HasTurn

(* What is told is true once someone has read the log.                     *)
LEMMA ReadIsRight ==
  ASSUME TypeOK, LogIsRight, NEW a \in Queuers, NEW kinds \in [Paths -> Kinds],
         \A b \in Queuers \ {a} : \A n \in DOMAIN telling'[b] : FALSE,
         telling' = [telling EXCEPT ![a] = Outcome(kinds)],
         \A p \in Paths : /\ kinds[p] # "none" => (kinds[p] = "removed" <=> p \notin there')
                          /\ kinds[p] = "none" => (p \in there' <=> p \in there)
  PROVE  TellingIsRight'
<1>1. telling \in [Tellers -> Seq(Told)] /\ log \in Seq([Paths -> Kinds]) /\ a \in Tellers
  BY TellersAre DEF TypeOK
<1>2. telling'[a] = Outcome(kinds)
  BY <1>1
<1>3. ASSUME NEW p \in Paths, NEW n \in DOMAIN Outcome(kinds),
             Outcome(kinds)[n].kinds[p] # "none",
             \A m \in DOMAIN Outcome(kinds) : m > n => Outcome(kinds)[m].kinds[p] = "none"
      PROVE  Outcome(kinds)[n].kinds[p] = "removed" <=> p \notin there'
  <2>1. /\ kinds[p] # "none" => (kinds[p] = "removed" <=> p \notin there')
        /\ kinds[p] = "none" => (p \in there' <=> p \in there)
    OBVIOUS
  <2>2. log \in Seq([Paths -> Kinds])
    BY <1>1
  <2> QED
    BY <1>3, <2>1, <2>2, OutcomeIsRight, ZenonT(60)
<1> SUFFICES ASSUME NEW b \in Queuers, NEW p \in Paths, NEW n \in DOMAIN telling'[b],
                    telling'[b][n].kinds[p] # "none",
                    \A m \in DOMAIN telling'[b] : m > n => telling'[b][m].kinds[p] = "none"
             PROVE  TrueKind(telling'[b][n].kinds[p], p, there')
  BY DEF TellingIsRight, Queuers
<1>4. b = a
  OBVIOUS
<1> QED
  BY <1>2, <1>3, <1>4 DEF TrueKind

LEMMA TellingStaysRight ==
  ASSUME TypeOK, Places, LogIsRight, TellingIsRight, [Next]_vars
  PROVE  TellingIsRight'
<1>1. telling \in [Tellers -> Seq(Told)] /\ log \in Seq([Paths -> Kinds])
  BY DEF TypeOK
<1>2. ASSUME NEW c \in Commits, NEW r \in Requests, Apply(c, r) PROVE TellingIsRight'
  <2> DEFINE kinds == Kind(r, there)
  <2>1. kinds \in [Paths -> Kinds] /\ c \in Queuers /\ c \in Tellers
    BY KindType, TellersAre
  <2>2. /\ telling' = [telling EXCEPT ![c] = Outcome(kinds)]
        /\ there' = After(kinds, there) /\ step[c] = "started"
    BY <1>2 DEF Apply
  <2>3. \A p \in Paths : /\ kinds[p] # "none" => (kinds[p] = "removed" <=> p \notin there')
                         /\ kinds[p] = "none" => (p \in there' <=> p \in there)
    BY <2>2, AfterIs
  <2> HIDE DEF kinds
  <2>4. ASSUME NEW b \in Queuers \ {c}, NEW n \in DOMAIN telling'[b] PROVE FALSE
    <3>1. telling'[b] = telling[b]
      BY <1>1, <2>1, <2>2
    <3>2. HasTurn(b)
      BY <3>1, OneTells
    <3>3. HasTurn(c)
      BY <2>1, <2>2 DEF Places
    <3> QED
      BY <3>2, <3>3, OneHasTurn
  <2> QED
    BY <2>1, <2>2, <2>3, <2>4, ReadIsRight
<1>3. ASSUME ReadLog PROVE TellingIsRight'
  <2> DEFINE kinds == [p \in Paths |-> "none"]
  <2>1. kinds \in [Paths -> Kinds] /\ Follower \in Queuers /\ Follower \in Tellers
    BY NoneType, TellersAre
  <2>2. /\ telling' = [telling EXCEPT ![Follower] = Outcome(kinds)]
        /\ there' = there /\ HasTurn(Follower)
    BY <1>3 DEF ReadLog
  <2>3. \A p \in Paths : /\ kinds[p] # "none" => (kinds[p] = "removed" <=> p \notin there')
                         /\ kinds[p] = "none" => (p \in there' <=> p \in there)
    BY <2>2
  <2> HIDE DEF kinds
  <2>4. ASSUME NEW b \in Queuers \ {Follower}, NEW n \in DOMAIN telling'[b] PROVE FALSE
    <3>1. telling'[b] = telling[b]
      BY <1>1, <2>1, <2>2
    <3> QED
      BY <2>2, <3>1, OneTells, OneHasTurn
  <2> QED
    BY <2>1, <2>2, <2>3, <2>4, ReadIsRight
<1>4. ASSUME \A b \in Queuers : telling'[b] = telling[b], there' = there, log' = log
      PROVE  TellingIsRight'
  BY <1>4 DEF TellingIsRight, TrueKind, LogSilent, Queuers
<1>5. ASSUME ReadLogFails PROVE TellingIsRight'
  <2>1. /\ telling'[Follower] = <<>> \/ telling'[Follower] = <<Missed>>
        /\ \A b \in Queuers \ {Follower} : telling'[b] = telling[b]
        /\ there' = there /\ log' = log
    BY <1>1, <1>5, TellersAre DEF ReadLogFails
  <2>2. \A n \in DOMAIN telling'[Follower] : \A p \in Paths :
          telling'[Follower][n].kinds[p] = "none"
    BY <2>1 DEF Missed
  <2> QED
    BY <2>1, <2>2 DEF TellingIsRight, TrueKind, LogSilent, Queuers
<1>6. ASSUME FollowerPanics \/ FollowerStops PROVE TellingIsRight'
  <2>1. /\ \A b \in Queuers : telling'[b] = telling[b]
        /\ there' = there /\ step[Follower] \in {"new", "waiting"}
        /\ log' = log \/ (log' = <<>> /\ HasTurn(Follower))
    BY <1>1, <1>6, TellersAre DEF FollowerPanics, FollowerStops
  <2>2. CASE HasTurn(Follower)
    <3>1. \A b \in Queuers : \A n \in DOMAIN telling'[b] : FALSE
      BY <2>1, <2>2, OneTells, OneHasTurn
    <3> QED
      BY <3>1 DEF TellingIsRight, Queuers
  <2> QED
    BY <1>4, <2>1, <2>2
<1>7. ASSUME DropInner PROVE TellingIsRight'
  <2>1. \A b \in Queuers : telling'[b] = telling[b]
    BY <1>1, <1>7, TellersAre DEF DropInner
  <2> QED
    BY <1>4, <1>7, <2>1 DEF DropInner
<1>8. ASSUME NEW r \in Requests, TheyCommit(r) PROVE TellingIsRight'
  <2> SUFFICES ASSUME NEW a \in Queuers, NEW p \in Paths, NEW n \in DOMAIN telling[a],
                      telling[a][n].kinds[p] # "none",
                      \A m \in DOMAIN telling[a] : m > n => telling[a][m].kinds[p] = "none",
                      \A m \in DOMAIN log' : log'[m][p] = "none"
               PROVE  TrueKind(telling[a][n].kinds[p], p, there')
    <3>1. telling' = telling
      BY <1>8, LogGrows
    <3> QED
      BY <3>1 DEF TellingIsRight, LogSilent, Queuers
  <2>1. LogSilent(p)
    BY <1>8, LogGrows DEF LogSilent
  <2>2. Len(log) + 1 \in DOMAIN log'
    BY <1>8, LogGrows
  <2>3. Kind(r, there)[p] = "none"
    BY <1>8, <2>2, LogGrows
  <2>4. p \in there' <=> p \in there
    BY <1>8, <2>3, AfterIs, LogGrows
  <2>5. TrueKind(telling[a][n].kinds[p], p, there)
    BY <2>1 DEF TellingIsRight
  <2> QED
    BY <2>4, <2>5 DEF TrueKind
<1>9. ASSUME NEW b \in Tellers, Tell(b) PROVE TellingIsRight'
  <2> SUFFICES ASSUME NEW a \in Queuers, NEW p \in Paths, NEW n \in DOMAIN telling'[a],
                      telling'[a][n].kinds[p] # "none",
                      \A m \in DOMAIN telling'[a] : m > n => telling'[a][m].kinds[p] = "none",
                      LogSilent(p)
               PROVE  TrueKind(telling'[a][n].kinds[p], p, there)
    <3>1. log' = log /\ there' = there
      BY <1>9 DEF Tell
    <3> QED
      BY <3>1 DEF TellingIsRight, LogSilent, Queuers
  <2>1. CASE a # b
    <3>1. telling'[a] = telling[a]
      BY <1>9, <2>1, TellIs, TellersAre
    <3> QED
      BY <3>1 DEF TellingIsRight
  <2>2. CASE a = b
    <3> DEFINE q == telling[a]
    <3>1. telling'[a] = Tail(q) /\ q \in Seq(Told) /\ q # <<>>
      BY <1>9, <2>2, TellIs
    <3> HIDE DEF q
    <3>2. n + 1 \in DOMAIN q /\ Tail(q)[n] = q[n + 1] /\ n \in Nat
      BY <3>1, TailIs
    <3>3. ASSUME NEW m \in DOMAIN q, m > n + 1 PROVE q[m].kinds[p] = "none"
      <4>1. m \in Nat /\ (m # 1 => m - 1 \in DOMAIN Tail(q) /\ Tail(q)[m - 1] = q[m])
        BY <3>1, TailIs
      <4>2. m # 1 /\ m - 1 > n
        BY <3>2, <3>3, <4>1
      <4> QED
        BY <3>1, <4>1, <4>2
    <3>4. q[n + 1].kinds[p] # "none"
      BY <3>1, <3>2
    <3>5. TrueKind(q[n + 1].kinds[p], p, there)
      BY <3>2, <3>3, <3>4 DEF TellingIsRight, q
    <3> QED
      BY <3>1, <3>2, <3>5
  <2> QED
    BY <2>1, <2>2
<1>10. ASSUME NEW p \in Paths, ReadAgain(p) PROVE TellingIsRight'
  BY <1>4, <1>10 DEF ReadAgain
<1>11. ASSUME UNCHANGED Data PROVE TellingIsRight'
  BY <1>4, <1>11 DEF Data
<1>12. ASSUME UNCHANGED <<there, log, telling>> PROVE TellingIsRight'
  BY <1>4, <1>12
<1> QED
  BY <1>2, <1>3, <1>5, <1>6, <1>7, <1>8, <1>9, <1>10, <1>11, <1>12, DataSteps

(* The merged Change of a Path is the latest.                              *)
KindRight(p) ==
  /\ step[Inner] = "new"
  /\ unread.merged[p].kind # "none"
  /\ ~ToBeTold(p, Origins)
  /\ LogSilent(p)
  => TrueKind(unread.merged[p].kind, p, there)

LEMMA KindParts ==
  KindIsLatest <=> \A p \in Paths : KindRight(p)
BY DEF KindIsLatest, KindRight, LogSilent, TrueKind

(* A Path nothing is to be told of: nothing that is told says anything of it. *)
LEMMA NothingToTell ==
  ASSUME telling \in [Tellers -> Seq(Told)], NEW p \in Paths
  PROVE  ToBeTold(p, Origins) <=>
           \E a \in Tellers : \E n \in DOMAIN telling[a] :
             telling[a][n].what = "missed" \/ telling[a][n].kinds[p] # "none"
<1>1. ASSUME NEW a \in Tellers, NEW n \in DOMAIN telling[a] PROVE telling[a][n].origin \in Origins
  <2>1. telling[a] \in Seq(Told)
    OBVIOUS
  <2>2. telling[a][n] \in Told
    BY <2>1
  <2> QED
    BY <2>2 DEF Told
<1> QED
  BY <1>1 DEF ToBeTold

LEMMA NothingThenToTell ==
  ASSUME telling' \in [Tellers -> Seq(Told)], NEW p \in Paths
  PROVE  ToBeTold(p, Origins)' <=>
           \E a \in Tellers : \E n \in DOMAIN telling'[a] :
             telling'[a][n].what = "missed" \/ telling'[a][n].kinds[p] # "none"
<1>1. ASSUME NEW a \in Tellers, NEW n \in DOMAIN telling'[a] PROVE telling'[a][n].origin \in Origins
  <2>1. telling'[a] \in Seq(Told)
    OBVIOUS
  <2>2. telling'[a][n] \in Told
    BY <2>1
  <2> QED
    BY <2>2 DEF Told
<1> QED
  BY <1>1 DEF ToBeTold

(* Who reads the log when nothing is then to be told of a Path had nothing   *)
(* to say of it.                                                             *)
LEMMA ReadSilently ==
  ASSUME TypeOK, TypeOK', NEW a \in Tellers, NEW kinds \in [Paths -> Kinds],
         telling[a] = <<>>, telling' = [telling EXCEPT ![a] = Outcome(kinds)],
         NEW p \in Paths, ~ToBeTold(p, Origins)'
  PROVE  ~ToBeTold(p, Origins) /\ LogSilent(p) /\ kinds[p] = "none"
<1>1. /\ telling \in [Tellers -> Seq(Told)] /\ log \in Seq([Paths -> Kinds])
      /\ telling' \in [Tellers -> Seq(Told)]
  BY DEF TypeOK
<1>2. telling'[a] = Outcome(kinds) /\ \A b \in Tellers \ {a} : telling'[b] = telling[b]
  BY <1>1
<1>3. \A b \in Tellers : \A n \in DOMAIN telling'[b] :
        telling'[b][n].what # "missed" /\ telling'[b][n].kinds[p] = "none"
  BY <1>1, NothingThenToTell
<1>4. \A n \in DOMAIN Outcome(kinds) : Outcome(kinds)[n].kinds[p] = "none"
  BY <1>2, <1>3
<1>5. LogSilent(p)
  <2>1. ASSUME NEW n \in DOMAIN log PROVE log[n][p] = "none"
    <3>1. n \in DOMAIN Outcome(kinds) /\ Outcome(kinds)[n].kinds = log[n]
      BY <1>1, OutcomeKinds
    <3> QED
      BY <1>4, <3>1
  <2> QED
    BY <2>1 DEF LogSilent
<1>6. ASSUME kinds[p] # "none" PROVE FALSE
  <2>1. Changed(kinds) # {}
    BY <1>6 DEF Changed
  <2> QED
    BY <1>1, <1>4, <1>6, <2>1, OutcomeKinds, SMTT(20)
<1>7. ~ToBeTold(p, Origins)
  <2>1. ASSUME NEW b \in Tellers, NEW n \in DOMAIN telling[b]
        PROVE  telling[b][n].what # "missed" /\ telling[b][n].kinds[p] = "none"
    <3>1. b # a
      OBVIOUS
    <3>2. telling'[b] = telling[b]
      BY <1>2, <3>1
    <3> QED
      BY <1>3, <3>2
  <2> QED
    BY <1>1, <2>1, NothingToTell
<1> QED
  BY <1>5, <1>6, <1>7

LEMMA KindStaysLatest ==
  ASSUME TypeOK, Places, Closing, Covering, TellingIsRight, KindIsLatest, [Next]_vars
  PROVE  KindIsLatest'
<1>1. TypeOK'
  BY Types
<1>2. /\ telling \in [Tellers -> Seq(Told)] /\ telling' \in [Tellers -> Seq(Told)] /\ FeedTypeOK
      /\ log \in Seq([Paths -> Kinds])
  BY <1>1 DEF TypeOK
<1> SUFFICES ASSUME NEW p \in Paths, step'[Inner] = "new", unread'.merged[p].kind # "none",
                    ~ToBeTold(p, Origins)', \A n \in DOMAIN log' : log'[n][p] = "none"
             PROVE  TrueKind(unread'.merged[p].kind, p, there')
  BY DEF KindIsLatest, TrueKind
<1>3. step[Inner] = "new" /\ KindRight(p)
  BY InnerMoves, KindParts
<1>4. \A b \in Tellers : \A n \in DOMAIN telling'[b] :
        telling'[b][n].what # "missed" /\ telling'[b][n].kinds[p] = "none"
  BY <1>2, NothingThenToTell
<1>5. ASSUME unread' = unread, p \in there' <=> p \in there, LogSilent(p), ~ToBeTold(p, Origins)
      PROVE  TrueKind(unread'.merged[p].kind, p, there')
  BY <1>3, <1>5 DEF KindRight, TrueKind
<1>6. ASSUME unread' = unread, there' = there, log' = log,
             \A b \in Tellers : telling'[b] = telling[b] \/ telling[b] = <<>>
      PROVE  TrueKind(unread'.merged[p].kind, p, there')
  <2>1. LogSilent(p)
    BY <1>6 DEF LogSilent
  <2>2. \A b \in Tellers : \A n \in DOMAIN telling[b] :
          telling[b][n].what # "missed" /\ telling[b][n].kinds[p] = "none"
    BY <1>4, <1>6
  <2>3. ~ToBeTold(p, Origins)
    BY <1>2, <2>2, NothingToTell
  <2> QED
    BY <1>5, <1>6, <2>1, <2>3
<1>7. ASSUME NEW c \in Commits, NEW r \in Requests, Apply(c, r)
      PROVE  TrueKind(unread'.merged[p].kind, p, there')
  <2> DEFINE kinds == Kind(r, there)
  <2>1. kinds \in [Paths -> Kinds] /\ c \in Tellers
    BY KindType, TellersAre
  <2>2. /\ telling' = [telling EXCEPT ![c] = Outcome(kinds)]
        /\ there' = After(kinds, there) /\ step[c] = "started" /\ unread' = unread
    BY <1>7 DEF Apply, feedVars
  <2>3. kinds[p] = "none" => (p \in there' <=> p \in there)
    BY <2>2, AfterIs
  <2> HIDE DEF kinds
  <2>4. telling[c] = <<>>
    BY <2>1, <2>2 DEF Places
  <2>5. ~ToBeTold(p, Origins) /\ LogSilent(p) /\ kinds[p] = "none"
    BY <1>1, <2>1, <2>2, <2>4, ReadSilently
  <2> QED
    BY <1>5, <2>2, <2>3, <2>5
<1>8. ASSUME ReadLog PROVE TrueKind(unread'.merged[p].kind, p, there')
  <2> DEFINE kinds == [q \in Paths |-> "none"]
  <2>1. kinds \in [Paths -> Kinds] /\ Follower \in Tellers
    BY NoneType, TellersAre
  <2>2. /\ telling' = [telling EXCEPT ![Follower] = Outcome(kinds)]
        /\ there' = there /\ step[Follower] = "waiting" /\ unread' = unread
    BY <1>8 DEF ReadLog, feedVars
  <2> HIDE DEF kinds
  <2>4. telling[Follower] = <<>>
    BY <2>1, <2>2 DEF Places
  <2>5. ~ToBeTold(p, Origins) /\ LogSilent(p)
    BY <1>1, <2>1, <2>2, <2>4, ReadSilently
  <2> QED
    BY <1>5, <2>2, <2>5
<1>9. ASSUME ReadLogFails PROVE TrueKind(unread'.merged[p].kind, p, there')
  <2>1. /\ log' = log /\ there' = there /\ unread' = unread /\ step[Follower] = "waiting"
        /\ \A b \in Tellers \ {Follower} : telling'[b] = telling[b]
    BY <1>2, <1>9 DEF ReadLogFails, feedVars
  <2>2. telling[Follower] = <<>>
    BY <2>1, TellersAre DEF Places
  <2> QED
    BY <1>6, <2>1, <2>2
<1>10. ASSUME FollowerPanics PROVE FALSE
  <2>1. telling'[Supervisor] = <<Missed>>
    BY <1>2, <1>10, TellersAre DEF FollowerPanics
  <2>2. 1 \in DOMAIN telling'[Supervisor] /\ telling'[Supervisor][1].what = "missed"
    BY <2>1 DEF Missed
  <2> QED
    BY <1>4, <2>2, TellersAre
<1>11. ASSUME FollowerStops \/ DropInner PROVE FALSE
  <2>1. ASSUME DropInner PROVE step'[Inner] = "telling"
    BY <2>1, TellersAre DEF DropInner, TypeOK
  <2> QED
    BY <1>3, <1>11, <2>1 DEF FollowerStops
<1>12. ASSUME NEW r \in Requests, TheyCommit(r) PROVE TrueKind(unread'.merged[p].kind, p, there')
  <2>1. Kind(r, there)[p] = "none" /\ LogSilent(p)
    <3>1. Len(log) + 1 \in DOMAIN log' /\ \A n \in DOMAIN log : n \in DOMAIN log'
      BY <1>12, LogGrows
    <3> QED
      BY <1>12, <3>1, LogGrows DEF LogSilent
  <2>2. p \in there' <=> p \in there
    BY <1>12, <2>1, AfterIs, LogGrows
  <2>3. unread' = unread /\ telling' = telling
    BY <1>12, LogGrows
  <2>4. ~ToBeTold(p, Origins)
    BY <1>2, <1>4, <2>3, NothingToTell
  <2> QED
    BY <1>5, <2>1, <2>2, <2>3, <2>4
<1>13. ASSUME NEW a \in Tellers, Tell(a) PROVE TrueKind(unread'.merged[p].kind, p, there')
  <2> DEFINE t == telling[a][1]
  <2>1. /\ t.kinds \in [Paths -> Kinds] /\ t.origin \in Origins /\ 1 \in DOMAIN telling[a]
        /\ t.what \in {"changes", "missed", "end"}
    BY <1>13, TellIs DEF Told
  <2>2. there' = there /\ log' = log
    BY <1>13 DEF Tell
  <2>3. LogSilent(p)
    BY <2>2 DEF LogSilent
  <2>5. ~unread.storeDropped
    BY <1>3 DEF Closing
  <2>6. t.what # "end"
    <3>1. a # Inner
      BY <1>3, <1>13 DEF Tell
    <3> QED
      BY <2>1, <3>1 DEF Closing
  <2>7. ~(unread'.merged = unread.merged /\ (Blocked \/ unread.resync))
    <3>1. ASSUME unread'.merged = unread.merged PROVE unread.merged # Nothing
      BY <3>1, NothingIs
    <3> QED
      BY <2>5, <3>1 DEF Blocked, Covering
  <2>8. t.what = "changes" /\ unread'.merged = Recorded(t.kinds, t.origin)
    <3>1. unread'.merged # Nothing
      BY NothingIs
    <3> QED
      BY <1>13, <2>6, <2>7, <3>1, TellCases
  <2>9. CASE t.kinds[p] = "none"
    <3>1. unread'.merged[p] = unread.merged[p]
      <4>1. Recorded(t.kinds, t.origin)[p] = unread.merged[p]
        BY <1>2, <2>1, <2>9, RecordedIs
      <4> QED
        BY <2>8, <4>1
    <3>2. ASSUME NEW b \in Tellers, NEW m \in DOMAIN telling[b]
          PROVE  telling[b][m].what # "missed" /\ telling[b][m].kinds[p] = "none"
      <4>1. CASE b = a /\ m = 1
        BY <2>8, <2>9, <4>1
      <4>2. CASE \E n \in DOMAIN telling'[b] : telling'[b][n] = telling[b][m]
        BY <1>4, <4>2
      <4> QED
        BY <1>13, <4>1, <4>2, TellLeaves
    <3>3. ~ToBeTold(p, Origins)
      BY <1>2, <3>2, NothingToTell
    <3> QED
      BY <1>3, <2>2, <2>3, <3>1, <3>3 DEF KindRight
  <2>10. CASE t.kinds[p] # "none"
    <3>1. unread'.merged[p].kind = t.kinds[p]
      <4>1. Recorded(t.kinds, t.origin)[p].kind = t.kinds[p]
        BY <1>2, <2>1, <2>10, RecordedIs
      <4> QED
        BY <2>8, <4>1
    <3>2. a \in Queuers
      BY <2>1, <2>8 DEF Closing
    <3>3. ASSUME NEW m \in DOMAIN telling[a], m > 1 PROVE telling[a][m].kinds[p] = "none"
      <4>1. m # 1
        BY <3>3
      <4>2. PICK n \in DOMAIN telling'[a] : telling'[a][n] = telling[a][m]
        BY <1>13, <4>1, TellLeaves
      <4> QED
        BY <1>4, <4>2
    <3>4. TrueKind(t.kinds[p], p, there)
      BY <2>1, <2>3, <2>10, <3>2, <3>3 DEF TellingIsRight
    <3> QED
      BY <2>2, <3>1, <3>4
  <2> QED
    BY <2>9, <2>10
<1>14. ASSUME Look \/ DropFeed PROVE FALSE
  <2>1. unread'.merged = Nothing
    BY <1>2, <1>14, ReadAll, FeedIsDropped DEF Look
  <2> QED
    BY <2>1, NothingIs
<1>15. ASSUME NEW q \in Paths, ReadAgain(q) PROVE TrueKind(unread'.merged[p].kind, p, there')
  BY <1>6, <1>15 DEF ReadAgain
<1>16. ASSUME UNCHANGED Data PROVE TrueKind(unread'.merged[p].kind, p, there')
  BY <1>6, <1>16 DEF Data
<1> QED
  BY <1>7, <1>8, <1>9, <1>10, <1>11, <1>12, <1>13, <1>14, <1>15, <1>16, DataSteps

-----------------------------------------------------------------------------
(* The theorems.                                                           *)

LEMMA Initially ==
  ASSUME Init
  PROVE  IInv
<1>1. /\ unread = [resync |-> FALSE, merged |-> Nothing, storeDropped |-> FALSE,
                   feedDropped |-> FALSE]
      /\ permit = FALSE /\ reader = "app" /\ inHand = [p \in Paths |-> "nothing"]
      /\ there \in SUBSET Paths /\ log = <<>> /\ theirs = 0 /\ newer = FALSE /\ failures = 0
      /\ handles = "held" /\ turn = <<>> /\ step = [a \in Tellers |-> "new"]
      /\ telling = [a \in Tellers |-> <<>>] /\ waits = {} /\ failing = FALSE
      /\ ours = {} /\ foreign = {}
  BY DEF Init, FeedInit
<1>2. \A a \in Tellers : step[a] = "new" /\ telling[a] = <<>>
  BY <1>1
<1>3. FeedTypeOK
  BY <1>1, NothingIs DEF FeedTypeOK, Unread, Readers, Doings
<1>4. Line
  <2>1. \A a \in Queuers : step[a] \notin InLine
    BY <1>2, TellersAre DEF InLine
  <2> QED
    BY <1>1, <2>1 DEF Line, IsInjective, Range
<1>5. step \in [Tellers -> Steps]
  BY <1>1 DEF Steps
<1>6. telling \in [Tellers -> Seq(Told)] /\ log \in Seq([Paths -> Kinds])
  BY <1>1
<1>7. Others
  <2>1. theirs \in 0..MaxTheirs /\ failures \in 0..MaxFailures
    BY <1>1, StoreAssumption
  <2> QED
    BY <1>1, <1>6, <2>1 DEF Others
<1>8. TypeOK
  BY <1>3, <1>4, <1>5, <1>7, TypeParts
<1>9. Places
  BY <1>1, <1>2, TellersAre DEF Places
<1>10. Closing
  BY <1>1, <1>2, TellersAre DEF Closing
<1>11. Covering /\ Awake /\ OursComing /\ ForeignComing
  BY <1>1 DEF Covering, Awake, OursComing, ForeignComing
<1>12. LogIsRight
  BY <1>1 DEF LogIsRight
<1>13. TellingIsRight
  BY <1>2, TellersAre DEF TellingIsRight
<1>14. KindIsLatest
  <2>1. \A p \in Paths : unread.merged[p].kind = "none"
    BY <1>1, NothingIs
  <2> QED
    BY <2>1 DEF KindIsLatest
<1> QED
  BY <1>8, <1>9, <1>10, <1>11, <1>12, <1>13, <1>14 DEF IInv

(* The inductive invariant holds in every reachable state.                 *)
THEOREM FeedInductive == Spec => []IInv
<1>1. Init => IInv
  BY Initially
<1>2. ASSUME IInv, [Next]_vars PROVE IInv'
  <2>1. /\ TypeOK /\ Places /\ Closing /\ Covering /\ Awake /\ OursComing /\ ForeignComing
        /\ LogIsRight /\ TellingIsRight /\ KindIsLatest
    BY <1>2 DEF IInv
  <2>2. TypeOK' /\ Places'
    BY <1>2, <2>1, Types, Moves
  <2>3. Closing' /\ Covering' /\ Awake'
    BY <1>2, <2>1, StaysClosing, StaysCovered, StaysAwake
  <2>4. OursComing' /\ ForeignComing'
    BY <1>2, <2>1, OursStayComing, ForeignStayComing
  <2>5. LogIsRight' /\ TellingIsRight' /\ KindIsLatest'
    BY <1>2, <2>1, LogStaysRight, TellingStaysRight, KindStaysLatest
  <2> QED
    BY <2>2, <2>3, <2>4, <2>5 DEF IInv
<1> QED
  BY <1>1, <1>2, PTL DEF Spec

(* Every variable keeps its type, and commit_order's queue holds, once, each *)
(* Commit and Follower that waits for the turn or works under it.            *)
THEOREM TypeCorrect == Spec => []TypeOK
<1>1. IInv => TypeOK
  BY DEF IInv
<1> QED
  BY <1>1, FeedInductive, PTL

(* Nobody waits while there is something to be had, whatever comes between  *)
(* the reader's looking and its waiting (ChangeFeed::next), and whenever the *)
(* app drops the future.                                                     *)
THEOREM NobodySleepsOn == Spec => []NoLostWakeUp
<1>1. IInv => NoLostWakeUp
  BY DEF IInv, Awake, ToHave, NoLostWakeUp
<1> QED
  BY <1>1, FeedInductive, PTL

(* The feed ends only when nothing more can be recorded and all that was has *)
(* been read (Inner::drop).                                                  *)
THEOREM EndsAtTheEnd == Spec => []EndIsTheEnd
<1>1. ASSUME IInv, reader = "ended"
      PROVE  /\ handles = "dropped"
             /\ ours = {} \/ unread.feedDropped
             /\ \A c \in Commits : step[c] \in {"new", "done", "never"}
  <2>1. /\ TypeOK /\ Places /\ Closing /\ Covering /\ OursComing
    BY <1>1 DEF IInv
  <2>2. /\ unread.storeDropped /\ ~unread.resync /\ unread.merged = Nothing
        /\ step[Inner] # "new" /\ ~Held
    BY <1>1, <2>1 DEF Closing
  <2>3. handles = "dropped" /\ \A c \in Commits : step[c] \notin {"started", "telling", "waking"}
    BY <2>1, <2>2 DEF Held, TypeOK
  <2>4. \A c \in Commits : step[c] # "waiting"
    BY <2>1, <2>3 DEF Places
  <2>5. \A c \in Commits : step[c] \in {"new", "done", "never"}
    <3>1. \A c \in Commits : step[c] \in Steps
      BY <2>1, TellersAre DEF TypeOK
    <3> QED
      BY <2>3, <2>4, <3>1 DEF Steps
  <2>6. ASSUME ~unread.feedDropped, NEW p \in ours PROVE FALSE
    <3>1. p \in Paths /\ OwnOnItsWay(p)
      BY <2>1, <2>6 DEF OursComing, TypeOK
    <3>2. unread.merged[p].kind = "none" /\ inHand[p] = "nothing"
      BY <1>1, <2>1, <2>2, <3>1, NothingIs DEF Covering
    <3>3. \A c \in Commits : telling[c] = <<>>
      BY <2>1, <2>3, TellersAre DEF Places
    <3> QED
      BY <2>2, <3>1, <3>2, <3>3 DEF OwnOnItsWay
  <2> QED
    BY <2>3, <2>5, <2>6
<1>2. IInv => EndIsTheEnd
  BY <1>1 DEF EndIsTheEnd
<1> QED
  BY <1>2, FeedInductive, PTL

(* No Change goes untold while the feed is there: what this Store changed is *)
(* on its way to the app, and what others changed is on its way as theirs    *)
(* (Store::commit, follow_other_stores, Unread::record).                     *)
THEOREM NothingUntold == Spec => []OnTheirWay
<1>1. ASSUME IInv PROVE OnTheirWay
  <2>1. /\ TypeOK /\ OursComing /\ ForeignComing
    BY <1>1 DEF IInv
  <2>2. /\ telling \in [Tellers -> Seq(Told)] /\ ours \subseteq Paths /\ foreign \subseteq Paths
        /\ FeedTypeOK
    BY <2>1 DEF TypeOK
  <2>3. ASSUME NEW p \in ours, OwnOnItsWay(p) PROVE OnItsWay(p, Origins)
    <3>1. unread.merged[p].origin \in Origins /\ inHand[p] \in Doings
      BY <2>2 DEF FeedTypeOK, Unread
    <3>2. inHand[p] # "nothing" => inHand[p] \in Origins
      BY <3>1 DEF Doings, Origins
    <3>3. ASSUME NEW c \in Commits, NEW n \in DOMAIN telling[c], telling[c][n].kinds[p] # "none"
          PROVE  ToBeTold(p, Origins)
      <4>1. c \in Tellers
        BY TellersAre
      <4> QED
        BY <2>2, <3>3, <4>1, NothingToTell
    <3> QED
      BY <2>3, <3>1, <3>2, <3>3 DEF OwnOnItsWay, OnItsWay
  <2> QED
    BY <2>1, <2>3 DEF OnTheirWay, OursComing, ForeignComing
<1> QED
  BY <1>1, FeedInductive, PTL

(* A merged Change says truly whether its Path was changed or removed, once  *)
(* all that was committed is recorded (Inner::commit_order).                 *)
THEOREM KindsAreTrue == Spec => []KindIsLatest
<1>1. IInv => KindIsLatest
  BY DEF IInv
<1> QED
  BY <1>1, FeedInductive, PTL
=============================================================================
