-------------------------- MODULE SqliteLogProofs --------------------------
(***************************************************************************)
(* What holds of SqliteLog for any Stores, clocks, retention and number of *)
(* Commits, unless the Location is removed while a Store opens it.         *)
(***************************************************************************)
EXTENDS SqliteLog, SequenceTheorems, WellFoundedInduction, TLAPS

-----------------------------------------------------------------------------
(* The inductive invariant.                                                *)

(* What Store s knows of the database at l: its own number there, and how    *)
(* far it has read the log.                                                  *)
Numbered(l) ==
  /\ l.on \in 1..Len(databases)
  /\ l.store \in 1..databases[l.on].stores
  /\ l.seen \in 0..Len(databases[l.on].commits)

(* The database at its place is the last one made.                         *)
LastIsThere == place \in {0, Len(databases)}

(* Where Store s is, and which databases it has open.  It opens one again    *)
(* only if another is at the database's place, or none, and that is one it   *)
(* has no number on.                                                         *)
KnowsItsPlace(s) ==
  /\ step[s] = "closed" => op[s] = "open"
  /\ step[s] = "idle" <=> op[s] = "none"
  /\ op[s] = "open" =>
       /\ step[s] \in {"closed", "opening", "connected", "registered"}
       /\ reader[s] = NotOpen /\ heard[s] = <<>>
       /\ step[s] # "registered" => untold[s] = {}
  /\ op[s] # "open" => Numbered(reader[s]) /\ reader[s].database = reader[s].on
  /\ step[s] = "opening" /\ op[s] # "open" => reader[s].on # place
  /\ step[s] \in {"connected", "registered"} =>
       opening[s].on = place /\ reader[s].on < place
  /\ step[s] = "connected" => opening[s] = [NotOpen EXCEPT !.on = place]
  /\ step[s] = "registered" => Numbered(opening[s])

(* The connections on which Store s has a number.                          *)
Connections(s) ==
  {l \in {reader[s]} : op[s] # "open"} \cup {l \in {opening[s]} : step[s] = "registered"}

(* A number on a database is one Store's.                                  *)
OwnNumbers ==
  \A s, r \in Stores : s # r =>
    \A l \in Connections(s), m \in Connections(r) : l.on = m.on => l.store # m.store

(* The log says of each Commit whose it is.                                  *)
LogIsTrue ==
  \A d \in DOMAIN databases : \A id \in DOMAIN databases[d].commits :
    LET c == databases[d].commits[id] IN
    /\ c.by \in 1..databases[d].stores
    /\ reader[c.who].on >= d
    /\ \A s \in Stores : \A l \in Connections(s) :
         l.on = d => (c.by = l.store <=> c.who = s)

(* A Store has been told of what it has read.                                *)
HeardAll(s) ==
  heard[s] # <<>> /\ ~reader[s].missed => heard[s][Len(heard[s])].id = reader[s].seen

(* What is in the log after what s has read there is its own, or it is to be *)
(* told of it.                                                               *)
Follows(s) ==
  \A l \in Connections(s) : l.on = place =>
    \A id \in (l.seen + 1)..Len(databases[place].commits) :
      databases[place].commits[id].who = s \/ [on |-> place, id |-> id] \in untold[s]

SInv ==
  /\ TypeOK
  /\ LastIsThere
  /\ \A s \in Stores : KnowsItsPlace(s) /\ HeardAll(s) /\ Follows(s)
  /\ OwnNumbers
  /\ LogIsTrue
  /\ NothingIsLost
  /\ HeardOnceInOrder
  /\ OriginIsTrue
  /\ OnTheDatabaseThere

-----------------------------------------------------------------------------
(* Numbers and sequences.                                                  *)

(* Some numbers none of which is above b have a greatest.                  *)
LEMMA MaxIs ==
  ASSUME NEW b \in Nat, NEW S \in SUBSET (0..b), S # {}
  PROVE  Max(S) \in S /\ \A x \in S : x <= Max(S)
<1> DEFINE T == {b - x : x \in S}
<1>1. T \subseteq Nat
  OBVIOUS
<1>2. \E x \in S : b - x \in T
  OBVIOUS
<1>3. T # {}
  BY <1>2
<1>4. PICK y \in T : \A z \in T : ~ (<<z, y>> \in OpToRel(<, Nat))
  BY <1>1, <1>3, NatLessThanWellFounded, WFMin
<1>5. \A z \in T : ~(z < y)
  BY <1>1, <1>4 DEF OpToRel
<1>6. PICK m \in S : y = b - m
  OBVIOUS
<1>7. ASSUME NEW x \in S
      PROVE  m >= x
  <2>1. b - x \in T
    OBVIOUS
  <2>2. ~(b - x < b - m)
    BY <1>5, <1>6, <2>1
  <2>3. QED
    BY <2>2
<1>8. Max(S) \in S /\ \A x \in S : Max(S) >= x
  BY <1>7 DEF Max
<1>9. QED
  BY <1>8

LEMMA MaxOfTwo ==
  ASSUME NEW x \in Nat, NEW y \in Nat
  PROVE  /\ Max({x, y}) \in Nat /\ Max({x, y}) >= x /\ Max({x, y}) >= y
         /\ Max({x, y}) \in {x, y}
<1>1. \E m \in {x, y} : \A n \in {x, y} : m >= n
  OBVIOUS
<1>2. QED
  BY <1>1 DEF Max

LEMMA FunctionIsSeq ==
  ASSUME NEW E, NEW k \in Nat, NEW f \in [1..k -> E]
  PROVE  f \in Seq(E) /\ Len(f) = k
<1>1. f \in Seq(E)
  BY SeqDef, Zenon
<1>2. QED
  BY <1>1

(* What of a database is used.                                             *)
LEMMA DatabaseType ==
  ASSUME TypeOK, NEW d \in DOMAIN databases
  PROVE  /\ databases[d] \in Database /\ DOMAIN databases = 1..Len(databases)
         /\ databases[d].commits \in Seq(Commit) /\ databases[d].pruned \in Nat
         /\ databases[d].stores \in Nat
         /\ databases[d].pruned <= Len(databases[d].commits)
         /\ Len(databases[d].commits) \in Nat
         /\ DOMAIN databases[d].commits = 1..Len(databases[d].commits)
         /\ \A id \in DOMAIN databases[d].commits :
              /\ databases[d].commits[id] \in Commit
              /\ databases[d].commits[id].by \in Nat
              /\ databases[d].commits[id].who \in Stores
<1>1. /\ databases[d] \in Database /\ DOMAIN databases = 1..Len(databases)
      /\ databases[d].pruned <= Len(databases[d].commits)
  BY DEF TypeOK
<1>2. /\ databases[d].commits \in Seq(Commit) /\ databases[d].pruned \in Nat
      /\ databases[d].stores \in Nat
  BY <1>1 DEF Database
<1>3. /\ Len(databases[d].commits) \in Nat
      /\ DOMAIN databases[d].commits = 1..Len(databases[d].commits)
  BY <1>2, LenProperties
<1>4. ASSUME NEW id \in DOMAIN databases[d].commits
      PROVE  databases[d].commits[id] \in Commit
  BY <1>2, <1>3, ElementOfSeq
<1>5. QED
  BY <1>1, <1>2, <1>3, <1>4 DEF Commit

(* A Commit is at the end of the log, whatever is pruned before it.        *)
LEMMA LoggedIs ==
  ASSUME TypeOK, NEW s \in Stores, Numbered(reader[s]), NEW t \in 0..MaxTime
  PROVE  LET d == Of(s)
             n == Len(d.commits)
         IN
         /\ Logged(s, t) \in Database /\ Logged(s, t).stores = d.stores
         /\ Len(Logged(s, t).commits) = n + 1
         /\ \A id \in 1..n : Logged(s, t).commits[id] = d.commits[id]
         /\ Logged(s, t).commits[n + 1].by = reader[s].store
         /\ Logged(s, t).commits[n + 1].who = s
         /\ Logged(s, t).pruned \in 0..(n + 1)
<1> DEFINE d == Of(s)
           n == Len(d.commits)
           c == [by |-> reader[s].store, time |-> t, who |-> s]
           commits == Append(d.commits, c)
           old == {id \in (d.pruned + 1)..Len(commits) : commits[id].time < t - Retention}
           m == Max(old \cup {d.pruned})
<1>1. reader[s].on \in DOMAIN databases
  BY DEF Numbered, TypeOK
<1>2. /\ d \in Database /\ d.commits \in Seq(Commit) /\ d.pruned \in Nat /\ d.pruned <= n
      /\ d.stores \in Nat /\ n \in Nat
  BY <1>1, DatabaseType DEF Of
<1>3. c \in Commit
  BY DEF Commit, TypeOK, LogReader
<1>4. /\ commits \in Seq(Commit) /\ Len(commits) = n + 1
      /\ \A id \in 1..n : commits[id] = d.commits[id]
      /\ commits[n + 1] = c
  BY <1>2, <1>3, AppendProperties
<1>5. m \in 0..(n + 1)
  <2>1. old \cup {d.pruned} \in SUBSET (0..(n + 1)) /\ old \cup {d.pruned} # {} /\ n + 1 \in Nat
    BY <1>2, <1>4
  <2> HIDE DEF old
  <2>2. QED
    BY <2>1, MaxIs
<1>6. Logged(s, t) = [d EXCEPT !.commits = commits, !.pruned = m]
  BY DEF Logged
<1> HIDE DEF d, n, m, commits
<1>7. Logged(s, t) = [commits |-> commits, pruned |-> m, stores |-> d.stores]
  BY <1>2, <1>6 DEF Database
<1>8. Logged(s, t) \in Database
  BY <1>2, <1>4, <1>5, <1>7 DEF Database
<1>9. QED
  BY <1>4, <1>5, <1>7, <1>8 DEF d, n

(* The end of the log after what a Store has read, and what was pruned.    *)
LEMMA ReadIs ==
  ASSUME TypeOK, NEW s \in Stores, Numbered(reader[s])
  PROVE  LET from == Max({reader[s].seen, Of(s).pruned})
             to == Len(Of(s).commits)
         IN
         /\ from \in 0..to /\ reader[s].seen <= from /\ Of(s).pruned <= from
         /\ ~Missed(s) => from = reader[s].seen
         /\ Read(s) \in Seq([id : Nat, who : Stores, origin : {"local", "external"}])
         /\ Len(Read(s)) = to - from /\ DOMAIN Read(s) = 1..(to - from)
         /\ \A n \in 1..(to - from) :
              /\ Read(s)[n].id = from + n
              /\ Read(s)[n].who = Of(s).commits[from + n].who
              /\ Read(s)[n].origin = IF Of(s).commits[from + n].by = reader[s].store
                                     THEN "local" ELSE "external"
<1> DEFINE from == Max({reader[s].seen, Of(s).pruned})
           to == Len(Of(s).commits)
<1>1. reader[s].on \in DOMAIN databases
  BY DEF Numbered, TypeOK
<1>2. /\ to \in Nat /\ Of(s).pruned \in 0..to /\ reader[s].seen \in 0..to
      /\ \A id \in 1..to : Of(s).commits[id].who \in Stores
  BY <1>1, DatabaseType DEF Of, Numbered
<1>3. /\ from \in 0..to /\ reader[s].seen <= from /\ Of(s).pruned <= from
      /\ ~Missed(s) => from = reader[s].seen
  BY <1>2, MaxOfTwo DEF Missed
<1>4. Read(s) = [n \in 1..(to - from) |->
        [id |-> from + n, who |-> Of(s).commits[from + n].who,
         origin |-> IF Of(s).commits[from + n].by = reader[s].store
                    THEN "local" ELSE "external"]]
  BY DEF Read
<1> HIDE DEF from, to
<1>5. to - from \in Nat /\ \A n \in 1..(to - from) : from + n \in 1..to /\ from + n \in Nat
  BY <1>2, <1>3
<1>6. DOMAIN Read(s) = 1..(to - from)
  BY <1>4
<1>7. \A n \in 1..(to - from) :
        /\ Read(s)[n].id = from + n
        /\ Read(s)[n].who = Of(s).commits[from + n].who
        /\ Read(s)[n].origin = IF Of(s).commits[from + n].by = reader[s].store
                               THEN "local" ELSE "external"
  BY <1>4
<1>8. \A n \in 1..(to - from) :
        Read(s)[n] \in [id : Nat, who : Stores, origin : {"local", "external"}]
  BY <1>2, <1>4, <1>5
<1>9. Read(s) \in [1..(to - from) -> [id : Nat, who : Stores, origin : {"local", "external"}]]
  BY <1>4, <1>8
<1>10. /\ Read(s) \in Seq([id : Nat, who : Stores, origin : {"local", "external"}])
       /\ Len(Read(s)) = to - from
  BY <1>5, <1>9, FunctionIsSeq
<1>11. QED
  BY <1>3, <1>6, <1>7, <1>10 DEF from, to

-----------------------------------------------------------------------------
(* What each step changes of each Store.                                   *)

(* What a Store does leaves alone what the others have of their own.       *)
Others(s) ==
  \A r \in Stores \ {s} :
    /\ reader'[r] = reader[r] /\ opening'[r] = opening[r]
    /\ step'[r] = step[r] /\ op'[r] = op[r] /\ heard'[r] = heard[r]
    /\ removed'[r] = removed[r]

LEMMA DoneIs ==
  ASSUME TypeOK, NEW s \in Stores, Done(s)
  PROVE  /\ step'[s] = "idle" /\ op'[s] = "none"
         /\ \A r \in Stores \ {s} :
              step'[r] = step[r] /\ op'[r] = op[r] /\ removed'[r] = removed[r]
         /\ step' \in [Stores -> Steps] /\ op' \in [Stores -> Ops]
         /\ removed' \in [Stores -> BOOLEAN]
BY DEF Done, TypeOK, Steps, Ops

LEMMA OpenIs ==
  ASSUME TypeOK, NEW s \in Stores, Open(s)
  PROVE  /\ step[s] = "closed" /\ step'[s] = "opening" /\ op'[s] = "open"
         /\ Others(s)
         /\ step' \in [Stores -> Steps] /\ op' \in [Stores -> Ops]
BY DEF Open, TypeOK, Steps, Ops, Others, ghosts

LEMMA ConnectIs ==
  ASSUME TypeOK, NEW s \in Stores, Connect(s)
  PROVE  /\ step[s] = "opening" /\ step'[s] = "connected" /\ op' = op
         /\ opening'[s] = [NotOpen EXCEPT !.on = place']
         /\ Others(s) /\ reader' = reader
         /\ step' \in [Stores -> Steps]
         /\ place' \in Nat => opening' \in [Stores -> LogReader]
<1>1. step[s] = "opening" /\ step'[s] = "connected" /\ op' = op /\ reader' = reader
  BY DEF Connect, TypeOK
<1>2. opening'[s] = [NotOpen EXCEPT !.on = place'] /\ Others(s)
  BY DEF Connect, TypeOK, Others, ghosts
<1>3. step' \in [Stores -> Steps]
  BY DEF Connect, TypeOK, Steps
<1>4. place' \in Nat => [NotOpen EXCEPT !.on = place'] \in LogReader
  BY DEF NotOpen, LogReader
<1>5. place' \in Nat => opening' \in [Stores -> LogReader]
  BY <1>4 DEF Connect, TypeOK
<1>6. QED
  BY <1>1, <1>2, <1>3, <1>5

LEMMA RegisterIs ==
  ASSUME TypeOK, NEW s \in Stores, Register(s), opening[s].on \in DOMAIN databases
  PROVE  LET d == opening[s].on IN
         /\ step[s] = "connected" /\ step'[s] = "registered" /\ op' = op
         /\ opening'[s].on = d /\ opening'[s].store = databases[d].stores + 1
         /\ opening'[s].seen = Len(databases[d].commits)
         /\ Others(s) /\ reader' = reader
         /\ step' \in [Stores -> Steps] /\ opening' \in [Stores -> LogReader]
         /\ databases' \in Seq(Database) /\ Len(databases') = Len(databases)
         /\ databases'[d].stores = databases[d].stores + 1
         /\ \A e \in DOMAIN databases :
              /\ databases'[e].commits = databases[e].commits
              /\ databases'[e].pruned = databases[e].pruned
              /\ e # d => databases'[e] = databases[e]
<1> DEFINE d == opening[s].on
           n == databases[d].stores + 1
           k == Len(databases[d].commits)
           x == [databases[d] EXCEPT !.stores = n]
<1>1. /\ databases[d] \in Database /\ databases \in Seq(Database) /\ d \in 1..Len(databases)
      /\ n \in Nat /\ k \in Nat
  <2>1. /\ databases[d] \in Database /\ DOMAIN databases = 1..Len(databases)
        /\ databases[d].stores \in Nat /\ Len(databases[d].commits) \in Nat
    BY DatabaseType
  <2>2. databases \in Seq(Database)
    BY DEF TypeOK
  <2>3. QED
    BY <2>1, <2>2
<1>2. x \in Database /\ x.stores = n /\ x.commits = databases[d].commits
      /\ x.pruned = databases[d].pruned
  BY <1>1 DEF Database
<1>3. databases' = [databases EXCEPT ![d] = x]
  BY DEF Register
<1> HIDE DEF x
<1>4. /\ databases' \in Seq(Database) /\ Len(databases') = Len(databases)
      /\ \A e \in 1..Len(databases) : databases'[e] = IF e = d THEN x ELSE databases[e]
  BY <1>1, <1>2, <1>3, ExceptSeq
<1>5. opening[s] \in LogReader /\ opening \in [Stores -> LogReader]
  BY DEF TypeOK
<1>6. opening' = [opening EXCEPT ![s] = [opening[s] EXCEPT !.store = n, !.seen = k]]
  BY <1>5 DEF Register
<1> HIDE DEF n, k
<1>7. /\ opening'[s].on = d /\ opening'[s].store = n /\ opening'[s].seen = k
      /\ opening' \in [Stores -> LogReader]
      /\ \A r \in Stores \ {s} : opening'[r] = opening[r]
  BY <1>1, <1>5, <1>6 DEF LogReader
<1>8. /\ step[s] = "connected" /\ step'[s] = "registered" /\ op' = op /\ reader' = reader
      /\ step' \in [Stores -> Steps]
      /\ \A r \in Stores \ {s} :
           step'[r] = step[r] /\ heard'[r] = heard[r] /\ removed'[r] = removed[r]
  BY DEF Register, TypeOK, Steps, ghosts
<1>9. DOMAIN databases = 1..Len(databases)
  BY <1>1
<1>10. QED
  BY <1>1, <1>2, <1>4, <1>7, <1>8, <1>9 DEF Others, n, k

LEMMA IdentifyIs ==
  ASSUME TypeOK, NEW s \in Stores, Identify(s)
  PROVE  /\ step[s] = "registered"
         /\ reader'[s].on = opening[s].on /\ reader'[s].store = opening[s].store
         /\ reader'[s].seen = opening[s].seen /\ reader'[s].database = place
         /\ reader'[s].missed = (op[s] # "open")
         /\ Others(s)
         /\ \/ op[s] = "open" /\ step'[s] = "idle" /\ op'[s] = "none"
            \/ op[s] # "open" /\ step'[s] = "checked" /\ op'[s] = op[s] /\ removed' = removed
         /\ step' \in [Stores -> Steps] /\ op' \in [Stores -> Ops]
         /\ reader' \in [Stores -> LogReader] /\ opening' \in [Stores -> LogReader]
         /\ removed' \in [Stores -> BOOLEAN]
<1>1. /\ opening[s] \in LogReader /\ opening \in [Stores -> LogReader]
      /\ reader \in [Stores -> LogReader] /\ place \in Nat
  BY DEF TypeOK
<1> DEFINE m == (op[s] # "open")
<1>2. m \in BOOLEAN
  OBVIOUS
<1>3. reader' = [reader EXCEPT ![s] = [opening[s] EXCEPT !.database = place, !.missed = m]]
  BY DEF Identify
<1> HIDE DEF m
<1>4. /\ reader'[s].on = opening[s].on /\ reader'[s].store = opening[s].store
      /\ reader'[s].seen = opening[s].seen /\ reader'[s].database = place
      /\ reader' \in [Stores -> LogReader]
      /\ \A r \in Stores \ {s} : reader'[r] = reader[r]
  BY <1>1, <1>2, <1>3 DEF LogReader
<1>5. reader'[s].missed = m
  BY <1>1, <1>2, <1>3, Zenon DEF LogReader
<1>6. /\ step[s] = "registered"
      /\ \A r \in Stores \ {s} : opening'[r] = opening[r] /\ heard'[r] = heard[r]
  BY <1>1 DEF Identify
<1>7. opening' \in [Stores -> LogReader]
  BY <1>1 DEF Identify, NotOpen, LogReader
<1>8. CASE op[s] = "open"
  BY <1>4, <1>5, <1>6, <1>7, <1>8, DoneIs DEF Identify, Others, m
<1>9. CASE op[s] # "open"
  <2>1. /\ step'[s] = "checked" /\ op' = op /\ removed' = removed
        /\ \A r \in Stores \ {s} : step'[r] = step[r]
        /\ step' \in [Stores -> Steps] /\ op' \in [Stores -> Ops]
        /\ removed' \in [Stores -> BOOLEAN]
    BY <1>9 DEF Identify, TypeOK, Steps
  <2>2. QED
    BY <1>4, <1>5, <1>6, <1>7, <1>9, <2>1 DEF Others, m
<1>10. QED
  BY <1>8, <1>9

LEMMA OpenFailsIs ==
  ASSUME TypeOK, NEW s \in Stores, OpenFails(s)
  PROVE  /\ step[s] \in {"opening", "connected"} /\ Others(s)
         /\ \/ op[s] = "open" /\ step'[s] = "closed" /\ op'[s] = op[s]
            \/ op[s] # "open" /\ step'[s] = "idle" /\ op'[s] = "none"
         /\ step' \in [Stores -> Steps] /\ op' \in [Stores -> Ops]
         /\ opening' \in [Stores -> LogReader]
         /\ removed' \in [Stores -> BOOLEAN]
<1>1. /\ step[s] \in {"opening", "connected"}
      /\ opening' \in [Stores -> LogReader]
      /\ \A r \in Stores \ {s} : opening'[r] = opening[r] /\ heard'[r] = heard[r]
                                 /\ reader'[r] = reader[r]
  BY DEF OpenFails, TypeOK, NotOpen, LogReader
<1>2. CASE op[s] = "open"
  BY <1>1, <1>2 DEF OpenFails, TypeOK, Others, Steps
<1>3. CASE op[s] # "open"
  BY <1>1, <1>3, DoneIs DEF OpenFails, Others
<1>4. QED
  BY <1>2, <1>3

LEMMA BeginIs ==
  ASSUME TypeOK, NEW s \in Stores, NEW o \in {"commit", "poll", "read"}, Begin(s, o)
  PROVE  /\ step[s] = "idle" /\ op'[s] = o
         /\ \/ place = reader[s].database /\ step'[s] = "checked"
            \/ place # reader[s].database /\ step'[s] = "opening"
         /\ Others(s)
         /\ step' \in [Stores -> Steps] /\ op' \in [Stores -> Ops]
BY DEF Begin, TypeOK, Others, Steps, Ops, ghosts

-----------------------------------------------------------------------------
(* What a Store is told.                                                   *)

Entry == [id : Nat, who : Stores, origin : {"local", "external"}]

InOrder(h) == \A n \in DOMAIN h : n > 1 => h[n].id = h[n - 1].id + 1

SaysWhose(h, s) == \A n \in DOMAIN h : h[n].origin = "local" <=> h[n].who = s

LastId(h) == h[Len(h)].id

LEMMA JoinedIs ==
  ASSUME NEW a \in Seq(Entry), NEW b \in Seq(Entry), NEW s \in Stores,
         InOrder(a), InOrder(b), SaysWhose(a, s), SaysWhose(b, s),
         a # <<>> /\ b # <<>> => b[1].id = LastId(a) + 1
  PROVE  /\ a \o b \in Seq(Entry) /\ InOrder(a \o b) /\ SaysWhose(a \o b, s)
         /\ a \o b = <<>> <=> (a = <<>> /\ b = <<>>)
         /\ LastId(a \o b) = IF b = <<>> THEN LastId(a) ELSE LastId(b)
<1> DEFINE h == a \o b
<1>1. /\ h \in Seq(Entry) /\ Len(h) = Len(a) + Len(b)
      /\ \A n \in 1..Len(h) : h[n] = IF n <= Len(a) THEN a[n] ELSE b[n - Len(a)]
  BY ConcatProperties
<1>2. /\ Len(a) \in Nat /\ Len(b) \in Nat /\ DOMAIN a = 1..Len(a) /\ DOMAIN b = 1..Len(b)
      /\ DOMAIN h = 1..Len(h) /\ Len(h) \in Nat
  BY <1>1, LenProperties
<1>3. /\ a = <<>> <=> Len(a) = 0
      /\ b = <<>> <=> Len(b) = 0
      /\ h = <<>> <=> Len(h) = 0
  BY <1>1, EmptySeq
<1> HIDE DEF h
<1>4. InOrder(h)
  <2> SUFFICES ASSUME NEW n \in 1..Len(h), n > 1
               PROVE  h[n].id = h[n - 1].id + 1
    BY <1>2 DEF InOrder
  <2>1. CASE n <= Len(a)
    <3>1. h[n] = a[n] /\ h[n - 1] = a[n - 1] /\ n \in DOMAIN a
      BY <1>1, <1>2, <2>1
    <3>2. QED
      BY <3>1 DEF InOrder
  <2>2. CASE n = Len(a) + 1
    <3>1. h[n] = b[1] /\ h[n - 1] = a[Len(a)] /\ Len(b) # 0 /\ Len(a) # 0
      BY <1>1, <1>2, <2>2
    <3>2. QED
      BY <1>3, <3>1 DEF LastId
  <2>3. CASE n > Len(a) + 1
    <3>1. /\ h[n] = b[n - Len(a)] /\ h[n - 1] = b[(n - Len(a)) - 1]
          /\ n - Len(a) \in DOMAIN b /\ n - Len(a) > 1
      <4>1. n - Len(a) \in DOMAIN b /\ n - Len(a) > 1
        BY <1>1, <1>2, <2>3
      <4>2. /\ n \in 1..Len(h) /\ ~(n <= Len(a))
            /\ n - 1 \in 1..Len(h) /\ ~(n - 1 <= Len(a))
            /\ (n - 1) - Len(a) = (n - Len(a)) - 1
        BY <1>2, <2>3
      <4>3. h[n] = b[n - Len(a)] /\ h[n - 1] = b[(n - 1) - Len(a)]
        BY <1>1, <4>2
      <4>4. QED
        BY <4>1, <4>2, <4>3
    <3>2. QED
      BY <3>1 DEF InOrder
  <2>4. QED
    BY <1>2, <2>1, <2>2, <2>3
<1>5. SaysWhose(h, s)
  <2> SUFFICES ASSUME NEW n \in 1..Len(h)
               PROVE  h[n].origin = "local" <=> h[n].who = s
    BY <1>2 DEF SaysWhose
  <2>1. CASE n <= Len(a)
    <3>1. n \in DOMAIN a /\ h[n] = a[n]
      BY <1>1, <1>2, <2>1
    <3>2. QED
      BY <3>1 DEF SaysWhose
  <2>2. CASE ~(n <= Len(a))
    <3>1. n - Len(a) \in DOMAIN b /\ h[n] = b[n - Len(a)]
      BY <1>1, <1>2, <2>2
    <3>2. QED
      BY <3>1, Zenon DEF SaysWhose
  <2>3. QED
    BY <2>1, <2>2
<1>6. LastId(h) = IF b = <<>> THEN LastId(a) ELSE LastId(b)
  <2>1. CASE b = <<>>
    BY <2>1, ConcatEmptySeq DEF h
  <2>2. CASE b # <<>>
    <3>1. h[Len(h)] = b[Len(b)]
      BY <1>1, <1>2, <1>3, <2>2
    <3>2. QED
      BY <2>2, <3>1 DEF LastId
  <2>3. QED
    BY <2>1, <2>2
<1>7. h = <<>> <=> (a = <<>> /\ b = <<>>)
  BY <1>1, <1>2, <1>3
<1>8. QED
  BY <1>1, <1>4, <1>5, <1>6, <1>7 DEF h

(* What it reads goes on from what it was told before.                     *)
LEMMA ReadOnIs ==
  ASSUME TypeOK, LogIsTrue, HeardOnceInOrder, OriginIsTrue, NEW s \in Stores,
         op[s] # "open", KnowsItsPlace(s), HeardAll(s)
  PROVE  LET h == (IF Missed(s) THEN <<>> ELSE heard[s]) \o Read(s) IN
         /\ h \in Seq(Entry) /\ InOrder(h) /\ SaysWhose(h, s)
         /\ h # <<>> => LastId(h) = Len(Of(s).commits)
<1> DEFINE a == IF Missed(s) THEN <<>> ELSE heard[s]
           b == Read(s)
           to == Len(Of(s).commits)
<1>1. Numbered(reader[s])
  BY DEF KnowsItsPlace
<1> DEFINE from == Max({reader[s].seen, Of(s).pruned})
<1>2. /\ from \in 0..to /\ (~Missed(s) => from = reader[s].seen)
      /\ b \in Seq(Entry) /\ Len(b) = to - from /\ DOMAIN b = 1..(to - from)
      /\ \A n \in 1..(to - from) :
           /\ b[n].id = from + n
           /\ b[n].who = Of(s).commits[from + n].who
           /\ b[n].origin = IF Of(s).commits[from + n].by = reader[s].store
                            THEN "local" ELSE "external"
  BY <1>1, ReadIs DEF Entry
<1>3. /\ reader[s].on \in DOMAIN databases /\ to \in Nat
      /\ DOMAIN databases[reader[s].on].commits = 1..to
  <2>1. reader[s].on \in DOMAIN databases
    BY <1>1 DEF Numbered, TypeOK
  <2>2. QED
    BY <2>1, DatabaseType DEF Of
<1>4. \A id \in 1..to : Of(s).commits[id].by = reader[s].store <=> Of(s).commits[id].who = s
  BY <1>3 DEF LogIsTrue, Connections, Of
<1> HIDE DEF a, b, to, from
<1>5. InOrder(b)
  <2> SUFFICES ASSUME NEW n \in 1..(to - from), n > 1
               PROVE  b[n].id = b[n - 1].id + 1
    BY <1>2 DEF InOrder
  <2>1. to - from \in Nat /\ from \in Nat
    BY <1>2, <1>3
  <2>2. n - 1 \in 1..(to - from)
    BY <2>1
  <2>3. b[n].id = from + n /\ b[n - 1].id = from + (n - 1)
    BY <1>2, <2>2
  <2>4. QED
    BY <2>1, <2>3
<1>6. SaysWhose(b, s)
  <2> SUFFICES ASSUME NEW n \in 1..(to - from)
               PROVE  b[n].origin = "local" <=> b[n].who = s
    BY <1>2 DEF SaysWhose
  <2>1. from + n \in 1..to
    BY <1>2, <1>3
  <2>2. Of(s).commits[from + n].by = reader[s].store <=> b[n].who = s
    BY <1>2, <1>4, <2>1
  <2>3. QED
    BY <1>2, <2>2
<1>7. a \in Seq(Entry) /\ InOrder(a) /\ SaysWhose(a, s)
  <2>1. CASE Missed(s)
    BY <2>1, EmptySeq DEF a, InOrder, SaysWhose
  <2>2. CASE ~Missed(s)
    BY <2>2 DEF a, InOrder, SaysWhose, HeardOnceInOrder, OriginIsTrue, TypeOK, Entry
  <2>3. QED
    BY <2>1, <2>2
<1>8. a # <<>> => from = reader[s].seen /\ LastId(a) = from
  BY <1>2 DEF a, HeardAll, LastId, Missed
<1>9. /\ b = <<>> <=> Len(b) = 0
  BY <1>2, EmptySeq
<1>10. a # <<>> /\ b # <<>> => b[1].id = LastId(a) + 1
  <2>1. b # <<>> => b[1].id = from + 1
    BY <1>2, <1>3, <1>9
  <2>2. QED
    BY <1>8, <2>1
<1>11. b # <<>> => LastId(b) = to
  BY <1>2, <1>3, <1>9 DEF LastId
<1>12. b = <<>> => from = to
  BY <1>2, <1>3, <1>9
<1>13. /\ a \o b \in Seq(Entry) /\ InOrder(a \o b) /\ SaysWhose(a \o b, s)
       /\ a \o b = <<>> <=> (a = <<>> /\ b = <<>>)
       /\ LastId(a \o b) = IF b = <<>> THEN LastId(a) ELSE LastId(b)
  BY <1>2, <1>5, <1>6, <1>7, <1>10, JoinedIs
<1>14. a \o b # <<>> => LastId(a \o b) = to
  BY <1>8, <1>11, <1>12, <1>13
<1>15. QED
  BY <1>13, <1>14 DEF a, b, to

(* And its own Commit after that.                                          *)
LEMMA OwnAfterIs ==
  ASSUME TypeOK, LogIsTrue, HeardOnceInOrder, OriginIsTrue, NEW s \in Stores,
         op[s] # "open", KnowsItsPlace(s), HeardAll(s)
  PROVE  LET h == ((IF Missed(s) THEN <<>> ELSE heard[s]) \o Read(s)) \o <<OwnCommit(s)>> IN
         /\ h \in Seq(Entry) /\ InOrder(h) /\ SaysWhose(h, s)
         /\ LastId(h) = Appended(s)
<1> DEFINE a == (IF Missed(s) THEN <<>> ELSE heard[s]) \o Read(s)
           b == <<OwnCommit(s)>>
<1>1. /\ a \in Seq(Entry) /\ InOrder(a) /\ SaysWhose(a, s)
      /\ a # <<>> => LastId(a) = Len(Of(s).commits)
  BY ReadOnIs
<1>2. Len(Of(s).commits) \in Nat
  <2>1. reader[s].on \in DOMAIN databases
    BY DEF KnowsItsPlace, Numbered, TypeOK
  <2>2. QED
    BY <2>1, DatabaseType DEF Of
<1>3. OwnCommit(s) \in Entry /\ OwnCommit(s).id = Appended(s) /\ OwnCommit(s).who = s
      /\ OwnCommit(s).origin = "local" /\ Appended(s) = Len(Of(s).commits) + 1
  BY <1>2 DEF OwnCommit, Appended, Entry
<1>4. b \in Seq(Entry) /\ Len(b) = 1 /\ DOMAIN b = 1..1 /\ b[1] = OwnCommit(s) /\ b # <<>>
  BY <1>3
<1> HIDE DEF a, b
<1>5. InOrder(b) /\ SaysWhose(b, s) /\ LastId(b) = Appended(s)
  BY <1>3, <1>4 DEF InOrder, SaysWhose, LastId
<1>6. a # <<>> /\ b # <<>> => b[1].id = LastId(a) + 1
  BY <1>1, <1>3, <1>4
<1>7. /\ a \o b \in Seq(Entry) /\ InOrder(a \o b) /\ SaysWhose(a \o b, s)
      /\ LastId(a \o b) = Appended(s)
  BY <1>1, <1>4, <1>5, <1>6, JoinedIs
<1>8. QED
  BY <1>7 DEF a, b

-----------------------------------------------------------------------------
(* What a step that uses the log changes.                                  *)

(* k Commits, 0 or 1, are appended by Store s to the database it has open.   *)
Appends(s, k) ==
  LET n == Len(Of(s).commits) IN
  /\ databases' \in Seq(Database) /\ Len(databases') = Len(databases)
  /\ \A d \in 1..Len(databases) :
       /\ databases'[d].stores = databases[d].stores
       /\ databases'[d].pruned <= Len(databases'[d].commits)
       /\ Len(databases'[d].commits) =
            IF d = reader[s].on THEN n + k ELSE Len(databases[d].commits)
       /\ \A id \in 1..Len(databases[d].commits) :
            databases'[d].commits[id] = databases[d].commits[id]
  /\ k = 1 => /\ databases'[reader[s].on].commits[n + 1].by = reader[s].store
              /\ databases'[reader[s].on].commits[n + 1].who = s

(* The others are to be told of them.                                        *)
TellsOthers(s, k) ==
  \A r \in Stores \ {s} :
    untold'[r] = IF k = 1 /\ Registered(r) /\ reader[s].on = place
                 THEN untold[r] \cup {[on |-> reader[s].on, id |-> Appended(s)]}
                 ELSE untold[r]

(* What the Store was told is all there is, up to its own Commits.           *)
TellsAll(s, k) ==
  LET n == Len(Of(s).commits) IN
  /\ reader'[s].seen = n + k /\ ~reader'[s].missed
  /\ heard'[s] \in Seq(Entry) /\ InOrder(heard'[s]) /\ SaysWhose(heard'[s], s)
  /\ heard'[s] # <<>> => LastId(heard'[s]) = n + k
  /\ \A c \in untold'[s] :
       c \in untold[s] /\ ~Missed(s) /\
       ~(c.on = reader[s].on /\ c.id \in (reader[s].seen + 1)..n)

TellsNothing(s) ==
  reader'[s] = reader[s] /\ untold'[s] = untold[s] /\ heard'[s] = heard[s]

Logging(s, k) ==
  /\ step[s] = "checked" /\ op[s] # "open" /\ step'[s] = "idle" /\ op'[s] = "none"
  /\ Others(s) /\ place' = place /\ opening' = opening
  /\ step' \in [Stores -> Steps] /\ op' \in [Stores -> Ops]
  /\ removed' \in [Stores -> BOOLEAN] /\ reader' \in [Stores -> LogReader]
  /\ reader'[s].on = reader[s].on /\ reader'[s].store = reader[s].store
  /\ reader'[s].database = reader[s].database
  /\ untold' \in [Stores -> SUBSET [on : Nat, id : Nat]]
  /\ heard' \in [Stores -> Seq(Entry)]
  /\ Appends(s, k) /\ TellsOthers(s, k)
  /\ TellsAll(s, k) \/ TellsNothing(s)

LEMMA AppendsOne ==
  ASSUME TypeOK, NEW s \in Stores, Numbered(reader[s]), NEW t \in 0..MaxTime,
         databases' = [databases EXCEPT ![reader[s].on] = Logged(s, t)]
  PROVE  Appends(s, 1)
<1> DEFINE p == reader[s].on
           n == Len(Of(s).commits)
           x == Logged(s, t)
<1>1. /\ x \in Database /\ x.stores = databases[p].stores
      /\ Len(x.commits) = n + 1
      /\ \A id \in 1..n : x.commits[id] = databases[p].commits[id]
      /\ x.commits[n + 1].by = reader[s].store /\ x.commits[n + 1].who = s
      /\ x.pruned \in 0..(n + 1)
  BY LoggedIs DEF Of
<1>2. databases \in Seq(Database) /\ p \in 1..Len(databases)
  BY DEF TypeOK, Numbered
<1>3. databases' = [databases EXCEPT ![p] = x]
  OBVIOUS
<1> HIDE DEF x
<1>4. /\ databases' \in Seq(Database) /\ Len(databases') = Len(databases)
      /\ \A e \in 1..Len(databases) : databases'[e] = IF e = p THEN x ELSE databases[e]
  BY <1>1, <1>2, <1>3, ExceptSeq
<1>5. DOMAIN databases = 1..Len(databases)
  BY <1>2
<1>6. \A d \in 1..Len(databases) : databases[d].pruned <= Len(databases[d].commits)
  BY <1>5 DEF TypeOK
<1>7. n = Len(databases[p].commits)
  BY DEF Of
<1>8. ASSUME NEW d \in 1..Len(databases)
      PROVE  /\ databases'[d].stores = databases[d].stores
             /\ databases'[d].pruned <= Len(databases'[d].commits)
             /\ Len(databases'[d].commits) =
                  IF d = p THEN n + 1 ELSE Len(databases[d].commits)
             /\ \A id \in 1..Len(databases[d].commits) :
                  databases'[d].commits[id] = databases[d].commits[id]
  <2> HIDE DEF n, p
  <2>1. CASE d = p
    <3>1. databases'[d] = x
      BY <1>4, <2>1
    <3>2. QED
      BY <1>1, <1>7, <2>1, <3>1
  <2>2. CASE d # p
    <3>1. databases'[d] = databases[d]
      BY <1>4, <2>2
    <3>2. QED
      BY <1>6, <2>2, <3>1
  <2>3. QED
    BY <2>1, <2>2
<1>9. databases'[p].commits[n + 1].by = reader[s].store /\ databases'[p].commits[n + 1].who = s
  BY <1>1, <1>2, <1>4
<1>10. QED
  BY <1>4, <1>8, <1>9 DEF Appends

LEMMA AppendsNone ==
  ASSUME TypeOK, NEW s \in Stores, Numbered(reader[s]), databases' = databases
  PROVE  Appends(s, 0)
<1>1. reader[s].on \in DOMAIN databases /\ DOMAIN databases = 1..Len(databases)
  BY DEF TypeOK, Numbered
<1>2. Len(Of(s).commits) \in Nat /\ Of(s) = databases[reader[s].on]
  BY <1>1, DatabaseType DEF Of
<1>3. QED
  BY <1>1, <1>2 DEF Appends, TypeOK

(* What it has read is not untold any more.                                *)
LEMMA UntoldIs ==
  ASSUME TypeOK, NEW s \in Stores, op[s] # "open", KnowsItsPlace(s), NEW own, Tell(s, own)
  PROVE  \A c \in untold'[s] :
           /\ c \in untold[s] /\ ~Missed(s)
           /\ ~(c.on = reader[s].on /\ c.id \in (reader[s].seen + 1)..Len(Of(s).commits))
<1> DEFINE from == Max({reader[s].seen, Of(s).pruned})
           to == Len(Of(s).commits)
<1>1. Numbered(reader[s])
  BY DEF KnowsItsPlace
<1>2. /\ from \in 0..to /\ (~Missed(s) => from = reader[s].seen)
      /\ DOMAIN Read(s) = 1..(to - from)
      /\ \A n \in 1..(to - from) : Read(s)[n].id = from + n
  BY <1>1, ReadIs
<1>3. to \in Nat
  <2>1. reader[s].on \in DOMAIN databases
    BY <1>1 DEF Numbered, TypeOK
  <2>2. QED
    BY <2>1, DatabaseType DEF Of
<1> DEFINE read == {[on |-> reader[s].on, id |-> Read(s)[n].id] : n \in DOMAIN Read(s)}
<1>4. untold'[s] = IF Missed(s) THEN {} ELSE untold[s] \ read
  BY DEF Tell
<1> SUFFICES ASSUME NEW c \in untold'[s]
             PROVE  /\ c \in untold[s] /\ ~Missed(s)
                    /\ ~(c.on = reader[s].on /\ c.id \in (reader[s].seen + 1)..to)
  OBVIOUS
<1>5. c \in untold[s] /\ ~Missed(s) /\ c \notin read
  BY <1>4
<1>6. c \in [on : Nat, id : Nat] /\ reader[s].seen \in Nat
  BY <1>5 DEF TypeOK, LogReader
<1>7. ASSUME c.on = reader[s].on, c.id \in (reader[s].seen + 1)..to
      PROVE  FALSE
  <2> DEFINE n == c.id - from
  <2>1. from = reader[s].seen
    BY <1>2, <1>5
  <2>2. n \in 1..(to - from) /\ from + n = c.id
    BY <1>2, <1>3, <1>6, <1>7, <2>1
  <2>3. n \in DOMAIN Read(s) /\ Read(s)[n].id = c.id
    BY <1>2, <2>2
  <2>4. c = [on |-> reader[s].on, id |-> Read(s)[n].id]
    BY <1>6, <1>7, <2>3
  <2>5. QED
    BY <1>5, <2>3, <2>4
<1>8. QED
  BY <1>5, <1>7

LEMMA TellIs ==
  ASSUME TypeOK, NEW s \in Stores, NEW own, NEW k \in {0, 1}, Tell(s, own),
         reader[s].on \in Nat, Appended(s) \in Nat,
         (k = 0 /\ own = <<>>) \/ (k = 1 /\ own = <<OwnCommit(s)>>)
  PROVE  /\ TellsOthers(s, k)
         /\ untold' \in [Stores -> SUBSET [on : Nat, id : Nat]]
         /\ heard'[s] = ((IF Missed(s) THEN <<>> ELSE heard[s]) \o Read(s)) \o own
         /\ \A r \in Stores \ {s} : heard'[r] = heard[r]
         /\ heard'[s] \in Seq(Entry) => heard' \in [Stores -> Seq(Entry)]
<1> DEFINE made == {[on |-> reader[s].on, id |-> own[n].id] : n \in DOMAIN own}
           new == [on |-> reader[s].on, id |-> Appended(s)]
           h == (IF Missed(s) THEN <<>> ELSE heard[s]) \o Read(s) \o own
<1>1. made = IF k = 1 THEN {new} ELSE {}
  <2>1. CASE k = 0 /\ own = <<>>
    BY <2>1
  <2>2. CASE k = 1 /\ own = <<OwnCommit(s)>>
    <3>1. DOMAIN own = {1} /\ own[1].id = Appended(s)
      BY <2>2 DEF OwnCommit
    <3>2. QED
      BY <2>2, <3>1
  <2>3. QED
    BY <2>1, <2>2
<1> DEFINE read == {[on |-> reader[s].on, id |-> Read(s)[n].id] : n \in DOMAIN Read(s)}
<1>2. untold' = [r \in Stores |->
        IF r = s THEN IF Missed(s) THEN {} ELSE untold[s] \ read
        ELSE IF Registered(r) /\ reader[s].on = place THEN untold[r] \cup made ELSE untold[r]]
  BY DEF Tell
<1>3. heard' = [heard EXCEPT ![s] = h]
  BY DEF Tell
<1> HIDE DEF made, h, read
<1>4. TellsOthers(s, k)
  <2> SUFFICES ASSUME NEW r \in Stores \ {s}
               PROVE  untold'[r] = IF k = 1 /\ Registered(r) /\ reader[s].on = place
                                   THEN untold[r] \cup {new} ELSE untold[r]
    BY DEF TellsOthers
  <2>1. untold'[r] = IF Registered(r) /\ reader[s].on = place
                     THEN untold[r] \cup made ELSE untold[r]
    BY <1>2
  <2>2. QED
    BY <1>1, <2>1
<1>5. untold' \in [Stores -> SUBSET [on : Nat, id : Nat]]
  <2>1. made \subseteq [on : Nat, id : Nat]
    BY <1>1
  <2>2. untold \in [Stores -> SUBSET [on : Nat, id : Nat]]
    BY DEF TypeOK
  <2> DEFINE u(r) == IF r = s THEN IF Missed(s) THEN {} ELSE untold[s] \ read
                     ELSE IF Registered(r) /\ reader[s].on = place
                          THEN untold[r] \cup made ELSE untold[r]
  <2>3. ASSUME NEW r \in Stores
        PROVE  u(r) \in SUBSET [on : Nat, id : Nat]
    <3>1. untold[r] \subseteq [on : Nat, id : Nat] /\ untold[s] \subseteq [on : Nat, id : Nat]
      BY <2>2
    <3>2. \/ u(r) = {} \/ u(r) = untold[s] \ read \/ u(r) = untold[r] \cup made
          \/ u(r) = untold[r]
      OBVIOUS
    <3> HIDE DEF u
    <3>3. QED
      BY <2>1, <3>1, <3>2
  <2>4. untold' = [r \in Stores |-> u(r)]
    BY <1>2
  <2> HIDE DEF u
  <2>5. QED
    BY <2>3, <2>4
<1>6. /\ heard'[s] = h /\ \A r \in Stores \ {s} : heard'[r] = heard[r]
      /\ heard'[s] \in Seq(Entry) => heard' \in [Stores -> Seq(Entry)]
  <2>1. heard \in [Stores -> Seq(Entry)]
    BY DEF TypeOK, Entry
  <2>2. QED
    BY <1>3, <2>1
<1>7. QED
  BY <1>4, <1>5, <1>6 DEF h

LEMMA MakeCommitIs ==
  ASSUME SInv, NEW s \in Stores, NEW t \in 0..MaxTime, MakeCommit(s, t)
  PROVE  Logging(s, 1)
<1>1. TypeOK /\ KnowsItsPlace(s) /\ HeardAll(s) /\ LogIsTrue /\ HeardOnceInOrder /\ OriginIsTrue
  BY DEF SInv
<1>2. step[s] = "checked" /\ op[s] = "commit" /\ op[s] # "open"
  BY DEF MakeCommit
<1>3. Numbered(reader[s])
  BY <1>1, <1>2 DEF KnowsItsPlace
<1>4. Appends(s, 1)
  BY <1>1, <1>3, AppendsOne DEF MakeCommit
<1>5. Len(Of(s).commits) \in Nat /\ reader[s].on \in Nat /\ Appended(s) \in Nat
      /\ Appended(s) = Len(Of(s).commits) + 1
  <2>1. reader[s].on \in DOMAIN databases /\ reader[s].on \in Nat
    BY <1>1, <1>3 DEF Numbered, TypeOK, LogReader
  <2>2. QED
    BY <1>1, <2>1, DatabaseType DEF Of, Appended
<1>6. Tell(s, <<OwnCommit(s)>>)
  BY DEF MakeCommit
<1>7. /\ TellsOthers(s, 1)
      /\ untold' \in [Stores -> SUBSET [on : Nat, id : Nat]]
      /\ heard'[s] = ((IF Missed(s) THEN <<>> ELSE heard[s]) \o Read(s)) \o <<OwnCommit(s)>>
      /\ \A r \in Stores \ {s} : heard'[r] = heard[r]
      /\ heard'[s] \in Seq(Entry) => heard' \in [Stores -> Seq(Entry)]
  BY <1>1, <1>5, <1>6, TellIs
<1>8. /\ heard'[s] \in Seq(Entry) /\ InOrder(heard'[s]) /\ SaysWhose(heard'[s], s)
      /\ LastId(heard'[s]) = Appended(s)
  BY <1>1, <1>2, <1>7, OwnAfterIs
<1>9. reader \in [Stores -> LogReader] /\ place' = place /\ opening' = opening
  BY <1>1 DEF TypeOK, MakeCommit
<1>10. reader' = [reader EXCEPT ![s] = [reader[s] EXCEPT !.seen = Appended(s), !.missed = FALSE]]
  BY <1>9 DEF MakeCommit
<1>11. /\ reader'[s].seen = Appended(s) /\ ~reader'[s].missed
       /\ reader'[s].on = reader[s].on /\ reader'[s].store = reader[s].store
       /\ reader'[s].database = reader[s].database
       /\ reader' \in [Stores -> LogReader] /\ \A r \in Stores \ {s} : reader'[r] = reader[r]
  BY <1>5, <1>9, <1>10 DEF LogReader
<1>12. \A c \in untold'[s] :
         /\ c \in untold[s] /\ ~Missed(s)
         /\ ~(c.on = reader[s].on /\ c.id \in (reader[s].seen + 1)..Len(Of(s).commits))
  BY <1>1, <1>2, <1>6, UntoldIs
<1>13. TellsAll(s, 1)
  BY <1>5, <1>8, <1>11, <1>12 DEF TellsAll
<1>14. /\ step'[s] = "idle" /\ op'[s] = "none"
       /\ \A r \in Stores \ {s} :
            step'[r] = step[r] /\ op'[r] = op[r] /\ removed'[r] = removed[r]
       /\ step' \in [Stores -> Steps] /\ op' \in [Stores -> Ops]
       /\ removed' \in [Stores -> BOOLEAN]
  BY <1>1, DoneIs DEF MakeCommit
<1>15. Others(s)
  BY <1>7, <1>9, <1>11, <1>14 DEF Others
<1>16. QED
  BY <1>2, <1>4, <1>7, <1>8, <1>9, <1>11, <1>13, <1>14, <1>15 DEF Logging

LEMMA ReadLogIs ==
  ASSUME SInv, NEW s \in Stores, ReadLog(s)
  PROVE  Logging(s, 0)
<1>1. TypeOK /\ KnowsItsPlace(s) /\ HeardAll(s) /\ LogIsTrue /\ HeardOnceInOrder /\ OriginIsTrue
  BY DEF SInv
<1>2. step[s] = "checked" /\ op[s] # "open"
  BY DEF ReadLog
<1>3. Numbered(reader[s])
  BY <1>1, <1>2 DEF KnowsItsPlace
<1>4. Appends(s, 0)
  BY <1>1, <1>3, AppendsNone DEF ReadLog
<1> DEFINE n == Len(Of(s).commits)
<1>5. n \in Nat /\ reader[s].on \in Nat /\ Appended(s) \in Nat
  <2>1. reader[s].on \in DOMAIN databases /\ reader[s].on \in Nat
    BY <1>1, <1>3 DEF Numbered, TypeOK, LogReader
  <2>2. QED
    BY <1>1, <2>1, DatabaseType DEF Of, Appended
<1>6. Tell(s, <<>>)
  BY DEF ReadLog
<1>7. /\ TellsOthers(s, 0)
      /\ untold' \in [Stores -> SUBSET [on : Nat, id : Nat]]
      /\ heard'[s] = ((IF Missed(s) THEN <<>> ELSE heard[s]) \o Read(s)) \o <<>>
      /\ \A r \in Stores \ {s} : heard'[r] = heard[r]
      /\ heard'[s] \in Seq(Entry) => heard' \in [Stores -> Seq(Entry)]
  BY <1>1, <1>5, <1>6, TellIs
<1> DEFINE h == (IF Missed(s) THEN <<>> ELSE heard[s]) \o Read(s)
<1>8. /\ h \in Seq(Entry) /\ InOrder(h) /\ SaysWhose(h, s)
      /\ h # <<>> => LastId(h) = n
  BY <1>1, <1>2, ReadOnIs
<1> HIDE DEF h
<1>9. heard'[s] = h
  <2>1. heard'[s] = h \o <<>>
    BY <1>7 DEF h
  <2>2. QED
    BY <1>8, <2>1, ConcatEmptySeq
<1>10. reader \in [Stores -> LogReader] /\ place' = place /\ opening' = opening
  BY <1>1 DEF TypeOK, ReadLog
<1>11. reader' = [reader EXCEPT ![s] = [reader[s] EXCEPT !.seen = n, !.missed = FALSE]]
  BY <1>10 DEF ReadLog
<1>12. /\ reader'[s].seen = n /\ ~reader'[s].missed
       /\ reader'[s].on = reader[s].on /\ reader'[s].store = reader[s].store
       /\ reader'[s].database = reader[s].database
       /\ reader' \in [Stores -> LogReader] /\ \A r \in Stores \ {s} : reader'[r] = reader[r]
  <2> HIDE DEF n
  <2>1. QED
    BY <1>5, <1>10, <1>11 DEF LogReader
<1>13. \A c \in untold'[s] :
         /\ c \in untold[s] /\ ~Missed(s)
         /\ ~(c.on = reader[s].on /\ c.id \in (reader[s].seen + 1)..n)
  BY <1>1, <1>2, <1>6, UntoldIs
<1>14. TellsAll(s, 0)
  BY <1>5, <1>8, <1>9, <1>12, <1>13 DEF TellsAll
<1>15. /\ step'[s] = "idle" /\ op'[s] = "none"
       /\ \A r \in Stores \ {s} :
            step'[r] = step[r] /\ op'[r] = op[r] /\ removed'[r] = removed[r]
       /\ step' \in [Stores -> Steps] /\ op' \in [Stores -> Ops]
       /\ removed' \in [Stores -> BOOLEAN]
  BY <1>1, DoneIs DEF ReadLog
<1>16. Others(s)
  BY <1>7, <1>10, <1>12, <1>15 DEF Others
<1>17. QED
  BY <1>2, <1>4, <1>7, <1>8, <1>9, <1>10, <1>12, <1>14, <1>15, <1>16 DEF Logging

LEMMA CommitLostIs ==
  ASSUME SInv, NEW s \in Stores, NEW t \in 0..MaxTime, CommitLost(s, t)
  PROVE  Logging(s, 1)
<1>1. TypeOK /\ KnowsItsPlace(s)
  BY DEF SInv
<1>2. step[s] = "checked" /\ op[s] = "commit" /\ op[s] # "open"
  BY DEF CommitLost
<1>3. Numbered(reader[s])
  BY <1>1, <1>2 DEF KnowsItsPlace
<1>4. Appends(s, 1)
  BY <1>1, <1>3, AppendsOne DEF CommitLost
<1>5. reader[s].on \in Nat /\ Appended(s) \in Nat
  <2>1. reader[s].on \in DOMAIN databases /\ reader[s].on \in Nat
    BY <1>1, <1>3 DEF Numbered, TypeOK, LogReader
  <2>2. QED
    BY <1>1, <2>1, DatabaseType DEF Of, Appended
<1>6. reader' = reader /\ heard' = heard /\ place' = place /\ opening' = opening
  BY DEF CommitLost
<1> DEFINE new == [on |-> reader[s].on, id |-> Appended(s)]
<1>7. untold' = [r \in Stores |-> IF r # s /\ Registered(r) /\ reader[s].on = place
                                  THEN untold[r] \cup {new} ELSE untold[r]]
  BY DEF CommitLost, ToTell
<1>8. untold \in [Stores -> SUBSET [on : Nat, id : Nat]] /\ new \in [on : Nat, id : Nat]
  BY <1>1, <1>5 DEF TypeOK
<1> HIDE DEF new
<1>9. /\ untold'[s] = untold[s]
      /\ \A r \in Stores \ {s} :
           untold'[r] = IF Registered(r) /\ reader[s].on = place
                        THEN untold[r] \cup {new} ELSE untold[r]
  BY <1>7
<1>10. untold' \in [Stores -> SUBSET [on : Nat, id : Nat]]
  <2>1. ASSUME NEW r \in Stores
        PROVE  untold'[r] \in SUBSET [on : Nat, id : Nat]
    <3>1. untold'[r] = untold[r] \/ untold'[r] = untold[r] \cup {new}
      BY <1>7
    <3>2. untold[r] \in SUBSET [on : Nat, id : Nat]
      BY <1>8
    <3>3. QED
      BY <1>8, <3>1, <3>2
  <2>2. untold' \in [Stores -> {untold'[r] : r \in Stores}]
    BY <1>7
  <2>3. QED
    BY <2>1, <2>2
<1>11. TellsOthers(s, 1)
  BY <1>9 DEF TellsOthers, new
<1>12. TellsNothing(s)
  BY <1>6, <1>9 DEF TellsNothing
<1>13. /\ step'[s] = "idle" /\ op'[s] = "none"
       /\ \A r \in Stores \ {s} :
            step'[r] = step[r] /\ op'[r] = op[r] /\ removed'[r] = removed[r]
       /\ step' \in [Stores -> Steps] /\ op' \in [Stores -> Ops]
       /\ removed' \in [Stores -> BOOLEAN]
  BY <1>1, DoneIs DEF CommitLost
<1>14. Others(s)
  BY <1>6, <1>13 DEF Others
<1>15. reader' \in [Stores -> LogReader] /\ heard' \in [Stores -> Seq(Entry)]
       /\ reader'[s].on = reader[s].on /\ reader'[s].store = reader[s].store
       /\ reader'[s].database = reader[s].database
  BY <1>1, <1>6 DEF TypeOK, Entry
<1>16. QED
  BY <1>2, <1>4, <1>6, <1>10, <1>11, <1>12, <1>13, <1>14, <1>15 DEF Logging

-----------------------------------------------------------------------------
(* The invariant after a step that uses the log.                            *)

(* The database at hand, and what was appended to it.                      *)
LEMMA LoggedOn ==
  ASSUME SInv, NEW s \in Stores, NEW k \in {0, 1}, Logging(s, k)
  PROVE  LET p == reader[s].on
             n == Len(Of(s).commits)
         IN
         /\ Numbered(reader[s]) /\ reader[s].database = p
         /\ p \in 1..Len(databases) /\ Len(databases) \in Nat
         /\ n = Len(databases[p].commits) /\ n \in Nat /\ Appended(s) = n + 1
         /\ reader[s].seen \in 0..n /\ reader[s].store \in 1..databases[p].stores
         /\ Connections(s) = {reader[s]} /\ Current(s) = reader[s]
         /\ \A d \in 1..Len(databases) :
              databases[d].stores \in Nat /\ Len(databases[d].commits) \in Nat
         /\ \A d \in 1..Len(databases) : \A id \in 1..Len(databases[d].commits) :
              databases[d].commits[id].by \in Nat /\ databases[d].commits[id].who \in Stores
         /\ \A d \in 1..Len(databases) :
              DOMAIN databases[d].commits = 1..Len(databases[d].commits)
<1> DEFINE p == reader[s].on
           n == Len(Of(s).commits)
<1>1. TypeOK /\ KnowsItsPlace(s)
  BY DEF SInv
<1>2. step[s] = "checked" /\ op[s] # "open"
  BY DEF Logging
<1>3. Numbered(reader[s]) /\ reader[s].database = p
  BY <1>1, <1>2 DEF KnowsItsPlace
<1>4. DOMAIN databases = 1..Len(databases) /\ Len(databases) \in Nat
  BY <1>1 DEF TypeOK
<1>5. p \in 1..Len(databases) /\ n = Len(databases[p].commits)
  BY <1>3 DEF Numbered, Of
<1>6. \A d \in 1..Len(databases) :
        /\ databases[d].stores \in Nat /\ Len(databases[d].commits) \in Nat
        /\ DOMAIN databases[d].commits = 1..Len(databases[d].commits)
        /\ \A id \in 1..Len(databases[d].commits) :
             databases[d].commits[id].by \in Nat /\ databases[d].commits[id].who \in Stores
  BY <1>1, <1>4, DatabaseType
<1>7. Connections(s) = {reader[s]} /\ Current(s) = reader[s]
  BY <1>2 DEF Connections, Current
<1>8. reader[s].seen \in 0..n /\ reader[s].store \in 1..databases[p].stores
  BY <1>3, <1>5 DEF Numbered
<1>9. Appended(s) = n + 1
  BY DEF Appended
<1> HIDE DEF p, n
<1>10. n \in Nat
  BY <1>5, <1>6
<1>11. QED
  BY <1>3, <1>4, <1>5, <1>6, <1>7, <1>8, <1>9, <1>10 DEF p, n

(* A number stays the Store's.                                             *)
LEMMA StaysNumbered ==
  ASSUME TypeOK, NEW l \in LogReader, Numbered(l),
         Len(databases') >= Len(databases), Len(databases') \in Nat,
         databases'[l.on].stores \in Nat, databases'[l.on].stores >= databases[l.on].stores,
         Len(databases'[l.on].commits) \in Nat,
         Len(databases'[l.on].commits) >= Len(databases[l.on].commits)
  PROVE  /\ l.on \in 1..Len(databases')
         /\ l.store \in 1..databases'[l.on].stores
         /\ l.seen \in 0..Len(databases'[l.on].commits)
<1>1. l.on \in 1..Len(databases) /\ DOMAIN databases = 1..Len(databases)
      /\ Len(databases) \in Nat
  BY DEF Numbered, TypeOK
<1>2. databases[l.on].stores \in Nat /\ Len(databases[l.on].commits) \in Nat
  BY <1>1, DatabaseType
<1>3. /\ l.store \in 1..databases[l.on].stores
      /\ l.seen \in 0..Len(databases[l.on].commits)
  BY DEF Numbered
<1>4. l.on \in 1..Len(databases')
  BY <1>1
<1>5. l.store \in 1..databases'[l.on].stores
  BY <1>2, <1>3
<1>6. l.seen \in 0..Len(databases'[l.on].commits)
  BY <1>2, <1>3
<1>7. QED
  BY <1>4, <1>5, <1>6

(* Logging grows the log, and changes nothing else of the databases.       *)
LEMMA LogGrows ==
  ASSUME SInv, NEW s \in Stores, NEW k \in {0, 1}, Logging(s, k)
  PROVE  /\ \A d \in 1..Len(databases) :
              /\ databases'[d].stores = databases[d].stores
              /\ Len(databases'[d].commits) \in Nat
              /\ Len(databases'[d].commits) >= Len(databases[d].commits)
         /\ \A l \in LogReader : Numbered(l) =>
              /\ l.on \in 1..Len(databases')
              /\ l.store \in 1..databases'[l.on].stores
              /\ l.seen \in 0..Len(databases'[l.on].commits)
<1>1. \A d \in 1..Len(databases) :
        /\ databases[d].stores \in Nat /\ Len(databases[d].commits) \in Nat
        /\ databases'[d].stores = databases[d].stores
        /\ Len(databases'[d].commits) \in Nat
        /\ Len(databases'[d].commits) >= Len(databases[d].commits)
  <2>1. /\ Len(Of(s).commits) = Len(databases[reader[s].on].commits)
        /\ Len(Of(s).commits) \in Nat
        /\ \A d \in 1..Len(databases) :
             databases[d].stores \in Nat /\ Len(databases[d].commits) \in Nat
    BY LoggedOn
  <2>2. \A d \in 1..Len(databases) :
          /\ databases'[d].stores = databases[d].stores
          /\ Len(databases'[d].commits) =
               IF d = reader[s].on THEN Len(Of(s).commits) + k ELSE Len(databases[d].commits)
    BY DEF Logging, Appends
  <2> SUFFICES ASSUME NEW d \in 1..Len(databases)
               PROVE  /\ databases[d].stores \in Nat /\ Len(databases[d].commits) \in Nat
                      /\ databases'[d].stores = databases[d].stores
                      /\ Len(databases'[d].commits) \in Nat
                      /\ Len(databases'[d].commits) >= Len(databases[d].commits)
    OBVIOUS
  <2>3. /\ databases[d].stores \in Nat /\ Len(databases[d].commits) \in Nat
        /\ databases'[d].stores = databases[d].stores
    BY <2>1, <2>2
  <2>4. CASE d = reader[s].on
    <3>1. /\ Len(databases'[d].commits) = Len(Of(s).commits) + k
          /\ Len(databases[d].commits) = Len(Of(s).commits)
      BY <2>1, <2>2, <2>4
    <3>2. QED
      BY <2>1, <2>3, <3>1
  <2>5. CASE d # reader[s].on
    BY <2>2, <2>3, <2>5
  <2>6. QED
    BY <2>4, <2>5
<1>2. TypeOK /\ Len(databases') = Len(databases) /\ Len(databases) \in Nat
  <2>1. Len(databases) \in Nat
    BY LoggedOn
  <2>2. TypeOK
    BY DEF SInv
  <2>3. Len(databases') = Len(databases)
    BY DEF Logging, Appends
  <2>4. QED
    BY <2>1, <2>2, <2>3
<1>3. ASSUME NEW l \in LogReader, Numbered(l)
      PROVE  /\ l.on \in 1..Len(databases')
             /\ l.store \in 1..databases'[l.on].stores
             /\ l.seen \in 0..Len(databases'[l.on].commits)
  <2>1. l.on \in 1..Len(databases)
    BY <1>3 DEF Numbered
  <2>2. /\ databases[l.on].stores \in Nat
        /\ databases'[l.on].stores \in Nat /\ databases'[l.on].stores >= databases[l.on].stores
        /\ Len(databases'[l.on].commits) \in Nat
        /\ Len(databases'[l.on].commits) >= Len(databases[l.on].commits)
    <3>1. /\ databases'[l.on].stores = databases[l.on].stores /\ databases[l.on].stores \in Nat
          /\ Len(databases'[l.on].commits) \in Nat
          /\ Len(databases'[l.on].commits) >= Len(databases[l.on].commits)
      BY <1>1, <2>1
    <3>2. QED
      BY <3>1
  <2>3. Len(databases') \in Nat /\ Len(databases') >= Len(databases)
    BY <1>2
  <2>4. QED
    BY <1>2, <1>3, <2>2, <2>3, StaysNumbered
<1>4. QED
  BY <1>1, <1>3

LEMMA LoggingType ==
  ASSUME SInv, NEW s \in Stores, NEW k \in {0, 1}, Logging(s, k)
  PROVE  TypeOK'
<1>1. TypeOK
  BY DEF SInv
<1>2. /\ databases' \in Seq(Database) /\ Len(databases') = Len(databases)
      /\ \A d \in 1..Len(databases) : databases'[d].pruned <= Len(databases'[d].commits)
  BY DEF Logging, Appends
<1>3. DOMAIN databases' = 1..Len(databases)
  BY <1>2
<1>4. place' \in 0..Len(databases') /\ opening' \in [Stores -> LogReader]
  BY <1>1, <1>2 DEF Logging, TypeOK
<1>5. ASSUME NEW r \in Stores, reader'[r].on # 0
      PROVE  reader'[r].seen <= Len(databases'[reader'[r].on].commits)
  <2>1. CASE r = s
    <3>1. /\ reader'[s].on = reader[s].on
          /\ Len(databases'[reader[s].on].commits) = Len(Of(s).commits) + k
          /\ Len(Of(s).commits) \in Nat /\ reader[s].seen \in 0..Len(Of(s).commits)
      BY LoggedOn DEF Logging, Appends
    <3>2. reader'[s].seen = Len(Of(s).commits) + k \/ reader'[s].seen = reader[s].seen
      BY DEF Logging, TellsAll, TellsNothing
    <3>3. QED
      BY <2>1, <3>1, <3>2
  <2>2. CASE r # s
    <3>1. reader'[r] = reader[r] /\ reader[r].on # 0
      BY <1>5, <2>2 DEF Logging, Others
    <3>2. reader[r] \in LogReader /\ reader[r].seen \in Nat
      BY <1>1 DEF TypeOK, LogReader
    <3>3. /\ reader[r].on \in 1..Len(databases)
          /\ reader[r].seen <= Len(databases[reader[r].on].commits)
      <4>1. reader[r].seen <= Len(Of(r).commits)
        BY <1>1, <3>1 DEF TypeOK
      <4>2. op[r] # "open"
        BY <3>1 DEF SInv, KnowsItsPlace, NotOpen
      <4>3. Numbered(reader[r])
        BY <4>2 DEF SInv, KnowsItsPlace
      <4>4. QED
        BY <4>1, <4>3 DEF Numbered, Of
    <3>4. Len(databases[reader[r].on].commits) \in Nat
      BY <3>3, LoggedOn
    <3>5. /\ Len(databases'[reader[r].on].commits) \in Nat
          /\ Len(databases'[reader[r].on].commits) >= Len(databases[reader[r].on].commits)
      BY <3>3, LogGrows
    <3>6. reader[r].seen <= Len(databases'[reader[r].on].commits)
      <4> DEFINE x == reader[r].seen
                 y == Len(databases[reader[r].on].commits)
                 z == Len(databases'[reader[r].on].commits)
      <4>1. x \in Nat /\ y \in Nat /\ z \in Nat /\ x <= y /\ z >= y
        BY <3>2, <3>3, <3>4, <3>5
      <4> HIDE DEF x, y, z
      <4>2. x <= z
        BY <4>1
      <4>3. QED
        BY <4>2 DEF x, z
    <3>7. QED
      BY <3>1, <3>6
  <2>3. QED
    BY <2>1, <2>2
<1>6. \A r \in Stores : reader'[r].on # 0 => reader'[r].seen <= Len(Of(r)'.commits)
  BY <1>5 DEF Of
<1>7. /\ reader' \in [Stores -> LogReader] /\ step' \in [Stores -> Steps]
      /\ op' \in [Stores -> Ops] /\ removed' \in [Stores -> BOOLEAN]
      /\ untold' \in [Stores -> SUBSET [on : Nat, id : Nat]]
      /\ heard' \in [Stores -> Seq([id : Nat, who : Stores, origin : {"local", "external"}])]
  BY DEF Logging, Entry
<1>8. QED
  BY <1>2, <1>3, <1>4, <1>6, <1>7 DEF TypeOK

LEMMA LoggingPlaces ==
  ASSUME SInv, NEW s \in Stores, NEW k \in {0, 1}, Logging(s, k)
  PROVE  LastIsThere' /\ (\A r \in Stores : KnowsItsPlace(r)') /\ OnTheDatabaseThere'
<1>1. TypeOK /\ (\A r \in Stores : KnowsItsPlace(r)) /\ LastIsThere /\ OnTheDatabaseThere
  BY DEF SInv
<1>2. LastIsThere'
  BY <1>1 DEF LastIsThere, Logging, Appends
<1>3. /\ step[s] = "checked" /\ op[s] # "open" /\ step'[s] = "idle" /\ op'[s] = "none"
      /\ reader'[s].on = reader[s].on /\ reader'[s].store = reader[s].store
      /\ reader'[s].database = reader[s].database /\ reader'[s] \in LogReader
      /\ reader[s] \in LogReader
  BY <1>1 DEF Logging, TypeOK
<1>4. KnowsItsPlace(s)'
  <2>1. /\ reader[s].on \in 1..Len(databases)
        /\ reader[s].store \in 1..databases[reader[s].on].stores
        /\ Len(Of(s).commits) \in Nat /\ reader[s].seen \in 0..Len(Of(s).commits)
        /\ reader[s].database = reader[s].on
    BY LoggedOn
  <2>2. /\ Len(databases') = Len(databases)
        /\ databases'[reader[s].on].stores = databases[reader[s].on].stores
        /\ Len(databases'[reader[s].on].commits) = Len(Of(s).commits) + k
    BY <2>1 DEF Logging, Appends
  <2>3. reader'[s].seen = Len(Of(s).commits) + k \/ reader'[s].seen = reader[s].seen
    BY DEF Logging, TellsAll, TellsNothing
  <2>4. reader'[s].seen \in 0..(Len(Of(s).commits) + k)
    BY <2>1, <2>3
  <2>5. Numbered(reader[s])'
    BY <1>3, <2>1, <2>2, <2>4 DEF Numbered
  <2>6. QED
    BY <1>3, <2>1, <2>5 DEF KnowsItsPlace
<1>5. ASSUME NEW r \in Stores \ {s}
      PROVE  KnowsItsPlace(r)'
  <2>1. /\ reader'[r] = reader[r] /\ opening'[r] = opening[r] /\ step'[r] = step[r]
        /\ op'[r] = op[r] /\ heard'[r] = heard[r] /\ place' = place
    BY DEF Logging, Others
  <2>2. KnowsItsPlace(r) /\ reader[r] \in LogReader /\ opening[r] \in LogReader
    BY <1>1 DEF TypeOK
  <2>3. op[r] # "open" => Numbered(reader[r])'
    BY <2>1, <2>2, LogGrows DEF Numbered, KnowsItsPlace
  <2>4. step[r] = "registered" => Numbered(opening[r])'
    BY <2>1, <2>2, LogGrows DEF Numbered, KnowsItsPlace
  <2>5. op[r] = "open" /\ step[r] # "registered" => untold'[r] = untold[r]
    BY <2>1, <2>2 DEF Logging, TellsOthers, Registered
  <2>6. QED
    BY <2>1, <2>2, <2>3, <2>4, <2>5 DEF KnowsItsPlace
<1>6. OnTheDatabaseThere'
  BY <1>1, <1>3 DEF Logging, Others, OnTheDatabaseThere
<1>7. QED
  BY <1>2, <1>4, <1>5, <1>6

(* The Store's own connection, and the others', after the step.            *)
LEMMA LoggingConnections ==
  ASSUME SInv, NEW s \in Stores, NEW k \in {0, 1}, Logging(s, k)
  PROVE  /\ Connections(s)' = {reader'[s]} /\ Current(s)' = reader'[s]
         /\ \A r \in Stores \ {s} :
              /\ Connections(r)' = Connections(r) /\ Current(r)' = Current(r)
              /\ Connections(r) \subseteq {reader[r], opening[r]}
              /\ \A l \in Connections(r) : Numbered(l) /\ l \in LogReader
              /\ Registered(r) <=> Current(r) \in Connections(r)
<1>1. Connections(s)' = {reader'[s]} /\ Current(s)' = reader'[s]
  BY DEF Logging, Connections, Current
<1>2. ASSUME NEW r \in Stores \ {s}
      PROVE  /\ Connections(r)' = Connections(r) /\ Current(r)' = Current(r)
             /\ Connections(r) \subseteq {reader[r], opening[r]}
             /\ \A l \in Connections(r) : Numbered(l) /\ l \in LogReader
             /\ Registered(r) <=> Current(r) \in Connections(r)
  <2>1. /\ reader'[r] = reader[r] /\ opening'[r] = opening[r] /\ step'[r] = step[r]
        /\ op'[r] = op[r]
    BY DEF Logging, Others
  <2>2. Connections(r)' = Connections(r) /\ Current(r)' = Current(r)
    BY <2>1 DEF Connections, Current
  <2>3. KnowsItsPlace(r) /\ reader[r] \in LogReader /\ opening[r] \in LogReader
    BY DEF SInv, TypeOK
  <2>4. /\ Connections(r) \subseteq {reader[r], opening[r]}
        /\ \A l \in Connections(r) : Numbered(l) /\ l \in LogReader
    BY <2>3 DEF Connections, KnowsItsPlace
  <2>5. Registered(r) <=> Current(r) \in Connections(r)
    BY <2>3 DEF Connections, Current, Registered, KnowsItsPlace
  <2>6. QED
    BY <2>2, <2>4, <2>5
<1>3. QED
  BY <1>1, <1>2

LEMMA LoggingOwnNumbers ==
  ASSUME SInv, NEW s \in Stores, NEW k \in {0, 1}, Logging(s, k)
  PROVE  OwnNumbers'
<1> SUFFICES ASSUME NEW q \in Stores, NEW r \in Stores, q # r,
                    NEW l \in Connections(q)', NEW m \in Connections(r)', l.on = m.on
             PROVE  l.store # m.store
  BY DEF OwnNumbers
<1>1. \A u \in Stores : \A j \in Connections(u)' :
        \E i \in Connections(u) : i.on = j.on /\ i.store = j.store
  <2> SUFFICES ASSUME NEW u \in Stores, NEW j \in Connections(u)'
               PROVE  \E i \in Connections(u) : i.on = j.on /\ i.store = j.store
    OBVIOUS
  <2>1. CASE u = s
    <3>1. j = reader'[s] /\ reader[s] \in Connections(s)
      BY <2>1, LoggingConnections, LoggedOn
    <3>2. reader'[s].on = reader[s].on /\ reader'[s].store = reader[s].store
      BY DEF Logging
    <3>3. QED
      BY <2>1, <3>1, <3>2
  <2>2. CASE u # s
    BY <2>2, LoggingConnections
  <2>3. QED
    BY <2>1, <2>2
<1>2. PICK i \in Connections(q) : i.on = l.on /\ i.store = l.store
  BY <1>1
<1>3. PICK j \in Connections(r) : j.on = m.on /\ j.store = m.store
  BY <1>1
<1>4. i.on = j.on => i.store # j.store
  BY DEF SInv, OwnNumbers
<1>5. QED
  BY <1>2, <1>3, <1>4

LEMMA LoggingLogIsTrue ==
  ASSUME SInv, NEW s \in Stores, NEW k \in {0, 1}, Logging(s, k)
  PROVE  LogIsTrue'
<1> DEFINE p == reader[s].on
           n == Len(Of(s).commits)
<1>1. /\ p \in 1..Len(databases) /\ n = Len(databases[p].commits) /\ n \in Nat
      /\ reader[s].store \in 1..databases[p].stores
      /\ reader[s] \in Connections(s)
      /\ \A d \in 1..Len(databases) : Len(databases[d].commits) \in Nat
      /\ \A d \in 1..Len(databases) : \A id \in 1..Len(databases[d].commits) :
           databases[d].commits[id].by \in Nat /\ databases[d].commits[id].who \in Stores
      /\ \A d \in 1..Len(databases) :
           DOMAIN databases[d].commits = 1..Len(databases[d].commits)
      /\ DOMAIN databases = 1..Len(databases)
  <2>1. DOMAIN databases = 1..Len(databases)
    BY DEF SInv, TypeOK
  <2>2. QED
    BY <2>1, LoggedOn
<1>2. /\ databases' \in Seq(Database) /\ Len(databases') = Len(databases)
      /\ \A d \in 1..Len(databases) :
           /\ databases'[d].stores = databases[d].stores
           /\ Len(databases'[d].commits) =
                IF d = p THEN n + k ELSE Len(databases[d].commits)
           /\ \A id \in 1..Len(databases[d].commits) :
                databases'[d].commits[id] = databases[d].commits[id]
      /\ k = 1 => /\ databases'[p].commits[n + 1].by = reader[s].store
                  /\ databases'[p].commits[n + 1].who = s
  BY DEF Logging, Appends
<1>3. TypeOK'
  BY LoggingType
<1>4. /\ DOMAIN databases' = 1..Len(databases)
      /\ \A d \in 1..Len(databases) :
           DOMAIN databases'[d].commits = 1..Len(databases'[d].commits)
  <2>1. DOMAIN databases' = 1..Len(databases)
    BY <1>2
  <2>2. \A d \in 1..Len(databases) : databases'[d] \in Database
    BY <1>2, <2>1
  <2>3. QED
    BY <2>1, <2>2 DEF Database
<1>5. \A r \in Stores : reader'[r].on = reader[r].on
  BY DEF Logging, Others
<1>6. \A r \in Stores : \A j \in Connections(r)' :
        \E i \in Connections(r) : i.on = j.on /\ i.store = j.store
  <2> SUFFICES ASSUME NEW r \in Stores, NEW j \in Connections(r)'
               PROVE  \E i \in Connections(r) : i.on = j.on /\ i.store = j.store
    OBVIOUS
  <2>1. CASE r = s
    <3>1. j = reader'[s] /\ reader[s] \in Connections(s)
      BY <2>1, LoggingConnections, LoggedOn
    <3>2. reader'[s].on = reader[s].on /\ reader'[s].store = reader[s].store
      BY DEF Logging
    <3>3. QED
      BY <2>1, <3>1, <3>2
  <2>2. CASE r # s
    BY <2>2, LoggingConnections
  <2>3. QED
    BY <2>1, <2>2
<1> HIDE DEF p, n
<1> SUFFICES ASSUME NEW d \in 1..Len(databases), NEW id \in 1..Len(databases'[d].commits)
             PROVE  LET c == databases'[d].commits[id] IN
                    /\ c.by \in 1..databases'[d].stores
                    /\ reader'[c.who].on >= d
                    /\ \A r \in Stores : \A j \in Connections(r)' :
                         j.on = d => (c.by = j.store <=> c.who = r)
  BY <1>4 DEF LogIsTrue
<1>7. CASE id \in 1..Len(databases[d].commits)
  <2>1. databases'[d].commits[id] = databases[d].commits[id]
        /\ databases'[d].stores = databases[d].stores
        /\ databases[d].commits[id].who \in Stores
    BY <1>1, <1>2, <1>7
  <2>2. LET c == databases[d].commits[id] IN
        /\ c.by \in 1..databases[d].stores
        /\ reader[c.who].on >= d
        /\ \A r \in Stores : \A i \in Connections(r) :
             i.on = d => (c.by = i.store <=> c.who = r)
    BY <1>1, <1>7 DEF SInv, LogIsTrue
  <2>3. \A r \in Stores : \A j \in Connections(r)' :
          j.on = d => (databases[d].commits[id].by = j.store
                         <=> databases[d].commits[id].who = r)
    BY <1>6, <2>2
  <2>4. QED
    BY <1>5, <2>1, <2>2, <2>3
<1>8. CASE id \notin 1..Len(databases[d].commits)
  <2>1. Len(databases'[d].commits) = (IF d = p THEN n + k ELSE Len(databases[d].commits))
    BY <1>2
  <2>2. d = p /\ k = 1 /\ id = n + 1
    BY <1>1, <1>8, <2>1
  <2>3. databases'[d].commits[id].by = reader[s].store /\ databases'[d].commits[id].who = s
        /\ databases'[d].stores = databases[d].stores
    BY <1>2, <2>2
  <2>4. reader[s].on = d /\ reader'[s].on >= d /\ reader[s].store \in 1..databases[d].stores
    BY <1>1, <1>5, <2>2 DEF p
  <2>5. ASSUME NEW r \in Stores, NEW j \in Connections(r)', j.on = d
        PROVE  reader[s].store = j.store <=> s = r
    <3>1. CASE r = s
      <4>1. j = reader'[s]
        BY <3>1, LoggingConnections
      <4>2. QED
        BY <3>1, <4>1 DEF Logging
    <3>2. CASE r # s
      <4>1. PICK i \in Connections(r) : i.on = j.on /\ i.store = j.store
        BY <1>6
      <4>2. i.on = reader[s].on => reader[s].store # i.store
        BY <1>1, <3>2 DEF SInv, OwnNumbers
      <4>3. QED
        BY <2>4, <2>5, <3>2, <4>1, <4>2
    <3>3. QED
      BY <3>1, <3>2
  <2>6. QED
    BY <2>3, <2>4, <2>5
<1>9. QED
  BY <1>7, <1>8

LEMMA LoggingTells ==
  ASSUME SInv, NEW s \in Stores, NEW k \in {0, 1}, Logging(s, k)
  PROVE  HeardOnceInOrder' /\ OriginIsTrue' /\ \A r \in Stores : HeardAll(r)'
<1>1. /\ \A r \in Stores : InOrder(heard[r]) /\ SaysWhose(heard[r], r) /\ HeardAll(r)
  BY DEF SInv, HeardOnceInOrder, OriginIsTrue, InOrder, SaysWhose
<1>2. \A r \in Stores \ {s} : heard'[r] = heard[r] /\ reader'[r] = reader[r]
  BY DEF Logging, Others
<1>3. InOrder(heard'[s]) /\ SaysWhose(heard'[s], s) /\ HeardAll(s)'
  <2>1. CASE TellsAll(s, k)
    BY <2>1 DEF TellsAll, HeardAll, LastId
  <2>2. CASE TellsNothing(s)
    BY <1>1, <2>2 DEF TellsNothing, HeardAll
  <2>3. QED
    BY <2>1, <2>2 DEF Logging
<1>4. \A r \in Stores : InOrder(heard'[r]) /\ SaysWhose(heard'[r], r)
  BY <1>1, <1>2, <1>3
<1>5. \A r \in Stores \ {s} : HeardAll(r)'
  BY <1>1, <1>2 DEF HeardAll
<1>6. HeardOnceInOrder'
  BY <1>4 DEF HeardOnceInOrder, InOrder
<1>7. OriginIsTrue'
  BY <1>4 DEF OriginIsTrue, SaysWhose
<1>8. QED
  BY <1>3, <1>5, <1>6, <1>7

LEMMA LoggingFollows ==
  ASSUME SInv, NEW s \in Stores, NEW k \in {0, 1}, Logging(s, k)
  PROVE  \A r \in Stores : Follows(r)'
<1> DEFINE p == reader[s].on
           n == Len(Of(s).commits)
<1>1. /\ p \in 1..Len(databases) /\ n = Len(databases[p].commits) /\ n \in Nat
      /\ Appended(s) = n + 1
      /\ reader[s] \in Connections(s)
      /\ \A d \in 1..Len(databases) : Len(databases[d].commits) \in Nat
  BY LoggedOn
<1>2. /\ \A d \in 1..Len(databases) :
           /\ Len(databases'[d].commits) =
                IF d = p THEN n + k ELSE Len(databases[d].commits)
           /\ \A id \in 1..Len(databases[d].commits) :
                databases'[d].commits[id] = databases[d].commits[id]
      /\ k = 1 => databases'[p].commits[n + 1].who = s
      /\ place' = place
  BY DEF Logging, Appends
<1> SUFFICES ASSUME NEW r \in Stores, NEW l \in Connections(r)', l.on = place,
                    NEW id \in (l.seen + 1)..Len(databases'[place].commits)
             PROVE  databases'[place].commits[id].who = r
                    \/ [on |-> place, id |-> id] \in untold'[r]
  BY <1>2 DEF Follows
<1>3. CASE r = s
  <2>1. l = reader'[s] /\ reader'[s].on = p /\ place = p
    BY <1>3, LoggingConnections DEF Logging
  <2>2. Len(databases'[p].commits) = n + k
    BY <1>1, <1>2
  <2>3. CASE TellsAll(s, k)
    <3>1. l.seen = n + k
      BY <2>1, <2>3 DEF TellsAll
    <3>2. id \in (n + k + 1)..(n + k) /\ n \in Nat
      BY <1>1, <2>1, <2>2, <3>1
    <3> HIDE DEF n
    <3>3. QED
      BY <3>2
  <2>4. CASE TellsNothing(s)
    <3>1. reader'[s] = reader[s] /\ untold'[s] = untold[s]
      BY <2>4 DEF TellsNothing
    <3>2. l \in Connections(s) /\ l.seen \in Nat
      BY <1>1, <2>1, <3>1 DEF SInv, TypeOK, LogReader
    <3>3. CASE id <= n
      <4>1. id \in (l.seen + 1)..Len(databases[place].commits) /\ id \in 1..n
        BY <1>1, <2>1, <3>2, <3>3
      <4>2. databases[place].commits[id].who = s \/ [on |-> place, id |-> id] \in untold[s]
        BY <3>2, <4>1 DEF SInv, Follows
      <4>3. databases'[place].commits[id] = databases[place].commits[id]
        BY <1>1, <1>2, <2>1, <4>1
      <4>4. QED
        BY <1>3, <3>1, <4>2, <4>3
    <3>4. CASE ~(id <= n)
      <4>1. id = n + 1 /\ k = 1
        <5>1. id \in (l.seen + 1)..(n + k) /\ n \in Nat
          BY <1>1, <2>1, <2>2
        <5> HIDE DEF n
        <5>2. QED
          BY <3>2, <3>4, <5>1
      <4>2. QED
        BY <1>2, <1>3, <2>1, <4>1
    <3>5. QED
      BY <3>3, <3>4
  <2>5. QED
    BY <2>3, <2>4 DEF Logging
<1>4. CASE r # s
  <2>1. /\ l \in Connections(r) /\ Numbered(l) /\ l.seen \in Nat /\ place \in 1..Len(databases)
    <3>1. l \in Connections(r) /\ Numbered(l) /\ l \in LogReader
      BY <1>4, LoggingConnections
    <3>2. QED
      BY <3>1 DEF Numbered, LogReader
  <2>2. untold[r] \subseteq untold'[r]
    BY <1>4 DEF Logging, TellsOthers
  <2>3. CASE id <= Len(databases[place].commits)
    <3>1. id \in (l.seen + 1)..Len(databases[place].commits)
          /\ id \in 1..Len(databases[place].commits)
      BY <1>1, <2>1, <2>3
    <3>2. databases[place].commits[id].who = r \/ [on |-> place, id |-> id] \in untold[r]
      BY <2>1, <3>1 DEF SInv, Follows
    <3>3. databases'[place].commits[id] = databases[place].commits[id]
      BY <1>2, <2>1, <3>1
    <3>4. QED
      BY <2>2, <3>2, <3>3
  <2>4. CASE ~(id <= Len(databases[place].commits))
    <3>1. Len(databases'[place].commits) =
            (IF place = p THEN n + k ELSE Len(databases[place].commits))
      BY <1>2, <2>1
    <3>2. place = p /\ id = n + 1 /\ k = 1
      <4>1. Len(databases[place].commits) \in Nat /\ n \in Nat
            /\ n = Len(databases[p].commits)
        BY <1>1, <2>1
      <4> HIDE DEF n, p
      <4>2. id \in Nat /\ id <= Len(databases'[place].commits)
        BY <2>1, <3>1, <4>1
      <4>3. CASE place = p
        BY <2>4, <3>1, <4>1, <4>2, <4>3
      <4>4. CASE place # p
        BY <2>4, <3>1, <4>1, <4>2, <4>4
      <4>5. QED
        BY <4>3, <4>4
    <3>3. Registered(r)
      <4>1. KnowsItsPlace(r)
        BY DEF SInv
      <4>2. op[r] # "open" \/ step[r] = "registered"
        BY <2>1 DEF Connections
      <4>3. QED
        BY <4>1, <4>2 DEF Registered, KnowsItsPlace
    <3>4. untold'[r] = untold[r] \cup {[on |-> p, id |-> n + 1]}
      BY <1>1, <1>4, <3>2, <3>3 DEF Logging, TellsOthers
    <3>5. QED
      BY <3>2, <3>4
  <2>5. QED
    BY <2>3, <2>4
<1>5. QED
  BY <1>3, <1>4

LEMMA LoggingLosesNothing ==
  ASSUME SInv, NEW s \in Stores, NEW k \in {0, 1}, Logging(s, k)
  PROVE  NothingIsLost'
<1> DEFINE p == reader[s].on
           n == Len(Of(s).commits)
<1>1. /\ p \in 1..Len(databases) /\ n = Len(databases[p].commits) /\ n \in Nat
      /\ Appended(s) = n + 1 /\ Current(s) = reader[s] /\ reader[s].database = p
      /\ reader[s].seen \in 0..n
      /\ \A d \in 1..Len(databases) : Len(databases[d].commits) \in Nat
      /\ Len(databases) \in Nat
  BY LoggedOn
<1>2. /\ Len(databases') = Len(databases)
      /\ \A d \in 1..Len(databases) :
           /\ Len(databases'[d].commits) =
                IF d = p THEN n + k ELSE Len(databases[d].commits)
      /\ place' = place
      /\ reader'[s].database = p /\ reader'[s].on = p
  BY <1>1 DEF Logging, Appends
<1>3. \A d \in 1..Len(databases) :
        1..Len(databases[d].commits) \subseteq 1..Len(databases'[d].commits)
  <2> SUFFICES ASSUME NEW d \in 1..Len(databases)
               PROVE  1..Len(databases[d].commits) \subseteq 1..Len(databases'[d].commits)
    OBVIOUS
  <2>1. Len(databases[d].commits) \in Nat /\ n \in Nat /\ n = Len(databases[p].commits)
    BY <1>1
  <2>2. Len(databases'[d].commits) = IF d = p THEN n + k ELSE Len(databases[d].commits)
    BY <1>2
  <2> HIDE DEF n, p
  <2>3. Len(databases'[d].commits) \in Nat
        /\ Len(databases'[d].commits) >= Len(databases[d].commits)
    BY <2>1, <2>2
  <2>4. QED
    BY <2>1, <2>3
<1> SUFFICES ASSUME NEW r \in Stores, NEW c \in untold'[r]
             PROVE  \/ reader'[r].missed
                    \/ Current(r)' = reader'[r] /\ reader'[r].database # place
                    \/ /\ c.on = Current(r)'.on
                       /\ c.id > Current(r)'.seen
                       /\ c.id \in 1..Len(databases'[c.on].commits)
  BY <1>2 DEF NothingIsLost
<1> DEFINE Holds(q) == \/ reader[q].missed
                       \/ Current(q) = reader[q] /\ reader[q].database # place
                       \/ /\ c.on = Current(q).on
                          /\ c.id > Current(q).seen
                          /\ c.id \in 1..Len(databases[c.on].commits)
<1>4. CASE r = s
  <2>1. Current(s)' = reader'[s]
    BY LoggingConnections
  <2>2. CASE TellsAll(s, k)
    <3>1. c \in untold[s] /\ ~Missed(s) /\ ~(c.on = p /\ c.id \in (reader[s].seen + 1)..n)
      BY <1>4, <2>2 DEF TellsAll
    <3>2. ~reader[s].missed
      BY <3>1 DEF Missed
    <3>3. Holds(s)
      BY <3>1 DEF SInv, NothingIsLost
    <3>4. reader[s].database # place
      <4>1. SUFFICES ASSUME c.on = p, c.id > reader[s].seen, c.id \in 1..n
                     PROVE  FALSE
        BY <1>1, <3>2, <3>3
      <4>2. c.id \in (reader[s].seen + 1)..n
        BY <1>1, <4>1
      <4>3. QED
        BY <3>1, <4>1, <4>2
    <3>5. QED
      BY <1>1, <1>2, <1>4, <2>1, <3>4
  <2>3. CASE TellsNothing(s)
    <3>1. reader'[s] = reader[s] /\ c \in untold[s]
      BY <1>4, <2>3 DEF TellsNothing
    <3>2. Holds(s)
      BY <3>1 DEF SInv, NothingIsLost
    <3>3. CASE c.on = p /\ c.id > reader[s].seen /\ c.id \in 1..Len(databases[c.on].commits)
      <4>1. c.id \in 1..Len(databases'[c.on].commits)
        BY <1>1, <1>3, <3>3
      <4>2. QED
        BY <1>2, <1>4, <2>1, <3>1, <3>3, <4>1
    <3>4. CASE reader[s].missed
      BY <1>4, <3>1, <3>4
    <3>5. CASE reader[s].database # place
      BY <1>4, <2>1, <3>1, <3>5
    <3>6. QED
      BY <1>1, <3>2, <3>3, <3>4, <3>5
  <2>4. QED
    BY <2>2, <2>3 DEF Logging
<1>5. CASE r # s
  <2>1. /\ Current(r)' = Current(r) /\ reader'[r] = reader[r]
        /\ Registered(r) => Numbered(Current(r)) /\ Current(r) \in LogReader
    <3>1. Current(r)' = Current(r) /\ reader'[r] = reader[r]
      BY <1>5, LoggingConnections DEF Logging, Others
    <3>2. Registered(r) => Numbered(Current(r)) /\ Current(r) \in LogReader
      BY <1>5, LoggingConnections
    <3>3. QED
      BY <3>1, <3>2
  <2>2. CASE c \in untold[r]
    <3>1. Holds(r)
      BY <2>2 DEF SInv, NothingIsLost
    <3>2. CASE c.on = Current(r).on /\ c.id > Current(r).seen
               /\ c.id \in 1..Len(databases[c.on].commits)
      <4>1. Registered(r)
        BY <2>2, <1>5 DEF SInv, KnowsItsPlace, Registered
      <4>2. c.on \in 1..Len(databases)
        BY <2>1, <3>2, <4>1 DEF Numbered
      <4>3. c.id \in 1..Len(databases'[c.on].commits)
        BY <1>3, <3>2, <4>2
      <4>4. QED
        BY <2>1, <3>2, <4>3
    <3>3. CASE reader[r].missed
      BY <2>1, <3>3
    <3>4. CASE Current(r) = reader[r] /\ reader[r].database # place
      BY <2>1, <3>4
    <3>5. QED
      BY <3>1, <3>2, <3>3, <3>4
  <2>3. CASE c \notin untold[r]
    <3>1. /\ k = 1 /\ Registered(r) /\ p = place /\ c = [on |-> p, id |-> n + 1]
      BY <1>1, <1>5, <2>3 DEF Logging, TellsOthers
    <3>2. c.on = place /\ c.id = n + 1
      BY <3>1
    <3>3. c.id \in 1..Len(databases'[place].commits)
      BY <1>1, <1>2, <3>1, <3>2
    <3>4. Numbered(Current(r)) /\ Current(r) \in LogReader
      BY <2>1, <3>1
    <3>5. CASE Current(r).on = place
      <4>1. Current(r).seen \in 0..n
        BY <1>1, <3>1, <3>4, <3>5 DEF Numbered
      <4>2. QED
        BY <1>1, <2>1, <3>2, <3>3, <3>5, <4>1
    <3>6. CASE Current(r).on # place
      <4>1. KnowsItsPlace(r)
        BY DEF SInv
      <4>2. Current(r) = reader[r] /\ reader[r].database = reader[r].on
        BY <3>1, <3>6, <4>1 DEF KnowsItsPlace, Registered, Current
      <4>3. QED
        BY <2>1, <3>6, <4>2
    <3>7. QED
      BY <3>5, <3>6
  <2>4. QED
    BY <2>2, <2>3
<1>6. QED
  BY <1>4, <1>5

LEMMA LoggingKeeps ==
  ASSUME SInv, NEW s \in Stores, NEW k \in {0, 1}, Logging(s, k)
  PROVE  SInv'
BY LoggingType, LoggingPlaces, LoggingOwnNumbers, LoggingLogIsTrue, LoggingTells,
   LoggingFollows, LoggingLosesNothing DEF SInv

-----------------------------------------------------------------------------
(* The invariant after the other steps.                                     *)

(* A step that leaves alone the databases and what is known of them.       *)
LEMMA QuietKeeps ==
  ASSUME SInv, databases' = databases, place' = place, reader' = reader,
         heard' = heard, untold' = untold,
         \A s \in Stores : Connections(s)' = Connections(s) /\ Current(s)' = Current(s)
  PROVE  /\ LastIsThere' /\ OwnNumbers' /\ LogIsTrue' /\ NothingIsLost'
         /\ HeardOnceInOrder' /\ OriginIsTrue'
         /\ \A s \in Stores : HeardAll(s)' /\ Follows(s)'
<1>1. LastIsThere' /\ HeardOnceInOrder' /\ OriginIsTrue'
  BY DEF SInv, LastIsThere, HeardOnceInOrder, OriginIsTrue
<1>2. OwnNumbers'
  BY DEF SInv, OwnNumbers
<1>3. LogIsTrue'
  BY DEF SInv, LogIsTrue
<1>4. NothingIsLost'
  BY DEF SInv, NothingIsLost
<1>5. ASSUME NEW s \in Stores
      PROVE  HeardAll(s)' /\ Follows(s)'
  <2>1. HeardAll(s) /\ Follows(s)
    BY DEF SInv
  <2>2. HeardAll(s)'
    BY <2>1 DEF HeardAll
  <2>3. Follows(s)'
    BY <2>1 DEF Follows
  <2>4. QED
    BY <2>2, <2>3
<1>6. QED
  BY <1>1, <1>2, <1>3, <1>4, <1>5

(* The steps of one Store that are quiet: it opens, fails to, begins, or     *)
(* leaves all as it was.                                                     *)
Quiet(s) ==
  /\ databases' = databases /\ place' = place /\ reader' = reader
  /\ heard' = heard /\ untold' = untold
  /\ Others(s)
  /\ step' \in [Stores -> Steps] /\ op' \in [Stores -> Ops]
  /\ opening' \in [Stores -> LogReader] /\ removed' \in [Stores -> BOOLEAN]
  /\ step[s] # "registered" /\ step'[s] \in {"closed", "idle", "opening", "checked"}
  /\ op[s] = "open" <=> op'[s] = "open"
  /\ step'[s] = "closed" => op'[s] = "open"
  /\ step'[s] = "idle" <=> op'[s] = "none"
  /\ op'[s] = "open" => step'[s] \in {"closed", "opening"}
  /\ step'[s] = "opening" /\ op'[s] # "open" => reader[s].database # place
  /\ step'[s] = "checked" => reader[s].database = place

LEMMA QuietIs ==
  ASSUME SInv, NEW s \in Stores, Quiet(s)
  PROVE  SInv'
<1>1. TypeOK /\ (\A r \in Stores : KnowsItsPlace(r)) /\ OnTheDatabaseThere
  BY DEF SInv
<1>2. \A r \in Stores \ {s} : step'[r] = step[r] /\ op'[r] = op[r] /\ opening'[r] = opening[r]
                              /\ removed'[r] = removed[r]
  BY DEF Quiet, Others
<1>3. ASSUME NEW r \in Stores
      PROVE  Connections(r)' = Connections(r) /\ Current(r)' = Current(r)
  <2>1. CASE r = s
    <3>1. /\ Connections(s) = {l \in {reader[s]} : op[s] # "open"}
          /\ Connections(s)' = {l \in {reader'[s]} : op'[s] # "open"}
      BY DEF Quiet, Connections
    <3>2. Current(s) = reader[s] /\ Current(s)' = reader'[s]
      BY DEF Quiet, Current
    <3>3. QED
      BY <2>1, <3>1, <3>2 DEF Quiet
  <2>2. CASE r # s
    BY <1>2, <2>2 DEF Quiet, Connections, Current
  <2>3. QED
    BY <2>1, <2>2
<1>4. TypeOK'
  BY <1>1 DEF Quiet, TypeOK, Of
<1>5. KnowsItsPlace(s)'
  <2>1. op'[s] # "open" =>
          Numbered(reader[s]) /\ reader[s].database = reader[s].on
    BY <1>1 DEF Quiet, KnowsItsPlace
  <2>2. op'[s] = "open" => reader[s] = NotOpen /\ heard[s] = <<>> /\ untold[s] = {}
    BY <1>1 DEF Quiet, KnowsItsPlace
  <2>3. Numbered(reader[s])' <=> Numbered(reader[s])
    BY DEF Quiet, Numbered
  <2>4. QED
    BY <2>1, <2>2, <2>3 DEF Quiet, KnowsItsPlace
<1>6. ASSUME NEW r \in Stores \ {s}
      PROVE  KnowsItsPlace(r)'
  <2>1. Numbered(reader[r])' <=> Numbered(reader[r])
    BY DEF Quiet, Numbered
  <2>2. Numbered(opening[r])' <=> Numbered(opening[r])
    BY <1>2 DEF Quiet, Numbered
  <2>3. KnowsItsPlace(r)
    BY <1>1
  <2>4. QED
    BY <1>2, <2>1, <2>2, <2>3 DEF Quiet, KnowsItsPlace
<1>7. OnTheDatabaseThere'
  <2>1. step'[s] = "checked" => reader'[s].on = place'
    BY <1>1 DEF Quiet, KnowsItsPlace
  <2>2. QED
    BY <1>1, <1>2, <2>1 DEF Quiet, OnTheDatabaseThere
<1>8. /\ LastIsThere' /\ OwnNumbers' /\ LogIsTrue' /\ NothingIsLost'
      /\ HeardOnceInOrder' /\ OriginIsTrue'
      /\ \A r \in Stores : HeardAll(r)' /\ Follows(r)'
  BY <1>3, QuietKeeps DEF Quiet
<1>9. QED
  BY <1>4, <1>5, <1>6, <1>7, <1>8 DEF SInv

LEMMA OpenKeeps ==
  ASSUME SInv, NEW s \in Stores, Open(s)
  PROVE  SInv'
<1>1. TypeOK /\ KnowsItsPlace(s)
  BY DEF SInv
<1>2. /\ step[s] = "closed" /\ step'[s] = "opening" /\ op'[s] = "open" /\ Others(s)
      /\ step' \in [Stores -> Steps] /\ op' \in [Stores -> Ops]
  BY <1>1, OpenIs
<1>3. op[s] = "open"
  BY <1>1, <1>2 DEF KnowsItsPlace
<1>4. QED
  BY <1>1, <1>2, <1>3, QuietIs DEF Quiet, Open, TypeOK, ghosts

LEMMA OpenFailsKeeps ==
  ASSUME SInv, NEW s \in Stores, OpenFails(s)
  PROVE  SInv'
<1>1. TypeOK
  BY DEF SInv
<1>2. /\ step[s] \in {"opening", "connected"} /\ Others(s)
      /\ \/ op[s] = "open" /\ step'[s] = "closed" /\ op'[s] = op[s]
         \/ op[s] # "open" /\ step'[s] = "idle" /\ op'[s] = "none"
      /\ step' \in [Stores -> Steps] /\ op' \in [Stores -> Ops]
      /\ opening' \in [Stores -> LogReader]
      /\ removed' \in [Stores -> BOOLEAN]
  BY <1>1, OpenFailsIs
<1>3. op[s] # "none"
  BY <1>2 DEF SInv, KnowsItsPlace
<1>4. /\ databases' = databases /\ place' = place /\ reader' = reader
      /\ heard' = heard /\ untold' = untold
  BY DEF OpenFails
<1>5. Quiet(s)
  BY <1>2, <1>3, <1>4 DEF Quiet
<1>6. QED
  BY <1>5, QuietIs

LEMMA BeginKeeps ==
  ASSUME SInv, NEW s \in Stores, NEW o \in {"commit", "poll", "read"}, Begin(s, o)
  PROVE  SInv'
<1>1. TypeOK
  BY DEF SInv
<1>2. /\ step[s] = "idle" /\ op'[s] = o
      /\ \/ place = reader[s].database /\ step'[s] = "checked"
         \/ place # reader[s].database /\ step'[s] = "opening"
      /\ Others(s)
      /\ step' \in [Stores -> Steps] /\ op' \in [Stores -> Ops]
  BY <1>1, BeginIs
<1>3. op[s] = "none"
  BY <1>2 DEF SInv, KnowsItsPlace
<1>4. /\ databases' = databases /\ place' = place /\ reader' = reader
      /\ heard' = heard /\ untold' = untold /\ opening' = opening /\ removed' = removed
  BY DEF Begin, ghosts
<1>5. opening' \in [Stores -> LogReader] /\ removed' \in [Stores -> BOOLEAN]
  BY <1>1, <1>4 DEF TypeOK
<1>6. Quiet(s)
  BY <1>2, <1>3, <1>4, <1>5 DEF Quiet
<1>7. QED
  BY <1>6, QuietIs

LEMMA LeaveKeeps ==
  ASSUME SInv, NEW s \in Stores, Leave(s)
  PROVE  SInv'
<1>1. TypeOK
  BY DEF SInv
<1>2. /\ step'[s] = "idle" /\ op'[s] = "none"
      /\ \A r \in Stores \ {s} :
           step'[r] = step[r] /\ op'[r] = op[r] /\ removed'[r] = removed[r]
      /\ step' \in [Stores -> Steps] /\ op' \in [Stores -> Ops]
      /\ removed' \in [Stores -> BOOLEAN]
  BY <1>1, DoneIs DEF Leave
<1>3. step[s] = "checked" /\ op[s] # "open"
  BY DEF Leave, SInv, KnowsItsPlace
<1>4. /\ databases' = databases /\ place' = place /\ reader' = reader
      /\ heard' = heard /\ untold' = untold /\ opening' = opening
  BY DEF Leave
<1>5. opening' \in [Stores -> LogReader]
  BY <1>1, <1>4 DEF TypeOK
<1>6. Others(s)
  BY <1>2, <1>4 DEF Others
<1>7. Quiet(s)
  BY <1>2, <1>3, <1>4, <1>5, <1>6 DEF Quiet
<1>8. QED
  BY <1>7, QuietIs

(* The Location is not removed while a Store opens the database.           *)
LEMMA RemoveLocationKeeps ==
  ASSUME SInv, ~RemovedWhileOpening, RemoveLocation
  PROVE  SInv'
<1>1. TypeOK /\ (\A r \in Stores : KnowsItsPlace(r))
  BY DEF SInv
<1>2. /\ place' = 0 /\ databases' = databases /\ reader' = reader /\ opening' = opening
      /\ step' = step /\ op' = op /\ untold' = untold /\ heard' = heard
      /\ removed' = [s \in Stores |-> step[s] \notin {"closed", "idle"}]
      /\ \A s \in Stores : step[s] \notin {"connected", "registered"}
  BY DEF RemoveLocation
<1>3. Len(databases) \in Nat
  BY <1>1 DEF TypeOK
<1>4. TypeOK'
  <2>1. place' \in 0..Len(databases')
    BY <1>2, <1>3
  <2>2. removed' \in [Stores -> BOOLEAN]
    BY <1>2
  <2>3. QED
    BY <1>1, <1>2, <2>1, <2>2 DEF TypeOK, Of
<1>5. \A s \in Stores : Connections(s)' = Connections(s) /\ Current(s) = reader[s]
                        /\ Current(s)' = reader'[s]
  BY <1>2 DEF Connections, Current
<1>6. \A s \in Stores : op[s] # "open" => Numbered(reader[s]) /\ reader[s].database = reader[s].on
                                           /\ reader[s].on # 0 /\ reader[s].database # 0
  BY <1>1, <1>3 DEF KnowsItsPlace, Numbered
<1>7. ASSUME NEW s \in Stores
      PROVE  KnowsItsPlace(s)' /\ HeardAll(s)' /\ Follows(s)'
  <2>1. Numbered(reader[s])' <=> Numbered(reader[s])
    BY <1>2 DEF Numbered
  <2>2. KnowsItsPlace(s)'
    BY <1>1, <1>2, <1>6, <2>1 DEF KnowsItsPlace
  <2>3. HeardAll(s)'
    BY <1>2 DEF SInv, HeardAll
  <2>4. \A l \in Connections(s) : l.on # 0
    BY <1>2, <1>6 DEF Connections
  <2>5. Follows(s)'
    BY <1>2, <1>5, <2>4 DEF Follows
  <2>6. QED
    BY <2>2, <2>3, <2>5
<1>8. LastIsThere' /\ HeardOnceInOrder' /\ OriginIsTrue'
  BY <1>2 DEF SInv, LastIsThere, HeardOnceInOrder, OriginIsTrue
<1>9. OwnNumbers'
  BY <1>5 DEF SInv, OwnNumbers
<1>10. LogIsTrue'
  BY <1>2, <1>5 DEF SInv, LogIsTrue
<1>11. NothingIsLost'
  <2> SUFFICES ASSUME NEW s \in Stores, NEW c \in untold[s]
               PROVE  Current(s)' = reader'[s] /\ reader'[s].database # place'
    BY <1>2 DEF NothingIsLost
  <2>1. op[s] # "open"
    BY <1>1, <1>2 DEF KnowsItsPlace
  <2>2. QED
    BY <1>2, <1>5, <1>6, <2>1
<1>12. OnTheDatabaseThere'
  BY <1>2 DEF OnTheDatabaseThere
<1>13. QED
  BY <1>4, <1>7, <1>8, <1>9, <1>10, <1>11, <1>12 DEF SInv

LEMMA ConnectedIs ==
  ASSUME SInv, NEW s \in Stores, Connect(s)
  PROVE  /\ databases' \in Seq(Database) /\ Len(databases) \in Nat /\ Len(databases') \in Nat
         /\ Len(databases') >= Len(databases)
         /\ \A d \in 1..Len(databases) : databases'[d] = databases[d]
         /\ \A d \in 1..Len(databases') : d > Len(databases) => databases'[d] = Empty
         /\ DOMAIN databases = 1..Len(databases) /\ DOMAIN databases' = 1..Len(databases')
         /\ place' = Len(databases') /\ place' # 0
         /\ \/ place' = place
            \/ place = 0 /\ place' = Len(databases) + 1
<1>1. databases \in Seq(Database) /\ place \in {0, Len(databases)}
  BY DEF SInv, TypeOK, LastIsThere
<1>2. Empty \in Database
  BY EmptySeq DEF Empty, Database
<1>3. CASE place = 0
  <2>1. databases' = Append(databases, Empty) /\ place' = Len(databases) + 1
    BY <1>3 DEF Connect
  <2>2. /\ databases' \in Seq(Database) /\ Len(databases') = Len(databases) + 1
        /\ \A d \in 1..Len(databases) : databases'[d] = databases[d]
        /\ databases'[Len(databases) + 1] = Empty
    BY <1>1, <1>2, <2>1, AppendProperties
  <2>3. Len(databases) \in Nat /\ DOMAIN databases = 1..Len(databases)
        /\ DOMAIN databases' = 1..Len(databases')
    BY <1>1, <2>2
  <2>4. \A d \in 1..(Len(databases) + 1) : d > Len(databases) => d = Len(databases) + 1
    BY <2>3
  <2>5. \A d \in 1..Len(databases') : d > Len(databases) => databases'[d] = Empty
    BY <2>2, <2>4
  <2>6. Len(databases') \in Nat /\ Len(databases') >= Len(databases) /\ place' # 0
        /\ place' = Len(databases')
    BY <2>1, <2>2, <2>3
  <2>7. place' = Len(databases) + 1
    BY <2>1
  <2>8. QED
    BY <1>3, <2>2, <2>3, <2>5, <2>6, <2>7, Zenon
<1>4. CASE place # 0
  <2>1. databases' = databases /\ place' = place
    BY <1>4 DEF Connect
  <2>2. Len(databases) \in Nat /\ DOMAIN databases = 1..Len(databases)
    BY <1>1
  <2>3. \A d \in 1..Len(databases) : ~(d > Len(databases))
    BY <2>2
  <2>4. Len(databases) >= Len(databases)
    BY <2>2
  <2>5. place = Len(databases)
    BY <1>1, <1>4, Zenon
  <2>6. QED
    BY <1>1, <1>4, <2>1, <2>2, <2>3, <2>4, <2>5, Zenon
<1>5. QED
  BY <1>3, <1>4

LEMMA ConnectKeeps ==
  ASSUME SInv, NEW s \in Stores, Connect(s)
  PROVE  SInv'
<1> DEFINE n == Len(databases)
           m == Len(databases')
<1>1. TypeOK /\ (\A r \in Stores : KnowsItsPlace(r)) /\ LastIsThere
  BY DEF SInv
<1>2. /\ databases' \in Seq(Database) /\ n \in Nat /\ m \in Nat /\ m >= n
      /\ \A d \in 1..n : databases'[d] = databases[d]
      /\ \A d \in 1..m : d > n => databases'[d] = Empty
      /\ DOMAIN databases = 1..n /\ DOMAIN databases' = 1..m
      /\ place' = m /\ place' # 0
      /\ (place' = place \/ (place = 0 /\ place' = n + 1))
  BY ConnectedIs
<1>3. /\ step[s] = "opening" /\ step'[s] = "connected" /\ op' = op
      /\ opening'[s] = [NotOpen EXCEPT !.on = place'] /\ opening'[s].on = place'
      /\ Others(s) /\ reader' = reader
      /\ step' \in [Stores -> Steps] /\ opening' \in [Stores -> LogReader]
  <2>1. place' \in Nat
    BY <1>2
  <2>2. QED
    BY <1>1, <2>1, ConnectIs DEF NotOpen
<1>4. heard' = heard /\ untold' = untold /\ removed' = removed
  BY DEF Connect, ghosts
<1>5. \A l \in LogReader : Numbered(l) =>
        /\ l.on \in 1..n /\ l.on \in 1..m /\ databases'[l.on] = databases[l.on]
        /\ l.on # 0 /\ (l.on # place => l.on # place')
        /\ (l.on # place' => l.on < place')
  <2> SUFFICES ASSUME NEW l \in LogReader, Numbered(l)
               PROVE  /\ l.on \in 1..n /\ l.on \in 1..m /\ databases'[l.on] = databases[l.on]
                      /\ l.on # 0 /\ (l.on # place => l.on # place')
                      /\ (l.on # place' => l.on < place')
    OBVIOUS
  <2>1. l.on \in 1..n
    BY DEF Numbered
  <2> HIDE DEF n, m
  <2>2. QED
    BY <1>2, <2>1
<1>6. \A l \in LogReader : Numbered(l) <=> /\ l.on \in 1..n
                                           /\ l.store \in 1..databases[l.on].stores
                                           /\ l.seen \in 0..Len(databases[l.on].commits)
  BY DEF Numbered
<1>7. \A r \in Stores : reader[r] \in LogReader /\ opening[r] \in LogReader
  BY <1>1 DEF TypeOK
<1>8. \A r \in Stores \ {s} : step'[r] = step[r] /\ opening'[r] = opening[r]
  BY <1>3 DEF Others
<1>9. \A r \in Stores :
        /\ Connections(r)' = Connections(r)
        /\ \A l \in Connections(r) : l \in LogReader /\ Numbered(l)
        /\ Current(r)' = Current(r)
  <2> SUFFICES ASSUME NEW r \in Stores
               PROVE  /\ Connections(r)' = Connections(r)
                      /\ \A l \in Connections(r) : l \in LogReader /\ Numbered(l)
                      /\ Current(r)' = Current(r)
    OBVIOUS
  <2>1. \A l \in Connections(r) : l \in LogReader /\ Numbered(l)
    BY <1>1, <1>7 DEF Connections, KnowsItsPlace
  <2>2. CASE r = s
    BY <1>3, <2>1, <2>2 DEF Connections, Current
  <2>3. CASE r # s
    BY <1>3, <1>8, <2>1, <2>3 DEF Connections, Current
  <2>4. QED
    BY <2>2, <2>3
<1>10. \A l \in LogReader : Numbered(l) =>
         /\ l.on \in 1..Len(databases')
         /\ l.store \in 1..databases'[l.on].stores
         /\ l.seen \in 0..Len(databases'[l.on].commits)
  BY <1>5, <1>6
<1>11. TypeOK'
  <2>1. \A d \in 1..m : databases'[d].pruned <= Len(databases'[d].commits)
    <3> SUFFICES ASSUME NEW d \in 1..m
                 PROVE  databases'[d].pruned <= Len(databases'[d].commits)
      OBVIOUS
    <3>1. CASE d \in 1..n
      BY <1>1, <1>2, <3>1 DEF TypeOK
    <3>2. CASE d \notin 1..n
      <4>1. d > n
        <5> HIDE DEF n, m
        <5>1. QED
          BY <1>2, <3>2
      <4>2. databases'[d] = Empty
        BY <1>2, <4>1
      <4>3. QED
        BY <4>2 DEF Empty
    <3>3. QED
      BY <3>1, <3>2
  <2>2. \A r \in Stores : reader'[r].on # 0 => reader'[r].seen <= Len(Of(r)'.commits)
    <3> SUFFICES ASSUME NEW r \in Stores, reader[r].on # 0
                 PROVE  reader[r].seen <= Len(databases'[reader[r].on].commits)
      BY <1>3 DEF Of
    <3>1. Numbered(reader[r])
      BY <1>1 DEF KnowsItsPlace, NotOpen
    <3>2. databases'[reader[r].on] = databases[reader[r].on]
      BY <1>5, <1>7, <3>1
    <3>3. QED
      BY <1>1, <3>2 DEF TypeOK, Of
  <2>3. place' \in 0..Len(databases')
    <3>1. place' = Len(databases') /\ Len(databases') \in Nat
      BY <1>2
    <3>2. QED
      BY <3>1
  <2>4. QED
    BY <1>1, <1>2, <1>3, <1>4, <2>1, <2>2, <2>3 DEF TypeOK
<1>12. LastIsThere'
  BY <1>2 DEF LastIsThere
<1>13. ASSUME NEW r \in Stores
       PROVE  KnowsItsPlace(r)'
  <2>1. KnowsItsPlace(r)
    BY <1>1
  <2>2. op[r] # "open" => Numbered(reader[r])' /\ (reader[r].on # place => reader[r].on # place')
    BY <1>5, <1>7, <1>10, <1>3, <2>1 DEF KnowsItsPlace, Numbered
  <2>3. CASE r = s
    <3>1. reader[s].on < place'
      <4>1. CASE op[s] = "open"
        <5>1. reader[s].on = 0
          BY <2>1, <2>3, <4>1 DEF KnowsItsPlace, NotOpen
        <5>2. place' \in Nat /\ place' # 0
          BY <1>2
        <5>3. QED
          BY <5>1, <5>2
      <4>2. CASE op[s] # "open"
        <5>1. Numbered(reader[s]) /\ reader[s].on # place
          BY <1>3, <2>1, <2>3, <4>2 DEF KnowsItsPlace
        <5>2. QED
          BY <1>5, <1>7, <5>1
      <4>3. QED
        BY <4>1, <4>2
    <3>2. op[s] # "none"
      BY <1>3, <2>1, <2>3 DEF KnowsItsPlace
    <3>3. QED
      BY <1>3, <1>4, <2>1, <2>2, <2>3, <3>1, <3>2 DEF KnowsItsPlace
  <2>4. CASE r # s
    <3>1. step'[r] = step[r] /\ opening'[r] = opening[r] /\ op'[r] = op[r]
          /\ heard'[r] = heard[r] /\ untold'[r] = untold[r] /\ reader'[r] = reader[r]
      BY <1>3, <1>4, <1>8, <2>4
    <3>2. step[r] \in {"connected", "registered"} => place' = place
      <4>1. step[r] \in {"connected", "registered"} => reader[r].on < place
        BY <2>1 DEF KnowsItsPlace
      <4>2. reader[r].on \in Nat
        BY <1>7 DEF LogReader
      <4>3. place' = place \/ place = 0
        BY <1>2
      <4>4. CASE place = 0
        BY <4>1, <4>2, <4>4
      <4>5. QED
        BY <4>3, <4>4
    <3>3. step[r] = "registered" => Numbered(opening[r])'
      BY <1>7, <1>10, <2>1, <3>1 DEF KnowsItsPlace, Numbered
    <3>4. QED
      BY <2>1, <2>2, <3>1, <3>2, <3>3 DEF KnowsItsPlace
  <2>5. QED
    BY <2>3, <2>4
<1>14. OnTheDatabaseThere'
  <2> SUFFICES ASSUME NEW r \in Stores, step'[r] = "checked"
               PROVE  reader[r].on = place' \/ removed[r]
    BY <1>3, <1>4 DEF OnTheDatabaseThere
  <2>1. r # s /\ step[r] = "checked"
    BY <1>3, <1>8
  <2>2. reader[r].on = place \/ removed[r]
    BY <2>1 DEF SInv, OnTheDatabaseThere
  <2>3. reader[r].on # 0
    <3>1. op[r] # "open"
      BY <1>1, <2>1 DEF KnowsItsPlace
    <3>2. QED
      BY <1>1, <1>5, <1>7, <3>1 DEF KnowsItsPlace
  <2>4. QED
    BY <1>2, <2>2, <2>3
<1>15. HeardOnceInOrder' /\ OriginIsTrue' /\ \A r \in Stores : HeardAll(r)'
  BY <1>3, <1>4 DEF SInv, HeardOnceInOrder, OriginIsTrue, HeardAll
<1>16. OwnNumbers'
  BY <1>9 DEF SInv, OwnNumbers
<1>17. LogIsTrue'
  <2> SUFFICES ASSUME NEW d \in 1..m, NEW id \in DOMAIN databases'[d].commits
               PROVE  LET c == databases'[d].commits[id] IN
                      /\ c.by \in 1..databases'[d].stores
                      /\ reader[c.who].on >= d
                      /\ \A r \in Stores : \A l \in Connections(r) :
                           l.on = d => (c.by = l.store <=> c.who = r)
    <3>1. DOMAIN databases' = 1..m
      BY <1>2
    <3>2. \A r \in Stores : Connections(r)' = Connections(r)
      BY <1>9
    <3> HIDE DEF m
    <3>3. QED
      BY <1>3, <3>1, <3>2 DEF LogIsTrue
  <2>1. d \in 1..n
    <3> SUFFICES ASSUME d \notin 1..n
                 PROVE  FALSE
      OBVIOUS
    <3>1. d > n
      <4> HIDE DEF n, m
      <4>1. QED
        BY <1>2
    <3>2. databases'[d] = Empty
      BY <1>2, <3>1
    <3>3. QED
      BY <3>2 DEF Empty
  <2>2. databases'[d] = databases[d]
    BY <1>2, <2>1
  <2>3. d \in DOMAIN databases
    BY <1>2, <2>1
  <2>4. LET c == databases[d].commits[id] IN
        /\ c.by \in 1..databases[d].stores
        /\ reader[c.who].on >= d
        /\ \A r \in Stores : \A l \in Connections(r) :
             l.on = d => (c.by = l.store <=> c.who = r)
    BY <2>2, <2>3 DEF SInv, LogIsTrue
  <2>5. QED
    BY <2>2, <2>4
<1>18. NothingIsLost'
  <2> SUFFICES ASSUME NEW r \in Stores, NEW c \in untold[r]
               PROVE  \/ reader[r].missed
                      \/ Current(r) = reader[r] /\ reader[r].database # place'
                      \/ /\ c.on = Current(r).on
                         /\ c.id > Current(r).seen
                         /\ c.id \in 1..Len(databases'[c.on].commits)
    BY <1>3, <1>4, <1>9 DEF NothingIsLost
  <2>1. Current(r) \in Connections(r)
    BY <1>1 DEF KnowsItsPlace, Current, Connections
  <2>2. Numbered(Current(r)) /\ Current(r) \in LogReader
    BY <1>9, <2>1
  <2>3. CASE reader[r].missed
    BY <2>3
  <2>4. CASE Current(r) = reader[r] /\ reader[r].database # place
    <3>1. op[r] # "open"
      <4>1. Numbered(reader[r])
        BY <2>2, <2>4
      <4>2. reader[r].on # 0
        BY <1>5, <1>7, <4>1
      <4>3. QED
        BY <1>1, <4>2 DEF KnowsItsPlace, NotOpen
    <3>2. reader[r].database = reader[r].on
      BY <1>1, <3>1 DEF KnowsItsPlace
    <3>3. QED
      BY <1>5, <2>2, <2>4, <3>2
  <2>5. CASE /\ c.on = Current(r).on
             /\ c.id > Current(r).seen
             /\ c.id \in 1..Len(databases[c.on].commits)
    BY <1>5, <2>2, <2>5
  <2>6. QED
    BY <2>3, <2>4, <2>5 DEF SInv, NothingIsLost
<1>19. ASSUME NEW r \in Stores
       PROVE  Follows(r)'
  <2> SUFFICES ASSUME NEW l \in Connections(r), l.on = place',
                      NEW id \in (l.seen + 1)..Len(databases'[place'].commits)
               PROVE  databases'[place'].commits[id].who = r
                      \/ [on |-> place', id |-> id] \in untold[r]
    BY <1>4, <1>9 DEF Follows
  <2>1. l \in LogReader /\ Numbered(l)
    BY <1>9
  <2>2. place' = place /\ databases'[place] = databases[place]
    BY <1>5, <2>1
  <2>3. QED
    BY <2>2 DEF SInv, Follows
<1>20. QED
  BY <1>11, <1>12, <1>13, <1>14, <1>15, <1>16, <1>17, <1>18, <1>19 DEF SInv

(* Registering takes a number above all that were taken on the database,    *)
(* and the Store has none on it.                                            *)
LEMMA RegisterKeeps ==
  ASSUME SInv, NEW s \in Stores, Register(s)
  PROVE  SInv'
<1> DEFINE d == opening[s].on
           n == Len(databases)
           k == Len(databases[d].commits)
<1>1. TypeOK /\ (\A r \in Stores : KnowsItsPlace(r)) /\ LastIsThere /\ step[s] = "connected"
  BY DEF SInv, Register
<1>2. \A r \in Stores : reader[r] \in LogReader /\ opening[r] \in LogReader
  BY <1>1 DEF TypeOK
<1>3. /\ d = place /\ reader[s].on < place /\ opening[s] = [NotOpen EXCEPT !.on = place]
      /\ op[s] # "none"
  BY <1>1 DEF KnowsItsPlace
<1>4. d \in 1..n /\ n \in Nat /\ DOMAIN databases = 1..n
  <2>1. place \in Nat /\ reader[s].on \in Nat /\ n \in Nat /\ DOMAIN databases = 1..n
    BY <1>1, <1>2 DEF TypeOK, LogReader
  <2>2. place # 0
    BY <1>3, <2>1
  <2>3. place = n
    BY <1>1, <2>2 DEF LastIsThere
  <2>4. QED
    BY <1>3, <2>1, <2>2, <2>3
<1>5. \A e \in 1..n :
        /\ databases[e].stores \in Nat /\ Len(databases[e].commits) \in Nat
        /\ DOMAIN databases[e].commits = 1..Len(databases[e].commits)
        /\ databases[e].pruned <= Len(databases[e].commits)
        /\ \A id \in DOMAIN databases[e].commits :
             databases[e].commits[id].by \in Nat /\ databases[e].commits[id].who \in Stores
  BY <1>1, <1>4, DatabaseType
<1>6. /\ step'[s] = "registered" /\ op' = op
      /\ opening'[s].on = d /\ opening'[s].store = databases[d].stores + 1
      /\ opening'[s].seen = k
      /\ Others(s) /\ reader' = reader
      /\ step' \in [Stores -> Steps] /\ opening' \in [Stores -> LogReader]
      /\ databases' \in Seq(Database) /\ Len(databases') = Len(databases)
      /\ databases'[d].stores = databases[d].stores + 1
      /\ \A e \in DOMAIN databases :
           /\ databases'[e].commits = databases[e].commits
           /\ databases'[e].pruned = databases[e].pruned
           /\ e # d => databases'[e] = databases[e]
  <2>1. d \in DOMAIN databases
    BY <1>4
  <2>2. QED
    BY <1>1, <2>1, RegisterIs
<1>7. heard' = heard /\ untold' = untold /\ removed' = removed /\ place' = place
  BY DEF Register, ghosts
<1>8. \A r \in Stores \ {s} : step'[r] = step[r] /\ opening'[r] = opening[r]
  BY <1>6 DEF Others
<1>9. \A e \in 1..n : /\ databases'[e].commits = databases[e].commits
                      /\ databases'[e].pruned = databases[e].pruned
                      /\ databases'[e].stores \in Nat
                      /\ databases'[e].stores >= databases[e].stores
  <2> SUFFICES ASSUME NEW e \in 1..n
               PROVE  /\ databases'[e].commits = databases[e].commits
                      /\ databases'[e].pruned = databases[e].pruned
                      /\ databases'[e].stores \in Nat
                      /\ databases'[e].stores >= databases[e].stores
    OBVIOUS
  <2>1. /\ databases'[e].commits = databases[e].commits
        /\ databases'[e].pruned = databases[e].pruned
        /\ e # d => databases'[e] = databases[e]
    BY <1>4, <1>6
  <2>2. databases[e].stores \in Nat
    BY <1>5
  <2>3. CASE e = d
    BY <1>6, <2>1, <2>2, <2>3
  <2>4. CASE e # d
    BY <2>1, <2>2, <2>4
  <2>5. QED
    BY <2>3, <2>4
<1>10. DOMAIN databases' = 1..n
  BY <1>6
<1>11. \A l \in LogReader : Numbered(l) =>
         /\ l.on \in 1..n /\ l.store \in 1..databases[l.on].stores
         /\ l.on \in 1..Len(databases')
         /\ l.store \in 1..databases'[l.on].stores
         /\ l.seen \in 0..Len(databases'[l.on].commits)
  <2> SUFFICES ASSUME NEW l \in LogReader, Numbered(l)
               PROVE  /\ l.on \in 1..n /\ l.store \in 1..databases[l.on].stores
                      /\ l.on \in 1..Len(databases')
                      /\ l.store \in 1..databases'[l.on].stores
                      /\ l.seen \in 0..Len(databases'[l.on].commits)
    OBVIOUS
  <2>1. /\ l.on \in 1..n /\ l.store \in 1..databases[l.on].stores
        /\ l.seen \in 0..Len(databases[l.on].commits)
    BY DEF Numbered
  <2>2. /\ databases'[l.on].commits = databases[l.on].commits
        /\ databases'[l.on].stores \in Nat /\ databases[l.on].stores \in Nat
        /\ databases'[l.on].stores >= databases[l.on].stores
        /\ Len(databases') = n
    BY <1>5, <1>6, <1>9, <2>1
  <2>3. l.store \in 1..databases'[l.on].stores
    BY <2>1, <2>2
  <2>4. QED
    BY <2>1, <2>2, <2>3
<1>12. TypeOK'
  <2>1. \A e \in 1..n : databases'[e].pruned <= Len(databases'[e].commits)
    BY <1>5, <1>9
  <2>2. \A r \in Stores : reader'[r].on # 0 => reader'[r].seen <= Len(Of(r)'.commits)
    <3> SUFFICES ASSUME NEW r \in Stores, reader[r].on # 0
                 PROVE  reader[r].seen <= Len(databases'[reader[r].on].commits)
      BY <1>6 DEF Of
    <3>1. Numbered(reader[r])
      BY <1>1 DEF KnowsItsPlace, NotOpen
    <3>2. databases'[reader[r].on].commits = databases[reader[r].on].commits
      BY <1>2, <1>9, <1>11, <3>1
    <3>3. QED
      BY <1>1, <3>2 DEF TypeOK, Of
  <2>3. QED
    BY <1>1, <1>6, <1>7, <1>10, <2>1, <2>2 DEF TypeOK
<1>13. LastIsThere'
  BY <1>1, <1>6, <1>7 DEF LastIsThere
<1>14. ASSUME NEW r \in Stores
       PROVE  KnowsItsPlace(r)'
  <2>1. KnowsItsPlace(r)
    BY <1>1
  <2>2. op[r] # "open" => Numbered(reader[r])'
    BY <1>2, <1>6, <1>11, <2>1 DEF KnowsItsPlace, Numbered
  <2>3. CASE r = s
    <3>1. Numbered(opening[s])'
      <4>1. opening'[s].store \in 1..databases'[d].stores
        BY <1>4, <1>5, <1>6
      <4>2. opening'[s].seen \in 0..Len(databases'[d].commits)
        BY <1>4, <1>5, <1>6, <1>9
      <4>3. opening'[s].on \in 1..Len(databases')
        BY <1>4, <1>6
      <4>4. QED
        BY <1>6, <4>1, <4>2, <4>3 DEF Numbered
    <3>2. QED
      BY <1>1, <1>3, <1>6, <1>7, <2>1, <2>2, <2>3, <3>1 DEF KnowsItsPlace
  <2>4. CASE r # s
    <3>1. step'[r] = step[r] /\ opening'[r] = opening[r] /\ op'[r] = op[r]
          /\ heard'[r] = heard[r] /\ untold'[r] = untold[r] /\ reader'[r] = reader[r]
      BY <1>6, <1>7, <1>8, <2>4
    <3>2. step[r] = "registered" => Numbered(opening[r])'
      BY <1>2, <1>11, <2>1, <3>1 DEF KnowsItsPlace, Numbered
    <3>3. QED
      BY <1>7, <2>1, <2>2, <3>1, <3>2 DEF KnowsItsPlace
  <2>5. QED
    BY <2>3, <2>4
<1>15. OnTheDatabaseThere'
  BY <1>6, <1>7, <1>8 DEF SInv, OnTheDatabaseThere
<1>16. HeardOnceInOrder' /\ OriginIsTrue' /\ \A r \in Stores : HeardAll(r)'
  BY <1>6, <1>7 DEF SInv, HeardOnceInOrder, OriginIsTrue, HeardAll
<1>17. \A r \in Stores :
         /\ Connections(r)' = IF r = s THEN Connections(s) \cup {opening'[s]} ELSE Connections(r)
         /\ \A l \in Connections(r) : l \in LogReader /\ Numbered(l)
  <2> SUFFICES ASSUME NEW r \in Stores
               PROVE  /\ Connections(r)' = IF r = s THEN Connections(s) \cup {opening'[s]}
                                           ELSE Connections(r)
                      /\ \A l \in Connections(r) : l \in LogReader /\ Numbered(l)
    OBVIOUS
  <2>1. \A l \in Connections(r) : l \in LogReader /\ Numbered(l)
    BY <1>1, <1>2 DEF Connections, KnowsItsPlace
  <2>2. CASE r = s
    <3>1. /\ Connections(s) = {l \in {reader[s]} : op[s] # "open"}
          /\ Connections(s)' = {l \in {reader[s]} : op[s] # "open"} \cup {opening'[s]}
      BY <1>1, <1>6 DEF Connections
    <3>2. QED
      BY <2>1, <2>2, <3>1
  <2>3. CASE r # s
    BY <1>6, <1>8, <2>1, <2>3 DEF Connections
  <2>4. QED
    BY <2>2, <2>3
<1>18. ASSUME NEW r \in Stores, NEW l \in Connections(r), l.on = d
       PROVE  l.store # opening'[s].store
  <2>1. l.store \in 1..databases[d].stores
    BY <1>11, <1>17, <1>18
  <2>2. databases[d].stores \in Nat
    BY <1>4, <1>5
  <2>3. QED
    BY <1>6, <2>1, <2>2
<1>19. OwnNumbers'
  <2> SUFFICES ASSUME NEW q \in Stores, NEW r \in Stores, q # r,
                      NEW l \in Connections(q)', NEW j \in Connections(r)', l.on = j.on
               PROVE  l.store # j.store
    BY DEF OwnNumbers
  <2>1. CASE l \in Connections(q) /\ j \in Connections(r)
    BY <2>1 DEF SInv, OwnNumbers
  <2>2. CASE q = s /\ l = opening'[s]
    BY <1>6, <1>17, <1>18, <2>2
  <2>3. CASE r = s /\ j = opening'[s]
    BY <1>6, <1>17, <1>18, <2>3
  <2>4. QED
    BY <1>17, <2>1, <2>2, <2>3
<1>20. LogIsTrue'
  <2> SUFFICES ASSUME NEW e \in 1..n, NEW id \in DOMAIN databases[e].commits
               PROVE  LET c == databases[e].commits[id] IN
                      /\ c.by \in 1..databases'[e].stores
                      /\ reader[c.who].on >= e
                      /\ \A r \in Stores : \A l \in Connections(r)' :
                           l.on = e => (c.by = l.store <=> c.who = r)
    BY <1>6, <1>9, <1>10 DEF LogIsTrue
  <2> DEFINE c == databases[e].commits[id]
  <2>1. /\ c.by \in 1..databases[e].stores
        /\ reader[c.who].on >= e
        /\ \A r \in Stores : \A l \in Connections(r) :
             l.on = e => (c.by = l.store <=> c.who = r)
    BY <1>4 DEF SInv, LogIsTrue
  <2>2. c.by \in Nat /\ c.who \in Stores
    BY <1>5
  <2> HIDE DEF c
  <2>3. c.by \in 1..databases'[e].stores
    BY <1>5, <1>9, <2>1
  <2>4. ASSUME opening'[s].on = e
        PROVE  c.by # opening'[s].store /\ c.who # s
    <3>1. e = place /\ databases[e].stores \in Nat
      BY <1>3, <1>5, <1>6, <2>4
    <3>2. c.by # opening'[s].store
      BY <1>3, <1>6, <2>1, <3>1
    <3>3. reader[s].on \in Nat /\ e \in Nat
      BY <1>2 DEF LogReader
    <3>4. c.who # s
      BY <1>3, <2>1, <3>1, <3>3
    <3>5. QED
      BY <3>2, <3>4
  <2>5. ASSUME NEW r \in Stores, NEW l \in Connections(r)', l.on = e
        PROVE  c.by = l.store <=> c.who = r
    <3>1. CASE l \in Connections(r)
      BY <2>1, <2>5, <3>1
    <3>2. CASE r = s /\ l = opening'[s]
      BY <2>4, <2>5, <3>2
    <3>3. QED
      BY <1>17, <3>1, <3>2
  <2>6. QED
    BY <2>1, <2>3, <2>5 DEF c
<1>21. NothingIsLost'
  <2> SUFFICES ASSUME NEW r \in Stores, NEW c \in untold[r]
               PROVE  \/ reader[r].missed
                      \/ Current(r)' = reader[r] /\ reader[r].database # place
                      \/ /\ c.on = Current(r)'.on
                         /\ c.id > Current(r)'.seen
                         /\ c.id \in 1..Len(databases'[c.on].commits)
    BY <1>6, <1>7 DEF NothingIsLost
  <2>1. Current(r)' = Current(r)
    <3>1. CASE r = s
      <4>1. op[s] # "open"
        BY <1>1, <3>1 DEF KnowsItsPlace
      <4>2. QED
        BY <1>6, <3>1, <4>1 DEF Current
    <3>2. CASE r # s
      BY <1>6, <1>8, <3>2 DEF Current
    <3>3. QED
      BY <3>1, <3>2
  <2>2. Current(r) \in Connections(r)
    BY <1>1 DEF KnowsItsPlace, Current, Connections
  <2>3. Current(r).on \in 1..n
    BY <1>11, <1>17, <2>2
  <2>4. databases'[Current(r).on].commits = databases[Current(r).on].commits
    BY <1>9, <2>3
  <2>5. \/ reader[r].missed
        \/ Current(r) = reader[r] /\ reader[r].database # place
        \/ /\ c.on = Current(r).on
           /\ c.id > Current(r).seen
           /\ c.id \in 1..Len(databases[c.on].commits)
    BY DEF SInv, NothingIsLost
  <2>6. QED
    BY <2>1, <2>4, <2>5
<1>22. ASSUME NEW r \in Stores
       PROVE  Follows(r)'
  <2> SUFFICES ASSUME NEW l \in Connections(r)', l.on = place,
                      NEW id \in (l.seen + 1)..Len(databases'[place].commits)
               PROVE  databases'[place].commits[id].who = r
                      \/ [on |-> place, id |-> id] \in untold[r]
    BY <1>7 DEF Follows
  <2>1. /\ databases'[place].commits = databases[place].commits
        /\ Len(databases[place].commits) \in Nat
    BY <1>3, <1>4, <1>5, <1>9
  <2>2. CASE l \in Connections(r)
    BY <2>1, <2>2 DEF SInv, Follows
  <2>3. CASE l = opening'[s]
    BY <1>3, <1>6, <2>1, <2>3
  <2>4. QED
    BY <1>17, <2>2, <2>3
<1>23. QED
  BY <1>12, <1>13, <1>14, <1>15, <1>16, <1>19, <1>20, <1>21, <1>22 DEF SInv

(* It goes over to the connection it opened, and has missed what was on the  *)
(* one before.                                                               *)
LEMMA IdentifyKeeps ==
  ASSUME SInv, NEW s \in Stores, Identify(s)
  PROVE  SInv'
<1> DEFINE n == Len(databases)
<1>1. TypeOK /\ (\A r \in Stores : KnowsItsPlace(r)) /\ KnowsItsPlace(s)
  BY DEF SInv
<1>2. /\ step[s] = "registered"
      /\ reader'[s].on = opening[s].on /\ reader'[s].store = opening[s].store
      /\ reader'[s].seen = opening[s].seen /\ reader'[s].database = place
      /\ reader'[s].missed = (op[s] # "open")
      /\ Others(s)
      /\ \/ op[s] = "open" /\ step'[s] = "idle" /\ op'[s] = "none"
         \/ op[s] # "open" /\ step'[s] = "checked" /\ op'[s] = op[s] /\ removed' = removed
      /\ step' \in [Stores -> Steps] /\ op' \in [Stores -> Ops]
      /\ reader' \in [Stores -> LogReader] /\ opening' \in [Stores -> LogReader]
      /\ removed' \in [Stores -> BOOLEAN]
  BY <1>1, IdentifyIs
<1>3. databases' = databases /\ place' = place /\ untold' = untold /\ heard' = heard
  BY DEF Identify
<1>4. \A r \in Stores \ {s} :
        /\ reader'[r] = reader[r] /\ opening'[r] = opening[r]
        /\ step'[r] = step[r] /\ op'[r] = op[r] /\ removed'[r] = removed[r]
  BY <1>2 DEF Others
<1>5. /\ opening[s].on = place /\ reader[s].on < place /\ Numbered(opening[s])
      /\ op[s] # "none" /\ opening[s] \in Connections(s)
      /\ (op[s] = "open" => reader[s] = NotOpen /\ heard[s] = <<>>)
      /\ (op[s] # "open" => Numbered(reader[s]))
  BY <1>1, <1>2 DEF KnowsItsPlace, Connections
<1>6. \A l \in LogReader : l.on = opening[s].on /\ l.store = opening[s].store
                           /\ l.seen = opening[s].seen => Numbered(l)
  BY <1>5 DEF Numbered
<1>7. reader'[s] \in LogReader /\ Numbered(reader'[s])
  BY <1>2, <1>6
<1>8. \A l : Numbered(l)' <=> Numbered(l)
  BY <1>3 DEF Numbered
<1>9. op'[s] # "open" /\ step'[s] \in {"idle", "checked"} /\ (step'[s] = "idle" <=> op'[s] = "none")
  BY <1>2, <1>5
<1>10. /\ Connections(s)' = {reader'[s]} /\ Current(s)' = reader'[s]
       /\ \A r \in Stores \ {s} : Connections(r)' = Connections(r) /\ Current(r)' = Current(r)
  <2>1. Connections(s)' = {reader'[s]} /\ Current(s)' = reader'[s]
    BY <1>9 DEF Connections, Current
  <2>2. \A r \in Stores \ {s} : Connections(r)' = Connections(r) /\ Current(r)' = Current(r)
    BY <1>4 DEF Connections, Current
  <2>3. QED
    BY <2>1, <2>2
<1>11. \A r \in Stores : \A j \in Connections(r)' :
         \E i \in Connections(r) : i.on = j.on /\ i.store = j.store /\ i.seen = j.seen
  <2> SUFFICES ASSUME NEW r \in Stores, NEW j \in Connections(r)'
               PROVE  \E i \in Connections(r) : i.on = j.on /\ i.store = j.store /\ i.seen = j.seen
    OBVIOUS
  <2>1. CASE r = s
    BY <1>2, <1>5, <1>10, <2>1
  <2>2. CASE r # s
    BY <1>10, <2>2
  <2>3. QED
    BY <2>1, <2>2
<1>12. TypeOK'
  <2>1. \A r \in Stores : reader'[r].on # 0 => reader'[r].seen <= Len(Of(r)'.commits)
    <3> SUFFICES ASSUME NEW r \in Stores, reader'[r].on # 0
                 PROVE  reader'[r].seen <= Len(databases[reader'[r].on].commits)
      BY <1>3 DEF Of
    <3>1. CASE r = s
      <4>1. reader'[s].on \in DOMAIN databases
        BY <1>1, <1>7 DEF Numbered, TypeOK
      <4>2. Len(databases[reader'[s].on].commits) \in Nat
        BY <1>1, <4>1, DatabaseType
      <4>3. reader'[s].seen \in 0..Len(databases[reader'[s].on].commits)
        BY <1>7 DEF Numbered
      <4>4. QED
        BY <3>1, <4>2, <4>3
    <3>2. CASE r # s
      BY <1>1, <1>4, <3>2 DEF TypeOK, Of
    <3>3. QED
      BY <3>1, <3>2
  <2>2. QED
    BY <1>1, <1>2, <1>3, <2>1 DEF TypeOK
<1>13. LastIsThere' /\ HeardOnceInOrder' /\ OriginIsTrue'
  BY <1>3 DEF SInv, LastIsThere, HeardOnceInOrder, OriginIsTrue
<1>14. ASSUME NEW r \in Stores
       PROVE  KnowsItsPlace(r)'
  <2>1. CASE r = s
    <3>1. Numbered(reader[s])'
      BY <1>3, <1>7 DEF Numbered
    <3>2. QED
      BY <1>2, <1>5, <1>9, <2>1, <3>1 DEF KnowsItsPlace
  <2>2. CASE r # s
    <3>1. Numbered(reader[r])' <=> Numbered(reader[r])
      BY <1>3, <1>4, <2>2 DEF Numbered
    <3>2. Numbered(opening[r])' <=> Numbered(opening[r])
      BY <1>3, <1>4, <2>2 DEF Numbered
    <3>3. KnowsItsPlace(r)
      BY <1>1
    <3>4. QED
      BY <1>3, <1>4, <2>2, <3>1, <3>2, <3>3 DEF KnowsItsPlace
  <2>3. QED
    BY <2>1, <2>2
<1>15. ASSUME NEW r \in Stores
       PROVE  HeardAll(r)'
  <2>1. CASE r = s
    <3>1. CASE op[s] = "open"
      BY <1>3, <1>5, <2>1, <3>1 DEF HeardAll
    <3>2. CASE op[s] # "open"
      <4>1. reader'[s].missed
        BY <1>2, <3>2
      <4>2. QED
        BY <2>1, <4>1 DEF HeardAll
    <3>3. QED
      BY <3>1, <3>2
  <2>2. CASE r # s
    BY <1>3, <1>4, <2>2 DEF SInv, HeardAll
  <2>3. QED
    BY <2>1, <2>2
<1>16. OwnNumbers'
  <2> SUFFICES ASSUME NEW q \in Stores, NEW r \in Stores, q # r,
                      NEW l \in Connections(q)', NEW m \in Connections(r)', l.on = m.on
               PROVE  l.store # m.store
    BY DEF OwnNumbers
  <2>1. PICK i \in Connections(q) : i.on = l.on /\ i.store = l.store
    BY <1>11
  <2>2. PICK j \in Connections(r) : j.on = m.on /\ j.store = m.store
    BY <1>11
  <2>3. i.on = j.on => i.store # j.store
    BY DEF SInv, OwnNumbers
  <2>4. QED
    BY <2>1, <2>2, <2>3
<1>17. LogIsTrue'
  <2> SUFFICES ASSUME NEW d \in DOMAIN databases, NEW id \in DOMAIN databases[d].commits
               PROVE  LET c == databases[d].commits[id] IN
                      /\ c.by \in 1..databases[d].stores
                      /\ reader'[c.who].on >= d
                      /\ \A r \in Stores : \A l \in Connections(r)' :
                           l.on = d => (c.by = l.store <=> c.who = r)
    BY <1>3 DEF LogIsTrue
  <2> DEFINE c == databases[d].commits[id]
  <2>1. /\ c.by \in 1..databases[d].stores
        /\ reader[c.who].on >= d
        /\ \A r \in Stores : \A l \in Connections(r) :
             l.on = d => (c.by = l.store <=> c.who = r)
    BY DEF SInv, LogIsTrue
  <2>2. c.who \in Stores /\ d \in Nat
    BY <1>1, DatabaseType
  <2> HIDE DEF c
  <2>3. reader'[c.who].on >= d
    <3>1. CASE c.who = s
      <4>1. reader[s].on \in Nat /\ place \in Nat
        BY <1>1 DEF TypeOK, LogReader
      <4>2. reader'[s].on = place /\ reader[s].on < place
        BY <1>2, <1>5
      <4>3. QED
        BY <2>1, <2>2, <3>1, <4>1, <4>2
    <3>2. CASE c.who # s
      BY <1>4, <2>1, <2>2, <3>2
    <3>3. QED
      BY <3>1, <3>2
  <2>4. \A r \in Stores : \A l \in Connections(r)' :
          l.on = d => (c.by = l.store <=> c.who = r)
    BY <1>11, <2>1
  <2>5. QED
    BY <2>1, <2>3, <2>4 DEF c
<1>18. NothingIsLost'
  <2> SUFFICES ASSUME NEW r \in Stores, NEW c \in untold[r]
               PROVE  \/ reader'[r].missed
                      \/ Current(r)' = reader'[r] /\ reader'[r].database # place
                      \/ /\ c.on = Current(r)'.on
                         /\ c.id > Current(r)'.seen
                         /\ c.id \in 1..Len(databases[c.on].commits)
    BY <1>3 DEF NothingIsLost
  <2>1. \/ reader[r].missed
        \/ Current(r) = reader[r] /\ reader[r].database # place
        \/ /\ c.on = Current(r).on
           /\ c.id > Current(r).seen
           /\ c.id \in 1..Len(databases[c.on].commits)
    BY DEF SInv, NothingIsLost
  <2>2. CASE r = s
    <3>1. CASE op[s] # "open"
      <4>1. reader'[s].missed
        BY <1>2, <3>1
      <4>2. QED
        BY <2>2, <4>1
    <3>2. CASE op[s] = "open"
      <4>1. Current(s) = opening[s] /\ ~reader[s].missed
        BY <1>2, <1>5, <3>2 DEF Current, NotOpen
      <4>2. Current(s) # reader[s]
        <5>1. reader[s].on \in Nat
          BY <1>1 DEF TypeOK, LogReader
        <5>2. reader[s].on # opening[s].on
          BY <1>5, <5>1
        <5>3. QED
          BY <4>1, <5>2
      <4>3. QED
        BY <1>2, <1>10, <2>1, <2>2, <4>1, <4>2
    <3>3. QED
      BY <3>1, <3>2
  <2>3. CASE r # s
    <3>1. Current(r)' = Current(r) /\ reader'[r] = reader[r]
      BY <1>4, <1>10, <2>3
    <3>2. QED
      BY <2>1, <3>1
  <2>4. QED
    BY <2>2, <2>3
<1>19. ASSUME NEW r \in Stores
       PROVE  Follows(r)'
  <2> SUFFICES ASSUME NEW l \in Connections(r)', l.on = place,
                      NEW id \in (l.seen + 1)..Len(databases[place].commits)
               PROVE  databases[place].commits[id].who = r
                      \/ [on |-> place, id |-> id] \in untold[r]
    BY <1>3 DEF Follows
  <2>1. PICK i \in Connections(r) : i.on = l.on /\ i.seen = l.seen
    BY <1>11
  <2>2. i.on = place /\ id \in (i.seen + 1)..Len(databases[place].commits)
    BY <2>1
  <2>3. QED
    BY <2>2 DEF SInv, Follows
<1>20. OnTheDatabaseThere'
  <2> SUFFICES ASSUME NEW r \in Stores, step'[r] = "checked"
               PROVE  reader'[r].on = place \/ removed'[r]
    BY <1>3 DEF OnTheDatabaseThere
  <2>1. CASE r = s
    BY <1>2, <1>5, <2>1
  <2>2. CASE r # s
    BY <1>4, <2>2 DEF SInv, OnTheDatabaseThere
  <2>3. QED
    BY <2>1, <2>2
<1>21. QED
  BY <1>12, <1>13, <1>14, <1>15, <1>16, <1>17, <1>18, <1>19, <1>20 DEF SInv

-----------------------------------------------------------------------------
(* The theorems.                                                           *)

LEMMA InitSInv ==
  ASSUME Init
  PROVE  SInv
<1>1. /\ databases = <<>> /\ place = 0 /\ databases \in Seq(Database) /\ Len(databases) = 0
      /\ DOMAIN databases = {}
  BY EmptySeq DEF Init
<1>2. \A s \in Stores :
        /\ reader[s] = NotOpen /\ opening[s] = NotOpen /\ step[s] = "closed"
        /\ op[s] = "open" /\ untold[s] = {} /\ heard[s] = <<>>
        /\ Connections(s) = {}
  BY DEF Init, Connections
<1>3. NotOpen \in LogReader
  BY DEF NotOpen, LogReader
<1>4. /\ reader \in [Stores -> LogReader] /\ opening \in [Stores -> LogReader]
      /\ step \in [Stores -> Steps] /\ op \in [Stores -> Ops]
      /\ removed \in [Stores -> BOOLEAN]
      /\ untold \in [Stores -> SUBSET [on : Nat, id : Nat]]
  BY <1>3 DEF Init, Steps, Ops
<1>5. heard \in [Stores -> Seq([id : Nat, who : Stores, origin : {"local", "external"}])]
  BY EmptySeq DEF Init
<1>6. TypeOK
  <2>1. \A s \in Stores : reader[s].on = 0
    BY <1>2 DEF NotOpen
  <2>2. place \in 0..Len(databases)
    BY <1>1
  <2>3. QED
    BY <1>1, <1>4, <1>5, <2>1, <2>2 DEF TypeOK
<1>7. LastIsThere /\ LogIsTrue
  BY <1>1 DEF LastIsThere, LogIsTrue
<1>8. \A s \in Stores : KnowsItsPlace(s) /\ HeardAll(s) /\ Follows(s)
  BY <1>2 DEF KnowsItsPlace, HeardAll, Follows
<1>9. OwnNumbers /\ NothingIsLost /\ OnTheDatabaseThere
  BY <1>2 DEF OwnNumbers, NothingIsLost, OnTheDatabaseThere
<1>10. HeardOnceInOrder /\ OriginIsTrue
  BY <1>2 DEF HeardOnceInOrder, OriginIsTrue
<1>11. QED
  BY <1>6, <1>7, <1>8, <1>9, <1>10 DEF SInv

LEMMA NextSInv ==
  ASSUME SInv, ~RemovedWhileOpening, [Next]_vars
  PROVE  SInv'
<1>1. CASE RemoveLocation
  BY <1>1, RemoveLocationKeeps
<1>2. ASSUME NEW s \in Stores, Opening(s)
      PROVE  SInv'
  BY <1>2, OpenKeeps, ConnectKeeps, RegisterKeeps, IdentifyKeeps, OpenFailsKeeps DEF Opening
<1>3. ASSUME NEW s \in Stores, Using(s)
      PROVE  SInv'
  <2>1. ASSUME NEW o \in {"commit", "poll", "read"}, Begin(s, o)
        PROVE  SInv'
    BY <2>1, BeginKeeps
  <2>2. ASSUME NEW t \in 0..MaxTime, MakeCommit(s, t)
        PROVE  SInv'
    BY <2>2, MakeCommitIs, LoggingKeeps
  <2>3. ASSUME NEW t \in 0..MaxTime, CommitLost(s, t)
        PROVE  SInv'
    BY <2>3, CommitLostIs, LoggingKeeps
  <2>4. CASE ReadLog(s)
    BY <2>4, ReadLogIs, LoggingKeeps
  <2>5. CASE Leave(s)
    BY <2>5, LeaveKeeps
  <2>6. QED
    BY <1>3, <2>1, <2>2, <2>3, <2>4, <2>5 DEF Using
<1>4. CASE UNCHANGED vars
  <2>1. /\ databases' = databases /\ place' = place /\ reader' = reader /\ opening' = opening
        /\ step' = step /\ op' = op /\ untold' = untold /\ heard' = heard /\ removed' = removed
    BY <1>4 DEF vars
  <2>2. TypeOK' <=> TypeOK
    BY <2>1 DEF TypeOK, Of
  <2>3. \A s \in Stores : Connections(s)' = Connections(s) /\ Current(s)' = Current(s)
    BY <2>1 DEF Connections, Current
  <2>4. \A s \in Stores : KnowsItsPlace(s)' <=> KnowsItsPlace(s)
    BY <2>1 DEF KnowsItsPlace, Numbered
  <2>5. OnTheDatabaseThere' <=> OnTheDatabaseThere
    BY <2>1 DEF OnTheDatabaseThere
  <2>6. QED
    BY <2>1, <2>2, <2>3, <2>4, <2>5, QuietKeeps DEF SInv
<1>5. QED
  BY <1>1, <1>2, <1>3, <1>4 DEF Next

(* While no Location is removed as a Store opens the database in it, the     *)
(* invariant holds in every state, with any number of Stores, Commits and     *)
(* removals and any clock.                                                    *)
THEOREM SqliteInductive ==
  ASSUME ~RemovedWhileOpening
  PROVE  Spec => []SInv
<1>1. Init => SInv
  BY InitSInv
<1>2. SInv /\ [Next]_vars => SInv'
  BY NextSInv
<1>3. QED
  BY <1>1, <1>2, PTL DEF Spec

(* The databases and the log readers are of their type; nobody has read       *)
(* further than the log goes.                                                 *)
THEOREM TypeCorrect ==
  ASSUME ~RemovedWhileOpening
  PROVE  Spec => []TypeOK
<1>1. SInv => TypeOK
  BY DEF SInv
<1>2. QED
  BY <1>1, SqliteInductive, PTL

(* Every other Store's Commit is read from the log, or a Resync stands for it. *)
THEOREM NoCommitIsLost ==
  ASSUME ~RemovedWhileOpening
  PROVE  Spec => []NothingIsLost
<1>1. SInv => NothingIsLost
  BY DEF SInv
<1>2. QED
  BY <1>1, SqliteInductive, PTL

(* A Store is told of Commits once each and in their order.                  *)
THEOREM ToldOnceInOrder ==
  ASSUME ~RemovedWhileOpening
  PROVE  Spec => []HeardOnceInOrder
<1>1. SInv => HeardOnceInOrder
  BY DEF SInv
<1>2. QED
  BY <1>1, SqliteInductive, PTL

(* It is told which of them are its own.                                     *)
THEOREM OriginsAreTrue ==
  ASSUME ~RemovedWhileOpening
  PROVE  Spec => []OriginIsTrue
<1>1. SInv => OriginIsTrue
  BY DEF SInv
<1>2. QED
  BY <1>1, SqliteInductive, PTL

(* What it does is done to the database at its place.                        *)
THEOREM DoneToTheDatabaseThere ==
  ASSUME ~RemovedWhileOpening
  PROVE  Spec => []OnTheDatabaseThere
<1>1. SInv => OnTheDatabaseThere
  BY DEF SInv
<1>2. QED
  BY <1>1, SqliteInductive, PTL

(* A Store that comes to tell that Changes were missed has missed some, or    *)
(* has a database open that was removed.                                      *)
LEMMA MissedSome ==
  ASSUME SInv, NEW s \in Stores, step[s] = "checked", Missed(s)
  PROVE  \/ reader[s].missed
         \/ reader[s].on # place
         \/ \E id \in (reader[s].seen + 1)..Of(s).pruned :
              Of(s).commits[id].who = s \/ [on |-> reader[s].on, id |-> id] \in untold[s]
<1> SUFFICES ASSUME ~reader[s].missed, reader[s].on = place
             PROVE  \E id \in (reader[s].seen + 1)..Of(s).pruned :
                      Of(s).commits[id].who = s \/ [on |-> reader[s].on, id |-> id] \in untold[s]
  OBVIOUS
<1> DEFINE id == reader[s].seen + 1
<1>1. TypeOK /\ KnowsItsPlace(s) /\ Follows(s)
  BY DEF SInv
<1>2. op[s] # "open" /\ Numbered(reader[s]) /\ reader[s] \in Connections(s)
  BY <1>1 DEF KnowsItsPlace, Connections
<1>3. reader[s].on \in DOMAIN databases
  BY <1>1, <1>2 DEF Numbered, TypeOK
<1>4. /\ Of(s).pruned \in Nat /\ Len(Of(s).commits) \in Nat
      /\ Of(s).pruned <= Len(Of(s).commits)
  BY <1>1, <1>3, DatabaseType DEF Of
<1>5. reader[s].seen \in Nat /\ Of(s).pruned > reader[s].seen
  BY <1>1 DEF TypeOK, LogReader, Missed
<1>6. id \in id..Of(s).pruned /\ id \in id..Len(Of(s).commits)
  BY <1>4, <1>5
<1>7. Of(s).commits[id].who = s \/ [on |-> reader[s].on, id |-> id] \in untold[s]
  BY <1>1, <1>2, <1>6 DEF Follows, Of
<1>8. QED
  BY <1>6, <1>7

(* The app gets no Resync for nothing.                                       *)
THEOREM NoNeedlessResync ==
  ASSUME ~RemovedWhileOpening
  PROVE  Spec => MissedOnlyIfSo
<1>1. SInv => \A s \in Stores :
        step[s] = "checked" /\ reader'[s].seen # reader[s].seen /\ Missed(s) =>
          \/ reader[s].missed
          \/ reader[s].on # place
          \/ \E id \in (reader[s].seen + 1)..Of(s).pruned :
               Of(s).commits[id].who = s \/ [on |-> reader[s].on, id |-> id] \in untold[s]
  BY MissedSome
<1>2. QED
  BY <1>1, SqliteInductive, PTL DEF MissedOnlyIfSo
=============================================================================
