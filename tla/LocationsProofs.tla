-------------------------- MODULE LocationsProofs --------------------------
(***************************************************************************)
(* That a Location is one Backend's, and a folder's record stays and names *)
(* the Store its Working copy was made with, whatever the numbers of apps  *)
(* and syncs, of removals of the Location, and of readings of an empty     *)
(* marker, and wherever each process ends.  The inductive invariant is     *)
(* Locations!IInv; there is a lemma for each action that does more than    *)
(* end its process, which then keeps IInv by EndedStep.                    *)
(***************************************************************************)
EXTENDS Locations, TLAPS

(* How the Locations are told apart. *)
LEMMA Removals ==
  ASSUME IInv
  PROVE  removals \in Nat /\ removals \in 0 .. removals /\ removals # Nothing
<1>1. removals \in Nat
  BY LocationsAssumption DEF IInv, TypeOK
<1> QED BY <1>1, LocationsAssumption

LEMMA LocationIsNotNothing ==
  ASSUME NEW n \in Nat, NEW m \in 0 .. n
  PROVE  m # Nothing
BY LocationsAssumption

LEMMA Values ==
  /\ 0 \in 0 .. MaxWaits /\ 0 \in 0 .. MaxRemovals
  /\ NoFlags \in [create : BOOLEAN, backend : Kinds \cup {Nothing}]
BY LocationsAssumption DEF NoFlags

LEMMA OneMoreWait ==
  ASSUME NEW n \in 0 .. MaxWaits, n < MaxWaits
  PROVE  n + 1 \in 0 .. MaxWaits
<1>1. MaxWaits \in Nat
  BY LocationsAssumption
<1> QED BY <1>1

(* What is written is the marker of a Location there was. *)
LEMMA Made ==
  ASSUME IInv, NEW p \in Processes, pc[p] = "write marker"
  PROVE  made[p] \in 0 .. removals /\ made[p] # Nothing
<1>1. made[p] \in 0 .. removals
  BY DEF IInv, WritesOwnMarker
<1> QED BY <1>1, Removals, LocationIsNotNothing

(* A claim of the Location there is agrees with its marker. *)
LEMMA CurrentClaim ==
  ASSUME IInv, NEW q \in Processes, claimed[q] = removals
  PROVE  marker = kind[q] /\ kind[q] \in Kinds
<1>1. marker = kind[q]
  BY Removals DEF IInv, OneBackend, Claimants
<1>2. pc[q] \notin {"start", "address"}
  BY Removals DEF IInv, KeepsClaim, Recording
<1> QED BY <1>1, <1>2 DEF IInv, KnowsBackend

(* A step that makes and writes no marker and claims nothing. *)
LEMMA StillToWrite ==
  ASSUME IInv, removals' = removals, marker' = marker,
         \A q \in Processes :
           /\ pc[q]' = "write marker" => pc[q] = "write marker" /\ made[q]' = made[q]
           /\ claimed[q]' \in {claimed[q], Nothing}
  PROVE  WritesOwnMarker'
<1>1. SUFFICES ASSUME NEW p \in Processes, pc[p]' = "write marker"
               PROVE  /\ made'[p] \in 0 .. removals'
                      /\ made'[p] = removals' => marker' = "empty"
                      /\ \A q \in Processes :
                           /\ claimed'[q] # made'[p]
                           /\ pc'[q] = "write marker" /\ made'[q] = made'[p] => q = p
  BY DEF WritesOwnMarker
<1>2. pc[p] = "write marker" /\ made'[p] = made[p]
  BY <1>1
<1>3. made[p] \in 0 .. removals /\ made[p] # Nothing
  BY <1>2, Made
<1> QED BY <1>1, <1>2, <1>3 DEF IInv, WritesOwnMarker

(* Any process ends, by itself or because it is stopped, and lets go of all it had. *)
LEMMA EndedStep ==
  ASSUME IInv, NEW p \in Processes, Ended(p)
  PROVE  IInv'
<1>1. TypeOK'
  BY Values DEF IInv, TypeOK, Ended, location, Steps
<1>2. KnowsBackend'
  BY DEF IInv, TypeOK, KnowsBackend, location, Ended
<1>3. KeepsClaim'
  BY DEF IInv, TypeOK, KeepsClaim, Recording, location, Ended
<1>4. WritesOwnMarker'
  <2>1. \A q \in Processes :
          /\ pc[q]' = "write marker" => pc[q] = "write marker" /\ made[q]' = made[q]
          /\ claimed[q]' \in {claimed[q], Nothing}
    BY DEF IInv, TypeOK, Ended
  <2> QED BY <2>1, StillToWrite DEF Ended, location
<1>5. OneBackend'
  BY DEF IInv, TypeOK, OneBackend, Claimants, location, Ended
<1>6. FindsMarker'
  BY DEF IInv, TypeOK, FindsMarker, Recording, location, Ended
<1>7. OneMakes'
  BY DEF IInv, TypeOK, OneMakes, Early, Recording, Claiming, location, Processes,
         Ended
<1> QED BY <1>1, <1>2, <1>3, <1>4, <1>5, <1>6, <1>7 DEF IInv

LEMMA WaitForMarkerStep ==
  ASSUME IInv, NEW p \in Processes,          NEW from \in {"detect", "read marker",
           "find", "address"}, WaitForMarker(p, from)
  PROVE  IInv'
<1>1. TypeOK'
  <2>1. waits[p] \in 0 .. MaxWaits /\ waits[p] < MaxWaits
    BY DEF IInv, TypeOK, WaitForMarker
  <2>2. waits[p] + 1 \in 0 .. MaxWaits
    BY <2>1, OneMoreWait
  <2> QED BY <2>2 DEF IInv, TypeOK, WaitForMarker, location, workingCopy
<1>2. KnowsBackend'
  BY DEF IInv, TypeOK, KnowsBackend, location, workingCopy, WaitForMarker
<1>3. KeepsClaim'
  BY DEF IInv, TypeOK, KeepsClaim, Recording, location, workingCopy, WaitForMarker
<1>4. WritesOwnMarker'
  <2>1. \A q \in Processes :
          /\ pc[q]' = "write marker" => pc[q] = "write marker" /\ made[q]' = made[q]
          /\ claimed[q]' \in {claimed[q], Nothing}
    BY DEF IInv, TypeOK, WaitForMarker
  <2> QED BY <2>1, StillToWrite DEF WaitForMarker, location
<1>5. OneBackend'
  BY DEF IInv, TypeOK, OneBackend, Claimants, location, workingCopy, WaitForMarker
<1>6. FindsMarker'
  BY DEF IInv, TypeOK, FindsMarker, Recording, location, workingCopy, WaitForMarker
<1>7. OneMakes'
  BY DEF IInv, TypeOK, OneMakes, Early, Recording, Claiming, location, workingCopy,
         Processes, WaitForMarker
<1> QED BY <1>1, <1>2, <1>3, <1>4, <1>5, <1>6, <1>7 DEF IInv

LEMMA DetectStep ==
  ASSUME IInv, NEW p \in Processes, Detect(p)
  PROVE  IInv'
<1>1. TypeOK'
  BY Values DEF IInv, TypeOK, Detect, location, workingCopy, Go, Steps, Claiming
<1>2. KnowsBackend'
  BY DEF IInv, TypeOK, KnowsBackend, location, workingCopy, Detect, Go
<1>3. KeepsClaim'
  BY DEF IInv, TypeOK, KeepsClaim, Recording, location, workingCopy, Detect, Go
<1>4. WritesOwnMarker'
  BY DEF IInv, TypeOK, WritesOwnMarker, location, workingCopy, Detect, Go
<1>5. OneBackend'
  BY DEF IInv, TypeOK, OneBackend, Claimants, location, workingCopy, Detect, Go
<1>6. FindsMarker'
  BY DEF IInv, TypeOK, FindsMarker, Recording, location, workingCopy, Detect, Go
<1>7. OneMakes'
  BY DEF IInv, TypeOK, OneMakes, Early, Recording, Claiming, location, workingCopy,
         Processes, Detect, Go
<1> QED BY <1>1, <1>2, <1>3, <1>4, <1>5, <1>6, <1>7 DEF IInv

LEMMA MakeDirectoryStep ==
  ASSUME IInv, NEW p \in Processes, MakeDirectory(p)
  PROVE  IInv'
<1>1. TypeOK'
  BY DEF IInv, TypeOK, Steps, Claiming, Creating, Kinds, workingCopy, own,
         MakeDirectory, Go
<1>2. KnowsBackend'
  BY DEF IInv, TypeOK, KnowsBackend, workingCopy, own, MakeDirectory, Go
<1>3. KeepsClaim'
  BY DEF IInv, TypeOK, KeepsClaim, Recording, workingCopy, own, MakeDirectory, Go
<1>4. WritesOwnMarker'
  BY DEF IInv, TypeOK, WritesOwnMarker, workingCopy, own, MakeDirectory, Go
<1>5. OneBackend'
  BY DEF IInv, TypeOK, OneBackend, Claimants, workingCopy, own, MakeDirectory, Go
<1>6. FindsMarker'
  BY DEF IInv, TypeOK, FindsMarker, Recording, workingCopy, own, MakeDirectory, Go
<1>7. OneMakes'
  BY DEF IInv, TypeOK, OneMakes, Early, Recording, Claiming, workingCopy, own,
         Processes, MakeDirectory, Go
<1> QED BY <1>1, <1>2, <1>3, <1>4, <1>5, <1>6, <1>7 DEF IInv

(* The marker wasn't there, so no claim is of this Location and none writes its marker. *)
LEMMA MakeMarkerStep ==
  ASSUME IInv, NEW p \in Processes, MakeMarker(p)
  PROVE  IInv'
<1>1. TypeOK'
  BY DEF IInv, TypeOK, Steps, Claiming, Creating, Kinds, workingCopy, MakeMarker, Go
<1>2. KnowsBackend'
  BY DEF IInv, TypeOK, KnowsBackend, workingCopy, MakeMarker, Go
<1>3. KeepsClaim'
  BY DEF IInv, TypeOK, KeepsClaim, Recording, workingCopy, MakeMarker, Go
<1>4. WritesOwnMarker'
  <2>1. removals' = removals /\ marker' = "empty" /\ claimed' = claimed
    BY DEF MakeMarker
  <2>2. made'[p] = removals /\ \A q \in Processes : q # p => made'[q] = made[q] /\ pc'[q] = pc[q]
    BY DEF IInv, TypeOK, MakeMarker, Go
  <2>3. \A q \in Processes : claimed[q] # removals
    BY CurrentClaim, LocationsAssumption DEF MakeMarker, Kinds
  <2>4. \A q \in Processes : pc[q] = "write marker" => made[q] # removals
    BY LocationsAssumption DEF IInv, WritesOwnMarker, MakeMarker
  <2> QED BY <2>1, <2>2, <2>3, <2>4, Removals DEF IInv, WritesOwnMarker
<1>5. OneBackend'
  <2>1. \A q \in Processes : claimed[q] # removals
    BY CurrentClaim, LocationsAssumption DEF MakeMarker, Kinds
  <2> QED BY <2>1 DEF IInv, OneBackend, Claimants, MakeMarker
<1>6. FindsMarker'
  BY DEF IInv, TypeOK, FindsMarker, Recording, workingCopy, MakeMarker, Go
<1>7. OneMakes'
  BY DEF IInv, TypeOK, OneMakes, Early, Recording, Claiming, workingCopy, Processes,
         MakeMarker, Go
<1> QED BY <1>1, <1>2, <1>3, <1>4, <1>5, <1>6, <1>7 DEF IInv

LEMMA MarkerExistsStep ==
  ASSUME IInv, NEW p \in Processes, MarkerExists(p)
  PROVE  IInv'
<1>1. TypeOK'
  BY DEF IInv, TypeOK, Steps, Claiming, Creating, Kinds, location, workingCopy, own,
         MarkerExists, Go
<1>2. KnowsBackend'
  BY DEF IInv, TypeOK, KnowsBackend, location, workingCopy, own, MarkerExists, Go
<1>3. KeepsClaim'
  BY DEF IInv, TypeOK, KeepsClaim, Recording, location, workingCopy, own,
         MarkerExists, Go
<1>4. WritesOwnMarker'
  BY DEF IInv, TypeOK, WritesOwnMarker, location, workingCopy, own, MarkerExists, Go
<1>5. OneBackend'
  BY DEF IInv, TypeOK, OneBackend, Claimants, location, workingCopy, own,
         MarkerExists, Go
<1>6. FindsMarker'
  BY DEF IInv, TypeOK, FindsMarker, Recording, location, workingCopy, own,
         MarkerExists, Go
<1>7. OneMakes'
  BY DEF IInv, TypeOK, OneMakes, Early, Recording, Claiming, location, workingCopy,
         own, Processes, MarkerExists, Go
<1> QED BY <1>1, <1>2, <1>3, <1>4, <1>5, <1>6, <1>7 DEF IInv

(* Nobody else claims the Location whose marker process p writes. *)
LEMMA WriteMarkerStep ==
  ASSUME IInv, NEW p \in Processes, WriteMarker(p)
  PROVE  IInv'
<1>1. TypeOK'
  <2>1. pc[p] = "write marker" /\ kind[p] \in Kinds
    BY DEF IInv, WriteMarker, Claimed, Go, KnowsBackend
  <2> QED BY Values, <2>1 DEF IInv, TypeOK, WriteMarker, Claimed, Go, workingCopy,
         Steps
<1>2. KnowsBackend'
  BY DEF IInv, TypeOK, KnowsBackend, workingCopy, WriteMarker, Claimed, Go
<1>3. KeepsClaim'
  <2>1. removals' = removals /\ pc[p]' = "open" /\ claimed'[p] = made[p] /\ made[p] \in 0 .. removals
    BY Made DEF IInv, TypeOK, WriteMarker, Claimed, Go
  <2>2. \A q \in Processes : q # p => claimed'[q] = claimed[q] /\ pc'[q] = pc[q]
    BY DEF IInv, TypeOK, WriteMarker, Claimed, Go
  <2> QED BY <2>1, <2>2, Removals DEF IInv, KeepsClaim
<1>4. WritesOwnMarker'
  <2>1. removals' = removals /\ marker' = IF made[p] = removals THEN kind[p] ELSE marker
    BY DEF WriteMarker, Claimed
  <2>2. \A q \in Processes :
          pc[q]' = "write marker" =>
            q # p /\ pc[q] = "write marker" /\ made[q]' = made[q] /\ made[q] # made[p]
    BY DEF IInv, TypeOK, WriteMarker, Claimed, Go, WritesOwnMarker
  <2>3. \A q \in Processes : claimed[q]' \in {claimed[q], made[p]}
    BY DEF IInv, TypeOK, WriteMarker, Claimed
  <2> QED BY <2>1, <2>2, <2>3 DEF IInv, WritesOwnMarker
<1>5. OneBackend'
  <2>1. pc[p] = "write marker" /\ removals' = removals /\ kind' = kind /\ claimed'[p] = made[p]
    BY DEF IInv, TypeOK, WriteMarker, Claimed, Go
  <2>2. \A q \in Processes : q # p => claimed'[q] = claimed[q] /\ claimed[q] # made[p]
    BY <2>1 DEF IInv, TypeOK, WriteMarker, Claimed, WritesOwnMarker
  <2>3. marker' = IF made[p] = removals THEN kind[p] ELSE marker
    BY DEF WriteMarker
  <2>4. \A q \in Processes : q # p /\ claimed[q] = removals => marker' = kind[q]
    BY <2>2, <2>3, CurrentClaim
  <2>5. \A q \in Processes : claimed'[q] = removals' => marker' = kind'[q]
    BY <2>1, <2>2, <2>3, <2>4
  <2>6. ASSUME NEW q \in Processes, NEW r \in Processes,
               claimed'[q] # Nothing, claimed'[q] = claimed'[r]
        PROVE  kind'[q] = kind'[r]
    <3>1. CASE q = p \/ r = p
      BY <2>1, <2>2, <2>6, <3>1
    <3>2. CASE q # p /\ r # p
      BY <2>1, <2>2, <2>6, <3>2 DEF IInv, OneBackend, Claimants
    <3> QED BY <3>1, <3>2
  <2> QED BY <2>5, <2>6 DEF OneBackend, Claimants
<1>6. FindsMarker'
  <2>1. pc[p] = "write marker" /\ pc'[p] = "open" /\ removals' = removals /\ claimed'[p] = made[p]
    BY DEF IInv, TypeOK, WriteMarker, Claimed, Go
  <2>2. \A q \in Processes : q # p => claimed'[q] = claimed[q] /\ pc'[q] = pc[q]
    BY DEF IInv, TypeOK, WriteMarker, Claimed, Go
  <2>3. kind[p] # Nothing
    BY <2>1, LocationsAssumption DEF IInv, KnowsBackend, Kinds
  <2>4. marker # Nothing => marker' # Nothing
    BY <2>3 DEF WriteMarker
  <2> QED BY <2>1, <2>2, <2>4, Made DEF IInv, FindsMarker
<1>7. OneMakes'
  BY DEF IInv, TypeOK, OneMakes, Early, Recording, Claiming, workingCopy, Processes,
         WriteMarker, Claimed, Go
<1> QED BY <1>1, <1>2, <1>3, <1>4, <1>5, <1>6, <1>7 DEF IInv

LEMMA ReadMarkerStep ==
  ASSUME IInv, NEW p \in Processes, ReadMarker(p)
  PROVE  IInv'
<1>1. TypeOK'
  <2>1. removals \in 0 .. MaxRemovals
    BY DEF IInv, TypeOK
  <2> QED BY Values, <2>1 DEF IInv, TypeOK, ReadMarker, Claimed, Go, workingCopy,
         Steps
<1>2. KnowsBackend'
  BY DEF IInv, TypeOK, KnowsBackend, workingCopy, ReadMarker, Claimed, Go
<1>3. KeepsClaim'
  <2>1. removals' = removals /\ pc[p]' = "open" /\ claimed'[p] \in {removals, Nothing}
    BY DEF IInv, TypeOK, ReadMarker, Claimed, Go
  <2>2. \A q \in Processes : q # p => claimed'[q] = claimed[q] /\ pc'[q] = pc[q]
    BY DEF IInv, TypeOK, ReadMarker, Claimed, Go
  <2> QED BY <2>1, <2>2, Removals DEF IInv, KeepsClaim
<1>4. WritesOwnMarker'
  <2>1. removals' = removals /\ marker' = marker /\ marker # "empty"
    BY LocationsAssumption DEF IInv, ReadMarker, Claimed, Go, KnowsBackend, Kinds
  <2>2. \A q \in Processes :
          pc[q]' = "write marker" =>
            pc[q] = "write marker" /\ made[q]' = made[q] /\ made[q] # removals
    BY <2>1 DEF IInv, TypeOK, ReadMarker, Claimed, Go, WritesOwnMarker
  <2>3. \A q \in Processes : claimed[q]' \in {claimed[q], removals, Nothing}
    BY DEF IInv, TypeOK, ReadMarker, Claimed
  <2> QED BY <2>1, <2>2, <2>3, Made DEF IInv, WritesOwnMarker
<1>5. OneBackend'
  BY DEF IInv, TypeOK, OneBackend, Claimants, workingCopy, ReadMarker, Claimed, Go
<1>6. FindsMarker'
  <2>1. /\ pc[p] = "read marker" /\ pc'[p] = "open" /\ removals' = removals /\ marker' = marker
        /\ claimed'[p] = IF marker = Nothing THEN Nothing ELSE removals
    BY DEF IInv, TypeOK, ReadMarker, Claimed, Go
  <2>2. \A q \in Processes : q # p => claimed'[q] = claimed[q] /\ pc'[q] = pc[q]
    BY DEF IInv, TypeOK, ReadMarker, Claimed, Go
  <2> QED BY <2>1, <2>2, Removals DEF IInv, FindsMarker
<1>7. OneMakes'
  BY DEF IInv, TypeOK, OneMakes, Early, Recording, Claiming, workingCopy, Processes,
         ReadMarker, Claimed, Go
<1> QED BY <1>1, <1>2, <1>3, <1>4, <1>5, <1>6, <1>7 DEF IInv

LEMMA OpenStep ==
  ASSUME IInv, NEW p \in Processes, Open(p)
  PROVE  IInv'
<1>1. TypeOK'
  BY DEF IInv, TypeOK, Steps, Claiming, Creating, Kinds, location, workingCopy, Open,
         Go
<1>2. KnowsBackend'
  BY DEF IInv, TypeOK, KnowsBackend, location, workingCopy, Open, Go
<1>3. KeepsClaim'
  BY DEF IInv, TypeOK, KeepsClaim, Recording, location, workingCopy, Open, Go
<1>4. WritesOwnMarker'
  BY DEF IInv, TypeOK, WritesOwnMarker, location, workingCopy, Open, Go
<1>5. OneBackend'
  BY DEF IInv, TypeOK, OneBackend, Claimants, location, workingCopy, Open, Go
<1>6. FindsMarker'
  BY DEF IInv, TypeOK, FindsMarker, Recording, location, workingCopy, Open, Go
<1>7. OneMakes'
  <2>1. p \in Processes /\ pc[p] = "open"
    BY DEF Open, Go, Processes
  <2>2. making' = making /\ syncing' = syncing /\ record' = record
    BY DEF Open, workingCopy
  <2>3. \A q \in Processes :
          pc'[q] = IF q = p THEN (IF p \in making THEN "lock record" ELSE "use") ELSE pc[q]
    BY DEF Open, Go, IInv, TypeOK
  <2>4. \A q \in making : q \in Processes /\ q # Nothing
    BY LocationsAssumption DEF IInv, TypeOK, Processes
  <2> QED BY <2>1, <2>2, <2>3, <2>4 DEF IInv, OneMakes, Recording, Early
<1> QED BY <1>1, <1>2, <1>3, <1>4, <1>5, <1>6, <1>7 DEF IInv

LEMMA ClaimMissingStep ==
  ASSUME IInv, NEW p \in Processes, ClaimMissing(p)
  PROVE  IInv'
<1>1. TypeOK'
  BY DEF IInv, TypeOK, Steps, Claiming, Creating, Kinds, location, workingCopy,
         ClaimMissing, Go
<1>2. KnowsBackend'
  BY DEF IInv, TypeOK, KnowsBackend, location, workingCopy, ClaimMissing, Go
<1>3. KeepsClaim'
  BY DEF IInv, TypeOK, KeepsClaim, Recording, location, workingCopy, ClaimMissing, Go
<1>4. WritesOwnMarker'
  <2>1. \A q \in Processes :
          /\ pc[q]' = "write marker" => pc[q] = "write marker" /\ made[q]' = made[q]
          /\ claimed[q]' \in {claimed[q], Nothing}
    BY DEF IInv, TypeOK, ClaimMissing, Go
  <2> QED BY <2>1, StillToWrite DEF ClaimMissing, location
<1>5. OneBackend'
  BY DEF IInv, TypeOK, OneBackend, Claimants, location, workingCopy, ClaimMissing, Go
<1>6. FindsMarker'
  BY DEF IInv, TypeOK, FindsMarker, Recording, location, workingCopy, ClaimMissing, Go
<1>7. OneMakes'
  BY DEF IInv, TypeOK, OneMakes, Early, Recording, Claiming, location, workingCopy,
         Processes, ClaimMissing, Go
<1> QED BY <1>1, <1>2, <1>3, <1>4, <1>5, <1>6, <1>7 DEF IInv

LEMMA ClaimAgainStep ==
  ASSUME IInv, NEW p \in Processes, ClaimAgain(p)
  PROVE  IInv'
<1>1. TypeOK'
  BY DEF IInv, TypeOK, Steps, Claiming, Creating, Kinds, location, workingCopy,
         ClaimAgain, Go
<1>2. KnowsBackend'
  BY DEF IInv, TypeOK, KnowsBackend, location, workingCopy, ClaimAgain, Go
<1>3. KeepsClaim'
  BY DEF IInv, TypeOK, KeepsClaim, Recording, location, workingCopy, ClaimAgain, Go
<1>4. WritesOwnMarker'
  <2>1. \A q \in Processes :
          /\ pc[q]' = "write marker" => pc[q] = "write marker" /\ made[q]' = made[q]
          /\ claimed[q]' \in {claimed[q], Nothing}
    BY DEF IInv, TypeOK, ClaimAgain, Go
  <2> QED BY <2>1, StillToWrite DEF ClaimAgain, location
<1>5. OneBackend'
  BY DEF IInv, TypeOK, OneBackend, Claimants, location, workingCopy, ClaimAgain, Go
<1>6. FindsMarker'
  BY DEF IInv, TypeOK, FindsMarker, Recording, location, workingCopy, ClaimAgain, Go
<1>7. OneMakes'
  BY DEF IInv, TypeOK, OneMakes, Early, Recording, Claiming, location, workingCopy,
         Processes, ClaimAgain, Go
<1> QED BY <1>1, <1>2, <1>3, <1>4, <1>5, <1>6, <1>7 DEF IInv

LEMMA LockAgainStep ==
  ASSUME IInv, NEW p \in Openers, LockAgain(p)
  PROVE  IInv'
<1>1. TypeOK'
  BY DEF IInv, TypeOK, location, workingCopy, Processes, LockAgain
<1>2. KnowsBackend' /\ KeepsClaim' /\ WritesOwnMarker'
  BY DEF IInv, KnowsBackend, KeepsClaim, WritesOwnMarker, location, workingCopy,
         LockAgain
<1>3. OneBackend' /\ FindsMarker' /\ OneMakes'
  BY DEF IInv, OneBackend, Claimants, FindsMarker, OneMakes, location, workingCopy,
         LockAgain
<1> QED BY <1>1, <1>2, <1>3 DEF IInv

LEMMA StartOpeningStep ==
  ASSUME IInv, NEW p \in Openers, NEW k \in Kinds, StartOpening(p, k)
  PROVE  IInv'
<1>1. TypeOK'
  BY DEF IInv, TypeOK, Steps, Claiming, Creating, Kinds, location, workingCopy,
         Processes, StartOpening, Go
<1>2. KnowsBackend'
  BY DEF IInv, TypeOK, KnowsBackend, location, workingCopy, Processes, StartOpening,
         Go
<1>3. KeepsClaim'
  BY DEF IInv, TypeOK, KeepsClaim, Recording, location, workingCopy, Processes,
         StartOpening, Go
<1>4. WritesOwnMarker'
  BY DEF IInv, TypeOK, WritesOwnMarker, location, workingCopy, Processes,
         StartOpening, Go
<1>5. OneBackend'
  BY DEF IInv, TypeOK, OneBackend, Claimants, location, workingCopy, Processes,
         KeepsClaim, Recording, StartOpening, Go
<1>6. FindsMarker'
  BY DEF IInv, TypeOK, FindsMarker, Recording, location, workingCopy, Processes,
         StartOpening, Go
<1>7. OneMakes'
  BY DEF IInv, TypeOK, OneMakes, Early, Recording, Claiming, location, workingCopy,
         Processes, StartOpening, Go
<1> QED BY <1>1, <1>2, <1>3, <1>4, <1>5, <1>6, <1>7 DEF IInv

LEMMA StartSyncStep ==
  ASSUME IInv, NEW p \in Syncs, NEW create \in BOOLEAN, NEW backend \in Kinds \cup
           {Nothing}, StartSync(p, create, backend)
  PROVE  IInv'
<1>1. TypeOK'
  BY DEF IInv, TypeOK, Steps, Claiming, Creating, Kinds, location, workingCopy,
         Processes, StartSync, Go
<1>2. KnowsBackend'
  BY DEF IInv, TypeOK, KnowsBackend, location, workingCopy, Processes, StartSync, Go
<1>3. KeepsClaim'
  BY DEF IInv, TypeOK, KeepsClaim, Recording, location, workingCopy, Processes,
         StartSync, Go
<1>4. WritesOwnMarker'
  BY DEF IInv, TypeOK, WritesOwnMarker, location, workingCopy, Processes, StartSync,
         Go
<1>5. OneBackend'
  BY DEF IInv, TypeOK, OneBackend, Claimants, location, workingCopy, Processes,
         KeepsClaim, Recording, StartSync, Go
<1>6. FindsMarker'
  BY DEF IInv, TypeOK, FindsMarker, Recording, location, workingCopy, Processes,
         StartSync, Go
<1>7. OneMakes'
  BY DEF IInv, TypeOK, OneMakes, Early, Recording, Claiming, location, workingCopy,
         Processes, StartSync, Go
<1> QED BY <1>1, <1>2, <1>3, <1>4, <1>5, <1>6, <1>7 DEF IInv

LEMMA ResumeLockStep ==
  ASSUME IInv, NEW p \in Syncs, TakeSyncLock(p, "resume", "match")
  PROVE  IInv'
<1>1. TypeOK'
  BY DEF IInv, TypeOK, TakeSyncLock, Go, location, own, Steps, Leftovers, LockFiles,
         Processes
<1>2. KnowsBackend'
  BY DEF IInv, TypeOK, KnowsBackend, location, own, Processes, TakeSyncLock, Go
<1>3. KeepsClaim'
  BY DEF IInv, TypeOK, KeepsClaim, Recording, location, own, Processes, TakeSyncLock,
         Go
<1>4. WritesOwnMarker'
  BY DEF IInv, TypeOK, WritesOwnMarker, location, own, Processes, TakeSyncLock, Go
<1>5. OneBackend'
  BY DEF IInv, TypeOK, OneBackend, Claimants, location, own, Processes, TakeSyncLock,
         Go
<1>6. FindsMarker'
  BY DEF IInv, TypeOK, FindsMarker, Recording, location, own, Processes, TakeSyncLock,
         Go
<1>7. OneMakes'
  <2>1. p \in Processes /\ pc[p] = "resume" /\ syncing = Nothing
    BY DEF TakeSyncLock, Go, Processes
  <2>2. making' = making /\ syncing' = p /\ record' = record
    BY DEF TakeSyncLock, own
  <2>3. \A q \in Processes :
          pc'[q] = IF q = p THEN "match" ELSE pc[q]
    BY DEF TakeSyncLock, Go, IInv, TypeOK
  <2>4. \A q \in making : q \in Processes /\ q # Nothing
    BY LocationsAssumption DEF IInv, TypeOK, Processes
  <2> QED BY <2>1, <2>2, <2>3, <2>4 DEF IInv, OneMakes, Recording, Early, Claiming
<1> QED BY <1>1, <1>2, <1>3, <1>4, <1>5, <1>6, <1>7 DEF IInv

LEMMA CreateLockStep ==
  ASSUME IInv, NEW p \in Syncs, TakeSyncLock(p, "lock", "check again")
  PROVE  IInv'
<1>1. TypeOK'
  BY DEF IInv, TypeOK, TakeSyncLock, Go, location, own, Steps, Creating, Leftovers,
         LockFiles, Processes
<1>2. KnowsBackend'
  BY DEF IInv, TypeOK, KnowsBackend, location, own, Processes, TakeSyncLock, Go
<1>3. KeepsClaim'
  BY DEF IInv, TypeOK, KeepsClaim, Recording, location, own, Processes, TakeSyncLock,
         Go
<1>4. WritesOwnMarker'
  BY DEF IInv, TypeOK, WritesOwnMarker, location, own, Processes, TakeSyncLock, Go
<1>5. OneBackend'
  BY DEF IInv, TypeOK, OneBackend, Claimants, location, own, Processes, TakeSyncLock,
         Go
<1>6. FindsMarker'
  BY DEF IInv, TypeOK, FindsMarker, Recording, location, own, Processes, TakeSyncLock,
         Go
<1>7. OneMakes'
  <2>1. p \in Processes /\ pc[p] = "lock" /\ syncing = Nothing
    BY DEF TakeSyncLock, Go, Processes
  <2>2. making' = making /\ syncing' = p /\ record' = record
    BY DEF TakeSyncLock, own
  <2>3. \A q \in Processes :
          pc'[q] = IF q = p THEN "check again" ELSE pc[q]
    BY DEF TakeSyncLock, Go, IInv, TypeOK
  <2>4. \A q \in making : q \in Processes /\ q # Nothing
    BY LocationsAssumption DEF IInv, TypeOK, Processes
  <2> QED BY <2>1, <2>2, <2>3, <2>4 DEF IInv, OneMakes, Recording, Early, Claiming
<1> QED BY <1>1, <1>2, <1>3, <1>4, <1>5, <1>6, <1>7 DEF IInv

LEMMA MatchFlagsStep ==
  ASSUME IInv, NEW p \in Syncs, MatchFlags(p)
  PROVE  IInv'
<1>1. TypeOK'
  BY Values DEF IInv, TypeOK, MatchFlags, Go, location, workingCopy, Steps, Processes
<1>2. KnowsBackend'
  BY DEF IInv, TypeOK, KnowsBackend, location, workingCopy, Processes, MatchFlags, Go
<1>3. KeepsClaim'
  BY DEF IInv, TypeOK, KeepsClaim, Recording, location, workingCopy, Processes,
         MatchFlags, Go
<1>4. WritesOwnMarker'
  BY DEF IInv, TypeOK, WritesOwnMarker, location, workingCopy, Processes, MatchFlags,
         Go
<1>5. OneBackend'
  BY DEF IInv, TypeOK, OneBackend, Claimants, location, workingCopy, Processes,
         MatchFlags, Go
<1>6. FindsMarker'
  BY DEF IInv, TypeOK, FindsMarker, Recording, location, workingCopy, Processes,
         MatchFlags, Go
<1>7. OneMakes'
  BY DEF IInv, TypeOK, OneMakes, Early, Recording, Claiming, location, workingCopy,
         Processes, MatchFlags, Go
<1> QED BY <1>1, <1>2, <1>3, <1>4, <1>5, <1>6, <1>7 DEF IInv

LEMMA FindStoreStep ==
  ASSUME IInv, NEW p \in Syncs, FindStore(p)
  PROVE  IInv'
<1>1. TypeOK'
  BY Values DEF IInv, TypeOK, FindStore, location, workingCopy, Go, Steps, Claiming,
         Processes
<1>2. KnowsBackend'
  BY DEF IInv, TypeOK, KnowsBackend, location, workingCopy, Processes, FindStore, Go
<1>3. KeepsClaim'
  BY DEF IInv, TypeOK, KeepsClaim, Recording, location, workingCopy, Processes,
         FindStore, Go
<1>4. WritesOwnMarker'
  <2>1. \A q \in Processes :
          /\ pc[q]' = "write marker" => pc[q] = "write marker" /\ made[q]' = made[q]
          /\ claimed[q]' \in {claimed[q], Nothing}
    BY DEF IInv, TypeOK, FindStore, Processes, Go
  <2> QED BY <2>1, StillToWrite DEF FindStore, location
<1>5. OneBackend'
  BY DEF IInv, TypeOK, OneBackend, Claimants, location, workingCopy, Processes,
         FindStore, Go
<1>6. FindsMarker'
  BY DEF IInv, TypeOK, FindsMarker, Recording, location, workingCopy, Processes,
         FindStore, Go
<1>7. OneMakes'
  BY DEF IInv, TypeOK, OneMakes, Early, Recording, Claiming, location, workingCopy,
         Processes, FindStore, Go
<1> QED BY <1>1, <1>2, <1>3, <1>4, <1>5, <1>6, <1>7 DEF IInv

LEMMA AddressStep ==
  ASSUME IInv, NEW p \in Syncs, Address(p)
  PROVE  IInv'
<1>1. TypeOK'
  BY Values DEF IInv, TypeOK, Address, location, workingCopy, Go, Steps, Creating,
         Processes
<1>2. KnowsBackend'
  BY DEF IInv, TypeOK, KnowsBackend, location, workingCopy, Processes, Address, Go
<1>3. KeepsClaim'
  BY DEF IInv, TypeOK, KeepsClaim, Recording, location, workingCopy, Processes,
         Address, Go
<1>4. WritesOwnMarker'
  <2>1. \A q \in Processes :
          /\ pc[q]' = "write marker" => pc[q] = "write marker" /\ made[q]' = made[q]
          /\ claimed[q]' \in {claimed[q], Nothing}
    BY DEF IInv, TypeOK, Address, Processes, Go
  <2> QED BY <2>1, StillToWrite DEF Address, location
<1>5. OneBackend'
  BY DEF IInv, TypeOK, OneBackend, Claimants, location, workingCopy, Processes,
         KeepsClaim, Recording, Address, Go
<1>6. FindsMarker'
  BY DEF IInv, TypeOK, FindsMarker, Recording, location, workingCopy, Processes,
         Address, Go
<1>7. OneMakes'
  BY DEF IInv, TypeOK, OneMakes, Early, Recording, Claiming, location, workingCopy,
         Processes, Address, Go
<1> QED BY <1>1, <1>2, <1>3, <1>4, <1>5, <1>6, <1>7 DEF IInv

LEMMA CheckFolderStep ==
  ASSUME IInv, NEW p \in Syncs, CheckFolder(p)
  PROVE  IInv'
<1>1. TypeOK'
  BY DEF IInv, TypeOK, CheckFolder, location, workingCopy, own, Go, Steps, Claiming,
         Creating,
         Processes
<1>2. KnowsBackend'
  BY DEF IInv, TypeOK, KnowsBackend, location, workingCopy, own, Processes,
         CheckFolder, CanCreate, Go
<1>3. KeepsClaim'
  BY DEF IInv, TypeOK, KeepsClaim, Recording, location, workingCopy, own, Processes,
         CheckFolder, CanCreate, Go
<1>4. WritesOwnMarker'
  <2>1. \A q \in Processes :
          /\ pc[q]' = "write marker" => pc[q] = "write marker" /\ made[q]' = made[q]
          /\ claimed[q]' \in {claimed[q], Nothing}
    BY DEF IInv, TypeOK, CheckFolder, own, Go
  <2> QED BY <2>1, StillToWrite DEF CheckFolder, location
<1>5. OneBackend'
  BY DEF IInv, TypeOK, OneBackend, Claimants, location, workingCopy, own, Processes,
         CheckFolder, CanCreate, Go
<1>6. FindsMarker'
  BY DEF IInv, TypeOK, FindsMarker, Recording, location, workingCopy, own, Processes,
         CheckFolder, CanCreate, Go
<1>7. OneMakes'
  <2>1. p \in Processes /\ record = Nothing
    BY DEF CheckFolder, CanCreate, Processes
  <2>2. making' = making /\ syncing' = syncing /\ record' = record
    BY DEF CheckFolder, own, workingCopy
  <2>3. \A q \in making : q \in Processes
    BY DEF IInv, TypeOK, Processes
  <2>4. CASE Go(p, "check", "lock")
    <3>1. \A q \in Processes : pc'[q] = IF q = p THEN "lock" ELSE pc[q]
      BY <2>4 DEF Go, IInv, TypeOK
    <3> QED BY <2>1, <2>2, <2>3, <2>4, <3>1 DEF IInv, OneMakes, Recording, Early, Go
  <2>5. CASE Go(p, "check again", "detect")
    <3>1. \A q \in Processes : pc'[q] = IF q = p THEN "detect" ELSE pc[q]
      BY <2>5 DEF Go, IInv, TypeOK
    <3> QED BY <2>1, <2>2, <2>3, <2>5, <3>1 DEF IInv, OneMakes, Recording, Early,
           Claiming, Go
  <2> QED BY <2>4, <2>5 DEF CheckFolder
<1> QED BY <1>1, <1>2, <1>3, <1>4, <1>5, <1>6, <1>7 DEF IInv

(* The steps of saving the record before it is renamed touch no more than    *)
(* the folder.                                                               *)
LEMMA SavingKeeps ==
  ASSUME IInv, NEW p \in Syncs, NEW from \in Recording, NEW to \in Recording,
         NEW entries \in SUBSET Leftovers, Saving(p, from, to, entries), UNCHANGED record
  PROVE  IInv'
<1>1. p \in Processes /\ pc[p] = from /\ to \notin {"use", "write marker"}
  BY DEF Saving, Go, Recording, Processes
<1>2. UNCHANGED <<location, record, syncing, own>>
  BY <1>1 DEF Saving, own
<1>3. \A q \in Processes : pc'[q] = IF q = p THEN to ELSE pc[q]
  BY DEF IInv, TypeOK, Saving, Go
<1>4. \A q \in making : q \in Processes
  BY DEF IInv, TypeOK, Processes
<1>5. TypeOK'
  BY <1>1, <1>2 DEF IInv, TypeOK, Saving, Go, location, own, Steps, Creating,
         Recording
<1>6. KnowsBackend'
  BY <1>1, <1>2, <1>3 DEF IInv, KnowsBackend, own, Recording
<1>7. KeepsClaim'
  BY <1>1, <1>2, <1>3 DEF IInv, KeepsClaim, location, own, Recording
<1>8. WritesOwnMarker'
  BY <1>1, <1>2, <1>3 DEF IInv, WritesOwnMarker, location, own
<1>9. OneBackend'
  BY <1>2 DEF IInv, OneBackend, Claimants, location, own
<1>10. FindsMarker'
  BY <1>1, <1>2, <1>3 DEF IInv, FindsMarker, location, own, Recording
<1>11. OneMakes'
  BY <1>1, <1>2, <1>3, <1>4 DEF IInv, OneMakes, own, Recording, Early
<1> QED BY <1>5, <1>6, <1>7, <1>8, <1>9, <1>10, <1>11 DEF IInv

LEMMA SavingStep ==
  ASSUME IInv, NEW p \in Syncs,
         LockRecord(p) \/ SaveIgnore(p) \/ RenameIgnore(p) \/ SaveRecord(p)
  PROVE  IInv'
<1> USE DEF IInv, TypeOK, Recording, Leftovers, LockFiles, Temporaries
<1>1. CASE LockRecord(p)
  BY <1>1, SavingKeeps DEF LockRecord
<1>2. CASE SaveIgnore(p)
  BY <1>2, SavingKeeps DEF SaveIgnore
<1>3. CASE RenameIgnore(p)
  BY <1>3, SavingKeeps DEF RenameIgnore
<1>4. CASE SaveRecord(p)
  BY <1>4, SavingKeeps DEF SaveRecord
<1> QED BY <1>1, <1>2, <1>3, <1>4

LEMMA RenameRecordStep ==
  ASSUME IInv, NEW p \in Syncs, RenameRecord(p)
  PROVE  IInv'
<1>1. TypeOK'
  BY DEF IInv, TypeOK, Steps, Claiming, Creating, Kinds, location, Processes,
         RenameRecord, Saving, Go
<1>2. KnowsBackend'
  BY DEF IInv, TypeOK, KnowsBackend, location, Processes, RenameRecord, Saving, Go
<1>3. KeepsClaim'
  BY DEF IInv, TypeOK, KeepsClaim, Recording, location, Processes, RenameRecord,
         Saving, Go
<1>4. WritesOwnMarker'
  BY DEF IInv, TypeOK, WritesOwnMarker, location, Processes, RenameRecord, Saving, Go
<1>5. OneBackend'
  BY DEF IInv, TypeOK, OneBackend, Claimants, location, Processes, RenameRecord,
         Saving, Go
<1>6. FindsMarker'
  BY DEF IInv, TypeOK, FindsMarker, Recording, location, Processes, RenameRecord,
         Saving, Go
<1>7. OneMakes'
  <2>1. p \in Processes /\ pc[p] = "rename record"
    BY DEF RenameRecord, Saving, Go, Processes
  <2>2. making' = making \ {p}
    BY DEF RenameRecord, Saving
  <2>3. \A q \in Processes : pc'[q] = IF q = p THEN "use" ELSE pc[q]
    BY DEF RenameRecord, Saving, Go, IInv, TypeOK
  <2>4. \A q \in making : q \in Processes
    BY DEF IInv, TypeOK, Processes
  <2>5. p \in making /\ syncing = p
    BY <2>1 DEF IInv, OneMakes, Early, Recording
  <2>6. \A q \in making' : pc[q] \in Early
    BY <2>2, <2>5 DEF IInv, OneMakes
  <2> QED BY <2>1, <2>2, <2>3, <2>4, <2>5, <2>6 DEF IInv, OneMakes, Recording, Early
<1> QED BY <1>1, <1>2, <1>3, <1>4, <1>5, <1>6, <1>7 DEF IInv

(* No claim is of the Location that begins. *)
LEMMA RemoveStep ==
  ASSUME IInv, Remove
  PROVE  IInv'
<1>1. TypeOK'
  <2>1. removals + 1 \in 0 .. MaxRemovals
    BY LocationsAssumption DEF IInv, TypeOK, Remove
  <2> QED BY <2>1 DEF IInv, TypeOK, Remove, workingCopy, own
<1>2. KnowsBackend'
  BY DEF IInv, TypeOK, KnowsBackend, workingCopy, own, Remove
<1>3. KeepsClaim'
  <2>1. \A m \in 0 .. removals : m \in 0 .. removals'
    BY Removals DEF Remove
  <2> QED BY <2>1 DEF IInv, KeepsClaim, Remove, own
<1>4. WritesOwnMarker'
  <2>1. \A m \in 0 .. removals : m \in 0 .. removals' /\ m # removals'
    BY Removals DEF Remove
  <2> QED BY <2>1 DEF IInv, WritesOwnMarker, Remove, own
<1>5. OneBackend'
  <2>1. \A q \in Claimants : claimed[q] \in 0 .. removals
    BY DEF IInv, KeepsClaim, Claimants
  <2>2. \A q \in Claimants : claimed[q] # removals'
    BY <2>1, Removals DEF Remove
  <2> QED BY <2>2 DEF IInv, OneBackend, Claimants, Remove, own
<1>6. FindsMarker'
  <2>1. removals' # 0
    BY Removals DEF Remove
  <2> QED BY <2>1 DEF FindsMarker
<1>7. OneMakes'
  BY DEF IInv, TypeOK, OneMakes, Early, Recording, Claiming, workingCopy, own,
         Processes, Remove
<1> QED BY <1>1, <1>2, <1>3, <1>4, <1>5, <1>6, <1>7 DEF IInv

LEMMA ClearMarkerStep ==
  ASSUME IInv, ClearMarker
  PROVE  IInv'
<1>1. TypeOK'
  BY DEF IInv, TypeOK, Steps, Claiming, Creating, Kinds, workingCopy, own, ClearMarker
<1>2. KnowsBackend'
  BY DEF IInv, TypeOK, KnowsBackend, workingCopy, own, ClearMarker
<1>3. KeepsClaim'
  BY DEF IInv, TypeOK, KeepsClaim, Recording, workingCopy, own, ClearMarker
<1>4. WritesOwnMarker'
  BY DEF IInv, WritesOwnMarker, ClearMarker, own, Claiming
<1>5. OneBackend'
  BY DEF IInv, TypeOK, OneBackend, Claimants, workingCopy, own, KeepsClaim, Recording,
         KnowsBackend, Kinds, ClearMarker
<1>6. FindsMarker'
  BY DEF IInv, FindsMarker, ClearMarker, own, Claiming
<1>7. OneMakes'
  BY DEF IInv, TypeOK, OneMakes, Early, Recording, Claiming, workingCopy, own,
         Processes, ClearMarker
<1> QED BY <1>1, <1>2, <1>3, <1>4, <1>5, <1>6, <1>7 DEF IInv

-----------------------------------------------------------------------------
LEMMA InitIInv == Init => IInv
<1> SUFFICES ASSUME Init PROVE IInv
  OBVIOUS
<1>1. TypeOK
  BY Values, LocationsAssumption DEF Init, TypeOK, Steps
<1>2. KnowsBackend /\ KeepsClaim /\ WritesOwnMarker /\ OneBackend /\ FindsMarker
  BY DEF Init, KnowsBackend, KeepsClaim, WritesOwnMarker, OneBackend, Claimants,
         FindsMarker,
         Recording
<1>3. OneMakes
  BY DEF Init, OneMakes, Early, Recording
<1> QED BY <1>1, <1>2, <1>3 DEF IInv

LEMMA ClaimStep ==
  ASSUME IInv, NEW p \in Processes, ClaimSteps(p)
  PROVE  IInv'
<1>1. ASSUME NEW from \in {"detect", "read marker", "find", "address"},
             WaitForMarker(p, from) \/ EmptyMarker(p, from)
      PROVE  IInv'
  BY <1>1, WaitForMarkerStep, EndedStep DEF EmptyMarker
<1>2. CASE WrongBackend(p) \/ MakeMarkerFails(p) \/ NoDatabase(p)
  BY <1>2, EndedStep DEF WrongBackend, MakeMarkerFails, NoDatabase
<1>3. CASE Detect(p) \/ MakeDirectory(p) \/ MakeMarker(p) \/ MarkerExists(p)
  BY <1>3, DetectStep, MakeDirectoryStep, MakeMarkerStep, MarkerExistsStep
<1>4. CASE WriteMarker(p) \/ ReadMarker(p)
  BY <1>4, WriteMarkerStep, ReadMarkerStep
<1>5. CASE Open(p) \/ ClaimMissing(p) \/ ClaimAgain(p)
  BY <1>5, OpenStep, ClaimMissingStep, ClaimAgainStep
<1> QED BY <1>1, <1>2, <1>3, <1>4, <1>5 DEF ClaimSteps

LEMMA SyncStep ==
  ASSUME IInv, NEW p \in Syncs, SyncSteps(p)
  PROVE  IInv'
<1>1. p \in Processes
  BY DEF Processes
<1>2. CASE \E create \in BOOLEAN, backend \in Kinds \cup {Nothing} : StartSync(p, create, backend)
  BY <1>2, StartSyncStep
<1>3. CASE \/ SyncLockHeld(p) \/ MismatchedFlags(p) \/ StoreMissing(p)
           \/ NoAddress(p) \/ CannotCreate(p)
  BY <1>1, <1>3, EndedStep DEF SyncLockHeld, MismatchedFlags, StoreMissing, NoAddress,
         CannotCreate
<1>4. CASE TakeSyncLock(p, "resume", "match") \/ MatchFlags(p) \/ FindStore(p)
  BY <1>4, ResumeLockStep, MatchFlagsStep, FindStoreStep
<1>5. CASE Address(p) \/ CheckFolder(p) \/ TakeSyncLock(p, "lock", "check again")
  BY <1>5, AddressStep, CheckFolderStep, CreateLockStep
<1>6. CASE LockRecord(p) \/ SaveIgnore(p) \/ RenameIgnore(p) \/ SaveRecord(p)
  BY <1>6, SavingStep
<1>7. CASE RenameRecord(p)
  BY <1>7, RenameRecordStep
<1> QED BY <1>2, <1>3, <1>4, <1>5, <1>6, <1>7 DEF SyncSteps

LEMMA StutterStep ==
  ASSUME IInv, UNCHANGED vars
  PROVE  IInv'
<1> USE DEF IInv, vars, location, workingCopy, own
<1>1. TypeOK'
  BY DEF TypeOK
<1>2. KnowsBackend' /\ KeepsClaim' /\ WritesOwnMarker'
  BY DEF KnowsBackend, KeepsClaim, WritesOwnMarker
<1>3. OneBackend' /\ FindsMarker' /\ OneMakes'
  BY DEF OneBackend, Claimants, FindsMarker, OneMakes
<1> QED BY <1>1, <1>2, <1>3

LEMMA NextIInv == IInv /\ [Next]_vars => IInv'
<1> SUFFICES ASSUME IInv, [Next]_vars PROVE IInv'
  OBVIOUS
<1>1. CASE UNCHANGED vars
  BY <1>1, StutterStep
<1>2. CASE \E p \in Processes : ClaimSteps(p) \/ Stop(p)
  BY <1>2, ClaimStep, EndedStep DEF Stop
<1>3. CASE \E p \in Openers, k \in Kinds : StartOpening(p, k)
  BY <1>3, StartOpeningStep
<1>4. CASE \E p \in Syncs : SyncSteps(p)
  BY <1>4, SyncStep
<1>5. CASE Remove \/ ClearMarker
  BY <1>5, RemoveStep, ClearMarkerStep
<1>6. CASE \E p \in Openers : LockAgain(p)
  BY <1>6, LockAgainStep
<1> QED BY <1>1, <1>2, <1>3, <1>4, <1>5, <1>6 DEF Next

(* Markers, claims and the making of a Working copy keep in step however the *)
(* steps of BackendMarker::claim (marker.rs) and WorkingCopy::create         *)
(* (working_copy.rs) of the processes interleave.                            *)
THEOREM Invariance == Spec => []IInv
BY InitIInv, NextIInv, PTL DEF Spec

(* Every variable keeps its type. *)
THEOREM TypeCorrect == Spec => []TypeOK
<1>1. IInv => TypeOK
  BY DEF IInv
<1> QED BY <1>1, Invariance, PTL

(* All the Stores that get one Location have it on one Backend, the one its  *)
(* marker names while the Location is there.                                 *)
THEOREM LocationIsOneBackends == Spec => []OneBackend
<1>1. IInv => OneBackend
  BY DEF IInv
<1> QED BY <1>1, Invariance, PTL

(* A sync that makes a Working copy can stop anywhere, and it can still be   *)
(* made.                                                                     *)
THEOREM MakingCanBeginAgain == Spec => []CanBeMadeAgain
<1>1. IInv => CanBeMadeAgain
  BY DEF IInv, TypeOK, CanBeMadeAgain, CanCreate, Allowed, Leftovers
<1> QED BY <1>1, Invariance, PTL

(* Only the renaming of a new record changes it. *)
LEMMA RenamesRecord ==
  ASSUME IInv, NEW p \in Syncs, RenameRecord(p)
  PROVE  record = Nothing /\ (removals = 0 => marker = record')
<1>1. p \in Processes /\ pc[p] = "rename record" /\ record' = kind[p]
  BY DEF RenameRecord, Saving, Go, Processes
<1>2. p \in making
  BY <1>1 DEF IInv, OneMakes, Recording
<1>3. record = Nothing
  BY <1>1, <1>2 DEF IInv, OneMakes, Early
<1>4. ASSUME removals = 0
      PROVE  marker = record'
  <2>1. claimed[p] # Nothing
    BY <1>1, <1>4 DEF IInv, FindsMarker, Recording
  <2>2. claimed[p] \in 0 .. 0
    BY <1>1, <1>4, <2>1 DEF IInv, KeepsClaim
  <2>3. claimed[p] = removals
    BY <1>4, <2>2
  <2> QED BY <1>1, <2>3, CurrentClaim
<1> QED BY <1>3, <1>4

LEMMA OtherStepsKeepRecord ==
  ASSUME [Next]_vars, \A p \in Syncs : ~RenameRecord(p)
  PROVE  record' = record
<1>1. CASE UNCHANGED vars
  BY <1>1 DEF vars, workingCopy
<1>2. ASSUME NEW p \in Processes, ClaimSteps(p) \/ Stop(p)
      PROVE  record' = record
  BY <1>2 DEF ClaimSteps, Stop, Ended, WaitForMarker, EmptyMarker, Detect,
         WrongBackend,
              MakeDirectory, MakeMarker, MarkerExists, MakeMarkerFails, WriteMarker, ReadMarker,
              Claimed, Open, ClaimMissing, NoDatabase, ClaimAgain, workingCopy
<1>3. ASSUME NEW p \in Openers, NEW k \in Kinds, StartOpening(p, k)
      PROVE  record' = record
  BY <1>3 DEF StartOpening, workingCopy
<1>4. ASSUME NEW p \in Syncs, SyncSteps(p)
      PROVE  record' = record
  BY <1>4 DEF SyncSteps, StartSync, TakeSyncLock, SyncLockHeld, MatchFlags,
         MismatchedFlags,
              FindStore, StoreMissing, Address, NoAddress, CheckFolder, CannotCreate, Ended,
              LockRecord, SaveIgnore, RenameIgnore, SaveRecord, workingCopy
<1>5. CASE Remove \/ ClearMarker
  BY <1>5 DEF Remove, ClearMarker, workingCopy
<1>6. ASSUME NEW p \in Openers, LockAgain(p)
      PROVE  record' = record
  BY <1>6 DEF LockAgain, workingCopy
<1> QED BY <1>1, <1>2, <1>3, <1>4, <1>5, <1>6 DEF Next

(* However many syncs race to make the folder a Working copy, a record once  *)
(* saved is never replaced, and it names the Backend of the Store there.     *)
THEOREM RecordIsKept == Spec => RecordStays
<1>1. IInv /\ [Next]_vars =>
        [record' # record => record = Nothing /\ (removals = 0 => marker = record')]_vars
  BY RenamesRecord, OtherStepsKeepRecord
<1> QED BY <1>1, Invariance, PTL DEF Spec, RecordStays

=============================================================================
