---------------------------- MODULE V2IntakeProofs ----------------------------
(***************************************************************************)
(* Theorems about V2Intake, for channels of any length, pages of any size  *)
(* and any lookback.                                                       *)
(***************************************************************************)
EXTENDS V2Intake, FiniteSetTheorems, WellFoundedInduction, TLAPS

-----------------------------------------------------------------------------
(* The inductive invariant *)

Pages == UNION {[S -> 1..MaxClock] : S \in SUBSET Ids}
Runs == [pc : {"idle", "recording", "scanning", "keeping"}, page : Pages,
         upper : 0..MaxId, full : BOOLEAN, next : 0..MaxId, at : 0..MaxClock]

Typed == /\ IntakeTypeOK /\ run \in Runs
         /\ quiet \in [Ids -> 0..MaxClock] /\ bound \in Nat
         /\ swept \in 0..MaxClock

(* Ids are given in the order of publication, and nothing is of the future. *)
InOrder ==
  /\ deleted \subseteq 1..posted
  /\ \A m \in Ids : /\ m <= posted <=> published[m] # Never
                    /\ published[m] <= clock
                    /\ quiet[m] <= edited[m] /\ edited[m] <= clock
                    /\ quiet[m] # Never => m <= posted
  /\ \A m, n \in 1..posted : m <= n => published[m] <= published[n]

(* A page that was read reaches up to the frontier it will be kept with.    *)
PageIsWhole ==
  /\ highWater <= posted
  /\ At("recording") =>
       /\ Frontier \in 1..posted
       /\ \A m \in (highWater + 1)..Frontier :
            m \in DOMAIN run.page \/ m \in deleted \/ published[m] < bound

(* The three times of a scan follow each other. *)
InTime ==
  /\ started <= clock /\ swept <= clock
  /\ before = 0 <=> started = Never
  /\ Scanning => swept <= started
  /\ At("keeping") => /\ swept <= run.at /\ run.at <= clock /\ run.at # Never
                      /\ Scanning => run.at = started

(* The messages whose quiet edit a scan that began at t has to read. *)
Due(t) == {m \in Ids : /\ quiet[m] # Never /\ m \notin deleted
                       /\ published[m] >= Back(t, Day)}

WatermarkIsBehind ==
  \A m \in Due(swept) : head[m] >= quiet[m] \/ watermark.at < quiet[m]
ScanReaches ==
  Scanning => \A m \in Due(started) : head[m] >= quiet[m] \/ m < before
PageReaches ==
  At("keeping") =>
    \A m \in Due(run.at) :
      \/ head[m] >= quiet[m] \/ m < run.next
      \/ m \in DOMAIN run.page /\ run.page[m] >= quiet[m]

IInv == /\ Typed /\ InOrder /\ PageIsWhole /\ InTime /\ WatermarkIsBehind
        /\ ScanReaches /\ PageReaches
        /\ FrontierIsAccounted /\ NothingIsSkipped /\ SweepSeesQuietEdits

-----------------------------------------------------------------------------
(* Greatest and least elements, and the first n of a set *)

LEMMA Bounds ==
  /\ MaxId \in Nat /\ MaxClock \in Nat \ {0} /\ Ids \subseteq Nat
  /\ Lookback \in Nat /\ Day \in Nat /\ MaxPage \in Nat
<1>1. MaxId \in Nat /\ Lookback \in Nat /\ Day \in Nat /\ MaxPage \in Nat
  BY IntakeBounds, Zenon DEF IntakeBounds
<1>2. MaxClock \in Nat \ {0}
  BY IntakeBounds DEF IntakeBounds
<1> QED
  BY <1>1, <1>2 DEF Ids

LEMMA FiniteIds == \A S \in SUBSET Ids : IsFiniteSet(S) /\ Cardinality(S) \in Nat
<1>1. IsFiniteSet(Ids)
  BY Bounds, FS_Interval DEF Ids
<1> QED
  BY <1>1, FS_Subset, FS_CardinalityType

(* A set of numbers has a least element. *)
LEMMA LeastElement ==
  ASSUME NEW S, S \subseteq Nat, S # {}
  PROVE  /\ SetMin(S) \in S
         /\ \A y \in S : SetMin(S) <= y
<1>1. IsWellFoundedOn(OpToRel(<, Nat), Nat)
  BY NatLessThanWellFounded
<1>2. PICK x \in S : \A y \in S : <<y, x>> \notin OpToRel(<, Nat)
  BY <1>1, WFMin
<1>3. \A y \in S : y \in Nat /\ x \in Nat => ~(y < x)
  BY <1>2, Zenon DEF OpToRel
<1>4. \A y \in S : x <= y
  BY <1>3
<1> QED
  BY <1>4 DEF SetMin

(* A bounded set of numbers has a greatest element. *)
LEMMA GreatestElement ==
  ASSUME NEW S, NEW n \in Nat, S \subseteq 0..n, S # {}
  PROVE  /\ SetMax(S) \in S
         /\ \A y \in S : y <= SetMax(S)
<1> DEFINE D == {n - x : x \in S}
<1>0. D \subseteq Nat
  OBVIOUS
<1>1. D \subseteq Nat /\ D # {}
  <2>1. PICK x \in S : TRUE
    OBVIOUS
  <2>2. n - x \in D
    BY <2>1
  <2> QED
    BY <1>0, <2>2
<1>2. SetMin(D) \in D /\ \A d \in D : SetMin(D) <= d
  BY <1>1, LeastElement
<1>3. PICK x \in S : SetMin(D) = n - x
  BY <1>2
<1>4. \A y \in S : y <= x
  <2> TAKE y \in S
  <2>1. n - y \in D
    OBVIOUS
  <2> QED
    BY <2>1, <1>2, <1>3
<1> QED
  BY <1>4 DEF SetMax

(* The newest n of a set are all of it or n. *)
LEMMA NewestOf ==
  ASSUME NEW S \in SUBSET Ids, NEW n \in Nat, Cardinality(Newest(S, n)) < n
  PROVE  Newest(S, n) = S
<1> DEFINE E == Newest(S, n)
<1>1. SUFFICES ASSUME S \ E # {} PROVE FALSE
  BY DEF Newest
<1>2. S \ E \subseteq 0..MaxId /\ MaxId \in Nat
  <2>1. S \subseteq 1..MaxId /\ MaxId \in Nat
    BY Bounds DEF Ids
  <2>2. \A x \in 1..MaxId : x \in 0..MaxId
    BY <2>1
  <2> QED
    BY <2>1, <2>2
<1> DEFINE m == SetMax(S \ E)
<1>3. m \in S \ E /\ \A y \in S \ E : y <= m
  BY <1>1, <1>2, GreatestElement
<1> HIDE DEF m
<1>4. {x \in S : x > m} \subseteq E
  BY <1>2, <1>3 DEF Ids
<1>5. IsFiniteSet(E)
  BY FiniteIds DEF Newest
<1>6. Cardinality({x \in S : x > m}) <= Cardinality(E)
  BY <1>4, <1>5, FS_Subset
<1>7. Cardinality({x \in S : x > m}) \in Nat /\ Cardinality(E) \in Nat
  BY <1>4, <1>5, FS_Subset, FS_CardinalityType
<1>8. m \in E
  BY <1>3, <1>6, <1>7 DEF Newest
<1> QED
  BY <1>3, <1>8

(* What is newer than one of the newest is one of them too. *)
LEMMA NewestAbove ==
  ASSUME NEW S \in SUBSET Ids, NEW n \in Nat,
         NEW m \in Newest(S, n), NEW x \in S, m <= x
  PROVE  x \in Newest(S, n)
<1>0. S \subseteq Nat /\ m \in S
  BY Bounds DEF Newest
<1>1. {y \in S : y > x} \subseteq {y \in S : y > m}
  <2>1. ASSUME NEW y \in S, y > x PROVE y > m
    <3>1. y \in Nat /\ x \in Nat /\ m \in Nat
      BY <1>0
    <3> QED
      BY <3>1, <2>1
  <2> QED
    BY <2>1
<1>2. IsFiniteSet({y \in S : y > m})
  BY FiniteIds
<1>3. Cardinality({y \in S : y > x}) <= Cardinality({y \in S : y > m})
  BY <1>1, <1>2, FS_Subset
<1>4. /\ Cardinality({y \in S : y > x}) \in Nat
      /\ Cardinality({y \in S : y > m}) \in Nat
  BY <1>1, <1>2, FS_Subset, FS_CardinalityType
<1> QED
  BY <1>3, <1>4 DEF Newest

(* What is older than one of the earliest is one of them too. *)
LEMMA EarliestBelow ==
  ASSUME NEW S \in SUBSET Ids, NEW n \in Nat,
         NEW m \in Earliest(S, n), NEW x \in S, x <= m
  PROVE  x \in Earliest(S, n)
<1>0. S \subseteq Nat /\ m \in S
  BY Bounds DEF Earliest
<1>1. {y \in S : y < x} \subseteq {y \in S : y < m}
  <2>1. ASSUME NEW y \in S, y < x PROVE y < m
    <3>1. y \in Nat /\ x \in Nat /\ m \in Nat
      BY <1>0
    <3> QED
      BY <3>1, <2>1
  <2> QED
    BY <2>1
<1>2. IsFiniteSet({y \in S : y < m})
  BY FiniteIds
<1>3. Cardinality({y \in S : y < x}) <= Cardinality({y \in S : y < m})
  BY <1>1, <1>2, FS_Subset
<1>4. /\ Cardinality({y \in S : y < x}) \in Nat
      /\ Cardinality({y \in S : y < m}) \in Nat
  BY <1>1, <1>2, FS_Subset, FS_CardinalityType
<1> QED
  BY <1>3, <1>4 DEF Earliest

(* The earliest n of a set are n of them, or all. *)
LEMMA EarliestOf ==
  ASSUME NEW S \in SUBSET Ids, NEW n \in Nat \ {0},
         Cardinality(Earliest(S, n)) # n
  PROVE  Earliest(S, n) = S
<1> DEFINE E == Earliest(S, n)
<1>1. SUFFICES ASSUME S \ E # {} PROVE FALSE
  BY DEF Earliest
<1>2. /\ E \subseteq S /\ E \subseteq 0..MaxId /\ MaxId \in Nat
      /\ S \ E \subseteq Nat
  <2>1. S \subseteq 1..MaxId /\ E \subseteq S /\ MaxId \in Nat
    BY Bounds DEF Ids, Earliest
  <2>2. \A x \in 1..MaxId : x \in 0..MaxId /\ x \in Nat
    BY <2>1
  <2> QED
    BY <2>1, <2>2
<1>3. IsFiniteSet(E) /\ Cardinality(E) \in Nat
  BY <1>2, FiniteIds
<1> DEFINE m == SetMin(S \ E)
<1>4. m \in S \ E /\ \A y \in S \ E : m <= y
  BY <1>1, <1>2, LeastElement
<1> HIDE DEF m
<1>5. {x \in S : x < m} \subseteq E
  BY <1>2, <1>4 DEF Ids
<1>6. /\ Cardinality({x \in S : x < m}) <= Cardinality(E)
      /\ Cardinality({x \in S : x < m}) \in Nat
  BY <1>5, <1>3, FS_Subset, FS_CardinalityType
<1>7. Cardinality(E) > n
  BY <1>3, <1>4, <1>6 DEF Earliest
<1>8. E # {}
  BY <1>7, FS_EmptySet
<1> DEFINE k == SetMax(E)
<1>9. k \in E /\ \A y \in E : y <= k
  BY <1>2, <1>8, GreatestElement
<1> HIDE DEF k
<1>10. E \subseteq {x \in S : x < k} \cup {k}
  BY <1>2, <1>9 DEF Ids
<1>11. IsFiniteSet({x \in S : x < k}) /\ k \notin {x \in S : x < k}
  BY <1>2, <1>9, FiniteIds, Bounds
<1>12. /\ Cardinality({x \in S : x < k} \cup {k})
            = Cardinality({x \in S : x < k}) + 1
       /\ IsFiniteSet({x \in S : x < k} \cup {k})
       /\ Cardinality({x \in S : x < k}) \in Nat
  BY <1>11, FS_AddElement, FS_CardinalityType
<1>13. Cardinality(E) <= Cardinality({x \in S : x < k}) + 1
  BY <1>10, <1>12, FS_Subset
<1>14. Cardinality({x \in S : x < k}) < n
  BY <1>9 DEF Earliest
<1> QED
  BY <1>3, <1>7, <1>12, <1>13, <1>14

(* A finite set of cursors has a highest one. *)
LEMMA HighestOf ==
  ASSUME NEW S, S \subseteq Cursor, S # {}
  PROVE  Highest(S) \in S
<1> USE Bounds
<1> DEFINE A == {a.at : a \in S}
           t == SetMax(A)
           B == {a.id : a \in {b \in S : b.at = t}}
           i == SetMax(B)
<1>1. A \subseteq 0..MaxClock /\ A # {}
  <2>1. PICK a \in S : TRUE
    OBVIOUS
  <2>2. a.at \in A
    BY <2>1
  <2> QED
    BY <2>2 DEF Cursor
<1>2. t \in A /\ \A y \in A : y <= t
  BY <1>1, GreatestElement
<1> HIDE DEF t
<1>3. PICK c \in S : c.at = t
  BY <1>2
<1>4. B \subseteq 0..MaxId /\ B # {}
  <2>1. c.id \in B
    BY <1>3
  <2> QED
    BY <2>1 DEF Cursor
<1>5. i \in B /\ \A y \in B : y <= i
  BY <1>4, GreatestElement
<1> HIDE DEF i
<1>6. PICK a \in S : a.at = t /\ a.id = i
  BY <1>5
<1>7. ASSUME NEW b \in S PROVE a = b \/ Above(a, b)
  <2>1. a \in Cursor /\ b \in Cursor /\ b.at <= t
    BY <1>2, <1>6
  <2>2. CASE b.at = t
    <3>1. b.id <= i
      BY <2>2, <1>5
    <3> QED
      BY <3>1, <2>1, <2>2, <1>6 DEF Above, Cursor
  <2>3. CASE b.at # t
    BY <2>1, <2>3, <1>6 DEF Above, Cursor
  <2> QED
    BY <2>2, <2>3
<1> QED
  BY <1>7 DEF Highest

(* A list that is empty is a page. *)
LEMMA EmptyPage == << >> \in Pages /\ DOMAIN << >> = {}
  BY DEF Pages

LEMMA RestingRuns == Resting \in Runs
  BY EmptyPage, Bounds DEF Resting, Runs, Never

(* The version of a message that can be read is not older than its edit. *)
LEMMA VersionsRead ==
  ASSUME Typed, InOrder, NEW S \in SUBSET Live
  PROVE  /\ S \subseteq Ids
         /\ \A m \in S : Version(m) \in 1..MaxClock /\ Version(m) >= quiet[m]
         /\ Versions(S) \in Pages /\ DOMAIN Versions(S) = S
<1> USE Bounds
<1>1. S \subseteq Ids /\ \A m \in S : m \in 1..posted
  BY DEF Typed, IntakeTypeOK, Live, Ids
<1>2. \A m \in S : Version(m) \in 1..MaxClock /\ Version(m) >= quiet[m]
  <2> TAKE m \in S
  <2>1. /\ m \in Ids /\ published[m] \in 0..MaxClock /\ published[m] # Never
        /\ edited[m] \in 0..MaxClock /\ quiet[m] \in 0..MaxClock
        /\ quiet[m] <= edited[m]
    BY <1>1 DEF Typed, IntakeTypeOK, InOrder
  <2> QED
    BY <2>1 DEF Version, Never
<1>3. Versions(S) \in [S -> 1..MaxClock]
  BY <1>2 DEF Versions
<1> QED
  BY <1>1, <1>2, <1>3 DEF Pages, Versions

(* Keeping a page never takes a revision back. *)
LEMMA RecordKeeps ==
  ASSUME Typed, NEW page \in Pages
  PROVE  /\ Record(page) \in [Ids -> 0..MaxClock]
         /\ DOMAIN page \subseteq Ids
         /\ \A m \in Ids : Record(page)[m] >= head[m]
         /\ \A m \in DOMAIN page : /\ Record(page)[m] >= page[m]
                                   /\ page[m] \in 1..MaxClock
<1> USE Bounds
<1>1. PICK S \in SUBSET Ids : page \in [S -> 1..MaxClock]
  BY DEF Pages
<1>2. DOMAIN page = S /\ \A m \in S : page[m] \in 1..MaxClock
  BY <1>1
<1>3. \A m \in Ids : head[m] \in 0..MaxClock
  BY DEF Typed, IntakeTypeOK
<1>4. ASSUME NEW m \in Ids
      PROVE  /\ Record(page)[m] \in 0..MaxClock /\ Record(page)[m] >= head[m]
             /\ m \in S => Record(page)[m] >= page[m]
  BY <1>2, <1>3 DEF Record
<1> QED
  BY <1>2, <1>4 DEF Record

-----------------------------------------------------------------------------
(* One lemma for every step *)

USE DEF Never

LEMMA Starts == Init => IInv
<1> SUFFICES ASSUME Init PROVE IInv
  OBVIOUS
<1> USE Bounds DEF Init
<1>1. Typed
  BY RestingRuns DEF Typed, IntakeTypeOK, Cursor, NoCursor, Resting, Ids
<1>2. InOrder
  BY DEF InOrder, Ids
<1>3. PageIsWhole /\ InTime /\ PageReaches
  BY DEF PageIsWhole, InTime, PageReaches, At, Resting, Scanning
<1>4. WatermarkIsBehind /\ ScanReaches
  BY DEF WatermarkIsBehind, ScanReaches, Due, Scanning
<1>5. FrontierIsAccounted /\ NothingIsSkipped /\ SweepSeesQuietEdits
  BY DEF FrontierIsAccounted, NothingIsSkipped, SweepSeesQuietEdits
<1> QED
  BY <1>1, <1>2, <1>3, <1>4, <1>5 DEF IInv

LEMMA PostKeeps == IInv /\ Post => IInv'
<1> SUFFICES ASSUME IInv, Post PROVE IInv'
  OBVIOUS
<1> USE Bounds DEF Post, world, cursors, history
<1>0. Typed /\ InOrder /\ posted + 1 \in Ids /\ posted \in 0..MaxId
      /\ clock \in 1..MaxClock
  <2>1. Typed /\ InOrder /\ posted \in 0..MaxId /\ clock \in 1..MaxClock
    BY DEF IInv, Typed, IntakeTypeOK
  <2> QED
    BY <2>1 DEF Ids
<1>1. Typed'
  BY <1>0 DEF Typed, IntakeTypeOK
<1>2. \A m \in Ids : m # posted + 1 => published'[m] = published[m]
  BY <1>0 DEF Typed, IntakeTypeOK
<1>3. published'[posted + 1] = clock /\ quiet[posted + 1] = Never
      /\ posted + 1 \notin deleted
  BY <1>0 DEF Typed, IntakeTypeOK, InOrder
<1>4. InOrder'
  <2>1. deleted' \subseteq 1..posted'
    BY <1>0 DEF InOrder
  <2>2. ASSUME NEW m \in Ids
        PROVE  /\ m <= posted' <=> published'[m] # Never
               /\ published'[m] <= clock'
               /\ quiet'[m] <= edited'[m] /\ edited'[m] <= clock'
               /\ quiet'[m] # Never => m <= posted'
    BY <1>0, <1>2, <1>3 DEF InOrder, Ids
  <2>3. ASSUME NEW m \in 1..posted', NEW n \in 1..posted', m <= n
        PROVE  published'[m] <= published'[n]
    <3>1. m \in Ids /\ n \in Ids
      BY <1>0 DEF Ids
    <3>2. CASE n = posted + 1
      BY <3>1, <3>2, <2>2, <1>3
    <3>3. CASE n # posted + 1
      BY <3>1, <3>3, <2>3, <1>0, <1>2 DEF InOrder
    <3> QED
      BY <3>2, <3>3
  <2> QED
    BY <2>1, <2>2, <2>3 DEF InOrder
<1>5. \A m \in Ids : m <= posted => published'[m] = published[m]
  BY <1>0, <1>2
<1>6. PageIsWhole'
  <2>1. highWater <= posted /\ PageIsWhole /\ highWater \in 0..MaxId
    BY <1>0 DEF IInv, PageIsWhole, Typed, IntakeTypeOK
  <2>2. Frontier' = Frontier /\ At("recording")' = At("recording")
    BY DEF Frontier, At
  <2>3. ASSUME At("recording")
        PROVE  /\ Frontier \in 1..posted'
               /\ \A m \in (highWater + 1)..Frontier :
                    m \in DOMAIN run.page \/ m \in deleted \/ published'[m] < bound
    <3>1. Frontier \in 1..posted
      BY <2>1, <2>3 DEF PageIsWhole
    <3>2. \A m \in (highWater + 1)..Frontier : published'[m] = published[m]
      BY <3>1, <2>1, <1>0, <1>5 DEF Ids
    <3> QED
      BY <3>1, <3>2, <2>1, <2>3, <1>0 DEF PageIsWhole
  <2> QED
    BY <2>1, <2>2, <2>3, <1>0 DEF PageIsWhole
<1>7. InTime'
  BY DEF IInv, InTime, At, Scanning
<1>8. \A t : Due(t)' = Due(t)
  BY <1>2, <1>3 DEF Due
<1>9. WatermarkIsBehind' /\ ScanReaches' /\ PageReaches'
  BY <1>8 DEF IInv, WatermarkIsBehind, ScanReaches, PageReaches, At, Scanning
<1>10. FrontierIsAccounted'
  BY DEF IInv, FrontierIsAccounted
<1>11. NothingIsSkipped'
  <2>1. \A m \in 1..highWater : published'[m] = published[m]
    BY <1>0, <1>5 DEF IInv, PageIsWhole, Typed, IntakeTypeOK, Ids
  <2> QED
    BY <2>1 DEF IInv, NothingIsSkipped
<1>12. SweepSeesQuietEdits'
  BY <1>2, <1>3 DEF IInv, SweepSeesQuietEdits
<1> QED
  BY <1>1, <1>4, <1>6, <1>7, <1>9, <1>10, <1>11, <1>12 DEF IInv

LEMMA EditKeeps == \A m \in Ids : IInv /\ Edit(m) => IInv'
<1> SUFFICES ASSUME NEW e \in Ids, IInv, Edit(e) PROVE IInv'
  OBVIOUS
<1> USE Bounds DEF Edit, world, cursors
<1>0. Typed /\ InOrder /\ clock \in 1..MaxClock /\ e \in 1..posted
      /\ quiet \in [Ids -> 0..MaxClock] /\ edited \in [Ids -> 0..MaxClock]
      /\ posted \in 0..MaxId
  BY DEF IInv, Typed, IntakeTypeOK, Live
<1>1. Typed'
  BY <1>0 DEF Typed, IntakeTypeOK
<1>2. \A m \in Ids : /\ m # e => edited'[m] = edited[m] /\ quiet'[m] = quiet[m]
                     /\ edited'[e] = clock
                     /\ quiet'[e] = clock \/ quiet'[e] = quiet[e]
  BY <1>0
<1>3. InOrder'
  BY <1>0, <1>2 DEF InOrder, Typed, IntakeTypeOK
<1>4. PageIsWhole'
  BY DEF IInv, PageIsWhole, Frontier, At
<1>5. InTime'
  BY DEF IInv, InTime, At, Scanning
<1>6. \A m \in Ids : quiet'[m] # quiet[m] =>
        /\ ~Scanning /\ watermark.at < clock /\ ~At("keeping")
        /\ quiet'[m] = clock
  BY <1>0 DEF At
<1>7. WatermarkIsBehind'
  <2> SUFFICES ASSUME NEW m \in Due(swept)'
               PROVE  head[m] >= quiet'[m] \/ watermark.at < quiet'[m]
    BY DEF WatermarkIsBehind
  <2>1. CASE quiet'[m] # quiet[m]
    BY <2>1, <1>6 DEF Due
  <2>2. CASE quiet'[m] = quiet[m]
    BY <2>2 DEF IInv, WatermarkIsBehind, Due
  <2> QED
    BY <2>1, <2>2
<1>8. ScanReaches' /\ PageReaches'
  <2>1. Scanning \/ At("keeping") => quiet' = quiet
    BY DEF At
  <2>2. Scanning \/ At("keeping") => \A t : Due(t)' = Due(t)
    BY <2>1 DEF Due
  <2> QED
    BY <2>1, <2>2 DEF IInv, ScanReaches, PageReaches, Scanning, At
<1>9. FrontierIsAccounted' /\ NothingIsSkipped'
  BY DEF IInv, FrontierIsAccounted, NothingIsSkipped
<1>10. SweepSeesQuietEdits'
  <2>1. swept <= clock /\ swept \in Nat
    BY DEF IInv, InTime, Typed
  <2>2. \A m \in Ids : quiet'[m] < swept => quiet'[m] = quiet[m]
    BY <2>1, <1>0, <1>6
  <2> QED
    BY <2>2 DEF IInv, SweepSeesQuietEdits
<1> QED
  BY <1>1, <1>3, <1>4, <1>5, <1>7, <1>8, <1>9, <1>10 DEF IInv

LEMMA DeleteKeeps == \A m \in Ids : IInv /\ Delete(m) => IInv'
<1> SUFFICES ASSUME NEW e \in Ids, IInv, Delete(e) PROVE IInv'
  OBVIOUS
<1> USE DEF Delete, world, cursors, history
<1>1. Typed' /\ InOrder'
  BY DEF IInv, Typed, IntakeTypeOK, InOrder, Live
<1>2. PageIsWhole'
  BY DEF IInv, PageIsWhole, Frontier, At
<1>3. InTime'
  BY DEF IInv, InTime, At, Scanning
<1>4. \A t : Due(t)' \subseteq Due(t)
  BY DEF Due
<1>5. WatermarkIsBehind' /\ ScanReaches' /\ PageReaches'
  BY <1>4 DEF IInv, WatermarkIsBehind, ScanReaches, PageReaches, At, Scanning
<1>6. FrontierIsAccounted' /\ NothingIsSkipped' /\ SweepSeesQuietEdits'
  BY DEF IInv, FrontierIsAccounted, NothingIsSkipped, SweepSeesQuietEdits
<1> QED
  BY <1>1, <1>2, <1>3, <1>5, <1>6 DEF IInv

LEMMA TickKeeps == IInv /\ Tick => IInv'
<1> SUFFICES ASSUME IInv, Tick PROVE IInv'
  OBVIOUS
<1> USE Bounds DEF Tick, world, cursors, history
<1>1. Typed' /\ InOrder'
  BY DEF IInv, Typed, IntakeTypeOK, InOrder
<1>2. PageIsWhole'
  BY DEF IInv, PageIsWhole, Frontier, At
<1>3. InTime'
  BY DEF IInv, InTime, At, Scanning, Typed, IntakeTypeOK, Runs
<1>4. \A t : Due(t)' = Due(t)
  BY DEF Due
<1>5. WatermarkIsBehind' /\ ScanReaches' /\ PageReaches'
  BY <1>4 DEF IInv, WatermarkIsBehind, ScanReaches, PageReaches, At, Scanning
<1>6. FrontierIsAccounted' /\ NothingIsSkipped' /\ SweepSeesQuietEdits'
  BY DEF IInv, FrontierIsAccounted, NothingIsSkipped, SweepSeesQuietEdits
<1> QED
  BY <1>1, <1>2, <1>3, <1>5, <1>6 DEF IInv

LEMMA LeaveKeeps == IInv /\ Leave => IInv'
<1> SUFFICES ASSUME IInv, Leave PROVE IInv'
  OBVIOUS
<1> USE DEF Leave, Exit, world, cursors, history
<1>1. run' = Resting /\ Resting \in Runs /\ Resting.pc = "idle"
  BY RestingRuns DEF Resting
<1>2. Typed' /\ InOrder'
  BY <1>1 DEF IInv, Typed, IntakeTypeOK, InOrder, Resting
<1>3. PageIsWhole' /\ InTime' /\ PageReaches'
  BY <1>1 DEF IInv, PageIsWhole, InTime, PageReaches, At, Scanning
<1>4. \A t : Due(t)' = Due(t)
  BY DEF Due
<1>5. WatermarkIsBehind' /\ ScanReaches'
  BY <1>4 DEF IInv, WatermarkIsBehind, ScanReaches, Scanning
<1>6. FrontierIsAccounted' /\ NothingIsSkipped' /\ SweepSeesQuietEdits'
  BY DEF IInv, FrontierIsAccounted, NothingIsSkipped, SweepSeesQuietEdits
<1> QED
  BY <1>2, <1>3, <1>5, <1>6 DEF IInv

(* A lower bound of the page can only be raised. *)
LEMMA BoundGrows ==
  ASSUME NEW a \in Nat, NEW b \in Nat
  PROVE  SetMax({a, b}) \in Nat /\ SetMax({a, b}) \in {a, b}
         /\ SetMax({a, b}) >= a /\ SetMax({a, b}) >= b
<1>1. {a, b} \subseteq 0..(a + b) /\ a + b \in Nat
  OBVIOUS
<1> QED
  BY <1>1, GreatestElement

LEMMA ReadPageKeeps == IInv /\ ReadPage => IInv'
<1> SUFFICES ASSUME IInv, ReadPage PROVE IInv'
  OBVIOUS
<1> USE Bounds DEF world, cursors, history
<1>0. /\ Typed /\ InOrder /\ run \in Runs /\ bound \in Nat
      /\ posted \in 0..MaxId /\ highWater \in 0..MaxId /\ clock \in 1..MaxClock
      /\ published \in [Ids -> 0..MaxClock] /\ highWater <= posted
      /\ UNCHANGED <<world, head, gaps, cursors, quiet, swept>>
  BY DEF IInv, Typed, IntakeTypeOK, PageIsWhole, ReadPage
<1>1. PICK limit \in 1..MaxPage :
        IF \A m \in Live : m <= highWater
        THEN run' = [run EXCEPT !.pc = "scanning"] /\ UNCHANGED bound
        ELSE LET lower == IF highWater = 0 THEN Back(clock, Lookback) ELSE 0
                 page  == Earliest({m \in Live : m > highWater
                                                 /\ published[m] >= lower}, limit)
             IN  /\ run' = [run EXCEPT !.pc = "recording", !.page = Versions(page),
                              !.full = Cardinality(page) = limit,
                              !.upper = SetMax(Live)]
                 /\ bound' = SetMax({bound, lower})
  BY DEF ReadPage
<1>2. /\ run' \in Runs /\ run'.pc \in {"scanning", "recording"}
      /\ bound' \in Nat /\ bound' >= bound
      /\ PageIsWhole'
  <2>1. CASE \A m \in Live : m <= highWater
    <3>1. run' = [run EXCEPT !.pc = "scanning"] /\ bound' = bound
      BY <1>1, <2>1
    <3> QED
      BY <3>1, <1>0 DEF Runs, PageIsWhole, At
  <2>2. CASE ~ \A m \in Live : m <= highWater
    <3> DEFINE lower == IF highWater = 0 THEN Back(clock, Lookback) ELSE 0
               S == {m \in Live : m > highWater /\ published[m] >= lower}
               page == Earliest(S, limit)
    <3>1. /\ run' = [run EXCEPT !.pc = "recording", !.page = Versions(page),
                       !.full = Cardinality(page) = limit, !.upper = SetMax(Live)]
          /\ bound' = SetMax({bound, lower})
      BY <1>1, <2>2
    <3>2. lower \in Nat
      BY <1>0 DEF Back
    <3> HIDE DEF lower
    <3>3. bound' \in Nat /\ bound' >= bound /\ bound' >= lower
      BY <3>1, <3>2, <1>0, BoundGrows
    <3>4. /\ Live \subseteq 0..MaxId /\ Live # {} /\ S \in SUBSET Ids
          /\ Live \subseteq 1..posted /\ limit \in Nat \ {0}
      BY <2>2, <1>0 DEF Live, Ids
    <3>5. SetMax(Live) \in Live /\ \A m \in Live : m <= SetMax(Live)
      BY <3>4, GreatestElement
    <3>6. page \in SUBSET Live /\ page \subseteq S
      BY DEF Earliest
    <3>7. Versions(page) \in Pages /\ DOMAIN Versions(page) = page
      BY <3>6, <1>0, VersionsRead
    <3>8. run' \in Runs
      BY <3>1, <3>4, <3>5, <3>7, <1>0 DEF Runs
    <3>9. /\ run'.pc = "recording" /\ run'.page = Versions(page)
          /\ run'.full = (Cardinality(page) = limit) /\ run'.upper = SetMax(Live)
      BY <3>1, <1>0 DEF Runs
    <3>10. PageIsWhole'
      <4>1. CASE Cardinality(page) = limit
        <5>1. page # {} /\ page \subseteq 0..MaxId
          BY <4>1, <3>4, <3>6, FS_EmptySet
        <5>2. SetMax(page) \in page
          BY <5>1, GreatestElement
        <5>3. Frontier' = SetMax(page)
          BY <4>1, <3>7, <3>9 DEF Frontier
        <5>4. SetMax(page) \in 1..posted
          BY <5>2, <3>4, <3>6
        <5>5. ASSUME NEW m \in (highWater + 1)..SetMax(page)
              PROVE  m \in page \/ m \in deleted \/ published[m] < bound'
          <6>1. m \in 1..posted /\ m > highWater /\ m <= SetMax(page)
            BY <5>4, <1>0
          <6>2. m \in Ids /\ published[m] \in Nat
            BY <6>1, <1>0 DEF Ids
          <6>3. CASE m \in S
            BY <6>1, <6>3, <5>2, <3>4, EarliestBelow
          <6>4. CASE m \notin S
            BY <6>1, <6>2, <6>4, <3>2, <3>3 DEF Live
          <6> QED
            BY <6>3, <6>4
        <5> QED
          BY <5>3, <5>4, <5>5, <3>7, <3>9, <1>0 DEF PageIsWhole, At
      <4>2. CASE Cardinality(page) # limit
        <5>1. page = S
          BY <4>2, <3>4, EarliestOf
        <5>2. Frontier' = SetMax(Live)
          BY <4>2, <3>9 DEF Frontier
        <5>3. SetMax(Live) \in 1..posted
          BY <3>4, <3>5
        <5>4. ASSUME NEW m \in (highWater + 1)..SetMax(Live)
              PROVE  m \in page \/ m \in deleted \/ published[m] < bound'
          <6>1. m \in 1..posted /\ m > highWater
            BY <5>3, <1>0
          <6>2. m \in Ids /\ published[m] \in Nat
            BY <6>1, <1>0 DEF Ids
          <6> QED
            BY <6>1, <6>2, <5>1, <3>2, <3>3 DEF Live
        <5> QED
          BY <5>2, <5>3, <5>4, <3>7, <3>9, <1>0 DEF PageIsWhole, At
      <4> QED
        BY <4>1, <4>2
    <3> QED
      BY <3>3, <3>8, <3>9, <3>10
  <2> QED
    BY <2>1, <2>2
<1>3. Typed' /\ InOrder'
  BY <1>0, <1>2 DEF Typed, IntakeTypeOK, InOrder, Runs
<1>4. InTime' /\ PageReaches'
  BY <1>0, <1>2 DEF IInv, InTime, PageReaches, At, Scanning
<1>5. \A t : Due(t)' = Due(t)
  BY <1>0 DEF Due
<1>6. WatermarkIsBehind' /\ ScanReaches'
  BY <1>0, <1>5 DEF IInv, WatermarkIsBehind, ScanReaches, Scanning
<1>7. FrontierIsAccounted' /\ SweepSeesQuietEdits'
  BY <1>0 DEF IInv, FrontierIsAccounted, SweepSeesQuietEdits
<1>8. NothingIsSkipped'
  <2> SUFFICES ASSUME NEW m \in 1..highWater, head[m] = Never, m \notin deleted
               PROVE  published[m] < bound'
    BY <1>0 DEF NothingIsSkipped
  <2>1. published[m] < bound /\ published[m] \in Nat
    BY <1>0 DEF IInv, NothingIsSkipped, Ids
  <2> QED
    BY <2>1, <1>0, <1>2
<1> QED
  BY <1>2, <1>3, <1>4, <1>6, <1>7, <1>8 DEF IInv

LEMMA RecordPageKeeps == IInv /\ RecordPage => IInv'
<1> SUFFICES ASSUME IInv, RecordPage PROVE IInv'
  OBVIOUS
<1> USE Bounds DEF RecordPage, world, history
<1>0. /\ Typed /\ InOrder /\ run \in Runs /\ run.page \in Pages /\ At("recording")
      /\ posted \in 0..MaxId /\ highWater \in 0..MaxId /\ highWater <= posted
      /\ head \in [Ids -> 0..MaxClock] /\ Frontier \in 1..posted
  BY DEF IInv, Typed, IntakeTypeOK, PageIsWhole, Runs
<1>1. /\ head' = Record(run.page) /\ head' \in [Ids -> 0..MaxClock]
      /\ DOMAIN run.page \subseteq Ids
      /\ \A m \in Ids : head'[m] >= head[m]
      /\ \A m \in DOMAIN run.page : head'[m] >= run.page[m] /\ run.page[m] \in 1..MaxClock
  BY <1>0, RecordKeeps
<1>2. /\ highWater' \in 0..posted /\ highWater' \in 0..MaxId
      /\ highWater' = highWater \/ highWater' = Frontier
      /\ highWater' >= highWater /\ highWater' >= Frontier
  BY <1>0, BoundGrows, SMTT(30), ZenonT(40)
<1>3. /\ run' \in Runs /\ run'.pc = "scanning"
  BY RestingRuns DEF Resting, Runs
<1>4. Typed' /\ InOrder'
  <2>1. Missing(DOMAIN run.page, Frontier) \subseteq Ids
    BY <1>0 DEF Missing, Ids
  <2> QED
    BY <1>0, <1>1, <1>2, <1>3, <2>1 DEF Typed, IntakeTypeOK, InOrder
<1>5. PageIsWhole' /\ InTime' /\ PageReaches'
  BY <1>0, <1>2, <1>3 DEF IInv, PageIsWhole, InTime, PageReaches, At, Scanning
<1>6. \A t : Due(t)' = Due(t) /\ Due(t) \subseteq Ids
  BY DEF Due
<1>7. \A m \in Ids : head[m] >= quiet[m] => head'[m] >= quiet[m]
  BY <1>0, <1>1 DEF Typed
<1>8. WatermarkIsBehind' /\ ScanReaches'
  BY <1>6, <1>7 DEF IInv, WatermarkIsBehind, ScanReaches, Scanning
<1>9. ASSUME NEW m \in 1..highWater', head'[m] = Never
      PROVE  m \in gaps' /\ (m \in deleted \/ published[m] < bound)
  <2>1. m \in Ids /\ m \notin DOMAIN run.page /\ head[m] = Never
    BY <1>0, <1>1, <1>2, <1>9 DEF Ids
  <2>2. CASE m <= highWater
    <3>1. m \in 1..highWater
      BY <1>0, <1>9, <2>2
    <3> QED
      BY <2>1, <3>1 DEF IInv, FrontierIsAccounted, NothingIsSkipped
  <2>3. CASE m > highWater
    <3>1. m \in (highWater + 1)..Frontier
      BY <1>0, <1>2, <2>3
    <3> QED
      BY <1>0, <2>1, <3>1 DEF IInv, PageIsWhole, Missing
  <2> QED
    BY <1>0, <1>2, <1>9, <2>2, <2>3
<1>10. FrontierIsAccounted' /\ NothingIsSkipped'
  BY <1>9 DEF FrontierIsAccounted, NothingIsSkipped
<1>11. SweepSeesQuietEdits'
  BY <1>7 DEF IInv, SweepSeesQuietEdits
<1> QED
  BY <1>4, <1>5, <1>8, <1>10, <1>11 DEF IInv

LEMMA ReadSweepKeeps == IInv /\ ReadSweep => IInv'
<1> SUFFICES ASSUME IInv, ReadSweep PROVE IInv'
  OBVIOUS
<1> USE Bounds DEF world, cursors, history
<1>0. /\ Typed /\ InOrder /\ InTime
      /\ posted \in 0..MaxId /\ clock \in 1..MaxClock /\ started \in 0..MaxClock
      /\ swept \in 0..MaxClock /\ before \in 0..MaxId
      /\ published \in [Ids -> 0..MaxClock] /\ edited \in [Ids -> 0..MaxClock]
      /\ quiet \in [Ids -> 0..MaxClock] /\ head \in [Ids -> 0..MaxClock]
      /\ watermark \in Cursor
      /\ UNCHANGED <<world, head, gaps, cursors, history>>
  BY DEF IInv, Typed, IntakeTypeOK, ReadSweep
<1> DEFINE S == {m \in Live : before = 0 \/ m < before}
           page(limit) == Newest(S, limit)
           old(limit) == {m \in page(limit) : published[m] < Back(ScanStart, Day)}
           done(limit) == old(limit) # {} \/ Cardinality(page(limit)) < limit
           edits(limit) == {m \in page(limit) :
                             /\ edited[m] # Never
                             /\ \A x \in old(limit) : m > x
                             /\ watermark.at # Never
                                  => Above(CursorOf(m), watermark)}
<1>1. PICK limit \in 1..MaxPage :
        run' = [Resting EXCEPT !.pc = "keeping", !.page = Versions(edits(limit)),
                  !.at = ScanStart,
                  !.next = IF done(limit) THEN 0 ELSE SetMin(page(limit))]
  BY DEF ReadSweep
<1> DEFINE Page == page(limit)
           Old == old(limit)
           Edits == edits(limit)
<1>2. /\ S \in SUBSET Ids /\ Page \subseteq S /\ Edits \subseteq Page /\ Edits \in SUBSET Live
      /\ S \subseteq 1..posted /\ limit \in Nat \ {0}
  BY <1>0 DEF Newest, Live, Ids
<1>3. /\ ScanStart \in 1..MaxClock /\ swept <= ScanStart /\ ScanStart <= clock
      /\ Scanning => ScanStart = started
  BY <1>0 DEF ScanStart, InTime, Scanning
<1>4. done(limit) \/ (SetMin(Page) \in Page /\ \A y \in Page : SetMin(Page) <= y)
  <2>1. SUFFICES ASSUME ~done(limit) PROVE Page # {} /\ Page \subseteq Nat
    BY LeastElement
  <2>2. Page # {}
    BY <2>1, <1>2, FS_EmptySet
  <2> QED
    BY <2>2, <1>2
<1>5. /\ Versions(Edits) \in Pages /\ DOMAIN Versions(Edits) = Edits
      /\ \A m \in Edits : Versions(Edits)[m] >= quiet[m]
  BY <1>0, <1>2, VersionsRead DEF Versions
<1>6. /\ run'.pc = "keeping" /\ run'.page = Versions(Edits) /\ run'.at = ScanStart
      /\ run'.next = IF done(limit) THEN 0 ELSE SetMin(Page)
  BY <1>1 DEF Resting
<1>7. run' \in Runs
  <2>1. run'.next \in 0..MaxId
    <3>1. CASE done(limit)
      BY <3>1, <1>6
    <3>2. CASE ~done(limit)
      BY <3>2, <1>2, <1>4, <1>6 DEF Ids
    <3> QED
      BY <3>1, <3>2
  <2> HIDE DEF S, page, old, done, edits
  <2>2. (IF done(limit) THEN 0 ELSE SetMin(page(limit))) \in 0..MaxId
    BY <2>1, <1>6
  <2>3. run' = [pc |-> "keeping", page |-> Versions(edits(limit)), upper |-> 0,
                full |-> FALSE, at |-> ScanStart,
                next |-> IF done(limit) THEN 0 ELSE SetMin(page(limit))]
    BY <1>1 DEF Resting
  <2>4. Versions(edits(limit)) \in Pages /\ ScanStart \in 0..MaxClock
    BY <1>3, <1>5
  <2> QED
    BY <2>2, <2>3, <2>4 DEF Runs
<1>8. Typed' /\ InOrder'
  BY <1>0, <1>6, <1>7 DEF Typed, IntakeTypeOK, InOrder
<1>9. PageIsWhole' /\ InTime'
  BY <1>0, <1>3, <1>6 DEF IInv, PageIsWhole, InTime, At, Scanning
<1>10. \A t : Due(t)' = Due(t)
  BY <1>0 DEF Due
<1>11. WatermarkIsBehind' /\ ScanReaches' /\ FrontierIsAccounted'
       /\ NothingIsSkipped' /\ SweepSeesQuietEdits'
  BY <1>0, <1>10 DEF IInv, WatermarkIsBehind, ScanReaches, Scanning,
     FrontierIsAccounted, NothingIsSkipped, SweepSeesQuietEdits
<1>12. PageReaches'
  <2> SUFFICES ASSUME NEW m \in Due(ScanStart)
               PROVE  \/ head[m] >= quiet[m] \/ m < run'.next
                      \/ m \in Edits /\ Versions(Edits)[m] >= quiet[m]
    BY <1>0, <1>5, <1>6, <1>10 DEF PageReaches
  <2>1. /\ m \in Ids /\ m \in Live /\ quiet[m] # Never /\ quiet[m] <= edited[m]
        /\ published[m] >= Back(ScanStart, Day) /\ m \in 1..posted
        /\ quiet[m] \in 0..MaxClock /\ edited[m] \in 0..MaxClock
        /\ head[m] \in 0..MaxClock
    BY <1>0 DEF Due, Live, InOrder, Ids
  <2>2. Back(ScanStart, Day) \in Nat /\ Back(swept, Day) \in Nat
        /\ Back(swept, Day) <= Back(ScanStart, Day)
    BY <1>0, <1>3 DEF Back
  <2>3. m \in Due(swept)
    BY <1>0, <2>1, <2>2 DEF Due
  <2>4. head[m] >= quiet[m] \/ watermark.at < quiet[m]
    BY <2>3 DEF IInv, WatermarkIsBehind
  <2>5. head[m] >= quiet[m] \/ m \in S
    <3>1. CASE Scanning
      BY <3>1, <1>3, <2>1 DEF IInv, ScanReaches
    <3>2. CASE ~Scanning
      BY <3>2, <1>0, <2>1 DEF InTime, Scanning
    <3> QED
      BY <3>1, <3>2
  <2>6. ASSUME m \in S, NEW x \in Old PROVE m > x
    <3>1. /\ x \in 1..posted /\ x \in Ids /\ published[x] < Back(ScanStart, Day)
      BY <1>2
    <3>2. published[x] < published[m] /\ published[x] \in Nat /\ published[m] \in Nat
      BY <3>1, <2>1, <2>2, <1>0
    <3> QED
      BY <3>1, <3>2, <2>1, <1>0 DEF InOrder
  <2>7. CASE m \in Page /\ head[m] < quiet[m]
    <3>1. \A x \in Old : m > x
      BY <2>6, <2>7, <1>2
    <3>2. Above(CursorOf(m), watermark) /\ edited[m] # Never
      BY <2>1, <2>4, <2>7, <1>0 DEF Above, CursorOf, Cursor
    <3>3. m \in Edits
      BY <2>7, <3>1, <3>2
    <3> QED
      BY <3>3, <1>5
  <2>8. CASE m \in S \ Page
    <3>1. ~done(limit)
      <4>1. ASSUME NEW x \in Old PROVE FALSE
        <5>1. m > x /\ x \in Page /\ x \in Nat /\ m \in Nat
          BY <2>6, <2>8, <2>1, <1>2
        <5> QED
          BY <5>1, <2>8, <1>2, NewestAbove
      <4>2. ~(Cardinality(Page) < limit)
        BY <2>8, <1>2, NewestOf
      <4> QED
        BY <4>1, <4>2
    <3>2. SetMin(Page) \in Page /\ run'.next = SetMin(Page)
      BY <3>1, <1>4, <1>6
    <3>3. ~(SetMin(Page) <= m)
      BY <3>2, <2>8, <1>2, NewestAbove
    <3>4. SetMin(Page) \in Nat /\ m \in Nat
      BY <3>2, <2>1, <1>2
    <3> QED
      BY <3>2, <3>3, <3>4
  <2> QED
    BY <2>1, <2>5, <2>7, <2>8
<1> QED
  BY <1>8, <1>9, <1>11, <1>12 DEF IInv

LEMMA RecordSweepKeeps == IInv /\ RecordSweep => IInv'
<1> SUFFICES ASSUME IInv, RecordSweep PROVE IInv'
  OBVIOUS
<1> USE Bounds DEF world
<1> DEFINE staged == {watermark, scanMax} \cup
                     {[at |-> run.page[m], id |-> m] : m \in DOMAIN run.page}
<1>0. /\ Typed /\ InOrder /\ InTime /\ run \in Runs /\ run.page \in Pages
      /\ At("keeping") /\ run' = Resting /\ before' = run.next
      /\ run.next \in 0..MaxId /\ run.at \in 1..MaxClock
      /\ swept <= run.at /\ run.at <= clock /\ (Scanning => run.at = started)
      /\ watermark \in Cursor /\ scanMax \in Cursor
      /\ UNCHANGED <<world, gaps, highWater, quiet, bound>>
      /\ head' = Record(run.page)
  BY DEF IInv, Typed, IntakeTypeOK, InTime, RecordSweep, Runs, Exit, Rest
<1>1. /\ head' \in [Ids -> 0..MaxClock] /\ head \in [Ids -> 0..MaxClock]
      /\ DOMAIN run.page \subseteq Ids
      /\ \A m \in Ids : head'[m] >= head[m]
      /\ \A m \in DOMAIN run.page : head'[m] >= run.page[m] /\ run.page[m] \in 1..MaxClock
  BY <1>0, RecordKeeps DEF IInv, Typed, IntakeTypeOK
<1>2. staged \subseteq Cursor /\ staged # {}
  <2>1. \A m \in DOMAIN run.page : run.page[m] \in 0..MaxClock /\ m \in 0..MaxId
    BY <1>1 DEF Ids
  <2>2. \A m \in DOMAIN run.page : [at |-> run.page[m], id |-> m] \in Cursor
    BY <2>1 DEF Cursor
  <2> QED
    BY <1>0, <2>2
<1>5. /\ watermark' \in Cursor /\ scanMax' \in Cursor
      /\ run.next = 0 => /\ started' = Never /\ scanMax' = NoCursor /\ swept' = run.at
      /\ run.next # 0 => /\ started' = run.at /\ watermark' = watermark /\ swept' = swept
  <2>1. NoCursor \in Cursor
    BY DEF NoCursor, Cursor
  <2>2. run.next = 0 => /\ started' = Never /\ scanMax' = NoCursor /\ swept' = run.at
    BY DEF RecordSweep
  <2>3. run.next # 0 => /\ started' = run.at /\ watermark' = watermark /\ swept' = swept
    BY DEF RecordSweep
  <2>4. run.next = 0 => watermark' \in Cursor
    <3> SUFFICES ASSUME run.next = 0 PROVE watermark' \in Cursor
      OBVIOUS
    <3>1. watermark' = Highest(staged \cup {[at |-> run.at, id |-> 0]})
      BY DEF RecordSweep
    <3>2. staged \cup {[at |-> run.at, id |-> 0]} \subseteq Cursor
      BY <1>0, <1>2 DEF Cursor
    <3> QED
      BY <3>1, <3>2, HighestOf
  <2>5. run.next # 0 => scanMax' \in Cursor
    <3> SUFFICES ASSUME run.next # 0 PROVE scanMax' \in Cursor
      OBVIOUS
    <3>1. scanMax' = Highest(staged)
      BY DEF RecordSweep
    <3> QED
      BY <3>1, <1>2, HighestOf
  <2> QED
    BY <2>1, <2>2, <2>3, <2>4, <2>5, <1>0
<1>6. Typed' /\ InOrder'
  BY <1>0, <1>1, <1>5, RestingRuns DEF Typed, IntakeTypeOK, InOrder, Resting
<1>7. PageIsWhole' /\ PageReaches'
  BY <1>0 DEF IInv, PageIsWhole, PageReaches, At, Resting
<1>8. InTime'
  <2>1. ~At("keeping")'
    BY <1>0 DEF At, Resting
  <2>2. clock \in 1..MaxClock /\ swept \in 0..MaxClock
    BY <1>0 DEF Typed, IntakeTypeOK
  <2>3. CASE run.next = 0
    BY <2>1, <2>2, <2>3, <1>0, <1>5 DEF InTime, Scanning
  <2>4. CASE run.next # 0
    BY <2>1, <2>2, <2>4, <1>0, <1>5 DEF InTime, Scanning
  <2> QED
    BY <2>3, <2>4
<1>9. \A t : Due(t)' = Due(t) /\ Due(t) \subseteq Ids
  BY <1>0 DEF Due
<1>10. \A m \in Ids : /\ head[m] >= quiet[m] => head'[m] >= quiet[m]
                      /\ m \in DOMAIN run.page /\ run.page[m] >= quiet[m]
                           => head'[m] >= quiet[m]
  <2> TAKE m \in Ids
  <2>1. quiet[m] \in 0..MaxClock /\ head[m] \in 0..MaxClock /\ head'[m] \in 0..MaxClock
    BY <1>0, <1>1 DEF Typed
  <2>2. head'[m] >= head[m]
    BY <1>1
  <2>3. m \in DOMAIN run.page => head'[m] >= run.page[m] /\ run.page[m] \in Nat
    BY <1>1
  <2> QED
    BY <2>1, <2>2, <2>3
<1>11. \A m \in Due(run.at) : head'[m] >= quiet[m] \/ m < run.next
  BY <1>0, <1>9, <1>10 DEF IInv, PageReaches
<1>12. ASSUME run.next = 0
      PROVE  WatermarkIsBehind' /\ ScanReaches' /\ SweepSeesQuietEdits'
  <2>1. \A m \in Due(run.at) : head'[m] >= quiet[m]
    BY <1>9, <1>11, <1>12 DEF Ids
  <2>2. WatermarkIsBehind' /\ ScanReaches'
    BY <1>0, <1>5, <1>9, <1>12, <2>1 DEF WatermarkIsBehind, ScanReaches, Scanning
  <2>3. SweepSeesQuietEdits'
    BY <1>0, <1>5, <1>12, <2>1 DEF SweepSeesQuietEdits, Due
  <2> QED
    BY <2>2, <2>3
<1>13. ASSUME run.next # 0
      PROVE  WatermarkIsBehind' /\ ScanReaches' /\ SweepSeesQuietEdits'
  <2>1. WatermarkIsBehind'
    BY <1>0, <1>5, <1>9, <1>10, <1>13 DEF IInv, WatermarkIsBehind
  <2>2. ScanReaches'
    BY <1>0, <1>5, <1>9, <1>11, <1>13 DEF ScanReaches
  <2>3. SweepSeesQuietEdits'
    BY <1>0, <1>5, <1>10, <1>13 DEF IInv, SweepSeesQuietEdits
  <2> QED
    BY <2>1, <2>2, <2>3
<1>14. FrontierIsAccounted' /\ NothingIsSkipped'
  <2> SUFFICES ASSUME NEW m \in 1..highWater, head'[m] = Never
               PROVE  m \in gaps /\ (m \in deleted \/ published[m] < bound)
    BY <1>0 DEF FrontierIsAccounted, NothingIsSkipped
  <2>1. m \in Ids /\ highWater \in 0..MaxId
    BY <1>0 DEF Typed, IntakeTypeOK, Ids
  <2>2. head[m] = Never
    BY <2>1, <1>1
  <2> QED
    BY <2>2 DEF IInv, FrontierIsAccounted, NothingIsSkipped
<1> QED
  BY <1>6, <1>7, <1>8, <1>12, <1>13, <1>14 DEF IInv

LEMMA StutterKeeps == IInv /\ UNCHANGED vars => IInv'
<1> SUFFICES ASSUME IInv, UNCHANGED vars PROVE IInv'
  OBVIOUS
<1> USE DEF vars, world, cursors, history
<1>1. Typed' /\ InOrder' /\ PageIsWhole' /\ InTime'
  BY DEF IInv, Typed, IntakeTypeOK, InOrder, PageIsWhole, Frontier, InTime, At,
     Scanning
<1>2. WatermarkIsBehind' /\ ScanReaches' /\ PageReaches'
  BY DEF IInv, WatermarkIsBehind, ScanReaches, PageReaches, Due, At, Scanning
<1>3. FrontierIsAccounted' /\ NothingIsSkipped' /\ SweepSeesQuietEdits'
  BY DEF IInv, FrontierIsAccounted, NothingIsSkipped, SweepSeesQuietEdits
<1> QED
  BY <1>1, <1>2, <1>3 DEF IInv

LEMMA Invariance == Spec => []IInv
<1>1. IInv /\ [Next]_vars => IInv'
  BY PostKeeps, EditKeeps, DeleteKeeps, TickKeeps, ReadPageKeeps, RecordPageKeeps,
     ReadSweepKeeps, RecordSweepKeeps, LeaveKeeps, StutterKeeps DEF Next
<1> QED
  BY Starts, <1>1, PTL DEF Spec

-----------------------------------------------------------------------------
(* Theorems *)

(* The state of the collector and of its run is what its tables hold. *)
THEOREM TypeCorrect == Spec => []IntakeTypeOK
<1>1. IInv => IntakeTypeOK
  BY DEF IInv, Typed
<1> QED
  BY Invariance, <1>1, PTL

(* Every id the frontier has passed has a revision or lies in a gap row     *)
(* (record_new_message_page).                                               *)
THEOREM PassedIsAccounted == Spec => []FrontierIsAccounted
<1>1. IInv => FrontierIsAccounted
  BY DEF IInv
<1> QED
  BY Invariance, <1>1, PTL

(* What the frontier has passed without a revision was deleted or is older  *)
(* than the lookback of a first page (record_new_message_page).             *)
THEOREM FrontierSkipsNothing == Spec => []NothingIsSkipped
<1>1. IInv => NothingIsSkipped
  BY DEF IInv
<1> QED
  BY Invariance, <1>1, PTL

(* A completed scan has read every edit that preceded it and was made while *)
(* no other one was under way (record_edit_sweep_page).                     *)
THEOREM ScansReachEdits == Spec => []SweepSeesQuietEdits
<1>1. IInv => SweepSeesQuietEdits
  BY DEF IInv
<1> QED
  BY Invariance, <1>1, PTL

=============================================================================
