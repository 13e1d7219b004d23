--------------------------- MODULE LogStoreProofs ---------------------------
(***************************************************************************)
(* Proofs about LogStore, for every capacity, every bound and every set of *)
(* clients.  The first section is about the operators (floors, eviction,   *)
(* late numbers); the second shows that StoreInv is inductive; the third   *)
(* draws the theorems from it.                                             *)
(***************************************************************************)
EXTENDS LogStore, FiniteSetTheorems, WellFoundedInduction, TLAPS
-----------------------------------------------------------------------------
(* Every non-empty set of naturals has a least member. *)
LEMMA LeastExists ==
  ASSUME NEW T, T \subseteq Nat, T # {}
  PROVE  \E x \in T : \A y \in T : x <= y
<1>1. PICK x \in T : \A y \in T : ~(<<y, x>> \in OpToRel(<, Nat))
  BY NatLessThanWellFounded, WFMin
<1>2. \A y \in T : ~(y < x)
  BY <1>1 DEF OpToRel
<1> QED BY <1>2

(* Every non-empty bounded set of naturals has a greatest member. *)
LEMMA GreatestExists ==
  ASSUME NEW n \in Nat, NEW T, T \subseteq 0..n, T # {}
  PROVE  \E x \in T : \A y \in T : y <= x
<1> DEFINE Above == {u \in Nat : \A t \in T : t <= u}
<1>1. n \in Above
  OBVIOUS
<1>2. PICK u \in Above : \A v \in Above : u <= v
  <2> HIDE DEF Above
  <2>1. Above \subseteq Nat /\ Above # {}
    BY <1>1 DEF Above
  <2> QED BY <2>1, LeastExists
<1>3. u \in T
  <2>1. SUFFICES ASSUME u \notin T PROVE FALSE
    OBVIOUS
  <2>2. PICK t0 \in T : TRUE
    OBVIOUS
  <2>3. \A t \in T : t <= u - 1
    BY <2>1
  <2>4. u - 1 \in Nat
    BY <2>2, <2>3
  <2>5. u - 1 \in Above
    BY <2>3, <2>4
  <2> QED BY <1>2, <2>5
<1> QED BY <1>3

(* RaisePast returns a natural at or above the old floor, above every     *)
(* record gone, and is the old floor or one past a record gone.           *)
LEMMA RaisePastFacts ==
  ASSUME NEW floor \in Nat, NEW n \in Nat, NEW gone \in SUBSET (1..n)
  PROVE  /\ RaisePast(floor, gone) \in Nat
         /\ RaisePast(floor, gone) >= floor
         /\ \A g \in gone : g < RaisePast(floor, gone)
         /\ \/ RaisePast(floor, gone) = floor
            \/ RaisePast(floor, gone) - 1 \in gone
<1> DEFINE candidates == {floor} \cup {g + 1 : g \in gone}
<1> DEFINE top == CHOOSE f \in candidates : \A x \in candidates : x <= f
<1>1. \E f \in candidates : \A x \in candidates : x <= f
  <2>1. candidates # {} /\ candidates \subseteq 0..(floor + n + 1)
    OBVIOUS
  <2>2. floor + n + 1 \in Nat
    OBVIOUS
  <2> HIDE DEF candidates
  <2> QED BY <2>1, <2>2, GreatestExists
<1>2. top \in candidates /\ \A x \in candidates : x <= top
  <2> HIDE DEF candidates
  <2> QED BY <1>1
<1>3. RaisePast(floor, gone) = top
  BY DEF RaisePast
<1> HIDE DEF top
<1>4. floor <= top /\ \A g \in gone : g + 1 <= top
  BY <1>2
<1>5. top = floor \/ \E g \in gone : top = g + 1
  BY <1>2
<1>6. top \in Nat
  BY <1>5
<1> QED BY <1>3, <1>4, <1>5, <1>6

(* A set of sequence numbers handed out is finite. *)
LEMMA NumbersFinite ==
  ASSUME NEW n \in Nat, NEW S \in SUBSET (1..n)
  PROVE  IsFiniteSet(S) /\ Cardinality(S) \in Nat
<1>1. IsFiniteSet(1..n)
  BY FS_Interval
<1>2. IsFiniteSet(S)
  BY <1>1, FS_Subset
<1> QED BY <1>2, FS_CardinalityType

(* Sizes add up over disjoint sets. *)
LEMMA DisjointSizes ==
  ASSUME NEW S, NEW T, IsFiniteSet(S), IsFiniteSet(T), S \cap T = {}
  PROVE  Cardinality(S \cup T) = Cardinality(S) + Cardinality(T)
<1>1. Cardinality(S \cup T)
        = Cardinality(S) + Cardinality(T) - Cardinality(S \cap T)
  BY FS_Union
<1>2. Cardinality(S \cap T) = 0
  BY FS_EmptySet
<1>3. Cardinality(S) \in Nat /\ Cardinality(T) \in Nat
  BY FS_CardinalityType
<1> QED BY <1>1, <1>2, <1>3

(* What Newest keeps lies above everything it drops, and fits. *)
LEMMA NewestFacts ==
  ASSUME NEW n \in Nat, NEW S \in SUBSET (1..n)
  PROVE  /\ Newest(S) \subseteq S
         /\ \A k \in Newest(S) : \A d \in S \ Newest(S) : d < k
         /\ IsFiniteSet(S) /\ IsFiniteSet(Newest(S))
         /\ Cardinality(Newest(S)) <= Capacity
<1> DEFINE UpFrom(s) == {t \in S : t >= s}
<1>0. \A s \in S : s \in Nat
  OBVIOUS
<1>1. IsFiniteSet(S)
  BY NumbersFinite
<1>2. Newest(S) = {s \in S : Cardinality(UpFrom(s)) <= Capacity}
  BY DEF Newest
<1>3. \A s \in S : IsFiniteSet(UpFrom(s)) /\ Cardinality(UpFrom(s)) \in Nat
  <2>1. \A s \in S : UpFrom(s) \in SUBSET S
    OBVIOUS
  <2> HIDE DEF UpFrom
  <2> QED BY <1>1, <2>1, FS_Subset, FS_CardinalityType
<1>4. ASSUME NEW k \in Newest(S), NEW d \in S \ Newest(S)
      PROVE  d < k
  <2>0. k \in S /\ d \in S /\ k \in Nat /\ d \in Nat
    BY <1>0, <1>2, <1>4
  <2>1. SUFFICES ASSUME k <= d PROVE FALSE
    BY <2>0
  <2>2. UpFrom(d) \in SUBSET UpFrom(k)
    <3>1. ASSUME NEW t \in UpFrom(d) PROVE t \in UpFrom(k)
      <4>1. t \in S /\ t \in Nat /\ t >= d
        BY <1>0, <3>1
      <4>2. t >= k
        BY <2>0, <2>1, <4>1
      <4> QED BY <4>1, <4>2
    <3> QED BY <3>1
  <2>3. Cardinality(UpFrom(d)) <= Cardinality(UpFrom(k))
    <3> HIDE DEF UpFrom
    <3> QED BY <2>0, <1>3, <2>2, FS_Subset
  <2>4. Cardinality(UpFrom(k)) <= Capacity
    BY <1>2
  <2>5. Cardinality(UpFrom(d)) <= Capacity
    <3> HIDE DEF UpFrom
    <3> QED BY <2>0, <1>3, <2>3, <2>4, CapacityAssumption
  <2> QED BY <1>2, <2>5
<1>5. IsFiniteSet(Newest(S))
  BY <1>1, <1>2, FS_Subset
<1>6. Cardinality(Newest(S)) <= Capacity
  <2>1. CASE Newest(S) = {}
    BY <2>1, FS_EmptySet, CapacityAssumption
  <2>2. CASE Newest(S) # {}
    <3>1. Newest(S) \subseteq Nat
      BY <1>0, <1>2
    <3>2. PICK least \in Newest(S) : \A y \in Newest(S) : least <= y
      BY <2>2, <3>1, LeastExists
    <3>3. Newest(S) \in SUBSET UpFrom(least)
      BY <1>2, <3>2
    <3>4. Cardinality(Newest(S)) <= Cardinality(UpFrom(least))
      <4> HIDE DEF UpFrom
      <4> QED BY <1>2, <1>3, <3>3, FS_Subset
    <3>5. Cardinality(UpFrom(least)) <= Capacity
      BY <1>2
    <3>6. Cardinality(Newest(S)) \in Nat
      BY <1>5, FS_CardinalityType
    <3>7. Cardinality(UpFrom(least)) \in Nat
      <4> HIDE DEF UpFrom
      <4> QED BY <1>2, <1>3
    <3> HIDE DEF UpFrom
    <3> QED BY <3>4, <3>5, <3>6, <3>7, CapacityAssumption
  <2> QED BY <2>1, <2>2
<1> QED BY <1>1, <1>2, <1>4, <1>5, <1>6

(* The rank of a member in a finite set of naturals: from 1 up to the     *)
(* size, and different for different members.                             *)
LEMMA RankFacts ==
  ASSUME NEW n \in Nat, NEW L \in SUBSET (1..n)
  PROVE  /\ Cardinality(L) \in Nat
         /\ \A s \in L : Cardinality({t \in L : t <= s}) \in 1..Cardinality(L)
         /\ \A s, r \in L : s < r =>
              Cardinality({t \in L : t <= s}) < Cardinality({t \in L : t <= r})
<1> DEFINE UpTo(s) == {t \in L : t <= s}
<1>1. IsFiniteSet(L) /\ Cardinality(L) \in Nat
  BY NumbersFinite
<1>2. \A s \in L : UpTo(s) \in SUBSET L /\ s \in UpTo(s)
  OBVIOUS
<1>3. \A s \in L : /\ IsFiniteSet(UpTo(s))
                   /\ Cardinality(UpTo(s)) \in Nat
                   /\ Cardinality(UpTo(s)) <= Cardinality(L)
                   /\ Cardinality(UpTo(s)) # 0
  <2> HIDE DEF UpTo
  <2> QED BY <1>1, <1>2, FS_Subset, FS_CardinalityType, FS_EmptySet
<1>4. \A s \in L : Cardinality(UpTo(s)) \in 1..Cardinality(L)
  <2> HIDE DEF UpTo
  <2> QED BY <1>1, <1>3
<1>5. ASSUME NEW s \in L, NEW r \in L, s < r
      PROVE  Cardinality(UpTo(s)) < Cardinality(UpTo(r))
  <2>1. UpTo(s) \in SUBSET UpTo(r) /\ r \in UpTo(r) /\ r \notin UpTo(s)
    <3>1. \A t \in L : t \in Nat
      OBVIOUS
    <3>2. ASSUME NEW t \in UpTo(s) PROVE t \in UpTo(r)
      <4>1. t \in L /\ t \in Nat /\ s \in Nat /\ r \in Nat /\ t <= s
        BY <3>1, <3>2
      <4>2. t <= r
        BY <1>5, <4>1
      <4> QED BY <4>1, <4>2
    <3>3. r \in UpTo(r) /\ r \notin UpTo(s)
      BY <1>5, <3>1
    <3> QED BY <3>2, <3>3
  <2> HIDE DEF UpTo
  <2>2. /\ Cardinality(UpTo(s)) <= Cardinality(UpTo(r))
        /\ Cardinality(UpTo(s)) # Cardinality(UpTo(r))
    BY <2>1, <1>3, FS_Subset
  <2> QED BY <2>2, <1>3
<1> QED BY <1>1, <1>4, <1>5
-----------------------------------------------------------------------------
(* What makes ClearIsFinal survive the next insert: the admission floor   *)
(* lies past every number a completed clear read.                         *)
ClearFloorCovers == clearedUpTo = 0 \/ clearedUpTo < admitFrom

(* The inductive invariant. *)
StoreInv ==
  /\ TypeOK
  /\ LossFloorExact
  /\ NothingLostIsHeld
  /\ ClearIsFinal
  /\ StoredOnce
  /\ LateNumbersSound
  /\ ClearFloorCovers

LEMMA InvInit == Init => StoreInv
<1> SUFFICES ASSUME Init PROVE StoreInv
  OBVIOUS
<1>1. TypeOK
  BY MaxSeqAssumption DEF Init, TypeOK, NotClearing
<1>2. LossFloorExact /\ NothingLostIsHeld /\ ClearIsFinal /\ LateNumbersSound
      /\ ClearFloorCovers
  BY DEF Init, LossFloorExact, NothingLostIsHeld, ClearIsFinal,
         LateNumbersSound, ClearFloorCovers
<1>3. StoredOnce
  BY FS_EmptySet, CapacityAssumption DEF Init, StoredOnce
<1> QED BY <1>1, <1>2, <1>3 DEF StoreInv

LEMMA InvAssignSeq == StoreInv /\ AssignSeq => StoreInv'
<1> SUFFICES ASSUME StoreInv, AssignSeq PROVE StoreInv'
  OBVIOUS
<1> USE DEF AssignSeq, storeVars, StoreInv
<1>1. TypeOK'
  <2>1. counter \in Nat /\ counter' \in 0..MaxSeq /\ counter' = counter + 1
    BY MaxSeqAssumption DEF TypeOK
  <2>2. \A i, j \in Int : i \in j..counter => i \in j..counter'
    BY <2>1
  <2> QED BY <2>1, <2>2 DEF TypeOK
<1>2. LossFloorExact' /\ NothingLostIsHeld' /\ ClearIsFinal'
  BY DEF LossFloorExact, NothingLostIsHeld, ClearIsFinal
<1>3. StoredOnce' /\ LateNumbersSound' /\ ClearFloorCovers'
  BY DEF StoredOnce, LateNumbersSound, ClearFloorCovers
<1> QED BY <1>1, <1>2, <1>3

LEMMA InvClearBegin ==
  ASSUME NEW c \in Clients, StoreInv, ClearBegin(c)
  PROVE  StoreInv'
<1> USE DEF ClearBegin, storeVars, StoreInv
<1>1. TypeOK'
  BY DEF TypeOK
<1>2. LossFloorExact' /\ NothingLostIsHeld' /\ ClearIsFinal'
  BY DEF LossFloorExact, NothingLostIsHeld, ClearIsFinal
<1>3. StoredOnce' /\ LateNumbersSound' /\ ClearFloorCovers'
  BY DEF StoredOnce, LateNumbersSound, ClearFloorCovers
<1> QED BY <1>1, <1>2, <1>3

(* A clear moves all that is held to departed and raises both floors. *)
LEMMA InvClearEnd ==
  ASSUME NEW c \in Clients, StoreInv, ClearEnd(c)
  PROVE  StoreInv'
<1>1. TypeOK /\ LossFloorExact /\ NothingLostIsHeld /\ StoredOnce
  BY DEF StoreInv
<1>2. counter \in Nat /\ held \in SUBSET (1..counter)
      /\ departed \in SUBSET (1..counter) /\ counter' = counter
      /\ lostBelow \in Nat /\ admitFrom \in Nat
  BY <1>1, MaxSeqAssumption DEF TypeOK, ClearEnd
<1>3. clearing[c] \in 0..counter
  BY <1>1 DEF TypeOK, ClearEnd, NotClearing
<1>4. /\ held' = {} /\ lateNo' = [s \in {} |-> 0] /\ departed' = departed \cup held
      /\ lostBelow' = RaisePast(lostBelow, held)
      /\ lateCounter' = lateCounter /\ received' = received /\ stored' = stored
      /\ admitFrom' = RaiseAdmission(clearing[c])
  BY DEF ClearEnd, ClearStore
<1>5. /\ lostBelow' \in Nat
      /\ lostBelow' >= lostBelow
      /\ \A g \in held : g < lostBelow'
      /\ lostBelow' = lostBelow \/ lostBelow' - 1 \in held
  BY <1>2, <1>4, RaisePastFacts
<1>6. admitFrom' \in Nat /\ admitFrom' > clearing[c] /\ admitFrom' >= admitFrom
  BY <1>2, <1>3, <1>4 DEF RaiseAdmission, Larger
<1>7. /\ clearedUpTo' \in 0..counter
      /\ clearedUpTo' = clearedUpTo \/ clearedUpTo' = clearing[c]
  BY <1>1, <1>2, <1>3 DEF TypeOK, ClearEnd, Larger
<1>8. TypeOK'
  <2>1. clearing' \in [Clients -> {NotClearing} \cup 0..counter]
    BY <1>1, <1>2 DEF TypeOK, ClearEnd
  <2>2. DOMAIN lateNo' \subseteq held' /\ lateNo' \in [DOMAIN lateNo' -> 1..lateCounter']
    BY <1>4
  <2> QED BY <1>1, <1>2, <1>4, <1>5, <1>6, <1>7, <2>1, <2>2 DEF TypeOK
<1>9. LossFloorExact'
  <2>1. \A d \in departed' : d < lostBelow'
    <3>1. \A d \in departed : d \in Nat /\ d < lostBelow
      BY <1>1, <1>2 DEF LossFloorExact
    <3> QED BY <1>2, <1>4, <1>5, <3>1
  <2>2. lostBelow' = 0 \/ lostBelow' - 1 \in departed'
    BY <1>1, <1>4, <1>5 DEF LossFloorExact
  <2> QED BY <2>1, <2>2 DEF LossFloorExact
<1>10. NothingLostIsHeld' /\ ClearIsFinal' /\ LateNumbersSound'
  BY <1>4 DEF NothingLostIsHeld, ClearIsFinal, LateNumbersSound
<1>11. StoredOnce'
  <2>1. IsFiniteSet(held) /\ IsFiniteSet(departed)
        /\ Cardinality(held) \in Nat /\ Cardinality(departed) \in Nat
    BY <1>2, NumbersFinite
  <2>2. departed \cap held = {}
    BY <1>1 DEF NothingLostIsHeld
  <2>3. Cardinality(departed \cup held)
          = Cardinality(departed) + Cardinality(held)
    BY <2>1, <2>2, DisjointSizes
  <2>4. stored = Cardinality(held) + Cardinality(departed)
    BY <1>1 DEF StoredOnce
  <2> QED BY <1>4, <2>1, <2>3, <2>4, FS_EmptySet, CapacityAssumption
          DEF StoredOnce
<1>12. ClearFloorCovers'
  <2>1. clearedUpTo = 0 \/ clearedUpTo < admitFrom
    BY DEF StoreInv, ClearFloorCovers
  <2> QED BY <1>1, <1>2, <1>3, <1>6, <1>7, <2>1 DEF ClearFloorCovers, TypeOK
<1> QED BY <1>8, <1>9, <1>10, <1>11, <1>12 DEF StoreInv

(* The insert: what is kept lies above what is dropped, and everything    *)
(* the store takes in lies at or above both floors.                       *)
LEMMA InvInsertSorted ==
  ASSUME NEW batch \in SUBSET (1..counter), StoreInv, InsertSorted(batch)
  PROVE  StoreInv'
<1> DEFINE new == batch \ held
           admitted == {s \in new : s >= RefuseBelow}
           pool == held \cup admitted
           kept == Newest(pool)
           dropped == pool \ kept
           late == LateOf(admitted) \cap kept
<1>1. TypeOK /\ LossFloorExact /\ NothingLostIsHeld /\ ClearIsFinal
      /\ StoredOnce /\ LateNumbersSound /\ ClearFloorCovers
  BY DEF StoreInv
<1>2. counter \in Nat /\ held \in SUBSET (1..counter) /\ lostBelow \in Nat
      /\ admitFrom \in Nat /\ departed \in SUBSET (1..counter)
      /\ lateCounter \in Nat /\ stored \in Nat /\ received \in Nat
  BY <1>1, MaxSeqAssumption DEF TypeOK
<1>3. /\ held' = kept
      /\ lostBelow' = RaisePast(lostBelow, dropped)
      /\ lateNo' = NumberLate(late, kept)
      /\ lateCounter' = lateCounter + Cardinality(late)
      /\ received' = received + Cardinality(new)
      /\ stored' = stored + Cardinality(admitted)
      /\ departed' = departed \cup dropped
      /\ admitFrom' = admitFrom /\ counter' = counter /\ clearing' = clearing
      /\ clearedUpTo' = clearedUpTo
  BY DEF InsertSorted, Merge
<1>4. admitted \in SUBSET (1..counter) /\ new \in SUBSET (1..counter)
      /\ pool \in SUBSET (1..counter) /\ admitted \cap held = {}
  BY <1>2
<1>5. /\ kept \subseteq pool
      /\ \A k \in kept : \A d \in dropped : d < k
      /\ IsFiniteSet(pool) /\ IsFiniteSet(kept)
      /\ Cardinality(kept) <= Capacity
  BY <1>2, <1>4, NewestFacts
<1>6. \A s \in admitted : s \in Nat /\ s >= lostBelow /\ s >= admitFrom
  BY <1>2, <1>4 DEF RefuseBelow, Larger
<1>7. late \in SUBSET (1..counter) /\ late \subseteq kept /\ late \subseteq admitted
  BY <1>4 DEF LateOf
<1>8. dropped \in SUBSET (1..counter) /\ kept \in SUBSET (1..counter)
  BY <1>4, <1>5
<1>9. \A s \in late : \E h \in held : s < h
  BY DEF LateOf
<1>10. \A s \in pool : s \in Nat
  BY <1>4
<1> HIDE DEF new, admitted, pool, kept, late
<1>11. /\ lostBelow' \in Nat
       /\ lostBelow' >= lostBelow
       /\ \A g \in dropped : g < lostBelow'
       /\ lostBelow' = lostBelow \/ lostBelow' - 1 \in dropped
  BY <1>2, <1>3, <1>8, RaisePastFacts
<1>12. \A s \in pool : s >= lostBelow /\ s \notin departed
  <2>1. \A s \in held : s >= lostBelow
    BY <1>1 DEF NothingLostIsHeld
  <2>2. \A d \in departed : d \in Nat /\ d < lostBelow
    BY <1>1, <1>2 DEF LossFloorExact
  <2>3. \A s \in pool : s >= lostBelow
    BY <1>6, <2>1 DEF pool
  <2> QED BY <1>2, <1>10, <2>2, <2>3
<1>13. TypeOK'
  <2>1. /\ Cardinality(late) \in Nat /\ Cardinality(new) \in Nat
        /\ Cardinality(admitted) \in Nat
        /\ lateCounter' \in Nat /\ received' \in Nat /\ stored' \in Nat
    <3>1. Cardinality(late) \in Nat
      BY <1>2, <1>7, NumbersFinite
    <3>2. Cardinality(new) \in Nat
      BY <1>2, <1>4, NumbersFinite
    <3>3. Cardinality(admitted) \in Nat
      BY <1>2, <1>4, NumbersFinite
    <3> QED BY <1>2, <1>3, <3>1, <3>2, <3>3
  <2>2. DOMAIN lateNo' = (DOMAIN lateNo \cap kept) \cup late
    BY <1>3 DEF NumberLate
  <2>3. DOMAIN lateNo' \subseteq held'
    BY <1>3, <1>7, <2>2
  <2>4. ASSUME NEW s \in DOMAIN lateNo' PROVE lateNo'[s] \in 1..lateCounter'
    <3>1. CASE s \in late
      <4>1. Cardinality({t \in late : t <= s}) \in 1..Cardinality(late)
        BY <1>2, <1>7, <3>1, RankFacts
      <4>2. lateNo'[s] = lateCounter + Cardinality({t \in late : t <= s})
        BY <1>3, <3>1 DEF NumberLate
      <4> QED BY <1>2, <1>3, <2>1, <4>1, <4>2
    <3>2. CASE s \notin late
      <4>1. s \in DOMAIN lateNo /\ lateNo'[s] = lateNo[s]
        BY <1>3, <2>2, <3>2 DEF NumberLate
      <4>2. lateNo[s] \in 1..lateCounter
        BY <1>1, <4>1 DEF TypeOK
      <4> QED BY <1>2, <1>3, <2>1, <4>1, <4>2
    <3> QED BY <3>1, <3>2
  <2>5. lateNo' \in [DOMAIN lateNo' -> 1..lateCounter']
    <3>1. lateNo' = [s \in DOMAIN lateNo' |-> lateNo'[s]]
      BY <1>3 DEF NumberLate
    <3> QED BY <2>4, <3>1
  <2>6. departed' \in SUBSET (1..counter')
    BY <1>2, <1>3, <1>8
  <2>7. held' \in SUBSET (1..counter') /\ counter' \in 0..MaxSeq
        /\ clearing' \in [Clients -> {NotClearing} \cup 0..counter']
        /\ clearedUpTo' \in 0..counter' /\ admitFrom' \in Nat
    BY <1>1, <1>3, <1>8 DEF TypeOK
  <2> QED BY <1>11, <2>1, <2>3, <2>5, <2>6, <2>7 DEF TypeOK
<1>14. LossFloorExact'
  <2>1. \A d \in departed : d \in Nat /\ d < lostBelow'
    BY <1>1, <1>2, <1>11 DEF LossFloorExact
  <2>2. \A d \in departed' : d < lostBelow'
    BY <1>3, <1>11, <2>1
  <2>3. lostBelow' = 0 \/ lostBelow' - 1 \in departed'
    BY <1>1, <1>3, <1>11 DEF LossFloorExact
  <2> QED BY <2>2, <2>3 DEF LossFloorExact
<1>15. NothingLostIsHeld'
  <2>1. ASSUME NEW s \in kept PROVE s >= lostBelow'
    <3>1. s \in pool /\ s \in Nat
      BY <1>5, <1>10
    <3>2. CASE lostBelow' = lostBelow
      BY <1>12, <3>1, <3>2
    <3>3. CASE lostBelow' - 1 \in dropped
      <4>1. lostBelow' - 1 < s
        BY <1>5, <3>3
      <4>2. lostBelow' \in Nat
        BY <1>11
      <4>3. \A x, y \in Nat : x - 1 < y => y >= x
        OBVIOUS
      <4> QED BY <3>1, <4>1, <4>2, <4>3
    <3> QED BY <1>11, <3>2, <3>3
  <2>2. departed' \cap held' = {}
    BY <1>3, <1>5, <1>12
  <2> QED BY <1>3, <2>1, <2>2 DEF NothingLostIsHeld
<1>16. ClearIsFinal'
  <2>1. \A s \in admitted : s >= admitFrom /\ s > clearedUpTo
    <3>1. clearedUpTo \in Nat /\ (clearedUpTo = 0 \/ clearedUpTo < admitFrom)
      BY <1>1, <1>2 DEF TypeOK, ClearFloorCovers
    <3>2. \A s \in admitted : s \in Nat /\ s >= 1 /\ s >= admitFrom
      BY <1>4, <1>6
    <3> QED BY <1>2, <3>1, <3>2
  <2>2. \A s \in held : s >= admitFrom /\ s > clearedUpTo
    BY <1>1 DEF ClearIsFinal
  <2>3. \A s \in kept : s \in held \/ s \in admitted
    BY <1>5 DEF pool
  <2> QED BY <1>3, <2>1, <2>2, <2>3 DEF ClearIsFinal
<1>17. StoredOnce'
  <2>1. /\ IsFiniteSet(held) /\ IsFiniteSet(departed) /\ IsFiniteSet(admitted)
        /\ IsFiniteSet(dropped) /\ IsFiniteSet(kept)
        /\ Cardinality(held) \in Nat /\ Cardinality(departed) \in Nat
        /\ Cardinality(admitted) \in Nat /\ Cardinality(dropped) \in Nat
        /\ Cardinality(kept) \in Nat
    BY <1>2, <1>4, <1>8, NumbersFinite
  <2>2. Cardinality(pool) = Cardinality(held) + Cardinality(admitted)
    <3>1. held \cap admitted = {} /\ pool = held \cup admitted
      BY <1>4 DEF pool
    <3> QED BY <2>1, <3>1, DisjointSizes
  <2>3. Cardinality(pool) = Cardinality(kept) + Cardinality(dropped)
    <3>1. kept \cap dropped = {} /\ pool = kept \cup dropped
      BY <1>5
    <3> HIDE DEF dropped
    <3> QED BY <2>1, <3>1, DisjointSizes
  <2>4. Cardinality(departed') = Cardinality(departed) + Cardinality(dropped)
    <3>1. departed \cap dropped = {} /\ departed' = departed \cup dropped
      BY <1>3, <1>12
    <3> HIDE DEF dropped
    <3> QED BY <2>1, <3>1, DisjointSizes
  <2>5. stored = Cardinality(held) + Cardinality(departed)
    BY <1>1 DEF StoredOnce
  <2>6. stored' = Cardinality(held') + Cardinality(departed')
    <3> HIDE DEF dropped
    <3> QED BY <1>3, <2>1, <2>2, <2>3, <2>4, <2>5
  <2> QED BY <1>3, <1>5, <2>6 DEF StoredOnce
<1>18. LateNumbersSound'
  <2> DEFINE Rank(s) == Cardinality({t \in late : t <= s})
  <2>0. DOMAIN lateNo' = (DOMAIN lateNo \cap kept) \cup late
    BY <1>3 DEF NumberLate
  <2>1. \A s \in DOMAIN lateNo' : s \in kept /\ s \in Nat
    BY <1>5, <1>7, <1>10, <2>0
  <2>a. \A s \in late : lateNo'[s] = lateCounter + Rank(s)
    BY <1>3 DEF NumberLate
  <2>b. \A s \in DOMAIN lateNo' \ late :
          s \in DOMAIN lateNo /\ lateNo'[s] = lateNo[s]
    BY <1>3, <2>0 DEF NumberLate
  <2>2. /\ \A s \in late : Rank(s) \in Nat /\ Rank(s) > 0
        /\ \A s, r \in late : s < r => Rank(s) < Rank(r)
    <3>1. Cardinality(late) \in Nat
      BY <1>2, <1>7, RankFacts
    <3>2. /\ \A s \in late : Rank(s) \in 1..Cardinality(late)
          /\ \A s, r \in late : s < r => Rank(s) < Rank(r)
      BY <1>2, <1>7, RankFacts
    <3> HIDE DEF Rank
    <3> QED BY <3>1, <3>2
  <2> HIDE DEF Rank
  <2>c. \A s \in late : lateNo'[s] \in Nat /\ lateNo'[s] > lateCounter
    BY <1>2, <2>a, <2>2
  <2>3. \A s \in DOMAIN lateNo : lateNo[s] \in Nat /\ lateNo[s] <= lateCounter
    BY <1>1, <1>2 DEF TypeOK
  <2>4. ASSUME NEW s \in DOMAIN lateNo', NEW r \in DOMAIN lateNo', s < r
        PROVE  lateNo'[s] # lateNo'[r]
    <3>1. CASE s \in late /\ r \in late
      <4>1. Rank(s) < Rank(r)
        BY <2>4, <2>2, <3>1
      <4> QED BY <1>2, <2>a, <2>2, <3>1, <4>1
    <3>2. CASE s \in late /\ r \notin late
      <4>1. lateNo'[s] > lateCounter
        BY <2>c, <3>2
      <4>2. lateNo'[r] \in Nat /\ lateNo'[r] <= lateCounter
        BY <2>b, <2>3, <3>2
      <4> QED BY <1>2, <4>1, <4>2
    <3>3. CASE s \notin late /\ r \in late
      <4>1. lateNo'[r] > lateCounter
        BY <2>c, <3>3
      <4>2. lateNo'[s] \in Nat /\ lateNo'[s] <= lateCounter
        BY <2>b, <2>3, <3>3
      <4> QED BY <1>2, <4>1, <4>2
    <3>4. CASE s \notin late /\ r \notin late
      <4>1. s # r /\ s \in DOMAIN lateNo /\ r \in DOMAIN lateNo
        BY <2>b, <2>1, <2>4, <3>4
      <4> QED BY <1>1, <2>b, <3>4, <4>1 DEF LateNumbersSound
    <3> QED BY <3>1, <3>2, <3>3, <3>4
  <2>5. \A s, r \in DOMAIN lateNo' : s # r => lateNo'[s] # lateNo'[r]
    <3>1. \A s, r \in DOMAIN lateNo' : s # r => s < r \/ r < s
      BY <2>1
    <3> QED BY <2>4, <3>1
  <2>6. ASSUME NEW s \in DOMAIN lateNo' PROVE \E h \in held' : s < h
    <3>1. PICK h \in held : s < h
      BY <1>1, <1>9, <2>b DEF LateNumbersSound
    <3>2. h \in pool /\ h \in Nat
      BY <1>10 DEF pool
    <3>3. h \in kept
      <4>1. SUFFICES ASSUME h \in dropped PROVE FALSE
        BY <3>2
      <4>2. h < s
        BY <1>5, <2>1, <4>1
      <4>3. s \in Nat
        BY <2>1
      <4> QED BY <3>1, <3>2, <4>2, <4>3
    <3> QED BY <1>3, <3>1, <3>3
  <2> QED BY <2>5, <2>6 DEF LateNumbersSound
<1>19. ClearFloorCovers'
  BY <1>1, <1>3 DEF ClearFloorCovers
<1> QED BY <1>13, <1>14, <1>15, <1>16, <1>17, <1>18, <1>19 DEF StoreInv

(* Every step preserves the invariant, one case per action. *)
LEMMA InvNext == StoreInv /\ [Next]_vars => StoreInv'
<1> SUFFICES ASSUME StoreInv, [Next]_vars PROVE StoreInv'
  OBVIOUS
<1>1. CASE AssignSeq
  BY <1>1, InvAssignSeq
<1>2. ASSUME NEW batch \in SUBSET (1..counter), InsertSorted(batch)
      PROVE  StoreInv'
  BY <1>2, InvInsertSorted
<1>3. ASSUME NEW c \in Clients, ClearBegin(c) PROVE StoreInv'
  BY <1>3, InvClearBegin
<1>4. ASSUME NEW c \in Clients, ClearEnd(c) PROVE StoreInv'
  BY <1>4, InvClearEnd
<1>5. CASE UNCHANGED vars
  BY <1>5 DEF vars, storeVars, StoreInv, TypeOK, LossFloorExact,
     NothingLostIsHeld, ClearIsFinal, StoredOnce, LateNumbersSound,
     ClearFloorCovers
<1> QED BY <1>1, <1>2, <1>3, <1>4, <1>5 DEF Next
-----------------------------------------------------------------------------
(* The inductive invariant holds in every reachable state of the store,   *)
(* for any capacity (0 included) and any number of overlapping clears.    *)
THEOREM StoreInvariant == Spec => []StoreInv
BY InvInit, InvNext, PTL DEF Spec

(* The store's state is always well formed: late numbers only for held    *)
(* records, every number handed out before (memory.rs, StoreInner).       *)
THEOREM StoreTypeCorrect == Spec => []TypeOK
<1>1. StoreInv => TypeOK
  BY DEF StoreInv
<1> QED BY <1>1, StoreInvariant, PTL

(* lost_below is exactly one past the highest record that ever left, so a *)
(* gap verdict built on it neither hides nor invents a loss.              *)
THEOREM LossFloorIsExact == Spec => []LossFloorExact
<1>1. StoreInv => LossFloorExact
  BY DEF StoreInv
<1> QED BY <1>1, StoreInvariant, PTL

(* No record below the loss floor is held and none comes back, whatever   *)
(* batches a trigger's flush offers (merge_locked).                       *)
THEOREM NothingLostComesBack == Spec => []NothingLostIsHeld
<1>1. StoreInv => NothingLostIsHeld
  BY DEF StoreInv
<1> QED BY <1>1, StoreInvariant, PTL

(* A finished clear is final for everything numbered before it read the   *)
(* counter, however clears and in-flight inserts overlap (clear_through). *)
THEOREM ClearsAreFinal == Spec => []ClearIsFinal
<1>1. StoreInv => ClearIsFinal
  BY DEF StoreInv
<1> QED BY <1>1, StoreInvariant, PTL

(* The ring never exceeds its capacity and total_stored counts a record   *)
(* once: it equals what is held plus what left (append, merge_locked).    *)
THEOREM RecordsStoredOnce == Spec => []StoredOnce
<1>1. StoreInv => StoredOnce
  BY DEF StoreInv
<1> QED BY <1>1, StoreInvariant, PTL

(* No two held late records share a late number, and each lies below the  *)
(* newest held record: a cursor may resume from its mark alone.           *)
THEOREM LateNumbersAreSound == Spec => []LateNumbersSound
<1>1. StoreInv => LateNumbersSound
  BY DEF StoreInv
<1> QED BY <1>1, StoreInvariant, PTL

(* Floors never fall and a late number never changes hands: what a cursor *)
(* or a client saved stays comparable (lost_below, admit_from, late).     *)
THEOREM FloorsRise == Spec => FloorsOnlyRise
<1> DEFINE Rises == /\ lostBelow' >= lostBelow
                    /\ admitFrom' >= admitFrom
                    /\ \A s \in DOMAIN lateNo' :
                         \/ s \in DOMAIN lateNo /\ lateNo'[s] = lateNo[s]
                         \/ lateNo'[s] > lateCounter
<1>1. ASSUME StoreInv, [Next]_vars PROVE [Rises]_vars
  <2>1. TypeOK /\ counter \in Nat /\ lostBelow \in Nat /\ admitFrom \in Nat
        /\ held \in SUBSET (1..counter) /\ lateCounter \in Nat
    BY <1>1, MaxSeqAssumption DEF StoreInv, TypeOK
  <2>2. CASE UNCHANGED <<lostBelow, admitFrom, lateNo>>
    BY <2>1, <2>2
  <2>3. ASSUME NEW batch \in SUBSET (1..counter), InsertSorted(batch)
        PROVE  Rises
    <3> DEFINE pool == held \cup {s \in batch \ held : s >= RefuseBelow}
               late == LateOf({s \in batch \ held : s >= RefuseBelow})
                         \cap Newest(pool)
    <3>1. /\ lostBelow' = RaisePast(lostBelow, pool \ Newest(pool))
          /\ lateNo' = NumberLate(late, Newest(pool))
          /\ admitFrom' = admitFrom
      BY <2>3 DEF InsertSorted, Merge
    <3>2. pool \ Newest(pool) \in SUBSET (1..counter)
      BY <2>1
    <3>3. late \in SUBSET (1..counter)
      BY <2>1 DEF LateOf
    <3> HIDE DEF pool, late
    <3>4. lostBelow' >= lostBelow
      BY <2>1, <3>1, <3>2, RaisePastFacts
    <3>5. ASSUME NEW s \in DOMAIN lateNo', s \in late
          PROVE  lateNo'[s] > lateCounter
      <4> DEFINE rank == Cardinality({t \in late : t <= s})
      <4>1. lateNo'[s] = lateCounter + rank
        BY <3>1, <3>5 DEF NumberLate
      <4>2. rank \in 1..Cardinality(late) /\ Cardinality(late) \in Nat
        BY <2>1, <3>3, <3>5, RankFacts
      <4> HIDE DEF rank
      <4> QED BY <2>1, <4>1, <4>2
    <3>6. ASSUME NEW s \in DOMAIN lateNo', s \notin late
          PROVE  s \in DOMAIN lateNo /\ lateNo'[s] = lateNo[s]
      BY <3>1, <3>6 DEF NumberLate
    <3> QED BY <2>1, <3>1, <3>4, <3>5, <3>6
  <2>4. ASSUME NEW c \in Clients, ClearEnd(c) PROVE Rises
    <3>1. lostBelow' >= lostBelow
      <4>1. lostBelow' = RaisePast(lostBelow, held)
        BY <2>4 DEF ClearEnd, ClearStore
      <4> QED BY <2>1, <4>1, RaisePastFacts
    <3>2. admitFrom' >= admitFrom
      <4>1. clearing[c] \in Nat
        BY <2>1, <2>4 DEF TypeOK, ClearEnd, NotClearing
      <4>2. admitFrom' = RaiseAdmission(clearing[c])
        BY <2>4 DEF ClearEnd, ClearStore
      <4> QED BY <2>1, <4>1, <4>2 DEF RaiseAdmission, Larger
    <3>3. DOMAIN lateNo' = {}
      BY <2>4 DEF ClearEnd, ClearStore
    <3> QED BY <3>1, <3>2, <3>3
  <2>5. CASE AssignSeq \/ UNCHANGED vars \/ \E c \in Clients : ClearBegin(c)
    BY <2>2, <2>5 DEF AssignSeq, ClearBegin, storeVars, vars
  <2> QED BY <1>1, <2>3, <2>4, <2>5 DEF Next
<1> QED BY <1>1, StoreInvariant, PTL DEF Spec, FloorsOnlyRise
=============================================================================
