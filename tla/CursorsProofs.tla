---------------------------- MODULE CursorsProofs ----------------------------
(***************************************************************************)
(* Proofs about Cursors, for every store, every set of records the filter  *)
(* selects, any number of overlapping reads and any replacements, removals *)
(* and sweeps between their steps.  The predicates take the store's state  *)
(* as parameters, so that a fact about one position is stated once and     *)
(* used for the bookmark and for every reader's saved copy, before and     *)
(* after a step.                                                           *)
(***************************************************************************)
EXTENDS Cursors, LogStoreProofs
-----------------------------------------------------------------------------
(* A record number ahead of a position p: above it, or late above its mark *)
(* by the late numbers no.                                                 *)
Up(s, p, no) == s > p.seq \/ (s \in DOMAIN no /\ no[s] > p.mark)

(* A position lies at its creation floor or at a record once stored, and   *)
(* its mark is a late number handed out.  A record stored later at or      *)
(* below it is therefore numbered late, above the mark.                    *)
Anchored(p, floor, known, top) ==
  /\ p.seq \in Nat /\ floor \in Nat /\ p.mark \in Nat
  /\ floor <= p.seq
  /\ p.mark <= top
  /\ p.seq = floor \/ p.seq \in known

(* Every record of D was stored, at or below p, and not late above p's     *)
(* mark by the numbers ever.                                               *)
Behind(p, D, known, ever) ==
  /\ D \subseteq known
  /\ \A s \in D : s <= p.seq /\ (s \in DOMAIN ever => ever[s] <= p.mark)

(* No matching record of H above the floor is missing from D and behind p. *)
Whole(p, floor, D, H, no) ==
  \A s \in H : (s \in Match /\ s > floor) => (s \in D \/ Up(s, p, no))

(* What a read that took the position q.pos knows of it. *)
PositionSound(q, known, top, H, no, ever) ==
  /\ Anchored(q.pos, q.pos.floor, known, top)
  /\ Behind(q.pos, q.seen, known, ever)
  /\ q.crossed \in BOOLEAN
  /\ ~q.crossed => /\ Whole(q.pos, q.pos.floor, q.seen, H, no)
                   /\ \A s \in q.seen : s > q.pos.floor

(* An advance from pos to adv over the records K: K was ahead of pos, lies *)
(* behind adv and above the floor, and nothing between the two is missing. *)
AdvanceSound(pos, adv, K, known, top, H, no, ever) ==
  /\ Anchored(adv, pos.floor, known, top)
  /\ adv.seq >= pos.seq /\ adv.mark >= pos.mark
  /\ Behind(adv, K, known, ever)
  /\ \A s \in K : s > pos.floor /\ Up(s, pos, ever)
  /\ \A s \in H : (s \in Match /\ s > pos.floor /\ Up(s, pos, no))
                    => (s \in K \/ Up(s, adv, no))

ReaderSound(q, known, top, H, no, ever) ==
  /\ q.pc = "marked" => q.mark \in Nat /\ q.mark <= top
  /\ q.pc = "adding" => q.seq \in Nat
  /\ q.pc = "inserting" => q.seq \in Nat /\ q.mark \in Nat /\ q.mark <= top
  /\ q.pc \in {"positioned", "queried"} => PositionSound(q, known, top, H, no, ever)
  /\ q.pc = "queried" => AdvanceSound(q.pos, q.adv, q.kept, known, top, H, no, ever)

(* The bookmark, if there is one, with what its reads delivered. *)
BookmarkSound(b, D, c, known, top, H, no, ever) ==
  b # NoBookmark =>
    /\ Anchored(b, b.floor, known, top)
    /\ Behind(b, D, known, ever)
    /\ c \in BOOLEAN
    /\ ~c => /\ Whole(b, b.floor, D, H, no)
             /\ \A s \in D : s > b.floor

(* The history of late numbers agrees with the store's. *)
LateKnown ==
  /\ DOMAIN lateEver \subseteq held \cup departed
  /\ \A s \in DOMAIN lateEver : lateEver[s] \in Nat /\ lateEver[s] <= lateCounter
  /\ \A s \in DOMAIN lateNo : s \in DOMAIN lateEver /\ lateEver[s] = lateNo[s]

(* The inductive invariant. *)
CursorInv ==
  /\ StoreInv
  /\ LateKnown
  /\ DOMAIN rd = Readers
  /\ twice = {}
  /\ BookmarkSound(bm, delivered, crossed, held \cup departed, lateCounter, held,
                   lateNo, lateEver)
  /\ \A r \in Readers :
       ReaderSound(rd[r], held \cup departed, lateCounter, held, lateNo, lateEver)
-----------------------------------------------------------------------------
(* What a step of the store leaves a cursor to rely on: what was stored    *)
(* stays known, a held record keeps its late number or its lack of one,    *)
(* and a new record is above the loss floor and late if anything newer was *)
(* held.                                                                   *)
StoreMoved ==
  /\ held \cup departed \subseteq held' \cup departed'
  /\ lateCounter' \in Nat /\ lateCounter <= lateCounter'
  /\ \A s \in held' : s \in held =>
       /\ s \in DOMAIN lateNo' <=> s \in DOMAIN lateNo
       /\ s \in DOMAIN lateNo => lateNo'[s] = lateNo[s]
  /\ \A s \in held' : s \notin held =>
       /\ s \in Nat /\ s \notin departed /\ s >= lostBelow
       /\ s \in DOMAIN lateNo' => lateNo'[s] \in Nat /\ lateNo'[s] > lateCounter
       /\ \A h \in held : s < h => s \in DOMAIN lateNo'

LEMMA InsertMoves ==
  ASSUME StoreInv, NEW batch \in SUBSET (1..counter), InsertSorted(batch)
  PROVE  StoreMoved
<1> DEFINE admitted == {s \in batch \ held : s >= RefuseBelow}
           pool == held \cup admitted
           kept == Newest(pool)
           late == LateOf(admitted) \cap kept
<1>1. /\ counter \in Nat /\ held \in SUBSET (1..counter) /\ lostBelow \in Nat
      /\ admitFrom \in Nat /\ lateCounter \in Nat /\ departed \in SUBSET (1..counter)
      /\ \A d \in departed : d < lostBelow
  BY MaxSeqAssumption DEF StoreInv, TypeOK, LossFloorExact
<1>2. /\ held' = kept /\ departed' = departed \cup (pool \ kept)
      /\ lateNo' = NumberLate(late, kept)
      /\ lateCounter' = lateCounter + Cardinality(late)
  BY DEF InsertSorted, Merge
<1>3. pool \in SUBSET (1..counter) /\ admitted \in SUBSET (1..counter)
  BY <1>1
<1>4. kept \subseteq pool
  BY <1>1, <1>3, NewestFacts
<1>5. late \in SUBSET (1..counter) /\ late \subseteq admitted /\ late \subseteq kept
  BY <1>3 DEF LateOf
<1>6. \A s \in admitted : s \in Nat /\ s >= lostBelow /\ s \notin held
  BY <1>1, <1>3 DEF RefuseBelow, Larger
<1>7. \A s \in admitted : \A h \in held : s < h /\ s \in kept => s \in late
  BY DEF LateOf
<1>8. \A s \in pool : s \in held \/ s \in admitted
  OBVIOUS
<1>9. held \subseteq pool
  OBVIOUS
<1> HIDE DEF admitted, pool, kept, late
<1>10. Cardinality(late) \in Nat /\ lateCounter' \in Nat /\ lateCounter <= lateCounter'
  BY <1>1, <1>2, <1>5, NumbersFinite
<1>11. DOMAIN lateNo' = (DOMAIN lateNo \cap kept) \cup late
  BY <1>2 DEF NumberLate
<1>12. ASSUME NEW s \in held', s \in held
       PROVE  /\ s \in DOMAIN lateNo' <=> s \in DOMAIN lateNo
              /\ s \in DOMAIN lateNo => lateNo'[s] = lateNo[s]
  <2>1. s \notin late /\ s \in kept
    BY <1>2, <1>5, <1>6, <1>12
  <2>2. s \in DOMAIN lateNo => lateNo'[s] = lateNo[s]
    BY <1>2, <1>11, <2>1 DEF NumberLate
  <2> QED
    BY <1>11, <2>1, <2>2
<1>13. ASSUME NEW s \in held', s \notin held
       PROVE  /\ s \in Nat /\ s \notin departed /\ s >= lostBelow
              /\ s \in DOMAIN lateNo' => lateNo'[s] \in Nat /\ lateNo'[s] > lateCounter
              /\ \A h \in held : s < h => s \in DOMAIN lateNo'
  <2>1. s \in admitted /\ s \in kept
    BY <1>2, <1>4, <1>8, <1>13
  <2>2. s \in Nat /\ s \notin departed /\ s >= lostBelow
    BY <1>1, <1>6, <2>1
  <2>3. ASSUME s \in DOMAIN lateNo'
        PROVE  lateNo'[s] \in Nat /\ lateNo'[s] > lateCounter
    <3>1. s \in late
      BY <1>11, <1>13, <2>3 DEF StoreInv, TypeOK
    <3>2. Cardinality({t \in late : t <= s}) \in 1..Cardinality(late)
      BY <1>1, <1>5, <3>1, RankFacts
    <3>3. lateNo'[s] = lateCounter + Cardinality({t \in late : t <= s})
      BY <1>2, <1>11, <3>1 DEF NumberLate
    <3> QED
      BY <1>1, <1>10, <3>2, <3>3
  <2>4. \A h \in held : s < h => s \in DOMAIN lateNo'
    BY <1>7, <1>11, <2>1
  <2> QED
    BY <2>2, <2>3, <2>4
<1>14. held \cup departed \subseteq held' \cup departed'
  BY <1>2, <1>9
<1> QED
  BY <1>10, <1>12, <1>13, <1>14 DEF StoreMoved

LEMMA StoreMoves ==
  ASSUME StoreInv, [Next]_vars
  PROVE  StoreMoved
<1>0. lateCounter \in Nat
  BY DEF StoreInv, TypeOK
<1>1. CASE UNCHANGED <<held, departed, lateNo, lateCounter>>
  BY <1>0, <1>1 DEF StoreMoved
<1>2. CASE AssignSeq \/ UNCHANGED vars \/ \E c \in Clients : ClearBegin(c)
  BY <1>1, <1>2 DEF AssignSeq, ClearBegin, vars, storeVars
<1>3. ASSUME NEW c \in Clients, ClearEnd(c) PROVE StoreMoved
  BY <1>0, <1>3 DEF ClearEnd, ClearStore, StoreMoved
<1> QED
  BY <1>2, <1>3, InsertMoves DEF Next
-----------------------------------------------------------------------------
(* A position stays anchored. *)
LEMMA AnchoredMoves ==
  ASSUME StoreMoved, lateCounter \in Nat, NEW p, NEW floor,
         Anchored(p, floor, held \cup departed, lateCounter)
  PROVE  Anchored(p, floor, held' \cup departed', lateCounter')
BY DEF Anchored, StoreMoved

(* A record stored after a position was taken is ahead of it, unless it is *)
(* at or below the creation floor.                                         *)
LEMMA NewIsAhead ==
  ASSUME StoreInv, StoreMoved, NEW p, NEW floor,
         Anchored(p, floor, held \cup departed, lateCounter),
         NEW s \in held', s \notin held, s > floor
  PROVE  Up(s, p, lateNo')
<1>1. s \in Nat /\ s \notin departed /\ s >= lostBelow
      /\ lateCounter \in Nat /\ lostBelow \in Nat /\ p.seq \in Nat /\ floor \in Nat
      /\ p.mark \in Nat /\ p.mark <= lateCounter
      /\ held \subseteq Nat
  BY MaxSeqAssumption DEF StoreMoved, StoreInv, TypeOK, Anchored
<1>2. CASE s > p.seq
  BY <1>2 DEF Up
<1>3. CASE s <= p.seq
  <2>1. p.seq \in held
    <3>1. p.seq \in held \cup departed
      BY <1>1, <1>3 DEF Anchored
    <3>2. p.seq \notin departed
      BY <1>1, <1>3 DEF StoreInv, LossFloorExact
    <3> QED
      BY <3>1, <3>2
  <2>2. s < p.seq
    BY <1>1, <1>3, <2>1
  <2>3. s \in DOMAIN lateNo' /\ lateNo'[s] \in Nat /\ lateNo'[s] > lateCounter
    BY <2>1, <2>2 DEF StoreMoved
  <2> QED
    BY <1>1, <2>3 DEF Up
<1> QED
  BY <1>1, <1>2, <1>3

LEMMA OldStays ==
  ASSUME StoreMoved, NEW p, NEW s \in held', s \in held
  PROVE  Up(s, p, lateNo') <=> Up(s, p, lateNo)
BY DEF StoreMoved, Up

(* The history of late numbers says of a stored record what it said. *)
EverKept ==
  \A s \in held \cup departed :
    /\ s \in DOMAIN lateEver' <=> s \in DOMAIN lateEver
    /\ s \in DOMAIN lateEver => lateEver'[s] = lateEver[s]

LEMMA EverMoves ==
  ASSUME StoreInv, StoreInv', StoreMoved, LateKnown,
         lateEver' = [s \in DOMAIN lateEver \cup DOMAIN lateNo' |->
                        IF s \in DOMAIN lateEver THEN lateEver[s] ELSE lateNo'[s]]
  PROVE  LateKnown' /\ EverKept
<1>1. /\ lateCounter \in Nat /\ lateCounter' \in Nat /\ lateCounter <= lateCounter'
      /\ DOMAIN lateNo' \subseteq held' /\ departed \cap held = {}
      /\ held \cup departed \subseteq held' \cup departed'
      /\ \A s \in DOMAIN lateNo' : lateNo'[s] \in Nat /\ lateNo'[s] <= lateCounter'
  BY DEF StoreInv, TypeOK, NothingLostIsHeld, StoreMoved
<1>2. ASSUME NEW s \in DOMAIN lateNo', s \in held \cup departed
      PROVE  s \in held /\ s \in DOMAIN lateNo /\ lateNo'[s] = lateNo[s]
  BY <1>1, <1>2 DEF StoreMoved
<1>3. /\ DOMAIN lateEver' = DOMAIN lateEver \cup DOMAIN lateNo'
      /\ \A s \in DOMAIN lateEver : lateEver'[s] = lateEver[s]
      /\ \A s \in DOMAIN lateNo' : s \notin DOMAIN lateEver => lateEver'[s] = lateNo'[s]
  OBVIOUS
<1>4. EverKept
  BY <1>2, <1>3 DEF EverKept, LateKnown
<1>5. DOMAIN lateEver' \subseteq held' \cup departed'
  BY <1>1, <1>3 DEF LateKnown
<1>6. ASSUME NEW s \in DOMAIN lateEver'
      PROVE  lateEver'[s] \in Nat /\ lateEver'[s] <= lateCounter'
  BY <1>1, <1>3 DEF LateKnown
<1>7. ASSUME NEW s \in DOMAIN lateNo'
      PROVE  s \in DOMAIN lateEver' /\ lateEver'[s] = lateNo'[s]
  <2>1. CASE s \in DOMAIN lateEver
    BY <1>2, <1>3, <2>1 DEF LateKnown
  <2>2. CASE s \notin DOMAIN lateEver
    BY <1>3, <2>2
  <2> QED
    BY <2>1, <2>2
<1> QED
  BY <1>4, <1>5, <1>6, <1>7 DEF LateKnown

LEMMA BehindMoves ==
  ASSUME StoreMoved, EverKept, NEW p, NEW D,
         Behind(p, D, held \cup departed, lateEver)
  PROVE  Behind(p, D, held' \cup departed', lateEver')
BY DEF Behind, EverKept, StoreMoved

LEMMA WholeMoves ==
  ASSUME StoreInv, StoreMoved, NEW p, NEW floor, NEW D,
         Anchored(p, floor, held \cup departed, lateCounter),
         Whole(p, floor, D, held, lateNo)
  PROVE  Whole(p, floor, D, held', lateNo')
<1> SUFFICES ASSUME NEW s \in held', s \in Match, s > floor
             PROVE  s \in D \/ Up(s, p, lateNo')
  BY DEF Whole
<1>1. CASE s \in held
  BY <1>1, OldStays DEF Whole
<1>2. CASE s \notin held
  BY <1>2, NewIsAhead
<1> QED
  BY <1>1, <1>2

LEMMA AdvanceMoves ==
  ASSUME StoreInv, StoreMoved, EverKept, NEW pos, NEW adv, NEW K,
         AdvanceSound(pos, adv, K, held \cup departed, lateCounter, held, lateNo, lateEver)
  PROVE  AdvanceSound(pos, adv, K, held' \cup departed', lateCounter', held', lateNo',
                      lateEver')
<1>0. /\ Anchored(adv, pos.floor, held \cup departed, lateCounter)
      /\ adv.seq >= pos.seq /\ adv.mark >= pos.mark
      /\ Behind(adv, K, held \cup departed, lateEver)
      /\ \A s \in K : s > pos.floor /\ Up(s, pos, lateEver)
      /\ \A s \in held : (s \in Match /\ s > pos.floor /\ Up(s, pos, lateNo))
                           => (s \in K \/ Up(s, adv, lateNo))
  BY DEF AdvanceSound
<1>1. lateCounter \in Nat
  BY DEF StoreInv, TypeOK
<1>2. Anchored(adv, pos.floor, held' \cup departed', lateCounter')
  BY <1>0, <1>1, AnchoredMoves
<1>3. Behind(adv, K, held' \cup departed', lateEver')
  BY <1>0, BehindMoves
<1>4. \A s \in K : s > pos.floor /\ Up(s, pos, lateEver')
  BY <1>0 DEF Behind, Up, EverKept
<1>5. ASSUME NEW s \in held', s \in Match, s > pos.floor, Up(s, pos, lateNo')
      PROVE  s \in K \/ Up(s, adv, lateNo')
  <2>1. CASE s \in held
    BY <1>0, <1>5, <2>1, OldStays
  <2>2. CASE s \notin held
    BY <1>0, <1>5, <2>2, NewIsAhead
  <2> QED
    BY <2>1, <2>2
<1> QED
  BY <1>0, <1>2, <1>3, <1>4, <1>5 DEF AdvanceSound

LEMMA PositionMoves ==
  ASSUME StoreInv, StoreMoved, EverKept, NEW q,
         PositionSound(q, held \cup departed, lateCounter, held, lateNo, lateEver)
  PROVE  PositionSound(q, held' \cup departed', lateCounter', held', lateNo', lateEver')
<1>0. /\ Anchored(q.pos, q.pos.floor, held \cup departed, lateCounter)
      /\ Behind(q.pos, q.seen, held \cup departed, lateEver)
      /\ q.crossed \in BOOLEAN
      /\ ~q.crossed => /\ Whole(q.pos, q.pos.floor, q.seen, held, lateNo)
                       /\ \A s \in q.seen : s > q.pos.floor
  BY DEF PositionSound
<1>1. lateCounter \in Nat
  BY DEF StoreInv, TypeOK
<1>2. Anchored(q.pos, q.pos.floor, held' \cup departed', lateCounter')
  BY <1>0, <1>1, AnchoredMoves
<1>3. Behind(q.pos, q.seen, held' \cup departed', lateEver')
  BY <1>0, BehindMoves
<1>4. ~q.crossed => Whole(q.pos, q.pos.floor, q.seen, held', lateNo')
  BY <1>0, WholeMoves
<1> QED
  BY <1>0, <1>2, <1>3, <1>4 DEF PositionSound

LEMMA ReaderMoves ==
  ASSUME StoreInv, StoreMoved, EverKept, NEW q,
         ReaderSound(q, held \cup departed, lateCounter, held, lateNo, lateEver)
  PROVE  ReaderSound(q, held' \cup departed', lateCounter', held', lateNo', lateEver')
<1>1. /\ lateCounter \in Nat /\ lateCounter' \in Nat /\ lateCounter <= lateCounter'
  BY DEF StoreInv, TypeOK, StoreMoved
<1>2. /\ q.pc = "marked" => q.mark \in Nat /\ q.mark <= lateCounter'
      /\ q.pc = "adding" => q.seq \in Nat
      /\ q.pc = "inserting" => q.seq \in Nat /\ q.mark \in Nat /\ q.mark <= lateCounter'
  BY <1>1 DEF ReaderSound
<1>3. q.pc \in {"positioned", "queried"} =>
        PositionSound(q, held' \cup departed', lateCounter', held', lateNo', lateEver')
  BY PositionMoves DEF ReaderSound
<1>4. q.pc = "queried" => AdvanceSound(q.pos, q.adv, q.kept, held' \cup departed',
                                       lateCounter', held', lateNo', lateEver')
  BY AdvanceMoves DEF ReaderSound
<1> QED
  BY <1>2, <1>3, <1>4 DEF ReaderSound

LEMMA BookmarkMoves ==
  ASSUME StoreInv, StoreMoved, EverKept, NEW b, NEW D, NEW c,
         BookmarkSound(b, D, c, held \cup departed, lateCounter, held, lateNo, lateEver)
  PROVE  BookmarkSound(b, D, c, held' \cup departed', lateCounter', held', lateNo',
                       lateEver')
<1> SUFFICES ASSUME b # NoBookmark
             PROVE  /\ Anchored(b, b.floor, held' \cup departed', lateCounter')
                    /\ Behind(b, D, held' \cup departed', lateEver')
                    /\ c \in BOOLEAN
                    /\ ~c => /\ Whole(b, b.floor, D, held', lateNo')
                             /\ \A s \in D : s > b.floor
  BY DEF BookmarkSound
<1>0. /\ Anchored(b, b.floor, held \cup departed, lateCounter)
      /\ Behind(b, D, held \cup departed, lateEver)
      /\ c \in BOOLEAN
      /\ ~c => /\ Whole(b, b.floor, D, held, lateNo)
               /\ \A s \in D : s > b.floor
  BY DEF BookmarkSound
<1>1. lateCounter \in Nat
  BY DEF StoreInv, TypeOK
<1>2. Anchored(b, b.floor, held' \cup departed', lateCounter')
  BY <1>0, <1>1, AnchoredMoves
<1>3. Behind(b, D, held' \cup departed', lateEver')
  BY <1>0, BehindMoves
<1>4. ~c => Whole(b, b.floor, D, held', lateNo')
  BY <1>0, WholeMoves
<1> QED
  BY <1>0, <1>2, <1>3, <1>4

(* However the store moves, the cursor and its reads stay sound. *)
LEMMA StoreStepInv ==
  ASSUME CursorInv, StoreStep
  PROVE  CursorInv'
<1>1. StoreInv /\ LateKnown /\ DOMAIN rd = Readers /\ twice = {}
  BY DEF CursorInv
<1>2. Next
  BY DEF StoreStep, Next
<1>3. StoreInv' /\ StoreMoved
  BY <1>1, <1>2, InvNext, StoreMoves
<1>4. LateKnown' /\ EverKept
  BY <1>1, <1>3, EverMoves DEF StoreStep
<1>5. UNCHANGED <<bm, rd, delivered, twice, crossed>>
  BY DEF StoreStep
<1>6. BookmarkSound(bm, delivered, crossed, held' \cup departed', lateCounter', held',
                    lateNo', lateEver')
  BY <1>1, <1>3, <1>4, BookmarkMoves DEF CursorInv
<1>7. \A r \in Readers : ReaderSound(rd[r], held' \cup departed', lateCounter', held',
                                     lateNo', lateEver')
  BY <1>1, <1>3, <1>4, ReaderMoves DEF CursorInv
<1> QED
  BY <1>1, <1>3, <1>4, <1>5, <1>6, <1>7 DEF CursorInv
-----------------------------------------------------------------------------
(* What a walk that stops after n keeps is closed downwards, and is all    *)
(* there is when n is enough.                                              *)
LEMMA FirstLateFacts ==
  ASSUME StoreInv, NEW S \in SUBSET (DOMAIN lateNo), NEW n \in Int
  PROVE  /\ FirstLate(S, n) \subseteq S
         /\ \A s \in FirstLate(S, n) : \A t \in S :
              lateNo[t] <= lateNo[s] => t \in FirstLate(S, n)
         /\ Cardinality(S) \in Nat
         /\ Cardinality(S) <= n => FirstLate(S, n) = S
<1> DEFINE UpTo(s) == {t \in S : lateNo[t] <= lateNo[s]}
<1>1. S \in SUBSET (1..counter) /\ counter \in Nat
      /\ \A s \in S : lateNo[s] \in Nat
  BY MaxSeqAssumption DEF StoreInv, TypeOK
<1>2. IsFiniteSet(S) /\ Cardinality(S) \in Nat
  BY <1>1, NumbersFinite
<1>3. \A s \in S : UpTo(s) \in SUBSET S
  OBVIOUS
<1>4. FirstLate(S, n) = {s \in S : Cardinality(UpTo(s)) <= n}
  BY DEF FirstLate
<1>5. ASSUME NEW s \in S, NEW t \in S, lateNo[t] <= lateNo[s]
      PROVE  UpTo(t) \in SUBSET UpTo(s)
  BY <1>1, <1>5
<1> HIDE DEF UpTo
<1>6. \A s \in S : /\ IsFiniteSet(UpTo(s)) /\ Cardinality(UpTo(s)) \in Nat
                   /\ Cardinality(UpTo(s)) <= Cardinality(S)
  BY <1>2, <1>3, FS_Subset, FS_CardinalityType
<1>7. \A s \in S : \A t \in S : lateNo[t] <= lateNo[s]
        => Cardinality(UpTo(t)) <= Cardinality(UpTo(s))
  BY <1>5, <1>6, FS_Subset
<1>8. \A s \in FirstLate(S, n) : \A t \in S :
        lateNo[t] <= lateNo[s] => t \in FirstLate(S, n)
  BY <1>4, <1>6, <1>7
<1>9. Cardinality(S) <= n => FirstLate(S, n) = S
  BY <1>2, <1>4, <1>6
<1> QED
  BY <1>2, <1>4, <1>8, <1>9

LEMMA FirstNormalFacts ==
  ASSUME StoreInv, NEW S \in SUBSET held, NEW n \in Int
  PROVE  /\ FirstNormal(S, n) \subseteq S
         /\ \A s \in FirstNormal(S, n) : \A t \in S : t <= s => t \in FirstNormal(S, n)
         /\ n < 0 => FirstNormal(S, n) = {}
<1> DEFINE UpTo(s) == {t \in S : t <= s}
<1>1. S \in SUBSET (1..counter) /\ counter \in Nat /\ \A s \in S : s \in Nat
  BY MaxSeqAssumption DEF StoreInv, TypeOK
<1>2. IsFiniteSet(S) /\ Cardinality(S) \in Nat
  BY <1>1, NumbersFinite
<1>3. \A s \in S : UpTo(s) \in SUBSET S
  OBVIOUS
<1>4. FirstNormal(S, n) = {s \in S : Cardinality(UpTo(s)) <= n}
  BY DEF FirstNormal
<1>5. ASSUME NEW s \in S, NEW t \in S, t <= s
      PROVE  UpTo(t) \in SUBSET UpTo(s)
  <2> SUFFICES ASSUME NEW x \in S, x <= t
               PROVE  x <= s
    OBVIOUS
  <2>1. s \in Nat /\ t \in Nat /\ x \in Nat
    BY <1>1
  <2> QED
    BY <1>5, <2>1
<1> HIDE DEF UpTo
<1>6. \A s \in S : /\ IsFiniteSet(UpTo(s)) /\ Cardinality(UpTo(s)) \in Nat
  BY <1>2, <1>3, FS_Subset, FS_CardinalityType
<1>7. \A s \in S : \A t \in S : t <= s => Cardinality(UpTo(t)) <= Cardinality(UpTo(s))
  BY <1>5, <1>6, FS_Subset
<1>8. \A s \in FirstNormal(S, n) : \A t \in S : t <= s => t \in FirstNormal(S, n)
  BY <1>4, <1>6, <1>7
<1>9. n < 0 => FirstNormal(S, n) = {}
  BY <1>4, <1>6
<1> QED
  BY <1>4, <1>8, <1>9

LEMMA HighestFacts ==
  ASSUME NEW n \in Nat, NEW S \in SUBSET (0..n), S # {}
  PROVE  Highest(S) \in S /\ \A y \in S : y <= Highest(S)
BY GreatestExists DEF Highest

(* advance_for is sound for what any read keeps that keeps a lower part of *)
(* each walk, and normal records only with every late one.                 *)
LEMMA AdvanceFacts ==
  ASSUME StoreInv, LateKnown, NEW pos,
         Anchored(pos, pos.floor, held \cup departed, lateCounter),
         NEW exhausted \in BOOLEAN,
         NEW late \in SUBSET LateCandidates(pos),
         NEW normal \in SUBSET NormalCandidates(pos),
         \A s \in late : \A t \in LateCandidates(pos) : lateNo[t] <= lateNo[s] => t \in late,
         \A s \in normal : \A t \in NormalCandidates(pos) : t <= s => t \in normal,
         normal # {} => exhausted /\ late = LateCandidates(pos)
  PROVE  AdvanceSound(pos, Advance(pos, exhausted, late, normal), late \cup normal,
                      held \cup departed, lateCounter, held, lateNo, lateEver)
<1> DEFINE adv == Advance(pos, exhausted, late, normal)
<1>1. /\ pos.seq \in Nat /\ pos.floor \in Nat /\ pos.mark \in Nat /\ pos.floor <= pos.seq
      /\ pos.mark <= lateCounter /\ lateCounter \in Nat /\ counter \in Nat
      /\ held \in SUBSET (1..counter)
      /\ pos.seq = pos.floor \/ pos.seq \in held \cup departed
  BY MaxSeqAssumption DEF Anchored, StoreInv, TypeOK
<1>2. \A s \in LateCandidates(pos) :
        /\ s \in held /\ s \in Nat /\ s <= pos.seq /\ s > pos.floor
        /\ s \in DOMAIN lateNo /\ lateNo[s] \in Nat /\ lateNo[s] > pos.mark
        /\ lateNo[s] <= lateCounter
        /\ s \in DOMAIN lateEver /\ lateEver[s] = lateNo[s]
  BY <1>1 DEF LateCandidates, HeldLate, StoreInv, TypeOK, LateKnown
<1>3. \A s \in held : (s \in Match /\ s > pos.floor /\ s <= pos.seq /\ Up(s, pos, lateNo))
                        => s \in LateCandidates(pos)
  BY <1>1 DEF Up, LateCandidates, HeldLate, StoreInv, TypeOK
<1>4. NormalCandidates(pos) \in SUBSET held
      /\ \A s \in NormalCandidates(pos) : s \in Nat /\ s > pos.seq
  BY <1>1 DEF NormalCandidates
<1>5. \A s \in held : (s \in Match /\ s > pos.seq) => s \in NormalCandidates(pos)
  BY DEF NormalCandidates
<1>6. \A s \in late \cup normal : s > pos.floor /\ Up(s, pos, lateEver)
  BY <1>1, <1>2, <1>4 DEF Up
<1>7. late \cup normal \subseteq held \cup departed
  BY <1>2, <1>4
<1>8. \A s \in DOMAIN lateEver : lateEver[s] \in Nat /\ lateEver[s] <= lateCounter
  BY DEF LateKnown
<1>9. CASE exhausted /\ late = LateCandidates(pos)
  <2>1. adv.seq = Highest({pos.seq} \cup normal) /\ adv.mark = lateCounter
    BY <1>1, <1>9 DEF Advance, Larger
  <2>2. /\ Highest({pos.seq} \cup normal) \in {pos.seq} \cup normal
        /\ \A y \in {pos.seq} \cup normal : y <= Highest({pos.seq} \cup normal)
    <3> DEFINE T == {pos.seq} \cup normal
               n == pos.seq + counter
    <3>1. T \in SUBSET (0..n) /\ T # {} /\ n \in Nat
      BY <1>1, <1>4
    <3> HIDE DEF T, n
    <3>2. Highest(T) \in T /\ \A y \in T : y <= Highest(T)
      BY <3>1, HighestFacts
    <3> QED
      BY <3>2 DEF T
  <2>3. /\ adv.seq \in {pos.seq} \cup normal
        /\ \A y \in {pos.seq} \cup normal : y <= adv.seq
    BY <2>1, <2>2
  <2>4. adv.seq \in Nat /\ adv.seq >= pos.seq /\ adv.mark >= pos.mark
    BY <1>1, <1>4, <2>1, <2>3
  <2> HIDE DEF adv
  <2>5. Anchored(adv, pos.floor, held \cup departed, lateCounter)
    BY <1>1, <1>4, <2>1, <2>3, <2>4 DEF Anchored
  <2>6. \A s \in late \cup normal : s <= adv.seq /\ (s \in DOMAIN lateEver => lateEver[s] <= adv.mark)
    BY <1>1, <1>2, <1>4, <1>8, <2>1, <2>3, <2>4
  <2>7. ASSUME NEW s \in held, s \in Match, s > pos.floor, Up(s, pos, lateNo)
        PROVE  s \in late \cup normal \/ Up(s, adv, lateNo)
    <3>0. s \in Nat
      BY <1>1
    <3>1. CASE s <= pos.seq
      BY <1>3, <1>9, <2>7, <3>1
    <3>2. CASE s > pos.seq
      <4>1. s \in NormalCandidates(pos)
        BY <1>5, <2>7, <3>2
      <4>2. ASSUME s <= adv.seq PROVE s \in normal
        <5>1. adv.seq \in normal
          BY <1>1, <2>3, <3>0, <3>2, <4>2
        <5> QED
          BY <4>1, <4>2, <5>1
      <4> QED
        BY <2>4, <3>0, <4>2 DEF Up
    <3> QED
      BY <1>1, <3>0, <3>1, <3>2
  <2> QED
    BY <1>6, <1>7, <2>4, <2>5, <2>6, <2>7 DEF AdvanceSound, Behind, adv
<1>10. CASE ~(exhausted /\ late = LateCandidates(pos))
  <2>1. adv.seq = pos.seq
        /\ adv.mark = IF late = {} THEN pos.mark ELSE Highest({lateNo[s] : s \in late})
    BY <1>10 DEF Advance
  <2>2. normal = {}
    BY <1>10
  <2>3. /\ adv.mark \in Nat /\ adv.mark >= pos.mark /\ adv.mark <= lateCounter
        /\ \A s \in late : lateNo[s] <= adv.mark
        /\ late = {} => adv.mark = pos.mark
        /\ late # {} => \E s \in late : adv.mark = lateNo[s]
    <3>1. CASE late = {}
      BY <1>1, <2>1, <3>1
    <3>2. CASE late # {}
      <4> DEFINE T == {lateNo[s] : s \in late}
      <4>1. T \in SUBSET (0..lateCounter) /\ T # {}
        BY <1>1, <1>2, <3>2
      <4>2. adv.mark \in T /\ \A y \in T : y <= adv.mark
        <5>1. adv.mark = Highest(T)
          BY <2>1, <3>2
        <5>2. Highest(T) \in T /\ \A y \in T : y <= Highest(T)
          <6> HIDE DEF T
          <6> QED
            BY <1>1, <4>1, HighestFacts
        <5> HIDE DEF T, adv
        <5> QED
          BY <5>1, <5>2
      <4>3. PICK s \in late : adv.mark = lateNo[s]
        BY <4>2
      <4> QED
        BY <1>1, <1>2, <3>2, <4>2, <4>3
    <3> QED
      BY <3>1, <3>2
  <2> HIDE DEF adv
  <2>4. Anchored(adv, pos.floor, held \cup departed, lateCounter)
    BY <1>1, <2>1, <2>3 DEF Anchored
  <2>5. \A s \in late \cup normal : s <= adv.seq /\ (s \in DOMAIN lateEver => lateEver[s] <= adv.mark)
    BY <1>2, <2>1, <2>2, <2>3
  <2>6. ASSUME NEW s \in held, s \in Match, s > pos.floor, Up(s, pos, lateNo)
        PROVE  s \in late \cup normal \/ Up(s, adv, lateNo)
    <3>0. s \in Nat
      BY <1>1
    <3>1. CASE s > pos.seq
      BY <2>1, <3>1 DEF Up
    <3>2. CASE s <= pos.seq
      <4>1. s \in LateCandidates(pos)
        BY <1>3, <2>6, <3>2
      <4>2. s \in DOMAIN lateNo /\ lateNo[s] \in Nat /\ lateNo[s] > pos.mark
        BY <1>2, <4>1
      <4>3. CASE late = {}
        BY <2>3, <4>2, <4>3 DEF Up
      <4>4. CASE late # {}
        <5>1. PICK t \in late : adv.mark = lateNo[t]
          BY <2>3, <4>4
        <5>2. s \notin late => ~(lateNo[s] <= lateNo[t])
          BY <4>1, <5>1
        <5> QED
          BY <2>3, <4>2, <5>1, <5>2 DEF Up
      <4> QED
        BY <4>3, <4>4
    <3> QED
      BY <1>1, <3>0, <3>1, <3>2
  <2> QED
    BY <1>1, <1>6, <1>7, <2>1, <2>3, <2>4, <2>5, <2>6 DEF AdvanceSound, Behind, adv
<1> QED
  BY <1>9, <1>10
-----------------------------------------------------------------------------
(* A step of one reader, or of nobody, that leaves the store alone. *)
LEMMA StoreAlone ==
  ASSUME CursorInv, UNCHANGED <<vars, lateEver>>
  PROVE  /\ StoreInv' /\ LateKnown'
         /\ UNCHANGED <<held, departed, lateCounter, lateNo, lateEver>>
<1>1. StoreInv /\ [Next]_vars
  BY DEF CursorInv
<1>2. StoreInv'
  BY <1>1, InvNext
<1> QED
  BY <1>2 DEF CursorInv, LateKnown, vars, storeVars

LEMMA ReaderFrame ==
  ASSUME CursorInv, NEW r \in Readers, UNCHANGED <<vars, lateEver>>,
         DOMAIN rd' = Readers, \A x \in Readers \ {r} : rd'[x] = rd[x], twice' = {},
         ReaderSound(rd'[r], held \cup departed, lateCounter, held, lateNo, lateEver),
         BookmarkSound(bm', delivered', crossed', held \cup departed, lateCounter, held,
                       lateNo, lateEver)
  PROVE  CursorInv'
<1>1. /\ StoreInv' /\ LateKnown'
      /\ UNCHANGED <<held, departed, lateCounter, lateNo, lateEver>>
  BY StoreAlone
<1>2. \A x \in Readers :
        ReaderSound(rd'[x], held \cup departed, lateCounter, held, lateNo, lateEver)
  BY DEF CursorInv
<1> QED
  BY <1>1, <1>2 DEF CursorInv

(* The cursor left alone, only the reader's own record is to be judged. *)
LEMMA ReaderOnly ==
  ASSUME CursorInv, NEW r \in Readers, UNCHANGED <<vars, lateEver>>,
         NEW v, rd' = [rd EXCEPT ![r] = v],
         UNCHANGED <<bm, delivered, twice, crossed>>,
         ReaderSound(v, held \cup departed, lateCounter, held, lateNo, lateEver)
  PROVE  CursorInv'
<1>1. DOMAIN rd' = Readers /\ rd'[r] = v /\ \A x \in Readers \ {r} : rd'[x] = rd[x]
  BY DEF CursorInv
<1>2. twice' = {} /\ BookmarkSound(bm', delivered', crossed', held \cup departed,
                                   lateCounter, held, lateNo, lateEver)
  BY DEF CursorInv
<1> QED
  BY <1>1, <1>2, ReaderFrame

LEMMA ReadMarkInv ==
  ASSUME CursorInv, NEW r \in Readers, ReadMark(r)
  PROVE  CursorInv'
<1> DEFINE v == [pc |-> "marked", mark |-> lateCounter]
<1>1. lateCounter \in Nat
  BY DEF CursorInv, StoreInv, TypeOK
<1>2. ReaderSound(v, held \cup departed, lateCounter, held, lateNo, lateEver)
  BY <1>1 DEF ReaderSound
<1>3. rd' = [rd EXCEPT ![r] = v] /\ UNCHANGED <<vars, bm, delivered, twice, crossed, lateEver>>
  BY DEF ReadMark
<1> HIDE DEF v
<1> QED
  BY <1>2, <1>3, ReaderOnly

LEMMA PositionInv ==
  ASSUME CursorInv, NEW r \in Readers, Position(r)
  PROVE  CursorInv'
<1> DEFINE v == [pc |-> "positioned", pos |-> bm, seen |-> delivered, crossed |-> crossed]
<1>1. v.pc = "positioned" /\ v.pos = bm /\ v.seen = delivered /\ v.crossed = crossed
  OBVIOUS
<1>2. rd' = [rd EXCEPT ![r] = v] /\ UNCHANGED <<vars, bm, delivered, twice, crossed, lateEver>>
  BY DEF Position
<1>3. bm # NoBookmark
  BY DEF Position
<1> HIDE DEF v
<1>4. PositionSound(v, held \cup departed, lateCounter, held, lateNo, lateEver)
  BY <1>1, <1>3 DEF CursorInv, BookmarkSound, PositionSound
<1>5. ReaderSound(v, held \cup departed, lateCounter, held, lateNo, lateEver)
  BY <1>1, <1>4 DEF ReaderSound
<1> QED
  BY <1>2, <1>5, ReaderOnly

(* A cursor that was just born: nothing delivered, everything ahead. *)
LEMMA BornSound ==
  ASSUME CursorInv, NEW start \in Nat, NEW mark \in Nat, mark <= lateCounter,
         NEW b, b = [seq |-> start, mark |-> mark, floor |-> start]
  PROVE  /\ b # NoBookmark
         /\ Anchored(b, b.floor, held \cup departed, lateCounter)
         /\ Behind(b, {}, held \cup departed, lateEver)
         /\ Whole(b, b.floor, {}, held, lateNo)
         /\ BookmarkSound(b, {}, FALSE, held \cup departed, lateCounter, held, lateNo,
                          lateEver)
<1>1. b.seq = start /\ b.mark = mark /\ b.floor = start
  OBVIOUS
<1>2. b # NoBookmark
  <2>1. NoBookmark.seq = -1
    BY DEF NoBookmark
  <2> QED
    BY <1>1, <2>1
<1>3. /\ Anchored(b, b.floor, held \cup departed, lateCounter)
      /\ Behind(b, {}, held \cup departed, lateEver)
      /\ Whole(b, b.floor, {}, held, lateNo)
  BY <1>1 DEF Anchored, Behind, Whole, Up
<1> QED
  BY <1>2, <1>3 DEF BookmarkSound

LEMMA AutoCreateInv ==
  ASSUME CursorInv, NEW r \in Readers, AutoCreate(r)
  PROVE  CursorInv'
<1> DEFINE b == [seq |-> 0, mark |-> rd[r].mark, floor |-> 0]
           v == [pc |-> "positioned", pos |-> b, seen |-> {}, crossed |-> FALSE]
<1>1. rd[r].mark \in Nat /\ rd[r].mark <= lateCounter
  BY DEF AutoCreate, CursorInv, ReaderSound
<1>2. /\ bm' = b /\ delivered' = {} /\ twice' = {} /\ crossed' = FALSE
      /\ UNCHANGED <<vars, lateEver>>
  BY DEF AutoCreate, Born
<1>3. rd' = [rd EXCEPT ![r] = v]
  BY <1>2 DEF AutoCreate
<1>4. v.pc = "positioned" /\ v.pos = b /\ v.seen = {} /\ v.crossed = FALSE
  OBVIOUS
<1>5. /\ Anchored(b, b.floor, held \cup departed, lateCounter)
      /\ Behind(b, {}, held \cup departed, lateEver)
      /\ Whole(b, b.floor, {}, held, lateNo)
      /\ BookmarkSound(b, {}, FALSE, held \cup departed, lateCounter, held, lateNo,
                       lateEver)
  BY <1>1, BornSound
<1>6. DOMAIN rd' = Readers /\ rd'[r] = v /\ \A x \in Readers \ {r} : rd'[x] = rd[x]
  <2> HIDE DEF v
  <2> QED
    BY <1>3 DEF CursorInv
<1> HIDE DEF v, b
<1>7. PositionSound(v, held \cup departed, lateCounter, held, lateNo, lateEver)
  BY <1>4, <1>5 DEF PositionSound
<1>8. ReaderSound(rd'[r], held \cup departed, lateCounter, held, lateNo, lateEver)
  BY <1>4, <1>6, <1>7 DEF ReaderSound
<1>9. BookmarkSound(bm', delivered', crossed', held \cup departed, lateCounter, held,
                    lateNo, lateEver)
  BY <1>2, <1>5
<1> QED
  BY <1>2, <1>6, <1>8, <1>9, ReaderFrame

(* A reader that asked the store, with a sound advance. *)
LEMMA QueriedInv ==
  ASSUME CursorInv, NEW r \in Readers, rd[r].pc = "positioned",
         UNCHANGED <<vars, bm, delivered, twice, crossed, lateEver>>,
         NEW v, rd' = [rd EXCEPT ![r] = v], v.pc = "queried", v.pos = rd[r].pos,
         v.seen = rd[r].seen, v.crossed = rd[r].crossed,
         AdvanceSound(v.pos, v.adv, v.kept, held \cup departed, lateCounter, held, lateNo,
                      lateEver)
  PROVE  CursorInv'
<1>1. PositionSound(rd[r], held \cup departed, lateCounter, held, lateNo, lateEver)
  BY DEF CursorInv, ReaderSound
<1>2. PositionSound(v, held \cup departed, lateCounter, held, lateNo, lateEver)
  BY <1>1 DEF PositionSound
<1>3. ReaderSound(v, held \cup departed, lateCounter, held, lateNo, lateEver)
  BY <1>2 DEF ReaderSound
<1> QED
  BY <1>3, ReaderOnly

LEMMA QueryInv ==
  ASSUME CursorInv, NEW r \in Readers, NEW ask \in Nat, NEW keep \in Nat,
         Query(r, ask, keep)
  PROVE  CursorInv'
<1> DEFINE pos    == rd[r].pos
           late   == KeptLate(pos, ask, keep)
           normal == KeptNormal(pos, ask, keep)
           exh    == LateExhausted(pos, ask)
           adv    == Advance(pos, exh, late, normal)
           v == [pc |-> "queried", pos |-> pos, seen |-> rd[r].seen,
                 crossed |-> rd[r].crossed, kept |-> late \cup normal,
                 adv |-> adv, lost |-> LostBetween(pos.mark, adv.mark)]
           n == IF keep < ask THEN keep ELSE ask
           LC == LateCandidates(pos)
           NC == NormalCandidates(pos)
<1>1. /\ rd[r].pc = "positioned" /\ rd' = [rd EXCEPT ![r] = v]
      /\ UNCHANGED <<vars, bm, delivered, twice, crossed, lateEver>>
  BY DEF Query
<1>2. /\ v.pc = "queried" /\ v.pos = pos /\ v.seen = rd[r].seen /\ v.crossed = rd[r].crossed
      /\ v.adv = adv /\ v.kept = late \cup normal
  OBVIOUS
<1>3. StoreInv /\ LateKnown
      /\ Anchored(pos, pos.floor, held \cup departed, lateCounter)
  BY <1>1 DEF CursorInv, ReaderSound, PositionSound
<1>4. LC \in SUBSET (DOMAIN lateNo) /\ NC \in SUBSET held /\ n \in Int
  BY DEF LateCandidates, HeldLate, NormalCandidates
<1>5. /\ late = FirstLate(LC, n)
      /\ exh <=> (ask > 0 /\ Cardinality(LC) < ask)
      /\ normal = IF exh THEN FirstNormal(NC, n - Cardinality(LC)) ELSE {}
      /\ exh \in BOOLEAN
  BY DEF KeptLate, KeptNormal, LateExhausted
<1> HIDE DEF v, adv, late, normal, exh, LC, NC, n
<1>6. /\ late \subseteq LC
      /\ \A s \in late : \A t \in LC : lateNo[t] <= lateNo[s] => t \in late
      /\ Cardinality(LC) \in Nat
      /\ Cardinality(LC) <= n => late = LC
  BY <1>3, <1>4, <1>5, FirstLateFacts
<1>7. /\ normal \subseteq NC
      /\ \A s \in normal : \A t \in NC : t <= s => t \in normal
      /\ n < Cardinality(LC) => normal = {}
  <2>1. CASE exh
    <3>1. n - Cardinality(LC) \in Int
      BY <1>4, <1>6
    <3>2. normal = FirstNormal(NC, n - Cardinality(LC))
      BY <1>5, <2>1
    <3>3. n < Cardinality(LC) => n - Cardinality(LC) < 0
      BY <1>4, <1>6
    <3> QED
      BY <1>3, <1>4, <3>1, <3>2, <3>3, FirstNormalFacts
  <2>2. CASE ~exh
    BY <1>5, <2>2
  <2> QED
    BY <2>1, <2>2
<1>8. normal # {} => exh /\ late = LC
  BY <1>4, <1>5, <1>6, <1>7
<1>9. AdvanceSound(pos, adv, late \cup normal, held \cup departed, lateCounter, held,
                   lateNo, lateEver)
  BY <1>3, <1>5, <1>6, <1>7, <1>8, AdvanceFacts DEF LC, NC, adv
<1>10. AdvanceSound(v.pos, v.adv, v.kept, held \cup departed, lateCounter, held, lateNo,
                    lateEver)
  BY <1>2, <1>9
<1> QED
  BY <1>1, <1>2, <1>10, QueriedInv

LEMMA QueryTraceInv ==
  ASSUME CursorInv, NEW r \in Readers, QueryTrace(r)
  PROVE  CursorInv'
<1> DEFINE pos == rd[r].pos
           LC  == LateCandidates(pos)
           NC  == NormalCandidates(pos)
           adv == Advance(pos, TRUE, LC, NC)
           v == [pc |-> "queried", pos |-> pos, seen |-> rd[r].seen,
                 crossed |-> rd[r].crossed, kept |-> LC \cup NC, adv |-> adv,
                 lost |-> NotCounted]
<1>1. /\ rd[r].pc = "positioned" /\ rd' = [rd EXCEPT ![r] = v]
      /\ UNCHANGED <<vars, bm, delivered, twice, crossed, lateEver>>
  BY DEF QueryTrace
<1>2. /\ v.pc = "queried" /\ v.pos = pos /\ v.seen = rd[r].seen /\ v.crossed = rd[r].crossed
      /\ v.adv = adv /\ v.kept = LC \cup NC
  OBVIOUS
<1>3. StoreInv /\ LateKnown
      /\ Anchored(pos, pos.floor, held \cup departed, lateCounter)
  BY <1>1 DEF CursorInv, ReaderSound, PositionSound
<1>4. /\ LC = LateCandidates(pos) /\ NC = NormalCandidates(pos)
      /\ \A s \in LC : \A t \in LateCandidates(pos) : lateNo[t] <= lateNo[s] => t \in LC
      /\ \A s \in NC : \A t \in NormalCandidates(pos) : t <= s => t \in NC
  OBVIOUS
<1> HIDE DEF v, LC, NC
<1>5. AdvanceSound(pos, adv, LC \cup NC, held \cup departed, lateCounter, held, lateNo,
                   lateEver)
  <2>1. ASSUME NEW walked \in BOOLEAN, walked
        PROVE  AdvanceSound(pos, Advance(pos, walked, LC, NC), LC \cup NC,
                            held \cup departed, lateCounter, held, lateNo, lateEver)
    BY <1>3, <1>4, <2>1, AdvanceFacts
  <2> QED
    BY <2>1, Zenon
<1> HIDE DEF adv
<1>6. AdvanceSound(v.pos, v.adv, v.kept, held \cup departed, lateCounter, held, lateNo,
                   lateEver)
  BY <1>2, <1>5
<1> QED
  BY <1>1, <1>2, <1>6, QueriedInv

(* An advance over a position: what lay behind the position lies behind    *)
(* the advance with what the read kept, nothing was there before, and      *)
(* nothing is passed over.                                                 *)
LEMMA AdvanceApplies ==
  ASSUME CursorInv, NEW pos, NEW adv, NEW K, NEW p, NEW D, NEW b,
         AdvanceSound(pos, adv, K, held \cup departed, lateCounter, held, lateNo, lateEver),
         Anchored(pos, pos.floor, held \cup departed, lateCounter),
         p.seq = pos.seq, p.mark = pos.mark,
         Behind(p, D, held \cup departed, lateEver),
         b.seq = adv.seq, b.mark = adv.mark
  PROVE  /\ D \cap K = {}
         /\ Behind(b, D \cup K, held \cup departed, lateEver)
         /\ Whole(p, pos.floor, D, held, lateNo) => Whole(b, pos.floor, D \cup K, held, lateNo)
<1>1. /\ pos.seq \in Nat /\ pos.mark \in Nat /\ adv.seq \in Nat /\ adv.mark \in Nat
      /\ adv.seq >= pos.seq /\ adv.mark >= pos.mark
      /\ Behind(adv, K, held \cup departed, lateEver)
      /\ \A s \in K : s > pos.floor /\ Up(s, pos, lateEver)
      /\ \A s \in held : (s \in Match /\ s > pos.floor /\ Up(s, pos, lateNo))
                           => (s \in K \/ Up(s, adv, lateNo))
  BY DEF AdvanceSound, Anchored
<1>2. held \cup departed \subseteq Nat
      /\ \A s \in DOMAIN lateEver : lateEver[s] \in Nat
  BY MaxSeqAssumption DEF CursorInv, StoreInv, TypeOK, LateKnown
<1>3. \A s \in D : s \in Nat /\ s <= pos.seq /\ (s \in DOMAIN lateEver => lateEver[s] <= pos.mark)
  BY <1>2 DEF Behind
<1>4. D \cap K = {}
  BY <1>1, <1>2, <1>3 DEF Up
<1>5. \A s \in D : s <= b.seq /\ (s \in DOMAIN lateEver => lateEver[s] <= b.mark)
  BY <1>1, <1>2, <1>3
<1>6. Behind(b, D \cup K, held \cup departed, lateEver)
  BY <1>1, <1>5 DEF Behind
<1>7. ASSUME Whole(p, pos.floor, D, held, lateNo)
      PROVE  Whole(b, pos.floor, D \cup K, held, lateNo)
  BY <1>1, <1>7 DEF Whole, Up
<1> QED
  BY <1>4, <1>6, <1>7

LEMMA CommitInv ==
  ASSUME CursorInv, NEW r \in Readers, Commit(r)
  PROVE  CursorInv'
<1> DEFINE q == rd[r]
           moved  == q.adv.seq # q.pos.seq \/ q.adv.mark # q.pos.mark
           stands == moved /\ (CommitLands(q) \/ CommitReinserts(q))
           base   == IF bm = NoBookmark THEN q.seen ELSE delivered
           b == [seq |-> q.adv.seq, mark |-> q.adv.mark,
                 floor |-> IF bm = NoBookmark THEN q.pos.floor ELSE bm.floor]
<1>1. /\ q.pc = "queried" /\ rd' = [rd EXCEPT ![r] = Idle] /\ UNCHANGED <<vars, lateEver>>
      /\ \/ /\ stands /\ bm' = b /\ delivered' = base \cup q.kept
            /\ twice' = twice \cup (base \cap q.kept)
            /\ crossed' = IF bm = NoBookmark THEN q.crossed
                          ELSE crossed \/ bm.floor # q.pos.floor
         \/ ~stands /\ UNCHANGED <<bm, delivered, twice, crossed>>
  BY DEF Commit
<1>2. DOMAIN rd' = Readers /\ rd'[r] = Idle /\ \A x \in Readers \ {r} : rd'[x] = rd[x]
  BY <1>1 DEF CursorInv
<1>3. ReaderSound(rd'[r], held \cup departed, lateCounter, held, lateNo, lateEver)
  BY <1>2 DEF ReaderSound, Idle
<1>4. /\ PositionSound(q, held \cup departed, lateCounter, held, lateNo, lateEver)
      /\ AdvanceSound(q.pos, q.adv, q.kept, held \cup departed, lateCounter, held, lateNo,
                      lateEver)
  BY <1>1 DEF CursorInv, ReaderSound
<1>5. /\ b.seq = q.adv.seq /\ b.mark = q.adv.mark
      /\ bm = NoBookmark => b.floor = q.pos.floor
      /\ bm # NoBookmark => b.floor = bm.floor
  OBVIOUS
<1>6. /\ Anchored(q.pos, q.pos.floor, held \cup departed, lateCounter)
      /\ Anchored(q.adv, q.pos.floor, held \cup departed, lateCounter)
      /\ q.adv.seq >= q.pos.seq
      /\ \A s \in q.kept : s > q.pos.floor
  BY <1>4 DEF PositionSound, AdvanceSound
<1> HIDE DEF q, b
<1>7. CASE ~stands
  <2>1. UNCHANGED <<bm, delivered, twice, crossed>>
    BY <1>1, <1>7
  <2>2. twice' = {} /\ BookmarkSound(bm', delivered', crossed', held \cup departed,
                                     lateCounter, held, lateNo, lateEver)
    BY <2>1 DEF CursorInv
  <2> QED
    BY <1>1, <1>2, <1>3, <2>2, ReaderFrame
<1>8. CASE stands /\ bm # NoBookmark
  <2>1. /\ bm' = b /\ delivered' = delivered \cup q.kept
        /\ twice' = twice \cup (delivered \cap q.kept)
        /\ bm.seq = q.pos.seq /\ bm.mark = q.pos.mark
    BY <1>1, <1>8 DEF CommitLands, CommitReinserts
  <2>2. crossed' = (crossed \/ bm.floor # q.pos.floor)
    BY <1>1, <1>8, Zenon
  <2>3. /\ Anchored(bm, bm.floor, held \cup departed, lateCounter)
        /\ Behind(bm, delivered, held \cup departed, lateEver)
        /\ ~crossed => /\ Whole(bm, bm.floor, delivered, held, lateNo)
                       /\ \A s \in delivered : s > bm.floor
    BY <1>8 DEF CursorInv, BookmarkSound
  <2>4. /\ delivered \cap q.kept = {}
        /\ Behind(b, delivered \cup q.kept, held \cup departed, lateEver)
        /\ Whole(bm, q.pos.floor, delivered, held, lateNo)
             => Whole(b, q.pos.floor, delivered \cup q.kept, held, lateNo)
    BY <1>4, <1>5, <1>6, <2>1, <2>3, AdvanceApplies
  <2>5. Anchored(b, b.floor, held \cup departed, lateCounter)
    BY <1>5, <1>6, <1>8, <2>1, <2>3 DEF Anchored
  <2>6. crossed' \in BOOLEAN /\ (~crossed' => ~crossed /\ bm.floor = q.pos.floor)
    BY <2>2, Zenon
  <2>7. ~crossed' => /\ Whole(b, b.floor, delivered \cup q.kept, held, lateNo)
                     /\ \A s \in delivered \cup q.kept : s > b.floor
    BY <1>5, <1>6, <1>8, <2>3, <2>4, <2>6
  <2>8. BookmarkSound(bm', delivered', crossed', held \cup departed, lateCounter, held,
                      lateNo, lateEver)
    BY <2>1, <2>4, <2>5, <2>6, <2>7 DEF BookmarkSound
  <2>9. twice' = {}
    BY <2>1, <2>4 DEF CursorInv
  <2> QED
    BY <1>1, <1>2, <1>3, <2>8, <2>9, ReaderFrame
<1>9. CASE stands /\ bm = NoBookmark
  <2>1. /\ bm' = b /\ delivered' = q.seen \cup q.kept
        /\ twice' = twice \cup (q.seen \cap q.kept)
    BY <1>1, <1>9
  <2>2. crossed' = q.crossed
    BY <1>1, <1>9, Zenon
  <2>3. /\ Behind(q.pos, q.seen, held \cup departed, lateEver)
        /\ q.crossed \in BOOLEAN
        /\ ~q.crossed => /\ Whole(q.pos, q.pos.floor, q.seen, held, lateNo)
                         /\ \A s \in q.seen : s > q.pos.floor
    BY <1>4 DEF PositionSound
  <2>4. /\ q.seen \cap q.kept = {}
        /\ Behind(b, q.seen \cup q.kept, held \cup departed, lateEver)
        /\ Whole(q.pos, q.pos.floor, q.seen, held, lateNo)
             => Whole(b, q.pos.floor, q.seen \cup q.kept, held, lateNo)
    BY <1>4, <1>5, <1>6, <2>3, AdvanceApplies
  <2>5. Anchored(b, b.floor, held \cup departed, lateCounter)
    BY <1>5, <1>6, <1>9 DEF Anchored
  <2>6. ~q.crossed => /\ Whole(b, b.floor, q.seen \cup q.kept, held, lateNo)
                      /\ \A s \in q.seen \cup q.kept : s > b.floor
    BY <1>5, <1>6, <1>9, <2>3, <2>4
  <2>7. BookmarkSound(b, q.seen \cup q.kept, q.crossed, held \cup departed, lateCounter,
                      held, lateNo, lateEver)
    BY <2>3, <2>4, <2>5, <2>6 DEF BookmarkSound
  <2>8. BookmarkSound(bm', delivered', crossed', held \cup departed, lateCounter, held,
                      lateNo, lateEver)
    BY <2>1, <2>2, <2>7
  <2>9. twice' = {}
    BY <2>1, <2>4 DEF CursorInv
  <2> QED
    BY <1>1, <1>2, <1>3, <2>8, <2>9, ReaderFrame
<1> QED
  BY <1>7, <1>8, <1>9

LEMMA AddStartInv ==
  ASSUME CursorInv, NEW r \in Readers, AddStart(r)
  PROVE  CursorInv'
<1>1. counter \in Nat
  BY MaxSeqAssumption DEF CursorInv, StoreInv, TypeOK
<1>2. PICK start \in 0..counter :
        rd' = [rd EXCEPT ![r] = [pc |-> "adding", seq |-> start]]
  BY DEF AddStart
<1> DEFINE v == [pc |-> "adding", seq |-> start]
<1>3. ReaderSound(v, held \cup departed, lateCounter, held, lateNo, lateEver)
  BY <1>1 DEF ReaderSound
<1>4. rd' = [rd EXCEPT ![r] = v] /\ UNCHANGED <<vars, bm, delivered, twice, crossed, lateEver>>
  BY <1>2 DEF AddStart
<1> HIDE DEF v
<1> QED
  BY <1>3, <1>4, ReaderOnly

LEMMA AddMarkInv ==
  ASSUME CursorInv, NEW r \in Readers, AddMark(r)
  PROVE  CursorInv'
<1> DEFINE v == [pc |-> "inserting", seq |-> rd[r].seq, mark |-> lateCounter]
<1>1. rd[r].seq \in Nat /\ lateCounter \in Nat
  BY DEF AddMark, CursorInv, ReaderSound, StoreInv, TypeOK
<1>2. ReaderSound(v, held \cup departed, lateCounter, held, lateNo, lateEver)
  BY <1>1 DEF ReaderSound
<1>3. rd' = [rd EXCEPT ![r] = v] /\ UNCHANGED <<vars, bm, delivered, twice, crossed, lateEver>>
  BY DEF AddMark
<1> HIDE DEF v
<1> QED
  BY <1>2, <1>3, ReaderOnly

LEMMA AddInsertInv ==
  ASSUME CursorInv, NEW r \in Readers, NEW replace \in BOOLEAN, AddInsert(r, replace)
  PROVE  CursorInv'
<1> DEFINE b == [seq |-> rd[r].seq, mark |-> rd[r].mark, floor |-> rd[r].seq]
<1>1. /\ rd[r].seq \in Nat /\ rd[r].mark \in Nat /\ rd[r].mark <= lateCounter
  BY DEF AddInsert, CursorInv, ReaderSound
<1>2. rd' = [rd EXCEPT ![r] = Idle] /\ UNCHANGED <<vars, lateEver>>
  BY DEF AddInsert
<1>3. ReaderSound(Idle, held \cup departed, lateCounter, held, lateNo, lateEver)
  BY DEF ReaderSound, Idle
<1>4. CASE UNCHANGED <<bm, delivered, twice, crossed>>
  BY <1>2, <1>3, <1>4, ReaderOnly
<1>5. CASE bm' = b /\ delivered' = {} /\ twice' = {} /\ crossed' = FALSE
  <2>1. BookmarkSound(b, {}, FALSE, held \cup departed, lateCounter, held, lateNo, lateEver)
    BY <1>1, BornSound
  <2>2. BookmarkSound(bm', delivered', crossed', held \cup departed, lateCounter, held,
                      lateNo, lateEver)
    <3> HIDE DEF b
    <3> QED
      BY <1>5, <2>1
  <2>3. DOMAIN rd' = Readers /\ rd'[r] = Idle /\ \A x \in Readers \ {r} : rd'[x] = rd[x]
    BY <1>2 DEF CursorInv
  <2>4. ReaderSound(rd'[r], held \cup departed, lateCounter, held, lateNo, lateEver)
    BY <1>3, <2>3
  <2> QED
    BY <1>2, <1>5, <2>2, <2>3, <2>4, ReaderFrame
<1> QED
  BY <1>4, <1>5 DEF AddInsert, Born

(* A sweep, a removal or a session's end takes the bookmark; the span      *)
(* store's floor is not the log store's.                                   *)
LEMMA BookmarkGoneInv ==
  ASSUME CursorInv, Sweep \/ Remove \/ ClearSession \/ SpanEvict \/ UNCHANGED allVars
  PROVE  CursorInv'
<1>1. /\ UNCHANGED <<vars, lateEver, rd, delivered, twice, crossed>>
      /\ bm' = bm \/ bm' = NoBookmark
  BY DEF Sweep, Remove, ClearSession, SpanEvict, allVars, cursorVars
<1>2. /\ StoreInv' /\ LateKnown'
      /\ UNCHANGED <<held, departed, lateCounter, lateNo, lateEver>>
  BY <1>1, StoreAlone
<1>3. BookmarkSound(bm', delivered, crossed, held \cup departed, lateCounter, held, lateNo,
                    lateEver)
  BY <1>1 DEF CursorInv, BookmarkSound
<1> QED
  BY <1>1, <1>2, <1>3 DEF CursorInv

LEMMA CursorInitInv == CursorInit => CursorInv
<1> SUFFICES ASSUME CursorInit PROVE CursorInv
  OBVIOUS
<1>1. StoreInv
  BY InvInit DEF CursorInit
<1>2. LateKnown /\ DOMAIN rd = Readers /\ twice = {} /\ bm = NoBookmark
      /\ \A r \in Readers : rd[r] = Idle
  BY DEF CursorInit, BookmarkInit, Init, LateKnown
<1>3. ReaderSound(Idle, held \cup departed, lateCounter, held, lateNo, lateEver)
  BY DEF ReaderSound, Idle
<1> QED
  BY <1>1, <1>2, <1>3 DEF CursorInv, BookmarkSound

LEMMA CursorNextInv == CursorInv /\ [CursorNext]_allVars => CursorInv'
<1> SUFFICES ASSUME CursorInv, [CursorNext]_allVars PROVE CursorInv'
  OBVIOUS
<1>1. ASSUME NEW r \in Readers, ReaderStep(r) PROVE CursorInv'
  <2>1. ASSUME NEW keep \in 0..MaxCount, NEW more \in 0..1, Query(r, keep + more, keep)
        PROVE  CursorInv'
    <3>1. keep \in Nat /\ keep + more \in Nat
      BY CountAssumption
    <3> QED
      BY <2>1, <3>1, QueryInv
  <2>2. CASE ReadMark(r) \/ Position(r) \/ AutoCreate(r) \/ QueryTrace(r) \/ Commit(r)
             \/ AddStart(r) \/ AddMark(r)
    BY <2>2, ReadMarkInv, PositionInv, AutoCreateInv, QueryTraceInv, CommitInv,
       AddStartInv, AddMarkInv
  <2> QED
    BY <1>1, <2>1, <2>2, AddInsertInv DEF ReaderStep
<1> QED
  BY <1>1, StoreStepInv, BookmarkGoneInv DEF CursorNext
-----------------------------------------------------------------------------
(* Late loss. *)

(* The late records a position is past by number, behind it and above the  *)
(* floor, that a read kept nothing of: those its late_lost must count.     *)
Passed(q, ever) ==
  {s \in DOMAIN ever :
     /\ s \in Match /\ s > q.pos.floor /\ s <= q.pos.seq
     /\ ever[s] > q.pos.mark /\ ever[s] <= q.adv.mark
     /\ s \notin q.kept}

(* What the cursor owed, never returned, and has passed by number. *)
Missed(mark, debts, D, ever) ==
  {s \in debts \cap Match : s \notin D /\ ever[s] <= mark}

(* A late number is given once in the life of a store; what is owed lies   *)
(* between the floor and the position; the reports, and each report under  *)
(* way, cover what was passed.                                             *)
NumbersOnce == \A s, t \in DOMAIN lateEver : lateEver[s] = lateEver[t] => s = t

DebtsSound ==
  /\ owed \subseteq DOMAIN lateEver
  /\ lateLost \in Nat \cup {NotCounted}
  /\ bm # NoBookmark => \A s \in owed : s <= bm.seq /\ s > bm.floor
  /\ (bm # NoBookmark /\ ~crossed /\ lateLost # NotCounted)
       => Cardinality(Missed(bm.mark, owed, delivered, lateEver)) <= lateLost

ReportSound(q, ever) ==
  q.pc = "queried" =>
    /\ q.lost \in Nat \cup {NotCounted}
    /\ q.lost # NotCounted => Cardinality(Passed(q, ever)) <= q.lost

LossInv == NumbersOnce /\ DebtsSound /\ \A r \in Readers : ReportSound(rd[r], lateEver)

LEMMA EverFinite ==
  ASSUME StoreInv, LateKnown, NEW S \in SUBSET DOMAIN lateEver
  PROVE  IsFiniteSet(S) /\ Cardinality(S) \in Nat
<1>1. counter \in Nat /\ S \in SUBSET (1..counter)
  BY MaxSeqAssumption DEF StoreInv, TypeOK, LateKnown
<1> QED
  BY <1>1, NumbersFinite

(* late_lost covers what the advance passes: the numbers between the two   *)
(* marks are those of the records passed and of the late records held, and *)
(* no record is both.                                                      *)
LEMMA LostCovers ==
  ASSUME StoreInv, LateKnown, NumbersOnce, NEW q,
         Anchored(q.pos, q.pos.floor, held \cup departed, lateCounter),
         AdvanceSound(q.pos, q.adv, q.kept, held \cup departed, lateCounter, held, lateNo,
                      lateEver)
  PROVE  /\ LostBetween(q.pos.mark, q.adv.mark) \in Nat
         /\ Cardinality(Passed(q, lateEver)) <= LostBetween(q.pos.mark, q.adv.mark)
<1> DEFINE P == Passed(q, lateEver)
           H == HeldLate(q.pos.mark, q.adv.mark)
           gap == (q.pos.mark + 1)..q.adv.mark
           number == [s \in P \cup H |-> lateEver[s]]
<1>1. /\ q.pos.mark \in Nat /\ q.adv.mark \in Nat /\ q.pos.mark <= q.adv.mark
      /\ q.pos.seq \in Nat /\ q.adv.seq \in Nat /\ q.pos.seq <= q.adv.seq
  BY DEF AdvanceSound, Anchored
<1>2. /\ \A s \in DOMAIN lateEver : s \in Nat /\ lateEver[s] \in Nat
      /\ \A s \in DOMAIN lateNo : s \in DOMAIN lateEver /\ lateEver[s] = lateNo[s]
                                  /\ s \in held
  BY MaxSeqAssumption DEF StoreInv, TypeOK, LateKnown
<1>3. P \cup H \subseteq DOMAIN lateEver
      /\ \A s \in P \cup H : lateEver[s] \in gap
  BY <1>1, <1>2 DEF Passed, HeldLate
<1>4. P \cap H = {}
  <2>1. SUFFICES ASSUME NEW s \in P, s \in H PROVE FALSE
    OBVIOUS
  <2>2. /\ s \in held /\ s \in Match /\ s > q.pos.floor /\ s \notin q.kept
        /\ s \in Nat /\ s <= q.pos.seq /\ s \in DOMAIN lateNo
        /\ lateNo[s] > q.pos.mark /\ lateNo[s] <= q.adv.mark /\ lateNo[s] \in Nat
    BY <1>2, <2>1 DEF Passed, HeldLate
  <2>3. Up(s, q.pos, lateNo)
    BY <2>2 DEF Up
  <2>4. Up(s, q.adv, lateNo)
    BY <2>2, <2>3 DEF AdvanceSound
  <2> QED
    BY <1>1, <2>2, <2>4 DEF Up
<1>5. /\ IsFiniteSet(P) /\ Cardinality(P) \in Nat
      /\ IsFiniteSet(H) /\ Cardinality(H) \in Nat
  BY <1>3, EverFinite
<1>6. IsFiniteSet(gap) /\ Cardinality(gap) = q.adv.mark - q.pos.mark
  <2>1. ASSUME NEW a \in Nat, NEW b \in Nat, a <= b
        PROVE  IsFiniteSet((a + 1)..b) /\ Cardinality((a + 1)..b) = b - a
    <3>1. a + 1 \in Int /\ b \in Int
      OBVIOUS
    <3>2. /\ IsFiniteSet((a + 1)..b)
          /\ Cardinality((a + 1)..b) = IF a + 1 > b THEN 0 ELSE b - (a + 1) + 1
      BY <3>1, FS_Interval
    <3> QED
      BY <2>1, <3>2
  <2> QED
    BY <1>1, <2>1
<1>7. number \in Injection(P \cup H, gap)
  BY <1>3 DEF NumbersOnce, Injection, IsInjective
<1>8. Cardinality(P \cup H) <= Cardinality(gap)
  BY <1>6, <1>7, FS_Injection
<1>9. Cardinality(P \cup H) = Cardinality(P) + Cardinality(H)
  BY <1>4, <1>5, DisjointSizes
<1>10. LostBetween(q.pos.mark, q.adv.mark) = (q.adv.mark - q.pos.mark) - Cardinality(H)
  BY DEF LostBetween
<1> QED
  BY <1>1, <1>5, <1>6, <1>8, <1>9, <1>10

(* A store's step gives new late numbers only, above every mark there is. *)
LEMMA NewNumbers ==
  ASSUME CursorInv, StoreStep, CursorInv'
  PROVE  /\ DOMAIN lateEver \subseteq DOMAIN lateEver'
         /\ \A s \in DOMAIN lateEver : lateEver'[s] = lateEver[s]
         /\ \A s \in DOMAIN lateEver' :
              /\ lateEver'[s] \in Nat
              /\ s \notin DOMAIN lateEver => /\ lateEver'[s] > lateCounter
                                             /\ s \in DOMAIN lateNo'
         /\ \A s \in DOMAIN lateNo' : s \in DOMAIN lateEver' /\ lateEver'[s] = lateNo'[s]
         /\ lateCounter \in Nat
<1>1. StoreInv /\ LateKnown /\ StoreInv' /\ LateKnown' /\ lateCounter \in Nat
  BY DEF CursorInv, StoreInv, TypeOK
<1>2. StoreMoved
  BY <1>1, StoreMoves DEF StoreStep, Next
<1>3. /\ DOMAIN lateEver' = DOMAIN lateEver \cup DOMAIN lateNo'
      /\ \A s \in DOMAIN lateEver : lateEver'[s] = lateEver[s]
  BY DEF StoreStep
<1>4. \A s \in DOMAIN lateNo' : s \in DOMAIN lateEver' /\ lateEver'[s] = lateNo'[s]
  BY <1>1 DEF LateKnown
<1>5. ASSUME NEW s \in DOMAIN lateNo', s \notin DOMAIN lateEver
      PROVE  lateNo'[s] > lateCounter
  <2>1. s \in held'
    BY <1>1 DEF StoreInv, TypeOK
  <2>2. s \notin held
    BY <1>1, <1>2, <1>5, <2>1 DEF StoreMoved, LateKnown
  <2> QED
    BY <1>2, <2>1, <2>2 DEF StoreMoved
<1>6. \A s \in DOMAIN lateEver' : lateEver'[s] \in Nat
  BY <1>1 DEF LateKnown
<1> QED
  BY <1>1, <1>3, <1>4, <1>5, <1>6

LEMMA StoreStepLoss ==
  ASSUME CursorInv, LossInv, StoreStep, CursorInv'
  PROVE  LossInv'
<1>1. /\ UNCHANGED <<bm, rd, delivered, crossed, lateLost>>
      /\ Owe(owed)
  BY DEF StoreStep
<1>2. /\ StoreInv /\ LateKnown /\ StoreInv' /\ LateKnown'
      /\ \A s \in DOMAIN lateEver : lateEver[s] \in Nat /\ lateEver[s] <= lateCounter
  BY DEF CursorInv, LateKnown
<1>3. NumbersOnce'
  <2>1. \A s, t \in DOMAIN lateNo' : s # t => lateNo'[s] # lateNo'[t]
    BY <1>2 DEF StoreInv, LateNumbersSound
  <2>2. ASSUME NEW s \in DOMAIN lateEver', NEW t \in DOMAIN lateEver', lateEver'[s] = lateEver'[t]
        PROVE  s = t
    <3>1. CASE s \in DOMAIN lateEver /\ t \in DOMAIN lateEver
      BY <2>2, <3>1, NewNumbers DEF LossInv, NumbersOnce
    <3>2. CASE s \notin DOMAIN lateEver /\ t \notin DOMAIN lateEver
      BY <2>1, <2>2, <3>2, NewNumbers
    <3>3. CASE s \in DOMAIN lateEver /\ t \notin DOMAIN lateEver
      BY <1>2, <2>2, <3>3, NewNumbers
    <3>4. CASE s \notin DOMAIN lateEver /\ t \in DOMAIN lateEver
      BY <1>2, <2>2, <3>4, NewNumbers
    <3> QED
      BY <3>1, <3>2, <3>3, <3>4
  <2> QED
    BY <2>2 DEF NumbersOnce
<1>4. DebtsSound'
  <2>1. ASSUME NEW s \in owed'
        PROVE  s \in owed \/ /\ bm # NoBookmark /\ s \in DOMAIN lateNo'
                             /\ s <= bm.seq /\ s > bm.floor /\ lateNo'[s] > bm.mark
    BY <1>1 DEF Owe
  <2>2. owed' \subseteq DOMAIN lateEver'
    BY <2>1, NewNumbers DEF LossInv, DebtsSound
  <2>3. bm # NoBookmark => \A s \in owed' : s <= bm.seq /\ s > bm.floor
    BY <2>1 DEF LossInv, DebtsSound
  <2>4. ASSUME bm # NoBookmark
        PROVE  Missed(bm.mark, owed', delivered, lateEver')
                 = Missed(bm.mark, owed, delivered, lateEver)
    <3>1. bm.mark \in Nat
      BY <2>4 DEF CursorInv, BookmarkSound, Anchored
    <3>2. ASSUME NEW s \in Missed(bm.mark, owed', delivered, lateEver')
          PROVE  s \in Missed(bm.mark, owed, delivered, lateEver)
      <4>1. s \in owed' /\ s \in Match /\ s \notin delivered /\ lateEver'[s] <= bm.mark
        BY <3>2 DEF Missed
      <4>2. s \in owed
        BY <2>1, <2>2, <3>1, <4>1, NewNumbers
      <4>3. lateEver'[s] = lateEver[s]
        BY <4>2, NewNumbers DEF LossInv, DebtsSound
      <4> QED
        BY <4>1, <4>2, <4>3 DEF Missed
    <3>3. ASSUME NEW s \in Missed(bm.mark, owed, delivered, lateEver)
          PROVE  s \in Missed(bm.mark, owed', delivered, lateEver')
      <4>1. s \in owed /\ lateEver'[s] = lateEver[s]
        BY <3>3, NewNumbers DEF Missed, LossInv, DebtsSound
      <4>2. s \in owed'
        BY <1>1, <4>1 DEF Owe
      <4> QED
        BY <3>3, <4>1, <4>2 DEF Missed
    <3> QED
      BY <3>2, <3>3
  <2>5. (bm # NoBookmark /\ ~crossed /\ lateLost # NotCounted)
          => Cardinality(Missed(bm.mark, owed', delivered, lateEver')) <= lateLost
    BY <2>4 DEF LossInv, DebtsSound
  <2> QED
    BY <1>1, <2>2, <2>3, <2>5 DEF LossInv, DebtsSound
<1>5. ASSUME NEW r \in Readers PROVE ReportSound(rd[r], lateEver')
  <2>1. SUFFICES ASSUME rd[r].pc = "queried" PROVE ReportSound(rd[r], lateEver')
    BY DEF ReportSound
  <2>2. rd[r].adv.mark \in Nat /\ rd[r].adv.mark <= lateCounter
    BY <2>1 DEF CursorInv, ReaderSound, AdvanceSound, Anchored
  <2>3. ASSUME NEW s \in Passed(rd[r], lateEver')
        PROVE  s \in Passed(rd[r], lateEver)
    <3>1. s \in DOMAIN lateEver' /\ lateEver'[s] <= rd[r].adv.mark
      BY <2>3 DEF Passed
    <3>2. s \in DOMAIN lateEver
      BY <2>2, <3>1, NewNumbers
    <3> QED
      BY <2>3, <3>2, NewNumbers DEF Passed
  <2>4. ASSUME NEW s \in Passed(rd[r], lateEver)
        PROVE  s \in Passed(rd[r], lateEver')
    BY <2>4, NewNumbers DEF Passed
  <2>5. Passed(rd[r], lateEver') = Passed(rd[r], lateEver)
    BY <2>3, <2>4
  <2> QED
    BY <2>5 DEF LossInv, ReportSound
<1> QED
  BY <1>1, <1>3, <1>4, <1>5 DEF LossInv

(* A step that leaves the store alone, and of the readers' records only    *)
(* one that is judged by itself.                                           *)
LEMMA LossFrame ==
  ASSUME LossInv, NEW r \in Readers, lateEver' = lateEver,
         \A x \in Readers \ {r} : rd'[x] = rd[x],
         ReportSound(rd'[r], lateEver), DebtsSound'
  PROVE  LossInv'
<1>1. \A x \in Readers : ReportSound(rd'[x], lateEver)
  BY DEF LossInv
<1> QED
  BY <1>1 DEF LossInv, NumbersOnce

LEMMA DebtsKept ==
  ASSUME LossInv, UNCHANGED <<bm, crossed, lateLost, owed, delivered, lateEver>>
  PROVE  DebtsSound'
BY DEF LossInv, DebtsSound

(* A cursor just born owes nothing. *)
LEMMA DebtsBorn ==
  ASSUME owed' = {}, lateLost' = 0
  PROVE  DebtsSound'
<1>1. Missed(bm'.mark, owed', delivered', lateEver') = {}
  BY DEF Missed
<1> QED
  BY <1>1, FS_EmptySet DEF DebtsSound

LEMMA QueryLoss ==
  ASSUME CursorInv, LossInv, NEW r \in Readers, NEW ask, NEW keep,
         Query(r, ask, keep), CursorInv'
  PROVE  LossInv'
<1>1. /\ UNCHANGED <<vars, bm, crossed, lateLost, owed, delivered, lateEver>>
      /\ rd'[r].pc = "queried" /\ \A x \in Readers \ {r} : rd'[x] = rd[x]
      /\ rd'[r].lost = LostBetween(rd'[r].pos.mark, rd'[r].adv.mark)
  BY DEF Query, CursorInv
<1>2. UNCHANGED <<held, departed, lateCounter, lateNo>> /\ StoreInv /\ LateKnown
  BY <1>1 DEF vars, storeVars, CursorInv
<1>3. /\ Anchored(rd'[r].pos, rd'[r].pos.floor, held \cup departed, lateCounter)
      /\ AdvanceSound(rd'[r].pos, rd'[r].adv, rd'[r].kept, held \cup departed, lateCounter,
                      held, lateNo, lateEver)
  BY <1>1, <1>2 DEF CursorInv, ReaderSound, PositionSound
<1>4. /\ LostBetween(rd'[r].pos.mark, rd'[r].adv.mark) \in Nat
      /\ Cardinality(Passed(rd'[r], lateEver))
           <= LostBetween(rd'[r].pos.mark, rd'[r].adv.mark)
  BY <1>2, <1>3, LostCovers DEF LossInv
<1>5. ReportSound(rd'[r], lateEver)
  BY <1>1, <1>4 DEF ReportSound
<1> QED
  BY <1>1, <1>5, DebtsKept, LossFrame

LEMMA CommitLoss ==
  ASSUME CursorInv, LossInv, NEW r \in Readers, Commit(r), CursorInv'
  PROVE  LossInv'
<1> DEFINE q == rd[r]
           moved  == q.adv.seq # q.pos.seq \/ q.adv.mark # q.pos.mark
           stands == moved /\ (CommitLands(q) \/ CommitReinserts(q))
           lost   == IF bm = NoBookmark THEN 0 ELSE lateLost
<1>1. /\ q.pc = "queried" /\ rd'[r] = Idle /\ \A x \in Readers \ {r} : rd'[x] = rd[x]
      /\ UNCHANGED <<vars, lateEver>>
  BY DEF Commit, CursorInv
<1>2. /\ StoreInv /\ LateKnown /\ UNCHANGED lateNo
      /\ \A s \in DOMAIN lateNo : s \in DOMAIN lateEver /\ lateEver[s] = lateNo[s]
      /\ \A s \in DOMAIN lateEver : lateEver[s] \in Nat
  BY <1>1 DEF vars, storeVars, CursorInv, LateKnown
<1>3. /\ q.pos.mark \in Nat /\ q.adv.mark \in Nat /\ q.pos.mark <= q.adv.mark
      /\ q.pos.seq \in Nat /\ q.adv.seq \in Nat /\ q.pos.seq <= q.adv.seq
  BY <1>1 DEF CursorInv, ReaderSound, AdvanceSound, PositionSound, Anchored
<1>4. /\ q.lost \in Nat \cup {NotCounted}
      /\ q.lost # NotCounted => Cardinality(Passed(q, lateEver)) <= q.lost
  BY <1>1 DEF LossInv, ReportSound
<1>5. /\ owed \subseteq DOMAIN lateEver /\ lateLost \in Nat \cup {NotCounted}
      /\ \A s \in DOMAIN lateEver : s \in Nat
  BY <1>2, MaxSeqAssumption DEF LossInv, DebtsSound, StoreInv, TypeOK, LateKnown
<1>6. ReportSound(rd'[r], lateEver)
  BY <1>1 DEF ReportSound, Idle
<1>7. CASE ~stands
  <2>1. UNCHANGED <<bm, delivered, crossed, lateLost>> /\ Owe(owed)
    BY <1>7 DEF Commit
  <2>2. \A s \in owed' : \/ s \in owed
                         \/ /\ bm # NoBookmark /\ s \in DOMAIN lateNo
                            /\ s <= bm.seq /\ s > bm.floor /\ lateNo[s] > bm.mark
    BY <1>2, <2>1 DEF Owe
  <2>3. ASSUME bm # NoBookmark
        PROVE  Missed(bm.mark, owed', delivered, lateEver)
                 = Missed(bm.mark, owed, delivered, lateEver)
    <3>1. bm.mark \in Nat
      BY <2>3 DEF CursorInv, BookmarkSound, Anchored
    <3>2. owed \subseteq owed'
      BY <2>1 DEF Owe
    <3> QED
      BY <1>2, <2>2, <3>1, <3>2 DEF Missed
  <2>4. DebtsSound'
    BY <1>1, <1>2, <2>1, <2>2, <2>3 DEF LossInv, DebtsSound
  <2> QED
    BY <1>1, <1>6, <2>4, LossFrame
<1>8. CASE stands /\ bm # NoBookmark
  <2>1. /\ bm'.seq = q.adv.seq /\ bm'.mark = q.adv.mark /\ bm'.floor = bm.floor
        /\ bm.seq = q.pos.seq /\ bm.mark = q.pos.mark
        /\ delivered' = delivered \cup q.kept
        /\ Owe(owed)
    BY <1>8 DEF Commit, CommitLands, CommitReinserts
  <2>2. /\ crossed' = (crossed \/ bm.floor # q.pos.floor)
        /\ lateLost' = IF NotCounted \in {lateLost, q.lost} THEN NotCounted
                       ELSE lateLost + q.lost
    BY <1>8, Zenon DEF Commit
  <2>3. crossed \in BOOLEAN
    BY <1>8 DEF CursorInv, BookmarkSound
  <2>4. \A s \in owed' : \/ s \in owed
                         \/ /\ s \in DOMAIN lateNo
                            /\ s <= q.adv.seq /\ s > bm.floor /\ lateNo[s] > q.adv.mark
    BY <1>2, <2>1 DEF Owe
  <2>5. \A s \in owed : s <= bm.seq /\ s > bm.floor
    BY <1>8 DEF LossInv, DebtsSound
  <2>6. owed' \subseteq DOMAIN lateEver' /\ \A s \in owed' : s <= bm'.seq /\ s > bm'.floor
    BY <1>1, <1>2, <1>3, <1>5, <2>1, <2>4, <2>5
  <2>7. lateLost' \in Nat \cup {NotCounted}
    BY <1>4, <1>5, <2>2 DEF NotCounted
  <2>8. ASSUME ~crossed', lateLost' # NotCounted
        PROVE  Cardinality(Missed(bm'.mark, owed', delivered', lateEver')) <= lateLost'
    <3> DEFINE M == Missed(bm.mark, owed, delivered, lateEver)
               P == Passed(q, lateEver)
               N == Missed(bm'.mark, owed', delivered', lateEver')
    <3>1. ~crossed /\ bm.floor = q.pos.floor
      BY <2>2, <2>8, Zenon
    <3>2. lateLost # NotCounted /\ q.lost # NotCounted /\ lateLost' = lateLost + q.lost
      BY <2>2, <2>8
    <3>3. Cardinality(M) <= lateLost /\ Cardinality(P) <= q.lost
      BY <1>4, <1>8, <3>1, <3>2 DEF LossInv, DebtsSound
    <3>4. ASSUME NEW s \in N PROVE s \in M \cup P
      <4>1. /\ s \in owed' /\ s \in Match /\ s \notin delivered /\ s \notin q.kept
            /\ lateEver[s] <= q.adv.mark
        BY <1>1, <2>1 DEF Missed
      <4>2. s \in owed
        BY <1>2, <1>3, <2>4, <4>1
      <4>3. CASE lateEver[s] <= bm.mark
        BY <4>1, <4>2, <4>3 DEF Missed
      <4>4. CASE ~(lateEver[s] <= bm.mark)
        BY <1>2, <1>3, <1>5, <2>1, <2>5, <3>1, <4>1, <4>2, <4>4 DEF Passed
      <4> QED
        BY <4>3, <4>4
    <3>5. M \in SUBSET DOMAIN lateEver /\ P \in SUBSET DOMAIN lateEver
      BY <1>5 DEF Missed, Passed
    <3> HIDE DEF M, P, N
    <3>6. /\ IsFiniteSet(M) /\ Cardinality(M) \in Nat /\ IsFiniteSet(P)
          /\ Cardinality(P) \in Nat /\ IsFiniteSet(M \cup P) /\ Cardinality(M \cup P) \in Nat
      BY <1>2, <3>5, EverFinite
    <3>7. Cardinality(N) \in Nat /\ Cardinality(N) <= Cardinality(M \cup P)
      <4>1. N \in SUBSET (M \cup P)
        BY <3>4
      <4>2. IsFiniteSet(N) /\ Cardinality(N) <= Cardinality(M \cup P)
        BY <3>6, <4>1, FS_Subset
      <4> QED
        BY <4>2, FS_CardinalityType
    <3>8. Cardinality(M \cup P)
            = Cardinality(M) + Cardinality(P) - Cardinality(M \cap P)
      BY <3>6, FS_Union
    <3>9. Cardinality(M \cap P) \in Nat
      BY <1>2, <3>5, EverFinite
    <3>10. lateLost \in Nat /\ q.lost \in Nat
      BY <1>4, <1>5, <3>2
    <3>11. Cardinality(N) <= lateLost'
      BY <3>2, <3>3, <3>6, <3>7, <3>8, <3>9, <3>10
    <3> QED
      BY <3>11 DEF N
  <2>9. DebtsSound'
    BY <2>6, <2>7, <2>8 DEF DebtsSound
  <2> QED
    BY <1>1, <1>6, <2>9, LossFrame
<1>9. CASE stands /\ bm = NoBookmark
  <2>1. /\ bm'.seq = q.adv.seq /\ bm'.mark = q.adv.mark
        /\ lateLost' = IF NotCounted \in {0, q.lost} THEN NotCounted ELSE 0 + q.lost
        /\ Owe({})
    BY <1>9 DEF Commit
  <2>2. \A s \in owed' : /\ s \in DOMAIN lateNo /\ s <= bm'.seq /\ s > bm'.floor
                         /\ lateNo[s] > bm'.mark
    BY <1>2, <2>1 DEF Owe
  <2>3. lateLost' \in Nat \cup {NotCounted}
    BY <1>4, <2>1 DEF NotCounted
  <2>4. Missed(bm'.mark, owed', delivered', lateEver') = {}
    BY <1>1, <1>2, <1>3, <2>1, <2>2 DEF Missed
  <2>5. lateLost' # NotCounted
          => Cardinality(Missed(bm'.mark, owed', delivered', lateEver')) <= lateLost'
    BY <2>3, <2>4, FS_EmptySet
  <2>6. DebtsSound'
    BY <1>1, <1>2, <2>2, <2>3, <2>5 DEF DebtsSound
  <2> QED
    BY <1>1, <1>6, <2>6, LossFrame
<1> QED
  BY <1>7, <1>8, <1>9

LEMMA ReaderLoss ==
  ASSUME CursorInv, LossInv, NEW r \in Readers, ReaderStep(r), CursorInv'
  PROVE  LossInv'
<1>1. CASE ReadMark(r) \/ Position(r) \/ AddStart(r) \/ AddMark(r) \/ QueryTrace(r)
  <2>1. /\ UNCHANGED <<bm, crossed, lateLost, owed, delivered, lateEver>>
        /\ \A x \in Readers \ {r} : rd'[x] = rd[x]
    BY <1>1 DEF ReadMark, Position, AddStart, AddMark, QueryTrace, CursorInv
  <2>2. rd'[r].pc # "queried" \/ rd'[r].lost = NotCounted
    <3>1. DOMAIN rd = Readers
      BY DEF CursorInv
    <3>2. CASE ReadMark(r) \/ Position(r) \/ AddStart(r) \/ AddMark(r)
      BY <3>1, <3>2 DEF ReadMark, Position, AddStart, AddMark
    <3>3. CASE QueryTrace(r)
      BY <3>1, <3>3 DEF QueryTrace
    <3> QED
      BY <1>1, <3>2, <3>3
  <2>3. ReportSound(rd'[r], lateEver)
    BY <2>2 DEF ReportSound
  <2> QED
    BY <2>1, <2>3, DebtsKept, LossFrame
<1>2. CASE AutoCreate(r) \/ \E replace \in BOOLEAN : AddInsert(r, replace)
  <2>1. /\ lateEver' = lateEver /\ \A x \in Readers \ {r} : rd'[x] = rd[x]
        /\ rd'[r].pc # "queried"
    BY <1>2 DEF AutoCreate, AddInsert, CursorInv, Idle
  <2>2. \/ UNCHANGED <<bm, crossed, lateLost, owed, delivered, lateEver>>
        \/ owed' = {} /\ lateLost' = 0
    BY <1>2, <2>1 DEF AutoCreate, AddInsert, Born
  <2>3. ReportSound(rd'[r], lateEver)
    BY <2>1 DEF ReportSound
  <2> QED
    BY <2>1, <2>2, <2>3, DebtsKept, DebtsBorn, LossFrame
<1> QED
  BY <1>1, <1>2, QueryLoss, CommitLoss DEF ReaderStep

LEMMA LossNext ==
  ASSUME CursorInv, LossInv, [CursorNext]_allVars, CursorInv'
  PROVE  LossInv'
<1>1. CASE Sweep \/ Remove \/ ClearSession \/ SpanEvict \/ UNCHANGED allVars
  <2>1. /\ UNCHANGED <<rd, crossed, lateLost, owed, delivered, lateEver>>
        /\ bm' = bm \/ bm' = NoBookmark
    BY <1>1 DEF Sweep, Remove, ClearSession, SpanEvict, allVars, cursorVars
  <2> QED
    BY <2>1 DEF LossInv, NumbersOnce, DebtsSound
<1> QED
  BY <1>1, StoreStepLoss, ReaderLoss DEF CursorNext

LEMMA LossInit == CursorInit => LossInv
<1> SUFFICES ASSUME CursorInit PROVE LossInv
  OBVIOUS
<1>1. DebtsSound
  BY DEF CursorInit, BookmarkInit, DebtsSound
<1>2. NumbersOnce /\ \A r \in Readers : rd[r] = Idle
  BY DEF CursorInit, BookmarkInit, NumbersOnce
<1> QED
  BY <1>1, <1>2 DEF LossInv, ReportSound, Idle
-----------------------------------------------------------------------------
(* Every position, the bookmark's and each reader's copy, lies at its      *)
(* floor or at a record once stored, with what its reads delivered behind  *)
(* it and everything else it owes ahead; every advance under way passes    *)
(* nothing it did not keep (cursor_read_and_advance_at, cursor_read,       *)
(* advance_for).                                                           *)
THEOREM CursorInvariant == CursorSpec => []CursorInv
BY CursorInitInv, CursorNextInv, PTL DEF CursorSpec

(* Through overlapping reads, evictions, clears, late flushes, replaced,   *)
(* removed and swept bookmarks, the reads of a cursor return no record     *)
(* twice, pass none by, and none at or below the creation floor            *)
(* (cursor_read, advance_for, CursorCommit::commit).                       *)
THEOREM CursorsReadExactlyOnce == CursorSpec => []ExactlyOnce
<1>1. CursorInv => ExactlyOnce
  BY DEF CursorInv, BookmarkSound, ExactlyOnce, NoRecordTwice, NoRecordSkipped,
     FloorRespected, Whole, Up, Ahead
<1> QED
  BY <1>1, CursorInvariant, PTL

(* A commit never moves a cursor backwards, however many reads and         *)
(* replacements overlap it, and a sweep takes a bookmark only when a       *)
(* record after it left the log store (commit, should_evict).              *)
THEOREM BookmarksAreKept == CursorSpec => BookmarksKept
<1> DEFINE Forward == \A r \in Readers :
             (rd[r].pc = "queried" /\ rd'[r] = Idle /\ bm # NoBookmark)
               => bm'.seq >= bm.seq /\ bm'.mark >= bm.mark
           Lost == (bm # NoBookmark /\ bm' = NoBookmark /\ ops' = ops)
                     => \E d \in departed : d > bm.seq
<1>1. ASSUME CursorInv, [CursorNext]_allVars PROVE [Forward]_allVars
  <2>1. ASSUME bm # NoBookmark PROVE bm.seq \in Nat /\ bm.mark \in Nat
    BY <1>1, <2>1 DEF CursorInv, BookmarkSound, Anchored
  <2>2. ASSUME bm' = bm PROVE Forward
    BY <2>1, <2>2
  <2>3. CASE UNCHANGED rd
    BY <2>3 DEF Idle
  <2>4. ASSUME NEW r \in Readers, Commit(r) PROVE Forward
    <3>1. rd[r].pc = "queried"
      BY <2>4 DEF Commit
    <3>2. /\ rd[r].adv.seq >= rd[r].pos.seq /\ rd[r].adv.mark >= rd[r].pos.mark
      BY <1>1, <3>1 DEF CursorInv, ReaderSound, AdvanceSound
    <3>3. bm # NoBookmark => \/ bm' = bm
                             \/ /\ bm.seq = rd[r].pos.seq /\ bm.mark = rd[r].pos.mark
                                /\ bm'.seq = rd[r].adv.seq /\ bm'.mark = rd[r].adv.mark
      BY <2>4 DEF Commit, CommitLands, CommitReinserts
    <3> QED
      BY <2>1, <3>2, <3>3
  <2>5. ASSUME NEW r \in Readers, AutoCreate(r) \/ \E replace \in BOOLEAN : AddInsert(r, replace)
        PROVE  Forward
    <3>1. rd[r].pc # "queried" /\ \A x \in Readers \ {r} : rd'[x] = rd[x]
      BY <1>1, <2>5 DEF AutoCreate, AddInsert, CursorInv
    <3> QED
      BY <3>1 DEF Idle
  <2>6. ASSUME NEW r \in Readers, ReaderStep(r) PROVE Forward
    <3>1. CASE \/ ReadMark(r) \/ Position(r) \/ QueryTrace(r) \/ AddStart(r) \/ AddMark(r)
               \/ \E keep \in 0..MaxCount : \E more \in 0..1 : Query(r, keep + more, keep)
      <4>1. bm' = bm
        BY <3>1 DEF ReadMark, Position, QueryTrace, AddStart, AddMark, Query
      <4> QED
        BY <2>2, <4>1
    <3> QED
      BY <2>4, <2>5, <2>6, <3>1 DEF ReaderStep
  <2>7. CASE StoreStep \/ SpanEvict \/ Sweep \/ Remove \/ ClearSession
    BY <2>3, <2>7 DEF StoreStep, SpanEvict, Sweep, Remove, ClearSession, cursorVars
  <2> QED
    BY <1>1, <2>6, <2>7 DEF CursorNext
<1>2. ASSUME CursorInv, [CursorNext]_allVars PROVE [Lost]_allVars
  <2>1. CASE Sweep
    <3>1. bm # NoBookmark /\ bm.seq \in Nat /\ lostBelow > bm.seq + 1 /\ lostBelow \in Nat
      BY <1>2, <2>1 DEF Sweep, ShouldEvict, CursorInv, BookmarkSound, Anchored, StoreInv, TypeOK
    <3>2. lostBelow - 1 \in departed
      BY <1>2, <3>1 DEF CursorInv, StoreInv, LossFloorExact
    <3> QED
      BY <3>1, <3>2
  <2>2. CASE Remove \/ ClearSession
    <3>1. ops' = ops + 1
      BY <2>2 DEF Remove, ClearSession
    <3> QED
      BY <3>1
  <2>3. CASE StoreStep \/ SpanEvict
    BY <2>3 DEF StoreStep, SpanEvict, cursorVars
  <2>4. ASSUME NEW r \in Readers, ReaderStep(r) PROVE bm' # NoBookmark \/ bm' = bm
    <3>1. CASE Commit(r)
      <4>1. rd[r].adv.seq \in Nat
        BY <1>2, <3>1 DEF Commit, CursorInv, ReaderSound, AdvanceSound, Anchored
      <4>2. bm' = bm \/ bm'.seq = rd[r].adv.seq
        BY <3>1 DEF Commit
      <4> QED
        BY <4>1, <4>2 DEF NoBookmark
    <3>2. CASE AutoCreate(r)
      <4>1. bm'.seq = 0
        BY <3>2 DEF AutoCreate, Born
      <4> QED
        BY <4>1 DEF NoBookmark
    <3>3. ASSUME NEW replace \in BOOLEAN, AddInsert(r, replace)
          PROVE  bm' # NoBookmark \/ bm' = bm
      <4>1. rd[r].seq \in Nat
        BY <1>2, <3>3 DEF AddInsert, CursorInv, ReaderSound
      <4>2. bm' = bm \/ bm'.seq = rd[r].seq
        BY <3>3 DEF AddInsert, Born
      <4> QED
        BY <4>1, <4>2 DEF NoBookmark
    <3>4. CASE \/ ReadMark(r) \/ Position(r) \/ QueryTrace(r) \/ AddStart(r) \/ AddMark(r)
               \/ \E keep \in 0..MaxCount : \E more \in 0..1 : Query(r, keep + more, keep)
      BY <3>4 DEF ReadMark, Position, QueryTrace, AddStart, AddMark, Query
    <3> QED
      BY <2>4, <3>1, <3>2, <3>3, <3>4 DEF ReaderStep
  <2> QED
    BY <1>2, <2>1, <2>2, <2>3, <2>4 DEF CursorNext
<1> QED
  BY <1>1, <1>2, CursorInvariant, PTL DEF CursorSpec, BookmarksKept, NeverBackwards,
     SweepOnlyLost
(* Late loss is never hidden: of the late records stored behind a cursor   *)
(* that left unread, as many are reported lost as its mark has passed,     *)
(* whatever reads overlap and however often the cursor is swept, removed,  *)
(* replaced or put back in between (lost_between, advance_for, commit).    *)
THEOREM LateLossIsCounted == CursorSpec => []LateLossCounted
<1>1. CursorInv /\ LossInv => LateLossCounted
  <2> SUFFICES ASSUME CursorInv, LossInv, bm # NoBookmark, ~crossed, lateLost # NotCounted
               PROVE  Cardinality({s \in owed \cap departed \cap Match :
                                     s \notin delivered /\ lateEver[s] <= bm.mark}) <= lateLost
    BY DEF LateLossCounted
  <2> DEFINE M == Missed(bm.mark, owed, delivered, lateEver)
             L == {s \in owed \cap departed \cap Match :
                     s \notin delivered /\ lateEver[s] <= bm.mark}
  <2>1. L \in SUBSET M /\ M \in SUBSET DOMAIN lateEver
    BY DEF Missed, LossInv, DebtsSound
  <2>2. Cardinality(M) <= lateLost /\ lateLost \in Nat
    BY DEF LossInv, DebtsSound
  <2> HIDE DEF M, L
  <2>3. IsFiniteSet(M) /\ Cardinality(M) \in Nat /\ L \in SUBSET DOMAIN lateEver
    BY <2>1, EverFinite DEF CursorInv
  <2>4. Cardinality(L) \in Nat /\ Cardinality(L) <= Cardinality(M)
    BY <2>1, <2>3, EverFinite, FS_Subset DEF CursorInv
  <2>5. Cardinality(L) <= lateLost
    BY <2>2, <2>3, <2>4
  <2> QED
    BY <2>5 DEF L
<1>2. CursorInit => CursorInv /\ LossInv
  BY CursorInitInv, LossInit
<1>3. CursorInv /\ LossInv /\ [CursorNext]_allVars => (CursorInv /\ LossInv)'
  BY CursorNextInv, LossNext
<1> QED
  BY <1>1, <1>2, <1>3, PTL DEF CursorSpec
=============================================================================
