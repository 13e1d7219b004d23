------------------------------ MODULE LogStore ------------------------------
(***************************************************************************)
(* What a domain's log store promises (store/memory.rs, InMemoryStore),    *)
(* over the SET of sequence numbers it holds.  Records are identified by   *)
(* the number SeqCounter handed them; their payload plays no part here.    *)
(* LogRing is the same store at the level of its deque and indexes and is  *)
(* shown to implement this module.  Cursors and Ingest extend it.          *)
(*                                                                         *)
(* Every store operation runs under the one write lock, so it is one       *)
(* action.  LogPipeline::clear_logs is not: it reads the counter first and *)
(* takes the lock afterwards, so it is two actions of the calling client.  *)
(***************************************************************************)
EXTENDS Integers, FiniteSets

CONSTANTS
  Capacity,   \* max_capacity of the ring
  MaxSeq,     \* bound: how many numbers the counter hands out
  MaxReceived,\* bound: total_received (a refused offer counts every time)
  Clients     \* callers that may run clear_logs at the same time

ASSUME CapacityAssumption == Capacity \in Nat
ASSUME MaxSeqAssumption == MaxSeq \in Nat
ASSUME MaxReceivedAssumption == MaxReceived \in Nat

VARIABLES
  counter,      \* SeqCounter: the newest number handed out (0: none yet)
  held,         \* the numbers of the records in the ring
  lostBelow,    \* lost_below: one past the highest record that left
  admitFrom,    \* admit_from: a clear refuses everything below it
  lateNo,       \* late / late_by_seq: a held late record's late number
  lateCounter,  \* late_counter: never reset
  received,     \* total_received
  stored,       \* total_stored
  clearing,     \* per client: the counter value a running clear_logs read
  departed,     \* history: records once stored and no longer held
  clearedUpTo   \* history: the newest number a completed clear read

storeVars == <<held, lostBelow, admitFrom, lateNo, lateCounter, received,
               stored, departed>>
vars == <<counter, storeVars, clearing, clearedUpTo>>

NotClearing == -1

Larger(a, b) == IF a >= b THEN a ELSE b
-----------------------------------------------------------------------------
(* Mutant of Newest: the ring keeps one record more than its capacity. *)
NewestOneMore(S) == {s \in S : Cardinality({t \in S : t > s}) <= Capacity}

(* The Capacity highest members of S: eviction always takes the lowest. *)
Newest(S) == {s \in S : Cardinality({t \in S : t >= s}) <= Capacity}

(* Mutant of RaisePast: a record leaves and the floor stays. *)
KeepFloor(floor, gone) == floor

(* A floor raised past every member of gone (fetch_max of seq + 1). *)
RaisePast(floor, gone) ==
  LET candidates == {floor} \cup {g + 1 : g \in gone}
  IN  CHOOSE f \in candidates : \A x \in candidates : x <= f

(* Mutant of RaiseAdmission: stored instead of fetch_max. *)
StoreAdmission(newestAssigned) == newestAssigned + 1

(* admit_from.fetch_max(newest_assigned + 1). *)
RaiseAdmission(newestAssigned) == Larger(admitFrom, newestAssigned + 1)

(* Mutant of RefuseBelow: the admission floor forgotten. *)
RefuseBelowLoss == lostBelow

(* refuse_below: the lowest seq a write may store. *)
RefuseBelow == Larger(lostBelow, admitFrom)

(* A batch's records stored below the newest held are late. *)
LateOf(S) == {s \in S : \E h \in held : s < h}

(* Mutant of NumberLate: every late record of one batch gets the same     *)
(* number.                                                                *)
NumberLateShared(late, kept) ==
  [s \in (DOMAIN lateNo \cap kept) \cup late |->
     IF s \in late THEN lateCounter + 1 ELSE lateNo[s]]

(* late_counter + 1, + 2, ... in ascending order of seq; what left the    *)
(* ring is forgotten (unindex).                                           *)
NumberLate(late, kept) ==
  [s \in (DOMAIN lateNo \cap kept) \cup late |->
     IF s \in late THEN lateCounter + Cardinality({t \in late : t <= s})
                   ELSE lateNo[s]]

(* insert_sorted / merge_locked: what is already held is no new receipt,  *)
(* what is below a floor is refused, and what does not fit leaves from    *)
(* the low end.                                                           *)
Merge(batch) ==
  LET new      == batch \ held
      admitted == {s \in new : s >= RefuseBelow}
      kept     == Newest(held \cup admitted)
      dropped  == (held \cup admitted) \ kept
      late     == LateOf(admitted) \cap kept
  IN  /\ held' = kept
      /\ lostBelow' = RaisePast(lostBelow, dropped)
      /\ lateNo' = NumberLate(late, kept)
      /\ lateCounter' = lateCounter + Cardinality(late)
      /\ received' = received + Cardinality(new)
      /\ stored' = stored + Cardinality(admitted)
      /\ departed' = departed \cup dropped
      /\ UNCHANGED admitFrom

(* clear_through: empty the ring, raise the loss floor past what was held *)
(* and the admission floor past everything handed out.                    *)
ClearStore(newestAssigned) ==
  /\ held' = {}
  /\ lostBelow' = RaisePast(lostBelow, held)
  /\ admitFrom' = RaiseAdmission(newestAssigned)
  /\ lateNo' = [s \in {} |-> 0]
  /\ departed' = departed \cup held
  /\ UNCHANGED <<lateCounter, received, stored>>
-----------------------------------------------------------------------------
Init ==
  /\ counter = 0
  /\ held = {}
  /\ lostBelow = 0
  /\ admitFrom = 0
  /\ lateNo = [s \in {} |-> 0]
  /\ lateCounter = 0
  /\ received = 0
  /\ stored = 0
  /\ clearing = [c \in Clients |-> NotClearing]
  /\ departed = {}
  /\ clearedUpTo = 0

(* SeqCounter::next, for a log record and for a span alike. *)
AssignSeq ==
  /\ counter < MaxSeq
  /\ counter' = counter + 1
  /\ UNCHANGED <<storeVars, clearing, clearedUpTo>>

(* A caller offers records numbered earlier: the record just assigned, or *)
(* a trigger's pre-window in any mixture.                                 *)
InsertSorted(batch) ==
  /\ received + Cardinality(batch \ held) <= MaxReceived
  /\ Merge(batch)
  /\ UNCHANGED <<counter, clearing, clearedUpTo>>

(* clear_logs, first half: the counter is read outside the store's lock. *)
ClearBegin(c) ==
  /\ clearing[c] = NotClearing
  /\ clearing' = [clearing EXCEPT ![c] = counter]
  /\ UNCHANGED <<counter, storeVars, clearedUpTo>>

(* clear_logs, second half: clear_through under the lock. *)
ClearEnd(c) ==
  /\ clearing[c] # NotClearing
  /\ ClearStore(clearing[c])
  /\ clearedUpTo' = Larger(clearedUpTo, clearing[c])
  /\ clearing' = [clearing EXCEPT ![c] = NotClearing]
  /\ UNCHANGED counter

Next ==
  \/ AssignSeq
  \/ \E batch \in SUBSET (1..counter) : InsertSorted(batch)
  \/ \E c \in Clients : ClearBegin(c)
  \/ \E c \in Clients : ClearEnd(c)

Spec == Init /\ [][Next]_vars
-----------------------------------------------------------------------------
TypeOK ==
  /\ counter \in 0..MaxSeq
  /\ held \in SUBSET (1..counter)
  /\ lostBelow \in Nat
  /\ admitFrom \in Nat
  /\ lateCounter \in Nat
  /\ DOMAIN lateNo \subseteq held
  /\ lateNo \in [DOMAIN lateNo -> 1..lateCounter]
  /\ received \in Nat
  /\ stored \in Nat
  /\ clearing \in [Clients -> {NotClearing} \cup 0..counter]
  /\ departed \in SUBSET (1..counter)
  /\ clearedUpTo \in 0..counter

(* The loss floor is exactly one past the highest record that ever left:  *)
(* no record that left is at or above it, and a clear never raises it     *)
(* over numbers the store did not hold (memory.rs, lost_below).           *)
LossFloorExact ==
  /\ \A d \in departed : d < lostBelow
  /\ lostBelow = 0 \/ lostBelow - 1 \in departed

(* Nothing the store calls lost is held, and no departed record returns,  *)
(* whatever a later flush offers again (merge_locked's floor).            *)
NothingLostIsHeld ==
  /\ \A s \in held : s >= lostBelow
  /\ departed \cap held = {}

(* Nothing numbered before a clear read the counter is held once that     *)
(* clear is done, even when it was in flight or in the pre-buffer, and    *)
(* even when clears overlap (clear_through's admission floor).            *)
ClearIsFinal == \A s \in held : s >= admitFrom /\ s > clearedUpTo

(* The ring never exceeds its capacity, and a record counts as stored     *)
(* once in its life: total_stored is what is held plus what left.         *)
StoredOnce ==
  /\ Cardinality(held) <= Capacity
  /\ stored = Cardinality(held) + Cardinality(departed)

(* Late numbers identify late records, and a late record always sits      *)
(* below the newest record held: a cursor may resume by number alone.     *)
LateNumbersSound ==
  /\ \A s, t \in DOMAIN lateNo : s # t => lateNo[s] # lateNo[t]
  /\ \A s \in DOMAIN lateNo : \E h \in held : s < h

(* Floors and counters only rise, and a late number is never reassigned:  *)
(* a mark a cursor saved stays comparable across evictions and clears.    *)
FloorsOnlyRise ==
  [][/\ lostBelow' >= lostBelow
     /\ admitFrom' >= admitFrom
     /\ \A s \in DOMAIN lateNo' :
          \/ s \in DOMAIN lateNo /\ lateNo'[s] = lateNo[s]
          \/ lateNo'[s] > lateCounter]_vars
=============================================================================
