------------------------------- MODULE LogRing -------------------------------
(***************************************************************************)
(* InMemoryStore (store/memory.rs) at the level of its data structures:    *)
(* the deque, the per-trace lists and the two late maps, and the steps by  *)
(* which append, insert_sorted and clear_through keep them in agreement.   *)
(* A record is its sequence number; traceOf gives the trace it carries.    *)
(* Shown to implement LogStore, in which the ring is just a set.           *)
(***************************************************************************)
EXTENDS Integers, Sequences, SequencesExt

CONSTANTS Capacity, MaxSeq, MaxReceived, Clients,
  Traces,       \* the trace ids records carry
  NoTrace,      \* a record without one
  MaxBatch      \* bound: records in one insert_sorted call

VARIABLES
  counter, traceOf,       \* SeqCounter, and the trace of each record numbered
  ring,                   \* StoreInner and lost_below, raised under its lock
  admitFrom, received, stored, clearing,
  departed, clearedUpTo   \* history, as in LogStore

vars == <<counter, traceOf, ring, admitFrom, received, stored, clearing,
          departed, clearedUpTo>>

NotClearing == -1
Larger(a, b) == IF a >= b THEN a ELSE b
Seqs(s) == {s[i] : i \in DOMAIN s}
EmptyMap == [x \in {} |-> 0]
Without(f, x) == [y \in DOMAIN f \ {x} |-> f[y]]
With(f, x, v) == [y \in DOMAIN f \cup {x} |-> IF y = x THEN v ELSE f[y]]
-----------------------------------------------------------------------------
(* Searching the ring: both are binary searches that trust the order. *)
RECURSIVE Bisect(_, _, _, _)
Bisect(s, x, lo, hi) ==
  LET mid == (lo + hi) \div 2
  IN  IF lo = hi THEN lo
      ELSE IF s[mid + 1] < x THEN Bisect(s, x, mid + 1, hi)
      ELSE Bisect(s, x, lo, mid)

(* partition_point(|e| e.seq < x): how many lie below x. *)
PartitionPoint(s, x) == Bisect(s, x, 0, Len(s))

(* StoreInner::holds: the newest first, then a binary search. *)
Holds(s, x) ==
  /\ s # <<>>
  /\ x <= Last(s)
  /\ LET p == PartitionPoint(s, x) IN s[p + 1] = x

(* The two-pointer merge of two ascending runs. *)
RECURSIVE TwoWay(_, _)
TwoWay(a, b) ==
  CASE a = <<>> -> b
    [] b = <<>> -> a
    [] OTHER    -> IF Head(a) < Head(b)
                     THEN <<Head(a)>> \o TwoWay(Tail(a), b)
                     ELSE <<Head(b)>> \o TwoWay(a, Tail(b))

(* merge_ascending: an append when the addition is newer, else a merge. *)
MergeAscending(list, add) ==
  IF add = <<>> \/ list = <<>> \/ Head(add) > Last(list)
    THEN list \o add
    ELSE TwoWay(list, add)

(* Mutant of ForgetTrace: an emptied list stays in the index. *)
ForgetTraceKeepsEmpty(index, t, s) ==
  IF t \notin DOMAIN index THEN index
  ELSE [index EXCEPT ![t] = SelectSeq(@, LAMBDA x : x # s)]

(* unindex, the trace half: drop the record, and the list once empty. *)
ForgetTrace(index, t, s) ==
  IF t \notin DOMAIN index THEN index
  ELSE LET rest == SelectSeq(index[t], LAMBDA x : x # s)
       IN  IF rest = <<>> THEN Without(index, t)
                          ELSE [index EXCEPT ![t] = rest]

(* Mutant of Unindex: an untraced record is not forgotten as a late one. *)
UnindexTracedOnly(r, s) ==
  IF traceOf[s] = NoTrace THEN r
  ELSE [r EXCEPT
          !.late = IF s \in DOMAIN r.lateBySeq
                     THEN Without(@, r.lateBySeq[s]) ELSE @,
          !.lateBySeq = Without(@, s),
          !.traceIndex = ForgetTrace(@, traceOf[s], s)]

(* unindex: a record that left is forgotten by both late maps and by its  *)
(* trace's list.                                                          *)
Unindex(r, s) ==
  [r EXCEPT
     !.late = IF s \in DOMAIN r.lateBySeq
                THEN Without(@, r.lateBySeq[s]) ELSE @,
     !.lateBySeq = Without(@, s),
     !.traceIndex = ForgetTrace(@, traceOf[s], s)]

(* One record leaves: the floor rises past it. *)
Lose(r, s) == Unindex([r EXCEPT !.lostBelow = Larger(@, s + 1)], s)

(* evict_front: nothing when the deque is empty. *)
EvictFront(r) ==
  IF r.entries = <<>> THEN r
  ELSE Lose([r EXCEPT !.entries = Tail(@)], Head(r.entries))

RECURSIVE EvictMany(_, _)
EvictMany(r, n) == IF n = 0 THEN r ELSE EvictMany(EvictFront(r), n - 1)

(* A batch's seqs of trace t, as by_trace collects them. *)
OfTrace(batch, t) == SelectSeq(batch, LAMBDA s : traceOf[s] = t)

(* Each trace's list takes the batch's seqs for it in one merge. *)
IndexBatch(index, batch) ==
  LET touched == {t \in Traces : OfTrace(batch, t) # <<>>}
  IN  [t \in DOMAIN index \cup touched |->
         MergeAscending(IF t \in DOMAIN index THEN index[t] ELSE <<>>,
                        OfTrace(batch, t))]

(* One late record takes the next late number. *)
NumberOne(r, s) ==
  LET n == r.lateCounter + 1
  IN  [r EXCEPT !.lateCounter = n,
                !.late = With(@, n, s),
                !.lateBySeq = With(@, s, n)]

(* Mutant of SortDedup: the batch is merged as the trigger built it. *)
AsGiven(batch) == batch

(* The batch is sorted and deduplicated before anything trusts it. *)
SortDedup(batch) == SetToSortSeq(Seqs(batch), LAMBDA a, b : a < b)

RefuseBelow == Larger(ring.lostBelow, admitFrom)

Fresh(batch) == SelectSeq(SortDedup(batch), LAMBDA s : ~Holds(ring.entries, s))
Admitted(batch) == SelectSeq(Fresh(batch), LAMBDA s : s >= RefuseBelow)

(* merge_locked past its early return: admitted is ascending, new and not *)
(* empty.  The records below it stay, the rest come off and are merged    *)
(* back, the excess leaves from the low end, and the late ones that       *)
(* stayed are numbered in ascending order.                                *)
MergeRing(admitted) ==
  LET split   == PartitionPoint(ring.entries, Head(admitted))
      front   == SubSeq(ring.entries, 1, split)
      merged  == TwoWay(SubSeq(ring.entries, split + 1, Len(ring.entries)),
                        admitted)
      excess  == Larger(Len(front) + Len(merged) - Capacity, 0)
      evicted == IF excess <= Len(front) THEN excess ELSE Len(front)
      drop    == SubSeq(merged, 1, excess - evicted)
      late    == IF ring.entries = <<>> THEN <<>>
                 ELSE SelectSeq(admitted, LAMBDA s : s < Last(ring.entries))
      lateIn  == SelectSeq(late, LAMBDA s : drop = <<>> \/ s > Last(drop))
      opened  == [ring EXCEPT !.entries = front,
                              !.traceIndex = IndexBatch(@, admitted)]
      room    == FoldLeft(Lose, EvictMany(opened, evicted), drop)
      filled  == [room EXCEPT
                    !.entries = @ \o SubSeq(merged, Len(drop) + 1, Len(merged))]
  IN  FoldLeft(NumberOne, filled, lateIn)

(* append's fast path: newer than everything held, and not refused. *)
PushRing(s) ==
  LET room == IF Len(ring.entries) >= Capacity THEN EvictFront(ring) ELSE ring
  IN  IF Capacity = 0
        THEN [ring EXCEPT !.lostBelow = Larger(@, s + 1)]
        ELSE [room EXCEPT
                !.traceIndex = IndexBatch(@, <<s>>),
                !.entries = Append(@, s)]

(* clear_locked: late_counter survives. *)
ClearedRing ==
  [ring EXCEPT
     !.lostBelow = IF ring.entries = <<>> THEN @
                   ELSE Larger(@, Last(ring.entries) + 1),
     !.entries = <<>>,
     !.traceIndex = EmptyMap,
     !.late = EmptyMap,
     !.lateBySeq = EmptyMap]

(* History: what a step stored or held and the ring no longer has. *)
Depart(admitted) ==
  departed' = departed \cup ((Seqs(ring.entries) \cup admitted)
                               \ Seqs(ring'.entries))
-----------------------------------------------------------------------------
Init ==
  /\ counter = 0
  /\ traceOf = <<>>
  /\ ring = [entries |-> <<>>, traceIndex |-> EmptyMap, late |-> EmptyMap,
             lateBySeq |-> EmptyMap, lateCounter |-> 0, lostBelow |-> 0]
  /\ admitFrom = 0
  /\ received = 0
  /\ stored = 0
  /\ clearing = [c \in Clients |-> NotClearing]
  /\ departed = {}
  /\ clearedUpTo = 0

AssignSeq ==
  /\ counter < MaxSeq
  /\ counter' = counter + 1
  /\ \E t \in Traces \cup {NoTrace} : traceOf' = Append(traceOf, t)
  /\ UNCHANGED <<ring, admitFrom, received, stored, clearing, departed,
                 clearedUpTo>>

(* merge_locked, with its early return when every record is refused. *)
MergeLocked(batch) ==
  /\ received' = received + Len(Fresh(batch))
  /\ stored' = stored + Len(Admitted(batch))
  /\ ring' = IF Admitted(batch) = <<>> THEN ring ELSE MergeRing(Admitted(batch))
  /\ Depart(Seqs(Admitted(batch)))

NotNewer(s) == ring.entries # <<>> /\ s <= Last(ring.entries)

(* append, a record newer than everything held. *)
AppendNewest(s) ==
  /\ ~NotNewer(s)
  /\ received < MaxReceived
  /\ received' = received + 1
  /\ IF s < RefuseBelow
       THEN UNCHANGED <<ring, stored, departed>>
       ELSE /\ ring' = PushRing(s)
            /\ stored' = stored + 1
            /\ Depart({s})
  /\ UNCHANGED <<counter, traceOf, admitFrom, clearing, clearedUpTo>>

(* append, a record not newer than the newest held: the merge. *)
AppendOlder(s) ==
  /\ NotNewer(s)
  /\ received + Len(Fresh(<<s>>)) <= MaxReceived
  /\ MergeLocked(<<s>>)
  /\ UNCHANGED <<counter, traceOf, admitFrom, clearing, clearedUpTo>>

(* insert_sorted: any order, duplicates included. *)
InsertSorted(batch) ==
  /\ received + Len(Fresh(batch)) <= MaxReceived
  /\ MergeLocked(batch)
  /\ UNCHANGED <<counter, traceOf, admitFrom, clearing, clearedUpTo>>

ClearBegin(c) ==
  /\ clearing[c] = NotClearing
  /\ clearing' = [clearing EXCEPT ![c] = counter]
  /\ UNCHANGED <<counter, traceOf, ring, admitFrom, received, stored,
                 departed, clearedUpTo>>

(* clear_through, under the write lock. *)
ClearEnd(c) ==
  /\ clearing[c] # NotClearing
  /\ ring' = ClearedRing
  /\ admitFrom' = Larger(admitFrom, clearing[c] + 1)
  /\ Depart({})
  /\ clearedUpTo' = Larger(clearedUpTo, clearing[c])
  /\ clearing' = [clearing EXCEPT ![c] = NotClearing]
  /\ UNCHANGED <<counter, traceOf, received, stored>>

Next ==
  \/ AssignSeq
  \/ \E s \in 1..counter : AppendNewest(s)
  \/ \E s \in 1..counter : AppendOlder(s)
  \/ \E n \in 1..MaxBatch : \E batch \in [1..n -> 1..counter] :
       InsertSorted(batch)
  \/ \E c \in Clients : ClearBegin(c)
  \/ \E c \in Clients : ClearEnd(c)

Spec == Init /\ [][Next]_vars
-----------------------------------------------------------------------------
(* The order every reader's binary search relies on: strictly ascending.  *)
RingAscending ==
  \A i \in 1..Len(ring.entries) - 1 : ring.entries[i] < ring.entries[i + 1]

(* The trace lists name exactly the held records of each trace, ascending *)
(* and never empty, after any mixture of merges, evictions and clears     *)
(* (logs_by_trace_id answers from them alone).                            *)
TraceIndexExact ==
  /\ DOMAIN ring.traceIndex
       = {traceOf[s] : s \in Seqs(ring.entries)} \ {NoTrace}
  /\ \A t \in DOMAIN ring.traceIndex :
       ring.traceIndex[t] = OfTrace(ring.entries, t)

(* The two late maps are each other's inverse and name only held records  *)
(* (late_maps_are_consistent, which the code compiles into tests only).   *)
LateMapsConsistent ==
  /\ Seqs(ring.late) = DOMAIN ring.lateBySeq
  /\ \A n \in DOMAIN ring.late :
       /\ ring.lateBySeq[ring.late[n]] = n
       /\ ring.late[n] \in Seqs(ring.entries)
       /\ n <= ring.lateCounter

(* The set-level store this ring implements. *)
Store == INSTANCE LogStore WITH
           held <- Seqs(ring.entries), lostBelow <- ring.lostBelow,
           lateNo <- ring.lateBySeq, lateCounter <- ring.lateCounter
=============================================================================
