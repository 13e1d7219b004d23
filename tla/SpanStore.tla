------------------------------ MODULE SpanStore ------------------------------
(***************************************************************************)
(* The ring of spans of one domain (span/store.rs): the spans in the order *)
(* of their numbers, the numbers of each trace, and lost_below, the lowest *)
(* number the ring can still speak for.                                    *)
(*                                                                         *)
(* One counter numbers the domain's logs and spans, so most numbers the    *)
(* ring has never seen belonged to a log: lost_below, and not the oldest   *)
(* span, is what separates "was here and left" from "never was a span".    *)
(* An insertion takes its number and is pushed in one critical section.    *)
(***************************************************************************)
EXTENDS Integers, Sequences, FiniteSets, SequencesExt

CONSTANTS
  Traces,         \* trace ids
  SpanCapacity,   \* capacity of the ring
  MaxNumber       \* bound: numbers handed out

ASSUME SpanCapacityAssumption == SpanCapacity \in Nat

(* A span as a client sends it, and as the ring holds it. *)
SentSpans == [seq : {0}, trace : Traces, root : BOOLEAN, start : Nat, error : BOOLEAN]
Spans == [seq : Nat, trace : Traces, root : BOOLEAN, start : Nat, error : BOOLEAN]

VARIABLES
  buffer,       \* the held spans, ascending
  traceIndex,   \* trace id -> the numbers of its held spans
  lostBelow,
  number,       \* the domain's SeqCounter
  stored        \* history: every span ever inserted

spanVars == <<buffer, traceIndex, lostBelow, number, stored>>

NoIndex == [t \in {} |-> {}]
Larger(a, b) == IF a >= b THEN a ELSE b

SpanInit ==
  /\ buffer = <<>>
  /\ traceIndex = NoIndex
  /\ lostBelow = 0
  /\ number = 0
  /\ stored = {}
-----------------------------------------------------------------------------
(* Mutant of Forget: a trace's numbers are not taken out of the index. *)
ForgetNothing(index, s) == index

(* The evicted span leaves its trace, and an emptied trace the index. *)
Forget(index, s) ==
  LET rest == index[s.trace] \ {s.seq}
  IN  [t \in IF rest = {} THEN DOMAIN index \ {s.trace} ELSE DOMAIN index |->
         IF t = s.trace THEN rest ELSE index[t]]

Index(index, s) ==
  [t \in DOMAIN index \cup {s.trace} |->
     IF t # s.trace THEN index[t]
     ELSE IF t \in DOMAIN index THEN index[t] \cup {s.seq} ELSE {s.seq}]

(* insert: a ring of no capacity stores and evicts at once. *)
Insert(span) ==
  LET s     == [span EXCEPT !.seq = number + 1]
      full  == Len(buffer) >= SpanCapacity
      lost  == IF SpanCapacity = 0 THEN s ELSE buffer[1]
      index == IF full THEN Forget(traceIndex, lost) ELSE traceIndex
  IN  /\ number' = number + 1
      /\ stored' = stored \cup {s}
      /\ lostBelow' = IF full THEN Larger(lostBelow, lost.seq + 1) ELSE lostBelow
      /\ IF SpanCapacity = 0
           THEN UNCHANGED <<buffer, traceIndex>>
           ELSE /\ buffer' = Append(IF full THEN Tail(buffer) ELSE buffer, s)
                /\ traceIndex' = Index(index, s)

(* A log of the domain takes a number. *)
NumberLog ==
  /\ number < MaxNumber
  /\ number' = number + 1
  /\ UNCHANGED <<buffer, traceIndex, lostBelow, stored>>

(* Mutant of RaiseOnClear: the floor is left where it was. *)
RaiseOnClear0 == lostBelow

(* A clear loses spans exactly as an eviction does. *)
RaiseOnClear ==
  IF buffer = <<>> THEN lostBelow ELSE Larger(lostBelow, Last(buffer).seq + 1)

(* clear *)
ClearSpans ==
  /\ lostBelow' = RaiseOnClear
  /\ buffer' = <<>>
  /\ traceIndex' = NoIndex
  /\ UNCHANGED <<number, stored>>
-----------------------------------------------------------------------------
(* Queries, each under one read lock. *)

(* partition_point over the ring, which is in order. *)
Below(n) == Cardinality({i \in DOMAIN buffer : buffer[i].seq < n})

(* range_with_floor *)
RangeWithFloor(from, to) ==
  [spans |-> SubSeq(buffer, Below(from) + 1, Larger(Below(to + 1), Below(from))),
   floor |-> lostBelow]

(* position: binary search in the ring. *)
Position(n) == CHOOSE i \in DOMAIN buffer : buffer[i].seq = n

(* The members of a set in the order of a relation. *)
InOrder(S, R) ==
  CHOOSE q \in [1..Cardinality(S) -> S] :
    \A i, j \in 1..Cardinality(S) : i < j => <<q[i], q[j]>> \in R

(* trace_spans: the trace's held spans by start time, ties in seq order. *)
TraceSpans(t) ==
  IF t \notin DOMAIN traceIndex THEN <<>>
  ELSE LET held == {n \in traceIndex[t] : \E i \in DOMAIN buffer : buffer[i].seq = n}
           spans == {buffer[Position(n)] : n \in held}
       IN  InOrder(spans, {p \in spans \X spans :
                             \/ p[1].start < p[2].start
                             \/ p[1].start = p[2].start /\ p[1].seq < p[2].seq})

(* A summary of the trace: of its root span, or of its earliest one. *)
TraceSummary(t) ==
  LET spans == TraceSpans(t)
      roots == {i \in DOMAIN spans : spans[i].root}
  IN  [trace |-> t,
       rooted |-> roots # {},
       start |-> spans[IF roots # {} THEN Min(roots) ELSE 1].start,
       count |-> Len(spans),
       errors |-> \E i \in DOMAIN spans : spans[i].error]

(* recent_traces, of the held spans a filter selects: newest span first. *)
RecentTraces(count, matching) ==
  LET traces  == {s.trace : s \in matching}
      newest  == [t \in traces |-> Max({s.seq : s \in {m \in matching : m.trace = t}})]
      ordered == InOrder(traces, {p \in traces \X traces : newest[p[1]] > newest[p[2]]})
  IN  [i \in 1..(IF Len(ordered) <= count THEN Len(ordered) ELSE count) |->
         TraceSummary(ordered[i])]
-----------------------------------------------------------------------------
(* A range and its floor tell the whole truth about the spans of the range *)
(* (range_with_floor): each span ever stored there is handed out or is     *)
(* below the floor, never both, and the floor names no span that did not   *)
(* leave, however many numbers went to logs.                               *)
RangeTellsLoss ==
  /\ \A from \in 0..number : \A to \in from..number :
       LET r     == RangeWithFloor(from, to)
           found == ToSet(r.spans)
       IN  \A s \in stored : s.seq \in from..to => (s \in found <=> s.seq >= r.floor)
  /\ lostBelow > 0 => \E s \in stored : s.seq = lostBelow - 1

(* Every view by trace agrees with the ring (trace_index): a trace is      *)
(* listed as long as one of its spans is held, with all the held spans     *)
(* and no other, and a trace with a more recent span comes first.          *)
TraceViewsExact ==
  LET recent == RecentTraces(Len(buffer), ToSet(buffer))
      held(t) == {s \in ToSet(buffer) : s.trace = t}
  IN  /\ DOMAIN traceIndex = {t \in Traces : held(t) # {}}
      /\ {recent[i].trace : i \in DOMAIN recent} = DOMAIN traceIndex
      /\ \A t \in DOMAIN traceIndex : ToSet(TraceSpans(t)) = held(t)
      /\ \A i \in DOMAIN recent : recent[i].count = Cardinality(held(recent[i].trace))
      /\ \A i, j \in DOMAIN recent : i < j =>
           \E s \in held(recent[i].trace) : \A o \in held(recent[j].trace) : s.seq > o.seq
=============================================================================
