------------------------------- MODULE Cases -------------------------------
(***************************************************************************)
(* Taking a case and reading one back: cases.create cuts a window around   *)
(* an anchor out of a domain's two stores while both keep ingesting and    *)
(* evicting, and states in a document how much of the window it can vouch  *)
(* for; cases.load builds a sealed domain from that document.              *)
(*                                                                         *)
(* The log store is LogStore; the spans are kept as the set of the numbers *)
(* held and their loss floor (SpanStore has the ring).  Each read of a     *)
(* store is one lock and so one action; the capture is six of them.        *)
(* A trigger's flush is Ingest's: here a log is stored or kept out by the  *)
(* filters in force when it is decided, and the epoch log observes that.   *)
(***************************************************************************)
EXTENDS LogStore, Sequences, SequencesExt, FiniteSetsExt

CONSTANTS
  SpanCap,         \* capacity of the span ring
  EpochCapacity,   \* EPOCH_CAPACITY
  MaxWindow,       \* MAX_CASE_WINDOW, and the most a capture here asks for
  Policies,        \* FilterPolicy: the sets of filter strings that may be in force
  MaxFlips         \* bound: changes of the storage policy

VARIABLES
  inFlight,     \* the number of the log being decided, 0 when there is none
  spans,        \* the numbers of the spans held
  spanFloor,    \* the span ring's lost_below
  policy,       \* the filters of the sessions bound to the domain
  flips,        \* how often the policy changed
  epochs,       \* EpochLog: the policies and the first number decided by each
  cap,          \* the capture under way
  kept,         \* the case written, or NoCase
  everLogs,     \* history: logs ever stored
  everSpans     \* history: spans ever stored

caseVars == <<inFlight, spans, spanFloor, policy, flips, epochs, cap, kept, everLogs, everSpans>>
allVars == <<vars, caseVars>>

NoCase == [state |-> "none"]
Idle == [step |-> "idle"]
Nearest(S, n, Closer(_, _)) == {s \in S : Cardinality({t \in S : t # s /\ Closer(t, s)}) < n}
-----------------------------------------------------------------------------
(* EpochLog *)

(* observe: a decision under another policy opens an epoch, never below   *)
(* the last boundary; the first opens at the origin; the oldest are        *)
(* dropped past the capacity.                                              *)
ObservedIn(log, origin, n, filters) ==
  IF log # <<>> /\ Last(log).filters = filters THEN log
  ELSE LET at  == IF log = <<>> THEN origin ELSE Larger(n, Last(log).at)
           all == Append(log, [at |-> at, filters |-> filters])
       IN  IF Len(all) > EpochCapacity THEN Tail(all) ELSE all

(* coverage: whether the log reaches down to `from`, and the narrowed      *)
(* stretches of the range.                                                 *)
Coverage(log, from, to) ==
  LET upTo(i) == IF i < Len(log) THEN log[i + 1].at - 1 ELSE MaxSeq + 1
      hit == {i \in DOMAIN log : log[i].at <= to /\ upTo(i) >= from /\ log[i].filters # {}}
  IN  [covered |-> log # <<>> /\ from >= log[1].at,
       narrowed |-> {[from |-> Larger(log[i].at, from),
                      to |-> IF upTo(i) <= to THEN upTo(i) ELSE to,
                      filters |-> log[i].filters] : i \in hit}]

(* evidence_verdict: the strongest reason the range is not complete. *)
EvidenceVerdict(coverage, evicted, capped) ==
  CASE ~coverage.covered \/ capped -> "cannot_verify"
    [] coverage.covered /\ ~capped /\ coverage.narrowed # {} -> "filtered"
    [] coverage.covered /\ ~capped /\ coverage.narrowed = {} /\ evicted -> "evicted"
    [] OTHER -> "complete"

(* evicted_below: how many numbers of the window lie under the floor. *)
EvictedBelow(from, floor) == IF floor > from THEN floor - from ELSE 0
-----------------------------------------------------------------------------
(* The stream *)

CaptureInit ==
  /\ inFlight = 0 /\ spans = {} /\ spanFloor = 0
  /\ policy = {} /\ flips = 0 /\ epochs = <<>>
  /\ cap = Idle /\ kept = NoCase /\ everLogs = {} /\ everSpans = {}

CaseInit == Init /\ CaptureInit

(* A session of the domain adds, edits or removes a filter. *)
SetPolicy(f) ==
  /\ flips < MaxFlips /\ f # policy
  /\ policy' = f /\ flips' = flips + 1
  /\ UNCHANGED <<vars, inFlight, spans, spanFloor, epochs, cap, kept, everLogs, everSpans>>

(* The processor numbers a log ... *)
LogArrives ==
  /\ inFlight = 0
  /\ AssignSeq
  /\ inFlight' = counter + 1
  /\ UNCHANGED <<spans, spanFloor, policy, flips, epochs, cap, kept, everLogs, everSpans>>

(* ... and decides later whether the filters keep it. *)
LogDecided(matches) ==
  /\ inFlight # 0
  /\ epochs' = ObservedIn(epochs, 0, inFlight, policy)
  /\ IF policy = {} \/ matches
       THEN /\ InsertSorted({inFlight})
            /\ everLogs' = everLogs \cup ({inFlight} \cap (held' \cup departed'))
       ELSE UNCHANGED <<vars, everLogs>>
  /\ inFlight' = 0
  /\ UNCHANGED <<spans, spanFloor, policy, flips, cap, kept, everSpans>>

(* SpanStore::insert: numbered and stored under one lock, no filter asked. *)
SpanArrives ==
  /\ AssignSeq
  /\ LET all  == spans \cup {counter + 1}
         gone == IF Cardinality(all) > SpanCap THEN {Min(all)} ELSE {}
     IN  /\ spans' = all \ gone
         /\ spanFloor' = RaisePast(spanFloor, gone)
  /\ everSpans' = everSpans \cup {counter + 1}
  /\ UNCHANGED <<inFlight, policy, flips, epochs, cap, kept, everLogs>>
-----------------------------------------------------------------------------
(* cases.create *)

(* resolve_case_anchor: a stored log, named by its number, as the first    *)
(* one after a bookmark, or as the earliest of a trace.                    *)
Anchors ==
  held \cup {Min({h \in held : h > mark}) : mark \in {m \in 0..counter : \E h \in held : h > m}}

(* window_count *)
Clamped(n) == IF n > MaxWindow THEN MaxWindow ELSE n

(* The request, and its anchor. *)
CaptureBegins(anchor, before, after) ==
  /\ cap.step = "idle" /\ kept = NoCase
  /\ cap' = [step |-> "cut_logs", anchor |-> anchor,
             before |-> Clamped(before), after |-> Clamped(after),
             clamped |-> before > MaxWindow \/ after > MaxWindow]
  /\ UNCHANGED <<vars, inFlight, spans, spanFloor, policy, flips, epochs, kept, everLogs, everSpans>>

CaptureStep(next) ==
  /\ cap' = next
  /\ UNCHANGED <<vars, inFlight, spans, spanFloor, policy, flips, epochs, kept, everLogs, everSpans>>

(* context_by_seq: the anchor's neighbours in the log ring, none when it   *)
(* was evicted meanwhile.                                                  *)
ContextBySeq(anchor, before, after) ==
  IF anchor \notin held THEN {}
  ELSE {anchor} \cup Nearest({h \in held : h < anchor}, before, LAMBDA a, b : a > b)
                \cup Nearest({h \in held : h > anchor}, after, LAMBDA a, b : a < b)

CutLogs ==
  /\ cap.step = "cut_logs"
  /\ LET ctx == ContextBySeq(cap.anchor, cap.before, cap.after)
     IN  CaptureStep(IF ctx = {} THEN Idle ELSE [step |-> "cut_spans", ctx |-> ctx] @@ cap)

(* The window: the nearest records of both stores on either side. *)
CutSpans ==
  /\ cap.step = "cut_spans"
  /\ LET all   == cap.ctx \cup spans
         below == Nearest({s \in all : s < cap.anchor}, cap.before, LAMBDA a, b : a > b)
         above == Nearest({s \in all : s > cap.anchor}, cap.after, LAMBDA a, b : a < b)
     IN  CaptureStep([step |-> "read_logs",
                      from |-> Min(below \cup {cap.anchor}), to |-> Max(above \cup {cap.anchor}),
                      shortBefore |-> cap.before - Cardinality(below),
                      shortAfter |-> cap.after - Cardinality(above),
                      older |-> {s \in everLogs \cup everSpans : s < cap.anchor}] @@ cap)

(* logs_in_range_with_floor: the records and the floor under one lock. *)
ReadLogs ==
  /\ cap.step = "read_logs"
  /\ LET logs == held \cap cap.from..cap.to
     IN  CaptureStep(IF cap.anchor \notin logs THEN Idle
                     ELSE [step |-> "read_spans", logs |-> logs, logFloor |-> lostBelow,
                           logsThen |-> everLogs] @@ cap)

(* range_with_floor of the spans. *)
ReadSpans ==
  /\ cap.step = "read_spans"
  /\ CaptureStep([step |-> "grade", spans |-> spans \cap cap.from..cap.to,
                  spanFloor |-> spanFloor, spansThen |-> everSpans] @@ cap)

(* The span loss of the window: the floor bounded by the window's end, and *)
(* the numbers held logs occupy taken out.                                 *)
SpansGone(c) ==
  LET end == IF c.spanFloor <= c.to THEN c.spanFloor ELSE c.to + 1
      gap == EvictedBelow(c.from, end) - Cardinality({s \in c.logs : s < end})
  IN  IF gap > 0 THEN gap ELSE 0

(* Mutant of LogsEvicted: only a shortfall counts as eviction. *)
LogsEvictedWhenShort(c) == c.shortBefore > 0 /\ c.logFloor > 0

(* Whether logs the capture asked for are gone: under a shortfall, or from *)
(* inside the window when spans reach further back than the logs.          *)
LogsEvicted(c) ==
  (c.shortBefore > 0 /\ c.logFloor > 0) \/ EvictedBelow(c.from, c.logFloor) > 0

(* The verdict, and the case is written. *)
Grade ==
  /\ cap.step = "grade"
  /\ LET coverage == Coverage(epochs, cap.from, cap.to)
     IN  kept' = [state |-> "written",
                  verdict |-> EvidenceVerdict(coverage, LogsEvicted(cap), FALSE),
                  narrowedBy |-> coverage.narrowed,
                  logGap |-> EvictedBelow(cap.from, cap.logFloor),
                  spanGap |-> SpansGone(cap)] @@ cap
  /\ cap' = Idle
  /\ UNCHANGED <<vars, inFlight, spans, spanFloor, policy, flips, epochs, everLogs, everSpans>>
-----------------------------------------------------------------------------
(* The document: the sentences of its evidence section and the items of    *)
(* its "what to do next".                                                  *)

(* evidence *)
Sentences(d) ==
  {d.verdict}
  \cup (IF d.shortBefore = 0 THEN {}
        ELSE {IF d.logFloor > 0 THEN "logs_gone_below"
              ELSE IF d.spanFloor > 0 THEN "spans_gone_below" ELSE "empty_past"})
  \cup (IF d.logGap > 0 /\ d.verdict # "evicted" THEN {"logs_gone_inside"} ELSE {})
  \cup (IF d.shortAfter > 0 THEN {"not_happened_yet"} ELSE {})
  \cup (IF d.clamped THEN {"clamped"} ELSE {})
  \cup {IF d.spanGap > 0 THEN "spans_gone_inside" ELSE "all_spans"}

(* what_to_do, without the items on provenance keys and collectors. *)
Todo(d) ==
  ({d.verdict} \ {"complete"})
  \cup (IF d.logGap > 0 /\ d.verdict # "evicted" THEN {"logs_inside"} ELSE {})
  \cup (IF d.shortBefore > 0 /\ d.logFloor > 0 THEN {"logs_below"}
        ELSE IF d.clamped /\ d.logGap = 0 THEN {"maximum"} ELSE {})
  \cup (IF d.spanGap > 0 \/ (d.shortBefore > 0 /\ d.spanFloor > 0) THEN {"spans"} ELSE {})
-----------------------------------------------------------------------------
(* cases.load: assemble_case_domain *)

(* Mutant of Narrowing: a stretch is opened and not closed. *)
NarrowingOpen(d) ==
  SetToSortSeq({[at |-> n.from, filters |-> n.filters] : n \in d.narrowedBy},
               LAMBDA a, b : a.at < b.at)

(* Each stretch opens with its filters and closes one past its end; a      *)
(* stable sort, so a stretch that closes where the next opens closes first. *)
Narrowing(d) ==
  SetToSortSeq({[at |-> n.from, filters |-> n.filters] : n \in d.narrowedBy}
                 \cup {[at |-> n.to + 1, filters |-> {}] : n \in d.narrowedBy},
               LAMBDA a, b : a.at < b.at \/ (a.at = b.at /\ a.filters = {} /\ b.filters # {}))

(* from_records: an unfiltered epoch from one below the window, then the   *)
(* transitions; the counter at the top, the floor at the bottom.           *)
Loaded(d) ==
  [epochs |-> FoldLeft(LAMBDA log, t : ObservedIn(log, d.from - 1, t.at, t.filters),
                       ObservedIn(<<>>, d.from - 1, d.from - 1, {}), Narrowing(d)),
   logs |-> d.logs, spans |-> d.spans, counter |-> d.to, floor |-> d.from]
-----------------------------------------------------------------------------
CaseNext ==
  \/ \E f \in Policies : SetPolicy(f)
  \/ LogArrives
  \/ \E matches \in BOOLEAN : LogDecided(matches)
  \/ SpanArrives
  \/ \E anchor \in Anchors, before, after \in 0..(MaxWindow + 1) :
       CaptureBegins(anchor, before, after)
  \/ CutLogs
  \/ CutSpans
  \/ ReadLogs
  \/ ReadSpans
  \/ Grade

CaseSpec == CaseInit /\ [][CaseNext]_allVars
-----------------------------------------------------------------------------
(* The document never claims more than the files hold, whatever arrived    *)
(* and left between the reads of the capture (handle_cases_create): unless *)
(* it says logs are gone, every log stored in the window is in the file;   *)
(* if it says it has all spans, it has; if it calls the past empty, no     *)
(* record was ever stored below the window; and when nothing is said to    *)
(* limit the capture, nothing does.                                        *)
CaseTellsTheLoss ==
  kept # NoCase =>
    LET window    == kept.from..kept.to
        allLogs   == kept.logsThen \cap window \subseteq kept.logs
        allSpans  == kept.spansThen \cap window \subseteq kept.spans
        said      == Sentences(kept)
    IN  /\ "complete" \in said => allLogs
        /\ said \cap {"evicted", "logs_gone_inside", "cannot_verify"} = {} => allLogs
        /\ "all_spans" \in said => allSpans
        /\ "empty_past" \in said => \A s \in kept.older : s >= kept.from
        /\ Todo(kept) = {} =>
             /\ kept.verdict = "complete" /\ allLogs /\ allSpans
             /\ kept.shortBefore > 0 => \A s \in kept.older : s >= kept.from

(* A loaded case narrows exactly the numbers its document says, by the     *)
(* same filters, and vouches for all of its window (assemble_case_domain). *)
LoadedNarrowsAlike ==
  kept # NoCase /\ 2 * Cardinality(kept.narrowedBy) < EpochCapacity =>
    LET domain == Loaded(kept)
    IN  \A s \in kept.from..kept.to :
          LET c == Coverage(domain.epochs, s, s)
          IN  /\ c.covered
              /\ {n.filters : n \in c.narrowed} =
                   {n.filters : n \in {m \in kept.narrowedBy : s \in m.from..m.to}}
=============================================================================
