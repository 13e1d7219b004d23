------------------------------ MODULE Measure ------------------------------
(***************************************************************************)
(* What one collector measures: the exact tier (totals, per span name, per *)
(* group tuple), the capped sample tier and the rolling threshold, all fed *)
(* by Collector::ingest and zeroed together by Collector::swap.            *)
(*                                                                         *)
(* A collector is pinned to one domain, whose single span processor feeds  *)
(* it under the registry's read lock; swap and with_def run under the      *)
(* write lock, so each is one step here.  Milliseconds and nanoseconds are *)
(* small naturals; a ratio is kept as a pair <<numerator, denominator>>,   *)
(* so that no rounding enters the comparison with the limit.               *)
(***************************************************************************)
EXTENDS Integers, Sequences, FiniteSets, SequencesExt, FiniteSetsExt, Functions

CONSTANTS
    Spans,          \* the spans that may match: [name, attrs, start, end, err]
    MDefs,          \* the definitions that may be armed: [level, trip]; level
                    \* "scalar" keeps no sample, "timing" and "tree" do
    NKeys,          \* how many group keys the definition has
    NameCap, ValueCap, TupleCap,
    ChunkRecords, MaxChunks,
    Buckets,        \* the ring's length, 16 in the code
    SketchMax,      \* the longest duration the sketch keeps in range
    Bad,            \* the timestamp classify does not trust (the Unix epoch)
    Nothing,        \* None
    Absent,         \* an attribute that is missing or has no rendered form
    MaxTime         \* bound: the clock stops here, and so does the run

VARIABLES
    level,   \* the definition's level
    trip,    \* the definition's threshold
    win,     \* Inner: what the lock protects
    th,      \* ThresholdState: atomics outside the lock
    now,     \* the daemon's clock
    seen,    \* history: the spans of the window and when each was ingested
    lost     \* history: when the last span of an earlier window was ingested

mvars == <<level, trip, win, th, now, seen, lost>>

-----------------------------------------------------------------------------
(* The exact tier.                                                         *)

Malformed == [kind |-> "malformed"]
Negative == [kind |-> "negative"]

\* Either end untrusted, or the end before the start, cannot be summed.
Classify(s) ==
    IF Bad \in {s.start, s.end} THEN Malformed
    ELSE IF s.end < s.start THEN Negative
    ELSE [kind |-> "ok", ns |-> s.end - s.start]

Zeroed == [count |-> 0, total |-> 0, min |-> Nothing, max |-> Nothing,
           errors |-> 0, negative |-> 0, malformed |-> 0, out |-> 0]

One(b) == IF b THEN 1 ELSE 0
Least(a, b) == IF a = Nothing THEN b ELSE IF b = Nothing THEN a
               ELSE IF a < b THEN a ELSE b
Greatest(a, b) == IF a = Nothing THEN b ELSE IF b = Nothing THEN a
                  ELSE IF a > b THEN a ELSE b

Record(st, d, err) ==
    LET ok == d.kind = "ok" IN
    [count |-> st.count + 1,
     total |-> st.total + (IF ok THEN d.ns ELSE 0),
     min |-> IF ok THEN Least(st.min, d.ns) ELSE st.min,
     max |-> IF ok THEN Greatest(st.max, d.ns) ELSE st.max,
     errors |-> st.errors + One(err),
     negative |-> st.negative + One(d = Negative),
     malformed |-> st.malformed + One(d = Malformed),
     out |-> st.out + One(ok /\ d.ns > SketchMax)]

WellFormedCount(st) == st.count - st.negative - st.malformed

\* ExactStats::merge between two sketches of one layout.
Merge(a, b) ==
    [count |-> a.count + b.count, total |-> a.total + b.total,
     min |-> Least(a.min, b.min), max |-> Greatest(a.max, b.max),
     errors |-> a.errors + b.errors, negative |-> a.negative + b.negative,
     malformed |-> a.malformed + b.malformed, out |-> a.out + b.out]

\* The row of a key, made when the key is first recorded.
RecordAt(rows, k, d, err) ==
    LET row == IF k \in DOMAIN rows THEN rows[k] ELSE Zeroed
    IN  [x \in DOMAIN rows \cup {k} |->
            IF x = k THEN Record(row, d, err) ELSE rows[x]]

-----------------------------------------------------------------------------
(* Interning: values take ids in arrival order until the cap, after which  *)
(* a new one shares the overflow id.                                       *)

OVERFLOW_ID == 0
ABSENT_ID == 1
FIRST_REAL_ID == 2

NewInterner(cap) == [values |-> <<>>, cap |-> cap, capped |-> FALSE]

Known(t, v) == v \in Range(t.values)
IdOf(t, v) ==
    FIRST_REAL_ID + (CHOOSE i \in DOMAIN t.values : t.values[i] = v) - 1

Intern(t, v) ==
    IF Known(t, v) THEN t
    ELSE IF Len(t.values) >= t.cap THEN [t EXCEPT !.capped = TRUE]
    ELSE [t EXCEPT !.values = Append(@, v)]

\* Mutant: past the cap a value takes the last id handed out.
InternedLast(t, v) ==
    IF Known(t, v) THEN IdOf(t, v) ELSE FIRST_REAL_ID + Len(t.values) - 1

Interned(t, v) == IF Known(t, v) THEN IdOf(t, v) ELSE OVERFLOW_ID

\* What a row of the answer is called.
Resolve(t, id) ==
    IF id = OVERFLOW_ID THEN "__overflow__"
    ELSE IF id = ABSENT_ID THEN "__absent__"
    ELSE IF id - FIRST_REAL_ID < Len(t.values) THEN t.values[id - FIRST_REAL_ID + 1]
    ELSE "__overflow__"

-----------------------------------------------------------------------------
(* The sample tier: chunks, the last of them open.                         *)

NewTier == [sealed |-> <<>>, active |-> <<>>, complete |-> TRUE]

Push(t, r) ==
    IF level = "scalar" THEN t
    ELSE IF Len(t.active) < ChunkRecords THEN [t EXCEPT !.active = Append(@, r)]
    ELSE IF Len(t.sealed) + 1 >= MaxChunks THEN [t EXCEPT !.complete = FALSE]
    ELSE [sealed |-> Append(t.sealed, t.active), active |-> <<r>>,
          complete |-> t.complete]

\* SampleSnapshot::records: every retained record, oldest first.
Records(t) == FlattenSeq(t.sealed) \o t.active

-----------------------------------------------------------------------------
(* The rolling threshold.                                                  *)

BucketMs == (trip.window + Buckets - 1) \div Buckets

EmptyBucket == [epoch |-> 0, count |-> 0, ok |-> 0, total |-> 0, errors |-> 0]

NewThreshold == [ring |-> [i \in 0 .. Buckets - 1 |-> EmptyBucket], head |-> 0,
                 breached |-> FALSE, since |-> 0, fires |-> 0, verdict |-> Nothing]

\* The value a metric reads from one window, as a ratio, or Nothing when it
\* is an average over no span.
Metric(w) ==
    CASE trip.metric = "count" -> <<w.count, 1>>
      [] trip.metric = "total_ms" -> <<w.total, 1>>
      [] trip.metric = "error_count" -> <<w.errors, 1>>
      [] trip.metric = "avg_ms" -> IF w.ok > 0 THEN <<w.total, w.ok>> ELSE Nothing
      [] trip.metric = "error_rate_pct" ->
            IF w.count > 0 THEN <<100 * w.errors, w.count>> ELSE Nothing

Holds(v) == IF trip.op = "gt" THEN v[1] > trip.value * v[2]
            ELSE v[1] < trip.value * v[2]

SumOver(B, f(_)) == FoldSet(LAMBDA b, acc : acc + f(b), 0, B)

\* Sum the buckets of the window that ends at `head`.
Evaluate(t, head) ==
    LET live == {i \in DOMAIN t.ring : /\ t.ring[i].epoch >= head - (Buckets - 1)
                                       /\ t.ring[i].epoch <= head}
        w == [count |-> SumOver(live, LAMBDA i : t.ring[i].count),
              ok |-> SumOver(live, LAMBDA i : t.ring[i].ok),
              total |-> SumOver(live, LAMBDA i : t.ring[i].total),
              errors |-> SumOver(live, LAMBDA i : t.ring[i].errors)]
        v == Metric(w)
        b == Holds(v)
        rises == b /\ ~t.breached
    IN  IF v = Nothing THEN t
        ELSE [t EXCEPT !.verdict = [value |-> v, breached |-> b],
                       !.breached = b,
                       !.fires = @ + One(rises),
                       !.since = IF rises THEN head ELSE @]

EpochOf(start) == (IF start < 0 THEN 0 ELSE start) \div BucketMs

\* Mutant: a span as old as the window is folded into the slot that a newer
\* epoch owns.
StaleOffByOne(epoch, head) == epoch + Buckets < head

Stale(epoch, head) == epoch + Buckets <= head

RecordThreshold(t, s, d, group) ==
    LET epoch == EpochOf(s.start)
        head == IF epoch > t.head THEN epoch ELSE t.head
        slot == epoch % Buckets
        had == IF t.ring[slot].epoch = epoch THEN t.ring[slot]
               ELSE [EmptyBucket EXCEPT !.epoch = epoch]
        now_has == [epoch |-> epoch, count |-> had.count + 1,
                    ok |-> had.ok + One(d.kind = "ok"),
                    total |-> had.total + (IF d.kind = "ok" THEN d.ns ELSE 0),
                    errors |-> had.errors + One(s.err)]
    IN  IF trip.group # Nothing /\ group # trip.group THEN t
        ELSE IF Stale(epoch, head) THEN [t EXCEPT !.head = head]
        ELSE Evaluate([t EXCEPT !.head = head, !.ring[slot] = now_has], head)

-----------------------------------------------------------------------------
(* The collector.                                                          *)

NewInner(at) ==
    [total |-> Zeroed, perName |-> <<>>, perGroup |-> <<>>,
     names |-> NewInterner(NameCap),
     values |-> [k \in 1 .. NKeys |-> NewInterner(ValueCap)],
     samples |-> NewTier, armed |-> at, zeroed |-> Nothing,
     tuplesCapped |-> FALSE]

MInit ==
    /\ \E def \in MDefs : level = def.level /\ trip = def.trip
    /\ now = 0
    /\ win = NewInner(0)
    /\ th = NewThreshold
    /\ seen = <<>>
    /\ lost = -1

\* The ids of a span's group values; a missing value is never interned.
GroupIds(values, s) ==
    [k \in 1 .. NKeys |->
        IF s.attrs[k] = Absent THEN ABSENT_ID ELSE Interned(values[k], s.attrs[k])]

Overflowed == [k \in 1 .. NKeys |-> OVERFLOW_ID]

Ingest(s) ==
    LET d == Classify(s)
        names == Intern(win.names, s.name)
        id == Interned(names, s.name)
        values == [k \in 1 .. NKeys |->
                      IF s.attrs[k] = Absent THEN win.values[k]
                      ELSE Intern(win.values[k], s.attrs[k])]
        asked == GroupIds(values, s)
        full == /\ NKeys > 0
                /\ asked \notin DOMAIN win.perGroup
                /\ Cardinality(DOMAIN win.perGroup) >= TupleCap
        tuple == IF full THEN Overflowed ELSE asked
        rec == [start |-> s.start, end |-> s.end, name |-> id, group |-> tuple]
        first == IF NKeys > 0 /\ s.attrs[1] # Absent THEN s.attrs[1] ELSE Nothing
    IN  /\ now < MaxTime
        /\ now' = now + 1
        /\ win' = [win EXCEPT
             !.total = Record(@, d, s.err),
             !.names = names,
             !.perName = RecordAt(@, id, d, s.err),
             !.values = values,
             !.tuplesCapped = @ \/ full,
             !.perGroup = IF NKeys = 0 THEN @ ELSE RecordAt(@, tuple, d, s.err),
             !.samples = IF d.kind = "ok" THEN Push(@, rec) ELSE @]
        /\ th' = RecordThreshold(th, s, d, first)
        /\ seen' = Append(seen, [span |-> s, at |-> now])
        /\ UNCHANGED <<level, trip, lost>>

Forgotten ==
    /\ lost' = IF seen = <<>> THEN lost ELSE Last(seen).at
    /\ seen' = <<>>

Clear(t) == NewThreshold

\* Collector::swap, taken by reset and by snapshot with reset.
Swap ==
    /\ now < MaxTime
    /\ now' = now + 1
    /\ th' = Clear(th)
    /\ win' = [NewInner(win.armed) EXCEPT !.zeroed = now]
    /\ Forgotten
    /\ UNCHANGED <<level, trip>>

\* Mutant: the sample tier of a renamed collector starts empty.
CarriedFresh(w) == [w EXCEPT !.samples = NewTier]

\* with_def's copy: every structure of the old window.
Carried(w) ==
    [NewInner(w.armed) EXCEPT
        !.total = w.total, !.perName = w.perName, !.perGroup = w.perGroup,
        !.names = w.names, !.values = w.values, !.samples = w.samples,
        !.zeroed = w.zeroed, !.tuplesCapped = w.tuplesCapped]

\* An edit of the description alone: the same data and the same ring.
Redescribe ==
    /\ now < MaxTime
    /\ now' = now + 1
    /\ win' = Carried(win)
    /\ UNCHANGED <<level, trip, th, seen, lost>>

\* Collector::new_restored: the window did not survive, the arming did.
RestoredInner(armed, at) == [NewInner(armed) EXCEPT !.zeroed = at]

Restart ==
    /\ now < MaxTime
    /\ now' = now + 1
    /\ win' = RestoredInner(win.armed, now)
    /\ th' = NewThreshold
    /\ Forgotten
    /\ UNCHANGED <<level, trip>>

MNext ==
    \/ \E s \in Spans : Ingest(s)
    \/ Swap
    \/ Redescribe
    \/ Restart

MSpec == MInit /\ [][MNext]_mvars

-----------------------------------------------------------------------------
(* What the answers may be read as.                                        *)

WindowStart ==
    IF win.zeroed # Nothing /\ win.zeroed > win.armed THEN win.zeroed ELSE win.armed

\* The statistics of a set of ingested spans, by their definition.
StatsOf(I) ==
    LET d(i) == Classify(seen[i].span)
        ok == {i \in I : d(i).kind = "ok"}
        ns == {d(i).ns : i \in ok}
    IN  [count |-> Cardinality(I),
         total |-> SumOver(ok, LAMBDA i : d(i).ns),
         min |-> IF ok = {} THEN Nothing ELSE Min(ns),
         max |-> IF ok = {} THEN Nothing ELSE Max(ns),
         errors |-> Cardinality({i \in I : seen[i].span.err}),
         negative |-> Cardinality({i \in I : d(i) = Negative}),
         malformed |-> Cardinality({i \in I : d(i) = Malformed}),
         out |-> Cardinality({i \in ok : d(i).ns > SketchMax})]

Folded(rows) ==
    FoldSet(LAMBDA k, acc : Merge(acc, rows[k]), Zeroed, DOMAIN rows)

\* The three tiers account for the same spans: the rows by name and the rows
\* by group each merge back to the total, which is what the spans ingested
\* since the window's start make it, and the sample holds their well-formed
\* ones in order, all of them exactly when it says complete, and never more
\* chunks than the budget affords.  The window starts after every span it no
\* longer holds (state.rs:110, 218, exact.rs:173, sample.rs:265).
TiersReconcile ==
    LET ok == SelectSeq(seen, LAMBDA x : Classify(x.span).kind = "ok")
        kept == Records(win.samples)
    IN  /\ win.total = StatsOf(DOMAIN seen)
        /\ Folded(win.perName) = win.total
        /\ NKeys > 0 => Folded(win.perGroup) = win.total
        /\ Len(win.samples.sealed) + 1 <= MaxChunks
        /\ level # "scalar" =>
             /\ [i \in DOMAIN kept |-> kept[i].start]
                  = [i \in DOMAIN kept |-> ok[i].span.start]
             /\ win.samples.complete <=> Len(kept) = WellFormedCount(win.total)
        /\ \A i \in DOMAIN seen : seen[i].at >= WindowStart
        /\ lost < WindowStart

\* A row that carries a value's own name holds exactly that value's spans,
\* whatever the caps folded away meanwhile, and when nothing says capped no
\* span is in an overflow row (intern.rs:51, state.rs:262).
RowsExact ==
    LET capped == win.names.capped \/ win.tuplesCapped
                    \/ \E k \in 1 .. NKeys : win.values[k].capped
        valueAt(s, k) == IF s.attrs[k] = Absent THEN "__absent__" ELSE s.attrs[k]
    IN  /\ \A id \in DOMAIN win.perName \ {OVERFLOW_ID} :
             win.perName[id] = StatsOf({i \in DOMAIN seen :
                 seen[i].span.name = Resolve(win.names, id)})
        /\ \A tuple \in DOMAIN win.perGroup :
             (\A k \in 1 .. NKeys : tuple[k] # OVERFLOW_ID) =>
                win.perGroup[tuple] = StatsOf({i \in DOMAIN seen :
                    \A k \in 1 .. NKeys :
                        valueAt(seen[i].span, k) = Resolve(win.values[k], tuple[k])})
        /\ ~capped =>
             /\ OVERFLOW_ID \notin DOMAIN win.perName
             /\ \A tuple \in DOMAIN win.perGroup : OVERFLOW_ID \notin Range(tuple)

(* The threshold's verdict by its definition: at each watched span that is *)
(* not older than the window, the metric over every watched span whose     *)
(* bucket lies in the window that ends at the newest one so far.           *)

Watched(i) ==
    \/ trip.group = Nothing
    \/ NKeys > 0 /\ seen[i].span.attrs[1] = trip.group

HeadAt(i) == Max({0} \cup {EpochOf(seen[j].span.start) : j \in {k \in 1 .. i : Watched(k)}})

InWindow(i) ==
    {j \in 1 .. i : /\ Watched(j)
                    /\ EpochOf(seen[j].span.start) > HeadAt(i) - Buckets}

ValueAt(i) ==
    LET W == InWindow(i)
        st == StatsOf(W)
    IN  Metric([count |-> st.count, ok |-> WellFormedCount(st), total |-> st.total,
                errors |-> st.errors])

Judged == {i \in DOMAIN seen : i \in InWindow(i) /\ ValueAt(i) # Nothing}

\* What the threshold reports is its definition over the current window: the
\* last value, whether it breached, and how often it went from clear to
\* breached, with slots reused, spans late and the collector reset in between
\* (threshold.rs:349, 407, 487).
VerdictExact ==
    LET last == Max(Judged)
        before(i) == {j \in Judged : j < i}
        rises(i) == /\ Holds(ValueAt(i))
                    /\ before(i) = {} \/ ~Holds(ValueAt(Max(before(i))))
    IN  /\ th.verdict = IF Judged = {} THEN Nothing
                        ELSE [value |-> ValueAt(last), breached |-> Holds(ValueAt(last))]
        /\ th.fires = Cardinality({i \in Judged : rises(i)})
=============================================================================
