------------------------------ MODULE Compare ------------------------------
(***************************************************************************)
(* Recorded runs and what is read out of several of them: the history that *)
(* keeps them (history.rs), the arms built from one run or from many, the  *)
(* comparison of two arms with its refusals, marks and thresholds          *)
(* (diff.rs), and the document written over them (document.rs).            *)
(*                                                                         *)
(* A run is [filter, spelling, level, keys, total, perName, nested, self,  *)
(* ingest, complete, capped, layout].  A spread is a squared ratio kept as *)
(* <<numerator, denominator>>, so thresholds compare without a square root *)
(* or a rounding.                                                          *)
(***************************************************************************)
EXTENDS Integers, Sequences, FiniteSets, SequencesExt, FiniteSetsExt, Functions

CONSTANTS
    Runs,           \* the runs that may be recorded
    Labels,         \* the labels a caller may ask for
    MaxSnapshots,   \* how many runs a history keeps, 50 in the code
    MaxTaken,       \* bound: how many are recorded in all
    TopN,           \* breakdown rows kept
    Material,       \* a count moved by more than 1/Material, 100 in the code
    Nothing,        \* None: not recorded, or not known
    Overflow        \* the label that stands for the values past a cap

VARIABLES
    kept,       \* the runs the history holds, oldest first, with their label
    nextAuto,   \* the next automatic label's number
    evicted,    \* how many runs the cap dropped
    issued      \* history: every label ever given to a recorded run

cvars == <<kept, nextAuto, evicted, issued>>

Auto(n) == <<"snapshot", n>>

CInit == kept = <<>> /\ nextAuto = 1 /\ evicted = 0 /\ issued = {}

Held == {kept[i].label : i \in DOMAIN kept}

Pushed(run) ==
    LET all == Append(kept, run)
        over == Len(all) > MaxSnapshots
    IN  /\ kept' = IF over THEN Tail(all) ELSE all
        /\ evicted' = evicted + IF over THEN 1 ELSE 0

Taken == Len(kept) + evicted

\* reserve_label(Some(l)) then push: refused while a held run has the label.
RecordAs(label, run) ==
    /\ Taken < MaxTaken
    /\ label \notin Held
    /\ Pushed([label |-> label, run |-> run])
    /\ issued' = issued \cup {label}
    /\ UNCHANGED nextAuto

\* Mutant: the number is taken from how many runs are held.
AutoNumberHeld == Len(kept) + 1

\* reserve_label(None): the next number that no held run took by hand.
AutoNumber ==
    Min({n \in nextAuto .. nextAuto + Len(kept) + 1 : Auto(n) \notin Held})

Record(run) ==
    /\ Taken < MaxTaken
    /\ Pushed([label |-> Auto(AutoNumber), run |-> run])
    /\ nextAuto' = AutoNumber + 1
    /\ issued' = issued \cup {Auto(AutoNumber)}

\* The process restarts: the file brings the counters and the runs back, the
\* runs without the breakdowns, which are not written (PersistedSnapshot).
RestoredRun(k) == [k EXCEPT !.run.perName = Nothing]

RestoreHistory ==
    /\ kept' = [i \in DOMAIN kept |-> RestoredRun(kept[i])]
    /\ UNCHANGED <<nextAuto, evicted, issued>>

CNext ==
    \/ \E r \in Runs : Record(r) \/ \E l \in Labels : RecordAs(l, r)
    \/ RestoreHistory

CSpec == CInit /\ [][CNext]_cvars

-----------------------------------------------------------------------------
(* Arms.                                                                   *)

Sum(S, f(_)) == FoldSet(LAMBDA x, acc : acc + f(x), 0, S)

AddStats(a, b) == [count |-> a.count + b.count, total |-> a.total + b.total,
                   errors |-> a.errors + b.errors, ok |-> a.ok + b.ok]
NoStats == [count |-> 0, total |-> 0, errors |-> 0, ok |-> 0]

NestingOf(run) ==
    IF run.nested = Nothing \/ run.level # 3 THEN "unknown"
    ELSE IF run.nested > 0 THEN "detected" ELSE "undetected"

\* RunToRunFloor: the squared coefficient of variation of a metric, unknown
\* for one run and for a mean of zero.
Spread(vs) ==
    LET n == Len(vs)
        s == FoldLeft(+, 0, vs)
        q == FoldLeft(LAMBDA acc, v : acc + v * v, 0, vs)
    IN  IF n < 2 \/ s = 0 THEN Nothing ELSE <<n * (n * q - s * s), (n - 1) * s * s>>

ArmOf(runs, merged) ==
    LET one == Last(runs)
        named == \A i \in DOMAIN runs : runs[i].perName # Nothing
        names == UNION {DOMAIN runs[i].perName : i \in DOMAIN runs}
        at(i, k) == IF k \in DOMAIN runs[i].perName THEN runs[i].perName[k] ELSE NoStats
        verdicts == {NestingOf(runs[i]) : i \in DOMAIN runs}
    IN  [runs |-> Len(runs), merged |-> merged,
         filter |-> one.filter, spelling |-> one.spelling, level |-> one.level,
         keys |-> one.keys, layout |-> one.layout,
         total |-> FoldLeft(LAMBDA acc, r : AddStats(acc, r.total), NoStats, runs),
         perName |-> IF ~named THEN Nothing
                     ELSE [k \in names |->
                             FoldLeft(LAMBDA acc, i : AddStats(acc, at(i, k)), NoStats,
                                      [i \in DOMAIN runs |-> i])],
         self |-> IF merged THEN Nothing ELSE one.self,
         sampled |-> ~merged /\ one.nested # Nothing,
         nesting |-> IF "detected" \in verdicts THEN "detected"
                     ELSE IF "unknown" \in verdicts THEN "unknown" ELSE "undetected",
         ingest |-> IF \E i \in DOMAIN runs : runs[i].ingest = Nothing THEN Nothing
                    ELSE FoldLeft(LAMBDA acc, r : acc + r.ingest, 0, runs),
         complete |-> \A i \in DOMAIN runs : runs[i].complete,
         capped |-> \E i \in DOMAIN runs : runs[i].capped,
         floor |-> IF merged THEN Spread([i \in DOMAIN runs |-> runs[i].total.total])
                   ELSE Nothing,
         countFloor |-> IF merged THEN Spread([i \in DOMAIN runs |-> runs[i].total.count])
                        ELSE Nothing]

\* Arm::merged refuses runs recorded under different definitions, and merge
\* one with another sketch layout.
\* Mutant: runs of one filter are merged whatever they keyed and kept.
MergeableFilter(runs) ==
    \A i \in DOMAIN runs : runs[i].filter = Last(runs).filter
                            /\ runs[i].layout = runs[1].layout

Mergeable(runs) ==
    \A i \in DOMAIN runs : /\ runs[i].filter = Last(runs).filter
                           /\ runs[i].level = Last(runs).level
                           /\ runs[i].keys = Last(runs).keys
                           /\ runs[i].layout = runs[1].layout

SingleRun(arm) == ~(arm.merged /\ arm.runs > 1)
Truncated(arm) == ~arm.complete
LostSpans(arm) == IF arm.ingest = Nothing THEN "unknown"
                  ELSE IF arm.ingest > 0 THEN "yes" ELSE "no"

-----------------------------------------------------------------------------
(* The comparison: every refusal before any arithmetic.                    *)

Refusal(a, b, allow) ==
    LET loss == {LostSpans(a), LostSpans(b)} IN
    IF a.layout # b.layout THEN "layout"
    ELSE IF a.filter # b.filter /\ "mismatch" \notin allow THEN "filter"
    ELSE IF loss = {"yes", "no"} /\ "lossy" \notin allow THEN "loss"
    ELSE IF Truncated(a) /\ Truncated(b) /\ "truncated" \notin allow THEN "truncated"
    ELSE Nothing

\* The conditions that differ; TRUE when a number is unsafe because of one.
\* A difference of spelling, or of collector, only changes how labels read.
Marks(a, b) ==
    {m \in {[kind |-> "filter", unsafe |-> TRUE, on |-> a.filter # b.filter],
            [kind |-> "spelling", unsafe |-> FALSE,
             on |-> a.filter = b.filter /\ a.spelling # b.spelling],
            [kind |-> "ingest_loss", unsafe |-> TRUE,
             on |-> {LostSpans(a), LostSpans(b)} # {"no"}],
            [kind |-> "truncated", unsafe |-> TRUE, on |-> Truncated(a) \/ Truncated(b)],
            [kind |-> "level", unsafe |-> TRUE, on |-> a.level # b.level],
            [kind |-> "group_keys", unsafe |-> TRUE, on |-> a.keys # b.keys],
            [kind |-> "cardinality", unsafe |-> TRUE, on |-> a.capped \/ b.capped],
            [kind |-> "nesting", unsafe |-> TRUE,
             on |-> {a.nesting, b.nesting} # {"undetected"}]} : m.on}

\* p <= q for two fractions of naturals, by their continued fractions.
RECURSIVE AtMost(_, _)
AtMost(p, q) ==
    LET i == p[1] \div p[2]
        j == q[1] \div q[2]
    IN  IF i # j THEN i < j
        ELSE IF p[1] % p[2] = 0 THEN TRUE
        ELSE IF q[1] % q[2] = 0 THEN FALSE
        ELSE AtMost(<<q[2], q[1] % q[2]>>, <<p[2], p[1] % p[2]>>)

\* The floor binds both arms or is unknown.
Binding(f, g) ==
    IF f = Nothing \/ g = Nothing THEN Nothing
    ELSE IF AtMost(g, f) THEN f ELSE g

Resolution == <<4, 10000>>      \* (2 alpha)^2 with alpha one per cent

Dist(x, y) == IF x > y THEN x - y ELSE y - x

\* finish(): at or below the printed threshold a delta is suppressed.
Finish(x, y, floor) ==
    [a |-> x, b |-> y, delta |-> y - x, threshold |-> floor,
     suppressed |-> /\ floor # Nothing
                    /\ \/ x + y = 0
                       \/ AtMost(<<4 * Dist(x, y) * Dist(x, y), (x + y) * (x + y)>>, floor)]

\* A row that reports two values and no difference between them.
Apart(x, y) == [a |-> x, b |-> y, delta |-> Nothing, threshold |-> Nothing,
                suppressed |-> FALSE]

ExactRow(metric, x, y, floors) ==
    Finish(x, y, IF metric \in {"count", "error_count"} THEN floors.count ELSE floors.total)

\* Mutant: the run-to-run floor is used where there is one, however small.
EstimatedRowFloor(x, y, floors) ==
    Finish(x, y, IF floors.total = Nothing THEN Resolution ELSE floors.total)

EstimatedRow(x, y, floors) ==
    Finish(x, y, IF floors.total = Nothing THEN Resolution
                 ELSE Binding(floors.total, Resolution))

\* By more than one part in Material of the larger count.
CountMoved(sa, sb) ==
    Material * Dist(sa.count, sb.count) > Max({sa.count, sb.count})

\* The whole-run averages stand in for the sketch's percentiles: both are
\* read from every well-formed span, and only the threshold differs.
MetricRows(sa, sb, floors) ==
    LET avg == /\ sa.ok > 0 /\ sb.ok > 0 IN
    [count |-> ExactRow("count", sa.count, sb.count, floors),
     total_ms |-> ExactRow("total_ms", sa.total, sb.total, floors),
     avg_ms |-> IF ~avg THEN Nothing
                ELSE IF CountMoved(sa, sb)
                THEN Apart(sa.total * sb.ok, sb.total * sa.ok)
                ELSE ExactRow("avg_ms", sa.total * sb.ok, sb.total * sa.ok, floors),
     p50_ms |-> IF ~avg THEN Nothing
                ELSE EstimatedRow(sa.total * sb.ok, sb.total * sa.ok, floors)]

\* group_rows over the axis `name`: keys of either arm, overflow rows never
\* compared, a key of one arm has no difference.
GroupRows(a, b, floors) ==
    IF a.perName = Nothing \/ b.perName = Nothing
    THEN [rows |-> Nothing, overflow |-> 0, total |-> 0]
    ELSE LET keys == (DOMAIN a.perName \cup DOMAIN b.perName) \ {Overflow}
             row(k) ==
               IF k \in DOMAIN a.perName /\ k \in DOMAIN b.perName
               THEN MetricRows(a.perName[k], b.perName[k], floors)
               ELSE IF k \in DOMAIN a.perName
               THEN [count |-> Apart(a.perName[k].count, Nothing),
                     total_ms |-> Apart(a.perName[k].total, Nothing)]
               ELSE [count |-> Apart(Nothing, b.perName[k].count),
                     total_ms |-> Apart(Nothing, b.perName[k].total)]
             move(k) == LET d == row(k).total_ms.delta
                        IN  IF d = Nothing THEN -1 ELSE Dist(d, 0)
             top == {k \in keys : Cardinality({j \in keys : move(j) > move(k)}) < TopN}
         IN  [rows |-> [k \in top |-> row(k)], total |-> Cardinality(keys),
              overflow |-> Cardinality({x \in {"a", "b"} :
                 Overflow \in DOMAIN (IF x = "a" THEN a.perName ELSE b.perName)})]

Diff(a, b, allow) ==
    LET floors == [total |-> Binding(a.floor, b.floor),
                   count |-> Binding(a.countFloor, b.countFloor)]
        marks == Marks(a, b)
    IN  IF Refusal(a, b, allow) # Nothing THEN [refused |-> Refusal(a, b, allow)]
        ELSE [refused |-> Nothing,
              level |-> Min({a.level, b.level}),
              marks |-> {m.kind : m \in marks},
              rows |-> MetricRows(a.total, b.total, floors),
              self |-> IF a.sampled /\ b.sampled /\ Min({a.level, b.level}) = 3
                          /\ a.self # Nothing /\ b.self # Nothing
                       THEN Finish(a.self, b.self, floors.total) ELSE Nothing,
              totalTrusted |-> {a.nesting, b.nesting} = {"undetected"},
              groups |-> GroupRows(a, b, floors),
              trustworthy |-> /\ ~\E m \in marks : m.unsafe
                              /\ ~SingleRun(a) /\ ~SingleRun(b)]

-----------------------------------------------------------------------------
(* The document over a baseline and the arms compared with it.             *)

Facts(arms, ds) ==
    LET all == Range(arms) IN
    [multi |-> Len(arms) > 1,
     loss |-> \E x \in all : LostSpans(x) = "yes",
     lossUnknown |-> \E x \in all : LostSpans(x) = "unknown",
     truncated |-> \E x \in all : Truncated(x),
     nested |-> \E x \in all : x.nesting = "detected",
     nestingUnknown |-> \E x \in all : x.nesting = "unknown",
     single |-> \E x \in all : SingleRun(x),
     capped |-> \E x \in all : x.capped,
     sampled |-> \E x \in all : x.sampled,
     selfMs |-> \E x \in all : x.self # Nothing,
     breakdown |-> \E d \in Range(ds) : d.groups.rows \notin {Nothing, <<>>},
     moved |-> \E d \in Range(ds) : d.rows.avg_ms # Nothing /\ d.rows.avg_ms.delta = Nothing]

\* Mutant: loss that is not known does not count against the document.
DocTrustworthyKnown(f, ds) ==
    ~f.single /\ ~f.truncated /\ ~f.loss /\ ~f.nestingUnknown
      /\ \A i \in DOMAIN ds : ds[i].trustworthy

DocTrustworthy(f, ds) ==
    ~f.single /\ ~f.truncated /\ ~f.loss /\ ~f.lossUnknown /\ ~f.nestingUnknown
      /\ \A i \in DOMAIN ds : ds[i].trustworthy

Columns(f) ==
    {c \in {"ingest", "truncation", "nesting", "estimate", "retries", "moved",
            "no floor", "cardinality"} :
        CASE c = "ingest" -> f.loss \/ f.lossUnknown
          [] c = "truncation" -> f.truncated
          [] c = "nesting" -> f.nested \/ f.nestingUnknown
          [] c = "moved" -> f.moved
          [] c = "no floor" -> f.single
          [] c = "cardinality" -> f.capped
          [] OTHER -> TRUE}

Metrics == {"count", "total_ms", "avg_ms", "error_count", "estimated", "sampled",
            "self_ms", "wall_union", "per-key"}

Affected(c, m) ==
    CASE c \in {"ingest", "retries", "no floor"} -> TRUE
      [] c = "truncation" -> m \in {"sampled", "self_ms", "wall_union"}
      [] c = "nesting" -> m \in {"total_ms", "avg_ms"}
      [] c = "estimate" -> m = "estimated"
      [] c = "moved" -> m = "avg_ms"
      [] c = "cardinality" -> m = "per-key"

Present(f, m) ==
    CASE m = "self_ms" -> f.selfMs
      [] m \in {"sampled", "wall_union"} -> f.sampled
      [] m = "per-key" -> f.breakdown
      [] OTHER -> TRUE

Cell(f, c, m) == IF ~Present(f, m) THEN "absent"
                 ELSE IF Affected(c, m) THEN "affected" ELSE "clear"

\* document(): the first arm is the baseline, and one refusal refuses it all.
Document(arms, allow) ==
    LET ds == [i \in 1 .. Len(arms) - 1 |-> Diff(arms[1], arms[i + 1], allow)]
        f == Facts(arms, ds)
    IN  IF \E i \in DOMAIN ds : ds[i].refused # Nothing THEN [refused |-> TRUE]
        ELSE [refused |-> FALSE, trustworthy |-> DocTrustworthy(f, ds), facts |-> f]

\* The matrix of limitations and metrics a document prints.
Matrix(f) == [c \in Columns(f) |-> [m \in Metrics |-> Cell(f, c, m)]]

-----------------------------------------------------------------------------
(* Properties.                                                             *)

RunsOf(I) == LET s == SetToSortSeq(I, <) IN [k \in DOMAIN s |-> kept[s[k]].run]

\* The arms a caller can name: one recorded run, or several merged.
Arms ==
    {[arm |-> ArmOf(<<kept[i].run>>, FALSE), of |-> {i}] : i \in DOMAIN kept}
      \cup {[arm |-> ArmOf(RunsOf(I), TRUE), of |-> I] :
              I \in {J \in SUBSET DOMAIN kept : J # {} /\ Mergeable(RunsOf(J))}}

AllowAll == {"mismatch", "lossy", "truncated"}

\* What trust in the runs I has to rest on.
Sound(I) ==
    /\ Cardinality(I) >= 2
    /\ Cardinality({<<kept[i].run.filter, kept[i].run.level,
                      kept[i].run.keys, kept[i].run.layout>> : i \in I}) = 1
    /\ \A i \in I : LET r == kept[i].run IN
         r.ingest = 0 /\ r.complete /\ r.nested # Nothing /\ r.level = 3

\* The metrics a document's matrix marks, but for what every run shares.
Marked(f) ==
    LET cells == Matrix(f) IN
    {m \in Metrics : \E c \in Columns(f) \ {"retries", "estimate", "moved"} :
                       cells[c][m] = "affected"}

\* A comparison or a document that calls itself trustworthy rests on at least
\* two runs on each side, all of one definition, none of which lost or may
\* have lost a span, was truncated, folded keys or nested matches uncounted;
\* no permission the caller gives buys it back, and its matrix marks no metric
\* but for what every run shares (diff.rs:984, document.rs:350).
TrustIsEarned ==
    LET arms == Arms
        sound(x, y) == Sound(x.of) /\ Sound(y.of) /\ Sound(x.of \cup y.of)
        plain(I) == \A i \in I : kept[i].run.nested = 0 /\ ~kept[i].run.capped
        earned(x, y, d, doc) ==
          /\ (d.refused = Nothing /\ d.trustworthy) => sound(x, y) /\ plain(x.of \cup y.of)
          /\ (~doc.refused /\ doc.trustworthy) => d.trustworthy /\ Marked(doc.facts) = {}
    IN  /\ \A x \in arms : Document(<<x.arm>>, {}).trustworthy => Sound(x.of)
        /\ \A x \in arms, y \in arms :
             earned(x, y, Diff(x.arm, y.arm, AllowAll), Document(<<x.arm, y.arm>>, AllowAll))

\* An estimated delta is shown as a change only when it clears its own error
\* bar, alpha(a+b) < |a-b|, however quiet the runs were; and the rows by name
\* of any arm that has them add up to its total (diff.rs:1570, 420).
DeltasResolvable ==
    LET arms == Arms
        resolved(d) ==
          (d.refused = Nothing /\ d.rows.p50_ms # Nothing /\ ~d.rows.p50_ms.suppressed) =>
            100 * Dist(d.rows.p50_ms.a, d.rows.p50_ms.b) > d.rows.p50_ms.a + d.rows.p50_ms.b
        sum(rows) == FoldSet(LAMBDA k, acc : AddStats(acc, rows[k]), NoStats, DOMAIN rows)
    IN  /\ \A x \in arms, y \in arms : resolved(Diff(x.arm, y.arm, AllowAll))
        /\ \A x \in arms : x.arm.perName # Nothing => sum(x.arm.perName) = x.arm.total

\* A label names one run among those held, and an automatic label is never
\* given twice, across evictions and restarts (history.rs:253, 311).
LabelsDistinct ==
    /\ \A i, j \in DOMAIN kept : kept[i].label = kept[j].label => i = j
    /\ \A n \in nextAuto .. MaxTaken + 1 : Auto(n) \in issued => Auto(n) \in Labels
    /\ Auto(AutoNumber) \in issued => Auto(AutoNumber) \in Labels
=============================================================================
