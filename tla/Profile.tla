------------------------------ MODULE Profile ------------------------------
(***************************************************************************)
(* What a profile reads out of a collector's retained records: wall union, *)
(* self time, call paths, rows per trace and the warm-up cut (project.rs). *)
(*                                                                         *)
(* A record is [start, end, name, trace, id, parent]; parent 0 is a root.  *)
(* Records arrive in the order the exporter sends them, which is the order *)
(* spans END: a child usually before its parent.  Times are small          *)
(* naturals, so a half-open interval is the set of its ticks.              *)
(***************************************************************************)
EXTENDS Integers, Sequences, FiniteSets, SequencesExt, FiniteSetsExt, Functions

CONSTANTS
    Recs,           \* the records that may be retained
    MaxRecs,        \* bound: how many are retained
    Levels,         \* the levels read at: "scalar", "timing", "tree"
    Cuts,           \* the warm-up cuts asked for, Nothing for none
    MaxPathDepth,   \* the ancestor walk's depth cap, 64 in the code
    PathRowCap,     \* path rows a snapshot stores, 200 in the code
    InlineCap,      \* durations listed inline, 50 in the code
    Nothing         \* None

VARIABLES recs, complete

pvars == <<recs, complete>>

PInit == recs = <<>> /\ complete = TRUE

\* One more well-formed record retained, or the budget already spent.
Retain(r) ==
    /\ Len(recs) < MaxRecs /\ complete
    /\ recs' = Append(recs, r)
    /\ UNCHANGED complete

Truncate == complete /\ recs # <<>> /\ complete' = FALSE /\ UNCHANGED recs

PNext == (\E r \in Recs : Retain(r)) \/ Truncate

PSpec == PInit /\ [][PNext]_pvars

-----------------------------------------------------------------------------
Sum(S, f(_)) == FoldSet(LAMBDA x, acc : acc + f(x), 0, S)

Interval(r) == <<r.start, r.end>>
Duration(r) == r.end - r.start
Intervals(rs) == [i \in DOMAIN rs |-> Interval(rs[i])]

\* sort_unstable on pairs: by start, then by end.
Sorted(iv) ==
    SortSeq(iv, LAMBDA x, y : x[1] < y[1] \/ (x[1] = y[1] /\ x[2] < y[2]))

\* Mutant: a gap between two intervals is counted as covered.
UnionLenSpan(iv) ==
    IF iv = <<>> THEN 0
    ELSE Max({iv[i][2] : i \in DOMAIN iv}) - Min({iv[i][1] : i \in DOMAIN iv})

\* union_len's sweep over the sorted intervals.
UnionLen(iv) ==
    IF iv = <<>> THEN 0
    ELSE LET s == Sorted(iv)
             w == FoldLeft(LAMBDA acc, x :
                    IF x[1] <= acc.end
                    THEN [acc EXCEPT !.end = IF x[2] > @ THEN x[2] ELSE @]
                    ELSE [total |-> acc.total + acc.end - acc.start,
                          start |-> x[1], end |-> x[2]],
                    [total |-> 0, start |-> s[1][1], end |-> s[1][2]], Tail(s))
         IN  w.total + w.end - w.start

\* Interval::clip; two intervals that do not overlap give Nothing.
Clip(child, bounds) ==
    LET s == Max({child[1], bounds[1]})
        e == Min({child[2], bounds[2]})
    IN  IF s < e THEN <<s, e>> ELSE Nothing

\* quantile_index: rank floor(1 + q(n - 1)), counted from one; q is per cent.
QuantileIndex(n, q) ==
    IF n = 0 THEN Nothing
    ELSE Min({Max({1, (100 + q * (n - 1)) \div 100}), n})

-----------------------------------------------------------------------------
(* Who is whose parent: identity is (trace, span id), and of two records   *)
(* with one identity the later is the one found.                           *)

Find(rs, trace, id) ==
    LET at == {i \in DOMAIN rs : rs[i].trace = trace /\ rs[i].id = id}
    IN  IF at = {} THEN Nothing ELSE Max(at)

ParentOf(rs, i) ==
    IF rs[i].parent = 0 THEN Nothing ELSE Find(rs, rs[i].trace, rs[i].parent)

\* self_time over durations in arrival order and the intervals handed to it.
SelfTime(rs, iv) ==
    LET by(i) == Find(rs, rs[i].trace, rs[i].parent)
        nested == {i \in DOMAIN rs : /\ ParentOf(rs, i) \notin {Nothing, i}
                                     /\ by(ParentOf(rs, i)) # i}
        clip(i) == Clip(iv[i], iv[ParentOf(rs, i)])
        len(x) == IF x = Nothing THEN 0 ELSE x[2] - x[1]
        lost(i) == len(iv[i]) - len(clip(i))
        kids(p) == {i \in nested : ParentOf(rs, i) = p /\ clip(i) # Nothing}
        covered(p) == UnionLen(SetToSeq({clip(i) : i \in kids(p)}))
    IN  [self |-> Sum(DOMAIN rs, LAMBDA p : Max({Duration(rs[p]) - covered(p), 0})),
         nested |-> Cardinality(nested),
         clippedAway |-> Sum(nested, lost),
         clippedSpans |-> Cardinality({i \in nested : lost(i) > 0 \/ clip(i) = Nothing})]

\* The records a read keeps: those that start at or after the cut.
Cutoff(rs, ms) ==
    IF ms = Nothing \/ rs = <<>> THEN Nothing
    ELSE Min({rs[i].start : i \in DOMAIN rs}) + ms

Kept(rs, cut) == IF cut = Nothing THEN rs ELSE SelectSeq(rs, LAMBDA r : r.start >= cut)

\* sampled_view.  union_len sorts its argument in place, so the intervals
\* that reach self_time are in start order while durations and parents are
\* in arrival order.
SampledView(all, cut, tree) ==
    LET rs == Kept(all, cut)
        durations == [i \in DOMAIN rs |-> Duration(rs[i])]
        ds == SortSeq(durations, <)
        total == Sum(DOMAIN rs, LAMBDA i : durations[i])
        view(union, st) ==
          [complete |-> complete,
           count |-> Len(rs),
           durations |-> IF ~complete \/ Len(rs) > InlineCap THEN Nothing ELSE durations,
           union |-> IF rs = <<>> THEN Nothing ELSE union,
           concurrency |-> IF union = 0 THEN Nothing ELSE <<total, union>>,
           p |-> [q \in {50, 80, 95, 99} |->
                    IF rs = <<>> THEN Nothing ELSE ds[QuantileIndex(Len(rs), q)]],
           nested |-> IF tree THEN st.nested ELSE 0,
           overlapping |-> IF tree THEN st.clippedAway ELSE 0,
           overlappingSpans |-> IF tree THEN st.clippedSpans ELSE 0,
           self |-> IF tree /\ st.nested > 0 THEN st.self ELSE Nothing]
    IN  view(UnionLen(Intervals(rs)), SelfTime(rs, Sorted(Intervals(rs))))

-----------------------------------------------------------------------------
(* Call paths.                                                             *)

\* walk_path: matched ancestors, stopping at a root, at a parent that is not
\* retained, at a span already on the chain or at the depth cap.
WalkPath(rs, i) ==
    LET walk[n \in 0 .. MaxPathDepth] ==
          IF n = 0 THEN [chain |-> <<i>>, done |-> FALSE, incomplete |-> FALSE]
          ELSE LET w == walk[n - 1]
                   cur == Last(w.chain)
                   p == ParentOf(rs, cur)
               IN  IF w.done THEN w
                   ELSE IF rs[cur].parent = 0 THEN [w EXCEPT !.done = TRUE]
                   ELSE IF \/ p = Nothing \/ p \in Range(w.chain)
                           \/ Len(w.chain) >= MaxPathDepth
                        THEN [w EXCEPT !.done = TRUE, !.incomplete = TRUE]
                   ELSE [w EXCEPT !.chain = Append(@, p)]
        w == walk[MaxPathDepth]
    IN  [frames |-> Reverse([k \in DOMAIN w.chain |-> rs[w.chain[k]].name]),
         incomplete |-> w.incomplete]

PathSelf(rs, p) ==
    LET kids == {i \in DOMAIN rs : /\ ParentOf(rs, i) = p /\ i # p
                                   /\ Clip(Interval(rs[i]), Interval(rs[p])) # Nothing}
        clips == {Clip(Interval(rs[i]), Interval(rs[p])) : i \in kids}
    IN  Max({Duration(rs[p]) - UnionLen(SetToSeq(clips)), 0})

PathAggregates(all, cut) ==
    LET rs == Kept(all, cut)
        on(w) == {i \in DOMAIN rs : WalkPath(rs, i) = w}
    IN  {[path |-> w, self |-> Sum(on(w), LAMBDA i : PathSelf(rs, i)),
          count |-> Cardinality(on(w))] : w \in {WalkPath(rs, i) : i \in DOMAIN rs}}

\* The rows a snapshot stores: by self time, with the cap's verdict.
ProjectPaths(all, level) ==
    LET rows == IF level = "tree" THEN PathAggregates(all, Nothing) ELSE {}
        kept == CHOOSE K \in SUBSET rows :
                  /\ Cardinality(K) = Min({Cardinality(rows), PathRowCap})
                  /\ \A k \in K, r \in rows \ K : k.self >= r.self
    IN  [rows |-> kept, truncated |-> Cardinality(kept) < Cardinality(rows)]

\* trace_rows: the sampled figures of each trace.  Rows are ranked by their
\* exact total, which a trace row does not have, and then by key.
TraceRows(all, cut, topN) ==
    LET rs == Kept(all, cut)
        traces == {rs[i].trace : i \in DOMAIN rs}
        of(t) == SelectSeq(rs, LAMBDA r : r.trace = t)
        row(t) == [key |-> t, count |-> Len(of(t)),
                   total |-> Sum(DOMAIN of(t), LAMBDA i : Duration(of(t)[i])),
                   union |-> UnionLen(Intervals(of(t)))]
        ranked == SortSeq(SetToSeq(traces), <)
    IN  [rows |-> [k \in 1 .. Min({topN, Len(ranked)}) |-> row(ranked[k])],
         total |-> Cardinality(traces)]

-----------------------------------------------------------------------------
(* The whole answer: which tiers it carries and which it withholds.        *)

GroupBys == {"none", "name", "group", "trace", "path"}

\* group_rows: the axes that are read off accumulators have no window, so a
\* cut that ran withholds them; trace and path rows need span identity.
\* Mutant: rows withheld only when the sample tier is.
GroupsShownCut(level, by, cut, keyed) ==
    /\ by # "none"
    /\ by \in {"trace", "path"} => level = "tree"
    /\ by = "group" => keyed

GroupsShown(level, by, cut, keyed) ==
    /\ by # "none"
    /\ by \in {"trace", "path"} => level = "tree"
    /\ by = "group" => keyed
    /\ by \in {"name", "group"} => cut = Nothing

\* profile(): a warm-up cut is measured from the earliest retained record.
ProfileOf(level, by, asked, keyed) ==
    LET ms == IF asked = Nothing \/ asked <= 0 THEN Nothing ELSE asked
        retained == IF level = "scalar" THEN <<>> ELSE recs
        cut == Cutoff(retained, ms)
        sampled == IF level = "scalar" THEN Nothing
                   ELSE SampledView(retained, cut, level = "tree")
    IN  [exact |-> ms = Nothing,
         estimated |-> ms = Nothing,
         sampled |-> sampled,
         excluded |-> IF cut = Nothing THEN Nothing
                      ELSE Cardinality({i \in DOMAIN retained : retained[i].start < cut}),
         nesting |-> IF level # "tree" THEN "unknown"
                     ELSE IF sampled.nested > 0 THEN "detected" ELSE "undetected",
         groups |-> GroupsShown(level, by, cut, keyed)]

-----------------------------------------------------------------------------
(* What the numbers mean.                                                  *)

Ticks(iv) == iv[1] .. (iv[2] - 1)

\* A flame graph shows each record once, and a frame's own time is the ticks
\* of its records that no matched child covers, however children overlap,
\* outlive their parent or name each other as parents; a stored path list says
\* truncated exactly when it misses a record (project.rs:997, 1136, 1162).
FlameGraphExact ==
    LET rows == PathAggregates(recs, Nothing)
        own(i) == Ticks(Interval(recs[i]))
                    \ UNION {Ticks(Interval(recs[k])) :
                             k \in {j \in DOMAIN recs \ {i} : ParentOf(recs, j) = i}}
    IN  /\ Sum(rows, LAMBDA r : r.count) = Len(recs)
        /\ Sum(rows, LAMBDA r : r.self) = Sum(DOMAIN recs, LAMBDA i : Cardinality(own(i)))
        /\ \A r \in rows : /\ Len(r.path.frames) <= MaxPathDepth
                           /\ r.self = Sum({i \in DOMAIN recs : WalkPath(recs, i) = r.path},
                                           LAMBDA i : Cardinality(own(i)))
        /\ LET stored == ProjectPaths(recs, "tree")
           IN  ~stored.truncated <=> Sum(stored.rows, LAMBDA r : r.count) = Len(recs)
        /\ UnionLen(Intervals(recs))
             = Cardinality(UNION {Ticks(Interval(recs[i])) : i \in DOMAIN recs})

\* Under a warm-up cut the answer never mixes two populations: what is shown
\* covers the records kept, those plus the excluded are the records retained,
\* and a tier or row set that cannot be cut is withheld (project.rs:176, 816).
OnePopulation ==
    LET figures(p) == IF p.excluded = Nothing \/ p.sampled = Nothing THEN TRUE
                      ELSE p.sampled.count + p.excluded = Len(recs)
        withheld(p, by) == (p.excluded # Nothing /\ p.excluded > 0) =>
                             ~p.exact /\ ~p.estimated /\ (p.groups => by \in {"trace", "path"})
        traces(p, rows) == /\ Sum(rows, LAMBDA r : r.count) = p.sampled.count
                           /\ \A r \in rows : r.union <= r.total
        one(p, by, ms) ==
          /\ figures(p) /\ withheld(p, by)
          /\ (p.groups /\ by = "trace") =>
               traces(p, Range(TraceRows(recs, Cutoff(recs, ms), MaxRecs).rows))
    IN  \A level \in Levels, by \in GroupBys, ms \in Cuts, keyed \in BOOLEAN :
          one(ProfileOf(level, by, ms, keyed), by, ms)

\* Self time is the doc comment's formula, duration less the union of the
\* matched children clipped to their parent, and overlapping_child counts the
\* children that really reach outside their parent (project.rs:648, 664).
SelfTimeAsDefined ==
    SelfTime(recs, Sorted(Intervals(recs))) = SelfTime(recs, Intervals(recs))
=============================================================================
