---------------------------- MODULE MCCollectors ----------------------------
(* Collectors on a small instance, with what one collector measures and    *)
(* what a boot makes of the collectors' directory.  Each behaviour is about *)
(* one of the three, chosen at the start; the others keep still.            *)
EXTENDS Collectors, CollectorFiles, TLC

VARIABLES part,
  level, trip, win, th, now, seen, lost

BySize == [d \in Defs |-> d]
Symmetry == Permutations(Tasks) \cup Permutations(Owners)

(* A ring of two buckets of two milliseconds, room for two span names, two *)
(* values per key and two tuples, two chunks of one record: every cap is   *)
(* passed within four spans.                                               *)
Span(n, g, a, b, e) == [name |-> n, attrs |-> <<g>>, start |-> a, end |-> b, err |-> e]
Spans == {Span("a", "x", 1, 2, FALSE), Span("b", "y", 3, 7, TRUE), Span("c", "z", 5, 6, FALSE),
          Span("a", "absent", 4, 3, FALSE), Span("b", "x", 5, 5, TRUE), Span("a", "y", 0, 2, TRUE)}

Def(l, m, g, op, v) ==
  [level |-> l, trip |-> [metric |-> m, group |-> g, op |-> op, value |-> v, window |-> 3]]
MDefs == {Def("scalar", "count", None, "gt", 1), Def("timing", "total_ms", "y", "gt", 3),
          Def("timing", "avg_ms", None, "lt", 2), Def("tree", "error_rate_pct", "x", "gt", 40)}

Measured == INSTANCE Measure WITH NKeys <- 1, NameCap <- 2, ValueCap <- 2, TupleCap <- 2,
              ChunkRecords <- 1, MaxChunks <- 2, Buckets <- 2, SketchMax <- 2, Bad <- 0,
              Nothing <- None, Absent <- "absent", MaxTime <- 5

(* Files under canonical names, an older one, or another collector's. *)
FoundFiles ==
  LET places == {Canonical(1), Canonical(2), <<"old", 1>>}
      whats == {<<1, 1>>, <<1, 2>>, <<2, 1>>, <<0, 1>>}
  IN  UNION {{[p \in s |-> [of |-> f[p][1], at |-> f[p][2], id |-> p]] :
                f \in [s -> whats]} : s \in SUBSET places}

MeasureState == <<level, trip, win, th, now, seen, lost>>

MCInit ==
  /\ part \in {"registry", "measure", "directory"}
  /\ Init
  /\ Measured!MInit /\ (part # "measure" => level = "scalar")
  /\ FInit /\ (part # "directory" => DOMAIN fs = {})

MCNext ==
  /\ \/ part = "registry" /\ Next /\ UNCHANGED <<MeasureState, fvars>>
     \/ part = "measure" /\ Measured!MNext /\ UNCHANGED <<vars, fvars>>
     \/ part = "directory" /\ FNext /\ UNCHANGED <<vars, MeasureState>>
  /\ UNCHANGED part

MCSpec == MCInit /\ [][MCNext]_<<part, vars, MeasureState, fvars>>

(* The tiers of a collector's window agree with what was ingested, and its *)
(* threshold fires on exactly the spans of its window, past every cap,     *)
(* late span and reset (collector/state.rs, threshold.rs).                 *)
MeasuredExactly ==
  part = "measure" => Measured!TiersReconcile /\ Measured!RowsExact /\ Measured!VerdictExact
=============================================================================
