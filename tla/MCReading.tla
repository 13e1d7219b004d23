------------------------------ MODULE MCReading ------------------------------
(* What is made of the records: what the inputs parse, the filters, the    *)
(* reads, a collector's profile and its comparison of runs, and a case     *)
(* from its capture over its files to its text.  Each behaviour is about   *)
(* one of these, chosen at the start; the others keep still.               *)
EXTENDS Integers, Sequences, FiniteSets, TLC

CONSTANTS NotKnown, NotGiven, Short, f1, w1, w2

VARIABLES part,
  arrived,
  calls, qualifiers, field, asked, window,
  ring, spans, bookmarks, evidence, reply,
  recs, complete,
  runs, nextAuto, evicted, issued,
  counter, held, lostBelow, admitFrom, lateNo, lateCounter, received, stored, clearing,
  departed, clearedUpTo, inFlight, caseSpans, spanFloor, policy, flips, epochs, cap, case,
  everLogs, everSpans,
  files, writer, loader, got, damaged,
  text, i, stack, result, source, steps

Symmetry == Permutations({w1, w2})

(* A string of a front matter, and a value on the wire, each with its tag. *)
Str(s) == [t |-> "str", s |-> s]
V(kind, v) == [kind |-> kind, v |-> v]
-----------------------------------------------------------------------------
(* Cases: a domain with a filter, a ring of two logs and one of one span;  *)
(* two captures of the same second; every string of up to two awkward      *)
(* characters in each emitted shape, and every text of up to three.        *)
Captured == INSTANCE Cases WITH Capacity <- 2, MaxSeq <- 5, MaxReceived <- 5, Clients <- {},
              SpanCap <- 1, EpochCapacity <- 5, MaxWindow <- 1, Policies <- {{}, {f1}},
              MaxFlips <- 2, spans <- caseSpans, kept <- case

OnDisk == INSTANCE CaseFiles WITH Writers <- {w1, w2}, Stems <- {0, 1}, MaxAttempts <- 2,
            MaxDamage <- 1

Chars == {"a", "'", "/", "nl", ",", "}", "]"}
Strings == UNION {[1..n -> Chars] : n \in 0..2}
Emitted ==
  {Str(s) : s \in Strings}
  \cup {[t |-> "seq", v |-> <<Str(s), Str(<<c>>)>>] : s \in Strings, c \in Chars}
  \cup {[t |-> "map", v |-> (s :> Str(<<c>>)) @@ (<<"k">> :> Str(s))] : s \in Strings, c \in Chars}
  \cup {[t |-> "bare", s |-> <<"a", "n">>]}
Foreign ==
  UNION {[1..n -> {"a", "'", "/", "{", "}", "[", "]", ",", ":"}] : n \in 0..3}
  \cup {<<"{", "a", ":">> \o s : s \in [1..2 -> {"[", "]", "}", ",", "'"}]}

Scanned == INSTANCE CaseScan WITH
  Documents <- [verdict : {"complete", "filtered"}, range : {1}, format : {1},
                incarnation : {"none", "era"}, narrowed : {{}, {1}},
                logdata : {-1, 0, 1}, spandata : {-1, 0}]
-----------------------------------------------------------------------------
(* Wire: each field there or not, each kind of value, usable and unusable  *)
(* ids.                                                                    *)
Opt(k, vs) == {[x \in {} |-> 0]} \cup {k :> v : v \in vs}
GelfMessages ==
  {a @@ b @@ c @@ d @@ ("extra" :> x) :
     a \in Opt("host", {"h"}), b \in Opt("short_message", {"m"}), c \in Opt("level", {3, 4, 6, 260}),
     d \in Opt("level_name", {"WARNING", "odd"}),
     x \in {e @@ t @@ s : e \in Opt("user", {[kind |-> "text"]}),
              t \in Opt("trace_id", {[kind |-> "text"], [kind |-> "hex", id |-> 1]}),
              s \in Opt("span_id", {[kind |-> "text"], [kind |-> "hex", id |-> 2]})}}

NoValue == [kind |-> "none"]
AttrSets ==
  {[x \in {} |-> 0], "k" :> V("string", 1), "k" :> V("int", 1), "k" :> V("double", 1),
   "k" :> V("bool", 1), "k" :> V("bytes", 1), "k" :> NoValue,
   "k" :> V("array", <<V("int", 1), V("string", 2)>>), "k" :> V("array", <<NoValue>>),
   ("k" :> V("kvlist", "x" :> V("int", 1))) @@ ("l" :> V("string", 2))}
Resources == {[x \in {} |-> 0], "service.name" :> "s"}

LogRecords ==
  [body : {NoValue, V("string", ""), V("string", "m"), V("int", 1)}, severity : {0, 4, 5, 16, 17, 25},
   time : {0, 7}, trace : {NotGiven, Short, 0, 1}, span : {NotGiven, 2}, attributes : AttrSets]
SpanRecords ==
  [trace : {0, 1}, span : {Short, 2}, parent : {NotGiven, 0, 3}, name : {"", "n"}, kind : {0, 2, 6},
   start : {0}, end : {5}, status : [code : 0..3, message : {"", "why"}],
   attributes : {[x \in {} |-> 0], "k" :> V("int", 1)},
   events : {<<>>, <<[name |-> "e", time |-> 0, attributes |-> "k" :> V("int", 1)]>>}]

Inputs == INSTANCE Wire WITH Absent <- NotGiven
-----------------------------------------------------------------------------
(* Filters: calls of every builder method, values with the separators in  *)
(* them, and the seq bounds a query may carry.                             *)
Gte == <<">", "=">>
Lte == <<"<", "=">>
Comparison(sel, op, v) == [call |-> "compare", sel |-> sel, op |-> op, value |-> v]
Selected(sel, v) == [call |-> "select", sel |-> sel, value |-> v]
SelectedRegex(sel, v, ci) == [call |-> "select_regex", sel |-> sel, value |-> v, ci |-> ci]
Values == {<<"x">>, <<"x", ",", "m">>, <<"X">>}

Calls ==
  {[call |-> "match", word |-> w] : w \in {"ALL", "NONE"}}
  \cup {Comparison("l", op, <<v>>) : op \in {Gte, Lte, <<"=">>}, v \in {"WARN", "ERROR"}}
  \cup {Comparison("d", op, <<v>>) :
          op \in {Gte, Lte}, v \in {"n1", "n2", "inf", "minus_inf", "nan"}}
  \cup {Comparison("b", op, <<"x">>) : op \in {Gte, Lte}}
  \cup {Comparison("c", Gte, <<"x">>)}
  \cup {[call |-> "pattern", value |-> v] : v \in Values}
  \cup {[call |-> "pattern_regex", value |-> <<"X">>, ci |-> b] : b \in BOOLEAN}
  \cup {Selected(s, v) : s \in {"m", "mfm", "sn", "st", "x"},
                         v \in {<<"x">>, <<"x", ",", "m">>, <<"ok">>}}
  \cup {SelectedRegex("sn", <<"X">>, TRUE), SelectedRegex("m", <<"x", ",", "x">>, FALSE),
        Selected("m", <<"x", "q">>)}

Fields == {<<"x">>, <<"h">>, <<"l">>, <<"d">>, <<"sv">>, <<"q", "x">>, <<"x", ">">>,
           <<"x", ",", "x">>, <<"x", " ">>, <<"x", "=">>, <<"/", "x">>, <<" ", "x">>}
Spans ==
  [seq : {2}, name : {<<"x">>, <<"m">>}, service : {<<"x">>}, span_kind : {<<"server">>},
   status : {[type |-> "ok"], [type |-> "unset"], [type |-> "error", message |-> <<"x">>]},
   attributes : {[k \in {<<"x">>} |-> [string |-> b, text |-> <<"x">>]] : b \in BOOLEAN},
   duration : 0..3]
Entries ==
  [seq : {2}, level : {3, 5},
   fields : {[k \in {"m", "h", "fi"} |-> <<"x">>], [k \in {"m", "h"} |-> <<"m">>]},
   extra : {n :> <<"x">> : n \in Fields} \cup {<<"x">> :> <<"m">>}]

Bound(kinds, values) == [kind : kinds, value : values]
Bounds ==
  {<<>>} \cup {<<b>> : b \in Bound({"after", "before", "cursor_seq"}, 0..4)}
  \cup {<<b, c>> : b \in Bound({"after", "before", "cursor_seq"}, 0..4),
                   c \in Bound({"after", "before"}, 1..4)}
Ranges == ((-1..4) \X (-1..4)) \cup {<<2, 6>>}    \* -1: not given; 6: the largest u64

Filter == INSTANCE Filters WITH MaxCalls <- 2, Seqs <- 1..5
-----------------------------------------------------------------------------
(* Reads: logs with and without the fields a query groups by, a structured *)
(* value, and more values and names than the caps allow.                   *)
Text(v) == [kind |-> "string", text |-> v]
Logged(level, host, file, extra) == [level |-> level, host |-> host, file |-> file, extra |-> extra]
Records ==
  {Logged("ERROR", "h", "", ("a" :> Text("x")) @@ ("file" :> Text("f"))),
   Logged("INFO", "", "", ("a" :> Text("y")) @@ ("b" :> Text("x"))),
   Logged("INFO", "h", "f", "a" :> [kind |-> "integer", text |-> "x"]),
   Logged("INFO", "g", "", ("a" :> [kind |-> "other", text |-> "{}"]) @@ ("b" :> Text("z"))),
   Logged("INFO", "h", "", [k \in {} |-> 0])}

Query(method, axis, keys, top, level, cursor, bookmark) ==
  [method |-> method, axis |-> axis, keys |-> keys, top |-> top, floor |-> 2, level |-> level,
   cursor |-> cursor, bookmark |-> bookmark]
Queries ==
  {Query("logs.profile", a, k, n, l, "", "") :
     a \in {"level", "host", "file", "none", "field"},
     k \in {<<>>, <<"a">>, <<"a", "b">>, <<"a", "b", "file">>}, n \in {1, 3}, l \in {"any", "INFO"}}
  \cup {Query("logs.fields", "none", <<>>, 1, l, "", "") : l \in {"any", "INFO"}}
  \cup {Query(m, "none", <<>>, 1, "any", c, b) :
          m \in {"logs.recent", "logs.export", "logs.fields", "spans.export", "traces.slow"},
          c \in {"", "cur"}, b \in {"", "mark"}}

Answers == INSTANCE Reads WITH SpanRecords <- [name : {"s", "t"}, duration : {1, 3}],
             KeyCap <- 2, NameCap <- 5, MaxKeys <- 2, MaxHeld <- 3
-----------------------------------------------------------------------------
(* Profile: two traces; a root, a child inside it, one that outlives it, a *)
(* pair that names each other as parents, a span whose parent is not kept. *)
R(t, id, p, n, a, b) ==
  [trace |-> t, id |-> id, parent |-> p, name |-> n, start |-> a, end |-> b]
Recs == {R(1, 1, 0, "a", 0, 4), R(1, 2, 1, "b", 1, 2), R(1, 3, 1, "c", 1, 3),
         R(1, 4, 2, "c", 3, 5), R(2, 1, 2, "a", 2, 4), R(2, 2, 1, "b", 3, 4),
         R(2, 3, 9, "b", 5, 6), R(2, 1, 0, "a", 1, 1)}

Projected == INSTANCE Profile WITH MaxRecs <- 4, Levels <- {"scalar", "timing", "tree"},
               Nothing <- NotKnown, Cuts <- {NotKnown, 0, 2}, MaxPathDepth <- 3,
               PathRowCap <- 2, InlineCap <- 2

(* Compare: runs that repeat one configuration, lose spans, were           *)
(* truncated, nested, kept at a lower level, or restored without their     *)
(* breakdown.                                                              *)
Stats(c, t) == [count |-> c, total |-> t, errors |-> 0, ok |-> c]
Base == [filter |-> "f", spelling |-> "f", level |-> 3, keys |-> 0,
         total |-> Stats(2, 100), perName |-> [q |-> Stats(1, 50), r |-> Stats(1, 50)],
         nested |-> 0, self |-> NotKnown, ingest |-> 0, complete |-> TRUE,
         capped |-> FALSE, layout |-> 1]
Took(t) == [Base EXCEPT !.total = Stats(2, t), !.perName = [q |-> Stats(2, t)]]
Runs ==
  {Base, Took(102), [Took(102) EXCEPT !.keys = 1],
   [Base EXCEPT !.ingest = 2, !.spelling = "F"], [Base EXCEPT !.ingest = NotKnown],
   [Base EXCEPT !.level = 2, !.total = Stats(1, 50), !.perName = [q |-> Stats(1, 50)]],
   [Base EXCEPT !.nested = 1, !.self = 50, !.complete = FALSE],
   [Base EXCEPT !.filter = "g", !.spelling = "g", !.capped = TRUE]}

Compared == INSTANCE Compare WITH Labels <- {<<"snapshot", 2>>}, MaxSnapshots <- 3,
              MaxTaken <- 4, TopN <- 1, Material <- 2, Overflow <- "__overflow__",
              Nothing <- NotKnown, kept <- runs
-----------------------------------------------------------------------------
FilterState == <<calls, qualifiers, field, asked, window>>
ReadState == <<ring, spans, bookmarks, evidence, reply>>
RunState == <<recs, complete, runs, nextAuto, evicted, issued>>
CaseState == <<counter, held, lostBelow, admitFrom, lateNo, lateCounter, received, stored,
               clearing, departed, clearedUpTo, inFlight, caseSpans, spanFloor, policy, flips,
               epochs, cap, case, everLogs, everSpans>>
DiskState == <<files, writer, loader, got, damaged>>
ScanState == <<text, i, stack, result, source, steps>>
Everything == <<part, arrived, FilterState, ReadState, RunState, CaseState, DiskState, ScanState>>

MCInit ==
  /\ part \in {"wire", "filter", "read", "profile", "compare", "capture", "disk", "scan"}
  /\ Inputs!WireInit /\ Filter!FilterInit
  /\ Answers!ReadInit /\ (part # "read" => evidence = "all")
  /\ Projected!PInit /\ Compared!CInit /\ Captured!CaseInit /\ OnDisk!FInit
  /\ Scanned!ScanInit /\ (part # "scan" => text = <<>>)

MCNext ==
  /\ \/ /\ part = "wire" /\ Inputs!WireNext
        /\ UNCHANGED <<FilterState, ReadState, RunState, CaseState, DiskState, ScanState>>
     \/ /\ part = "filter" /\ Filter!FilterNext
        /\ UNCHANGED <<arrived, ReadState, RunState, CaseState, DiskState, ScanState>>
     \/ /\ part = "read" /\ Answers!ReadNext
        /\ UNCHANGED <<arrived, FilterState, RunState, CaseState, DiskState, ScanState>>
     \/ /\ part = "profile" /\ Projected!PNext /\ UNCHANGED <<runs, nextAuto, evicted, issued>>
        /\ UNCHANGED <<arrived, FilterState, ReadState, CaseState, DiskState, ScanState>>
     \/ /\ part = "compare" /\ Compared!CNext /\ UNCHANGED <<recs, complete>>
        /\ UNCHANGED <<arrived, FilterState, ReadState, CaseState, DiskState, ScanState>>
     \/ /\ part = "capture" /\ Captured!CaseNext
        /\ UNCHANGED <<arrived, FilterState, ReadState, RunState, DiskState, ScanState>>
     \/ /\ part = "disk" /\ OnDisk!FNext
        /\ UNCHANGED <<arrived, FilterState, ReadState, RunState, CaseState, ScanState>>
     \/ /\ part = "scan" /\ Scanned!ScanNext
        /\ UNCHANGED <<arrived, FilterState, ReadState, RunState, CaseState, DiskState>>
  /\ UNCHANGED part

MCSpec == MCInit /\ [][MCNext]_Everything

(* The behaviours about one part alone. *)
ProfileSpec == MCInit /\ part = "profile" /\ [][MCNext]_Everything
FilterSpec == MCInit /\ part = "filter" /\ [][MCNext]_Everything
-----------------------------------------------------------------------------
(* No additional field of a GELF message is lost, and a record is stored   *)
(* alike over gRPC and over HTTP (gelf/message.rs, receiver/otlp/).        *)
InputsAgree == part = "wire" => Inputs!FieldsKept /\ Inputs!TransportsAgree

(* Admission refuses only what cannot match, a query's window holds what   *)
(* its filter matches, and a field is offered as a selector only when the  *)
(* selector reaches it (filter/).                                          *)
FiltersExact ==
  part = "filter" => Filter!AdmissionExact /\ Filter!WindowIsWhatMatches /\ Filter!SelectorReaches

(* The rows of a profile, of the fields and of the slow spans describe     *)
(* every record matched, past the caps, and a refused read leaves no       *)
(* bookmark behind (logs/profile.rs, rpc_handler.rs).                      *)
ReadsExact == [](part = "read" => Answers!RowsDescribeAll) /\ Answers!RefusalLeavesNothing

(* A profile's rows count each record once and under a warm-up cut never   *)
(* mix two populations (collector/project.rs).                             *)
ProfilesExact == part = "profile" => Projected!FlameGraphExact /\ Projected!OnePopulation

(* A comparison called trustworthy is one, its deltas are above what the   *)
(* arms can resolve, and no label names two runs (collector/diff.rs).      *)
ComparisonsEarned ==
  part = "compare" =>
    Compared!TrustIsEarned /\ Compared!DeltasResolvable /\ Compared!LabelsDistinct

(* A case's document never claims more than was captured, and the case     *)
(* loaded from it is narrowed as it says (handle_cases_create).            *)
CasesTellTheLoss ==
  part = "capture" => Captured!CaseTellsTheLoss /\ Captured!LoadedNarrowsAlike

(* A case on disk loads whole or not at all, a document stands on its      *)
(* evidence at every moment, what was written is read back, and every scan *)
(* of a front matter ends (cases/).                                        *)
CasesReadBack ==
  /\ part = "disk" => OnDisk!LoadsWholeOrNotAtAll /\ OnDisk!DocumentHasItsEvidence
  /\ part = "scan" => Scanned!ReadsWhatWasWritten /\ Scanned!ScanEnds

(* Self time is the formula its documentation gives, whatever order the    *)
(* spans arrived in (self_time, collector/project.rs).                     *)
SelfTimeAsDefined == Projected!SelfTimeAsDefined

(* A filter the SDK's builder makes parses to what the builder was asked   *)
(* for (sdk/src/filter.rs).                                                *)
BuilderRoundTrips == Filter!BuilderRoundTrips
=============================================================================
