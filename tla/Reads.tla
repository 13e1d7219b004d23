-------------------------------- MODULE Reads --------------------------------
(***************************************************************************)
(* The reads that summarise a domain's rings (logs.fields, logs.profile,   *)
(* traces.slow), and what a read does with the bookmarks and the cursor of *)
(* its filter (rpc_handler.rs, logs/fields.rs, logs/profile.rs).           *)
(*                                                                         *)
(* A summary is a fold over the whole ring under its read lock, bounded by *)
(* a cap on what it may learn.  A read's filter matters here by its        *)
(* bookmark and cursor names and by the level it asks for; Filters has the *)
(* language itself.                                                        *)
(***************************************************************************)
EXTENDS Integers, Sequences, FiniteSets, SequencesExt, FiniteSetsExt, TLC

CONSTANTS
  Records,      \* what an emitter may log
  SpanRecords,  \* what an emitter may trace: a name and a duration
  Queries,      \* the read calls a client may make
  KeyCap,       \* KEY_CAP and DISTINCT_CAP
  NameCap,      \* NAME_CAP
  MaxKeys,      \* MAX_KEYS
  MaxHeld       \* bound: records in the two rings

VARIABLES
  ring,      \* the log ring, oldest first
  spans,     \* the span ring
  bookmarks, \* the bookmarks and cursors of the session
  evidence,  \* what a loaded case omitted: "logs", "spans", or nothing
  reply      \* the last reply

readVars == <<ring, spans, bookmarks, evidence, reply>>

Silent == [kind |-> "silent"]
Refused == [kind |-> "refused"]
Value(v) == [t |-> "value", v |-> v]
Absent == [t |-> "absent"]
Overflow == [t |-> "overflow"]
Structured == [t |-> "structured"]
Empty == [k \in {} |-> 0]
CountOf(f, k) == IF k \in DOMAIN f THEN f[k] ELSE 0
Bump(f, k) == (k :> CountOf(f, k) + 1) @@ f
-----------------------------------------------------------------------------
(* logs.profile *)

BuiltinAxes == {"level", "host", "file"}
Axes == BuiltinAxes \cup {"none", "field"}

Members(q) == IF q.axis = "field" THEN Len(q.keys) ELSE 1

(* GroupMap::extract: an empty host is an absent one, and a value that is  *)
(* null, an array or an object is no dimension.                            *)
Extract(q, e, i) ==
  CASE q.axis = "level" -> Value(e.level)
    [] q.axis = "host" -> IF e.host = "" THEN Absent ELSE Value(e.host)
    [] q.axis = "file" -> IF e.file = "" THEN Absent ELSE Value(e.file)
    [] q.axis = "field" ->
         CASE q.keys[i] \notin DOMAIN e.extra -> Absent
           [] q.keys[i] \in DOMAIN e.extra /\ e.extra[q.keys[i]].kind = "other" -> Structured
           [] OTHER -> Value(e.extra[q.keys[i]].text)

KeyOf(q, e) ==
  [i \in 1..Members(q) |-> IF Extract(q, e, i) = Structured THEN Absent ELSE Extract(q, e, i)]

(* reserved_kind *)
IsReserved(key, member) == \A i \in DOMAIN key : key[i] = member

(* Mutant of Exempt: the bucket of the records without the field competes. *)
ExemptNone(key) == FALSE

Exempt(key) == IsReserved(key, Absent) \/ IsReserved(key, Overflow)

(* Acc::new and Acc::observe: an end moves with its record's exemplar. *)
Ends(acc, e) ==
  [count |-> acc.count + 1,
   levels |-> Bump(acc.levels, e.level),
   first |-> IF e.seq < acc.first.seq THEN e ELSE acc.first,
   last |-> IF e.seq > acc.last.seq THEN e ELSE acc.last]
NewAcc(e) == [count |-> 1, levels |-> (e.level :> 1), first |-> e, last |-> e]

(* GroupMap::observe: past the cap a new key folds whole. *)
ObserveGroup(q, g, e) ==
  LET key == KeyOf(q, e)
      folds == ~Exempt(key) /\ key \notin DOMAIN g.accs /\ Cardinality(DOMAIN g.accs) >= KeyCap
      at == IF folds THEN [i \in DOMAIN key |-> Overflow] ELSE key
      is(i, what) == IF Extract(q, e, i).t = what THEN 1 ELSE 0
  IN  IF q.axis = "none" THEN [g EXCEPT !.matched = @ + 1]
      ELSE [matched |-> g.matched + 1,
            capped |-> g.capped \/ folds,
            present |-> [i \in DOMAIN key |-> g.present[i] + is(i, "value")],
            structured |-> [i \in DOMAIN key |-> g.structured[i] + is(i, "structured")],
            alt |-> g.alt + IF q.axis # "field" /\ q.axis \in DOMAIN e.extra THEN 1 ELSE 0,
            accs |-> (at :> IF at \in DOMAIN g.accs THEN Ends(g.accs[at], e) ELSE NewAcc(e)) @@ g.accs]

GroupMap(q, entries) ==
  FoldLeft(LAMBDA g, e : ObserveGroup(q, g, e),
           [matched |-> 0, capped |-> FALSE, alt |-> 0, accs |-> Empty,
            present |-> [i \in 1..Members(q) |-> 0], structured |-> [i \in 1..Members(q) |-> 0]],
           entries)

(* GroupMap::suppressed: the members a reader must not take the rows for;  *)
(* the remedy is the same name as an additional field.                     *)
SuppressedMembers(q, g) ==
  IF g.matched = 0 \/ q.axis = "none" THEN {}
  ELSE {[member |-> i, remedy |-> g.structured[i] = 0 /\ g.alt > 0]
          : i \in {j \in 1..Members(q) : g.structured[j] > 0 \/ g.present[j] = 0}}

(* GroupMap::finish: the real rows ranked and cut to top_n, the reserved   *)
(* buckets after them and outside that budget.  Rows that tie are ordered  *)
(* by their oldest record.                                                 *)
Finish(q, g) ==
  LET reserved == {k \in DOMAIN g.accs : Exempt(k)}
      before(a, b) == \/ g.accs[a].count > g.accs[b].count
                      \/ g.accs[a].count = g.accs[b].count /\ g.accs[a].first.seq < g.accs[b].first.seq
      ranked == SetToSortSeq(DOMAIN g.accs \ reserved, before)
      real == SubSeq(ranked, 1, Min({q.top, Len(ranked)}))
      at(member) == SetToSeq({k \in reserved : IsReserved(k, member)})
  IN  real \o at(Absent) \o at(Overflow)

GroupReply(q, entries) ==
  LET g == GroupMap(q, entries)
  IN  [kind |-> "groups", q |-> q, matched |-> g.matched, capped |-> g.capped,
       total |-> Cardinality(DOMAIN g.accs), suppressed |-> SuppressedMembers(q, g),
       rows |-> LET keys == Finish(q, g) IN [i \in DOMAIN keys |-> [key |-> keys[i]] @@ g.accs[keys[i]]]]
-----------------------------------------------------------------------------
(* logs.fields *)

(* merge_kind: integers and floats are one quantity. *)
MergeKind(a, b) ==
  CASE a = b -> a
    [] a # b /\ {a, b} \subseteq {"integer", "float", "number"} -> "number"
    [] OTHER -> "mixed"

(* FieldMap::new seeds the built-ins, so one nobody sends has a row. *)
SeededRows == {<<"builtin", name>> : name \in BuiltinAxes}
NewField(kind) == [present |-> 0, counts |-> Empty, capped |-> FALSE, kind |-> kind]

(* Acc::observe: past the cap only the known values are counted. *)
ObserveValue(acc, text, kind) ==
  LET learns == text \in DOMAIN acc.counts \/ Cardinality(DOMAIN acc.counts) < KeyCap
  IN  [present |-> acc.present + 1,
       kind |-> IF acc.kind = "unknown" THEN kind ELSE MergeKind(acc.kind, kind),
       capped |-> acc.capped \/ ~learns,
       counts |-> IF learns THEN Bump(acc.counts, text) ELSE acc.counts]

(* FieldMap::bump: names are capped as values are. *)
BumpField(m, row, text, kind) ==
  IF row \notin DOMAIN m.rows /\ Cardinality(DOMAIN m.rows) >= NameCap
  THEN [m EXCEPT !.capped = TRUE]
  ELSE LET acc == IF row \in DOMAIN m.rows THEN m.rows[row] ELSE NewField("unknown")
       IN  [m EXCEPT !.rows = (row :> ObserveValue(acc, text, kind)) @@ @]

(* What FieldMap::observe bumps for one record; the order of the           *)
(* additional fields is a hash map's.                                      *)
Observed(e) ==
  <<[row |-> <<"builtin", "level">>, text |-> e.level, kind |-> "string"]>>
  \o (IF e.host = "" THEN <<>> ELSE <<[row |-> <<"builtin", "host">>, text |-> e.host, kind |-> "string"]>>)
  \o (IF e.file = "" THEN <<>> ELSE <<[row |-> <<"builtin", "file">>, text |-> e.file, kind |-> "string"]>>)
  \o LET names == SetToSeq(DOMAIN e.extra)
     IN  [i \in DOMAIN names |-> [row |-> <<"additional", names[i]>>, text |-> e.extra[names[i]].text,
                                  kind |-> e.extra[names[i]].kind]]

FieldMap(entries) ==
  FoldLeft(LAMBDA m, e : FoldLeft(LAMBDA n, o : BumpField(n, o.row, o.text, o.kind), m, Observed(e)),
           [capped |-> FALSE, rows |-> [r \in SeededRows |-> NewField("string")]], entries)

(* FieldMap::finish: the distinct count is unknown past the cap. *)
FieldReply(q, entries) ==
  LET m == FieldMap(entries)
  IN  [kind |-> "fields", q |-> q, matched |-> Len(entries), names_capped |-> m.capped,
       rows |-> [r \in DOMAIN m.rows |->
                   [present |-> m.rows[r].present, kind |-> m.rows[r].kind, counts |-> m.rows[r].counts,
                    distinct |-> IF m.rows[r].capped THEN -1 ELSE Cardinality(DOMAIN m.rows[r].counts)]]]
-----------------------------------------------------------------------------
(* traces.slow *)

Longest(ss) == Max({ss[k].duration : k \in DOMAIN ss})
Named(name) == SelectSeq(spans, LAMBDA s : s.name = name)

(* duration_by_name: every span of the name. *)
Durations(q, name) == Named(name)

(* The grouped arm: the floor chooses which names to show. *)
SlowReply(q) ==
  LET names == {n \in {spans[k].name : k \in DOMAIN spans} :
                  Durations(q, n) # <<>> /\ Longest(Durations(q, n)) >= q.floor}
  IN  [kind |-> "slow", q |-> q, population |-> Len(spans),
       rows |-> [n \in names |-> [count |-> Len(Durations(q, n)), max |-> Longest(Durations(q, n)),
                                  total |-> FoldLeft(LAMBDA t, s : t + s.duration, 0, Durations(q, n))]]]
-----------------------------------------------------------------------------
(* The handlers *)

Matching(q) == SelectSeq(ring, LAMBDA e : q.level = "any" \/ e.level = q.level)

(* require_evidence: a loaded case that omitted the evidence cannot answer. *)
Answerable(q) == (IF q.method \in {"traces.slow", "spans.export"} THEN "spans" ELSE "logs") # evidence

(* logs.profile's own refusals. *)
WellAsked(q) ==
  q.method = "logs.profile" =>
    /\ Len(q.keys) <= MaxKeys
    /\ (q.axis = "field") = (q.keys # <<>>)

TakesCursor(q) == q.method \in {"logs.recent", "logs.export", "traces.logs"}

(* Mutant of CursorRefused: asked after the filter is resolved. *)
CursorRefusedLate(q) == FALSE

(* contains_cursor_qualifier, asked before the filter is resolved. *)
CursorRefused(q) == ~TakesCursor(q) /\ q.cursor # ""

(* resolve_bookmarks: a bookmark must exist, a cursor is created. *)
Resolved(q) == q.bookmark = "" \/ q.bookmark \in bookmarks
Touched(q) == IF q.cursor = "" THEN bookmarks ELSE bookmarks \cup {q.cursor}

Reply(q) ==
  CASE ~TakesCursor(q) /\ q.cursor # "" -> Refused
    [] q.method = "logs.profile" -> GroupReply(q, Matching(q))
    [] q.method = "logs.fields" -> FieldReply(q, Matching(q))
    [] q.method = "traces.slow" -> SlowReply(q)
    [] OTHER -> [kind |-> "records", q |-> q]

(* A read: refused, or answered from the rings as they are. *)
Read(q) ==
  /\ IF Answerable(q) /\ WellAsked(q) /\ ~CursorRefused(q) /\ Resolved(q)
     THEN reply' = Reply(q) /\ bookmarks' = Touched(q)
     ELSE reply' = Refused /\ UNCHANGED bookmarks
  /\ UNCHANGED <<ring, spans, evidence>>

Log(r) ==
  /\ Len(ring) + Len(spans) < MaxHeld
  /\ ring' = Append(ring, [seq |-> Len(ring) + 1] @@ r)
  /\ reply' = Silent
  /\ UNCHANGED <<spans, bookmarks, evidence>>

Trace(s) ==
  /\ Len(ring) + Len(spans) < MaxHeld
  /\ spans' = Append(spans, s)
  /\ reply' = Silent
  /\ UNCHANGED <<ring, bookmarks, evidence>>

(* bookmarks.add *)
Mark(name) ==
  /\ bookmarks' = bookmarks \cup {name}
  /\ reply' = Silent
  /\ UNCHANGED <<ring, spans, evidence>>

ReadInit ==
  /\ ring = <<>> /\ spans = <<>> /\ bookmarks = {} /\ reply = Silent
  /\ evidence \in {"all", "logs", "spans"}

ReadNext ==
  \/ \E r \in Records : Log(r)
  \/ \E s \in SpanRecords : Trace(s)
  \/ Mark("mark")
  \/ \E q \in Queries : reply = Silent /\ Read(q)

ReadSpec == ReadInit /\ [][ReadNext]_readVars
-----------------------------------------------------------------------------
ToldAt(entries) == {entries[k] : k \in DOMAIN entries}

GroupRowsWhole(r) ==
  LET all == ToldAt(Matching(r.q))
      keyed(key) == {e \in all : KeyOf(r.q, e) = key}
      rowKeys == {r.rows[k].key : k \in DOMAIN r.rows}
      shown == {k \in DOMAIN r.rows : ~Exempt(r.rows[k].key)}
      cut == r.total > Cardinality(rowKeys)
  IN  r.q.axis # "none" =>
        /\ \A k \in DOMAIN r.rows :
             LET row == r.rows[k]
                 its == IF IsReserved(row.key, Overflow) THEN {e \in all : KeyOf(r.q, e) \notin rowKeys}
                        ELSE keyed(row.key)
             IN  ~(cut /\ IsReserved(row.key, Overflow)) =>
                   /\ row.count = Cardinality(its)
                   /\ row.first \in its /\ row.last \in its
                   /\ \A e \in its : row.first.seq <= e.seq /\ e.seq <= row.last.seq
        /\ cut => Cardinality(shown) = r.q.top
        /\ \A e \in all : IsReserved(KeyOf(r.q, e), Absent) => KeyOf(r.q, e) \in rowKeys
        /\ r.capped <=> \E key \in rowKeys : IsReserved(key, Overflow)
        /\ \A i \in 1..Members(r.q) :
             (all # {} /\ \A e \in all : KeyOf(r.q, e)[i] = Absent)
               => \E s \in r.suppressed : s.member = i

FieldRowsWhole(r) ==
  LET all == ToldAt(Matching(r.q))
      has(e, row) == \E k \in DOMAIN Observed(e) : Observed(e)[k].row = row
      valued(e, row, text) == \E k \in DOMAIN Observed(e) : Observed(e)[k].row = row /\ Observed(e)[k].text = text
  IN  /\ SeededRows \subseteq DOMAIN r.rows
      /\ \A row \in DOMAIN r.rows :
           /\ r.rows[row].present = Cardinality({e \in all : has(e, row)})
           /\ \A text \in DOMAIN r.rows[row].counts :
                r.rows[row].counts[text] = Cardinality({e \in all : valued(e, row, text)})
           /\ r.rows[row].distinct # -1 =>
                \A e \in all : has(e, row) => \E t \in DOMAIN r.rows[row].counts : valued(e, row, t)
      /\ ~r.names_capped =>
           \A e \in all : \A k \in DOMAIN Observed(e) : Observed(e)[k].row \in DOMAIN r.rows

(* A row speaks for its whole population: a row of logs.profile counts     *)
(* every matched record with its key and shows that population's own ends, *)
(* the records without the axis are in a row of their own however full the *)
(* table was, and an axis no record has is announced; a row of logs.fields *)
(* counts every record with that field and each value it lists; a name     *)
(* traces.slow shows is described by all of its spans, not by the slow     *)
(* ones among them.                                                        *)
RowsDescribeAll ==
  /\ reply.kind = "groups" => GroupRowsWhole(reply)
  /\ reply.kind = "fields" => FieldRowsWhole(reply)
  /\ reply.kind = "slow" =>
       \A n \in DOMAIN reply.rows :
         /\ reply.rows[n].count = Len(Named(n))
         /\ reply.rows[n].max = Longest(Named(n))

(* A method that takes no cursor refuses one before it resolves the        *)
(* filter: the refusal leaves no bookmark behind.                          *)
RefusalLeavesNothing ==
  [][reply' = Refused => bookmarks' = bookmarks]_readVars
=============================================================================
