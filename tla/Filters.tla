------------------------------- MODULE Filters -------------------------------
(***************************************************************************)
(* The filter language (core/src/filter, sdk/src/filter.rs): the typed     *)
(* builder a client writes a filter with, the parser that reads the text,  *)
(* the matchers over logs and spans, the admission of a collector's        *)
(* filter, and the seq window a resolved filter selects.                   *)
(*                                                                         *)
(* Text is a sequence of symbols: the separators of the language are       *)
(* symbols of their own, and a word that no rule looks into (a level, a    *)
(* selector, a number) is one symbol.  The regular expressions of the      *)
(* model have no metacharacter, so one matches where its source occurs.    *)
(***************************************************************************)
EXTENDS Integers, Sequences, FiniteSets, SequencesExt, FiniteSetsExt

CONSTANTS
  Calls,      \* the builder calls a client may make
  MaxCalls,   \* how many calls one filter may take
  Fields,     \* names an emitter may give an additional field
  Spans,      \* spans a filter is matched against
  Entries,    \* logs a filter is matched against
  Bounds,     \* sequences of seq qualifiers a query may resolve to
  Ranges,     \* explicit from_seq/to_seq pairs
  Seqs        \* the seqs a record may have: neither 0 nor the largest u64

VARIABLES
  calls,      \* the builder's calls so far
  qualifiers, \* FilterBuilder::qualifiers, the text of each
  field,      \* the name of an additional field some log has
  asked,      \* the seq qualifiers a query resolved to, and its range
  window      \* its filter with the range lowered in

filterVars == <<calls, qualifiers, field, asked, window>>

Refused == [kind |-> "error"]
All == [kind |-> "all"]
Nothing == [kind |-> "none"]
Unset == -1
U64Max == Max(Seqs) + 1

(* The durations no span has. *)
Inf == 1000
NaN == -2000
-----------------------------------------------------------------------------
(* Text *)

Quote == "q"
Escape == "esc"
HasText(s, t) == \E k \in 0..(Len(s) - Len(t)) : SubSeq(s, k + 1, k + Len(t)) = t
Within(s, a, b) == IF a > b THEN <<>> ELSE SubSeq(s, a, b)
Lower(s) == [k \in DOMAIN s |-> IF s[k] = "X" THEN "x" ELSE s[k]]

(* str::trim and trim_matches: what is left between the outermost symbols *)
(* that are not c.                                                        *)
Stripped(s, c) ==
  LET kept == {k \in DOMAIN s : s[k] # c}
  IN  IF kept = {} THEN <<>> ELSE SubSeq(s, Min(kept), Max(kept))
Trim(s) == Stripped(s, " ")
Quoted(s) == Len(s) >= 2 /\ s[1] = Quote /\ s[Len(s)] = Quote
Unquoted(s) == IF Quoted(s) THEN Within(s, 2, Len(s) - 1) ELSE s
-----------------------------------------------------------------------------
(* The builder *)

(* esc: quoted when it holds a comma or a quote, a quote escaped. *)
Esc(v) ==
  IF ToSet(v) \cap {",", Quote} = {} THEN v
  ELSE <<Quote>> \o FlattenSeq([k \in DOMAIN v |-> IF v[k] = Quote THEN <<Escape, Quote>> ELSE <<v[k]>>])
       \o <<Quote>>

RegexLit(r, ci) == <<"/">> \o Stripped(r, "/") \o <<"/">> \o (IF ci THEN <<"i">> ELSE <<>>)

(* A builder method pushes the text of one qualifier. *)
Built(c) ==
  CASE c.call = "match" -> <<c.word>>
    [] c.call = "compare" -> <<c.sel>> \o c.op \o c.value
    [] c.call = "pattern" -> Esc(c.value)
    [] c.call = "pattern_regex" -> RegexLit(c.value, c.ci)
    [] c.call = "select" -> <<c.sel, "=">> \o Esc(c.value)
    [] c.call = "select_regex" -> <<c.sel, "=">> \o RegexLit(c.value, c.ci)

Build(qs) == FlattenSeq([k \in DOMAIN qs |-> IF k = 1 THEN qs[k] ELSE <<",", " ">> \o qs[k]])
-----------------------------------------------------------------------------
(* The parser *)

Levels == [TRACE |-> 1, DEBUG |-> 2, INFO |-> 3, WARN |-> 4, WARNING |-> 4, ERROR |-> 5]
Numbers == [n1 |-> 1, n2 |-> 2, n3 |-> 3, inf |-> Inf, minus_inf |-> -Inf, nan |-> NaN]
LogSelectors == {"m", "fm", "mfm", "h", "fa", "fi", "ln"}
SpanSelectors == {"sn", "sv", "st", "sk"}

(* split_on_commas: the walk, its last token still in `current`. *)
SplitOnCommas(s) ==
  FoldLeft(LAMBDA a, c :
             IF c = "," /\ ~a.quoted
             THEN [a EXCEPT !.tokens = Append(@, a.current), !.current = <<>>]
             ELSE [a EXCEPT !.current = Append(@, c), !.quoted = (c = Quote) # @],
           [tokens |-> <<>>, current |-> <<>>, quoted |-> FALSE], s)

Substring(s) == [kind |-> "substring", text |-> Lower(s)]

(* parse_pattern: up to the LAST slash; what follows it is the flags. *)
ParsePattern(s) ==
  IF s = <<>> \/ Head(s) # "/" THEN Substring(s)
  ELSE LET inner == Tail(s)
           ends == {k \in DOMAIN inner : inner[k] = "/"}
       IN  IF ends = {} THEN [kind |-> "regex", text |-> inner, ci |-> FALSE]
           ELSE [kind |-> "regex", text |-> Within(inner, 1, Max(ends) - 1),
                 ci |-> "i" \in ToSet(Within(inner, Max(ends) + 1, Len(inner)))]

(* A comparison prefix and what is left of the token after it. *)
Compares(t, sel, op) == IsPrefix(<<sel>> \o op, t)
After(t, sel, op) == Within(t, Len(op) + 2, Len(t))
Gte == <<">", "=">>
Lte == <<"<", "=">>
Eq == <<"=">>

Word(s, table) == IF Len(s) = 1 /\ s[1] \in DOMAIN table THEN table[s[1]] ELSE Unset
ValidName(s) == s # <<>> /\ ToSet(s) \cap {" ", "=", ">", "<", ",", Quote, Escape} = {}

ParseLevel(t, op) ==
  LET level == Word(After(t, "l", op), Levels)
  IN  IF level = Unset THEN Refused ELSE [kind |-> "level", op |-> op, level |-> level]

ParseDuration(t, op) ==
  LET n == After(t, "d", op)
  IN  IF Len(n) = 1 /\ n[1] \in DOMAIN Numbers
      THEN [kind |-> "duration", op |-> op, value |-> Numbers[n[1]]] ELSE Refused

ParseMark(t, kind, op) ==
  LET name == Trim(After(t, t[1], op))
  IN  IF ValidName(name) THEN [kind |-> kind, op |-> op, name |-> name] ELSE Refused

(* The selector=pattern branch of parse_token: split at the first `=`. *)
ParseSelected(t) ==
  LET eqs == {k \in DOMAIN t : t[k] = "="}
      lhs == Trim(Within(t, 1, Min(eqs) - 1))
      rhs == Trim(Within(t, Min(eqs) + 1, Len(t)))
  IN  IF lhs[Len(lhs)] \in {">", "<"} THEN Refused
      ELSE [kind |-> "select", sel |-> lhs, pattern |-> ParsePattern(Unquoted(rhs))]

Comparing(t) ==
  Compares(t, "l", Eq) \/ \E sel \in {"l", "d", "b", "c"}, op \in {Gte, Lte} : Compares(t, sel, op)

(* Is it none of the earlier branches, with a selector before the first `=`? *)
Selects(t) ==
  LET eqs == {k \in DOMAIN t : t[k] = "="}
  IN  /\ ~Comparing(t) /\ ~Quoted(t) /\ t[1] # "/"
      /\ eqs # {} /\ Trim(Within(t, 1, Min(eqs) - 1)) # <<>>

ParseToken(t) ==
  CASE Compares(t, "l", Gte) -> ParseLevel(t, Gte)
    [] Compares(t, "l", Lte) -> ParseLevel(t, Lte)
    [] Compares(t, "l", Eq) -> ParseLevel(t, Eq)
    [] Compares(t, "d", Gte) -> ParseDuration(t, Gte)
    [] Compares(t, "d", Lte) -> ParseDuration(t, Lte)
    [] Compares(t, "b", Gte) -> ParseMark(t, "bookmark", Gte)
    [] Compares(t, "b", Lte) -> ParseMark(t, "bookmark", Lte)
    [] Compares(t, "c", Gte) -> ParseMark(t, "cursor", Gte)
    [] Compares(t, "c", Lte) -> Refused
    [] Quoted(t) -> [kind |-> "bare", pattern |-> Substring(Unquoted(t))]
    [] t[1] = "/" -> [kind |-> "bare", pattern |-> ParsePattern(t)]
    [] Selects(t) -> ParseSelected(t)
    [] OTHER -> [kind |-> "bare", pattern |-> Substring(t)]

SelectsOneOf(q, selectors) == q.kind = "select" /\ Len(q.sel) = 1 /\ q.sel[1] \in selectors
IsSpanQualifier(q) == q.kind = "duration" \/ SelectsOneOf(q, SpanSelectors)
IsLogQualifier(q) == q.kind = "level" \/ SelectsOneOf(q, LogSelectors)

ParseFilter(text) ==
  LET input == Trim(text)
      split == SplitOnCommas(input)
      tokens == SelectSeq([k \in 1..(Len(split.tokens) + 1) |->
                             Trim(Append(split.tokens, split.current)[k])],
                          LAMBDA t : t # <<>>)
      qs == [k \in DOMAIN tokens |-> ParseToken(tokens[k])]
  IN  CASE input = <<>> -> Refused
        [] input = <<"ALL">> -> All
        [] input = <<"NONE">> -> Nothing
        [] OTHER ->
             IF \/ split.quoted
                \/ qs = <<>>
                \/ Refused \in ToSet(qs)
                \/ /\ \E q \in ToSet(qs) : IsSpanQualifier(q)
                   /\ \E q \in ToSet(qs) : IsLogQualifier(q)
                \/ Cardinality({k \in DOMAIN qs : qs[k].kind = "cursor"}) > 1
             THEN Refused ELSE [kind |-> "qualifiers", qs |-> qs]

(* contains_bookmark_qualifier, which refuses a registered filter. *)
ContainsBookmark(f) ==
  f.kind = "qualifiers" /\ \E k \in DOMAIN f.qs : f.qs[k].kind \in {"bookmark", "cursor"}

(* Mutant of AdditionalFieldSelector: the reserved names are not asked for. *)
AdditionalFieldSelectorTrusting(name) ==
  name # <<>> /\ ParseFilter(name \o <<"=", "x">>).kind = "qualifiers"

(* additional_field_selector: may a filter spell this field by its name? *)
AdditionalFieldSelector(name) ==
  /\ name # <<>>
  /\ LET f == ParseFilter(name \o <<"=", "x">>)
     IN  /\ f.kind = "qualifiers" /\ Len(f.qs) = 1
         /\ f.qs[1].kind = "select" /\ f.qs[1].sel = name
         /\ ~IsLogQualifier(f.qs[1]) /\ ~IsSpanQualifier(f.qs[1])
-----------------------------------------------------------------------------
(* The matchers *)

(* matches_pattern: a substring ignores case, a regex only when it says so. *)
MatchesPattern(p, text) ==
  CASE p.kind = "substring" -> HasText(Lower(text), Lower(p.text))
    [] p.kind = "regex" /\ p.ci -> HasText(Lower(text), Lower(p.text))
    [] p.kind = "regex" /\ ~p.ci -> HasText(text, p.text)

MatchesSeq(q, s) ==
  CASE q.kind = "after" -> s > q.value
    [] q.kind = "before" -> s < q.value
    [] q.kind = "cursor_seq" -> s > q.value

Compared(op, a, b) == CASE op = Gte -> a >= b [] op = Lte -> a <= b [] op = Eq -> a = b

(* matches_selector: mfm is the message or the full message; a field the   *)
(* log does not have does not match.                                       *)
MatchesSelector(q, e) ==
  LET has(key) == key \in DOMAIN e.fields /\ MatchesPattern(q.pattern, e.fields[key])
  IN  CASE q.sel = <<"mfm">> -> has("m") \/ has("fm")
        [] SelectsOneOf(q, LogSelectors \ {"mfm"}) -> has(q.sel[1])
        [] SelectsOneOf(q, SpanSelectors) -> FALSE
        [] OTHER -> q.sel \in DOMAIN e.extra /\ MatchesPattern(q.pattern, e.extra[q.sel])

(* matches_qualifier: a bare pattern looks into every field. *)
MatchesQualifier(q, e) ==
  CASE q.kind = "bare" -> \/ \E k \in DOMAIN e.fields : MatchesPattern(q.pattern, e.fields[k])
                          \/ \E k \in DOMAIN e.extra : MatchesPattern(q.pattern, e.extra[k])
    [] q.kind = "select" -> MatchesSelector(q, e)
    [] q.kind = "level" -> Compared(q.op, e.level, q.level)
    [] q.kind \in {"duration", "bookmark", "cursor"} -> FALSE
    [] OTHER -> MatchesSeq(q, e.seq)

MatchesEntry(f, e) ==
  CASE f.kind = "all" -> TRUE
    [] f.kind = "none" -> FALSE
    [] OTHER -> \A k \in DOMAIN f.qs : MatchesQualifier(f.qs[k], e)

(* The status of a span, compared with the pattern's own text; an error    *)
(* also matches by its message.                                            *)
MatchesStatus(p, status) ==
  \/ Lower(p.text) = <<status.type>>
  \/ status.type = "error" /\ MatchesPattern(p, status.message)

(* matches_span_qualifier: a bare pattern is the span's name only, and an  *)
(* attribute matches only as a string.                                     *)
MatchesSpanQualifier(q, s) ==
  CASE q.kind = "bare" -> MatchesPattern(q.pattern, s.name)
    [] q.kind = "duration" -> q.value # NaN /\ Compared(q.op, s.duration, q.value)
    [] q.kind \in {"level", "bookmark", "cursor"} -> FALSE
    [] q.kind = "select" ->
         CASE q.sel = <<"sn">> -> MatchesPattern(q.pattern, s.name)
           [] q.sel = <<"sv">> -> MatchesPattern(q.pattern, s.service)
           [] q.sel = <<"sk">> -> MatchesPattern(q.pattern, s.span_kind)
           [] q.sel = <<"st">> -> MatchesStatus(q.pattern, s.status)
           [] SelectsOneOf(q, LogSelectors) -> FALSE
           [] OTHER -> /\ q.sel \in DOMAIN s.attributes
                       /\ s.attributes[q.sel].string
                       /\ MatchesPattern(q.pattern, s.attributes[q.sel].text)
    [] OTHER -> MatchesSeq(q, s.seq)

MatchesSpan(f, s) ==
  CASE f.kind = "all" -> TRUE
    [] f.kind = "none" -> FALSE
    [] OTHER -> \A k \in DOMAIN f.qs : MatchesSpanQualifier(f.qs[k], s)
-----------------------------------------------------------------------------
(* The admission of a collector's filter *)

Impossible(q) ==
  /\ q.kind = "duration"
  /\ q.value = NaN \/ <<q.op, q.value>> \in {<<Gte, Inf>>, <<Lte, -Inf>>}

FiniteDuration(q) == q.kind = "duration" /\ q.value \notin {NaN, Inf, -Inf}

(* Mutant of EmptyInterval: one duration is no interval either. *)
EmptyIntervalWide(qs) ==
  \E j, k \in DOMAIN qs : /\ FiniteDuration(qs[j]) /\ FiniteDuration(qs[k])
                          /\ qs[j].op = Gte /\ qs[k].op = Lte /\ qs[j].value >= qs[k].value

(* The largest lower bound above the smallest upper one. *)
EmptyInterval(qs) ==
  \E j, k \in DOMAIN qs : /\ FiniteDuration(qs[j]) /\ FiniteDuration(qs[k])
                          /\ qs[j].op = Gte /\ qs[k].op = Lte /\ qs[j].value > qs[k].value

(* admit_span_filter: is the filter admitted? *)
Admitted(f) ==
  CASE f.kind = "none" -> FALSE
    [] f.kind = "all" -> TRUE
    [] OTHER -> /\ \A k \in DOMAIN f.qs : ~IsLogQualifier(f.qs[k]) /\ ~Impossible(f.qs[k])
                /\ ~EmptyInterval(f.qs)
-----------------------------------------------------------------------------
(* The window *)

(* The bounds of a resolved filter are strict; u64 arithmetic saturates. *)
SatSub(n) == IF n = 0 THEN 0 ELSE n - 1
SatAdd(n) == IF n = U64Max THEN U64Max ELSE n + 1

(* lower_seq_range: both ends of the range are inclusive. *)
LowerSeqRange(qs, from, to) ==
  qs \o (IF from = Unset THEN <<>> ELSE <<[kind |-> "after", value |-> SatSub(from)]>>)
     \o (IF to = Unset THEN <<>> ELSE <<[kind |-> "before", value |-> SatAdd(to)]>>)

LowerBounds(qs) == {qs[k].value : k \in {j \in DOMAIN qs : qs[j].kind \in {"after", "cursor_seq"}}}
UpperBounds(qs) == {qs[k].value : k \in {j \in DOMAIN qs : qs[j].kind = "before"}}

(* resolved_seq_range: the inclusive window, Unset where it is open. *)
ResolvedSeqRange(qs) ==
  [lo |-> IF LowerBounds(qs) = {} THEN Unset ELSE Max({SatAdd(v) : v \in LowerBounds(qs)}),
   hi |-> IF UpperBounds(qs) = {} THEN Unset ELSE Min({SatSub(v) : v \in UpperBounds(qs)})]

(* Mutant of EvictedBeforeWindow: the strict bound is compared itself. *)
EvictedBeforeWindowStrict(qs, lostBelow) ==
  IF LowerBounds(qs) = {} \/ lostBelow <= Max(LowerBounds(qs)) THEN 0
  ELSE lostBelow - Max(LowerBounds(qs))

(* evicted_before_window: how many seqs of the window are below the floor. *)
EvictedBeforeWindow(qs, lostBelow) ==
  LET from == SatAdd(Max(LowerBounds(qs)))
  IN  IF LowerBounds(qs) = {} \/ lostBelow <= from THEN 0 ELSE lostBelow - from

(* matches_entry_past_cursor, of seqs. *)
MatchesPastCursor(qs, s) == \A k \in DOMAIN qs : qs[k].kind = "cursor_seq" \/ MatchesSeq(qs[k], s)
-----------------------------------------------------------------------------
FilterInit ==
  /\ calls = <<>> /\ qualifiers = <<>>
  /\ field = <<>>
  /\ asked = [bounds |-> <<>>, from |-> Unset, to |-> Unset]
  /\ window = <<>>

(* A client calls a method of the builder. *)
Push(c) ==
  /\ Len(calls) < MaxCalls /\ field = <<>> /\ window = <<>>
  /\ calls' = Append(calls, c)
  /\ qualifiers' = Append(qualifiers, Built(c))
  /\ UNCHANGED <<field, asked, window>>

(* A query with a resolved filter and an explicit range. *)
Ask(bounds, from, to) ==
  /\ calls = <<>> /\ field = <<>> /\ window = <<>>
  /\ asked' = [bounds |-> bounds, from |-> from, to |-> to]
  /\ window' = LowerSeqRange(bounds, from, to)
  /\ UNCHANGED <<calls, qualifiers, field>>

(* logs.fields meets an additional field some emitter named. *)
Discover(name) ==
  /\ calls = <<>> /\ field = <<>> /\ window = <<>>
  /\ field' = name
  /\ UNCHANGED <<calls, qualifiers, asked, window>>

FilterNext ==
  \/ \E c \in Calls : Push(c)
  \/ \E b \in Bounds, r \in Ranges : Ask(b, r[1], r[2])
  \/ \E name \in Fields : Discover(name)

FilterSpec == FilterInit /\ [][FilterNext]_filterVars
-----------------------------------------------------------------------------
Parsed == ParseFilter(Build(qualifiers))

(* "Block only what provably cannot match" (filter/admission.rs): no span  *)
(* matches a collector filter admission refuses, and a filter of durations *)
(* it admits is matched by a span of some duration.                        *)
AdmissionExact ==
  qualifiers # <<>> /\ Parsed # Refused =>
    /\ ~Admitted(Parsed) => \A s \in Spans : ~MatchesSpan(Parsed, s)
    /\ Parsed.kind = "qualifiers" /\ (\A k \in DOMAIN Parsed.qs : Parsed.qs[k].kind = "duration")
         /\ Admitted(Parsed) => \E s \in Spans : MatchesSpan(Parsed, s)

(* The window a verdict is about is the window that was searched: the      *)
(* records a query's seq bounds select, an explicit inclusive range and a  *)
(* cursor among them, are exactly the ones between the ends                *)
(* resolved_seq_range reports; evicted_before_window counts exactly the    *)
(* seqs of that window below the store's floor; and a late record is held  *)
(* to every bound but the cursor's own.                                    *)
WindowIsWhatMatches ==
  LET inside(s) == /\ asked.from # Unset => s >= asked.from
                   /\ asked.to # Unset => s <= asked.to
      explicit(s) == \A k \in DOMAIN asked.bounds :
                       asked.bounds[k].kind # "cursor_seq" => MatchesSeq(asked.bounds[k], s)
      range == ResolvedSeqRange(window)
      lower == LowerBounds(window) # {}
  IN  /\ \A s \in Seqs :
           LET matches == \A k \in DOMAIN window : MatchesSeq(window[k], s)
           IN  /\ matches <=> inside(s) /\ \A k \in DOMAIN asked.bounds : MatchesSeq(asked.bounds[k], s)
               /\ matches <=> (range.lo # Unset => s >= range.lo) /\ (range.hi # Unset => s <= range.hi)
               /\ MatchesPastCursor(window, s) <=> inside(s) /\ explicit(s)
      /\ \A floor \in Seqs \cup {0} :
           EvictedBeforeWindow(window, floor) =
             IF lower THEN Cardinality({s \in Seqs : s >= range.lo /\ s < floor}) ELSE 0

(* The field map's selector (additional_field_selector): where it offers a *)
(* name, a filter spelled with that name selects on that additional field  *)
(* of every log, and never on a built-in the name would shadow.            *)
SelectorReaches ==
  AdditionalFieldSelector(field) =>
    \A e \in Entries :
      MatchesEntry(ParseFilter(field \o <<"=", "x">>), e)
        <=> field \in DOMAIN e.extra /\ HasText(Lower(e.extra[field]), <<"x">>)

(* What a builder call asks for. *)
Meaning(c) ==
  CASE c.call = "pattern" -> [kind |-> "bare", pattern |-> Substring(c.value)]
    [] c.call = "select" -> [kind |-> "select", sel |-> <<c.sel>>, pattern |-> Substring(c.value)]
    [] c.call = "pattern_regex" ->
         [kind |-> "bare", pattern |-> [kind |-> "regex", text |-> Stripped(c.value, "/"), ci |-> c.ci]]
    [] c.call = "select_regex" ->
         [kind |-> "select", sel |-> <<c.sel>>,
          pattern |-> [kind |-> "regex", text |-> Stripped(c.value, "/"), ci |-> c.ci]]

(* "The builder produces strings that round-trip cleanly through           *)
(* core::filter::parser::parse_filter" (sdk/src/filter.rs): the filter of  *)
(* one pattern call parses to that pattern.                                *)
BuilderRoundTrips ==
  Len(calls) = 1 /\ calls[1].call \notin {"match", "compare"}
    => Parsed = [kind |-> "qualifiers", qs |-> <<Meaning(calls[1])>>]
=============================================================================
