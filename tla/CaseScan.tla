------------------------------ MODULE CaseScan ------------------------------
(***************************************************************************)
(* The front matter of a case as text (cases/read.rs, cases/document.rs,   *)
(* yaml_str): what the document's emitter writes, the scanner that reads a *)
(* line's value back, and the fields taken out of the values.              *)
(*                                                                         *)
(* Text is a sequence of characters.  The scanner is a step machine with a *)
(* stack of the flow collections it is inside; a step is one iteration of  *)
(* a collection's loop, or one value.  Its input is either emitted by the  *)
(* project itself or any text at all: a case arrives from another machine. *)
(***************************************************************************)
EXTENDS Integers, Sequences, FiniteSets, SequencesExt, FiniteSetsExt, TLC

CONSTANTS
  Emitted,    \* values whose text is scanned
  Foreign,    \* texts nobody emitted
  Documents   \* front matters written and read back

VARIABLES
  text,    \* the rest of a front-matter line
  i,       \* Cur::i, the next character
  stack,   \* the collections the scanner is inside, the innermost last
  result,  \* the value, "failed", or Pending
  source,  \* the value the text was emitted from, or Pending
  steps    \* history: how many steps the scan took

scanVars == <<text, i, stack, result, source, steps>>

Pending == [t |-> "pending"]
Failed == [t |-> "failed"]
Quote == "'"
Escape == "/"
Break == "nl"
Omitted == -1
-----------------------------------------------------------------------------
(* The emitter *)

(* yaml_str: the escape, the quote and the line breaks are escaped. *)
Escaped(c) ==
  CASE c = Escape -> <<Escape, Escape>>
    [] c = Quote -> <<Escape, Quote>>
    [] c = Break -> <<Escape, "n">>
    [] OTHER -> <<c>>

YamlStr(s) == <<Quote>> \o FlattenSeq([k \in DOMAIN s |-> Escaped(s[k])]) \o <<Quote>>

Joined(parts) ==
  FlattenSeq([k \in DOMAIN parts |-> IF k = 1 THEN parts[k] ELSE <<",", " ">> \o parts[k]])

(* The shapes front_matter writes: a quoted scalar, a bare word, a         *)
(* sequence of strings, a mapping of quoted keys to strings.               *)
Emit(v) ==
  CASE v.t = "str" -> YamlStr(v.s)
    [] v.t = "bare" -> v.s
    [] v.t = "seq" -> <<"[">> \o Joined([k \in DOMAIN v.v |-> YamlStr(v.v[k].s)]) \o <<"]">>
    [] v.t = "map" ->
         LET keys == SetToSeq(DOMAIN v.v)
         IN  <<"{">> \o Joined([k \in DOMAIN keys |->
                                 YamlStr(keys[k]) \o <<":", " ">> \o YamlStr(v.v[keys[k]].s)])
             \o <<"}">>
-----------------------------------------------------------------------------
(* The scanner's tokens *)

At(k) == IF k <= Len(text) THEN text[k] ELSE "end"

SkipWs(k) == Min({j \in k..(Len(text) + 1) : At(j) # " "})

(* Mutant of EndOfQuoted: an escaped quote ends the string. *)
EndOfQuotedFirst(k) ==
  LET ends == {j \in k..Len(text) : text[j] = Quote} IN IF ends = {} THEN 0 ELSE Min(ends)

(* quoted: the place of the closing quote of a string whose first          *)
(* character is at k, or 0; an escape takes the next character with it.    *)
EndOfQuoted(k) ==
  LET end[j \in 1..(Len(text) + 2)] ==
        CASE j > Len(text) -> 0
          [] j <= Len(text) /\ text[j] = Quote -> j
          [] j <= Len(text) /\ text[j] = Escape -> end[j + 2]
          [] OTHER -> end[j + 1]
  IN  end[k]

(* unescape: an escape the emitter never writes is an error. *)
Unescaped(raw) ==
  LET known == (Escape :> Escape) @@ (Quote :> Quote) @@ ("n" :> Break)
      bad(k) == raw[k] = Escape /\ (k = Len(raw) \/ raw[k + 1] \notin DOMAIN known)
      from[k \in 1..(Len(raw) + 2)] ==
        CASE k > Len(raw) -> <<>>
          [] k <= Len(raw) /\ bad(k) -> <<"bad">>
          [] k <= Len(raw) /\ raw[k] = Escape /\ ~bad(k) -> <<known[raw[k + 1]]>> \o from[k + 2]
          [] OTHER -> <<raw[k]>> \o from[k + 1]
  IN  from[1]

(* A quoted scalar at k: its value and where it ends. *)
Quoted(k) ==
  LET end == EndOfQuoted(k + 1)
      s   == IF end = 0 THEN <<"bad">> ELSE Unescaped(SubSeq(text, k + 1, end - 1))
  IN  IF "bad" \in ToSet(s) THEN [ok |-> FALSE] ELSE [ok |-> TRUE, s |-> s, next |-> end + 1]

Trim(s) ==
  LET ink == {k \in DOMAIN s : s[k] # " "}
  IN  IF ink = {} THEN <<>> ELSE SubSeq(s, Min(ink), Max(ink))

(* A bare token from k up to one of the stops, which is not consumed. *)
Bare(k, stops) ==
  LET end == Min({j \in k..(Len(text) + 1) : At(j) \in stops \cup {"end"}})
  IN  [s |-> Trim(SubSeq(text, k, end - 1)), next |-> end]
-----------------------------------------------------------------------------
(* The machine *)

ScanInit ==
  /\ i = 1 /\ stack = <<>> /\ result = Pending /\ steps = 0
  /\ \/ \E v \in Emitted : source = v /\ text = Emit(v)
     \/ source = Pending /\ text \in Foreign

Fail == result' = Failed /\ UNCHANGED <<i, stack>>

Top == Last(stack)

(* Mutant of Stuck: the loop goes on although nothing was consumed. *)
StuckNever(before, k) == FALSE

(* flow_seq's guard: an item that consumed nothing. *)
Stuck(before, k) == k = before

(* A value ends at k: it is the result, an item of the sequence it is in,  *)
(* or the value of the mapping's key.                                      *)
Deliver(frames, v, k) ==
  IF frames = <<>> THEN result' = v /\ i' = k /\ stack' = frames
  ELSE LET top == Last(frames)
       IN  IF top.t = "seq" /\ Stuck(top.before, k) THEN Fail
           ELSE /\ i' = k
                /\ stack' = Append(Front(frames),
                      IF top.t = "seq" THEN [top EXCEPT !.v = Append(@, v)]
                      ELSE [top EXCEPT !.v = (top.key :> v) @@ @, !.key = <<>>, !.keyed = FALSE])
                /\ UNCHANGED result

(* value at k, under the frames given. *)
Value(frames, k0) ==
  LET k == SkipWs(k0) IN
  CASE At(k) = Quote ->
         LET q == Quoted(k)
         IN  IF q.ok THEN Deliver(frames, [t |-> "str", s |-> q.s], q.next) ELSE Fail
    [] At(k) = "{" -> /\ stack' = Append(frames, [t |-> "map", v |-> [x \in {} |-> 0],
                                                  key |-> <<>>, keyed |-> FALSE])
                      /\ i' = k + 1 /\ UNCHANGED result
    [] At(k) = "[" -> /\ stack' = Append(frames, [t |-> "seq", v |-> <<>>, before |-> 0])
                      /\ i' = k + 1 /\ UNCHANGED result
    [] OTHER -> LET b == Bare(k, {",", "}", "]"})
                IN  Deliver(frames, [t |-> "bare", s |-> b.s], b.next)

(* parse_front_matter's one call of value, for the line. *)
ScanLine ==
  /\ stack = <<>>
  /\ Value(<<>>, i)

(* One iteration of flow_seq. *)
ScanSeq ==
  /\ stack # <<>> /\ Top.t = "seq"
  /\ LET k == SkipWs(i) IN
     CASE At(k) = "end" -> Fail
       [] At(k) = "]" -> Deliver(Front(stack), [t |-> "seq", v |-> Top.v], k + 1)
       [] At(k) = "," -> i' = k + 1 /\ UNCHANGED <<stack, result>>
       [] OTHER -> Value(Append(Front(stack), [Top EXCEPT !.before = k]), k)

(* One iteration of flow_map: the key, then its value. *)
ScanMap ==
  /\ stack # <<>> /\ Top.t = "map"
  /\ LET k == SkipWs(i) IN
     CASE Top.keyed -> Value(stack, k)
       [] ~Top.keyed /\ At(k) = "end" -> Fail
       [] ~Top.keyed /\ At(k) = "}" -> Deliver(Front(stack), [t |-> "map", v |-> Top.v], k + 1)
       [] ~Top.keyed /\ At(k) = "," -> i' = k + 1 /\ UNCHANGED <<stack, result>>
       [] OTHER ->
            LET quoted == At(k) = Quote
                q   == IF quoted THEN Quoted(k) ELSE [ok |-> TRUE] @@ Bare(k, {":", ",", "}"})
                sep == IF q.ok THEN SkipWs(q.next) ELSE k
            IN  IF ~q.ok \/ At(sep) # ":" THEN Fail
                ELSE /\ i' = sep + 1
                     /\ stack' = Append(Front(stack), [Top EXCEPT !.key = q.s, !.keyed = TRUE])
                     /\ UNCHANGED result

ScanNext ==
  /\ result = Pending
  /\ ScanLine \/ ScanSeq \/ ScanMap
  /\ steps' = steps + 1
  /\ UNCHANGED <<text, source>>

ScanSpec == ScanInit /\ [][ScanNext]_scanVars
-----------------------------------------------------------------------------
(* The fields: a front matter is written as keys and read back by them. *)

(* front_matter: the evidence keys are absent when that evidence was       *)
(* omitted; narrowed_by is always written.                                 *)
Keys(d) ==
  LET required == [verdict |-> d.verdict, range |-> d.range, incarnation |->
                     IF d.incarnation = "none" THEN "null" ELSE d.incarnation,
                   format |-> d.format, narrowed_by |-> d.narrowed]
      pointers == {k \in {"logdata", "spandata"} : d[k] # Omitted}
  IN  required @@ [k \in pointers |-> d[k]]

(* file_ref: an absent key means omitted, which is not "none captured". *)
FileRef(top, key) == IF key \in DOMAIN top THEN top[key] ELSE Omitted

(* parse_front_matter: a required key that is missing and a newer format   *)
(* refuse the document, an unknown key is ignored.                         *)
ParseFrontMatter(top, known) ==
  IF ~({"verdict", "range", "incarnation", "format"} \subseteq DOMAIN top) \/ top.format > known
    THEN "refused"
  ELSE [verdict |-> top.verdict, range |-> top.range, format |-> top.format,
        incarnation |-> IF top.incarnation = "null" THEN "none" ELSE top.incarnation,
        narrowed |-> IF "narrowed_by" \in DOMAIN top THEN top.narrowed_by ELSE "unknown",
        logdata |-> FileRef(top, "logdata"), spandata |-> FileRef(top, "spandata")]
-----------------------------------------------------------------------------
(* What was written is read back, whatever characters it holds: the        *)
(* scanner returns each emitted value (yaml_str against unescape, quotes   *)
(* and brackets inside strings included), and the fields of a document are *)
(* those it was written from, omitted evidence and evidence of no records  *)
(* kept apart (read.rs).                                                   *)
ReadsWhatWasWritten ==
  /\ source # Pending /\ result # Pending => result = source
  /\ \A d \in Documents :
       ParseFrontMatter(Keys(d) @@ [later |-> 0], d.format) = d

(* The scanner ends on every text: no more than two steps a character, the *)
(* key and the value of a mapping's entry, and one for the line (flow_seq: *)
(* "every iteration consumes something").                                  *)
ScanEnds == steps <= 2 * Len(text) + 1
=============================================================================
