--------------------------------- MODULE Wire ---------------------------------
(***************************************************************************)
(* What a record on the wire becomes: a GELF message (parse_gelf_message), *)
(* an OTLP log record or span over gRPC (the two export services) and over *)
(* HTTP with JSON bodies (parse_json_log_record, parse_json_span).         *)
(*                                                                         *)
(* The two OTLP inputs are written apart, over protobuf values and over    *)
(* JSON ones, and must not differ in what they store.  A JSON object is a  *)
(* function on the names it has.                                           *)
(***************************************************************************)
EXTENDS Integers, Sequences, FiniteSets

CONSTANTS
  GelfMessages, LogRecords, SpanRecords, Resources,   \* what senders send
  Absent,   \* None
  Short     \* an id of too few bytes

VARIABLE arrived    \* what was sent last, and what each input made of it

Nobody == [kind |-> "none"]
Text(v) == [kind |-> "string", v |-> v]
Silent == [via |-> "none"]
NoObject == [k \in {} |-> 0]
NoEntry == [kind |-> "refused"]
Has(obj, k) == k \in DOMAIN obj
Get(obj, k, default) == IF Has(obj, k) THEN obj[k] ELSE default

(* Level::from_syslog, of the number's low byte. *)
FromSyslog(n) ==
  LET b == n % 256
  IN  IF b <= 3 THEN "Error" ELSE IF b = 4 THEN "Warn" ELSE IF b <= 6 THEN "Info" ELSE "Debug"

LevelNames == [ERROR |-> "Error", WARN |-> "Warn", WARNING |-> "Warn", INFO |-> "Info",
               DEBUG |-> "Debug", TRACE |-> "Trace"]

(* severity_to_level *)
SeverityToLevel(n) ==
  CASE n \in 1..4   -> "Trace" [] n \in 5..8   -> "Debug" [] n \in 9..12  -> "Info"
    [] n \in 13..16 -> "Warn"  [] n \in 17..24 -> "Error" [] OTHER -> "Info"

(* map_span_kind, and map_json_span_kind, which repeats it. *)
SpanKind(k) ==
  IF k \in 1..5 THEN <<"internal", "server", "client", "producer", "consumer">>[k]
  ELSE "unspecified"
JsonSpanKind(k) ==
  CASE k = 1 -> "internal" [] k = 2 -> "server" [] k = 3 -> "client"
    [] k = 4 -> "producer" [] k = 5 -> "consumer" [] OTHER -> "unspecified"

(* map_span_status, of an optional protobuf Status. *)
SpanStatus(s) ==
  IF s.code = 2 THEN [type |-> "error", message |-> s.message]
  ELSE [type |-> IF s.code = 1 THEN "ok" ELSE "unset"]

(* map_json_span_status: the object, its code and its message may each be *)
(* absent.                                                                *)
JsonSpanStatus(s) ==
  CASE Get(s, "code", 0) = 1 -> [type |-> "ok"]
    [] Get(s, "code", 0) = 2 -> [type |-> "error", message |-> Get(s, "message", "")]
    [] OTHER -> [type |-> "unset"]
-----------------------------------------------------------------------------
(* GELF. *)

(* Mutant of Promoted: the field is taken out before it is parsed. *)
PromotedFirst(fields, k) == Has(fields, k)

(* parse_promoted: taken out of the fields only when it parses. *)
Promoted(fields, k) == Has(fields, k) /\ fields[k].kind = "hex"

(* parse_gelf_message: host and short_message are required; a field whose  *)
(* name starts with _ is kept under the rest of its name (here: "_x" is    *)
(* the field x of m.extra), _level apart.                                  *)
ParseGelf(m) ==
  IF ~(Has(m, "host") /\ Has(m, "short_message")) THEN NoEntry
  ELSE LET taken(k) == Promoted(m.extra, k)
           named == Get(m, "level_name", Absent)
       IN  [kind    |-> "entry",
            message |-> m.short_message,
            level   |-> IF named \in DOMAIN LevelNames THEN LevelNames[named]
                        ELSE FromSyslog(Get(m, "level", 6)),
            ids     |-> [k \in {i \in {"trace_id", "span_id"} :
                                 taken(i) /\ m.extra[i].kind = "hex"} |-> m.extra[k].id],
            fields  |-> [k \in {x \in DOMAIN m.extra :
                                  ~(x \in {"trace_id", "span_id"} /\ taken(x))} |-> m.extra[k]]]
-----------------------------------------------------------------------------
(* OTLP values.  A protobuf AnyValue is [kind, v], here with scalars only  *)
(* inside an array or a list of pairs; the JSON body gives a value under   *)
(* the key of its kind, an integer as a string or as a number.             *)

Value(kind, v) == [json |-> kind, v |-> v]
Scalar(a) == IF a.kind = "bytes" THEN Value("string", <<"hex", a.v>>) ELSE Value(a.kind, a.v)

(* A function on the keys whose values are given. *)
Given(pairs) == {k \in DOMAIN pairs : pairs[k].kind # "none"}

(* any_value_to_json *)
AnyValueToJson(a) ==
  CASE a.kind = "array"  ->
         LET items == SelectSeq(a.v, LAMBDA x : x.kind # "none")
         IN  Value("array", [i \in DOMAIN items |-> Scalar(items[i])])
    [] a.kind = "kvlist" -> Value("object", [k \in Given(a.v) |-> Scalar(a.v[k])])
    [] OTHER             -> Scalar(a)

(* attrs_to_json_map: an attribute with no value is left out. *)
AttrsToJsonMap(attrs) == [k \in Given(attrs) |-> AnyValueToJson(attrs[k])]

(* Mutant of Integer: an integer sent as a string stays one. *)
IntegerText(n) == Value(IF n.text THEN "string" ELSE "int", n.v)

Integer(n) == Value("int", n.v)

Null == Value("null", 0)
JsonScalar(o) ==
  IF Has(o, "stringValue") THEN Value("string", o.stringValue)
  ELSE IF Has(o, "intValue") THEN Integer(o.intValue)
  ELSE IF Has(o, "doubleValue") THEN Value("double", o.doubleValue)
  ELSE IF Has(o, "boolValue") THEN Value("bool", o.boolValue) ELSE Null

(* json_attr_to_json_value: the first known key of a value. *)
JsonAttr(o) ==
  IF JsonScalar(o) # Null THEN JsonScalar(o)
  ELSE IF Has(o, "arrayValue")
    THEN Value("array", [i \in DOMAIN o.arrayValue |-> JsonScalar(o.arrayValue[i])])
  ELSE IF Has(o, "kvlistValue")
    THEN Value("object", [k \in DOMAIN o.kvlistValue |-> JsonScalar(o.kvlistValue[k])])
  ELSE Null

(* json_attrs_to_map *)
JsonAttrsToMap(attrs) == [k \in DOMAIN attrs |-> JsonAttr(attrs[k])]

(* bytes_to_trace_id and bytes_to_span_id: the right length, and not zero; *)
(* hex_to_trace_id and hex_to_span_id: not zero.                           *)
Usable(id) == id \notin {Absent, Short, 0}
Id(id) == IF Usable(id) THEN id ELSE Absent
HexUsable(id) == id \notin {Absent, 0}
HexId(id) == IF HexUsable(id) THEN id ELSE Absent
Named(resource, k) == Get(resource, k, "unknown")   \* extract_resource_attrs

(* map_span_events and map_json_span_events *)
SpanEvents(es) ==
  [i \in DOMAIN es |-> [name |-> es[i].name, time |-> es[i].time,
                        fields |-> AttrsToJsonMap(es[i].attributes)]]
JsonSpanEvents(es) ==
  [i \in DOMAIN es |-> [name |-> Get(es[i], "name", ""), time |-> Get(es[i], "timeUnixNano", 0),
                        fields |-> JsonAttrsToMap(Get(es[i], "attributes", NoObject))]]
-----------------------------------------------------------------------------
(* The log record r of a resource, over gRPC (LogsService::export): the   *)
(* message is the text format_any_value gives the body.                   *)
GrpcLog(r, resource) ==
  IF r.body \in {Nobody, Text("")} THEN NoEntry
  ELSE [kind |-> "entry", message |-> r.body, level |-> SeverityToLevel(r.severity),
        time |-> IF r.time > 0 THEN r.time ELSE "now",
        host |-> Named(resource, "host.name"), facility |-> Named(resource, "service.name"),
        fields |-> AttrsToJsonMap(r.attributes), trace |-> Id(r.trace), span |-> Id(r.span)]

(* The same over HTTP (parse_json_log_record): a key may be absent, and a  *)
(* body that is not a string is an empty one.                              *)
HttpLog(o, resource) ==
  LET text == Get(Get(o, "body", NoObject), "stringValue", "")
      time == Get(o, "timeUnixNano", 0)
  IN  IF text = "" THEN NoEntry
      ELSE [kind |-> "entry", message |-> Text(text),
            level |-> SeverityToLevel(Get(o, "severityNumber", 0)),
            time |-> IF time > 0 THEN time ELSE "now",
            host |-> Named(resource, "host.name"), facility |-> Named(resource, "service.name"),
            fields |-> JsonAttrsToMap(Get(o, "attributes", NoObject)),
            trace |-> HexId(Get(o, "traceId", Absent)), span |-> HexId(Get(o, "spanId", Absent))]

(* The span s over gRPC (TraceService::export). *)
GrpcSpan(s, resource) ==
  IF ~Usable(s.trace) \/ ~Usable(s.span) \/ s.name = "" THEN NoEntry
  ELSE [kind |-> "entry", trace |-> s.trace, span |-> s.span, parent |-> Id(s.parent),
        name |-> s.name, duration |-> s.end - s.start, spanKind |-> SpanKind(s.kind),
        service |-> Named(resource, "service.name"), status |-> SpanStatus(s.status),
        fields |-> AttrsToJsonMap(s.attributes), events |-> SpanEvents(s.events)]

(* The same over HTTP (parse_json_span). *)
HttpSpan(o, resource) ==
  IF \/ ~HexUsable(Get(o, "traceId", Absent)) \/ ~HexUsable(Get(o, "spanId", Absent))
     \/ Get(o, "name", "") = ""
    THEN NoEntry
  ELSE [kind |-> "entry", trace |-> o.traceId, span |-> o.spanId,
        parent |-> HexId(Get(o, "parentSpanId", Absent)),
        name |-> o.name, duration |-> Get(o, "endTimeUnixNano", 0) - Get(o, "startTimeUnixNano", 0),
        spanKind |-> JsonSpanKind(Get(o, "kind", 0)),
        service |-> Named(resource, "service.name"),
        status |-> JsonSpanStatus(Get(o, "status", NoObject)),
        fields |-> JsonAttrsToMap(Get(o, "attributes", NoObject)),
        events |-> JsonSpanEvents(Get(o, "events", <<>>))]
-----------------------------------------------------------------------------
(* The JSON a sender writes for the same record (the protobuf JSON         *)
(* mapping): a key whose value is the default is left out.                 *)
With(k, v, default) == [x \in IF v = default THEN {} ELSE {k} |-> v]
Merge(f, g) == [x \in DOMAIN f \cup DOMAIN g |-> IF x \in DOMAIN f THEN f[x] ELSE g[x]]

ScalarKey == [string |-> "stringValue", int |-> "intValue", double |-> "doubleValue",
              bool |-> "boolValue", bytes |-> "bytesValue"]
JsonOf(a, text) ==
  CASE a.kind = "none" -> NoObject
    [] a.kind = "int"  -> [k \in {"intValue"} |-> [text |-> text, v |-> a.v]]
    [] OTHER           -> [k \in {ScalarKey[a.kind]} |-> a.v]
JsonAny(a, text) ==
  CASE a.kind = "array"  -> [k \in {"arrayValue"} |-> [i \in DOMAIN a.v |-> JsonOf(a.v[i], text)]]
    [] a.kind = "kvlist" -> [k \in {"kvlistValue"} |-> [x \in DOMAIN a.v |-> JsonOf(a.v[x], text)]]
    [] OTHER             -> JsonOf(a, text)
JsonAttributes(attrs, text) ==
  With("attributes", [k \in DOMAIN attrs |-> JsonAny(attrs[k], text)], NoObject)

JsonLog(r, text) ==
  Merge(With("body", JsonAny(r.body, text), NoObject),
  Merge(With("severityNumber", r.severity, 0),
  Merge(With("timeUnixNano", r.time, 0),
  Merge(With("traceId", r.trace, Absent),
  Merge(With("spanId", r.span, Absent), JsonAttributes(r.attributes, text))))))

JsonEvent(e, text) ==
  Merge(With("name", e.name, ""),
  Merge(With("timeUnixNano", e.time, 0), JsonAttributes(e.attributes, text)))
JsonStatus(s) == Merge(With("code", s.code, 0), With("message", s.message, ""))

JsonSpan(s, text) ==
  Merge(With("traceId", s.trace, Absent),
  Merge(With("spanId", s.span, Absent),
  Merge(With("parentSpanId", s.parent, Absent),
  Merge(With("name", s.name, ""),
  Merge(With("kind", s.kind, 0),
  Merge(With("startTimeUnixNano", s.start, 0),
  Merge(With("endTimeUnixNano", s.end, 0),
  Merge(With("status", JsonStatus(s.status), NoObject),
  Merge(With("events", [i \in DOMAIN s.events |-> JsonEvent(s.events[i], text)], <<>>),
        JsonAttributes(s.attributes, text))))))))))
-----------------------------------------------------------------------------
WireInit == arrived = Silent

ReceiveGelf(m) ==
  arrived' = [via |-> "gelf", sent |-> m, entry |-> ParseGelf(m)]

ReceiveLog(r, resource, text) ==
  arrived' = [via |-> "log", sent |-> r, grpc |-> GrpcLog(r, resource),
              http |-> HttpLog(JsonLog(r, text), resource)]

ReceiveSpan(s, resource, text) ==
  arrived' = [via |-> "span", sent |-> s, grpc |-> GrpcSpan(s, resource),
              http |-> HttpSpan(JsonSpan(s, text), resource)]

WireNext ==
  /\ arrived = Silent
  /\ \/ \E m \in GelfMessages : ReceiveGelf(m)
     \/ \E r \in LogRecords, res \in Resources, text \in BOOLEAN : ReceiveLog(r, res, text)
     \/ \E s \in SpanRecords, res \in Resources, text \in BOOLEAN : ReceiveSpan(s, res, text)

WireSpec == WireInit /\ [][WireNext]_arrived
-----------------------------------------------------------------------------
(* Every additional field of a GELF message is kept: under its own name,   *)
(* or as the id it spelled; one that does not parse as an id is not lost   *)
(* with it (parse_promoted).                                               *)
FieldsKept ==
  arrived.via = "gelf" /\ arrived.entry # NoEntry =>
    \A k \in DOMAIN arrived.sent.extra :
      \/ k \in DOMAIN arrived.entry.fields /\ arrived.entry.fields[k] = arrived.sent.extra[k]
      \/ k \in DOMAIN arrived.entry.ids /\ arrived.entry.ids[k] = arrived.sent.extra[k].id

(* The values and ids both inputs have a form for: not bytes, not a value *)
(* left empty, not a body other than text, not an id of the wrong length. *)
PlainScalar(a) == a.kind \notin {"none", "bytes"}
PlainValue(a) ==
  CASE a.kind \in {"array", "kvlist"} -> \A i \in DOMAIN a.v : PlainScalar(a.v[i])
    [] OTHER -> PlainScalar(a)
PlainAttrs(attrs) == \A k \in DOMAIN attrs : PlainValue(attrs[k])
Plain(r) ==
  /\ PlainAttrs(r.attributes)
  /\ Short \notin {r.trace, r.span}
  /\ "body" \in DOMAIN r => r.body.kind \in {"none", "string"}
  /\ "events" \in DOMAIN r => \A i \in DOMAIN r.events : PlainAttrs(r.events[i].attributes)
  /\ "parent" \in DOMAIN r => r.parent # Short

(* A record both inputs have a form for is stored, or refused, alike over  *)
(* gRPC and over HTTP, its keys left out or not, its integers as strings   *)
(* or as numbers (grpc.rs and http.rs, written apart).                     *)
TransportsAgree ==
  arrived.via \in {"log", "span"} /\ Plain(arrived.sent) => arrived.grpc = arrived.http
=============================================================================
