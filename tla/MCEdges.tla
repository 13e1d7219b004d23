------------------------------- MODULE MCEdges -------------------------------
(* The edges of the broker: its process and state.json, the registry of    *)
(* what agents know about a domain, the OTLP inputs with the span ring     *)
(* behind them, and the throttle on what outsiders can make it log.  Each  *)
(* behaviour is about one of the four, chosen at the start; the others     *)
(* keep still, as they began.                                              *)
EXTENDS Broker, DomainData, Receivers, Throttle

CONSTANTS p1, p2, w1, w2, e1, e2, h1, h2

VARIABLE part

(* The two processes, writers, exporters and threads trade places: the     *)
(* parts that keep still hold none of them.                                *)
Other == p1 :> p2 @@ p2 :> p1 @@ w1 :> w2 @@ w2 :> w1 @@ e1 :> e2 @@ e2 :> e1
           @@ h1 :> h2 @@ h2 :> h1
Symmetry == {[x \in DOMAIN Other |-> IF trade THEN Other[x] ELSE x] : trade \in BOOLEAN}

(* Batches that set, scope, refuse and confirm. *)
Entry(path, value) == [path |-> path, sigil |-> FALSE, value |-> value, ttl |-> "keep"]
SentBatches ==
  {<<Entry(<<"a">>, "v"), Entry(<<"b">>, "v")>>,
   <<Entry(<<"a", "x">>, "v"), Entry(<<"a">>, "malformed")>>,
   <<[Entry(<<"a">>, "v") EXCEPT !.sigil = TRUE]>>,
   <<Entry(<<"logmon">>, "mine")>>,
   <<Entry(<<"a">>, "keep")>>}
Pattern(p) == [path |-> <<p>>, sigil |-> FALSE]
SentPatterns == {Pattern("a"), Pattern("logmon")}

(* A batch of one trace, and one with a span that cannot be parsed. *)
Span(t, root, start, error) ==
  [seq |-> 0, trace |-> t, root |-> root, start |-> start, error |-> error]
SentTraces ==
  {<<Span("t1", TRUE, 2, FALSE), Span("t1", FALSE, 1, TRUE)>>,
   <<[seq |-> -1], Span("t2", FALSE, 1, FALSE)>>,
   <<>>}
SentLogs == {<<[text |-> TRUE], [text |-> FALSE], [text |-> TRUE]>>}

MCInit ==
  /\ part \in {"broker", "data", "spans", "limit"}
  /\ BrokerInit /\ ProvInit /\ RecvInit /\ ThrottleInit

MCNext ==
  /\ \/ part = "broker" /\ BrokerNext /\ UNCHANGED <<provVars, allVars, throttleVars>>
     \/ part = "data" /\ ProvNext /\ UNCHANGED <<brokerVars, allVars, throttleVars>>
     \/ part = "spans" /\ RecvNext /\ UNCHANGED <<brokerVars, provVars, throttleVars>>
     \/ part = "limit" /\ ThrottleNext /\ UNCHANGED <<brokerVars, provVars, allVars>>
  /\ UNCHANGED part

MCSpec == MCInit /\ [][MCNext]_<<part, brokerVars, provVars, allVars, throttleVars>>
=============================================================================
