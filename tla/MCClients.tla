------------------------------ MODULE MCClients ------------------------------
(* What clients wait for: a GELF listener and its connections, the SDK's   *)
(* side of a session, and the requests that make and delete domains.  Each *)
(* behaviour is about one of the three, chosen at the start; the others    *)
(* keep still, and only the chosen one's steps are fair.                   *)
EXTENDS Domains, Reconnect

CONSTANTS c1, c2

VARIABLES part, conn, listening, accepting, connected

(* Every stream of up to six bytes against a limit of two, and a stream    *)
(* with an unreadable message that may stay open.                          *)
AllStreams ==
  {[bytes |-> b, eof |-> TRUE] : b \in UNION {[1..n -> {"m", "0"}] : n \in 0..6}}
    \cup {[bytes |-> <<"m", "0", "b", "0", "m">>, eof |-> e] : e \in BOOLEAN}

Gelf == INSTANCE GelfListeners WITH Conns <- {c1}, Streams <- AllStreams, MaxMessage <- 2,
          SkipChunk <- 2

(* Two requests at a time, GELF on a port of its own or wherever there is  *)
(* room, and room for one domain.                                          *)
GelfOn(port) == [a \in Arms |-> IF a = "gelf" THEN port ELSE 0]
GelfSpecs == {GelfOn(1), GelfOn(AnyPort)}

GelfState == <<conn, listening, accepting, connected>>

MCInit ==
  /\ part \in {"gelf", "client", "domains"}
  /\ Gelf!GelfInit /\ RInit /\ DomInit

MCNext ==
  /\ \/ part = "gelf" /\ Gelf!GelfNext /\ UNCHANGED <<rvars, domVars>>
     \/ part = "client" /\ RNext /\ UNCHANGED <<GelfState, domVars>>
     \/ part = "domains" /\ DomNext /\ UNCHANGED <<GelfState, rvars>>
  /\ UNCHANGED part

(* Every task of the client runs when it can, and the daemon answers what  *)
(* it has read of a connection that stands.                                *)
ClientFairness ==
  /\ WF_rvars(CallStep(c1))
  /\ \A b \in 1..2 :
       /\ WF_rvars(b \in DOMAIN bridge /\ ReaderStep(b))
       /\ WF_rvars(b \in DOMAIN bridge /\ WatcherStep(b))
       /\ WF_rvars(b \in DOMAIN bridge /\ Reply(c1, b))
  /\ \A i \in 1..2 : WF_rvars(LoopStep(i))

MCSpec ==
  /\ MCInit /\ [][MCNext]_<<part, GelfState, rvars, domVars>>
  /\ (part = "gelf" => Gelf!GelfFairness)
  /\ (part = "client" => ClientFairness)
  /\ (part = "domains" => DomFairness)

(* The SDK's side alone. *)
ClientSpec ==
  /\ MCInit /\ part = "client"
  /\ [][MCNext]_<<part, GelfState, rvars, domVars>> /\ ClientFairness

(* A closed stream's messages within the limit got through whole and in    *)
(* order, however the reads cut it (serve_connection), and once the handle *)
(* is dropped every connection ends and is uncounted (TcpListenerHandle).  *)
ConnectionsServed == Gelf!StopEndsAll /\ [](part = "gelf" => Gelf!FramingExact)
=============================================================================
