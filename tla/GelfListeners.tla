---------------------------- MODULE GelfListeners ----------------------------
(***************************************************************************)
(* The GELF inputs of a domain: the TCP accept loop and its connections    *)
(* (gelf/tcp.rs), the UDP loop (gelf/udp.rs), and what a message becomes   *)
(* (parse_gelf_message in gelf/message.rs).                                *)
(*                                                                         *)
(* A connection is a stream of messages ended by NUL, read in bounded      *)
(* memory: a message over the limit is skipped, and counted, and reading   *)
(* goes on behind its NUL.  Dropping the listener's handle ends the accept *)
(* loop and every connection it accepted.  A byte is "0" for NUL, "m" for  *)
(* a byte of a message, "b" for one that leaves its message unreadable.    *)
(***************************************************************************)
EXTENDS Integers, Sequences, FiniteSets, SequencesExt

CONSTANTS
  Conns,        \* connections the listener may accept
  Streams,      \* what senders send: [bytes, eof: whether they then close]
  MaxMessage,   \* MAX_GELF_TCP_MESSAGE_BYTES
  SkipChunk     \* CHUNK

NUL == "0"
Waiting == [pc |-> "waiting"]

VARIABLES
  conn,        \* per connection: where it is, its unread input, what it yielded
  listening,   \* the handle is held
  accepting,   \* the accept loop runs
  connected    \* connected_clients

gelfVars == <<conn, listening, accepting, connected>>

GelfInit ==
  /\ conn = [c \in Conns |-> Waiting]
  /\ listening = TRUE
  /\ accepting = TRUE
  /\ connected = 0

Open(c) == conn[c].pc \in {"reading", "skipping"}
-----------------------------------------------------------------------------
(* The loop may take one more connection after the handle is dropped: its *)
(* select picks either.                                                   *)
Accept(c, s) ==
  /\ accepting
  /\ conn[c] = Waiting
  /\ conn' = [conn EXCEPT ![c] = [pc |-> "reading", sent |-> s, left |-> s.bytes,
                                  got |-> <<>>, bad |-> 0, oversize |-> 0]]
  /\ connected' = connected + 1
  /\ UNCHANGED <<listening, accepting>>

(* take(limit).read_until(NUL): up to a NUL, the limit or the end. *)
ReadUntil(bytes, limit) ==
  LET nuls == {i \in DOMAIN bytes : bytes[i] = NUL /\ i <= limit}
      n    == IF nuls # {} THEN Min(nuls) ELSE IF Len(bytes) <= limit THEN Len(bytes) ELSE limit
  IN  SubSeq(bytes, 1, n)

(* The read returns: it is not waiting for more of an open stream. *)
Ready(c, limit) ==
  LET r == ReadUntil(conn[c].left, limit)
  IN  conn[c].sent.eof \/ Len(r) = limit \/ (r # <<>> /\ Last(r) = NUL)

Rest(c, r) == SubSeq(conn[c].left, Len(r) + 1, Len(conn[c].left))
Ends(c) == [conn[c] EXCEPT !.pc = "closed"]

TooLong(r) == Len(r) > MaxMessage

Unterminated(r) == IF r # <<>> /\ Last(r) = NUL THEN SubSeq(r, 1, Len(r) - 1) ELSE r

(* Mutant of After: an oversize message is always skipped to a NUL. *)
AfterSkips(r) == "skipping"
(* Whether the read already stopped behind the message's NUL. *)
After(r) == IF Last(r) = NUL THEN "reading" ELSE "skipping"

(* serve_connection, one turn of its loop. *)
ReadMessage(c) ==
  /\ conn[c].pc = "reading"
  /\ Ready(c, MaxMessage + 1)
  /\ LET r   == ReadUntil(conn[c].left, MaxMessage + 1)
         msg == Unterminated(r)
         k   == [conn[c] EXCEPT !.left = Rest(c, r)]
     IN  conn' = [conn EXCEPT ![c] =
           CASE r = <<>>     -> Ends(c)
             [] r # <<>> /\ TooLong(r) -> [k EXCEPT !.oversize = @ + 1, !.pc = After(r)]
             [] OTHER -> IF msg = <<>> THEN k
                         ELSE IF "b" \in ToSet(msg) THEN [k EXCEPT !.bad = @ + 1]
                         ELSE [k EXCEPT !.got = Append(@, msg)]]
  /\ connected' = IF conn'[c].pc = "closed" THEN connected - 1 ELSE connected
  /\ UNCHANGED <<listening, accepting>>

(* skip_past_nul, one chunk. *)
SkipPastNul(c) ==
  /\ conn[c].pc = "skipping"
  /\ Ready(c, SkipChunk)
  /\ LET r == ReadUntil(conn[c].left, SkipChunk)
         k == [conn[c] EXCEPT !.left = Rest(c, r)]
     IN  conn' = [conn EXCEPT ![c] =
           CASE r = <<>> -> Ends(c)
             [] OTHER    -> IF Last(r) = NUL THEN [k EXCEPT !.pc = "reading"] ELSE k]
  /\ connected' = IF conn'[c].pc = "closed" THEN connected - 1 ELSE connected
  /\ UNCHANGED <<listening, accepting>>

(* The handle is dropped (GelfReceiver::shutdown). *)
DropHandle ==
  /\ listening
  /\ listening' = FALSE
  /\ UNCHANGED <<conn, accepting, connected>>

StopAccepting ==
  /\ ~listening
  /\ accepting
  /\ accepting' = FALSE
  /\ UNCHANGED <<conn, listening, connected>>

(* Mutant of StopConnection: only the accept loop watches the handle. *)
StopConnectionNever(c) == FALSE

(* A connection's select: stop.changed(). *)
StopConnection(c) ==
  /\ ~listening
  /\ Open(c)
  /\ conn' = [conn EXCEPT ![c].pc = "stopped"]
  /\ connected' = connected - 1
  /\ UNCHANGED <<listening, accepting>>

Serve(c) == ReadMessage(c) \/ SkipPastNul(c)

GelfNext ==
  \/ \E c \in Conns :
       \/ \E s \in Streams : Accept(c, s)
       \/ ReadMessage(c) \/ SkipPastNul(c) \/ StopConnection(c)
  \/ DropHandle
  \/ StopAccepting

(* tokio polls every branch of a select whenever it wakes the task. *)
GelfFairness ==
  /\ WF_gelfVars(StopAccepting)
  /\ \A c \in Conns : WF_gelfVars(StopConnection(c)) /\ WF_gelfVars(Serve(c))

GelfSpec == GelfInit /\ [][GelfNext]_gelfVars /\ GelfFairness
-----------------------------------------------------------------------------
(* A message is the bytes between two NULs, with its own NUL when sent. *)
Messages(bytes) ==
  LET starts == {1} \cup {i + 1 : i \in {j \in DOMAIN bytes : bytes[j] = NUL}}
      piece(a) == ReadUntil(SubSeq(bytes, a, Len(bytes)), Len(bytes))
      order == SetToSortSeq({a \in starts : a <= Len(bytes)}, <)
  IN  [i \in DOMAIN order |-> piece(order[i])]

(* What a sender that closes its stream gets through (serve_connection):   *)
(* exactly its messages within the limit, in order, each whole, and every  *)
(* longer one counted once, wherever the reads cut the stream.             *)
FramingExact ==
  \A c \in Conns : conn[c].pc = "closed" =>
    LET all   == Messages(conn[c].sent.bytes)
        fits  == SelectSeq(all, LAMBDA p : Len(p) <= MaxMessage)
        texts == SelectSeq([i \in DOMAIN fits |-> Unterminated(fits[i])], LAMBDA p : p # <<>>)
    IN  /\ conn[c].got = SelectSeq(texts, LAMBDA p : "b" \notin ToSet(p))
        /\ conn[c].bad = Len(texts) - Len(conn[c].got)
        /\ conn[c].oversize = Len(all) - Len(fits)

(* Once the handle is dropped, every connection ends and is uncounted, an  *)
(* idle one and one accepted in the last moment included: no sender goes   *)
(* on feeding a deleted domain (TcpListenerHandle).                        *)
StopEndsAll == (~listening) ~> (connected = 0 /\ \A c \in Conns : ~Open(c))
=============================================================================
