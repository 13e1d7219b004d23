----------------------------- MODULE Reconnect -----------------------------
(***************************************************************************)
(* The client side of a named or anonymous session (sdk/reconnect.rs,      *)
(* sdk/bridge.rs, Broker::call in sdk/connect.rs): a bridge over one       *)
(* connection, its reader task and the task that watches for its end, the  *)
(* calls that go through it, and the loop that replaces it.  The daemon is *)
(* what those tasks see of it: it answers, fires, drops a connection, or   *)
(* restarts, and it refuses a session that another connection still holds. *)
(***************************************************************************)
EXTENDS Integers, Sequences, FiniteSets, SequencesExt

CONSTANTS
    Callers,        \* calls in flight at once
    MaxBridges,     \* bound: connections made
    MaxAttempts,    \* reconnect_max_attempts
    MaxFired,       \* bound: notifications sent
    MaxRestarts,    \* bound: restarts of the daemon
    Named           \* whether the session has a name

VARIABLES
    mgr,        \* ConnectionManager.state
    bridge,     \* the bridges, in the order they were made
    call,       \* per caller, where its call is
    loop,       \* the reconnect loops still running, oldest first
    owner,      \* daemon: the bridge whose connection holds the session, or 0
    known,      \* daemon: whether it knows the session
    queued,     \* daemon: notifications held for a disconnected session
    fired, restarts,
    heard       \* history: what subscribers were sent

daemon == <<owner, known, queued, fired, restarts>>
rvars == <<mgr, bridge, call, loop, daemon, heard>>

Connected(b) == [st |-> "connected", on |-> b]
Reconnecting == [st |-> "reconnecting"]
Failed(why) == [st |-> "failed", why |-> why]
Terminal == mgr.st = "failed"

\* spawn_without_reader: a connection whose reader has not been started.
NewBridge(inbox) ==
    [link |-> "open", inbox |-> inbox, asked |-> {}, pending |-> {}, closed |-> FALSE,
     reader |-> "unstarted", watch |-> "none"]

Idle == [pc |-> "idle"]
Ended == [pc |-> "ended"]
At(pc, b) == [pc |-> pc, on |-> b]

\* initial_connect: handshake, manager, reader, watcher.
RInit ==
    /\ mgr = Connected(1)
    /\ bridge = <<[NewBridge(<<>>) EXCEPT !.reader = "running", !.watch = "spawned"]>>
    /\ call = [c \in Callers |-> Idle]
    /\ loop = <<>>
    /\ owner = 1 /\ known = TRUE /\ queued = 0 /\ fired = 0 /\ restarts = 0
    /\ heard = <<>>

-----------------------------------------------------------------------------
(* The state machine.                                                      *)

\* state_changed.notify_waiters(): a waiter subscribed before it looked.
Woken == [c \in Callers |-> IF call[c].pc = "waiting" THEN [pc |-> "asking"] ELSE call[c]]

\* Mutant: a loop is started whatever the state.
EnterDisconnectAlways(calls) ==
    /\ mgr' = IF Named THEN Reconnecting ELSE Failed("lost")
    /\ loop' = IF Named THEN Append(loop, [pc |-> "trying", attempt |-> 0, on |-> 0])
               ELSE loop
    /\ call' = calls

\* enter_disconnect: nothing unless connected, to whichever bridge.
EnterDisconnect(calls) ==
    IF mgr.st # "connected" THEN call' = calls /\ UNCHANGED <<mgr, loop>>
    ELSE /\ mgr' = IF Named THEN Reconnecting ELSE Failed("lost")
         /\ loop' = IF Named THEN Append(loop, [pc |-> "trying", attempt |-> 0, on |-> 0])
                    ELSE loop
         /\ call' = calls

\* spawn_disconnect_watcher: the task waits once it is first scheduled.
WatcherStarts(b) ==
    /\ bridge[b].watch = "spawned"
    /\ bridge' = [bridge EXCEPT ![b].watch = "waiting"]
    /\ UNCHANGED <<mgr, call, loop, daemon, heard>>

WatcherWakes(b) ==
    /\ bridge[b].watch = "woken"
    /\ bridge' = [bridge EXCEPT ![b].watch = "done"]
    /\ EnterDisconnect(Woken)
    /\ UNCHANGED <<daemon, heard>>

-----------------------------------------------------------------------------
(* A call.                                                                 *)

Begin(c) ==
    /\ call[c] = Idle
    /\ call' = [call EXCEPT ![c] = [pc |-> "asking"]]
    /\ UNCHANGED <<mgr, bridge, loop, daemon, heard>>

\* current_bridge.
Ask(c) ==
    /\ call[c].pc = "asking"
    /\ call' = [call EXCEPT ![c] =
         CASE mgr.st = "connected" -> At("holding", mgr.on)
           [] mgr.st = "failed" -> Ended
           [] OTHER -> [pc |-> "waiting"]]
    /\ UNCHANGED <<mgr, bridge, loop, daemon, heard>>

\* The deadline passes while waiting.
Deadline(c) ==
    /\ call[c].pc = "waiting"
    /\ call' = [call EXCEPT ![c] = Ended]
    /\ UNCHANGED <<mgr, bridge, loop, daemon, heard>>

\* Mutant: a call registers on a bridge whose reader has given up.
RefusedNever(b) == FALSE

Refused(b) == bridge[b].closed

\* call_inner: register, unless the reader has given up on the connection.
Register(c) ==
    /\ call[c].pc = "holding"
    /\ LET b == call[c].on IN
       IF Refused(b)
       THEN /\ call' = [call EXCEPT ![c] = At("broken", b)]
            /\ UNCHANGED bridge
       ELSE /\ call' = [call EXCEPT ![c] = At("writing", b)]
            /\ bridge' = [bridge EXCEPT ![b].pending = @ \cup {c}]
    /\ UNCHANGED <<mgr, loop, daemon, heard>>

\* write_message, which fails on a cut connection.
Write(c) ==
    /\ call[c].pc = "writing"
    /\ LET b == call[c].on IN
       IF bridge[b].link = "open"
       THEN /\ call' = [call EXCEPT ![c] = At("sent", b)]
            /\ bridge' = [bridge EXCEPT ![b].asked = @ \cup {c}]
       ELSE /\ call' = [call EXCEPT ![c] = At("broken", b)]
            /\ UNCHANGED bridge
    /\ UNCHANGED <<mgr, loop, daemon, heard>>

\* rx.await: the sender was dropped without an answer.
Dropped(c) ==
    /\ call[c].pc = "sent" /\ c \notin bridge[call[c].on].pending
    /\ call' = [call EXCEPT ![c] = At("broken", @.on)]
    /\ UNCHANGED <<mgr, bridge, loop, daemon, heard>>

\* A transport-class error drives the state machine, then is returned.
Broken(c) ==
    /\ call[c].pc = "broken"
    /\ EnterDisconnect([Woken EXCEPT ![c] = Ended])
    /\ UNCHANGED <<bridge, daemon, heard>>

-----------------------------------------------------------------------------
(* The reader task.                                                        *)

Read(b) ==
    /\ bridge[b].reader = "running" /\ bridge[b].inbox # <<>>
    /\ LET frame == Head(bridge[b].inbox)
           rest == [bridge EXCEPT ![b].inbox = Tail(@)]
       IN  \/ /\ frame.kind = "response" /\ frame.to \in bridge[b].pending
              /\ bridge' = [rest EXCEPT ![b].pending = @ \ {frame.to}]
              /\ call' = [call EXCEPT ![frame.to] = Ended]
              /\ UNCHANGED heard
           \/ /\ frame.kind = "response" /\ frame.to \notin bridge[b].pending
              /\ bridge' = rest /\ UNCHANGED <<call, heard>>
           \/ /\ frame.kind = "fired"
              /\ bridge' = rest
              /\ heard' = Append(heard, [kind |-> "fired", on |-> b])
              /\ UNCHANGED call
           \/ /\ frame.kind = "garbage"
              /\ bridge' = [rest EXCEPT ![b].reader = "stopped"]
              /\ UNCHANGED <<call, heard>>
    /\ UNCHANGED <<mgr, loop, daemon>>

ReadEof(b) ==
    /\ bridge[b].reader = "running" /\ bridge[b].inbox = <<>> /\ bridge[b].link = "cut"
    /\ bridge' = [bridge EXCEPT ![b].reader = "stopped"]
    /\ UNCHANGED <<mgr, call, loop, daemon, heard>>

\* Every waiting call fails, and no later one registers.
ReaderCloses(b) ==
    /\ bridge[b].reader = "stopped"
    /\ bridge' = [bridge EXCEPT ![b].reader = "closing", ![b].closed = TRUE,
                                ![b].pending = {}]
    /\ UNCHANGED <<mgr, call, loop, daemon, heard>>

\* disconnect.notify_waiters() keeps nothing for a watcher not yet waiting.
ReaderNotifies(b) ==
    /\ bridge[b].reader = "closing"
    /\ bridge' = [bridge EXCEPT ![b].reader = "gone",
                                ![b].watch = IF @ = "waiting" THEN "woken" ELSE @]
    /\ UNCHANGED <<mgr, call, loop, daemon, heard>>

-----------------------------------------------------------------------------
(* reconnect_loop, of which a second may start before the first has ended. *)

LoopAt(i, rec) == [loop EXCEPT ![i] = rec]
LoopEnds(i) == RemoveAt(loop, i)
Trying(i) == i \in DOMAIN loop /\ loop[i].pc = "trying"
Fresh == Len(bridge) + 1

\* session.start is answered: a held session is refused (claim_named), an
\* unknown one made anew.
HandshakeOk(i) ==
    /\ Trying(i) /\ loop[i].attempt < MaxAttempts
    /\ owner = 0 /\ Len(bridge) < MaxBridges
    /\ bridge' = Append(bridge, NewBridge([k \in 1 .. queued |-> [kind |-> "fired"]]))
    /\ owner' = Fresh /\ known' = TRUE /\ queued' = 0
    /\ loop' = LoopAt(i, [loop[i] EXCEPT !.pc = IF known THEN "resumed" ELSE "new",
                                         !.on = Fresh])
    /\ UNCHANGED <<mgr, call, fired, restarts, heard>>

\* The answer is an error, or the connection goes before it arrives.
HandshakeFails(i) ==
    /\ Trying(i) /\ loop[i].attempt < MaxAttempts
    /\ loop' = LoopAt(i, [loop[i] EXCEPT !.attempt = @ + 1])
    /\ \/ UNCHANGED <<bridge, daemon>>
       \/ /\ owner = 0 /\ Len(bridge) < MaxBridges
          /\ bridge' = Append(bridge, [NewBridge(<<>>) EXCEPT !.link = "cut"])
          /\ owner' = Fresh /\ known' = TRUE
          /\ UNCHANGED <<queued, fired, restarts>>
    /\ UNCHANGED <<mgr, call, heard>>

GiveUp(i) ==
    /\ Trying(i) /\ loop[i].attempt = MaxAttempts
    /\ mgr' = Failed("disconnected")
    /\ call' = Woken /\ loop' = LoopEnds(i)
    /\ UNCHANGED <<bridge, daemon, heard>>

\* is_new: the session that was held is gone; the connection is dropped.
SessionGone(i) ==
    /\ i \in DOMAIN loop /\ loop[i].pc = "new"
    /\ mgr' = Failed("lost")
    /\ call' = Woken /\ loop' = LoopEnds(i)
    /\ bridge' = [bridge EXCEPT ![loop[i].on].link = "cut"]
    /\ UNCHANGED <<daemon, heard>>

Install(i) ==
    /\ i \in DOMAIN loop /\ loop[i].pc = "resumed"
    /\ mgr' = Connected(loop[i].on)
    /\ call' = Woken /\ loop' = LoopAt(i, [loop[i] EXCEPT !.pc = "installed"])
    /\ UNCHANGED <<bridge, daemon, heard>>

\* Mutant: the reader is started as the bridge is announced.
AnnounceReading(i) ==
    /\ i \in DOMAIN loop /\ loop[i].pc \in {"installed", "late"}
    /\ \/ /\ loop[i].pc = "installed"
          /\ bridge' = [bridge EXCEPT ![loop[i].on].reader = "running"]
          /\ loop' = LoopAt(i, [loop[i] EXCEPT !.pc = "late"])
          /\ UNCHANGED heard
       \/ /\ loop[i].pc = "late"
          /\ heard' = Append(heard, [kind |-> "reconnected", on |-> loop[i].on])
          /\ loop' = LoopAt(i, [loop[i] EXCEPT !.pc = "reading"])
          /\ UNCHANGED bridge
    /\ UNCHANGED <<mgr, call, daemon>>

Announce(i) ==
    /\ i \in DOMAIN loop /\ loop[i].pc = "installed"
    /\ heard' = Append(heard, [kind |-> "reconnected", on |-> loop[i].on])
    /\ loop' = LoopAt(i, [loop[i] EXCEPT !.pc = "announced"])
    /\ UNCHANGED <<mgr, bridge, call, daemon>>

StartReader(i) ==
    /\ i \in DOMAIN loop /\ loop[i].pc = "announced"
    /\ bridge' = [bridge EXCEPT ![loop[i].on].reader = "running"]
    /\ loop' = LoopAt(i, [loop[i] EXCEPT !.pc = "reading"])
    /\ UNCHANGED <<mgr, call, daemon, heard>>

SpawnWatcher(i) ==
    /\ i \in DOMAIN loop /\ loop[i].pc = "reading"
    /\ bridge' = [bridge EXCEPT ![loop[i].on].watch = "spawned"]
    /\ loop' = LoopEnds(i)
    /\ UNCHANGED <<mgr, call, daemon, heard>>

-----------------------------------------------------------------------------
(* The connection and the daemon.                                          *)

\* Nothing holds either half of the socket: no reader, no manager, no loop,
\* no call.
Close(b) ==
    /\ bridge[b].link = "open" /\ bridge[b].reader = "gone"
    /\ mgr # Connected(b)
    /\ \A i \in DOMAIN loop : loop[i].on # b
    /\ \A c \in Callers : call[c] \notin {At(pc, b) : pc \in {"holding", "writing", "sent", "broken"}}
    /\ bridge' = [bridge EXCEPT ![b].link = "cut"]
    /\ UNCHANGED <<mgr, call, loop, daemon, heard>>

Reply(c, b) ==
    /\ bridge[b].link = "open" /\ c \in bridge[b].asked
    /\ bridge' = [bridge EXCEPT ![b].asked = @ \ {c},
                                ![b].inbox = Append(@, [kind |-> "response", to |-> c])]
    /\ UNCHANGED <<mgr, call, loop, daemon, heard>>

\* A notification, sent or queued, or a frame the client cannot parse.
Fire ==
    /\ fired < MaxFired
    /\ fired' = fired + 1
    /\ IF owner = 0 THEN queued' = queued + 1 /\ UNCHANGED bridge
       ELSE /\ \E kind \in {"fired", "garbage"} :
                 bridge' = [bridge EXCEPT ![owner].inbox =
                   IF bridge[owner].link = "open" THEN Append(@, [kind |-> kind]) ELSE @]
            /\ UNCHANGED queued
    /\ UNCHANGED <<mgr, call, loop, owner, known, restarts, heard>>

\* The daemon drops a connection (a request's handler panicked).
Drop(b) ==
    /\ bridge[b].link = "open"
    /\ bridge' = [bridge EXCEPT ![b].link = "cut"]
    /\ UNCHANGED <<mgr, call, loop, daemon, heard>>

\* It sees the connection's end and disconnects the session.
Release ==
    /\ owner # 0 /\ bridge[owner].link = "cut"
    /\ owner' = 0
    /\ UNCHANGED <<mgr, bridge, call, loop, known, queued, fired, restarts, heard>>

\* It restarts, with the session saved or not.
Restart ==
    /\ restarts < MaxRestarts
    /\ restarts' = restarts + 1
    /\ bridge' = [b \in DOMAIN bridge |-> [bridge[b] EXCEPT !.link = "cut"]]
    /\ owner' = 0 /\ known' \in {known, FALSE} /\ queued' = 0
    /\ UNCHANGED <<mgr, call, loop, fired, heard>>

-----------------------------------------------------------------------------
CallStep(c) == Ask(c) \/ Deadline(c) \/ Register(c) \/ Write(c) \/ Dropped(c) \/ Broken(c)
ReaderStep(b) == Read(b) \/ ReadEof(b) \/ ReaderCloses(b) \/ ReaderNotifies(b)
WatcherStep(b) == WatcherStarts(b) \/ WatcherWakes(b)
LoopStep(i) == HandshakeOk(i) \/ HandshakeFails(i) \/ GiveUp(i) \/ SessionGone(i)
                 \/ Install(i) \/ Announce(i) \/ StartReader(i) \/ SpawnWatcher(i)

RNext ==
    \/ \E c \in Callers : Begin(c) \/ CallStep(c)
    \/ \E b \in DOMAIN bridge : ReaderStep(b) \/ WatcherStep(b) \/ Close(b) \/ Drop(b)
    \/ \E b \in DOMAIN bridge, c \in Callers : Reply(c, b)
    \/ \E i \in DOMAIN loop : LoopStep(i)
    \/ Fire \/ Release \/ Restart

RSpec == RInit /\ [][RNext]_rvars

-----------------------------------------------------------------------------
(* Properties.                                                             *)

\* A call always ends, whether its connection is lost before it is
\* registered, after it is written or with its answer on the way, and through
\* any reconnect (bridge.rs:25, connect.rs:200).
CallsEnd == \A c \in Callers : (call[c] # Idle) ~> (call[c] = Ended)

\* Subscribers hear that a session was resumed before anything the new
\* connection brings, the notifications drained from the daemon's queue
\* included (reconnect.rs:25).
ReconnectedFirst ==
    \A k \in DOMAIN heard :
        (heard[k].kind = "fired" /\ heard[k].on > 1) =>
            \E j \in 1 .. k - 1 : heard[j] = [kind |-> "reconnected", on |-> heard[k].on]

\* While the manager is reconnecting exactly one loop is trying, and while it
\* is not, none is: a loop that still runs cannot move a manager that settled
\* (reconnect.rs:127).
OneLoopTries ==
    Cardinality({i \in DOMAIN loop : loop[i].pc \in {"trying", "new", "resumed"}})
      = IF mgr = Reconnecting THEN 1 ELSE 0

\* One loop reconnects at a time, and subscribers hear of the new connection
\* before anything it brings (reconnect.rs).
ReconnectsInOrder == OneLoopTries /\ ReconnectedFirst

\* enter_disconnect is idempotent: "The bridge's own EOF notify will also
\* fire; both paths are idempotent" (connect.rs), so one lost connection costs
\* one reconnect and a live one is never given up.
LiveBridgeKept ==
    [][mgr.st = "connected" /\ mgr'.st # "connected"
         => \/ bridge[mgr.on].link = "cut"
            \/ bridge[mgr.on].reader \notin {"unstarted", "running"}]_rvars

\* "Notified when the reader task exits [...] The reconnect machinery awaits
\* this to detect connection loss" (bridge.rs): a manager does not stay
\* connected to a bridge whose reader has gone.
LossNoticed ==
    \A b \in 1 .. MaxBridges :
        (mgr = Connected(b) /\ bridge[b].reader = "gone") ~> (mgr # Connected(b))
=============================================================================
