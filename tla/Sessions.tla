------------------------------- MODULE Sessions -------------------------------
(***************************************************************************)
(* The session registry (daemon/session.rs), the connections that own its  *)
(* sessions (handle_connection in daemon/server.rs), what is kept under a  *)
(* session's name (bookmarks and collectors), the TTL sweep, and the way a *)
(* trigger's notification reaches its client: queued for a disconnected    *)
(* session, then broadcast to whoever is subscribed.                       *)
(*                                                                         *)
(* An action is one critical section of the registry's lock, or one step   *)
(* of a connection or processor task between two of them.  A request that  *)
(* the code refuses changes nothing and is not an action.                  *)
(***************************************************************************)
EXTENDS Integers, Sequences, FiniteSets

CONSTANTS
  Names,        \* names sessions are given
  AnonKeys,     \* the UUIDs anonymous sessions draw
  Conns,        \* client connections
  Domains,      \* the domains, all present throughout
  DefaultDomain,
  MaxQueue,     \* max_queue_size
  EventBuffer,  \* capacity of a domain's broadcast channel
  MaxStarts,    \* bound: session.start requests
  MaxEvents,    \* bound: trigger firings
  MaxOps        \* bound: requests other than session.start

ASSUME DomainAssumption == DefaultDomain \in Domains

(* A fresh UUID is nobody's chosen name, and a broadcast channel holds at  *)
(* least one event (tokio refuses a capacity of none).                     *)
ASSUME KeyAssumption == Names \cap AnonKeys = {}
ASSUME BufferAssumption == EventBuffer \in Nat \ {0}

VARIABLES
  reg,        \* SessionRegistry: id -> state
  minted,     \* UUIDs drawn so far
  bookmarks,  \* bookmarks, by domain and session KEY (the bare name)
  collectors, \* collectors, by session id
  conn,       \* per connection: where its task is
  proc,       \* per domain: where its processor is
  sweep,      \* the TTL sweep's candidates still to dispose of
  starts, ops,
  events,     \* history: every notification fired, in order
  got         \* history: per connection, the notifications written to it

connVars == <<conn, got>>
vars == <<reg, minted, bookmarks, collectors, connVars, proc, sweep, starts,
          ops, events>>

Named(n) == [kind |-> "named", key |-> n]
Anonymous(k) == [kind |-> "anonymous", key |-> k]
Out == [pc |-> "out"]
IdleProc == [pc |-> "idle"]

With(f, x, v) == [y \in DOMAIN f \cup {x} |-> IF y = x THEN v ELSE f[y]]
Without(f, x) == [y \in DOMAIN f \ {x} |-> f[y]]
Live(c) == conn[c].pc \in {"live", "using"}
-----------------------------------------------------------------------------
(* The registry's decisions. *)

(* A new session.  born tells its holder from an earlier one of the name. *)
NewSession ==
  [born |-> starts + 1, connected |-> TRUE, expired |-> FALSE,
   domain |-> DefaultDomain, touched |-> {DefaultDomain}, queue |-> <<>>]

(* Mutant of RefusedName: an anonymous session's id may be taken. *)
RefusedNameNever(n) == FALSE

(* refuse_an_anonymous_id. *)
RefusedName(n) == Anonymous(n) \in DOMAIN reg

(* Mutant of Claimable: a connected session is taken over. *)
ClaimableAlways(n) == ~RefusedName(n)

(* claim_named: absent, or there and not connected. *)
Claimable(n) ==
  /\ ~RefusedName(n)
  /\ Named(n) \in DOMAIN reg => ~reg[Named(n)].connected

Claimed(n) ==
  IF Named(n) \in DOMAIN reg
    THEN [reg[Named(n)] EXCEPT !.connected = TRUE, !.expired = FALSE]
    ELSE NewSession

(* set_domain: a changed binding drops what was queued under the old one. *)
Bound(state, d) ==
  [state EXCEPT !.domain = d, !.touched = @ \cup {d},
                !.queue = IF state.domain = d THEN @ ELSE <<>>]

(* Mutant of Abandoned: disposed of as listed, without a second look. *)
AbandonedAsListed(id) == id \in DOMAIN reg

(* dispose_if_expired, and expired_disconnected: not connected, and last  *)
(* seen longer ago than the TTL.                                          *)
Abandoned(id) ==
  id \in DOMAIN reg /\ ~reg[id].connected /\ reg[id].expired

(* Mutant of SweepCandidates: it looks among the connected sessions. *)
SweepCandidatesConnected ==
  {id \in DOMAIN reg : reg[id].connected /\ reg[id].expired}

SweepCandidates == {id \in DOMAIN reg : Abandoned(id)}

(* Mutant of ClearedOf: only the domain the session was bound to. *)
ClearedOfBound(id, domains) ==
  {b \in bookmarks : b.key # id.key \/ b.domain # reg[id].domain}

(* clear_session, over the given domains' stores. *)
ClearedOf(id, domains) ==
  {b \in bookmarks : b.key # id.key \/ b.domain \notin domains}

(* detach_session. *)
Detached(id) == {k \in collectors : k.id # id}
-----------------------------------------------------------------------------
Init ==
  /\ reg = [id \in {} |-> 0]
  /\ minted = {}
  /\ bookmarks = {}
  /\ collectors = {}
  /\ conn = [c \in Conns |-> Out]
  /\ proc = [d \in Domains |-> IdleProc]
  /\ sweep = {}
  /\ starts = 0
  /\ ops = 0
  /\ events = <<>>
  /\ got = [c \in Conns |-> <<>>]

(* session.start with a name: claim_named. *)
ClaimNamed(c, n) ==
  /\ conn[c] = Out
  /\ starts < MaxStarts
  /\ Claimable(n)
  /\ reg' = With(reg, Named(n), Claimed(n))
  /\ conn' = [conn EXCEPT ![c] = [pc |-> "claimed", id |-> Named(n)]]
  /\ got' = [got EXCEPT ![c] = <<>>]
  /\ starts' = starts + 1
  /\ UNCHANGED <<minted, bookmarks, collectors, proc, sweep, ops, events>>

(* session.start without one: create_anonymous, under a fresh UUID. *)
CreateAnonymous(c, k) ==
  /\ conn[c] = Out
  /\ starts < MaxStarts
  /\ k \notin minted
  /\ reg' = With(reg, Anonymous(k), NewSession)
  /\ minted' = minted \cup {k}
  /\ conn' = [conn EXCEPT ![c] = [pc |-> "claimed", id |-> Anonymous(k)]]
  /\ got' = [got EXCEPT ![c] = <<>>]
  /\ starts' = starts + 1
  /\ UNCHANGED <<bookmarks, collectors, proc, sweep, ops, events>>

(* session.start's domain, set_domain, when it names one; the cleanup is  *)
(* armed.                                                                 *)
BindAtStart(c, d) ==
  /\ conn[c].pc = "claimed"
  /\ reg' = [reg EXCEPT ![conn[c].id] = Bound(@, d)]
  /\ conn' = [conn EXCEPT ![c].pc = "started"]
  /\ UNCHANGED <<minted, bookmarks, collectors, proc, sweep, starts, ops,
                 events, got>>

(* The reply is written and the queue taken. *)
DrainQueue(c) ==
  /\ conn[c].pc = "started"
  /\ conn' = [conn EXCEPT ![c] = [pc |-> "draining", id |-> conn[c].id,
                                  outbox |-> reg[conn[c].id].queue]]
  /\ reg' = [reg EXCEPT ![conn[c].id].queue = <<>>]
  /\ UNCHANGED <<minted, bookmarks, collectors, proc, sweep, starts, ops,
                 events, got>>

WriteDrained(c) ==
  /\ conn[c].pc = "draining"
  /\ conn[c].outbox # <<>>
  /\ got' = [got EXCEPT ![c] = Append(@, Head(conn[c].outbox))]
  /\ conn' = [conn EXCEPT ![c].outbox = Tail(@)]
  /\ UNCHANGED <<reg, minted, bookmarks, collectors, proc, sweep, starts, ops,
                 events>>

(* subscribe_events, on the domain bound now. *)
Subscribe(c) ==
  /\ conn[c].pc = "draining"
  /\ conn[c].outbox = <<>>
  /\ conn' = [conn EXCEPT ![c] = [pc |-> "live", id |-> conn[c].id, rx |-> <<>>,
                                  sub |-> reg[conn[c].id].domain]]
  /\ UNCHANGED <<reg, minted, bookmarks, collectors, proc, sweep, starts, ops,
                 events, got>>

(* The connection ends, by EOF or a failed write: disconnect_session.  An *)
(* anonymous session is removed, with its bookmarks in every domain it    *)
(* was bound to; a named one stays.                                       *)
Leave(c) ==
  /\ conn[c].pc \in {"started", "draining", "live", "using"}
  /\ LET id == conn[c].id
     IN  IF id.kind = "anonymous"
           THEN /\ reg' = Without(reg, id)
                /\ bookmarks' = ClearedOf(id, reg[id].touched)
                /\ collectors' = Detached(id)
           ELSE /\ reg' = IF id \in DOMAIN reg
                            THEN [reg EXCEPT ![id].connected = FALSE,
                                             ![id].expired = FALSE]
                            ELSE reg
                /\ UNCHANGED <<bookmarks, collectors>>
  /\ conn' = [conn EXCEPT ![c] = Out]
  /\ UNCHANGED <<minted, proc, sweep, starts, ops, events, got>>
-----------------------------------------------------------------------------
(* Requests of a live connection. *)
Request(c) ==
  /\ conn[c].pc = "live"
  /\ ops < MaxOps
  /\ ops' = ops + 1
  /\ UNCHANGED <<minted, proc, sweep, starts, events, got>>

(* Mutant of RenameAllowed: a connected holder is displaced. *)
RenameAllowedAlways(old, n) ==
  /\ Named(n) # old
  /\ old = Anonymous(n) \/ ~RefusedName(n)

(* rename's refusals; renaming to one's own name does nothing. *)
RenameAllowed(old, n) ==
  /\ Named(n) # old
  /\ old = Anonymous(n) \/ ~RefusedName(n)
  /\ Named(n) \in DOMAIN reg => ~reg[Named(n)].connected

(* Mutant of Rekeyed: the connection goes on under the id it had. *)
RekeyedNever(old, new) == old

(* The connection addresses its session by the new id from here on. *)
Rekeyed(old, new) == new

(* Mutant of TransferBookmarks: the displaced holder's bookmarks stay. *)
TransferBookmarksKeeping(old, new, displaced) ==
  {[b EXCEPT !.key = IF @ = old.key THEN new.key ELSE @] : b \in bookmarks}

(* The displaced holder's go, the renamed session's move. *)
TransferBookmarks(old, new, displaced) ==
  {[b EXCEPT !.key = IF @ = old.key THEN new.key ELSE @] :
     b \in IF displaced THEN ClearedOf(new, Domains) ELSE bookmarks}

(* Mutant of TransferCollectors: the session's own do not move. *)
TransferCollectorsLeft(old, new, displaced) ==
  IF displaced THEN Detached(new) ELSE collectors

TransferCollectors(old, new, displaced) ==
  {[k EXCEPT !.id = IF @ = old THEN new ELSE @] :
     k \in IF displaced THEN Detached(new) ELSE collectors}

(* sessions.rename: a disconnected holder of the name is displaced, and   *)
(* everything kept under the names changes hands under the lock.          *)
Rename(c, n) ==
  /\ Request(c)
  /\ RenameAllowed(conn[c].id, n)
  /\ LET old == conn[c].id
         new == Named(n)
         displaced == new \in DOMAIN reg
     IN  /\ reg' = With(Without(reg, old), new,
                        [reg[old] EXCEPT !.expired = FALSE])
         /\ collectors' = TransferCollectors(old, new, displaced)
         /\ bookmarks' = TransferBookmarks(old, new, displaced)
         /\ conn' = [conn EXCEPT ![c].id = Rekeyed(old, new)]

(* domains.use: set_domain. *)
UseDomain(c, d) ==
  /\ Request(c)
  /\ reg' = [reg EXCEPT ![conn[c].id] = Bound(@, d)]
  /\ conn' = [conn EXCEPT ![c].pc = "using"]
  /\ UNCHANGED <<bookmarks, collectors>>

(* Mutant of Resubscribed: the connection stays on the channel it had. *)
ResubscribedNever(old, d) == old

(* The channel a connection listens to after domains.use. *)
Resubscribed(old, d) == IF old.sub = d THEN old
                        ELSE [old EXCEPT !.sub = d, !.rx = <<>>]

(* The reply written, the connection follows a changed binding. *)
Resubscribe(c) ==
  /\ conn[c].pc = "using"
  /\ conn' = [conn EXCEPT ![c] =
                [Resubscribed(conn[c], reg[conn[c].id].domain)
                   EXCEPT !.pc = "live"]]
  /\ UNCHANGED <<reg, minted, bookmarks, collectors, proc, sweep, starts, ops,
                 events, got>>

(* bookmarks.add, and a cursor's first read. *)
AddBookmark(c) ==
  /\ Request(c)
  /\ LET id == conn[c].id
     IN  bookmarks' = bookmarks \cup {[domain |-> reg[id].domain, key |-> id.key,
                                       born |-> reg[id].born]}
  /\ UNCHANGED <<reg, collectors, conn>>

(* collectors.add: named sessions only. *)
AddCollector(c) ==
  /\ Request(c)
  /\ conn[c].id.kind = "named"
  /\ collectors' = collectors \cup {[id |-> conn[c].id,
                                     born |-> reg[conn[c].id].born]}
  /\ UNCHANGED <<reg, bookmarks, conn>>

(* Mutant of Droppable: a connected session is dropped too. *)
DroppableAlways(id) == TRUE

(* drop_session refuses a connected session. *)
Droppable(id) == id \in DOMAIN reg => ~reg[id].connected

(* sessions.drop.  With no session of the name only its collectors go:    *)
(* the bare name may be an anonymous session's id.                        *)
Drop(c, n) ==
  /\ Request(c)
  /\ Droppable(Named(n))
  /\ reg' = Without(reg, Named(n))
  /\ collectors' = Detached(Named(n))
  /\ bookmarks' = IF Named(n) \in DOMAIN reg THEN ClearedOf(Named(n), Domains)
                  ELSE bookmarks
  /\ UNCHANGED conn
-----------------------------------------------------------------------------
(* The TTL sweep. *)

(* Time passes: a disconnected session is past the TTL. *)
Expire(id) ==
  /\ id \in DOMAIN reg
  /\ ~reg[id].connected
  /\ ~reg[id].expired
  /\ reg' = [reg EXCEPT ![id].expired = TRUE]
  /\ UNCHANGED <<minted, bookmarks, collectors, connVars, proc, sweep, starts,
                 ops, events>>

(* expired_disconnected. *)
SweepList ==
  /\ sweep = {}
  /\ SweepCandidates # {}
  /\ sweep' = SweepCandidates
  /\ UNCHANGED <<reg, minted, bookmarks, collectors, connVars, proc, starts,
                 ops, events>>

(* dispose_expired_session, one listed session at a time: decided again,  *)
(* and what is kept under the name goes under the same lock.              *)
SweepDispose(id) ==
  /\ id \in sweep
  /\ sweep' = sweep \ {id}
  /\ IF Abandoned(id)
       THEN /\ reg' = Without(reg, id)
            /\ collectors' = Detached(id)
            /\ bookmarks' = ClearedOf(id, Domains)
       ELSE UNCHANGED <<reg, collectors, bookmarks>>
  /\ UNCHANGED <<minted, connVars, proc, starts, ops, events>>
-----------------------------------------------------------------------------
(* A domain's processor, as far as notifications go. *)

(* A record arrives: the sessions bound to the domain are listed. *)
TakeRecord(d) ==
  /\ proc[d] = IdleProc
  /\ Len(events) < MaxEvents
  /\ \E id \in DOMAIN reg : reg[id].domain = d
  /\ proc' = [proc EXCEPT ![d] =
                [pc |-> "evaluate",
                 todo |-> {id \in DOMAIN reg : reg[id].domain = d}]]
  /\ UNCHANGED <<reg, minted, bookmarks, collectors, connVars, sweep, starts,
                 ops, events>>

Served(d, id) ==
  IF proc[d].todo = {id} THEN IdleProc
  ELSE [pc |-> "evaluate", todo |-> proc[d].todo \ {id}]

(* A listed session's trigger matches, if the session is still there... *)
Fire(d, id) ==
  /\ proc[d].pc = "evaluate"
  /\ id \in proc[d].todo
  /\ id \in DOMAIN reg
  /\ Len(events) < MaxEvents
  /\ events' = Append(events, [domain |-> d, id |-> id, born |-> reg[id].born])
  /\ proc' = [proc EXCEPT ![d] = [pc |-> "queue", todo |-> proc[d].todo,
                                  id |-> id, event |-> Len(events) + 1]]
  /\ UNCHANGED <<reg, minted, bookmarks, collectors, connVars, sweep, starts, ops>>

(* ...or does not match. *)
NoMatch(d, id) ==
  /\ proc[d].pc = "evaluate"
  /\ id \in proc[d].todo
  /\ proc' = [proc EXCEPT ![d] = Served(d, id)]
  /\ UNCHANGED <<reg, minted, bookmarks, collectors, connVars, sweep, starts,
                 ops, events>>

(* Mutant of Queued: the newest goes in front. *)
QueuedInFront(queue, e) == IF Len(queue) < MaxQueue THEN <<e>> \o queue ELSE queue

(* A full queue takes no more. *)
Queued(queue, e) == IF Len(queue) < MaxQueue THEN Append(queue, e) ELSE queue

(* send_or_queue_notification: queued for a disconnected named session. *)
QueueEvent(d) ==
  /\ proc[d].pc = "queue"
  /\ LET id == proc[d].id
     IN  reg' = IF id \in DOMAIN reg /\ id.kind = "named" /\ ~reg[id].connected
                  THEN [reg EXCEPT ![id].queue = Queued(@, proc[d].event)]
                  ELSE reg
  /\ proc' = [proc EXCEPT ![d].pc = "send"]
  /\ UNCHANGED <<minted, bookmarks, collectors, connVars, sweep, starts, ops,
                 events>>

(* A channel's receiver: the oldest unread event is lost to a slow one. *)
Pushed(rx, e) ==
  IF Len(rx) < EventBuffer THEN Append(rx, e) ELSE Append(Tail(rx), e)

(* send_event: to every connection subscribed to the domain. *)
SendEvent(d) ==
  /\ proc[d].pc = "send"
  /\ conn' = [c \in Conns |->
                IF Live(c) /\ conn[c].sub = d
                  THEN [conn[c] EXCEPT !.rx = Pushed(@, proc[d].event)]
                  ELSE conn[c]]
  /\ proc' = [proc EXCEPT ![d] = Served(d, proc[d].id)]
  /\ UNCHANGED <<reg, minted, bookmarks, collectors, got, sweep, starts, ops,
                 events>>

(* The connection forwards what carries its session's id. *)
ForwardEvent(c) ==
  /\ conn[c].pc = "live"
  /\ conn[c].rx # <<>>
  /\ conn' = [conn EXCEPT ![c].rx = Tail(@)]
  /\ LET e == Head(conn[c].rx)
     IN  got' = IF events[e].id.key = conn[c].id.key
                  THEN [got EXCEPT ![c] = Append(@, e)] ELSE got
  /\ UNCHANGED <<reg, minted, bookmarks, collectors, proc, sweep, starts, ops,
                 events>>
-----------------------------------------------------------------------------
ConnStep(c) ==
  \/ \E n \in Names \cup minted : ClaimNamed(c, n)
  \/ \E k \in AnonKeys : CreateAnonymous(c, k)
  \/ \E d \in Domains : BindAtStart(c, d)
  \/ DrainQueue(c)
  \/ WriteDrained(c)
  \/ Subscribe(c)
  \/ Leave(c)
  \/ \E n \in Names \cup minted : Rename(c, n)
  \/ \E d \in Domains : UseDomain(c, d)
  \/ Resubscribe(c)
  \/ AddBookmark(c)
  \/ AddCollector(c)
  \/ \E n \in Names \cup minted : Drop(c, n)
  \/ ForwardEvent(c)

ProcStep(d) ==
  \/ TakeRecord(d)
  \/ \E id \in DOMAIN reg : Fire(d, id)
  \/ \E n \in Names \cup minted : NoMatch(d, Named(n)) \/ NoMatch(d, Anonymous(n))
  \/ QueueEvent(d)
  \/ SendEvent(d)

Dispose == \E n \in Names \cup minted : SweepDispose(Named(n))

Next ==
  \/ \E c \in Conns : ConnStep(c)
  \/ \E d \in Domains : ProcStep(d)
  \/ \E id \in DOMAIN reg : Expire(id)
  \/ SweepList
  \/ Dispose

Spec == Init /\ [][Next]_vars

(* The sweep's task runs on its interval for as long as the daemon does. *)
FairSpec == Spec /\ WF_vars(SweepList) /\ WF_vars(Dispose)
-----------------------------------------------------------------------------
HasSession(c) == conn[c] # Out
Holds(seq, e) == \E i \in DOMAIN seq : seq[i] = e

(* One owner: every connection's session is registered and connected,     *)
(* every connected session has exactly one connection, whatever claims,   *)
(* renames, drops and sweeps race: no live session is disposed of, and no *)
(* name stays taken once its connection is gone (claim_named, drop,       *)
(* dispose_if_expired, rename, SessionCleanup).                           *)
OneOwner ==
  /\ \A c \in Conns : HasSession(c) =>
       conn[c].id \in DOMAIN reg /\ reg[conn[c].id].connected
  /\ \A id \in DOMAIN reg : reg[id].connected =>
       Cardinality({c \in Conns : HasSession(c) /\ conn[c].id = id}) = 1

(* Nobody inherits and nothing leaks: each bookmark and each collector is *)
(* kept under the key of the very session that made it, still registered, *)
(* even when the name changed hands (rename's transfer, drop's and the    *)
(* sweep's cleanup, an anonymous disconnect).                             *)
KeptByItsMaker ==
  /\ \A b \in bookmarks :
       \E id \in DOMAIN reg : id.key = b.key /\ reg[id].born = b.born
  /\ \A k \in collectors : k.id \in DOMAIN reg /\ reg[k.id].born = k.born

(* On one connection the notifications of one domain arrive in the order  *)
(* they fired, the queued ones before the live ones.                      *)
InOrder ==
  \A c \in Conns : \A i, j \in DOMAIN got[c] :
    (i < j /\ events[got[c][i]].domain = events[got[c][j]].domain)
      => got[c][i] <= got[c][j]

(* A live notification comes from the domain the session is bound to: a   *)
(* rebind leaves nothing of the old channel to forward.                   *)
LiveFollowsBinding ==
  [][\A c \in Conns :
       (conn[c].pc = "live" /\ got'[c] # got[c])
         => events[got'[c][Len(got'[c])]].domain = reg[conn[c].id].domain]_vars

(* On one connection the notifications of one domain arrive in the order   *)
(* they fired, and a live one comes from the domain the session is bound   *)
(* to (drain_notifications, send_event, the resubscription of a rebind).   *)
DeliveredInOrder == []InOrder /\ LiveFollowsBinding

(* Abandoned sessions do not accumulate: one that stays disconnected past *)
(* its TTL is disposed of.                                                *)
AbandonedAreDisposed ==
  \A n \in Names : []<>(~Abandoned(Named(n)))

(* What the design says of a reconnect ("here's what I missed during the  *)
(* gap; now I'm current"): once dispatched, the notification of a named   *)
(* session started again since it was created is queued, on its way to    *)
(* its connection, or was dropped by a full queue.                        *)
Reached(e) ==
  LET id == events[e].id
  IN  \/ Holds(reg[id].queue, e)
      \/ Len(reg[id].queue) >= MaxQueue
      \/ \E c \in Conns :
           /\ HasSession(c)
           /\ conn[c].id = id
           /\ \/ Holds(got[c], e)
              \/ conn[c].pc = "draining" /\ Holds(conn[c].outbox, e)
              \/ Live(c) /\ Holds(conn[c].rx, e)

MissedIsDelivered ==
  [][\A d \in Domains : \A e \in DOMAIN events :
       (/\ proc[d].pc = "send" /\ proc[d].event = e /\ proc'[d].pc # "send"
        /\ events[e].id \in DOMAIN reg
        /\ events[e].id.kind = "named"
        /\ events[e].born = reg[events[e].id].born
        /\ events[e].born < starts)
         => Reached(e)']_vars
=============================================================================
