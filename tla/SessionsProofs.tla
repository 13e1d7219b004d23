--------------------------- MODULE SessionsProofs ---------------------------
(* Sessions, for any names, connections, domains, queue and channel sizes: *)
(* who owns a session, who inherits what is kept under its name, and in    *)
(* which order its notifications arrive.                                   *)
EXTENDS Sessions, FiniteSetTheorems, TLAPS

(* A session's id, and what the registry keeps for it. *)
Keys == Names \cup AnonKeys
Id == [kind : {"named", "anonymous"}, key : Keys]
SessionState ==
  [born : Nat, connected : BOOLEAN, expired : BOOLEAN, domain : Domains,
   touched : SUBSET Domains, queue : Seq(Nat)]

(* A connection's task and a processor, by where they are. *)
Starting == [pc : {"claimed", "started"}, id : Id]
Draining == [pc : {"draining"}, id : Id, outbox : Seq(Nat)]
Listening == [pc : {"live", "using"}, id : Id, rx : Seq(Nat), sub : Domains]
Connection == {Out} \cup Starting \cup Draining \cup Listening

Evaluating == [pc : {"evaluate"}, todo : SUBSET Id]
Dispatching == [pc : {"queue", "send"}, todo : SUBSET Id, id : Id, event : Nat]
Processor == {IdleProc} \cup Evaluating \cup Dispatching

TypeOK ==
  /\ DOMAIN reg \subseteq Id
  /\ reg \in [DOMAIN reg -> SessionState]
  /\ minted \subseteq AnonKeys
  /\ bookmarks \subseteq [domain : Domains, key : Keys, born : Nat]
  /\ collectors \subseteq [id : Id, born : Nat]
  /\ conn \in [Conns -> Connection]
  /\ proc \in [Domains -> Processor]
  /\ sweep \subseteq Id
  /\ starts \in Nat
  /\ ops \in Nat
  /\ events \in Seq([domain : Domains, id : Id, born : Nat])
  /\ got \in [Conns -> Seq(Nat)]
-----------------------------------------------------------------------------
(* Every connection's session is registered and connected; every connected *)
(* session has a connection; no two connections have the same session.     *)
Owned ==
  \A c \in Conns : HasSession(c) =>
    conn[c].id \in DOMAIN reg /\ reg[conn[c].id].connected

Attended ==
  \A id \in DOMAIN reg : reg[id].connected =>
    \E c \in Conns : HasSession(c) /\ conn[c].id = id

OneEach ==
  \A c1, c2 \in Conns :
    (HasSession(c1) /\ HasSession(c2) /\ conn[c1].id = conn[c2].id) => c1 = c2

(* Bookmarks go by the bare key: no two sessions have the same one, which  *)
(* takes that every key in use was given as a name or drawn as a UUID.     *)
KeysDistinct ==
  \A id1, id2 \in DOMAIN reg : id1.key = id2.key => id1 = id2

KeysKnown ==
  \A id \in DOMAIN reg :
    /\ id.kind = "anonymous" => id.key \in minted
    /\ id.kind = "named" => id.key \in Names \cup minted

(* A bookmark's maker has been bound to its domain: that is where an       *)
(* anonymous disconnect looks for it.                                      *)
MarksKept ==
  \A b \in bookmarks : \E id \in DOMAIN reg :
    id.key = b.key /\ reg[id].born = b.born /\ b.domain \in reg[id].touched

CollectorsKept ==
  \A k \in collectors : k.id \in DOMAIN reg /\ reg[k.id].born = k.born

(* A session's domain is among those it has been bound to. *)
DomainTouched == \A id \in DOMAIN reg : reg[id].domain \in reg[id].touched

Kept ==
  /\ Owned /\ Attended /\ OneEach
  /\ KeysDistinct /\ KeysKnown
  /\ MarksKept /\ CollectorsKept /\ DomainTouched

-----------------------------------------------------------------------------
(* A connection's fields, by where it is. *)
LEMMA ConnFields ==
  ASSUME TypeOK, NEW c \in Conns
  PROVE  /\ HasSession(c) <=> conn[c].pc # "out"
         /\ conn[c].pc \in {"out", "claimed", "started", "draining", "live", "using"}
         /\ conn[c].pc = "out" => conn[c] = Out
         /\ conn[c].pc \in {"claimed", "started"} => conn[c] \in Starting
         /\ conn[c].pc = "draining" => conn[c] \in Draining
         /\ conn[c].pc \in {"live", "using"} => conn[c] \in Listening
         /\ HasSession(c) => conn[c].id \in Id
BY DEF TypeOK, Connection, Out, Starting, Draining, Listening, HasSession

LEMMA ProcFields ==
  ASSUME TypeOK, NEW d \in Domains
  PROVE  /\ proc[d].pc \in {"idle", "evaluate", "queue", "send"}
         /\ proc[d].pc = "evaluate" => proc[d] \in Evaluating
         /\ proc[d].pc \in {"queue", "send"} => proc[d] \in Dispatching
BY DEF TypeOK, Processor, IdleProc, Evaluating, Dispatching

LEMMA NewSessionTyped ==
  ASSUME TypeOK
  PROVE  NewSession \in SessionState
BY DomainAssumption DEF TypeOK, NewSession, SessionState

LEMMA BoundTyped ==
  ASSUME NEW state \in SessionState, NEW d \in Domains
  PROVE  /\ Bound(state, d) \in SessionState
         /\ Bound(state, d).domain = d
         /\ Bound(state, d).born = state.born
         /\ Bound(state, d).connected = state.connected
         /\ state.touched \subseteq Bound(state, d).touched
         /\ d \in Bound(state, d).touched
         /\ Bound(state, d).queue \in {state.queue, <<>>}
<1> DEFINE queue == IF state.domain = d THEN state.queue ELSE <<>>
<1>1. /\ queue \in Seq(Nat) /\ queue \in {state.queue, <<>>}
      /\ state.touched \cup {d} \in SUBSET Domains
  BY DEF SessionState
<1>2. Bound(state, d) =
        [state EXCEPT !.domain = d, !.touched = state.touched \cup {d},
                      !.queue = queue]
  BY DEF Bound
<1> HIDE DEF queue
<1>3. Bound(state, d) \in SessionState
  BY <1>1, <1>2 DEF SessionState
<1>4. /\ Bound(state, d).domain = d
      /\ Bound(state, d).born = state.born
      /\ Bound(state, d).connected = state.connected
  BY <1>1, <1>2 DEF SessionState
<1>5. /\ Bound(state, d).touched = state.touched \cup {d}
      /\ Bound(state, d).queue = queue
  BY <1>1, <1>2 DEF SessionState
<1> QED
  BY <1>1, <1>3, <1>4, <1>5

LEMMA EmptyTyped == <<>> \in Seq(Nat)
OBVIOUS

LEMMA QueueTyped ==
  ASSUME NEW state \in SessionState, NEW q \in Seq(Nat)
  PROVE  /\ [state EXCEPT !.queue = q] \in SessionState
         /\ [state EXCEPT !.queue = q].queue = q
BY DEF SessionState

LEMMA RegTyped ==
  ASSUME TypeOK, NEW id \in Id, NEW state \in SessionState
  PROVE  /\ With(reg, id, state) \in [DOMAIN With(reg, id, state) -> SessionState]
         /\ DOMAIN With(reg, id, state) = DOMAIN reg \cup {id}
         /\ DOMAIN With(reg, id, state) \subseteq Id
         /\ With(reg, id, state)[id] = state
         /\ \A x \in DOMAIN reg \ {id} : With(reg, id, state)[x] = reg[x]
BY DEF TypeOK, With

LEMMA WithoutTyped ==
  ASSUME TypeOK, NEW id
  PROVE  /\ Without(reg, id) \in [DOMAIN Without(reg, id) -> SessionState]
         /\ DOMAIN Without(reg, id) = DOMAIN reg \ {id}
         /\ DOMAIN Without(reg, id) \subseteq Id
         /\ \A x \in DOMAIN reg \ {id} : Without(reg, id)[x] = reg[x]
BY DEF TypeOK, Without

LEMMA NamedTyped ==
  ASSUME TypeOK, NEW n \in Names \cup minted
  PROVE  Named(n) \in Id /\ Anonymous(n) \in Id
BY DEF TypeOK, Named, Anonymous, Id, Keys
-----------------------------------------------------------------------------
(* Every step keeps the types. *)
LEMMA InitType == Init => TypeOK
<1> SUFFICES ASSUME Init PROVE TypeOK
  OBVIOUS
<1>1. /\ DOMAIN reg = {} /\ reg \in [DOMAIN reg -> SessionState]
  BY DEF Init
<1>2. Out \in Connection /\ IdleProc \in Processor
  BY DEF Connection, Processor
<1> QED
  BY <1>1, <1>2 DEF Init, TypeOK

LEMMA UntouchedType ==
  ASSUME TypeOK, UNCHANGED vars
  PROVE  TypeOK'
BY DEF TypeOK, vars, connVars, Connection, Starting, Draining, Listening, Out,
   Processor, Evaluating, Dispatching, IdleProc

(* What a step does not touch keeps its type. *)
RestTyped ==
  /\ minted \subseteq AnonKeys
  /\ bookmarks \subseteq [domain : Domains, key : Keys, born : Nat]
  /\ collectors \subseteq [id : Id, born : Nat]
  /\ proc \in [Domains -> Processor]
  /\ sweep \subseteq Id
  /\ starts \in Nat
  /\ ops \in Nat
  /\ events \in Seq([domain : Domains, id : Id, born : Nat])
  /\ got \in [Conns -> Seq(Nat)]

LEMMA TypeParts ==
  /\ TypeOK => RestTyped
  /\ /\ RestTyped' /\ conn' \in [Conns -> Connection]
     /\ DOMAIN reg' \subseteq Id /\ reg' \in [DOMAIN reg' -> SessionState]
     => TypeOK'
BY DEF TypeOK, RestTyped

LEMMA ConnPut ==
  ASSUME TypeOK, NEW c \in Conns, NEW v \in Connection
  PROVE  [conn EXCEPT ![c] = v] \in [Conns -> Connection]
BY DEF TypeOK

LEMMA RegPut ==
  ASSUME TypeOK, NEW id, NEW v \in SessionState
  PROVE  /\ [reg EXCEPT ![id] = v] \in [DOMAIN reg -> SessionState]
         /\ DOMAIN [reg EXCEPT ![id] = v] = DOMAIN reg
BY DEF TypeOK

LEMMA ConnType ==
  ASSUME TypeOK, Owned, NEW c \in Conns, ConnStep(c)
  PROVE  TypeOK'
<1>a. Out \in Connection /\ Starting \subseteq Connection
      /\ Draining \subseteq Connection /\ Listening \subseteq Connection
  BY DEF Connection
<1>b. RestTyped
  BY TypeParts
<1>c. conn[c].pc # "out" =>
        conn[c].id \in DOMAIN reg /\ conn[c].id \in Id /\ reg[conn[c].id] \in SessionState
  BY ConnFields DEF TypeOK, Owned
<1>1. ASSUME NEW n \in Names \cup minted, ClaimNamed(c, n)
      PROVE  TypeOK'
  <2>1. Named(n) \in Id
    BY NamedTyped
  <2>2. Claimed(n) \in SessionState
    BY <2>1, NewSessionTyped DEF Claimed, SessionState, TypeOK
  <2>3. [pc |-> "claimed", id |-> Named(n)] \in Connection
    BY <1>a, <2>1 DEF Starting
  <2>4. conn' \in [Conns -> Connection]
    BY <1>1, <2>3, ConnPut DEF ClaimNamed
  <2>5. DOMAIN reg' \subseteq Id /\ reg' \in [DOMAIN reg' -> SessionState]
    BY <1>1, <2>1, <2>2, RegTyped DEF ClaimNamed
  <2>6. RestTyped'
    BY <1>1, <1>b DEF ClaimNamed, RestTyped
  <2> QED
    BY <2>4, <2>5, <2>6, TypeParts
<1>2. ASSUME NEW k \in AnonKeys, CreateAnonymous(c, k)
      PROVE  TypeOK'
  <2>1. Anonymous(k) \in Id
    BY DEF Anonymous, Id, Keys
  <2>3. [pc |-> "claimed", id |-> Anonymous(k)] \in Connection
    BY <1>a, <2>1 DEF Starting
  <2>4. conn' \in [Conns -> Connection]
    BY <1>2, <2>3, ConnPut DEF CreateAnonymous
  <2>5. DOMAIN reg' \subseteq Id /\ reg' \in [DOMAIN reg' -> SessionState]
    BY <1>2, <2>1, NewSessionTyped, RegTyped DEF CreateAnonymous
  <2>6. RestTyped'
    BY <1>2, <1>b DEF CreateAnonymous, RestTyped
  <2> QED
    BY <2>4, <2>5, <2>6, TypeParts
<1>3. ASSUME NEW d \in Domains, BindAtStart(c, d)
      PROVE  TypeOK'
  <2>1. conn[c] \in Starting /\ conn[c].id \in DOMAIN reg
    BY <1>3, <1>c, ConnFields DEF BindAtStart
  <2>2. [conn[c] EXCEPT !.pc = "started"] \in Connection
    BY <1>a, <2>1 DEF Starting
  <2>3. conn' \in [Conns -> Connection]
    BY <1>3, <2>2, ConnPut DEF BindAtStart
  <2>4. DOMAIN reg' = DOMAIN reg /\ reg' \in [DOMAIN reg -> SessionState]
    BY <1>3, <2>1, BoundTyped, RegPut DEF BindAtStart, TypeOK
  <2>5. RestTyped'
    BY <1>3, <1>b DEF BindAtStart, RestTyped
  <2> QED
    BY <2>3, <2>4, <2>5, TypeParts DEF TypeOK
<1>4. ASSUME DrainQueue(c)
      PROVE  TypeOK'
  <2>1. conn[c] \in Starting /\ conn[c].id \in DOMAIN reg /\ conn[c].id \in Id
    BY <1>4, <1>c, ConnFields DEF DrainQueue
  <2>2. [pc |-> "draining", id |-> conn[c].id,
         outbox |-> reg[conn[c].id].queue] \in Connection
    BY <1>a, <2>1 DEF Draining, TypeOK, SessionState
  <2>3. conn' \in [Conns -> Connection]
    BY <1>4, <2>2, ConnPut DEF DrainQueue
  <2>4. DOMAIN reg' = DOMAIN reg /\ reg' \in [DOMAIN reg -> SessionState]
    <3>1. [reg[conn[c].id] EXCEPT !.queue = <<>>] \in SessionState
      BY <1>c, <1>4, QueueTyped, EmptyTyped DEF DrainQueue
    <3> QED
      BY <1>4, <3>1, RegPut DEF DrainQueue
  <2>5. RestTyped'
    BY <1>4, <1>b DEF DrainQueue, RestTyped
  <2> QED
    BY <2>3, <2>4, <2>5, TypeParts DEF TypeOK
<1>5. ASSUME WriteDrained(c)
      PROVE  TypeOK'
  <2>1. conn[c] \in Draining
    BY <1>5, ConnFields DEF WriteDrained
  <2>2. /\ Tail(conn[c].outbox) \in Seq(Nat) /\ Head(conn[c].outbox) \in Nat
    BY <1>5, <2>1 DEF WriteDrained, Draining
  <2>3. [conn[c] EXCEPT !.outbox = Tail(conn[c].outbox)] \in Connection
    BY <1>a, <2>1, <2>2 DEF Draining
  <2>4. conn' \in [Conns -> Connection]
    BY <1>5, <2>3, ConnPut DEF WriteDrained
  <2>5. RestTyped'
    BY <1>5, <1>b, <2>2, SMTT(30) DEF WriteDrained, RestTyped
  <2> QED
    BY <1>5, <2>4, <2>5, TypeParts DEF WriteDrained, TypeOK
<1>6. ASSUME Subscribe(c)
      PROVE  TypeOK'
  <2>0. conn[c].id \in Id /\ reg[conn[c].id].domain \in Domains
    BY <1>6, <1>c DEF Subscribe, SessionState
  <2>1. [pc |-> "live", id |-> conn[c].id, rx |-> <<>>,
         sub |-> reg[conn[c].id].domain] \in Connection
    BY <1>a, <2>0, EmptyTyped DEF Listening
  <2>2. conn' \in [Conns -> Connection]
    BY <1>6, <2>1, ConnPut DEF Subscribe
  <2>3. RestTyped'
    BY <1>6, <1>b DEF Subscribe, RestTyped
  <2> QED
    BY <1>6, <2>2, <2>3, TypeParts DEF Subscribe, TypeOK
<1>7. ASSUME Leave(c)
      PROVE  TypeOK'
  <2>1. conn' \in [Conns -> Connection]
    BY <1>7, <1>a, ConnPut DEF Leave
  <2>2. DOMAIN reg' \subseteq Id /\ reg' \in [DOMAIN reg' -> SessionState]
    <3> DEFINE id == conn[c].id
    <3>1. [reg[id] EXCEPT !.connected = FALSE, !.expired = FALSE] \in SessionState
      BY <1>7, <1>c DEF Leave, SessionState
    <3>2. CASE id.kind = "anonymous"
      BY <1>7, <3>2, WithoutTyped DEF Leave
    <3>3. CASE id.kind # "anonymous"
      <4>1. reg' = [reg EXCEPT ![id] = [reg[id] EXCEPT !.connected = FALSE,
                                                       !.expired = FALSE]]
        BY <1>7, <1>c, <3>3 DEF Leave, TypeOK
      <4> QED
        BY <3>1, <4>1, RegPut DEF TypeOK
    <3> QED
      BY <3>2, <3>3
  <2>3. RestTyped'
    BY <1>7, <1>b DEF Leave, RestTyped, ClearedOf, Detached
  <2> QED
    BY <2>1, <2>2, <2>3, TypeParts
<1>8. ASSUME NEW n \in Names \cup minted, Rename(c, n)
      PROVE  TypeOK'
  <2> DEFINE old == conn[c].id
             new == Named(n)
             displaced == new \in DOMAIN reg
  <2>0. /\ conn[c].pc = "live" /\ ops' = ops + 1
        /\ UNCHANGED <<minted, proc, sweep, starts, events, got>>
        /\ reg' = With(Without(reg, old), new, [reg[old] EXCEPT !.expired = FALSE])
        /\ collectors' = TransferCollectors(old, new, displaced)
        /\ bookmarks' = TransferBookmarks(old, new, displaced)
        /\ conn' = [conn EXCEPT ![c].id = new]
    BY <1>8 DEF Rename, Request, Rekeyed
  <2>1. old \in Id /\ new \in Id /\ old \in DOMAIN reg /\ conn[c] \in Listening
    BY <2>0, <1>c, ConnFields, NamedTyped
  <2>2. [conn[c] EXCEPT !.id = new] \in Connection
    BY <1>a, <2>1 DEF Listening
  <2>3. conn' \in [Conns -> Connection]
    BY <2>0, <2>2, ConnPut
  <2>4. [reg[old] EXCEPT !.expired = FALSE] \in SessionState
    BY <2>0, <1>c DEF SessionState
  <2>5. DOMAIN reg' \subseteq Id /\ reg' \in [DOMAIN reg' -> SessionState]
    BY <2>0, <2>1, <2>4 DEF With, Without, TypeOK
  <2>6. TransferCollectors(old, new, displaced) \subseteq [id : Id, born : Nat]
    BY <2>1 DEF TransferCollectors, Detached, TypeOK
  <2>7. TransferBookmarks(old, new, displaced)
          \subseteq [domain : Domains, key : Keys, born : Nat]
    <3>1. old.key \in Keys /\ new.key \in Keys
      BY <2>1 DEF Id
    <3>2. ASSUME NEW b \in [domain : Domains, key : Keys, born : Nat]
          PROVE  [b EXCEPT !.key = IF b.key = old.key THEN new.key ELSE b.key]
                   \in [domain : Domains, key : Keys, born : Nat]
      BY <3>1
    <3> QED
      BY <3>2 DEF TransferBookmarks, ClearedOf, TypeOK
  <2>8. RestTyped'
    BY <2>0, <1>b, <2>6, <2>7 DEF RestTyped
  <2> QED
    BY <2>3, <2>5, <2>8, TypeParts
<1>9. ASSUME NEW d \in Domains, UseDomain(c, d)
      PROVE  TypeOK'
  <2>1. conn[c] \in Listening /\ conn[c].id \in DOMAIN reg
    BY <1>9, <1>c, ConnFields DEF UseDomain, Request
  <2>2. [conn[c] EXCEPT !.pc = "using"] \in Connection
    BY <1>a, <2>1 DEF Listening
  <2>3. conn' \in [Conns -> Connection]
    BY <1>9, <2>2, ConnPut DEF UseDomain
  <2>4. DOMAIN reg' = DOMAIN reg /\ reg' \in [DOMAIN reg -> SessionState]
    BY <1>9, <2>1, BoundTyped, RegPut DEF UseDomain, TypeOK
  <2>5. RestTyped'
    BY <1>9, <1>b DEF UseDomain, Request, RestTyped
  <2> QED
    BY <2>3, <2>4, <2>5, TypeParts DEF TypeOK
<1>10. ASSUME Resubscribe(c)
       PROVE  TypeOK'
  <2> DEFINE d == reg[conn[c].id].domain
  <2>1. conn[c] \in Listening /\ d \in Domains
    BY <1>10, <1>c, ConnFields DEF Resubscribe, SessionState
  <2>2. Resubscribed(conn[c], d) \in Listening
    <3>1. \A q \in Seq(Nat) : [conn[c] EXCEPT !.sub = d, !.rx = q] \in Listening
      BY <2>1 DEF Listening
    <3> QED
      BY <2>1, <3>1, EmptyTyped DEF Resubscribed
  <2>3. [Resubscribed(conn[c], d) EXCEPT !.pc = "live"] \in Connection
    BY <1>a, <2>2 DEF Listening
  <2>4. conn' \in [Conns -> Connection]
    BY <1>10, <2>3, ConnPut DEF Resubscribe
  <2>5. RestTyped'
    BY <1>10, <1>b DEF Resubscribe, RestTyped
  <2> QED
    BY <1>10, <2>4, <2>5, TypeParts DEF Resubscribe, TypeOK
<1>11. ASSUME AddBookmark(c) \/ AddCollector(c)
       PROVE  TypeOK'
  <2>1. /\ conn[c].pc = "live" /\ UNCHANGED <<reg, conn>>
    BY <1>11 DEF AddBookmark, AddCollector, Request
  <2>2. [domain |-> reg[conn[c].id].domain, key |-> conn[c].id.key,
         born |-> reg[conn[c].id].born] \in [domain : Domains, key : Keys, born : Nat]
    BY <2>1, <1>c DEF SessionState, Id
  <2>3. [id |-> conn[c].id, born |-> reg[conn[c].id].born] \in [id : Id, born : Nat]
    BY <2>1, <1>c DEF SessionState
  <2>4. RestTyped'
    BY <1>11, <1>b, <2>2, <2>3 DEF AddBookmark, AddCollector, Request, RestTyped
  <2> QED
    BY <2>1, <2>4, TypeParts DEF TypeOK
<1>12. ASSUME NEW n \in Names \cup minted, Drop(c, n)
       PROVE  TypeOK'
  <2>1. RestTyped'
    BY <1>12, <1>b DEF Drop, Request, RestTyped, ClearedOf, Detached
  <2> QED
    BY <1>12, <2>1, WithoutTyped, TypeParts DEF Drop, TypeOK
<1>13. ASSUME ForwardEvent(c)
       PROVE  TypeOK'
  <2>1. conn[c] \in Listening
    BY <1>13, ConnFields DEF ForwardEvent
  <2>2. Tail(conn[c].rx) \in Seq(Nat) /\ Head(conn[c].rx) \in Nat
    BY <1>13, <2>1 DEF ForwardEvent, Listening
  <2>3. [conn[c] EXCEPT !.rx = Tail(conn[c].rx)] \in Connection
    BY <1>a, <2>1, <2>2 DEF Listening
  <2>4. conn' \in [Conns -> Connection]
    BY <1>13, <2>3, ConnPut DEF ForwardEvent
  <2>5. RestTyped'
    BY <1>13, <1>b, <2>2, SMTT(30) DEF ForwardEvent, RestTyped
  <2> QED
    BY <1>13, <2>4, <2>5, TypeParts DEF ForwardEvent, TypeOK
<1> QED
  BY <1>1, <1>2, <1>3, <1>4, <1>5, <1>6, <1>7, <1>8, <1>9, <1>10, <1>11, <1>12,
     <1>13 DEF ConnStep

LEMMA ProcPut ==
  ASSUME TypeOK, NEW d \in Domains, NEW v \in Processor
  PROVE  [proc EXCEPT ![d] = v] \in [Domains -> Processor]
BY DEF TypeOK

(* An event on a receiver: the oldest goes when the channel is full. *)
LEMMA PushedTyped ==
  ASSUME NEW rx \in Seq(Nat), NEW e \in Nat
  PROVE  Pushed(rx, e) \in Seq(Nat)
BY BufferAssumption DEF Pushed

LEMMA QueuedTyped ==
  ASSUME NEW q \in Seq(Nat), NEW e \in Nat
  PROVE  Queued(q, e) \in Seq(Nat)
BY DEF Queued

LEMMA ServedTyped ==
  ASSUME TypeOK, NEW d \in Domains, NEW id,
         proc[d].pc \in {"evaluate", "queue", "send"}
  PROVE  Served(d, id) \in Processor
<1>1. proc[d].todo \subseteq Id
  BY ProcFields DEF Evaluating, Dispatching
<1> QED
  BY <1>1 DEF Served, Processor, Evaluating

LEMMA ProcType ==
  ASSUME TypeOK, NEW d \in Domains, ProcStep(d)
  PROVE  TypeOK'
<1>b. RestTyped
  BY TypeParts
<1>1. ASSUME TakeRecord(d)
      PROVE  TypeOK'
  <2>1. [pc |-> "evaluate", todo |-> {id \in DOMAIN reg : reg[id].domain = d}]
          \in Processor
    BY DEF TypeOK, Processor, Evaluating
  <2>2. proc' \in [Domains -> Processor]
    BY <1>1, <2>1, ProcPut DEF TakeRecord
  <2> QED
    BY <1>1, <2>2 DEF TakeRecord, TypeOK, connVars
<1>2. ASSUME NEW id \in DOMAIN reg, Fire(d, id)
      PROVE  TypeOK'
  <2>1. id \in Id /\ reg[id].born \in Nat /\ proc[d].todo \subseteq Id
    BY <1>2, ProcFields DEF Fire, TypeOK, SessionState, Evaluating
  <2>2. [pc |-> "queue", todo |-> proc[d].todo, id |-> id, event |-> Len(events) + 1]
          \in Processor
    BY <2>1 DEF TypeOK, Processor, Dispatching
  <2>3. proc' \in [Domains -> Processor]
    BY <1>2, <2>2, ProcPut DEF Fire
  <2>4. events' \in Seq([domain : Domains, id : Id, born : Nat])
    BY <1>2, <2>1 DEF Fire, TypeOK
  <2> QED
    BY <1>2, <2>3, <2>4 DEF Fire, TypeOK, connVars
<1>3. ASSUME NEW id, NoMatch(d, id)
      PROVE  TypeOK'
  <2>1. proc' \in [Domains -> Processor]
    BY <1>3, ServedTyped, ProcPut DEF NoMatch
  <2> QED
    BY <1>3, <2>1 DEF NoMatch, TypeOK, connVars
<1>4. ASSUME QueueEvent(d)
      PROVE  TypeOK'
  <2> DEFINE id == proc[d].id
  <2>1. proc[d] \in Dispatching
    BY <1>4, ProcFields DEF QueueEvent
  <2>2. [proc[d] EXCEPT !.pc = "send"] \in Processor
    BY <2>1 DEF Dispatching, Processor
  <2>3. proc' \in [Domains -> Processor]
    BY <1>4, <2>2, ProcPut DEF QueueEvent
  <2>4. DOMAIN reg' = DOMAIN reg /\ reg' \in [DOMAIN reg -> SessionState]
    <3>1. CASE id \in DOMAIN reg /\ id.kind = "named" /\ ~reg[id].connected
      <4>1. reg[id] \in SessionState /\ reg[id].queue \in Seq(Nat)
        BY <3>1 DEF TypeOK, SessionState
      <4>2. Queued(reg[id].queue, proc[d].event) \in Seq(Nat)
        BY <2>1, <4>1, QueuedTyped DEF Dispatching
      <4>3. [reg[id] EXCEPT !.queue = Queued(reg[id].queue, proc[d].event)]
              \in SessionState
        BY <4>1, <4>2, QueueTyped
      <4> QED
        BY <1>4, <3>1, <4>3, RegPut DEF QueueEvent
    <3>2. CASE ~(id \in DOMAIN reg /\ id.kind = "named" /\ ~reg[id].connected)
      BY <1>4, <3>2 DEF QueueEvent, TypeOK
    <3> QED
      BY <3>1, <3>2
  <2> QED
    BY <1>4, <2>3, <2>4 DEF QueueEvent, TypeOK, connVars
<1>5. ASSUME SendEvent(d)
      PROVE  TypeOK'
  <2>1. proc[d] \in Dispatching
    BY <1>5, ProcFields DEF SendEvent
  <2>2. proc' \in [Domains -> Processor]
    BY <1>5, ServedTyped, ProcPut DEF SendEvent
  <2>3. ASSUME NEW c \in Conns, Live(c)
        PROVE  [conn[c] EXCEPT !.rx = Pushed(conn[c].rx, proc[d].event)] \in Connection
    <3>1. conn[c] \in Listening
      BY <2>3, ConnFields DEF Live
    <3>2. Pushed(conn[c].rx, proc[d].event) \in Seq(Nat)
      BY <2>1, <3>1, PushedTyped DEF Listening, Dispatching
    <3> QED
      BY <3>1, <3>2 DEF Listening, Connection
  <2>4. conn' \in [Conns -> Connection]
    BY <1>5, <2>3 DEF SendEvent, TypeOK
  <2> QED
    BY <1>5, <2>2, <2>4 DEF SendEvent, TypeOK
<1> QED
  BY <1>1, <1>2, <1>3, <1>4, <1>5 DEF ProcStep

LEMMA SweepType ==
  ASSUME TypeOK, (\E id \in DOMAIN reg : Expire(id)) \/ SweepList \/ Dispose
  PROVE  TypeOK'
<1>1. ASSUME NEW id \in DOMAIN reg, Expire(id)
      PROVE  TypeOK'
  <2>1. [reg[id] EXCEPT !.expired = TRUE] \in SessionState
    BY DEF TypeOK, SessionState
  <2>2. DOMAIN reg' = DOMAIN reg /\ reg' \in [DOMAIN reg -> SessionState]
    BY <1>1, <2>1, RegPut DEF Expire
  <2> QED
    BY <1>1, <2>2 DEF Expire, TypeOK, connVars
<1>2. ASSUME SweepList
      PROVE  TypeOK'
  BY <1>2 DEF SweepList, SweepCandidates, TypeOK, connVars
<1>3. ASSUME NEW n \in Names \cup minted, SweepDispose(Named(n))
      PROVE  TypeOK'
  <2>1. DOMAIN reg' \subseteq Id /\ reg' \in [DOMAIN reg' -> SessionState]
    BY <1>3, WithoutTyped DEF SweepDispose, TypeOK
  <2>2. RestTyped'
    BY <1>3, TypeParts DEF SweepDispose, RestTyped, ClearedOf, Detached, connVars
  <2> QED
    BY <1>3, <2>1, <2>2, TypeParts DEF SweepDispose, TypeOK, connVars
<1> QED
  BY <1>1, <1>2, <1>3 DEF Dispose

LEMMA NextType ==
  ASSUME TypeOK, Owned, [Next]_vars
  PROVE  TypeOK'
BY UntouchedType, ConnType, ProcType, SweepType DEF Next
-----------------------------------------------------------------------------
(* Who owns what. *)

LEMMA InitKept == Init => Kept
BY DEF Init, Kept, Owned, Attended, OneEach, KeysDistinct, KeysKnown, MarksKept,
   CollectorsKept, DomainTouched, HasSession

(* A step that registers, claims and disposes of nothing. *)
SamePlaces ==
  /\ DOMAIN reg' = DOMAIN reg
  /\ \A id \in DOMAIN reg :
       /\ reg'[id].born = reg[id].born
       /\ reg'[id].connected = reg[id].connected
       /\ reg[id].touched \subseteq reg'[id].touched
       /\ reg'[id].domain \in reg'[id].touched
  /\ \A c \in Conns :
       /\ HasSession(c)' = HasSession(c)
       /\ HasSession(c) => conn'[c].id = conn[c].id

LEMMA SamePlacesKept ==
  ASSUME Kept, SamePlaces, UNCHANGED <<minted, bookmarks, collectors>>
  PROVE  Kept'
<1> USE DEF Kept, SamePlaces
<1>1. Owned'
  BY DEF Owned
<1>2. Attended'
  BY DEF Attended
<1>3. OneEach'
  BY DEF OneEach
<1>4. KeysDistinct' /\ KeysKnown'
  BY DEF KeysDistinct, KeysKnown
<1>5. MarksKept'
  BY DEF MarksKept
<1>6. CollectorsKept' /\ DomainTouched'
  BY DEF CollectorsKept, DomainTouched
<1> QED
  BY <1>1, <1>2, <1>3, <1>4, <1>5, <1>6

(* The same, of a step that leaves the registry or the connections alone. *)
LEMMA SameReg ==
  ASSUME Kept, UNCHANGED <<reg, minted, bookmarks, collectors>>,
         \A c \in Conns : /\ HasSession(c)' = HasSession(c)
                          /\ HasSession(c) => conn'[c].id = conn[c].id
  PROVE  Kept'
BY SamePlacesKept DEF SamePlaces, Kept, DomainTouched

LEMMA SameConn ==
  ASSUME Kept, UNCHANGED <<conn, minted, bookmarks, collectors>>,
         DOMAIN reg' = DOMAIN reg,
         \A id \in DOMAIN reg :
           /\ reg'[id].born = reg[id].born
           /\ reg'[id].connected = reg[id].connected
           /\ reg'[id].touched = reg[id].touched
           /\ reg'[id].domain = reg[id].domain
  PROVE  Kept'
BY SamePlacesKept DEF SamePlaces, Kept, DomainTouched, HasSession

(* A connection that changes what it does, and not its session. *)
LEMMA SameSession ==
  ASSUME TypeOK, NEW c \in Conns, conn[c] # Out, NEW v,
         conn' = [conn EXCEPT ![c] = v], v # Out, v.id = conn[c].id
  PROVE  \A x \in Conns : /\ HasSession(x)' = HasSession(x)
                          /\ HasSession(x) => conn'[x].id = conn[x].id
BY DEF TypeOK, HasSession
LEMMA IdForm ==
  ASSUME NEW id \in Id
  PROVE  /\ id.kind = "named" => id = Named(id.key)
         /\ id.kind = "anonymous" => id = Anonymous(id.key)
         /\ id.kind \in {"named", "anonymous"} /\ id.key \in Keys
BY DEF Id, Named, Anonymous

LEMMA IdFields ==
  ASSUME NEW k
  PROVE  /\ Named(k).key = k /\ Named(k).kind = "named"
         /\ Anonymous(k).key = k /\ Anonymous(k).kind = "anonymous"
BY DEF Named, Anonymous

(* A session is taken: one that nobody had, under a key that was free.     *)
LEMMA TakenKept ==
  ASSUME TypeOK, Kept, NEW c \in Conns, conn[c] = Out,
         NEW id \in Id, NEW state \in SessionState,
         state.connected, state.domain \in state.touched,
         reg' = With(reg, id, state),
         conn' = [conn EXCEPT ![c] = [pc |-> "claimed", id |-> id]],
         UNCHANGED <<bookmarks, collectors>>,
         minted \subseteq minted',
         id \in DOMAIN reg =>
           /\ ~reg[id].connected
           /\ state.born = reg[id].born /\ state.touched = reg[id].touched,
         id \notin DOMAIN reg => \A x \in DOMAIN reg : x.key # id.key,
         id.kind = "anonymous" => id.key \in minted',
         id.kind = "named" => id.key \in Names \cup minted'
  PROVE  Kept'
<1>1. /\ DOMAIN reg' = DOMAIN reg \cup {id}
      /\ reg'[id] = state
      /\ \A x \in DOMAIN reg \ {id} : reg'[x] = reg[x]
  BY RegTyped
<1>2. /\ conn'[c].id = id /\ HasSession(c)' /\ ~HasSession(c)
      /\ \A x \in Conns \ {c} : conn'[x] = conn[x] /\ HasSession(x)' = HasSession(x)
  BY DEF TypeOK, HasSession, Out
<1>3. \A x \in Conns : HasSession(x) => conn[x].id # id /\ x # c
  BY <1>2 DEF Kept, Owned
<1> USE <1>1, <1>2, <1>3 DEF Kept
<1>4. Owned'
  BY DEF Owned
<1>5. Attended'
  BY DEF Attended
<1>6. OneEach'
  BY DEF OneEach
<1>7. KeysDistinct'
  BY DEF KeysDistinct
<1>8. KeysKnown'
  BY DEF KeysKnown
<1>9. MarksKept'
  BY DEF MarksKept
<1>10. CollectorsKept'
  BY DEF CollectorsKept
<1>11. DomainTouched'
  BY DEF DomainTouched
<1> QED
  BY <1>4, <1>5, <1>6, <1>7, <1>8, <1>9, <1>10, <1>11

LEMMA ClaimKept ==
  ASSUME TypeOK, Kept, NEW c \in Conns, NEW n \in Names \cup minted, ClaimNamed(c, n)
  PROVE  Kept'
<1>1. Named(n) \in Id /\ Named(n).key = n /\ Named(n).kind = "named"
  BY NamedTyped, IdFields
<1>2. CASE Named(n) \in DOMAIN reg
  <2>1. reg[Named(n)] \in SessionState /\ ~reg[Named(n)].connected
    BY <1>2 DEF TypeOK, ClaimNamed, Claimable
  <2>2. /\ Claimed(n) \in SessionState
        /\ Claimed(n).connected
        /\ Claimed(n).born = reg[Named(n)].born
        /\ Claimed(n).touched = reg[Named(n)].touched
        /\ Claimed(n).domain = reg[Named(n)].domain
    BY <1>2, <2>1 DEF Claimed, SessionState
  <2> QED
    BY <1>1, <1>2, <2>1, <2>2, TakenKept DEF ClaimNamed, Kept, DomainTouched
<1>3. CASE Named(n) \notin DOMAIN reg
  <2>1. /\ Claimed(n) \in SessionState
        /\ Claimed(n).connected
        /\ Claimed(n).domain \in Claimed(n).touched
    BY <1>3, NewSessionTyped DEF Claimed, NewSession
  <2>2. ASSUME NEW x \in DOMAIN reg, x.key = n
        PROVE  FALSE
    BY <1>3, <2>2, IdForm DEF ClaimNamed, Claimable, RefusedName, TypeOK
  <2> QED
    BY <1>1, <1>3, <2>1, <2>2, TakenKept DEF ClaimNamed
<1> QED
  BY <1>2, <1>3

LEMMA CreateKept ==
  ASSUME TypeOK, Kept, NEW c \in Conns, NEW k \in AnonKeys, CreateAnonymous(c, k)
  PROVE  Kept'
<1>1. Anonymous(k) \in Id /\ Anonymous(k).key = k /\ Anonymous(k).kind = "anonymous"
  BY IdFields DEF Anonymous, Id, Keys
<1>2. ASSUME NEW x \in DOMAIN reg, x.key = k
      PROVE  FALSE
  BY <1>2, IdForm, KeyAssumption DEF CreateAnonymous, Kept, KeysKnown, TypeOK
<1>3. /\ NewSession \in SessionState /\ NewSession.connected
      /\ NewSession.domain \in NewSession.touched
  BY NewSessionTyped DEF NewSession
<1>4. Anonymous(k) \notin DOMAIN reg
  BY <1>1, <1>2
<1> QED
  BY <1>1, <1>2, <1>3, <1>4, TakenKept DEF CreateAnonymous

(* A session goes, and with it its connection, if it has one, and all that *)
(* was kept under its key.                                                 *)
LEMMA GoneKept ==
  ASSUME TypeOK, Kept, NEW id \in DOMAIN reg, NEW domains,
         reg[id].touched \subseteq domains,
         reg' = Without(reg, id),
         collectors' = Detached(id),
         bookmarks' = ClearedOf(id, domains),
         minted' = minted,
         \A c \in Conns :
           /\ HasSession(c)' => HasSession(c) /\ conn[c].id # id
           /\ HasSession(c) /\ conn[c].id # id =>
                HasSession(c)' /\ conn'[c].id = conn[c].id
  PROVE  Kept'
<1>1. /\ DOMAIN reg' = DOMAIN reg \ {id}
      /\ \A x \in DOMAIN reg \ {id} : reg'[x] = reg[x]
  BY WithoutTyped
<1> USE <1>1 DEF Kept
<1>2. Owned' /\ Attended'
  BY DEF Owned, Attended
<1>3. OneEach'
  BY DEF OneEach
<1>4. KeysDistinct' /\ KeysKnown' /\ DomainTouched'
  BY DEF KeysDistinct, KeysKnown, DomainTouched
<1>5. MarksKept'
  <2> SUFFICES ASSUME NEW b \in bookmarks, b.key # id.key \/ b.domain \notin domains
               PROVE  \E x \in DOMAIN reg' : /\ x.key = b.key /\ reg'[x].born = b.born
                                             /\ b.domain \in reg'[x].touched
    BY DEF MarksKept, ClearedOf
  <2>1. PICK x \in DOMAIN reg : /\ x.key = b.key /\ reg[x].born = b.born
                               /\ b.domain \in reg[x].touched
    BY DEF MarksKept
  <2>2. x # id
    BY <2>1
  <2> QED
    BY <2>1, <2>2
<1>6. CollectorsKept'
  BY DEF CollectorsKept, Detached
<1> QED
  BY <1>2, <1>3, <1>4, <1>5, <1>6

LEMMA LeaveKept ==
  ASSUME TypeOK, Kept, NEW c \in Conns, Leave(c)
  PROVE  Kept'
<1> DEFINE id == conn[c].id
<1>1. /\ HasSession(c) /\ ~HasSession(c)'
      /\ \A x \in Conns \ {c} : conn'[x] = conn[x] /\ HasSession(x)' = HasSession(x)
  BY ConnFields DEF Leave, TypeOK, HasSession
<1>2. /\ id \in DOMAIN reg
      /\ \A x \in Conns \ {c} : HasSession(x) => conn[x].id # id
  BY <1>1 DEF Kept, Owned, OneEach
<1>3. CASE id.kind = "anonymous"
  <2>1. /\ reg' = Without(reg, id) /\ collectors' = Detached(id)
        /\ bookmarks' = ClearedOf(id, reg[id].touched) /\ minted' = minted
    BY <1>3 DEF Leave
  <2>2. \A x \in Conns :
          /\ HasSession(x)' => HasSession(x) /\ conn[x].id # id
          /\ HasSession(x) /\ conn[x].id # id =>
               HasSession(x)' /\ conn'[x].id = conn[x].id
    BY <1>1, <1>2
  <2> QED
    BY <1>2, <2>1, <2>2, GoneKept
<1>4. CASE id.kind # "anonymous"
  <2>1. /\ reg' = [reg EXCEPT ![id] = [reg[id] EXCEPT !.connected = FALSE,
                                                      !.expired = FALSE]]
        /\ UNCHANGED <<minted, bookmarks, collectors>>
    BY <1>2, <1>4 DEF Leave, TypeOK
  <2>2. reg[id] \in SessionState
    BY <1>2 DEF TypeOK
  <2>3. /\ DOMAIN reg' = DOMAIN reg
        /\ \A x \in DOMAIN reg \ {id} : reg'[x] = reg[x]
        /\ reg'[id] = [reg[id] EXCEPT !.connected = FALSE, !.expired = FALSE]
    BY <1>2, <2>1 DEF TypeOK
  <2>4. /\ reg'[id].connected = FALSE /\ reg'[id].born = reg[id].born
        /\ reg'[id].touched = reg[id].touched /\ reg'[id].domain = reg[id].domain
    BY <2>2, <2>3 DEF SessionState
  <2>5. Owned' /\ Attended'
    <3>1. ASSUME NEW x \in DOMAIN reg', reg'[x].connected
          PROVE  \E y \in Conns : HasSession(y)' /\ conn'[y].id = x
      <4>1. x \in DOMAIN reg /\ reg[x].connected /\ x # id
        BY <2>3, <2>4, <3>1
      <4>2. PICK y \in Conns : HasSession(y) /\ conn[y].id = x
        BY <4>1 DEF Kept, Attended
      <4> QED
        BY <1>1, <4>1, <4>2
    <3>2. Owned'
      BY <1>1, <1>2, <2>3 DEF Kept, Owned
    <3> QED
      BY <3>1, <3>2 DEF Attended
  <2> HIDE DEF id
  <2> USE <1>1, <1>2, <2>1, <2>3, <2>4 DEF Kept
  <2>6. OneEach'
    BY DEF OneEach
  <2>7. KeysDistinct' /\ KeysKnown' /\ DomainTouched'
    BY DEF KeysDistinct, KeysKnown, DomainTouched
  <2>8. MarksKept'
    BY DEF MarksKept
  <2>9. CollectorsKept'
    BY DEF CollectorsKept
  <2> QED
    BY <2>5, <2>6, <2>7, <2>8, <2>9
<1> QED
  BY <1>3, <1>4

LEMMA DropKept ==
  ASSUME TypeOK, Kept, NEW c \in Conns, NEW n \in Names \cup minted, Drop(c, n)
  PROVE  Kept'
<1> DEFINE id == Named(n)
<1>1. /\ reg' = Without(reg, id) /\ collectors' = Detached(id)
      /\ UNCHANGED <<conn, minted>>
      /\ \A x \in Conns : HasSession(x)' = HasSession(x) /\ conn'[x] = conn[x]
  BY DEF Drop, Request, HasSession
<1>2. CASE id \in DOMAIN reg
  <2>1. bookmarks' = ClearedOf(id, Domains) /\ reg[id].touched \subseteq Domains
    BY <1>2 DEF Drop, TypeOK, SessionState
  <2>2. \A x \in Conns : HasSession(x) => conn[x].id # id
    BY <1>2 DEF Drop, Droppable, Kept, Owned
  <2> QED
    BY <1>1, <1>2, <2>1, <2>2, GoneKept
<1>3. CASE id \notin DOMAIN reg
  <2>1. reg' = reg
    BY <1>1, <1>3 DEF Without, TypeOK
  <2>2. collectors' = collectors
    BY <1>1, <1>3 DEF Detached, Kept, CollectorsKept
  <2>3. bookmarks' = bookmarks
    BY <1>3 DEF Drop
  <2> QED
    BY <1>1, <2>1, <2>2, <2>3, SameReg
<1> QED
  BY <1>2, <1>3

LEMMA DisposeKept ==
  ASSUME TypeOK, Kept, NEW n \in Names \cup minted, SweepDispose(Named(n))
  PROVE  Kept'
<1> DEFINE id == Named(n)
<1>1. /\ UNCHANGED <<conn, minted>>
      /\ \A x \in Conns : HasSession(x)' = HasSession(x) /\ conn'[x] = conn[x]
  BY DEF SweepDispose, connVars, HasSession
<1>2. CASE Abandoned(id)
  <2>1. /\ reg' = Without(reg, id) /\ collectors' = Detached(id)
        /\ bookmarks' = ClearedOf(id, Domains)
        /\ id \in DOMAIN reg /\ reg[id].touched \subseteq Domains
    BY <1>2 DEF SweepDispose, Abandoned, TypeOK, SessionState
  <2>2. \A x \in Conns : HasSession(x) => conn[x].id # id
    BY <1>2 DEF Abandoned, Kept, Owned
  <2> QED
    BY <1>1, <2>1, <2>2, GoneKept
<1>3. CASE ~Abandoned(id)
  BY <1>1, <1>3, SameReg DEF SweepDispose
<1> QED
  BY <1>2, <1>3

LEMMA AddKept ==
  ASSUME TypeOK, Kept, NEW c \in Conns, AddBookmark(c) \/ AddCollector(c)
  PROVE  Kept'
<1> DEFINE id == conn[c].id
<1>1. /\ conn[c].pc = "live" /\ UNCHANGED <<reg, conn, minted>>
      /\ \A x \in Conns : HasSession(x)' = HasSession(x)
  BY DEF AddBookmark, AddCollector, Request, HasSession
<1>2. id \in DOMAIN reg
  BY <1>1, ConnFields DEF Kept, Owned
<1>3. \A b \in bookmarks' : b \in bookmarks \/
        b = [domain |-> reg[id].domain, key |-> id.key, born |-> reg[id].born]
  BY DEF AddBookmark, AddCollector
<1>4. \A k \in collectors' : k \in collectors \/ k = [id |-> id, born |-> reg[id].born]
  BY DEF AddBookmark, AddCollector
<1>5. MarksKept'
  BY <1>1, <1>2, <1>3 DEF Kept, MarksKept, DomainTouched
<1>6. CollectorsKept'
  BY <1>1, <1>2, <1>4 DEF Kept, CollectorsKept
<1>7. Owned' /\ Attended' /\ OneEach'
  BY <1>1 DEF Kept, Owned, Attended, OneEach
<1> QED
  BY <1>1, <1>5, <1>6, <1>7 DEF Kept, KeysDistinct, KeysKnown, DomainTouched

LEMMA RenameKept ==
  ASSUME TypeOK, Kept, NEW c \in Conns, NEW n \in Names \cup minted, Rename(c, n)
  PROVE  Kept'
<1> DEFINE old == conn[c].id
           new == Named(n)
           displaced == new \in DOMAIN reg
           state == [reg[old] EXCEPT !.expired = FALSE]
<1>1. /\ conn[c].pc = "live" /\ minted' = minted
      /\ RenameAllowed(old, n)
      /\ reg' = With(Without(reg, old), new, state)
      /\ collectors' = TransferCollectors(old, new, displaced)
      /\ bookmarks' = TransferBookmarks(old, new, displaced)
      /\ conn' = [conn EXCEPT ![c].id = new]
  BY DEF Rename, Request, Rekeyed
<1>2. /\ HasSession(c) /\ conn[c] \in Listening
      /\ old \in DOMAIN reg /\ old \in Id /\ reg[old].connected
      /\ reg[old] \in SessionState
  BY <1>1, ConnFields DEF Kept, Owned, TypeOK
<1>3. new \in Id /\ new.key = n /\ new.kind = "named" /\ new # old
  BY <1>1, NamedTyped, IdFields DEF RenameAllowed
<1>4. /\ displaced => ~reg[new].connected
      /\ \A x \in DOMAIN reg : x.key = n => x = new \/ x = old
  <2>1. ASSUME NEW x \in DOMAIN reg, x.key = n
        PROVE  x = new \/ x = old
    BY <1>1, <2>1, IdForm DEF RenameAllowed, RefusedName, TypeOK
  <2> QED
    BY <1>1, <2>1 DEF RenameAllowed
<1>5. /\ state.born = reg[old].born /\ state.connected
      /\ state.touched = reg[old].touched /\ state.domain = reg[old].domain
  BY <1>2 DEF SessionState
<1> HIDE DEF state
<1>6. /\ DOMAIN reg' = (DOMAIN reg \ {old}) \cup {new}
      /\ reg'[new] = state
      /\ \A x \in DOMAIN reg \ {old, new} : reg'[x] = reg[x]
  BY <1>1 DEF With, Without
<1>7. /\ conn'[c].id = new /\ HasSession(c)'
      /\ \A x \in Conns \ {c} : conn'[x] = conn[x] /\ HasSession(x)' = HasSession(x)
  BY <1>1, <1>2 DEF TypeOK, HasSession, Listening, Out
<1>8. \A x \in Conns \ {c} : HasSession(x) => conn[x].id \notin {old, new}
  BY <1>2, <1>4 DEF Kept, Owned, OneEach
<1> HIDE DEF old, new
<1>9. Owned' /\ Attended'
  BY <1>2, <1>5, <1>6, <1>7, <1>8 DEF Kept, Owned, Attended
<1>10. OneEach'
  BY <1>7, <1>8 DEF Kept, OneEach
<1>11. KeysDistinct'
  BY <1>3, <1>4, <1>6 DEF Kept, KeysDistinct
<1>12. KeysKnown' /\ DomainTouched'
  BY <1>1, <1>2, <1>3, <1>5, <1>6 DEF Kept, KeysKnown, DomainTouched
<1>13. MarksKept'
  <2> SUFFICES ASSUME NEW b \in bookmarks'
               PROVE  \E x \in DOMAIN reg' : /\ x.key = b.key /\ reg'[x].born = b.born
                                             /\ b.domain \in reg'[x].touched
    BY DEF MarksKept
  <2>1. PICK a \in bookmarks :
          /\ displaced => a.key # n \/ a.domain \notin Domains
          /\ b = [a EXCEPT !.key = IF a.key = old.key THEN new.key ELSE a.key]
    BY <1>1, <1>3 DEF TransferBookmarks, ClearedOf
  <2>2. /\ a.domain \in Domains /\ b.domain = a.domain /\ b.born = a.born
        /\ b.key = IF a.key = old.key THEN new.key ELSE a.key
    BY <2>1 DEF TypeOK
  <2>3. PICK x \in DOMAIN reg : /\ x.key = a.key /\ reg[x].born = a.born
                               /\ a.domain \in reg[x].touched
    BY DEF Kept, MarksKept
  <2>4. CASE x = old
    BY <1>5, <1>6, <2>2, <2>3, <2>4
  <2>5. CASE x # old
    <3>1. a.key # old.key
      BY <1>2, <2>3, <2>5 DEF Kept, KeysDistinct
    <3>2. x # new
      BY <1>3, <2>1, <2>2, <2>3
    <3> QED
      BY <1>6, <2>2, <2>3, <2>5, <3>1, <3>2
  <2> QED
    BY <2>4, <2>5
<1>14. CollectorsKept'
  <2> SUFFICES ASSUME NEW k \in collectors'
               PROVE  k.id \in DOMAIN reg' /\ reg'[k.id].born = k.born
    BY DEF CollectorsKept
  <2>1. PICK a \in collectors :
          /\ displaced => a.id # new
          /\ k = [a EXCEPT !.id = IF a.id = old THEN new ELSE a.id]
    BY <1>1 DEF TransferCollectors, Detached
  <2>2. k.born = a.born /\ k.id = IF a.id = old THEN new ELSE a.id
    BY <2>1 DEF TypeOK
  <2>3. a.id \in DOMAIN reg /\ reg[a.id].born = a.born
    BY DEF Kept, CollectorsKept
  <2> QED
    BY <1>5, <1>6, <2>1, <2>2, <2>3
<1> QED
  BY <1>9, <1>10, <1>11, <1>12, <1>13, <1>14 DEF Kept

(* The other steps register, claim and dispose of nothing. *)
LEMMA BindKept ==
  ASSUME TypeOK, Kept, NEW c \in Conns, NEW d \in Domains, NEW pc \in {"started", "using"},
         conn[c].pc \in {"claimed", "live"},
         reg' = [reg EXCEPT ![conn[c].id] = Bound(reg[conn[c].id], d)],
         conn' = [conn EXCEPT ![c].pc = pc],
         UNCHANGED <<minted, bookmarks, collectors>>
  PROVE  Kept'
<1> DEFINE id == conn[c].id
           state == Bound(reg[id], d)
<1>1. id \in DOMAIN reg /\ reg[id] \in SessionState
  BY ConnFields DEF Kept, Owned, TypeOK
<1>2. /\ DOMAIN reg' = DOMAIN reg /\ reg'[id] = state
      /\ \A x \in DOMAIN reg \ {id} : reg'[x] = reg[x]
  BY <1>1 DEF TypeOK
<1>3. /\ state.born = reg[id].born /\ state.connected = reg[id].connected
      /\ reg[id].touched \subseteq state.touched /\ state.domain \in state.touched
  BY <1>1, BoundTyped
<1> HIDE DEF state
<1>4. conn[c] # Out /\ (conn[c] \in Starting \/ conn[c] \in Listening)
  BY ConnFields DEF Out
<1>5. [conn[c] EXCEPT !.pc = pc] # Out /\ [conn[c] EXCEPT !.pc = pc].id = conn[c].id
  BY <1>4 DEF Out, Starting, Listening
<1>6. \A x \in Conns : /\ HasSession(x)' = HasSession(x)
                       /\ HasSession(x) => conn'[x].id = conn[x].id
  BY <1>4, <1>5, SameSession
<1> QED
  BY <1>2, <1>3, <1>6, SamePlacesKept DEF SamePlaces, Kept, DomainTouched

LEMMA ConnKept ==
  ASSUME TypeOK, Kept, NEW c \in Conns, ConnStep(c)
  PROVE  Kept'
<1>3. ASSUME NEW d \in Domains, BindAtStart(c, d) \/ UseDomain(c, d)
      PROVE  Kept'
  BY <1>3, BindKept DEF BindAtStart, UseDomain, Request
<1>4. ASSUME DrainQueue(c)
      PROVE  Kept'
  <2> DEFINE id == conn[c].id
             v == [pc |-> "draining", id |-> id, outbox |-> reg[id].queue]
  <2>1. id \in DOMAIN reg /\ reg[id] \in SessionState /\ conn[c] # Out
    BY <1>4, ConnFields DEF DrainQueue, Kept, Owned, TypeOK, HasSession
  <2>2. /\ DOMAIN reg' = DOMAIN reg
        /\ \A x \in DOMAIN reg \ {id} : reg'[x] = reg[x]
        /\ reg'[id] = [reg[id] EXCEPT !.queue = <<>>]
    BY <1>4, <2>1 DEF DrainQueue, TypeOK
  <2>3. /\ reg'[id].born = reg[id].born /\ reg'[id].connected = reg[id].connected
        /\ reg'[id].touched = reg[id].touched /\ reg'[id].domain = reg[id].domain
    BY <2>1, <2>2 DEF SessionState
  <2>4. v # Out /\ v.id = conn[c].id
    BY DEF Out
  <2>5. \A x \in Conns : /\ HasSession(x)' = HasSession(x)
                         /\ HasSession(x) => conn'[x].id = conn[x].id
    BY <1>4, <2>1, <2>4, SameSession DEF DrainQueue
  <2> QED
    BY <1>4, <2>2, <2>3, <2>5, SamePlacesKept DEF SamePlaces, Kept, DomainTouched, DrainQueue
<1>5. ASSUME WriteDrained(c)
      PROVE  Kept'
  <2> DEFINE v == [conn[c] EXCEPT !.outbox = Tail(conn[c].outbox)]
  <2>1. conn[c] \in Draining /\ conn[c] # Out
    BY <1>5, ConnFields DEF WriteDrained, HasSession
  <2>2. v # Out /\ v.id = conn[c].id
    BY <2>1 DEF Draining, Out
  <2> QED
    BY <1>5, <2>1, <2>2, SameSession, SameReg DEF WriteDrained
<1>6. ASSUME Subscribe(c)
      PROVE  Kept'
  <2> DEFINE v == [pc |-> "live", id |-> conn[c].id, rx |-> <<>>,
                   sub |-> reg[conn[c].id].domain]
  <2>1. conn[c] # Out /\ v # Out /\ v.id = conn[c].id
    BY <1>6 DEF Subscribe, Out
  <2> QED
    BY <1>6, <2>1, SameSession, SameReg DEF Subscribe
<1>10. ASSUME Resubscribe(c)
       PROVE  Kept'
  <2> DEFINE d == reg[conn[c].id].domain
             v == [Resubscribed(conn[c], d) EXCEPT !.pc = "live"]
  <2>1. conn[c] \in Listening /\ conn[c] # Out
    BY <1>10, ConnFields DEF Resubscribe, HasSession
  <2>2. v # Out /\ v.id = conn[c].id
    BY <2>1 DEF Listening, Out, Resubscribed
  <2> QED
    BY <1>10, <2>1, <2>2, SameSession, SameReg DEF Resubscribe
<1>13. ASSUME ForwardEvent(c)
       PROVE  Kept'
  <2> DEFINE v == [conn[c] EXCEPT !.rx = Tail(conn[c].rx)]
  <2>1. conn[c] \in Listening /\ conn[c] # Out
    BY <1>13, ConnFields DEF ForwardEvent, HasSession
  <2>2. v # Out /\ v.id = conn[c].id
    BY <2>1 DEF Listening, Out
  <2> QED
    BY <1>13, <2>1, <2>2, SameSession, SameReg DEF ForwardEvent
<1> QED
  BY <1>3, <1>4, <1>5, <1>6, <1>10, <1>13, ClaimKept, CreateKept, LeaveKept,
     RenameKept, AddKept, DropKept DEF ConnStep

LEMMA ProcKept ==
  ASSUME TypeOK, Kept, NEW d \in Domains, ProcStep(d)
  PROVE  Kept'
<1>1. ASSUME QueueEvent(d)
      PROVE  Kept'
  <2> DEFINE id == proc[d].id
  <2>1. CASE id \in DOMAIN reg /\ id.kind = "named" /\ ~reg[id].connected
    <3> DEFINE q == Queued(reg[id].queue, proc[d].event)
    <3>1. reg[id] \in SessionState
      BY <2>1 DEF TypeOK
    <3>2. /\ DOMAIN reg' = DOMAIN reg
          /\ \A x \in DOMAIN reg \ {id} : reg'[x] = reg[x]
          /\ reg'[id] = [reg[id] EXCEPT !.queue = q]
      BY <1>1, <2>1 DEF QueueEvent, TypeOK
    <3> HIDE DEF q
    <3>3. /\ reg'[id].born = reg[id].born /\ reg'[id].connected = reg[id].connected
          /\ reg'[id].touched = reg[id].touched /\ reg'[id].domain = reg[id].domain
      BY <3>1, <3>2 DEF SessionState
    <3> QED
      BY <1>1, <3>2, <3>3, SameConn DEF QueueEvent, connVars
  <2>2. CASE ~(id \in DOMAIN reg /\ id.kind = "named" /\ ~reg[id].connected)
    BY <1>1, <2>2, SameConn DEF QueueEvent, connVars
  <2> QED
    BY <2>1, <2>2
<1>2. ASSUME SendEvent(d)
      PROVE  Kept'
  <2>1. ASSUME NEW c \in Conns
        PROVE  /\ HasSession(c)' = HasSession(c)
               /\ HasSession(c) => conn'[c].id = conn[c].id
    <3> DEFINE v == [conn[c] EXCEPT !.rx = Pushed(conn[c].rx, proc[d].event)]
    <3>1. CASE Live(c) /\ conn[c].sub = d
      <4>1. conn[c] \in Listening /\ HasSession(c)
        BY <3>1, ConnFields DEF Live
      <4>2. v # Out /\ v.id = conn[c].id
        BY <4>1 DEF Listening, Out
      <4> QED
        BY <1>2, <3>1, <4>1, <4>2 DEF SendEvent, HasSession
    <3>2. CASE ~(Live(c) /\ conn[c].sub = d)
      BY <1>2, <3>2 DEF SendEvent, HasSession
    <3> QED
      BY <3>1, <3>2
  <2> QED
    BY <1>2, <2>1, SameReg DEF SendEvent
<1>3. ASSUME UNCHANGED <<reg, minted, bookmarks, collectors, conn>>
      PROVE  Kept'
  BY <1>3, SameReg DEF HasSession
<1> QED
  BY <1>1, <1>2, <1>3 DEF ProcStep, TakeRecord, Fire, NoMatch, connVars

LEMMA NextKept ==
  ASSUME TypeOK, Kept, [Next]_vars
  PROVE  Kept'
<1>1. ASSUME NEW id \in DOMAIN reg, Expire(id)
      PROVE  Kept'
  <2>1. /\ DOMAIN reg' = DOMAIN reg
        /\ \A x \in DOMAIN reg \ {id} : reg'[x] = reg[x]
        /\ reg'[id] = [reg[id] EXCEPT !.expired = TRUE] /\ reg[id] \in SessionState
    BY <1>1 DEF Expire, TypeOK
  <2>2. /\ reg'[id].born = reg[id].born /\ reg'[id].connected = reg[id].connected
        /\ reg'[id].touched = reg[id].touched /\ reg'[id].domain = reg[id].domain
    BY <2>1 DEF SessionState
  <2> QED
    BY <1>1, <2>1, <2>2, SameConn DEF Expire, connVars
<1>2. ASSUME UNCHANGED <<reg, minted, bookmarks, collectors, conn>>
      PROVE  Kept'
  BY <1>2, SameReg DEF HasSession
<1>3. ASSUME SweepList
      PROVE  Kept'
  BY <1>2, <1>3 DEF SweepList, connVars
<1>4. ASSUME UNCHANGED vars
      PROVE  Kept'
  BY <1>2, <1>4 DEF vars, connVars
<1> QED
  BY <1>1, <1>3, <1>4, ConnKept, ProcKept, DisposeKept DEF Next, Dispose

(* Types and ownership hold together, for any names, UUIDs, connections    *)
(* and domains, whatever claims, renames, drops, disconnects and sweeps    *)
(* interleave (SessionRegistry, SessionCleanup).                           *)
THEOREM SessionsInvariant == Spec => [](TypeOK /\ Kept)
<1>1. Init => TypeOK /\ Kept
  BY InitType, InitKept
<1>2. TypeOK /\ Kept /\ [Next]_vars => (TypeOK /\ Kept)'
  BY NextType, NextKept DEF Kept
<1> QED
  BY <1>1, <1>2, PTL DEF Spec

(* Every connection's session is registered and connected, and every       *)
(* connected session has exactly one connection (claim_named, rename,      *)
(* drop_session, dispose_if_expired).                                      *)
THEOREM OneOwnerEach == Spec => []OneOwner
<1>1. Kept => OneOwner
  <2> SUFFICES ASSUME Kept PROVE OneOwner
    OBVIOUS
  <2>1. ASSUME NEW id \in DOMAIN reg, reg[id].connected
        PROVE  Cardinality({c \in Conns : HasSession(c) /\ conn[c].id = id}) = 1
    <3>1. PICK c \in Conns : HasSession(c) /\ conn[c].id = id
      BY <2>1 DEF Kept, Attended
    <3>2. {x \in Conns : HasSession(x) /\ conn[x].id = id} = {c}
      BY <3>1 DEF Kept, OneEach
    <3> QED
      BY <3>2, FS_Singleton
  <2> QED
    BY <2>1 DEF OneOwner, Kept, Owned
<1> QED
  BY <1>1, SessionsInvariant, PTL

(* Each bookmark and each collector is kept under the key of the session   *)
(* that made it, which is still registered: no holder of a name inherits   *)
(* another's, and nothing outlives its session (clear_session,             *)
(* detach_session, rename's transfer).                                     *)
THEOREM NobodyInherits == Spec => []KeptByItsMaker
<1>1. Kept => KeptByItsMaker
  BY DEF Kept, MarksKept, CollectorsKept, KeptByItsMaker
<1> QED
  BY <1>1, SessionsInvariant, PTL

-----------------------------------------------------------------------------
(* In which order notifications arrive. *)

(* A sequence of fired events, those of one domain in the order they fired *)
(* in, and two such sequences of which the first goes first.               *)
Sound(ev, s) ==
  /\ \A i \in DOMAIN s : s[i] \in DOMAIN ev
  /\ \A i, j \in DOMAIN s :
       i < j /\ ev[s[i]].domain = ev[s[j]].domain => s[i] <= s[j]

Before(ev, s, t) ==
  \A i \in DOMAIN s : \A j \in DOMAIN t :
    ev[s[i]].domain = ev[t[j]].domain => s[i] <= t[j]

(* The event a processor dispatches is the last its domain fired. *)
ProcSound(d) ==
  proc[d].pc \in {"queue", "send"} =>
    /\ proc[d].event \in DOMAIN events
    /\ events[proc[d].event].domain = d
    /\ \A e \in DOMAIN events : events[e].domain = d => e <= proc[d].event

QueueSound(id) == Sound(events, reg[id].queue)

(* What a connection was sent, what it drains and what its receiver holds, *)
(* all of that from the domain it listens to.                              *)
ConnSound(c) ==
  /\ Sound(events, got[c])
  /\ conn[c].pc \in {"claimed", "started"} => got[c] = <<>>
  /\ conn[c].pc = "draining" =>
       Sound(events, conn[c].outbox) /\ Before(events, got[c], conn[c].outbox)
  /\ conn[c].pc \in {"live", "using"} =>
       /\ Sound(events, conn[c].rx) /\ Before(events, got[c], conn[c].rx)
       /\ \A i \in DOMAIN conn[c].rx : events[conn[c].rx[i]].domain = conn[c].sub
  /\ conn[c].pc = "live" => conn[c].sub = reg[conn[c].id].domain

Order ==
  /\ \A d \in Domains : ProcSound(d)
  /\ \A id \in DOMAIN reg : QueueSound(id)
  /\ \A c \in Conns : ConnSound(c)

LEMMA EmptySound ==
  ASSUME NEW ev, NEW s
  PROVE  Sound(ev, <<>>) /\ Before(ev, <<>>, s) /\ Before(ev, s, <<>>)
BY DEF Sound, Before

LEMMA TailSound ==
  ASSUME NEW ev, NEW t \in Seq(Nat), t # <<>>, Sound(ev, t)
  PROVE  /\ Sound(ev, Tail(t)) /\ Head(t) \in DOMAIN ev
         /\ \A i \in DOMAIN Tail(t) : Tail(t)[i] = t[i + 1] /\ i + 1 \in DOMAIN t
         /\ Head(t) = t[1] /\ 1 \in DOMAIN t
<1>1. /\ \A i \in DOMAIN Tail(t) : /\ Tail(t)[i] = t[i + 1] /\ i + 1 \in DOMAIN t
                                   /\ i \in Nat /\ i >= 1
      /\ Head(t) = t[1] /\ 1 \in DOMAIN t
  OBVIOUS
<1>2. Head(t) \in DOMAIN ev
  BY <1>1 DEF Sound
<1>3. \A i, j \in DOMAIN Tail(t) : i < j => i + 1 < j + 1
  BY <1>1
<1> QED
  BY <1>1, <1>2, <1>3 DEF Sound

LEMMA AppendSound ==
  ASSUME NEW ev, NEW s \in Seq(Nat), NEW e \in Nat, Sound(ev, s), e \in DOMAIN ev,
         \A i \in DOMAIN s : ev[s[i]].domain = ev[e].domain => s[i] <= e
  PROVE  /\ Sound(ev, Append(s, e))
         /\ \A i \in DOMAIN Append(s, e) :
              (i \in DOMAIN s /\ Append(s, e)[i] = s[i]) \/ Append(s, e)[i] = e
<1>1. /\ DOMAIN Append(s, e) = 1..(Len(s) + 1) /\ DOMAIN s = 1..Len(s) /\ Len(s) \in Nat
      /\ \A i \in 1..Len(s) : Append(s, e)[i] = s[i]
      /\ Append(s, e)[Len(s) + 1] = e
  OBVIOUS
<1>2. \A i \in DOMAIN Append(s, e) :
        \/ i \in DOMAIN s /\ Append(s, e)[i] = s[i]
        \/ i = Len(s) + 1 /\ Append(s, e)[i] = e
  BY <1>1
<1>3. \A i \in DOMAIN s : i \in Nat /\ i < Len(s) + 1 /\ s[i] \in Nat
  BY <1>1
<1>4. e <= e /\ ~(Len(s) + 1 < Len(s) + 1) /\ \A i \in DOMAIN s : ~(Len(s) + 1 < i)
  BY <1>1
<1> QED
  BY <1>2, <1>3, <1>4 DEF Sound

(* The first of t moves to the end of s: written, or passed over. *)
LEMMA MoveSound ==
  ASSUME NEW ev, NEW s \in Seq(Nat), NEW t \in Seq(Nat), t # <<>>,
         Sound(ev, s), Sound(ev, t), Before(ev, s, t)
  PROVE  /\ Sound(ev, Append(s, Head(t)))
         /\ Before(ev, Append(s, Head(t)), Tail(t))
         /\ Before(ev, s, Tail(t))
<1>0. Head(t) \in Nat
  OBVIOUS
<1>1. /\ Head(t) \in Nat /\ Head(t) \in DOMAIN ev /\ Head(t) = t[1] /\ 1 \in DOMAIN t
      /\ \A i \in DOMAIN Tail(t) : Tail(t)[i] = t[i + 1] /\ i + 1 \in DOMAIN t
  BY <1>0, TailSound
<1>2. \A i \in DOMAIN s : ev[s[i]].domain = ev[Head(t)].domain => s[i] <= Head(t)
  BY <1>1 DEF Before
<1>3. /\ Sound(ev, Append(s, Head(t)))
      /\ \A i \in DOMAIN Append(s, Head(t)) :
           (i \in DOMAIN s /\ Append(s, Head(t))[i] = s[i]) \/ Append(s, Head(t))[i] = Head(t)
  BY <1>1, <1>2, AppendSound
<1>4. Before(ev, s, Tail(t))
  BY <1>1 DEF Before
<1>5. \A j \in DOMAIN Tail(t) : 1 < j + 1
  OBVIOUS
<1>6. \A j \in DOMAIN Tail(t) :
        ev[Head(t)].domain = ev[Tail(t)[j]].domain => Head(t) <= Tail(t)[j]
  BY <1>1, <1>5 DEF Sound
<1> QED
  BY <1>3, <1>4, <1>6 DEF Before

(* More events leave the order of the earlier ones. *)
LEMMA GrownSound ==
  ASSUME NEW ev, NEW more, NEW s, NEW t, DOMAIN ev \subseteq DOMAIN more,
         \A e \in DOMAIN ev : more[e] = ev[e],
         Sound(ev, s), Sound(ev, t)
  PROVE  Sound(more, s) /\ (Before(ev, s, t) => Before(more, s, t))
BY DEF Sound, Before

LEMMA InitOrder == Init => Order
<1> SUFFICES ASSUME Init PROVE Order
  OBVIOUS
<1>1. \A d \in Domains : ProcSound(d)
  BY DEF Init, ProcSound, IdleProc
<1>2. \A c \in Conns : ConnSound(c)
  BY EmptySound DEF Init, ConnSound, Out
<1> QED
  BY <1>1, <1>2 DEF Init, Order

(* What a step leaves alone stays in order. *)
LEMMA ConnSame ==
  ASSUME NEW c, ConnSound(c), conn'[c] = conn[c], got'[c] = got[c], events' = events,
         conn[c].pc = "live" => reg'[conn[c].id].domain = reg[conn[c].id].domain
  PROVE  ConnSound(c)'
BY DEF ConnSound

LEMMA ProcSame ==
  ASSUME NEW d, ProcSound(d), proc'[d] = proc[d], events' = events
  PROVE  ProcSound(d)'
BY DEF ProcSound

(* A step of one connection: the others' sessions are not its own. *)
LEMMA OneConnOrder ==
  ASSUME TypeOK, Kept, Order, NEW c \in Conns, UNCHANGED <<proc, events>>,
         \A x \in Conns \ {c} : conn'[x] = conn[x] /\ got'[x] = got[x],
         \A x \in Conns \ {c} : HasSession(x) =>
           reg'[conn[x].id].domain = reg[conn[x].id].domain,
         \A id \in DOMAIN reg' : QueueSound(id)',
         ConnSound(c)'
  PROVE  Order'
<1>1. ASSUME NEW x \in Conns \ {c}
      PROVE  ConnSound(x)'
  BY ConnSame, ConnFields DEF Order
<1>2. \A d \in Domains : ProcSound(d)'
  BY ProcSame DEF Order
<1> QED
  BY <1>1, <1>2 DEF Order

(* The registry left alone, its queues are. *)
LEMMA QueuesSame ==
  ASSUME Order, events' = events,
         \A id \in DOMAIN reg' : id \in DOMAIN reg /\ reg'[id].queue = reg[id].queue
  PROVE  \A id \in DOMAIN reg' : QueueSound(id)'
BY DEF Order, QueueSound

LEMMA StartOrder ==
  ASSUME TypeOK, Kept, Order, NEW c \in Conns, NEW id \in Id, NEW state \in SessionState,
         conn[c] = Out, UNCHANGED <<proc, events>>,
         id \in DOMAIN reg => ~reg[id].connected,
         reg' = With(reg, id, state), Sound(events, state.queue),
         conn' = [conn EXCEPT ![c] = [pc |-> "claimed", id |-> id]],
         got' = [got EXCEPT ![c] = <<>>]
  PROVE  Order'
<1>1. /\ DOMAIN reg' = DOMAIN reg \cup {id} /\ reg'[id] = state
      /\ \A x \in DOMAIN reg \ {id} : reg'[x] = reg[x]
  BY RegTyped, ZenonT(60)
<1>2. \A x \in Conns \ {c} : conn'[x] = conn[x] /\ got'[x] = got[x]
  BY DEF TypeOK
<1>3. \A x \in Conns \ {c} : HasSession(x) => reg'[conn[x].id] = reg[conn[x].id]
  BY <1>1 DEF Kept, Owned
<1>4. \A x \in DOMAIN reg' : QueueSound(x)'
  BY <1>1 DEF Order, QueueSound
<1>5. conn'[c].pc = "claimed" /\ got'[c] = <<>>
  BY DEF TypeOK
<1>6. ConnSound(c)'
  BY <1>5, EmptySound DEF ConnSound
<1> QED
  BY <1>2, <1>3, <1>4, <1>6, OneConnOrder

LEMMA ClaimOrder ==
  ASSUME TypeOK, Kept, Order, NEW c \in Conns, NEW n \in Names \cup minted,
         ClaimNamed(c, n)
  PROVE  Order'
<1>1. Named(n) \in Id
  BY NamedTyped
<1>2. Claimed(n) \in SessionState /\ Sound(events, Claimed(n).queue)
  <2>1. CASE Named(n) \in DOMAIN reg
    <3>1. reg[Named(n)] \in SessionState /\ Sound(events, reg[Named(n)].queue)
      BY <2>1 DEF TypeOK, Order, QueueSound
    <3>2. Claimed(n) \in SessionState /\ Claimed(n).queue = reg[Named(n)].queue
      BY <2>1, <3>1 DEF Claimed, SessionState
    <3> QED
      BY <3>1, <3>2
  <2>2. CASE Named(n) \notin DOMAIN reg
    BY <2>2, NewSessionTyped, EmptySound DEF Claimed, NewSession
  <2> QED
    BY <2>1, <2>2
<1> QED
  BY <1>1, <1>2, StartOrder DEF ClaimNamed, Claimable

LEMMA CreateOrder ==
  ASSUME TypeOK, Kept, Order, NEW c \in Conns, NEW k \in AnonKeys,
         CreateAnonymous(c, k)
  PROVE  Order'
<1>1. Anonymous(k) \in Id /\ Anonymous(k).key = k /\ Anonymous(k).kind = "anonymous"
  BY IdFields DEF Anonymous, Id, Keys
<1>2. Anonymous(k) \notin DOMAIN reg
  BY <1>1 DEF CreateAnonymous, Kept, KeysKnown
<1>3. NewSession \in SessionState /\ Sound(events, NewSession.queue)
  BY NewSessionTyped, EmptySound DEF NewSession
<1> QED
  BY <1>1, <1>2, <1>3, StartOrder DEF CreateAnonymous

(* A rebind drops the queue or leaves it, and the connection stops being   *)
(* live until it has followed.                                             *)
LEMMA BindOrder ==
  ASSUME TypeOK, Kept, Order, NEW c \in Conns, NEW d \in Domains,
         BindAtStart(c, d) \/ UseDomain(c, d)
  PROVE  Order'
<1> DEFINE id == conn[c].id
           state == Bound(reg[id], d)
<1>1. /\ conn[c].pc \in {"claimed", "live"} /\ HasSession(c)
      /\ id \in DOMAIN reg /\ reg[id] \in SessionState
      /\ UNCHANGED <<proc, events, got>>
      /\ conn[c] \in Starting \cup Listening
  BY ConnFields DEF BindAtStart, UseDomain, Request, Kept, Owned, TypeOK
<1>2. reg' = [reg EXCEPT ![id] = state]
  BY DEF BindAtStart, UseDomain
<1>3. /\ DOMAIN reg' = DOMAIN reg /\ reg'[id] = state
      /\ \A x \in DOMAIN reg \ {id} : reg'[x] = reg[x]
  BY <1>1, <1>2 DEF TypeOK
<1>4. state.queue \in {reg[id].queue, <<>>}
  BY <1>1, BoundTyped
<1> HIDE DEF state
<1>5. \A x \in Conns \ {c} : conn'[x] = conn[x] /\ got'[x] = got[x]
  BY <1>1 DEF BindAtStart, UseDomain, TypeOK
<1>6. \A x \in Conns \ {c} : HasSession(x) => reg'[conn[x].id] = reg[conn[x].id]
  BY <1>1, <1>3 DEF Kept, Owned, OneEach
<1>7. \A x \in DOMAIN reg' : QueueSound(x)'
  BY <1>1, <1>3, <1>4, EmptySound DEF Order, QueueSound
<1>8. ConnSound(c)'
  <2>1. CASE BindAtStart(c, d)
    <3>1. conn'[c].pc = "started" /\ got[c] = <<>>
      BY <2>1, <1>1 DEF BindAtStart, TypeOK, Order, ConnSound, Starting
    <3> QED
      BY <1>1, <3>1, EmptySound DEF ConnSound
  <2>2. CASE UseDomain(c, d)
    <3>1. conn[c] \in Listening /\ conn'[c] = [conn[c] EXCEPT !.pc = "using"]
      BY <2>2, <1>1, ConnFields DEF UseDomain, Request, TypeOK
    <3>2. conn'[c].pc = "using" /\ conn'[c].rx = conn[c].rx /\ conn'[c].sub = conn[c].sub
      BY <3>1 DEF Listening
    <3> QED
      BY <1>1, <3>1, <3>2 DEF Order, ConnSound, Listening
  <2> QED
    BY <2>1, <2>2
<1> QED
  BY <1>1, <1>5, <1>6, <1>7, <1>8, OneConnOrder

LEMMA DrainOrder ==
  ASSUME TypeOK, Kept, Order, NEW c \in Conns, DrainQueue(c)
  PROVE  Order'
<1> DEFINE id == conn[c].id
<1>1. /\ id \in DOMAIN reg /\ reg[id] \in SessionState /\ HasSession(c)
      /\ UNCHANGED <<proc, events, got>> /\ got[c] = <<>>
  BY ConnFields DEF DrainQueue, Kept, Owned, TypeOK, Order, ConnSound
<1>2. /\ DOMAIN reg' = DOMAIN reg
      /\ \A x \in DOMAIN reg \ {id} : reg'[x] = reg[x]
      /\ reg'[id] = [reg[id] EXCEPT !.queue = <<>>]
  BY <1>1 DEF DrainQueue, TypeOK
<1>3. reg'[id].queue = <<>>
  BY <1>1, <1>2 DEF SessionState
<1>4. \A x \in Conns \ {c} : conn'[x] = conn[x] /\ got'[x] = got[x]
  BY <1>1 DEF DrainQueue, TypeOK
<1>5. \A x \in Conns \ {c} : HasSession(x) => reg'[conn[x].id] = reg[conn[x].id]
  BY <1>1, <1>2 DEF Kept, Owned, OneEach
<1>6. \A x \in DOMAIN reg' : QueueSound(x)'
  BY <1>1, <1>2, <1>3, EmptySound DEF Order, QueueSound
<1>7. conn'[c].pc = "draining" /\ conn'[c].outbox = reg[id].queue
  BY DEF DrainQueue, TypeOK
<1>8. ConnSound(c)'
  BY <1>1, <1>7, EmptySound DEF ConnSound, Order, QueueSound
<1> QED
  BY <1>1, <1>4, <1>5, <1>6, <1>8, OneConnOrder

LEMMA WriteOrder ==
  ASSUME TypeOK, Kept, Order, NEW c \in Conns, WriteDrained(c)
  PROVE  Order'
<1> DEFINE out == conn[c].outbox
<1>1. /\ conn[c] \in Draining /\ out \in Seq(Nat) /\ out # <<>> /\ got[c] \in Seq(Nat)
      /\ UNCHANGED <<reg, proc, events>>
  BY ConnFields DEF WriteDrained, Draining, TypeOK
<1>2. conn'[c] = [conn[c] EXCEPT !.outbox = Tail(out)] /\ got'[c] = Append(got[c], Head(out))
  BY DEF WriteDrained, TypeOK
<1>3. conn'[c].pc = "draining" /\ conn'[c].outbox = Tail(out)
  BY <1>1, <1>2 DEF Draining
<1>4. Sound(events, got[c]) /\ Sound(events, out) /\ Before(events, got[c], out)
  BY <1>1 DEF Order, ConnSound, Draining
<1>5. /\ Sound(events, Append(got[c], Head(out))) /\ Sound(events, Tail(out))
      /\ Before(events, Append(got[c], Head(out)), Tail(out))
  BY <1>1, <1>4, MoveSound, TailSound
<1>6. ConnSound(c)'
  BY <1>1, <1>2, <1>3, <1>5 DEF ConnSound
<1>7. \A x \in Conns \ {c} : conn'[x] = conn[x] /\ got'[x] = got[x]
  BY DEF WriteDrained, TypeOK
<1> QED
  BY <1>1, <1>6, <1>7, QueuesSame, OneConnOrder

LEMMA SubscribeOrder ==
  ASSUME TypeOK, Kept, Order, NEW c \in Conns, Subscribe(c)
  PROVE  Order'
<1>1. /\ conn'[c] = [pc |-> "live", id |-> conn[c].id, rx |-> <<>>,
                     sub |-> reg[conn[c].id].domain]
      /\ UNCHANGED <<reg, proc, events, got>>
  BY DEF Subscribe, TypeOK
<1>2. ConnSound(c)'
  BY <1>1, EmptySound DEF ConnSound, Order
<1>3. \A x \in Conns \ {c} : conn'[x] = conn[x] /\ got'[x] = got[x]
  BY DEF Subscribe, TypeOK
<1> QED
  BY <1>1, <1>2, <1>3, QueuesSame, OneConnOrder

LEMMA LeaveOrder ==
  ASSUME TypeOK, Kept, Order, NEW c \in Conns, Leave(c)
  PROVE  Order'
<1> DEFINE id == conn[c].id
<1>1. /\ conn'[c] = Out /\ UNCHANGED <<proc, events, got>>
      /\ \A x \in Conns \ {c} : conn'[x] = conn[x]
      /\ HasSession(c) /\ id \in DOMAIN reg /\ reg[id] \in SessionState
  BY ConnFields DEF Leave, TypeOK, Kept, Owned
<1>2. \A x \in Conns \ {c} : HasSession(x) => conn[x].id \in DOMAIN reg \ {id}
  BY <1>1 DEF Kept, Owned, OneEach
<1>3. /\ \A x \in DOMAIN reg' : x \in DOMAIN reg /\ reg'[x].queue = reg[x].queue
      /\ \A x \in DOMAIN reg \ {id} : reg'[x] = reg[x]
  <2>1. CASE id.kind = "anonymous"
    <3>1. reg' = Without(reg, id)
      BY <2>1 DEF Leave
    <3> QED
      BY <3>1, WithoutTyped
  <2>2. CASE id.kind # "anonymous"
    <3>1. reg' = [reg EXCEPT ![id] = [reg[id] EXCEPT !.connected = FALSE,
                                                     !.expired = FALSE]]
      BY <1>1, <2>2 DEF Leave, TypeOK
    <3>2. [reg[id] EXCEPT !.connected = FALSE, !.expired = FALSE].queue = reg[id].queue
      BY <1>1 DEF SessionState
    <3>3. /\ DOMAIN reg' = DOMAIN reg /\ \A x \in DOMAIN reg \ {id} : reg'[x] = reg[x]
          /\ reg'[id].queue = reg[id].queue
      BY <1>1, <3>1, <3>2 DEF TypeOK
    <3> QED
      BY <3>3
  <2> QED
    BY <2>1, <2>2
<1>4. ConnSound(c)'
  BY <1>1 DEF ConnSound, Order, Out
<1> QED
  BY <1>1, <1>2, <1>3, <1>4, QueuesSame, OneConnOrder

(* A renamed session keeps its queue and its domain. *)
LEMMA RenameOrder ==
  ASSUME TypeOK, Kept, Order, NEW c \in Conns, NEW n \in Names \cup minted, Rename(c, n)
  PROVE  Order'
<1> DEFINE old == conn[c].id
           new == Named(n)
           state == [reg[old] EXCEPT !.expired = FALSE]
<1>1. /\ conn[c].pc = "live" /\ RenameAllowed(old, n)
      /\ reg' = With(Without(reg, old), new, state)
      /\ conn' = [conn EXCEPT ![c].id = new]
      /\ UNCHANGED <<proc, events, got>>
  BY DEF Rename, Request, Rekeyed
<1>2. /\ HasSession(c) /\ conn[c] \in Listening
      /\ old \in DOMAIN reg /\ reg[old] \in SessionState
      /\ new # old /\ (new \in DOMAIN reg => ~reg[new].connected)
  BY <1>1, ConnFields DEF Kept, Owned, TypeOK, RenameAllowed
<1>3. state.queue = reg[old].queue /\ state.domain = reg[old].domain
  BY <1>2 DEF SessionState
<1> HIDE DEF state
<1>4. /\ DOMAIN reg' = (DOMAIN reg \ {old}) \cup {new} /\ reg'[new] = state
      /\ \A x \in DOMAIN reg \ {old, new} : reg'[x] = reg[x]
  BY <1>1 DEF With, Without
<1>5. \A x \in Conns \ {c} : conn'[x] = conn[x] /\ got'[x] = got[x]
  BY <1>1 DEF TypeOK
<1>6. \A x \in Conns \ {c} : HasSession(x) => conn[x].id \in DOMAIN reg \ {old, new}
  BY <1>2 DEF Kept, Owned, OneEach
<1>7. conn'[c] = [conn[c] EXCEPT !.id = new]
  BY <1>1 DEF TypeOK
<1>8. /\ conn'[c].pc = "live" /\ conn'[c].rx = conn[c].rx /\ conn'[c].sub = conn[c].sub
      /\ conn'[c].id = new
  BY <1>1, <1>2, <1>7 DEF Listening
<1> HIDE DEF new
<1>9. \A x \in DOMAIN reg' : QueueSound(x)'
  BY <1>1, <1>2, <1>3, <1>4 DEF Order, QueueSound
<1>10. ConnSound(c)'
  BY <1>1, <1>3, <1>4, <1>8 DEF Order, ConnSound
<1> QED
  BY <1>1, <1>4, <1>5, <1>6, <1>9, <1>10, OneConnOrder

(* The connection follows a changed binding with an empty receiver. *)
LEMMA ResubscribeOrder ==
  ASSUME TypeOK, Kept, Order, NEW c \in Conns, Resubscribe(c)
  PROVE  Order'
<1> DEFINE d == reg[conn[c].id].domain
<1>1. /\ conn[c] \in Listening /\ conn[c].pc = "using"
      /\ UNCHANGED <<reg, proc, events, got>>
  BY ConnFields DEF Resubscribe, TypeOK
<1>a. conn'[c] = [Resubscribed(conn[c], d) EXCEPT !.pc = "live"]
  BY DEF Resubscribe, TypeOK
<1>2. \A x \in Conns \ {c} : conn'[x] = conn[x] /\ got'[x] = got[x]
  BY DEF Resubscribe, TypeOK
<1>3. /\ conn'[c].pc = "live" /\ conn'[c].id = conn[c].id /\ conn'[c].sub = d
      /\ conn'[c].rx = IF conn[c].sub = d THEN conn[c].rx ELSE <<>>
  <2>1. CASE conn[c].sub = d
    BY <1>1, <1>a, <2>1 DEF Resubscribed, Listening
  <2>2. CASE conn[c].sub # d
    BY <1>1, <1>a, <2>2 DEF Resubscribed, Listening
  <2> QED
    BY <2>1, <2>2
<1>4. /\ Sound(events, got[c]) /\ Sound(events, conn[c].rx)
      /\ Before(events, got[c], conn[c].rx)
      /\ \A i \in DOMAIN conn[c].rx : events[conn[c].rx[i]].domain = conn[c].sub
  BY <1>1 DEF Order, ConnSound
<1>5. /\ Sound(events, conn'[c].rx) /\ Before(events, got[c], conn'[c].rx)
      /\ \A i \in DOMAIN conn'[c].rx : events[conn'[c].rx[i]].domain = d
  <2>1. CASE conn[c].sub = d
    BY <1>3, <1>4, <2>1
  <2>2. CASE conn[c].sub # d
    <3>1. conn'[c].rx = <<>>
      BY <1>3, <2>2
    <3> QED
      BY <3>1, EmptySound
  <2> QED
    BY <2>1, <2>2
<1>6. ConnSound(c)'
  BY <1>1, <1>3, <1>4, <1>5 DEF ConnSound
<1> QED
  BY <1>1, <1>2, <1>6, QueuesSame, OneConnOrder

LEMMA ForwardOrder ==
  ASSUME TypeOK, Kept, Order, NEW c \in Conns, ForwardEvent(c)
  PROVE  Order'
<1> DEFINE rx == conn[c].rx
<1>1. /\ conn[c] \in Listening /\ rx \in Seq(Nat) /\ rx # <<>> /\ got[c] \in Seq(Nat)
      /\ conn[c].pc = "live" /\ UNCHANGED <<reg, proc, events>>
  BY ConnFields DEF ForwardEvent, Listening, TypeOK
<1>2. /\ conn'[c] = [conn[c] EXCEPT !.rx = Tail(rx)]
      /\ got'[c] \in {got[c], Append(got[c], Head(rx))}
  BY DEF ForwardEvent, TypeOK
<1>3. /\ conn'[c].pc = "live" /\ conn'[c].rx = Tail(rx)
      /\ conn'[c].id = conn[c].id /\ conn'[c].sub = conn[c].sub
  BY <1>1, <1>2 DEF Listening
<1>4. /\ Sound(events, got[c]) /\ Sound(events, rx) /\ Before(events, got[c], rx)
      /\ \A i \in DOMAIN rx : events[rx[i]].domain = conn[c].sub
      /\ conn[c].sub = reg[conn[c].id].domain
  BY <1>1 DEF Order, ConnSound
<1>5. /\ Sound(events, Append(got[c], Head(rx))) /\ Sound(events, Tail(rx))
      /\ Before(events, Append(got[c], Head(rx)), Tail(rx))
      /\ Before(events, got[c], Tail(rx))
  BY <1>1, <1>4, MoveSound, TailSound
<1>6. \A i \in DOMAIN Tail(rx) : events[Tail(rx)[i]].domain = conn[c].sub
  BY <1>1, <1>4, TailSound, SMTT(30)
<1>7. ConnSound(c)'
  <2>1. CASE got'[c] = got[c]
    BY <1>1, <1>3, <1>4, <1>5, <1>6, <2>1 DEF ConnSound
  <2>2. CASE got'[c] = Append(got[c], Head(rx))
    BY <1>1, <1>3, <1>4, <1>5, <1>6, <2>2 DEF ConnSound
  <2> QED
    BY <1>2, <2>1, <2>2
<1>8. \A x \in Conns \ {c} : conn'[x] = conn[x] /\ got'[x] = got[x]
  BY DEF ForwardEvent, TypeOK
<1> QED
  BY <1>1, <1>7, <1>8, QueuesSame, OneConnOrder

LEMMA ConnOrder ==
  ASSUME TypeOK, Kept, Order, NEW c \in Conns, ConnStep(c)
  PROVE  Order'
<1>1. ASSUME AddBookmark(c) \/ AddCollector(c)
      PROVE  Order'
  <2>1. UNCHANGED <<reg, conn, got, proc, events>>
    BY <1>1 DEF AddBookmark, AddCollector, Request
  <2>2. ConnSound(c)'
    BY <2>1, ConnSame DEF Order
  <2> QED
    BY <2>1, <2>2, QueuesSame, OneConnOrder
<1>2. ASSUME NEW n \in Names \cup minted, Drop(c, n)
      PROVE  Order'
  <2>1. UNCHANGED <<conn, got, proc, events>> /\ reg' = Without(reg, Named(n))
    BY <1>2 DEF Drop, Request
  <2>2. \A x \in Conns : HasSession(x) => conn[x].id # Named(n)
    BY <1>2 DEF Drop, Droppable, Kept, Owned
  <2>3. /\ \A x \in DOMAIN reg' : x \in DOMAIN reg /\ reg'[x] = reg[x]
        /\ \A x \in Conns : HasSession(x) => reg'[conn[x].id] = reg[conn[x].id]
    BY <2>1, <2>2, WithoutTyped DEF Kept, Owned
  <2>4. ConnSound(c)'
    BY <2>1, <2>3, ConnSame, ConnFields DEF Order
  <2> QED
    BY <2>1, <2>3, <2>4, QueuesSame, OneConnOrder
<1> QED
  BY <1>1, <1>2, ClaimOrder, CreateOrder, BindOrder, DrainOrder, WriteOrder,
     SubscribeOrder, LeaveOrder, RenameOrder, ResubscribeOrder, ForwardOrder
     DEF ConnStep

(* A processor's step, in which no connection's session changes. *)
LEMMA FireOrder ==
  ASSUME TypeOK, Kept, Order, NEW d \in Domains, NEW id \in DOMAIN reg, Fire(d, id)
  PROVE  Order'
<1> DEFINE event == [domain |-> d, id |-> id, born |-> reg[id].born]
<1>1. /\ UNCHANGED <<reg, conn, got>> /\ events' = Append(events, event)
      /\ proc' = [proc EXCEPT ![d] = [pc |-> "queue", todo |-> proc[d].todo,
                                     id |-> id, event |-> Len(events) + 1]]
  BY DEF Fire, connVars
<1>2. /\ DOMAIN events = 1..Len(events) /\ Len(events) \in Nat
      /\ DOMAIN events' = 1..(Len(events) + 1)
      /\ \A e \in DOMAIN events : events'[e] = events[e]
      /\ events'[Len(events) + 1] = event
  BY <1>1 DEF TypeOK
<1>3. event.domain = d
  OBVIOUS
<1> HIDE DEF event
<1>4. DOMAIN events \subseteq DOMAIN events' /\ Len(events) + 1 \in DOMAIN events'
  BY <1>2
<1>5. \A e \in DOMAIN events' : e <= Len(events) + 1
  BY <1>2
<1>6. ASSUME NEW x \in Domains
      PROVE  ProcSound(x)'
  <2>1. CASE x = d
    <3>1. proc'[d].event = Len(events) + 1
      BY <1>1 DEF TypeOK
    <3> QED
      BY <1>2, <1>3, <1>4, <1>5, <2>1, <3>1 DEF ProcSound
  <2>2. CASE x # d
    <3>1. proc'[x] = proc[x]
      BY <1>1, <2>2 DEF TypeOK
    <3>2. \A e \in DOMAIN events' : e \in DOMAIN events \/ events'[e].domain = d
      BY <1>2, <1>3
    <3> QED
      BY <1>2, <1>4, <2>2, <3>1, <3>2 DEF Order, ProcSound
  <2> QED
    BY <2>1, <2>2
<1>7. ASSUME NEW x \in DOMAIN reg'
      PROVE  QueueSound(x)'
  BY <1>1, <1>2, <1>4, GrownSound, ZenonT(60) DEF Order, QueueSound
<1>8. ASSUME NEW c \in Conns
      PROVE  ConnSound(c)'
  <2>1. ConnSound(c) /\ conn'[c] = conn[c] /\ got'[c] = got[c] /\ reg' = reg
    BY <1>1 DEF Order
  <2>2. Sound(events', got[c])
    BY <1>2, <1>4, <2>1, GrownSound DEF ConnSound
  <2>3. conn[c].pc = "draining" =>
          Sound(events', conn[c].outbox) /\ Before(events', got[c], conn[c].outbox)
    BY <1>2, <1>4, <2>1, GrownSound DEF ConnSound
  <2>4. conn[c].pc \in {"live", "using"} =>
          /\ Sound(events', conn[c].rx) /\ Before(events', got[c], conn[c].rx)
          /\ \A i \in DOMAIN conn[c].rx : events'[conn[c].rx[i]].domain = conn[c].sub
    <3> SUFFICES ASSUME conn[c].pc \in {"live", "using"}
                 PROVE  /\ Sound(events', conn[c].rx) /\ Before(events', got[c], conn[c].rx)
                        /\ \A i \in DOMAIN conn[c].rx :
                             events'[conn[c].rx[i]].domain = conn[c].sub
      OBVIOUS
    <3>1. Sound(events, got[c]) /\ Sound(events, conn[c].rx) /\ Before(events, got[c], conn[c].rx)
      BY <2>1 DEF ConnSound
    <3>2. \A i \in DOMAIN conn[c].rx : events'[conn[c].rx[i]].domain = conn[c].sub
      BY <1>2, <2>1, <3>1 DEF ConnSound, Sound
    <3> QED
      BY <1>2, <1>4, <3>1, <3>2, GrownSound
  <2> QED
    BY <2>1, <2>2, <2>3, <2>4 DEF ConnSound
<1> QED
  BY <1>6, <1>7, <1>8 DEF Order

(* The dispatched event goes behind any that fired before it. *)
LEMMA DispatchLast ==
  ASSUME TypeOK, Order, NEW d \in Domains, proc[d].pc \in {"queue", "send"},
         NEW s \in Seq(Nat), Sound(events, s)
  PROVE  /\ proc[d].event \in Nat /\ proc[d].event \in DOMAIN events
         /\ events[proc[d].event].domain = d
         /\ \A i \in DOMAIN s :
              events[s[i]].domain = events[proc[d].event].domain => s[i] <= proc[d].event
         /\ Sound(events, Append(s, proc[d].event))
<1>1. /\ proc[d].event \in Nat /\ proc[d].event \in DOMAIN events
      /\ events[proc[d].event].domain = d
      /\ \A e \in DOMAIN events : events[e].domain = d => e <= proc[d].event
  BY ProcFields DEF Order, ProcSound, Dispatching
<1>2. \A i \in DOMAIN s :
        events[s[i]].domain = events[proc[d].event].domain => s[i] <= proc[d].event
  BY <1>1 DEF Sound
<1> QED
  BY <1>1, <1>2, AppendSound

LEMMA QueueOrder ==
  ASSUME TypeOK, Kept, Order, NEW d \in Domains, QueueEvent(d)
  PROVE  Order'
<1> DEFINE id == proc[d].id
           q == Queued(reg[id].queue, proc[d].event)
<1>1. /\ proc[d] \in Dispatching /\ proc[d].pc = "queue"
      /\ UNCHANGED <<conn, got, events>>
      /\ proc' = [proc EXCEPT ![d] = [proc[d] EXCEPT !.pc = "send"]]
  BY ProcFields DEF QueueEvent, connVars
<1>2. /\ DOMAIN reg' = DOMAIN reg
      /\ \A x \in DOMAIN reg :
           /\ reg'[x].domain = reg[x].domain
           /\ reg'[x].queue = reg[x].queue \/ (x = id /\ reg'[x].queue = q)
  <2>1. CASE id \in DOMAIN reg /\ id.kind = "named" /\ ~reg[id].connected
    <3>1. reg[id] \in SessionState /\ reg' = [reg EXCEPT ![id] = [reg[id] EXCEPT !.queue = q]]
      BY <2>1 DEF QueueEvent, TypeOK
    <3> HIDE DEF q
    <3>2. /\ [reg[id] EXCEPT !.queue = q].queue = q
          /\ [reg[id] EXCEPT !.queue = q].domain = reg[id].domain
      BY <3>1 DEF SessionState
    <3>3. /\ DOMAIN reg' = DOMAIN reg /\ \A x \in DOMAIN reg \ {id} : reg'[x] = reg[x]
          /\ reg'[id].queue = q /\ reg'[id].domain = reg[id].domain
      BY <2>1, <3>1, <3>2 DEF TypeOK
    <3> QED
      BY <3>3
  <2>2. CASE ~(id \in DOMAIN reg /\ id.kind = "named" /\ ~reg[id].connected)
    BY <2>2 DEF QueueEvent
  <2> QED
    BY <2>1, <2>2
<1>3. ASSUME id \in DOMAIN reg
      PROVE  Sound(events, q)
  <2>1. reg[id].queue \in Seq(Nat) /\ Sound(events, reg[id].queue)
    BY <1>3 DEF TypeOK, SessionState, Order, QueueSound
  <2> QED
    BY <1>1, <2>1, DispatchLast DEF Queued
<1> HIDE DEF q
<1>4. \A x \in DOMAIN reg' : QueueSound(x)'
  BY <1>1, <1>2, <1>3 DEF Order, QueueSound
<1>5. ASSUME NEW c \in Conns
      PROVE  ConnSound(c)'
  <2>1. conn'[c] = conn[c] /\ got'[c] = got[c] /\ events' = events /\ ConnSound(c)
    BY <1>1 DEF Order
  <2>2. conn[c].pc = "live" => reg'[conn[c].id].domain = reg[conn[c].id].domain
    BY <1>2, ConnFields DEF Kept, Owned
  <2> QED
    BY <2>1, <2>2, ConnSame
<1>6. /\ \A x \in Domains \ {d} : proc'[x] = proc[x]
      /\ proc'[d].event = proc[d].event
  BY <1>1 DEF TypeOK, Dispatching
<1>7. ASSUME NEW x \in Domains
      PROVE  ProcSound(x)'
  BY <1>1, <1>6 DEF Order, ProcSound
<1> QED
  BY <1>4, <1>5, <1>7 DEF Order

LEMMA SendOrder ==
  ASSUME TypeOK, Kept, Order, NEW d \in Domains, SendEvent(d)
  PROVE  Order'
<1> DEFINE e == proc[d].event
<1>1. /\ proc[d] \in Dispatching /\ proc[d].pc = "send" /\ UNCHANGED <<reg, got, events>>
      /\ \A x \in Domains \ {d} : proc'[x] = proc[x]
      /\ proc'[d] = Served(d, proc[d].id)
  BY ProcFields DEF SendEvent, TypeOK
<1>2. ASSUME NEW x \in Domains
      PROVE  ProcSound(x)'
  <2>1. CASE x = d
    BY <1>1, <2>1 DEF ProcSound, Served, IdleProc
  <2>2. CASE x # d
    BY <1>1, <2>2, ProcSame DEF Order
  <2> QED
    BY <2>1, <2>2
<1>3. ASSUME NEW c \in Conns, Live(c), conn[c].sub = d
      PROVE  ConnSound(c)'
  <2> DEFINE rx == conn[c].rx
  <2>1. /\ conn[c] \in Listening /\ rx \in Seq(Nat) /\ got[c] \in Seq(Nat)
    BY <1>3, ConnFields DEF Live, Listening, TypeOK
  <2>2. conn'[c] = [conn[c] EXCEPT !.rx = Pushed(rx, e)]
    BY <1>3 DEF SendEvent
  <2>3. /\ conn'[c].pc = conn[c].pc /\ conn'[c].id = conn[c].id
        /\ conn'[c].sub = conn[c].sub /\ conn'[c].rx = Pushed(rx, e)
        /\ conn[c].pc \in {"live", "using"}
    BY <2>1, <2>2 DEF Listening
  <2>4. /\ Sound(events, got[c]) /\ Sound(events, rx) /\ Before(events, got[c], rx)
        /\ \A i \in DOMAIN rx : events[rx[i]].domain = d
    BY <1>3, <2>3 DEF Order, ConnSound
  <2>5. PICK s \in Seq(Nat) :
          /\ Pushed(rx, e) = Append(s, e)
          /\ Sound(events, s) /\ Before(events, got[c], s)
          /\ \A i \in DOMAIN s : events[s[i]].domain = d
    <3>1. CASE Len(rx) < EventBuffer
      BY <2>1, <2>4, <3>1 DEF Pushed
    <3>2. CASE ~(Len(rx) < EventBuffer)
      <4>1. rx # <<>> /\ Tail(rx) \in Seq(Nat)
        BY <2>1, <3>2, BufferAssumption
      <4>2. Sound(events, Tail(rx)) /\ Before(events, got[c], Tail(rx))
        BY <2>1, <2>4, <4>1, MoveSound, TailSound
      <4>3. \A i \in DOMAIN Tail(rx) : events[Tail(rx)[i]].domain = d
        BY <2>1, <2>4, <4>1, TailSound
      <4> QED
        BY <3>2, <4>1, <4>2, <4>3 DEF Pushed
    <3> QED
      BY <3>1, <3>2
  <2>6. /\ e \in Nat /\ e \in DOMAIN events /\ events[e].domain = d
        /\ Sound(events, Append(s, e))
        /\ \A i \in DOMAIN got[c] : events[got[c][i]].domain = events[e].domain => got[c][i] <= e
        /\ \A i \in DOMAIN s : events[s[i]].domain = events[e].domain => s[i] <= e
    BY <1>1, <2>1, <2>4, <2>5, DispatchLast
  <2> HIDE DEF e, rx
  <2>7. \A i \in DOMAIN Append(s, e) :
          (i \in DOMAIN s /\ Append(s, e)[i] = s[i]) \/ Append(s, e)[i] = e
    BY <2>5, <2>6, AppendSound
  <2>8. /\ Before(events, got[c], Append(s, e))
        /\ \A i \in DOMAIN Append(s, e) : events[Append(s, e)[i]].domain = d
    BY <2>5, <2>6, <2>7 DEF Before
  <2>9. conn[c].pc = "live" => conn[c].sub = reg[conn[c].id].domain
    BY DEF Order, ConnSound
  <2> QED
    BY <1>1, <1>3, <2>3, <2>4, <2>5, <2>6, <2>8, <2>9 DEF ConnSound
<1>4. ASSUME NEW c \in Conns, ~(Live(c) /\ conn[c].sub = d)
      PROVE  ConnSound(c)'
  BY <1>1, <1>4, ConnSame DEF SendEvent, Order
<1>5. \A x \in DOMAIN reg' : QueueSound(x)'
  BY <1>1, QueuesSame
<1> QED
  BY <1>2, <1>3, <1>4, <1>5 DEF Order

LEMMA OtherOrder ==
  ASSUME TypeOK, Kept, Order, UNCHANGED <<conn, got, events>>,
         \A d \in Domains : proc'[d].pc \in {"queue", "send"} => proc'[d] = proc[d],
         \A id \in DOMAIN reg' :
           /\ id \in DOMAIN reg
           /\ reg'[id].queue = reg[id].queue /\ reg'[id].domain = reg[id].domain,
         \A c \in Conns : HasSession(c) => conn[c].id \in DOMAIN reg'
  PROVE  Order'
<1>1. \A c \in Conns : ConnSound(c)'
  BY ConnSame, ConnFields DEF Order
<1>2. \A d \in Domains : ProcSound(d)'
  BY DEF Order, ProcSound
<1>3. \A id \in DOMAIN reg' : QueueSound(id)'
  BY QueuesSame
<1> QED
  BY <1>1, <1>2, <1>3 DEF Order

LEMMA ProcOrder ==
  ASSUME TypeOK, Kept, Order, NEW d \in Domains, ProcStep(d)
  PROVE  Order'
<1>1. ASSUME TakeRecord(d) \/ \E id : NoMatch(d, id)
      PROVE  Order'
  <2>1. /\ UNCHANGED <<reg, conn, got, events>>
        /\ \A x \in Domains \ {d} : proc'[x] = proc[x]
        /\ proc'[d].pc \in {"idle", "evaluate"}
    BY <1>1 DEF TakeRecord, NoMatch, connVars, Served, IdleProc, TypeOK
  <2> QED
    BY <2>1, OtherOrder DEF Kept, Owned
<1> QED
  BY <1>1, FireOrder, QueueOrder, SendOrder DEF ProcStep

LEMMA NextOrder ==
  ASSUME TypeOK, Kept, Order, [Next]_vars
  PROVE  Order'
<1>1. ASSUME NEW id \in DOMAIN reg, Expire(id)
      PROVE  Order'
  <2>1. /\ UNCHANGED <<conn, got, events, proc>> /\ DOMAIN reg' = DOMAIN reg
        /\ \A x \in DOMAIN reg \ {id} : reg'[x] = reg[x]
        /\ reg'[id] = [reg[id] EXCEPT !.expired = TRUE] /\ reg[id] \in SessionState
    BY <1>1 DEF Expire, TypeOK, connVars
  <2>2. reg'[id].queue = reg[id].queue /\ reg'[id].domain = reg[id].domain
    BY <2>1 DEF SessionState
  <2> QED
    BY <2>1, <2>2, OtherOrder DEF Kept, Owned
<1>2. ASSUME NEW n \in Names \cup minted, SweepDispose(Named(n))
      PROVE  Order'
  <2>1. UNCHANGED <<conn, got, events, proc>>
    BY <1>2 DEF SweepDispose, connVars
  <2>2. CASE Abandoned(Named(n))
    <3>1. reg' = Without(reg, Named(n))
      BY <1>2, <2>2 DEF SweepDispose
    <3>2. /\ \A x \in DOMAIN reg' : x \in DOMAIN reg /\ reg'[x] = reg[x]
          /\ \A c \in Conns : HasSession(c) => conn[c].id \in DOMAIN reg'
      BY <2>2, <3>1, WithoutTyped DEF Abandoned, Kept, Owned
    <3> QED
      BY <2>1, <3>2, OtherOrder
  <2>3. CASE ~Abandoned(Named(n))
    BY <1>2, <2>1, <2>3, OtherOrder DEF SweepDispose, Kept, Owned
  <2> QED
    BY <2>2, <2>3
<1>3. ASSUME SweepList \/ UNCHANGED vars
      PROVE  Order'
  <2>1. UNCHANGED <<reg, conn, got, events, proc>>
    BY <1>3 DEF SweepList, connVars, vars
  <2> QED
    BY <2>1, OtherOrder DEF Kept, Owned
<1> QED
  BY <1>1, <1>2, <1>3, ConnOrder, ProcOrder DEF Next, Dispose

LEMMA OrderedInOrder ==
  ASSUME TypeOK, Order
  PROVE  InOrder
BY DEF Order, ConnSound, Sound, InOrder

(* What a live connection is written next comes from its receiver. *)
LEMMA LiveStep ==
  ASSUME TypeOK, Kept, Order, [Next]_vars, NEW c \in Conns,
         conn[c].pc = "live", got'[c] # got[c]
  PROVE  events[got'[c][Len(got'[c])]].domain = reg[conn[c].id].domain
<1>1. ForwardEvent(c)
  <2>1. conn[c] # Out /\ got[c] = got[c]
    BY DEF Out
  <2>2. ASSUME NEW x \in Conns, ConnStep(x), x # c
        PROVE  got'[c] = got[c]
    BY <2>2 DEF ConnStep, ClaimNamed, CreateAnonymous, BindAtStart, DrainQueue,
       WriteDrained, Subscribe, Leave, Rename, UseDomain, Resubscribe, AddBookmark,
       AddCollector, Drop, ForwardEvent, Request, TypeOK
  <2>3. ASSUME ConnStep(c), ~ForwardEvent(c)
        PROVE  got'[c] = got[c]
    BY <2>1, <2>3 DEF ConnStep, ClaimNamed, CreateAnonymous, BindAtStart, DrainQueue,
       WriteDrained, Subscribe, Leave, Rename, UseDomain, Resubscribe, AddBookmark,
       AddCollector, Drop, Request, TypeOK
  <2>4. ASSUME \/ \E d \in Domains : ProcStep(d)
               \/ \E id \in DOMAIN reg : Expire(id)
               \/ SweepList \/ Dispose \/ UNCHANGED vars
        PROVE  got' = got
    BY <2>4 DEF ProcStep, TakeRecord, Fire, NoMatch, QueueEvent, SendEvent, Expire,
       SweepList, Dispose, SweepDispose, connVars, vars
  <2> QED
    BY <2>2, <2>3, <2>4 DEF Next
<1> DEFINE rx == conn[c].rx
<1>2. /\ conn[c] \in Listening /\ rx \in Seq(Nat) /\ rx # <<>> /\ got[c] \in Seq(Nat)
  BY <1>1, ConnFields DEF ForwardEvent, Listening, TypeOK
<1>3. got'[c] = Append(got[c], Head(rx))
  BY <1>1 DEF ForwardEvent, TypeOK
<1>4. got'[c][Len(got'[c])] = Head(rx) /\ Head(rx) = rx[1] /\ 1 \in DOMAIN rx
  BY <1>2, <1>3
<1>5. /\ \A i \in DOMAIN rx : events[rx[i]].domain = conn[c].sub
      /\ conn[c].sub = reg[conn[c].id].domain
  BY DEF Order, ConnSound
<1> QED
  BY <1>4, <1>5

(* The order invariant: what waits in a queue, an outbox or a receiver     *)
(* fired after what its connection was already written.                    *)
THEOREM OrderInvariant == Spec => []Order
<1>1. Init => Order
  BY InitOrder
<1>2. TypeOK /\ Kept /\ Order /\ [Next]_vars => Order'
  BY NextOrder
<1> QED
  BY <1>1, <1>2, SessionsInvariant, PTL DEF Spec

(* On one connection the notifications of one domain arrive in the order   *)
(* they fired, queued before live, and a live one comes from the domain    *)
(* the session is bound to (drain_notifications, send_event, the           *)
(* resubscription after domains.use).                                      *)
THEOREM NotificationsInOrder == Spec => DeliveredInOrder
<1>1. TypeOK /\ Order => InOrder
  BY OrderedInOrder
<1>2. TypeOK /\ Kept /\ Order /\ [Next]_vars =>
        [\A c \in Conns :
           (conn[c].pc = "live" /\ got'[c] # got[c])
             => events[got'[c][Len(got'[c])]].domain = reg[conn[c].id].domain]_vars
  BY LiveStep
<1>3. Spec => []InOrder
  BY <1>1, SessionsInvariant, OrderInvariant, PTL
<1>4. Spec => LiveFollowsBinding
  BY <1>2, SessionsInvariant, OrderInvariant, PTL DEF Spec, LiveFollowsBinding
<1> QED
  BY <1>3, <1>4 DEF DeliveredInOrder

=============================================================================
