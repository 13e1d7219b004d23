---------------------------- MODULE ClientsProofs ----------------------------
(***************************************************************************)
(* Proofs about what clients wait for.  Domains, for any clients, names,   *)
(* ports and cap: what a creation promised its caller holds, the cap is    *)
(* never passed, and the domains config.json declares are never taken      *)
(* away.  Reconnect, for any callers and any number of connections,        *)
(* attempts and restarts: one loop reconnects at a time, and a new         *)
(* connection is announced before anything it brings.                      *)
(***************************************************************************)
EXTENDS Domains, Reconnect, FiniteSetTheorems, SequenceTheorems, TLAPS

(* Requests that hold create_lock. *)
Creating == {"bind", "insert", "publish"}

(* The name a creation or a load is about. *)
Wanted(c) == IF req[c].pc = "bind" THEN req[c].name ELSE req[c].dom.name

RequestsTyped ==
  /\ DOMAIN req = Clients
  /\ \A c \in Clients : req[c].pc \in Creating \cup {"idle", "delete", "query"}
  /\ \A c \in Clients : req[c].pc = "idle" => req[c] = None

(* Who creates holds the lock, the name is still free and there is room:   *)
(* deletions, which take no lock, only make more of both.                  *)
LockSound ==
  \A c \in Clients : req[c].pc \in Creating =>
    /\ lock = c
    /\ Wanted(c) \notin DOMAIN registry
    /\ ~CapReached

Counted == IsFiniteSet(ApiCreated)

(* A declared domain is registered, and no deletion is after it: the       *)
(* deletion read a domain it may delete off the name.                      *)
Declared == {DefaultDomain} \cup ConfigDomains

DeclaredKept == \A n \in Declared : n \in DOMAIN registry /\ registry[n].source = "config"

DeletesSound == \A c \in Clients : req[c].pc = "delete" => req[c].name \notin Declared

DomInv == /\ RequestsTyped /\ LockSound /\ Counted
          /\ ToldIsRegistered /\ WithinCap /\ DeclaredKept /\ DeletesSound
-----------------------------------------------------------------------------
(* Registering a domain under a free name adds it, and nothing leaves. *)
LEMMA BindFacts ==
  ASSUME NEW n, n \notin DOMAIN registry, NEW d, registry' = Bind(registry, n, d)
  PROVE  /\ Registered' = Registered \cup {d}
         /\ DOMAIN registry' = DOMAIN registry \cup {n}
         /\ registry'[n] = d
         /\ \A m \in DOMAIN registry : registry'[m] = registry[m]
<1>1. DOMAIN registry' = DOMAIN registry \cup {n}
  BY DEF Bind
<1>2. registry'[n] = d
  BY DEF Bind
<1>3. \A m \in DOMAIN registry : registry'[m] = registry[m]
  BY DEF Bind
<1> QED
  BY <1>1, <1>2, <1>3 DEF Registered

(* Unregistering a name takes at most its own domain. *)
LEMMA UnbindFacts ==
  ASSUME NEW n, registry' = Unbind(registry, n)
  PROVE  /\ Registered' \subseteq Registered
         /\ n \in DOMAIN registry => Registered \subseteq Registered' \cup {registry[n]}
         /\ n \notin DOMAIN registry => Registered \subseteq Registered'
         /\ DOMAIN registry' = DOMAIN registry \ {n}
         /\ \A m \in DOMAIN registry \ {n} : registry'[m] = registry[m]
<1>1. DOMAIN registry' = DOMAIN registry \ {n}
  BY DEF Unbind
<1>2. \A m \in DOMAIN registry \ {n} : registry'[m] = registry[m]
  BY DEF Unbind
<1> QED
  BY <1>1, <1>2 DEF Registered

(* One more domain counts for one at most. *)
LEMMA RoomForOne ==
  ASSUME Counted, ~CapReached, NEW d, Registered' = Registered \cup {d}
  PROVE  Counted' /\ WithinCap'
<1>1. Cardinality(ApiCreated) \in Nat /\ Cardinality(ApiCreated) < MaxDomains
  BY FS_CardinalityType, CapAssumption DEF Counted, CapReached
<1>2. ApiCreated' = ApiCreated \/ ApiCreated' = ApiCreated \cup {d}
  BY DEF ApiCreated
<1>3. CASE ApiCreated' = ApiCreated
  BY <1>1, <1>3, CapAssumption DEF Counted, WithinCap
<1>4. CASE ApiCreated' = ApiCreated \cup {d}
  <2> DEFINE A == ApiCreated
  <2>1. IsFiniteSet(A)
    BY DEF Counted
  <2>2. /\ IsFiniteSet(A \cup {d})
        /\ Cardinality(A \cup {d}) = IF d \in A THEN Cardinality(A) ELSE Cardinality(A) + 1
    <3> HIDE DEF A
    <3> QED
      BY <2>1, FS_AddElement
  <2> QED
    BY <1>1, <1>4, <2>2, CapAssumption DEF Counted, WithinCap
<1> QED
  BY <1>2, <1>3, <1>4

(* Fewer domains leave as much room. *)
LEMMA RoomStays ==
  ASSUME Counted, WithinCap, Registered' \subseteq Registered
  PROVE  Counted' /\ WithinCap' /\ (~CapReached => ~CapReached')
<1>1. ApiCreated' \subseteq ApiCreated /\ IsFiniteSet(ApiCreated)
  BY DEF ApiCreated, Counted
<1>2. /\ IsFiniteSet(ApiCreated') /\ Cardinality(ApiCreated') <= Cardinality(ApiCreated)
      /\ Cardinality(ApiCreated') \in Nat /\ Cardinality(ApiCreated) \in Nat
  BY <1>1, FS_Subset, FS_CardinalityType
<1> QED
  BY <1>2, CapAssumption DEF Counted, WithinCap, CapReached
-----------------------------------------------------------------------------
(* One lemma per step. *)

(* A step that leaves the registry and the history alone. *)
LEMMA FrameInv ==
  ASSUME DomInv, RequestsTyped', UNCHANGED <<registry, removed>>,
         told' \subseteq told \cup Registered, LockSound', DeletesSound'
  PROVE  DomInv'
<1>1. Registered' = Registered
  BY DEF Registered
<1>2. ApiCreated' = ApiCreated
  BY <1>1 DEF ApiCreated
<1> QED
  BY <1>1, <1>2 DEF DomInv, Counted, ToldIsRegistered, WithinCap, DeclaredKept

(* With nobody creating, whoever takes the lock is the only one. *)
LEMMA LockWasFree ==
  ASSUME DomInv, LockFree
  PROVE  \A c \in Clients : req[c].pc \notin Creating
BY HolderAssumption DEF DomInv, LockSound, LockFree

LEMMA CreateCheckInv ==
  ASSUME DomInv, NEW c \in Clients, NEW n, NEW spec, CreateCheck(c, n, spec)
  PROVE  DomInv'
<1>1. CASE n \in DOMAIN registry
  <2>1. /\ UNCHANGED <<registry, req, lock, removed>>
        /\ told' \subseteq told \cup Registered
    BY <1>1 DEF CreateCheck, Registered
  <2>2. RequestsTyped' /\ LockSound' /\ DeletesSound'
    BY <2>1 DEF DomInv, RequestsTyped, LockSound, DeletesSound, Wanted, CapReached,
       ApiCreated, Registered
  <2> QED
    BY <2>1, <2>2, FrameInv
<1>2. CASE n \notin DOMAIN registry
  <2>1. /\ UNCHANGED <<registry, told, removed>> /\ lock' = c /\ ~CapReached /\ LockFree
        /\ req' = [req EXCEPT ![c] = [pc |-> "bind", name |-> n, spec |-> spec]]
    BY <1>2 DEF CreateCheck
  <2>2. /\ DOMAIN req' = Clients /\ req'[c].pc = "bind" /\ req'[c].name = n
        /\ \A o \in Clients \ {c} : req'[o] = req[o]
    BY <2>1 DEF DomInv, RequestsTyped
  <2>3. ~CapReached'
    BY <2>1 DEF CapReached, ApiCreated, Registered
  <2>4. RequestsTyped' /\ DeletesSound'
    BY <2>2 DEF DomInv, RequestsTyped, DeletesSound, Creating
  <2>5. LockSound'
    BY <1>2, <2>1, <2>2, <2>3, LockWasFree DEF LockSound, Wanted
  <2> QED
    BY <2>1, <2>4, <2>5, FrameInv
<1> QED
  BY <1>1, <1>2

LEMMA LoadCheckInv ==
  ASSUME DomInv, NEW c \in Clients, NEW n, LoadCheck(c, n)
  PROVE  DomInv'
<1> DEFINE d == Domain(n, "postmortem", NoPorts)
<1>1. /\ UNCHANGED <<registry, told, removed>> /\ lock' = c /\ ~CapReached /\ LockFree
      /\ req' = [req EXCEPT ![c] = [pc |-> "publish", dom |-> d]]
      /\ n \notin DOMAIN registry
  BY DEF LoadCheck
<1>2. d.name = n
  BY DEF Domain
<1> HIDE DEF d
<1>3. /\ DOMAIN req' = Clients /\ req'[c].pc = "publish" /\ req'[c].dom.name = n
      /\ \A o \in Clients \ {c} : req'[o] = req[o]
  BY <1>1, <1>2 DEF DomInv, RequestsTyped
<1>4. ~CapReached'
  BY <1>1 DEF CapReached, ApiCreated, Registered
<1>5. RequestsTyped' /\ DeletesSound'
  BY <1>3 DEF DomInv, RequestsTyped, DeletesSound, Creating
<1>6. LockSound'
  BY <1>1, <1>3, <1>4, LockWasFree DEF LockSound, Wanted
<1> QED
  BY <1>1, <1>5, <1>6, FrameInv

(* The end of a request that holds no lock, or gives it up. *)
LEMMA AnswerFacts ==
  ASSUME DomInv, NEW c \in Clients, Answer(c)
  PROVE  /\ RequestsTyped' /\ DeletesSound'
         /\ req'[c].pc = "idle" /\ \A o \in Clients \ {c} : req'[o] = req[o]
<1>1. /\ DOMAIN req' = Clients /\ req'[c] = None
      /\ \A o \in Clients \ {c} : req'[o] = req[o]
  BY DEF Answer, DomInv, RequestsTyped
<1>2. req'[c].pc = "idle"
  BY <1>1 DEF None
<1> QED
  BY <1>1, <1>2 DEF DomInv, RequestsTyped, DeletesSound, Creating

LEMMA CreateBindInv ==
  ASSUME DomInv, NEW c \in Clients, CreateBind(c)
  PROVE  DomInv'
<1>0. /\ req[c].pc = "bind" /\ UNCHANGED <<registry, told, removed>>
  BY DEF CreateBind
<1>1. /\ lock = c /\ req[c].name \notin DOMAIN registry /\ ~CapReached
      /\ \A o \in Clients \ {c} : req[o].pc \notin Creating
  BY <1>0 DEF DomInv, LockSound, Creating, Wanted
<1>2. ~CapReached'
  BY <1>0, <1>1 DEF CapReached, ApiCreated, Registered
<1>3. CASE Answer(c) /\ lock' = "free"
  <2>1. LockSound'
    BY <1>1, <1>3, AnswerFacts DEF LockSound, Creating
  <2> QED
    BY <1>0, <1>3, <2>1, AnswerFacts, FrameInv
<1>4. ASSUME NEW b, lock' = lock,
             req' = [req EXCEPT ![c] =
               [pc |-> "insert", dom |-> Domain(req[c].name, "ephemeral", b)]]
      PROVE  DomInv'
  <2> DEFINE d == Domain(req[c].name, "ephemeral", b)
  <2>1. d.name = req[c].name /\ req' = [req EXCEPT ![c] = [pc |-> "insert", dom |-> d]]
    BY <1>4 DEF Domain
  <2> HIDE DEF d
  <2>2. /\ DOMAIN req' = Clients /\ req'[c].pc = "insert"
        /\ req'[c].dom.name = req[c].name
        /\ \A o \in Clients \ {c} : req'[o] = req[o]
    BY <2>1 DEF DomInv, RequestsTyped
  <2>3. RequestsTyped' /\ DeletesSound'
    BY <2>2 DEF DomInv, RequestsTyped, DeletesSound, Creating
  <2>4. LockSound'
    BY <1>0, <1>1, <1>2, <1>4, <2>2 DEF LockSound, Wanted
  <2> QED
    BY <1>0, <2>3, <2>4, FrameInv
<1> QED
  BY <1>3, <1>4 DEF CreateBind

(* The registered domain is the one told: its name was still free. *)
LEMMA RegisterInv ==
  ASSUME DomInv, NEW c \in Clients, req[c].pc \in {"insert", "publish"},
         registry' = Bind(registry, req[c].dom.name, req[c].dom), lock' = "free",
         Answer(c), removed' = removed, told' \subseteq told \cup {req[c].dom}
  PROVE  DomInv'
<1> DEFINE d == req[c].dom
<1>1. /\ lock = c /\ d.name \notin DOMAIN registry /\ ~CapReached
      /\ \A o \in Clients \ {c} : req[o].pc \notin Creating
  BY DEF DomInv, LockSound, Creating, Wanted
<1>0. registry' = Bind(registry, d.name, d) /\ told' \subseteq told \cup {d}
  OBVIOUS
<1> HIDE DEF d
<1>2. /\ Registered' = Registered \cup {d}
      /\ DOMAIN registry' = DOMAIN registry \cup {d.name}
      /\ \A m \in DOMAIN registry : registry'[m] = registry[m]
  <2> DEFINE n == d.name
  <2>1. n \notin DOMAIN registry /\ registry' = Bind(registry, n, d)
    BY <1>0, <1>1
  <2> HIDE DEF n
  <2>2. /\ Registered' = Registered \cup {d}
        /\ DOMAIN registry' = DOMAIN registry \cup {n}
        /\ \A m \in DOMAIN registry : registry'[m] = registry[m]
    BY <2>1, BindFacts
  <2> QED
    BY <2>2 DEF n
<1>3. Counted' /\ WithinCap'
  BY <1>1, <1>2, RoomForOne DEF DomInv
<1>4. ToldIsRegistered'
  BY <1>0, <1>2 DEF DomInv, ToldIsRegistered
<1>5. DeclaredKept'
  BY <1>2 DEF DomInv, DeclaredKept
<1>6. LockSound'
  BY <1>1, AnswerFacts DEF LockSound, Creating
<1> QED
  BY <1>3, <1>4, <1>5, <1>6, AnswerFacts DEF DomInv

LEMMA DeleteCheckInv ==
  ASSUME DomInv, NEW c \in Clients, NEW n, DeleteCheck(c, n)
  PROVE  DomInv'
<1>1. /\ req' = [req EXCEPT ![c] = [pc |-> "delete", name |-> n]]
      /\ UNCHANGED <<registry, lock, told, removed>>
      /\ req[c] = None /\ n \in DOMAIN registry /\ registry[n].source # "config"
  BY DEF DeleteCheck, Deletable
<1>2. /\ DOMAIN req' = Clients /\ req'[c].pc = "delete" /\ req'[c].name = n
      /\ \A o \in Clients \ {c} : req'[o] = req[o]
  BY <1>1 DEF DomInv, RequestsTyped
<1>3. RequestsTyped'
  BY <1>2 DEF DomInv, RequestsTyped, Creating
<1>4. DeletesSound'
  BY <1>1, <1>2 DEF DomInv, DeletesSound, DeclaredKept
<1>5. LockSound'
  BY <1>1, <1>2 DEF DomInv, LockSound, Creating, Wanted, CapReached, ApiCreated, Registered
<1> QED
  BY <1>1, <1>3, <1>4, <1>5, FrameInv

LEMMA DeleteRemoveInv ==
  ASSUME DomInv, NEW c \in Clients, DeleteRemove(c)
  PROVE  DomInv'
<1> DEFINE n == req[c].name
<1>1. /\ req[c].pc = "delete" /\ registry' = Unbind(registry, n) /\ Answer(c)
      /\ UNCHANGED <<lock, told>>
      /\ removed' = IF n \in DOMAIN registry THEN removed \cup {registry[n]} ELSE removed
  BY DEF DeleteRemove
<1>2. n \notin Declared
  BY <1>1 DEF DomInv, DeletesSound
<1> HIDE DEF n
<1>3. /\ Registered' \subseteq Registered
      /\ n \in DOMAIN registry => Registered \subseteq Registered' \cup {registry[n]}
      /\ n \notin DOMAIN registry => Registered \subseteq Registered'
      /\ DOMAIN registry' = DOMAIN registry \ {n}
      /\ \A m \in DOMAIN registry \ {n} : registry'[m] = registry[m]
  BY <1>1, UnbindFacts
<1>4. Counted' /\ WithinCap' /\ (~CapReached => ~CapReached')
  BY <1>3, RoomStays DEF DomInv
<1>5. ToldIsRegistered'
  BY <1>1, <1>3 DEF DomInv, ToldIsRegistered
<1>6. DeclaredKept'
  BY <1>2, <1>3 DEF DomInv, DeclaredKept
<1>7. LockSound'
  BY <1>1, <1>3, <1>4, AnswerFacts DEF DomInv, LockSound, Creating, Wanted
<1> QED
  BY <1>1, <1>4, <1>5, <1>6, <1>7, AnswerFacts DEF DomInv

LEMMA QueryInv ==
  ASSUME DomInv, NEW c \in Clients, Query(c) \/ QueryEnd(c) \/ \E n \in DomainNames : Use(c, n)
  PROVE  DomInv'
<1>1. CASE Query(c)
  <2>1. PICK d \in Resolved(c) : req' = [req EXCEPT ![c] = [pc |-> "query", dom |-> d]]
    BY <1>1 DEF Query
  <2>2. UNCHANGED <<registry, lock, told, removed>>
    BY <1>1 DEF Query
  <2>3. /\ DOMAIN req' = Clients /\ req'[c].pc = "query"
        /\ \A o \in Clients \ {c} : req'[o] = req[o]
    BY <2>1 DEF DomInv, RequestsTyped
  <2>4. RequestsTyped' /\ DeletesSound'
    BY <2>3 DEF DomInv, RequestsTyped, DeletesSound, Creating
  <2>5. LockSound'
    BY <2>2, <2>3 DEF DomInv, LockSound, Creating, Wanted, CapReached, ApiCreated, Registered
  <2> QED
    BY <2>2, <2>4, <2>5, FrameInv
<1>2. CASE QueryEnd(c)
  <2>1. Answer(c) /\ UNCHANGED <<registry, lock, told, removed>>
    BY <1>2 DEF QueryEnd
  <2>2. LockSound'
    BY <2>1, AnswerFacts DEF DomInv, LockSound, Creating, Wanted, CapReached, ApiCreated,
       Registered
  <2> QED
    BY <2>1, <2>2, AnswerFacts, FrameInv
<1>3. CASE \E n \in DomainNames : Use(c, n)
  <2>1. UNCHANGED <<registry, req, lock, told, removed>>
    BY <1>3 DEF Use
  <2>2. RequestsTyped' /\ DeletesSound' /\ LockSound'
    BY <2>1 DEF DomInv, RequestsTyped, LockSound, DeletesSound, Wanted, CapReached,
       ApiCreated, Registered
  <2> QED
    BY <2>1, <2>2, FrameInv
<1> QED
  BY <1>1, <1>2, <1>3
-----------------------------------------------------------------------------
LEMMA DomInitInv == DomInit => DomInv
<1> SUFFICES ASSUME DomInit PROVE DomInv
  OBVIOUS
<1>1. /\ DOMAIN registry = Declared
      /\ \A n \in Declared : registry[n].source = "config"
  BY DEF DomInit, Declared
<1>2. /\ DOMAIN req = Clients
      /\ \A c \in Clients : req[c] = None /\ req[c].pc = "idle"
  BY DEF DomInit, None
<1>3. ApiCreated = {}
  BY <1>1 DEF ApiCreated, Registered
<1>4. Counted /\ WithinCap
  BY <1>3, FS_EmptySet, CapAssumption DEF Counted, WithinCap
<1>5. ToldIsRegistered
  BY DEF DomInit, ToldIsRegistered
<1>6. RequestsTyped /\ LockSound /\ DeletesSound
  BY <1>2 DEF RequestsTyped, LockSound, DeletesSound, Creating
<1> QED
  BY <1>1, <1>4, <1>5, <1>6 DEF DomInv, DeclaredKept

LEMMA DomNextInv == DomInv /\ [DomNext]_domVars => DomInv'
<1> SUFFICES ASSUME DomInv, [DomNext]_domVars PROVE DomInv'
  OBVIOUS
<1>1. CASE UNCHANGED domVars
  <2>1. UNCHANGED <<registry, req, lock, told, removed>>
    BY <1>1 DEF domVars
  <2>2. RequestsTyped' /\ DeletesSound' /\ LockSound'
    BY <2>1 DEF DomInv, RequestsTyped, LockSound, DeletesSound, Wanted, CapReached,
       ApiCreated, Registered
  <2> QED
    BY <2>1, <2>2, FrameInv
<1>2. ASSUME NEW c \in Clients, CreateInsert(c) \/ LoadPublish(c)
      PROVE  DomInv'
  <2>1. /\ req[c].pc \in {"insert", "publish"}
        /\ registry' = Bind(registry, req[c].dom.name, req[c].dom) /\ lock' = "free"
        /\ Answer(c) /\ removed' = removed /\ told' \subseteq told \cup {req[c].dom}
    BY <1>2 DEF CreateInsert, LoadPublish
  <2> QED
    BY <2>1, RegisterInv
<1>3. CASE DomNext
  BY <1>2, <1>3, CreateCheckInv, LoadCheckInv, DeleteCheckInv, CreateBindInv,
     DeleteRemoveInv, QueryInv DEF DomNext
<1> QED
  BY <1>1, <1>3

(* However creations, loads, deletions and queries overlap, who creates    *)
(* holds create_lock, and its name and its place under the cap are still   *)
(* free when it registers its domain (handle_domains_create).              *)
THEOREM DomainsInvariant == DomSpec => []DomInv
BY DomInitInv, DomNextInv, PTL DEF DomSpec

(* A domain handed to the caller of domains.create is the one registered   *)
(* under its name until a deletion takes it, and the domains config.json   *)
(* did not declare never exceed max_domains (create_lock).                 *)
THEOREM CreationsAreSound == DomSpec => []CreationsSound
<1>1. DomInv => CreationsSound
  BY DEF DomInv, CreationsSound
<1> QED
  BY <1>1, DomainsInvariant, PTL

(* No race of deletions with creations takes a domain config.json declares *)
(* out of the registry, or another domain into its place: domains.delete   *)
(* checks one domain and removes whatever has its name by then.            *)
THEOREM DeclaredDomainsStay == DomSpec => []DeclaredKept
<1>1. DomInv => DeclaredKept
  BY DEF DomInv
<1> QED
  BY <1>1, DomainsInvariant, PTL
-----------------------------------------------------------------------------
(* The client's side of a session. *)

Frames == [kind : {"fired", "garbage"}] \cup [kind : {"response"}, to : Callers]
Bridges ==
  [link : {"open", "cut"}, inbox : Seq(Frames), asked : SUBSET Callers,
   pending : SUBSET Callers, closed : BOOLEAN,
   reader : {"unstarted", "running", "stopped", "closing", "gone"},
   watch : {"none", "spawned", "waiting", "woken", "done"}]
Loops == [pc : {"trying", "new", "resumed", "installed", "announced", "reading"},
          attempt : Nat, on : Nat]
News == [kind : {"fired", "reconnected"}, on : Nat]

(* The loops that have yet to settle the manager. *)
Unsettled == {i \in DOMAIN loop : loop[i].pc \in {"trying", "new", "resumed"}}

Resumed(b) == [kind |-> "reconnected", on |-> b]
Announced(b) == \E j \in DOMAIN heard : heard[j] = Resumed(b)

ReconnectTyped ==
  /\ bridge \in Seq(Bridges) /\ loop \in Seq(Loops) /\ heard \in Seq(News)
  /\ queued \in Nat

(* One loop is unsettled while the manager reconnects, and none otherwise; *)
(* a reader other than the first was announced before it was started, and  *)
(* so was the bridge of a loop about to start one.                         *)
ReconnectInv ==
  /\ ReconnectTyped
  /\ mgr = Reconnecting => \E i : Unsettled = {i}
  /\ mgr # Reconnecting => Unsettled = {}
  /\ \A b \in DOMAIN bridge : b > 1 /\ bridge[b].reader # "unstarted" => Announced(b)
  /\ \A i \in DOMAIN loop : loop[i].pc \in {"announced", "reading"} => Announced(loop[i].on)
  /\ ReconnectedFirst

(* The bridges after a step that starts no reader. *)
NoReaderStarts ==
  /\ bridge' \in Seq(Bridges)
  /\ \A b \in DOMAIN bridge' : bridge'[b].reader # "unstarted" =>
       b \in DOMAIN bridge /\ bridge[b].reader # "unstarted"

(* What a step may send to subscribers. *)
NewsInOrder ==
  \/ heard' = heard
  \/ \E x \in News : /\ heard' = Append(heard, x)
                     /\ x.kind = "fired" /\ x.on > 1 => Announced(x.on)

LEMMA BridgeSet ==
  ASSUME ReconnectTyped, NEW b, NEW v, bridge' = [bridge EXCEPT ![b] = v],
         b \in DOMAIN bridge =>
           v \in Bridges /\ (v.reader # "unstarted" => bridge[b].reader # "unstarted")
  PROVE  NoReaderStarts
<1>1. bridge \in Seq(Bridges)
  BY DEF ReconnectTyped
<1>2. /\ DOMAIN bridge' = DOMAIN bridge
      /\ \A x \in DOMAIN bridge : bridge'[x] = IF x = b THEN v ELSE bridge[x]
  OBVIOUS
<1>3. bridge' \in Seq(Bridges)
  <2>1. CASE b \in 1..Len(bridge)
    BY <1>1, <2>1, ExceptSeq
  <2>2. CASE b \notin 1..Len(bridge)
    <3>1. bridge \in [1..Len(bridge) -> Bridges] /\ Len(bridge) \in Nat
      BY <1>1
    <3>2. bridge' \in [1..Len(bridge) -> Bridges]
      BY <2>2, <3>1
    <3> QED
      BY <3>1, <3>2, SeqDef
  <2> QED
    BY <2>1, <2>2
<1> QED
  BY <1>2, <1>3 DEF NoReaderStarts

LEMMA NewsKept ==
  ASSUME ReconnectInv, NewsInOrder
  PROVE  /\ heard' \in Seq(News) /\ ReconnectedFirst'
         /\ \A b : Announced(b) => Announced(b)'
<1>0. heard \in Seq(News) /\ ReconnectedFirst
  BY DEF ReconnectInv, ReconnectTyped
<1>1. CASE heard' = heard
  BY <1>0, <1>1 DEF ReconnectedFirst, Announced
<1>2. ASSUME NEW x \in News, heard' = Append(heard, x),
             x.kind = "fired" /\ x.on > 1 => Announced(x.on)
      PROVE  /\ heard' \in Seq(News) /\ ReconnectedFirst'
             /\ \A b : Announced(b) => Announced(b)'
  <2> DEFINE n == Len(heard)
  <2>1. /\ heard' \in Seq(News) /\ Len(heard') = n + 1 /\ n \in Nat /\ heard'[n + 1] = x
        /\ \A k \in 1..n : heard'[k] = heard[k]
        /\ DOMAIN heard' = 1..(n + 1) /\ DOMAIN heard = 1..n
    BY <1>0, <1>2
  <2> HIDE DEF n
  <2>2. \A b : Announced(b) => Announced(b)'
    BY <2>1 DEF Announced, Resumed
  <2>3. ASSUME NEW k \in DOMAIN heard', heard'[k].kind = "fired", heard'[k].on > 1
        PROVE  \E j \in 1 .. k - 1 : heard'[j] = [kind |-> "reconnected", on |-> heard'[k].on]
    <3>1. CASE k \in 1..n
      <4>1. heard[k].kind = "fired" /\ heard[k].on > 1
        BY <2>1, <2>3, <3>1
      <4>2. PICK j \in 1 .. k - 1 : heard[j] = [kind |-> "reconnected", on |-> heard[k].on]
        BY <1>0, <2>1, <3>1, <4>1 DEF ReconnectedFirst
      <4>3. j \in 1..n
        BY <2>1, <3>1
      <4> QED
        BY <2>1, <3>1, <4>2, <4>3
    <3>2. CASE k = n + 1
      <4>1. Announced(x.on)
        BY <1>2, <2>1, <2>3, <3>2
      <4>2. PICK j \in 1..n : heard[j] = [kind |-> "reconnected", on |-> x.on]
        BY <2>1, <4>1 DEF Announced, Resumed
      <4>3. j \in 1 .. k - 1 /\ heard'[j] = [kind |-> "reconnected", on |-> heard'[k].on]
        BY <2>1, <3>2, <4>2
      <4> QED
        BY <4>3
    <3> QED
      BY <2>1, <3>1, <3>2
  <2> QED
    BY <2>1, <2>2, <2>3 DEF ReconnectedFirst
<1> QED
  BY <1>1, <1>2 DEF NewsInOrder

ReadersTold == \A b \in DOMAIN bridge : b > 1 /\ bridge[b].reader # "unstarted" => Announced(b)

LEMMA ReadersKept ==
  ASSUME ReconnectInv, NewsInOrder, NoReaderStarts
  PROVE  ReadersTold'
<1>1. \A b : Announced(b) => Announced(b)'
  BY NewsKept
<1> QED
  BY <1>1 DEF ReconnectInv, NoReaderStarts, ReadersTold

LoopSettled ==
  /\ mgr = Reconnecting => \E i : Unsettled = {i}
  /\ mgr # Reconnecting => Unsettled = {}
LoopsTold ==
  \A i \in DOMAIN loop : loop[i].pc \in {"announced", "reading"} => Announced(loop[i].on)

(* Steps that leave the manager and its loops as they are. *)
LEMMA ClientStill ==
  ASSUME ReconnectInv, NewsInOrder, NoReaderStarts, mgr' = mgr, loop' = loop, queued' \in Nat
  PROVE  ReconnectInv'
<1>1. /\ heard' \in Seq(News) /\ ReconnectedFirst' /\ ReadersTold'
      /\ \A b : Announced(b) => Announced(b)'
  BY NewsKept, ReadersKept
<1>2. ReconnectTyped'
  BY <1>1 DEF ReconnectInv, ReconnectTyped, NoReaderStarts
<1>3. LoopsTold'
  BY <1>1 DEF ReconnectInv, LoopsTold
<1>4. Unsettled' = Unsettled
  BY DEF Unsettled
<1>5. LoopSettled'
  BY <1>4 DEF ReconnectInv, LoopSettled, Reconnecting
<1> QED
  BY <1>1, <1>2, <1>3, <1>5, Zenon DEF ReconnectInv, ReadersTold, LoopsTold, LoopSettled

LEMMA Unchanged ==
  ASSUME ReconnectTyped, bridge' = bridge
  PROVE  NoReaderStarts
BY DEF ReconnectTyped, NoReaderStarts

(* The steps that change one bridge, other than its reader's start. *)
LEMMA OneBridge ==
  ASSUME ReconnectTyped
  PROVE  /\ \A b \in DOMAIN bridge :
              WatcherStarts(b) \/ WatcherWakes(b) \/ ReadEof(b) \/ ReaderCloses(b)
                \/ ReaderNotifies(b) \/ Close(b) \/ Drop(b) => NoReaderStarts
         /\ \A b \in DOMAIN bridge, c \in Callers : Reply(c, b) => NoReaderStarts
         /\ \A i \in DOMAIN loop : SessionGone(i) \/ SpawnWatcher(i) => NoReaderStarts
         /\ \A c \in Callers : Register(c) \/ Write(c) => NoReaderStarts
         /\ Fire => NoReaderStarts
<1>0. /\ \A b \in DOMAIN bridge : bridge[b] \in Bridges
  BY DEF ReconnectTyped
<1>1. ASSUME NEW b \in DOMAIN bridge, WatcherStarts(b)
      PROVE  NoReaderStarts
  <2> DEFINE v == [bridge[b] EXCEPT !.watch = "waiting"]
  <2>1. bridge' = [bridge EXCEPT ![b] = v]
    BY <1>1 DEF WatcherStarts
  <2>2. b \in DOMAIN bridge =>
          v \in Bridges /\ (v.reader # "unstarted" => bridge[b].reader # "unstarted")
    BY <1>0, <1>1 DEF WatcherStarts, Bridges, Frames
  <2> HIDE DEF v
  <2> QED
    BY <2>1, <2>2, BridgeSet
<1>2. ASSUME NEW b \in DOMAIN bridge, WatcherWakes(b)
      PROVE  NoReaderStarts
  <2> DEFINE v == [bridge[b] EXCEPT !.watch = "done"]
  <2>1. bridge' = [bridge EXCEPT ![b] = v]
    BY <1>2 DEF WatcherWakes
  <2>2. b \in DOMAIN bridge =>
          v \in Bridges /\ (v.reader # "unstarted" => bridge[b].reader # "unstarted")
    BY <1>0, <1>2 DEF WatcherWakes, Bridges, Frames
  <2> HIDE DEF v
  <2> QED
    BY <2>1, <2>2, BridgeSet
<1>3. ASSUME NEW b \in DOMAIN bridge, ReadEof(b)
      PROVE  NoReaderStarts
  <2> DEFINE v == [bridge[b] EXCEPT !.reader = "stopped"]
  <2>1. bridge' = [bridge EXCEPT ![b] = v]
    BY <1>3 DEF ReadEof
  <2>2. b \in DOMAIN bridge =>
          v \in Bridges /\ (v.reader # "unstarted" => bridge[b].reader # "unstarted")
    BY <1>0, <1>3 DEF ReadEof, Bridges, Frames
  <2> HIDE DEF v
  <2> QED
    BY <2>1, <2>2, BridgeSet
<1>4. ASSUME NEW b \in DOMAIN bridge, ReaderCloses(b)
      PROVE  NoReaderStarts
  <2> DEFINE v == [bridge[b] EXCEPT !.reader = "closing", !.closed = TRUE, !.pending = {}]
  <2>1. bridge' = [bridge EXCEPT ![b] = v]
    BY <1>4 DEF ReaderCloses
  <2>2. b \in DOMAIN bridge =>
          v \in Bridges /\ (v.reader # "unstarted" => bridge[b].reader # "unstarted")
    BY <1>0, <1>4 DEF ReaderCloses, Bridges, Frames
  <2> HIDE DEF v
  <2> QED
    BY <2>1, <2>2, BridgeSet
<1>5. ASSUME NEW b \in DOMAIN bridge, ReaderNotifies(b)
      PROVE  NoReaderStarts
  <2> DEFINE v == [bridge[b] EXCEPT !.reader = "gone",
                              !.watch = IF @ = "waiting" THEN "woken" ELSE @]
  <2>1. bridge' = [bridge EXCEPT ![b] = v]
    BY <1>5 DEF ReaderNotifies
  <2>2. b \in DOMAIN bridge =>
          v \in Bridges /\ (v.reader # "unstarted" => bridge[b].reader # "unstarted")
    BY <1>0, <1>5 DEF ReaderNotifies, Bridges, Frames
  <2> HIDE DEF v
  <2> QED
    BY <2>1, <2>2, BridgeSet
<1>6. ASSUME NEW b \in DOMAIN bridge, Close(b) \/ Drop(b)
      PROVE  NoReaderStarts
  <2> DEFINE v == [bridge[b] EXCEPT !.link = "cut"]
  <2>1. bridge' = [bridge EXCEPT ![b] = v]
    BY <1>6 DEF Close, Drop
  <2>2. b \in DOMAIN bridge =>
          v \in Bridges /\ (v.reader # "unstarted" => bridge[b].reader # "unstarted")
    BY <1>0, <1>6 DEF Close, Drop, Bridges, Frames
  <2> HIDE DEF v
  <2> QED
    BY <2>1, <2>2, BridgeSet
<1>7. ASSUME NEW b \in DOMAIN bridge, NEW c \in Callers, Reply(c, b)
      PROVE  NoReaderStarts
  <2> DEFINE v == [bridge[b] EXCEPT !.asked = @ \ {c},
                              !.inbox = Append(@, [kind |-> "response", to |-> c])]
  <2>1. bridge' = [bridge EXCEPT ![b] = v]
    BY <1>7 DEF Reply
  <2>2. b \in DOMAIN bridge =>
          v \in Bridges /\ (v.reader # "unstarted" => bridge[b].reader # "unstarted")
    <3> DEFINE frame == [kind |-> "response", to |-> c]
               inbox == Append(bridge[b].inbox, frame)
    <3>1. frame \in Frames /\ bridge[b].inbox \in Seq(Frames)
      BY <1>0 DEF Frames, Bridges
    <3>2. inbox \in Seq(Frames)
      BY <3>1
    <3>3. v = [bridge[b] EXCEPT !.asked = @ \ {c}, !.inbox = inbox]
      OBVIOUS
    <3> HIDE DEF inbox, v
    <3> QED
      BY <1>0, <3>2, <3>3 DEF Bridges
  <2> HIDE DEF v
  <2> QED
    BY <2>1, <2>2, BridgeSet
<1>8. ASSUME NEW i \in DOMAIN loop, SessionGone(i)
      PROVE  NoReaderStarts
  <2> DEFINE v == [bridge[loop[i].on] EXCEPT !.link = "cut"]
  <2>1. bridge' = [bridge EXCEPT ![loop[i].on] = v]
    BY <1>8 DEF SessionGone
  <2>2. loop[i].on \in DOMAIN bridge =>
          v \in Bridges /\ (v.reader # "unstarted" => bridge[loop[i].on].reader # "unstarted")
    BY <1>0, <1>8 DEF SessionGone, Bridges, Frames
  <2> HIDE DEF v
  <2> QED
    BY <2>1, <2>2, BridgeSet
<1>9. ASSUME NEW i \in DOMAIN loop, SpawnWatcher(i)
      PROVE  NoReaderStarts
  <2> DEFINE v == [bridge[loop[i].on] EXCEPT !.watch = "spawned"]
  <2>1. bridge' = [bridge EXCEPT ![loop[i].on] = v]
    BY <1>9 DEF SpawnWatcher
  <2>2. loop[i].on \in DOMAIN bridge =>
          v \in Bridges /\ (v.reader # "unstarted" => bridge[loop[i].on].reader # "unstarted")
    BY <1>0, <1>9 DEF SpawnWatcher, Bridges, Frames
  <2> HIDE DEF v
  <2> QED
    BY <2>1, <2>2, BridgeSet
<1>10. ASSUME NEW c \in Callers, Register(c), ~Refused(call[c].on)
      PROVE  NoReaderStarts
  <2> DEFINE v == [bridge[call[c].on] EXCEPT !.pending = @ \cup {c}]
  <2>1. bridge' = [bridge EXCEPT ![call[c].on] = v]
    BY <1>10 DEF Register
  <2>2. call[c].on \in DOMAIN bridge =>
          v \in Bridges /\ (v.reader # "unstarted" => bridge[call[c].on].reader # "unstarted")
    BY <1>0, <1>10 DEF Register, Bridges, Frames
  <2> HIDE DEF v
  <2> QED
    BY <2>1, <2>2, BridgeSet
<1>11. ASSUME NEW c \in Callers, Write(c), bridge[call[c].on].link = "open"
      PROVE  NoReaderStarts
  <2> DEFINE v == [bridge[call[c].on] EXCEPT !.asked = @ \cup {c}]
  <2>1. bridge' = [bridge EXCEPT ![call[c].on] = v]
    BY <1>11 DEF Write
  <2>2. call[c].on \in DOMAIN bridge =>
          v \in Bridges /\ (v.reader # "unstarted" => bridge[call[c].on].reader # "unstarted")
    BY <1>0, <1>11, SMTT(30) DEF Bridges, Frames
  <2> HIDE DEF v
  <2> QED
    BY <2>1, <2>2, BridgeSet
<1>12. ASSUME Fire, owner # 0, NEW kind \in {"fired", "garbage"},
             bridge' = [bridge EXCEPT ![owner].inbox =
               IF bridge[owner].link = "open" THEN Append(@, [kind |-> kind]) ELSE @]
      PROVE  NoReaderStarts
  <2> DEFINE v == [bridge[owner] EXCEPT !.inbox =
               IF bridge[owner].link = "open" THEN Append(@, [kind |-> kind]) ELSE @]
  <2>1. bridge' = [bridge EXCEPT ![owner] = v]
    BY <1>12
  <2>2. owner \in DOMAIN bridge =>
          v \in Bridges /\ (v.reader # "unstarted" => bridge[owner].reader # "unstarted")
    <3> SUFFICES ASSUME owner \in DOMAIN bridge
                 PROVE  v \in Bridges
                        /\ (v.reader # "unstarted" => bridge[owner].reader # "unstarted")
      OBVIOUS
    <3> DEFINE frame == [kind |-> kind]
               inbox == IF bridge[owner].link = "open" THEN Append(bridge[owner].inbox, frame)
                        ELSE bridge[owner].inbox
    <3>1. frame \in Frames /\ bridge[owner].inbox \in Seq(Frames)
      BY <1>0 DEF Frames, Bridges
    <3>2. inbox \in Seq(Frames)
      <4> HIDE DEF frame
      <4> QED
        BY <3>1
    <3>3. v = [bridge[owner] EXCEPT !.inbox = inbox]
      OBVIOUS
    <3> HIDE DEF inbox, v
    <3> QED
      BY <1>0, <3>2, <3>3 DEF Bridges
  <2> HIDE DEF v
  <2> QED
    BY <2>1, <2>2, BridgeSet
<1>13. ASSUME NEW c \in Callers, Register(c) PROVE NoReaderStarts
  <2>1. CASE Refused(call[c].on)
    BY <1>13, <2>1, Unchanged DEF Register
  <2> QED
    BY <1>10, <1>13, <2>1, Zenon
<1>14. ASSUME NEW c \in Callers, Write(c) PROVE NoReaderStarts
  <2>1. CASE bridge[call[c].on].link # "open"
    BY <1>14, <2>1, Unchanged DEF Write
  <2> QED
    BY <1>11, <1>14, <2>1, Zenon
<1>15. ASSUME Fire PROVE NoReaderStarts
  <2>1. CASE owner = 0
    BY <1>15, <2>1, Unchanged DEF Fire
  <2>2. CASE owner # 0
    <3>1. PICK kind \in {"fired", "garbage"} :
            bridge' = [bridge EXCEPT ![owner].inbox =
              IF bridge[owner].link = "open" THEN Append(@, [kind |-> kind]) ELSE @]
      BY <1>15, <2>2, Zenon DEF Fire
    <3> QED
      BY <1>12, <1>15, <2>2, <3>1
  <2> QED
    BY <2>1, <2>2
<1> QED
  BY <1>1, <1>2, <1>3, <1>4, <1>5, <1>6, <1>7, <1>8, <1>9, <1>13, <1>14, <1>15, Zenon

LEMMA RestartBridges == ASSUME ReconnectTyped, Restart PROVE NoReaderStarts
<1> DEFINE n == Len(bridge)
<1>1. n \in Nat /\ DOMAIN bridge = 1..n /\ \A b \in 1..n : bridge[b] \in Bridges
  BY DEF ReconnectTyped
<1>2. bridge' = [b \in 1..n |-> [bridge[b] EXCEPT !.link = "cut"]]
  BY <1>1 DEF Restart
<1> HIDE DEF n
<1>3. \A b \in 1..n : /\ [bridge[b] EXCEPT !.link = "cut"] \in Bridges
                      /\ [bridge[b] EXCEPT !.link = "cut"].reader = bridge[b].reader
  BY <1>1 DEF Bridges
<1>4. bridge' \in [1..n -> Bridges]
  BY <1>2, <1>3
<1>5. bridge' \in Seq(Bridges)
  BY <1>1, <1>4, SeqDef
<1>6. DOMAIN bridge' = 1..n /\ \A b \in 1..n : bridge'[b].reader = bridge[b].reader
  BY <1>2, <1>3
<1> QED
  BY <1>1, <1>5, <1>6 DEF NoReaderStarts

(* A frame read: its bridge's reader was running, so a notification comes  *)
(* from a bridge that was announced.                                       *)
LEMMA ReadStep ==
  ASSUME ReconnectInv, NEW b \in DOMAIN bridge, Read(b)
  PROVE  NoReaderStarts /\ NewsInOrder
<1> DEFINE rest == [bridge EXCEPT ![b].inbox = Tail(@)]
           v == [bridge[b] EXCEPT !.inbox = Tail(@)]
           frame == Head(bridge[b].inbox)
<1>0. ReconnectTyped /\ bridge[b] \in Bridges /\ bridge[b].reader = "running"
  BY DEF ReconnectInv, ReconnectTyped, Read
<1>1. b \in Nat
  BY <1>0 DEF ReconnectTyped
<1>2. bridge[b].inbox \in Seq(Frames) /\ bridge[b].inbox # <<>>
  BY <1>0 DEF Bridges, Read
<1>3. Tail(bridge[b].inbox) \in Seq(Frames)
  BY <1>2
<1>4. v \in Bridges /\ v.reader = "running" /\ v.pending = bridge[b].pending
  BY <1>0, <1>3 DEF Bridges
<1>5. rest = [bridge EXCEPT ![b] = v] /\ rest[b] = v
  OBVIOUS
<1>6. \/ /\ bridge' = [rest EXCEPT ![b].pending = @ \ {frame.to}] /\ heard' = heard
      \/ bridge' = rest /\ heard' = heard
      \/ bridge' = rest /\ heard' = Append(heard, [kind |-> "fired", on |-> b])
      \/ bridge' = [rest EXCEPT ![b].reader = "stopped"] /\ heard' = heard
  BY Zenon DEF Read
<1>7. NewsInOrder
  <2>1. [kind |-> "fired", on |-> b] \in News
    BY <1>1 DEF News
  <2>2. b > 1 => Announced(b)
    BY <1>0 DEF ReconnectInv
  <2> DEFINE x == [kind |-> "fired", on |-> b]
  <2>3. x.on = b
    OBVIOUS
  <2> HIDE DEF x
  <2> QED
    BY <1>6, <2>1, <2>2, <2>3 DEF NewsInOrder, x
<1>8. \E u \in Bridges : /\ bridge' = [bridge EXCEPT ![b] = u]
                         /\ u.reader # "unstarted" => bridge[b].reader # "unstarted"
  <2>1. CASE bridge' = [rest EXCEPT ![b].pending = @ \ {frame.to}]
    <3> DEFINE u == [v EXCEPT !.pending = @ \ {frame.to}]
    <3>1. bridge' = [bridge EXCEPT ![b] = u]
      <4> HIDE DEF rest, v, frame
      <4>1. bridge' = [rest EXCEPT ![b] = u]
        BY <2>1, <1>5
      <4> HIDE DEF u
      <4> QED
        BY <4>1, <1>5
    <3>2. u \in Bridges
      <4> HIDE DEF v
      <4> QED
        BY <1>4 DEF Bridges
    <3> HIDE DEF u
    <3> QED
      BY <1>0, <3>1, <3>2
  <2>2. CASE bridge' = rest
    BY <1>0, <1>4, <1>5, <2>2
  <2>3. CASE bridge' = [rest EXCEPT ![b].reader = "stopped"]
    <3> DEFINE u == [v EXCEPT !.reader = "stopped"]
    <3>1. bridge' = [bridge EXCEPT ![b] = u]
      <4> HIDE DEF rest, v, frame
      <4>1. bridge' = [rest EXCEPT ![b] = u]
        BY <2>3, <1>5
      <4> HIDE DEF u
      <4> QED
        BY <4>1, <1>5
    <3>2. u \in Bridges
      <4> HIDE DEF v
      <4> QED
        BY <1>4 DEF Bridges
    <3> HIDE DEF u
    <3> QED
      BY <1>0, <3>1, <3>2
  <2> QED
    BY <1>6, <2>1, <2>2, <2>3
<1>9. NoReaderStarts
  BY <1>0, <1>8, BridgeSet
<1> QED
  BY <1>7, <1>9

(* Steps of the manager and its loops: all but the loops is kept. *)
LEMMA LoopStepKeeps ==
  ASSUME ReconnectInv, NewsInOrder, NoReaderStarts, loop' \in Seq(Loops), queued' \in Nat,
         LoopSettled', LoopsTold'
  PROVE  ReconnectInv'
<1>1. /\ heard' \in Seq(News) /\ ReconnectedFirst' /\ ReadersTold'
  BY NewsKept, ReadersKept
<1>2. ReconnectTyped'
  BY <1>1 DEF ReconnectInv, ReconnectTyped, NoReaderStarts
<1> QED
  BY <1>1, <1>2, Zenon DEF ReconnectInv, ReadersTold, LoopsTold, LoopSettled

LEMMA EnterDisconnectKeeps ==
  ASSUME ReconnectInv, NEW calls, EnterDisconnect(calls), NoReaderStarts,
         heard' = heard, queued' \in Nat
  PROVE  ReconnectInv'
<1>0. NewsInOrder
  BY DEF NewsInOrder
<1>1. CASE mgr.st # "connected"
  <2>1. mgr' = mgr /\ loop' = loop
    BY <1>1 DEF EnterDisconnect
  <2> QED
    BY <1>0, <2>1, ClientStill
<1>2. CASE mgr.st = "connected" /\ ~Named
  <2>1. mgr' = Failed("lost") /\ loop' = loop
    BY <1>2 DEF EnterDisconnect
  <2>2. mgr # Reconnecting /\ mgr' # Reconnecting
    BY <1>2, <2>1 DEF Reconnecting, Failed
  <2>3. Unsettled' = Unsettled
    BY <2>1 DEF Unsettled
  <2>4. LoopSettled'
    BY <2>2, <2>3 DEF ReconnectInv, LoopSettled, Reconnecting
  <2>5. LoopsTold'
    BY <2>1 DEF ReconnectInv, LoopsTold, Announced
  <2>6. loop' \in Seq(Loops)
    BY <2>1 DEF ReconnectInv, ReconnectTyped
  <2> QED
    BY <1>0, <2>4, <2>5, <2>6, LoopStepKeeps
<1>3. CASE mgr.st = "connected" /\ Named
  <2> DEFINE new == [pc |-> "trying", attempt |-> 0, on |-> 0]
             n == Len(loop)
  <2>1. mgr' = Reconnecting /\ loop' = Append(loop, new)
    BY <1>3 DEF EnterDisconnect
  <2>2. mgr # Reconnecting
    BY <1>3 DEF Reconnecting
  <2>3. new \in Loops /\ new.pc = "trying"
    BY DEF Loops
  <2>4. loop \in Seq(Loops) /\ n \in Nat
    BY DEF ReconnectInv, ReconnectTyped
  <2> HIDE DEF new
  <2>5. /\ loop' \in Seq(Loops) /\ DOMAIN loop' = 1..(n + 1) /\ DOMAIN loop = 1..n
        /\ loop'[n + 1] = new /\ \A i \in 1..n : loop'[i] = loop[i]
    BY <2>1, <2>3, <2>4
  <2> HIDE DEF n
  <2>6. Unsettled = {}
    BY <2>2 DEF ReconnectInv
  <2>7. \A i \in 1..n : loop[i].pc \notin {"trying", "new", "resumed"}
    BY <2>5, <2>6 DEF Unsettled
  <2>8. Unsettled' = {n + 1}
    BY <2>3, <2>4, <2>5, <2>7 DEF Unsettled
  <2>9. LoopSettled'
    BY <2>1, <2>8 DEF LoopSettled, Reconnecting
  <2>10. LoopsTold'
    <3>1. ASSUME NEW i \in DOMAIN loop', loop'[i].pc \in {"announced", "reading"}
          PROVE  Announced(loop[i].on)'
      <4>1. i \in 1..n /\ loop'[i] = loop[i]
        BY <2>3, <2>4, <2>5, <3>1
      <4>2. Announced(loop[i].on)
        BY <2>5, <3>1, <4>1 DEF ReconnectInv
      <4> QED
        BY <4>1, <4>2 DEF Announced
    <3> QED
      BY <3>1 DEF LoopsTold
  <2> QED
    BY <1>0, <2>5, <2>9, <2>10, LoopStepKeeps
<1> QED
  BY <1>1, <1>2, <1>3

LEMMA LoopSet ==
  ASSUME ReconnectTyped, NEW i \in DOMAIN loop, NEW rec \in Loops, loop' = LoopAt(i, rec)
  PROVE  /\ loop' \in Seq(Loops) /\ DOMAIN loop' = DOMAIN loop /\ loop'[i] = rec
         /\ \A j \in DOMAIN loop : j # i => loop'[j] = loop[j]
<1>1. loop \in Seq(Loops) /\ i \in 1..Len(loop) /\ DOMAIN loop = 1..Len(loop)
  BY DEF ReconnectTyped
<1>2. loop' = [loop EXCEPT ![i] = rec]
  BY DEF LoopAt
<1>3. loop' \in Seq(Loops)
  BY <1>1, <1>2, ExceptSeq
<1> QED
  BY <1>2, <1>3

LEMMA LoopRemoved ==
  ASSUME ReconnectTyped, NEW i \in DOMAIN loop, loop' = LoopEnds(i)
  PROVE  /\ loop' \in Seq(Loops)
         /\ Len(loop) \in Nat /\ DOMAIN loop = 1..Len(loop) /\ DOMAIN loop' = 1..(Len(loop) - 1)
         /\ \A j \in DOMAIN loop' : loop'[j] = IF j < i THEN loop[j] ELSE loop[j + 1]
<1> DEFINE n == Len(loop)
           a == SubSeq(loop, 1, i - 1)
           b == SubSeq(loop, i + 1, n)
<1>1. loop \in Seq(Loops) /\ n \in Nat /\ DOMAIN loop = 1..n /\ i \in 1..n
  BY DEF ReconnectTyped
<1>2. /\ a \in Seq(Loops) /\ Len(a) = i - 1
      /\ \A j \in 1..(i - 1) : a[j] = loop[j]
  BY <1>1
<1>3. /\ b \in Seq(Loops) /\ Len(b) = n - i
      /\ \A j \in 1..(n - i) : b[j] = loop[i + j]
  BY <1>1
<1>4. loop' = a \o b
  BY DEF LoopEnds, RemoveAt
<1> HIDE DEF n, a, b
<1>c. /\ loop' \in Seq(Loops) /\ Len(loop') = Len(a) + Len(b)
      /\ \A j \in 1..(Len(a) + Len(b)) :
           loop'[j] = IF j <= Len(a) THEN a[j] ELSE b[j - Len(a)]
  BY <1>2, <1>3, <1>4, ConcatProperties
<1>5. loop' \in Seq(Loops) /\ Len(loop') = n - 1 /\ DOMAIN loop' = 1..(n - 1)
  <2>1. Len(loop') = n - 1
    BY <1>1, <1>2, <1>3, <1>c
  <2>2. DOMAIN loop' = 1..Len(loop')
    BY <1>c
  <2> QED
    BY <1>c, <2>1, <2>2
<1>6. \A j \in 1..(n - 1) : loop'[j] = IF j < i THEN loop[j] ELSE loop[j + 1]
  <2> SUFFICES ASSUME NEW j \in 1..(n - 1)
               PROVE  loop'[j] = IF j < i THEN loop[j] ELSE loop[j + 1]
    OBVIOUS
  <2>1. loop'[j] = IF j <= Len(a) THEN a[j] ELSE b[j - Len(a)]
    <3>1. j \in 1..(Len(a) + Len(b))
      BY <1>1, <1>2, <1>3
    <3> QED
      BY <1>c, <3>1
  <2>2. CASE j < i
    BY <1>1, <1>2, <2>1, <2>2
  <2>3. CASE ~(j < i)
    <3>1. j - (i - 1) \in 1..(n - i) /\ i + (j - (i - 1)) = j + 1 /\ ~(j <= i - 1)
      BY <1>1, <2>3
    <3>2. b[j - (i - 1)] = loop[j + 1]
      BY <1>3, <3>1
    <3> QED
      BY <1>2, <2>1, <2>3, <3>1, <3>2
  <2> QED
    BY <2>2, <2>3
<1> QED
  BY <1>1, <1>5, <1>6 DEF n

(* The one unsettled loop settles: no other was left. *)
LEMMA UnsettledIs ==
  ASSUME ReconnectInv, NEW i \in Unsettled
  PROVE  mgr = Reconnecting /\ Unsettled = {i}
BY DEF ReconnectInv

LEMMA ToldWhenRemoved ==
  ASSUME ReconnectInv, NEW i \in DOMAIN loop, loop' = LoopEnds(i), NewsInOrder
  PROVE  LoopsTold'
<1> SUFFICES ASSUME NEW j \in DOMAIN loop', loop'[j].pc \in {"announced", "reading"}
             PROVE  Announced(loop[j].on)'
  BY DEF LoopsTold
<1>1. PICK k \in DOMAIN loop : loop'[j] = loop[k]
  <2>1. /\ Len(loop) \in Nat /\ DOMAIN loop = 1..Len(loop) /\ DOMAIN loop' = 1..(Len(loop) - 1)
        /\ loop'[j] = IF j < i THEN loop[j] ELSE loop[j + 1]
    BY LoopRemoved DEF ReconnectInv
  <2> QED
    BY <2>1
<1>2. Announced(loop[k].on)
  BY <1>1 DEF ReconnectInv
<1>3. Announced(loop[k].on) => \E x \in DOMAIN heard' : heard'[x] = Resumed(loop[k].on)
  <2>1. \A b : Announced(b) => Announced(b)'
    BY NewsKept
  <2>2. \A b : Announced(b) => \E x \in DOMAIN heard' : heard'[x] = Resumed(b)
    BY <2>1 DEF Announced, Resumed
  <2> QED
    BY <2>2
<1> QED
  BY <1>1, <1>2, <1>3 DEF Announced, Resumed

LEMMA ToldWhenSet ==
  ASSUME ReconnectInv, NEW i \in DOMAIN loop, NEW rec \in Loops, loop' = LoopAt(i, rec),
         NewsInOrder,
         rec.pc \in {"announced", "reading"} =>
           \E x \in DOMAIN heard' : heard'[x] = Resumed(rec.on)
  PROVE  LoopsTold'
<1> SUFFICES ASSUME NEW j \in DOMAIN loop', loop'[j].pc \in {"announced", "reading"}
             PROVE  \E x \in DOMAIN heard' : heard'[x] = Resumed(loop'[j].on)
  BY DEF LoopsTold, Announced, Resumed
<1>1. /\ DOMAIN loop' = DOMAIN loop /\ loop'[i] = rec
      /\ \A k \in DOMAIN loop : k # i => loop'[k] = loop[k]
  BY LoopSet DEF ReconnectInv
<1>2. \A b : Announced(b) => \E x \in DOMAIN heard' : heard'[x] = Resumed(b)
  <2>1. \A b : Announced(b) => Announced(b)'
    BY NewsKept
  <2> QED
    BY <2>1 DEF Announced, Resumed
<1>3. CASE j = i
  BY <1>1, <1>3
<1>4. CASE j # i
  BY <1>1, <1>2, <1>4 DEF ReconnectInv
<1> QED
  BY <1>3, <1>4

LEMMA SettledWhenSet ==
  ASSUME ReconnectInv, NEW i \in DOMAIN loop, NEW rec \in Loops, loop' = LoopAt(i, rec),
         mgr' = mgr,
         rec.pc \in {"trying", "new", "resumed"} <=> loop[i].pc \in {"trying", "new", "resumed"}
  PROVE  LoopSettled'
<1>1. /\ DOMAIN loop' = DOMAIN loop /\ loop'[i] = rec
      /\ \A k \in DOMAIN loop : k # i => loop'[k] = loop[k]
  BY LoopSet DEF ReconnectInv
<1>2. Unsettled' = Unsettled
  BY <1>1 DEF Unsettled
<1> QED
  BY <1>2 DEF ReconnectInv, LoopSettled, Reconnecting

(* The unsettled loop ends, or installs its bridge: no other is left. *)
LEMMA SettledWhenDone ==
  ASSUME ReconnectInv, NEW i \in Unsettled, mgr'.st # "reconnecting",
         \/ loop' = LoopEnds(i)
         \/ \E rec \in Loops : /\ rec.pc \notin {"trying", "new", "resumed"}
                               /\ loop' = LoopAt(i, rec)
  PROVE  LoopSettled'
<1>0. i \in DOMAIN loop /\ ReconnectTyped
  BY DEF Unsettled, ReconnectInv
<1>1. \A k \in DOMAIN loop : k # i => loop[k].pc \notin {"trying", "new", "resumed"}
  BY UnsettledIs DEF Unsettled
<1>2. CASE loop' = LoopEnds(i)
  <2>1. /\ Len(loop) \in Nat /\ DOMAIN loop = 1..Len(loop)
        /\ DOMAIN loop' = 1..(Len(loop) - 1)
        /\ \A j \in DOMAIN loop' : loop'[j] = IF j < i THEN loop[j] ELSE loop[j + 1]
    BY <1>0, <1>2, LoopRemoved
  <2>2. \A j \in DOMAIN loop' : loop'[j].pc \notin {"trying", "new", "resumed"}
    <3> SUFFICES ASSUME NEW j \in DOMAIN loop'
                 PROVE  loop'[j].pc \notin {"trying", "new", "resumed"}
      OBVIOUS
    <3>1. CASE j < i
      BY <1>0, <1>1, <2>1, <3>1
    <3>2. CASE ~(j < i)
      <4>1. j + 1 \in DOMAIN loop /\ j + 1 # i
        BY <1>0, <2>1, <3>2
      <4> QED
        BY <1>1, <2>1, <3>2, <4>1
    <3> QED
      BY <3>1, <3>2
  <2> QED
    BY <2>2 DEF LoopSettled, Unsettled, Reconnecting
<1>3. ASSUME NEW rec \in Loops, rec.pc \notin {"trying", "new", "resumed"},
             loop' = LoopAt(i, rec)
      PROVE  LoopSettled'
  <2>1. /\ DOMAIN loop' = DOMAIN loop /\ loop'[i] = rec
        /\ \A k \in DOMAIN loop : k # i => loop'[k] = loop[k]
    BY <1>0, <1>3, LoopSet
  <2> QED
    BY <1>1, <1>3, <2>1 DEF LoopSettled, Unsettled, Reconnecting
<1> QED
  BY <1>2, <1>3

(* A settled loop ends: the unsettled one, if any, moves up a place. *)
LEMMA SettledWhenRemoved ==
  ASSUME ReconnectInv, NEW i \in DOMAIN loop, i \notin Unsettled, loop' = LoopEnds(i),
         mgr' = mgr
  PROVE  LoopSettled'
<1>1. /\ Len(loop) \in Nat /\ DOMAIN loop = 1..Len(loop)
      /\ DOMAIN loop' = 1..(Len(loop) - 1)
      /\ \A j \in DOMAIN loop' : loop'[j] = IF j < i THEN loop[j] ELSE loop[j + 1]
  BY LoopRemoved DEF ReconnectInv
<1> DEFINE old(j) == IF j < i THEN j ELSE j + 1
<1>2. \A j \in DOMAIN loop' : old(j) \in DOMAIN loop /\ loop'[j] = loop[old(j)]
  BY <1>1
<1>3. \A j \in DOMAIN loop' : j \in Unsettled' <=> old(j) \in Unsettled
  BY <1>2 DEF Unsettled
<1>4. Unsettled' \subseteq DOMAIN loop' /\ Unsettled \subseteq DOMAIN loop
  BY DEF Unsettled
<1>5. CASE Unsettled = {}
  <2>1. Unsettled' = {}
    BY <1>3, <1>4, <1>5
  <2> QED
    BY <1>5, <2>1 DEF ReconnectInv, LoopSettled, Reconnecting
<1>6. ASSUME NEW k, Unsettled = {k} PROVE LoopSettled'
  <2> DEFINE new == IF k < i THEN k ELSE k - 1
  <2>1. k \in DOMAIN loop /\ k # i
    BY <1>4, <1>6
  <2>2. new \in DOMAIN loop' /\ old(new) = k
    BY <1>1, <2>1
  <2>3. \A j \in DOMAIN loop' : old(j) = k => j = new
    BY <1>1, <2>1
  <2> HIDE DEF old, new
  <2>4. Unsettled' = {new}
    BY <1>3, <1>4, <1>6, <2>2, <2>3
  <2>5. mgr = Reconnecting
    BY <1>6 DEF ReconnectInv
  <2> QED
    BY <2>4, <2>5 DEF LoopSettled, Reconnecting
<1> QED
  BY <1>5, <1>6 DEF ReconnectInv

LEMMA NewBridgeIs ==
  ASSUME ReconnectTyped, NEW v \in Bridges, v.reader = "unstarted",
         bridge' = Append(bridge, v)
  PROVE  NoReaderStarts
<1>1. bridge \in Seq(Bridges)
  BY DEF ReconnectTyped
<1> DEFINE n == Len(bridge)
<1>2. /\ bridge' \in Seq(Bridges) /\ n \in Nat
      /\ DOMAIN bridge' = 1..(n + 1) /\ DOMAIN bridge = 1..n
      /\ bridge'[n + 1] = v /\ \A b \in 1..n : bridge'[b] = bridge[b]
  BY <1>1
<1> HIDE DEF n
<1>3. \A b \in 1..(n + 1) : b \in 1..n \/ b = n + 1
  BY <1>2
<1> QED
  BY <1>2, <1>3 DEF NoReaderStarts

LEMMA NewBridgeTyped ==
  ASSUME NEW inbox \in Seq(Frames)
  PROVE  /\ NewBridge(inbox) \in Bridges /\ NewBridge(inbox).reader = "unstarted"
         /\ [NewBridge(inbox) EXCEPT !.link = "cut"] \in Bridges
         /\ [NewBridge(inbox) EXCEPT !.link = "cut"].reader = "unstarted"
BY DEF NewBridge, Bridges

LEMMA HandshakeOkInv == ASSUME ReconnectInv, NEW i \in DOMAIN loop, HandshakeOk(i)
                        PROVE  ReconnectInv'
<1> DEFINE rec == [loop[i] EXCEPT !.pc = IF known THEN "resumed" ELSE "new", !.on = Fresh]
           inbox == [k \in 1 .. queued |-> [kind |-> "fired"]]
<1>0. ReconnectTyped /\ loop[i] \in Loops /\ loop[i].pc = "trying" /\ Len(bridge) \in Nat
  BY DEF ReconnectInv, ReconnectTyped, HandshakeOk, Trying
<1>1. rec \in Loops /\ rec.pc \in {"resumed", "new"}
  <2> DEFINE st == IF known THEN "resumed" ELSE "new"
  <2>1. st \in {"resumed", "new"}
    OBVIOUS
  <2>2. Fresh \in Nat
    BY <1>0 DEF Fresh
  <2>3. rec = [loop[i] EXCEPT !.pc = st, !.on = Fresh]
    OBVIOUS
  <2> HIDE DEF st, rec
  <2> QED
    BY <1>0, <2>1, <2>2, <2>3 DEF Loops
<1>2. inbox \in Seq(Frames)
  <2>1. queued \in Nat
    BY <1>0 DEF ReconnectTyped
  <2>2. inbox \in [1..queued -> Frames]
    BY DEF Frames
  <2> QED
    BY <2>1, <2>2, SeqDef
<1>3. /\ bridge' = Append(bridge, NewBridge(inbox)) /\ loop' = LoopAt(i, rec)
      /\ mgr' = mgr /\ heard' = heard /\ queued' = 0
  BY DEF HandshakeOk
<1> HIDE DEF rec, inbox
<1>4. NoReaderStarts
  BY <1>0, <1>2, <1>3, NewBridgeTyped, NewBridgeIs
<1>5. NewsInOrder
  BY <1>3 DEF NewsInOrder
<1>6. LoopSettled'
  BY <1>0, <1>1, <1>3, SettledWhenSet
<1>7. LoopsTold'
  BY <1>1, <1>3, <1>5, ToldWhenSet
<1>8. loop' \in Seq(Loops)
  BY <1>0, <1>1, <1>3, LoopSet
<1> QED
  BY <1>3, <1>4, <1>5, <1>6, <1>7, <1>8, LoopStepKeeps

LEMMA HandshakeFailsInv == ASSUME ReconnectInv, NEW i \in DOMAIN loop, HandshakeFails(i)
                           PROVE  ReconnectInv'
<1> DEFINE rec == [loop[i] EXCEPT !.attempt = @ + 1]
<1>0. ReconnectTyped /\ loop[i] \in Loops /\ loop[i].pc = "trying"
  BY DEF ReconnectInv, ReconnectTyped, HandshakeFails, Trying
<1>1. rec \in Loops /\ rec.pc = "trying"
  BY <1>0 DEF Loops
<1>2. /\ loop' = LoopAt(i, rec) /\ mgr' = mgr /\ heard' = heard /\ queued' = queued
      /\ \/ bridge' = bridge
         \/ bridge' = Append(bridge, [NewBridge(<<>>) EXCEPT !.link = "cut"])
  BY DEF HandshakeFails, daemon
<1> HIDE DEF rec
<1>3. NoReaderStarts
  <2>1. CASE bridge' = bridge
    BY <1>0, <2>1, Unchanged
  <2>2. CASE bridge' = Append(bridge, [NewBridge(<<>>) EXCEPT !.link = "cut"])
    <3>1. <<>> \in Seq(Frames)
      OBVIOUS
    <3> QED
      BY <1>0, <2>2, <3>1, NewBridgeTyped, NewBridgeIs
  <2> QED
    BY <1>2, <2>1, <2>2
<1>4. NewsInOrder
  BY <1>2 DEF NewsInOrder
<1>5. LoopSettled'
  BY <1>0, <1>1, <1>2, SettledWhenSet
<1>6. LoopsTold'
  BY <1>1, <1>2, <1>4, ToldWhenSet
<1>7. loop' \in Seq(Loops)
  BY <1>0, <1>1, <1>2, LoopSet
<1>8. queued' \in Nat
  BY <1>0, <1>2 DEF ReconnectTyped
<1> QED
  BY <1>3, <1>4, <1>5, <1>6, <1>7, <1>8, LoopStepKeeps

LEMMA LoopStopsInv ==
  ASSUME ReconnectInv, NEW i \in DOMAIN loop, GiveUp(i) \/ SessionGone(i)
  PROVE  ReconnectInv'
<1>0. ReconnectTyped /\ i \in Unsettled
  BY DEF ReconnectInv, GiveUp, SessionGone, Trying, Unsettled
<1>1. /\ loop' = LoopEnds(i) /\ heard' = heard /\ queued' = queued
      /\ mgr' \in {Failed("disconnected"), Failed("lost")}
  BY DEF GiveUp, SessionGone, daemon
<1>2. mgr'.st # "reconnecting"
  BY <1>1 DEF Failed
<1>3. NoReaderStarts
  <2>1. CASE GiveUp(i)
    BY <1>0, <2>1, Unchanged DEF GiveUp
  <2>2. CASE SessionGone(i)
    BY <1>0, <2>2, OneBridge, Zenon
  <2> QED
    BY <2>1, <2>2
<1>4. NewsInOrder
  BY <1>1 DEF NewsInOrder
<1>5. LoopSettled'
  BY <1>0, <1>1, <1>2, SettledWhenDone
<1>6. LoopsTold'
  BY <1>1, <1>4, ToldWhenRemoved
<1>7. loop' \in Seq(Loops)
  BY <1>0, <1>1, LoopRemoved
<1>8. queued' \in Nat
  BY <1>0, <1>1 DEF ReconnectTyped
<1> QED
  BY <1>3, <1>4, <1>5, <1>6, <1>7, <1>8, LoopStepKeeps

LEMMA InstallInv == ASSUME ReconnectInv, NEW i \in DOMAIN loop, Install(i)
                    PROVE  ReconnectInv'
<1> DEFINE rec == [loop[i] EXCEPT !.pc = "installed"]
<1>0. ReconnectTyped /\ i \in Unsettled /\ loop[i] \in Loops
  BY DEF ReconnectInv, ReconnectTyped, Install, Unsettled
<1>1. rec \in Loops /\ rec.pc = "installed"
  BY <1>0 DEF Loops
<1>2. /\ loop' = LoopAt(i, rec) /\ heard' = heard /\ queued' = queued /\ bridge' = bridge
      /\ mgr' = Connected(loop[i].on)
  BY DEF Install, daemon
<1> HIDE DEF rec
<1>3. mgr'.st # "reconnecting"
  BY <1>2 DEF Connected
<1>4. NewsInOrder /\ NoReaderStarts
  BY <1>0, <1>2, Unchanged DEF NewsInOrder
<1>5. LoopSettled'
  BY <1>0, <1>1, <1>2, <1>3, SettledWhenDone
<1>6. LoopsTold'
  BY <1>1, <1>2, <1>4, ToldWhenSet
<1>7. loop' \in Seq(Loops) /\ queued' \in Nat
  BY <1>0, <1>1, <1>2, LoopSet DEF ReconnectTyped
<1> QED
  BY <1>4, <1>5, <1>6, <1>7, LoopStepKeeps

LEMMA AnnounceInv == ASSUME ReconnectInv, NEW i \in DOMAIN loop, Announce(i)
                     PROVE  ReconnectInv'
<1> DEFINE rec == [loop[i] EXCEPT !.pc = "announced"]
           x == [kind |-> "reconnected", on |-> loop[i].on]
<1>0. ReconnectTyped /\ loop[i] \in Loops /\ loop[i].pc = "installed"
  BY DEF ReconnectInv, ReconnectTyped, Announce
<1>1. /\ rec \in Loops /\ rec.pc = "announced" /\ rec.on = loop[i].on
      /\ x \in News /\ x.kind = "reconnected" /\ x = Resumed(rec.on)
  BY <1>0 DEF Loops, News, Resumed
<1>2. /\ loop' = LoopAt(i, rec) /\ heard' = Append(heard, x) /\ queued' = queued
      /\ bridge' = bridge /\ mgr' = mgr
  BY DEF Announce, daemon
<1> HIDE DEF rec, x
<1>3. NewsInOrder /\ NoReaderStarts
  BY <1>0, <1>1, <1>2, Unchanged DEF NewsInOrder
<1>4. LoopSettled'
  BY <1>0, <1>1, <1>2, SettledWhenSet
<1>5. \E k \in DOMAIN heard' : heard'[k] = Resumed(rec.on)
  <2>1. heard \in Seq(News)
    BY <1>0 DEF ReconnectTyped
  <2>2. Len(heard) + 1 \in DOMAIN heard' /\ heard'[Len(heard) + 1] = x
    BY <1>1, <1>2, <2>1
  <2> QED
    BY <1>1, <2>2
<1>6. LoopsTold'
  BY <1>1, <1>2, <1>3, <1>5, ToldWhenSet
<1>7. loop' \in Seq(Loops) /\ queued' \in Nat
  BY <1>0, <1>1, <1>2, LoopSet DEF ReconnectTyped
<1> QED
  BY <1>3, <1>4, <1>6, <1>7, LoopStepKeeps

(* The one step that starts a reader: its bridge was announced. *)
LEMMA StartReaderInv == ASSUME ReconnectInv, NEW i \in DOMAIN loop, StartReader(i)
                        PROVE  ReconnectInv'
<1> DEFINE rec == [loop[i] EXCEPT !.pc = "reading"]
           b == loop[i].on
           v == [bridge[b] EXCEPT !.reader = "running"]
<1>0. ReconnectTyped /\ loop[i] \in Loops /\ loop[i].pc = "announced"
  BY DEF ReconnectInv, ReconnectTyped, StartReader
<1>1. rec \in Loops /\ rec.pc = "reading" /\ rec.on = b
  BY <1>0 DEF Loops
<1>2. /\ loop' = LoopAt(i, rec) /\ heard' = heard /\ queued' = queued
      /\ bridge' = [bridge EXCEPT ![b] = v] /\ mgr' = mgr
  BY DEF StartReader, daemon
<1>3. b \in DOMAIN bridge => v \in Bridges
  <2>1. b \in DOMAIN bridge => bridge[b] \in Bridges
    BY <1>0 DEF ReconnectTyped
  <2> HIDE DEF b
  <2> QED
    BY <2>1 DEF Bridges
<1> HIDE DEF rec, v, b
<1>4. NewsInOrder
  BY <1>2 DEF NewsInOrder
<1>5. LoopSettled'
  BY <1>0, <1>1, <1>2, SettledWhenSet
<1>6. Announced(b)
  BY <1>0 DEF ReconnectInv, b
<1>7. LoopsTold'
  <2>1. \E k \in DOMAIN heard' : heard'[k] = Resumed(rec.on)
    BY <1>1, <1>2, <1>6 DEF Announced
  <2> QED
    BY <1>1, <1>2, <1>4, <2>1, ToldWhenSet
<1>8. bridge \in Seq(Bridges) /\ DOMAIN bridge = 1..Len(bridge) /\ Len(bridge) \in Nat
  BY <1>0 DEF ReconnectTyped
<1>9. /\ DOMAIN bridge' = DOMAIN bridge
      /\ \A k \in DOMAIN bridge : k # b => bridge'[k] = bridge[k]
  BY <1>2
<1>10. bridge' \in Seq(Bridges)
  <2>1. \A k \in 1..Len(bridge) : bridge'[k] \in Bridges
    BY <1>2, <1>3, <1>8
  <2>2. bridge' = [k \in 1..Len(bridge) |-> IF k = b THEN v ELSE bridge[k]]
    BY <1>2, <1>8
  <2>3. bridge' \in [1..Len(bridge) -> Bridges]
    BY <2>1, <2>2
  <2> QED
    BY <1>8, <2>3, SeqDef
<1>11. ReadersTold'
  <2> SUFFICES ASSUME NEW k \in DOMAIN bridge', k > 1, bridge'[k].reader # "unstarted"
               PROVE  Announced(k)
    BY <1>2 DEF ReadersTold, Announced
  <2>1. CASE k = b
    BY <1>6, <2>1
  <2>2. CASE k # b
    BY <1>9, <2>2 DEF ReconnectInv
  <2> QED
    BY <2>1, <2>2
<1>12. heard' \in Seq(News) /\ ReconnectedFirst'
  BY <1>4, NewsKept
<1>13. loop' \in Seq(Loops) /\ queued' \in Nat
  BY <1>0, <1>1, <1>2, LoopSet DEF ReconnectTyped
<1>14. ReconnectTyped'
  BY <1>10, <1>12, <1>13 DEF ReconnectTyped
<1> QED
  BY <1>5, <1>7, <1>11, <1>12, <1>14, Zenon
     DEF ReconnectInv, ReadersTold, LoopsTold, LoopSettled

LEMMA SpawnWatcherInv == ASSUME ReconnectInv, NEW i \in DOMAIN loop, SpawnWatcher(i)
                         PROVE  ReconnectInv'
<1>0. ReconnectTyped /\ i \notin Unsettled
  BY DEF ReconnectInv, SpawnWatcher, Unsettled
<1>1. loop' = LoopEnds(i) /\ heard' = heard /\ queued' = queued /\ mgr' = mgr
  BY DEF SpawnWatcher, daemon
<1>2. NoReaderStarts
  BY <1>0, OneBridge, Zenon
<1>3. NewsInOrder
  BY <1>1 DEF NewsInOrder
<1>4. LoopSettled'
  BY <1>0, <1>1, SettledWhenRemoved
<1>5. LoopsTold'
  BY <1>1, <1>3, ToldWhenRemoved
<1>6. loop' \in Seq(Loops) /\ queued' \in Nat
  BY <1>0, <1>1, LoopRemoved DEF ReconnectTyped
<1> QED
  BY <1>2, <1>3, <1>4, <1>5, <1>6, LoopStepKeeps

LEMMA ReconnectInitInv == RInit => ReconnectInv
<1> SUFFICES ASSUME RInit PROVE ReconnectInv
  OBVIOUS
<1> DEFINE v == [NewBridge(<<>>) EXCEPT !.reader = "running", !.watch = "spawned"]
<1>1. <<>> \in Seq(Frames) /\ <<>> \in Seq(Loops) /\ <<>> \in Seq(News)
  OBVIOUS
<1>2. v \in Bridges
  BY <1>1 DEF NewBridge, Bridges
<1>3. bridge = <<v>> /\ loop = <<>> /\ heard = <<>> /\ queued = 0 /\ mgr = Connected(1)
  BY DEF RInit
<1> HIDE DEF v
<1>4. ReconnectTyped
  BY <1>1, <1>2, <1>3 DEF ReconnectTyped
<1>5. mgr # Reconnecting
  BY <1>3 DEF Connected, Reconnecting
<1>6. DOMAIN bridge = {1} /\ DOMAIN loop = {} /\ DOMAIN heard = {}
  BY <1>3
<1> QED
  BY <1>4, <1>5, <1>6 DEF ReconnectInv, Unsettled, ReconnectedFirst

LEMMA ReconnectNextInv == ReconnectInv /\ [RNext]_rvars => ReconnectInv'
<1> SUFFICES ASSUME ReconnectInv, [RNext]_rvars PROVE ReconnectInv'
  OBVIOUS
<1>0. ReconnectTyped /\ queued \in Nat
  BY DEF ReconnectInv, ReconnectTyped
<1>a. heard' = heard => NewsInOrder
  BY DEF NewsInOrder
<1>1. ASSUME bridge' = bridge, heard' = heard, mgr' = mgr, loop' = loop, queued' = queued
      PROVE  ReconnectInv'
  BY <1>0, <1>a, <1>1, Unchanged, ClientStill
<1>2. CASE UNCHANGED rvars
  BY <1>1, <1>2 DEF rvars, daemon
<1>3. ASSUME NEW c \in Callers, Begin(c) \/ Ask(c) \/ Deadline(c) \/ Dropped(c)
      PROVE  ReconnectInv'
  BY <1>1, <1>3 DEF Begin, Ask, Deadline, Dropped, daemon
<1>4. ASSUME NEW c \in Callers, Register(c) \/ Write(c) PROVE ReconnectInv'
  <2>1. heard' = heard /\ mgr' = mgr /\ loop' = loop /\ queued' = queued
    BY <1>4 DEF Register, Write, daemon
  <2>2. NoReaderStarts
    BY <1>0, <1>4, OneBridge, Zenon
  <2> QED
    BY <1>0, <1>a, <2>1, <2>2, ClientStill
<1>5. ASSUME NEW c \in Callers, Broken(c) PROVE ReconnectInv'
  <2>1. bridge' = bridge /\ heard' = heard /\ queued' = queued
        /\ EnterDisconnect([Woken EXCEPT ![c] = Ended])
    BY <1>5 DEF Broken, daemon
  <2>2. NoReaderStarts
    BY <1>0, <2>1, Unchanged
  <2> QED
    BY <1>0, <2>1, <2>2, EnterDisconnectKeeps
<1>6. ASSUME NEW b \in DOMAIN bridge, Read(b) PROVE ReconnectInv'
  <2>1. mgr' = mgr /\ loop' = loop /\ queued' = queued
    BY <1>6 DEF Read, daemon
  <2> QED
    BY <1>0, <1>6, <2>1, ReadStep, ClientStill
<1>7. ASSUME NEW b \in DOMAIN bridge,
             ReadEof(b) \/ ReaderCloses(b) \/ ReaderNotifies(b) \/ WatcherStarts(b)
               \/ Close(b) \/ Drop(b)
      PROVE  ReconnectInv'
  <2>1. heard' = heard /\ mgr' = mgr /\ loop' = loop /\ queued' = queued
    BY <1>7 DEF ReadEof, ReaderCloses, ReaderNotifies, WatcherStarts, Close, Drop, daemon
  <2>2. NoReaderStarts
    BY <1>0, <1>7, OneBridge, Zenon
  <2> QED
    BY <1>0, <1>a, <2>1, <2>2, ClientStill
<1>8. ASSUME NEW b \in DOMAIN bridge, WatcherWakes(b) PROVE ReconnectInv'
  <2>1. heard' = heard /\ queued' = queued /\ EnterDisconnect(Woken)
    BY <1>8 DEF WatcherWakes, daemon
  <2>2. NoReaderStarts
    BY <1>0, <1>8, OneBridge, Zenon
  <2> QED
    BY <1>0, <2>1, <2>2, EnterDisconnectKeeps
<1>9. ASSUME NEW b \in DOMAIN bridge, NEW c \in Callers, Reply(c, b) PROVE ReconnectInv'
  <2>1. heard' = heard /\ mgr' = mgr /\ loop' = loop /\ queued' = queued
    BY <1>9 DEF Reply, daemon
  <2>2. NoReaderStarts
    BY <1>0, <1>9, OneBridge, Zenon
  <2> QED
    BY <1>0, <1>a, <2>1, <2>2, ClientStill
<1>10. ASSUME NEW i \in DOMAIN loop, LoopStep(i) PROVE ReconnectInv'
  BY <1>10, HandshakeOkInv, HandshakeFailsInv, LoopStopsInv, InstallInv, AnnounceInv,
     StartReaderInv, SpawnWatcherInv, Zenon DEF LoopStep
<1>11. CASE Fire
  <2>1. heard' = heard /\ mgr' = mgr /\ loop' = loop
    BY <1>11 DEF Fire
  <2>2. queued' \in Nat
    <3>1. queued' = queued + 1 \/ queued' = queued
      BY <1>11 DEF Fire
    <3> QED
      BY <1>0, <3>1
  <2>3. NoReaderStarts
    BY <1>0, <1>11, OneBridge, Zenon
  <2> QED
    BY <1>a, <2>1, <2>2, <2>3, ClientStill
<1>12. CASE Release
  BY <1>1, <1>12 DEF Release
<1>13. CASE Restart
  <2>1. heard' = heard /\ mgr' = mgr /\ loop' = loop /\ queued' = 0
    BY <1>13 DEF Restart
  <2>2. NoReaderStarts
    BY <1>0, <1>13, RestartBridges
  <2> QED
    BY <1>a, <2>1, <2>2, ClientStill
<1> QED
  BY <1>2, <1>3, <1>4, <1>5, <1>6, <1>7, <1>8, <1>9, <1>10, <1>11, <1>12, <1>13, Zenon
     DEF RNext, CallStep, ReaderStep, WatcherStep

(* Whatever number of connections are lost, calls broken and watchers      *)
(* woken, in any order: exactly one loop is trying while the manager       *)
(* reconnects and none otherwise, and subscribers hear of a new connection *)
(* before anything it brings.                                              *)
THEOREM ReconnectionsAreInOrder == RSpec => []ReconnectsInOrder
<1>1. ReconnectInv => ReconnectsInOrder
  <2> SUFFICES ASSUME ReconnectInv PROVE OneLoopTries
    BY DEF ReconnectInv, ReconnectsInOrder
  <2>1. \A i : IsFiniteSet({i}) /\ Cardinality({i}) = 1
    BY FS_Singleton
  <2>2. Cardinality({}) = 0
    BY FS_EmptySet
  <2>3. Cardinality(Unsettled) = IF mgr = Reconnecting THEN 1 ELSE 0
    BY <2>1, <2>2 DEF ReconnectInv
  <2> QED
    BY <2>3 DEF OneLoopTries, Unsettled
<1> QED
  BY <1>1, ReconnectInitInv, ReconnectNextInv, PTL DEF RSpec
=============================================================================
