------------------------------- MODULE Domains -------------------------------
(***************************************************************************)
(* The domain registry (daemon/domain.rs), the requests that change it     *)
(* (domains.create, delete and use, cases.load, in daemon/rpc_handler.rs)  *)
(* and the ports a domain's receivers hold (daemon/domain_lifecycle.rs).   *)
(*                                                                         *)
(* A domain is reached by NAME but lives by reference: a request clones    *)
(* the domain out of the registry and runs without its lock, so a domain   *)
(* that was deleted, or deleted and created again under the same name,     *)
(* goes on listening until the last request over it ends.  Domains of one  *)
(* name are told apart here by the number of their making.                 *)
(*                                                                         *)
(* A creation is three steps, with awaits between them, under create_lock; *)
(* a deletion is two, under no lock.  A request refused before its first   *)
(* step (an invalid name, persist=true, two equal ports) changes nothing   *)
(* and is not an action.                                                   *)
(***************************************************************************)
EXTENDS Integers, FiniteSets

CONSTANTS
  Clients,         \* requests that may overlap
  DomainNames,     \* names requests give
  DefaultDomain,
  ConfigDomains,   \* names config.json declares, beside DefaultDomain
  PortSpecs,       \* the port requests of creations: arm -> AnyPort, 0 or a port
  Ports,           \* ports a creation may be given
  MaxDomains,      \* max_domains
  MaxMade          \* bound: domains made

AnyPort == -1    \* an omitted port
Arms == {"gelf", "otlp_grpc", "otlp_http"}
None == [pc |-> "idle"]

ASSUME CapAssumption == MaxDomains \in Nat
ASSUME HolderAssumption == "free" \notin Clients

VARIABLES
  registry,  \* name -> the domain registered under it
  req,       \* per client: where its request is, and what it holds
  lock,      \* create_lock: its holder, or "free"
  bound,     \* the domain name each client's session is bound to
  made,      \* domains made so far
  told,      \* history: domains handed to the callers of domains.create
  removed    \* history: domains a deletion took out of the registry

domVars == <<registry, req, lock, bound, made, told, removed>>

Registered == {registry[n] : n \in DOMAIN registry}
Bind(f, x, v) == [y \in DOMAIN f \cup {x} |-> IF y = x THEN v ELSE f[y]]
Unbind(f, x) == [y \in DOMAIN f \ {x} |-> f[y]]

(* A registered domain's Arc, and the clones requests hold. *)
Alive == Registered \cup {req[c].dom : c \in {d \in Clients : "dom" \in DOMAIN req[d]}}
(* A port is held until the last clone of its domain is dropped. *)
HeldPorts == {d.ports[a] : d \in Alive, a \in Arms} \ {0}
-----------------------------------------------------------------------------
(* Ports. *)

(* spawn_ephemeral_domain, start_gelf and OtlpReceiver::start.  0 turns    *)
(* GELF off; the two OTLP arms go off together or not at all, and 0 for    *)
(* one of them has the kernel pick its port.                               *)
OtlpOff(spec) == spec["otlp_grpc"] = 0 /\ spec["otlp_http"] = 0

Arm(spec, a) ==
  CASE a = "gelf"                    -> IF spec[a] = AnyPort THEN Ports ELSE {spec[a]}
    [] a # "gelf" /\ OtlpOff(spec)   -> {0}
    [] a # "gelf" /\ ~OtlpOff(spec)  -> IF spec[a] \in {0, AnyPort} THEN Ports ELSE {spec[a]}

(* The port assignments a request can end with: each port free, no two    *)
(* arms on one.  Empty when a listener cannot bind.                        *)
Bindings(spec) ==
  {b \in [Arms -> Ports \cup {0}] :
     /\ \A a \in Arms : b[a] \in Arm(spec, a) /\ b[a] \notin HeldPorts
     /\ \A a1, a2 \in Arms : a1 # a2 /\ b[a1] # 0 => b[a1] # b[a2]}

(* port_matches *)
PortMatches(existing, requested) == requested \in {AnyPort, existing}

(* ensure_idempotent: an existing live domain with the ports asked for. *)
Ensures(d, spec) ==
  /\ d.source # "postmortem"
  /\ \A a \in Arms : PortMatches(d.ports[a], spec[a])

(* max_domains counts every domain config.json did not declare. *)
ApiCreated == {d \in Registered : d.source # "config"}
CapReached == Cardinality(ApiCreated) >= MaxDomains

Domain(n, source, ports) == [id |-> made + 1, name |-> n, source |-> source, ports |-> ports]
-----------------------------------------------------------------------------
NoPorts == [a \in Arms |-> 0]

(* run_initialized: the default domain, and each declared one that starts. *)
DomInit ==
  /\ registry = [n \in {DefaultDomain} \cup ConfigDomains |->
       [id |-> 0, name |-> n, source |-> "config", ports |-> NoPorts]]
  /\ req = [c \in Clients |-> None]
  /\ lock = "free"
  /\ bound = [c \in Clients |-> DefaultDomain]
  /\ made = 0
  /\ told = {}
  /\ removed = {}

(* The caller is answered: what it held is dropped. *)
Answer(c) == req' = [req EXCEPT ![c] = None]

(* Mutant of LockFree: creations do not wait for each other. *)
LockFreeAlways == TRUE
LockFree == lock = "free"

(* handle_domains_create up to the bind: the lock, the existing domain, *)
(* the cap.                                                             *)
CreateCheck(c, n, spec) ==
  /\ req[c] = None
  /\ LockFree
  /\ IF n \in DOMAIN registry
       THEN /\ told' = IF Ensures(registry[n], spec) THEN told \cup {registry[n]}
                       ELSE told
            /\ UNCHANGED <<req, lock>>
       ELSE /\ ~CapReached
            /\ req' = [req EXCEPT ![c] = [pc |-> "bind", name |-> n, spec |-> spec]]
            /\ lock' = c
            /\ UNCHANGED told
  /\ UNCHANGED <<registry, bound, made, removed>>

(* spawn_ephemeral_domain: every listener binds, or none is kept. *)
CreateBind(c) ==
  /\ req[c].pc = "bind"
  /\ made < MaxMade
  /\ IF Bindings(req[c].spec) = {}
       THEN /\ Answer(c)
            /\ lock' = "free"
            /\ UNCHANGED made
       ELSE /\ \E b \in Bindings(req[c].spec) :
                 req' = [req EXCEPT ![c] =
                   [pc |-> "insert", dom |-> Domain(req[c].name, "ephemeral", b)]]
            /\ made' = made + 1
            /\ UNCHANGED lock
  /\ UNCHANGED <<registry, bound, told, removed>>

(* DomainRegistry::insert, the reply and the end of the lock. *)
CreateInsert(c) ==
  /\ req[c].pc = "insert"
  /\ registry' = Bind(registry, req[c].dom.name, req[c].dom)
  /\ told' = told \cup {req[c].dom}
  /\ lock' = "free"
  /\ Answer(c)
  /\ UNCHANGED <<bound, made, removed>>

(* handle_cases_load: an occupied name is refused, whatever holds it. *)
LoadCheck(c, n) ==
  /\ req[c] = None
  /\ LockFree
  /\ n \notin DOMAIN registry
  /\ ~CapReached
  /\ made < MaxMade
  /\ made' = made + 1
  /\ req' = [req EXCEPT ![c] = [pc |-> "publish", dom |-> Domain(n, "postmortem", NoPorts)]]
  /\ lock' = c
  /\ UNCHANGED <<registry, bound, told, removed>>

LoadPublish(c) ==
  /\ req[c].pc = "publish"
  /\ registry' = Bind(registry, req[c].dom.name, req[c].dom)
  /\ lock' = "free"
  /\ Answer(c)
  /\ UNCHANGED <<bound, made, told, removed>>

Deletable(d) == d.source # "config"

(* handle_domains_delete: the source is read off the domain found, then *)
(* whatever the name stands for by then is removed.                     *)
DeleteCheck(c, n) ==
  /\ req[c] = None
  /\ n \in DOMAIN registry
  /\ Deletable(registry[n])
  /\ req' = [req EXCEPT ![c] = [pc |-> "delete", name |-> n]]
  /\ UNCHANGED <<registry, lock, bound, made, told, removed>>

DeleteRemove(c) ==
  /\ req[c].pc = "delete"
  /\ removed' = IF req[c].name \in DOMAIN registry
                  THEN removed \cup {registry[req[c].name]} ELSE removed
  /\ registry' = Unbind(registry, req[c].name)
  /\ Answer(c)
  /\ UNCHANGED <<lock, bound, made, told>>

(* handle_domains_use: the name must be registered now. *)
Use(c, n) ==
  /\ req[c] = None
  /\ n \in DOMAIN registry
  /\ bound' = [bound EXCEPT ![c] = n]
  /\ UNCHANGED <<registry, req, lock, made, told, removed>>

(* resolve_domain: the domain bound by name, cloned, or an error. *)
Resolved(c) ==
  IF bound[c] \in DOMAIN registry THEN {registry[bound[c]]} ELSE {}

Query(c) ==
  /\ req[c] = None
  /\ \E d \in Resolved(c) :
       req' = [req EXCEPT ![c] = [pc |-> "query", dom |-> d]]
  /\ UNCHANGED <<registry, lock, bound, made, told, removed>>

(* Mutant of QueryEnd: the clone is kept after the answer. *)
QueryEndKept(c) == FALSE

QueryEnd(c) ==
  /\ req[c].pc = "query"
  /\ Answer(c)
  /\ UNCHANGED <<registry, lock, bound, made, told, removed>>

Finish(c) ==
  CreateBind(c) \/ CreateInsert(c) \/ LoadPublish(c) \/ DeleteRemove(c) \/ QueryEnd(c)

DomNext ==
  \E c \in Clients :
    \/ \E n \in DomainNames :
         \/ \E spec \in PortSpecs : CreateCheck(c, n, spec)
         \/ LoadCheck(c, n)
         \/ DeleteCheck(c, n)
         \/ Use(c, n)
    \/ CreateBind(c)
    \/ CreateInsert(c)
    \/ LoadPublish(c)
    \/ DeleteRemove(c)
    \/ Query(c)
    \/ QueryEnd(c)

DomSpec == DomInit /\ [][DomNext]_domVars

(* A request a handler has begun is run to its end by the runtime. *)
DomFairness == \A c \in Clients : WF_domVars(Finish(c))

DomFairSpec == DomSpec /\ DomFairness
-----------------------------------------------------------------------------
(* A domain handed to the caller of domains.create stays the one its name  *)
(* stands for until some deletion takes it out: two racing creations never *)
(* leave a caller with a domain, and ports, that the other's insert tore   *)
(* down (create_lock, rpc_handler.rs).                                     *)
ToldIsRegistered == told \subseteq Registered \cup removed

(* However creations and case loads overlap, the domains config.json did   *)
(* not declare never exceed max_domains.                                   *)
WithinCap == Cardinality(ApiCreated) <= MaxDomains

(* A domain handed to its creator stays registered until it is deleted,    *)
(* and racing creations and loads keep within max_domains (create_lock).   *)
CreationsSound == ToldIsRegistered /\ WithinCap

(* A deleted domain's ports are released in the end: no clone of it        *)
(* outlives the requests that took one.                                    *)
PortsReleased ==
  \A p \in Ports : (p \in HeldPorts /\ ~\E d \in Registered, a \in Arms : d.ports[a] = p)
                     ~> (p \notin HeldPorts \/ \E d \in Registered, a \in Arms : d.ports[a] = p)
=============================================================================
