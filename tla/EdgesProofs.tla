----------------------------- MODULE EdgesProofs -----------------------------
(***************************************************************************)
(* Proofs about what lies at the edges of the broker, for every number of  *)
(* threads, writers and exporters and every size of a channel or a ring:   *)
(* the throttle on the log lines outsiders cause, the registry of a        *)
(* domain's data, and the OTLP inputs with the span ring behind them.      *)
(***************************************************************************)
EXTENDS Throttle, DomainData, Receivers, FiniteSetTheorems, WellFoundedInduction, TLAPS
-----------------------------------------------------------------------------
(* The throttle. *)

Times == Nat \cup {Never}
Calls == {Resting} \cup [pc : {"count"}, at : Nat]
           \cup [pc : {"claim"}, at : Nat, last : Times, n : Nat]

ThrottleTyped ==
  /\ clock \in Nat /\ last \in Times /\ count \in Nat
  /\ hit \in [Threads -> Calls]
  /\ lines \subseteq [at : Nat, when : Nat, n : Nat]
  /\ seen \subseteq Nat

(* The last line's time is the latest of all, and is a line's; no call     *)
(* read the clock later than it shows; a call that goes on to claim found  *)
(* the minute over; one that finds another line claimed in between knows   *)
(* of a line written since its occurrence.                                 *)
LimitSound ==
  /\ \A l \in lines : l.at <= last /\ l.at <= l.when
  /\ last # Never => \E l \in lines : l.at = last
  /\ \A t \in Threads : hit[t] # Resting => hit[t].at <= clock
  /\ \A t \in Threads : hit[t].pc = "claim" =>
       /\ Due(hit[t].at, hit[t].last)
       /\ last # hit[t].last => \E l \in lines : l.when >= hit[t].at

PaceSound ==
  /\ failures \in Nat /\ unpaused \in Nat /\ sleeping \in BOOLEAN
  /\ unpaused <= failures
  /\ unpaused <= 2
  /\ ~sleeping => unpaused <= 1

ThrottleInv == ThrottleTyped /\ LimitSound /\ PaceSound /\ OneLineAMinute /\ NeverQuiet

LEMMA CallFacts ==
  ASSUME NEW c \in Calls
  PROVE  /\ c = Resting => c.pc = "idle"
         /\ c # Resting => c.at \in Nat /\ c.pc \in {"count", "claim"}
         /\ c.pc = "claim" => c.last \in Times /\ c.n \in Nat /\ c # Resting
         /\ c.pc = "count" => c # Resting
BY DEF Calls, Resting

LEMMA ThrottleInitInv == ThrottleInit => ThrottleInv
<1> SUFFICES ASSUME ThrottleInit PROVE ThrottleInv
  OBVIOUS
<1>1. ThrottleTyped
  BY DEF ThrottleInit, ThrottleTyped, Times, Calls
<1>2. LimitSound
  <2>1. \A t \in Threads : hit[t] = Resting /\ hit[t].pc = "idle"
    BY DEF ThrottleInit, Resting
  <2> QED
    BY <2>1 DEF ThrottleInit, LimitSound
<1>3. PaceSound
  <2>1. failures = 0 /\ unpaused = 0
    BY DEF ThrottleInit
  <2>2. failures \in Nat /\ unpaused \in Nat /\ unpaused <= failures /\ unpaused <= 1
        /\ unpaused <= 2
    BY <2>1
  <2>3. sleeping \in BOOLEAN
    BY Zenon DEF ThrottleInit
  <2> QED
    BY <2>2, <2>3, Zenon DEF PaceSound
<1> QED
  BY <1>1, <1>2, <1>3 DEF ThrottleInit, ThrottleInv, OneLineAMinute, NeverQuiet

LEMMA TickInv ==
  ASSUME ThrottleInv, TickClock
  PROVE  ThrottleInv'
<1>1. ThrottleTyped'
  BY DEF ThrottleInv, ThrottleTyped, TickClock
<1>2. LimitSound'
  <2>1. ASSUME NEW t \in Threads, hit[t] # Resting PROVE hit[t].at <= clock'
    BY <2>1, CallFacts DEF ThrottleInv, ThrottleTyped, LimitSound, TickClock
  <2> QED
    BY <2>1 DEF ThrottleInv, LimitSound, TickClock, Due
<1> QED
  BY <1>1, <1>2 DEF ThrottleInv, TickClock, PaceSound, OneLineAMinute, NeverQuiet, loopVars

LEMMA HitInv ==
  ASSUME ThrottleInv, NEW t \in Threads, Hit(t)
  PROVE  ThrottleInv'
<1> DEFINE c == [pc |-> "count", at |-> clock]
<1>1. /\ hit' = [hit EXCEPT ![t] = c]
      /\ UNCHANGED <<clock, last, count, lines, seen, failures, sleeping, unpaused>>
  BY DEF Hit, loopVars
<1>2. c \in Calls /\ c.pc = "count" /\ c.at = clock
  BY DEF Calls, ThrottleInv, ThrottleTyped
<1> HIDE DEF c
<1>3. ThrottleTyped'
  BY <1>1, <1>2 DEF ThrottleInv, ThrottleTyped
<1>4. hit'[t] = c /\ \A u \in Threads \ {t} : hit'[u] = hit[u]
  BY <1>1 DEF ThrottleInv, ThrottleTyped
<1>5. LimitSound'
  <2>1. ASSUME NEW u \in Threads, hit'[u] # Resting PROVE hit'[u].at <= clock
    BY <1>2, <1>4, <2>1 DEF ThrottleInv, LimitSound, ThrottleTyped
  <2>2. ASSUME NEW u \in Threads, hit'[u].pc = "claim"
        PROVE  /\ Due(hit'[u].at, hit'[u].last)
               /\ last # hit'[u].last => \E l \in lines : l.when >= hit'[u].at
    BY <1>2, <1>4, <2>2 DEF ThrottleInv, LimitSound
  <2> QED
    BY <1>1, <2>1, <2>2 DEF ThrottleInv, LimitSound, Due
<1> QED
  BY <1>1, <1>3, <1>5 DEF ThrottleInv, PaceSound, OneLineAMinute, NeverQuiet

LEMMA CountHitInv ==
  ASSUME ThrottleInv, NEW t \in Threads, CountHit(t)
  PROVE  ThrottleInv'
<1> DEFINE c == [pc |-> "claim", at |-> hit[t].at, last |-> last, n |-> count + 1]
<1>1. /\ hit[t].pc = "count" /\ count' = count + 1
      /\ UNCHANGED <<clock, last, lines, failures, sleeping, unpaused>>
  BY DEF CountHit, loopVars
<1>2. /\ hit[t] \in Calls /\ hit[t].at \in Nat /\ hit[t].at <= clock
      /\ clock \in Nat /\ last \in Times /\ count \in Nat
  BY <1>1, CallFacts DEF ThrottleInv, ThrottleTyped, LimitSound
<1>3. CASE Due(hit[t].at, last)
  <2>1. hit' = [hit EXCEPT ![t] = c] /\ seen' = seen
    BY <1>3 DEF CountHit
  <2>2. c \in Calls /\ c.at = hit[t].at /\ c.last = last
    BY <1>2 DEF Calls
  <2> HIDE DEF c
  <2>3. ThrottleTyped'
    BY <1>1, <1>2, <2>1, <2>2 DEF ThrottleInv, ThrottleTyped
  <2>4. hit'[t] = c /\ \A u \in Threads \ {t} : hit'[u] = hit[u]
    BY <2>1 DEF ThrottleInv, ThrottleTyped
  <2>5. ASSUME NEW u \in Threads, hit'[u] # Resting PROVE hit'[u].at <= clock
    BY <1>2, <2>2, <2>4, <2>5 DEF ThrottleInv, LimitSound
  <2>6. ASSUME NEW u \in Threads, hit'[u].pc = "claim"
        PROVE  /\ Due(hit'[u].at, hit'[u].last)
               /\ last # hit'[u].last => \E l \in lines : l.when >= hit'[u].at
    BY <1>3, <2>2, <2>4, <2>6 DEF ThrottleInv, LimitSound
  <2>7. LimitSound'
    BY <1>1, <2>5, <2>6 DEF ThrottleInv, LimitSound, Due
  <2> QED
    BY <1>1, <2>1, <2>3, <2>7 DEF ThrottleInv, PaceSound, OneLineAMinute, NeverQuiet
<1>4. CASE ~Due(hit[t].at, last)
  <2>1. hit' = [hit EXCEPT ![t] = Resting] /\ seen' = seen \cup {hit[t].at}
    BY <1>4 DEF CountHit
  <2>2. ThrottleTyped'
    <3>1. Resting \in Calls /\ count' \in Nat
      BY <1>1, <1>2 DEF Calls
    <3>2. hit' \in [Threads -> Calls]
      BY <2>1, <3>1 DEF ThrottleInv, ThrottleTyped
    <3> QED
      BY <1>1, <1>2, <2>1, <3>1, <3>2 DEF ThrottleInv, ThrottleTyped
  <2>3. hit'[t] = Resting /\ \A u \in Threads \ {t} : hit'[u] = hit[u]
    BY <2>1 DEF ThrottleInv, ThrottleTyped
  <2>4. LimitSound'
    <3>1. ASSUME NEW u \in Threads, hit'[u].pc = "claim" PROVE u # t
      BY <2>3, <3>1 DEF Resting
    <3> QED
      BY <1>1, <2>3, <3>1 DEF ThrottleInv, LimitSound, Due
  <2>5. PICK l \in lines : l.at = last /\ l.at <= l.when
    BY <1>4 DEF Due, ThrottleInv, LimitSound
  <2>6. l.when > hit[t].at - Interval
    BY <1>2, <1>4, <2>5, IntervalAssumption DEF Due, ThrottleInv, ThrottleTyped, Times
  <2>7. NeverQuiet'
    BY <1>1, <2>1, <2>6 DEF ThrottleInv, NeverQuiet
  <2> QED
    BY <1>1, <2>2, <2>4, <2>7 DEF ThrottleInv, PaceSound, OneLineAMinute
<1> QED
  BY <1>3, <1>4

LEMMA ClaimInv ==
  ASSUME ThrottleInv, NEW t \in Threads, ClaimLine(t)
  PROVE  ThrottleInv'
<1>1. /\ hit[t].pc = "claim" /\ seen' = seen \cup {hit[t].at}
      /\ hit' = [hit EXCEPT ![t] = Resting]
      /\ UNCHANGED <<clock, count, failures, sleeping, unpaused>>
  BY DEF ClaimLine, loopVars
<1>2. /\ hit[t] \in Calls /\ hit[t].at \in Nat /\ hit[t].at <= clock /\ hit[t].n \in Nat
      /\ hit[t].last \in Times /\ clock \in Nat /\ last \in Times
      /\ Due(hit[t].at, hit[t].last)
  BY <1>1, CallFacts DEF ThrottleInv, ThrottleTyped, LimitSound
<1>3. hit'[t] = Resting /\ \A u \in Threads \ {t} : hit'[u] = hit[u]
  BY <1>1 DEF ThrottleInv, ThrottleTyped
<1>4. \A u \in Threads : hit'[u].pc = "claim" => u # t
  BY <1>3 DEF Resting
<1>5. CASE Claimed(t)
  <2> DEFINE new == [at |-> hit[t].at, when |-> clock, n |-> hit[t].n]
  <2>1. last' = hit[t].at /\ lines' = lines \cup {new}
    BY <1>5 DEF ClaimLine
  <2>2. new \in [at : Nat, when : Nat, n : Nat] /\ new.at = hit[t].at /\ new.when = clock
    BY <1>2
  <2> HIDE DEF new
  <2>3. ThrottleTyped'
    BY <1>1, <1>2, <2>1, <2>2 DEF ThrottleInv, ThrottleTyped, Calls, Times
  <2>4. \A l \in lines : l.at \in Nat /\ hit[t].at - l.at >= Interval
    BY <1>2, <1>5, IntervalAssumption DEF Due, Claimed, ThrottleInv, ThrottleTyped, LimitSound,
       Times, Never
  <2>5. LimitSound'
    <3>1. \A l \in lines' : l.at <= last' /\ l.at <= l.when
      BY <1>2, <2>1, <2>2, <2>4, IntervalAssumption DEF ThrottleInv, LimitSound
    <3>2. \E l \in lines' : l.at = last'
      BY <2>1, <2>2
    <3>3. ASSUME NEW u \in Threads, hit'[u] # Resting PROVE hit'[u].at <= clock'
      BY <1>1, <1>3, <3>3 DEF ThrottleInv, LimitSound
    <3>4. ASSUME NEW u \in Threads, hit'[u].pc = "claim"
          PROVE  Due(hit'[u].at, hit'[u].last) /\ \E l \in lines' : l.when >= hit'[u].at
      <4>1. hit'[u] = hit[u] /\ hit[u].at \in Nat /\ hit[u].at <= clock
        BY <1>3, <1>4, <3>4, CallFacts DEF ThrottleInv, ThrottleTyped, LimitSound
      <4> QED
        BY <1>2, <2>1, <2>2, <3>4, <4>1 DEF ThrottleInv, LimitSound
    <3> QED
      BY <3>1, <3>2, <3>3, <3>4 DEF LimitSound, Due
  <2>6. OneLineAMinute'
    BY <2>1, <2>2, <2>4 DEF ThrottleInv, OneLineAMinute
  <2>7. NeverQuiet'
    BY <1>1, <1>2, <2>1, <2>2, IntervalAssumption DEF ThrottleInv, NeverQuiet
  <2> QED
    BY <1>1, <2>3, <2>5, <2>6, <2>7 DEF ThrottleInv, PaceSound
<1>6. CASE ~Claimed(t)
  <2>1. UNCHANGED <<last, lines>>
    BY <1>6 DEF ClaimLine
  <2>2. ThrottleTyped'
    BY <1>1, <1>2, <2>1 DEF ThrottleInv, ThrottleTyped, Calls
  <2>3. LimitSound'
    BY <1>1, <1>3, <1>4, <2>1 DEF ThrottleInv, LimitSound, Due
  <2>4. PICK l \in lines : l.when >= hit[t].at
    BY <1>1, <1>6 DEF ThrottleInv, LimitSound, Claimed
  <2>5. l.when \in Nat /\ l.when > hit[t].at - Interval
    BY <1>2, <2>4, IntervalAssumption DEF ThrottleInv, ThrottleTyped
  <2>6. NeverQuiet'
    BY <1>1, <2>1, <2>5 DEF ThrottleInv, NeverQuiet
  <2> QED
    BY <1>1, <2>1, <2>2, <2>3, <2>6 DEF ThrottleInv, PaceSound, OneLineAMinute
<1> QED
  BY <1>5, <1>6

LEMMA AcceptInv ==
  ASSUME ThrottleInv, AcceptOk \/ AcceptReset \/ AcceptFails \/ PauseEnds
  PROVE  ThrottleInv'
<1>1. UNCHANGED <<clock, last, count, hit, lines, seen>>
  BY DEF AcceptOk, AcceptReset, AcceptFails, PauseEnds
<1>2. ThrottleTyped' /\ LimitSound' /\ OneLineAMinute' /\ NeverQuiet'
  BY <1>1 DEF ThrottleInv, ThrottleTyped, LimitSound, OneLineAMinute, NeverQuiet, Due
<1>3. PaceSound'
  <2>1. CASE AcceptOk \/ AcceptReset
    BY <2>1 DEF ThrottleInv, PaceSound, AcceptOk, AcceptReset, PerConnection
  <2>2. CASE AcceptFails
    <3>0. unpaused <= 1
      BY <2>2, Zenon DEF AcceptFails, ThrottleInv, PaceSound
    <3>1. /\ failures' = failures + 1 /\ unpaused' = unpaused + 1
          /\ failures \in Nat /\ unpaused \in Nat /\ unpaused <= failures /\ unpaused <= 1
      BY <2>2, <3>0 DEF AcceptFails, ThrottleInv, PaceSound
    <3>2. sleeping' = (failures' > 1)
      BY <2>2 DEF AcceptFails
    <3>3. sleeping' \in BOOLEAN /\ (~sleeping' => ~(failures' > 1))
      <4>1. CASE failures' > 1
        <5>1. sleeping' = TRUE
          BY <3>2, <4>1
        <5> QED
          BY <5>1, Zenon
      <4>2. CASE ~(failures' > 1)
        <5>1. (failures' > 1) = FALSE
          BY <3>1, <4>2, SMT
        <5>2. sleeping' = FALSE
          BY <3>2, <5>1, Zenon
        <5> QED
          BY <4>2, <5>2, Zenon
      <4> QED
        BY <4>1, <4>2, Zenon
    <3>4. /\ failures' \in Nat /\ unpaused' \in Nat /\ unpaused' <= failures'
          /\ unpaused' <= 2 /\ (~(failures' > 1) => unpaused' <= 1)
      BY <3>1
    <3> QED
      BY <3>3, <3>4, Zenon DEF PaceSound
  <2>3. CASE PauseEnds
    <3>1. failures' \in Nat /\ unpaused' = 0
      BY <2>3 DEF ThrottleInv, PaceSound, PauseEnds
    <3>2. unpaused' \in Nat /\ unpaused' <= failures' /\ unpaused' <= 2 /\ unpaused' <= 1
      BY <3>1
    <3>3. sleeping' \in BOOLEAN
      BY <2>3, Zenon DEF PauseEnds
    <3> QED
      BY <3>1, <3>2, <3>3, Zenon DEF PaceSound
  <2> QED
    BY <2>1, <2>2, <2>3
<1> QED
  BY <1>2, <1>3 DEF ThrottleInv

LEMMA ThrottleNextInv == ThrottleInv /\ [ThrottleNext]_throttleVars => ThrottleInv'
<1> SUFFICES ASSUME ThrottleInv, [ThrottleNext]_throttleVars PROVE ThrottleInv'
  OBVIOUS
<1>1. CASE UNCHANGED throttleVars
  BY <1>1 DEF throttleVars, ThrottleInv, ThrottleTyped, LimitSound, PaceSound,
     OneLineAMinute, NeverQuiet, Due
<1> QED
  BY <1>1, TickInv, HitInv, CountHitInv, ClaimInv, AcceptInv DEF ThrottleNext

(* Whatever number of threads race through hit_at, two lines lie a minute  *)
(* apart and no occurrence passes a minute without one; and however        *)
(* accepts fail, at most two do so with no pause between them.             *)
THEOREM ThrottleIsSound == ThrottleSpec => []ThrottleHolds
<1>1. ThrottleInv => ThrottleHolds
  BY DEF ThrottleInv, ThrottleHolds, PaceSound, NeverSpins
<1> QED
  BY <1>1, ThrottleInitInv, ThrottleNextInv, PTL DEF ThrottleSpec
-----------------------------------------------------------------------------
(* The registry of a domain's data. *)

LEMMA LeastExists ==
  ASSUME NEW T, T \subseteq Nat, T # {}
  PROVE  \E x \in T : \A y \in T : x <= y
<1>1. PICK x \in T : \A y \in T : ~(<<y, x>> \in OpToRel(<, Nat))
  BY NatLessThanWellFounded, WFMin
<1>2. \A y \in T : ~(y < x)
  BY <1>1 DEF OpToRel
<1> QED BY <1>2

(* Entries a registry may hold: no agent's value beside the broker's keys, *)
(* and the agents' keys within the cap.                                    *)
EntriesSound(f) ==
  /\ \A k \in DOMAIN f : Len(k) > 0
  /\ \A k \in DOMAIN f : IsReserved(k) => f[k].value = "stamp"
  /\ IsFiniteSet(Counted(f))
  /\ Cardinality(Counted(f)) <= MaxKeys

(* The keys no agent can remove. *)
Anchored(f) == \A name \in {"domain", "version"} : ReservedKey(name) \in DOMAIN f

(* The first m answers to a batch agree with the entries it left. *)
Answered(batch, outs, f, m) ==
  \A i \in 1..m :
    LET e == batch[i]
        later == \E j \in 1..m : j > i /\ batch[j].path = e.path
    IN  /\ outs[i].outcome \in {"created", "updated", "validated"} =>
             /\ e.path \in DOMAIN f
             /\ e.value = Keep \/ later \/ f[e.path].value = e.value
        /\ outs[i].outcome = "unknown" => later \/ e.path \notin DOMAIN f

ProvTyped ==
  /\ mem.open \in BOOLEAN
  /\ mem.open => DOMAIN mem = {"open", "entries", "quarantined"}
  /\ DOMAIN wr = Writers
  /\ \A w \in Writers :
       /\ wr[w].pc # "idle" => mem.open
       /\ wr[w].pc = "wait" => wr[w].batch \in Batches
       /\ wr[w].pc = "remove" => wr[w].pattern \in Patterns

(* A registry is sound in memory and in its file; a request that writes    *)
(* holds the mutex, what it writes is the memory, and its answers fit.     *)
ProvInv ==
  /\ ProvTyped
  /\ mem.open => EntriesSound(mem.entries) /\ Anchored(mem.entries)
  /\ file.kind = "saved" => EntriesSound(file.entries)
  /\ \A w \in Writers : wr[w].pc = "write" =>
       /\ mutex = w
       /\ wr[w].bytes = mem.entries
       /\ DOMAIN wr[w].batch = 1..Len(wr[w].batch)
       /\ Answered(wr[w].batch, wr[w].outs, wr[w].bytes, Len(wr[w].batch))
  /\ FileIsMemory

Sent == [path : Seq(STRING), sigil : BOOLEAN, value : STRING, ttl : STRING]

Reasons == {"malformed_path", "path_too_long", "sigil_not_allowed_here", "reserved_prefix",
            "value_too_long", "registry_full", "malformed_value", "malformed_ttl", "ok"}
Replies == [outcome : {"created", "updated", "validated", "scoped"}]
             \cup [outcome : {"rejected"}, why : Reasons]
             \cup [outcome : {"unknown"}, cause : {"never_set", "no_registry", "undetermined"}]

(* What one entry e may do to the entries f it finds, with answer o. *)
Lands(f, g, e, o) ==
  /\ DOMAIN f \subseteq DOMAIN g /\ DOMAIN g \subseteq DOMAIN f \cup {e.path}
  /\ \A k \in DOMAIN f : k # e.path => g[k] = f[k]
  /\ o.outcome \in {"created", "updated", "validated"} =>
       e.path \in DOMAIN g /\ (e.value = Keep \/ g[e.path].value = e.value)
  /\ o.outcome = "unknown" => e.path \notin DOMAIN g

(* A value for a key of the broker's, or a key within the cap. *)
LEMMA PutSound ==
  ASSUME NEW f, EntriesSound(f), NEW k, Len(k) > 0, NEW v,
         IsReserved(k) => v.value = "stamp",
         IsReserved(k) \/ k \in DOMAIN f \/ RoomFor(f)
  PROVE  EntriesSound(Put(f, k, v))
<1> DEFINE g == Put(f, k, v)
<1>0. /\ DOMAIN g = DOMAIN f \cup {k} /\ g[k] = v
      /\ \A x \in DOMAIN f : x # k => g[x] = f[x]
  BY DEF Put
<1> HIDE DEF g
<1>1. /\ \A x \in DOMAIN g : Len(x) > 0
      /\ \A x \in DOMAIN g : IsReserved(x) => g[x].value = "stamp"
  BY <1>0 DEF EntriesSound
<1>2. IsFiniteSet(Counted(g)) /\ Cardinality(Counted(g)) <= MaxKeys
  <2>1. CASE IsReserved(k) \/ k \in DOMAIN f
    <3>1. Counted(g) = Counted(f)
      BY <1>0, <2>1 DEF Counted
    <3> QED
      BY <3>1 DEF EntriesSound
  <2>2. CASE ~IsReserved(k) /\ k \notin DOMAIN f
    <3>1. Counted(g) = Counted(f) \cup {k} /\ k \notin Counted(f)
      BY <1>0, <2>2 DEF Counted
    <3>2. Cardinality(Counted(f)) < MaxKeys
      BY <2>2 DEF RoomFor
    <3>3. IsFiniteSet(Counted(f))
      BY DEF EntriesSound
    <3>4. /\ IsFiniteSet(Counted(f) \cup {k})
          /\ Cardinality(Counted(f) \cup {k}) = Cardinality(Counted(f)) + 1
      BY <3>1, <3>3, FS_AddElement
    <3>5. Cardinality(Counted(f)) \in Nat
      BY <3>3, FS_CardinalityType
    <3> QED
      BY <3>1, <3>2, <3>4, <3>5, CapAssumption
  <2> QED
    BY <2>1, <2>2
<1>3. EntriesSound(g)
  BY <1>1, <1>2 DEF EntriesSound
<1> QED
  BY <1>3 DEF g

(* A key that apply_one does not refuse is the agents'. *)
LEMMA FaultFacts ==
  ASSUME NEW e \in Sent
  PROVE  /\ Fault(e) \in Reasons
         /\ Fault(e) = "ok" => ~IsReserved(e.path) /\ Len(e.path) > 0
<1>1. KeyFault(e, FALSE) \in Reasons
  BY DEF KeyFault, Reasons
<1>2. KeyFault(e, FALSE) = "ok" => Len(e.path) > 0
  <2>1. e.path \in Seq(STRING)
    BY DEF Sent
  <2>2. KeyFault(e, FALSE) = "ok" => e.path # <<>>
    BY DEF KeyFault
  <2> QED
    BY <2>1, <2>2
<1>3. CASE KeyFault(e, FALSE) # "ok"
  BY <1>1, <1>3 DEF Fault
<1>4. CASE KeyFault(e, FALSE) = "ok" /\ IsReserved(e.path)
  BY <1>4 DEF Fault, Reasons
<1>5. CASE KeyFault(e, FALSE) = "ok" /\ ~IsReserved(e.path)
  BY <1>2, <1>5 DEF Fault, Reasons
<1> QED
  BY <1>3, <1>4, <1>5

LEMMA ApplyOneFacts ==
  ASSUME NEW f, EntriesSound(f), NEW e \in Sent, NEW t, NEW q
  PROVE  LET r == ApplyOne(f, e, t, q)
         IN  /\ EntriesSound(r.entries)
             /\ Lands(f, r.entries, e, r.out)
             /\ r.out \in Replies
<1> DEFINE r == ApplyOne(f, e, t, q)
<1>1. CASE Fault(e) # "ok"
  <2>1. r = [entries |-> f, out |-> Rejected(Fault(e))]
    BY <1>1 DEF ApplyOne
  <2>2. r.entries = f /\ r.out.outcome = "rejected" /\ r.out \in Replies
    BY <2>1, FaultFacts DEF Rejected, Replies
  <2> QED
    BY <2>2 DEF Lands
<1>2. CASE Fault(e) = "ok" /\ e.path \in DOMAIN f
  <2> DEFINE v == Touched(f[e.path], e.value, e.ttl, t)
             g == Put(f, e.path, v)
  <2>1. r = [entries |-> Put(f, e.path, v),
             out |-> [outcome |-> IF e.value \in {Keep, f[e.path].value}
                                    THEN "validated" ELSE "updated"]]
    BY <1>2 DEF ApplyOne
  <2>2. r.entries = g /\ r.out \in Replies
        /\ r.out.outcome \in {"updated", "validated"}
    BY <2>1 DEF Replies
  <2>3. e.value = Keep \/ v.value = e.value
    BY DEF Touched
  <2>4. EntriesSound(g)
    BY <1>2, FaultFacts, PutSound
  <2>5. /\ DOMAIN g = DOMAIN f \cup {e.path} /\ g[e.path] = v
        /\ \A x \in DOMAIN f : x # e.path => g[x] = f[x]
    BY DEF Put
  <2> HIDE DEF v, g
  <2> QED
    BY <2>2, <2>3, <2>4, <2>5 DEF Lands
<1>3. CASE Fault(e) = "ok" /\ e.path \notin DOMAIN f /\ e.value = Keep
  <2>1. r = [entries |-> f, out |-> [outcome |-> "unknown", cause |-> UnknownCause(f, q)]]
    BY <1>3 DEF ApplyOne
  <2>2. UnknownCause(f, q) \in {"never_set", "no_registry", "undetermined"}
    BY DEF UnknownCause
  <2>3. r.entries = f /\ r.out.outcome = "unknown" /\ r.out \in Replies
    BY <2>1, <2>2 DEF Replies
  <2> QED
    BY <1>3, <2>3 DEF Lands
<1>4. CASE Fault(e) = "ok" /\ e.path \notin DOMAIN f /\ e.value # Keep /\ ~RoomFor(f)
  <2>1. r = [entries |-> f, out |-> Rejected("registry_full")]
    BY <1>4 DEF ApplyOne
  <2>2. r.entries = f /\ r.out.outcome = "rejected" /\ r.out \in Replies
    BY <2>1 DEF Rejected, Replies, Reasons
  <2> QED
    BY <2>2 DEF Lands
<1>5. CASE Fault(e) = "ok" /\ e.path \notin DOMAIN f /\ e.value # Keep /\ RoomFor(f)
  <2> DEFINE v == Fresh(e.value, e.ttl, t)
             g == Put(f, e.path, v)
  <2>1. r = [entries |-> Put(f, e.path, v), out |-> [outcome |-> "created"]]
    BY <1>5 DEF ApplyOne
  <2>2. r.entries = g /\ r.out.outcome = "created" /\ r.out \in Replies
    BY <2>1 DEF Replies
  <2>3. v.value = e.value
    BY DEF Fresh
  <2>4. EntriesSound(g)
    BY <1>5, FaultFacts, PutSound
  <2>5. /\ DOMAIN g = DOMAIN f \cup {e.path} /\ g[e.path] = v
        /\ \A x \in DOMAIN f : x # e.path => g[x] = f[x]
    BY DEF Put
  <2> HIDE DEF v, g
  <2> QED
    BY <2>2, <2>3, <2>4, <2>5 DEF Lands
<1> QED
  BY <1>1, <1>2, <1>3, <1>4, <1>5

(* The states a batch goes through, entry by entry. *)
BatchStart(f) == [entries |-> f, scoped |-> NoEntries, outs |-> <<>>]

BatchGoes(h, f, batch, t, q, c) ==
  /\ h[0] = BatchStart(f)
  /\ \A i \in 1..Len(batch) : h[i] = ApplyEntry(h[i - 1], batch[i], t, q, c)
  /\ Batch(f, batch, t, q, c) = h[Len(batch)]

LEMMA BatchSteps ==
  ASSUME NEW f, NEW batch \in Seq(Sent), NEW t, NEW q, NEW c
  PROVE  \E h : BatchGoes(h, f, batch, t, q, c)
<1> DEFINE n == Len(batch)
           Rec(m, h) == h = [i \in 0..m |-> IF i = 0 THEN BatchStart(f)
                                            ELSE ApplyEntry(h[i - 1], batch[i], t, q, c)]
           Undone == {m \in 0..n : ~\E h : Rec(m, h)}
<1>0. n \in Nat
  OBVIOUS
<1>1. \E h : Rec(0, h)
  <2> DEFINE g == [i \in 0..0 |-> BatchStart(f)]
  <2>1. g = [i \in 0..0 |-> IF i = 0 THEN BatchStart(f)
                            ELSE ApplyEntry(g[i - 1], batch[i], t, q, c)]
    OBVIOUS
  <2> QED
    BY <2>1, Zenon
<1>2. ASSUME NEW m \in 1..n, NEW g, Rec(m - 1, g) PROVE \E h : Rec(m, h)
  <2> DEFINE ending == ApplyEntry(g[m - 1], batch[m], t, q, c)
             h0 == [i \in 0..m |-> IF i = m THEN ending ELSE g[i]]
  <2>1. ASSUME NEW i \in 0..m
        PROVE  h0[i] = IF i = 0 THEN BatchStart(f)
                       ELSE ApplyEntry(h0[i - 1], batch[i], t, q, c)
    <3>1. CASE i = m
      <4>1. i # 0 /\ h0[i - 1] = g[m - 1] /\ h0[i] = ending
        BY <3>1, <1>0
      <4> QED
        BY <3>1, <4>1
    <3>2. CASE i # m
      <4>1. i \in 0..(m - 1) /\ h0[i] = g[i]
        BY <3>2, <1>0
      <4>2. g[i] = IF i = 0 THEN BatchStart(f) ELSE ApplyEntry(g[i - 1], batch[i], t, q, c)
        BY <4>1, <1>2
      <4>3. i # 0 => h0[i - 1] = g[i - 1]
        BY <4>1, <1>0
      <4> HIDE DEF h0
      <4> QED
        BY <4>1, <4>2, <4>3, Zenon
    <3> QED
      BY <3>1, <3>2
  <2>2. h0 = [i \in 0..m |-> IF i = 0 THEN BatchStart(f)
                             ELSE ApplyEntry(h0[i - 1], batch[i], t, q, c)]
    <3>1. h0 = [i \in 0..m |-> h0[i]]
      OBVIOUS
    <3> HIDE DEF h0
    <3> QED
      BY <2>1, <3>1
  <2> HIDE DEF h0
  <2> QED
    BY <2>2, Zenon
<1>3. Undone = {}
  <2>1. SUFFICES ASSUME Undone # {} PROVE FALSE
    OBVIOUS
  <2> HIDE DEF Rec
  <2>2. Undone \subseteq Nat
    BY <1>0
  <2>3. PICK m \in Undone : \A y \in Undone : m <= y
    <3> HIDE DEF Undone
    <3> QED
      BY <2>1, <2>2, LeastExists
  <2>4. m \in 0..n /\ m # 0 /\ ~\E h : Rec(m, h)
    BY <1>1
  <2>5. m \in 1..n /\ m - 1 \in 0..n /\ ~(m <= m - 1)
    BY <1>0, <2>4
  <2>6. m - 1 \notin Undone
    <3> HIDE DEF Undone
    <3> QED
      BY <2>3, <2>5
  <2>7. PICK g : Rec(m - 1, g)
    BY <2>5, <2>6
  <2> QED
    BY <1>2, <2>4, <2>5, <2>7
<1>4. \E h : Rec(n, h)
  <2> HIDE DEF Rec
  <2>1. n \in 0..n
    BY <1>0
  <2> QED
    BY <1>3, <2>1
<1> DEFINE H == CHOOSE h : Rec(n, h)
<1>5. Rec(n, H)
  <2> HIDE DEF Rec
  <2> QED
    BY <1>4, Zenon
<1>6. Batch(f, batch, t, q, c) = H[n]
  BY Zenon DEF Batch, BatchStart
<1> HIDE DEF H
<1>7. H[0] = BatchStart(f)
  BY <1>0, <1>5
<1>8. \A i \in 1..n : H[i] = ApplyEntry(H[i - 1], batch[i], t, q, c)
  BY <1>0, <1>5
<1>9. BatchGoes(H, f, batch, t, q, c)
  BY <1>6, <1>7, <1>8, Zenon DEF BatchGoes
<1> QED
  BY <1>9, Zenon

AccShaped(acc) == DOMAIN acc = {"entries", "scoped", "outs"} /\ acc.outs \in Seq(Replies)

LEMMA EntryFacts ==
  ASSUME NEW acc, AccShaped(acc), EntriesSound(acc.entries), NEW e \in Sent,
         NEW t, NEW q, NEW c
  PROVE  LET r == ApplyEntry(acc, e, t, q, c)
         IN  /\ AccShaped(r) /\ EntriesSound(r.entries)
             /\ \E o \in Replies : /\ r.outs = Append(acc.outs, o)
                                   /\ Lands(acc.entries, r.entries, e, o)
<1> DEFINE r == ApplyEntry(acc, e, t, q, c)
<1>1. CASE WireFault(e) # "ok"
  <2> DEFINE o == Rejected(WireFault(e))
  <2>1. r = [acc EXCEPT !.outs = Append(@, o)]
    BY <1>1 DEF ApplyEntry
  <2>2. o \in Replies /\ o.outcome = "rejected"
    BY DEF Rejected, WireFault, Replies, Reasons
  <2> HIDE DEF o
  <2>3. /\ AccShaped(r) /\ r.entries = acc.entries
        /\ r.outs = Append(acc.outs, o)
    BY <2>1, <2>2 DEF AccShaped
  <2> HIDE DEF r
  <2>4. Lands(acc.entries, r.entries, e, o)
    BY <2>2, <2>3 DEF Lands
  <2>5. EntriesSound(r.entries)
    BY <2>3
  <2> QED
    BY <2>2, <2>3, <2>4, <2>5, Zenon DEF r
<1>2. CASE WireFault(e) = "ok" /\ e.sigil /\ c
  <2> DEFINE s == ScopeOne(acc.scoped, e)
  <2>1. r = [acc EXCEPT !.scoped = s.scoped, !.outs = Append(@, s.out)]
    BY <1>2 DEF ApplyEntry
  <2>2. ScopeFault(acc.scoped, e) \in Reasons
    BY DEF ScopeFault, KeyFault, Reasons
  <2>3. s.out \in Replies /\ s.out.outcome \in {"rejected", "scoped"}
    BY <2>2 DEF ScopeOne, Rejected, Replies
  <2> HIDE DEF s
  <2>4. /\ AccShaped(r) /\ r.entries = acc.entries
        /\ r.outs = Append(acc.outs, s.out)
    BY <2>1, <2>3 DEF AccShaped
  <2> HIDE DEF r
  <2>5. Lands(acc.entries, r.entries, e, s.out)
    BY <2>3, <2>4 DEF Lands
  <2>6. EntriesSound(r.entries)
    BY <2>4
  <2> QED
    BY <2>3, <2>4, <2>5, <2>6, Zenon DEF r
<1>3. CASE WireFault(e) = "ok" /\ ~(e.sigil /\ c)
  <2> DEFINE s == ApplyOne(acc.entries, e, t, q)
  <2>1. r = [acc EXCEPT !.entries = s.entries, !.outs = Append(@, s.out)]
    BY <1>3 DEF ApplyEntry
  <2>2. /\ EntriesSound(s.entries) /\ Lands(acc.entries, s.entries, e, s.out)
        /\ s.out \in Replies
    BY ApplyOneFacts, Zenon
  <2> HIDE DEF s
  <2>3. /\ AccShaped(r) /\ r.entries = s.entries
        /\ r.outs = Append(acc.outs, s.out)
    BY <2>1, <2>2 DEF AccShaped
  <2> HIDE DEF r
  <2>4. EntriesSound(r.entries) /\ Lands(acc.entries, r.entries, e, s.out)
    BY <2>2, <2>3
  <2> QED
    BY <2>2, <2>3, <2>4, Zenon DEF r
<1> QED
  BY <1>1, <1>2, <1>3

(* One more answer keeps the earlier ones true: only the key of the entry  *)
(* it answers can have changed.                                            *)
LEMMA AnsweredNext ==
  ASSUME NEW batch, NEW outs \in Seq(Replies), NEW f, NEW g, NEW o \in Replies, NEW m \in Nat,
         Len(outs) = m, Answered(batch, outs, f, m), Lands(f, g, batch[m + 1], o)
  PROVE  Answered(batch, Append(outs, o), g, m + 1)
<1> DEFINE more == Append(outs, o)
<1>1. /\ \A i \in 1..m : more[i] = outs[i]
      /\ more[m + 1] = o
  OBVIOUS
<1> HIDE DEF more
<1>2. \A i \in 1..(m + 1) : i \in 1..m \/ i = m + 1
  OBVIOUS
<1> DEFINE e(i) == batch[i]
           later(i) == \E j \in 1..(m + 1) : j > i /\ batch[j].path = e(i).path
<1>3. ASSUME NEW i \in 1..m
      PROVE  /\ more[i].outcome \in {"created", "updated", "validated"} =>
                  /\ e(i).path \in DOMAIN g
                  /\ e(i).value = Keep \/ later(i) \/ g[e(i).path].value = e(i).value
             /\ more[i].outcome = "unknown" => later(i) \/ e(i).path \notin DOMAIN g
  <2> DEFINE sooner == \E j \in 1..m : j > i /\ batch[j].path = e(i).path
  <2>1. sooner => later(i)
    OBVIOUS
  <2>2. e(i).path = batch[m + 1].path => later(i)
    OBVIOUS
  <2>3. /\ outs[i].outcome \in {"created", "updated", "validated"} =>
             /\ e(i).path \in DOMAIN f
             /\ e(i).value = Keep \/ sooner \/ f[e(i).path].value = e(i).value
        /\ outs[i].outcome = "unknown" => sooner \/ e(i).path \notin DOMAIN f
    BY Zenon DEF Answered
  <2> HIDE DEF sooner, later
  <2> QED
    BY <1>1, <2>1, <2>2, <2>3 DEF Lands
<1>4. /\ more[m + 1].outcome \in {"created", "updated", "validated"} =>
           /\ e(m + 1).path \in DOMAIN g
           /\ e(m + 1).value = Keep \/ g[e(m + 1).path].value = e(m + 1).value
      /\ more[m + 1].outcome = "unknown" => e(m + 1).path \notin DOMAIN g
  BY <1>1 DEF Lands
<1>5. Answered(batch, more, g, m + 1)
  BY <1>2, <1>3, <1>4, Zenon DEF Answered
<1> QED
  BY <1>5 DEF more

LEMMA BatchFacts ==
  ASSUME NEW f, EntriesSound(f), NEW batch \in Seq(Sent), NEW t, NEW q, NEW c
  PROVE  LET r == Batch(f, batch, t, q, c)
         IN  /\ EntriesSound(r.entries)
             /\ DOMAIN f \subseteq DOMAIN r.entries
             /\ Answered(batch, r.outs, r.entries, Len(batch))
<1> DEFINE n == Len(batch)
<1>a. PICK h : BatchGoes(h, f, batch, t, q, c)
  BY BatchSteps, Zenon
<1>1. /\ h[0] = BatchStart(f)
      /\ \A i \in 1..n : h[i] = ApplyEntry(h[i - 1], batch[i], t, q, c)
      /\ Batch(f, batch, t, q, c) = h[n]
  BY <1>a, Zenon DEF BatchGoes
<1> DEFINE Good(i) == /\ AccShaped(h[i]) /\ EntriesSound(h[i].entries)
                      /\ Len(h[i].outs) = i
                      /\ DOMAIN f \subseteq DOMAIN h[i].entries
                      /\ Answered(batch, h[i].outs, h[i].entries, i)
           Wrong == {i \in 0..n : ~Good(i)}
<1>0. n \in Nat
  OBVIOUS
<1>2. Good(0)
  <2>1. /\ DOMAIN h[0] = {"entries", "scoped", "outs"} /\ h[0].entries = f
        /\ h[0].outs = <<>>
    BY <1>1 DEF BatchStart
  <2>2. <<>> \in Seq(Replies) /\ Len(<<>>) = 0 /\ 1..0 = {}
    OBVIOUS
  <2>3. Answered(batch, h[0].outs, h[0].entries, 0)
    BY <2>2, Zenon DEF Answered
  <2> QED
    BY <2>1, <2>2, <2>3 DEF AccShaped
<1>3. ASSUME NEW i \in 1..n, Good(i - 1) PROVE Good(i)
  <2> DEFINE a == h[i - 1]
             e == batch[i]
  <2>0. /\ AccShaped(a) /\ EntriesSound(a.entries) /\ Len(a.outs) = i - 1
        /\ DOMAIN f \subseteq DOMAIN a.entries
        /\ Answered(batch, a.outs, a.entries, i - 1)
    BY <1>3
  <2>1. e \in Sent /\ h[i] = ApplyEntry(a, e, t, q, c) /\ i - 1 \in Nat /\ i = (i - 1) + 1
    BY <1>1
  <2> HIDE DEF a, e
  <2>2. /\ AccShaped(h[i]) /\ EntriesSound(h[i].entries)
        /\ \E o \in Replies : /\ h[i].outs = Append(a.outs, o)
                              /\ Lands(a.entries, h[i].entries, e, o)
    BY <2>0, <2>1, EntryFacts
  <2>3. PICK o \in Replies : /\ h[i].outs = Append(a.outs, o)
                             /\ Lands(a.entries, h[i].entries, e, o)
    BY <2>2, Zenon
  <2>4. a.outs \in Seq(Replies)
    BY <2>0 DEF AccShaped
  <2>5. Len(h[i].outs) = i
    BY <2>0, <2>1, <2>3, <2>4
  <2>6. DOMAIN a.entries \subseteq DOMAIN h[i].entries
    BY <2>3 DEF Lands
  <2>7. Lands(a.entries, h[i].entries, batch[(i - 1) + 1], o)
    BY <2>1, <2>3 DEF e
  <2>8. Answered(batch, Append(a.outs, o), h[i].entries, (i - 1) + 1)
    BY <2>0, <2>1, <2>4, <2>7, AnsweredNext
  <2>9. Answered(batch, h[i].outs, h[i].entries, i)
    BY <2>1, <2>3, <2>8
  <2>10. DOMAIN f \subseteq DOMAIN h[i].entries
    BY <2>0, <2>6
  <2> QED
    BY <2>2, <2>5, <2>9, <2>10, Zenon
<1> HIDE DEF Good
<1>4. Wrong = {}
  <2>1. SUFFICES ASSUME Wrong # {} PROVE FALSE
    OBVIOUS
  <2>2. Wrong \subseteq Nat
    BY <1>0
  <2>3. PICK i \in Wrong : \A y \in Wrong : i <= y
    <3> HIDE DEF Wrong
    <3> QED
      BY <2>1, <2>2, LeastExists
  <2>4. i \in 0..n /\ i # 0 /\ ~Good(i)
    BY <1>2
  <2>5. i \in 1..n /\ i - 1 \in 0..n /\ ~(i <= i - 1)
    BY <1>0, <2>4
  <2>6. i - 1 \notin Wrong
    <3> HIDE DEF Wrong
    <3> QED
      BY <2>3, <2>5
  <2>7. Good(i - 1)
    BY <2>5, <2>6
  <2> QED
    BY <1>3, <2>4, <2>5, <2>7
<1>5. Good(n)
  <2>1. n \in 0..n
    BY <1>0
  <2> QED
    BY <1>4, <2>1
<1> QED
  BY <1>1, <1>5, Zenon DEF Good

(* A removal only takes keys away, and never one of the broker's. *)
LEMMA RemovedFacts ==
  ASSUME NEW f, EntriesSound(f), Anchored(f), NEW p \in Patterns
  PROVE  EntriesSound(Removed(f, p)) /\ Anchored(Removed(f, p))
<1>1. CASE RemovalFault(p) # "ok"
  BY <1>1 DEF Removed
<1>2. CASE RemovalFault(p) = "ok"
  <2> DEFINE g == Removed(f, p)
  <2>1. g = [k \in {x \in DOMAIN f : ~MatchesPrefix(p.path, x)} |-> f[k]]
    BY <1>2 DEF Removed
  <2>2. /\ DOMAIN g = {x \in DOMAIN f : ~MatchesPrefix(p.path, x)}
        /\ \A k \in DOMAIN g : k \in DOMAIN f /\ g[k] = f[k]
    BY <2>1
  <2> HIDE DEF g
  <2>3. Counted(g) \subseteq Counted(f)
    BY <2>2 DEF Counted
  <2>4. IsFiniteSet(Counted(f)) /\ Cardinality(Counted(f)) <= MaxKeys
    BY DEF EntriesSound
  <2>5. /\ IsFiniteSet(Counted(g)) /\ Cardinality(Counted(g)) <= Cardinality(Counted(f))
    BY <2>3, <2>4, FS_Subset
  <2>6. Cardinality(Counted(g)) \in Nat /\ Cardinality(Counted(f)) \in Nat
    BY <2>4, <2>5, FS_CardinalityType
  <2>7. Cardinality(Counted(g)) <= MaxKeys
    BY <2>4, <2>5, <2>6, CapAssumption
  <2>8. EntriesSound(g)
    BY <2>2, <2>5, <2>7 DEF EntriesSound
  <2>9. p.path \in Seq(STRING)
    BY PatternAssumption
  <2>10. KeyFault(p, FALSE) = "ok" /\ ~IsReserved(p.path)
    BY <1>2 DEF RemovalFault
  <2>11. p.path # <<>>
    BY <2>10 DEF KeyFault
  <2>12. Len(p.path) > 0 /\ 1 \in 1..Len(p.path) /\ p.path[1] # "logmon"
    BY <2>9, <2>10, <2>11 DEF IsReserved
  <2>13. ASSUME NEW name PROVE ~MatchesPrefix(p.path, ReservedKey(name))
    <3>1. ReservedKey(name)[1] = "logmon"
      BY DEF ReservedKey
    <3> HIDE DEF ReservedKey
    <3> QED
      BY <2>12, <3>1 DEF MatchesPrefix
  <2>14. Anchored(g)
    BY <2>2, <2>13 DEF Anchored
  <2> QED
    BY <2>8, <2>14 DEF g
<1> QED
  BY <1>1, <1>2

LEMMA StampFacts ==
  ASSUME NEW f, EntriesSound(f), NEW name, NEW t
  PROVE  /\ EntriesSound(Stamp(f, name, t))
         /\ DOMAIN Stamp(f, name, t) = DOMAIN f \cup {ReservedKey(name)}
<1> DEFINE k == ReservedKey(name)
           v == IF k \in DOMAIN f THEN Touched(f[k], Keep, Keep, t)
                ELSE Fresh("stamp", Keep, t)
<1>1. Len(k) > 0 /\ IsReserved(k)
  BY DEF ReservedKey, IsReserved
<1> HIDE DEF k
<1>2. v.value = "stamp"
  <2>1. CASE k \in DOMAIN f
    BY <1>1, <2>1 DEF Touched, EntriesSound
  <2>2. CASE k \notin DOMAIN f
    BY <2>2 DEF Fresh
  <2> QED
    BY <2>1, <2>2
<1>3. Stamp(f, name, t) = Put(f, k, v)
  BY DEF Stamp, k
<1> HIDE DEF v
<1>4. EntriesSound(Put(f, k, v))
  BY <1>1, <1>2, PutSound
<1>5. DOMAIN Put(f, k, v) = DOMAIN f \cup {k}
  BY DEF Put
<1> QED
  BY <1>3, <1>4, <1>5 DEF k

LEMMA StampedFacts ==
  ASSUME NEW f, EntriesSound(f), NEW t
  PROVE  EntriesSound(Stamped(f, t)) /\ Anchored(Stamped(f, t))
<1> DEFINE a == Stamp(f, "domain", t)
           b == Stamp(a, "version", t)
           c == Stamp(b, "first_seen", t)
           d == Stamp(c, "incarnation", t)
<1>1. Stamped(f, t) = IF f = NoEntries THEN d ELSE b
  BY DEF Stamped
<1>2. EntriesSound(a) /\ DOMAIN a = DOMAIN f \cup {ReservedKey("domain")}
  BY StampFacts
<1> HIDE DEF a
<1>3. EntriesSound(b) /\ DOMAIN b = DOMAIN a \cup {ReservedKey("version")}
  BY <1>2, StampFacts
<1> HIDE DEF b
<1>4. EntriesSound(c) /\ DOMAIN c = DOMAIN b \cup {ReservedKey("first_seen")}
  BY <1>3, StampFacts
<1> HIDE DEF c
<1>5. EntriesSound(d) /\ DOMAIN d = DOMAIN c \cup {ReservedKey("incarnation")}
  BY <1>4, StampFacts
<1> HIDE DEF d
<1>6. Anchored(b) /\ Anchored(d)
  BY <1>2, <1>3, <1>4, <1>5 DEF Anchored
<1> QED
  BY <1>1, <1>3, <1>5, <1>6

LEMMA NoEntriesSound == EntriesSound(NoEntries)
<1>1. DOMAIN NoEntries = {}
  BY DEF NoEntries
<1>2. Counted(NoEntries) = {}
  BY <1>1 DEF Counted
<1>3. IsFiniteSet({}) /\ Cardinality({}) = 0
  BY FS_EmptySet
<1> QED
  BY <1>1, <1>2, <1>3, CapAssumption DEF EntriesSound
-----------------------------------------------------------------------------
(* The invariant, step by step. *)

LEMMA ProvInitInv == ProvInit => ProvInv
<1> SUFFICES ASSUME ProvInit PROVE ProvInv
  OBVIOUS
<1>1. mem.open = FALSE /\ file.kind = "missing"
  BY DEF ProvInit, Closed, MissingFile
<1>2. DOMAIN wr = Writers /\ \A w \in Writers : wr[w].pc = "idle"
  BY DEF ProvInit, NoRequest
<1> QED
  BY <1>1, <1>2 DEF ProvInv, ProvTyped, FileIsMemory

LEMMA OpenInv == ProvInv /\ Open => ProvInv'
<1> SUFFICES ASSUME ProvInv, Open PROVE ProvInv'
  OBVIOUS
<1> DEFINE entries == Stamped(LoadedEntries, now)
<1>1. EntriesSound(LoadedEntries)
  BY NoEntriesSound DEF LoadedEntries, ProvInv
<1>2. EntriesSound(entries) /\ Anchored(entries)
  BY <1>1, StampedFacts
<1>3. /\ ~mem.open /\ wr' = wr
      /\ mem' = [open |-> TRUE, entries |-> entries, quarantined |-> file = BadFile]
      /\ \/ file' = Saved(entries) /\ unsaved' = FALSE
         \/ /\ file' = IF file = BadFile THEN MissingFile ELSE file
            /\ unsaved' = TRUE
  BY DEF Open
<1> HIDE DEF entries
<1>4. /\ mem'.open = TRUE /\ mem'.entries = entries
      /\ DOMAIN mem' = {"open", "entries", "quarantined"}
  BY <1>3
<1>5. \A w \in Writers : wr[w].pc = "idle"
  BY <1>3 DEF ProvInv, ProvTyped
<1>6. file'.kind = "saved" => EntriesSound(file'.entries)
  <2>1. CASE file' = Saved(entries)
    BY <1>2, <2>1 DEF Saved
  <2>2. CASE file' = IF file = BadFile THEN MissingFile ELSE file
    BY <2>2 DEF MissingFile, ProvInv
  <2> QED
    BY <1>3, <2>1, <2>2
<1>7. FileIsMemory'
  BY <1>3, <1>4, Zenon DEF FileIsMemory
<1>8. ProvTyped'
  BY <1>3, <1>4, <1>5 DEF ProvInv, ProvTyped
<1> QED
  BY <1>2, <1>3, <1>4, <1>5, <1>6, <1>7, <1>8 DEF ProvInv

(* A request comes in: only its own record changes. *)
LEMMA AskInv ==
  ASSUME ProvInv, NEW w \in Writers, wr[w] = NoRequest, mem.open,
         DOMAIN wr' = Writers, \A u \in Writers : u # w => wr'[u] = wr[u],
         wr'[w].pc \in {"wait", "remove"},
         wr'[w].pc = "wait" => wr'[w].batch \in Batches,
         wr'[w].pc = "remove" => wr'[w].pattern \in Patterns,
         UNCHANGED <<mem, file, mutex, unsaved>>
  PROVE  ProvInv'
<1>2. wr[w].pc = "idle"
  BY DEF NoRequest
<1>3. ProvTyped'
  BY DEF ProvInv, ProvTyped
<1>4. FileIsMemory'
  <2>1. (\A u \in Writers : wr'[u].pc # "write") => \A u \in Writers : wr[u].pc # "write"
    BY <1>2
  <2> QED
    BY <2>1, Zenon DEF FileIsMemory, ProvInv
<1>5. \A u \in Writers : wr'[u].pc = "write" => u # w
  OBVIOUS
<1> QED
  BY <1>3, <1>4, <1>5 DEF ProvInv

(* The memory changed and serialised, under the mutex. *)
LEMMA WriteInv ==
  ASSUME ProvInv, NEW w \in Writers, wr[w].pc # "idle", NEW f, NEW batch, NEW outs,
         Write(w, f, batch, outs), EntriesSound(f), Anchored(f),
         DOMAIN batch = 1..Len(batch), Answered(batch, outs, f, Len(batch))
  PROVE  ProvInv'
<1>1. mem.open
  BY DEF ProvInv, ProvTyped
<1>2. \A u \in Writers : wr[u].pc # "write"
  BY WriterAssumption DEF ProvInv, Write, MutexFree
<1> DEFINE req == [pc |-> "write", bytes |-> f, batch |-> batch, outs |-> outs]
<1>3. /\ DOMAIN wr' = Writers /\ wr'[w] = req
      /\ \A u \in Writers : u # w => wr'[u] = wr[u]
  BY DEF ProvInv, ProvTyped, Write
<1>4. /\ req.pc = "write" /\ req.bytes = f /\ req.batch = batch /\ req.outs = outs
  OBVIOUS
<1> HIDE DEF req
<1>5. /\ mem'.open = mem.open /\ mem'.entries = f /\ DOMAIN mem' = DOMAIN mem
  BY <1>1 DEF ProvInv, ProvTyped, Write
<1>6. file' = file /\ mutex' = w
  BY DEF Write
<1>7. ProvTyped'
  BY <1>3, <1>4, <1>5, <1>1 DEF ProvInv, ProvTyped
<1>8. FileIsMemory'
  <2>1. wr'[w].pc = "write"
    BY <1>3, <1>4
  <2> QED
    BY <2>1, Zenon DEF FileIsMemory
<1>9. ASSUME NEW u \in Writers, wr'[u].pc = "write"
      PROVE  /\ mutex' = u /\ wr'[u].bytes = mem'.entries
             /\ DOMAIN wr'[u].batch = 1..Len(wr'[u].batch)
             /\ Answered(wr'[u].batch, wr'[u].outs, wr'[u].bytes, Len(wr'[u].batch))
  <2>1. u = w
    BY <1>2, <1>3, <1>9
  <2>2. wr'[u] = req
    BY <1>3, <2>1
  <2> QED
    BY <1>4, <1>5, <1>6, <2>1, <2>2
<1>10. EntriesSound(mem'.entries) /\ Anchored(mem'.entries)
  BY <1>5
<1>11. file'.kind = "saved" => EntriesSound(file'.entries)
  BY <1>6 DEF ProvInv
<1> QED
  BY <1>7, <1>8, <1>9, <1>10, <1>11, Zenon DEF ProvInv

LEMMA MutateInv == ASSUME ProvInv, NEW w \in Writers, Mutate(w) PROVE ProvInv'
<1> DEFINE batch == wr[w].batch
           r == Batch(mem.entries, batch, wr[w].at, mem.quarantined, wr[w].case)
<1>1. wr[w].pc = "wait" /\ Write(w, r.entries, batch, r.outs)
  BY DEF Mutate
<1>2. mem.open /\ batch \in Batches
  BY <1>1 DEF ProvInv, ProvTyped
<1>3. batch \in Seq(Sent)
  BY <1>2, BatchAssumption DEF Sent
<1>4. EntriesSound(mem.entries) /\ Anchored(mem.entries)
  BY <1>2 DEF ProvInv
<1>5. /\ EntriesSound(r.entries)
      /\ DOMAIN mem.entries \subseteq DOMAIN r.entries
      /\ Answered(batch, r.outs, r.entries, Len(batch))
  <2> HIDE DEF batch
  <2> QED
    BY <1>3, <1>4, BatchFacts, Zenon
<1>6. DOMAIN batch = 1..Len(batch)
  BY <1>3
<1> HIDE DEF r, batch
<1>7. Anchored(r.entries)
  BY <1>4, <1>5 DEF Anchored
<1>8. wr[w].pc # "idle"
  BY <1>1
<1> QED
  BY <1>1, <1>5, <1>6, <1>7, <1>8, WriteInv, Zenon

LEMMA PruneInv == ASSUME ProvInv, NEW w \in Writers, Prune(w) PROVE ProvInv'
<1> DEFINE g == Removed(mem.entries, wr[w].pattern)
<1>1. wr[w].pc = "remove" /\ Write(w, g, <<>>, <<>>)
  BY DEF Prune
<1>2. mem.open /\ wr[w].pattern \in Patterns
  BY <1>1 DEF ProvInv, ProvTyped
<1>3. EntriesSound(mem.entries) /\ Anchored(mem.entries)
  BY <1>2 DEF ProvInv
<1>4. EntriesSound(g) /\ Anchored(g)
  BY <1>2, <1>3, RemovedFacts
<1> HIDE DEF g
<1>5. DOMAIN <<>> = 1..Len(<<>>) /\ 1..Len(<<>>) = {}
  OBVIOUS
<1>6. Answered(<<>>, <<>>, g, Len(<<>>))
  BY <1>5, Zenon DEF Answered
<1>7. wr[w].pc # "idle"
  BY <1>1
<1> QED
  BY <1>1, <1>4, <1>5, <1>6, <1>7, WriteInv, Zenon

(* The write ends, well or not, and the mutex is free. *)
LEMMA EndInv ==
  ASSUME ProvInv, NEW w \in Writers, Save(w) \/ SaveFails(w)
  PROVE  ProvInv'
<1>1. wr[w].pc = "write" /\ mutex = w /\ wr[w].bytes = mem.entries /\ mem.open
  BY DEF ProvInv, ProvTyped, Save, SaveFails
<1>2. mem' = mem
  BY DEF Save, SaveFails
<1>3. /\ DOMAIN wr' = Writers /\ wr'[w] = NoRequest
      /\ \A u \in Writers : u # w => wr'[u] = wr[u]
  BY DEF ProvInv, ProvTyped, Save, SaveFails
<1>4. wr'[w].pc = "idle"
  BY <1>3 DEF NoRequest
<1>5. \A u \in Writers : wr'[u].pc # "write"
  BY <1>1, <1>3, <1>4 DEF ProvInv
<1>6. \/ file' = Saved(mem.entries) /\ unsaved' = FALSE
      \/ file' = file /\ unsaved' = TRUE
  BY <1>1 DEF Save, SaveFails
<1>7. file'.kind = "saved" => EntriesSound(file'.entries)
  BY <1>1, <1>6 DEF Saved, ProvInv
<1>8. FileIsMemory'
  BY <1>2, <1>6, Zenon DEF FileIsMemory
<1>9. ProvTyped'
  BY <1>2, <1>3, <1>4 DEF ProvInv, ProvTyped
<1> QED
  BY <1>2, <1>5, <1>7, <1>8, <1>9 DEF ProvInv

LEMMA RestartInv == ProvInv /\ Restart => ProvInv'
<1> SUFFICES ASSUME ProvInv, Restart PROVE ProvInv'
  OBVIOUS
<1>1. mem'.open = FALSE
  BY DEF Restart, Closed
<1>2. DOMAIN wr' = Writers /\ \A w \in Writers : wr'[w].pc = "idle"
  BY DEF Restart, NoRequest
<1>3. file' = file
  BY DEF Restart
<1>4. FileIsMemory'
  BY <1>1, Zenon DEF FileIsMemory
<1>5. ProvTyped'
  BY <1>1, <1>2 DEF ProvTyped
<1> QED
  BY <1>1, <1>2, <1>3, <1>4, <1>5 DEF ProvInv

LEMMA LoseFileInv == ProvInv /\ LoseFile => ProvInv'
<1> SUFFICES ASSUME ProvInv, LoseFile PROVE ProvInv'
  OBVIOUS
<1>1. mem' = mem /\ wr' = wr /\ mutex' = mutex /\ ~mem.open /\ file'.kind = "bad"
  BY DEF LoseFile, BadFile
<1>2. FileIsMemory'
  BY <1>1, Zenon DEF FileIsMemory
<1>3. ProvTyped'
  BY <1>1, Zenon DEF ProvInv, ProvTyped
<1> QED
  BY <1>1, <1>2, <1>3 DEF ProvInv

LEMMA ProvStill == ProvInv /\ UNCHANGED <<mem, file, mutex, wr, unsaved>> => ProvInv'
<1> SUFFICES ASSUME ProvInv, UNCHANGED <<mem, file, mutex, wr, unsaved>> PROVE ProvInv'
  OBVIOUS
<1>1. ProvTyped'
  BY DEF ProvInv, ProvTyped
<1>2. FileIsMemory'
  BY Zenon DEF ProvInv, FileIsMemory
<1> QED
  BY <1>1, <1>2 DEF ProvInv

LEMMA ProvNextInv == ProvInv /\ [ProvNext]_provVars => ProvInv'
<1> SUFFICES ASSUME ProvInv, [ProvNext]_provVars PROVE ProvInv'
  OBVIOUS
<1>1. CASE UNCHANGED provVars \/ Tick
  <2>1. UNCHANGED <<mem, file, mutex, wr, unsaved>>
    BY <1>1 DEF provVars, Tick
  <2> QED
    BY <2>1, ProvStill
<1>2. ASSUME NEW w \in Writers, NEW b \in Batches, NEW c \in BOOLEAN, Ask(w, b, c)
      PROVE  ProvInv'
  <2> DEFINE req == [pc |-> "wait", batch |-> b, case |-> c, at |-> now]
  <2>1. /\ DOMAIN wr' = Writers /\ wr'[w] = req
        /\ \A u \in Writers : u # w => wr'[u] = wr[u]
    BY <1>2 DEF Ask, ProvInv, ProvTyped
  <2>2. wr'[w].pc = "wait" /\ wr'[w].batch = b
    BY <2>1
  <2>3. wr[w] = NoRequest /\ mem.open /\ UNCHANGED <<mem, file, mutex, unsaved>>
    BY <1>2 DEF Ask
  <2> HIDE DEF req
  <2> QED
    BY <2>1, <2>2, <2>3, AskInv
<1>3. ASSUME NEW w \in Writers, NEW p \in Patterns, AskRemoval(w, p) PROVE ProvInv'
  <2> DEFINE req == [pc |-> "remove", pattern |-> p]
  <2>1. /\ DOMAIN wr' = Writers /\ wr'[w] = req
        /\ \A u \in Writers : u # w => wr'[u] = wr[u]
    BY <1>3 DEF AskRemoval, ProvInv, ProvTyped
  <2>2. wr'[w].pc = "remove" /\ wr'[w].pattern = p
    BY <2>1
  <2>3. wr[w] = NoRequest /\ mem.open /\ UNCHANGED <<mem, file, mutex, unsaved>>
    BY <1>3 DEF AskRemoval
  <2> HIDE DEF req
  <2> QED
    BY <2>1, <2>2, <2>3, AskInv
<1>4. ASSUME NEW w \in Writers, Mutate(w) \/ Prune(w) \/ Save(w) \/ SaveFails(w)
      PROVE  ProvInv'
  BY <1>4, MutateInv, PruneInv, EndInv, Zenon
<1> QED
  BY <1>1, <1>2, <1>3, <1>4, OpenInv, RestartInv, LoseFileInv, Zenon DEF ProvNext

LEMMA ProvInvSound == ProvInv => DomainDataSound
<1> SUFFICES ASSUME ProvInv PROVE DomainDataSound
  OBVIOUS
<1>1. ReservedKept
  <2>1. ASSUME mem.open, NEW k \in DOMAIN mem.entries, k[1] = "logmon"
        PROVE  mem.entries[k].value = "stamp"
    BY <2>1 DEF ProvInv, EntriesSound, IsReserved
  <2> QED
    BY <2>1 DEF ReservedKept, ProvInv, Anchored
<1>2. KeysWithinCap
  BY DEF KeysWithinCap, ProvInv, EntriesSound
<1>3. AnswersTrue
  <2> SUFFICES ASSUME NEW w \in Writers, wr[w].pc = "write", NEW i \in DOMAIN wr[w].batch
               PROVE  LET e       == wr[w].batch[i]
                          written == wr[w].bytes
                          later   == \E j \in DOMAIN wr[w].batch :
                                       j > i /\ wr[w].batch[j].path = e.path
                      IN  CASE wr[w].outs[i].outcome \in {"created", "updated", "validated"} ->
                                 /\ e.path \in DOMAIN written
                                 /\ e.value = Keep \/ later \/ written[e.path].value = e.value
                            [] wr[w].outs[i].outcome = "unknown" ->
                                 later \/ e.path \notin DOMAIN written
                            [] OTHER -> TRUE
    BY Zenon DEF AnswersTrue
  <2> DEFINE batch == wr[w].batch
             outs == wr[w].outs
             f == wr[w].bytes
  <2>1. DOMAIN batch = 1..Len(batch) /\ Answered(batch, outs, f, Len(batch))
    BY DEF ProvInv
  <2> HIDE DEF batch, outs, f
  <2>2. i \in 1..Len(batch)
    BY <2>1 DEF batch
  <2>3. LET e == batch[i]
            later == \E j \in DOMAIN batch : j > i /\ batch[j].path = e.path
        IN  /\ outs[i].outcome \in {"created", "updated", "validated"} =>
                 /\ e.path \in DOMAIN f
                 /\ e.value = Keep \/ later \/ f[e.path].value = e.value
            /\ outs[i].outcome = "unknown" => later \/ e.path \notin DOMAIN f
    BY <2>1, <2>2, Zenon DEF Answered
  <2> QED
    BY <2>3 DEF batch, outs, f
<1> QED
  BY <1>1, <1>2, <1>3, Zenon DEF DomainDataSound, ProvInv

(* Whatever batches and removals any number of sessions send at once, and  *)
(* wherever the broker is killed or a write fails: the file is what the    *)
(* memory serves, the broker's keys stay and are its own, the agents' keys *)
(* keep to their cap, and every answer says what was written.              *)
THEOREM DomainDataIsSound == ProvSpec => []DomainDataSound
BY ProvInitInv, ProvNextInv, ProvInvSound, PTL DEF ProvSpec
-----------------------------------------------------------------------------
(* The OTLP inputs and the span ring.                                      *)
(*                                                                         *)
(* Sorting: a finite set has an enumeration in the order of a strict total *)
(* order, which InOrder therefore chooses.                                 *)

Ordering(R, S) ==
  \A a, b \in S :
    /\ <<a, a>> \notin R
    /\ a # b => <<a, b>> \in R \/ <<b, a>> \in R
    /\ \A c \in S : <<a, b>> \in R /\ <<b, c>> \in R => <<a, c>> \in R

HasLast(S, R) == \E m \in S : \A x \in S : x # m => <<x, m>> \in R

Sorted(q, S, R) ==
  /\ q \in [1..Cardinality(S) -> S]
  /\ \A i, j \in 1..Cardinality(S) : i < j => <<q[i], q[j]>> \in R

LEMMA LastExists ==
  ASSUME NEW S, IsFiniteSet(S), S # {}, NEW R, Ordering(R, S)
  PROVE  HasLast(S, R)
<1> DEFINE Lastless == {n \in Nat : \E T \in SUBSET S : T # {} /\ Cardinality(T) = n /\ ~HasLast(T, R)}
<1>1. SUFFICES Lastless = {}
  <2>1. S \in SUBSET S /\ Cardinality(S) \in Nat
    BY FS_CardinalityType
  <2> QED
    BY <1>1, <2>1
<1>2. SUFFICES ASSUME Lastless # {} PROVE FALSE
  OBVIOUS
<1>3. PICK n \in Lastless : \A y \in Lastless : n <= y
  <2>1. Lastless \subseteq Nat
    OBVIOUS
  <2> HIDE DEF Lastless
  <2> QED
    BY <1>2, <2>1, LeastExists
<1>4. PICK T \in SUBSET S : T # {} /\ Cardinality(T) = n /\ ~HasLast(T, R)
  BY <1>3
<1>5. PICK x \in T : TRUE
  BY <1>4
<1> DEFINE U == T \ {x}
<1>6. IsFiniteSet(T) /\ n \in Nat
  BY <1>3, <1>4, FS_Subset
<1>7. Cardinality(U) = n - 1 /\ Cardinality(U) \in Nat
  <2>1. IsFiniteSet(U) /\ Cardinality(U) = n - 1
    BY <1>4, <1>5, <1>6, FS_RemoveElement
  <2> QED
    BY <2>1, FS_CardinalityType
<1>8. CASE U = {}
  <2>1. \A y \in T : y = x
    BY <1>8
  <2> QED
    BY <1>4, <1>5, <2>1 DEF HasLast
<1>9. CASE U # {}
  <2>1. n - 1 \notin Lastless
    <3>1. n \in Nat /\ ~(n <= n - 1)
      BY <1>6
    <3> QED
      BY <1>3, <3>1
  <2>2. HasLast(U, R)
    BY <1>7, <1>9, <2>1
  <2>3. PICK m \in U : \A y \in U : y # m => <<y, m>> \in R
    BY <2>2 DEF HasLast
  <2>4. m \in T /\ m # x /\ m \in S /\ x \in S
    BY <1>4, <1>5, <2>3
  <2>5. CASE <<x, m>> \in R
    <3>1. \A y \in T : y # m => <<y, m>> \in R
      BY <2>3, <2>5
    <3> QED
      BY <1>4, <2>4, <3>1 DEF HasLast
  <2>6. CASE <<m, x>> \in R
    <3>1. \A y \in T : y # x => <<y, x>> \in R
      <4>1. TAKE y \in T
      <4>2. HAVE y # x
      <4>3. y \in U /\ y \in S
        BY <4>2
      <4> QED
        BY <2>3, <2>4, <2>6, <4>3 DEF Ordering
    <3> QED
      BY <1>4, <1>5, <3>1 DEF HasLast
  <2> QED
    BY <2>4, <2>5, <2>6 DEF Ordering
<1> QED
  BY <1>8, <1>9

LEMMA SortedExists ==
  ASSUME NEW S, IsFiniteSet(S), NEW R, Ordering(R, S)
  PROVE  \E q : Sorted(q, S, R)
<1> DEFINE Unsorted == {n \in Nat : \E T \in SUBSET S : Cardinality(T) = n /\ ~\E q : Sorted(q, T, R)}
<1>1. SUFFICES Unsorted = {}
  <2>1. S \in SUBSET S /\ Cardinality(S) \in Nat
    BY FS_CardinalityType
  <2> QED
    BY <1>1, <2>1
<1>2. SUFFICES ASSUME Unsorted # {} PROVE FALSE
  OBVIOUS
<1>3. PICK n \in Unsorted : \A y \in Unsorted : n <= y
  <2>1. Unsorted \subseteq Nat
    OBVIOUS
  <2> HIDE DEF Unsorted
  <2> QED
    BY <1>2, <2>1, LeastExists
<1>4. PICK T \in SUBSET S : Cardinality(T) = n /\ ~\E q : Sorted(q, T, R)
  BY <1>3
<1>5. IsFiniteSet(T) /\ n \in Nat
  BY <1>3, <1>4, FS_Subset
<1>6. T # {}
  <2>1. SUFFICES ASSUME T = {} PROVE FALSE
    OBVIOUS
  <2>2. Cardinality(T) = 0
    BY <2>1, FS_EmptySet
  <2>3. [i \in 1..0 |-> i] \in [1..Cardinality(T) -> T] /\ 1..Cardinality(T) = {}
    BY <2>2
  <2>4. Sorted([i \in 1..0 |-> i], T, R)
    BY <2>3 DEF Sorted
  <2> QED
    BY <1>4, <2>4
<1>7. PICK m \in T : \A x \in T : x # m => <<x, m>> \in R
  <2>1. Ordering(R, T)
    BY <1>4 DEF Ordering
  <2> QED
    BY <1>5, <1>6, <2>1, LastExists DEF HasLast
<1> DEFINE U == T \ {m}
<1>8. Cardinality(U) = n - 1 /\ Cardinality(U) \in Nat
  <2>1. IsFiniteSet(U) /\ Cardinality(U) = n - 1
    BY <1>4, <1>5, <1>7, FS_RemoveElement
  <2> QED
    BY <2>1, FS_CardinalityType
<1>9. n - 1 \notin Unsorted
  <2>1. n \in Nat /\ ~(n <= n - 1)
    BY <1>5
  <2> QED
    BY <1>3, <2>1
<1>10. PICK q : Sorted(q, U, R)
  BY <1>4, <1>8, <1>9
<1>11. /\ q \in [1..(n - 1) -> U]
       /\ \A i, j \in 1..(n - 1) : i < j => <<q[i], q[j]>> \in R
  BY <1>8, <1>10 DEF Sorted
<1> DEFINE w == [i \in 1..n |-> IF i = n THEN m ELSE q[i]]
<1>12. \A i \in 1..n : i # n => i \in 1..(n - 1) /\ q[i] \in U /\ w[i] = q[i]
  BY <1>5, <1>8, <1>11
<1>13. n \in 1..n /\ w[n] = m
  BY <1>5, <1>8
<1>14. w \in [1..n -> T]
  BY <1>7, <1>12
<1>15. \A i, j \in 1..n : i < j => <<w[i], w[j]>> \in R
  <2>1. TAKE i, j \in 1..n
  <2>2. HAVE i < j
  <2>3. i # n /\ w[i] = q[i] /\ i \in 1..(n - 1) /\ q[i] \in T /\ q[i] # m
    <3>1. i # n
      BY <1>5, <2>2
    <3> HIDE DEF w
    <3> QED
      BY <1>12, <3>1
  <2>4. CASE j = n
    <3> HIDE DEF w
    <3> QED
      BY <1>7, <1>13, <2>3, <2>4
  <2>5. CASE j # n
    <3>1. j \in 1..(n - 1) /\ w[j] = q[j]
      BY <1>12, <2>5
    <3> HIDE DEF w
    <3> QED
      BY <1>11, <2>2, <2>3, <3>1
  <2> QED
    BY <2>4, <2>5
<1>16. Sorted(w, T, R)
  <2> HIDE DEF w
  <2> QED
    BY <1>4, <1>14, <1>15 DEF Sorted
<1> QED
  BY <1>4, <1>16

(* What InOrder gives: every member once. *)
LEMMA InOrderFacts ==
  ASSUME NEW S, IsFiniteSet(S), NEW R, Ordering(R, S)
  PROVE  /\ Sorted(InOrder(S, R), S, R)
         /\ Cardinality(S) \in Nat
         /\ InOrder(S, R) \in Seq(S)
         /\ Len(InOrder(S, R)) = Cardinality(S)
         /\ \A x \in S : \E i \in 1..Cardinality(S) : InOrder(S, R)[i] = x
<1> DEFINE n == Cardinality(S)
           q == InOrder(S, R)
<1>1. n \in Nat
  BY FS_CardinalityType
<1>2. Sorted(q, S, R)
  <2>1. \E w \in [1..n -> S] : \A i, j \in 1..n : i < j => <<w[i], w[j]>> \in R
    BY SortedExists DEF Sorted
  <2> QED
    BY <2>1 DEF InOrder, Sorted
<1> HIDE DEF q
<1>3. q \in [1..n -> S] /\ \A i, j \in 1..n : i < j => <<q[i], q[j]>> \in R
  BY <1>2 DEF Sorted
<1>4. q \in Seq(S) /\ Len(q) = n
  BY <1>1, <1>3
<1>5. \A i, j \in 1..n : q[i] = q[j] => i = j
  <2>1. TAKE i, j \in 1..n
  <2>2. q[i] \in S /\ q[j] \in S
    BY <1>3
  <2>3. <<q[i], q[i]>> \notin R /\ <<q[j], q[j]>> \notin R
    BY <2>2 DEF Ordering
  <2>4. i < j \/ j < i \/ i = j
    BY <1>1
  <2> QED
    BY <1>3, <2>3, <2>4
<1>6. q \in Surjection(1..n, S)
  <2>1. q \in Injection(1..n, S)
    BY <1>3, <1>5 DEF Injection, IsInjective
  <2>2. Cardinality(1..n) = n
    BY <1>1, FS_Interval
  <2> QED
    BY <2>1, <2>2, FS_Injection
<1>7. \A x \in S : \E i \in 1..n : q[i] = x
  BY <1>6 DEF Surjection
<1> QED
  BY <1>1, <1>2, <1>4, <1>7 DEF q

(* The ring: ascending, exactly the stored spans at or above the floor,    *)
(* with the index its spans give.                                          *)

IndexOf(B) == [t \in {s.trace : s \in B} |-> {s.seq : s \in {m \in B : m.trace = t}}]

OneEach(B) == \A a, b \in B : a.seq = b.seq => a = b

Ascending(q) == \A i, j \in DOMAIN q : i < j => q[i].seq < q[j].seq

RingSound ==
  /\ number \in Nat /\ lostBelow \in Nat
  /\ buffer \in Seq(Spans) /\ Len(buffer) <= SpanCapacity
  /\ stored \subseteq Spans /\ IsFiniteSet(stored)
  /\ \A s \in stored : s.seq <= number
  /\ OneEach(stored)
  /\ Ascending(buffer)
  /\ ToSet(buffer) = {s \in stored : s.seq >= lostBelow}
  /\ lostBelow > 0 => \E s \in stored : s.seq = lostBelow - 1
  /\ traceIndex = IndexOf(ToSet(buffer))

LEMMA IndexForget ==
  ASSUME NEW B, OneEach(B), NEW s \in B
  PROVE  Forget(IndexOf(B), s) = IndexOf(B \ {s})
<1> DEFINE t0 == s.trace
           rest == IndexOf(B)[t0] \ {s.seq}
           F == Forget(IndexOf(B), s)
           G == IndexOf(B \ {s})
           Of(C, t) == {m \in C : m.trace = t}
<1>1. DOMAIN IndexOf(B) = {m.trace : m \in B} /\ t0 \in DOMAIN IndexOf(B)
  BY DEF IndexOf
<1>2. \A t \in {m.trace : m \in B} : IndexOf(B)[t] = {m.seq : m \in Of(B, t)}
  BY DEF IndexOf
<1>3. rest = {m.seq : m \in Of(B \ {s}, t0)}
  <2>1. \A m \in B : m.seq = s.seq <=> m = s
    BY DEF OneEach
  <2> QED
    BY <1>1, <1>2, <2>1
<1>4. rest = {} <=> ~\E m \in B \ {s} : m.trace = t0
  BY <1>3
<1>5. DOMAIN F = IF rest = {} THEN {m.trace : m \in B} \ {t0} ELSE {m.trace : m \in B}
  BY <1>1 DEF Forget
<1>6. DOMAIN G = {m.trace : m \in B \ {s}}
  BY DEF IndexOf
<1>7. DOMAIN F = DOMAIN G
  <2>1. CASE rest = {}
    <3> HIDE DEF rest
    <3> QED
      BY <1>4, <1>5, <1>6, <2>1
  <2>2. CASE rest # {}
    <3> HIDE DEF rest
    <3> QED
      BY <1>4, <1>5, <1>6, <2>2
  <2> QED
    BY <2>1, <2>2
<1>8. \A t \in DOMAIN F : F[t] = IF t = t0 THEN rest ELSE IndexOf(B)[t]
  BY DEF Forget
<1>9. \A t \in DOMAIN G : G[t] = {m.seq : m \in Of(B \ {s}, t)}
  BY DEF IndexOf
<1>10. \A t \in DOMAIN G : F[t] = G[t]
  <2>1. TAKE t \in DOMAIN G
  <2>2. F[t] = IF t = t0 THEN rest ELSE IndexOf(B)[t]
    BY <1>7, <1>8
  <2>3. CASE t = t0
    BY <1>3, <1>9, <2>2, <2>3
  <2>4. CASE t # t0
    <3>1. Of(B, t) = Of(B \ {s}, t)
      BY <2>4
    <3>2. t \in {m.trace : m \in B}
      BY <1>6
    <3> QED
      BY <1>2, <1>9, <2>2, <2>4, <3>1, <3>2
  <2> QED
    BY <2>3, <2>4
<1>11. F = [t \in DOMAIN F |-> F[t]] /\ G = [t \in DOMAIN G |-> G[t]]
  BY DEF Forget, IndexOf
<1> HIDE DEF F, G
<1>12. F = G
  BY <1>7, <1>10, <1>11
<1> QED
  BY <1>12 DEF F, G

LEMMA IndexAdd ==
  ASSUME NEW B, NEW s
  PROVE  Index(IndexOf(B), s) = IndexOf(B \cup {s})
<1> DEFINE F == Index(IndexOf(B), s)
           G == IndexOf(B \cup {s})
           Of(C, t) == {m \in C : m.trace = t}
<1>1. DOMAIN IndexOf(B) = {m.trace : m \in B}
  BY DEF IndexOf
<1>2. \A t \in {m.trace : m \in B} : IndexOf(B)[t] = {m.seq : m \in Of(B, t)}
  BY DEF IndexOf
<1>3. DOMAIN F = {m.trace : m \in B} \cup {s.trace}
  BY <1>1 DEF Index
<1>4. DOMAIN G = {m.trace : m \in B \cup {s}}
  BY DEF IndexOf
<1>5. DOMAIN F = DOMAIN G
  BY <1>3, <1>4
<1>6. \A t \in DOMAIN G : G[t] = {m.seq : m \in Of(B \cup {s}, t)}
  BY DEF IndexOf
<1>7. \A t \in DOMAIN F :
        F[t] = IF t # s.trace THEN IndexOf(B)[t]
               ELSE IF t \in {m.trace : m \in B} THEN IndexOf(B)[t] \cup {s.seq} ELSE {s.seq}
  BY <1>1 DEF Index
<1>8. \A t \in DOMAIN F : F[t] = G[t]
  <2>1. TAKE t \in DOMAIN F
  <2>2. G[t] = {m.seq : m \in Of(B \cup {s}, t)}
    BY <1>5, <1>6
  <2>3. CASE t # s.trace
    <3>1. Of(B \cup {s}, t) = Of(B, t) /\ t \in {m.trace : m \in B}
      BY <1>3, <2>3
    <3>2. F[t] = IndexOf(B)[t]
      BY <1>7, <2>3
    <3> QED
      BY <1>2, <2>2, <3>1, <3>2
  <2>4. CASE t = s.trace /\ t \in {m.trace : m \in B}
    <3>1. Of(B \cup {s}, t) = Of(B, t) \cup {s}
      BY <2>4
    <3>2. F[t] = {m.seq : m \in Of(B, t)} \cup {s.seq}
      BY <1>2, <1>7, <2>4
    <3> HIDE DEF Of
    <3>3. {m.seq : m \in Of(B, t) \cup {s}} = {m.seq : m \in Of(B, t)} \cup {s.seq}
      OBVIOUS
    <3> QED
      BY <2>2, <3>1, <3>2, <3>3
  <2>5. CASE t = s.trace /\ t \notin {m.trace : m \in B}
    <3>1. Of(B \cup {s}, t) = {s}
      BY <2>5
    <3>2. F[t] = {s.seq}
      BY <1>7, <2>5
    <3> QED
      BY <2>2, <3>1, <3>2
  <2> QED
    BY <2>3, <2>4, <2>5
<1>9. F = [t \in DOMAIN F |-> F[t]] /\ G = [t \in DOMAIN G |-> G[t]]
  BY DEF Index, IndexOf
<1> HIDE DEF F, G
<1>10. F = G
  BY <1>5, <1>8, <1>9
<1> QED
  BY <1>10 DEF F, G

LEMMA TailFacts ==
  ASSUME NEW q \in Seq(Spans), Ascending(q), q # <<>>
  PROVE  /\ q[1] \in ToSet(q) /\ q[1] \in Spans
         /\ Tail(q) \in Seq(Spans) /\ Len(Tail(q)) = Len(q) - 1
         /\ Ascending(Tail(q))
         /\ ToSet(Tail(q)) = ToSet(q) \ {q[1]}
         /\ \A x \in ToSet(Tail(q)) : x.seq > q[1].seq
<1> DEFINE n == Len(q)
           r == Tail(q)
<1>1. n \in Nat /\ n > 0 /\ DOMAIN q = 1..n /\ 1 \in 1..n
  OBVIOUS
<1>2. r \in Seq(Spans) /\ Len(r) = n - 1 /\ DOMAIN r = 1..(n - 1)
  BY <1>1
<1>3. \A i \in 1..(n - 1) : r[i] = q[i + 1]
  BY <1>1
<1>4. \A i \in 1..n : q[i] \in Spans
  BY <1>1
<1>5. \A i, j \in 1..n : i < j => q[i].seq < q[j].seq
  BY <1>1 DEF Ascending
<1> HIDE DEF r, n
<1>6. Ascending(r)
  <2>1. SUFFICES ASSUME NEW i \in 1..(n - 1), NEW j \in 1..(n - 1), i < j
                 PROVE  r[i].seq < r[j].seq
    BY <1>2 DEF Ascending
  <2>2. i + 1 \in 1..n /\ j + 1 \in 1..n /\ i + 1 < j + 1
    BY <1>1, <2>1
  <2> QED
    BY <1>3, <1>5, <2>2
<1>7. \A x \in ToSet(r) : \E i \in 2..n : x = q[i]
  <2>1. TAKE x \in ToSet(r)
  <2>2. PICK i \in 1..(n - 1) : x = r[i]
    BY <1>2 DEF ToSet
  <2>3. i + 1 \in 2..n
    BY <1>1
  <2> QED
    BY <1>3, <2>2, <2>3
<1>8. \A i \in 2..n : q[i] \in ToSet(r)
  <2>1. TAKE i \in 2..n
  <2>2. i - 1 \in 1..(n - 1) /\ (i - 1) + 1 = i
    BY <1>1
  <2> QED
    BY <1>2, <1>3, <2>2 DEF ToSet
<1>9. \A i \in 2..n : i \in 1..n /\ q[1].seq < q[i].seq
  BY <1>1, <1>5
<1>10. \A x \in ToSet(r) : x.seq > q[1].seq
  <2>1. TAKE x \in ToSet(r)
  <2>2. PICK i \in 2..n : x = q[i]
    BY <1>7
  <2>3. q[i] \in Spans /\ q[1] \in Spans /\ q[1].seq < q[i].seq
    BY <1>1, <1>4, <1>9
  <2> QED
    BY <2>2, <2>3 DEF Spans
<1>11. ToSet(r) = ToSet(q) \ {q[1]}
  <2>1. \A x \in ToSet(r) : x \in ToSet(q) /\ x # q[1]
    <3>1. TAKE x \in ToSet(r)
    <3>2. PICK i \in 2..n : x = q[i]
      BY <1>7
    <3>3. q[i] \in Spans /\ q[1] \in Spans /\ q[1].seq < q[i].seq
      BY <1>1, <1>4, <1>9
    <3>4. q[i] # q[1]
      BY <3>3 DEF Spans
    <3> QED
      BY <1>1, <1>9, <3>2, <3>4 DEF ToSet
  <2>2. \A x \in ToSet(q) : x # q[1] => x \in ToSet(r)
    <3>1. TAKE x \in ToSet(q)
    <3>2. HAVE x # q[1]
    <3>3. PICK i \in 1..n : x = q[i]
      BY <1>1 DEF ToSet
    <3>4. i \in 2..n
      BY <1>1, <3>2, <3>3
    <3> QED
      BY <1>8, <3>3, <3>4
  <2> QED
    BY <2>1, <2>2
<1>12. q[1] \in ToSet(q) /\ q[1] \in Spans
  BY <1>1, <1>4 DEF ToSet
<1> QED
  BY <1>2, <1>6, <1>10, <1>11, <1>12 DEF r, n

LEMMA AppendFacts ==
  ASSUME NEW q \in Seq(Spans), Ascending(q), NEW s \in Spans, \A x \in ToSet(q) : x.seq < s.seq
  PROVE  /\ Append(q, s) \in Seq(Spans) /\ Len(Append(q, s)) = Len(q) + 1
         /\ Ascending(Append(q, s))
         /\ ToSet(Append(q, s)) = ToSet(q) \cup {s}
<1> DEFINE n == Len(q)
           r == Append(q, s)
<1>1. n \in Nat /\ DOMAIN q = 1..n
  OBVIOUS
<1>2. r \in Seq(Spans) /\ Len(r) = n + 1 /\ DOMAIN r = 1..(n + 1)
  BY <1>1
<1>3. (\A i \in 1..n : r[i] = q[i]) /\ r[n + 1] = s
  BY <1>1
<1>4. \A i \in 1..n : q[i] \in ToSet(q)
  BY <1>1 DEF ToSet
<1>5. \A i, j \in 1..n : i < j => q[i].seq < q[j].seq
  BY <1>1 DEF Ascending
<1> HIDE DEF r, n
<1>6. Ascending(r)
  <2>1. SUFFICES ASSUME NEW i \in 1..(n + 1), NEW j \in 1..(n + 1), i < j
                 PROVE  r[i].seq < r[j].seq
    BY <1>2 DEF Ascending
  <2>2. i \in 1..n /\ (j \in 1..n \/ j = n + 1)
    BY <1>1, <2>1
  <2> QED
    BY <1>3, <1>4, <1>5, <2>1, <2>2
<1>7. ToSet(r) = ToSet(q) \cup {s}
  <2>1. \A x \in ToSet(r) : x \in ToSet(q) \cup {s}
    <3>1. TAKE x \in ToSet(r)
    <3>2. PICK i \in 1..(n + 1) : x = r[i]
      BY <1>2 DEF ToSet
    <3>3. i \in 1..n \/ i = n + 1
      BY <1>1
    <3> QED
      BY <1>3, <1>4, <3>2, <3>3
  <2>2. \A x \in ToSet(q) : x \in ToSet(r)
    <3>1. TAKE x \in ToSet(q)
    <3>2. PICK i \in 1..n : x = q[i]
      BY <1>1 DEF ToSet
    <3>3. i \in 1..(n + 1)
      BY <1>1
    <3> QED
      BY <1>2, <1>3, <3>2, <3>3 DEF ToSet
  <2>3. s \in ToSet(r)
    <3>1. n + 1 \in 1..(n + 1)
      BY <1>1
    <3> QED
      BY <1>2, <1>3, <3>1 DEF ToSet
  <2> QED
    BY <2>1, <2>2, <2>3
<1> QED
  BY <1>2, <1>6, <1>7 DEF r, n

(* The numbered span is new, and above everything the ring has seen. *)
LEMMA StoreFacts ==
  ASSUME RingSound, NEW span \in SentSpans, NEW s, s = [span EXCEPT !.seq = number + 1]
  PROVE  /\ s \in Spans /\ s.seq = number + 1 /\ s \notin stored
         /\ stored \cup {s} \subseteq Spans
         /\ IsFiniteSet(stored \cup {s})
         /\ Cardinality(stored \cup {s}) = Cardinality(stored) + 1
         /\ \A x \in stored \cup {s} : x.seq <= number + 1
         /\ OneEach(stored \cup {s})
         /\ \A x \in stored : x.seq < s.seq
         /\ ToSet(buffer) \subseteq stored
         /\ lostBelow <= number + 1
<1>1. /\ number \in Nat /\ lostBelow \in Nat /\ stored \subseteq Spans /\ IsFiniteSet(stored)
      /\ \A x \in stored : x.seq <= number /\ x.seq \in Nat
      /\ OneEach(stored)
      /\ ToSet(buffer) \subseteq stored
      /\ lostBelow > 0 => \E x \in stored : x.seq = lostBelow - 1
  BY DEF RingSound, Spans
<1>2. s \in Spans /\ s.seq = number + 1
  BY <1>1 DEF SentSpans, Spans
<1>3. \A x \in stored : x.seq < s.seq /\ x.seq # s.seq
  BY <1>1, <1>2
<1>4. s \notin stored
  BY <1>3
<1>5. OneEach(stored \cup {s})
  <2>1. SUFFICES ASSUME NEW a \in stored \cup {s}, NEW b \in stored \cup {s}, a.seq = b.seq
                 PROVE  a = b
    BY DEF OneEach
  <2> QED
    BY <1>1, <1>3, <2>1 DEF OneEach
<1>6. \A x \in stored \cup {s} : x.seq <= number + 1
  <2>1. \A x \in stored : x.seq <= number + 1
    BY <1>1
  <2>2. s.seq <= number + 1
    BY <1>1, <1>2
  <2> QED
    BY <2>1, <2>2
<1>7. lostBelow <= number + 1
  BY <1>1
<1>8. IsFiniteSet(stored \cup {s}) /\ Cardinality(stored \cup {s}) = Cardinality(stored) + 1
  BY <1>1, <1>4, FS_AddElement
<1> QED
  BY <1>1, <1>2, <1>3, <1>4, <1>5, <1>6, <1>7, <1>8

LEMMA InsertInv ==
  ASSUME RingSound, NEW span \in SentSpans, Insert(span)
  PROVE  RingSound' /\ Cardinality(stored') = Cardinality(stored) + 1
<1> DEFINE s == [span EXCEPT !.seq = number + 1]
           full == Len(buffer) >= SpanCapacity
           lost == IF SpanCapacity = 0 THEN s ELSE buffer[1]
<1>1. /\ s \in Spans /\ s.seq = number + 1 /\ s \notin stored
      /\ stored \cup {s} \subseteq Spans
      /\ IsFiniteSet(stored \cup {s})
      /\ Cardinality(stored \cup {s}) = Cardinality(stored) + 1
      /\ \A x \in stored \cup {s} : x.seq <= number + 1
      /\ OneEach(stored \cup {s})
      /\ \A x \in stored : x.seq < s.seq
      /\ ToSet(buffer) \subseteq stored
      /\ lostBelow <= number + 1
  BY StoreFacts
<1>2. /\ number' = number + 1
      /\ stored' = stored \cup {s}
      /\ lostBelow' = IF full THEN Larger(lostBelow, lost.seq + 1) ELSE lostBelow
      /\ SpanCapacity = 0 => UNCHANGED <<buffer, traceIndex>>
      /\ SpanCapacity # 0 =>
           /\ buffer' = Append(IF full THEN Tail(buffer) ELSE buffer, s)
           /\ traceIndex' = Index(IF full THEN Forget(traceIndex, lost) ELSE traceIndex, s)
  BY DEF Insert
<1> HIDE DEF s
<1>3. /\ number \in Nat /\ lostBelow \in Nat /\ buffer \in Seq(Spans)
      /\ Len(buffer) <= SpanCapacity /\ Ascending(buffer)
      /\ ToSet(buffer) = {x \in stored : x.seq >= lostBelow}
      /\ lostBelow > 0 => \E x \in stored : x.seq = lostBelow - 1
      /\ traceIndex = IndexOf(ToSet(buffer))
      /\ SpanCapacity \in Nat /\ Len(buffer) \in Nat
      /\ \A x \in stored : x \in Spans /\ x.seq \in Nat
      /\ OneEach(stored)
  BY SpanCapacityAssumption DEF RingSound, Spans
<1>4. /\ number' \in Nat /\ stored' \subseteq Spans /\ IsFiniteSet(stored') /\ OneEach(stored')
      /\ \A x \in stored' : x.seq <= number'
      /\ Cardinality(stored') = Cardinality(stored) + 1
  BY <1>1, <1>2, <1>3
<1>5. SUFFICES /\ lostBelow' \in Nat
               /\ buffer' \in Seq(Spans) /\ Len(buffer') <= SpanCapacity
               /\ Ascending(buffer')
               /\ ToSet(buffer') = {x \in stored' : x.seq >= lostBelow'}
               /\ lostBelow' > 0 => \E x \in stored' : x.seq = lostBelow' - 1
               /\ traceIndex' = IndexOf(ToSet(buffer'))
  <2>1. Ascending(buffer') => Ascending(buffer)'
    BY DEF Ascending
  <2>2. OneEach(stored') => OneEach(stored)'
    BY DEF OneEach
  <2>3. traceIndex' = IndexOf(ToSet(buffer')) => (traceIndex = IndexOf(ToSet(buffer)))'
    BY DEF IndexOf, ToSet
  <2> QED
    BY <1>4, <1>5, <2>1, <2>2, <2>3 DEF RingSound
<1>6. CASE SpanCapacity = 0
  <2>1. full /\ lost = s /\ lostBelow' = number + 2
    BY <1>1, <1>2, <1>3, <1>6 DEF Larger
  <2>2. ToSet(buffer) = {} /\ buffer' = buffer /\ traceIndex' = traceIndex
    <3>1. Len(buffer) = 0
      BY <1>3, <1>6
    <3> QED
      BY <1>2, <1>3, <1>6, <3>1 DEF ToSet
  <2>3. {x \in stored' : x.seq >= lostBelow'} = {}
    BY <1>1, <1>2, <1>3, <2>1
  <2>4. s \in stored' /\ s.seq = lostBelow' - 1
    BY <1>1, <1>2, <1>3, <2>1
  <2> QED
    <3>1. lostBelow' \in Nat
      BY <1>3, <2>1
    <3>2. \E x \in stored' : x.seq = lostBelow' - 1
      BY <2>4
    <3>3. traceIndex' = IndexOf(ToSet(buffer'))
      BY <1>3, <2>2
    <3> QED
      BY <1>3, <2>2, <2>3, <3>1, <3>2, <3>3
<1>7. CASE SpanCapacity # 0 /\ full
  <2>1. buffer # <<>> /\ lost = buffer[1]
    BY <1>3, <1>7
  <2> HIDE DEF lost
  <2>2. /\ lost \in ToSet(buffer) /\ lost \in Spans
        /\ Tail(buffer) \in Seq(Spans) /\ Len(Tail(buffer)) = Len(buffer) - 1
        /\ Ascending(Tail(buffer))
        /\ ToSet(Tail(buffer)) = ToSet(buffer) \ {lost}
        /\ \A x \in ToSet(Tail(buffer)) : x.seq > lost.seq
    BY <1>3, <2>1, TailFacts
  <2>3. \A x \in ToSet(Tail(buffer)) : x.seq < s.seq
    BY <1>1, <2>2
  <2>4. /\ buffer' \in Seq(Spans) /\ Len(buffer') = Len(buffer)
        /\ Ascending(buffer')
        /\ ToSet(buffer') = (ToSet(buffer) \ {lost}) \cup {s}
    <3>1. buffer' = Append(Tail(buffer), s)
      BY <1>2, <1>7
    <3>2. /\ Append(Tail(buffer), s) \in Seq(Spans)
          /\ Len(Append(Tail(buffer), s)) = Len(Tail(buffer)) + 1
          /\ Ascending(Append(Tail(buffer), s))
          /\ ToSet(Append(Tail(buffer), s)) = ToSet(Tail(buffer)) \cup {s}
      BY <1>1, <2>2, <2>3, AppendFacts
    <3> QED
      BY <1>3, <2>2, <3>1, <3>2
  <2>5. lost \in stored /\ lost.seq \in Nat /\ lost.seq >= lostBelow /\ lost.seq < s.seq
    BY <1>1, <1>3, <2>2
  <2>6. lostBelow' = lost.seq + 1
    BY <1>2, <1>3, <1>7, <2>5 DEF Larger
  <2>7. ToSet(buffer') = {x \in stored' : x.seq >= lostBelow'}
    <3>1. \A x \in ToSet(buffer) \ {lost} : x \in stored' /\ x.seq >= lostBelow'
      BY <1>2, <1>3, <2>2, <2>5, <2>6
    <3>2. s \in stored' /\ s.seq >= lostBelow'
      BY <1>1, <1>2, <1>3, <2>5, <2>6
    <3>3. \A x \in stored' : x.seq >= lostBelow' => x \in (ToSet(buffer) \ {lost}) \cup {s}
      <4>1. TAKE x \in stored'
      <4>2. HAVE x.seq >= lostBelow'
      <4>3. CASE x = s
        BY <4>3
      <4>4. CASE x \in stored
        <5>1. x.seq \in Nat /\ x.seq > lost.seq /\ x.seq >= lostBelow /\ x # lost
          BY <1>3, <2>5, <2>6, <4>2, <4>4
        <5> QED
          BY <1>3, <4>4, <5>1
      <4> QED
        BY <1>2, <4>3, <4>4
    <3> QED
      BY <2>4, <3>1, <3>2, <3>3
  <2>8. traceIndex' = IndexOf(ToSet(buffer'))
    <3>1. OneEach(ToSet(buffer))
      BY <1>1, <1>3 DEF OneEach
    <3>2. Forget(traceIndex, lost) = IndexOf(ToSet(buffer) \ {lost})
      BY <1>3, <2>2, <3>1, IndexForget
    <3> QED
      BY <1>2, <1>7, <2>4, <3>2, IndexAdd
  <2> QED
    <3>1. lostBelow' \in Nat /\ lost \in stored' /\ lost.seq = lostBelow' - 1
      BY <1>2, <2>5, <2>6
    <3>2. \E x \in stored' : x.seq = lostBelow' - 1
      BY <3>1
    <3> QED
      BY <1>3, <2>4, <2>7, <2>8, <3>1, <3>2
<1>8. CASE SpanCapacity # 0 /\ ~full
  <2>1. lostBelow' = lostBelow /\ buffer' = Append(buffer, s) /\ Len(buffer) + 1 <= SpanCapacity
    BY <1>2, <1>3, <1>8
  <2>2. \A x \in ToSet(buffer) : x.seq < s.seq
    BY <1>1
  <2>3. /\ buffer' \in Seq(Spans) /\ Len(buffer') = Len(buffer) + 1
        /\ Ascending(buffer')
        /\ ToSet(buffer') = ToSet(buffer) \cup {s}
    BY <1>1, <1>3, <2>1, <2>2, AppendFacts
  <2>4. ToSet(buffer') = {x \in stored' : x.seq >= lostBelow'}
    <3>1. s.seq >= lostBelow'
      BY <1>1, <1>3, <2>1
    <3> QED
      BY <1>2, <1>3, <2>1, <2>3, <3>1
  <2>5. traceIndex' = IndexOf(ToSet(buffer'))
    BY <1>2, <1>3, <1>8, <2>3, IndexAdd
  <2> QED
    BY <1>2, <1>3, <2>1, <2>3, <2>4, <2>5
<1> QED
  BY <1>6, <1>7, <1>8

LEMMA NumberLogInv == RingSound /\ NumberLog => RingSound'
<1> SUFFICES ASSUME RingSound, NumberLog PROVE RingSound'
  OBVIOUS
<1>1. number' = number + 1 /\ UNCHANGED <<buffer, traceIndex, lostBelow, stored>>
  BY DEF NumberLog
<1>2. number \in Nat /\ \A x \in stored : x.seq \in Nat /\ x.seq <= number
  BY DEF RingSound, Spans
<1>3. \A x \in stored : x.seq <= number'
  BY <1>1, <1>2
<1> QED
  BY <1>1, <1>2, <1>3 DEF RingSound, OneEach, Ascending, IndexOf, ToSet

LEMMA ClearSpansInv == RingSound /\ ClearSpans => RingSound' /\ stored' = stored
<1> SUFFICES ASSUME RingSound, ClearSpans PROVE RingSound' /\ stored' = stored
  OBVIOUS
<1>1. /\ number \in Nat /\ lostBelow \in Nat /\ buffer \in Seq(Spans)
      /\ Ascending(buffer)
      /\ ToSet(buffer) = {x \in stored : x.seq >= lostBelow}
      /\ lostBelow > 0 => \E x \in stored : x.seq = lostBelow - 1
      /\ \A x \in stored : x.seq \in Nat
  BY DEF RingSound, Spans
<1>2. /\ lostBelow' = RaiseOnClear /\ buffer' = <<>> /\ traceIndex' = NoIndex
      /\ number' = number /\ stored' = stored
  BY DEF ClearSpans
<1>3. /\ lostBelow' \in Nat
      /\ \A x \in stored : ~(x.seq >= lostBelow')
      /\ lostBelow' > 0 => \E x \in stored : x.seq = lostBelow' - 1
  <2>1. CASE buffer = <<>>
    <3>1. ToSet(buffer) = {}
      BY <2>1 DEF ToSet
    <3>2. lostBelow' = lostBelow
      BY <1>2, <2>1 DEF RaiseOnClear
    <3> QED
      BY <1>1, <3>1, <3>2
  <2>2. CASE buffer # <<>>
    <3> DEFINE n == Len(buffer)
               top == buffer[n]
    <3>1. n \in Nat /\ n > 0 /\ DOMAIN buffer = 1..n /\ n \in 1..n
      BY <1>1, <2>2
    <3>2. top \in ToSet(buffer) /\ top \in stored /\ top.seq \in Nat /\ top.seq >= lostBelow
      BY <1>1, <3>1 DEF ToSet
    <3>3. lostBelow' = top.seq + 1
      BY <1>1, <1>2, <2>2, <3>2 DEF RaiseOnClear, Larger, Last
    <3>4. \A x \in ToSet(buffer) : x.seq <= top.seq
      <4>1. TAKE x \in ToSet(buffer)
      <4>2. PICK i \in 1..n : x = buffer[i]
        BY <3>1 DEF ToSet
      <4>3. n \in DOMAIN buffer /\ i \in DOMAIN buffer
        BY <3>1
      <4>4. i < n => x.seq < top.seq
        BY <1>1, <4>2, <4>3 DEF Ascending
      <4>5. i = n => x = top
        BY <4>2
      <4>6. x.seq \in Nat /\ top.seq \in Nat
        BY <1>1, <3>2
      <4> HIDE DEF top, n
      <4>7. i = n \/ i < n
        BY <3>1
      <4> QED
        BY <4>4, <4>5, <4>6, <4>7
    <3> HIDE DEF top
    <3>5. \A x \in stored : ~(x.seq >= lostBelow')
      <4>1. TAKE x \in stored
      <4>2. x.seq \in Nat /\ (x.seq >= lostBelow => x.seq <= top.seq)
        BY <1>1, <3>4
      <4> QED
        BY <1>1, <3>2, <3>3, <4>2
    <3> QED
      BY <3>2, <3>3, <3>5
  <2> QED
    BY <2>1, <2>2
<1>4. ToSet(<<>>) = {} /\ IndexOf({}) = NoIndex
  BY DEF ToSet, IndexOf, NoIndex
<1>5. /\ buffer' \in Seq(Spans) /\ Len(buffer') <= SpanCapacity /\ Ascending(buffer')
      /\ ToSet(buffer') = {x \in stored' : x.seq >= lostBelow'}
      /\ traceIndex' = IndexOf(ToSet(buffer'))
  <2>1. ToSet(buffer') = {} /\ {x \in stored' : x.seq >= lostBelow'} = {}
    BY <1>2, <1>3, <1>4
  <2>2. buffer' \in Seq(Spans) /\ Len(buffer') = 0 /\ DOMAIN buffer' = {}
    BY <1>2
  <2>3. Ascending(buffer')
    BY <2>2 DEF Ascending
  <2>4. Len(buffer') <= SpanCapacity
    BY <2>2, SpanCapacityAssumption
  <2> QED
    BY <1>2, <1>4, <2>1, <2>2, <2>3, <2>4
<1>6. Ascending(buffer)' /\ OneEach(stored)' /\ (traceIndex = IndexOf(ToSet(buffer)))'
  BY <1>2, <1>5 DEF Ascending, OneEach, IndexOf, ToSet, RingSound
<1> QED
  BY <1>2, <1>3, <1>5, <1>6 DEF RingSound

(* The inputs: where each span is, and what a window may claim. *)

Exports ==
  {NotSending}
    \cup [left : Seq(SentSpans \cup {Bad}) \ {<<>>}, kind : {"traces"}]
    \cup [left : Seq([text : BOOLEAN]) \ {<<>>}, kind : {"logs"}]

Counts == [Causes -> Nat]

RecvTyped ==
  /\ channel \in Seq(SentSpans)
  /\ export \in [Exporters -> Exports]
  /\ loss \in Counts
  /\ window \in [folded : Nat, baseline : Counts, by : {"arm", "snapshot", "reset"}]
  /\ taking \in [step : {"none", "read"}] \cup [step : {"swap"}, read : Counts]
  /\ offered \in Nat /\ refused \in Nat
  /\ opened \in [handled : Int, queued : Nat]
  /\ IsFiniteSet(Unsent)

(* The counters never fall, so a window that is clean by its baseline has  *)
(* lost nothing since it opened: the baseline was read no later.           *)
LossSound ==
  /\ \A c \in Causes : window.baseline[c] <= loss[c]
  /\ taking.step = "swap" => \A c \in Causes : taking.read[c] <= loss[c]
  /\ taking.step = "read" => window.by = "reset"
  /\ open /\ window.by # "reset" /\ loss = window.baseline => Whole

RecvInv == RecvTyped /\ RingSound /\ SpansAccounted /\ LossSound

LEMMA RecvInitInv == RecvInit => RecvInv
<1> SUFFICES ASSUME RecvInit PROVE RecvInv
  OBVIOUS
<1>1. Unsent = {}
  BY DEF RecvInit, Unsent, Sending, NotSending
<1>2. IsFiniteSet(Unsent) /\ Cardinality(Unsent) = 0
  BY <1>1, FS_EmptySet
<1>3. RecvTyped
  <2>1. NoLoss \in Counts
    BY DEF NoLoss, Counts
  <2> QED
    BY <1>2, <2>1 DEF RecvInit, RecvTyped, Exports
<1>4. RingSound
  <2>1. ToSet(<<>>) = {} /\ IndexOf({}) = NoIndex
    BY DEF ToSet, IndexOf, NoIndex
  <2>2. /\ number = 0 /\ lostBelow = 0 /\ buffer = <<>> /\ stored = {} /\ traceIndex = NoIndex
    BY DEF RecvInit, SpanInit
  <2>3. /\ buffer \in Seq(Spans) /\ Len(buffer) = 0 /\ Len(buffer) <= SpanCapacity
        /\ DOMAIN buffer = {}
    BY <2>2, SpanCapacityAssumption
  <2>4. Ascending(buffer) /\ OneEach(stored) /\ IsFiniteSet(stored)
    BY <2>2, <2>3, FS_EmptySet DEF Ascending, OneEach
  <2>5. ToSet(buffer) = {x \in stored : x.seq >= lostBelow}
    BY <2>1, <2>2
  <2>6. traceIndex = IndexOf(ToSet(buffer))
    BY <2>1, <2>2
  <2> QED
    BY <2>2, <2>3, <2>4, <2>5, <2>6 DEF RingSound
<1>5. Handled = 0 /\ Cardinality(stored) = 0
  BY <1>2, FS_EmptySet DEF Handled, RecvInit, SpanInit
<1>6. SpansAccounted
  BY <1>5 DEF SpansAccounted, RecvInit, NoLoss, Causes
<1>7. LossSound
  BY <1>5 DEF LossSound, Whole, RecvInit, NoLoss, Causes
<1> QED
  BY <1>3, <1>4, <1>6, <1>7 DEF RecvInv

LEMMA RecvNumbers ==
  ASSUME RecvInv
  PROVE  /\ Cardinality(Unsent) \in Nat /\ Handled \in Int /\ Cardinality(stored) \in Nat
         /\ Len(channel) \in Nat /\ loss["dropped"] \in Nat /\ loss["malformed"] \in Nat
         /\ loss["shed_batches"] \in Nat
         /\ refused \in Nat /\ offered \in Nat
         /\ window.folded \in Nat /\ opened.handled \in Int /\ opened.queued \in Nat
         /\ \A c \in Causes : window.baseline[c] \in Nat
<1>1. IsFiniteSet(Unsent) /\ IsFiniteSet(stored)
  BY DEF RecvInv, RecvTyped, RingSound
<1>2. Cardinality(Unsent) \in Nat /\ Cardinality(stored) \in Nat
  BY <1>1, FS_CardinalityType
<1> QED
  BY <1>2 DEF RecvInv, RecvTyped, Counts, Causes, Handled

(* Exports that handle no span leave Unsent alone. *)
LEMMA UnsentKept ==
  ASSUME \A e \in Exporters :
           /\ export'[e].kind = "traces" <=> export[e].kind = "traces"
           /\ export[e].kind = "traces" => export'[e].left = export[e].left
  PROVE  Unsent' = Unsent
<1>1. Sending' = Sending
  BY DEF Sending
<1>2. \A e \in Sending : {e} \X (1..Len(export'[e].left)) = {e} \X (1..Len(export[e].left))
  BY DEF Sending
<1>3. {{e} \X (1..Len(export'[e].left)) : e \in Sending}
        = {{e} \X (1..Len(export[e].left)) : e \in Sending}
  <2> DEFINE A(e) == {e} \X (1..Len(export'[e].left))
             B(e) == {e} \X (1..Len(export[e].left))
  <2>1. \A e \in Sending : A(e) = B(e)
    BY <1>2
  <2> HIDE DEF A, B
  <2>2. {A(e) : e \in Sending} = {B(e) : e \in Sending}
    BY <2>1
  <2> QED
    BY <2>2 DEF A, B
<1> QED
  BY <1>1, <1>3 DEF Unsent

LEMMA UnsentMember ==
  /\ \A p : p \in Unsent <=> \E e \in Exporters : export[e].kind = "traces"
                               /\ \E i \in 1..Len(export[e].left) : p = <<e, i>>
  /\ \A p : p \in Unsent' <=> \E e \in Exporters : export'[e].kind = "traces"
                               /\ \E i \in 1..Len(export'[e].left) : p = <<e, i>>
  BY DEF Unsent, Sending

(* A batch that starts. *)
LEMMA ExportStarts ==
  ASSUME RecvTyped, NEW e \in Exporters, export[e] = NotSending,
         NEW batch \in Seq(SentSpans \cup {Bad}),
         export' = [export EXCEPT ![e] = Remaining(batch, "traces")]
  PROVE  /\ export' \in [Exporters -> Exports]
         /\ IsFiniteSet(Unsent')
         /\ Cardinality(Unsent') = Cardinality(Unsent) + Len(batch)
<1> DEFINE n == Len(batch)
           new == {e} \X (1..n)
<1>1. Remaining(batch, "traces") \in Exports
  BY DEF Remaining, Exports
<1>2. export \in [Exporters -> Exports] /\ IsFiniteSet(Unsent) /\ n \in Nat
  BY DEF RecvTyped
<1>3. export' \in [Exporters -> Exports]
  BY <1>1, <1>2
<1>4. export'[e] = Remaining(batch, "traces") /\ \A o \in Exporters \ {e} : export'[o] = export[o]
  BY <1>2
<1>5. export[e].kind # "traces"
  BY DEF NotSending
<1>6. Unsent' = Unsent \cup new
  <2>1. CASE batch = <<>>
    <3>1. n = 0 /\ new = {}
      BY <2>1
    <3>2. export'[e].kind # "traces"
      BY <1>4, <2>1 DEF Remaining, NotSending
    <3>3. Unsent' = Unsent
      BY <1>4, <1>5, <3>2, UnsentKept
    <3> QED
      BY <3>1, <3>3
  <2>2. CASE batch # <<>>
    <3>1. export'[e].kind = "traces" /\ export'[e].left = batch
      BY <1>4, <2>2 DEF Remaining
    <3>2. \A p \in Unsent' : p \in Unsent \cup new
      <4>1. TAKE p \in Unsent'
      <4>2. PICK o \in Exporters : export'[o].kind = "traces"
                                 /\ \E i \in 1..Len(export'[o].left) : p = <<o, i>>
        BY UnsentMember
      <4>3. CASE o = e
        BY <3>1, <4>2, <4>3
      <4>4. CASE o # e
        BY <1>4, <4>2, <4>4, UnsentMember
      <4> QED
        BY <4>3, <4>4
    <3>3. \A p \in Unsent : p \in Unsent'
      <4>1. TAKE p \in Unsent
      <4>2. PICK o \in Exporters : export[o].kind = "traces"
                                 /\ \E i \in 1..Len(export[o].left) : p = <<o, i>>
        BY UnsentMember
      <4>3. o # e
        BY <1>5, <4>2
      <4> QED
        BY <1>4, <4>2, <4>3, UnsentMember
    <3>4. \A p \in new : p \in Unsent'
      <4>1. TAKE p \in new
      <4>2. \E i \in 1..n : p = <<e, i>>
        OBVIOUS
      <4> QED
        BY <3>1, <4>2, UnsentMember
    <3> QED
      BY <3>2, <3>3, <3>4
  <2> QED
    BY <2>1, <2>2
<1>7. Unsent \cap new = {}
  <2>1. SUFFICES ASSUME NEW p \in Unsent, p \in new PROVE FALSE
    OBVIOUS
  <2>2. PICK o \in Exporters : export[o].kind = "traces"
                             /\ \E i \in 1..Len(export[o].left) : p = <<o, i>>
    BY UnsentMember
  <2>3. o = e
    BY <2>1, <2>2
  <2> QED
    BY <1>5, <2>2, <2>3
<1>8. IsFiniteSet(new) /\ Cardinality(new) = n
  <2>1. IsFiniteSet(1..n) /\ Cardinality(1..n) = n
    BY <1>2, FS_Interval, SMTT(30)
  <2>2. IsFiniteSet({e}) /\ Cardinality({e}) = 1
    BY FS_Singleton
  <2>3. IsFiniteSet(new) /\ Cardinality(new) = Cardinality({e}) * Cardinality(1..n)
    BY <2>1, <2>2, FS_Product
  <2>4. 1 * n = n
    BY <1>2
  <2> QED
    BY <2>1, <2>2, <2>3, <2>4
<1>9. Cardinality(Unsent) \in Nat
  BY <1>2, FS_CardinalityType
<1> HIDE DEF new
<1>10. IsFiniteSet(Unsent \cup new)
       /\ Cardinality(Unsent \cup new) = Cardinality(Unsent) + n - Cardinality(Unsent \cap new)
  BY <1>2, <1>8, FS_Union
<1>11. Cardinality(Unsent \cap new) = 0
  BY <1>7, FS_EmptySet
<1> QED
  BY <1>2, <1>3, <1>6, <1>9, <1>10, <1>11

(* One span of a batch handled. *)
LEMMA ExportGoesOn ==
  ASSUME RecvTyped, NEW e \in Exporters, export[e].kind = "traces", Next1(e)
  PROVE  /\ export' \in [Exporters -> Exports]
         /\ Head(export[e].left) \in SentSpans \cup {Bad}
         /\ IsFiniteSet(Unsent')
         /\ Cardinality(Unsent') = Cardinality(Unsent) - 1
<1> DEFINE left == export[e].left
           n == Len(left)
           rest == Tail(left)
<1>1. export \in [Exporters -> Exports] /\ IsFiniteSet(Unsent)
  BY DEF RecvTyped
<1>2. left \in Seq(SentSpans \cup {Bad}) /\ left # <<>>
  BY <1>1 DEF Exports, NotSending
<1>3. export' = [export EXCEPT ![e] = Remaining(rest, "traces")]
  BY DEF Next1
<1> HIDE DEF left
<1>4. n \in Nat /\ n >= 1 /\ Head(left) \in SentSpans \cup {Bad}
      /\ rest \in Seq(SentSpans \cup {Bad}) /\ Len(rest) = n - 1
  BY <1>2
<1> HIDE DEF rest
<1>5. Remaining(rest, "traces") \in Exports
  BY <1>4 DEF Remaining, Exports
<1>6. export' \in [Exporters -> Exports]
  BY <1>1, <1>3, <1>5
<1>7. export'[e] = Remaining(rest, "traces")
      /\ \A o \in Exporters \ {e} : export'[o] = export[o]
  BY <1>1, <1>3
<1>8. <<e, n>> \in Unsent
  <2>1. n \in 1..n /\ n = Len(export[e].left)
    BY <1>4 DEF left
  <2> QED
    BY <2>1, UnsentMember
<1>9. \A i : <<e, i>> \in Unsent' <=> i \in 1..(n - 1)
  <2>1. CASE rest = <<>>
    <3>1. n - 1 = 0 /\ export'[e].kind # "traces"
      <4>1. Len(rest) = 0
        BY <2>1
      <4>2. export'[e] = NotSending
        BY <1>7, <2>1 DEF Remaining
      <4> QED
        BY <1>4, <4>1, <4>2 DEF NotSending
    <3>2. \A i : <<e, i>> \notin Unsent'
      <4>1. SUFFICES ASSUME NEW i, <<e, i>> \in Unsent' PROVE FALSE
        OBVIOUS
      <4>2. PICK o \in Exporters : export'[o].kind = "traces"
                                 /\ \E j \in 1..Len(export'[o].left) : <<e, i>> = <<o, j>>
        BY <4>1, UnsentMember
      <4>3. o = e
        BY <4>2
      <4> QED
        BY <3>1, <4>2, <4>3
    <3>3. 1..(n - 1) = {}
      <4> HIDE DEF n
      <4> QED
        BY <3>1
    <3> QED
      BY <3>2, <3>3
  <2>2. CASE rest # <<>>
    <3>1. export'[e].kind = "traces" /\ Len(export'[e].left) = n - 1
      <4>1. export'[e] = [left |-> rest, kind |-> "traces"]
        BY <1>7, <2>2 DEF Remaining
      <4> QED
        BY <1>4, <4>1
    <3>2. \A i \in 1..(n - 1) : <<e, i>> \in Unsent'
      BY <3>1, UnsentMember
    <3>3. \A i : <<e, i>> \in Unsent' => i \in 1..(n - 1)
      <4>1. SUFFICES ASSUME NEW i, <<e, i>> \in Unsent' PROVE i \in 1..(n - 1)
        OBVIOUS
      <4>2. PICK o \in Exporters : export'[o].kind = "traces"
                                 /\ \E j \in 1..Len(export'[o].left) : <<e, i>> = <<o, j>>
        BY <4>1, UnsentMember
      <4>3. o = e /\ i \in 1..Len(export'[o].left)
        BY <4>2
      <4> QED
        BY <3>1, <4>3
    <3> QED
      BY <3>2, <3>3
  <2> QED
    BY <2>1, <2>2
<1>10. \A i : <<e, i>> \in Unsent <=> i \in 1..n
  <2>1. \A i \in 1..n : <<e, i>> \in Unsent
    BY UnsentMember DEF left
  <2>2. \A i : <<e, i>> \in Unsent => i \in 1..n
    <3>1. SUFFICES ASSUME NEW i, <<e, i>> \in Unsent PROVE i \in 1..n
      OBVIOUS
    <3>2. PICK o \in Exporters : export[o].kind = "traces"
                               /\ \E j \in 1..Len(export[o].left) : <<e, i>> = <<o, j>>
      BY <3>1, UnsentMember
    <3>3. o = e /\ i \in 1..Len(export[o].left)
      BY <3>2
    <3> QED
      BY <3>3 DEF left
  <2> QED
    BY <2>1, <2>2
<1>11. \A o \in Exporters \ {e} : \A i : <<o, i>> \in Unsent' <=> <<o, i>> \in Unsent
  <2>1. SUFFICES ASSUME NEW o \in Exporters \ {e}, NEW i
                 PROVE  <<o, i>> \in Unsent' <=> <<o, i>> \in Unsent
    OBVIOUS
  <2>2. export'[o] = export[o]
    BY <1>7
  <2>3. <<o, i>> \in Unsent <=> export[o].kind = "traces" /\ i \in 1..Len(export[o].left)
    BY UnsentMember
  <2>4. <<o, i>> \in Unsent' <=> export'[o].kind = "traces" /\ i \in 1..Len(export'[o].left)
    BY UnsentMember
  <2> QED
    BY <2>2, <2>3, <2>4
<1>12. \A i : i \in 1..(n - 1) <=> i \in 1..n /\ i # n
  BY <1>4
<1>13. Unsent' = Unsent \ {<<e, n>>}
  <2>1. \A p \in Unsent \cup Unsent' : \E o \in Exporters : \E i : p = <<o, i>>
    BY UnsentMember
  <2>2. \A o \in Exporters : \A i : <<o, i>> \in Unsent' <=> <<o, i>> \in Unsent \ {<<e, n>>}
    <3>1. TAKE o \in Exporters
    <3>2. TAKE i
    <3>3. CASE o = e
      BY <1>9, <1>10, <1>12, <3>3
    <3>4. CASE o # e
      BY <1>11, <3>4
    <3> QED
      BY <3>3, <3>4
  <2> QED
    BY <2>1, <2>2
<1>14. IsFiniteSet(Unsent \ {<<e, n>>})
       /\ Cardinality(Unsent \ {<<e, n>>}) = Cardinality(Unsent) - 1
  BY <1>1, <1>8, FS_RemoveElement
<1> QED
  BY <1>4, <1>6, <1>13, <1>14 DEF left

LEMMA CountsKept ==
  ASSUME RecvInv, UNCHANGED <<loss, open, window, taking, opened, refused>>,
         Handled' = Handled, Len(channel') = Len(channel),
         Cardinality(stored') = Cardinality(stored)
  PROVE  SpansAccounted' /\ LossSound'
<1>1. SpansAccounted'
  BY DEF RecvInv, SpansAccounted
<1>2. Whole' <=> Whole
  BY DEF Whole
<1>3. LossSound'
  BY <1>2 DEF RecvInv, LossSound
<1> QED
  BY <1>1, <1>3

LEMMA RingKept == ASSUME RingSound, UNCHANGED spanVars PROVE RingSound' /\ stored' = stored
  BY DEF RingSound, spanVars, OneEach, Ascending, IndexOf, ToSet

(* A counted loss: the window is no longer clean. *)
LEMMA LoseFacts ==
  ASSUME RecvInv, NEW cause \in Causes, Lose(cause), UNCHANGED <<window, taking>>
  PROVE  /\ loss' \in Counts
         /\ loss'[cause] = loss[cause] + 1
         /\ \A c \in Causes \ {cause} : loss'[c] = loss[c]
         /\ \A c \in Causes : window'.baseline[c] <= loss'[c]
         /\ taking'.step = "swap" => \A c \in Causes : taking'.read[c] <= loss'[c]
         /\ loss' # window'.baseline
<1>1. /\ loss \in Counts /\ window.baseline \in Counts
      /\ taking.step = "swap" => taking.read \in Counts
  BY DEF RecvInv, RecvTyped
<1>2. loss' = [loss EXCEPT ![cause] = loss[cause] + 1]
  BY DEF Lose
<1>3. /\ loss' \in Counts
      /\ loss'[cause] = loss[cause] + 1
      /\ \A c \in Causes \ {cause} : loss'[c] = loss[c]
  BY <1>1, <1>2 DEF Counts
<1>4. \A c \in Causes : loss[c] \in Nat /\ loss'[c] \in Nat /\ loss[c] <= loss'[c]
  BY <1>1, <1>3 DEF Counts
<1>5. \A c \in Causes : window.baseline[c] \in Nat /\ window.baseline[c] <= loss[c]
  BY <1>1 DEF Counts, RecvInv, LossSound
<1>6. taking.step = "swap" => \A c \in Causes : taking.read[c] \in Nat /\ taking.read[c] <= loss[c]
  BY <1>1 DEF Counts, RecvInv, LossSound
<1>7. loss'[cause] # window.baseline[cause]
  BY <1>3, <1>4, <1>5
<1>8. \A c \in Causes : window'.baseline[c] <= loss'[c]
  BY <1>4, <1>5
<1>9. taking'.step = "swap" => \A c \in Causes : taking'.read[c] <= loss'[c]
  BY <1>4, <1>6
<1> QED
  BY <1>3, <1>7, <1>8, <1>9

LEMMA ExportTracesInv ==
  ASSUME RecvInv, NEW e \in Exporters, NEW batch \in TraceBatches, ExportTraces(e, batch)
  PROVE  RecvInv'
<1>1. batch \in Seq(SentSpans \cup {Bad}) /\ Len(batch) \in Nat
  BY TraceBatchAssumption
<1>2. /\ export[e] = NotSending
      /\ offered' = offered + Len(batch)
      /\ UNCHANGED <<spanVars, channel, logChannel, logDrops, open, window, taking, windows, opened>>
  BY DEF ExportTraces
<1>3. RingSound' /\ stored' = stored
  BY <1>2, RingKept DEF RecvInv
<1>4. RecvTyped
  BY DEF RecvInv
<1>5. CASE Shedding(Len(channel))
  <2>1. Lose("shed_batches") /\ refused' = refused + Len(batch) /\ export' = export
    BY <1>5 DEF ExportTraces, Shed
  <2>2. Unsent' = Unsent
    BY <2>1, UnsentKept
  <2>3. "shed_batches" \in Causes /\ "dropped" \in Causes /\ "malformed" \in Causes
    BY DEF Causes
  <2>4. /\ loss' \in Counts
        /\ loss'["shed_batches"] = loss["shed_batches"] + 1
        /\ \A c \in Causes \ {"shed_batches"} : loss'[c] = loss[c]
        /\ \A c \in Causes : window'.baseline[c] <= loss'[c]
        /\ taking'.step = "swap" => \A c \in Causes : taking'.read[c] <= loss'[c]
        /\ loss' # window'.baseline
    BY <1>2, <2>1, <2>3, LoseFacts
  <2>5. RecvTyped'
    BY <1>1, <1>2, <1>4, <2>1, <2>2, <2>4 DEF RecvTyped
  <2>6. Handled' = Handled + Len(batch)
    BY <1>1, <1>2, <2>2, RecvNumbers DEF Handled
  <2>7. loss'["dropped"] = loss["dropped"] /\ loss'["malformed"] = loss["malformed"]
    BY <2>3, <2>4
  <2>8. SpansAccounted'
    <3>1. ASSUME open PROVE Handled' = Cardinality(stored') + Len(channel') + refused'
                             + loss'["dropped"] + loss'["malformed"]
      <4>1. Handled = Cardinality(stored) + Len(channel) + refused + loss["dropped"]
                        + loss["malformed"]
        BY <3>1 DEF RecvInv, SpansAccounted
      <4>2. Cardinality(stored') = Cardinality(stored) /\ Len(channel') = Len(channel)
        BY <1>2, <1>3
      <4>3. /\ Handled \in Int /\ Cardinality(stored) \in Nat /\ Len(channel) \in Nat
            /\ refused \in Nat /\ loss["dropped"] \in Nat /\ loss["malformed"] \in Nat
        BY RecvNumbers
      <4> QED
        <5>1. Handled' = Cardinality(stored) + Len(channel) + (refused + Len(batch))
                           + loss["dropped"] + loss["malformed"]
          BY <1>1, <2>6, <4>1, <4>3, SMTT(30)
        <5> QED
          BY <2>1, <2>7, <4>2, <5>1
    <3>2. loss'["shed_batches"] > 0
      BY <2>3, <2>4, RecvNumbers
    <3> QED
      BY <1>2, <3>1, <3>2 DEF SpansAccounted
  <2>9. LossSound'
    <3>1. taking'.step = "read" => window'.by = "reset"
      BY <1>2 DEF RecvInv, LossSound
    <3> QED
      BY <2>4, <3>1 DEF LossSound
  <2> QED
    BY <1>3, <2>5, <2>8, <2>9 DEF RecvInv
<1>6. CASE ~Shedding(Len(channel))
  <2>1. export' = [export EXCEPT ![e] = Remaining(batch, "traces")] /\ loss' = loss /\ refused' = refused
    BY <1>6 DEF ExportTraces
  <2>2. /\ export' \in [Exporters -> Exports]
        /\ IsFiniteSet(Unsent')
        /\ Cardinality(Unsent') = Cardinality(Unsent) + Len(batch)
    BY <1>1, <1>2, <1>4, <2>1, ExportStarts
  <2>3. RecvTyped'
    BY <1>1, <1>2, <1>4, <2>1, <2>2 DEF RecvTyped
  <2>4. Handled' = Handled
    BY <1>1, <1>2, <2>2, RecvNumbers DEF Handled
  <2>5. SpansAccounted' /\ LossSound'
    BY <1>2, <1>3, <2>1, <2>4, CountsKept
  <2> QED
    BY <1>3, <2>3, <2>5 DEF RecvInv
<1> QED
  BY <1>5, <1>6

LEMMA ExportLogsInv ==
  ASSUME RecvInv, NEW e \in Exporters, NEW batch \in LogBatches, ExportLogs(e, batch)
  PROVE  RecvInv'
<1>1. batch \in Seq([text : BOOLEAN])
  BY LogBatchAssumption
<1>2. /\ export[e] = NotSending
      /\ UNCHANGED <<spanVars, channel, logChannel, loss, logDrops, open, window, taking,
                     windows, offered, refused, opened>>
  BY DEF ExportLogs
<1>3. RingSound' /\ stored' = stored
  BY <1>2, RingKept DEF RecvInv
<1>4. RecvTyped /\ export \in [Exporters -> Exports]
  BY DEF RecvInv, RecvTyped
<1>5. Remaining(batch, "logs") \in Exports /\ Remaining(batch, "logs").kind # "traces"
  BY <1>1 DEF Remaining, Exports, NotSending
<1>6. \/ export' = export
      \/ export' = [export EXCEPT ![e] = Remaining(batch, "logs")]
  BY DEF ExportLogs
<1>7. export' \in [Exporters -> Exports]
  BY <1>4, <1>5, <1>6
<1>8. Unsent' = Unsent
  <2>1. export[e].kind # "traces" /\ export'[e].kind # "traces"
    BY <1>2, <1>4, <1>5, <1>6 DEF NotSending
  <2>2. \A o \in Exporters \ {e} : export'[o] = export[o]
    BY <1>4, <1>6
  <2> QED
    BY <2>1, <2>2, UnsentKept
<1>9. RecvTyped'
  BY <1>2, <1>4, <1>7, <1>8 DEF RecvTyped
<1>10. Handled' = Handled
  BY <1>2, <1>8 DEF Handled
<1>11. SpansAccounted' /\ LossSound'
  BY <1>2, <1>3, <1>10, CountsKept
<1> QED
  BY <1>3, <1>9, <1>11 DEF RecvInv

LEMMA ExportLogInv ==
  ASSUME RecvInv, NEW e \in Exporters, ExportLog(e)
  PROVE  RecvInv'
<1>1. /\ export[e].kind = "logs" /\ Next1(e)
      /\ UNCHANGED <<spanVars, channel, open, window, taking, exports, windows, offered, refused,
                     opened>>
  BY DEF ExportLog
<1>2. loss' = loss
  BY DEF ExportLog, LogDrop
<1>3. RingSound' /\ stored' = stored
  BY <1>1, RingKept DEF RecvInv
<1>4. RecvTyped /\ export \in [Exporters -> Exports]
  BY DEF RecvInv, RecvTyped
<1> DEFINE left == export[e].left
<1>5. left \in Seq([text : BOOLEAN]) /\ left # <<>>
  BY <1>1, <1>4 DEF Exports, NotSending
<1>6. export' = [export EXCEPT ![e] = Remaining(Tail(left), "logs")]
  BY <1>1 DEF Next1
<1> HIDE DEF left
<1>7. Tail(left) \in Seq([text : BOOLEAN])
  BY <1>5
<1>8. Remaining(Tail(left), "logs") \in Exports /\ Remaining(Tail(left), "logs").kind # "traces"
  BY <1>7 DEF Remaining, Exports, NotSending
<1>9. export' \in [Exporters -> Exports]
  BY <1>4, <1>6, <1>8
<1>10. Unsent' = Unsent
  <2>1. export[e].kind # "traces" /\ export'[e].kind # "traces"
    BY <1>1, <1>4, <1>6, <1>8
  <2>2. \A o \in Exporters \ {e} : export'[o] = export[o]
    BY <1>4, <1>6
  <2> QED
    BY <2>1, <2>2, UnsentKept
<1>11. RecvTyped'
  BY <1>1, <1>2, <1>4, <1>9, <1>10 DEF RecvTyped
<1>12. Handled' = Handled
  BY <1>1, <1>10 DEF Handled
<1>13. SpansAccounted' /\ LossSound'
  BY <1>1, <1>2, <1>3, <1>12, CountsKept
<1> QED
  BY <1>3, <1>11, <1>13 DEF RecvInv

LEMMA ExportSpanInv ==
  ASSUME RecvInv, NEW e \in Exporters, ExportSpan(e)
  PROVE  RecvInv'
<1> DEFINE s == Head(export[e].left)
<1>1. /\ export[e].kind = "traces" /\ Next1(e)
      /\ UNCHANGED <<spanVars, logChannel, logDrops, open, window, taking, exports, windows,
                     offered, refused, opened>>
  BY DEF ExportSpan
<1>2. RingSound' /\ stored' = stored
  BY <1>1, RingKept DEF RecvInv
<1>3. RecvTyped
  BY DEF RecvInv
<1>4. /\ export' \in [Exporters -> Exports]
      /\ s \in SentSpans \cup {Bad}
      /\ IsFiniteSet(Unsent')
      /\ Cardinality(Unsent') = Cardinality(Unsent) - 1
  BY <1>1, <1>3, ExportGoesOn
<1>5. Handled' = Handled + 1
  BY <1>1, <1>4, RecvNumbers DEF Handled
<1>6. \/ Lose("malformed") /\ channel' = channel
      \/ ~open /\ channel' = channel /\ loss' = loss
      \/ s \in SentSpans /\ channel' = Append(channel, s) /\ loss' = loss
      \/ Lose("dropped") /\ channel' = channel
  <2>1. CASE s = Bad
    BY <2>1 DEF ExportSpan
  <2>2. CASE s # Bad
    <3>1. SendSpan(s) /\ s \in SentSpans
      BY <1>4, <2>2 DEF ExportSpan
    <3> HIDE DEF s
    <3> QED
      BY <3>1 DEF SendSpan
  <2> QED
    BY <2>1, <2>2
<1> HIDE DEF s
<1>8. ASSUME NEW cause \in {"malformed", "dropped"}, Lose(cause), channel' = channel
      PROVE  RecvInv'
  <2>1. "shed_batches" \in Causes /\ "dropped" \in Causes /\ "malformed" \in Causes
        /\ cause \in Causes
    BY DEF Causes
  <2>2. /\ loss' \in Counts
        /\ loss'[cause] = loss[cause] + 1
        /\ \A c \in Causes \ {cause} : loss'[c] = loss[c]
        /\ \A c \in Causes : window'.baseline[c] <= loss'[c]
        /\ taking'.step = "swap" => \A c \in Causes : taking'.read[c] <= loss'[c]
        /\ loss' # window'.baseline
    BY <1>1, <1>8, <2>1, LoseFacts
  <2>3. loss'["dropped"] + loss'["malformed"] = loss["dropped"] + loss["malformed"] + 1
        /\ loss'["shed_batches"] = loss["shed_batches"]
    <3>1. loss["dropped"] \in Nat /\ loss["malformed"] \in Nat
      BY RecvNumbers
    <3>2. CASE cause = "dropped"
      BY <2>1, <2>2, <3>1, <3>2
    <3>3. CASE cause = "malformed"
      BY <2>1, <2>2, <3>1, <3>3
    <3> QED
      BY <3>2, <3>3
  <2>4. SpansAccounted'
    <3>1. ASSUME open PROVE Handled' = Cardinality(stored') + Len(channel') + refused'
                             + loss'["dropped"] + loss'["malformed"]
      <4>1. Handled = Cardinality(stored) + Len(channel) + refused + loss["dropped"]
                        + loss["malformed"]
        BY <3>1 DEF RecvInv, SpansAccounted
      <4>2. Cardinality(stored') = Cardinality(stored) /\ Len(channel') = Len(channel)
            /\ refused' = refused
        BY <1>1, <1>2, <1>8
      <4>3. loss'["dropped"] \in Nat /\ loss'["malformed"] \in Nat
        BY <2>1, <2>2 DEF Counts
      <4>4. /\ Handled \in Int /\ Cardinality(stored) \in Nat /\ Len(channel) \in Nat
            /\ refused \in Nat /\ loss["dropped"] \in Nat /\ loss["malformed"] \in Nat
        BY RecvNumbers
      <4> QED
        <5>1. Handled' = Cardinality(stored) + Len(channel) + refused
                           + (loss["dropped"] + loss["malformed"] + 1)
          BY <1>5, <4>1, <4>4
        <5>2. Handled' = Cardinality(stored) + Len(channel) + refused
                           + (loss'["dropped"] + loss'["malformed"])
          BY <2>3, <5>1
        <5> QED
          BY <4>2, <4>3, <4>4, <5>2
    <3> QED
      BY <1>1, <2>3, <3>1 DEF SpansAccounted, RecvInv
  <2>5. LossSound'
    <3>1. taking'.step = "read" => window'.by = "reset"
      BY <1>1 DEF RecvInv, LossSound
    <3> QED
      BY <2>2, <3>1 DEF LossSound
  <2>6. RecvTyped'
    BY <1>1, <1>3, <1>4, <1>8, <2>2 DEF RecvTyped
  <2> QED
    BY <1>2, <2>4, <2>5, <2>6 DEF RecvInv
<1>9. ASSUME ~open, channel' = channel, loss' = loss PROVE RecvInv'
  <2>1. SpansAccounted' /\ LossSound'
    BY <1>1, <1>9 DEF SpansAccounted, LossSound, RecvInv
  <2>2. RecvTyped'
    BY <1>1, <1>3, <1>4, <1>9 DEF RecvTyped
  <2> QED
    BY <1>2, <2>1, <2>2 DEF RecvInv
<1>10. ASSUME s \in SentSpans, channel' = Append(channel, s), loss' = loss PROVE RecvInv'
  <2>1. channel \in Seq(SentSpans)
    BY <1>3 DEF RecvTyped
  <2>2. channel' \in Seq(SentSpans) /\ Len(channel') = Len(channel) + 1
    BY <1>10, <2>1
  <2>3. RecvTyped'
    BY <1>1, <1>3, <1>4, <1>10, <2>2 DEF RecvTyped
  <2>4. SpansAccounted'
    <3>1. ASSUME open PROVE Handled' = Cardinality(stored') + Len(channel') + refused'
                             + loss'["dropped"] + loss'["malformed"]
      <4>1. Handled = Cardinality(stored) + Len(channel) + refused + loss["dropped"]
                        + loss["malformed"]
        BY <3>1 DEF RecvInv, SpansAccounted
      <4>2. Cardinality(stored') = Cardinality(stored) /\ refused' = refused
        BY <1>1, <1>2
      <4>3. Len(channel') = Len(channel) + 1 /\ loss' = loss
        BY <1>10, <2>2
      <4>4. /\ Handled \in Int /\ Cardinality(stored) \in Nat /\ Len(channel) \in Nat
            /\ refused \in Nat /\ loss["dropped"] \in Nat /\ loss["malformed"] \in Nat
        BY RecvNumbers
      <4> QED
        BY <1>5, <4>1, <4>2, <4>3, <4>4
    <3> QED
      BY <1>1, <1>10, <3>1 DEF SpansAccounted, RecvInv
  <2>5. Whole => Whole'
    <3>1. /\ Handled \in Int /\ Len(channel) \in Nat /\ window.folded \in Nat
          /\ opened.handled \in Int /\ opened.queued \in Nat
      BY RecvNumbers
    <3>2. Len(channel') = Len(channel) + 1 /\ window' = window /\ opened' = opened
      BY <1>1, <2>2
    <3> DEFINE f == window.folded
               q == Len(channel)
               h == Handled
               oh == opened.handled
               oq == opened.queued
    <3>3. Whole' <=> f + (q + 1) = ((h + 1) - oh) + oq
      BY <1>5, <3>2 DEF Whole
    <3>4. Whole <=> f + q = (h - oh) + oq
      BY DEF Whole
    <3> HIDE DEF f, q, h, oh, oq
    <3>5. f + q = (h - oh) + oq => f + (q + 1) = ((h + 1) - oh) + oq
      <4>1. f \in Int /\ q \in Int /\ h \in Int /\ oh \in Int /\ oq \in Int
        BY <3>1 DEF f, q, h, oh, oq
      <4> QED
        BY <4>1
    <3> QED
      BY <3>3, <3>4, <3>5
  <2>6. LossSound'
    BY <1>1, <1>10, <2>5 DEF LossSound, RecvInv
  <2> QED
    BY <1>2, <2>3, <2>4, <2>6 DEF RecvInv
<1> QED
  BY <1>6, <1>8, <1>9, <1>10

LEMMA ProcessSpanInv == RecvInv /\ ProcessSpan => RecvInv'
<1> SUFFICES ASSUME RecvInv, ProcessSpan PROVE RecvInv'
  OBVIOUS
<1>1. /\ channel # <<>> /\ Insert(Head(channel)) /\ channel' = Tail(channel)
      /\ window' = [window EXCEPT !.folded = window.folded + 1]
      /\ UNCHANGED <<logChannel, export, loss, logDrops, open, taking, exports, windows,
                     offered, refused, opened>>
  BY DEF ProcessSpan
<1>2. RecvTyped /\ RingSound /\ channel \in Seq(SentSpans)
  BY DEF RecvInv, RecvTyped
<1>3. /\ Head(channel) \in SentSpans /\ channel' \in Seq(SentSpans)
      /\ Len(channel') = Len(channel) - 1
  BY <1>1, <1>2
<1>4. RingSound' /\ Cardinality(stored') = Cardinality(stored) + 1
  BY <1>1, <1>2, <1>3, InsertInv
<1>5. Unsent' = Unsent
  BY <1>1, UnsentKept
<1>6. Handled' = Handled
  BY <1>1, <1>5 DEF Handled
<1>7. /\ window' \in [folded : Nat, baseline : Counts, by : {"arm", "snapshot", "reset"}]
      /\ window'.folded = window.folded + 1
      /\ window'.baseline = window.baseline /\ window'.by = window.by
  <2>1. window \in [folded : Nat, baseline : Counts, by : {"arm", "snapshot", "reset"}]
    BY <1>2 DEF RecvTyped
  <2>2. window.folded + 1 \in Nat
    BY <2>1
  <2> QED
    BY <1>1, <2>1, <2>2
<1>8. RecvTyped'
  BY <1>1, <1>2, <1>3, <1>5, <1>7 DEF RecvTyped
<1> DEFINE f == window.folded
           q == Len(channel)
           n == Cardinality(stored)
           rest == refused + loss["dropped"] + loss["malformed"]
<1>9. f \in Nat /\ q \in Nat /\ n \in Nat /\ rest \in Nat
  BY RecvNumbers, SMTT(30)
<1>10. SpansAccounted'
  <2>1. ASSUME open PROVE Handled' = Cardinality(stored') + Len(channel') + refused'
                           + loss'["dropped"] + loss'["malformed"]
    <3>1. Handled = n + q + refused + loss["dropped"] + loss["malformed"]
      BY <2>1 DEF RecvInv, SpansAccounted
    <3>2. /\ refused \in Nat /\ loss["dropped"] \in Nat /\ loss["malformed"] \in Nat
      BY RecvNumbers
    <3>3. Handled' = (n + 1) + (q - 1) + refused + loss["dropped"] + loss["malformed"]
      <4> HIDE DEF n, q
      <4> QED
        BY <1>6, <1>9, <3>1, <3>2
    <3> QED
      BY <1>1, <1>3, <1>4, <3>3
  <2> QED
    BY <1>1, <2>1 DEF SpansAccounted, RecvInv
<1>11. Whole => Whole'
  <2>1. Whole <=> f + q = (Handled - opened.handled) + opened.queued
    BY DEF Whole
  <2>2. Whole' <=> (f + 1) + (q - 1) = (Handled - opened.handled) + opened.queued
    BY <1>1, <1>3, <1>6, <1>7 DEF Whole
  <2> HIDE DEF f, q
  <2>3. (f + 1) + (q - 1) = f + q
    BY <1>9
  <2> QED
    BY <2>1, <2>2, <2>3
<1>12. LossSound'
  BY <1>1, <1>7, <1>11 DEF LossSound, RecvInv
<1> QED
  BY <1>4, <1>8, <1>10, <1>12 DEF RecvInv

LEMMA ProcessLogInv == RecvInv /\ ProcessLog => RecvInv'
<1> SUFFICES ASSUME RecvInv, ProcessLog PROVE RecvInv'
  OBVIOUS
<1>1. /\ NumberLog
      /\ UNCHANGED <<channel, export, loss, logDrops, open, window, taking, exports, windows,
                     offered, refused, opened>>
  BY DEF ProcessLog
<1>2. RingSound' /\ stored' = stored
  BY <1>1, NumberLogInv DEF RecvInv, NumberLog
<1>3. Unsent' = Unsent
  BY <1>1, UnsentKept
<1>4. RecvTyped'
  BY <1>1, <1>3 DEF RecvTyped, RecvInv
<1>5. SpansAccounted' /\ LossSound'
  <2>1. Handled' = Handled
    BY <1>1, <1>3 DEF Handled
  <2> QED
    BY <1>1, <1>2, <2>1, CountsKept
<1> QED
  BY <1>2, <1>4, <1>5 DEF RecvInv

LEMMA ClearDomainInv == RecvInv /\ ClearDomain => RecvInv'
<1> SUFFICES ASSUME RecvInv, ClearDomain PROVE RecvInv'
  OBVIOUS
<1>1. /\ ClearSpans
      /\ UNCHANGED <<channel, logChannel, export, loss, logDrops, open, window, taking,
                     exports, windows, offered, refused, opened>>
  BY DEF ClearDomain, recvVars
<1>2. RingSound' /\ stored' = stored
  BY <1>1, ClearSpansInv DEF RecvInv
<1>3. Unsent' = Unsent
  BY <1>1, UnsentKept
<1>4. RecvTyped'
  BY <1>1, <1>3 DEF RecvTyped, RecvInv
<1>5. SpansAccounted' /\ LossSound'
  <2>1. Handled' = Handled
    BY <1>1, <1>3 DEF Handled
  <2> QED
    BY <1>1, <1>2, <2>1, CountsKept
<1> QED
  BY <1>2, <1>4, <1>5 DEF RecvInv

(* The steps of the domain's end, of a snapshot and of a reset. *)
LEMMA WindowStepInv ==
  ASSUME RecvInv,
         UNCHANGED <<spanVars, channel, export, loss, offered, refused>>,
         \/ CloseDomain \/ SnapshotRead \/ SnapshotSwap \/ ResetSwap \/ ResetRead
  PROVE  RecvInv'
<1>1. RecvTyped /\ LossSound
  BY DEF RecvInv
<1>2. RingSound' /\ stored' = stored
  BY RingKept DEF RecvInv
<1>3. Unsent' = Unsent
  BY UnsentKept
<1>4. Handled' = Handled /\ Handled \in Int /\ Len(channel) \in Nat
  BY <1>3, RecvNumbers DEF Handled
<1>5. /\ loss \in Counts /\ window.baseline \in Counts /\ window.folded \in Nat
      /\ taking.step = "swap" => taking.read \in Counts
      /\ \A c \in Causes : loss[c] \in Nat
  BY <1>1 DEF RecvTyped, Counts
<1>6. (open' => open) => SpansAccounted'
  BY <1>2, <1>4 DEF RecvInv, SpansAccounted
<1>7. SUFFICES /\ open' => open
               /\ window' \in [folded : Nat, baseline : Counts, by : {"arm", "snapshot", "reset"}]
               /\ taking' \in [step : {"none", "read"}] \cup [step : {"swap"}, read : Counts]
               /\ opened' \in [handled : Int, queued : Nat]
               /\ LossSound'
  BY <1>1, <1>2, <1>3, <1>6, <1>7 DEF RecvInv, RecvTyped
<1>8. CASE CloseDomain
  BY <1>1, <1>8 DEF CloseDomain, LossSound, RecvTyped
<1>9. CASE SnapshotRead
  <2>1. taking' = [step |-> "swap", read |-> loss] /\ UNCHANGED <<open, window, opened>>
    BY <1>9 DEF SnapshotRead
  <2>2. Whole' <=> Whole
    BY <1>4, <2>1 DEF Whole
  <2> QED
    BY <1>1, <1>5, <2>1, <2>2 DEF LossSound, RecvTyped
<1>10. CASE SnapshotSwap
  <2>1. /\ taking.step = "swap" /\ taking' = [step |-> "none"] /\ open' = open
        /\ window' = [folded |-> 0, baseline |-> taking.read, by |-> "snapshot"]
        /\ opened' = [handled |-> Handled, queued |-> Len(channel)]
    BY <1>10 DEF SnapshotSwap, Swap
  <2>2. Whole'
    BY <1>4, <2>1 DEF Whole
  <2> QED
    BY <1>1, <1>4, <1>5, <2>1, <2>2 DEF LossSound
<1>11. CASE ResetSwap
  <2>1. /\ taking' = [step |-> "read"] /\ open' = open
        /\ window' = [folded |-> 0, baseline |-> window.baseline, by |-> "reset"]
        /\ opened' = [handled |-> Handled, queued |-> Len(channel)]
    BY <1>11 DEF ResetSwap, Swap
  <2> QED
    BY <1>1, <1>4, <1>5, <2>1 DEF LossSound
<1>12. CASE ResetRead
  <2>1. /\ taking' = [step |-> "none"] /\ UNCHANGED <<open, opened>>
        /\ window' = [window EXCEPT !.baseline = loss]
    BY <1>12 DEF ResetRead
  <2>2. taking.step = "read" /\ window.by = "reset"
    BY <1>1, <1>12 DEF ResetRead, LossSound
  <2>3. /\ window' \in [folded : Nat, baseline : Counts, by : {"arm", "snapshot", "reset"}]
        /\ window'.by = "reset" /\ window'.baseline = loss
    BY <1>1, <1>5, <2>1, <2>2 DEF RecvTyped
  <2> QED
    BY <1>1, <1>5, <2>1, <2>3 DEF LossSound, RecvTyped
<1> QED
  BY <1>8, <1>9, <1>10, <1>11, <1>12

LEMMA RecvNextInv == RecvInv /\ [RecvNext]_allVars => RecvInv'
<1> SUFFICES ASSUME RecvInv, [RecvNext]_allVars PROVE RecvInv'
  OBVIOUS
<1>1. ASSUME NEW e \in Exporters, NEW b \in TraceBatches, ExportTraces(e, b) PROVE RecvInv'
  BY <1>1, ExportTracesInv
<1>2. ASSUME NEW e \in Exporters, NEW b \in LogBatches, ExportLogs(e, b) PROVE RecvInv'
  BY <1>2, ExportLogsInv
<1>3. ASSUME NEW e \in Exporters, ExportSpan(e) PROVE RecvInv'
  BY <1>3, ExportSpanInv
<1>4. ASSUME NEW e \in Exporters, ExportLog(e) PROVE RecvInv'
  BY <1>4, ExportLogInv
<1>5. CASE ProcessSpan
  BY <1>5, ProcessSpanInv
<1>6. CASE ProcessLog
  BY <1>6, ProcessLogInv
<1>7. CASE ClearDomain
  BY <1>7, ClearDomainInv
<1>8. CASE CloseDomain \/ SnapshotRead \/ SnapshotSwap \/ ResetSwap \/ ResetRead
  <2>1. UNCHANGED <<spanVars, channel, export, loss, offered, refused>>
    BY <1>8 DEF CloseDomain, SnapshotRead, SnapshotSwap, ResetSwap, ResetRead
  <2> QED
    BY <1>8, <2>1, WindowStepInv
<1>9. CASE UNCHANGED allVars
  <2>1. /\ UNCHANGED spanVars
        /\ UNCHANGED <<channel, logChannel, export, loss, logDrops, open, window, taking,
                       exports, windows, offered, refused, opened>>
    BY <1>9 DEF allVars, recvVars
  <2>2. RingSound' /\ stored' = stored
    BY <2>1, RingKept DEF RecvInv
  <2>3. Unsent' = Unsent
    BY <2>1, UnsentKept
  <2>4. Handled' = Handled
    BY <2>1, <2>3 DEF Handled
  <2>5. SpansAccounted' /\ LossSound'
    BY <2>1, <2>2, <2>4, CountsKept
  <2>6. RecvTyped'
    BY <2>1, <2>3 DEF RecvTyped, RecvInv
  <2> QED
    BY <2>2, <2>5, <2>6 DEF RecvInv
<1> QED
  BY <1>1, <1>2, <1>3, <1>4, <1>5, <1>6, <1>7, <1>8, <1>9 DEF RecvNext

LEMMA CleanIsWhole == RecvInv => CleanWindowIsWhole
<1> SUFFICES ASSUME RecvInv, open, window.by # "reset", Since(loss, window.baseline) = NoLoss
             PROVE  Whole
  BY DEF CleanWindowIsWhole
<1>1. /\ loss \in Counts /\ window.baseline \in Counts
      /\ \A c \in Causes : window.baseline[c] <= loss[c]
  BY DEF RecvInv, RecvTyped, LossSound
<1>2. \A c \in Causes : loss[c] = window.baseline[c]
  <2>1. TAKE c \in Causes
  <2>2. Since(loss, window.baseline)[c] = 0
    BY DEF NoLoss
  <2>3. loss[c] >= window.baseline[c] /\ loss[c] \in Nat /\ window.baseline[c] \in Nat
    BY <1>1 DEF Counts
  <2>4. loss[c] - window.baseline[c] = 0
    BY <2>2, <2>3 DEF Since
  <2> QED
    BY <2>3, <2>4
<1>3. loss = window.baseline
  BY <1>1, <1>2 DEF Counts
<1> QED
  BY <1>3 DEF RecvInv, LossSound

(* partition_point: in an ascending ring the spans below a number are the  *)
(* first ones.                                                             *)
LEMMA BelowFacts ==
  ASSUME RingSound, NEW n \in Int
  PROVE  /\ Below(n) \in 0..Len(buffer)
         /\ \A i \in 1..Len(buffer) : i <= Below(n) <=> buffer[i].seq < n
<1> DEFINE L == Len(buffer)
           B == {i \in 1..L : buffer[i].seq < n}
           Out == {i \in 1..L : ~(buffer[i].seq < n)} \cup {L + 1}
<1>1. /\ L \in Nat /\ DOMAIN buffer = 1..L
      /\ \A i \in 1..L : buffer[i].seq \in Nat
      /\ \A i, j \in 1..L : i < j => buffer[i].seq < buffer[j].seq
  <2>1. buffer \in Seq(Spans) /\ Ascending(buffer)
    BY DEF RingSound
  <2>2. L \in Nat /\ DOMAIN buffer = 1..L /\ \A i \in 1..L : buffer[i] \in Spans
    BY <2>1
  <2>3. \A i \in 1..L : buffer[i].seq \in Nat
    BY <2>2 DEF Spans
  <2> QED
    BY <2>1, <2>2, <2>3 DEF Ascending
<1>2. Below(n) = Cardinality(B)
  BY <1>1 DEF Below
<1>3. PICK k \in Out : \A y \in Out : k <= y
  <2>1. Out \subseteq Nat /\ Out # {}
    BY <1>1
  <2> HIDE DEF Out
  <2> QED
    BY <2>1, LeastExists
<1>4. k \in 1..(L + 1)
  BY <1>1
<1>5. \A i \in 1..L : i <= k - 1 <=> buffer[i].seq < n
  <2>1. TAKE i \in 1..L
  <2>2. CASE i <= k - 1
    <3>1. ~(k <= i)
      BY <1>1, <1>4, <2>2
    <3>2. i \notin Out
      BY <1>3, <3>1
    <3> QED
      BY <2>2, <3>2
  <2>3. CASE ~(i <= k - 1)
    <3>1. k <= i /\ k \in 1..L /\ k # L + 1
      BY <1>1, <1>4, <2>3
    <3>2. ~(buffer[k].seq < n)
      BY <1>3, <3>1
    <3>3. k = i \/ buffer[k].seq < buffer[i].seq
      BY <1>1, <3>1
    <3> QED
      BY <1>1, <2>3, <3>1, <3>2, <3>3
  <2> QED
    BY <2>2, <2>3
<1>6. B = 1..(k - 1)
  <2>1. \A i : i \in 1..(k - 1) => i \in 1..L /\ i <= k - 1
    BY <1>1, <1>4
  <2>2. \A i \in 1..L : i <= k - 1 <=> i \in 1..(k - 1)
    BY <1>1, <1>4
  <2> QED
    BY <1>5, <2>1, <2>2
<1>7. Cardinality(B) = k - 1
  <2>1. k - 1 \in Nat
    BY <1>1, <1>4
  <2>2. \A m \in Nat : Cardinality(1..m) = m
    BY FS_Interval
  <2> QED
    BY <1>6, <2>1, <2>2
<1>8. k - 1 \in 0..L
  BY <1>1, <1>4
<1> QED
  BY <1>2, <1>5, <1>7, <1>8

LEMMA RangeTells == RecvInv => RangeTellsLoss
<1> SUFFICES ASSUME RecvInv PROVE RangeTellsLoss
  OBVIOUS
<1>0. RingSound
  BY DEF RecvInv
<1>1. /\ number \in Nat /\ lostBelow \in Nat /\ buffer \in Seq(Spans)
      /\ ToSet(buffer) = {x \in stored : x.seq >= lostBelow}
      /\ \A x \in stored : x.seq \in Nat
  BY <1>0 DEF RingSound, Spans
<1>2. ASSUME NEW from \in 0..number, NEW to \in from..number, NEW s \in stored, s.seq \in from..to
      PROVE  s \in ToSet(RangeWithFloor(from, to).spans) <=> s.seq >= RangeWithFloor(from, to).floor
  <2> DEFINE L == Len(buffer)
             a == Below(from)
             z == Larger(Below(to + 1), Below(from))
             q == SubSeq(buffer, a + 1, z)
  <2>1. from \in Int /\ to + 1 \in Int /\ from <= to /\ to \in Int
    BY <1>1
  <2>2. /\ a \in 0..L /\ Below(to + 1) \in 0..L
        /\ \A i \in 1..L : i <= a <=> buffer[i].seq < from
        /\ \A i \in 1..L : i <= Below(to + 1) <=> buffer[i].seq < to + 1
    BY <1>0, <2>1, BelowFacts
  <2>3. L \in Nat /\ DOMAIN buffer = 1..L
    BY <1>1
  <2>4. a \in Nat /\ z \in Nat /\ a <= z /\ z <= L
    BY <2>2, <2>3 DEF Larger
  <2>5. RangeWithFloor(from, to).spans = q /\ RangeWithFloor(from, to).floor = lostBelow
    BY DEF RangeWithFloor
  <2>6. DOMAIN q = 1..(z - a) /\ \A i \in 1..(z - a) : q[i] = buffer[a + i]
    <3> HIDE DEF a, z
    <3>1. \A i \in (a + 1)..z : i \in 1..Len(buffer)
      BY <2>3, <2>4
    <3>2. Len(q) = z - a /\ DOMAIN q = 1..Len(q)
      BY <1>1, <2>3, <2>4, <3>1
    <3>3. \A i \in 1..(z - a) : q[i] = buffer[a + i]
      BY <1>1, <2>3, <2>4, <3>1
    <3> QED
      BY <3>2, <3>3
  <2> HIDE DEF q
  <2>7. ASSUME s \in ToSet(q) PROVE s.seq >= lostBelow
    <3>1. PICK i \in 1..(z - a) : s = buffer[a + i]
      BY <2>6, <2>7 DEF ToSet
    <3>2. a + i \in 1..L
      <4> HIDE DEF a, z, L
      <4> QED
        BY <2>3, <2>4
    <3>3. s \in ToSet(buffer)
      BY <2>3, <3>1, <3>2 DEF ToSet
    <3> QED
      BY <1>1, <3>3
  <2>8. ASSUME s.seq >= lostBelow PROVE s \in ToSet(q)
    <3>1. PICK i \in 1..L : s = buffer[i]
      BY <1>1, <2>3, <2>8 DEF ToSet
    <3>2. ~(buffer[i].seq < from) /\ buffer[i].seq < to + 1
      BY <1>1, <1>2, <2>1, <3>1
    <3>3. ~(i <= a) /\ i <= Below(to + 1)
      BY <2>2, <3>2
    <3>4. i <= z
      BY <2>2, <2>3, <3>3 DEF Larger
    <3>5. i - a \in 1..(z - a) /\ a + (i - a) = i
      <4> HIDE DEF a, z, L
      <4> QED
        BY <2>3, <2>4, <3>3, <3>4
    <3>6. q[i - a] = s /\ i - a \in DOMAIN q
      BY <2>6, <3>1, <3>5
    <3> QED
      BY <3>6 DEF ToSet
  <2> QED
    BY <2>5, <2>7, <2>8
<1>3. lostBelow > 0 => \E s \in stored : s.seq = lostBelow - 1
  BY <1>0 DEF RingSound
<1> QED
  BY <1>2, <1>3 DEF RangeTellsLoss

(* The views by trace. *)

HeldOf(t) == {s \in ToSet(buffer) : s.trace = t}

LEMMA MaxFacts ==
  ASSUME NEW S \in SUBSET Nat, S # {}, NEW n \in Nat, \A x \in S : x <= n
  PROVE  Max(S) \in S /\ \A y \in S : Max(S) >= y
<1> DEFINE R == {p \in S \X S : p[1] < p[2]}
<1>1. IsFiniteSet(S)
  BY FS_BoundedSetOfNaturals
<1>2. \A a, b \in S : <<a, b>> \in R <=> a < b
  OBVIOUS
<1>3. Ordering(R, S)
  <2> HIDE DEF R
  <2>1. SUFFICES ASSUME NEW a \in S, NEW b \in S
                 PROVE  /\ <<a, a>> \notin R
                        /\ a # b => <<a, b>> \in R \/ <<b, a>> \in R
                        /\ \A c \in S : <<a, b>> \in R /\ <<b, c>> \in R => <<a, c>> \in R
    BY DEF Ordering
  <2>2. a \in Nat /\ b \in Nat
    OBVIOUS
  <2>3. <<a, a>> \notin R
    BY <1>2, <2>2
  <2>4. a # b => <<a, b>> \in R \/ <<b, a>> \in R
    BY <1>2, <2>2
  <2>5. ASSUME NEW c \in S, <<a, b>> \in R, <<b, c>> \in R PROVE <<a, c>> \in R
    <3>1. c \in Nat
      OBVIOUS
    <3> QED
      BY <1>2, <2>2, <2>5, <3>1
  <2> QED
    BY <2>3, <2>4, <2>5
<1>4. PICK m \in S : \A x \in S : x # m => <<x, m>> \in R
  <2> HIDE DEF R
  <2> QED
    BY <1>1, <1>3, LastExists DEF HasLast
<1>5. \A y \in S : m >= y
  <2>1. TAKE y \in S
  <2>2. y = m \/ y < m
    BY <1>2, <1>4
  <2> QED
    BY <2>2
<1>6. \E x \in S : \A y \in S : x >= y
  BY <1>5
<1> QED
  BY <1>6 DEF Max

LEMMA HeldFacts ==
  ASSUME RingSound
  PROVE  /\ IsFiniteSet(ToSet(buffer)) /\ ToSet(buffer) \subseteq Spans
         /\ OneEach(ToSet(buffer))
         /\ DOMAIN traceIndex = {s.trace : s \in ToSet(buffer)}
         /\ \A t \in DOMAIN traceIndex : traceIndex[t] = {s.seq : s \in HeldOf(t)}
         /\ \A t \in DOMAIN traceIndex : HeldOf(t) # {}
         /\ \A s \in ToSet(buffer) : s.seq <= number
<1>1. /\ stored \subseteq Spans /\ IsFiniteSet(stored) /\ OneEach(stored)
      /\ ToSet(buffer) \in SUBSET stored
      /\ traceIndex = IndexOf(ToSet(buffer))
      /\ \A s \in stored : s.seq <= number
  BY DEF RingSound
<1>2. IsFiniteSet(ToSet(buffer))
  BY <1>1, FS_Subset
<1>3. OneEach(ToSet(buffer))
  BY <1>1 DEF OneEach
<1>4. DOMAIN traceIndex = {s.trace : s \in ToSet(buffer)}
  BY <1>1 DEF IndexOf
<1>5. \A t \in DOMAIN traceIndex : traceIndex[t] = {s.seq : s \in HeldOf(t)}
  BY <1>1 DEF IndexOf, HeldOf
<1>6. \A t \in DOMAIN traceIndex : HeldOf(t) # {}
  BY <1>4 DEF HeldOf
<1> QED
  BY <1>1, <1>2, <1>3, <1>4, <1>5, <1>6

(* trace_spans finds exactly the trace's held spans. *)
LEMMA TraceSpansFacts ==
  ASSUME RingSound, NEW t \in DOMAIN traceIndex
  PROVE  ToSet(TraceSpans(t)) = HeldOf(t) /\ Len(TraceSpans(t)) = Cardinality(HeldOf(t))
<1> DEFINE held == {n \in traceIndex[t] : \E i \in DOMAIN buffer : buffer[i].seq = n}
           spans == {buffer[Position(n)] : n \in held}
           R(S) == {p \in S \X S : \/ p[1].start < p[2].start
                                   \/ p[1].start = p[2].start /\ p[1].seq < p[2].seq}
<1>1. /\ IsFiniteSet(ToSet(buffer)) /\ ToSet(buffer) \subseteq Spans /\ OneEach(ToSet(buffer))
      /\ traceIndex[t] = {s.seq : s \in HeldOf(t)}
  BY HeldFacts
<1>2. TraceSpans(t) = InOrder(spans, R(spans))
  BY DEF TraceSpans
<1>3. \A s \in ToSet(buffer) : buffer[Position(s.seq)] = s
  <2>1. TAKE s \in ToSet(buffer)
  <2>2. \E i \in DOMAIN buffer : buffer[i].seq = s.seq
    BY DEF ToSet
  <2>3. Position(s.seq) \in DOMAIN buffer /\ buffer[Position(s.seq)].seq = s.seq
    BY <2>2 DEF Position
  <2>4. buffer[Position(s.seq)] \in ToSet(buffer)
    BY <2>3 DEF ToSet
  <2> QED
    BY <1>1, <2>3, <2>4 DEF OneEach
<1>4. held = {s.seq : s \in HeldOf(t)}
  <2>1. \A s \in HeldOf(t) : \E i \in DOMAIN buffer : buffer[i].seq = s.seq
    BY DEF HeldOf, ToSet
  <2> QED
    BY <1>1, <2>1
<1>5. spans = HeldOf(t)
  <2>1. \A s \in HeldOf(t) : s \in ToSet(buffer)
    BY DEF HeldOf
  <2> HIDE DEF held
  <2>2. \A s \in HeldOf(t) : s.seq \in held /\ buffer[Position(s.seq)] = s
    BY <1>3, <1>4, <2>1
  <2>3. \A n \in held : \E s \in HeldOf(t) : n = s.seq
    BY <1>4
  <2> QED
    BY <2>2, <2>3
<1> HIDE DEF spans
<1> DEFINE S == HeldOf(t)
<1>6. IsFiniteSet(S) /\ S \subseteq Spans /\ OneEach(S)
  <2>1. S \in SUBSET ToSet(buffer)
    BY DEF HeldOf
  <2>2. IsFiniteSet(S)
    BY <1>1, <2>1, FS_Subset
  <2> QED
    BY <1>1, <2>1, <2>2 DEF OneEach
<1> HIDE DEF S
<1> DEFINE RS == R(S)
<1>7. \A a, b \in S : <<a, b>> \in RS <=> (a.start < b.start \/ (a.start = b.start /\ a.seq < b.seq))
  OBVIOUS
<1>8. \A a \in S : a.start \in Nat /\ a.seq \in Nat
  BY <1>6 DEF Spans
<1>9. \A a, b \in S : a.seq = b.seq => a = b
  BY <1>6 DEF OneEach
<1>10. Ordering(RS, S)
  <2> HIDE DEF RS
  <2>1. SUFFICES ASSUME NEW a \in S, NEW b \in S
                 PROVE  /\ <<a, a>> \notin RS
                        /\ a # b => <<a, b>> \in RS \/ <<b, a>> \in RS
                        /\ \A c \in S : <<a, b>> \in RS /\ <<b, c>> \in RS => <<a, c>> \in RS
    BY DEF Ordering
  <2>2. /\ a.start \in Nat /\ a.seq \in Nat /\ b.start \in Nat /\ b.seq \in Nat
    BY <1>8
  <2>3. <<a, a>> \notin RS
    BY <1>7, <2>2
  <2>4. ASSUME a # b PROVE <<a, b>> \in RS \/ <<b, a>> \in RS
    <3>1. a.seq # b.seq
      BY <1>9, <2>4
    <3>2. \/ a.start < b.start \/ b.start < a.start
          \/ (a.start = b.start /\ (a.seq < b.seq \/ b.seq < a.seq))
      BY <2>2, <3>1
    <3> QED
      BY <1>7, <3>2
  <2>5. ASSUME NEW c \in S, <<a, b>> \in RS, <<b, c>> \in RS PROVE <<a, c>> \in RS
    <3>1. c.start \in Nat /\ c.seq \in Nat
      BY <1>8
    <3>2. /\ a.start < b.start \/ (a.start = b.start /\ a.seq < b.seq)
          /\ b.start < c.start \/ (b.start = c.start /\ b.seq < c.seq)
      BY <1>7, <2>5
    <3>3. a.start < c.start \/ (a.start = c.start /\ a.seq < c.seq)
      BY <2>2, <3>1, <3>2
    <3> QED
      BY <1>7, <3>3
  <2> QED
    BY <2>3, <2>4, <2>5
<1>11. TraceSpans(t) = InOrder(S, RS)
  BY <1>2, <1>5 DEF S
<1> HIDE DEF RS
<1> DEFINE q == InOrder(S, RS)
<1>12. /\ q \in Seq(S) /\ Len(q) = Cardinality(S) /\ Cardinality(S) \in Nat
       /\ \A x \in S : \E i \in 1..Cardinality(S) : q[i] = x
  BY <1>6, <1>10, InOrderFacts
<1> HIDE DEF q
<1>13. ToSet(q) = S
  <2>1. DOMAIN q = 1..Cardinality(S) /\ \A i \in 1..Cardinality(S) : q[i] \in S
    BY <1>12
  <2> QED
    BY <1>12, <2>1 DEF ToSet
<1> QED
  BY <1>11, <1>12, <1>13 DEF q, S

(* recent_traces lists every held trace once, the newest first. *)
LEMMA RecentFacts ==
  ASSUME RingSound, NEW recent, recent = RecentTraces(Len(buffer), ToSet(buffer))
  PROVE  /\ {recent[i].trace : i \in DOMAIN recent} = DOMAIN traceIndex
         /\ \A i \in DOMAIN recent : recent[i].count = Cardinality(HeldOf(recent[i].trace))
         /\ \A i, j \in DOMAIN recent : i < j =>
              \E s \in HeldOf(recent[i].trace) : \A o \in HeldOf(recent[j].trace) : s.seq > o.seq
<1> DEFINE H == ToSet(buffer)
           T == {s.trace : s \in H}
           newest == [t \in T |-> Max({s.seq : s \in {m \in H : m.trace = t}})]
           R == {p \in T \X T : newest[p[1]] > newest[p[2]]}
           q == InOrder(T, R)
           L == Len(buffer)
           n == Cardinality(T)
<1>1. /\ IsFiniteSet(H) /\ H \subseteq Spans /\ OneEach(H)
      /\ DOMAIN traceIndex = T
      /\ \A t \in T : HeldOf(t) # {}
      /\ \A s \in H : s.seq <= number
  BY HeldFacts
<1>2. number \in Nat /\ buffer \in Seq(Spans)
  BY DEF RingSound
<1>3. recent = [i \in 1..(IF Len(q) <= L THEN Len(q) ELSE L) |-> TraceSummary(q[i])]
  BY DEF RecentTraces
<1>4. \A t \in T : /\ newest[t] \in Nat
                   /\ \E s \in HeldOf(t) : s.seq = newest[t]
                   /\ \A s \in HeldOf(t) : newest[t] >= s.seq
  <2>1. TAKE t \in T
  <2> DEFINE N == {s.seq : s \in HeldOf(t)}
  <2>2. newest[t] = Max(N)
    BY DEF HeldOf
  <2>3. \A s \in HeldOf(t) : s \in H /\ s.seq \in Nat /\ s.seq <= number
    BY <1>1 DEF HeldOf, Spans
  <2>4. N \in SUBSET Nat /\ N # {} /\ \A x \in N : x <= number
    BY <1>1, <2>3
  <2> HIDE DEF newest
  <2>5. Max(N) \in N /\ \A y \in N : Max(N) >= y
    <3> HIDE DEF N
    <3> QED
      BY <1>2, <2>4, MaxFacts
  <2> QED
    BY <2>2, <2>4, <2>5
<1> HIDE DEF newest
<1>5. Ordering(R, T)
  <2>1. \A a, b \in T : <<a, b>> \in R <=> newest[a] > newest[b]
    OBVIOUS
  <2> HIDE DEF R
  <2>2. \A a, b \in T : a # b => newest[a] # newest[b]
    <3>1. SUFFICES ASSUME NEW a \in T, NEW b \in T, newest[a] = newest[b] PROVE a = b
      OBVIOUS
    <3>2. PICK x \in HeldOf(a) : x.seq = newest[a]
      BY <1>4
    <3>3. PICK y \in HeldOf(b) : y.seq = newest[b]
      BY <1>4
    <3>4. x = y
      BY <1>1, <3>1, <3>2, <3>3 DEF HeldOf, OneEach
    <3> QED
      BY <3>2, <3>3, <3>4 DEF HeldOf
  <2>3. SUFFICES ASSUME NEW a \in T, NEW b \in T
                 PROVE  /\ <<a, a>> \notin R
                        /\ a # b => <<a, b>> \in R \/ <<b, a>> \in R
                        /\ \A c \in T : <<a, b>> \in R /\ <<b, c>> \in R => <<a, c>> \in R
    BY DEF Ordering
  <2>4. newest[a] \in Nat /\ newest[b] \in Nat
    BY <1>4
  <2>5. <<a, a>> \notin R
    BY <2>1, <2>4
  <2>6. a # b => <<a, b>> \in R \/ <<b, a>> \in R
    BY <2>1, <2>2, <2>4
  <2>7. ASSUME NEW c \in T, <<a, b>> \in R, <<b, c>> \in R PROVE <<a, c>> \in R
    <3>1. newest[c] \in Nat
      BY <1>4
    <3> QED
      BY <2>1, <2>4, <2>7, <3>1
  <2> QED
    BY <2>5, <2>6, <2>7
<1>6. L \in Nat /\ DOMAIN buffer = 1..L
  BY <1>2
<1>7. IsFiniteSet(T) /\ n <= L
  <2> DEFINE f == [i \in 1..L |-> buffer[i].trace]
  <2>1. f \in Surjection(1..L, T)
    <3>1. \A i \in 1..L : f[i] \in T
      BY <1>6 DEF ToSet
    <3>2. \A t \in T : \E i \in 1..L : f[i] = t
      BY <1>6 DEF ToSet
    <3>3. f \in [1..L -> T]
      BY <3>1
    <3> HIDE DEF f, T, L
    <3> QED
      BY <3>2, <3>3 DEF Surjection
  <2> HIDE DEF f, T, L
  <2>2. IsFiniteSet(1..L) /\ Cardinality(1..L) = L
    <3>1. /\ IsFiniteSet(1..L)
          /\ Cardinality(1..L) = IF 1 > L THEN 0 ELSE L - 1 + 1
      BY <1>6, FS_Interval
    <3> QED
      BY <1>6, <3>1
  <2> QED
    BY <2>1, <2>2, FS_Surjection
<1> HIDE DEF R, T
<1>8. /\ Sorted(q, T, R) /\ n \in Nat
      /\ q \in Seq(T) /\ Len(q) = n
      /\ \A x \in T : \E i \in 1..n : q[i] = x
  BY <1>5, <1>7, InOrderFacts
<1> HIDE DEF q
<1>9. DOMAIN recent = 1..n /\ \A i \in 1..n : recent[i] = TraceSummary(q[i])
  <2>1. (IF Len(q) <= L THEN Len(q) ELSE L) = n
    BY <1>6, <1>7, <1>8
  <2> QED
    BY <1>3, <2>1
<1>10. \A i \in 1..n : q[i] \in T
  BY <1>8
<1>11. \A i \in 1..n : recent[i].trace = q[i] /\ recent[i].count = Len(TraceSpans(q[i]))
  <2>1. \A t : TraceSummary(t).trace = t /\ TraceSummary(t).count = Len(TraceSpans(t))
    BY DEF TraceSummary
  <2> QED
    BY <1>9, <2>1
<1>12. {recent[i].trace : i \in DOMAIN recent} = DOMAIN traceIndex
  BY <1>1, <1>8, <1>9, <1>10, <1>11
<1>13. \A i \in DOMAIN recent : recent[i].count = Cardinality(HeldOf(recent[i].trace))
  <2>1. \A t \in T : Len(TraceSpans(t)) = Cardinality(HeldOf(t))
    BY <1>1, TraceSpansFacts
  <2> QED
    BY <1>9, <1>10, <1>11, <2>1
<1>14. \A i, j \in DOMAIN recent : i < j =>
         \E s \in HeldOf(recent[i].trace) : \A o \in HeldOf(recent[j].trace) : s.seq > o.seq
  <2>1. SUFFICES ASSUME NEW i \in 1..n, NEW j \in 1..n, i < j
                 PROVE  \E s \in HeldOf(q[i]) : \A o \in HeldOf(q[j]) : s.seq > o.seq
    BY <1>9, <1>11
  <2>2. <<q[i], q[j]>> \in R /\ q[i] \in T /\ q[j] \in T
    BY <1>8, <1>10, <2>1 DEF Sorted
  <2>3. newest[q[i]] > newest[q[j]]
    BY <2>2 DEF R
  <2>4. PICK s \in HeldOf(q[i]) : s.seq = newest[q[i]]
    BY <1>4, <2>2
  <2>5. \A o \in HeldOf(q[j]) : newest[q[j]] >= o.seq /\ o.seq \in Nat
    BY <1>1, <1>4, <2>2 DEF HeldOf, Spans
  <2>6. newest[q[i]] \in Nat /\ newest[q[j]] \in Nat
    BY <1>4, <2>2
  <2>7. \A o \in HeldOf(q[j]) : s.seq > o.seq
    BY <2>3, <2>4, <2>5, <2>6
  <2> QED
    BY <2>7
<1> QED
  BY <1>12, <1>13, <1>14

LEMMA ViewsExact == RecvInv => TraceViewsExact
<1> SUFFICES ASSUME RecvInv PROVE TraceViewsExact
  OBVIOUS
<1>0. RingSound
  BY DEF RecvInv
<1> DEFINE recent == RecentTraces(Len(buffer), ToSet(buffer))
<1>1. DOMAIN traceIndex = {t \in Traces : HeldOf(t) # {}}
  <2>1. /\ DOMAIN traceIndex = {s.trace : s \in ToSet(buffer)}
        /\ \A s \in ToSet(buffer) : s.trace \in Traces
    BY <1>0, HeldFacts DEF Spans
  <2> QED
    BY <2>1 DEF HeldOf
<1>2. /\ {recent[i].trace : i \in DOMAIN recent} = DOMAIN traceIndex
      /\ \A i \in DOMAIN recent : recent[i].count = Cardinality(HeldOf(recent[i].trace))
      /\ \A i, j \in DOMAIN recent : i < j =>
           \E s \in HeldOf(recent[i].trace) : \A o \in HeldOf(recent[j].trace) : s.seq > o.seq
  BY <1>0, RecentFacts
<1>3. \A t \in DOMAIN traceIndex : ToSet(TraceSpans(t)) = HeldOf(t)
  BY <1>0, TraceSpansFacts
<1> HIDE DEF recent
<1> QED
  BY <1>1, <1>2, <1>3 DEF TraceViewsExact, HeldOf, recent

(* Whatever exports overlap, however the channels fill and whenever a      *)
(* collector's window is taken, each span sent is stored, queued, refused  *)
(* or counted, a window that reports no loss lost none, and every range    *)
(* and view of the ring tells the truth, for any capacities, batches and   *)
(* exporters (receiver/otlp, span/store.rs, collector/registry.rs).        *)
THEOREM SpansAreTold == RecvSpec => []SpansTold
<1>1. RecvInit => RecvInv
  BY RecvInitInv
<1>2. RecvInv /\ [RecvNext]_allVars => RecvInv'
  BY RecvNextInv
<1>3. RecvInv => SpansTold
  BY CleanIsWhole, RangeTells, ViewsExact DEF RecvInv, SpansTold
<1> QED
  BY <1>1, <1>2, <1>3, PTL DEF RecvSpec
=============================================================================
