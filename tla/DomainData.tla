------------------------------ MODULE DomainData ------------------------------
(***************************************************************************)
(* The provenance registry of one domain name: key syntax (path.rs), the   *)
(* entries and their two times (entry.rs, store.rs), the file it is        *)
(* written through to (persist.rs), the daemon's map of open registries    *)
(* (map.rs), and the requests over it (domain_data.update and remove, and  *)
(* cases.create's data, in daemon/rpc_handler.rs).                         *)
(*                                                                         *)
(* Requests of many sessions run over one registry.  An update reads the   *)
(* clock, takes the write mutex, changes the memory and serialises it      *)
(* under the data lock, writes the file, and gives the mutex back: steps   *)
(* others come between.  A broker killed at any of them comes back with    *)
(* the file.  A key is the sequence of its segments.                       *)
(***************************************************************************)
EXTENDS Integers, Sequences, FiniteSets, SequencesExt

CONSTANTS
  Writers,     \* requests that may overlap
  Batches,     \* the entry lists requests send
  Patterns,    \* the patterns of removals, as paths
  MaxKeys,     \* MAX_KEYS
  MaxSigil,    \* MAX_SIGIL_KEYS
  MaxTime,     \* bound: ticks of the clock
  MaxRequests, \* bound: requests
  MaxFaults    \* bound: kills, lost files and failed writes

ASSUME CapAssumption == MaxKeys \in Nat
ASSUME WriterAssumption == "free" \notin Writers
ASSUME BatchAssumption ==
  \A b \in Batches :
    b \in Seq([path : Seq(STRING), sigil : BOOLEAN, value : STRING, ttl : STRING])
ASSUME PatternAssumption == \A p \in Patterns : p \in [path : Seq(STRING), sigil : BOOLEAN]

Keep == "keep"      \* an absent or null value or ttl
Clear == "clear"    \* ttl: false
TooLong == "too long"
Malformed == "malformed"
NoEntries == [k \in {} |-> 0]
MissingFile == [kind |-> "missing"]
BadFile == [kind |-> "bad"]    \* corrupt, or written by a newer build
Saved(entries) == [kind |-> "saved", entries |-> entries]

VARIABLES
  mem,       \* the open registry, or Closed
  file,      \* its file: Saved(entries), MissingFile or BadFile
  mutex,     \* DomainRegistry::write: its holder, or "free"
  wr,        \* per writer: where its request is
  now,       \* the clock
  requests, faults,
  unsaved    \* history: the last write of the memory failed

provVars == <<mem, file, mutex, wr, now, requests, faults, unsaved>>

Closed == [open |-> FALSE]
NoRequest == [pc |-> "idle"]
-----------------------------------------------------------------------------
(* Key syntax. *)

(* Mutant of IsReserved: the test is on what lies under the segment. *)
IsReservedUnder(path) == Len(path) > 1 /\ path[1] = "logmon"

(* is_reserved: the first segment decides, for the bare /logmon too. *)
IsReserved(path) == Len(path) > 0 /\ path[1] = "logmon"

(* matches_prefix, on whole segments. *)
MatchesPrefix(pattern, path) ==
  /\ Len(pattern) <= Len(path)
  /\ \A i \in 1..Len(pattern) : pattern[i] = path[i]

(* Key::parse and validate_path: the reason a key is refused, or "ok".     *)
(* A segment that is empty or out of charset is Malformed.                 *)
KeyFault(e, sigilAllowed) ==
  IF Malformed \in Range(e.path) \/ e.path = <<>> THEN "malformed_path"
  ELSE IF TooLong \in Range(e.path) THEN "path_too_long"
  ELSE IF e.sigil /\ ~sigilAllowed THEN "sigil_not_allowed_here" ELSE "ok"

(* parse_data_entries, per entry: refused before any registry sees it. *)
WireFault(e) ==
  IF e.value = Malformed THEN "malformed_value"
  ELSE IF e.ttl = Malformed THEN "malformed_ttl" ELSE "ok"
-----------------------------------------------------------------------------
(* One entry against the registry: apply_one. *)

Rejected(why) == [outcome |-> "rejected", why |-> why]
Counted(entries) == {k \in DOMAIN entries : ~IsReserved(k)}

(* unknown_cause *)
UnknownCause(entries, quarantined) ==
  IF entries # NoEntries THEN "never_set"
  ELSE IF quarantined THEN "no_registry" ELSE "undetermined"

(* apply_one's refusals, in order. *)
Fault(e) ==
  IF KeyFault(e, FALSE) # "ok" THEN KeyFault(e, FALSE)
  ELSE IF IsReserved(e.path) THEN "reserved_prefix"
  ELSE IF e.value = TooLong THEN "value_too_long" ELSE "ok"

(* A confirmed value, a changed one: created moves only with the value. *)
Touched(old, value, ttl, t) ==
  [value     |-> IF value = Keep THEN old.value ELSE value,
   created   |-> IF value \in {Keep, old.value} THEN old.created ELSE t,
   validated |-> t,
   ttl       |-> IF ttl = Keep THEN old.ttl ELSE ttl]

Fresh(value, ttl, t) ==
  [value |-> value, created |-> t, validated |-> t,
   ttl |-> IF ttl = Keep THEN Clear ELSE ttl]

Put(entries, k, v) == [y \in DOMAIN entries \cup {k} |-> IF y = k THEN v ELSE entries[y]]

(* Mutant of RoomFor: the cap is judged as it was before the batch. *)
RoomForAtStart(entries) == Cardinality(Counted(mem.entries)) < MaxKeys

(* A new key must fit: /logmon keys are not counted. *)
RoomFor(entries) == Cardinality(Counted(entries)) < MaxKeys

ApplyOne(entries, e, t, quarantined) ==
  LET k == e.path
  IN  IF Fault(e) # "ok" THEN [entries |-> entries, out |-> Rejected(Fault(e))]
      ELSE IF k \in DOMAIN entries
        THEN [entries |-> Put(entries, k, Touched(entries[k], e.value, e.ttl, t)),
              out |-> [outcome |-> IF e.value \in {Keep, entries[k].value}
                                     THEN "validated" ELSE "updated"]]
      ELSE IF e.value = Keep
        THEN [entries |-> entries,
              out |-> [outcome |-> "unknown", cause |-> UnknownCause(entries, quarantined)]]
      ELSE IF ~RoomFor(entries)
        THEN [entries |-> entries, out |-> Rejected("registry_full")]
        ELSE [entries |-> Put(entries, k, Fresh(e.value, e.ttl, t)),
              out |-> [outcome |-> "created"]]

(* scope_one: an @ key goes to the case being written, or is refused. *)
ScopeFault(scoped, e) ==
  IF KeyFault(e, TRUE) # "ok" THEN KeyFault(e, TRUE)
  ELSE IF IsReserved(e.path) THEN "reserved_prefix"
  ELSE IF e.value = Keep THEN "malformed_path"
  ELSE IF e.value = TooLong THEN "value_too_long"
  ELSE IF Cardinality(DOMAIN scoped) >= MaxSigil THEN "registry_full" ELSE "ok"

ScopeOne(scoped, e) ==
  IF ScopeFault(scoped, e) # "ok"
    THEN [scoped |-> scoped, out |-> Rejected(ScopeFault(scoped, e))]
    ELSE [scoped |-> Put(scoped, e.path, e.value), out |-> [outcome |-> "scoped"]]

(* One entry of a batch, after the entries before it.  Only cases.create   *)
(* may scope.                                                              *)
ApplyEntry(acc, e, t, quarantined, forCase) ==
  IF WireFault(e) # "ok"
    THEN [acc EXCEPT !.outs = Append(@, Rejected(WireFault(e)))]
    ELSE IF e.sigil /\ forCase
      THEN LET r == ScopeOne(acc.scoped, e)
           IN  [acc EXCEPT !.scoped = r.scoped, !.outs = Append(@, r.out)]
      ELSE LET r == ApplyOne(acc.entries, e, t, quarantined)
           IN  [acc EXCEPT !.entries = r.entries, !.outs = Append(@, r.out)]

(* A batch, entry by entry in the order sent; outs[i] answers entry i      *)
(* (merge_outcomes).                                                       *)
Batch(entries, batch, t, quarantined, forCase) ==
  LET after[i \in 0..Len(batch)] ==
        IF i = 0 THEN [entries |-> entries, scoped |-> NoEntries, outs |-> <<>>]
        ELSE ApplyEntry(after[i - 1], batch[i], t, quarantined, forCase)
  IN  after[Len(batch)]

(* Registry::remove: by prefix, never through a reserved first segment. *)
RemovalFault(p) ==
  IF KeyFault(p, FALSE) # "ok" THEN KeyFault(p, FALSE)
  ELSE IF IsReserved(p.path) THEN "reserved_prefix" ELSE "ok"

Removed(entries, p) ==
  IF RemovalFault(p) # "ok" THEN entries
  ELSE [k \in {x \in DOMAIN entries : ~MatchesPrefix(p.path, x)} |-> entries[k]]
-----------------------------------------------------------------------------
(* Opening: for_domain, load and stamp_boot, under the map's write lock.  *)
(* A stamp that cannot be saved is logged, and the registry opens.        *)

ReservedKey(name) == <<"logmon", name>>
Stamp(old, name, t) ==
  LET k == ReservedKey(name)
  IN  Put(old, k, IF k \in DOMAIN old THEN Touched(old[k], Keep, Keep, t)
                  ELSE Fresh("stamp", Keep, t))

Stamped(entries, t) ==
  LET booted == Stamp(Stamp(entries, "domain", t), "version", t)
  IN  IF entries = NoEntries
        THEN Stamp(Stamp(booted, "first_seen", t), "incarnation", t) ELSE booted

LoadedEntries == IF file.kind = "saved" THEN file.entries ELSE NoEntries

Open ==
  /\ ~mem.open
  /\ LET entries == Stamped(LoadedEntries, now)
     IN  /\ mem' = [open |-> TRUE, entries |-> entries, quarantined |-> file = BadFile]
         /\ \/ file' = Saved(entries) /\ unsaved' = FALSE /\ UNCHANGED faults
            \/ /\ faults < MaxFaults
               /\ faults' = faults + 1
               /\ file' = IF file = BadFile THEN MissingFile ELSE file
               /\ unsaved' = TRUE
  /\ UNCHANGED <<mutex, wr, now, requests>>

ProvInit ==
  /\ mem = Closed
  /\ file = MissingFile
  /\ mutex = "free"
  /\ wr = [w \in Writers |-> NoRequest]
  /\ now = 1
  /\ requests = 0
  /\ faults = 0
  /\ unsaved = FALSE
-----------------------------------------------------------------------------
(* apply_data_entries and apply_case_data_entries: the clock is read, then *)
(* the mutex awaited.                                                      *)
Ask(w, batch, forCase) ==
  /\ wr[w] = NoRequest
  /\ mem.open
  /\ requests < MaxRequests
  /\ requests' = requests + 1
  /\ wr' = [wr EXCEPT ![w] = [pc |-> "wait", batch |-> batch, case |-> forCase, at |-> now]]
  /\ UNCHANGED <<mem, file, mutex, now, faults, unsaved>>

(* handle_domain_data_remove *)
AskRemoval(w, p) ==
  /\ wr[w] = NoRequest
  /\ mem.open
  /\ requests < MaxRequests
  /\ requests' = requests + 1
  /\ wr' = [wr EXCEPT ![w] = [pc |-> "remove", pattern |-> p]]
  /\ UNCHANGED <<mem, file, mutex, now, faults, unsaved>>

(* Mutant of MutexFree: the memory is changed and serialised first, the   *)
(* mutex guards the write alone.                                          *)
MutexFreeAlways == TRUE
MutexFree == mutex = "free"

(* mutate, under the mutex and the data lock: change and serialise. *)
Write(w, entries, batch, outs) ==
  /\ MutexFree
  /\ mutex' = w
  /\ mem' = [mem EXCEPT !.entries = entries]
  /\ wr' = [wr EXCEPT ![w] = [pc |-> "write", bytes |-> entries, batch |-> batch, outs |-> outs]]
  /\ UNCHANGED <<file, now, requests, faults, unsaved>>

Mutate(w) ==
  /\ wr[w].pc = "wait"
  /\ LET r == Batch(mem.entries, wr[w].batch, wr[w].at, mem.quarantined, wr[w].case)
     IN  Write(w, r.entries, wr[w].batch, r.outs)

Prune(w) ==
  /\ wr[w].pc = "remove"
  /\ Write(w, Removed(mem.entries, wr[w].pattern), <<>>, <<>>)

(* atomic_write, and the mutex given back. *)
Save(w) ==
  /\ wr[w].pc = "write"
  /\ file' = Saved(wr[w].bytes)
  /\ unsaved' = FALSE
  /\ mutex' = IF mutex = w THEN "free" ELSE mutex
  /\ wr' = [wr EXCEPT ![w] = NoRequest]
  /\ UNCHANGED <<mem, now, requests, faults>>

(* A write that fails is reported; the memory keeps the change. *)
SaveFails(w) ==
  /\ wr[w].pc = "write"
  /\ faults < MaxFaults
  /\ faults' = faults + 1
  /\ unsaved' = TRUE
  /\ mutex' = IF mutex = w THEN "free" ELSE mutex
  /\ wr' = [wr EXCEPT ![w] = NoRequest]
  /\ UNCHANGED <<mem, file, now, requests>>

(* The broker ends, at any point, and comes back with the registry closed. *)
Restart ==
  /\ faults < MaxFaults
  /\ faults' = faults + 1
  /\ mem' = Closed
  /\ mutex' = "free"
  /\ wr' = [w \in Writers |-> NoRequest]
  /\ UNCHANGED <<file, now, requests, unsaved>>

LoseFile ==
  /\ faults < MaxFaults
  /\ ~mem.open
  /\ faults' = faults + 1
  /\ file' = BadFile
  /\ UNCHANGED <<mem, mutex, wr, now, requests, unsaved>>

Tick ==
  /\ now < MaxTime
  /\ now' = now + 1
  /\ UNCHANGED <<mem, file, mutex, wr, requests, faults, unsaved>>

ProvNext ==
  \/ Open \/ Restart \/ LoseFile \/ Tick
  \/ \E w \in Writers :
       \/ \E b \in Batches, forCase \in BOOLEAN : Ask(w, b, forCase)
       \/ \E p \in Patterns : AskRemoval(w, p)
       \/ Mutate(w) \/ Prune(w) \/ Save(w) \/ SaveFails(w)

ProvSpec == ProvInit /\ [][ProvNext]_provVars
-----------------------------------------------------------------------------
(* With no write under way and the last one not failed, the file holds     *)
(* exactly what the memory serves: no older snapshot lands on a newer one, *)
(* to be found out only at the next boot (mutate, persist.rs).             *)
FileIsMemory ==
  mem.open /\ ~unsaved /\ (\A w \in Writers : wr[w].pc # "write")
    => file = Saved(mem.entries)

(* The broker's own keys survive every update and removal an agent can     *)
(* send, whatever pattern it gives, and no agent's value is seated beside  *)
(* them.                                                                   *)
ReservedKept ==
  mem.open =>
    /\ \A k \in {"domain", "version"} : ReservedKey(k) \in DOMAIN mem.entries
    /\ \A k \in DOMAIN mem.entries : k[1] = "logmon" => mem.entries[k].value = "stamp"

(* Agents' keys never exceed MAX_KEYS, one batch sent in any order or two  *)
(* at once, and the broker's keys never use up their room.                 *)
KeysWithinCap == mem.open => Cardinality(Counted(mem.entries)) <= MaxKeys

(* What a caller is told of each entry of its batch is what its write      *)
(* holds: a key said to be set is there, with the value of the batch's     *)
(* last word on it, and a key said to be unknown is not, unless a later    *)
(* entry brings it (apply_one, merge_outcomes).                            *)
AnswersTrue ==
  \A w \in Writers : wr[w].pc = "write" =>
    \A i \in DOMAIN wr[w].batch :
      LET e       == wr[w].batch[i]
          written == wr[w].bytes
          later   == \E j \in DOMAIN wr[w].batch : j > i /\ wr[w].batch[j].path = e.path
      IN  CASE wr[w].outs[i].outcome \in {"created", "updated", "validated"} ->
                 /\ e.path \in DOMAIN written
                 /\ e.value = Keep \/ later \/ written[e.path].value = e.value
            [] wr[w].outs[i].outcome = "unknown" -> later \/ e.path \notin DOMAIN written
            [] OTHER -> TRUE

(* The file of a domain's data is what its memory serves, the broker's     *)
(* keys and the cap hold whatever agents send at once, and each answer     *)
(* says what was written (domain_data/).                                   *)
DomainDataSound == FileIsMemory /\ ReservedKept /\ KeysWithinCap /\ AnswersTrue
=============================================================================
