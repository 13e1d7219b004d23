----------------------------- MODULE Collectors -----------------------------
(* CollectorRegistry: the armed collectors, their files, and the ledger    *)
(* that orders file writes and deletes against each other.                 *)
(*                                                                         *)
(* The registry is changed under its lock and the disk outside it, so a    *)
(* task's file work (a write, the deletes a removal decided) runs while    *)
(* other tasks arm, edit, move and remove collectors under the same names. *)
(* One collector name: a path is then its owner, and collectors of         *)
(* different names share no path.  A definition stands for what a          *)
(* structural edit may change; the live window, the history's limit and    *)
(* the statistics are left out.                                            *)
(*                                                                         *)
(* A connection handles its requests one after the other, for the session  *)
(* whose name it holds; drop and the TTL sweep take only names nobody      *)
(* holds (the session registry's part, modelled in Sessions).              *)
EXTENDS Integers, FiniteSets, FiniteSetsExt

CONSTANTS
  Owners,    \* session names
  Defs,      \* collector definitions
  Size,      \* max_sample_bytes of each definition
  Budget,    \* max_total_sample_bytes
  Tasks,     \* connections, and the TTL sweep
  Nobody,    \* the session of a task that has none
  None,      \* no collector, no file
  MaxArmed,  \* bound: collectors armed, and restarts
  MaxRuns,   \* bound: recorded runs of a collector
  MaxOps,    \* bound: registry calls
  MaxFaults  \* bound: saves and deletes the disk refuses

(* A collector's id: the owner and the count at its arming. *)
Ids == Owners \X Nat
Entry == [id : Ids, def : Defs, runs : Nat]
File == [of : Ids, def : Defs, runs : Nat]

ASSUME SizeAssumption == Size \in [Defs -> Nat] /\ Budget \in Nat
ASSUME NobodyAssumption == Nobody \notin Owners
ASSUME NoneAssumption == None \notin Entry \cup File

VARIABLES
  entries,  \* the armed collectors, by owner
  disk,     \* the collector files, by path
  last,     \* FileLedger: per path, the stamp of its last successful write
  seq,      \* FileLedger: the latest stamp
  held,     \* the session each task is connected as
  task,     \* what each task is in the middle of
  armed, ops, faults,
  unsaved,  \* history: collectors whose last write failed
  stranded  \* history: collectors that left a file the disk would not give up

fileVars == <<disk, last, seq>>
history == <<unsaved, stranded>>
vars == <<entries, fileVars, held, task, armed, ops, faults, history>>

Idle == [pc |-> "idle"]

LiveAt(o) == entries[o] # None
LiveIds == {entries[o].id : o \in {p \in Owners : LiveAt(p)}}

(* to_persisted.  of is a history field: whose bytes these are. *)
Persisted(e) == [of |-> e.id, def |-> e.def, runs |-> e.runs]

(* A task's next file work.  todo holds the deletes still to come, failed  *)
(* those that come even if the write fails.                                *)
Write(o, e, why, todo, failed) ==
  [pc |-> "write", at |-> o, id |-> e.id, file |-> Persisted(e), why |-> why,
   todo |-> todo, failed |-> failed]
Stamped(w, stamp) ==
  [pc |-> "save", at |-> w.at, id |-> w.id, file |-> w.file, why |-> w.why,
   todo |-> w.todo, failed |-> w.failed, stamp |-> stamp]
DeleteAt(o, since) == [at |-> o, since |-> since]
(* finish takes the deletes one by one; they are of different paths, and   *)
(* any order will do.                                                      *)
ThenDelete(todo) ==
  IF todo = {} THEN Idle ELSE [pc |-> "delete", todo |-> todo]

(* The deletes a task has decided and not yet done. *)
DecidedDeletes(t) ==
  IF task[t].pc \in {"move", "write", "save", "delete"} THEN task[t].todo
                                                       ELSE {}

(* A request under way on the collector. *)
Busy(id) ==
  \E t \in Tasks : task[t].pc \in {"taken", "move", "write", "save", "swap"}
                   /\ task[t].id = id

(* Mutant of Away: connected or not. *)
AwayAlways(o) == TRUE

(* No connection holds the name. *)
Away(o) == \A t \in Tasks : held[t] # o

(* The path's lock: held from a write's stamp to the end of its save. *)
PathFree(o) == \A t \in Tasks : task[t].pc = "save" => task[t].at # o

(* What the other collectors leave of the reservation. *)
Reserved(others) ==
  MapThenSumSet(LAMBDA o : Size[entries[o].def], {o \in others : LiveAt(o)})
Remaining(others) == Budget - Reserved(others)
-----------------------------------------------------------------------------
Init ==
  /\ entries = [o \in Owners |-> None]
  /\ disk = [o \in Owners |-> None]
  /\ last = [o \in Owners |-> 0]
  /\ seq = 0
  /\ held = [t \in Tasks |-> Nobody]
  /\ task = [t \in Tasks |-> Idle]
  /\ armed = 0 /\ ops = 0 /\ faults = 0
  /\ unsaved = {} /\ stranded = {}

(* session.start; and the end of the connection. *)
Start(t, o) ==
  /\ task[t] = Idle /\ held[t] = Nobody /\ Away(o)
  /\ ops < MaxOps /\ ops' = ops + 1
  /\ held' = [held EXCEPT ![t] = o]
  /\ UNCHANGED <<entries, fileVars, task, armed, faults, history>>

Leave(t) ==
  /\ task[t] = Idle /\ held[t] # Nobody
  /\ held' = [held EXCEPT ![t] = Nobody]
  /\ UNCHANGED <<entries, fileVars, task, armed, ops, faults, history>>

(* A request of the session o. *)
Request(t, o) ==
  task[t] = Idle /\ held[t] = o /\ ops < MaxOps /\ ops' = ops + 1

(* add: duplicate name and reservation, then the write. *)
Add(t, o, d) ==
  /\ Request(t, o)
  /\ armed < MaxArmed
  /\ ~LiveAt(o)
  /\ Size[d] <= Remaining(Owners)
  /\ LET e == [id |-> <<o, armed>>, def |-> d, runs |-> 0] IN
       /\ entries' = [entries EXCEPT ![o] = e]
       /\ task' = [task EXCEPT ![t] = Write(o, e, "add", {}, {})]
  /\ armed' = armed + 1
  /\ UNCHANGED <<fileVars, held, faults, history>>

(* edit, first phase: validate, and prepare the file it would have. *)
Edit(t, o, d) ==
  /\ Request(t, o)
  /\ LiveAt(o)
  /\ d # entries[o].def
  /\ Size[d] <= Remaining(Owners \ {o})
  /\ task' = [task EXCEPT ![t] =
                Write(o, [entries[o] EXCEPT !.def = d], "edit", {}, {})]
  /\ UNCHANGED <<entries, fileVars, held, armed, faults, history>>

(* snapshot, first step: take the window of the collector found by name. *)
Snapshot(t, o) ==
  /\ Request(t, o)
  /\ LiveAt(o)
  /\ entries[o].runs < MaxRuns
  /\ task' = [task EXCEPT ![t] =
                [pc |-> "taken", at |-> o, id |-> entries[o].id]]
  /\ UNCHANGED <<entries, fileVars, held, armed, faults, history>>

(* snapshot, once projected: file the run with the collector of that       *)
(* identity, whoever owns it now, and prepare its file.                    *)
FileRun(t) ==
  /\ task[t].pc = "taken"
  /\ IF task[t].id \in LiveIds
       THEN \E o \in Owners :
              /\ LiveAt(o) /\ entries[o].id = task[t].id
              /\ LET e == [entries[o] EXCEPT !.runs = @ + 1] IN
                   /\ entries' = [entries EXCEPT ![o] = e]
                   /\ task' = [task EXCEPT ![t] =
                                 Write(o, e, "snapshot", {}, {})]
       ELSE entries' = entries /\ task' = [task EXCEPT ![t] = Idle]
  /\ UNCHANGED <<fileVars, held, armed, ops, faults, history>>

(* The collector leaves the registry; its file is deleted after. *)
Detach(t, o) ==
  /\ LiveAt(o)
  /\ entries' = [entries EXCEPT ![o] = None]
  /\ task' = [task EXCEPT ![t] = ThenDelete({DeleteAt(o, seq)})]
  /\ UNCHANGED <<fileVars, held, armed, faults, history>>

Remove(t, o) == Request(t, o) /\ Detach(t, o)

(* sessions.drop, and the TTL sweep. *)
Drop(t, o) ==
  /\ task[t] = Idle /\ Away(o)
  /\ ops < MaxOps /\ ops' = ops + 1
  /\ Detach(t, o)

(* sessions.rename: a stale holder's collector is detached, and then the   *)
(* renamer's moves in; move_owner's file work comes before the unlinks.    *)
Rename(t, o, n) ==
  /\ Request(t, o)
  /\ Away(n)
  /\ held' = [held EXCEPT ![t] = n]
  /\ entries' = [entries EXCEPT ![n] = entries[o], ![o] = None]
  /\ LET unlink == IF LiveAt(n) THEN {DeleteAt(n, seq)} ELSE {} IN
       task' = [task EXCEPT ![t] =
                  IF LiveAt(o)
                    THEN [pc |-> "move", at |-> n, id |-> entries[o].id,
                          todo |-> {DeleteAt(o, seq)} \cup unlink,
                          failed |-> unlink]
                    ELSE ThenDelete(unlink)]
  /\ UNCHANGED <<fileVars, armed, faults, history>>
-----------------------------------------------------------------------------
(* The file work. *)

(* finish: a moved collector is written from its current state; one that   *)
(* is gone by now has nothing left to protect.                             *)
FinishMove(t) ==
  /\ task[t].pc = "move"
  /\ LET w == task[t] IN
       task' = [task EXCEPT ![t] =
                  IF LiveAt(w.at)
                    THEN Write(w.at, entries[w.at], "move", w.todo, w.failed)
                    ELSE ThenDelete(w.todo)]
  /\ UNCHANGED <<entries, fileVars, held, armed, ops, faults, history>>

(* The collector a file was prepared for, at the owner it was prepared for. *)
StillThere(w) == LiveAt(w.at) /\ entries[w.at].id = w.id

(* write, up to the save: the stamp is taken as the collector is found. *)
Stamp(t) ==
  /\ task[t].pc = "write"
  /\ PathFree(task[t].at)
  /\ LET w == task[t] IN
       IF StillThere(w)
         THEN /\ seq' = seq + 1
              /\ task' = [task EXCEPT ![t] = Stamped(w, seq + 1)]
         ELSE /\ seq' = seq
              /\ task' = [task EXCEPT ![t] = ThenDelete(w.todo)]
  /\ UNCHANGED <<entries, disk, last, held, armed, ops, faults, history>>

(* save succeeded; an edit goes on to its second phase. *)
Saved(t) ==
  /\ task[t].pc = "save"
  /\ LET w == task[t] IN
       /\ disk' = [disk EXCEPT ![w.at] = w.file]
       /\ last' = [last EXCEPT ![w.at] = w.stamp]
       /\ task' = [task EXCEPT ![t] =
                     IF w.why = "edit"
                       THEN [pc |-> "swap", at |-> w.at, id |-> w.id,
                             def |-> w.file.def]
                       ELSE ThenDelete(w.todo)]
       /\ unsaved' = unsaved \ {w.id}
  /\ UNCHANGED <<entries, seq, held, armed, ops, faults, stranded>>

(* save failed: an edit is refused, a mover keeps the old file. *)
SaveFailed(t) ==
  /\ task[t].pc = "save"
  /\ faults < MaxFaults
  /\ LET w == task[t] IN
       /\ task' = [task EXCEPT ![t] = ThenDelete(w.failed)]
       /\ unsaved' = IF w.why = "edit" THEN unsaved ELSE unsaved \cup {w.id}
       /\ stranded' = stranded \cup IF w.why = "move" THEN {w.id} ELSE {}
  /\ faults' = faults + 1
  /\ UNCHANGED <<entries, fileVars, held, armed, ops>>

(* edit, second phase. *)
Swap(t) ==
  /\ task[t].pc = "swap"
  /\ LET w == task[t] IN
       entries' = IF StillThere(w) THEN [entries EXCEPT ![w.at].def = w.def]
                                   ELSE entries
  /\ task' = [task EXCEPT ![t] = Idle]
  /\ UNCHANGED <<fileVars, held, armed, ops, faults, history>>

(* Mutant of Deletes: decided by who holds the path now. *)
DeletesUnlessHeld(d) == ~LiveAt(d.at)

(* Mutant of Deletes: whatever has been written since. *)
DeletesAlways(d) == TRUE

(* delete_unless_written_since: decided by bytes, not by who holds them. *)
Deletes(d) == last[d.at] <= d.since

(* A decided delete.  The path's ledger entry goes with the file, unless   *)
(* another caller is holding it.                                           *)
Delete(t, d) ==
  /\ task[t].pc = "delete"
  /\ d \in task[t].todo
  /\ PathFree(d.at)
  /\ IF Deletes(d)
       THEN /\ disk' = [disk EXCEPT ![d.at] = None]
            /\ \E stamp \in {0, last[d.at]} :
                 last' = [last EXCEPT ![d.at] = stamp]
       ELSE UNCHANGED <<disk, last>>
  /\ task' = [task EXCEPT ![t] = ThenDelete(task[t].todo \ {d})]
  /\ UNCHANGED <<entries, seq, held, armed, ops, faults, history>>

(* The disk refuses the delete: the file stays. *)
DeleteFailed(t, d) ==
  /\ task[t].pc = "delete"
  /\ d \in task[t].todo
  /\ faults < MaxFaults
  /\ PathFree(d.at)
  /\ Deletes(d) /\ disk[d.at] # None
  /\ stranded' = stranded \cup {disk[d.at].of}
  /\ faults' = faults + 1
  /\ task' = [task EXCEPT ![t] = ThenDelete(task[t].todo \ {d})]
  /\ UNCHANGED <<entries, fileVars, held, armed, ops, unsaved>>
-----------------------------------------------------------------------------
(* FileLedger::default. *)
NewLedger == [o \in Owners |-> 0]

(* The daemon is killed and started again: restore arms what is on disk,   *)
(* each collector under a new id, and every owner is a session again.      *)
Restart ==
  /\ armed < MaxArmed
  /\ LET Restored(o) == [id |-> <<o, armed>>, def |-> disk[o].def,
                         runs |-> disk[o].runs]
         Back == {o \in Owners : disk[o] # None} IN
       /\ entries' = [o \in Owners |->
                        IF o \in Back THEN Restored(o) ELSE None]
       /\ disk' = [o \in Owners |->
                     IF o \in Back THEN Persisted(Restored(o)) ELSE None]
  /\ last' = NewLedger
  /\ seq' = 0
  /\ held' = [t \in Tasks |-> Nobody]
  /\ task' = [t \in Tasks |-> Idle]
  /\ armed' = armed + 1
  /\ unsaved' = {} /\ stranded' = {}
  /\ UNCHANGED <<ops, faults>>

Next ==
  \/ \E t \in Tasks :
       \/ \E o \in Owners, d \in Defs : Add(t, o, d) \/ Edit(t, o, d)
       \/ \E o \in Owners : Start(t, o) \/ Snapshot(t, o) \/ Remove(t, o)
                             \/ Drop(t, o)
       \/ Leave(t)
       \/ \E o, n \in Owners : Rename(t, o, n)
       \/ FileRun(t) \/ FinishMove(t) \/ Stamp(t) \/ Saved(t) \/ SaveFailed(t)
       \/ Swap(t)
       \/ \E d \in DecidedDeletes(t) : Delete(t, d) \/ DeleteFailed(t, d)
  \/ Restart

Spec == Init /\ [][Next]_vars
-----------------------------------------------------------------------------
Why == {"add", "edit", "snapshot", "move"}
Deletion == [at : Owners, since : Nat]
Idling == [pc : {"idle"}]
Taken == [pc : {"taken"}, at : Owners, id : Ids]
Moving == [pc : {"move"}, at : Owners, id : Ids,
           todo : SUBSET Deletion, failed : SUBSET Deletion]
Writing == [pc : {"write"}, at : Owners, id : Ids, file : File, why : Why,
            todo : SUBSET Deletion, failed : SUBSET Deletion]
Saving == [pc : {"save"}, at : Owners, id : Ids, file : File, why : Why,
           todo : SUBSET Deletion, failed : SUBSET Deletion, stamp : 1..seq]
Swapping == [pc : {"swap"}, at : Owners, id : Ids, def : Defs]
Deleting == [pc : {"delete"}, todo : SUBSET Deletion]
Task == Idling \cup Taken \cup Moving \cup Writing \cup Saving \cup Swapping
          \cup Deleting

(* What the registry, the files, the ledger and the tasks hold; no write   *)
(* is stamped ahead of the ledger.                                         *)
TypeOK ==
  /\ entries \in [Owners -> Entry \cup {None}]
  /\ disk \in [Owners -> File \cup {None}]
  /\ seq \in Nat
  /\ last \in [Owners -> 0..seq]
  /\ held \in [Tasks -> Owners \cup {Nobody}]
  /\ task \in [Tasks -> Task]
  /\ armed \in Nat
  /\ unsaved \subseteq Ids
  /\ stranded \subseteq Ids

(* A file whose collector is gone does not stay: a task that will delete   *)
(* it is on its way, unless the disk refused the delete or the write that  *)
(* a move waits for.  Otherwise a removed collector is armed again at the  *)
(* next start, holding its share of the reservation.                       *)
NoDeadFile ==
  \A o \in Owners :
    disk[o] # None /\ disk[o].of \notin LiveIds \cup stranded
      => \E t \in Tasks : \E d \in DecidedDeletes(t) :
           d.at = o /\ last[o] <= d.since

(* A collector no request is working on is on disk as it is in memory,     *)
(* unless its last write failed: no delete takes the file of a name's new  *)
(* holder, no older write covers a newer one, and an edit that could not   *)
(* be saved changed neither.                                               *)
LiveIsOnDisk ==
  \A o \in Owners :
    LiveAt(o) /\ ~Busy(entries[o].id) /\ entries[o].id \notin unsaved
      => disk[o] = Persisted(entries[o])

(* No request finds the collector it works on removed or moved under it:   *)
(* the not-found branches after a write cannot be taken, so an edit that   *)
(* reached the disk reaches the registry, and no run is left unfiled.      *)
NeverTakenAway ==
  \A t \in Tasks :
    task[t].pc \in {"taken", "move", "write", "save", "swap"}
      => StillThere(task[t])
-----------------------------------------------------------------------------
(* The inductive invariant. *)

HeldOnce ==
  \A t, u \in Tasks : held[t] = held[u] /\ held[t] # Nobody => t = u

(* A request works for the session its connection holds. *)
AtWork ==
  \A t \in Tasks :
    task[t].pc \in {"taken", "move", "write", "save", "swap"}
      => held[t] = task[t].at /\ StillThere(task[t])

IdsDistinct ==
  \A o, p \in Owners :
    LiveAt(o) => /\ entries[o].id[2] < armed
                 /\ LiveAt(p) /\ entries[o].id = entries[p].id => o = p

(* A delete is decided no later than now, and before any write that is     *)
(* being saved to its path.                                                *)
DeletesBehind ==
  \A t \in Tasks : \A d \in DecidedDeletes(t) :
    /\ d.since <= seq
    /\ \A u \in Tasks :
         task[u].pc = "save" /\ task[u].at = d.at => d.since < task[u].stamp

(* No delete decided so far will take the file at o. *)
Safe(o) ==
  \A t \in Tasks : \A d \in DecidedDeletes(t) : d.at = o => d.since < last[o]
Current(o) == disk[o] = Persisted(entries[o]) /\ Safe(o)
Redefined(e, d) == [id |-> e.id, def |-> d, runs |-> e.runs]

(* A request's file is what its collector will be; until an edit has been  *)
(* saved, the file on disk is what its collector is.                       *)
PreparedFile(t) ==
  LET w == task[t] IN
    /\ w.pc \in {"write", "save"} =>
         IF w.why = "edit"
           THEN /\ w.file = Persisted(Redefined(entries[w.at], w.file.def))
                /\ w.id \notin unsaved => Current(w.at)
           ELSE w.file = Persisted(entries[w.at])
    /\ w.pc = "swap" =>
         /\ disk[w.at] = Persisted(Redefined(entries[w.at], w.def))
         /\ Safe(w.at)
    /\ w.pc \in {"write", "save"} /\ w.why # "move" => w.todo = {}
    /\ w.pc \in {"move", "write", "save"} => w.failed \subseteq w.todo

FilePrepared == \A t \in Tasks : PreparedFile(t)

SavedIsCurrent ==
  \A o \in Owners :
    LiveAt(o) /\ ~Busy(entries[o].id) /\ entries[o].id \notin unsaved
      => Current(o)

(* The deletes of a task that will come, as far as id's file goes: a mover *)
(* deletes its old path only if its write succeeds, and its own file is    *)
(* stranded if not.                                                        *)
SureDeletes(t, id) ==
  IF task[t].pc \in {"move", "write", "save"} /\ task[t].id # id
    THEN task[t].failed
    ELSE DecidedDeletes(t)

MisplacedIsDoomed ==
  \A o \in Owners :
    /\ disk[o] # None
    /\ disk[o].of \notin stranded
    /\ ~(LiveAt(o) /\ entries[o].id = disk[o].of)
    => \E t \in Tasks : \E d \in SureDeletes(t, disk[o].of) :
         d.at = o /\ last[o] <= d.since

Inv ==
  /\ TypeOK /\ HeldOnce /\ AtWork /\ IdsDistinct /\ DeletesBehind
  /\ FilePrepared /\ SavedIsCurrent /\ MisplacedIsDoomed
=============================================================================
