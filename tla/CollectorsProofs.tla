-------------------------- MODULE CollectorsProofs --------------------------
(* Collectors keeps files and registry together, for any number of owners, *)
(* tasks, definitions and faults; and CollectorFiles, the directory they   *)
(* are loaded from, loses no collector whatever boot is cut short.         *)
EXTENDS Collectors, CollectorFiles, WellFoundedInduction, TLAPS

(* A task's fields, by where it is. *)
LEMMA TaskFields ==
  ASSUME TypeOK, NEW t \in Tasks
  PROVE  /\ task[t].pc \in {"idle", "taken", "move", "write", "save", "swap",
                            "delete"}
         /\ task[t].pc = "taken" => task[t] \in Taken
         /\ task[t].pc = "move" => task[t] \in Moving
         /\ task[t].pc = "write" => task[t] \in Writing
         /\ task[t].pc = "save" => task[t] \in Saving
         /\ task[t].pc = "swap" => task[t] \in Swapping
         /\ task[t].pc = "delete" => task[t] \in Deleting
BY DEF TypeOK, Task, Idling, Taken, Moving, Writing, Saving, Swapping, Deleting

LEMMA DecidedTyped ==
  ASSUME TypeOK, NEW t \in Tasks
  PROVE  DecidedDeletes(t) \subseteq Deletion
BY TaskFields DEF DecidedDeletes, Moving, Writing, Saving, Deleting, Deletion,
   TypeOK

LEMMA EntryTyped ==
  ASSUME TypeOK, NEW o \in Owners
  PROVE  /\ LiveAt(o) => entries[o] \in Entry
         /\ disk[o] # None => disk[o] \in File
BY DEF TypeOK, LiveAt

LEMMA InitType == Init => TypeOK
BY DEF Init, TypeOK, Task, Idling, Idle

(* A higher stamp leaves every task's record well formed. *)
LEMMA TaskMonotone ==
  ASSUME TypeOK, seq' \in Nat, seq <= seq'
  PROVE  Task \subseteq Task'
<1>1. Saving \subseteq Saving'
  BY DEF TypeOK, Saving
<1> QED
  BY <1>1 DEF Task, Idling, Taken, Moving, Writing, Swapping, Deleting

(* Where a request is, its collector is, and it is the session's only one. *)
LEMMA WorkPlace ==
  ASSUME Inv, NEW t \in Tasks,
         task[t].pc \in {"taken", "move", "write", "save", "swap"}
  PROVE  /\ task[t].at \in Owners /\ task[t].id \in Ids
         /\ held[t] = task[t].at
         /\ LiveAt(task[t].at) /\ entries[task[t].at].id = task[t].id
         /\ entries[task[t].at] \in Entry
         /\ \A u \in Tasks \ {t} : held[u] # task[t].at
<1>1. task[t].at \in Owners /\ task[t].id \in Ids
  BY TaskFields DEF Inv, Taken, Moving, Writing, Saving, Swapping
<1> QED
  BY <1>1, EntryTyped, NobodyAssumption DEF Inv, TypeOK, AtWork, HeldOnce,
     StillThere

LEMMA InitInv == Init => Inv
<1> SUFFICES ASSUME Init PROVE Inv
  OBVIOUS
<1>1. TypeOK
  BY InitType
<1>2. \A t \in Tasks : task[t].pc = "idle" /\ DecidedDeletes(t) = {}
  BY DEF Init, Idle, DecidedDeletes
<1>3. \A o \in Owners : ~LiveAt(o) /\ disk[o] = None
  BY DEF Init, LiveAt
<1>4. HeldOnce
  BY DEF Init, HeldOnce
<1> QED
  BY <1>1, <1>2, <1>3, <1>4 DEF Inv, AtWork, IdsDistinct, DeletesBehind,
     FilePrepared, PreparedFile, SavedIsCurrent, MisplacedIsDoomed

(* Start and Leave change who holds a name, and only while nothing is      *)
(* under way for it.                                                       *)
LEMMA StartInv ==
  ASSUME Inv, NEW t \in Tasks, NEW o \in Owners, Start(t, o)
  PROVE  Inv'
<1>1. TypeOK'
  BY DEF Inv, TypeOK, Start, fileVars, history, Task, Idling, Taken, Moving,
     Writing, Saving, Swapping, Deleting
<1>2. HeldOnce'
  BY NobodyAssumption DEF Inv, TypeOK, HeldOnce, Start, Away
<1>3. AtWork'
  BY DEF Inv, TypeOK, AtWork, Start, Idle, StillThere, LiveAt
<1>4. \A u \in Tasks : DecidedDeletes(u)' = DecidedDeletes(u)
  BY DEF Start, DecidedDeletes
<1>5. \A u \in Tasks, id \in Ids : SureDeletes(u, id)' = SureDeletes(u, id)
  BY <1>4 DEF Start, SureDeletes
<1>6. IdsDistinct' /\ DeletesBehind'
  BY <1>4 DEF Inv, IdsDistinct, DeletesBehind, Start, fileVars, LiveAt
<1>7. FilePrepared' /\ SavedIsCurrent'
  BY <1>4 DEF Inv, FilePrepared, PreparedFile, SavedIsCurrent, Start, fileVars, history,
     LiveAt, Busy, Current, Safe, Persisted, Redefined
<1>8. MisplacedIsDoomed'
  BY <1>5, EntryTyped DEF Inv, MisplacedIsDoomed, Start, fileVars, history,
     LiveAt, File
<1> QED
  BY <1>1, <1>2, <1>3, <1>6, <1>7, <1>8 DEF Inv

LEMMA LeaveInv ==
  ASSUME Inv, NEW t \in Tasks, Leave(t)
  PROVE  Inv'
<1>1. TypeOK'
  BY DEF Inv, TypeOK, Leave, fileVars, history, Task, Idling, Taken, Moving,
     Writing, Saving, Swapping, Deleting
<1>2. HeldOnce'
  BY NobodyAssumption DEF Inv, TypeOK, HeldOnce, Leave
<1>3. AtWork'
  BY DEF Inv, TypeOK, AtWork, Leave, Idle, StillThere, LiveAt
<1>4. \A u \in Tasks : DecidedDeletes(u)' = DecidedDeletes(u)
  BY DEF Leave, DecidedDeletes
<1>5. \A u \in Tasks, id \in Ids : SureDeletes(u, id)' = SureDeletes(u, id)
  BY <1>4 DEF Leave, SureDeletes
<1>6. IdsDistinct' /\ DeletesBehind'
  BY <1>4 DEF Inv, IdsDistinct, DeletesBehind, Leave, fileVars, LiveAt
<1>7. FilePrepared' /\ SavedIsCurrent'
  BY <1>4 DEF Inv, FilePrepared, PreparedFile, SavedIsCurrent, Leave, fileVars, history,
     LiveAt, Busy, Current, Safe, Persisted, Redefined
<1>8. MisplacedIsDoomed'
  BY <1>5, EntryTyped DEF Inv, MisplacedIsDoomed, Leave, fileVars, history,
     LiveAt, File
<1> QED
  BY <1>1, <1>2, <1>3, <1>6, <1>7, <1>8 DEF Inv

LEMMA AddInv ==
  ASSUME Inv, NEW t \in Tasks, NEW o \in Owners, NEW d \in Defs, Add(t, o, d)
  PROVE  Inv'
<1> DEFINE e == [id |-> <<o, armed>>, def |-> d, runs |-> 0]
           w == Write(o, e, "add", {}, {})
<1>1. e \in Entry /\ w \in Writing
  BY DEF Inv, TypeOK, Entry, Ids, Write, Persisted, File, Writing, Why, Deletion
<1>2. /\ entries' = [entries EXCEPT ![o] = e]
      /\ task' = [task EXCEPT ![t] = w]
      /\ task[t].pc = "idle" /\ held[t] = o /\ ~LiveAt(o)
      /\ armed' = armed + 1
      /\ UNCHANGED <<disk, last, seq, held, unsaved, stranded>>
  BY DEF Add, Request, Idle, fileVars, history
<1>3. /\ w.pc = "write" /\ w.at = o /\ w.id = e.id /\ w.why = "add"
      /\ w.todo = {} /\ w.failed = {} /\ w.file = Persisted(e)
      /\ e.id = <<o, armed>>
  BY DEF Write
<1> HIDE DEF e, w
<1>4. TypeOK'
  <2>1. Task \subseteq Task'
    BY <1>2, TaskMonotone DEF Inv, TypeOK
  <2>2. task' \in [Tasks -> Task']
    BY <2>1, <1>1, <1>2 DEF Inv, TypeOK, Task
  <2> QED
    BY <2>2, <1>1, <1>2 DEF Inv, TypeOK
<1>5. HeldOnce'
  BY <1>2 DEF Inv, HeldOnce
<1>6. AtWork'
  BY <1>1, <1>2, <1>3, NoneAssumption DEF Inv, TypeOK, AtWork, HeldOnce,
     StillThere, LiveAt
<1>7. IdsDistinct'
  <2>1. \A p \in Owners \ {o} : entries'[p] = entries[p]
    BY <1>2 DEF Inv, TypeOK
  <2>2. \A p \in Owners : LiveAt(p) => entries[p].id \in Ids
    BY EntryTyped DEF Inv, Entry
  <2>3. entries'[o] = e /\ armed \in Nat
    BY <1>2 DEF Inv, TypeOK
  <2>4. \A p \in Owners : LiveAt(p) => entries[p].id[2] \in Nat
    BY <2>2 DEF Ids
  <2>5. \A p \in Owners : LiveAt(p) => entries[p].id # e.id
    BY <1>3, <2>4 DEF Inv, IdsDistinct
  <2> QED
    BY <1>2, <1>3, <2>1, <2>3, <2>4, <2>5 DEF Inv, IdsDistinct, LiveAt
<1>8. \A u \in Tasks : DecidedDeletes(u)' = DecidedDeletes(u)
  BY <1>2, <1>3 DEF Inv, TypeOK, DecidedDeletes
<1>9. \A u \in Tasks, id \in Ids : SureDeletes(u, id)' = SureDeletes(u, id)
  BY <1>2, <1>3, <1>8 DEF Inv, TypeOK, SureDeletes, DecidedDeletes
<1>10. DeletesBehind'
  BY <1>2, <1>3, <1>8 DEF Inv, TypeOK, DeletesBehind
<1>11. \A p \in Owners \ {o} : Current(p)' = Current(p) /\ Safe(p)' = Safe(p)
  BY <1>2, <1>8 DEF Inv, TypeOK, Current, Safe, Persisted
<1>12. FilePrepared'
  <2>1. \A u \in Tasks \ {t} :
          task[u].pc \in {"write", "save", "swap"} => task[u].at \in Owners \ {o}
    BY <1>2, WorkPlace
  <2>2. PreparedFile(t)'
    BY <1>2, <1>3 DEF Inv, TypeOK, PreparedFile
  <2>3. ASSUME NEW u \in Tasks \ {t}
        PROVE  PreparedFile(u)'
    <3>1. /\ task'[u] = task[u] /\ PreparedFile(u)
          /\ \A p \in Owners \ {o} : entries'[p] = entries[p]
      BY <1>2 DEF Inv, TypeOK, FilePrepared
    <3> QED
      BY <3>1, <1>2, <1>11, <2>1 DEF PreparedFile
  <2> QED
    BY <2>2, <2>3 DEF FilePrepared
<1>13. SavedIsCurrent'
  BY <1>2, <1>3, <1>11 DEF Inv, TypeOK, SavedIsCurrent, Busy, LiveAt
<1>14. MisplacedIsDoomed'
  BY <1>2, <1>9, EntryTyped DEF Inv, TypeOK, MisplacedIsDoomed, LiveAt, File
<1> QED
  BY <1>4, <1>5, <1>6, <1>7, <1>10, <1>12, <1>13, <1>14 DEF Inv

(* A request that only prepares its file: the registry and the files stay. *)
LEMMA EditInv ==
  ASSUME Inv, NEW t \in Tasks, NEW o \in Owners, NEW d \in Defs, Edit(t, o, d)
  PROVE  Inv'
<1> DEFINE e == [entries[o] EXCEPT !.def = d]
           w == Write(o, e, "edit", {}, {})
<1>1. /\ task' = [task EXCEPT ![t] = w]
      /\ task[t].pc = "idle" /\ held[t] = o /\ LiveAt(o)
      /\ UNCHANGED <<entries, disk, last, seq, held, armed, unsaved, stranded>>
  BY DEF Edit, Request, Idle, fileVars, history
<1>2. entries[o] \in Entry
  BY <1>1, EntryTyped DEF Inv
<1>3. /\ w.pc = "write" /\ w.at = o /\ w.id = entries[o].id /\ w.why = "edit"
      /\ w.todo = {} /\ w.failed = {} /\ w.file.def = d
      /\ w.file = Persisted(Redefined(entries[o], d))
      /\ w \in Writing
  BY <1>2 DEF Write, Persisted, Redefined, Entry, File, Writing, Why
<1> HIDE DEF e, w
<1>4. TypeOK'
  <2>1. Task \subseteq Task'
    BY <1>1, TaskMonotone DEF Inv, TypeOK
  <2>2. task' \in [Tasks -> Task']
    BY <2>1, <1>1, <1>3 DEF Inv, TypeOK, Task
  <2> QED
    BY <2>2, <1>1 DEF Inv, TypeOK
<1>5. HeldOnce' /\ IdsDistinct'
  BY <1>1 DEF Inv, HeldOnce, IdsDistinct, LiveAt
<1>6. AtWork'
  BY <1>1, <1>3 DEF Inv, TypeOK, AtWork, StillThere, LiveAt
<1>7. \A u \in Tasks : DecidedDeletes(u)' = DecidedDeletes(u)
  BY <1>1, <1>3 DEF Inv, TypeOK, DecidedDeletes
<1>8. \A u \in Tasks, id \in Ids : SureDeletes(u, id)' = SureDeletes(u, id)
  BY <1>1, <1>3, <1>7 DEF Inv, TypeOK, SureDeletes, DecidedDeletes
<1>9. DeletesBehind'
  BY <1>1, <1>3, <1>7 DEF Inv, TypeOK, DeletesBehind
<1>10. \A p \in Owners : Current(p)' = Current(p) /\ Safe(p)' = Safe(p)
  BY <1>1, <1>7 DEF Current, Safe, Persisted
<1>11. FilePrepared'
  <2>1. ~Busy(entries[o].id)
    BY <1>1, WorkPlace DEF Inv, Busy, IdsDistinct
  <2>2. entries[o].id \notin unsaved => Current(o)
    BY <1>1, <2>1 DEF Inv, SavedIsCurrent
  <2>3. \A u \in Tasks :
          task[u].pc \in {"write", "save", "swap"} => task[u].at \in Owners
    BY WorkPlace
  <2>4. PreparedFile(t)'
    BY <1>1, <1>3, <1>10, <2>2 DEF Inv, TypeOK, PreparedFile
  <2>5. ASSUME NEW u \in Tasks \ {t}
        PROVE  PreparedFile(u)'
    <3>1. task'[u] = task[u] /\ PreparedFile(u)
      BY <1>1 DEF Inv, TypeOK, FilePrepared
    <3> QED
      BY <3>1, <1>1, <1>10, <2>3 DEF PreparedFile
  <2> QED
    BY <2>4, <2>5 DEF FilePrepared
<1>12. SavedIsCurrent'
  BY <1>1, <1>3, <1>10 DEF Inv, TypeOK, SavedIsCurrent, Busy, LiveAt
<1>13. MisplacedIsDoomed'
  BY <1>1, <1>8, EntryTyped DEF Inv, TypeOK, MisplacedIsDoomed, LiveAt, File
<1> QED
  BY <1>4, <1>5, <1>6, <1>9, <1>11, <1>12, <1>13 DEF Inv

LEMMA SnapshotInv ==
  ASSUME Inv, NEW t \in Tasks, NEW o \in Owners, Snapshot(t, o)
  PROVE  Inv'
<1> DEFINE w == [pc |-> "taken", at |-> o, id |-> entries[o].id]
<1>1. /\ task' = [task EXCEPT ![t] = w]
      /\ task[t].pc = "idle" /\ held[t] = o /\ LiveAt(o)
      /\ UNCHANGED <<entries, disk, last, seq, held, armed, unsaved, stranded>>
  BY DEF Snapshot, Request, Idle, fileVars, history
<1>2. w.pc = "taken" /\ w.at = o /\ w.id = entries[o].id /\ w \in Taken
  BY <1>1, EntryTyped DEF Inv, Entry, Taken
<1> HIDE DEF w
<1>3. TypeOK'
  <2>1. Task \subseteq Task'
    BY <1>1, TaskMonotone DEF Inv, TypeOK
  <2>2. task' \in [Tasks -> Task']
    BY <2>1, <1>1, <1>2 DEF Inv, TypeOK, Task
  <2> QED
    BY <2>2, <1>1 DEF Inv, TypeOK
<1>4. HeldOnce' /\ IdsDistinct'
  BY <1>1 DEF Inv, HeldOnce, IdsDistinct, LiveAt
<1>5. AtWork'
  BY <1>1, <1>2 DEF Inv, TypeOK, AtWork, StillThere, LiveAt
<1>6. \A u \in Tasks : DecidedDeletes(u)' = DecidedDeletes(u)
  BY <1>1, <1>2 DEF Inv, TypeOK, DecidedDeletes
<1>7. \A u \in Tasks, id \in Ids : SureDeletes(u, id)' = SureDeletes(u, id)
  BY <1>1, <1>2, <1>6 DEF Inv, TypeOK, SureDeletes, DecidedDeletes
<1>8. DeletesBehind'
  BY <1>1, <1>2, <1>6 DEF Inv, TypeOK, DeletesBehind
<1>9. \A p \in Owners : Current(p)' = Current(p) /\ Safe(p)' = Safe(p)
  BY <1>1, <1>6 DEF Current, Safe, Persisted
<1>10. FilePrepared'
  <2>1. \A u \in Tasks :
          task[u].pc \in {"write", "save", "swap"} => task[u].at \in Owners
    BY WorkPlace
  <2>2. PreparedFile(t)'
    BY <1>1, <1>2 DEF Inv, TypeOK, PreparedFile
  <2>3. ASSUME NEW u \in Tasks \ {t}
        PROVE  PreparedFile(u)'
    <3>1. task'[u] = task[u] /\ PreparedFile(u)
      BY <1>1 DEF Inv, TypeOK, FilePrepared
    <3> QED
      BY <3>1, <1>1, <1>9, <2>1 DEF PreparedFile
  <2> QED
    BY <2>2, <2>3 DEF FilePrepared
<1>11. SavedIsCurrent'
  BY <1>1, <1>2, <1>9 DEF Inv, TypeOK, SavedIsCurrent, Busy, LiveAt
<1>12. MisplacedIsDoomed'
  BY <1>1, <1>7, EntryTyped DEF Inv, TypeOK, MisplacedIsDoomed, LiveAt, File
<1> QED
  BY <1>3, <1>4, <1>5, <1>8, <1>10, <1>11, <1>12 DEF Inv

LEMMA FileRunInv ==
  ASSUME Inv, NEW t \in Tasks, FileRun(t)
  PROVE  Inv'
<1> DEFINE o == task[t].at
           e == [entries[o] EXCEPT !.runs = @ + 1]
           w == Write(o, e, "snapshot", {}, {})
<1>1. /\ o \in Owners /\ task[t].id \in Ids /\ held[t] = o /\ LiveAt(o)
      /\ entries[o].id = task[t].id /\ entries[o] \in Entry
      /\ \A u \in Tasks \ {t} : held[u] # o
  BY WorkPlace DEF FileRun
<1>2. task[t].id \in LiveIds
  BY <1>1 DEF LiveIds
<1>3. \A p \in Owners : LiveAt(p) /\ entries[p].id = task[t].id => p = o
  BY <1>1 DEF Inv, IdsDistinct
<1>4. /\ entries' = [entries EXCEPT ![o] = e]
      /\ task' = [task EXCEPT ![t] = w]
      /\ task[t].pc = "taken"
      /\ UNCHANGED <<disk, last, seq, held, armed, unsaved, stranded>>
  BY <1>2, <1>3 DEF FileRun, fileVars, history
<1>5. /\ e \in Entry /\ e.id = entries[o].id
      /\ w.pc = "write" /\ w.at = o /\ w.id = e.id /\ w.why = "snapshot"
      /\ w.todo = {} /\ w.failed = {} /\ w.file = Persisted(e)
      /\ w \in Writing
  BY <1>1 DEF Write, Persisted, Entry, File, Writing, Why
<1> HIDE DEF o, e, w
<1>6. TypeOK'
  <2>1. Task \subseteq Task'
    BY <1>4, TaskMonotone DEF Inv, TypeOK
  <2>2. task' \in [Tasks -> Task']
    BY <2>1, <1>4, <1>5 DEF Inv, TypeOK, Task
  <2> QED
    BY <2>2, <1>1, <1>4, <1>5 DEF Inv, TypeOK
<1>7. \A p \in Owners : /\ LiveAt(p)' <=> LiveAt(p)
                        /\ LiveAt(p) => entries'[p].id = entries[p].id
                        /\ p # o => entries'[p] = entries[p]
  BY <1>1, <1>4, <1>5, NoneAssumption DEF Inv, TypeOK, LiveAt
<1>8. HeldOnce' /\ IdsDistinct'
  BY <1>4, <1>7 DEF Inv, HeldOnce, IdsDistinct
<1>9. AtWork'
  <2>1. \A u \in Tasks \ {t} : task'[u] = task[u] /\ held'[u] = held[u]
    BY <1>4 DEF Inv, TypeOK
  <2>2. task'[t] = w /\ held'[t] = held[t]
    BY <1>4 DEF Inv, TypeOK
  <2>3. entries'[o] # None /\ entries'[o].id = w.id
    BY <1>1, <1>5, <1>7 DEF LiveAt
  <2>4. \A u \in Tasks \ {t} :
          task[u].pc \in {"taken", "move", "write", "save", "swap"}
            => /\ held[u] = task[u].at /\ entries'[task[u].at] # None
               /\ entries'[task[u].at].id = task[u].id
    BY <1>7, WorkPlace DEF LiveAt
  <2> QED
    BY <1>1, <1>5, <2>1, <2>2, <2>3, <2>4 DEF AtWork, StillThere, LiveAt
<1>10. \A u \in Tasks : DecidedDeletes(u)' = DecidedDeletes(u)
  BY <1>4, <1>5 DEF Inv, TypeOK, DecidedDeletes
<1>11. \A u \in Tasks, id \in Ids : SureDeletes(u, id)' = SureDeletes(u, id)
  BY <1>4, <1>5, <1>10 DEF Inv, TypeOK, SureDeletes, DecidedDeletes
<1>12. DeletesBehind'
  BY <1>4, <1>5, <1>10 DEF Inv, TypeOK, DeletesBehind
<1>13. \A p \in Owners \ {o} : Current(p)' = Current(p) /\ Safe(p)' = Safe(p)
  BY <1>4, <1>7, <1>10 DEF Current, Safe, Persisted
<1>14. FilePrepared'
  <2>1. \A u \in Tasks \ {t} :
          task[u].pc \in {"write", "save", "swap"} => task[u].at \in Owners \ {o}
    BY <1>1, WorkPlace
  <2>2. task'[t] = w /\ entries'[o] = e
    BY <1>1, <1>4 DEF Inv, TypeOK
  <2>3. PreparedFile(t)'
    BY <1>5, <2>2 DEF PreparedFile
  <2>4. ASSUME NEW u \in Tasks \ {t}
        PROVE  PreparedFile(u)'
    <3>1. task'[u] = task[u] /\ PreparedFile(u)
      BY <1>4 DEF Inv, TypeOK, FilePrepared
    <3> QED
      BY <3>1, <1>4, <1>7, <1>13, <2>1 DEF PreparedFile
  <2> QED
    BY <2>3, <2>4 DEF FilePrepared
<1>15. SavedIsCurrent'
  BY <1>1, <1>4, <1>5, <1>7, <1>13 DEF Inv, TypeOK, SavedIsCurrent, Busy
<1>16. MisplacedIsDoomed'
  BY <1>4, <1>7, <1>11, EntryTyped DEF Inv, TypeOK, MisplacedIsDoomed, File
<1> QED
  BY <1>6, <1>8, <1>9, <1>12, <1>14, <1>15, <1>16 DEF Inv

(* Remove and Drop: nobody else is at work on what is detached. *)
LEMMA DetachInv ==
  ASSUME Inv, NEW t \in Tasks, NEW o \in Owners, task[t].pc = "idle",
         \A u \in Tasks \ {t} : held[u] # o, Detach(t, o)
  PROVE  Inv'
<1> DEFINE c == DeleteAt(o, seq)
           w == [pc |-> "delete", todo |-> {c}]
<1>1. /\ entries' = [entries EXCEPT ![o] = None]
      /\ task' = [task EXCEPT ![t] = w]
      /\ LiveAt(o)
      /\ UNCHANGED <<disk, last, seq, held, armed, unsaved, stranded>>
  BY DEF Detach, ThenDelete, fileVars, history
<1>2. /\ w.pc = "delete" /\ w.todo = {c} /\ w \in Deleting
      /\ c.at = o /\ c.since = seq /\ c \in Deletion
  BY DEF Inv, TypeOK, DeleteAt, Deletion, Deleting
<1> HIDE DEF c, w
<1>3. TypeOK'
  <2>1. Task \subseteq Task'
    BY <1>1, TaskMonotone DEF Inv, TypeOK
  <2>2. task' \in [Tasks -> Task']
    BY <2>1, <1>1, <1>2 DEF Inv, TypeOK, Task
  <2> QED
    BY <2>2, <1>1 DEF Inv, TypeOK
<1>4. /\ task'[t] = w
      /\ \A u \in Tasks \ {t} : task'[u] = task[u]
      /\ entries'[o] = None
      /\ \A p \in Owners \ {o} : entries'[p] = entries[p]
  BY <1>1 DEF Inv, TypeOK
<1>5. \A u \in Tasks \ {t} :
        task[u].pc \in {"taken", "move", "write", "save", "swap"}
          => task[u].at \in Owners \ {o}
  BY WorkPlace
<1>6. HeldOnce' /\ IdsDistinct'
  BY <1>1, <1>4 DEF Inv, HeldOnce, IdsDistinct, LiveAt
<1>7. AtWork'
  BY <1>1, <1>2, <1>4, <1>5 DEF Inv, AtWork, StillThere, LiveAt
<1>8. /\ DecidedDeletes(t)' = {c} /\ DecidedDeletes(t) = {}
      /\ \A u \in Tasks \ {t} : DecidedDeletes(u)' = DecidedDeletes(u)
  BY <1>2, <1>4 DEF DecidedDeletes
<1>9. DeletesBehind'
  BY <1>1, <1>2, <1>4, <1>5, <1>8 DEF Inv, TypeOK, DeletesBehind
<1>10. \A p \in Owners \ {o} : Current(p)' = Current(p) /\ Safe(p)' = Safe(p)
  <2>1. \A p \in Owners \ {o} : Safe(p)' = Safe(p)
    BY <1>1, <1>2, <1>8 DEF Safe
  <2> QED
    BY <1>1, <1>4, <2>1 DEF Current, Persisted
<1>11. FilePrepared'
  <2>1. PreparedFile(t)'
    BY <1>2, <1>4 DEF PreparedFile
  <2>2. ASSUME NEW u \in Tasks \ {t}
        PROVE  PreparedFile(u)'
    <3>1. task'[u] = task[u] /\ PreparedFile(u)
      BY <1>4 DEF Inv, FilePrepared
    <3> QED
      BY <3>1, <1>1, <1>4, <1>5, <1>10 DEF PreparedFile
  <2> QED
    BY <2>1, <2>2 DEF FilePrepared
<1>12. SavedIsCurrent'
  BY <1>1, <1>2, <1>4, <1>10 DEF Inv, SavedIsCurrent, Busy, LiveAt
<1>13. MisplacedIsDoomed'
  <2> SUFFICES ASSUME NEW p \in Owners, disk[p] # None, disk[p].of \notin stranded,
                      ~(entries'[p] # None /\ entries'[p].id = disk[p].of)
               PROVE  \E u \in Tasks : \E d \in SureDeletes(u, disk[p].of)' :
                        d.at = p /\ last[p] <= d.since
    BY <1>1 DEF MisplacedIsDoomed, LiveAt
  <2>1. SureDeletes(t, disk[p].of)' = {c}
    BY <1>2, <1>4, <1>8 DEF SureDeletes
  <2>2. CASE p = o
    BY <1>2, <2>1, <2>2 DEF Inv, TypeOK
  <2>3. CASE p # o
    <3>1. PICK u \in Tasks : \E d \in SureDeletes(u, disk[p].of) :
                               d.at = p /\ last[p] <= d.since
      BY <1>4, <2>3 DEF Inv, MisplacedIsDoomed, LiveAt
    <3>2. u # t
      BY <3>1, <1>8 DEF SureDeletes
    <3>3. SureDeletes(u, disk[p].of)' = SureDeletes(u, disk[p].of)
      BY <1>1, <1>4, <1>8, <3>2 DEF SureDeletes
    <3> QED
      BY <3>1, <3>3
  <2> QED
    BY <2>2, <2>3
<1> QED
  BY <1>3, <1>6, <1>7, <1>9, <1>11, <1>12, <1>13 DEF Inv

LEMMA RenameInv ==
  ASSUME Inv, NEW t \in Tasks, NEW o \in Owners, NEW n \in Owners,
         Rename(t, o, n)
  PROVE  Inv'
<1> DEFINE unlink == IF LiveAt(n) THEN {DeleteAt(n, seq)} ELSE {}
           w == IF LiveAt(o)
                  THEN [pc |-> "move", at |-> n, id |-> entries[o].id,
                        todo |-> {DeleteAt(o, seq)} \cup unlink,
                        failed |-> unlink]
                  ELSE ThenDelete(unlink)
<1>1. /\ entries' = [entries EXCEPT ![n] = entries[o], ![o] = None]
      /\ held' = [held EXCEPT ![t] = n]
      /\ task' = [task EXCEPT ![t] = w]
      /\ task[t].pc = "idle" /\ held[t] = o /\ o # n
      /\ \A u \in Tasks : held[u] # n
      /\ UNCHANGED <<disk, last, seq, armed, unsaved, stranded>>
  BY DEF Rename, Request, Away, Idle, fileVars, history
<1>2. /\ entries'[n] = entries[o] /\ entries'[o] = None
      /\ \A p \in Owners \ {o, n} : entries'[p] = entries[p]
      /\ task'[t] = w /\ held'[t] = n
      /\ \A u \in Tasks \ {t} : task'[u] = task[u] /\ held'[u] = held[u]
  BY <1>1 DEF Inv, TypeOK
<1>3. DeleteAt(o, seq) \in Deletion /\ DeleteAt(n, seq) \in Deletion
  BY DEF Inv, TypeOK, DeleteAt, Deletion
<1>4. unlink \subseteq Deletion /\ \A d \in unlink : d.at = n /\ d.since = seq
  BY <1>3 DEF DeleteAt
<1>5. LiveAt(o) => /\ w.pc = "move" /\ w.at = n /\ w.id = entries[o].id
                   /\ w.todo = {DeleteAt(o, seq)} \cup unlink
                   /\ w.failed = unlink
                   /\ w \in Moving
  BY <1>3, <1>4, EntryTyped DEF Inv, Moving, Entry
<1>6. ~LiveAt(o) => \/ w.pc = "idle" /\ unlink = {} /\ w \in Idling
                    \/ w.pc = "delete" /\ w.todo = unlink /\ w \in Deleting
  BY <1>4 DEF ThenDelete, Idle, Idling, Deleting
<1>7. LiveAt(n) <=> unlink # {}
  BY DEF DeleteAt
<1> HIDE DEF unlink, w
<1>8. TypeOK'
  <2>1. Task \subseteq Task'
    BY <1>1, TaskMonotone DEF Inv, TypeOK
  <2>2. w \in Task
    BY <1>5, <1>6 DEF Task
  <2>3. task' \in [Tasks -> Task']
    BY <2>1, <2>2, <1>1 DEF Inv, TypeOK
  <2> QED
    BY <2>3, <1>1 DEF Inv, TypeOK
<1>9. \A u \in Tasks \ {t} :
        task[u].pc \in {"taken", "move", "write", "save", "swap"}
          => task[u].at \in Owners \ {o, n}
  BY <1>1, WorkPlace
<1>10. HeldOnce'
  BY <1>1, <1>2 DEF Inv, HeldOnce
<1>11. IdsDistinct'
  <2> DEFINE Was(p) == IF p = n THEN o ELSE p
  <2>1. \A p \in Owners : LiveAt(p)' => /\ p # o /\ Was(p) \in Owners
                                        /\ LiveAt(Was(p))
                                        /\ entries'[p] = entries[Was(p)]
    BY <1>1, <1>2 DEF LiveAt
  <2>2. \A p, q \in Owners \ {o} : Was(p) = Was(q) => p = q
    OBVIOUS
  <2>3. armed' = armed
    BY <1>1
  <2> HIDE DEF Was
  <2>4. ASSUME NEW p \in Owners, NEW q \in Owners, LiveAt(p)'
        PROVE  /\ entries'[p].id[2] < armed
               /\ LiveAt(q)' /\ entries'[p].id = entries'[q].id => p = q
    BY <2>1, <2>2, <2>4 DEF Inv, IdsDistinct
  <2> QED
    BY <2>3, <2>4 DEF IdsDistinct
<1>12. AtWork'
  BY <1>2, <1>5, <1>6, <1>9 DEF Inv, AtWork, StillThere, LiveAt
<1>13. /\ DecidedDeletes(t) = {}
       /\ LiveAt(o) => DecidedDeletes(t)' = {DeleteAt(o, seq)} \cup unlink
       /\ ~LiveAt(o) => DecidedDeletes(t)' = unlink
       /\ \A u \in Tasks \ {t} : DecidedDeletes(u)' = DecidedDeletes(u)
  BY <1>1, <1>2, <1>5, <1>6 DEF DecidedDeletes
<1>14. \A d \in DecidedDeletes(t)' : d.at \in {o, n} /\ d.since = seq
  BY <1>4, <1>13 DEF DeleteAt
<1>15. DeletesBehind'
  <2>1. \A d \in DecidedDeletes(t)' : d.since <= seq
    BY <1>14 DEF Inv, TypeOK
  <2>2. task'[t].pc # "save"
    BY <1>2, <1>5, <1>6
  <2> QED
    BY <1>1, <1>2, <1>9, <1>13, <1>14, <2>1, <2>2 DEF Inv, DeletesBehind
<1>16. \A p \in Owners \ {o, n} :
         Current(p)' = Current(p) /\ Safe(p)' = Safe(p)
  <2>1. \A p \in Owners \ {o, n} : Safe(p)' = Safe(p)
    BY <1>1, <1>13, <1>14 DEF Safe
  <2> QED
    BY <1>1, <1>2, <2>1 DEF Current, Persisted
<1>17. FilePrepared'
  <2>1. PreparedFile(t)'
    BY <1>2, <1>5, <1>6 DEF PreparedFile
  <2>2. ASSUME NEW u \in Tasks \ {t}
        PROVE  PreparedFile(u)'
    <3>1. task'[u] = task[u] /\ PreparedFile(u)
      BY <1>2 DEF Inv, FilePrepared
    <3>2. task[u].pc \in {"write", "save", "swap"}
            => /\ entries'[task[u].at] = entries[task[u].at]
               /\ Current(task[u].at)' <=> Current(task[u].at)
               /\ Safe(task[u].at)' <=> Safe(task[u].at)
      BY <3>1, <1>2, <1>9, <1>16
    <3> QED
      BY <3>1, <3>2, <1>1 DEF PreparedFile
  <2> QED
    BY <2>1, <2>2 DEF FilePrepared
<1>18. SavedIsCurrent'
  <2> SUFFICES ASSUME NEW p \in Owners, LiveAt(p)', ~Busy(entries[p].id)',
                      entries'[p].id \notin unsaved
               PROVE  Current(p)'
    BY <1>1 DEF SavedIsCurrent
  <2>1. p # o
    BY <1>2 DEF LiveAt
  <2>2. p # n
    BY <1>2, <1>5 DEF Busy, LiveAt
  <2>3. \A u \in Tasks : task[u].pc # "idle" => task'[u] = task[u]
    BY <1>1, <1>2
  <2>4. entries'[p] = entries[p] /\ LiveAt(p) /\ ~Busy(entries[p].id)
    BY <1>2, <2>1, <2>2, <2>3 DEF LiveAt, Busy
  <2> QED
    BY <1>16, <2>1, <2>2, <2>4 DEF Inv, SavedIsCurrent
<1>19. MisplacedIsDoomed'
  <2> SUFFICES ASSUME NEW p \in Owners, disk[p] # None, disk[p].of \notin stranded,
                      ~(entries'[p] # None /\ entries'[p].id = disk[p].of)
               PROVE  \E u \in Tasks : \E d \in SureDeletes(u, disk[p].of)' :
                        d.at = p /\ last[p] <= d.since
    BY <1>1 DEF MisplacedIsDoomed, LiveAt
  <2>1. CASE LiveAt(p) /\ entries[p].id = disk[p].of
    <3>1. p \in {o, n}
      BY <1>2, <2>1 DEF LiveAt
    <3>2. DeleteAt(p, seq) \in SureDeletes(t, disk[p].of)'
      <4>1. CASE p = o
        BY <4>1, <2>1, <1>1, <1>2, <1>5 DEF SureDeletes, DecidedDeletes
      <4>2. CASE p = n
        <5>1. DeleteAt(n, seq) \in unlink
          BY <4>2, <2>1 DEF unlink
        <5> QED
          BY <4>2, <5>1, <1>1, <1>2, <1>5, <1>6 DEF SureDeletes, DecidedDeletes
      <4> QED
        BY <3>1, <4>1, <4>2
    <3> QED
      BY <3>2 DEF DeleteAt, Inv, TypeOK
  <2>2. CASE ~(LiveAt(p) /\ entries[p].id = disk[p].of)
    <3>1. PICK u \in Tasks : \E d \in SureDeletes(u, disk[p].of) :
                               d.at = p /\ last[p] <= d.since
      BY <2>2 DEF Inv, MisplacedIsDoomed
    <3>2. u # t
      BY <3>1, <1>1, <1>13 DEF SureDeletes
    <3>3. SureDeletes(u, disk[p].of)' = SureDeletes(u, disk[p].of)
      BY <1>1, <1>2, <1>13, <3>2 DEF SureDeletes
    <3> QED
      BY <3>1, <3>3
  <2> QED
    BY <2>1, <2>2
<1> QED
  BY <1>8, <1>10, <1>11, <1>12, <1>15, <1>17, <1>18, <1>19 DEF Inv

LEMMA FinishMoveInv ==
  ASSUME Inv, NEW t \in Tasks, FinishMove(t)
  PROVE  Inv'
<1>1. PICK v \in Moving : v = task[t]
  BY TaskFields DEF Inv, FinishMove
<1>2. PICK e \in Entry : e = entries[v.at] /\ e.id = v.id
  BY <1>1, WorkPlace DEF FinishMove
<1>3. /\ v.at \in Owners /\ v.id \in Ids /\ held[t] = v.at /\ LiveAt(v.at)
      /\ v.todo \subseteq Deletion /\ v.failed \subseteq v.todo
      /\ \A u \in Tasks \ {t} : held[u] # v.at
  <2>1. PreparedFile(t)
    BY DEF Inv, FilePrepared
  <2> QED
    BY <1>1, <2>1, WorkPlace DEF FinishMove, PreparedFile, Moving
<1> DEFINE w == Write(v.at, e, "move", v.todo, v.failed)
<1>4. /\ task' = [task EXCEPT ![t] = w]
      /\ v.pc = "move"
      /\ UNCHANGED <<entries, disk, last, seq, held, armed, unsaved, stranded>>
  BY <1>1, <1>2, <1>3 DEF FinishMove, fileVars, history
<1>5. /\ w.pc = "write" /\ w.at = v.at /\ w.id = v.id /\ w.why = "move"
      /\ w.todo = v.todo /\ w.failed = v.failed /\ w.file = Persisted(e)
      /\ w \in Writing
  BY <1>2, <1>3 DEF Write, Persisted, Entry, File, Writing, Why
<1> HIDE DEF w
<1>6. TypeOK'
  <2>1. Task \subseteq Task'
    BY <1>4, TaskMonotone DEF Inv, TypeOK
  <2>2. task' \in [Tasks -> Task']
    BY <2>1, <1>4, <1>5 DEF Inv, TypeOK, Task
  <2> QED
    BY <2>2, <1>4 DEF Inv, TypeOK
<1>7. task'[t] = w /\ \A u \in Tasks \ {t} : task'[u] = task[u]
  BY <1>4 DEF Inv, TypeOK
<1>8. HeldOnce' /\ IdsDistinct'
  BY <1>4 DEF Inv, HeldOnce, IdsDistinct, LiveAt
<1>9. AtWork'
  BY <1>2, <1>3, <1>4, <1>5, <1>7 DEF Inv, AtWork, StillThere, LiveAt
<1>10. \A u \in Tasks : DecidedDeletes(u)' = DecidedDeletes(u)
  BY <1>1, <1>4, <1>5, <1>7 DEF DecidedDeletes
<1>11. \A u \in Tasks, id \in Ids : SureDeletes(u, id)' = SureDeletes(u, id)
  BY <1>1, <1>4, <1>5, <1>7 DEF SureDeletes, DecidedDeletes
<1>12. DeletesBehind'
  BY <1>4, <1>5, <1>7, <1>10 DEF Inv, DeletesBehind
<1>13. \A p \in Owners : Current(p)' = Current(p) /\ Safe(p)' = Safe(p)
  BY <1>4, <1>10 DEF Current, Safe, Persisted
<1>14. FilePrepared'
  <2>1. PreparedFile(t)'
    BY <1>2, <1>3, <1>4, <1>5, <1>7 DEF PreparedFile
  <2>2. ASSUME NEW u \in Tasks \ {t}
        PROVE  PreparedFile(u)'
    <3>1. task'[u] = task[u] /\ PreparedFile(u)
      BY <1>7 DEF Inv, FilePrepared
    <3>2. task[u].pc \in {"write", "save", "swap"} => task[u].at \in Owners
      BY WorkPlace
    <3> QED
      BY <3>1, <3>2, <1>4, <1>13 DEF PreparedFile
  <2> QED
    BY <2>1, <2>2 DEF FilePrepared
<1>15. SavedIsCurrent'
  <2>1. \A id : Busy(id)' <=> Busy(id)
    BY <1>1, <1>4, <1>5, <1>7 DEF Busy
  <2> QED
    BY <2>1, <1>4, <1>13 DEF Inv, SavedIsCurrent, LiveAt
<1>16. MisplacedIsDoomed'
  BY <1>4, <1>11, EntryTyped DEF Inv, MisplacedIsDoomed, LiveAt, File
<1> QED
  BY <1>6, <1>8, <1>9, <1>12, <1>14, <1>15, <1>16 DEF Inv

LEMMA StampInv ==
  ASSUME Inv, NEW t \in Tasks, Stamp(t)
  PROVE  Inv'
<1>1. PICK v \in Writing : v = task[t]
  BY TaskFields DEF Inv, Stamp
<1>2. /\ v.pc = "write" /\ v.at \in Owners /\ held[t] = v.at
      /\ StillThere(v)
      /\ \A u \in Tasks : task[u].pc = "save" => task[u].at # v.at
      /\ PreparedFile(t)
  BY <1>1, WorkPlace DEF Stamp, PathFree, StillThere, Inv, FilePrepared
<1> DEFINE w == Stamped(v, seq + 1)
<1>3. /\ task' = [task EXCEPT ![t] = w]
      /\ seq' = seq + 1 /\ seq \in Nat
      /\ UNCHANGED <<entries, disk, last, held, armed, unsaved, stranded>>
  BY <1>1, <1>2 DEF Inv, TypeOK, Stamp, history
<1>4. /\ w.pc = "save" /\ w.at = v.at /\ w.id = v.id /\ w.why = v.why
      /\ w.todo = v.todo /\ w.failed = v.failed /\ w.file = v.file
      /\ w.stamp = seq + 1
      /\ w \in Saving'
  BY <1>3 DEF Stamped, Writing, Saving
<1> HIDE DEF w
<1>5. TypeOK'
  <2>1. Task \subseteq Task'
    BY <1>3, TaskMonotone DEF Inv, TypeOK
  <2>2. task' \in [Tasks -> Task']
    BY <2>1, <1>3, <1>4 DEF Inv, TypeOK, Task
  <2>3. last' \in [Owners -> 0..seq']
    BY <1>3 DEF Inv, TypeOK
  <2> QED
    BY <2>2, <2>3, <1>3 DEF Inv, TypeOK
<1>6. task'[t] = w /\ \A u \in Tasks \ {t} : task'[u] = task[u]
  BY <1>3 DEF Inv, TypeOK
<1>7. HeldOnce' /\ IdsDistinct'
  BY <1>3 DEF Inv, HeldOnce, IdsDistinct, LiveAt
<1>8. AtWork'
  BY <1>2, <1>3, <1>4, <1>6 DEF Inv, AtWork, StillThere, LiveAt
<1>9. \A u \in Tasks : DecidedDeletes(u)' = DecidedDeletes(u)
  BY <1>1, <1>2, <1>4, <1>6 DEF DecidedDeletes
<1>10. \A u \in Tasks, id \in Ids : SureDeletes(u, id)' = SureDeletes(u, id)
  BY <1>1, <1>2, <1>4, <1>6 DEF SureDeletes, DecidedDeletes
<1>11. DeletesBehind'
  <2>1. ASSUME NEW x \in Tasks, NEW d \in DecidedDeletes(x)
        PROVE  /\ d.since <= seq'
               /\ \A u \in Tasks : task'[u].pc = "save" /\ task'[u].at = d.at
                                     => d.since < task'[u].stamp
    <3>1. d.since \in Nat /\ d.since <= seq
      BY DecidedTyped DEF Inv, DeletesBehind, Deletion
    <3> QED
      BY <3>1, <1>3, <1>4, <1>6 DEF Inv, DeletesBehind
  <2> QED
    BY <2>1, <1>9 DEF DeletesBehind
<1>12. \A p \in Owners : Current(p)' = Current(p) /\ Safe(p)' = Safe(p)
  BY <1>3, <1>9 DEF Current, Safe, Persisted
<1>13. FilePrepared'
  <2>1. PreparedFile(t)'
    BY <1>1, <1>2, <1>3, <1>4, <1>6, <1>12 DEF PreparedFile
  <2>2. ASSUME NEW u \in Tasks \ {t}
        PROVE  PreparedFile(u)'
    <3>1. task'[u] = task[u] /\ PreparedFile(u)
      BY <1>6 DEF Inv, FilePrepared
    <3>2. task[u].pc \in {"write", "save", "swap"} => task[u].at \in Owners
      BY WorkPlace
    <3> QED
      BY <3>1, <3>2, <1>3, <1>12 DEF PreparedFile
  <2> QED
    BY <2>1, <2>2 DEF FilePrepared
<1>14. SavedIsCurrent'
  <2>1. \A id : Busy(id)' <=> Busy(id)
    BY <1>1, <1>2, <1>4, <1>6 DEF Busy
  <2> QED
    BY <2>1, <1>3, <1>12 DEF Inv, SavedIsCurrent, LiveAt
<1>15. MisplacedIsDoomed'
  BY <1>3, <1>10, EntryTyped DEF Inv, MisplacedIsDoomed, LiveAt, File
<1> QED
  BY <1>5, <1>7, <1>8, <1>11, <1>13, <1>14, <1>15 DEF Inv

(* The write in progress on a path is its holder's, ordered after every    *)
(* delete decided on it.                                                   *)
LEMMA SavedInv ==
  ASSUME Inv, NEW t \in Tasks, Saved(t)
  PROVE  Inv'
<1>1. PICK v \in Saving : v = task[t]
  BY TaskFields DEF Inv, Saved
<1>2. /\ v.pc = "save" /\ v.at \in Owners /\ v.id \in Ids /\ v.file \in File
      /\ v.stamp \in 1..seq /\ v.todo \subseteq Deletion
      /\ LiveAt(v.at) /\ entries[v.at].id = v.id /\ entries[v.at] \in Entry
      /\ \A u \in Tasks \ {t} : held[u] # v.at
  BY <1>1, WorkPlace DEF Saved, Saving
<1>3. /\ v.failed \subseteq v.todo
      /\ v.why = "edit" =>
           /\ v.todo = {}
           /\ v.file = Persisted(Redefined(entries[v.at], v.file.def))
      /\ v.why # "edit" => v.file = Persisted(entries[v.at])
  BY <1>1, <1>2 DEF Inv, FilePrepared, PreparedFile
<1>4. v.file.of = v.id
  BY <1>2, <1>3 DEF Persisted, Redefined
<1> DEFINE w == IF v.why = "edit"
                  THEN [pc |-> "swap", at |-> v.at, id |-> v.id,
                        def |-> v.file.def]
                  ELSE ThenDelete(v.todo)
<1>5. /\ disk' = [disk EXCEPT ![v.at] = v.file]
      /\ last' = [last EXCEPT ![v.at] = v.stamp]
      /\ task' = [task EXCEPT ![t] = w]
      /\ unsaved' = unsaved \ {v.id}
      /\ UNCHANGED <<entries, seq, held, armed, stranded>>
  BY <1>1 DEF Saved
<1>6. /\ v.why = "edit" => /\ w.pc = "swap" /\ w.at = v.at /\ w.id = v.id
                           /\ w.def = v.file.def /\ w \in Swapping
      /\ v.why # "edit" => \/ w.pc = "idle" /\ v.todo = {} /\ w \in Idling
                           \/ w.pc = "delete" /\ w.todo = v.todo
                              /\ w \in Deleting
  BY <1>2 DEF ThenDelete, Idle, Idling, Deleting, Swapping, File
<1> HIDE DEF w
<1>7. TypeOK'
  <2>1. Task \subseteq Task'
    BY <1>5, TaskMonotone DEF Inv, TypeOK
  <2>2. task' \in [Tasks -> Task']
    BY <2>1, <1>5, <1>6 DEF Inv, TypeOK, Task
  <2>3. last' \in [Owners -> 0..seq]
    BY <1>2, <1>5 DEF Inv, TypeOK
  <2> QED
    BY <2>2, <2>3, <1>2, <1>5 DEF Inv, TypeOK
<1>8. /\ task'[t] = w /\ \A u \in Tasks \ {t} : task'[u] = task[u]
      /\ disk'[v.at] = v.file /\ last'[v.at] = v.stamp
      /\ \A p \in Owners \ {v.at} : disk'[p] = disk[p] /\ last'[p] = last[p]
  BY <1>2, <1>5 DEF Inv, TypeOK
<1>9. HeldOnce' /\ IdsDistinct'
  BY <1>5 DEF Inv, HeldOnce, IdsDistinct, LiveAt
<1>10. AtWork'
  BY <1>1, <1>2, <1>5, <1>6, <1>8 DEF Inv, AtWork, StillThere, LiveAt
<1>11. \A u \in Tasks : DecidedDeletes(u)' = DecidedDeletes(u)
  <2>1. DecidedDeletes(t)' = DecidedDeletes(t)
    BY <1>1, <1>2, <1>3, <1>6, <1>8 DEF DecidedDeletes
  <2>2. ASSUME NEW u \in Tasks \ {t} PROVE DecidedDeletes(u)' = DecidedDeletes(u)
    BY <1>8, <2>2 DEF DecidedDeletes
  <2> QED
    BY <2>1, <2>2
<1>12. \A u \in Tasks, id \in Ids : SureDeletes(u, id) \subseteq SureDeletes(u, id)'
  BY <1>1, <1>2, <1>3, <1>6, <1>8 DEF SureDeletes, DecidedDeletes
<1>13. DeletesBehind'
  BY <1>5, <1>6, <1>8, <1>11 DEF Inv, DeletesBehind
<1>14. /\ Safe(v.at)'
       /\ \A p \in Owners \ {v.at} :
            Current(p)' = Current(p) /\ Safe(p)' = Safe(p)
  <2>1. Safe(v.at)'
    <3>1. \A x \in Tasks : \A d \in DecidedDeletes(x) :
            d.at = v.at => d.since < v.stamp
      BY <1>1, <1>2 DEF Inv, DeletesBehind
    <3>2. \A x \in Tasks : \A d \in DecidedDeletes(x)' :
            d.at = v.at => d.since < last'[v.at]
      BY <3>1, <1>8, <1>11
    <3> QED
      BY <3>2 DEF Safe
  <2>2. \A p \in Owners \ {v.at} : Safe(p)' = Safe(p)
    BY <1>8, <1>11 DEF Safe
  <2> QED
    BY <1>5, <1>8, <2>1, <2>2 DEF Current, Persisted
<1>15. FilePrepared'
  <2>1. PreparedFile(t)'
    BY <1>3, <1>5, <1>6, <1>8, <1>14 DEF PreparedFile
  <2>2. ASSUME NEW u \in Tasks \ {t}
        PROVE  PreparedFile(u)'
    <3>1. task'[u] = task[u] /\ PreparedFile(u)
      BY <1>8 DEF Inv, FilePrepared
    <3>2. task[u].pc \in {"write", "save", "swap"}
            => task[u].at \in Owners \ {v.at} /\ task[u].id # v.id
      BY <1>2, WorkPlace DEF Inv, IdsDistinct
    <3> QED
      BY <3>1, <3>2, <1>5, <1>8, <1>14 DEF PreparedFile
  <2> QED
    BY <2>1, <2>2 DEF FilePrepared
<1>16. SavedIsCurrent'
  <2> SUFFICES ASSUME NEW p \in Owners, LiveAt(p), ~Busy(entries[p].id)',
                      entries[p].id \notin unsaved'
               PROVE  Current(p)'
    BY <1>5 DEF SavedIsCurrent, LiveAt
  <2>1. CASE p = v.at
    <3>1. v.why # "edit"
      BY <2>1, <1>2, <1>5, <1>6, <1>8 DEF Busy
    <3>2. disk'[p] = Persisted(entries[p])'
      BY <3>1, <2>1, <1>3, <1>5, <1>8 DEF Persisted
    <3> QED
      BY <3>2, <2>1, <1>14 DEF Current
  <2>2. CASE p # v.at
    <3>1. entries[p].id # v.id
      BY <2>2, <1>2 DEF Inv, IdsDistinct
    <3>2. ~Busy(entries[p].id) /\ entries[p].id \notin unsaved
      BY <3>1, <1>1, <1>5, <1>8 DEF Busy
    <3> QED
      BY <3>2, <2>2, <1>14 DEF Inv, SavedIsCurrent
  <2> QED
    BY <2>1, <2>2
<1>17. MisplacedIsDoomed'
  <2> SUFFICES ASSUME NEW p \in Owners, disk'[p] # None,
                      disk'[p].of \notin stranded,
                      ~(LiveAt(p) /\ entries[p].id = disk'[p].of)
               PROVE  \E u \in Tasks : \E d \in SureDeletes(u, disk[p].of)' :
                        d.at = p /\ last'[p] <= d.since
    BY <1>5 DEF MisplacedIsDoomed, LiveAt
  <2>1. p # v.at
    BY <1>2, <1>4, <1>8
  <2>2. disk'[p] = disk[p] /\ last'[p] = last[p] /\ disk[p].of \in Ids
    BY <2>1, <1>8, EntryTyped DEF Inv, File
  <2>3. PICK u \in Tasks : \E d \in SureDeletes(u, disk[p].of) :
                             d.at = p /\ last[p] <= d.since
    BY <2>2 DEF Inv, MisplacedIsDoomed
  <2>4. \A id \in Ids : SureDeletes(u, id) \subseteq SureDeletes(u, id)'
    BY <1>12
  <2> QED
    BY <2>2, <2>3, <2>4 DEF SureDeletes
<1> QED
  BY <1>7, <1>9, <1>10, <1>13, <1>15, <1>16, <1>17 DEF Inv

LEMMA SaveFailedInv ==
  ASSUME Inv, NEW t \in Tasks, SaveFailed(t)
  PROVE  Inv'
<1>1. PICK v \in Saving : v = task[t]
  BY TaskFields DEF Inv, SaveFailed
<1>2. /\ v.pc = "save" /\ v.at \in Owners /\ v.id \in Ids
      /\ v.failed \subseteq Deletion
      /\ LiveAt(v.at) /\ entries[v.at].id = v.id
  BY <1>1, WorkPlace DEF SaveFailed, Saving
<1>3. /\ v.failed \subseteq v.todo
      /\ v.why # "move" => v.todo = {}
      /\ v.why = "edit" /\ v.id \notin unsaved => Current(v.at)
  BY <1>1, <1>2 DEF Inv, FilePrepared, PreparedFile
<1> DEFINE w == ThenDelete(v.failed)
<1>4. /\ task' = [task EXCEPT ![t] = w]
      /\ unsaved' = IF v.why = "edit" THEN unsaved ELSE unsaved \cup {v.id}
      /\ stranded' = stranded \cup IF v.why = "move" THEN {v.id} ELSE {}
      /\ UNCHANGED <<entries, disk, last, seq, held, armed>>
  BY <1>1 DEF SaveFailed, fileVars
<1>5. \/ w.pc = "idle" /\ v.failed = {} /\ w \in Idling
      \/ w.pc = "delete" /\ w.todo = v.failed /\ w \in Deleting
  BY <1>2 DEF ThenDelete, Idle, Idling, Deleting
<1> HIDE DEF w
<1>6. TypeOK'
  <2>1. Task \subseteq Task'
    BY <1>4, TaskMonotone DEF Inv, TypeOK
  <2>2. task' \in [Tasks -> Task']
    BY <2>1, <1>4, <1>5 DEF Inv, TypeOK, Task
  <2> QED
    BY <2>2, <1>2, <1>4 DEF Inv, TypeOK
<1>7. task'[t] = w /\ \A u \in Tasks \ {t} : task'[u] = task[u]
  BY <1>4 DEF Inv, TypeOK
<1>8. HeldOnce' /\ IdsDistinct'
  BY <1>4 DEF Inv, HeldOnce, IdsDistinct, LiveAt
<1>9. AtWork'
  BY <1>4, <1>5, <1>7 DEF Inv, AtWork, StillThere, LiveAt
<1>10. /\ \A u \in Tasks : DecidedDeletes(u)' \subseteq DecidedDeletes(u)
       /\ DecidedDeletes(t)' = v.failed
  BY <1>1, <1>2, <1>3, <1>5, <1>7 DEF DecidedDeletes
<1>11. DeletesBehind'
  BY <1>4, <1>5, <1>7, <1>10 DEF Inv, DeletesBehind
<1>12. \A p \in Owners : (Current(p) => Current(p)') /\ (Safe(p) => Safe(p)')
  <2>1. \A p \in Owners : Safe(p) => Safe(p)'
    BY <1>4, <1>10 DEF Safe
  <2> QED
    BY <2>1, <1>4 DEF Current, Persisted
<1>13. FilePrepared'
  <2>1. PreparedFile(t)'
    BY <1>5, <1>7 DEF PreparedFile
  <2>2. ASSUME NEW u \in Tasks \ {t}
        PROVE  PreparedFile(u)'
    <3>1. task'[u] = task[u] /\ PreparedFile(u)
      BY <1>7 DEF Inv, FilePrepared
    <3>2. task[u].pc \in {"write", "save", "swap"} => task[u].at \in Owners
      BY WorkPlace
    <3>3. \A id : id \notin unsaved' => id \notin unsaved
      BY <1>4
    <3> QED
      BY <3>1, <3>2, <3>3, <1>4, <1>12 DEF PreparedFile
  <2> QED
    BY <2>1, <2>2 DEF FilePrepared
<1>14. SavedIsCurrent'
  <2> SUFFICES ASSUME NEW p \in Owners, LiveAt(p), ~Busy(entries[p].id)',
                      entries[p].id \notin unsaved'
               PROVE  Current(p)'
    BY <1>4 DEF SavedIsCurrent, LiveAt
  <2>1. CASE p = v.at
    BY <2>1, <1>2, <1>3, <1>4, <1>12
  <2>2. CASE p # v.at
    <3>1. entries[p].id # v.id
      BY <2>2, <1>2 DEF Inv, IdsDistinct
    <3>2. ~Busy(entries[p].id) /\ entries[p].id \notin unsaved
      BY <3>1, <1>1, <1>4, <1>7 DEF Busy
    <3> QED
      BY <3>2, <1>12 DEF Inv, SavedIsCurrent
  <2> QED
    BY <2>1, <2>2
<1>15. MisplacedIsDoomed'
  <2> SUFFICES ASSUME NEW p \in Owners, disk[p] # None,
                      disk[p].of \notin stranded',
                      ~(LiveAt(p) /\ entries[p].id = disk[p].of)
               PROVE  \E u \in Tasks : \E d \in SureDeletes(u, disk[p].of)' :
                        d.at = p /\ last[p] <= d.since
    BY <1>4 DEF MisplacedIsDoomed, LiveAt
  <2>1. PICK u \in Tasks : \E d \in SureDeletes(u, disk[p].of) :
                             d.at = p /\ last[p] <= d.since
    BY <1>4 DEF Inv, MisplacedIsDoomed
  <2>2. SureDeletes(u, disk[p].of) \subseteq SureDeletes(u, disk[p].of)'
    <3>1. CASE u # t
      BY <3>1, <1>4, <1>7 DEF SureDeletes, DecidedDeletes
    <3>2. CASE u = t
      <4>1. SureDeletes(t, disk[p].of)' = v.failed
        BY <1>5, <1>7, <1>10 DEF SureDeletes
      <4>2. SureDeletes(t, disk[p].of) \subseteq v.failed
        BY <1>1, <1>2, <1>3, <1>4 DEF SureDeletes, DecidedDeletes
      <4> QED
        BY <3>2, <4>1, <4>2
    <3> QED
      BY <3>1, <3>2
  <2> QED
    BY <2>1, <2>2
<1> QED
  BY <1>6, <1>8, <1>9, <1>11, <1>13, <1>14, <1>15 DEF Inv

LEMMA SwapInv ==
  ASSUME Inv, NEW t \in Tasks, Swap(t)
  PROVE  Inv'
<1>1. PICK v \in Swapping : v = task[t]
  BY TaskFields DEF Inv, Swap
<1>2. PICK e \in Entry : e = entries[v.at]
  BY <1>1, WorkPlace DEF Swap
<1>3. /\ v.pc = "swap" /\ v.at \in Owners /\ v.id \in Ids /\ v.def \in Defs
      /\ LiveAt(v.at) /\ e.id = v.id
      /\ \A u \in Tasks \ {t} : held[u] # v.at
      /\ disk[v.at] = Persisted(Redefined(e, v.def)) /\ Safe(v.at)
  BY <1>1, <1>2, WorkPlace DEF Swap, Swapping, Inv, FilePrepared, PreparedFile
<1> DEFINE f == Redefined(e, v.def)
<1>4. f \in Entry /\ f.id = v.id /\ f = [e EXCEPT !.def = v.def]
  BY <1>2, <1>3 DEF Redefined, Entry
<1>5. /\ entries' = [entries EXCEPT ![v.at] = f]
      /\ task' = [task EXCEPT ![t] = Idle]
      /\ UNCHANGED <<disk, last, seq, held, armed, unsaved, stranded>>
  BY <1>1, <1>2, <1>3, <1>4 DEF Swap, StillThere, fileVars, history
<1> HIDE DEF f
<1>6. TypeOK'
  <2>1. Task \subseteq Task'
    BY <1>5, TaskMonotone DEF Inv, TypeOK
  <2>2. task' \in [Tasks -> Task']
    BY <2>1, <1>5 DEF Inv, TypeOK, Task, Idle, Idling
  <2> QED
    BY <2>2, <1>3, <1>4, <1>5 DEF Inv, TypeOK
<1>7. /\ task'[t] = Idle /\ Idle.pc = "idle"
      /\ \A u \in Tasks \ {t} : task'[u] = task[u]
      /\ entries'[v.at] = f
      /\ \A p \in Owners \ {v.at} : entries'[p] = entries[p]
  BY <1>3, <1>5 DEF Inv, TypeOK, Idle
<1>8. \A p \in Owners : /\ LiveAt(p)' <=> LiveAt(p)
                        /\ LiveAt(p) => entries'[p].id = entries[p].id
  BY <1>2, <1>3, <1>4, <1>7, NoneAssumption, ZenonT(60) DEF LiveAt
<1>9. HeldOnce' /\ IdsDistinct'
  BY <1>5, <1>8 DEF Inv, HeldOnce, IdsDistinct
<1>10. AtWork'
  <2>1. \A u \in Tasks \ {t} :
          task[u].pc \in {"taken", "move", "write", "save", "swap"}
            => /\ held[u] = task[u].at /\ entries'[task[u].at] # None
               /\ entries'[task[u].at].id = task[u].id
    BY <1>8, WorkPlace DEF LiveAt
  <2> QED
    BY <2>1, <1>5, <1>7 DEF AtWork, StillThere, LiveAt
<1>11. \A u \in Tasks : DecidedDeletes(u)' = DecidedDeletes(u)
  BY <1>1, <1>3, <1>7 DEF DecidedDeletes
<1>12. \A u \in Tasks, id \in Ids : SureDeletes(u, id)' = SureDeletes(u, id)
  BY <1>1, <1>3, <1>7 DEF SureDeletes, DecidedDeletes
<1>13. DeletesBehind'
  BY <1>5, <1>7, <1>11 DEF Inv, DeletesBehind
<1>14. /\ Current(v.at)'
       /\ \A p \in Owners \ {v.at} :
            Current(p)' = Current(p) /\ Safe(p)' = Safe(p)
  <2>1. \A p \in Owners : Safe(p)' = Safe(p)
    BY <1>5, <1>11 DEF Safe
  <2>2. disk'[v.at] = Persisted(entries[v.at])'
    BY <1>3, <1>5, <1>7 DEF Persisted, f
  <2> QED
    BY <2>1, <2>2, <1>3, <1>5, <1>7 DEF Current, Persisted
<1>15. FilePrepared'
  <2>1. PreparedFile(t)'
    BY <1>7 DEF PreparedFile
  <2>2. ASSUME NEW u \in Tasks \ {t}
        PROVE  PreparedFile(u)'
    <3>1. task'[u] = task[u] /\ PreparedFile(u)
      BY <1>7 DEF Inv, FilePrepared
    <3>2. task[u].pc \in {"write", "save", "swap"}
            => task[u].at \in Owners \ {v.at}
      BY <1>3, WorkPlace
    <3> QED
      BY <3>1, <3>2, <1>5, <1>7, <1>14 DEF PreparedFile
  <2> QED
    BY <2>1, <2>2 DEF FilePrepared
<1>16. SavedIsCurrent'
  <2> SUFFICES ASSUME NEW p \in Owners, LiveAt(p)', ~Busy(entries[p].id)',
                      entries'[p].id \notin unsaved, p # v.at
               PROVE  Current(p)'
    BY <1>5, <1>14 DEF SavedIsCurrent
  <2>1. LiveAt(p) /\ entries'[p] = entries[p] /\ entries[p].id # v.id
    BY <1>2, <1>3, <1>7, <1>8 DEF Inv, IdsDistinct
  <2>2. ~Busy(entries[p].id)
    BY <2>1, <1>1, <1>7 DEF Busy
  <2> QED
    BY <2>1, <2>2, <1>14 DEF Inv, SavedIsCurrent
<1>17. MisplacedIsDoomed'
  BY <1>5, <1>8, <1>12, EntryTyped DEF Inv, MisplacedIsDoomed, File
<1> QED
  BY <1>6, <1>9, <1>10, <1>13, <1>15, <1>16, <1>17 DEF Inv

(* A delete, done or refused: a file that is current is not taken, because *)
(* it was written after every delete decided on its path.                  *)
LEMMA DeleteInv ==
  ASSUME Inv, NEW t \in Tasks, NEW d \in DecidedDeletes(t),
         Delete(t, d) \/ DeleteFailed(t, d)
  PROVE  Inv'
<1>1. PICK v \in Deleting : v = task[t]
  BY TaskFields DEF Inv, Delete, DeleteFailed
<1>2. /\ v.pc = "delete" /\ v.todo \subseteq Deletion /\ d \in v.todo
      /\ d.at \in Owners /\ d.since \in Nat
  BY <1>1 DEF Delete, DeleteFailed, Deleting, Deletion
<1> DEFINE w == ThenDelete(v.todo \ {d})
<1>3. /\ task' = [task EXCEPT ![t] = w]
      /\ UNCHANGED <<entries, seq, held, armed, unsaved>>
  BY <1>1 DEF Delete, DeleteFailed, fileVars, history
<1>4. \/ w.pc = "idle" /\ v.todo \ {d} = {} /\ w \in Idling
      \/ w.pc = "delete" /\ w.todo = v.todo \ {d} /\ w \in Deleting
  BY <1>2 DEF ThenDelete, Idle, Idling, Deleting
<1> HIDE DEF w
<1>5. /\ disk' \in [Owners -> File \cup {None}]
      /\ last' \in [Owners -> 0..seq]
      /\ stranded' \subseteq Ids
  <2>1. disk[d.at] # None => disk[d.at].of \in Ids
    BY <1>2, EntryTyped DEF Inv, File
  <2> QED
    BY <2>1, <1>2 DEF Inv, TypeOK, Delete, DeleteFailed, fileVars, history
<1>6. ASSUME NEW p \in Owners, p # d.at \/ ~(last[p] <= d.since)
      PROVE  disk'[p] = disk[p] /\ last'[p] = last[p]
  BY <1>2, <1>6 DEF Inv, TypeOK, Delete, DeleteFailed, Deletes, fileVars
<1>7. stranded \subseteq stranded'
  BY DEF Delete, DeleteFailed, history
<1>8. last[d.at] <= d.since /\ disk'[d.at] # None
        => disk'[d.at].of \in stranded'
  BY <1>2 DEF Inv, TypeOK, Delete, DeleteFailed, Deletes, fileVars
<1>9. TypeOK'
  <2>1. Task \subseteq Task'
    BY <1>3, TaskMonotone DEF Inv, TypeOK
  <2>2. task' \in [Tasks -> Task']
    BY <2>1, <1>3, <1>4 DEF Inv, TypeOK, Task
  <2> QED
    BY <2>2, <1>3, <1>5 DEF Inv, TypeOK
<1>10. task'[t] = w /\ \A u \in Tasks \ {t} : task'[u] = task[u]
  BY <1>3 DEF Inv, TypeOK
<1>11. HeldOnce' /\ IdsDistinct'
  BY <1>3 DEF Inv, HeldOnce, IdsDistinct, LiveAt
<1>12. AtWork'
  BY <1>3, <1>4, <1>10 DEF Inv, AtWork, StillThere, LiveAt
<1>13. /\ \A u \in Tasks : DecidedDeletes(u)' \subseteq DecidedDeletes(u)
       /\ \A u \in Tasks, id \in Ids :
            SureDeletes(u, id) \ {d} \subseteq SureDeletes(u, id)'
  BY <1>1, <1>2, <1>4, <1>10 DEF SureDeletes, DecidedDeletes
<1>14. DeletesBehind'
  BY <1>3, <1>4, <1>10, <1>13 DEF Inv, DeletesBehind
<1>15. ASSUME NEW p \in Owners, Safe(p)
       PROVE  Safe(p)' /\ disk'[p] = disk[p] /\ last'[p] = last[p]
  <2>1. p # d.at \/ ~(last[p] <= d.since)
    BY <1>2, <1>15 DEF Safe, Inv, TypeOK
  <2>2. disk'[p] = disk[p] /\ last'[p] = last[p]
    BY <2>1, <1>6
  <2> QED
    BY <2>2, <1>13, <1>15 DEF Safe
<1>16. \A p \in Owners : Current(p) => Current(p)'
  BY <1>3, <1>15 DEF Current, Persisted
<1>17. FilePrepared'
  <2>1. PreparedFile(t)'
    BY <1>4, <1>10 DEF PreparedFile
  <2>2. ASSUME NEW u \in Tasks \ {t}
        PROVE  PreparedFile(u)'
    <3>1. task'[u] = task[u] /\ PreparedFile(u)
      BY <1>10 DEF Inv, FilePrepared
    <3>2. task[u].pc \in {"write", "save", "swap"} => task[u].at \in Owners
      BY WorkPlace
    <3> QED
      BY <3>1, <3>2, <1>3, <1>15, <1>16 DEF PreparedFile
  <2> QED
    BY <2>1, <2>2 DEF FilePrepared
<1>18. SavedIsCurrent'
  <2>1. \A id : Busy(id)' <=> Busy(id)
    BY <1>1, <1>2, <1>4, <1>10 DEF Busy
  <2> QED
    BY <2>1, <1>3, <1>16 DEF Inv, SavedIsCurrent, LiveAt
<1>19. MisplacedIsDoomed'
  <2> SUFFICES ASSUME NEW p \in Owners, disk'[p] # None,
                      disk'[p].of \notin stranded',
                      ~(LiveAt(p) /\ entries[p].id = disk'[p].of)
               PROVE  \E u \in Tasks : \E x \in SureDeletes(u, disk[p].of)' :
                        x.at = p /\ last'[p] <= x.since
    BY <1>3 DEF MisplacedIsDoomed, LiveAt
  <2>1. p # d.at \/ ~(last[p] <= d.since)
    BY <1>8
  <2>2. disk'[p] = disk[p] /\ last'[p] = last[p]
    BY <2>1, <1>6
  <2>3. disk[p].of \in Ids
    BY <2>2, EntryTyped DEF Inv, File
  <2>4. PICK u \in Tasks : \E x \in SureDeletes(u, disk[p].of) :
                             x.at = p /\ last[p] <= x.since
    BY <2>2, <1>7 DEF Inv, MisplacedIsDoomed
  <2>5. PICK x \in SureDeletes(u, disk[p].of) : x.at = p /\ last[p] <= x.since
    BY <2>4
  <2>6. x # d
    BY <2>1, <2>5
  <2>7. \A id \in Ids : SureDeletes(u, id) \ {d} \subseteq SureDeletes(u, id)'
    BY <1>13
  <2> QED
    BY <2>2, <2>3, <2>5, <2>6, <2>7 DEF SureDeletes
<1> QED
  BY <1>9, <1>11, <1>12, <1>14, <1>17, <1>18, <1>19 DEF Inv

(* What restore arms is what is on disk, and no earlier delete is left. *)
LEMMA RestartInv ==
  ASSUME Inv, Restart
  PROVE  Inv'
<1> DEFINE r == [o \in Owners |-> [id |-> <<o, armed>>, def |-> disk[o].def,
                                   runs |-> disk[o].runs]]
<1>1. /\ entries' = [o \in Owners |-> IF disk[o] # None THEN r[o] ELSE None]
      /\ disk' = [o \in Owners |->
                    IF disk[o] # None THEN Persisted(r[o]) ELSE None]
      /\ last' = [o \in Owners |-> 0] /\ seq' = 0
      /\ held' = [t \in Tasks |-> Nobody]
      /\ task' = [t \in Tasks |-> Idle]
      /\ armed' = armed + 1
      /\ unsaved' = {} /\ stranded' = {}
  BY DEF Restart, NewLedger, Persisted
<1>2. \A o \in Owners :
        disk[o] # None => /\ r[o] \in Entry /\ Persisted(r[o]) \in File
                          /\ r[o].id = <<o, armed>>
                          /\ Persisted(r[o]).of = r[o].id
  BY EntryTyped DEF Inv, TypeOK, Entry, File, Ids, Persisted
<1> HIDE DEF r
<1>3. TypeOK'
  <2>1. task' \in [Tasks -> Task']
    BY <1>1 DEF Task, Idle, Idling
  <2> QED
    BY <2>1, <1>1, <1>2 DEF Inv, TypeOK
<1>4. \A t \in Tasks : task'[t].pc = "idle" /\ DecidedDeletes(t)' = {}
  BY <1>1 DEF Idle, DecidedDeletes
<1>5. \A o \in Owners : /\ LiveAt(o)' <=> disk[o] # None
                        /\ disk'[o] # None <=> disk[o] # None
                        /\ disk[o] # None => entries'[o] = r[o]
                                             /\ disk'[o] = Persisted(r[o])
  BY <1>1, <1>2, NoneAssumption DEF LiveAt
<1>6. HeldOnce' /\ AtWork' /\ DeletesBehind' /\ FilePrepared'
  BY <1>1, <1>4 DEF HeldOnce, AtWork, DeletesBehind, FilePrepared, PreparedFile
<1>7. IdsDistinct'
  <2>1. \A o \in Owners : LiveAt(o)' => entries'[o].id = <<o, armed>>
    BY <1>2, <1>5
  <2> QED
    BY <2>1, <1>1 DEF IdsDistinct, Inv, TypeOK
<1>8. SavedIsCurrent'
  BY <1>4, <1>5 DEF SavedIsCurrent, Current, Safe, Persisted
<1>9. MisplacedIsDoomed'
  BY <1>2, <1>5 DEF MisplacedIsDoomed
<1> QED
  BY <1>3, <1>6, <1>7, <1>8, <1>9 DEF Inv

LEMMA StutterInv ==
  ASSUME Inv, UNCHANGED vars
  PROVE  Inv'
<1> USE DEF vars, fileVars, history
<1>1. TypeOK'
  BY DEF Inv, TypeOK, Task, Idling, Taken, Moving, Writing, Saving, Swapping,
     Deleting
<1>2. HeldOnce' /\ AtWork' /\ IdsDistinct'
  BY DEF Inv, HeldOnce, AtWork, IdsDistinct, StillThere, LiveAt
<1>3. \A u \in Tasks : DecidedDeletes(u)' = DecidedDeletes(u)
  BY DEF DecidedDeletes
<1>4. \A u \in Tasks, id \in Ids : SureDeletes(u, id)' = SureDeletes(u, id)
  BY <1>3 DEF SureDeletes
<1>5. DeletesBehind'
  BY <1>3 DEF Inv, DeletesBehind
<1>6. FilePrepared' /\ SavedIsCurrent'
  BY <1>3 DEF Inv, FilePrepared, PreparedFile, SavedIsCurrent, LiveAt, Busy,
     Current, Safe, Persisted, Redefined
<1>7. MisplacedIsDoomed'
  BY <1>4, EntryTyped DEF Inv, MisplacedIsDoomed, LiveAt, File
<1> QED
  BY <1>1, <1>2, <1>5, <1>6, <1>7 DEF Inv

(* Every step of the registry, the tasks' file work and the restart keeps  *)
(* the invariant.                                                          *)
LEMMA NextInv == Inv /\ [Next]_vars => Inv'
<1> SUFFICES ASSUME Inv, [Next]_vars PROVE Inv'
  OBVIOUS
<1>1. CASE UNCHANGED vars
  BY <1>1, StutterInv
<1>2. CASE Restart
  BY <1>2, RestartInv
<1>3. ASSUME NEW t \in Tasks, NEW o \in Owners, Remove(t, o) \/ Drop(t, o)
      PROVE  Inv'
  <2>1. task[t].pc = "idle" /\ Detach(t, o)
    BY <1>3 DEF Remove, Drop, Request, Idle
  <2>2. \A u \in Tasks \ {t} : held[u] # o
    BY <1>3, NobodyAssumption DEF Inv, HeldOnce, Remove, Drop, Request, Away
  <2> QED
    BY <2>1, <2>2, DetachInv
<1>4. ASSUME NEW t \in Tasks, NEW o \in Owners, NEW d \in Defs,
             Add(t, o, d) \/ Edit(t, o, d)
      PROVE  Inv'
  BY <1>4, AddInv, EditInv
<1>5. ASSUME NEW t \in Tasks, NEW o \in Owners, Start(t, o) \/ Snapshot(t, o)
      PROVE  Inv'
  BY <1>5, StartInv, SnapshotInv
<1>6. ASSUME NEW t \in Tasks, NEW o \in Owners, NEW n \in Owners,
             Rename(t, o, n)
      PROVE  Inv'
  BY <1>6, RenameInv
<1>7. ASSUME NEW t \in Tasks,
             \/ Leave(t) \/ FileRun(t) \/ FinishMove(t) \/ Stamp(t)
             \/ Saved(t) \/ SaveFailed(t) \/ Swap(t)
      PROVE  Inv'
  BY <1>7, LeaveInv, FileRunInv, FinishMoveInv, StampInv, SavedInv,
     SaveFailedInv, SwapInv
<1>8. ASSUME NEW t \in Tasks, NEW d \in DecidedDeletes(t),
             Delete(t, d) \/ DeleteFailed(t, d)
      PROVE  Inv'
  BY <1>8, DeleteInv
<1> QED
  BY <1>1, <1>2, <1>3, <1>4, <1>5, <1>6, <1>7, <1>8 DEF Next

(* The invariant holds of every reachable state. *)
THEOREM Invariant == Spec => []Inv
<1>1. Init => Inv
  BY InitInv
<1>2. Inv /\ [Next]_vars => Inv'
  BY NextInv
<1> QED
  BY <1>1, <1>2, PTL DEF Spec

(* The registry, the files, the ledger and the tasks keep their shapes,    *)
(* and FileLedger stamps no write ahead of its own sequence.               *)
THEOREM TypeCorrect == Spec => []TypeOK
<1>1. Inv => TypeOK
  BY DEF Inv
<1> QED
  BY <1>1, Invariant, PTL

(* A collector that no request is working on and whose last write          *)
(* succeeded is on disk as it is in memory, however the writes and the     *)
(* deletes of its path's earlier holders interleave.                       *)
THEOREM RegistryIsOnDisk == Spec => []LiveIsOnDisk
<1>1. Inv => LiveIsOnDisk
  BY DEF Inv, SavedIsCurrent, LiveIsOnDisk, Current
<1> QED
  BY <1>1, Invariant, PTL

(* The file of a removed or moved collector has a delete on its way that   *)
(* delete_unless_written_since will carry out, unless the disk refused.    *)
THEOREM NoFileOutlives == Spec => []NoDeadFile
<1>1. Inv => NoDeadFile
  <2> SUFFICES ASSUME Inv, NEW o \in Owners, disk[o] # None,
                      disk[o].of \notin LiveIds, disk[o].of \notin stranded
               PROVE  \E t \in Tasks : \E d \in DecidedDeletes(t) :
                        d.at = o /\ last[o] <= d.since
    BY DEF NoDeadFile
  <2>1. ~(LiveAt(o) /\ entries[o].id = disk[o].of)
    BY DEF LiveIds
  <2>2. PICK t \in Tasks : \E d \in SureDeletes(t, disk[o].of) :
                             d.at = o /\ last[o] <= d.since
    BY <2>1 DEF Inv, MisplacedIsDoomed
  <2>3. SureDeletes(t, disk[o].of) \subseteq DecidedDeletes(t)
    BY DEF SureDeletes, DecidedDeletes, Inv, FilePrepared, PreparedFile
  <2> QED
    BY <2>2, <2>3
<1> QED
  BY <1>1, Invariant, PTL

(* The collector a request found is where it found it at each later step   *)
(* of the request: edit's and snapshot's not-found branches are dead while *)
(* only drop and the TTL sweep take other sessions' collectors.            *)
THEOREM NothingTakenAway == Spec => []NeverTakenAway
<1>1. Inv => NeverTakenAway
  BY DEF Inv, AtWork, NeverTakenAway
<1> QED
  BY <1>1, Invariant, PTL
-----------------------------------------------------------------------------
(* The collectors' directory. *)

LEMMA LeastExists ==
  ASSUME NEW T, T \subseteq Nat, T # {}
  PROVE  \E x \in T : \A y \in T : x <= y
<1>1. PICK x \in T : \A y \in T : ~(<<y, x>> \in OpToRel(<, Nat))
  BY NatLessThanWellFounded, WFMin
<1>2. \A y \in T : ~(y < x)
  BY <1>1 DEF OpToRel
<1> QED BY <1>2

LEMMA MinIn ==
  ASSUME NEW T, T \subseteq Nat, T # {}
  PROVE  Min(T) \in T
BY LeastExists DEF Min

(* What a file may be: a collector's or unreadable, and not written later  *)
(* than bound; a staging name holds its own collector's.                   *)
FilesSound(f, bound) ==
  \A p \in DOMAIN f : f[p].of \in Keys \cup {Garbage} /\ f[p].at \in Nat /\ f[p].at < bound

StagedOwn(f) ==
  \A k \in Keys : Staging(k) \in DOMAIN f => f[Staging(k)].of \in {k, Garbage}

Latest(f, k, p) == p \in CopiesIn(f, k) /\ \A q \in CopiesIn(f, k) : f[q].at <= f[p].at

(* The directory f has a file of each collector of new and of no other,    *)
(* and the latest are those new names.                                     *)
NewestThere(f, new) ==
  /\ DOMAIN new = Winners(f)
  /\ \A k \in DOMAIN new : \A p : Latest(f, k, p) => f[p] \in new[k]

(* The directory f is one file for each of keys, at its place. *)
InPlace(f, new, keys, place, what) ==
  /\ DOMAIN new = keys /\ keys \subseteq Keys
  /\ DOMAIN f = {place[k] : k \in keys}
  /\ \A k \in keys : f[place[k]] = what[k] /\ what[k].of = k /\ what[k] \in new[k]

Picked(list) == [k \in Winners(list) |-> list[Winner(list, k)]]
StagingAt(list, left, staged) ==
  [k \in Winners(list) |-> IF k \in left THEN Winner(list, k)
                           ELSE IF k \in staged THEN Staging(k) ELSE Canonical(k)]
PlacingAt(list, left) ==
  [k \in Winners(list) |-> IF k \in left THEN Staging(k) ELSE Canonical(k)]

(* Where each collector's file is, by the phase of the load. *)
ReadingSound ==
  boot.phase = "reading" =>
    /\ FilesSound(boot.list, FirstSave + saves)
    /\ boot.stuck = {}
    /\ DOMAIN fs \subseteq DOMAIN boot.list
    /\ \A p \in DOMAIN fs : fs[p] = boot.list[p]
    /\ \A k \in Winners(boot.list) : Winner(boot.list, k) \in DOMAIN fs

StagingSound ==
  boot.phase = "staging" =>
    /\ DOMAIN boot = {"phase", "list", "left", "staged"}
    /\ boot.left \subseteq Winners(boot.list)
    /\ boot.staged \subseteq Winners(boot.list) \ boot.left
    /\ InPlace(fs, newest, Winners(boot.list),
               StagingAt(boot.list, boot.left, boot.staged), Picked(boot.list))

PlacingSound ==
  boot.phase = "placing" =>
    /\ DOMAIN boot = {"phase", "list", "left", "staged"}
    /\ boot.left \subseteq Winners(boot.list)
    /\ InPlace(fs, newest, Winners(boot.list), PlacingAt(boot.list, boot.left),
               Picked(boot.list))

UpSound ==
  boot.phase = "up" =>
    InPlace(fs, newest, DOMAIN loaded, [k \in DOMAIN loaded |-> Canonical(k)], loaded)

(* As long as the disk refuses no rename. *)
Orderly ==
  /\ saves \in Nat
  /\ FilesSound(fs, FirstSave + saves)
  /\ StagedOwn(fs)
  /\ NewestThere(fs, newest)
  /\ ReadingSound /\ StagingSound /\ PlacingSound /\ UpSound

DirInv == ~jammed => Orderly

LEMMA LatestExists ==
  ASSUME NEW f, NEW bound \in Nat, FilesSound(f, bound), NEW k, CopiesIn(f, k) # {}
  PROVE  \E p : Latest(f, k, p)
<1> DEFINE T == {n \in Nat : \E p \in CopiesIn(f, k) : n + f[p].at = bound}
<1>1. \A p \in CopiesIn(f, k) : f[p].at \in Nat /\ bound - f[p].at \in T
  <2>1. TAKE p \in CopiesIn(f, k)
  <2>2. f[p].at \in Nat /\ f[p].at < bound
    BY DEF CopiesIn, FilesSound
  <2> DEFINE a == f[p].at
  <2>3. bound - a \in Nat /\ (bound - a) + a = bound
    BY <2>2
  <2> QED
    BY <2>2, <2>3
<1>2. PICK n \in T : \A m \in T : n <= m
  <2>1. T \subseteq Nat /\ T # {}
    BY <1>1
  <2> HIDE DEF T
  <2> QED
    BY <2>1, LeastExists
<1>3. PICK p \in CopiesIn(f, k) : n + f[p].at = bound
  OBVIOUS
<1>4. \A q \in CopiesIn(f, k) : f[q].at <= f[p].at
  <2>1. TAKE q \in CopiesIn(f, k)
  <2> DEFINE a == f[p].at
             b == f[q].at
  <2>2. a \in Nat /\ b \in Nat /\ n <= bound - b /\ n + a = bound /\ n \in Nat
    BY <1>1, <1>2, <1>3
  <2> HIDE DEF a, b
  <2>3. b <= a
    BY <2>2
  <2> QED
    BY <2>3 DEF a, b
<1> QED
  BY <1>4 DEF Latest

LEMMA WinnerFacts ==
  ASSUME NEW f, NEW bound \in Nat, FilesSound(f, bound), NEW k \in Winners(f)
  PROVE  Latest(f, k, Winner(f, k)) /\ f[Winner(f, k)].of = k
<1> DEFINE latest == {p \in CopiesIn(f, k) : \A q \in CopiesIn(f, k) : f[q].at <= f[p].at}
<1>1. latest # {}
  BY LatestExists DEF Winners, Latest
<1>2. Winner(f, k) = IF Canonical(k) \in latest THEN Canonical(k) ELSE CHOOSE p \in latest : TRUE
  BY DEF Winner
<1>3. Winner(f, k) \in latest
  <2> HIDE DEF latest
  <2> QED
    BY <1>1, <1>2
<1> QED
  BY <1>3 DEF Latest, CopiesIn

(* A directory in place is in order. *)
LEMMA PlacedIsNewest ==
  ASSUME NEW f, NEW new, NEW keys, NEW place, NEW what, InPlace(f, new, keys, place, what)
  PROVE  /\ NewestThere(f, new)
         /\ \A p \in DOMAIN f : f[p].of \in keys /\ p = place[f[p].of]
<1>1. \A p \in DOMAIN f : f[p].of \in keys /\ p = place[f[p].of]
  BY DEF InPlace
<1>2. \A k \in keys : place[k] \in CopiesIn(f, k)
  BY DEF InPlace, CopiesIn
<1>3. DOMAIN new = Winners(f)
  BY <1>1, <1>2 DEF InPlace, Winners, CopiesIn
<1>4. ASSUME NEW k \in DOMAIN new, NEW p, Latest(f, k, p) PROVE f[p] \in new[k]
  BY <1>1, <1>4 DEF Latest, CopiesIn, InPlace
<1> QED
  BY <1>1, <1>3, <1>4 DEF NewestThere

(* A rename to a free name moves one file. *)
LEMMA MoveOne ==
  ASSUME NEW keys, NEW place, NEW what, InPlace(fs, newest, keys, place, what),
         NEW k \in keys, NEW to, to \notin DOMAIN fs,
         FilesSound(fs, FirstSave + saves), StagedOwn(fs),
         \A j \in Keys : to = Staging(j) => j = k,
         NEW g, g = Renamed(place[k], to),
         NEW next, \A j \in keys : next[j] = IF j = k THEN to ELSE place[j]
  PROVE  /\ InPlace(g, newest, keys, next, what)
         /\ FilesSound(g, FirstSave + saves) /\ StagedOwn(g)
<1> DEFINE p == place[k]
<1>1. p \in DOMAIN fs /\ fs[p] = what[k] /\ fs[p].of = k /\ k \in Keys
  BY DEF InPlace
<1>2. /\ DOMAIN g = (DOMAIN fs \ {p}) \cup {to}
      /\ g[to] = fs[p] /\ \A q \in DOMAIN fs \ {p} : g[q] = fs[q]
  <2>1. g = Renamed(p, to)
    OBVIOUS
  <2> HIDE DEF p
  <2> QED
    BY <1>1, <2>1 DEF Renamed
<1>3. \A j \in keys : j # k => place[j] \in DOMAIN fs \ {p}
  BY <1>1 DEF InPlace
<1>4. DOMAIN g = {next[j] : j \in keys}
  <2>1. \A q \in DOMAIN fs \ {p} : \E j \in keys : j # k /\ q = place[j]
    BY DEF InPlace
  <2>2. \A j \in keys : next[j] \in DOMAIN g
    BY <1>2, <1>3
  <2>3. \A q \in DOMAIN g : \E j \in keys : q = next[j]
    BY <1>2, <2>1
  <2> QED
    BY <2>2, <2>3
<1>5. \A j \in keys : g[next[j]] = what[j]
  BY <1>1, <1>2, <1>3 DEF InPlace
<1>6. InPlace(g, newest, keys, next, what)
  BY <1>4, <1>5 DEF InPlace
<1>7. FilesSound(g, FirstSave + saves)
  BY <1>1, <1>2 DEF FilesSound
<1>8. StagedOwn(g)
  BY <1>1, <1>2 DEF StagedOwn
<1> QED
  BY <1>6, <1>7, <1>8

LEMMA DirInitInv == FInit => DirInv
<1> SUFFICES ASSUME FInit PROVE Orderly
  BY DEF DirInv
<1>1. fs \in Found /\ saves = 0 /\ boot.phase = "down" /\ FirstSave \in Nat
  BY FoundAssumption DEF FInit, Down
<1>2. FilesSound(fs, FirstSave + saves)
  BY <1>1, FoundAssumption DEF FilesSound
<1>3. StagedOwn(fs)
  BY <1>1, FoundAssumption DEF StagedOwn
<1> DEFINE K == {fs[p].of : p \in DOMAIN fs} \ {Garbage}
           L(k) == {fs[p] : p \in {q \in CopiesIn(fs, k) :
                       \A r \in CopiesIn(fs, k) : fs[r].at <= fs[q].at}}
<1>4. newest = [k \in K |-> L(k)]
  BY DEF FInit
<1>5. K = Winners(fs)
  BY <1>2, KeysAssumption DEF FilesSound, Winners, CopiesIn
<1>6. ASSUME NEW k \in K, NEW p, Latest(fs, k, p) PROVE fs[p] \in L(k)
  BY <1>6 DEF Latest
<1>7. NewestThere(fs, newest)
  <2> HIDE DEF K, L
  <2> QED
    BY <1>4, <1>5, <1>6 DEF NewestThere
<1> QED
  BY <1>1, <1>2, <1>3, <1>7
     DEF Orderly, ReadingSound, StagingSound, PlacingSound, UpSound

LEMMA ReadDirInv ==
  ASSUME Orderly, ReadDir
  PROVE  Orderly'
<1>1. /\ boot'.phase = "reading" /\ boot'.list = fs /\ boot'.stuck = {}
      /\ fs' = fs /\ newest' = newest /\ saves' = saves
  BY DEF ReadDir, Listed
<1>2. saves \in Nat /\ FirstSave + saves \in Nat /\ FilesSound(fs, FirstSave + saves)
  BY FoundAssumption DEF Orderly
<1>3. \A k \in Winners(fs) : Winner(fs, k) \in DOMAIN fs
  BY <1>2, WinnerFacts DEF Latest, CopiesIn
<1>4. ReadingSound'
  BY <1>1, <1>2, <1>3 DEF ReadingSound
<1> QED
  BY <1>1, <1>2, <1>4 DEF Orderly, StagingSound, PlacingSound, UpSound

(* A file that is no collector's chosen copy is set aside. *)
LEMMA AsideInv ==
  ASSUME Orderly, boot.phase = "reading", NEW p \in DOMAIN fs,
         \A k \in Winners(boot.list) : p # Winner(boot.list, k),
         fs' = Removed(p), UNCHANGED <<boot, newest, saves>>
  PROVE  Orderly'
<1> DEFINE list == boot.list
<1>1. /\ saves \in Nat /\ FirstSave + saves \in Nat
      /\ FilesSound(list, FirstSave + saves) /\ FilesSound(fs, FirstSave + saves)
      /\ boot.stuck = {} /\ DOMAIN fs \subseteq DOMAIN list
      /\ \A q \in DOMAIN fs : fs[q] = list[q]
      /\ \A k \in Winners(list) : Winner(list, k) \in DOMAIN fs
      /\ StagedOwn(fs) /\ NewestThere(fs, newest)
  BY FoundAssumption DEF Orderly, ReadingSound
<1>2. /\ DOMAIN fs' = DOMAIN fs \ {p}
      /\ \A q \in DOMAIN fs' : q \in DOMAIN fs /\ fs'[q] = fs[q]
  BY DEF Removed
<1> HIDE DEF list
<1>3. FilesSound(fs', FirstSave + saves) /\ StagedOwn(fs')
  BY <1>1, <1>2 DEF FilesSound, StagedOwn
<1>4. ReadingSound'
  BY <1>1, <1>2 DEF ReadingSound, list
<1>5. \A k \in Winners(fs) : /\ k \in Winners(list)
                             /\ Winner(list, k) \in CopiesIn(fs', k)
                             /\ Latest(list, k, Winner(list, k))
  <2>1. TAKE k \in Winners(fs)
  <2>2. k \in Winners(list)
    BY <1>1 DEF Winners, CopiesIn
  <2>3. Latest(list, k, Winner(list, k)) /\ list[Winner(list, k)].of = k
    BY <1>1, <2>2, WinnerFacts
  <2>4. Winner(list, k) \in DOMAIN fs'
    BY <1>1, <1>2, <2>2 DEF list
  <2> QED
    BY <1>1, <1>2, <2>2, <2>3, <2>4 DEF CopiesIn
<1>6. Winners(fs') = Winners(fs)
  BY <1>2, <1>5 DEF Winners, CopiesIn
<1>7. ASSUME NEW k \in Winners(fs), NEW q, Latest(fs', k, q) PROVE Latest(fs, k, q)
  <2> DEFINE w == Winner(list, k)
  <2>1. w \in CopiesIn(fs', k) /\ Latest(list, k, w)
    BY <1>5
  <2>2. /\ q \in CopiesIn(fs, k) /\ fs'[q] = fs[q]
        /\ w \in CopiesIn(fs, k) /\ fs'[w] = fs[w] /\ fs[w] = list[w]
    BY <1>1, <1>2, <1>7, <2>1 DEF Latest, CopiesIn
  <2>3. fs[w].at <= fs[q].at
    BY <1>7, <2>1, <2>2 DEF Latest
  <2>4. ASSUME NEW r \in CopiesIn(fs, k) PROVE fs[r].at <= fs[q].at
    <3>1. r \in CopiesIn(list, k) /\ fs[r] = list[r]
      BY <1>1, <2>4 DEF CopiesIn
    <3>2. fs[r].at <= fs[w].at
      BY <2>1, <2>2, <3>1 DEF Latest
    <3>3. fs[r].at \in Nat /\ fs[w].at \in Nat /\ fs[q].at \in Nat
      BY <1>1, <2>2, <2>4 DEF FilesSound, CopiesIn
    <3> QED
      BY <2>3, <3>2, <3>3
  <2> QED
    BY <2>2, <2>4 DEF Latest
<1>8. NewestThere(fs', newest)
  <2>1. ASSUME NEW k \in DOMAIN newest, NEW q, Latest(fs', k, q) PROVE fs'[q] \in newest[k]
    <3>1. k \in Winners(fs)
      BY <1>1 DEF NewestThere
    <3>2. Latest(fs, k, q)
      BY <1>7, <2>1, <3>1
    <3>3. fs'[q] = fs[q]
      BY <1>2, <2>1 DEF Latest, CopiesIn
    <3> QED
      BY <1>1, <3>2, <3>3 DEF NewestThere
  <2> QED
    BY <1>1, <1>6, <2>1 DEF NewestThere
<1> QED
  BY <1>1, <1>3, <1>4, <1>8 DEF Orderly, StagingSound, PlacingSound, UpSound

LEMMA SetAsideInv ==
  ASSUME Orderly, Quarantine \/ Supersede, ~jammed'
  PROVE  Orderly'
<1>1. /\ boot.phase = "reading" /\ UNCHANGED <<newest, saves>>
      /\ \E p \in Unread \cup Losers : SetAside(p)
  BY DEF Quarantine, Supersede
<1>2. PICK p \in Unread \cup Losers : SetAside(p)
  BY <1>1
<1>3. fs' = Removed(p) /\ UNCHANGED boot
  BY <1>2 DEF SetAside
<1>4. p \in DOMAIN fs
  BY DEF Unread, Losers, Movable
<1>5. ASSUME NEW k \in Winners(boot.list), p = Winner(boot.list, k) PROVE FALSE
  <2>1. FirstSave + saves \in Nat /\ FilesSound(boot.list, FirstSave + saves)
    BY <1>1, FoundAssumption DEF Orderly, ReadingSound
  <2>2. boot.list[p].of = k /\ k \in Keys
    BY <1>5, <2>1, WinnerFacts DEF Winners
  <2> QED
    BY <1>5, <2>2, KeysAssumption DEF Unread, Losers
<1> QED
  BY <1>1, <1>3, <1>4, <1>5, AsideInv

LEMMA BeginStagingInv ==
  ASSUME Orderly, BeginStaging
  PROVE  Orderly'
<1> DEFINE list == boot.list
<1>1. /\ boot' = [phase |-> "staging", list |-> list, left |-> Winners(list), staged |-> {}]
      /\ fs' = fs /\ newest' = newest /\ saves' = saves
      /\ boot.phase = "reading" /\ Unread = {} /\ Losers = {}
  BY DEF BeginStaging
<1>2. /\ saves \in Nat /\ FirstSave + saves \in Nat
      /\ FilesSound(list, FirstSave + saves) /\ FilesSound(fs, FirstSave + saves)
      /\ boot.stuck = {} /\ DOMAIN fs \subseteq DOMAIN list
      /\ \A q \in DOMAIN fs : fs[q] = list[q]
      /\ \A k \in Winners(list) : Winner(list, k) \in DOMAIN fs
      /\ NewestThere(fs, newest)
  BY <1>1, FoundAssumption DEF Orderly, ReadingSound
<1>3. \A p \in DOMAIN fs : list[p].of \in Winners(list) /\ p = Winner(list, list[p].of)
  <2>1. TAKE p \in DOMAIN fs
  <2>2. p \in Movable
    BY <1>2 DEF Movable
  <2>3. list[p].of # Garbage /\ p = Winner(list, list[p].of)
    BY <1>1, <2>2 DEF Unread, Losers
  <2> QED
    BY <1>2, <2>3 DEF FilesSound, Winners, CopiesIn
<1> HIDE DEF list
<1>4. \A k \in Winners(list) : Latest(list, k, Winner(list, k)) /\ list[Winner(list, k)].of = k
  BY <1>2, WinnerFacts
<1>5. DOMAIN newest = Winners(list)
  <2>1. DOMAIN newest = Winners(fs)
    BY <1>2 DEF NewestThere
  <2> QED
    BY <1>2, <1>4, <2>1 DEF Winners, CopiesIn
<1>6. ASSUME NEW k \in Winners(list) PROVE list[Winner(list, k)] \in newest[k]
  <2>1. Latest(fs, k, Winner(list, k))
    BY <1>2, <1>4 DEF Latest, CopiesIn
  <2> QED
    BY <1>2, <1>5, <2>1 DEF NewestThere
<1> DEFINE place == StagingAt(list, Winners(list), {})
           what == Picked(list)
<1>7. \A k \in Winners(list) : place[k] = Winner(list, k) /\ what[k] = list[Winner(list, k)]
  BY DEF StagingAt, Picked
<1>8. InPlace(fs, newest, Winners(list), place, what)
  <2> HIDE DEF place, what
  <2>1. DOMAIN fs = {place[k] : k \in Winners(list)}
    <3>1. \A k \in Winners(list) : place[k] \in DOMAIN fs
      BY <1>2, <1>7
    <3>2. \A p \in DOMAIN fs : \E k \in Winners(list) : p = place[k]
      BY <1>3, <1>7
    <3> QED
      BY <3>1, <3>2
  <2>2. Winners(list) \subseteq Keys
    BY DEF Winners
  <2> QED
    BY <1>2, <1>4, <1>5, <1>6, <1>7, <2>1, <2>2 DEF InPlace
<1>9. StagingSound'
  BY <1>1, <1>8 DEF StagingSound
<1> QED
  BY <1>1, <1>2, <1>9 DEF Orderly, ReadingSound, PlacingSound, UpSound

LEMMA StageInv ==
  ASSUME Orderly, Stage, ~jammed'
  PROVE  Orderly'
<1> DEFINE list == boot.list
           left == boot.left
           staged == boot.staged
           k == Min(left)
           p == Winner(list, k)
           place == StagingAt(list, left, staged)
           what == Picked(list)
           movable == p \notin {Canonical(k), Staging(k)} /\ Free(Staging(k))
<1>1. /\ boot.phase = "staging" /\ left # {}
      /\ UNCHANGED <<newest, saves>>
      /\ fs' = IF movable THEN Renamed(p, Staging(k)) ELSE fs
      /\ boot' = [boot EXCEPT !.left = left \ {k},
                     !.staged = IF movable \/ p = Staging(k) THEN staged \cup {k} ELSE staged]
  <2>1. PICK moves \in {movable, FALSE} :
          /\ fs' = IF moves THEN Renamed(p, Staging(k)) ELSE fs
          /\ boot' = [boot EXCEPT !.left = @ \ {k},
                !.staged = IF moves \/ p = Staging(k) THEN @ \cup {k} ELSE @]
          /\ jammed' = (jammed \/ movable # moves)
    BY DEF Stage
  <2>2. moves = movable
    BY <2>1
  <2> QED
    BY <2>1, <2>2 DEF Stage
<1>2. /\ saves \in Nat /\ FirstSave + saves \in Nat /\ FilesSound(fs, FirstSave + saves) /\ StagedOwn(fs)
      /\ DOMAIN boot = {"phase", "list", "left", "staged"}
      /\ left \subseteq Winners(list) /\ staged \subseteq Winners(list) \ left
      /\ InPlace(fs, newest, Winners(list), place, what)
  BY <1>1, FoundAssumption DEF Orderly, StagingSound
<1>3. k \in left /\ k \in Winners(list) /\ k \in Keys
  <2>1. left \subseteq Nat
    BY <1>2, KeysAssumption DEF Winners
  <2>2. k \in left
    BY <1>1, <2>1, MinIn
  <2> QED
    BY <1>2, <2>2 DEF Winners
<1> DEFINE nleft == left \ {k}
           nstaged == IF movable \/ p = Staging(k) THEN staged \cup {k} ELSE staged
           nplace == StagingAt(list, nleft, nstaged)
<1>4. /\ boot'.phase = "staging" /\ boot'.list = list /\ boot'.left = nleft
      /\ boot'.staged = nstaged /\ DOMAIN boot' = {"phase", "list", "left", "staged"}
  BY <1>1, <1>2
<1> HIDE DEF list, left, staged, k, movable
<1>5. nleft \subseteq Winners(list) /\ nstaged \subseteq Winners(list) \ nleft
  BY <1>2, <1>3
<1>6. place[k] = p
  BY <1>3 DEF StagingAt
<1>7. p \in DOMAIN fs /\ fs[p].of = k
  BY <1>2, <1>3, <1>6 DEF InPlace
<1>8. Staging(k) \in DOMAIN fs => p = Staging(k)
  <2>1. SUFFICES ASSUME Staging(k) \in DOMAIN fs PROVE p = Staging(k)
    OBVIOUS
  <2>2. /\ fs[Staging(k)].of \in Winners(list)
        /\ Staging(k) = place[fs[Staging(k)].of]
    BY <1>2, <2>1, PlacedIsNewest
  <2>3. fs[Staging(k)].of = k
    BY <1>2, <1>3, <2>1, <2>2, KeysAssumption DEF StagedOwn, Winners
  <2> QED
    BY <1>6, <2>2, <2>3
<1>9. \A j \in Winners(list) : j # k => nplace[j] = place[j]
  BY DEF StagingAt
<1>10. /\ InPlace(fs', newest, Winners(list), nplace, what)
       /\ FilesSound(fs', FirstSave + saves) /\ StagedOwn(fs')
  <2>1. CASE movable
    <3>1. fs' = Renamed(place[k], Staging(k)) /\ Staging(k) \notin DOMAIN fs
      BY <1>1, <1>6, <2>1 DEF movable, Free
    <3>2. nplace[k] = Staging(k)
      BY <1>3, <2>1 DEF StagingAt
    <3>3. \A j \in Winners(list) : nplace[j] = IF j = k THEN Staging(k) ELSE place[j]
      BY <1>9, <3>2
    <3>4. \A j \in Keys : Staging(k) = Staging(j) => j = k
      BY DEF Staging
    <3> HIDE DEF place, nplace, what, p
    <3> QED
      BY <1>2, <1>3, <3>1, <3>3, <3>4, MoveOne
  <2>2. CASE ~movable
    <3>1. fs' = fs
      BY <1>1, <2>2
    <3>2. p \in {Canonical(k), Staging(k)}
      BY <1>8, <2>2 DEF movable, Free
    <3>3. nplace[k] = p
      <4>1. k \notin staged
        BY <1>2, <1>3
      <4>2. Canonical(k) # Staging(k)
        BY DEF Canonical, Staging
      <4> QED
        BY <1>3, <2>2, <3>2, <4>1, <4>2 DEF StagingAt
    <3>4. \A j \in Winners(list) : nplace[j] = place[j]
      BY <1>6, <1>9, <3>3
    <3> HIDE DEF place, nplace, what, p
    <3> QED
      BY <1>2, <3>1, <3>4 DEF InPlace
  <2> QED
    BY <2>1, <2>2
<1>11. StagingSound'
  BY <1>1, <1>4, <1>5, <1>10 DEF StagingSound
<1>12. NewestThere(fs', newest)
  BY <1>10, PlacedIsNewest
<1> QED
  BY <1>1, <1>2, <1>4, <1>10, <1>11, <1>12
     DEF Orderly, ReadingSound, PlacingSound, UpSound

LEMMA BeginPlacingInv ==
  ASSUME Orderly, BeginPlacing
  PROVE  Orderly'
<1> DEFINE list == boot.list
           staged == boot.staged
           place == StagingAt(list, {}, staged)
           nplace == PlacingAt(list, staged)
<1>1. /\ boot.phase = "staging" /\ boot.left = {} /\ UNCHANGED <<fs, newest, saves>>
      /\ boot' = [boot EXCEPT !.phase = "placing", !.left = staged]
  BY DEF BeginPlacing
<1>2. /\ DOMAIN boot = {"phase", "list", "left", "staged"}
      /\ staged \subseteq Winners(list)
      /\ InPlace(fs, newest, Winners(list), place, Picked(list))
  BY <1>1 DEF Orderly, StagingSound
<1>3. /\ boot'.phase = "placing" /\ boot'.list = list /\ boot'.left = staged
      /\ DOMAIN boot' = {"phase", "list", "left", "staged"}
  BY <1>1, <1>2
<1> HIDE DEF list, staged
<1>4. place = nplace
  BY DEF StagingAt, PlacingAt
<1>5. PlacingSound'
  BY <1>1, <1>2, <1>3, <1>4 DEF PlacingSound
<1> QED
  BY <1>1, <1>3, <1>5 DEF Orderly, ReadingSound, StagingSound, UpSound

LEMMA PlaceInv ==
  ASSUME Orderly, Place, ~jammed'
  PROVE  Orderly'
<1> DEFINE list == boot.list
           left == boot.left
           k == Min(left)
           place == PlacingAt(list, left)
           what == Picked(list)
<1>1. /\ boot.phase = "placing" /\ left # {} /\ UNCHANGED <<newest, saves>>
      /\ boot' = [boot EXCEPT !.left = left \ {k}]
      /\ Free(Canonical(k)) => fs' = Renamed(Staging(k), Canonical(k))
  BY DEF Place
<1>2. /\ saves \in Nat /\ FilesSound(fs, FirstSave + saves) /\ StagedOwn(fs)
      /\ DOMAIN boot = {"phase", "list", "left", "staged"}
      /\ left \subseteq Winners(list)
      /\ InPlace(fs, newest, Winners(list), place, what)
  BY <1>1 DEF Orderly, PlacingSound
<1>3. k \in left /\ k \in Winners(list) /\ k \in Keys
  <2>1. left \subseteq Nat
    BY <1>2, KeysAssumption DEF Winners
  <2>2. k \in left
    BY <1>1, <2>1, MinIn
  <2> QED
    BY <1>2, <2>2 DEF Winners
<1> DEFINE nleft == left \ {k}
           nplace == PlacingAt(list, nleft)
<1>4. /\ boot'.phase = "placing" /\ boot'.list = list /\ boot'.left = nleft
      /\ DOMAIN boot' = {"phase", "list", "left", "staged"}
  BY <1>1, <1>2
<1> HIDE DEF list, left, k
<1>5. Canonical(k) \notin DOMAIN fs
  <2>1. SUFFICES ASSUME Canonical(k) \in DOMAIN fs PROVE FALSE
    OBVIOUS
  <2>2. PICK j \in Winners(list) : Canonical(k) = place[j]
    BY <1>2, <2>1 DEF InPlace
  <2>3. place[j] = IF j \in left THEN Staging(j) ELSE Canonical(j)
    BY DEF PlacingAt
  <2> QED
    BY <1>3, <2>2, <2>3 DEF Canonical, Staging
<1>6. fs' = Renamed(place[k], Canonical(k))
  BY <1>1, <1>3, <1>5 DEF PlacingAt, Free
<1>7. \A j \in Winners(list) : nplace[j] = IF j = k THEN Canonical(k) ELSE place[j]
  BY DEF PlacingAt
<1>8. \A j \in Keys : Canonical(k) = Staging(j) => j = k
  BY DEF Canonical, Staging
<1>9. /\ InPlace(fs', newest, Winners(list), nplace, what)
      /\ FilesSound(fs', FirstSave + saves) /\ StagedOwn(fs')
  <2> HIDE DEF place, nplace, what
  <2> QED
    BY <1>2, <1>3, <1>5, <1>6, <1>7, <1>8, MoveOne
<1>10. PlacingSound'
  BY <1>1, <1>2, <1>4, <1>9 DEF PlacingSound
<1>11. NewestThere(fs', newest)
  BY <1>9, PlacedIsNewest
<1> QED
  BY <1>1, <1>2, <1>4, <1>9, <1>10, <1>11
     DEF Orderly, ReadingSound, StagingSound, UpSound

LEMMA LoadInv ==
  ASSUME Orderly, Load
  PROVE  Orderly'
<1> DEFINE list == boot.list
<1>1. /\ boot.phase = "placing" /\ boot.left = {} /\ UNCHANGED <<fs, newest, saves>>
      /\ loaded' = Picked(list) /\ boot'.phase = "up"
  BY DEF Load, Picked
<1>2. InPlace(fs, newest, Winners(list), PlacingAt(list, {}), Picked(list))
  BY <1>1 DEF Orderly, PlacingSound
<1>3. DOMAIN Picked(list) = Winners(list)
  BY DEF Picked
<1>4. PlacingAt(list, {}) = [k \in Winners(list) |-> Canonical(k)]
  BY DEF PlacingAt
<1>5. UpSound'
  <2> HIDE DEF list
  <2> QED
    BY <1>1, <1>2, <1>3, <1>4 DEF UpSound
<1> QED
  BY <1>1, <1>5 DEF Orderly, ReadingSound, StagingSound, PlacingSound

LEMMA SaveInv ==
  ASSUME Orderly, NEW k \in Keys, Save(k)
  PROVE  Orderly'
<1> DEFINE file == [of |-> k, at |-> FirstSave + saves, id |-> FirstSave + saves]
           keys == DOMAIN loaded
           home == [j \in keys |-> Canonical(j)]
<1>1. /\ boot.phase = "up" /\ saves' = saves + 1 /\ boot' = boot
      /\ fs' = [p \in DOMAIN fs \cup {Canonical(k)} |->
                  IF p = Canonical(k) THEN file ELSE fs[p]]
      /\ loaded' = [j \in keys \cup {k} |-> IF j = k THEN file ELSE loaded[j]]
      /\ newest' = [j \in DOMAIN newest \cup {k} |-> IF j = k THEN {file} ELSE newest[j]]
  BY DEF Save
<1>2. /\ saves \in Nat /\ FirstSave \in Nat /\ FilesSound(fs, FirstSave + saves) /\ StagedOwn(fs)
      /\ InPlace(fs, newest, keys, home, loaded)
  BY <1>1, FoundAssumption DEF Orderly, UpSound
<1>3. file.of = k /\ file.at = FirstSave + saves
  OBVIOUS
<1> HIDE DEF file
<1>4. \A j : Canonical(j) = Canonical(k) => j = k
  BY DEF Canonical
<1>5. \A j \in keys : home[j] = Canonical(j)
  OBVIOUS
<1> DEFINE nkeys == keys \cup {k}
           nhome == [j \in nkeys |-> Canonical(j)]
<1>6. DOMAIN loaded' = nkeys /\ DOMAIN newest' = nkeys /\ nkeys \subseteq Keys
  BY <1>1, <1>2 DEF InPlace
<1>7. DOMAIN fs' = {nhome[j] : j \in nkeys}
  <2>1. DOMAIN fs = {Canonical(j) : j \in keys}
    BY <1>2, <1>5 DEF InPlace
  <2>2. DOMAIN fs' = DOMAIN fs \cup {Canonical(k)}
    BY <1>1
  <2> QED
    BY <2>1, <2>2
<1>8. ASSUME NEW j \in nkeys
      PROVE  fs'[nhome[j]] = loaded'[j] /\ loaded'[j].of = j /\ loaded'[j] \in newest'[j]
  <2>1. nhome[j] = Canonical(j) /\ Canonical(j) \in DOMAIN fs'
    BY <1>7
  <2>2. CASE j = k
    <3>1. fs'[Canonical(k)] = file /\ loaded'[k] = file /\ newest'[k] = {file}
      BY <1>1
    <3> QED
      BY <1>3, <2>1, <2>2, <3>1
  <2>3. CASE j # k
    <3>1. j \in keys /\ j \in DOMAIN newest /\ Canonical(j) \in DOMAIN fs /\ Canonical(j) # Canonical(k)
      BY <1>2, <1>4, <1>5, <2>3 DEF InPlace
    <3>2. fs'[Canonical(j)] = fs[Canonical(j)] /\ loaded'[j] = loaded[j] /\ newest'[j] = newest[j]
      BY <1>1, <2>3, <3>1
    <3>3. fs[Canonical(j)] = loaded[j] /\ loaded[j].of = j /\ loaded[j] \in newest[j]
      BY <1>2, <1>5, <3>1 DEF InPlace
    <3> QED
      BY <2>1, <3>2, <3>3
  <2> QED
    BY <2>2, <2>3
<1>9. InPlace(fs', newest', nkeys, nhome, loaded')
  <2> HIDE DEF nkeys, nhome
  <2> QED
    BY <1>6, <1>7, <1>8 DEF InPlace
<1>10. UpSound'
  <2> HIDE DEF nkeys
  <2> QED
    BY <1>6, <1>9 DEF UpSound
<1>11. FilesSound(fs', FirstSave + saves')
  <2>1. \A p \in DOMAIN fs' : fs'[p] = file \/ (p \in DOMAIN fs /\ fs'[p] = fs[p])
    BY <1>1
  <2>2. ASSUME NEW n \in Nat, n < FirstSave + saves \/ n = FirstSave + saves PROVE n < FirstSave + saves'
    BY <1>1, <1>2, <2>2
  <2>3. ASSUME NEW p \in DOMAIN fs'
        PROVE fs'[p].of \in Keys \cup {Garbage} /\ fs'[p].at \in Nat
              /\ (fs'[p].at < FirstSave + saves \/ fs'[p].at = FirstSave + saves)
    BY <1>2, <1>3, <2>1 DEF FilesSound
  <2> QED
    BY <2>2, <2>3 DEF FilesSound
<1>12. StagedOwn(fs')
  <2>1. \A j \in Keys : Staging(j) \in DOMAIN fs' => Staging(j) \in DOMAIN fs /\ fs'[Staging(j)] = fs[Staging(j)]
    BY <1>1 DEF Staging, Canonical
  <2> QED
    BY <1>2, <2>1 DEF StagedOwn
<1>13. NewestThere(fs', newest')
  BY <1>9, PlacedIsNewest
<1>14. saves' \in Nat
  BY <1>1, <1>2
<1> QED
  BY <1>1, <1>10, <1>11, <1>12, <1>13, <1>14
     DEF Orderly, ReadingSound, StagingSound, PlacingSound

LEMMA DeleteFileInv ==
  ASSUME Orderly, NEW k \in Keys, DeleteFile(k)
  PROVE  Orderly'
<1> DEFINE keys == DOMAIN loaded
           home == [j \in keys |-> Canonical(j)]
           nkeys == keys \ {k}
           nhome == [j \in nkeys |-> Canonical(j)]
<1>1. /\ boot.phase = "up" /\ saves' = saves /\ boot' = boot /\ k \in keys
      /\ fs' = [p \in DOMAIN fs \ {Canonical(k)} |-> fs[p]]
      /\ loaded' = [j \in nkeys |-> loaded[j]]
      /\ newest' = [j \in DOMAIN newest \ {k} |-> newest[j]]
  BY DEF DeleteFile, Restrict, Removed
<1>2. /\ FilesSound(fs, FirstSave + saves) /\ StagedOwn(fs)
      /\ InPlace(fs, newest, keys, home, loaded)
  BY <1>1 DEF Orderly, UpSound
<1>3. \A j : Canonical(j) = Canonical(k) => j = k
  BY DEF Canonical
<1>4. /\ DOMAIN fs = {Canonical(j) : j \in keys} /\ DOMAIN newest = keys /\ keys \subseteq Keys
      /\ \A j \in keys : fs[Canonical(j)] = loaded[j] /\ loaded[j].of = j /\ loaded[j] \in newest[j]
  BY <1>2 DEF InPlace
<1>5. DOMAIN loaded' = nkeys /\ DOMAIN newest' = nkeys /\ nkeys \subseteq Keys
  BY <1>1, <1>4
<1>6. DOMAIN fs' = {nhome[j] : j \in nkeys}
  <2>1. DOMAIN fs' = DOMAIN fs \ {Canonical(k)}
    BY <1>1
  <2> QED
    BY <1>3, <1>4, <2>1
<1>7. ASSUME NEW j \in nkeys
      PROVE  fs'[nhome[j]] = loaded'[j] /\ loaded'[j].of = j /\ loaded'[j] \in newest'[j]
  <2>1. nhome[j] = Canonical(j) /\ Canonical(j) \in DOMAIN fs \ {Canonical(k)}
    BY <1>3, <1>4
  <2>2. fs'[Canonical(j)] = fs[Canonical(j)] /\ loaded'[j] = loaded[j] /\ newest'[j] = newest[j]
    BY <1>1, <1>4, <2>1
  <2> QED
    BY <1>4, <2>1, <2>2
<1>8. InPlace(fs', newest', nkeys, nhome, loaded')
  <2> HIDE DEF nkeys, nhome
  <2> QED
    BY <1>5, <1>6, <1>7 DEF InPlace
<1>9. UpSound'
  <2> HIDE DEF nkeys
  <2> QED
    BY <1>5, <1>8 DEF UpSound
<1>10. FilesSound(fs', FirstSave + saves) /\ StagedOwn(fs')
  BY <1>1, <1>2 DEF FilesSound, StagedOwn
<1>11. NewestThere(fs', newest')
  BY <1>8, PlacedIsNewest
<1> QED
  BY <1>1, <1>9, <1>10, <1>11 DEF Orderly, ReadingSound, StagingSound, PlacingSound

LEMMA DirNextInv ==
  ASSUME DirInv, [FNext]_fvars
  PROVE  DirInv'
<1>1. SUFFICES ASSUME ~jammed' PROVE Orderly'
  BY DEF DirInv
<1>2. ~jammed
  BY <1>1 DEF FNext, fvars, ReadDir, Quarantine, Supersede, SetAside, BeginStaging, Stage,
     BeginPlacing, Place, Load, Crash, Save, DeleteFile
<1>3. Orderly
  BY <1>2 DEF DirInv
<1>4. CASE Crash
  <2>1. boot'.phase = "down" /\ UNCHANGED <<fs, newest, saves>>
    BY <1>4 DEF Crash, Down
  <2> QED
    BY <1>3, <2>1 DEF Orderly, ReadingSound, StagingSound, PlacingSound, UpSound
<1>5. CASE UNCHANGED fvars
  BY <1>3, <1>5 DEF fvars, Orderly, ReadingSound, StagingSound, PlacingSound, UpSound
<1> QED
  BY <1>1, <1>3, <1>4, <1>5, ReadDirInv, SetAsideInv, BeginStagingInv, StageInv,
     BeginPlacingInv, PlaceInv, LoadInv, SaveInv, DeleteFileInv DEF FNext

(* A step of a load takes no file away but to set it aside. *)
LEMMA NoneReplaced ==
  ASSUME FNext, boot.phase # "up"
  PROVE  Range(fs) \cup aside \subseteq Range(fs') \cup aside'
<1>1. ASSUME NEW p, NEW to, Free(to), fs' = Renamed(p, to), aside' = aside
      PROVE  Range(fs) \cup aside \subseteq Range(fs') \cup aside'
  BY <1>1 DEF Range, Renamed, Free
<1>2. ASSUME fs' = fs, aside' = aside
      PROVE  Range(fs) \cup aside \subseteq Range(fs') \cup aside'
  BY <1>2
<1>3. CASE Quarantine \/ Supersede
  <2>1. PICK p : SetAside(p)
    BY <1>3 DEF Quarantine, Supersede
  <2> QED
    BY <2>1 DEF SetAside, Removed, Range
<1>4. CASE Stage
  BY <1>1, <1>2, <1>4 DEF Stage
<1>5. CASE Place
  BY <1>1, <1>2, <1>5 DEF Place
<1>6. CASE ReadDir \/ BeginStaging \/ BeginPlacing \/ Load \/ Crash
  BY <1>2, <1>6 DEF ReadDir, BeginStaging, BeginPlacing, Load, Crash
<1> QED
  BY <1>3, <1>4, <1>5, <1>6 DEF FNext, Save, DeleteFile

(* Every collector's newest file is there. *)
LEMMA NewestHeld ==
  ASSUME NEW f, NEW new, NEW bound \in Nat, FilesSound(f, bound), NewestThere(f, new)
  PROVE  \A k \in DOMAIN new : Range(f) \cap new[k] # {}
<1>1. TAKE k \in DOMAIN new
<1>2. CopiesIn(f, k) # {}
  BY DEF NewestThere, Winners
<1>3. PICK p : Latest(f, k, p)
  BY <1>2, LatestExists
<1>4. f[p] \in new[k] /\ p \in DOMAIN f
  BY <1>3 DEF NewestThere, Latest, CopiesIn
<1> QED
  BY <1>4 DEF Range

(* A refused rename leaves every file somewhere. *)
LEMMA RefusedFacts ==
  ASSUME FNext, ~jammed, jammed'
  PROVE  newest' = newest /\ Range(fs) \subseteq Range(fs')
<1>1. ASSUME NEW p, NEW to, Free(to), fs' = Renamed(p, to) PROVE Range(fs) \subseteq Range(fs')
  BY <1>1 DEF Range, Renamed, Free
<1>2. CASE Quarantine \/ Supersede
  BY <1>2 DEF Quarantine, Supersede, SetAside
<1>3. CASE Stage
  BY <1>1, <1>3 DEF Stage
<1>4. CASE Place
  BY <1>1, <1>4 DEF Place
<1> QED
  BY <1>2, <1>3, <1>4 DEF FNext, ReadDir, BeginStaging, BeginPlacing, Load, Crash, Save, DeleteFile

(* As long as the disk refuses no rename, a boot that completes has the    *)
(* newest file of every collector and of no other, whatever it found and   *)
(* however often earlier boots were killed; and a boot destroys no file    *)
(* even where renames fail, for any directory and any number of boots      *)
(* (collector/persist.rs, load_all).                                       *)
THEOREM DirectoryIsKept == FSpec => DirectoryKept
<1>1. FInit => DirInv
  BY DirInitInv
<1>2. DirInv /\ [FNext]_fvars => DirInv'
  BY DirNextInv
<1>3. DirInv => LoadsTheNewest
  <2> SUFFICES ASSUME DirInv, boot.phase = "up", ~jammed
               PROVE  /\ DOMAIN loaded = DOMAIN newest
                      /\ \A k \in DOMAIN newest : loaded[k] \in newest[k]
    BY DEF LoadsTheNewest
  <2> QED
    BY DEF DirInv, Orderly, UpSound, InPlace
<1>4. DirInv /\ DirInv' /\ [FNext]_fvars =>
        [/\ boot.phase # "up" => Range(fs) \cup aside \subseteq Range(fs') \cup aside'
         /\ ~jammed => \A k \in DOMAIN newest' : Range(fs') \cap newest'[k] # {}]_fvars
  <2> SUFFICES ASSUME DirInv, DirInv', FNext
               PROVE  /\ boot.phase # "up" => Range(fs) \cup aside \subseteq Range(fs') \cup aside'
                      /\ ~jammed => \A k \in DOMAIN newest' : Range(fs') \cap newest'[k] # {}
    OBVIOUS
  <2>1. boot.phase # "up" => Range(fs) \cup aside \subseteq Range(fs') \cup aside'
    BY NoneReplaced
  <2>2. ASSUME ~jammed PROVE \A k \in DOMAIN newest' : Range(fs') \cap newest'[k] # {}
    <3>1. CASE jammed'
      <4>1. Orderly /\ FirstSave + saves \in Nat
        BY <2>2, FoundAssumption DEF DirInv, Orderly
      <4>2. \A k \in DOMAIN newest : Range(fs) \cap newest[k] # {}
        BY <4>1, NewestHeld DEF Orderly
      <4> QED
        BY <2>2, <3>1, <4>2, RefusedFacts
    <3>2. CASE ~jammed'
      <4>1. Orderly' /\ (FirstSave + saves)' \in Nat
        BY <3>2, FoundAssumption DEF DirInv, Orderly
      <4> QED
        BY <4>1, NewestHeld DEF Orderly
    <3> QED
      BY <3>1, <3>2
  <2> QED
    BY <2>1, <2>2
<1> QED
  BY <1>1, <1>2, <1>3, <1>4, PTL DEF FSpec, DirectoryKept, NothingDestroyed
=============================================================================
