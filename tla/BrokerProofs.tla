----------------------------- MODULE BrokerProofs -----------------------------
(* Broker, for any number of processes over one directory, any block size  *)
(* and any sequence of boots, stops, kills and lost files.                 *)
EXTENDS Broker, TLAPS

(* Functions on part of S. *)
Partial(S, T) == UNION {[X -> T] : X \in SUBSET S}

StateFile == [block : Int, marks : Partial(Names, Nat)]

(* A process by what it has in memory: nothing yet, or a loaded state. *)
LoadedPcs == {"reserve", "reserved", "bind", "bound", "serving", "save", "rename",
              "cleanup"}
Early == [pc : {"sweep", "load"}, run : Nat]
Late == [pc : LoadedPcs, run : Nat, from : Nat, counter : Nat, reserved : Nat,
         marks : Partial(Names, Nat), colls : Partial(Colls, Names)]
Process == {Off} \cup Early \cup Late

BrokerTypeOK ==
  /\ disk \in StateFile
  /\ temp \in StateFile
  /\ files \in Partial(Colls, Names)
  /\ pid \in Nat
  /\ gelf \in Procs \cup {"none"}
  /\ proc \in [Procs -> Process]
  /\ boots \in Nat
  /\ losses \in Nat
  /\ issued \subseteq Nat
  /\ excused \in BOOLEAN

HasState(p) == proc[p].pc \in LoadedPcs

(* A loaded process: its block starts where the file's ended, its counter  *)
(* within or past it; no bookmark is ahead, no collector without an owner. *)
Sane(p) ==
  HasState(p) =>
    /\ proc[p].reserved = proc[p].from + SeqBlockSize
    /\ proc[p].from <= proc[p].counter
    /\ proc[p].pc \in {"reserve", "reserved", "bind", "bound"} =>
         proc[p].counter = proc[p].from
    /\ \A n \in DOMAIN proc[p].marks : proc[p].marks[n] <= proc[p].counter
    /\ proc[p].pc = "serving" =>
         \A k \in DOMAIN proc[p].colls : proc[p].colls[k] \in DOMAIN proc[p].marks

(* The file covers what p was told it may number, and what p numbered past *)
(* that is in the file p is writing.                                       *)
CoveredBy(p) ==
  /\ HasState(p) => \A i \in issued : i <= proc[p].from
  /\ proc[p].pc = "reserved" => temp.block = proc[p].reserved
  /\ proc[p].pc \in {"bind", "bound", "serving", "save", "rename", "cleanup"} =>
       disk.block >= proc[p].reserved
  /\ proc[p].pc = "rename" =>
       temp.block >= proc[p].reserved /\ temp.block >= proc[p].counter
  /\ proc[p].pc = "cleanup" => disk.block >= proc[p].counter

(* Unless excused, one process at a time, and state.json above every       *)
(* number handed out by those before it.                                   *)
Covered ==
  ~excused =>
    /\ \A p, q \in Procs : Running(p) /\ Running(q) => p = q
    /\ \A i \in issued : Readable(disk) /\ i <= disk.block
    /\ \A p \in Procs : CoveredBy(p)

BrokerInv ==
  /\ BrokerTypeOK
  /\ Behind(disk) /\ Behind(temp)
  /\ \A p \in Procs : Sane(p)
  /\ Covered
-----------------------------------------------------------------------------
LEMMA PartialIntro ==
  ASSUME NEW S, NEW T, NEW f, DOMAIN f \subseteq S, f \in [DOMAIN f -> T]
  PROVE  f \in Partial(S, T)
BY DEF Partial

LEMMA PartialElim ==
  ASSUME NEW S, NEW T, NEW f \in Partial(S, T)
  PROVE  /\ DOMAIN f \subseteq S /\ f \in [DOMAIN f -> T]
         /\ \A x \in DOMAIN f : f[x] \in T
BY DEF Partial

LEMMA NothingPartial ==
  ASSUME NEW S, NEW T
  PROVE  Nothing \in Partial(S, T) /\ DOMAIN Nothing = {}
<1>1. DOMAIN Nothing = {} /\ Nothing \in [DOMAIN Nothing -> T]
  BY DEF Nothing
<1> QED
  BY <1>1, PartialIntro

LEMMA SetPartial ==
  ASSUME NEW S, NEW T, NEW f \in Partial(S, T), NEW x \in S, NEW v \in T
  PROVE  /\ Set(f, x, v) \in Partial(S, T) /\ DOMAIN Set(f, x, v) = DOMAIN f \cup {x}
         /\ Set(f, x, v)[x] = v
         /\ \A y \in DOMAIN f \ {x} : Set(f, x, v)[y] = f[y]
<1>1. DOMAIN f \subseteq S /\ f \in [DOMAIN f -> T]
  BY PartialElim
<1>2. /\ DOMAIN Set(f, x, v) = DOMAIN f \cup {x} /\ Set(f, x, v)[x] = v
      /\ \A y \in DOMAIN f \ {x} : Set(f, x, v)[y] = f[y]
      /\ Set(f, x, v) \in [DOMAIN Set(f, x, v) -> T]
  BY <1>1 DEF Set
<1> QED
  BY <1>1, <1>2, PartialIntro

LEMMA ThinPartial ==
  ASSUME NEW S, NEW T, NEW f \in Partial(S, T), NEW gone
  PROVE  /\ [y \in DOMAIN f \ gone |-> f[y]] \in Partial(S, T)
<1> DEFINE g == [y \in DOMAIN f \ gone |-> f[y]]
<1>1. DOMAIN f \subseteq S /\ f \in [DOMAIN f -> T]
  BY PartialElim
<1>2. DOMAIN g \subseteq S /\ g \in [DOMAIN g -> T]
  BY <1>1
<1> QED
  BY <1>2, PartialIntro

LEMMA RestoredPartial ==
  ASSUME BrokerTypeOK, NEW m \in Partial(Names, Nat)
  PROVE  /\ Restored(m) \in Partial(Names, Nat)
         /\ \A n \in DOMAIN Restored(m) :
              Restored(m)[n] = 0 \/ (n \in DOMAIN m /\ Restored(m)[n] = m[n])
         /\ \A k \in DOMAIN files : files[k] \in DOMAIN Restored(m)
<1>1. /\ DOMAIN m \subseteq Names /\ m \in [DOMAIN m -> Nat]
      /\ \A k \in DOMAIN files : files[k] \in Names
  BY PartialElim DEF BrokerTypeOK
<1>2. /\ DOMAIN Restored(m) = DOMAIN m \cup {files[k] : k \in DOMAIN files}
      /\ Restored(m) \in [DOMAIN Restored(m) -> Nat]
      /\ \A n \in DOMAIN Restored(m) :
           Restored(m)[n] = 0 \/ (n \in DOMAIN m /\ Restored(m)[n] = m[n])
  BY <1>1 DEF Restored
<1> QED
  BY <1>1, <1>2, PartialIntro

(* A process's fields, by where it is. *)
LEMMA ProcessFields ==
  ASSUME BrokerTypeOK, NEW p \in Procs
  PROVE  /\ Running(p) <=> proc[p].pc # "off"
         /\ proc[p].pc \in {"off", "sweep", "load"} \cup LoadedPcs
         /\ proc[p].pc \in {"sweep", "load"} => proc[p] \in Early
         /\ HasState(p) => proc[p] \in Late
         /\ HasState(p) <=> "marks" \in DOMAIN proc[p]
         /\ Counting(p) => HasState(p)
<1>1. proc[p] \in Process
  BY DEF BrokerTypeOK
<1>2. CASE proc[p] = Off
  BY <1>2 DEF Off, LoadedPcs, Running, HasState, Counting
<1>3. CASE proc[p] \in Early
  BY <1>3 DEF Off, Early, LoadedPcs, Running, HasState, Counting
<1>4. CASE proc[p] \in Late
  BY <1>4 DEF Off, Late, LoadedPcs, Running, HasState, Counting
<1> QED
  BY <1>1, <1>2, <1>3, <1>4 DEF Process

LEMMA LateFields ==
  ASSUME NEW v \in Late
  PROVE  /\ v.pc \in LoadedPcs /\ v.run \in Nat /\ v.from \in Nat /\ v.counter \in Nat
         /\ v.reserved \in Nat /\ v.marks \in Partial(Names, Nat)
         /\ v.colls \in Partial(Colls, Names)
         /\ \A n \in DOMAIN v.marks : v.marks[n] \in Nat
BY PartialElim DEF Late

(* The files behind which nothing is. *)
LEMMA NoFileTyped ==
  /\ NoFile \in StateFile /\ Behind(NoFile) /\ ~Readable(NoFile)
  /\ Lost \in StateFile /\ Behind(Lost) /\ ~Readable(Lost)
  /\ Empty \in StateFile /\ Behind(Empty) /\ Empty.block = 0
BY NothingPartial DEF NoFile, Lost, Empty, StateFile, Behind, Readable

LEMMA InitBroker == BrokerInit => BrokerInv
<1> SUFFICES ASSUME BrokerInit PROVE BrokerInv
  OBVIOUS
<1>1. BrokerTypeOK
  BY NothingPartial, NoFileTyped DEF BrokerInit, BrokerTypeOK, Process
<1>2. \A p \in Procs : proc[p] = Off /\ ~HasState(p) /\ proc[p].pc = "off"
  BY DEF BrokerInit, HasState, LoadedPcs, Off
<1> QED
  BY <1>1, <1>2, NoFileTyped DEF BrokerInit, BrokerInv, Sane, Covered, CoveredBy, Running

(* A step of one process, as the others see it. *)
LEMMA SaneStep ==
  ASSUME BrokerInv, NEW p \in Procs, Sane(p)',
         \A q \in Procs \ {p} : proc'[q] = proc[q]
  PROVE  \A q \in Procs : Sane(q)'
BY DEF BrokerInv, Sane, HasState

LEMMA CoveredStep ==
  ASSUME BrokerInv, NEW p \in Procs, Running(p),
         \A q \in Procs \ {p} : proc'[q] = proc[q],
         excused => excused',
         ~excused' =>
           /\ \A i \in issued' : Readable(disk') /\ i <= disk'.block
           /\ CoveredBy(p)'
  PROVE  Covered'
<1> SUFFICES ASSUME ~excused'
             PROVE  /\ \A q, r \in Procs : Running(q)' /\ Running(r)' => q = r
                    /\ \A i \in issued' : (Readable(disk) /\ i <= disk.block)'
                    /\ \A q \in Procs : CoveredBy(q)'
  BY DEF Covered
<1>1. \A q \in Procs \ {p} : proc'[q] = Off
  BY DEF BrokerInv, Covered, Running
<1>2. ASSUME NEW q \in Procs \ {p}
      PROVE  CoveredBy(q)'
  BY <1>1 DEF CoveredBy, HasState, LoadedPcs, Off
<1>3. \A i \in issued' : (Readable(disk) /\ i <= disk.block)'
  BY DEF Readable
<1> QED
  BY <1>1, <1>2, <1>3 DEF Running

LEMMA ProcPut ==
  ASSUME BrokerTypeOK, NEW p \in Procs, NEW v \in Process, proc' = [proc EXCEPT ![p] = v]
  PROVE  /\ proc' \in [Procs -> Process] /\ proc'[p] = v
         /\ \A q \in Procs \ {p} : proc'[q] = proc[q]
BY DEF BrokerTypeOK

LEMMA GotoFields ==
  ASSUME BrokerTypeOK, NEW p \in Procs, HasState(p), NEW pc \in LoadedPcs, Goto(p, pc)
  PROVE  /\ proc' \in [Procs -> Process] /\ proc'[p] \in Late /\ proc'[p].pc = pc
         /\ proc'[p].from = proc[p].from /\ proc'[p].counter = proc[p].counter
         /\ proc'[p].reserved = proc[p].reserved
         /\ proc'[p].marks = proc[p].marks /\ proc'[p].colls = proc[p].colls
         /\ \A q \in Procs \ {p} : proc'[q] = proc[q]
<1> DEFINE v == [proc[p] EXCEPT !.pc = pc]
<1>1. proc[p] \in Late
  BY ProcessFields
<1>2. /\ v \in Late /\ v.pc = pc /\ v.from = proc[p].from /\ v.counter = proc[p].counter
      /\ v.reserved = proc[p].reserved /\ v.marks = proc[p].marks /\ v.colls = proc[p].colls
  BY <1>1 DEF Late
<1>3. proc' = [proc EXCEPT ![p] = v] /\ v \in Process
  BY <1>2 DEF Goto, Process
<1> QED
  BY <1>2, <1>3, ProcPut

LEMMA StartInv ==
  ASSUME BrokerInv, NEW p \in Procs, Start(p)
  PROVE  BrokerInv'
<1>1. [pc |-> "sweep", run |-> boots + 1] \in Process
  BY DEF BrokerInv, BrokerTypeOK, Process, Early
<1>2. /\ proc' \in [Procs -> Process] /\ proc'[p].pc = "sweep"
      /\ \A q \in Procs \ {p} : proc'[q] = proc[q]
  BY <1>1, ProcPut DEF BrokerInv, Start
<1>3. BrokerTypeOK'
  BY <1>2 DEF Start, BrokerInv, BrokerTypeOK
<1>4. Sane(p)'
  BY <1>2 DEF Sane, HasState, LoadedPcs
<1>5. Covered'
  <2> SUFFICES ASSUME ~excused' PROVE Covered'
    BY DEF Covered
  <2>1. /\ ~excused /\ \A q \in Procs : proc[q] = Off
    BY DEF Start, Running
  <2>2. \A q \in Procs \ {p} : proc'[q] = Off
    BY <1>2, <2>1
  <2>3. ASSUME NEW q \in Procs
        PROVE  CoveredBy(q)'
    BY <1>2, <2>2 DEF CoveredBy, HasState, LoadedPcs, Off
  <2>4. \A q, r \in Procs : Running(q)' /\ Running(r)' => q = r
    BY <2>2 DEF Running
  <2>5. \A i \in issued' : (Readable(disk) /\ i <= disk.block)'
    BY <2>1 DEF BrokerInv, Covered, Start, Readable
  <2> QED
    BY <2>3, <2>4, <2>5 DEF Covered
<1> QED
  BY <1>2, <1>3, <1>4, <1>5, SaneStep DEF BrokerInv, Start, Behind

LEMMA SweepInv ==
  ASSUME BrokerInv, NEW p \in Procs, Sweep(p)
  PROVE  BrokerInv'
<1>1. proc[p] \in Early /\ Running(p)
  BY ProcessFields DEF BrokerInv, Sweep
<1>2. [proc[p] EXCEPT !.pc = "load"] \in Early
  BY <1>1 DEF Early
<1>3. [proc[p] EXCEPT !.pc = "load"] \in Process /\ [proc[p] EXCEPT !.pc = "load"].pc = "load"
  BY <1>1, <1>2 DEF Process, Early
<1>4. /\ proc' \in [Procs -> Process] /\ proc'[p].pc = "load"
      /\ \A q \in Procs \ {p} : proc'[q] = proc[q]
  BY <1>3, ProcPut DEF BrokerInv, Sweep, Goto
<1>5. BrokerTypeOK'
  BY <1>4, NoFileTyped DEF Sweep, BrokerInv, BrokerTypeOK
<1>6. Sane(p)'
  BY <1>4 DEF Sane, HasState, LoadedPcs
<1>7. CoveredBy(p)'
  BY <1>4 DEF CoveredBy, HasState, LoadedPcs
<1>8. ~excused' => \A i \in issued' : Readable(disk') /\ i <= disk'.block
  BY DEF Sweep, BrokerInv, Covered
<1>9. Covered'
  BY <1>1, <1>4, <1>7, <1>8, CoveredStep DEF Sweep
<1>10. Behind(disk)' /\ Behind(temp)'
  BY NoFileTyped DEF Sweep, BrokerInv, Behind
<1> QED
  BY <1>4, <1>5, <1>6, <1>9, <1>10, SaneStep DEF BrokerInv

LEMMA LoadInv ==
  ASSUME BrokerInv, NEW p \in Procs, Load(p)
  PROVE  BrokerInv'
<1> DEFINE v == [pc |-> "reserve", run |-> proc[p].run,
                 from |-> Loaded.block, counter |-> Loaded.block,
                 reserved |-> Reserved(Loaded.block), marks |-> Loaded.marks,
                 colls |-> Nothing]
<1>1. proc[p] \in Early /\ Running(p) /\ proc[p].run \in Nat
  BY ProcessFields DEF BrokerInv, Load, Early
<1>2. /\ Loaded.block \in Nat /\ Loaded.marks \in Partial(Names, Nat)
      /\ \A n \in DOMAIN Loaded.marks : Loaded.marks[n] <= Loaded.block
  BY NoFileTyped DEF Loaded, Readable, BrokerInv, BrokerTypeOK, StateFile, Behind
<1>3. Reserved(Loaded.block) = Loaded.block + SeqBlockSize /\ Reserved(Loaded.block) \in Nat
  BY <1>2, BlockAssumption DEF Reserved
<1>4. v \in Late
  BY <1>1, <1>2, <1>3, NothingPartial DEF Late, LoadedPcs
<1>5. /\ proc' \in [Procs -> Process] /\ proc'[p] = v
      /\ \A q \in Procs \ {p} : proc'[q] = proc[q]
  <2>1. proc' = [proc EXCEPT ![p] = v] /\ v \in Process
    BY <1>4 DEF Load, Process
  <2> HIDE DEF v
  <2> QED
    BY <2>1, ProcPut DEF BrokerInv
<1>6. /\ proc'[p].pc = "reserve" /\ proc'[p].from = Loaded.block
      /\ proc'[p].counter = Loaded.block /\ proc'[p].marks = Loaded.marks
      /\ proc'[p].reserved = Loaded.block + SeqBlockSize
  BY <1>3, <1>5
<1> HIDE DEF v
<1>7. Sane(p)'
  BY <1>2, <1>6 DEF Sane
<1>8. disk' \in StateFile /\ Behind(disk)' /\ Behind(temp)'
  BY NoFileTyped DEF Load, BrokerInv, BrokerTypeOK, Behind
<1>9. BrokerTypeOK'
  BY <1>5, <1>8 DEF Load, BrokerInv, BrokerTypeOK
<1>10. ASSUME ~excused'
       PROVE  /\ \A i \in issued' : Readable(disk') /\ i <= disk'.block
              /\ CoveredBy(p)'
  <2>1. issued' = issued /\ \A i \in issued : Readable(disk) /\ i <= disk.block
    BY <1>10 DEF Load, BrokerInv, Covered
  <2>2. \A i \in issued : i <= Loaded.block
    BY <2>1 DEF Loaded
  <2>3. CoveredBy(p)'
    BY <1>6, <2>1, <2>2 DEF CoveredBy
  <2> QED
    BY <2>1, <2>3 DEF Load
<1>11. Covered'
  BY <1>1, <1>5, <1>10, CoveredStep DEF Load
<1> QED
  BY <1>5, <1>7, <1>8, <1>9, <1>11, SaneStep DEF BrokerInv

(* A process that is gone says nothing about the files. *)
LEMMA OffFields ==
  ASSUME BrokerInv, NEW p \in Procs, proc' = [proc EXCEPT ![p] = Off]
  PROVE  /\ proc' \in [Procs -> Process] /\ Sane(p)' /\ CoveredBy(p)'
         /\ \A q \in Procs \ {p} : proc'[q] = proc[q]
<1>1. Off \in Process
  BY DEF Process
<1>2. /\ proc' \in [Procs -> Process] /\ proc'[p] = Off
      /\ \A q \in Procs \ {p} : proc'[q] = proc[q]
  BY <1>1, ProcPut DEF BrokerInv
<1> QED
  BY <1>2 DEF Sane, CoveredBy, HasState, LoadedPcs, Off

(* The state a process writes: no bookmark past the block. *)
LEMMA WrittenState ==
  ASSUME BrokerInv, NEW p \in Procs, HasState(p),
         NEW block \in Nat, block >= proc[p].counter
  PROVE  /\ [block |-> block, marks |-> proc[p].marks] \in StateFile
         /\ Behind([block |-> block, marks |-> proc[p].marks])
<1>1. /\ proc[p] \in Late /\ proc[p].marks \in Partial(Names, Nat)
      /\ proc[p].counter \in Nat
      /\ \A n \in DOMAIN proc[p].marks :
           proc[p].marks[n] \in Nat /\ proc[p].marks[n] <= proc[p].counter
  BY ProcessFields, LateFields DEF BrokerInv, Sane
<1> QED
  BY <1>1 DEF StateFile, Behind

LEMMA ReserveTempInv ==
  ASSUME BrokerInv, NEW p \in Procs, ReserveTemp(p)
  PROVE  BrokerInv'
<1> DEFINE f == [block |-> proc[p].reserved, marks |-> proc[p].marks]
<1>1. HasState(p) /\ Running(p) /\ proc[p] \in Late /\ proc[p].pc = "reserve"
  BY ProcessFields DEF BrokerInv, ReserveTemp, HasState, LoadedPcs
<1>2. /\ temp' = f /\ Goto(p, "reserved")
      /\ UNCHANGED <<disk, files, pid, gelf, boots, losses, issued, excused>>
  BY DEF ReserveTemp, WriteTemp
<1>3. /\ proc' \in [Procs -> Process] /\ proc'[p] \in Late /\ proc'[p].pc = "reserved"
      /\ proc'[p].from = proc[p].from /\ proc'[p].counter = proc[p].counter
      /\ proc'[p].reserved = proc[p].reserved
      /\ proc'[p].marks = proc[p].marks /\ proc'[p].colls = proc[p].colls
      /\ \A q \in Procs \ {p} : proc'[q] = proc[q]
  BY <1>1, <1>2, GotoFields DEF BrokerInv, LoadedPcs
<1>4. /\ proc[p].reserved \in Nat /\ proc[p].reserved >= proc[p].counter
  BY <1>1, LateFields, BlockAssumption DEF BrokerInv, Sane
<1>5. f \in StateFile /\ Behind(f) /\ f.block = proc[p].reserved
  BY <1>1, <1>4, WrittenState
<1>6. BrokerTypeOK' /\ Behind(disk)' /\ Behind(temp)'
  BY <1>2, <1>3, <1>5 DEF BrokerInv, BrokerTypeOK, Behind
<1>7. Sane(p)'
  BY <1>1, <1>3 DEF BrokerInv, Sane, HasState, LoadedPcs
<1>8. ASSUME ~excused'
      PROVE  (\A i \in issued' : Readable(disk') /\ i <= disk'.block) /\ CoveredBy(p)'
  BY <1>1, <1>2, <1>3, <1>5, <1>8 DEF BrokerInv, Covered, CoveredBy, HasState
<1>9. Covered'
  BY <1>1, <1>2, <1>3, <1>8, CoveredStep
<1> QED
  BY <1>3, <1>6, <1>7, <1>9, SaneStep DEF BrokerInv

LEMMA ReserveRenameInv ==
  ASSUME BrokerInv, NEW p \in Procs, ReserveRename(p)
  PROVE  BrokerInv'
<1>1. /\ HasState(p) /\ Running(p) /\ proc[p] \in Late /\ proc[p].pc = "reserved"
      /\ UNCHANGED <<files, pid, gelf, boots, losses, issued, excused>>
  BY ProcessFields DEF BrokerInv, ReserveRename, HasState, LoadedPcs
<1>2. CASE temp = NoFile
  <2>1. proc' = [proc EXCEPT ![p] = Off] /\ UNCHANGED <<disk, temp>>
    BY <1>2 DEF ReserveRename
  <2>2. BrokerTypeOK' /\ Behind(disk)' /\ Behind(temp)'
    BY <1>1, <2>1, OffFields DEF BrokerInv, BrokerTypeOK, Behind
  <2>3. ~excused' => \A i \in issued' : Readable(disk') /\ i <= disk'.block
    BY <1>1, <2>1 DEF BrokerInv, Covered
  <2>4. Covered'
    BY <1>1, <2>1, <2>3, OffFields, CoveredStep
  <2> QED
    BY <2>1, <2>2, <2>4, OffFields, SaneStep DEF BrokerInv
<1>3. CASE temp # NoFile
  <2>1. disk' = temp /\ temp' = NoFile /\ Goto(p, "bind")
    BY <1>3 DEF ReserveRename
  <2>2. /\ proc' \in [Procs -> Process] /\ proc'[p] \in Late /\ proc'[p].pc = "bind"
        /\ proc'[p].from = proc[p].from /\ proc'[p].counter = proc[p].counter
        /\ proc'[p].reserved = proc[p].reserved
        /\ proc'[p].marks = proc[p].marks /\ proc'[p].colls = proc[p].colls
        /\ \A q \in Procs \ {p} : proc'[q] = proc[q]
    BY <1>1, <2>1, GotoFields DEF BrokerInv, LoadedPcs
  <2>3. BrokerTypeOK' /\ Behind(disk)' /\ Behind(temp)'
    BY <1>1, <2>1, <2>2, NoFileTyped DEF BrokerInv, BrokerTypeOK, Behind
  <2>4. Sane(p)'
    BY <1>1, <2>2 DEF BrokerInv, Sane, HasState, LoadedPcs
  <2>5. ASSUME ~excused'
        PROVE  (\A i \in issued' : Readable(disk') /\ i <= disk'.block) /\ CoveredBy(p)'
    <3>1. /\ \A i \in issued : i \in Nat /\ i <= proc[p].from
          /\ temp.block = proc[p].reserved
      BY <1>1, <2>5 DEF BrokerInv, BrokerTypeOK, Covered, CoveredBy
    <3>2. /\ proc[p].from \in Nat /\ proc[p].reserved \in Nat
          /\ proc[p].from <= proc[p].reserved
      BY <1>1, LateFields, BlockAssumption DEF BrokerInv, Sane
    <3>3. Readable(disk') /\ \A i \in issued' : i <= disk'.block
      BY <1>1, <2>1, <3>1, <3>2 DEF Readable
    <3>4. disk'.block >= proc'[p].reserved
      BY <2>1, <2>2, <3>1, <3>2
    <3> QED
      BY <1>1, <2>2, <3>1, <3>3, <3>4 DEF CoveredBy
  <2>6. Covered'
    BY <1>1, <2>2, <2>5, CoveredStep
  <2> QED
    BY <2>2, <2>3, <2>4, <2>6, SaneStep DEF BrokerInv
<1> QED
  BY <1>2, <1>3

(* A process goes on with its memory and the files as they were. *)
LEMMA MoveInv ==
  ASSUME BrokerInv, NEW p \in Procs, HasState(p), NEW pc \in LoadedPcs, Goto(p, pc),
         UNCHANGED <<disk, temp, files, boots, losses, issued, excused>>,
         pid' \in Nat, gelf' \in Procs \cup {"none"},
         \/ proc[p].pc = "bind" /\ pc = "bound"
         \/ proc[p].pc = "serving" /\ pc = "save"
  PROVE  BrokerInv'
<1>1. Running(p) /\ proc[p] \in Late
  BY ProcessFields DEF BrokerInv, HasState, LoadedPcs
<1>2. /\ proc' \in [Procs -> Process] /\ proc'[p] \in Late /\ proc'[p].pc = pc
      /\ proc'[p].from = proc[p].from /\ proc'[p].counter = proc[p].counter
      /\ proc'[p].reserved = proc[p].reserved
      /\ proc'[p].marks = proc[p].marks /\ proc'[p].colls = proc[p].colls
      /\ \A q \in Procs \ {p} : proc'[q] = proc[q]
  BY GotoFields DEF BrokerInv
<1>3. BrokerTypeOK' /\ Behind(disk)' /\ Behind(temp)'
  BY <1>2 DEF BrokerInv, BrokerTypeOK, Behind
<1>4. Sane(p)'
  BY <1>2 DEF BrokerInv, Sane, HasState, LoadedPcs
<1>5. ASSUME ~excused'
      PROVE  (\A i \in issued' : Readable(disk') /\ i <= disk'.block) /\ CoveredBy(p)'
  BY <1>2, <1>5 DEF BrokerInv, Covered, CoveredBy, HasState
<1>6. Covered'
  BY <1>1, <1>2, <1>5, CoveredStep
<1> QED
  BY <1>2, <1>3, <1>4, <1>6, SaneStep DEF BrokerInv

LEMMA BindGelfInv ==
  ASSUME BrokerInv, NEW p \in Procs, BindGelf(p)
  PROVE  BrokerInv'
<1>1. HasState(p) /\ Running(p) /\ proc[p].pc = "bind"
  BY ProcessFields DEF BrokerInv, BindGelf, HasState, LoadedPcs
<1>2. CASE gelf = "none"
  BY <1>1, <1>2, MoveInv DEF BindGelf, BrokerInv, BrokerTypeOK, LoadedPcs
<1>3. CASE gelf # "none"
  <2>1. /\ proc' = [proc EXCEPT ![p] = Off]
        /\ UNCHANGED <<disk, temp, files, pid, gelf, boots, losses, issued, excused>>
    BY <1>3 DEF BindGelf
  <2>2. BrokerTypeOK' /\ Behind(disk)' /\ Behind(temp)'
    BY <2>1, OffFields DEF BrokerInv, BrokerTypeOK, Behind
  <2>3. ~excused' => \A i \in issued' : Readable(disk') /\ i <= disk'.block
    BY <2>1 DEF BrokerInv, Covered
  <2>4. Covered'
    BY <1>1, <2>1, <2>3, OffFields, CoveredStep
  <2> QED
    BY <2>1, <2>2, <2>4, OffFields, SaneStep DEF BrokerInv
<1> QED
  BY <1>2, <1>3

LEMMA StopInv ==
  ASSUME BrokerInv, NEW p \in Procs, Stop(p)
  PROVE  BrokerInv'
BY MoveInv DEF Stop, BrokerInv, BrokerTypeOK, HasState, LoadedPcs

(* A serving process changes what it keeps, and maybe the collectors' files. *)
LEMMA ServingInv ==
  ASSUME BrokerInv, NEW p \in Procs, proc[p].pc \in {"bound", "serving"},
         NEW v \in Late, proc' = [proc EXCEPT ![p] = v], v.pc = "serving",
         v.from = proc[p].from, v.counter = proc[p].counter, v.reserved = proc[p].reserved,
         \A n \in DOMAIN v.marks : v.marks[n] <= v.counter,
         \A k \in DOMAIN v.colls : v.colls[k] \in DOMAIN v.marks,
         UNCHANGED <<disk, temp, gelf, boots, losses, issued, excused>>,
         pid' \in Nat, files' \in Partial(Colls, Names)
  PROVE  BrokerInv'
<1>1. HasState(p) /\ Running(p) /\ v \in Process
  BY ProcessFields DEF BrokerInv, HasState, LoadedPcs, Process
<1>2. /\ proc' \in [Procs -> Process] /\ proc'[p] = v
      /\ \A q \in Procs \ {p} : proc'[q] = proc[q]
  BY <1>1, ProcPut DEF BrokerInv
<1>3. BrokerTypeOK' /\ Behind(disk)' /\ Behind(temp)'
  BY <1>2 DEF BrokerInv, BrokerTypeOK, Behind
<1>4. Sane(p)'
  BY <1>1, <1>2 DEF BrokerInv, Sane
<1>5. ASSUME ~excused'
      PROVE  (\A i \in issued' : Readable(disk') /\ i <= disk'.block) /\ CoveredBy(p)'
  BY <1>1, <1>2, <1>5 DEF BrokerInv, Covered, CoveredBy, HasState
<1>6. Covered'
  BY <1>1, <1>2, <1>5, CoveredStep
<1> QED
  BY <1>2, <1>3, <1>4, <1>6, SaneStep DEF BrokerInv

LEMMA ServeInv ==
  ASSUME BrokerInv, NEW p \in Procs, Serve(p)
  PROVE  BrokerInv'
<1> DEFINE m == Restored(proc[p].marks)
           v == [proc[p] EXCEPT !.pc = "serving", !.colls = files, !.marks = m]
<1>1. HasState(p) /\ proc[p].pc = "bound" /\ proc[p] \in Late
  BY ProcessFields DEF BrokerInv, Serve, HasState, LoadedPcs
<1>2. /\ proc[p].marks \in Partial(Names, Nat) /\ proc[p].counter \in Nat
      /\ proc[p].run \in Nat
      /\ \A n \in DOMAIN proc[p].marks : proc[p].marks[n] <= proc[p].counter
  BY <1>1, LateFields DEF BrokerInv, Sane
<1>3. /\ m \in Partial(Names, Nat) /\ \A n \in DOMAIN m : m[n] <= proc[p].counter
      /\ \A k \in DOMAIN files : files[k] \in DOMAIN m
  BY <1>2, RestoredPartial DEF BrokerInv
<1>4. /\ proc' = [proc EXCEPT ![p] = v]
      /\ UNCHANGED <<disk, temp, files, gelf, boots, losses, issued, excused>>
      /\ pid' \in Nat /\ files \in Partial(Colls, Names)
  BY <1>2 DEF Serve, BrokerInv, BrokerTypeOK
<1> HIDE DEF m
<1>5. /\ v \in Late /\ v.pc = "serving" /\ v.from = proc[p].from
      /\ v.counter = proc[p].counter /\ v.reserved = proc[p].reserved
      /\ v.marks = m /\ v.colls = files
  BY <1>1, <1>3, <1>4 DEF Late, LoadedPcs
<1> HIDE DEF v
<1> QED
  BY <1>1, <1>3, <1>4, <1>5, ServingInv

LEMMA MarkInv ==
  ASSUME BrokerInv, NEW p \in Procs, NEW n \in Names, Mark(p, n)
  PROVE  BrokerInv'
<1> DEFINE m == Set(proc[p].marks, n, proc[p].counter)
           v == [proc[p] EXCEPT !.marks = m]
<1>1. HasState(p) /\ proc[p].pc = "serving" /\ proc[p] \in Late
  BY ProcessFields DEF BrokerInv, Mark, HasState, LoadedPcs
<1>2. /\ proc[p].marks \in Partial(Names, Nat) /\ proc[p].counter \in Nat
      /\ \A x \in DOMAIN proc[p].marks : proc[p].marks[x] <= proc[p].counter
      /\ \A k \in DOMAIN proc[p].colls : proc[p].colls[k] \in DOMAIN proc[p].marks
  BY <1>1, LateFields DEF BrokerInv, Sane
<1>3. /\ m \in Partial(Names, Nat) /\ DOMAIN m = DOMAIN proc[p].marks \cup {n}
      /\ \A x \in DOMAIN m : m[x] <= proc[p].counter
  <2>1. /\ m \in Partial(Names, Nat) /\ DOMAIN m = DOMAIN proc[p].marks \cup {n}
        /\ m[n] = proc[p].counter
        /\ \A y \in DOMAIN proc[p].marks \ {n} : m[y] = proc[p].marks[y]
    <3>1. proc[p].marks \in Partial(Names, Nat) /\ proc[p].counter \in Nat
      BY <1>2
    <3>2. ASSUME NEW f \in Partial(Names, Nat), NEW i \in Nat
          PROVE  /\ Set(f, n, i) \in Partial(Names, Nat)
                 /\ DOMAIN Set(f, n, i) = DOMAIN f \cup {n} /\ Set(f, n, i)[n] = i
                 /\ \A y \in DOMAIN f \ {n} : Set(f, n, i)[y] = f[y]
      BY SetPartial
    <3> QED
      BY <3>1, <3>2, Zenon
  <2> HIDE DEF m
  <2> QED
    BY <1>2, <2>1
<1>4. /\ proc' = [proc EXCEPT ![p] = v]
      /\ UNCHANGED <<disk, temp, files, pid, gelf, boots, losses, issued, excused>>
      /\ pid' \in Nat /\ files \in Partial(Colls, Names)
  BY DEF Mark, BrokerInv, BrokerTypeOK
<1> HIDE DEF m
<1>5. /\ v \in Late /\ v.pc = "serving" /\ v.from = proc[p].from
      /\ v.counter = proc[p].counter /\ v.reserved = proc[p].reserved
      /\ v.marks = m /\ v.colls = proc[p].colls
  BY <1>1, <1>3 DEF Late, LoadedPcs
<1> HIDE DEF v
<1> QED
  BY <1>1, <1>2, <1>3, <1>4, <1>5, ServingInv

LEMMA AddCollectorInv ==
  ASSUME BrokerInv, NEW p \in Procs, NEW k \in Colls, NEW n \in Names, AddCollector(p, k, n)
  PROVE  BrokerInv'
<1> DEFINE c == Set(proc[p].colls, k, n)
           v == [proc[p] EXCEPT !.colls = c]
<1>1. HasState(p) /\ proc[p].pc = "serving" /\ proc[p] \in Late
  BY ProcessFields DEF BrokerInv, AddCollector, HasState, LoadedPcs
<1>2. /\ proc[p].colls \in Partial(Colls, Names)
      /\ \A x \in DOMAIN proc[p].marks : proc[p].marks[x] <= proc[p].counter
      /\ \A x \in DOMAIN proc[p].colls : proc[p].colls[x] \in DOMAIN proc[p].marks
  BY <1>1, LateFields DEF BrokerInv, Sane
<1>3. /\ c \in Partial(Colls, Names)
      /\ \A x \in DOMAIN c : c[x] \in DOMAIN proc[p].marks
  <2>1. /\ c \in Partial(Colls, Names) /\ DOMAIN c = DOMAIN proc[p].colls \cup {k}
        /\ c[k] = n
        /\ \A y \in DOMAIN proc[p].colls \ {k} : c[y] = proc[p].colls[y]
    <3>1. proc[p].colls \in Partial(Colls, Names)
      BY <1>2
    <3>2. ASSUME NEW f \in Partial(Colls, Names), NEW i \in Names
          PROVE  /\ Set(f, k, i) \in Partial(Colls, Names)
                 /\ DOMAIN Set(f, k, i) = DOMAIN f \cup {k} /\ Set(f, k, i)[k] = i
                 /\ \A y \in DOMAIN f \ {k} : Set(f, k, i)[y] = f[y]
      BY SetPartial, SMTT(30)
    <3> QED
      BY <3>1, <3>2, Zenon
  <2>2. n \in DOMAIN proc[p].marks
    BY DEF AddCollector
  <2> HIDE DEF c
  <2> QED
    BY <1>2, <2>1, <2>2
<1>4. files' \in Partial(Colls, Names)
  BY SetPartial DEF AddCollector, BrokerInv, BrokerTypeOK
<1>5. /\ proc' = [proc EXCEPT ![p] = v]
      /\ UNCHANGED <<disk, temp, pid, gelf, boots, losses, issued, excused>>
      /\ pid' \in Nat
  BY DEF AddCollector, BrokerInv, BrokerTypeOK
<1> HIDE DEF c
<1>6. /\ v \in Late /\ v.pc = "serving" /\ v.from = proc[p].from
      /\ v.counter = proc[p].counter /\ v.reserved = proc[p].reserved
      /\ v.marks = proc[p].marks /\ v.colls = c
  BY <1>1, <1>3 DEF Late, LoadedPcs
<1> HIDE DEF v
<1> QED
  BY <1>1, <1>2, <1>3, <1>4, <1>5, <1>6, ServingInv

LEMMA DropSessionInv ==
  ASSUME BrokerInv, NEW p \in Procs, NEW n \in Names, DropSession(p, n)
  PROVE  BrokerInv'
<1> DEFINE gone == {k \in DOMAIN proc[p].colls : proc[p].colls[k] = n}
           m == Unset(proc[p].marks, n)
           c == [k \in DOMAIN proc[p].colls \ gone |-> proc[p].colls[k]]
           v == [proc[p] EXCEPT !.marks = m, !.colls = c]
<1>1. HasState(p) /\ proc[p].pc = "serving" /\ proc[p] \in Late
  BY ProcessFields DEF BrokerInv, DropSession, HasState, LoadedPcs
<1>2. /\ proc[p].marks \in Partial(Names, Nat) /\ proc[p].colls \in Partial(Colls, Names)
      /\ \A x \in DOMAIN proc[p].marks : proc[p].marks[x] <= proc[p].counter
      /\ \A x \in DOMAIN proc[p].colls : proc[p].colls[x] \in DOMAIN proc[p].marks
  BY <1>1, LateFields DEF BrokerInv, Sane
<1>3. /\ m \in Partial(Names, Nat) /\ c \in Partial(Colls, Names)
  BY <1>2, ThinPartial DEF Unset
<1>4. /\ \A x \in DOMAIN m : m[x] <= proc[p].counter
      /\ \A k \in DOMAIN c : c[k] \in DOMAIN m
  BY <1>2 DEF Unset
<1>5. files' \in Partial(Colls, Names)
  BY ThinPartial DEF DropSession, BrokerInv, BrokerTypeOK
<1>6. /\ proc' = [proc EXCEPT ![p] = v]
      /\ UNCHANGED <<disk, temp, pid, gelf, boots, losses, issued, excused>>
      /\ pid' \in Nat
  BY DEF DropSession, BrokerInv, BrokerTypeOK
<1> HIDE DEF m, c, gone
<1>7. /\ v \in Late /\ v.pc = "serving" /\ v.from = proc[p].from
      /\ v.counter = proc[p].counter /\ v.reserved = proc[p].reserved
      /\ v.marks = m /\ v.colls = c
  BY <1>1, <1>3 DEF Late, LoadedPcs
<1> HIDE DEF v
<1> QED
  BY <1>1, <1>2, <1>4, <1>5, <1>6, <1>7, ServingInv

(* A number past the reservation is covered by the file being written, or  *)
(* excused.                                                                *)
LEMMA NumberInv ==
  ASSUME BrokerInv, NEW p \in Procs, Number(p)
  PROVE  BrokerInv'
<1> DEFINE v == [proc[p] EXCEPT !.counter = proc[p].counter + 1]
<1>1. /\ HasState(p) /\ Running(p) /\ proc[p] \in Late
      /\ proc[p].pc \in {"serving", "save", "rename", "cleanup"}
  BY ProcessFields DEF BrokerInv, Number, Counting, HasState, LoadedPcs
<1>2. /\ proc[p].counter \in Nat /\ proc[p].reserved \in Nat
      /\ \A n \in DOMAIN proc[p].marks : proc[p].marks[n] \in Nat
  BY <1>1, LateFields
<1>3. /\ v \in Late /\ v.pc = proc[p].pc /\ v.from = proc[p].from
      /\ v.counter = proc[p].counter + 1 /\ v.reserved = proc[p].reserved
      /\ v.marks = proc[p].marks /\ v.colls = proc[p].colls
  BY <1>1, <1>2 DEF Late
<1>4. /\ proc' = [proc EXCEPT ![p] = v] /\ v \in Process
      /\ UNCHANGED <<disk, temp, files, pid, gelf, boots, losses, issued>>
      /\ excused' = (excused \/ /\ proc[p].pc # "serving"
                                /\ proc[p].counter >= proc[p].reserved)
  BY <1>3 DEF Number, Process
<1> HIDE DEF v
<1>5. /\ proc' \in [Procs -> Process] /\ proc'[p] = v
      /\ \A q \in Procs \ {p} : proc'[q] = proc[q]
  BY <1>4, ProcPut DEF BrokerInv
<1>6. excused' \in BOOLEAN
  BY <1>4 DEF BrokerInv, BrokerTypeOK
<1>7. BrokerTypeOK' /\ Behind(disk)' /\ Behind(temp)'
  BY <1>4, <1>5, <1>6 DEF BrokerInv, BrokerTypeOK, Behind
<1>8. Sane(p)'
  <2>1. Sane(p) /\ proc[p].from \in Nat
    BY <1>1, LateFields DEF BrokerInv
  <2> QED
    BY <1>1, <1>2, <1>3, <1>5, <2>1 DEF Sane
<1>9. ASSUME ~excused'
      PROVE  (\A i \in issued' : Readable(disk') /\ i <= disk'.block) /\ CoveredBy(p)'
  <2>0. ~excused /\ ~(proc[p].pc # "serving" /\ proc[p].counter >= proc[p].reserved)
    BY <1>4, <1>9, Zenon
  <2>1. /\ CoveredBy(p)
        /\ \A i \in issued : Readable(disk) /\ i <= disk.block
        /\ proc[p].pc = "serving" \/ proc[p].counter + 1 <= proc[p].reserved
    BY <1>2, <2>0 DEF BrokerInv, Covered
  <2>2. disk.block \in Int /\ temp.block \in Int
    BY DEF BrokerInv, BrokerTypeOK, StateFile
  <2> QED
    BY <1>1, <1>2, <1>3, <1>4, <1>5, <2>1, <2>2 DEF CoveredBy
<1>10. Covered'
  BY <1>1, <1>4, <1>5, <1>9, CoveredStep
<1> QED
  BY <1>5, <1>7, <1>8, <1>10, SaneStep DEF BrokerInv

LEMMA SaveTempInv ==
  ASSUME BrokerInv, NEW p \in Procs, SaveTemp(p)
  PROVE  BrokerInv'
<1> DEFINE f == [block |-> FinalBlock(p), marks |-> proc[p].marks]
<1>1. HasState(p) /\ Running(p) /\ proc[p] \in Late /\ proc[p].pc = "save"
  BY ProcessFields DEF BrokerInv, SaveTemp, HasState, LoadedPcs
<1>2. /\ temp' = f /\ Goto(p, "rename")
      /\ UNCHANGED <<disk, files, pid, gelf, boots, losses, issued, excused>>
  BY DEF SaveTemp, WriteTemp
<1>3. /\ proc' \in [Procs -> Process] /\ proc'[p] \in Late /\ proc'[p].pc = "rename"
      /\ proc'[p].from = proc[p].from /\ proc'[p].counter = proc[p].counter
      /\ proc'[p].reserved = proc[p].reserved
      /\ proc'[p].marks = proc[p].marks /\ proc'[p].colls = proc[p].colls
      /\ \A q \in Procs \ {p} : proc'[q] = proc[q]
  BY <1>1, <1>2, GotoFields DEF BrokerInv, LoadedPcs
<1>4. /\ FinalBlock(p) \in Nat /\ FinalBlock(p) >= proc[p].counter
      /\ FinalBlock(p) >= proc[p].reserved
  BY <1>1, LateFields DEF FinalBlock
<1>5. f \in StateFile /\ Behind(f) /\ f.block = FinalBlock(p)
  BY <1>1, <1>4, WrittenState
<1>6. BrokerTypeOK' /\ Behind(disk)' /\ Behind(temp)'
  BY <1>2, <1>3, <1>5 DEF BrokerInv, BrokerTypeOK, Behind
<1>7. Sane(p)'
  BY <1>1, <1>3 DEF BrokerInv, Sane, HasState, LoadedPcs
<1>8. ASSUME ~excused'
      PROVE  (\A i \in issued' : Readable(disk') /\ i <= disk'.block) /\ CoveredBy(p)'
  BY <1>1, <1>2, <1>3, <1>4, <1>5, <1>8 DEF BrokerInv, Covered, CoveredBy, HasState
<1>9. Covered'
  BY <1>1, <1>2, <1>3, <1>8, CoveredStep
<1> QED
  BY <1>3, <1>6, <1>7, <1>9, SaneStep DEF BrokerInv

LEMMA SaveRenameInv ==
  ASSUME BrokerInv, NEW p \in Procs, SaveRename(p)
  PROVE  BrokerInv'
<1>1. /\ HasState(p) /\ Running(p) /\ proc[p] \in Late /\ proc[p].pc = "rename"
      /\ UNCHANGED <<files, pid, gelf, boots, losses, issued, excused>>
      /\ Goto(p, "cleanup")
  BY ProcessFields DEF BrokerInv, SaveRename, HasState, LoadedPcs
<1>2. /\ proc' \in [Procs -> Process] /\ proc'[p] \in Late /\ proc'[p].pc = "cleanup"
      /\ proc'[p].from = proc[p].from /\ proc'[p].counter = proc[p].counter
      /\ proc'[p].reserved = proc[p].reserved
      /\ proc'[p].marks = proc[p].marks /\ proc'[p].colls = proc[p].colls
      /\ \A q \in Procs \ {p} : proc'[q] = proc[q]
  BY <1>1, GotoFields DEF BrokerInv, LoadedPcs
<1>3. /\ BrokerTypeOK' /\ Behind(disk)' /\ Behind(temp)'
  BY <1>1, <1>2, NoFileTyped DEF SaveRename, BrokerInv, BrokerTypeOK, Behind
<1>4. Sane(p)'
  BY <1>1, <1>2 DEF BrokerInv, Sane, HasState, LoadedPcs
<1>5. ASSUME ~excused'
      PROVE  (\A i \in issued' : Readable(disk') /\ i <= disk'.block) /\ CoveredBy(p)'
  <2>1. /\ \A i \in issued : i \in Nat /\ i <= proc[p].from
        /\ temp.block >= proc[p].reserved /\ temp.block >= proc[p].counter
        /\ temp.block \in Int
    BY <1>1, <1>5 DEF BrokerInv, BrokerTypeOK, StateFile, Covered, CoveredBy
  <2>2. /\ proc[p].from \in Nat /\ proc[p].reserved \in Nat /\ proc[p].counter \in Nat
        /\ proc[p].from <= proc[p].counter
    BY <1>1, LateFields DEF BrokerInv, Sane
  <2>3. temp # NoFile
    BY <2>1, <2>2 DEF NoFile
  <2>4. disk' = temp
    BY <2>3 DEF SaveRename
  <2>5. Readable(disk') /\ \A i \in issued' : i <= disk'.block
    BY <1>1, <2>1, <2>2, <2>4 DEF Readable
  <2> QED
    BY <1>1, <1>2, <2>1, <2>4, <2>5 DEF CoveredBy
<1>6. Covered'
  BY <1>1, <1>2, <1>5, CoveredStep
<1> QED
  BY <1>2, <1>3, <1>4, <1>6, SaneStep DEF BrokerInv

(* A process ends: what it numbered is below the block in state.json.      *)
LEMMA EndedInv ==
  ASSUME BrokerInv, NEW p \in Procs, Exit(p) \/ Kill(p)
  PROVE  BrokerInv'
<1>a. Running(p) /\ Ended(p) /\ UNCHANGED <<disk, temp, files, boots, losses>> /\ pid' \in Nat
  BY ProcessFields DEF Exit, Kill, BrokerInv, BrokerTypeOK
<1>b. \/ Exit(p) /\ excused' = excused
      \/ Kill(p) /\ excused' = (excused \/ (Counting(p) /\ proc[p].counter > proc[p].reserved))
  BY DEF Exit, Kill
<1>c. (excused => excused') /\ (excused \in BOOLEAN => excused' \in BOOLEAN)
  <2>1. CASE excused' = excused
    BY <2>1, Zenon
  <2>2. CASE excused' = (excused \/ (Counting(p) /\ proc[p].counter > proc[p].reserved))
    <3>1. excused => excused'
      BY <2>2, Zenon
    <3>2. excused' \in BOOLEAN
      BY <2>2, Zenon
    <3> QED
      BY <3>1, <3>2, Zenon
  <2> QED
    BY <1>b, <2>1, <2>2, Zenon
<1>1. /\ Running(p) /\ Ended(p) /\ UNCHANGED <<disk, temp, files, boots, losses>>
      /\ pid' \in Nat /\ (excused => excused')
      /\ excused' \in BOOLEAN
  BY <1>a, <1>c DEF BrokerInv, BrokerTypeOK
<1>2. /\ proc' = [proc EXCEPT ![p] = Off] /\ gelf' \in Procs \cup {"none"}
      /\ issued' = issued \cup Numbered(p)
  BY <1>1 DEF Ended, BrokerInv, BrokerTypeOK
<1>3. /\ Counting(p) => /\ proc[p] \in Late /\ HasState(p)
                        /\ proc[p].from \in Nat /\ proc[p].counter \in Nat
                        /\ proc[p].reserved \in Nat
      /\ \A i \in Numbered(p) : Counting(p) /\ i \in Nat /\ i <= proc[p].counter
  <2>1. Counting(p) => /\ proc[p] \in Late /\ HasState(p)
                       /\ proc[p].from \in Nat /\ proc[p].counter \in Nat
                       /\ proc[p].reserved \in Nat
    BY ProcessFields, LateFields DEF BrokerInv
  <2> QED
    BY <2>1 DEF Numbered
<1>4. BrokerTypeOK' /\ Behind(disk)' /\ Behind(temp)'
  BY <1>1, <1>2, <1>3, OffFields DEF BrokerInv, BrokerTypeOK, Behind
<1>5. ASSUME ~excused'
      PROVE  \A i \in issued' : Readable(disk') /\ i <= disk'.block
  <2>1. /\ ~excused /\ CoveredBy(p) /\ disk' = disk /\ disk.block \in Int
        /\ \A i \in issued : Readable(disk) /\ i <= disk.block
    BY <1>1, <1>5 DEF BrokerInv, BrokerTypeOK, StateFile, Covered
  <2>2. Counting(p) => disk.block >= proc[p].counter
    <3>1. CASE Exit(p)
      BY <2>1, <3>1 DEF Exit, CoveredBy
    <3>2. CASE Kill(p)
      <4>1. excused' = (excused \/ (Counting(p) /\ proc[p].counter > proc[p].reserved))
        BY <3>2 DEF Kill
      <4>2. ~(Counting(p) /\ proc[p].counter > proc[p].reserved)
        BY <1>5, <4>1, Zenon
      <4> QED
        BY <1>3, <2>1, <4>2 DEF CoveredBy, Counting
    <3> QED
      BY <3>1, <3>2
  <2>3. \A i \in Numbered(p) : Readable(disk) /\ i <= disk.block
    BY <1>3, <2>1, <2>2 DEF Readable
  <2> QED
    BY <1>2, <2>1, <2>3
<1>6. Covered'
  BY <1>1, <1>2, <1>5, OffFields, CoveredStep
<1> QED
  BY <1>2, <1>4, <1>6, OffFields, SaneStep DEF BrokerInv

LEMMA OtherBrokerInv ==
  ASSUME BrokerInv, LoseState \/ UNCHANGED brokerVars
  PROVE  BrokerInv'
<1>1. CASE LoseState
  <2>1. /\ disk' = Lost /\ excused' = TRUE
        /\ UNCHANGED <<temp, files, pid, gelf, proc, boots, issued>>
    BY <1>1 DEF LoseState
  <2>2. BrokerTypeOK'
    BY <1>1, NoFileTyped DEF LoseState, BrokerInv, BrokerTypeOK
  <2>3. Behind(disk)' /\ Behind(temp)'
    BY <2>1, NoFileTyped DEF BrokerInv, Behind
  <2>4. \A p \in Procs : Sane(p)'
    BY <2>1 DEF BrokerInv, Sane, HasState
  <2> QED
    BY <2>1, <2>2, <2>3, <2>4 DEF BrokerInv, Covered
<1>2. CASE UNCHANGED brokerVars
  BY <1>2 DEF brokerVars, BrokerInv, BrokerTypeOK, Behind, Sane, HasState, Covered,
     CoveredBy, Running, Readable
<1> QED
  BY <1>1, <1>2

(* The strengthened invariant of the broker's restarts is inductive, for   *)
(* any processes, block size and bounds (run_initialized, persistence.rs). *)
THEOREM BrokerInvariant == BrokerSpec => []BrokerInv
<1>1. BrokerInit => BrokerInv
  BY InitBroker
<1>2. BrokerInv /\ [BrokerNext]_brokerVars => BrokerInv'
  BY StartInv, SweepInv, LoadInv, ReserveTempInv, ReserveRenameInv, BindGelfInv, ServeInv,
     NumberInv, MarkInv, AddCollectorInv, DropSessionInv, StopInv, SaveTempInv,
     SaveRenameInv, EndedInv, OtherBrokerInv DEF BrokerNext
<1> QED
  BY <1>1, <1>2, PTL DEF BrokerSpec

(* No bookmark is ever ahead of the record numbers, no record number is    *)
(* handed out twice outside the excused cases, and every served collector  *)
(* has a registered owner, over any sequence of boots, stops and kills.    *)
THEOREM RestartsAreSound == BrokerSpec => []RestartsSound
<1>1. BrokerInv => RestartsSound
  <2> SUFFICES ASSUME BrokerInv PROVE RestartsSound
    OBVIOUS
  <2>1. MarksBehind
    BY ProcessFields DEF BrokerInv, MarksBehind, Sane
  <2>2. OwnersRegistered
    BY DEF BrokerInv, OwnersRegistered, Sane, HasState, LoadedPcs
  <2>3. ASSUME ~excused, NEW p \in Procs
        PROVE  Numbered(p) \cap issued = {}
    <3>1. CASE Counting(p)
      <4>1. /\ HasState(p) /\ proc[p] \in Late /\ proc[p].from \in Nat
            /\ proc[p].counter \in Nat
        BY <3>1, ProcessFields, LateFields DEF BrokerInv
      <4>2. \A i \in issued : i \in Nat /\ i <= proc[p].from
        BY <2>3, <4>1 DEF BrokerInv, BrokerTypeOK, Covered, CoveredBy
      <4> QED
        BY <4>1, <4>2 DEF Numbered
    <3>2. CASE ~Counting(p)
      BY <3>2 DEF Numbered
    <3> QED
      BY <3>1, <3>2
  <2> QED
    BY <2>1, <2>2, <2>3 DEF RestartsSound, NeverReissued
<1> QED
  BY <1>1, BrokerInvariant, PTL

=============================================================================
