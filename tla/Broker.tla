-------------------------------- MODULE Broker --------------------------------
(***************************************************************************)
(* A broker's life from start to stop, or to a kill, and what the next one *)
(* finds: run_initialized (daemon/server.rs), state.json and the temp file *)
(* it is written through (daemon/persistence.rs), the named sessions in it *)
(* (restore_named and snapshot_named_for_persistence in daemon/session.rs) *)
(* and the collector files beside it, which are written through as         *)
(* collectors are added.                                                   *)
(*                                                                         *)
(* The numbers of records restart from state.json at every boot.  A boot   *)
(* reserves a block of them there before it hands one out, and writes the  *)
(* file again only at a graceful stop.  Brokers may be started over one    *)
(* directory at the same time: the pid file, and the GELF port, are all    *)
(* that keeps the second one out.  What a session keeps is abstracted to   *)
(* the highest record number one of its bookmarks holds.                   *)
(***************************************************************************)
EXTENDS Integers, FiniteSets

CONSTANTS
  Procs,        \* broker processes over one config directory
  SeqBlockSize, \* SEQ_BLOCK_SIZE
  Names,        \* names of sessions
  Colls,        \* names of collectors
  MaxSeq,       \* bound: record numbers handed out
  MaxBoots,     \* bound: processes started
  MaxLost       \* bound: times state.json becomes unreadable

ASSUME BlockAssumption == SeqBlockSize \in Nat \ {0}
ASSUME BoundAssumption == MaxSeq \in Nat /\ MaxBoots \in Nat /\ MaxLost \in Nat

Nothing == [n \in {} |-> 0]
Empty == [block |-> 0, marks |-> Nothing]    \* DaemonState::default
Lost == [block |-> -1, marks |-> Nothing]    \* a file serde_json refuses
NoFile == [block |-> -2, marks |-> Nothing]

VARIABLES
  disk,      \* state.json
  temp,      \* the temp file state.json is written through
  files,     \* the collectors directory: collector -> owner's name
  pid,       \* daemon.pid: the run it names, or 0
  gelf,      \* the process that holds the GELF port, or "none"
  proc,      \* per process: where it is, and its memory
  boots, losses,
  issued,    \* history: record numbers handed out by processes now gone
  excused    \* history: numbers were handed out that no reservation covers,
             \* or two brokers ran over the directory, or state.json was lost

brokerVars == <<disk, temp, files, pid, gelf, proc, boots, losses, issued, excused>>

Off == [pc |-> "off"]
Readable(f) == f.block >= 0
Set(f, x, v) == [y \in DOMAIN f \cup {x} |-> IF y = x THEN v ELSE f[y]]
Unset(f, x) == [y \in DOMAIN f \ {x} |-> f[y]]
Goto(p, pc) == proc' = [proc EXCEPT ![p].pc = pc]
Running(p) == proc[p] # Off
Counting(p) == proc[p].pc \in {"serving", "save", "rename", "cleanup"}
(* The seqs this process numbered: those above where it started. *)
Numbered(p) == IF Counting(p) THEN (proc[p].from + 1)..proc[p].counter ELSE {}

BrokerInit ==
  /\ disk = NoFile
  /\ temp = NoFile
  /\ files = Nothing
  /\ pid = 0
  /\ gelf = "none"
  /\ proc = [p \in Procs |-> Off]
  /\ boots = 0
  /\ losses = 0
  /\ issued = {}
  /\ excused = FALSE
-----------------------------------------------------------------------------
(* Boot. *)

(* The pid file keeps a second broker out while the first one lives. *)
Start(p) ==
  /\ proc[p] = Off
  /\ boots < MaxBoots
  /\ \A q \in Procs : Running(q) => proc[q].run # pid
  /\ proc' = [proc EXCEPT ![p] = [pc |-> "sweep", run |-> boots + 1]]
  /\ boots' = boots + 1
  /\ excused' = (excused \/ \E q \in Procs : Running(q))
  /\ UNCHANGED <<disk, temp, files, pid, gelf, losses, issued>>

(* The stale pid file goes, and the temp files of interrupted writes. *)
Sweep(p) ==
  /\ proc[p].pc = "sweep"
  /\ pid' = 0
  /\ temp' = NoFile
  /\ Goto(p, "load")
  /\ UNCHANGED <<disk, files, gelf, boots, losses, issued, excused>>

(* load_state: no file, and one that cannot be read, are an empty state; *)
(* an unreadable one is moved aside.                                     *)
Loaded == IF Readable(disk) THEN disk ELSE Empty

Reserved(from) == from + SeqBlockSize

Load(p) ==
  /\ proc[p].pc = "load"
  /\ proc' = [proc EXCEPT ![p] =
       [pc |-> "reserve", run |-> @.run,
        from |-> Loaded.block, counter |-> Loaded.block,
        reserved |-> Reserved(Loaded.block), marks |-> Loaded.marks,
        colls |-> Nothing]]
  /\ disk' = IF Readable(disk) THEN disk ELSE NoFile
  /\ UNCHANGED <<temp, files, pid, gelf, boots, losses, issued, excused>>

(* atomic_write, first half: the whole file beside its target, synced. *)
WriteTemp(p, state, next) ==
  /\ temp' = state
  /\ Goto(p, next)
  /\ UNCHANGED <<disk, files, pid, gelf, boots, losses, issued, excused>>

(* Mutant of Restored: the owners of restored collectors are not looked *)
(* for among the sessions.                                              *)
RestoredOnly(marks) == marks

(* The collectors come back from their files; an owner state.json does *)
(* not know is registered again, with nothing to its name.             *)
Restored(marks) ==
  [n \in DOMAIN marks \cup {files[k] : k \in DOMAIN files} |->
     IF n \in DOMAIN marks THEN marks[n] ELSE 0]

(* A boot's save_state fails the boot.  rename, atomic; the temp file may *)
(* be gone, swept by another broker's boot.                               *)
ReserveTemp(p) ==
  /\ proc[p].pc = "reserve"
  /\ WriteTemp(p, [block |-> proc[p].reserved, marks |-> proc[p].marks], "reserved")

ReserveRename(p) ==
  /\ proc[p].pc = "reserved"
  /\ IF temp = NoFile
       THEN proc' = [proc EXCEPT ![p] = Off] /\ UNCHANGED <<disk, temp>>
       ELSE disk' = temp /\ temp' = NoFile /\ Goto(p, "bind")
  /\ UNCHANGED <<files, pid, gelf, boots, losses, issued, excused>>

(* GelfReceiver::start fails the boot when the port is taken. *)
BindGelf(p) ==
  /\ proc[p].pc = "bind"
  /\ IF gelf = "none"
       THEN gelf' = p /\ Goto(p, "bound")
       ELSE proc' = [proc EXCEPT ![p] = Off] /\ UNCHANGED gelf
  /\ UNCHANGED <<disk, temp, files, pid, boots, losses, issued, excused>>

(* The pid file, the collectors, their owners, the listener. *)
Serve(p) ==
  /\ proc[p].pc = "bound"
  /\ pid' = proc[p].run
  /\ proc' = [proc EXCEPT ![p].pc = "serving", ![p].colls = files,
                          ![p].marks = Restored(@)]
  /\ UNCHANGED <<disk, temp, files, gelf, boots, losses, issued, excused>>
-----------------------------------------------------------------------------
(* Serving. *)

(* A record is numbered; the processors run until the process ends.  Past *)
(* the reservation, a number is safe only if a later save covers it.      *)
Number(p) ==
  /\ Counting(p)
  /\ proc[p].counter < MaxSeq
  /\ proc' = [proc EXCEPT ![p].counter = @ + 1]
  /\ excused' = (excused \/ /\ proc[p].pc # "serving"
                            /\ proc[p].counter >= proc[p].reserved)
  /\ UNCHANGED <<disk, temp, files, pid, gelf, boots, losses, issued>>

(* session.start, a bookmark or a cursor's commit under the name. *)
Mark(p, n) ==
  /\ proc[p].pc = "serving"
  /\ proc' = [proc EXCEPT ![p].marks = Set(@, n, proc[p].counter)]
  /\ UNCHANGED <<disk, temp, files, pid, gelf, boots, losses, issued, excused>>

(* collectors.add: in memory and, before the answer, in its file. *)
AddCollector(p, k, n) ==
  /\ proc[p].pc = "serving"
  /\ n \in DOMAIN proc[p].marks
  /\ k \notin DOMAIN proc[p].colls
  /\ files' = Set(files, k, n)
  /\ proc' = [proc EXCEPT ![p].colls = Set(@, k, n)]
  /\ UNCHANGED <<disk, temp, pid, gelf, boots, losses, issued, excused>>

(* sessions.drop: the session, its bookmarks and its collectors. *)
DropSession(p, n) ==
  /\ proc[p].pc = "serving"
  /\ n \in DOMAIN proc[p].marks
  /\ LET gone == {k \in DOMAIN proc[p].colls : proc[p].colls[k] = n}
     IN  /\ proc' = [proc EXCEPT
                       ![p].marks = Unset(@, n),
                       ![p].colls = [k \in DOMAIN @ \ gone |-> @[k]]]
         /\ files' = [k \in DOMAIN files \ gone |-> files[k]]
  /\ UNCHANGED <<disk, temp, pid, gelf, boots, losses, issued, excused>>
-----------------------------------------------------------------------------
(* The end. *)

(* The shutdown signal: connections are cut, nothing is marked any more. *)
Stop(p) ==
  /\ proc[p].pc = "serving"
  /\ Goto(p, "save")
  /\ UNCHANGED <<disk, temp, files, pid, gelf, boots, losses, issued, excused>>

(* Mutant of FinalBlock: the block reserved at boot, as if never outrun. *)
FinalBlockReserved(p) == proc[p].reserved

(* The greater of the reservation and the live counter. *)
FinalBlock(p) ==
  IF proc[p].counter > proc[p].reserved THEN proc[p].counter ELSE proc[p].reserved

SaveTemp(p) ==
  /\ proc[p].pc = "save"
  /\ WriteTemp(p, [block |-> FinalBlock(p), marks |-> proc[p].marks], "rename")

(* A failed save is logged, and the stop goes on. *)
SaveRename(p) ==
  /\ proc[p].pc = "rename"
  /\ IF temp = NoFile
       THEN UNCHANGED <<disk, temp>>
       ELSE disk' = temp /\ temp' = NoFile
  /\ Goto(p, "cleanup")
  /\ UNCHANGED <<files, pid, gelf, boots, losses, issued, excused>>

Ended(p) ==
  /\ proc' = [proc EXCEPT ![p] = Off]
  /\ gelf' = IF gelf = p THEN "none" ELSE gelf
  /\ issued' = issued \cup Numbered(p)

(* The pid file goes and the process ends. *)
Exit(p) ==
  /\ proc[p].pc = "cleanup"
  /\ pid' = 0
  /\ Ended(p)
  /\ UNCHANGED <<disk, temp, files, boots, losses, excused>>

(* Killed, or the machine stopped: files stay as they are.  A kill loses *)
(* what was numbered past the reservation unless it was saved.           *)
Kill(p) ==
  /\ Running(p)
  /\ Ended(p)
  /\ excused' = (excused \/ (Counting(p) /\ proc[p].counter > proc[p].reserved))
  /\ UNCHANGED <<disk, temp, files, pid, boots, losses>>

(* A full disk, an edit by hand: state.json no longer parses. *)
LoseState ==
  /\ losses < MaxLost
  /\ Readable(disk)
  /\ disk' = Lost
  /\ losses' = losses + 1
  /\ excused' = TRUE
  /\ UNCHANGED <<temp, files, pid, gelf, proc, boots, issued>>

BrokerNext ==
  \/ \E p \in Procs :
       \/ Start(p) \/ Sweep(p) \/ Load(p) \/ ReserveTemp(p) \/ ReserveRename(p)
       \/ BindGelf(p) \/ Serve(p)
       \/ Number(p)
       \/ \E n \in Names : Mark(p, n) \/ DropSession(p, n)
       \/ \E k \in Colls, n \in Names : AddCollector(p, k, n)
       \/ Stop(p) \/ SaveTemp(p) \/ SaveRename(p) \/ Exit(p) \/ Kill(p)
  \/ LoseState

BrokerSpec == BrokerInit /\ [][BrokerNext]_brokerVars
-----------------------------------------------------------------------------
Behind(s) == \A n \in DOMAIN s.marks : s.marks[n] <= s.block

(* No bookmark is ever ahead of the record numbers: not one in a running   *)
(* broker, whose cursor would skip the records up to it in silence, nor    *)
(* one in state.json, whatever kill, lost file or second broker wrote it.  *)
MarksBehind ==
  /\ Behind(disk)
  /\ Behind(temp)
  /\ \A p \in Procs : "marks" \in DOMAIN proc[p] =>
       \A n \in DOMAIN proc[p].marks : proc[p].marks[n] <= proc[p].counter

(* No record number is handed out twice over any sequence of stops, kills  *)
(* and boots, as long as a killed broker had not outrun the block its boot *)
(* reserved, brokers did not run over one directory together and           *)
(* state.json was not lost (seq_block, server.rs).                         *)
NeverReissued ==
  excused \/ \A p \in Procs : Numbered(p) \cap issued = {}

(* Every collector a broker serves belongs to a session it knows, so the   *)
(* session can be listed, dropped or swept with what it owns.  Collector   *)
(* files outlive a kill; their owners' entries in state.json do not.       *)
OwnersRegistered ==
  \A p \in Procs : proc[p].pc = "serving" =>
    \A k \in DOMAIN proc[p].colls : proc[p].colls[k] \in DOMAIN proc[p].marks

(* Every sequence of boots, stops and kills numbers each record once, up   *)
(* to the excused cases, keeps every bookmark at or behind the record      *)
(* numbers and every served collector's owner known (server.rs).           *)
RestartsSound == MarksBehind /\ NeverReissued /\ OwnersRegistered
=============================================================================
