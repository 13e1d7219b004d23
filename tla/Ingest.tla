-------------------------------- MODULE Ingest --------------------------------
(***************************************************************************)
(* How one domain takes in log records: the log processor                  *)
(* (daemon/log_processor.rs) with the triggers, filters and post-windows   *)
(* of the sessions bound to the domain, the pre-trigger buffer, the log    *)
(* store (LogStore), the epoch log (engine/epoch.rs), and an export that   *)
(* grades a range of it (logs.export in daemon/rpc_handler.rs).            *)
(*                                                                         *)
(* The processor takes one lock at a time, so each of its steps below is   *)
(* one critical section, and the sessions' requests (filters, triggers,    *)
(* set_domain, clear, export) run between any two of them.                 *)
(***************************************************************************)
EXTENDS LogStore, Sequences

CONSTANTS
  Contents,      \* what a record says, as far as filters and triggers tell
  Traced,        \* the contents that carry the (one) trace id
  SpanContent,   \* marks a number the span processor took
  Sessions,      \* sessions that may be bound to the domain
  Filters,       \* filters: each the set of contents it matches
  TriggerIds,    \* ids within a session's trigger list
  TriggerDefs,   \* definitions triggers.add and triggers.edit may give
  InitFilters,   \* per session: its filters at the start
  InitTriggers,  \* per session: its triggers at the start
  EpochCapacity, \* EPOCH_CAPACITY
  ExportAsks,    \* bound: the <<from_seq, to_seq>> exports ask for (0: none)
  ExportCount,   \* the count of an export
  MaxWindow,     \* the largest window a trigger may ask for (u32::MAX)
  MaxSpans,      \* bound: numbers taken by spans
  MaxOps,        \* bound: filter and trigger requests
  MaxRebinds     \* bound: set_domain requests

Windows == 0..MaxWindow

(* What triggers.add gives, and a trigger: left counts its debounce down.  *)
Defs == [on : SUBSET Contents, pre : Windows, post : Windows, oneshot : BOOLEAN]
Triggers == [on : SUBSET Contents, pre : Windows, post : Windows,
             oneshot : BOOLEAN, left : Windows]

ASSUME WindowAssumption == MaxWindow \in Nat
ASSUME EpochAssumption == EpochCapacity \in Nat \ {0}
ASSUME ContentAssumption == SpanContent \notin Contents
ASSUME AskAssumption == \A ask \in ExportAsks : ask[1] \in Nat /\ ask[2] \in Nat

(* A session starts with no trigger debounced (its restore adds them).     *)
ASSUME SetupAssumption ==
  /\ TriggerDefs \subseteq Defs
  /\ InitFilters \in [Sessions -> SUBSET Filters]
  /\ DOMAIN InitTriggers = Sessions
  /\ \A s \in Sessions : \A i \in DOMAIN InitTriggers[s] :
       /\ i \in TriggerIds
       /\ InitTriggers[s][i] \in Triggers
       /\ InitTriggers[s][i].left = 0

VARIABLES
  content,    \* per number handed out: its content
  bound,      \* the sessions bound to this domain
  filters,    \* per session: its filters
  trig,       \* per session: its triggers, by id
  window,     \* per session: post_window_remaining
  preBuf,     \* the pre-trigger buffer: record -> arrival index
  arrivals,   \* its arrival counter
  preCap,     \* its capacity
  epochs,     \* the epoch log: <<[from, policy], ...>>
  proc,       \* the log processor: where it is with the record in hand
  rpc,        \* per session: what its running request has still to do
  ex,         \* an export: where it is, and what it last answered
  ops, rebinds,
  decided,    \* history: log records the processor is done with
  refused,    \* history: records a floor refused
  fires,      \* history: the firings, with the windows they promised
  standing,   \* history: those whose session has stayed bound ever since
  shortTo     \* history: per window size, the newest record that arrived
              \* while the buffer was too small for it

preVars == <<preBuf, arrivals, preCap, shortTo>>
sessionVars == <<bound, filters, trig, rpc, ops, rebinds>>
historyVars == <<decided, fires, standing>>
ingestVars == <<vars, content, sessionVars, window, preVars, epochs, proc, ex,
                refused, historyVars>>

Origin == 0              \* the number this incarnation started from
IdleProc == [pc |-> "idle"]
NoExport == [pc |-> "none"]
IsLog(s) == content[s] # SpanContent
Logs == {s \in 1..counter : IsLog(s)}
Top(S) == CHOOSE x \in S : \A y \in S : y <= x
-----------------------------------------------------------------------------
(* The sessions' side. *)

(* TriggerManager::max_pre_window, 0 with no trigger. *)
SessionPre(s) == Top({0} \cup {trig[s][i].pre : i \in DOMAIN trig[s]})

(* max_pre_window_for_domain. *)
DomainPre == Top({0} \cup {SessionPre(s) : s \in bound})

(* Mutant of Debounced: the session's window, not the trigger's own,      *)
(* silences a trigger.                                                    *)
DebouncedBySession(s, t) == window[s] > 0

(* A trigger inside the window its last match opened does not fire. *)
Debounced(s, t) == t.left > 0

Matches(s, t, c) == ~Debounced(s, t) /\ c \in t.on

(* evaluate: every open window counts down, every match opens one. *)
Counted(s, t, c) ==
  [t EXCEPT !.left = IF @ > 0 THEN @ - 1
                     ELSE IF Matches(s, t, c) THEN t.post ELSE 0]

(* TriggerMatch: what a firing remembers of its trigger. *)
Fired(i, t) == [id |-> i, pre |-> t.pre, post |-> t.post, oneshot |-> t.oneshot]

(* The union of the filters bound sessions hold: FilterPolicy. *)
Policy == UNION {filters[s] : s \in bound}
-----------------------------------------------------------------------------
(* The pre-trigger buffer. *)

(* expire: what is older than the last cap arrivals leaves. *)
Expired(buf, cap, total) ==
  [s \in {x \in DOMAIN buf : buf[x] >= total - cap} |-> buf[s]]

(* Mutant of LastArrivals: the oldest buffered come out, not the newest. *)
FirstArrivals(n) ==
  {s \in DOMAIN preBuf :
     Cardinality({t \in DOMAIN preBuf : preBuf[t] <= preBuf[s]}) <= n}

(* The n newest arrivals still buffered. *)
LastArrivals(n) ==
  {s \in DOMAIN preBuf :
     Cardinality({t \in DOMAIN preBuf : preBuf[t] >= preBuf[s]}) <= n}

(* History: a buffer of size cap cannot answer for s, or for anything     *)
(* before it, in a window larger than cap.                                *)
TooShort(cap, s) ==
  shortTo' = [n \in DOMAIN shortTo |-> IF n > cap THEN s ELSE shortTo[n]]

(* append, a no-op at capacity 0. *)
BufferAppend(s) ==
  /\ IF preCap = 0 THEN UNCHANGED <<preBuf, arrivals>>
     ELSE /\ arrivals' = arrivals + 1
          /\ preBuf' = Expired([x \in DOMAIN preBuf \cup {s} |->
                                  IF x = s THEN arrivals ELSE preBuf[x]],
                               preCap, arrivals + 1)
  /\ TooShort(preCap, s)
  /\ UNCHANGED preCap

(* flush: the n newest are drained. *)
BufferDrain(taken) ==
  /\ preBuf' = [s \in DOMAIN preBuf \ taken |-> preBuf[s]]
  /\ UNCHANGED <<arrivals, preCap, shortTo>>

(* resync_pre_buffer: computed and applied under one lock. *)
Resync ==
  /\ preCap' = DomainPre
  /\ preBuf' = Expired(preBuf, preCap', arrivals)
  /\ TooShort(preCap', counter)
  /\ UNCHANGED arrivals
-----------------------------------------------------------------------------
(* The epoch log. *)

(* Mutant of Observed: the boundary lands one past the record decided. *)
ObservedLate(seq, policy) ==
  LET last == epochs[Len(epochs)]
      from == IF epochs = <<>> THEN Origin ELSE seq + 1
  IN  IF epochs # <<>> /\ last.policy = policy THEN epochs
      ELSE Append(epochs, [from |-> from, policy |-> policy])

(* observe: a new epoch when the policy differs from the one in force.    *)
(* The first opens at the origin, and the oldest falls out when full.     *)
Observed(seq, policy) ==
  LET last  == epochs[Len(epochs)]
      from  == IF epochs = <<>> THEN Origin ELSE Larger(seq, last.from)
      grown == Append(epochs, [from |-> from, policy |-> policy])
  IN  IF epochs # <<>> /\ last.policy = policy THEN epochs
      ELSE IF Len(grown) > EpochCapacity THEN Tail(grown) ELSE grown

(* Mutant of Covered: the oldest epoch speaks for what predates it. *)
CoveredAlways(from) == epochs # <<>>

(* coverage: the log reaches back to from. *)
Covered(from) == epochs # <<>> /\ from >= epochs[1].from

(* coverage: some filtered epoch overlaps the range. *)
Narrowed(from, to) ==
  \E i \in DOMAIN epochs :
    /\ epochs[i].policy # {}
    /\ epochs[i].from <= to
    /\ i < Len(epochs) => epochs[i + 1].from - 1 >= from

(* evidence_verdict, for a range that exists. *)
Grade(from, to, evicted, capped) ==
  IF ~Covered(from) \/ capped THEN "cannot_verify"
  ELSE IF Narrowed(from, to) THEN "filtered"
  ELSE IF evicted THEN "evicted"
  ELSE "complete"
-----------------------------------------------------------------------------
IngestInit ==
  /\ Init
  /\ content = <<>>
  /\ bound = Sessions
  /\ filters = InitFilters
  /\ trig = InitTriggers
  /\ window = [s \in Sessions |-> 0]
  /\ preBuf = [s \in {} |-> 0]
  /\ arrivals = 0
  /\ preCap = DomainPre
  /\ epochs = <<>>
  /\ proc = IdleProc
  /\ rpc = [s \in Sessions |-> "none"]
  /\ ex = NoExport
  /\ ops = 0
  /\ rebinds = 0
  /\ decided = {}
  /\ refused = {}
  /\ fires = {}
  /\ standing = {}
  /\ shortTo = [n \in 1..MaxWindow |-> 0]

(* The processor offers records to the store. *)
Offer(batch) ==
  /\ Merge(batch)
  /\ refused' = refused \cup {s \in batch \ held : s < RefuseBelow}
  /\ UNCHANGED <<counter, clearing, clearedUpTo>>

NoOffer == UNCHANGED <<vars, refused>>

(* A record is numbered. *)
Receive(c) ==
  /\ proc = IdleProc
  /\ AssignSeq
  /\ content' = Append(content, c)
  /\ proc' = [pc |-> "snapshot", seq |-> counter']
  /\ UNCHANGED <<sessionVars, window, preVars, epochs, ex, refused, historyVars>>

(* The span processor takes a number of the same counter. *)
SpanNumbered ==
  /\ Cardinality({s \in 1..counter : ~IsLog(s)}) < MaxSpans
  /\ AssignSeq
  /\ content' = Append(content, SpanContent)
  /\ UNCHANGED <<sessionVars, window, preVars, epochs, proc, ex, refused,
                 historyVars>>

(* The bound sessions, with the pre-window each is ordered by. *)
Snapshot ==
  /\ proc.pc = "snapshot"
  /\ proc' = [pc |-> "sessions", seq |-> proc.seq, any |-> FALSE,
              todo |-> {[s |-> s, pre |-> SessionPre(s)] : s \in bound}]
  /\ NoOffer
  /\ UNCHANGED <<content, sessionVars, window, preVars, epochs, ex, historyVars>>

(* decrement_post_window of the next session, largest pre-window first. *)
Decrement(e) ==
  /\ proc.pc = "sessions"
  /\ e \in proc.todo
  /\ \A o \in proc.todo : o.pre <= e.pre
  /\ window' = [window EXCEPT ![e.s] = IF @ > 0 THEN @ - 1 ELSE 0]
  /\ proc' = [pc |-> "evaluate", seq |-> proc.seq, todo |-> proc.todo \ {e},
              any |-> proc.any \/ window[e.s] > 0, s |-> e.s]
  /\ NoOffer
  /\ UNCHANGED <<content, sessionVars, preVars, epochs, ex, historyVars>>

(* evaluate_triggers, under the trigger list's lock. *)
Evaluate ==
  /\ proc.pc = "evaluate"
  /\ LET s == proc.s
         c == content[proc.seq]
         hit == {i \in DOMAIN trig[s] : Matches(s, trig[s][i], c)}
     IN  /\ trig' = [trig EXCEPT ![s] =
                       [i \in DOMAIN trig[s] |-> Counted(s, trig[s][i], c)]]
         /\ proc' = IF hit = {}
                      THEN [pc |-> "sessions", seq |-> proc.seq,
                            todo |-> proc.todo, any |-> proc.any]
                      ELSE [pc |-> "match", seq |-> proc.seq,
                            todo |-> proc.todo, any |-> proc.any, s |-> s,
                            batch |-> {},
                            fired |-> {Fired(i, trig[s][i]) : i \in hit}]
  /\ NoOffer
  /\ UNCHANGED <<content, bound, filters, rpc, ops, rebinds, window, preVars,
                 epochs, ex, historyVars>>

MaxPre == Top({m.pre : m \in proc.fired})
MaxPost == Top({m.post : m \in proc.fired})

(* The matching record is stored, whatever the filters say. *)
StoreMatch ==
  /\ proc.pc = "match"
  /\ IF proc.seq \in held THEN NoOffer ELSE Offer({proc.seq})
  /\ proc' = [proc EXCEPT !.pc = "drain"]
  /\ UNCHANGED <<content, sessionVars, window, preVars, epochs, ex, historyVars>>

(* The pre-window leaves the buffer. *)
Drain ==
  /\ proc.pc = "drain"
  /\ BufferDrain(LastArrivals(MaxPre))
  /\ proc' = [proc EXCEPT !.pc = "copy", !.batch = LastArrivals(MaxPre)]
  /\ NoOffer
  /\ UNCHANGED <<content, sessionVars, window, epochs, ex, historyVars>>

(* The rest of the record's trace is copied. *)
CopyTrace ==
  /\ proc.pc = "copy"
  /\ proc' = [proc EXCEPT !.pc = "insert",
                !.batch = IF content[proc.seq] \in Traced
                            THEN @ \cup {x \in DOMAIN preBuf : content[x] \in Traced}
                            ELSE @]
  /\ NoOffer
  /\ UNCHANGED <<content, sessionVars, window, preVars, epochs, ex, historyVars>>

(* What fired, with the windows promised. *)
NewFires ==
  {[s |-> proc.s, id |-> m.id, seq |-> proc.seq, pre |-> m.pre, post |-> m.post,
    oneshot |-> m.oneshot] : m \in proc.fired}

(* One insert_sorted for both. *)
InsertFlushed ==
  /\ proc.pc = "insert"
  /\ Offer(proc.batch)
  /\ proc' = [proc EXCEPT !.pc = "extend"]
  /\ fires' = fires \cup NewFires
  /\ standing' = IF proc.s \in bound THEN standing \cup NewFires ELSE standing
  /\ UNCHANGED <<content, sessionVars, window, preVars, epochs, ex, decided>>

(* Mutant of Extended: a short window truncates a longer one. *)
ExtendedByStore(old, post) == post

(* extend_post_window: never shorter than it was. *)
Extended(old, post) == Larger(old, post)

Extend ==
  /\ proc.pc = "extend"
  /\ window' = [window EXCEPT ![proc.s] = Extended(@, MaxPost)]
  /\ proc' = [proc EXCEPT !.pc = "notify", !.any = TRUE]
  /\ NoOffer
  /\ UNCHANGED <<content, sessionVars, preVars, epochs, ex, historyVars>>

(* Mutant of Spent: no trigger is taken out after it fired. *)
SpentNone(fired) == {}

(* The oneshot triggers among those fired. *)
Spent(fired) == {m.id : m \in {f \in fired : f.oneshot}}

(* Notifications go out (see Sessions) and oneshot triggers leave. *)
Notify ==
  /\ proc.pc = "notify"
  /\ LET spent == Spent(proc.fired)
         rest  == [pc |-> "sessions", seq |-> proc.seq, todo |-> proc.todo,
                   any |-> proc.any]
     IN  /\ trig' = [trig EXCEPT ![proc.s] =
                       [i \in DOMAIN trig[proc.s] \ spent |-> trig[proc.s][i]]]
         /\ proc' = IF \E m \in proc.fired : m.oneshot
                      THEN [rest EXCEPT !.pc = "resync"] ELSE rest
  /\ NoOffer
  /\ UNCHANGED <<content, bound, filters, rpc, ops, rebinds, window, preVars,
                 epochs, ex, historyVars>>

ProcResync ==
  /\ proc.pc = "resync"
  /\ Resync
  /\ proc' = [proc EXCEPT !.pc = "sessions"]
  /\ NoOffer
  /\ UNCHANGED <<content, sessionVars, window, epochs, ex, historyVars>>

(* Every session served: the record joins the pre-trigger buffer. *)
Buffer ==
  /\ proc.pc = "sessions"
  /\ proc.todo = {}
  /\ BufferAppend(proc.seq)
  /\ proc' = [proc EXCEPT !.pc = "store"]
  /\ NoOffer
  /\ UNCHANGED <<content, sessionVars, window, epochs, ex, historyVars>>

Done ==
  /\ proc' = IdleProc
  /\ decided' = decided \cup {proc.seq}

(* Already held, or inside a window: stored whatever the filters say. *)
StoreUnconditionally ==
  /\ proc.pc = "store"
  /\ proc.seq \in held \/ proc.any
  /\ IF proc.seq \in held THEN NoOffer ELSE Offer({proc.seq})
  /\ Done
  /\ UNCHANGED <<content, sessionVars, window, preVars, epochs, ex, fires, standing>>

(* evaluate_filters_for_domain: the decision and the policy it came from. *)
Decide ==
  /\ proc.pc = "store"
  /\ proc.seq \notin held
  /\ ~proc.any
  /\ proc' = [pc |-> "observe", seq |-> proc.seq, policy |-> Policy,
              keep |-> \/ Policy = {}
                       \/ \E f \in Policy : content[proc.seq] \in f]
  /\ NoOffer
  /\ UNCHANGED <<content, sessionVars, window, preVars, epochs, ex, historyVars>>

Observe ==
  /\ proc.pc = "observe"
  /\ epochs' = Observed(proc.seq, proc.policy)
  /\ proc' = [proc EXCEPT !.pc = "append"]
  /\ NoOffer
  /\ UNCHANGED <<content, sessionVars, window, preVars, ex, historyVars>>

AppendDecided ==
  /\ proc.pc = "append"
  /\ IF proc.keep THEN Offer({proc.seq}) ELSE NoOffer
  /\ Done
  /\ UNCHANGED <<content, sessionVars, window, preVars, epochs, ex, fires, standing>>
-----------------------------------------------------------------------------
(* Requests of a session.  Each takes its own locks, then resyncs the     *)
(* buffer of the domain the session is bound to.                          *)

(* Mutant of Pending: the request forgets to resync. *)
PendingNever(s) == "none"

(* What a request has left to do. *)
Pending(s) == IF s \in bound THEN "sync" ELSE "none"

Request(s) ==
  /\ rpc[s] = "none"
  /\ ops < MaxOps
  /\ ops' = ops + 1
  /\ NoOffer
  /\ UNCHANGED <<content, bound, rebinds, window, preVars, epochs, proc, ex,
                 historyVars>>

(* filters.add, filters.remove; filters.edit needs no resync. *)
AddFilter(s, f) ==
  /\ Request(s)
  /\ f \notin filters[s]
  /\ filters' = [filters EXCEPT ![s] = @ \cup {f}]
  /\ rpc' = [rpc EXCEPT ![s] = Pending(s)]
  /\ UNCHANGED trig

RemoveFilter(s, f) ==
  /\ Request(s)
  /\ f \in filters[s]
  /\ filters' = [filters EXCEPT ![s] = @ \ {f}]
  /\ rpc' = [rpc EXCEPT ![s] = Pending(s)]
  /\ UNCHANGED trig

EditFilter(s, f, g) ==
  /\ Request(s)
  /\ f \in filters[s]
  /\ g \notin filters[s]
  /\ filters' = [filters EXCEPT ![s] = (@ \ {f}) \cup {g}]
  /\ UNCHANGED <<trig, rpc>>

Armed(def) == [on |-> def.on, pre |-> def.pre, post |-> def.post,
               oneshot |-> def.oneshot, left |-> 0]

(* triggers.add: ids are never reused. *)
AddTrigger(s, i, def) ==
  /\ Request(s)
  /\ i \notin DOMAIN trig[s]
  /\ \A f \in fires : f.s = s => f.id # i
  /\ "fired" \in DOMAIN proc /\ proc.s = s => \A m \in proc.fired : m.id # i
  /\ trig' = [trig EXCEPT ![s] =
                [j \in DOMAIN trig[s] \cup {i} |->
                   IF j = i THEN Armed(def) ELSE trig[s][j]]]
  /\ rpc' = [rpc EXCEPT ![s] = Pending(s)]
  /\ UNCHANGED filters

(* Mutant of EditedLeft: a shrunk window does not shorten the one open. *)
EditedLeftKept(old, def) == IF def.on # old.on THEN 0 ELSE old.left

(* edit: a new condition is live at once, a shrunk window cuts the one    *)
(* in flight.                                                             *)
EditedLeft(old, def) ==
  IF def.on # old.on THEN 0
  ELSE IF old.left > def.post THEN def.post ELSE old.left

EditTrigger(s, i, def) ==
  /\ Request(s)
  /\ i \in DOMAIN trig[s]
  /\ trig' = [trig EXCEPT ![s][i] =
                [Armed(def) EXCEPT !.left = EditedLeft(trig[s][i], def)]]
  /\ rpc' = [rpc EXCEPT ![s] = Pending(s)]
  /\ UNCHANGED filters

RemoveTrigger(s, i) ==
  /\ Request(s)
  /\ i \in DOMAIN trig[s]
  /\ trig' = [trig EXCEPT ![s] = [j \in DOMAIN trig[s] \ {i} |-> trig[s][j]]]
  /\ rpc' = [rpc EXCEPT ![s] = Pending(s)]
  /\ UNCHANGED filters

(* set_domain, under the domain lock: leave for another domain, or come   *)
(* back, with the window reset.                                           *)
SetDomain(s) ==
  /\ rpc[s] = "none"
  /\ rebinds < MaxRebinds
  /\ rebinds' = rebinds + 1
  /\ bound' = IF s \in bound THEN bound \ {s} ELSE bound \cup {s}
  /\ window' = [window EXCEPT ![s] = 0]
  /\ rpc' = [rpc EXCEPT ![s] = "reset"]
  /\ standing' = {f \in standing : f.s # s}
  /\ NoOffer
  /\ UNCHANGED <<content, filters, trig, ops, preVars, epochs, proc, ex, decided,
                 fires>>

(* set_domain, after the domain lock: reset_post_windows. *)
ResetWindows(s) ==
  /\ rpc[s] = "reset"
  /\ trig' = [trig EXCEPT ![s] =
                [i \in DOMAIN trig[s] |-> [trig[s][i] EXCEPT !.left = 0]]]
  /\ rpc' = [rpc EXCEPT ![s] = "sync"]
  /\ NoOffer
  /\ UNCHANGED <<content, bound, filters, ops, rebinds, window, preVars, epochs,
                 proc, ex, historyVars>>

(* The request's resync. *)
SyncBuffer(s) ==
  /\ rpc[s] = "sync"
  /\ Resync
  /\ rpc' = [rpc EXCEPT ![s] = "none"]
  /\ NoOffer
  /\ UNCHANGED <<content, bound, filters, trig, ops, rebinds, window, epochs,
                 proc, ex, historyVars>>

(* logs.clear: LogStore's two halves. *)
ClearLogs ==
  /\ \E c \in Clients : ClearBegin(c) \/ ClearEnd(c)
  /\ UNCHANGED <<content, sessionVars, window, preVars, epochs, proc, ex,
                 refused, historyVars>>

(* logs.export: the query, with the store's floor under the same lock.    *)
(* One export, at any time.                                               *)
ExportQuery(from, to) ==
  /\ ex = NoExport
  /\ ex' = [pc |-> "queried", from |-> from, to |-> to, lost |-> lostBelow,
            empty |-> held = {},
            capped |-> Cardinality({s \in held : s >= from /\ (to > 0 => s <= to)})
                         > ExportCount]
  /\ NoOffer
  /\ UNCHANGED <<content, sessionVars, window, preVars, epochs, proc, historyVars>>

(* The range: asked for, or what this incarnation can answer for. *)
ExportRange ==
  /\ ex.pc = "queried"
  /\ ex' = [pc |-> "ranged", empty |-> ex.empty, capped |-> ex.capped,
            evicted |-> ex.from > 0 /\ ex.lost > ex.from,
            from |-> IF ex.from > 0 THEN ex.from
                     ELSE Larger(Larger(Origin + 1, ex.lost), admitFrom),
            to |-> IF ex.to > 0 THEN ex.to ELSE counter]
  /\ NoOffer
  /\ UNCHANGED <<content, sessionVars, window, preVars, epochs, proc, historyVars>>

(* The verdict, from the epoch log as it is now. *)
ExportGrade ==
  /\ ex.pc = "ranged"
  /\ ex' = [pc |-> "graded", from |-> ex.from, to |-> ex.to,
            judged |-> decided,
            verdict |-> IF ex.empty \/ ex.from > ex.to THEN "cannot_verify"
                        ELSE Grade(ex.from, ex.to, ex.evicted, ex.capped)]
  /\ NoOffer
  /\ UNCHANGED <<content, sessionVars, window, preVars, epochs, proc, historyVars>>
-----------------------------------------------------------------------------
ProcessorStep ==
  \/ \E c \in Contents : Receive(c)
  \/ Snapshot
  \/ \E s \in Sessions, n \in 0..MaxWindow : Decrement([s |-> s, pre |-> n])
  \/ Evaluate
  \/ StoreMatch
  \/ Drain
  \/ CopyTrace
  \/ InsertFlushed
  \/ Extend
  \/ Notify
  \/ ProcResync
  \/ Buffer
  \/ StoreUnconditionally
  \/ Decide
  \/ Observe
  \/ AppendDecided

RequestStep(s) ==
  \/ \E f \in Filters : AddFilter(s, f) \/ RemoveFilter(s, f)
  \/ \E f, g \in Filters : EditFilter(s, f, g)
  \/ \E i \in TriggerIds, def \in TriggerDefs : AddTrigger(s, i, def)
  \/ \E i \in TriggerIds, def \in TriggerDefs : EditTrigger(s, i, def)
  \/ \E i \in TriggerIds : RemoveTrigger(s, i)
  \/ SetDomain(s)
  \/ ResetWindows(s)
  \/ SyncBuffer(s)

IngestNext ==
  \/ ProcessorStep
  \/ SpanNumbered
  \/ \E s \in Sessions : RequestStep(s)
  \/ ClearLogs
  \/ \E ask \in ExportAsks : ExportQuery(ask[1], ask[2])
  \/ ExportRange
  \/ ExportGrade

IngestSpec == IngestInit /\ [][IngestNext]_ingestVars
-----------------------------------------------------------------------------
StoredEver(s) == s \in held \/ s \in departed

(* Log records numbered after a and up to b. *)
LogsBetween(a, b) == {x \in Logs : x > a /\ x <= b}

(* A firing keeps its promise backwards: the pre_window log records       *)
(* before the match were stored, or a floor refused them, even when       *)
(* another session drained the buffer first (log_processor.rs, flush).    *)
(* Records that arrived while the buffer was smaller than the window are  *)
(* beyond its reach.                                                      *)
PreWindowCaptured ==
  \A f \in fires : \A x \in Logs :
    (/\ x < f.seq
     /\ Cardinality(LogsBetween(x - 1, f.seq - 1)) <= f.pre
     /\ x > shortTo[f.pre])
      => StoredEver(x) \/ x \in refused

(* A firing keeps its promise forwards: the post_window log records after *)
(* it were stored past every filter, even when a shorter window was       *)
(* opened meanwhile (extend_post_window), as long as the session stays:   *)
(* set_domain cancels the windows of a session that leaves or comes back. *)
PostWindowKept ==
  \A f \in standing : \A x \in decided :
    (x > f.seq /\ Cardinality(LogsBetween(f.seq, x)) <= f.post)
      => StoredEver(x) \/ x \in refused

(* A trigger is silenced by its own window only: a record that matches it *)
(* with no firing of its own in reach fires it, however busy the          *)
(* session's other triggers are (TriggerManager::evaluate).  A session    *)
(* that set_domain has moved still has its old windows until              *)
(* reset_post_windows.                                                    *)
OwnWindowOnly ==
  [][(proc.pc = "evaluate" /\ proc'.pc # "evaluate" /\ rpc[proc.s] # "reset") =>
     \A i \in DOMAIN trig[proc.s] :
       (/\ content[proc.seq] \in trig[proc.s][i].on
        /\ \A f \in fires :
             (f.s = proc.s /\ f.id = i)
               => Cardinality(LogsBetween(f.seq, proc.seq)) > f.post)
         => proc'.pc = "match" /\ \E m \in proc'.fired : m.id = i]_ingestVars

(* A oneshot trigger fires once in its life. *)
OneshotOnce ==
  \A f, g \in fires : (f.oneshot /\ f.s = g.s /\ f.id = g.id) => f.seq >= g.seq

(* With no request or oneshot removal about to resync, the buffer is      *)
(* exactly as large as the largest pre_window of the bound sessions       *)
(* needs, and never reaches further back than that many arrivals.         *)
BufferFits ==
  ((\A s \in DOMAIN rpc : rpc[s] = "none") /\ proc.pc # "resync") =>
    /\ preCap = DomainPre
    /\ \A x \in DOMAIN preBuf : preBuf[x] >= arrivals - preCap

(* A window in flight never exceeds the window its trigger now asks for:  *)
(* shrinking post_window takes effect at once (TriggerManager::edit).     *)
WindowWithinAsked ==
  \A s \in DOMAIN trig : \A i \in DOMAIN trig[s] : trig[s][i].left <= trig[s][i].post

(* What a trigger keeps holds after any edit, rebind or removal: its post  *)
(* window, the window it now asks for, and a buffer of the size it needs.  *)
WindowsKept == PostWindowKept /\ WindowWithinAsked /\ BufferFits

(* Complete is earned: every log record in the range whose fate was       *)
(* settled when the export was graded had been stored, unless a clear in  *)
(* progress refused it: no filter ever narrowed the range unrecorded      *)
(* (EpochLog::observe, coverage and its overflow).                        *)
EvidenceSound ==
  (ex.pc = "graded" /\ ex.verdict = "complete") =>
    \A x \in ex.judged :
      (x >= ex.from /\ x <= ex.to) => StoredEver(x) \/ x \in refused
=============================================================================
