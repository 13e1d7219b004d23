------------------------------ MODULE Receivers ------------------------------
(***************************************************************************)
(* The OTLP inputs of a domain (receiver/otlp/http.rs and grpc.rs), the    *)
(* channels they feed without ever waiting, the loss counters beside them  *)
(* (receiver/metrics.rs), the span processor that drains the span channel  *)
(* into the ring (daemon/span_processor.rs), and the window of a collector *)
(* that must say whether spans went missing while it was open              *)
(* (ingest_baseline in collector/registry.rs).                             *)
(*                                                                         *)
(* Exports run at the same time, entry by entry, against one channel.  A   *)
(* batch is refused whole when the channel is at 80 percent as it arrives, *)
(* and loses single spans when the channel fills while it is being sent.   *)
(* The counters are atomics no lock guards: the registry's lock, under     *)
(* which a window is closed and the next one opened, holds the processor   *)
(* back but not the receivers.                                             *)
(***************************************************************************)
EXTENDS SpanStore

CONSTANTS
  Exporters,       \* exports that may overlap
  TraceBatches,    \* the batches of spans clients send
  LogBatches,      \* the batches of log records: sequences of [text |-> BOOLEAN]
  ChannelCapacity, \* capacity of the span channel, and of the log channel
  MaxExports,      \* bound: batches sent
  MaxWindows       \* bound: windows opened

Bad == [seq |-> -1]       \* a span with no usable trace id, span id or name
ASSUME TraceBatchAssumption == \A b \in TraceBatches : b \in Seq(SentSpans \cup {Bad})
ASSUME LogBatchAssumption == \A b \in LogBatches : b \in Seq([text : BOOLEAN])

BackpressureThreshold == 80
Causes == {"dropped", "shed_batches", "malformed"}
NoLoss == [c \in Causes |-> 0]
NotSending == [left |-> <<>>, kind |-> "none"]
(* An export with these entries yet to handle. *)
Remaining(left, kind) == IF left = <<>> THEN NotSending ELSE [left |-> left, kind |-> kind]

VARIABLES
  channel,     \* spans sent and not yet processed
  logChannel,  \* log records sent and not yet processed: their number
  export,      \* per exporter: the entries of its batch not yet handled
  loss,        \* the counters trace_ingest_loss sums
  logDrops,    \* drops of log records
  open,        \* FALSE once the processors are aborted (DomainReceivers)
  window,      \* the collector's: what it folded, its baseline
  taking,      \* the registry's write lock: the step of a snapshot or reset
  exports, windows,
  offered,     \* history: spans clients sent, refused batches included
  refused,     \* history: spans of refused batches
  opened       \* history: spans handled, and spans queued, as the window opened

recvVars == <<channel, logChannel, export, loss, logDrops, open, window, taking,
              exports, windows, offered, refused, opened>>
allVars == <<spanVars, recvVars>>

RecvInit ==
  /\ SpanInit
  /\ channel = <<>>
  /\ logChannel = 0
  /\ export = [e \in Exporters |-> NotSending]
  /\ loss = NoLoss
  /\ logDrops = 0
  /\ open = TRUE
  /\ window = [folded |-> 0, baseline |-> NoLoss, by |-> "arm"]
  /\ taking = [step |-> "none"]
  /\ exports = 0
  /\ windows = 0
  /\ offered = 0
  /\ refused = 0
  /\ opened = [handled |-> 0, queued |-> 0]
-----------------------------------------------------------------------------
(* channel_used_pct *)
UsedPct(used) == (used * 100) \div ChannelCapacity
Shedding(used) == UsedPct(used) >= BackpressureThreshold

Lose(cause) == loss' = [loss EXCEPT ![cause] = @ + 1]

(* record_trace_batch_shed: the body is never read, so a batch is counted. *)
Shed == Lose("shed_batches")

(* handle_traces_inner and OtlpTraceService::export, at the gate. *)
ExportTraces(e, batch) ==
  /\ export[e] = NotSending
  /\ open
  /\ exports < MaxExports
  /\ exports' = exports + 1
  /\ offered' = offered + Len(batch)
  /\ IF Shedding(Len(channel))
       THEN Shed /\ refused' = refused + Len(batch) /\ UNCHANGED export
       ELSE /\ export' = [export EXCEPT ![e] = Remaining(batch, "traces")]
            /\ UNCHANGED <<loss, refused>>
  /\ UNCHANGED <<spanVars, channel, logChannel, logDrops, open, window, taking, windows, opened>>

(* handle_logs_inner and OtlpLogsService::export: a refusal is the answer. *)
ExportLogs(e, batch) ==
  /\ export[e] = NotSending
  /\ open
  /\ exports < MaxExports
  /\ exports' = exports + 1
  /\ export' = IF Shedding(logChannel) THEN export
               ELSE [export EXCEPT ![e] = Remaining(batch, "logs")]
  /\ UNCHANGED <<spanVars, channel, logChannel, loss, logDrops, open, window, taking,
                 windows, offered, refused, opened>>

Next1(e) ==
  export' = [export EXCEPT ![e] = Remaining(Tail(@.left), @.kind)]

(* try_send_span: never parks.  A closed channel counts nothing. *)
SendSpan(s) ==
  IF ~open THEN UNCHANGED <<channel, loss>>
  ELSE IF Len(channel) < ChannelCapacity
    THEN channel' = Append(channel, s) /\ UNCHANGED loss
    ELSE Lose("dropped") /\ UNCHANGED channel

(* One span of a batch: parsed and sent, or counted as malformed. *)
ExportSpan(e) ==
  /\ export[e].kind = "traces"
  /\ Next1(e)
  /\ IF Head(export[e].left) = Bad
       THEN Lose("malformed") /\ UNCHANGED channel
       ELSE SendSpan(Head(export[e].left))
  /\ UNCHANGED <<spanVars, logChannel, logDrops, open, window, taking, exports, windows,
                 offered, refused, opened>>

(* Mutant of LogDrop: one loss counter for logs and spans. *)
LogDropShared == Lose("dropped") /\ UNCHANGED logDrops
LogDrop == logDrops' = logDrops + 1 /\ UNCHANGED loss

(* One log record: an empty message is skipped; else try_send_log. *)
ExportLog(e) ==
  /\ export[e].kind = "logs"
  /\ Next1(e)
  /\ IF ~Head(export[e].left).text \/ ~open
       THEN UNCHANGED <<logChannel, loss, logDrops>>
       ELSE IF logChannel < ChannelCapacity
         THEN logChannel' = logChannel + 1 /\ UNCHANGED <<loss, logDrops>>
         ELSE LogDrop /\ UNCHANGED logChannel
  /\ UNCHANGED <<spanVars, channel, open, window, taking, exports, windows, offered, refused, opened>>
-----------------------------------------------------------------------------
(* process_span_for_domain: the ring, then the collector, whose registry   *)
(* must not be locked for writing.                                         *)
ProcessSpan ==
  /\ channel # <<>>
  /\ open
  /\ taking.step = "none"
  /\ number < MaxNumber
  /\ Insert(Head(channel))
  /\ channel' = Tail(channel)
  /\ window' = [window EXCEPT !.folded = @ + 1]
  /\ UNCHANGED <<logChannel, export, loss, logDrops, open, taking, exports, windows,
                 offered, refused, opened>>

(* The log processor takes a record off its channel; it takes a number. *)
ProcessLog ==
  /\ logChannel > 0
  /\ open
  /\ logChannel' = logChannel - 1
  /\ NumberLog
  /\ UNCHANGED <<channel, export, loss, logDrops, open, window, taking, exports, windows,
                 offered, refused, opened>>

(* domains.clear *)
ClearDomain ==
  /\ buffer # <<>>
  /\ ClearSpans
  /\ UNCHANGED recvVars

(* DomainReceivers::drop aborts the processors. *)
CloseDomain ==
  /\ open
  /\ open' = FALSE
  /\ UNCHANGED <<spanVars, channel, logChannel, export, loss, logDrops, window, taking,
                 exports, windows, offered, refused, opened>>
-----------------------------------------------------------------------------
Sending == {e \in Exporters : export[e].kind = "traces"}
(* The spans of batches under way not yet handled, by their place from the *)
(* end, and the number of those clients sent that were.                    *)
Unsent == UNION {{e} \X (1..Len(export[e].left)) : e \in Sending}
Handled == offered - Cardinality(Unsent)

(* The collector's window: swap starts a fresh one. *)
Swap(by, baseline) ==
  /\ window' = [folded |-> 0, baseline |-> baseline, by |-> by]
  /\ opened' = [handled |-> Handled, queued |-> Len(channel)]

(* snapshot(reset): the counters are read, then the data swapped. *)
SnapshotRead ==
  /\ taking.step = "none"
  /\ windows < MaxWindows
  /\ windows' = windows + 1
  /\ taking' = [step |-> "swap", read |-> loss]
  /\ UNCHANGED <<spanVars, channel, logChannel, export, loss, logDrops, open, window,
                 exports, offered, refused, opened>>

(* Mutant of SnapshotSwap: the counters are read again after the swap. *)
SnapshotSwapRereads ==
  /\ taking.step = "swap"
  /\ Swap("snapshot", window.baseline)
  /\ taking' = [step |-> "read"]
  /\ UNCHANGED <<spanVars, channel, logChannel, export, loss, logDrops, open, exports,
                 windows, offered, refused>>

SnapshotSwap ==
  /\ taking.step = "swap"
  /\ Swap("snapshot", taking.read)
  /\ taking' = [step |-> "none"]
  /\ UNCHANGED <<spanVars, channel, logChannel, export, loss, logDrops, open, exports,
                 windows, offered, refused>>

(* reset: the data is swapped, then the counters are read. *)
ResetSwap ==
  /\ taking.step = "none"
  /\ windows < MaxWindows
  /\ windows' = windows + 1
  /\ Swap("reset", window.baseline)
  /\ taking' = [step |-> "read"]
  /\ UNCHANGED <<spanVars, channel, logChannel, export, loss, logDrops, open, exports, offered,
                 refused>>

ResetRead ==
  /\ taking.step = "read"
  /\ window' = [window EXCEPT !.baseline = loss]
  /\ taking' = [step |-> "none"]
  /\ UNCHANGED <<spanVars, channel, logChannel, export, loss, logDrops, open, exports,
                 windows, offered, refused, opened>>

RecvNext ==
  \/ \E e \in Exporters :
       \/ \E b \in TraceBatches : ExportTraces(e, b)
       \/ \E b \in LogBatches : ExportLogs(e, b)
       \/ ExportSpan(e)
       \/ ExportLog(e)
  \/ ProcessSpan \/ ProcessLog \/ ClearDomain \/ CloseDomain
  \/ SnapshotRead \/ SnapshotSwap \/ ResetSwap \/ ResetRead

RecvSpec == RecvInit /\ [][RecvNext]_allVars
-----------------------------------------------------------------------------
(* TraceIngestLoss::since, with saturating subtraction. *)
Since(now, baseline) ==
  [c \in Causes |-> IF now[c] >= baseline[c] THEN now[c] - baseline[c] ELSE 0]

(* Every span a client sent is in one place: stored, queued, refused with  *)
(* its batch, or counted among the lost; a drop of a log is no span's, and *)
(* spans refused with their batch show in its counter.                     *)
SpansAccounted ==
  open =>
    /\ Handled = Cardinality(stored) + Len(channel) + refused
                  + loss["dropped"] + loss["malformed"]
    /\ refused > 0 => loss["shed_batches"] > 0

(* What the window has seen of the spans handled since it opened. *)
Whole == window.folded + Len(channel) = (Handled - opened.handled) + opened.queued

(* A window that reports no loss lost no span: every span handled since it *)
(* opened, whole batches refused included, was folded into it or is on its *)
(* way (ingest_baseline).  For the windows arming or a snapshot opened.    *)
CleanWindowIsWhole ==
  open /\ window.by # "reset" /\ Since(loss, window.baseline) = NoLoss => Whole

(* Every span sent is stored, queued, refused or counted as lost; a window *)
(* that reports no loss lost none; a range's floor and every view by trace *)
(* tell the truth about the ring (receiver/, span/store.rs).               *)
SpansTold == SpansAccounted /\ CleanWindowIsWhole /\ RangeTellsLoss /\ TraceViewsExact
=============================================================================
