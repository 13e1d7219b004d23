----------------------------- MODULE IngestProofs -----------------------------
(***************************************************************************)
(* Proofs about Ingest, for every set of sessions, filters and triggers    *)
(* and every size of the ring, the windows and the epoch log: a oneshot    *)
(* trigger fires once, the post-windows are kept, the pre-trigger buffer   *)
(* has the size it needs and a fired trigger's pre-window is in the store, *)
(* a trigger is silenced by its own window only, and an export calls a     *)
(* range complete only when every record of it was stored.                 *)
(***************************************************************************)
EXTENDS Ingest, LogStoreProofs

-----------------------------------------------------------------------------
(* The shape of the state. *)

Waiting == [s : Sessions, pre : Windows]
Hits == [id : TriggerIds, pre : Windows, post : Windows, oneshot : BOOLEAN]
Firings == [s : Sessions, id : TriggerIds, seq : Nat, pre : Windows, post : Windows,
            oneshot : BOOLEAN]

FiringPcs == {"match", "drain", "copy", "insert", "extend", "notify"}

(* What the processor holds of the record in hand, by where it is with it. *)
Numbered == [pc : {"snapshot"}, seq : Nat]
Serving == [pc : {"sessions", "resync", "store"}, seq : Nat, any : BOOLEAN,
            todo : SUBSET Waiting]
Evaluating == [pc : {"evaluate"}, seq : Nat, any : BOOLEAN, todo : SUBSET Waiting,
               s : Sessions]
Matching == [pc : FiringPcs, seq : Nat, any : BOOLEAN, todo : SUBSET Waiting,
             s : Sessions, batch : SUBSET Nat, fired : SUBSET Hits]
Deciding == [pc : {"observe", "append"}, seq : Nat, policy : SUBSET Filters,
             keep : BOOLEAN]
Hands == {IdleProc} \cup Numbered \cup Serving \cup Evaluating \cup Matching
           \cup Deciding

InHand == proc.pc # "idle"

Epochs == [from : Nat, policy : SUBSET Filters]

StoreTyped ==
  /\ counter \in Nat
  /\ held \subseteq 1..counter
  /\ lostBelow \in Nat
  /\ admitFrom \in Nat
  /\ clearing \in [Clients -> {NotClearing} \cup Nat]

SessionsTyped ==
  /\ bound \subseteq Sessions
  /\ filters \in [Sessions -> SUBSET Filters]
  /\ DOMAIN trig = Sessions
  /\ \A s \in Sessions : \A i \in DOMAIN trig[s] :
       i \in TriggerIds /\ trig[s][i] \in Triggers
  /\ window \in [Sessions -> Nat]
  /\ rpc \in [Sessions -> {"none", "reset", "sync"}]

RecordsTyped ==
  /\ content \in Seq(Contents \cup {SpanContent})
  /\ Len(content) = counter
  /\ DOMAIN preBuf \subseteq 1..counter
  /\ epochs \in Seq(Epochs)
  /\ proc \in Hands
  /\ decided \subseteq 1..counter
  /\ fires \subseteq Firings
  /\ standing \subseteq fires

ExportTyped ==
  /\ ex.pc = "queried" => ex.from \in Nat /\ ex.to \in Nat /\ ex.lost \in Nat
  /\ ex.pc \in {"ranged", "graded"} => ex.from \in Nat /\ ex.to \in Nat

(* The record in hand is a log record, the newest the processor has seen:  *)
(* what it decided, fired and observed before was before it.               *)
HandSound ==
  /\ InHand => /\ proc.seq \in 1..counter
               /\ IsLog(proc.seq)
               /\ \A d \in decided : d < proc.seq
               /\ \A f \in fires : f.seq <= proc.seq
               /\ \A i \in DOMAIN epochs : epochs[i].from <= proc.seq
  /\ \A f \in fires : f.seq <= counter
  /\ \A i \in DOMAIN epochs : epochs[i].from <= counter
  /\ proc.pc \in FiringPcs => proc.batch \subseteq 1..counter /\ proc.fired # {}

Typed == StoreTyped /\ SessionsTyped /\ RecordsTyped /\ ExportTyped /\ HandSound
-----------------------------------------------------------------------------
(* Why an export is right. *)

(* Records whose fate the store or its floors settled. *)
Accounted == held \cup departed \cup refused

(* The epoch log tells that x may have been filtered out: it no longer     *)
(* reaches back to x, or x is in an epoch with a filter.                   *)
ToldFiltered(x) ==
  \/ epochs # <<>> /\ x < epochs[1].from
  \/ \E i \in DOMAIN epochs :
       /\ epochs[i].policy # {}
       /\ epochs[i].from <= x
       /\ i < Len(epochs) => x < epochs[i + 1].from

EpochsSound ==
  /\ \A i \in DOMAIN epochs : i < Len(epochs) => epochs[i].from <= epochs[i + 1].from
  /\ \A x \in decided : x \in Accounted \/ ToldFiltered(x)
  /\ proc.pc \in {"observe", "append"} /\ ~proc.keep => proc.policy # {}
  /\ proc.pc = "append" => epochs # <<>> /\ epochs[Len(epochs)].policy = proc.policy
-----------------------------------------------------------------------------
(* Why a oneshot trigger fires once. *)

(* f was a oneshot's, and its trigger is about to be taken out. *)
Leaving(f) ==
  /\ proc.pc \in {"extend", "notify"}
  /\ proc.s = f.s
  /\ proc.seq = f.seq
  /\ \E m \in proc.fired : m.id = f.id /\ m.oneshot

OneshotSound ==
  /\ \A f \in fires : f.oneshot => f.id \notin DOMAIN trig[f.s] \/ Leaving(f)
  /\ proc.pc \in {"match", "drain", "copy", "insert"} =>
       \A f \in fires, m \in proc.fired : f.oneshot /\ f.s = proc.s => f.id # m.id
-----------------------------------------------------------------------------
(* Why a post-window is kept. *)

TodoPcs == {"sessions", "resync", "store", "evaluate"} \cup FiringPcs

(* The record in hand has yet to be counted against the windows of s. *)
Unserved(s) ==
  \/ proc.pc = "snapshot"
  \/ proc.pc \in TodoPcs /\ \E e \in proc.todo : e.s = s

TodoSound ==
  /\ proc.pc \in TodoPcs => \A d, e \in proc.todo : d.s = e.s => d = e
  /\ proc.pc \in {"evaluate"} \cup FiringPcs => \A e \in proc.todo : e.s # proc.s
  /\ proc.pc = "store" => proc.todo = {}

(* The log records after a firing, up to b. *)
Reach(f, b) == Cardinality(LogsBetween(f.seq, b))

(* The session's window covers what is left of the one f promised. *)
Promised(f) ==
  /\ f.s \in bound
  /\ ~InHand => window[f.s] + Reach(f, counter) >= f.post
  /\ InHand /\ f.seq < proc.seq /\ Unserved(f.s) =>
       window[f.s] + Reach(f, proc.seq - 1) >= f.post
  /\ InHand /\ f.seq < proc.seq /\ ~Unserved(f.s) =>
       /\ window[f.s] + Reach(f, proc.seq) >= f.post
       /\ proc.pc \in TodoPcs => (Reach(f, proc.seq) <= f.post => proc.any)
       /\ proc.pc \notin TodoPcs => Reach(f, proc.seq) > f.post
  /\ InHand /\ f.seq = proc.seq =>
       /\ ~Unserved(f.s)
       /\ \/ window[f.s] >= f.post
          \/ /\ proc.pc = "extend"
             /\ proc.s = f.s
             /\ \E m \in proc.fired : m.post = f.post

PromisesSound == TodoSound /\ \A f \in standing : Promised(f)
-----------------------------------------------------------------------------
(* The operators. *)

(* A bounded, non-empty set of naturals has the greatest member Top picks. *)
LEMMA TopFacts ==
  ASSUME NEW n \in Nat, NEW T, T \subseteq 0..n, T # {}
  PROVE  Top(T) \in T /\ \A y \in T : y <= Top(T)
<1>1. \E x \in T : \A y \in T : y <= x
  BY GreatestExists
<1> QED
  BY <1>1 DEF Top

(* A session's pre-window is one of its triggers', or none. *)
LEMMA PreTyped ==
  ASSUME SessionsTyped, NEW s \in Sessions
  PROVE  SessionPre(s) \in Windows
<1> DEFINE T == {0} \cup {trig[s][i].pre : i \in DOMAIN trig[s]}
<1>1. T \subseteq 0..MaxWindow /\ T # {}
  BY WindowAssumption DEF SessionsTyped, Triggers, Windows
<1> HIDE DEF T
<1>2. Top(T) \in T
  BY <1>1, TopFacts, WindowAssumption
<1> QED
  BY <1>1, <1>2 DEF T, SessionPre, Windows

(* Where the processor is tells what it holds. *)
LEMMA HandFields ==
  ASSUME proc \in Hands
  PROVE  /\ proc.pc \in {"idle", "snapshot", "sessions", "resync", "store", "evaluate",
                         "observe", "append"} \cup FiringPcs
         /\ proc.pc = "idle" => proc = IdleProc
         /\ proc.pc = "snapshot" => proc \in Numbered
         /\ proc.pc \in {"sessions", "resync", "store"} => proc \in Serving
         /\ proc.pc = "evaluate" => proc \in Evaluating
         /\ proc.pc \in FiringPcs => proc \in Matching
         /\ proc.pc \in {"observe", "append"} => proc \in Deciding
BY DEF Hands, IdleProc, Numbered, Serving, Evaluating, Matching, Deciding, FiringPcs

LEMMA EpochFacts ==
  ASSUME RecordsTyped
  PROVE  /\ Len(epochs) \in Nat /\ DOMAIN epochs = 1..Len(epochs)
         /\ \A i \in DOMAIN epochs : epochs[i].from \in Nat
<1>1. epochs \in Seq(Epochs)
  BY DEF RecordsTyped
<1>2. Len(epochs) \in Nat /\ DOMAIN epochs = 1..Len(epochs)
  BY <1>1
<1>3. \A i \in DOMAIN epochs : epochs[i] \in Epochs
  BY <1>1
<1> QED
  BY <1>2, <1>3 DEF Epochs
-----------------------------------------------------------------------------
(* The store under the processor. *)

(* What is offered is held, has left again at once, or was refused, and    *)
(* nothing accounted for before is forgotten.                              *)
LEMMA OfferFacts ==
  ASSUME StoreTyped, NEW batch, batch \subseteq 1..counter, Offer(batch)
  PROVE  /\ StoreTyped' /\ counter' = counter
         /\ Accounted \subseteq Accounted' /\ batch \subseteq Accounted'
<1> DEFINE admitted == {s \in batch \ held : s >= RefuseBelow}
           kept == Newest(held \cup admitted)
           dropped == (held \cup admitted) \ kept
<1>1. /\ held' = kept /\ lostBelow' = RaisePast(lostBelow, dropped)
      /\ departed' = departed \cup dropped /\ admitFrom' = admitFrom
      /\ refused' = refused \cup {s \in batch \ held : s < RefuseBelow}
      /\ counter' = counter /\ clearing' = clearing
  BY DEF Offer, Merge
<1>2. held \cup admitted \subseteq 1..counter
  BY DEF StoreTyped
<1>3. kept \subseteq held \cup admitted
  BY DEF Newest
<1>4. RefuseBelow \in Nat
  BY DEF RefuseBelow, Larger, StoreTyped
<1>5. batch \ held \subseteq admitted \cup {s \in batch \ held : s < RefuseBelow}
  <2>1. ASSUME NEW s \in batch \ held
        PROVE  s >= RefuseBelow \/ s < RefuseBelow
    <3>1. s \in 1..counter
      BY <2>1
    <3> QED
      BY <1>4, <3>1 DEF StoreTyped
  <2> QED
    BY <2>1, Zenon
<1> HIDE DEF kept, admitted
<1>6. lostBelow' \in Nat
  <2>1. dropped \in SUBSET (1..counter) /\ lostBelow \in Nat /\ counter \in Nat
    BY <1>2, <1>3 DEF StoreTyped
  <2> HIDE DEF dropped
  <2> QED
    BY <1>1, <2>1, RaisePastFacts
<1>7. StoreTyped'
  BY <1>1, <1>2, <1>3, <1>6 DEF StoreTyped
<1>8. held \cup admitted \subseteq held' \cup departed' /\ departed \subseteq departed'
  BY <1>1
<1> QED
  BY <1>1, <1>5, <1>7, <1>8 DEF Accounted

LEMMA NoOfferFacts ==
  ASSUME StoreTyped, NoOffer
  PROVE  StoreTyped' /\ counter' = counter /\ Accounted' = Accounted /\ held' = held
BY DEF NoOffer, StoreTyped, Accounted, vars, storeVars

LEMMA AssignFacts ==
  ASSUME StoreTyped, AssignSeq, refused' = refused
  PROVE  StoreTyped' /\ counter' = counter + 1 /\ Accounted' = Accounted
BY DEF AssignSeq, StoreTyped, Accounted, storeVars

LEMMA ClearFacts ==
  ASSUME StoreTyped, ClearLogs
  PROVE  StoreTyped' /\ counter' = counter /\ Accounted' = Accounted
<1>1. ASSUME NEW c \in Clients, ClearBegin(c)
      PROVE  StoreTyped' /\ counter' = counter /\ Accounted' = Accounted
  BY <1>1 DEF ClearBegin, ClearLogs, StoreTyped, Accounted, storeVars
<1>2. ASSUME NEW c \in Clients, ClearEnd(c)
      PROVE  StoreTyped' /\ counter' = counter /\ Accounted' = Accounted
  <2>1. /\ clearing[c] \in Nat /\ held' = {} /\ lostBelow' = RaisePast(lostBelow, held)
        /\ admitFrom' = Larger(admitFrom, clearing[c] + 1)
        /\ departed' = departed \cup held /\ counter' = counter
        /\ clearing' = [clearing EXCEPT ![c] = NotClearing] /\ refused' = refused
    BY <1>2 DEF ClearEnd, ClearStore, RaiseAdmission, StoreTyped, ClearLogs
  <2>2. lostBelow' \in Nat
    BY <2>1, RaisePastFacts DEF StoreTyped
  <2>3. admitFrom' \in Nat
    BY <2>1 DEF StoreTyped, Larger
  <2>4. clearing' \in [Clients -> {NotClearing} \cup Nat]
    BY <2>1 DEF StoreTyped
  <2>5. Accounted' = Accounted
    BY <2>1 DEF Accounted
  <2> QED
    BY <2>1, <2>2, <2>3, <2>4, <2>5 DEF StoreTyped
<1> QED
  BY <1>1, <1>2 DEF ClearLogs
-----------------------------------------------------------------------------
(* Typed is inductive. *)

(* A step of the processor on the record in hand that neither fires,       *)
(* observes nor decides.                                                   *)
LEMMA HandStep ==
  ASSUME Typed, InHand, proc' \in Hands, proc'.pc # "idle", proc'.seq = proc.seq,
         proc'.pc \in FiringPcs => proc'.batch \subseteq 1..counter /\ proc'.fired # {},
         StoreTyped', counter' = counter, SessionsTyped',
         UNCHANGED <<content, epochs, ex, decided, fires, standing>>,
         DOMAIN preBuf' \subseteq DOMAIN preBuf \cup {proc.seq}
  PROVE  Typed'
<1>1. RecordsTyped'
  BY DEF Typed, RecordsTyped, HandSound
<1>2. ExportTyped'
  BY DEF Typed, ExportTyped
<1>3. HandSound'
  BY DEF Typed, HandSound, InHand, IsLog
<1> QED
  BY <1>1, <1>2, <1>3 DEF Typed

(* A step of a request, with the processor where it is. *)
LEMMA RequestTyped ==
  ASSUME Typed, StoreTyped', counter' = counter, SessionsTyped', ExportTyped',
         UNCHANGED <<proc, content, epochs, decided, fires>>,
         DOMAIN preBuf' \subseteq DOMAIN preBuf, standing' \subseteq standing
  PROVE  Typed'
<1>1. RecordsTyped'
  BY DEF Typed, RecordsTyped
<1>2. HandSound'
  BY DEF Typed, HandSound, InHand, IsLog
<1> QED
  BY <1>1, <1>2 DEF Typed

(* A session's triggers are replaced. *)
LEMMA TriggersTyped ==
  ASSUME SessionsTyped, NEW s \in Sessions, NEW T,
         \A i \in DOMAIN T : i \in TriggerIds /\ T[i] \in Triggers,
         trig' = [trig EXCEPT ![s] = T], UNCHANGED <<bound, filters, window>>,
         rpc' \in [Sessions -> {"none", "reset", "sync"}]
  PROVE  SessionsTyped'
<1>1. DOMAIN trig' = Sessions /\ trig'[s] = T /\ \A r \in Sessions \ {s} : trig'[r] = trig[r]
  BY DEF SessionsTyped
<1> QED
  BY <1>1 DEF SessionsTyped

(* evaluate keeps what a trigger asks for; its debounce stays in bounds. *)
LEMMA CountedFacts ==
  ASSUME NEW s, NEW t \in Triggers, NEW c
  PROVE  /\ Counted(s, t, c) \in Triggers
         /\ Counted(s, t, c).pre = t.pre /\ Counted(s, t, c).post = t.post
         /\ t.left <= t.post => Counted(s, t, c).left <= t.post
<1> DEFINE n == IF t.left > 0 THEN t.left - 1 ELSE IF Matches(s, t, c) THEN t.post ELSE 0
<1>1. t.left \in Windows /\ t.post \in Windows
  BY DEF Triggers
<1>2. n \in Windows /\ (t.left <= t.post => n <= t.post)
  BY <1>1, WindowAssumption DEF Windows
<1>3. Counted(s, t, c) = [t EXCEPT !.left = n]
  BY DEF Counted, Triggers
<1> HIDE DEF n
<1> QED
  BY <1>2, <1>3 DEF Triggers

LEMMA ArmedFacts ==
  ASSUME NEW def \in Defs
  PROVE  /\ Armed(def) \in Triggers /\ Armed(def).left = 0
         /\ Armed(def).pre = def.pre /\ Armed(def).post = def.post
BY WindowAssumption DEF Defs, Triggers, Armed, Windows

(* A record is numbered. *)
LEMMA ReceiveTyped == ASSUME Typed, NEW c \in Contents, Receive(c) PROVE Typed'
<1>1. StoreTyped' /\ counter' = counter + 1 /\ counter \in Nat
  BY AssignFacts DEF Receive, Typed, StoreTyped
<1>2. SessionsTyped' /\ ExportTyped'
  BY DEF Receive, Typed, SessionsTyped, ExportTyped, sessionVars
<1>3. /\ content' \in Seq(Contents \cup {SpanContent}) /\ Len(content') = counter'
      /\ content'[counter + 1] = c
  BY <1>1 DEF Receive, Typed, RecordsTyped
<1>4. /\ proc' = [pc |-> "snapshot", seq |-> counter + 1]
      /\ UNCHANGED <<preBuf, epochs, decided, fires, standing>>
  BY <1>1 DEF Receive, preVars, historyVars
<1>5. proc' \in Hands /\ proc'.pc = "snapshot" /\ proc'.seq = counter + 1
  BY <1>1, <1>4 DEF Hands, Numbered
<1>6. RecordsTyped'
  BY <1>1, <1>3, <1>4, <1>5 DEF Typed, RecordsTyped
<1>7. HandSound'
  <2>1. IsLog(proc.seq)'
    BY <1>3, <1>5, ContentAssumption DEF IsLog
  <2>2. \A f \in fires : f.seq \in Nat
    BY DEF Typed, RecordsTyped, Firings
  <2>3. \A i \in DOMAIN epochs : epochs[i].from \in Nat
    BY EpochFacts DEF Typed
  <2>4. \A d \in decided : d \in Nat /\ d < counter + 1
    BY <1>1 DEF Typed, RecordsTyped
  <2>5. /\ \A f \in fires : f.seq <= counter
        /\ \A i \in DOMAIN epochs : epochs[i].from <= counter
    BY DEF Typed, HandSound
  <2>6. /\ \A f \in fires : f.seq <= counter + 1
        /\ \A i \in DOMAIN epochs : epochs[i].from <= counter + 1
    BY <1>1, <2>2, <2>3, <2>5
  <2>7. counter + 1 \in 1..counter' /\ counter' = counter + 1
    BY <1>1
  <2> QED
    BY <1>4, <1>5, <2>1, <2>4, <2>6, <2>7 DEF HandSound, InHand, FiringPcs
<1> QED
  BY <1>1, <1>2, <1>6, <1>7 DEF Typed

LEMMA SpanNumberedTyped == ASSUME Typed, SpanNumbered PROVE Typed'
<1>1. StoreTyped' /\ counter' = counter + 1 /\ counter \in Nat
  BY AssignFacts DEF SpanNumbered, Typed, StoreTyped
<1>2. SessionsTyped' /\ ExportTyped'
  BY DEF SpanNumbered, Typed, SessionsTyped, ExportTyped, sessionVars
<1>3. /\ content' \in Seq(Contents \cup {SpanContent}) /\ Len(content') = counter'
      /\ \A i \in 1..counter : content'[i] = content[i]
  BY <1>1 DEF SpanNumbered, Typed, RecordsTyped
<1>4. UNCHANGED <<proc, preBuf, epochs, decided, fires, standing>>
  BY DEF SpanNumbered, preVars, historyVars
<1>6. RecordsTyped'
  BY <1>1, <1>3, <1>4 DEF Typed, RecordsTyped
<1>7. HandSound'
  <2>2. \A f \in fires : f.seq \in Nat
    BY DEF Typed, RecordsTyped, Firings
  <2>3. \A i \in DOMAIN epochs : epochs[i].from \in Nat
    BY EpochFacts DEF Typed
  <2>4. /\ \A f \in fires : f.seq <= counter + 1
        /\ \A i \in DOMAIN epochs : epochs[i].from <= counter + 1
    <3>1. /\ \A f \in fires : f.seq <= counter
          /\ \A i \in DOMAIN epochs : epochs[i].from <= counter
      BY DEF Typed, HandSound
    <3> QED
      BY <1>1, <2>2, <2>3, <3>1
  <2>5. InHand => proc.seq \in 1..counter' /\ IsLog(proc.seq)'
    BY <1>1, <1>3, <1>4 DEF Typed, HandSound, IsLog
  <2>6. proc.pc \in FiringPcs => proc.batch \subseteq 1..counter' /\ proc.fired # {}
    BY <1>1 DEF Typed, HandSound
  <2>7. InHand => /\ \A d \in decided : d < proc.seq
                  /\ \A f \in fires : f.seq <= proc.seq
                  /\ \A i \in DOMAIN epochs : epochs[i].from <= proc.seq
    BY DEF Typed, HandSound
  <2> QED
    BY <1>1, <1>4, <2>4, <2>5, <2>6, <2>7 DEF HandSound, InHand
<1> QED
  BY <1>1, <1>2, <1>6, <1>7 DEF Typed

LEMMA SnapshotTyped ==
  ASSUME Typed, Snapshot
  PROVE  Typed' /\ proc'.pc = "sessions" /\ proc'.seq = proc.seq
<1>1. InHand /\ proc \in Numbered
  BY HandFields DEF Snapshot, InHand, Typed, RecordsTyped
<1>2. {[s |-> s, pre |-> SessionPre(s)] : s \in bound} \subseteq Waiting
  BY PreTyped DEF Typed, SessionsTyped, Waiting
<1>3. /\ proc' \in Serving /\ proc'.pc = "sessions" /\ proc'.seq = proc.seq
  <2> DEFINE S == {[s |-> s, pre |-> SessionPre(s)] : s \in bound}
  <2>1. proc' = [pc |-> "sessions", seq |-> proc.seq, any |-> FALSE, todo |-> S]
    BY DEF Snapshot
  <2>2. proc.seq \in Nat
    BY <1>1 DEF Numbered
  <2> HIDE DEF S
  <2> QED
    BY <1>2, <2>1, <2>2 DEF Serving, S
<1>4. StoreTyped' /\ counter' = counter
  BY NoOfferFacts DEF Snapshot, Typed
<1>5. SessionsTyped'
  BY DEF Snapshot, Typed, SessionsTyped, sessionVars
<1>6. UNCHANGED <<content, epochs, ex, decided, fires, standing, preBuf>>
  BY DEF Snapshot, preVars, historyVars
<1> QED
  BY <1>1, <1>3, <1>4, <1>5, <1>6, HandStep DEF Hands, FiringPcs

LEMMA DecrementTyped ==
  ASSUME Typed, NEW e \in Waiting, Decrement(e)
  PROVE  /\ Typed' /\ proc'.pc = "evaluate" /\ proc'.seq = proc.seq /\ proc'.s = e.s
         /\ proc'.todo = proc.todo \ {e}
<1>1. InHand /\ proc \in Serving /\ e.s \in Sessions
  BY HandFields DEF Decrement, InHand, Typed, RecordsTyped, Waiting
<1>2. /\ proc' \in Evaluating /\ proc'.pc = "evaluate" /\ proc'.seq = proc.seq
      /\ proc'.s = e.s /\ proc'.todo = proc.todo \ {e}
  BY <1>1 DEF Decrement, Serving, Evaluating
<1>4. StoreTyped' /\ counter' = counter
  BY NoOfferFacts DEF Decrement, Typed
<1>5. SessionsTyped'
  <2>1. window' \in [Sessions -> Nat]
    BY <1>1 DEF Decrement, Typed, SessionsTyped
  <2> QED
    BY <2>1 DEF Decrement, Typed, SessionsTyped, sessionVars
<1>6. UNCHANGED <<content, epochs, ex, decided, fires, standing, preBuf>>
  BY DEF Decrement, preVars, historyVars
<1> QED
  BY <1>1, <1>2, <1>4, <1>5, <1>6, HandStep DEF Hands, FiringPcs

LEMMA EvaluateTyped ==
  ASSUME Typed, Evaluate
  PROVE  /\ Typed' /\ proc'.seq = proc.seq /\ proc'.todo = proc.todo /\ proc'.any = proc.any
         /\ \/ proc'.pc = "sessions"
            \/ proc'.pc = "match" /\ proc'.s = proc.s
<1> DEFINE s == proc.s
           c == content[proc.seq]
           hit == {i \in DOMAIN trig[s] : Matches(s, trig[s][i], c)}
           T == [i \in DOMAIN trig[s] |-> Counted(s, trig[s][i], c)]
           F == {Fired(i, trig[s][i]) : i \in hit}
<1>1. InHand /\ proc \in Evaluating
  BY HandFields DEF Evaluate, InHand, Typed, RecordsTyped
<1>2. /\ s \in Sessions /\ proc.seq \in Nat /\ proc.any \in BOOLEAN
      /\ proc.todo \in SUBSET Waiting
  BY <1>1 DEF Evaluating
<1>3. /\ trig' = [trig EXCEPT ![s] = T]
      /\ proc' = IF hit = {}
                   THEN [pc |-> "sessions", seq |-> proc.seq, todo |-> proc.todo,
                         any |-> proc.any]
                   ELSE [pc |-> "match", seq |-> proc.seq, todo |-> proc.todo,
                         any |-> proc.any, s |-> s, batch |-> {}, fired |-> F]
      /\ UNCHANGED <<content, epochs, ex, decided, fires, standing, preBuf, bound, filters,
                     window, rpc>>
  BY DEF Evaluate, historyVars, preVars
<1>4. \A i \in DOMAIN trig[s] : i \in TriggerIds /\ trig[s][i] \in Triggers
  BY <1>2 DEF Typed, SessionsTyped
<1>5. F \in SUBSET Hits
  BY <1>4 DEF Fired, Triggers, Hits
<1>6. \A i \in DOMAIN T : i \in TriggerIds /\ T[i] \in Triggers
  BY <1>4, CountedFacts
<1>7. SessionsTyped'
  <2>1. SessionsTyped /\ rpc' \in [Sessions -> {"none", "reset", "sync"}]
    BY <1>3 DEF Typed, SessionsTyped
  <2> HIDE DEF T, s
  <2> QED
    BY <1>2, <1>3, <1>6, <2>1, TriggersTyped
<1> HIDE DEF F, hit, T, c
<1>8. CASE hit = {}
  <2>1. /\ proc' \in Serving /\ proc'.pc = "sessions" /\ proc'.seq = proc.seq
        /\ proc'.todo = proc.todo /\ proc'.any = proc.any
    BY <1>2, <1>3, <1>8 DEF Serving
  <2>2. StoreTyped' /\ counter' = counter
    BY NoOfferFacts DEF Evaluate, Typed
  <2> QED
    BY <1>1, <1>3, <1>7, <2>1, <2>2, HandStep DEF Hands, FiringPcs
<1>9. CASE hit # {}
  <2>1. /\ proc' \in Matching /\ proc'.pc = "match" /\ proc'.seq = proc.seq
        /\ proc'.todo = proc.todo /\ proc'.any = proc.any /\ proc'.s = proc.s
        /\ proc'.batch = {} /\ proc'.fired = F
    BY <1>2, <1>3, <1>5, <1>9 DEF Matching, FiringPcs
  <2>3. F # {}
    BY <1>9 DEF F
  <2>2. StoreTyped' /\ counter' = counter
    BY NoOfferFacts DEF Evaluate, Typed
  <2> QED
    BY <1>1, <1>3, <1>7, <2>1, <2>2, <2>3, HandStep DEF Hands
<1> QED
  BY <1>8, <1>9

(* The steps of a firing keep what the processor holds but for pc, any and *)
(* batch.                                                                  *)
SameMatch ==
  /\ proc' \in Matching /\ proc'.seq = proc.seq /\ proc'.todo = proc.todo
  /\ proc'.s = proc.s /\ proc'.fired = proc.fired

LEMMA StoreMatchTyped ==
  ASSUME Typed, StoreMatch
  PROVE  Typed' /\ SameMatch /\ proc'.pc = "drain" /\ proc'.any = proc.any
<1>1. InHand /\ proc \in Matching
  BY HandFields DEF StoreMatch, InHand, Typed, RecordsTyped, FiringPcs
<1>2. SameMatch /\ proc'.pc = "drain" /\ proc'.any = proc.any /\ proc'.batch = proc.batch
  BY <1>1 DEF StoreMatch, Matching, FiringPcs, SameMatch
<1>3. StoreTyped' /\ counter' = counter
  <2>1. {proc.seq} \subseteq 1..counter
    BY <1>1 DEF Typed, HandSound
  <2> QED
    BY <2>1, NoOfferFacts, OfferFacts DEF StoreMatch, Typed
<1>4. SessionsTyped'
  BY DEF StoreMatch, Typed, SessionsTyped, sessionVars
<1>5. UNCHANGED <<content, epochs, ex, decided, fires, standing, preBuf>>
  BY DEF StoreMatch, preVars, historyVars
<1>6. proc'.batch \subseteq 1..counter /\ proc'.fired # {}
  BY <1>1, <1>2 DEF Typed, HandSound, Matching, SameMatch
<1> QED
  BY <1>1, <1>2, <1>3, <1>4, <1>5, <1>6, HandStep DEF Hands, SameMatch

LEMMA DrainTyped ==
  ASSUME Typed, Drain
  PROVE  Typed' /\ SameMatch /\ proc'.pc = "copy" /\ proc'.any = proc.any
<1>1. InHand /\ proc \in Matching
  BY HandFields DEF Drain, InHand, Typed, RecordsTyped, FiringPcs
<1>0. proc.fired # {}
  BY <1>1 DEF Typed, HandSound, Matching
<1>2. LastArrivals(MaxPre) \subseteq 1..counter
  BY DEF LastArrivals, Typed, RecordsTyped
<1>3. proc' = [proc EXCEPT !.pc = "copy", !.batch = LastArrivals(MaxPre)]
  BY DEF Drain
<1>4. LastArrivals(MaxPre) \in SUBSET Nat
  BY <1>2 DEF Typed, StoreTyped
<1>5. SameMatch /\ proc'.pc = "copy" /\ proc'.any = proc.any
      /\ proc'.batch = LastArrivals(MaxPre)
  BY <1>1, <1>3, <1>4 DEF Matching, FiringPcs, SameMatch
<1>6. StoreTyped' /\ counter' = counter
  BY NoOfferFacts DEF Drain, Typed
<1>7. SessionsTyped'
  BY DEF Drain, Typed, SessionsTyped, sessionVars
<1>8. UNCHANGED <<content, epochs, ex, decided, fires, standing>>
      /\ DOMAIN preBuf' \subseteq DOMAIN preBuf
  BY DEF Drain, BufferDrain, historyVars
<1> QED
  BY <1>0, <1>1, <1>2, <1>5, <1>6, <1>7, <1>8, HandStep DEF Hands, SameMatch

LEMMA CopyTraceTyped ==
  ASSUME Typed, CopyTrace
  PROVE  Typed' /\ SameMatch /\ proc'.pc = "insert" /\ proc'.any = proc.any
<1> DEFINE B == IF content[proc.seq] \in Traced
                  THEN proc.batch \cup {x \in DOMAIN preBuf : content[x] \in Traced}
                  ELSE proc.batch
<1>1. InHand /\ proc \in Matching
  BY HandFields DEF CopyTrace, InHand, Typed, RecordsTyped, FiringPcs
<1>0. proc.fired # {}
  BY <1>1 DEF Typed, HandSound, Matching
<1>2. B \subseteq 1..counter
  <2>1. proc.batch \subseteq 1..counter /\ DOMAIN preBuf \subseteq 1..counter
    BY <1>1 DEF Typed, HandSound, Matching, RecordsTyped
  <2> QED
    BY <2>1
<1>3. proc' = [proc EXCEPT !.pc = "insert", !.batch = B]
  BY <1>1 DEF CopyTrace, Matching
<1>4. B \in SUBSET Nat
  BY <1>2 DEF Typed, StoreTyped
<1> HIDE DEF B
<1>5. SameMatch /\ proc'.pc = "insert" /\ proc'.any = proc.any /\ proc'.batch = B
  BY <1>1, <1>3, <1>4 DEF Matching, FiringPcs, SameMatch
<1>6. StoreTyped' /\ counter' = counter
  BY NoOfferFacts DEF CopyTrace, Typed
<1>7. SessionsTyped'
  BY DEF CopyTrace, Typed, SessionsTyped, sessionVars
<1>8. UNCHANGED <<content, epochs, ex, decided, fires, standing, preBuf>>
  BY DEF CopyTrace, historyVars, preVars
<1> QED
  BY <1>0, <1>1, <1>2, <1>5, <1>6, <1>7, <1>8, HandStep DEF Hands, SameMatch

LEMMA InsertFlushedTyped ==
  ASSUME Typed, InsertFlushed
  PROVE  /\ Typed' /\ SameMatch /\ proc'.pc = "extend" /\ proc'.any = proc.any
         /\ proc \in Matching
<1>1. InHand /\ proc \in Matching
  BY HandFields DEF InsertFlushed, InHand, Typed, RecordsTyped, FiringPcs
<1>2. SameMatch /\ proc'.pc = "extend" /\ proc'.any = proc.any /\ proc'.batch = proc.batch
  BY <1>1 DEF InsertFlushed, Matching, FiringPcs, SameMatch
<1>3. /\ proc.batch \subseteq 1..counter /\ proc.seq \in 1..counter /\ counter \in Nat
      /\ proc.fired # {}
  BY <1>1 DEF Typed, HandSound, Matching, StoreTyped
<1>4. StoreTyped' /\ counter' = counter
  BY <1>3, OfferFacts DEF InsertFlushed, Typed
<1>5. SessionsTyped' /\ ExportTyped'
  BY DEF InsertFlushed, Typed, SessionsTyped, ExportTyped, sessionVars
<1>6. NewFires \subseteq Firings /\ \A f \in NewFires : f.seq = proc.seq
  BY <1>1, <1>3 DEF NewFires, Matching, Hits, Firings
<1>7. /\ UNCHANGED <<content, epochs, decided, preBuf>> /\ fires' = fires \cup NewFires
      /\ standing' \subseteq standing \cup NewFires
  BY DEF InsertFlushed, preVars
<1>8. RecordsTyped'
  BY <1>2, <1>4, <1>6, <1>7 DEF Typed, RecordsTyped, Hands, SameMatch
<1>9. HandSound'
  <2>1. \A f \in fires' : f.seq <= proc.seq /\ f.seq <= counter
    BY <1>1, <1>3, <1>6, <1>7 DEF Typed, HandSound
  <2> QED
    BY <1>1, <1>2, <1>3, <1>4, <1>7, <2>1 DEF Typed, HandSound, InHand, IsLog, SameMatch
<1> QED
  BY <1>1, <1>2, <1>4, <1>5, <1>8, <1>9 DEF Typed

(* The longest window among those fired. *)
LEMMA MaxPostFacts ==
  ASSUME proc \in Matching, proc.fired # {}
  PROVE  MaxPost \in Nat /\ \A m \in proc.fired : m.post <= MaxPost
<1> DEFINE T == {m.post : m \in proc.fired}
<1>1. T \subseteq 0..MaxWindow /\ T # {}
  BY DEF Matching, Hits, Windows
<1> HIDE DEF T
<1>2. Top(T) \in T /\ \A y \in T : y <= Top(T)
  BY <1>1, TopFacts, WindowAssumption
<1>3. MaxPost = Top(T) /\ MaxPost \in Nat
  BY <1>1, <1>2, WindowAssumption DEF MaxPost, T
<1> QED
  BY <1>2, <1>3 DEF T

LEMMA ExtendTyped ==
  ASSUME Typed, Extend
  PROVE  /\ Typed' /\ SameMatch /\ proc'.pc = "notify" /\ proc'.any = TRUE
         /\ proc.s \in Sessions /\ window'[proc.s] \in Nat
         /\ window'[proc.s] >= window[proc.s]
         /\ \A m \in proc.fired : m.post <= window'[proc.s]
         /\ \A r \in Sessions \ {proc.s} : window'[r] = window[r]
<1>1. InHand /\ proc \in Matching /\ proc.s \in Sessions
  BY HandFields DEF Extend, InHand, Typed, RecordsTyped, FiringPcs, Matching
<1>2. proc.batch \subseteq 1..counter /\ proc.fired # {}
  BY <1>1 DEF Typed, HandSound, Matching
<1>3. MaxPost \in Nat /\ \A m \in proc.fired : m.post <= MaxPost /\ m.post \in Nat
  BY <1>1, <1>2, MaxPostFacts DEF Matching, Hits, Windows
<1>4. SameMatch /\ proc'.pc = "notify" /\ proc'.any = TRUE /\ proc'.batch = proc.batch
  BY <1>1 DEF Extend, Matching, FiringPcs, SameMatch
<1>5. StoreTyped' /\ counter' = counter
  BY NoOfferFacts DEF Extend, Typed
<1>6. /\ window \in [Sessions -> Nat]
      /\ window' = [window EXCEPT ![proc.s] = Larger(window[proc.s], MaxPost)]
  BY DEF Extend, Extended, Typed, SessionsTyped
<1>7. /\ window' \in [Sessions -> Nat] /\ window'[proc.s] >= window[proc.s]
      /\ window'[proc.s] >= MaxPost
      /\ \A r \in Sessions \ {proc.s} : window'[r] = window[r]
  BY <1>1, <1>3, <1>6 DEF Larger
<1>8. SessionsTyped'
  BY <1>7 DEF Extend, Typed, SessionsTyped, sessionVars
<1>9. UNCHANGED <<content, epochs, ex, decided, fires, standing, preBuf>>
  BY DEF Extend, historyVars, preVars
<1>10. Typed'
  BY <1>1, <1>2, <1>4, <1>5, <1>8, <1>9, HandStep DEF Hands, SameMatch
<1>11. window'[proc.s] \in Nat
  BY <1>1, <1>7
<1> QED
  BY <1>1, <1>3, <1>4, <1>7, <1>10, <1>11

LEMMA NotifyTyped ==
  ASSUME Typed, Notify
  PROVE  /\ Typed' /\ proc'.seq = proc.seq /\ proc'.todo = proc.todo /\ proc'.any = proc.any
         /\ \/ proc'.pc = "sessions" /\ \A m \in proc.fired : ~m.oneshot
            \/ proc'.pc = "resync"
<1> DEFINE spent == Spent(proc.fired)
           T == [i \in DOMAIN trig[proc.s] \ spent |-> trig[proc.s][i]]
           rest == [pc |-> "sessions", seq |-> proc.seq, todo |-> proc.todo,
                    any |-> proc.any]
<1>1. InHand /\ proc \in Matching /\ proc.s \in Sessions
  BY HandFields DEF Notify, InHand, Typed, RecordsTyped, FiringPcs, Matching
<1>2. /\ trig' = [trig EXCEPT ![proc.s] = T]
      /\ proc' = IF \E m \in proc.fired : m.oneshot
                   THEN [rest EXCEPT !.pc = "resync"] ELSE rest
      /\ UNCHANGED <<content, epochs, ex, decided, fires, standing, preBuf, bound, filters,
                     window, rpc>>
  BY DEF Notify, historyVars, preVars
<1>3. /\ proc' \in Serving /\ proc'.seq = proc.seq /\ proc'.todo = proc.todo
      /\ proc'.any = proc.any
      /\ \/ proc'.pc = "sessions" /\ \A m \in proc.fired : ~m.oneshot
         \/ proc'.pc = "resync"
  <2>1. /\ rest \in Serving /\ rest.pc = "sessions" /\ rest.seq = proc.seq
        /\ rest.todo = proc.todo /\ rest.any = proc.any
    BY <1>1 DEF Serving, Matching
  <2> HIDE DEF rest
  <2> QED
    BY <1>2, <2>1 DEF Serving
<1>4. \A i \in DOMAIN T : i \in TriggerIds /\ T[i] \in Triggers
  BY <1>1 DEF Typed, SessionsTyped
<1>5. SessionsTyped'
  <2>1. SessionsTyped /\ rpc' \in [Sessions -> {"none", "reset", "sync"}]
    BY <1>2 DEF Typed, SessionsTyped
  <2> HIDE DEF T
  <2> QED
    BY <1>1, <1>2, <1>4, <2>1, TriggersTyped
<1>6. StoreTyped' /\ counter' = counter
  BY NoOfferFacts DEF Notify, Typed
<1>7. Typed'
  BY <1>1, <1>2, <1>3, <1>5, <1>6, HandStep DEF Hands, Serving, FiringPcs
<1> QED
  BY <1>3, <1>7

LEMMA ProcResyncTyped ==
  ASSUME Typed, ProcResync
  PROVE  /\ Typed' /\ proc'.pc = "sessions" /\ proc'.seq = proc.seq
         /\ proc'.todo = proc.todo /\ proc'.any = proc.any
<1>1. InHand /\ proc \in Serving
  BY HandFields DEF ProcResync, InHand, Typed, RecordsTyped
<1>2. /\ proc' \in Serving /\ proc'.pc = "sessions" /\ proc'.seq = proc.seq
      /\ proc'.todo = proc.todo /\ proc'.any = proc.any
  BY <1>1 DEF ProcResync, Serving
<1>3. StoreTyped' /\ counter' = counter
  BY NoOfferFacts DEF ProcResync, Typed
<1>4. SessionsTyped'
  BY DEF ProcResync, Typed, SessionsTyped, sessionVars
<1>5. UNCHANGED <<content, epochs, ex, decided, fires, standing>>
      /\ DOMAIN preBuf' \subseteq DOMAIN preBuf
  BY DEF ProcResync, Resync, Expired, historyVars
<1> QED
  BY <1>1, <1>2, <1>3, <1>4, <1>5, HandStep DEF Hands, FiringPcs

LEMMA BufferTyped ==
  ASSUME Typed, Buffer
  PROVE  /\ Typed' /\ proc'.pc = "store" /\ proc'.seq = proc.seq
         /\ proc'.todo = proc.todo /\ proc'.any = proc.any
<1>1. InHand /\ proc \in Serving
  BY HandFields DEF Buffer, InHand, Typed, RecordsTyped
<1>2. /\ proc' \in Serving /\ proc'.pc = "store" /\ proc'.seq = proc.seq
      /\ proc'.todo = proc.todo /\ proc'.any = proc.any
  BY <1>1 DEF Buffer, Serving
<1>3. StoreTyped' /\ counter' = counter
  BY NoOfferFacts DEF Buffer, Typed
<1>4. SessionsTyped'
  BY DEF Buffer, Typed, SessionsTyped, sessionVars
<1>5. UNCHANGED <<content, epochs, ex, decided, fires, standing>>
  BY DEF Buffer, historyVars
<1>6. DOMAIN preBuf' \subseteq DOMAIN preBuf \cup {proc.seq}
  BY ZenonT(60) DEF Buffer, BufferAppend, Expired
<1> QED
  BY <1>1, <1>2, <1>3, <1>4, <1>5, <1>6, HandStep DEF Hands, FiringPcs

(* The processor is done with the record in hand. *)
LEMMA DoneTyped ==
  ASSUME Typed, InHand, Done, StoreTyped', counter' = counter,
         UNCHANGED <<content, sessionVars, window, preVars, epochs, ex, fires, standing>>
  PROVE  Typed' /\ proc'.pc = "idle"
<1>1. proc' = IdleProc /\ decided' = decided \cup {proc.seq} /\ proc.seq \in 1..counter
  BY DEF Done, Typed, HandSound
<1>2. proc' \in Hands /\ proc'.pc = "idle"
  BY <1>1 DEF Hands, IdleProc
<1>3. RecordsTyped'
  BY <1>1, <1>2 DEF Typed, RecordsTyped, preVars
<1>4. SessionsTyped' /\ ExportTyped'
  BY DEF Typed, SessionsTyped, ExportTyped, sessionVars
<1>5. HandSound'
  BY <1>2 DEF Typed, HandSound, InHand, FiringPcs
<1> QED
  BY <1>2, <1>3, <1>4, <1>5 DEF Typed

LEMMA StoreUnconditionallyTyped ==
  ASSUME Typed, StoreUnconditionally
  PROVE  /\ Typed' /\ proc'.pc = "idle" /\ InHand
         /\ Accounted \subseteq Accounted' /\ proc.seq \in Accounted'
<1>1. InHand /\ {proc.seq} \subseteq 1..counter
  BY DEF StoreUnconditionally, InHand, Typed, HandSound
<1>2. /\ StoreTyped' /\ counter' = counter /\ Accounted \subseteq Accounted'
      /\ proc.seq \in Accounted'
  <2>1. CASE proc.seq \in held
    BY <2>1, NoOfferFacts DEF StoreUnconditionally, Typed, Accounted
  <2>2. CASE proc.seq \notin held
    BY <1>1, <2>2, OfferFacts DEF StoreUnconditionally, Typed
  <2> QED
    BY <2>1, <2>2
<1> QED
  BY <1>1, <1>2, DoneTyped DEF StoreUnconditionally

LEMMA DecideTyped ==
  ASSUME Typed, Decide
  PROVE  /\ Typed' /\ proc'.pc = "observe" /\ proc'.seq = proc.seq
         /\ proc'.policy = Policy /\ ~proc.any
         /\ ~proc'.keep => Policy # {}
<1>1. InHand /\ proc \in Serving /\ ~proc.any
  BY HandFields DEF Decide, InHand, Typed, RecordsTyped
<1>2. Policy \in SUBSET Filters
  BY DEF Policy, Typed, SessionsTyped
<1> DEFINE keep == \/ Policy = {}
                   \/ \E f \in Policy : content[proc.seq] \in f
<1>3. /\ proc' \in Deciding /\ proc'.pc = "observe" /\ proc'.seq = proc.seq
      /\ proc'.policy = Policy /\ (~proc'.keep => Policy # {})
  <2>1. proc' = [pc |-> "observe", seq |-> proc.seq, policy |-> Policy, keep |-> keep]
    BY DEF Decide
  <2>2. keep \in BOOLEAN /\ (~keep => Policy # {}) /\ proc.seq \in Nat
    BY <1>1 DEF Serving
  <2> HIDE DEF keep
  <2> QED
    BY <1>2, <2>1, <2>2 DEF Deciding
<1>4. StoreTyped' /\ counter' = counter
  BY NoOfferFacts DEF Decide, Typed
<1>5. SessionsTyped'
  BY DEF Decide, Typed, SessionsTyped, sessionVars
<1>6. UNCHANGED <<content, epochs, ex, decided, fires, standing, preBuf>>
  BY DEF Decide, historyVars, preVars
<1> QED
  BY <1>1, <1>3, <1>4, <1>5, <1>6, HandStep DEF Hands, FiringPcs

(* What observing a policy does to the epoch log: nothing while it is in   *)
(* force; else a new last epoch, for which the oldest leaves a full log.   *)
LEMMA ObservedFacts ==
  ASSUME RecordsTyped, NEW seq \in Nat, NEW policy \in SUBSET Filters,
         \A i \in DOMAIN epochs : epochs[i].from <= seq
  PROVE  LET E == Observed(seq, policy)
             n == Len(epochs)
         IN  /\ E \in Seq(Epochs)
             /\ \/ epochs # <<>> /\ epochs[n].policy = policy /\ E = epochs
                \/ /\ Len(E) = n + 1 /\ \A i \in 1..n : E[i] = epochs[i]
                   /\ E[n + 1].policy = policy
                   /\ E[n + 1].from = IF n = 0 THEN 0 ELSE seq
                \/ /\ n > 0 /\ Len(E) = n /\ \A i \in 1..(n - 1) : E[i] = epochs[i + 1]
                   /\ E[n].policy = policy /\ E[n].from = seq
<1> DEFINE n == Len(epochs)
           last == epochs[n]
           from == IF epochs = <<>> THEN Origin ELSE Larger(seq, last.from)
           new == [from |-> from, policy |-> policy]
           grown == Append(epochs, new)
<1>1. epochs \in Seq(Epochs) /\ n \in Nat /\ DOMAIN epochs = 1..n
  BY EpochFacts DEF RecordsTyped
<1>2. n = 0 <=> epochs = <<>>
  BY <1>1
<1>3. from = IF n = 0 THEN 0 ELSE seq
  <2>1. CASE n = 0
    BY <1>2, <2>1 DEF Origin
  <2>2. CASE n # 0
    <3>1. n \in DOMAIN epochs
      BY <1>1, <2>2
    <3>2. last.from \in Nat /\ last.from <= seq
      BY <3>1, EpochFacts
    <3> QED
      BY <1>2, <2>2, <3>2 DEF Larger
  <2> QED
    BY <2>1, <2>2
<1>4. new \in Epochs /\ new.from = from /\ new.policy = policy
  BY <1>3 DEF Epochs
<1>5. Observed(seq, policy) =
        IF epochs # <<>> /\ last.policy = policy THEN epochs
        ELSE IF Len(grown) > EpochCapacity THEN Tail(grown) ELSE grown
  BY DEF Observed
<1> HIDE DEF new, from, last
<1>6. /\ grown \in Seq(Epochs) /\ Len(grown) = n + 1 /\ grown[n + 1] = new
      /\ \A i \in 1..n : grown[i] = epochs[i]
  BY <1>1, <1>4
<1>7. CASE epochs # <<>> /\ last.policy = policy
  BY <1>1, <1>5, <1>7 DEF last
<1>8. CASE ~(epochs # <<>> /\ last.policy = policy) /\ ~(Len(grown) > EpochCapacity)
  <2>1. Observed(seq, policy) = grown
    BY <1>5, <1>8, Zenon
  <2> HIDE DEF grown
  <2> QED
    BY <1>1, <1>3, <1>4, <1>6, <2>1
<1>9. CASE ~(epochs # <<>> /\ last.policy = policy) /\ Len(grown) > EpochCapacity
  <2>1. Observed(seq, policy) = Tail(grown)
    BY <1>5, <1>9, Zenon
  <2>2. n > 0
    BY <1>1, <1>6, <1>9, EpochAssumption
  <2> HIDE DEF grown
  <2>3. /\ Tail(grown) \in Seq(Epochs) /\ Len(Tail(grown)) = n
        /\ \A i \in 1..n : Tail(grown)[i] = grown[i + 1]
    BY <1>1, <1>6, <2>2
  <2>4. /\ Tail(grown)[n] = new
        /\ \A i \in 1..(n - 1) : Tail(grown)[i] = epochs[i + 1]
    BY <1>1, <1>6, <2>2, <2>3
  <2> QED
    BY <1>1, <1>3, <1>4, <2>1, <2>2, <2>3, <2>4
<1> QED
  BY <1>7, <1>8, <1>9

LEMMA ObserveTyped ==
  ASSUME Typed, Observe
  PROVE  /\ Typed' /\ proc'.pc = "append" /\ proc'.seq = proc.seq
         /\ proc'.policy = proc.policy /\ proc'.keep = proc.keep
<1>1. InHand /\ proc \in Deciding
  BY HandFields DEF Observe, InHand, Typed, RecordsTyped
<1>2. /\ proc' \in Deciding /\ proc'.pc = "append" /\ proc'.seq = proc.seq
      /\ proc'.policy = proc.policy /\ proc'.keep = proc.keep
  BY <1>1 DEF Observe, Deciding
<1>3. StoreTyped' /\ counter' = counter /\ SessionsTyped' /\ ExportTyped'
  BY NoOfferFacts DEF Observe, Typed, SessionsTyped, ExportTyped, sessionVars
<1>4. /\ UNCHANGED <<content, decided, fires, standing, preBuf>>
      /\ epochs' = Observed(proc.seq, proc.policy)
  BY DEF Observe, historyVars, preVars
<1>5. /\ proc.seq \in Nat /\ proc.seq <= counter /\ proc.policy \in SUBSET Filters
      /\ RecordsTyped /\ counter \in Nat
      /\ \A i \in DOMAIN epochs : epochs[i].from <= proc.seq
  BY <1>1 DEF Deciding, Typed, HandSound, StoreTyped
<1>6. epochs' \in Seq(Epochs) /\ \A i \in DOMAIN epochs' : epochs'[i].from <= proc.seq
  <2> DEFINE n == Len(epochs)
  <2>1. n \in Nat /\ DOMAIN epochs = 1..n
    BY <1>5, EpochFacts
  <2>2. /\ epochs' \in Seq(Epochs)
        /\ \/ epochs' = epochs
           \/ /\ Len(epochs') = n + 1 /\ \A i \in 1..n : epochs'[i] = epochs[i]
              /\ epochs'[n + 1].from = IF n = 0 THEN 0 ELSE proc.seq
           \/ /\ n > 0 /\ Len(epochs') = n
              /\ \A i \in 1..(n - 1) : epochs'[i] = epochs[i + 1]
              /\ epochs'[n].from = proc.seq
    BY <1>4, <1>5, ObservedFacts
  <2>3. Len(epochs') \in Nat /\ DOMAIN epochs' = 1..Len(epochs')
    BY <2>2
  <2>4. ASSUME NEW i \in 1..Len(epochs')
        PROVE  epochs'[i].from <= proc.seq
    <3>1. CASE epochs' = epochs
      BY <1>5, <2>1, <3>1
    <3>2. CASE /\ Len(epochs') = n + 1 /\ \A j \in 1..n : epochs'[j] = epochs[j]
               /\ epochs'[n + 1].from = IF n = 0 THEN 0 ELSE proc.seq
      <4>1. CASE i = n + 1
        BY <1>5, <2>1, <3>2, <4>1
      <4>2. CASE i \in 1..n
        BY <1>5, <2>1, <3>2, <4>2
      <4> QED
        BY <2>1, <3>2, <4>1, <4>2
    <3>3. CASE /\ n > 0 /\ Len(epochs') = n
               /\ \A j \in 1..(n - 1) : epochs'[j] = epochs[j + 1]
               /\ epochs'[n].from = proc.seq
      <4>1. CASE i = n
        BY <1>5, <3>3, <4>1
      <4>2. CASE i \in 1..(n - 1)
        <5>1. i + 1 \in DOMAIN epochs /\ epochs'[i] = epochs[i + 1]
          BY <2>1, <3>3, <4>2
        <5> QED
          BY <1>5, <5>1
      <4> QED
        BY <2>1, <3>3, <4>1, <4>2
    <3> QED
      BY <2>2, <3>1, <3>2, <3>3
  <2> QED
    BY <2>2, <2>3, <2>4
<1>7. RecordsTyped'
  BY <1>2, <1>3, <1>4, <1>6 DEF Typed, RecordsTyped, Hands
<1>8. HandSound'
  <2>1. \A i \in DOMAIN epochs' : epochs'[i].from \in Nat
    <3>1. \A i \in DOMAIN epochs' : epochs'[i] \in Epochs
      BY <1>6
    <3> QED
      BY <3>1 DEF Epochs
  <2>2. \A i \in DOMAIN epochs' : epochs'[i].from <= counter
    BY <1>5, <1>6, <2>1
  <2> QED
    BY <1>1, <1>2, <1>3, <1>4, <1>6, <2>2 DEF Typed, HandSound, InHand, IsLog, FiringPcs
<1> QED
  BY <1>2, <1>3, <1>7, <1>8 DEF Typed

LEMMA AppendDecidedTyped ==
  ASSUME Typed, AppendDecided
  PROVE  /\ Typed' /\ proc'.pc = "idle" /\ InHand
         /\ Accounted \subseteq Accounted' /\ (proc.keep => proc.seq \in Accounted')
<1>1. InHand /\ {proc.seq} \subseteq 1..counter
  BY DEF AppendDecided, InHand, Typed, HandSound
<1>2. /\ StoreTyped' /\ counter' = counter /\ Accounted \subseteq Accounted'
      /\ proc.keep => proc.seq \in Accounted'
  <2>1. CASE proc.keep
    BY <1>1, <2>1, OfferFacts DEF AppendDecided, Typed
  <2>2. CASE ~proc.keep
    BY <2>2, NoOfferFacts DEF AppendDecided, Typed
  <2> QED
    BY <2>1, <2>2
<1> QED
  BY <1>1, <1>2, DoneTyped DEF AppendDecided

LEMMA PendingTyped ==
  ASSUME SessionsTyped, NEW s \in Sessions, rpc' = [rpc EXCEPT ![s] = Pending(s)]
  PROVE  rpc' \in [Sessions -> {"none", "reset", "sync"}]
BY DEF SessionsTyped, Pending

(* A filter request. *)
FilterRequest(s) ==
  \/ \E f \in Filters : AddFilter(s, f) \/ RemoveFilter(s, f)
  \/ \E f, g \in Filters : EditFilter(s, f, g)

LEMMA FilterRequestTyped ==
  ASSUME Typed, NEW s \in Sessions, FilterRequest(s)
  PROVE  Typed'
<1>1. /\ NoOffer
      /\ UNCHANGED <<content, bound, window, preBuf, epochs, proc, ex, decided, fires,
                     standing, trig>>
  BY DEF FilterRequest, AddFilter, RemoveFilter, EditFilter, Request, preVars, historyVars
<1>2. SessionsTyped
  BY DEF Typed
<1>3. rpc' \in [Sessions -> {"none", "reset", "sync"}]
  <2>1. rpc' = [rpc EXCEPT ![s] = Pending(s)] \/ rpc' = rpc
    BY DEF FilterRequest, AddFilter, RemoveFilter, EditFilter
  <2>2. rpc \in [Sessions -> {"none", "reset", "sync"}]
    BY <1>2 DEF SessionsTyped
  <2> QED
    BY <1>2, <2>1, <2>2, PendingTyped
<1>4. filters' \in [Sessions -> SUBSET Filters]
  BY <1>2 DEF FilterRequest, AddFilter, RemoveFilter, EditFilter, SessionsTyped
<1>5. SessionsTyped'
  BY <1>1, <1>2, <1>3, <1>4 DEF SessionsTyped
<1>6. StoreTyped' /\ counter' = counter /\ ExportTyped'
  BY <1>1, NoOfferFacts DEF Typed, ExportTyped
<1> QED
  BY <1>1, <1>5, <1>6, RequestTyped

(* A trigger request: triggers.add, triggers.edit, triggers.remove. *)
TriggerRequest(s) ==
  \/ \E i \in TriggerIds, def \in TriggerDefs : AddTrigger(s, i, def)
  \/ \E i \in TriggerIds, def \in TriggerDefs : EditTrigger(s, i, def)
  \/ \E i \in TriggerIds : RemoveTrigger(s, i)

(* The debounce an edit leaves is within the old one and the new window. *)
LEMMA EditedFacts ==
  ASSUME NEW t \in Triggers, NEW def \in Defs
  PROVE  /\ [Armed(def) EXCEPT !.left = EditedLeft(t, def)] \in Triggers
         /\ [Armed(def) EXCEPT !.left = EditedLeft(t, def)].left = EditedLeft(t, def)
         /\ [Armed(def) EXCEPT !.left = EditedLeft(t, def)].post = def.post
         /\ EditedLeft(t, def) <= def.post /\ EditedLeft(t, def) <= t.left
<1>1. t.left \in Windows /\ def.post \in Windows
  BY DEF Triggers, Defs
<1>2. /\ EditedLeft(t, def) \in Windows
      /\ EditedLeft(t, def) <= def.post /\ EditedLeft(t, def) <= t.left
  BY <1>1, WindowAssumption DEF EditedLeft, Windows
<1>3. Armed(def) \in Triggers /\ Armed(def).post = def.post
  BY ArmedFacts
<1> QED
  BY <1>2, <1>3 DEF Triggers

(* T takes the place of the session's triggers: a trigger is as it was or  *)
(* asks for no less than its debounce, which no request lengthens, and a   *)
(* new one has a new id.                                                   *)
Retriggered(s, T) ==
  /\ trig' = [trig EXCEPT ![s] = T]
  /\ \A i \in DOMAIN T : i \in TriggerIds /\ T[i] \in Triggers
  /\ \A i \in DOMAIN T : \/ i \in DOMAIN trig[s] /\ T[i] = trig[s][i]
                         \/ T[i].left <= T[i].post
  /\ \A i \in DOMAIN T \ DOMAIN trig[s] :
       T[i].left = 0 /\ \A f \in fires : f.s = s => f.id # i
  /\ \A i \in DOMAIN T \cap DOMAIN trig[s] : T[i].left <= trig[s][i].left

LEMMA TriggerRequestFacts ==
  ASSUME Typed, NEW s \in Sessions, TriggerRequest(s)
  PROVE  /\ NoOffer
         /\ UNCHANGED <<content, bound, window, preBuf, preCap, arrivals, epochs, proc, ex,
                        decided, fires, standing, filters>>
         /\ rpc[s] = "none" /\ rpc' = [rpc EXCEPT ![s] = Pending(s)]
         /\ \E T : Retriggered(s, T)
<1>1. /\ NoOffer
      /\ UNCHANGED <<content, bound, window, preBuf, preCap, arrivals, epochs, proc, ex,
                     decided, fires, standing, filters>>
      /\ rpc[s] = "none" /\ rpc' = [rpc EXCEPT ![s] = Pending(s)]
  BY DEF TriggerRequest, AddTrigger, EditTrigger, RemoveTrigger, Request, preVars,
         historyVars
<1>2. \A i \in DOMAIN trig[s] : i \in TriggerIds /\ trig[s][i] \in Triggers
  BY DEF Typed, SessionsTyped
<1>3. \E T : Retriggered(s, T)
  <2>1. ASSUME NEW i \in TriggerIds, NEW def \in TriggerDefs, AddTrigger(s, i, def)
        PROVE  \E T : Retriggered(s, T)
    <3> DEFINE T == [j \in DOMAIN trig[s] \cup {i} |->
                       IF j = i THEN Armed(def) ELSE trig[s][j]]
    <3>1. trig' = [trig EXCEPT ![s] = T] /\ \A f \in fires : f.s = s => f.id # i
      BY <2>1 DEF AddTrigger
    <3>2. /\ Armed(def) \in Triggers /\ Armed(def).left <= Armed(def).post
          /\ Armed(def).left = 0
      <4>1. /\ Armed(def) \in Triggers /\ Armed(def).left = 0
            /\ Armed(def).post = def.post /\ def.post \in Nat
        BY ArmedFacts, SetupAssumption DEF Defs, Windows
      <4> QED
        BY <4>1
    <3>3. \A j \in DOMAIN T : j \in TriggerIds /\ T[j] \in Triggers
      BY <1>2, <3>2
    <3>4. \A j \in DOMAIN T : \/ j \in DOMAIN trig[s] /\ T[j] = trig[s][j]
                              \/ T[j].left <= T[j].post
      BY <3>2
    <3>5. \A j \in DOMAIN T \ DOMAIN trig[s] :
            T[j].left = 0 /\ \A f \in fires : f.s = s => f.id # j
      BY <3>1, <3>2
    <3>6. \A j \in DOMAIN T \cap DOMAIN trig[s] : T[j].left <= trig[s][j].left
      <4>1. i \notin DOMAIN trig[s] /\ \A j \in DOMAIN trig[s] : trig[s][j].left \in Nat
        BY <1>2, <2>1 DEF AddTrigger, Triggers, Windows
      <4> QED
        BY <4>1
    <3> HIDE DEF T
    <3> QED
      BY <3>1, <3>3, <3>4, <3>5, <3>6 DEF Retriggered
  <2>2. ASSUME NEW i \in TriggerIds, NEW def \in TriggerDefs, EditTrigger(s, i, def)
        PROVE  \E T : Retriggered(s, T)
    <3> DEFINE new == [Armed(def) EXCEPT !.left = EditedLeft(trig[s][i], def)]
               T == [trig[s] EXCEPT ![i] = new]
    <3>1. trig' = [trig EXCEPT ![s] = T] /\ i \in DOMAIN trig[s]
      BY <2>2 DEF EditTrigger
    <3>2. trig[s][i] \in Triggers /\ def \in Defs
      BY <1>2, <3>1, SetupAssumption
    <3>3. new \in Triggers /\ new.left <= new.post /\ new.left <= trig[s][i].left
      BY <3>2, EditedFacts
    <3> HIDE DEF new
    <3>4. /\ DOMAIN T = DOMAIN trig[s] /\ T[i] = new
          /\ \A j \in DOMAIN T \ {i} : T[j] = trig[s][j]
      BY <3>1
    <3>5. \A j \in DOMAIN trig[s] : trig[s][j].left \in Nat
      BY <1>2 DEF Triggers, Windows
    <3> HIDE DEF T
    <3>6. \A j \in DOMAIN T \cap DOMAIN trig[s] : T[j].left <= trig[s][j].left
      BY <3>3, <3>4, <3>5
    <3> QED
      BY <1>2, <3>1, <3>3, <3>4, <3>6 DEF Retriggered
  <2>3. ASSUME NEW i \in TriggerIds, RemoveTrigger(s, i)
        PROVE  \E T : Retriggered(s, T)
    <3> DEFINE T == [j \in DOMAIN trig[s] \ {i} |-> trig[s][j]]
    <3>1. trig' = [trig EXCEPT ![s] = T]
      BY <2>3 DEF RemoveTrigger
    <3>2. DOMAIN T = DOMAIN trig[s] \ {i} /\ \A j \in DOMAIN T : T[j] = trig[s][j]
      OBVIOUS
    <3>3. \A j \in DOMAIN trig[s] : trig[s][j].left \in Nat
      BY <1>2 DEF Triggers, Windows
    <3> HIDE DEF T
    <3>4. \A j \in DOMAIN T \cap DOMAIN trig[s] : T[j].left <= trig[s][j].left
      BY <3>2, <3>3
    <3> QED
      BY <1>2, <3>1, <3>2, <3>4 DEF Retriggered
  <2> QED
    BY <2>1, <2>2, <2>3 DEF TriggerRequest
<1> QED
  BY <1>1, <1>3

LEMMA TriggerRequestTyped ==
  ASSUME Typed, NEW s \in Sessions, TriggerRequest(s)
  PROVE  Typed'
<1>1. /\ NoOffer
      /\ UNCHANGED <<content, bound, window, preBuf, epochs, proc, ex, decided, fires,
                     standing, filters>>
      /\ rpc' = [rpc EXCEPT ![s] = Pending(s)]
  BY TriggerRequestFacts
<1>2. PICK T : Retriggered(s, T)
  BY TriggerRequestFacts
<1>3. SessionsTyped /\ rpc' \in [Sessions -> {"none", "reset", "sync"}]
  BY <1>1, PendingTyped DEF Typed
<1>4. SessionsTyped'
  <2>1. /\ trig' = [trig EXCEPT ![s] = T]
        /\ \A i \in DOMAIN T : i \in TriggerIds /\ T[i] \in Triggers
    BY <1>2 DEF Retriggered
  <2> QED
    BY <1>1, <1>3, <2>1, TriggersTyped
<1>5. StoreTyped' /\ counter' = counter /\ ExportTyped'
  BY <1>1, NoOfferFacts DEF Typed, ExportTyped
<1> QED
  BY <1>1, <1>4, <1>5, RequestTyped

LEMMA SetDomainTyped ==
  ASSUME Typed, NEW s \in Sessions, SetDomain(s)
  PROVE  /\ Typed'
         /\ \A r \in Sessions \ {s} : window'[r] = window[r] /\ (r \in bound' <=> r \in bound)
<1>1. /\ UNCHANGED <<content, preBuf, epochs, proc, ex, decided, fires, trig, filters>>
      /\ standing' \subseteq standing
  BY DEF SetDomain, preVars
<1>2. /\ window' \in [Sessions -> Nat] /\ rpc' \in [Sessions -> {"none", "reset", "sync"}]
      /\ bound' \subseteq Sessions
      /\ \A r \in Sessions \ {s} : window'[r] = window[r] /\ (r \in bound' <=> r \in bound)
  BY DEF SetDomain, Typed, SessionsTyped
<1>3. SessionsTyped'
  BY <1>1, <1>2 DEF Typed, SessionsTyped
<1>4. StoreTyped' /\ counter' = counter /\ ExportTyped'
  BY <1>1, NoOfferFacts DEF Typed, ExportTyped, SetDomain
<1> QED
  BY <1>1, <1>2, <1>3, <1>4, RequestTyped

LEMMA ResetWindowsTyped ==
  ASSUME Typed, NEW s \in Sessions, ResetWindows(s)
  PROVE  Typed'
<1> DEFINE T == [i \in DOMAIN trig[s] |-> [trig[s][i] EXCEPT !.left = 0]]
<1>1. /\ UNCHANGED <<content, bound, filters, window, preBuf, epochs, proc, ex, decided,
                     fires, standing>>
      /\ trig' = [trig EXCEPT ![s] = T]
      /\ rpc' = [rpc EXCEPT ![s] = "sync"]
  BY DEF ResetWindows, preVars, historyVars
<1>2. SessionsTyped /\ rpc' \in [Sessions -> {"none", "reset", "sync"}]
  BY <1>1 DEF Typed, SessionsTyped
<1>3. \A i \in DOMAIN T : i \in TriggerIds /\ T[i] \in Triggers
  <2>1. \A t \in Triggers : [t EXCEPT !.left = 0] \in Triggers
    BY WindowAssumption DEF Triggers, Windows
  <2> QED
    BY <1>2, <2>1 DEF SessionsTyped
<1>4. SessionsTyped'
  <2> HIDE DEF T
  <2> QED
    BY <1>1, <1>2, <1>3, TriggersTyped
<1>5. StoreTyped' /\ counter' = counter /\ ExportTyped'
  BY <1>1, NoOfferFacts DEF Typed, ExportTyped, ResetWindows
<1> QED
  BY <1>1, <1>4, <1>5, RequestTyped

LEMMA SyncBufferTyped ==
  ASSUME Typed, NEW s \in Sessions, SyncBuffer(s)
  PROVE  Typed'
<1>1. /\ UNCHANGED <<content, bound, filters, trig, window, epochs, proc, ex, decided,
                     fires, standing>>
      /\ DOMAIN preBuf' \subseteq DOMAIN preBuf
  BY DEF SyncBuffer, Resync, Expired, historyVars
<1>2. SessionsTyped'
  BY <1>1 DEF Typed, SessionsTyped, SyncBuffer
<1>3. StoreTyped' /\ counter' = counter /\ ExportTyped'
  BY <1>1, NoOfferFacts DEF Typed, ExportTyped, SyncBuffer
<1> QED
  BY <1>1, <1>2, <1>3, RequestTyped

LEMMA ClearLogsTyped ==
  ASSUME Typed, ClearLogs
  PROVE  Typed'
<1>1. UNCHANGED <<content, bound, filters, trig, window, rpc, preBuf, epochs, proc, ex,
                  decided, fires, standing>>
  BY DEF ClearLogs, sessionVars, preVars, historyVars
<1>2. SessionsTyped' /\ ExportTyped'
  BY <1>1 DEF Typed, SessionsTyped, ExportTyped
<1>3. StoreTyped' /\ counter' = counter
  BY ClearFacts DEF Typed
<1> QED
  BY <1>1, <1>2, <1>3, RequestTyped

(* The three steps of an export. *)
ExportStep ==
  \/ \E ask \in ExportAsks : ExportQuery(ask[1], ask[2])
  \/ ExportRange
  \/ ExportGrade

LEMMA ExportStepTyped ==
  ASSUME Typed, ExportStep
  PROVE  Typed'
<1>1. /\ UNCHANGED <<content, bound, filters, trig, window, rpc, preBuf, epochs, proc,
                     decided, fires, standing>>
      /\ NoOffer
  BY DEF ExportStep, ExportQuery, ExportRange, ExportGrade, sessionVars, preVars, historyVars
<1>2. SessionsTyped'
  BY <1>1 DEF Typed, SessionsTyped
<1>3. StoreTyped' /\ counter' = counter
  BY <1>1, NoOfferFacts DEF Typed
<1>4. ExportTyped'
  <2>1. ASSUME NEW ask \in ExportAsks, ExportQuery(ask[1], ask[2])
        PROVE  ExportTyped'
    <3>1. ask[1] \in Nat /\ ask[2] \in Nat
      BY AskAssumption
    <3>2. /\ ex'.pc = "queried" /\ ex'.from = ask[1] /\ ex'.to = ask[2]
          /\ ex'.lost = lostBelow
      BY <2>1 DEF ExportQuery
    <3> QED
      BY <3>1, <3>2 DEF ExportTyped, Typed, StoreTyped
  <2>2. CASE ExportRange
    <3>1. /\ ex.from \in Nat /\ ex.to \in Nat /\ ex.lost \in Nat
          /\ admitFrom \in Nat /\ counter \in Nat
      BY <2>2 DEF ExportRange, Typed, ExportTyped, StoreTyped
    <3>2. /\ ex'.pc = "ranged"
          /\ ex'.from = IF ex.from > 0 THEN ex.from
                        ELSE Larger(Larger(Origin + 1, ex.lost), admitFrom)
          /\ ex'.to = IF ex.to > 0 THEN ex.to ELSE counter
      BY <2>2 DEF ExportRange
    <3>3. Larger(Larger(Origin + 1, ex.lost), admitFrom) \in Nat
      BY <3>1 DEF Larger, Origin
    <3> QED
      BY <3>1, <3>2, <3>3 DEF ExportTyped
  <2>3. CASE ExportGrade
    BY <2>3 DEF ExportGrade, Typed, ExportTyped
  <2> QED
    BY <2>1, <2>2, <2>3 DEF ExportStep
<1> QED
  BY <1>1, <1>2, <1>3, <1>4, RequestTyped

(* Every step is of one of these kinds. *)
LEMMA StepKinds ==
  ASSUME IngestNext
  PROVE  \/ \E c \in Contents : Receive(c)
         \/ Snapshot
         \/ \E e \in Waiting : Decrement(e)
         \/ Evaluate
         \/ StoreMatch
         \/ Drain
         \/ CopyTrace
         \/ InsertFlushed
         \/ Extend
         \/ Notify
         \/ ProcResync
         \/ Buffer
         \/ StoreUnconditionally
         \/ Decide
         \/ Observe
         \/ AppendDecided
         \/ SpanNumbered
         \/ \E s \in Sessions : \/ FilterRequest(s) \/ TriggerRequest(s) \/ SetDomain(s)
                                \/ ResetWindows(s) \/ SyncBuffer(s)
         \/ ClearLogs
         \/ ExportStep
<1>1. ASSUME NEW s \in Sessions, NEW n \in 0..MaxWindow, Decrement([s |-> s, pre |-> n])
      PROVE  \E e \in Waiting : Decrement(e)
  <2>1. [s |-> s, pre |-> n] \in Waiting
    BY DEF Waiting, Windows
  <2> QED
    BY <1>1, <2>1
<1>2. ASSUME NEW s \in Sessions, RequestStep(s)
      PROVE  \/ FilterRequest(s) \/ TriggerRequest(s) \/ SetDomain(s)
             \/ ResetWindows(s) \/ SyncBuffer(s)
  BY <1>2 DEF RequestStep, FilterRequest, TriggerRequest
<1> QED
  BY <1>1, <1>2 DEF IngestNext, ProcessorStep, ExportStep

LEMMA TypedNext == Typed /\ [IngestNext]_ingestVars => Typed'
<1> SUFFICES ASSUME Typed, [IngestNext]_ingestVars PROVE Typed'
  OBVIOUS
<1>1. CASE IngestNext
  BY <1>1, StepKinds, ReceiveTyped, SnapshotTyped, DecrementTyped, EvaluateTyped,
     StoreMatchTyped, DrainTyped, CopyTraceTyped, InsertFlushedTyped, ExtendTyped,
     NotifyTyped, ProcResyncTyped, BufferTyped, StoreUnconditionallyTyped, DecideTyped,
     ObserveTyped, AppendDecidedTyped, SpanNumberedTyped, FilterRequestTyped,
     TriggerRequestTyped, SetDomainTyped, ResetWindowsTyped, SyncBufferTyped,
     ClearLogsTyped, ExportStepTyped
<1>2. CASE UNCHANGED ingestVars
  <2>1. UNCHANGED <<counter, held, lostBelow, admitFrom, clearing, bound, filters, trig,
                    window, rpc, content, preBuf, epochs, proc, ex, decided, fires, standing>>
    BY <1>2 DEF ingestVars, vars, storeVars, sessionVars, preVars, historyVars
  <2>2. StoreTyped' /\ SessionsTyped' /\ ExportTyped'
    BY <2>1 DEF Typed, StoreTyped, SessionsTyped, ExportTyped
  <2> QED
    BY <2>1, <2>2, RequestTyped
<1> QED
  BY <1>1, <1>2

LEMMA TypedInit == IngestInit => Typed
<1> SUFFICES ASSUME IngestInit PROVE Typed
  OBVIOUS
<1>1. StoreTyped
  BY DEF IngestInit, Init, StoreTyped
<1>2. SessionsTyped
  BY SetupAssumption DEF IngestInit, SessionsTyped
<1>3. content = <<>> /\ epochs = <<>> /\ counter = 0
  BY DEF IngestInit, Init
<1>4. content \in Seq(Contents \cup {SpanContent}) /\ Len(content) = counter
  BY <1>3
<1>5. epochs \in Seq(Epochs) /\ DOMAIN epochs = {}
  BY <1>3
<1>6. RecordsTyped
  BY <1>3, <1>4, <1>5 DEF IngestInit, RecordsTyped, Hands
<1>7. ExportTyped
  BY DEF IngestInit, ExportTyped, NoExport
<1>8. HandSound
  BY <1>5 DEF IngestInit, HandSound, InHand, IdleProc, FiringPcs
<1> QED
  BY <1>1, <1>2, <1>6, <1>7, <1>8 DEF Typed

(* The shape of the state, and that records are handled one by one, in the *)
(* order of their numbers (log_processor.rs, process_entry).               *)
THEOREM IngestTyped == IngestSpec => []Typed
BY TypedInit, TypedNext, PTL DEF IngestSpec
-----------------------------------------------------------------------------
(* A record once accounted for stays so. *)

LEMMA AccountedGrows ==
  ASSUME Typed, IngestNext
  PROVE  Accounted \subseteq Accounted'
<1>1. CASE InsertFlushed
  <2>1. proc.batch \subseteq 1..counter
    BY <1>1 DEF Typed, HandSound, InsertFlushed, FiringPcs
  <2> QED
    BY <1>1, <2>1, OfferFacts DEF InsertFlushed, Typed
<1>2. CASE StoreMatch
  <2>1. {proc.seq} \subseteq 1..counter
    BY <1>2 DEF Typed, HandSound, StoreMatch, InHand
  <2> QED
    BY <1>2, <2>1, OfferFacts, NoOfferFacts DEF StoreMatch, Typed
<1>3. ASSUME NEW s \in Sessions,
             \/ FilterRequest(s) \/ TriggerRequest(s) \/ SetDomain(s)
             \/ ResetWindows(s) \/ SyncBuffer(s)
      PROVE  NoOffer
  BY <1>3 DEF FilterRequest, TriggerRequest, AddFilter, RemoveFilter, EditFilter,
     AddTrigger, EditTrigger, RemoveTrigger, Request, SetDomain, ResetWindows, SyncBuffer
<1>4. CASE \/ Snapshot \/ Evaluate \/ Drain \/ CopyTrace \/ Extend \/ Notify \/ ProcResync
           \/ Buffer \/ Decide \/ Observe \/ ExportStep
  <2>1. NoOffer
    BY <1>4 DEF Snapshot, Evaluate, Drain, CopyTrace, Extend, Notify, ProcResync, Buffer,
       Decide, Observe, ExportStep, ExportQuery, ExportRange, ExportGrade
  <2> QED
    BY <2>1, NoOfferFacts DEF Typed
<1>5. ASSUME NEW e \in Waiting, Decrement(e)
      PROVE  NoOffer
  BY <1>5 DEF Decrement
<1>6. CASE SpanNumbered \/ \E c \in Contents : Receive(c)
  BY <1>6, AssignFacts DEF SpanNumbered, Receive, Typed
<1>7. CASE ClearLogs
  BY <1>7, ClearFacts DEF Typed
<1> QED
  BY <1>1, <1>2, <1>3, <1>4, <1>5, <1>6, <1>7, StepKinds, NoOfferFacts,
     StoreUnconditionallyTyped, AppendDecidedTyped DEF Typed
-----------------------------------------------------------------------------
(* An export calls a range complete only when it is. *)

(* A step that decides nothing, observes nothing and grades nothing. *)
LEMMA EvidenceFrame ==
  ASSUME EpochsSound, EvidenceSound, UNCHANGED <<decided, epochs>>,
         ex' = ex \/ ex'.pc # "graded", Accounted \subseteq Accounted',
         proc' = proc \/ proc'.pc \notin {"observe", "append"}
  PROVE  EpochsSound' /\ EvidenceSound'
<1>1. \A x : ToldFiltered(x)' = ToldFiltered(x)
  BY DEF ToldFiltered
<1>2. EpochsSound'
  BY <1>1 DEF EpochsSound
<1>3. EvidenceSound'
  BY DEF EvidenceSound, Accounted, StoredEver
<1> QED
  BY <1>2, <1>3

(* The record in hand gets its fate: it is accounted for, or the epoch log *)
(* tells of it.                                                            *)
LEMMA EvidenceDone ==
  ASSUME Typed, EpochsSound, EvidenceSound, Done, UNCHANGED <<epochs, ex>>,
         Accounted \subseteq Accounted', proc.seq \in Accounted' \/ ToldFiltered(proc.seq)
  PROVE  EpochsSound' /\ EvidenceSound'
<1>1. \A x : ToldFiltered(x)' = ToldFiltered(x)
  BY DEF ToldFiltered
<1>2. EpochsSound'
  BY <1>1 DEF EpochsSound, Done, IdleProc
<1>3. EvidenceSound'
  BY DEF EvidenceSound, Accounted, StoredEver
<1> QED
  BY <1>2, <1>3

LEMMA EvidenceStore ==
  ASSUME Typed, EpochsSound, EvidenceSound, StoreUnconditionally
  PROVE  EpochsSound' /\ EvidenceSound'
BY StoreUnconditionallyTyped, EvidenceDone DEF StoreUnconditionally

(* A record filtered out falls in the last epoch, which has a filter. *)
LEMMA EvidenceAppend ==
  ASSUME Typed, EpochsSound, EvidenceSound, AppendDecided
  PROVE  EpochsSound' /\ EvidenceSound'
<1>1. CASE proc.keep
  BY <1>1, AppendDecidedTyped, EvidenceDone DEF AppendDecided
<1>2. CASE ~proc.keep
  <2> DEFINE n == Len(epochs)
  <2>1. /\ epochs # <<>> /\ epochs[n].policy # {}
        /\ \A i \in DOMAIN epochs : epochs[i].from <= proc.seq
    BY <1>2 DEF AppendDecided, EpochsSound, Typed, HandSound, InHand
  <2>2. n \in DOMAIN epochs /\ ~(n < n)
    <3>1. n \in Nat /\ DOMAIN epochs = 1..n /\ epochs \in Seq(Epochs)
      BY EpochFacts DEF Typed, RecordsTyped
    <3> QED
      BY <2>1, <3>1
  <2>3. ToldFiltered(proc.seq)
    BY <2>1, <2>2 DEF ToldFiltered
  <2> QED
    BY <2>3, AppendDecidedTyped, EvidenceDone DEF AppendDecided
<1> QED
  BY <1>1, <1>2

(* A new epoch takes nothing from what the log told of earlier records. *)
LEMMA ToldStays ==
  ASSUME Typed, EpochsSound, Observe, NEW x \in decided, ToldFiltered(x)
  PROVE  ToldFiltered(x)'
<1> DEFINE n == Len(epochs)
<1>1. /\ proc.seq \in Nat /\ proc.policy \in SUBSET Filters /\ RecordsTyped /\ InHand
      /\ \A i \in DOMAIN epochs : epochs[i].from <= proc.seq
      /\ x < proc.seq /\ x \in Nat
  BY HandFields DEF Observe, Typed, RecordsTyped, HandSound, InHand, Deciding
<1>2. n \in Nat /\ DOMAIN epochs = 1..n /\ \A i \in DOMAIN epochs : epochs[i].from \in Nat
  BY <1>1, EpochFacts
<1>3. epochs' = Observed(proc.seq, proc.policy)
  BY DEF Observe
<1>4. epochs' \in Seq(Epochs)
  BY <1>1, <1>3, ObservedFacts
<1>5. DOMAIN epochs' = 1..Len(epochs') /\ (Len(epochs') > 0 => epochs' # <<>>)
  BY <1>4
<1>6. (epochs = <<>> <=> n = 0) /\ n > 0
  <2>1. epochs = <<>> <=> n = 0
    BY <1>1 DEF RecordsTyped
  <2> QED
    BY <1>2, <2>1 DEF ToldFiltered
<1>7. CASE epochs' = epochs
  BY <1>7 DEF ToldFiltered
<1>8. CASE /\ Len(epochs') = n + 1 /\ \A i \in 1..n : epochs'[i] = epochs[i]
           /\ epochs'[n + 1].from = IF n = 0 THEN 0 ELSE proc.seq
  <2>1. CASE x < epochs[1].from
    BY <1>2, <1>5, <1>6, <1>8, <2>1 DEF ToldFiltered
  <2>2. ASSUME NEW i \in 1..n, epochs[i].policy # {}, epochs[i].from <= x,
               i < n => x < epochs[i + 1].from
        PROVE  ToldFiltered(x)'
    <3>1. epochs'[i] = epochs[i] /\ i \in DOMAIN epochs'
      BY <1>2, <1>5, <1>8
    <3>2. x < epochs'[i + 1].from
      BY <1>1, <1>2, <1>6, <1>8, <2>2
    <3> QED
      BY <2>2, <3>1, <3>2 DEF ToldFiltered
  <2> QED
    BY <1>2, <2>1, <2>2 DEF ToldFiltered
<1>9. CASE /\ n > 0 /\ Len(epochs') = n
           /\ \A i \in 1..(n - 1) : epochs'[i] = epochs[i + 1]
           /\ epochs'[n].from = proc.seq
  <2>1. CASE x < epochs[1].from \/ (n > 1 /\ x < epochs[2].from) \/ n = 1
    <3>1. CASE n = 1
      BY <1>1, <1>5, <1>9, <3>1 DEF ToldFiltered
    <3>2. CASE n > 1
      <4>1. 1 \in 1..(n - 1) /\ 1 \in DOMAIN epochs /\ 2 \in DOMAIN epochs /\ 1 < n
        BY <1>2, <3>2
      <4>2. epochs'[1] = epochs[2] /\ epochs[1].from <= epochs[2].from
        BY <1>9, <4>1 DEF EpochsSound
      <4>3. epochs[1].from \in Nat /\ epochs[2].from \in Nat
        BY <1>2, <4>1
      <4>4. x < epochs[2].from
        BY <1>1, <2>1, <3>2, <4>2, <4>3
      <4>5. epochs' # <<>> /\ x < epochs'[1].from
        BY <1>5, <1>9, <4>2, <4>4
      <4> QED
        BY <4>5 DEF ToldFiltered
    <3> QED
      BY <1>2, <1>6, <3>1, <3>2
  <2>2. ASSUME NEW i \in 2..n, epochs[i].policy # {}, epochs[i].from <= x,
               i < n => x < epochs[i + 1].from
        PROVE  ToldFiltered(x)'
    <3> DEFINE j == i - 1
    <3>1. j \in 1..(n - 1) /\ j \in DOMAIN epochs' /\ j + 1 = i
      BY <1>2, <1>5, <1>9
    <3>2. epochs'[j] = epochs[i]
      BY <1>9, <3>1
    <3>3. x < epochs'[i].from
      <4>1. CASE i = n
        BY <1>1, <1>9, <4>1
      <4>2. CASE i < n
        <5>1. i \in 1..(n - 1)
          BY <1>2, <4>2
        <5> QED
          BY <1>9, <2>2, <4>2, <5>1
      <4>3. i = n \/ i < n
        <5>1. n \in Nat
          BY <1>2
        <5> HIDE DEF n
        <5> QED
          BY <5>1
      <4> QED
        BY <4>1, <4>2, <4>3, Zenon
    <3> HIDE DEF j
    <3> QED
      BY <2>2, <3>1, <3>2, <3>3 DEF ToldFiltered
  <2> QED
    <3>1. CASE x < epochs[1].from
      BY <2>1, <3>1
    <3>2. ASSUME NEW i \in DOMAIN epochs, epochs[i].policy # {}, epochs[i].from <= x,
                 i < n => x < epochs[i + 1].from
          PROVE  ToldFiltered(x)'
      <4>1. i = 1 \/ i \in 2..n
        BY <1>2
      <4>2. CASE i = 1
        <5>1. n = 1 \/ n > 1
          BY <1>2, <1>6
        <5> QED
          BY <2>1, <3>2, <4>2, <5>1
      <4> QED
        BY <2>2, <3>2, <4>1, <4>2
    <3> QED
      BY <3>1, <3>2 DEF ToldFiltered
<1> QED
  BY <1>1, <1>3, <1>7, <1>8, <1>9, ObservedFacts

LEMMA EvidenceObserve ==
  ASSUME Typed, EpochsSound, EvidenceSound, Observe
  PROVE  EpochsSound' /\ EvidenceSound'
<1> DEFINE n == Len(epochs)
<1>1. /\ proc.seq \in Nat /\ proc.policy \in SUBSET Filters /\ RecordsTyped
      /\ \A i \in DOMAIN epochs : epochs[i].from <= proc.seq
  BY HandFields DEF Observe, Typed, RecordsTyped, HandSound, InHand, Deciding
<1>2. n \in Nat /\ DOMAIN epochs = 1..n
  BY <1>1, EpochFacts
<1>3. /\ epochs' = Observed(proc.seq, proc.policy) /\ UNCHANGED <<decided, ex>>
      /\ Accounted' = Accounted
  BY NoOfferFacts DEF Observe, Typed, historyVars
<1>4. /\ epochs' \in Seq(Epochs)
      /\ \/ epochs # <<>> /\ epochs[n].policy = proc.policy /\ epochs' = epochs
         \/ /\ Len(epochs') = n + 1 /\ \A i \in 1..n : epochs'[i] = epochs[i]
            /\ epochs'[n + 1].policy = proc.policy
            /\ epochs'[n + 1].from = IF n = 0 THEN 0 ELSE proc.seq
         \/ /\ n > 0 /\ Len(epochs') = n
            /\ \A i \in 1..(n - 1) : epochs'[i] = epochs[i + 1]
            /\ epochs'[n].policy = proc.policy /\ epochs'[n].from = proc.seq
  BY <1>1, <1>3, ObservedFacts
<1>5. DOMAIN epochs' = 1..Len(epochs') /\ (Len(epochs') > 0 => epochs' # <<>>)
  BY <1>4
<1>6. epochs' # <<>> /\ epochs'[Len(epochs')].policy = proc.policy
  <2>1. CASE epochs # <<>> /\ epochs[n].policy = proc.policy /\ epochs' = epochs
    BY <2>1
  <2>2. CASE Len(epochs') = n + 1 /\ epochs'[n + 1].policy = proc.policy
    BY <1>2, <1>5, <2>2
  <2>3. CASE n > 0 /\ Len(epochs') = n /\ epochs'[n].policy = proc.policy
    BY <1>5, <2>3
  <2> QED
    BY <1>4, <2>1, <2>2, <2>3
<1>7. ASSUME NEW i \in 1..Len(epochs'), i < Len(epochs')
      PROVE  epochs'[i].from <= epochs'[i + 1].from
  <2>0. \A k \in 1..n : k < n => epochs[k].from <= epochs[k + 1].from
    BY <1>2 DEF EpochsSound
  <2>1. CASE epochs' = epochs
    BY <1>2, <1>7, <2>0, <2>1
  <2>2. CASE /\ Len(epochs') = n + 1 /\ \A k \in 1..n : epochs'[k] = epochs[k]
             /\ epochs'[n + 1].from = IF n = 0 THEN 0 ELSE proc.seq
    <3>1. i \in 1..n /\ epochs'[i] = epochs[i]
      BY <1>2, <1>7, <2>2
    <3>2. CASE i = n
      <4>1. epochs'[i + 1].from = proc.seq
        BY <1>2, <2>2, <3>1, <3>2
      <4> QED
        BY <1>1, <1>2, <3>1, <4>1
    <3>3. CASE i < n
      <4>1. i + 1 \in 1..n
        BY <1>2, <3>1, <3>3
      <4>2. epochs'[i + 1] = epochs[i + 1]
        BY <2>2, <4>1
      <4> QED
        BY <2>0, <3>1, <3>3, <4>2
    <3> HIDE DEF n
    <3> QED
      BY <1>2, <3>1, <3>2, <3>3
  <2>3. CASE /\ n > 0 /\ Len(epochs') = n
             /\ \A k \in 1..(n - 1) : epochs'[k] = epochs[k + 1]
             /\ epochs'[n].from = proc.seq
    <3>1. i \in 1..(n - 1) /\ i + 1 \in 1..n /\ epochs'[i] = epochs[i + 1]
      BY <1>2, <1>7, <2>3
    <3>2. CASE i + 1 = n
      <4>1. epochs'[i + 1].from = proc.seq
        BY <2>3, <3>2
      <4> QED
        BY <1>1, <1>2, <3>1, <4>1
    <3>3. CASE i + 1 < n
      <4>1. i + 1 \in 1..(n - 1)
        BY <1>2, <3>1, <3>3
      <4>2. epochs'[i + 1] = epochs[(i + 1) + 1]
        BY <2>3, <4>1
      <4> QED
        BY <2>0, <3>1, <3>3, <4>2
    <3> HIDE DEF n
    <3> QED
      BY <1>2, <3>1, <3>2, <3>3
  <2> QED
    BY <1>4, <2>1, <2>2, <2>3
<1>8. \A x \in decided' : x \in Accounted' \/ ToldFiltered(x)'
  BY <1>3, ToldStays DEF EpochsSound
<1>9. /\ proc'.pc = "append" /\ proc'.policy = proc.policy
      /\ ~proc'.keep => proc.policy # {}
  BY ObserveTyped DEF Observe, EpochsSound
<1>10. EpochsSound'
  BY <1>5, <1>6, <1>7, <1>8, <1>9 DEF EpochsSound
<1>11. EvidenceSound'
  BY <1>3 DEF EvidenceSound, Accounted, StoredEver
<1> QED
  BY <1>10, <1>11

(* The verdict: what the epoch log covers and no filter narrowed is        *)
(* accounted for.                                                          *)
LEMMA EvidenceGrade ==
  ASSUME Typed, EpochsSound, EvidenceSound, ExportGrade
  PROVE  EpochsSound' /\ EvidenceSound'
<1>1. /\ UNCHANGED <<decided, epochs, proc>> /\ Accounted' = Accounted
  BY NoOfferFacts DEF ExportGrade, Typed, historyVars
<1>2. EpochsSound'
  <2>1. \A x : ToldFiltered(x)' = ToldFiltered(x)
    BY <1>1 DEF ToldFiltered
  <2> QED
    BY <1>1, <2>1 DEF EpochsSound
<1>3. ASSUME ex'.verdict = "complete", NEW x \in decided, x >= ex.from, x <= ex.to
      PROVE  x \in Accounted
  <2>1. Covered(ex.from) /\ ~Narrowed(ex.from, ex.to)
    BY <1>3 DEF ExportGrade, Grade
  <2>2. /\ ex.from \in Nat /\ ex.to \in Nat /\ x \in Nat
        /\ Len(epochs) \in Nat /\ DOMAIN epochs = 1..Len(epochs)
        /\ \A i \in DOMAIN epochs : epochs[i].from \in Nat
    BY EpochFacts DEF ExportGrade, Typed, ExportTyped, RecordsTyped
  <2>3. 1 \in DOMAIN epochs
    BY <2>1, <2>2 DEF Covered, Typed, RecordsTyped
  <2>4. ~(x < epochs[1].from)
    BY <1>3, <2>1, <2>2, <2>3 DEF Covered
  <2>5. ASSUME NEW i \in DOMAIN epochs, epochs[i].policy # {}, epochs[i].from <= x,
               i < Len(epochs) => x < epochs[i + 1].from
        PROVE  FALSE
    <3>1. epochs[i].from <= ex.to
      BY <1>3, <2>2, <2>5
    <3>2. i < Len(epochs) => epochs[i + 1].from - 1 >= ex.from
      <4>1. SUFFICES ASSUME i < Len(epochs) PROVE epochs[i + 1].from - 1 >= ex.from
        OBVIOUS
      <4>2. i + 1 \in DOMAIN epochs
        BY <2>2, <4>1
      <4>3. epochs[i + 1].from \in Nat /\ x < epochs[i + 1].from
        BY <2>2, <2>5, <4>1, <4>2
      <4> QED
        BY <1>3, <2>2, <4>3
    <3> QED
      BY <2>1, <2>5, <3>1, <3>2 DEF Narrowed
  <2>6. ~ToldFiltered(x)
    BY <2>4, <2>5 DEF ToldFiltered
  <2> QED
    BY <2>6 DEF EpochsSound
<1>4. ex'.judged = decided /\ ex'.from = ex.from /\ ex'.to = ex.to
  BY DEF ExportGrade
<1>5. EvidenceSound'
  BY <1>1, <1>3, <1>4 DEF EvidenceSound, Accounted, StoredEver
<1> QED
  BY <1>2, <1>5

LEMMA EvidenceNext ==
  Typed /\ EpochsSound /\ EvidenceSound /\ [IngestNext]_ingestVars
    => EpochsSound' /\ EvidenceSound'
<1> SUFFICES ASSUME Typed, EpochsSound, EvidenceSound, [IngestNext]_ingestVars
             PROVE  EpochsSound' /\ EvidenceSound'
  OBVIOUS
<1>1. CASE UNCHANGED ingestVars
  <2>1. UNCHANGED <<decided, epochs, ex, proc>> /\ Accounted' = Accounted
    BY <1>1 DEF ingestVars, vars, storeVars, historyVars, Accounted
  <2> QED
    BY <2>1, EvidenceFrame
<1>2. CASE IngestNext
  <2> USE <1>2
  <2>0. Accounted \subseteq Accounted'
    BY AccountedGrows
  <2>1. ASSUME NEW c \in Contents, Receive(c) PROVE EpochsSound' /\ EvidenceSound'
    BY <2>0, <2>1, EvidenceFrame DEF Receive, historyVars
  <2>2. CASE Snapshot
    BY <2>0, <2>2, SnapshotTyped, EvidenceFrame DEF Snapshot, historyVars
  <2>3. ASSUME NEW e \in Waiting, Decrement(e) PROVE EpochsSound' /\ EvidenceSound'
    BY <2>0, <2>3, DecrementTyped, EvidenceFrame DEF Decrement, historyVars
  <2>4. CASE Evaluate
    BY <2>0, <2>4, EvaluateTyped, EvidenceFrame DEF Evaluate, historyVars
  <2>5. CASE StoreMatch
    BY <2>0, <2>5, StoreMatchTyped, EvidenceFrame DEF StoreMatch, historyVars
  <2>6. CASE Drain
    BY <2>0, <2>6, DrainTyped, EvidenceFrame DEF Drain, historyVars
  <2>7. CASE CopyTrace
    BY <2>0, <2>7, CopyTraceTyped, EvidenceFrame DEF CopyTrace, historyVars
  <2>8. CASE InsertFlushed
    BY <2>0, <2>8, InsertFlushedTyped, EvidenceFrame DEF InsertFlushed
  <2>9. CASE Extend
    BY <2>0, <2>9, ExtendTyped, EvidenceFrame DEF Extend, historyVars
  <2>10. CASE Notify
    BY <2>0, <2>10, NotifyTyped, EvidenceFrame DEF Notify, historyVars
  <2>11. CASE ProcResync
    BY <2>0, <2>11, ProcResyncTyped, EvidenceFrame DEF ProcResync, historyVars
  <2>12. CASE Buffer
    BY <2>0, <2>12, BufferTyped, EvidenceFrame DEF Buffer, historyVars
  <2>13. CASE Decide
    <3>1. UNCHANGED <<decided, epochs, ex>>
      BY <2>13 DEF Decide, historyVars
    <3>2. \A x : ToldFiltered(x)' = ToldFiltered(x)
      BY <3>1 DEF ToldFiltered
    <3>3. EpochsSound'
      BY <2>0, <2>13, <3>1, <3>2, DecideTyped DEF EpochsSound
    <3>4. EvidenceSound'
      BY <2>0, <3>1 DEF EvidenceSound, Accounted, StoredEver
    <3> QED
      BY <3>3, <3>4
  <2>14. ASSUME NEW s \in Sessions,
                \/ FilterRequest(s) \/ TriggerRequest(s) \/ SetDomain(s)
                \/ ResetWindows(s) \/ SyncBuffer(s)
         PROVE  EpochsSound' /\ EvidenceSound'
    <3>1. UNCHANGED <<decided, epochs, ex, proc>>
      BY <2>14 DEF FilterRequest, TriggerRequest, AddFilter, RemoveFilter, EditFilter,
         AddTrigger, EditTrigger, RemoveTrigger, Request, SetDomain, ResetWindows,
         SyncBuffer, historyVars
    <3> QED
      BY <2>0, <3>1, EvidenceFrame
  <2>15. CASE SpanNumbered \/ ClearLogs
    BY <2>0, <2>15, EvidenceFrame DEF SpanNumbered, ClearLogs, historyVars
  <2>16. CASE ExportStep
    <3>1. ASSUME NEW ask \in ExportAsks, ExportQuery(ask[1], ask[2])
          PROVE  EpochsSound' /\ EvidenceSound'
      BY <2>0, <3>1, EvidenceFrame DEF ExportQuery, historyVars
    <3>2. CASE ExportRange
      BY <2>0, <3>2, EvidenceFrame DEF ExportRange, historyVars
    <3> QED
      BY <2>16, <3>1, <3>2, EvidenceGrade DEF ExportStep
  <2> QED
    BY <2>1, <2>2, <2>3, <2>4, <2>5, <2>6, <2>7, <2>8, <2>9, <2>10, <2>11, <2>12, <2>13,
       <2>14, <2>15, <2>16, StepKinds, EvidenceStore, EvidenceAppend, EvidenceObserve
<1> QED
  BY <1>1, <1>2

LEMMA EvidenceInit == IngestInit => EpochsSound /\ EvidenceSound
<1> SUFFICES ASSUME IngestInit PROVE EpochsSound /\ EvidenceSound
  OBVIOUS
<1>1. epochs = <<>> /\ DOMAIN epochs = {}
  BY DEF IngestInit
<1> QED
  BY <1>1 DEF IngestInit, EpochsSound, EvidenceSound, IdleProc, NoExport

(* An export calls a range complete only when every log record of it that  *)
(* had been decided was stored, or a clear refused it: no filter change,   *)
(* rebind, overflow of the epoch log or step between the query and the     *)
(* verdict hides a record that a filter dropped (evidence_verdict).        *)
THEOREM CompleteIsEarned == IngestSpec => []EvidenceSound
<1>1. IngestSpec => [](EpochsSound /\ EvidenceSound)
  BY EvidenceInit, EvidenceNext, IngestTyped, PTL DEF IngestSpec
<1> QED
  BY <1>1, PTL
-----------------------------------------------------------------------------
(* A oneshot trigger fires once. *)

FiringBegun == {"match", "drain", "copy", "insert"}
FiringMade == {"extend", "notify"}

(* No firing is added, and no trigger with the id of one that fired. *)
LEMMA OneshotFrame ==
  ASSUME Typed, OneshotSound, OneshotOnce, fires' = fires,
         \A s \in Sessions : \A i \in DOMAIN trig'[s] \ DOMAIN trig[s] :
           \A f \in fires : f.s = s => f.id # i,
         \/ proc' = proc
         \/ proc.pc \notin FiringMade /\ proc'.pc \notin FiringBegun
         \/ proc.pc \in FiringBegun /\ SameMatch
         \/ proc.pc = "extend" /\ proc'.pc = "notify" /\ SameMatch
  PROVE  OneshotSound' /\ OneshotOnce'
<1>1. OneshotOnce'
  BY DEF OneshotOnce
<1>2. ASSUME NEW f \in fires, f.oneshot
      PROVE  f.id \notin DOMAIN trig'[f.s] \/ Leaving(f)'
  <2>1. f.s \in Sessions /\ (f.id \notin DOMAIN trig[f.s] \/ Leaving(f))
    BY <1>2 DEF OneshotSound, Typed, RecordsTyped, Firings
  <2>2. Leaving(f) => Leaving(f)'
    BY DEF Leaving, SameMatch, FiringMade, FiringBegun
  <2> QED
    BY <2>1, <2>2
<1>3. ASSUME proc'.pc \in FiringBegun, NEW f \in fires, NEW m \in proc'.fired, f.oneshot,
             f.s = proc'.s
      PROVE  f.id # m.id
  BY <1>3 DEF OneshotSound, SameMatch, FiringBegun
<1> QED
  BY <1>1, <1>2, <1>3 DEF OneshotSound, FiringBegun

LEMMA OneshotEvaluate ==
  ASSUME Typed, OneshotSound, OneshotOnce, Evaluate
  PROVE  OneshotSound' /\ OneshotOnce'
<1> DEFINE s == proc.s
           c == content[proc.seq]
           hit == {i \in DOMAIN trig[s] : Matches(s, trig[s][i], c)}
           T == [i \in DOMAIN trig[s] |-> Counted(s, trig[s][i], c)]
<1>1. /\ trig' = [trig EXCEPT ![s] = T] /\ UNCHANGED fires /\ proc.pc = "evaluate"
  BY DEF Evaluate, historyVars
<1>2. \A r \in Sessions : DOMAIN trig'[r] = DOMAIN trig[r]
  BY <1>1 DEF Typed, SessionsTyped
<1>3. proc'.pc = "match" => proc'.s = s /\ \A m \in proc'.fired : m.id \in DOMAIN trig[s]
  BY DEF Evaluate, Fired
<1>4. OneshotOnce'
  BY <1>1 DEF OneshotOnce
<1>5. \A f \in fires : f.oneshot => f.s \in Sessions /\ f.id \notin DOMAIN trig[f.s]
  BY <1>1 DEF OneshotSound, Leaving, Typed, RecordsTyped, Firings
<1>6. proc'.pc \in {"sessions", "match"}
  BY EvaluateTyped
<1> HIDE DEF s
<1> QED
  BY <1>1, <1>2, <1>3, <1>4, <1>5, <1>6 DEF OneshotSound

LEMMA OneshotInsert ==
  ASSUME Typed, OneshotSound, OneshotOnce, InsertFlushed
  PROVE  OneshotSound' /\ OneshotOnce'
<1>1. /\ SameMatch /\ proc'.pc = "extend" /\ proc.pc = "insert"
      /\ fires' = fires \cup NewFires /\ trig' = trig
  BY InsertFlushedTyped DEF InsertFlushed, sessionVars
<1>2. ASSUME NEW f \in NewFires
      PROVE  /\ f.s = proc.s /\ f.seq = proc.seq
             /\ \E m \in proc.fired : m.id = f.id /\ m.oneshot = f.oneshot
  BY DEF NewFires
<1>3. ASSUME NEW f \in fires
      PROVE  /\ f.seq <= proc.seq /\ f.seq \in Nat /\ proc.seq \in Nat
             /\ f.oneshot => f.id \notin DOMAIN trig[f.s]
             /\ f.oneshot /\ f.s = proc.s => \A m \in proc.fired : m.id # f.id
  BY <1>1 DEF OneshotSound, Leaving, Typed, HandSound, InHand, RecordsTyped, Firings,
     StoreTyped
<1>4. OneshotOnce'
  <2> SUFFICES ASSUME NEW f \in fires \cup NewFires, NEW g \in fires \cup NewFires,
                      f.oneshot, f.s = g.s, f.id = g.id
               PROVE  f.seq >= g.seq
    BY <1>1 DEF OneshotOnce
  <2>1. CASE f \in fires /\ g \in fires
    BY <2>1 DEF OneshotOnce
  <2>2. CASE f \in NewFires /\ g \in fires
    BY <1>2, <1>3, <2>2
  <2>3. CASE f \in fires /\ g \in NewFires
    BY <1>2, <1>3, <2>3
  <2>4. CASE f \in NewFires /\ g \in NewFires
    <3>1. f.seq = g.seq /\ f.seq \in Nat
      BY <1>1, <1>2, <2>4 DEF Typed, HandSound, InHand, StoreTyped
    <3> QED
      BY <3>1
  <2> QED
    BY <2>1, <2>2, <2>3, <2>4
<1>5. ASSUME NEW f \in fires', f.oneshot
      PROVE  f.id \notin DOMAIN trig'[f.s] \/ Leaving(f)'
  <2>1. CASE f \in fires
    BY <1>1, <1>3, <1>5, <2>1
  <2>2. CASE f \in NewFires
    BY <1>1, <1>2, <1>5, <2>2 DEF Leaving, SameMatch
  <2> QED
    BY <1>1, <2>1, <2>2
<1> QED
  BY <1>1, <1>4, <1>5 DEF OneshotSound

LEMMA OneshotNotify ==
  ASSUME Typed, OneshotSound, OneshotOnce, Notify
  PROVE  OneshotSound' /\ OneshotOnce'
<1> DEFINE T == [i \in DOMAIN trig[proc.s] \ Spent(proc.fired) |-> trig[proc.s][i]]
<1>1. /\ trig' = [trig EXCEPT ![proc.s] = T] /\ UNCHANGED fires
      /\ proc'.pc \in {"sessions", "resync"}
  BY NotifyTyped DEF Notify, historyVars
<1>2. \A r \in Sessions : \A i \in DOMAIN trig'[r] :
        i \in DOMAIN trig[r] /\ (r = proc.s => i \notin Spent(proc.fired))
  BY <1>1 DEF Typed, SessionsTyped
<1>3. ASSUME NEW f \in fires, f.oneshot
      PROVE  f.id \notin DOMAIN trig'[f.s]
  <2>1. f.s \in Sessions /\ (f.id \notin DOMAIN trig[f.s] \/ Leaving(f))
    BY <1>3 DEF OneshotSound, Typed, RecordsTyped, Firings
  <2>2. Leaving(f) => f.s = proc.s /\ f.id \in Spent(proc.fired)
    BY DEF Leaving, Spent
  <2> QED
    BY <1>2, <2>1, <2>2
<1>4. OneshotOnce'
  BY <1>1 DEF OneshotOnce
<1> QED
  BY <1>1, <1>3, <1>4 DEF OneshotSound

LEMMA OneshotRequest ==
  ASSUME Typed, OneshotSound, OneshotOnce, NEW s \in Sessions,
         \/ FilterRequest(s) \/ TriggerRequest(s) \/ SetDomain(s)
         \/ ResetWindows(s) \/ SyncBuffer(s)
  PROVE  OneshotSound' /\ OneshotOnce'
<1>1. fires' = fires /\ proc' = proc
  BY DEF FilterRequest, TriggerRequest, AddFilter, RemoveFilter, EditFilter,
     AddTrigger, EditTrigger, RemoveTrigger, Request, SetDomain, ResetWindows,
     SyncBuffer, historyVars
<1>2. CASE TriggerRequest(s)
  <2>1. PICK T : Retriggered(s, T)
    BY <1>2, TriggerRequestFacts
  <2>2. \A r \in Sessions : \A i \in DOMAIN trig'[r] \ DOMAIN trig[r] :
          \A f \in fires : f.s = r => f.id # i
    BY <2>1 DEF Retriggered, Typed, SessionsTyped
  <2> QED
    BY <1>1, <2>2, OneshotFrame
<1>3. CASE FilterRequest(s) \/ SetDomain(s) \/ SyncBuffer(s)
  <2>1. trig' = trig
    BY <1>3 DEF FilterRequest, AddFilter, RemoveFilter, EditFilter, SetDomain, SyncBuffer
  <2> QED
    BY <1>1, <2>1, OneshotFrame
<1>4. CASE ResetWindows(s)
  <2>1. \A r \in Sessions : DOMAIN trig'[r] = DOMAIN trig[r]
    BY <1>4 DEF ResetWindows, Typed, SessionsTyped
  <2> QED
    BY <1>1, <2>1, OneshotFrame
<1> QED
  BY <1>2, <1>3, <1>4

LEMMA OneshotNext ==
  Typed /\ OneshotSound /\ OneshotOnce /\ [IngestNext]_ingestVars
    => OneshotSound' /\ OneshotOnce'
<1> SUFFICES ASSUME Typed, OneshotSound, OneshotOnce, [IngestNext]_ingestVars
             PROVE  OneshotSound' /\ OneshotOnce'
  OBVIOUS
<1>1. CASE UNCHANGED ingestVars
  <2>1. UNCHANGED <<fires, trig, proc>>
    BY <1>1 DEF ingestVars, sessionVars, historyVars
  <2> QED
    BY <2>1, OneshotFrame
<1>2. CASE IngestNext
  <2>1. ASSUME NEW c \in Contents, Receive(c) PROVE OneshotSound' /\ OneshotOnce'
    <3>1. UNCHANGED <<fires, trig>> /\ proc.pc = "idle" /\ proc'.pc = "snapshot"
      BY <2>1 DEF Receive, sessionVars, historyVars, IdleProc
    <3> QED
      BY <3>1, OneshotFrame DEF FiringMade, FiringBegun
  <2>2. CASE Snapshot \/ \E e \in Waiting : Decrement(e)
    <3>1. UNCHANGED <<fires, trig>> /\ proc.pc \in {"snapshot", "sessions"}
      BY <2>2 DEF Snapshot, Decrement, sessionVars, historyVars
    <3>2. proc'.pc \in {"sessions", "evaluate"}
      BY <2>2, SnapshotTyped, DecrementTyped
    <3> QED
      BY <3>1, <3>2, OneshotFrame DEF FiringMade, FiringBegun
  <2>3. CASE StoreMatch \/ Drain \/ CopyTrace
    <3>1. UNCHANGED <<fires, trig>> /\ proc.pc \in FiringBegun
      BY <2>3 DEF StoreMatch, Drain, CopyTrace, sessionVars, historyVars, FiringBegun
    <3>2. SameMatch
      BY <2>3, StoreMatchTyped, DrainTyped, CopyTraceTyped
    <3> QED
      BY <3>1, <3>2, OneshotFrame
  <2>4. CASE Extend
    <3>1. UNCHANGED <<fires, trig>> /\ proc.pc = "extend"
      BY <2>4 DEF Extend, sessionVars, historyVars
    <3>2. SameMatch /\ proc'.pc = "notify"
      BY <2>4, ExtendTyped
    <3> QED
      BY <3>1, <3>2, OneshotFrame
  <2>5. CASE ProcResync \/ Buffer
    <3>1. UNCHANGED <<fires, trig>> /\ proc.pc \in {"resync", "sessions"}
      BY <2>5 DEF ProcResync, Buffer, sessionVars, historyVars
    <3>2. proc'.pc \in {"sessions", "store"}
      BY <2>5, ProcResyncTyped, BufferTyped
    <3> QED
      BY <3>1, <3>2, OneshotFrame DEF FiringMade, FiringBegun
  <2>6. CASE StoreUnconditionally \/ Decide \/ Observe \/ AppendDecided
    <3>1. UNCHANGED <<fires, trig>> /\ proc.pc \in {"store", "observe", "append"}
      BY <2>6 DEF StoreUnconditionally, Decide, Observe, AppendDecided, sessionVars,
         historyVars
    <3>2. proc'.pc \in {"idle", "observe", "append"}
      BY <2>6, StoreUnconditionallyTyped, DecideTyped, ObserveTyped, AppendDecidedTyped
    <3> QED
      BY <3>1, <3>2, OneshotFrame DEF FiringMade, FiringBegun
  <2>7. CASE SpanNumbered \/ ClearLogs \/ ExportStep
    <3>1. UNCHANGED <<fires, trig, proc>>
      BY <2>7 DEF SpanNumbered, ClearLogs, ExportStep, ExportQuery, ExportRange,
         ExportGrade, sessionVars, historyVars
    <3> QED
      BY <3>1, OneshotFrame
  <2> QED
    BY <1>2, <2>1, <2>2, <2>3, <2>4, <2>5, <2>6, <2>7, StepKinds, OneshotEvaluate,
       OneshotInsert, OneshotNotify, OneshotRequest
<1> QED
  BY <1>1, <1>2

LEMMA OneshotInit == IngestInit => OneshotSound /\ OneshotOnce
BY DEF IngestInit, OneshotSound, OneshotOnce, IdleProc

(* A oneshot trigger fires for one record only, whatever is edited, added  *)
(* or removed between the match and the removal that follows it            *)
(* (log_processor.rs, remove_trigger of the oneshots).                     *)
THEOREM OneshotsFireOnce == IngestSpec => []OneshotOnce
<1>1. IngestSpec => [](OneshotSound /\ OneshotOnce)
  BY OneshotInit, OneshotNext, IngestTyped, PTL DEF IngestSpec
<1> QED
  BY <1>1, PTL
-----------------------------------------------------------------------------
(* A debounce never exceeds the window its trigger asks for. *)

LEMMA AskedNext ==
  Typed /\ WindowWithinAsked /\ [IngestNext]_ingestVars => WindowWithinAsked'
<1> SUFFICES ASSUME Typed, WindowWithinAsked, [IngestNext]_ingestVars
             PROVE  WindowWithinAsked'
  OBVIOUS
<1>0. DOMAIN trig = Sessions
  BY DEF Typed, SessionsTyped
<1>1. ASSUME NEW s \in Sessions, NEW T, trig' = [trig EXCEPT ![s] = T],
             \A i \in DOMAIN T : T[i].left <= T[i].post
      PROVE  WindowWithinAsked'
  <2>1. DOMAIN trig' = Sessions /\ trig'[s] = T /\ \A r \in Sessions \ {s} : trig'[r] = trig[r]
    BY <1>0, <1>1
  <2> QED
    BY <1>0, <1>1, <2>1 DEF WindowWithinAsked
<1>2. CASE Evaluate
  <2> DEFINE s == proc.s
             c == content[proc.seq]
             T == [i \in DOMAIN trig[s] |-> Counted(s, trig[s][i], c)]
  <2>1. s \in Sessions /\ trig' = [trig EXCEPT ![s] = T]
    BY <1>2, HandFields DEF Evaluate, Evaluating, Typed, RecordsTyped
  <2>2. \A i \in DOMAIN trig[s] : trig[s][i] \in Triggers /\ trig[s][i].left <= trig[s][i].post
    BY <1>0, <2>1 DEF Typed, SessionsTyped, WindowWithinAsked
  <2>3. \A i \in DOMAIN T : T[i].left <= T[i].post
    BY <2>2, CountedFacts
  <2> HIDE DEF T, s
  <2> QED
    BY <1>1, <2>1, <2>3
<1>3. CASE Notify
  <2> DEFINE T == [i \in DOMAIN trig[proc.s] \ Spent(proc.fired) |-> trig[proc.s][i]]
  <2>1. proc.s \in Sessions /\ trig' = [trig EXCEPT ![proc.s] = T]
    BY <1>3, HandFields DEF Notify, Matching, FiringPcs, Typed, RecordsTyped
  <2>2. \A i \in DOMAIN T : T[i].left <= T[i].post
    BY <1>0, <2>1 DEF WindowWithinAsked
  <2> HIDE DEF T
  <2> QED
    BY <1>1, <2>1, <2>2
<1>4. ASSUME NEW s \in Sessions, TriggerRequest(s) PROVE WindowWithinAsked'
  <2>1. PICK T : Retriggered(s, T)
    BY <1>4, TriggerRequestFacts
  <2>2. trig' = [trig EXCEPT ![s] = T] /\ \A i \in DOMAIN T : T[i].left <= T[i].post
    BY <1>0, <2>1 DEF Retriggered, WindowWithinAsked
  <2> QED
    BY <1>1, <2>2
<1>5. ASSUME NEW s \in Sessions, ResetWindows(s) PROVE WindowWithinAsked'
  <2> DEFINE T == [i \in DOMAIN trig[s] |-> [trig[s][i] EXCEPT !.left = 0]]
  <2>1. trig' = [trig EXCEPT ![s] = T]
    BY <1>5 DEF ResetWindows
  <2>2. \A i \in DOMAIN T : T[i].left <= T[i].post
    <3>1. \A t \in Triggers : /\ [t EXCEPT !.left = 0].left = 0
                              /\ [t EXCEPT !.left = 0].post = t.post /\ t.post >= 0
      BY WindowAssumption DEF Triggers, Windows
    <3>2. \A i \in DOMAIN trig[s] : trig[s][i] \in Triggers /\ trig[s][i].post \in Nat
      BY DEF Typed, SessionsTyped, Triggers, Windows
    <3> QED
      BY <3>1, <3>2
  <2> HIDE DEF T
  <2> QED
    BY <1>1, <2>1, <2>2
<1>6. CASE trig' = trig
  BY <1>6 DEF WindowWithinAsked
<1>7. ASSUME NEW s \in Sessions, FilterRequest(s) \/ SetDomain(s) \/ SyncBuffer(s)
      PROVE  trig' = trig
  BY <1>7 DEF FilterRequest, AddFilter, RemoveFilter, EditFilter, SetDomain, SyncBuffer
<1>8. ASSUME NEW e \in Waiting, Decrement(e) PROVE trig' = trig
  BY <1>8 DEF Decrement, sessionVars
<1>9. ASSUME NEW c \in Contents, Receive(c) PROVE trig' = trig
  BY <1>9 DEF Receive, sessionVars
<1>10. ASSUME \/ Snapshot \/ StoreMatch \/ Drain \/ CopyTrace \/ InsertFlushed \/ Extend
              \/ ProcResync \/ Buffer \/ StoreUnconditionally \/ Decide \/ Observe
              \/ AppendDecided \/ SpanNumbered \/ ClearLogs \/ ExportStep
       PROVE  trig' = trig
  BY <1>10 DEF Snapshot, StoreMatch, Drain, CopyTrace, InsertFlushed, Extend, ProcResync,
     Buffer, StoreUnconditionally, Decide, Observe, AppendDecided, SpanNumbered, ClearLogs,
     ExportStep, ExportQuery, ExportRange, ExportGrade, sessionVars
<1>11. CASE UNCHANGED ingestVars
  BY <1>6, <1>11 DEF ingestVars, sessionVars
<1>12. CASE IngestNext
  BY <1>2, <1>3, <1>4, <1>5, <1>6, <1>7, <1>8, <1>9, <1>10, <1>12, StepKinds
<1> QED
  BY <1>11, <1>12
-----------------------------------------------------------------------------
(* The pre-trigger buffer has the size the bound sessions need. *)

(* No request and no removal of a oneshot has a resync still to make. *)
Settled == (\A s \in DOMAIN rpc : rpc[s] = "none") /\ proc.pc # "resync"

BufferSound ==
  /\ Settled => preCap = DomainPre
  /\ \A x \in DOMAIN preBuf : preBuf[x] >= arrivals - preCap

(* DomainPre depends on what the triggers of the bound sessions ask for. *)
LEMMA DomainPreSame ==
  ASSUME bound' = bound, \A s \in bound : SessionPre(s)' = SessionPre(s)
  PROVE  DomainPre' = DomainPre
<1>1. {SessionPre(s) : s \in bound}' = {SessionPre(s) : s \in bound}
  OBVIOUS
<1> QED
  BY <1>1 DEF DomainPre

(* Triggers that ask for the same pre-windows. *)
LEMMA SessionPreSame ==
  ASSUME NEW s, DOMAIN trig'[s] = DOMAIN trig[s],
         \A i \in DOMAIN trig[s] : trig'[s][i].pre = trig[s][i].pre
  PROVE  SessionPre(s)' = SessionPre(s)
<1>1. {trig'[s][i].pre : i \in DOMAIN trig'[s]} = {trig[s][i].pre : i \in DOMAIN trig[s]}
  OBVIOUS
<1> QED
  BY <1>1 DEF SessionPre

LEMMA BufferFrame ==
  ASSUME BufferSound, UNCHANGED <<preBuf, arrivals, preCap>>,
         Settled' => Settled /\ DomainPre' = DomainPre
  PROVE  BufferSound'
BY DEF BufferSound

LEMMA BufferResync ==
  ASSUME Resync, UNCHANGED <<bound, trig>>
  PROVE  BufferSound'
<1>1. DomainPre' = DomainPre
  BY DEF DomainPre, SessionPre
<1>2. preCap' = DomainPre /\ preBuf' = Expired(preBuf, preCap', arrivals)
      /\ arrivals' = arrivals
  BY DEF Resync
<1>3. \A x \in DOMAIN preBuf' : preBuf'[x] >= arrivals' - preCap'
  BY <1>2 DEF Expired
<1> QED
  BY <1>1, <1>2, <1>3 DEF BufferSound

LEMMA BufferRequest ==
  ASSUME Typed, BufferSound, NEW s \in Sessions,
         \/ FilterRequest(s) \/ TriggerRequest(s) \/ SetDomain(s)
         \/ ResetWindows(s) \/ SyncBuffer(s)
  PROVE  BufferSound'
<1>0. rpc \in [Sessions -> {"none", "reset", "sync"}] /\ bound \subseteq Sessions
      /\ DOMAIN trig = Sessions
  BY DEF Typed, SessionsTyped
<1>1. CASE FilterRequest(s)
  <2>1. /\ UNCHANGED <<preBuf, arrivals, preCap, bound, trig, proc>> /\ rpc[s] = "none"
        /\ rpc' = rpc \/ rpc' = [rpc EXCEPT ![s] = Pending(s)]
    BY <1>1 DEF FilterRequest, AddFilter, RemoveFilter, EditFilter, Request, preVars
  <2>2. DomainPre' = DomainPre
    BY <2>1 DEF DomainPre, SessionPre
  <2>3. Settled' => Settled
    BY <1>0, <2>1 DEF Settled
  <2> QED
    BY <2>1, <2>2, <2>3, BufferFrame
<1>2. CASE TriggerRequest(s)
  <2>1. /\ UNCHANGED <<preBuf, arrivals, preCap, bound, proc>> /\ rpc[s] = "none"
        /\ rpc' = [rpc EXCEPT ![s] = Pending(s)]
    BY <1>2, TriggerRequestFacts
  <2>2. PICK T : Retriggered(s, T)
    BY <1>2, TriggerRequestFacts
  <2>3. CASE s \in bound
    <3>1. ~Settled'
      BY <1>0, <2>1, <2>3 DEF Settled, Pending
    <3> QED
      BY <2>1, <3>1, BufferFrame
  <2>4. CASE s \notin bound
    <3>1. \A r \in bound : trig'[r] = trig[r]
      BY <1>0, <2>2, <2>4 DEF Retriggered
    <3>2. DomainPre' = DomainPre
      <4>1. \A r \in bound : SessionPre(r)' = SessionPre(r)
        BY <3>1 DEF SessionPre
      <4> QED
        BY <2>1, <4>1, DomainPreSame
    <3>3. Settled' => Settled
      BY <1>0, <2>1 DEF Settled
    <3> QED
      BY <2>1, <3>2, <3>3, BufferFrame
  <2> QED
    BY <2>3, <2>4
<1>3. CASE SetDomain(s) \/ ResetWindows(s)
  <2>1. UNCHANGED <<preBuf, arrivals, preCap>>
    BY <1>3 DEF SetDomain, ResetWindows, preVars
  <2>2. ~Settled'
    BY <1>0, <1>3 DEF SetDomain, ResetWindows, Settled
  <2> QED
    BY <2>1, <2>2, BufferFrame
<1>4. CASE SyncBuffer(s)
  BY <1>4, BufferResync DEF SyncBuffer
<1> QED
  BY <1>1, <1>2, <1>3, <1>4

LEMMA BufferNext ==
  Typed /\ BufferSound /\ [IngestNext]_ingestVars => BufferSound'
<1> SUFFICES ASSUME Typed, BufferSound, [IngestNext]_ingestVars PROVE BufferSound'
  OBVIOUS
<1>0. bound \subseteq Sessions /\ DOMAIN trig = Sessions
  BY DEF Typed, SessionsTyped
<1>1. ASSUME UNCHANGED <<preBuf, arrivals, preCap, bound, trig, rpc>>,
             proc' = proc \/ proc.pc # "resync"
      PROVE  BufferSound'
  <2>1. DomainPre' = DomainPre
    BY <1>1 DEF DomainPre, SessionPre
  <2>2. Settled' => Settled
    BY <1>1 DEF Settled
  <2> QED
    BY <1>1, <2>1, <2>2, BufferFrame
<1>2. ASSUME \/ \E c \in Contents : Receive(c)
             \/ \E e \in Waiting : Decrement(e)
             \/ Snapshot \/ StoreMatch \/ CopyTrace \/ InsertFlushed \/ Extend
             \/ StoreUnconditionally \/ Decide \/ Observe \/ AppendDecided
             \/ SpanNumbered \/ ClearLogs \/ ExportStep
      PROVE  BufferSound'
  <2>1. UNCHANGED <<preBuf, arrivals, preCap, bound, trig, rpc>>
    BY <1>2 DEF Receive, Decrement, Snapshot, StoreMatch, CopyTrace, InsertFlushed, Extend,
       StoreUnconditionally, Decide, Observe, AppendDecided, SpanNumbered, ClearLogs,
       ExportStep, ExportQuery, ExportRange, ExportGrade, sessionVars, preVars
  <2>2. proc' = proc \/ proc.pc # "resync"
    <3>1. CASE \E c \in Contents : Receive(c)
      BY <3>1 DEF Receive, IdleProc
    <3>2. CASE (\E e \in Waiting : Decrement(e)) \/ Snapshot \/ StoreMatch \/ CopyTrace
               \/ InsertFlushed \/ Extend \/ StoreUnconditionally \/ Decide \/ Observe
               \/ AppendDecided
      BY <3>2 DEF Decrement, Snapshot, StoreMatch, CopyTrace, InsertFlushed, Extend,
         StoreUnconditionally, Decide, Observe, AppendDecided
    <3>3. CASE SpanNumbered \/ ClearLogs \/ ExportStep
      BY <3>3 DEF SpanNumbered, ClearLogs, ExportStep, ExportQuery, ExportRange, ExportGrade
    <3> QED
      BY <1>2, <3>1, <3>2, <3>3
  <2> QED
    BY <1>1, <2>1, <2>2
<1>3. CASE Evaluate
  <2>1. /\ UNCHANGED <<preBuf, arrivals, preCap, bound, rpc>> /\ proc.pc # "resync"
    BY <1>3 DEF Evaluate, preVars
  <2>2. ASSUME NEW r \in bound PROVE SessionPre(r)' = SessionPre(r)
    <3>1. proc.s \in Sessions /\ r \in Sessions
      BY <1>0, <1>3, HandFields DEF Evaluate, Evaluating, Typed, RecordsTyped
    <3>2. trig' = [trig EXCEPT ![proc.s] =
                     [i \in DOMAIN trig[proc.s] |->
                        Counted(proc.s, trig[proc.s][i], content[proc.seq])]]
      BY <1>3 DEF Evaluate
    <3>3. \A i \in DOMAIN trig[r] : trig[r][i] \in Triggers
      BY <3>1 DEF Typed, SessionsTyped
    <3>4. \A i \in DOMAIN trig[r] :
            Counted(proc.s, trig[r][i], content[proc.seq]).pre = trig[r][i].pre
      BY <3>3, CountedFacts
    <3>5. /\ DOMAIN trig'[r] = DOMAIN trig[r]
          /\ \A i \in DOMAIN trig[r] : trig'[r][i].pre = trig[r][i].pre
      BY <1>0, <3>1, <3>2, <3>4
    <3> QED
      BY <3>5, SessionPreSame
  <2>3. DomainPre' = DomainPre
    BY <2>1, <2>2, DomainPreSame
  <2>4. Settled' => Settled
    BY <2>1 DEF Settled
  <2> QED
    BY <2>1, <2>3, <2>4, BufferFrame
<1>4. CASE Drain
  <2>1. /\ UNCHANGED <<arrivals, preCap, bound, trig, rpc>> /\ proc.pc # "resync"
    BY <1>4 DEF Drain, BufferDrain, sessionVars
  <2>2. DomainPre' = DomainPre /\ (Settled' => Settled)
    BY <2>1 DEF DomainPre, SessionPre, Settled
  <2>3. \A x \in DOMAIN preBuf' : preBuf'[x] >= arrivals' - preCap'
    BY <1>4, <2>1 DEF Drain, BufferDrain, BufferSound
  <2> QED
    BY <2>1, <2>2, <2>3 DEF BufferSound
<1>5. CASE Notify
  <2>1. /\ UNCHANGED <<preBuf, arrivals, preCap, bound, rpc>> /\ proc.pc # "resync"
    BY <1>5 DEF Notify, preVars
  <2>2. CASE proc'.pc = "resync"
    BY <2>1, <2>2, BufferFrame DEF Settled
  <2>3. CASE \A m \in proc.fired : ~m.oneshot
    <3>1. Spent(proc.fired) = {}
      BY <2>3 DEF Spent
    <3>2. trig' = [trig EXCEPT ![proc.s] =
                     [i \in DOMAIN trig[proc.s] \ Spent(proc.fired) |-> trig[proc.s][i]]]
      BY <1>5 DEF Notify
    <3>3. ASSUME NEW r \in bound PROVE SessionPre(r)' = SessionPre(r)
      <4>1. /\ DOMAIN trig'[r] = DOMAIN trig[r]
            /\ \A i \in DOMAIN trig[r] : trig'[r][i].pre = trig[r][i].pre
        BY <1>0, <3>1, <3>2
      <4> QED
        BY <4>1, SessionPreSame
    <3>4. DomainPre' = DomainPre
      BY <2>1, <3>3, DomainPreSame
    <3>5. Settled' => Settled
      BY <2>1 DEF Settled
    <3> QED
      BY <2>1, <3>4, <3>5, BufferFrame
  <2> QED
    BY <1>5, <2>2, <2>3, NotifyTyped
<1>6. CASE ProcResync
  BY <1>6, BufferResync DEF ProcResync, sessionVars
<1>7. CASE Buffer
  <2>1. /\ UNCHANGED <<preCap, bound, trig, rpc>> /\ proc.pc # "resync"
        /\ BufferAppend(proc.seq)
    BY <1>7 DEF Buffer, BufferAppend, sessionVars
  <2>2. DomainPre' = DomainPre /\ (Settled' => Settled)
    BY <2>1 DEF DomainPre, SessionPre, Settled
  <2>3. \A x \in DOMAIN preBuf' : preBuf'[x] >= arrivals' - preCap'
    <3>1. CASE preCap = 0
      BY <2>1, <3>1 DEF BufferAppend, BufferSound
    <3>2. CASE preCap # 0
      BY <2>1, <3>2 DEF BufferAppend, Expired
    <3> QED
      BY <3>1, <3>2
  <2> QED
    BY <2>1, <2>2, <2>3 DEF BufferSound
<1>8. CASE UNCHANGED ingestVars
  BY <1>1, <1>8 DEF ingestVars, sessionVars, preVars
<1>9. CASE IngestNext
  BY <1>2, <1>3, <1>4, <1>5, <1>6, <1>7, <1>9, StepKinds, BufferRequest
<1> QED
  BY <1>8, <1>9
-----------------------------------------------------------------------------
(* The post-windows. *)

(* How far a firing is behind: a number, and no smaller further on. *)
LEMMA ReachFacts ==
  ASSUME Typed, NEW f
  PROVE  /\ \A b : Reach(f, b) \in Nat
         /\ \A b, c \in Nat : b <= c => Reach(f, b) <= Reach(f, c)
<1>1. counter \in Nat
  BY DEF Typed, StoreTyped
<1>2. ASSUME NEW b PROVE IsFiniteSet(LogsBetween(f.seq, b)) /\ Reach(f, b) \in Nat
  <2>1. LogsBetween(f.seq, b) \in SUBSET (1..counter)
    BY DEF LogsBetween, Logs
  <2> QED
    BY <1>1, <2>1, NumbersFinite DEF Reach
<1>3. ASSUME NEW b \in Nat, NEW c \in Nat, b <= c PROVE Reach(f, b) <= Reach(f, c)
  <2>1. LogsBetween(f.seq, b) \subseteq LogsBetween(f.seq, c)
    <3>1. \A x \in Logs : x \in Nat
      BY <1>1 DEF Logs
    <3> QED
      BY <1>3, <3>1 DEF LogsBetween
  <2>2. IsFiniteSet(LogsBetween(f.seq, c))
    BY <1>2
  <2> QED
    BY <2>1, <2>2, FS_Subset DEF Reach
<1> QED
  BY <1>2, <1>3

(* The record in hand is one more. *)
LEMMA ReachStep ==
  ASSUME Typed, InHand, NEW f, f.seq \in Nat, f.seq < proc.seq
  PROVE  Reach(f, proc.seq) = Reach(f, proc.seq - 1) + 1
<1> DEFINE n == proc.seq
           L == LogsBetween(f.seq, n - 1)
<1>1. n \in 1..counter /\ counter \in Nat /\ IsLog(n)
  BY DEF Typed, HandSound, StoreTyped
<1>2. f.seq < n
  OBVIOUS
<1> HIDE DEF n
<1>3. LogsBetween(f.seq, n) = L \cup {n} /\ n \notin L
  BY <1>1, <1>2 DEF LogsBetween, Logs
<1>4. L \in SUBSET (1..counter)
  BY DEF LogsBetween, Logs
<1> HIDE DEF L
<1>5. IsFiniteSet(L)
  BY <1>1, <1>4, NumbersFinite
<1>6. Cardinality(L \cup {n}) = Cardinality(L) + 1
  BY <1>3, <1>5, FS_AddElement
<1> QED
  BY <1>3, <1>6 DEF L, n, Reach

(* Records keep their content, and numbers only grow. *)
Numbering ==
  /\ counter' \in Nat /\ counter' >= counter
  /\ \A x \in 1..counter : content'[x] = content[x]

LEMMA ReachFrame ==
  ASSUME Typed, Numbering, NEW f
  PROVE  /\ \A b \in 0..counter : LogsBetween(f.seq, b)' = LogsBetween(f.seq, b)
         /\ \A b \in 0..counter : Reach(f, b)' = Reach(f, b)
<1>1. counter \in Nat
  BY DEF Typed, StoreTyped
<1>2. ASSUME NEW b \in 0..counter PROVE LogsBetween(f.seq, b)' = LogsBetween(f.seq, b)
  BY <1>1 DEF LogsBetween, Logs, IsLog, Numbering
<1>3. ASSUME NEW b \in 0..counter PROVE Reach(f, b)' = Reach(f, b)
  BY <1>2 DEF Reach
<1> QED
  BY <1>2, <1>3

(* With the same records, it is as far behind as it was. *)
LEMMA ReachSame ==
  ASSUME UNCHANGED <<content, counter>>, NEW f
  PROVE  \A b : Reach(f, b)' = Reach(f, b)
BY DEF Reach, LogsBetween, Logs, IsLog

(* What Typed says of a firing. *)
LEMMA FiringFacts ==
  ASSUME Typed, NEW f \in fires
  PROVE  /\ f.s \in Sessions /\ f.seq \in Nat /\ f.post \in Nat /\ f.seq <= counter
         /\ window[f.s] \in Nat
         /\ InHand => f.seq <= proc.seq
BY WindowAssumption DEF Typed, RecordsTyped, HandSound, SessionsTyped, Firings, Windows

(* A step on the record in hand that leaves the windows and who has been   *)
(* served as they are.                                                     *)
LEMMA PromiseServed ==
  ASSUME Typed, InHand, NEW f \in standing, Promised(f),
         UNCHANGED <<content, counter>>, f.s \in bound', window'[f.s] = window[f.s],
         proc.pc \in TodoPcs, proc.pc # "extend", proc'.pc \in TodoPcs,
         proc'.seq = proc.seq, proc'.todo = proc.todo, proc.any => proc'.any
  PROVE  Promised(f)'
<1>1. Unserved(f.s)' <=> Unserved(f.s)
  BY DEF Unserved, TodoPcs, FiringPcs
<1>2. InHand'
  BY DEF InHand, TodoPcs, FiringPcs
<1>3. \A b : Reach(f, b)' = Reach(f, b)
  BY ReachSame
<1> QED
  BY <1>1, <1>2, <1>3 DEF Promised

(* A step of a request, that neither moves the session nor the processor. *)
LEMMA PromiseAside ==
  ASSUME Typed, NEW f \in standing, Promised(f), Numbering,
         f.s \in bound', window'[f.s] = window[f.s], proc' = proc
  PROVE  Promised(f)'
<1>0. f \in fires /\ counter \in Nat
  BY DEF Typed, RecordsTyped, StoreTyped
<1>1. (Unserved(f.s)' <=> Unserved(f.s)) /\ (InHand' <=> InHand)
  BY DEF Unserved, InHand
<1>2. CASE InHand
  <2>1. proc.seq \in 0..counter /\ proc.seq - 1 \in 0..counter
    BY <1>0, <1>2 DEF Typed, HandSound
  <2>2. Reach(f, proc.seq)' = Reach(f, proc.seq)
        /\ Reach(f, proc.seq - 1)' = Reach(f, proc.seq - 1)
    <3>1. \A b \in 0..counter : Reach(f, b)' = Reach(f, b)
      BY ReachFrame
    <3> QED
      BY <2>1, <3>1 DEF Reach
  <2> QED
    BY <1>1, <1>2, <2>2 DEF Promised
<1>3. CASE ~InHand
  <2>1. Reach(f, counter)' >= Reach(f, counter)
    <3>1. LogsBetween(f.seq, counter) \subseteq LogsBetween(f.seq, counter)'
      BY <1>0 DEF LogsBetween, Logs, IsLog, Numbering
    <3>2. LogsBetween(f.seq, counter)' \in SUBSET (1..counter') /\ counter' \in Nat
      BY DEF LogsBetween, Logs, Numbering
    <3>3. IsFiniteSet(LogsBetween(f.seq, counter)')
      BY <3>2, NumbersFinite
    <3>4. Cardinality(LogsBetween(f.seq, counter))
            <= Cardinality(LogsBetween(f.seq, counter)')
      BY <3>1, <3>3, FS_Subset
    <3>5. Reach(f, counter)' = Cardinality(LogsBetween(f.seq, counter)')
      BY DEF Reach
    <3>6. Reach(f, counter) \in Nat /\ Reach(f, counter)' \in Nat
      BY <3>2, <3>5, NumbersFinite, ReachFacts
    <3> QED
      BY <3>4, <3>5, <3>6 DEF Reach
  <2>2. /\ Reach(f, counter) \in Nat /\ Reach(f, counter)' \in Nat
        /\ window[f.s] \in Nat /\ f.post \in Nat
    <3>1. LogsBetween(f.seq, counter)' \in SUBSET (1..counter') /\ counter' \in Nat
      BY DEF LogsBetween, Logs, Numbering
    <3>2. Reach(f, counter)' = Cardinality(LogsBetween(f.seq, counter)')
      BY DEF Reach
    <3> QED
      BY <1>0, <3>1, <3>2, NumbersFinite, ReachFacts, FiringFacts
  <2>3. window[f.s] + Reach(f, counter) >= f.post
    BY <1>3 DEF Promised
  <2>4. window'[f.s] + Reach(f, counter)' >= f.post
    BY <2>1, <2>2, <2>3
  <2> QED
    BY <1>1, <1>3, <2>4 DEF Promised
<1> QED
  BY <1>2, <1>3

LEMMA PromiseReceive ==
  ASSUME Typed, NEW c \in Contents, Receive(c), NEW f \in standing, Promised(f)
  PROVE  Promised(f)'
<1>1. ~InHand /\ counter' = counter + 1 /\ counter \in Nat /\ f \in fires
  BY AssignFacts DEF Receive, InHand, IdleProc, Typed, StoreTyped, RecordsTyped
<1>2. /\ proc'.pc = "snapshot" /\ proc'.seq = counter + 1
      /\ UNCHANGED <<bound, window>>
  BY <1>1 DEF Receive, sessionVars
<1>3. Numbering
  BY <1>1 DEF Receive, Numbering, Typed, RecordsTyped
<1>6. f.seq < proc'.seq /\ f.seq # proc'.seq /\ InHand' /\ Unserved(f.s)'
  BY <1>1, <1>2, FiringFacts DEF InHand, Unserved
<1>7. window[f.s] + Reach(f, counter) >= f.post /\ f.s \in bound
  BY <1>1 DEF Promised
<1>8. Reach(f, proc.seq - 1)' = Reach(f, counter)
  <2>1. proc'.seq - 1 = counter /\ counter \in 0..counter
    BY <1>1, <1>2
  <2>2. LogsBetween(f.seq, counter)
          = {x \in Logs' : x > f.seq /\ x <= counter}
    BY <1>1, <1>3 DEF LogsBetween, Logs, IsLog, Numbering
  <2> QED
    BY <2>1, <2>2 DEF Reach, LogsBetween
<1> QED
  BY <1>2, <1>6, <1>7, <1>8 DEF Promised

LEMMA PromiseSnapshot ==
  ASSUME Typed, Snapshot, NEW f \in standing, Promised(f)
  PROVE  Promised(f)'
<1>1. /\ InHand /\ InHand' /\ proc'.seq = proc.seq /\ proc'.pc = "sessions"
      /\ Unserved(f.s)
  BY SnapshotTyped DEF Snapshot, InHand, Unserved
<1>2. UNCHANGED <<content, counter, bound, window>>
  BY NoOfferFacts DEF Snapshot, sessionVars, Typed
<1>3. Unserved(f.s)'
  <2> DEFINE e == [s |-> f.s, pre |-> SessionPre(f.s)]
  <2>1. f.s \in bound
    BY DEF Promised
  <2>2. e \in proc'.todo /\ e.s = f.s
    BY <2>1 DEF Snapshot
  <2> QED
    BY <1>1, <2>2 DEF Unserved, TodoPcs
<1>4. \A b : Reach(f, b)' = Reach(f, b)
  BY <1>2, ReachSame
<1> QED
  BY <1>1, <1>2, <1>3, <1>4 DEF Promised

LEMMA PromiseDecrement ==
  ASSUME Typed, TodoSound, NEW e \in Waiting, Decrement(e), NEW f \in standing, Promised(f)
  PROVE  Promised(f)'
<1>1. /\ InHand /\ InHand' /\ proc.pc = "sessions" /\ e \in proc.todo
      /\ proc'.seq = proc.seq /\ proc'.pc = "evaluate" /\ proc'.todo = proc.todo \ {e}
  BY DecrementTyped DEF Decrement, InHand
<1>2. UNCHANGED <<content, counter, bound>>
  BY NoOfferFacts DEF Decrement, sessionVars, Typed
<1>3. \A b : Reach(f, b)' = Reach(f, b)
  BY <1>2, ReachSame
<1>4. f \in fires
  BY DEF Typed, RecordsTyped
<1>5. /\ proc \in Serving /\ window \in [Sessions -> Nat] /\ e.s \in Sessions
  BY <1>1, HandFields DEF Typed, RecordsTyped, SessionsTyped, Waiting
<1>6. proc'.any <=> (proc.any \/ window[e.s] > 0)
  <2>1. proc' = [pc |-> "evaluate", seq |-> proc.seq, todo |-> proc.todo \ {e},
                 any |-> proc.any \/ window[e.s] > 0, s |-> e.s]
    BY DEF Decrement
  <2> QED
    BY <2>1, Zenon
<1>7. CASE f.s # e.s
  <2>1. window'[f.s] = window[f.s]
    BY <1>4, <1>5, <1>7, FiringFacts DEF Decrement
  <2>2. Unserved(f.s)' <=> Unserved(f.s)
    BY <1>1, <1>7 DEF Unserved, TodoPcs
  <2>3. proc.any => proc'.any
    BY <1>6, Zenon
  <2> QED
    BY <1>1, <1>2, <1>3, <2>1, <2>2, <2>3 DEF Promised, TodoPcs
<1>8. CASE f.s = e.s
  <2>1. Unserved(f.s) /\ ~Unserved(f.s)'
    <3>1. \A d \in proc.todo : d.s = e.s => d = e
      BY <1>1 DEF TodoSound, TodoPcs
    <3> QED
      BY <1>1, <1>8, <3>1 DEF Unserved, TodoPcs
  <2>2. f.seq # proc.seq /\ f.seq <= proc.seq /\ f.seq \in Nat /\ f.post \in Nat
    BY <1>1, <1>4, <2>1, FiringFacts DEF Promised
  <2>3. f.seq < proc.seq
    <3>1. proc.seq \in Nat
      BY <1>5 DEF Serving
    <3> QED
      BY <2>2, <3>1
  <2>4. window[f.s] + Reach(f, proc.seq - 1) >= f.post /\ f.s \in bound
    BY <1>1, <2>1, <2>3 DEF Promised
  <2>5. Reach(f, proc.seq) = Reach(f, proc.seq - 1) + 1
    BY <1>1, <2>2, <2>3, ReachStep
  <2>6. Reach(f, proc.seq - 1) \in Nat /\ window[f.s] \in Nat
    BY <1>5, <1>8, ReachFacts
  <2>7. window'[f.s] = IF window[f.s] > 0 THEN window[f.s] - 1 ELSE 0
    BY <1>5, <1>8 DEF Decrement
  <2>8. window'[f.s] + Reach(f, proc.seq) >= f.post
    BY <2>2, <2>4, <2>5, <2>6, <2>7
  <2>9. Reach(f, proc.seq) <= f.post => window[e.s] > 0
    BY <1>8, <2>2, <2>4, <2>5, <2>6
  <2>10. Reach(f, proc.seq) <= f.post => proc'.any
    BY <1>6, <2>9, Zenon
  <2> QED
    BY <1>1, <1>2, <1>3, <2>1, <2>2, <2>4, <2>8, <2>10 DEF Promised, TodoPcs
<1> QED
  BY <1>7, <1>8

LEMMA PromiseExtend ==
  ASSUME Typed, Extend, NEW f \in standing, Promised(f)
  PROVE  Promised(f)'
<1>1. /\ InHand /\ InHand' /\ proc.pc = "extend" /\ proc'.seq = proc.seq
      /\ proc'.pc = "notify" /\ proc'.todo = proc.todo /\ proc'.any = TRUE
  BY ExtendTyped DEF Extend, InHand, SameMatch
<1>2. UNCHANGED <<content, counter, bound>>
  BY NoOfferFacts DEF Extend, sessionVars, Typed
<1>3. \A b : Reach(f, b)' = Reach(f, b)
  BY <1>2, ReachSame
<1>4. /\ f.s \in Sessions /\ f.seq \in Nat /\ f.post \in Nat /\ window[f.s] \in Nat
  BY FiringFacts DEF Typed, RecordsTyped
<1>5. window'[f.s] >= window[f.s] /\ window'[f.s] \in Nat
  BY <1>4, ExtendTyped
<1>6. Unserved(f.s)' <=> Unserved(f.s)
  BY <1>1 DEF Unserved, TodoPcs, FiringPcs
<1>7. \A b : Reach(f, b) \in Nat
  BY ReachFacts
<1>8. ASSUME f.seq = proc.seq PROVE window'[f.s] >= f.post /\ ~Unserved(f.s)
  <2>1. ~Unserved(f.s) /\ (\/ window[f.s] >= f.post
                           \/ proc.s = f.s /\ \E m \in proc.fired : m.post = f.post)
    BY <1>1, <1>8 DEF Promised
  <2>2. CASE window[f.s] >= f.post
    BY <1>4, <1>5, <2>1, <2>2
  <2>3. CASE proc.s = f.s /\ \E m \in proc.fired : m.post = f.post
    BY <2>1, <2>3, ExtendTyped
  <2> QED
    BY <2>1, <2>2, <2>3
<1>9. /\ Unserved(f.s) /\ f.seq < proc.seq => window'[f.s] + Reach(f, proc.seq - 1) >= f.post
      /\ ~Unserved(f.s) /\ f.seq < proc.seq => window'[f.s] + Reach(f, proc.seq) >= f.post
  <2>1. /\ Unserved(f.s) /\ f.seq < proc.seq
             => window[f.s] + Reach(f, proc.seq - 1) >= f.post
        /\ ~Unserved(f.s) /\ f.seq < proc.seq
             => window[f.s] + Reach(f, proc.seq) >= f.post
    BY <1>1 DEF Promised
  <2>2. Reach(f, proc.seq) \in Nat /\ Reach(f, proc.seq - 1) \in Nat
    BY <1>7
  <2> QED
    BY <1>4, <1>5, <2>1, <2>2
<1>10. f.s \in bound
  BY DEF Promised
<1> QED
  BY <1>1, <1>2, <1>3, <1>6, <1>8, <1>9, <1>10 DEF Promised, TodoPcs, FiringPcs

(* The firings of the record in hand have the window they wait for. *)
LEMMA PromiseInsert ==
  ASSUME Typed, TodoSound, InsertFlushed, NEW f \in standing',
         f \in standing => Promised(f)
  PROVE  Promised(f)'
<1>1. /\ InHand /\ InHand' /\ proc.pc = "insert" /\ proc'.seq = proc.seq
      /\ proc'.pc = "extend" /\ proc'.todo = proc.todo /\ proc'.any = proc.any
      /\ proc'.s = proc.s /\ proc'.fired = proc.fired
  BY InsertFlushedTyped DEF InsertFlushed, InHand, SameMatch
<1>2. UNCHANGED <<content, counter, bound, window>>
  BY DEF InsertFlushed, Offer, sessionVars
<1>3. CASE f \in standing
  BY <1>1, <1>2, <1>3, PromiseServed DEF TodoPcs, FiringPcs, Promised
<1>4. CASE f \notin standing
  <2>1. f \in NewFires /\ proc.s \in bound
    BY <1>4 DEF InsertFlushed
  <2>2. f.s = proc.s /\ f.seq = proc.seq /\ \E m \in proc.fired : m.post = f.post
    BY <2>1 DEF NewFires
  <2>3. \A e \in proc.todo : e.s # proc.s
    BY <1>1 DEF TodoSound, FiringPcs
  <2>4. ~Unserved(f.s)'
    BY <1>1, <2>2, <2>3 DEF Unserved
  <2>5. proc.seq \in Nat
    BY <1>1 DEF Typed, HandSound, StoreTyped
  <2>6. ~(f.seq < proc.seq)
    BY <2>2, <2>5
  <2> QED
    BY <1>1, <1>2, <2>1, <2>2, <2>4, <2>6 DEF Promised
<1> QED
  BY <1>3, <1>4

(* A record no window spoke for is beyond them all. *)
LEMMA PromiseDecide ==
  ASSUME Typed, TodoSound, Decide, NEW f \in standing, Promised(f)
  PROVE  Promised(f)'
<1>1. /\ InHand /\ InHand' /\ proc.pc = "store" /\ proc'.seq = proc.seq
      /\ proc'.pc = "observe" /\ ~proc.any
  BY DecideTyped DEF Decide, InHand
<1>2. UNCHANGED <<content, counter, bound, window>>
  BY NoOfferFacts DEF Decide, sessionVars, Typed
<1>3. \A b : Reach(f, b)' = Reach(f, b)
  BY <1>2, ReachSame
<1>4. ~Unserved(f.s) /\ ~Unserved(f.s)'
  BY <1>1 DEF Unserved, TodoSound, TodoPcs, FiringPcs
<1>5. ASSUME f.seq < proc.seq
      PROVE  window[f.s] + Reach(f, proc.seq) >= f.post /\ Reach(f, proc.seq) > f.post
  <2>1. /\ window[f.s] + Reach(f, proc.seq) >= f.post
        /\ Reach(f, proc.seq) <= f.post => proc.any
    BY <1>1, <1>4, <1>5 DEF Promised, TodoPcs
  <2>2. Reach(f, proc.seq) \in Nat /\ f.post \in Nat
    BY ReachFacts, FiringFacts DEF Typed, RecordsTyped
  <2>3. ~(Reach(f, proc.seq) <= f.post)
    BY <1>1, <2>1, Zenon
  <2> QED
    BY <2>1, <2>2, <2>3
<1>6. f.seq = proc.seq => window[f.s] >= f.post
  BY <1>1 DEF Promised
<1>7. f.s \in bound
  BY DEF Promised
<1> QED
  BY <1>1, <1>2, <1>3, <1>4, <1>5, <1>6, <1>7 DEF Promised, TodoPcs, FiringPcs

LEMMA PromiseObserve ==
  ASSUME Typed, Observe, NEW f \in standing, Promised(f)
  PROVE  Promised(f)'
<1>1. /\ InHand /\ InHand' /\ proc.pc = "observe" /\ proc'.seq = proc.seq
      /\ proc'.pc = "append"
  BY ObserveTyped DEF Observe, InHand
<1>2. UNCHANGED <<content, counter, bound, window>>
  BY NoOfferFacts DEF Observe, sessionVars, Typed
<1>3. \A b : Reach(f, b)' = Reach(f, b)
  BY <1>2, ReachSame
<1>4. ~Unserved(f.s) /\ ~Unserved(f.s)'
  BY <1>1 DEF Unserved, TodoPcs, FiringPcs
<1> QED
  BY <1>1, <1>2, <1>3, <1>4 DEF Promised, TodoPcs, FiringPcs

(* Done with a record, the windows cover what is left. *)
LEMMA PromiseDone ==
  ASSUME Typed, TodoSound, proc.pc \in {"store", "append"}, proc'.pc = "idle",
         UNCHANGED <<content, counter, bound, window>>, NEW f \in standing, Promised(f)
  PROVE  Promised(f)'
<1>1. InHand /\ ~InHand' /\ proc.seq \in Nat /\ proc.seq <= counter /\ counter \in Nat
  BY DEF InHand, Typed, HandSound, StoreTyped
<1>2. ~Unserved(f.s)
  BY DEF Unserved, TodoPcs, FiringPcs, TodoSound
<1>3. /\ f.seq \in Nat /\ f.post \in Nat /\ f.seq <= proc.seq /\ window[f.s] \in Nat
  BY <1>1, FiringFacts DEF Typed, RecordsTyped
<1>4. /\ Reach(f, proc.seq) \in Nat /\ Reach(f, counter) \in Nat
      /\ Reach(f, proc.seq) <= Reach(f, counter)
  BY <1>1, ReachFacts
<1>5. /\ f.seq < proc.seq => window[f.s] + Reach(f, proc.seq) >= f.post
      /\ f.seq = proc.seq => window[f.s] >= f.post
      /\ f.s \in bound
  BY <1>1, <1>2 DEF Promised
<1>6. window[f.s] + Reach(f, counter) >= f.post
  <2>1. CASE f.seq < proc.seq
    BY <1>3, <1>4, <1>5, <2>1
  <2>2. CASE f.seq = proc.seq
    BY <1>3, <1>4, <1>5, <2>2
  <2> QED
    BY <1>1, <1>3, <2>1, <2>2
<1>7. Reach(f, counter)' = Reach(f, counter)
  BY DEF Reach, LogsBetween, Logs, IsLog
<1> QED
  BY <1>1, <1>5, <1>6, <1>7 DEF Promised

(* A session's firings no longer stand once it is moved. *)
LEMMA PromiseSetDomain ==
  ASSUME Typed, NEW s \in Sessions, SetDomain(s), NEW f \in standing',
         f \in standing => Promised(f)
  PROVE  Promised(f)'
<1>1. f \in standing /\ f.s # s
  BY DEF SetDomain
<1>2. f.s \in Sessions \ {s} /\ f.s \in bound
  BY <1>1, FiringFacts DEF Typed, RecordsTyped, Promised
<1>3. window'[f.s] = window[f.s] /\ f.s \in bound'
  BY <1>2, SetDomainTyped
<1>4. proc' = proc /\ content' = content /\ counter' = counter /\ counter \in Nat
  BY NoOfferFacts DEF SetDomain, Typed, StoreTyped
<1>5. Numbering
  BY <1>4 DEF Numbering
<1> QED
  BY <1>1, <1>3, <1>4, <1>5, PromiseAside

(* A session is served once per record, and is not waiting while it is.   *)
LEMMA TodoNext ==
  ASSUME Typed, TodoSound, IngestNext
  PROVE  TodoSound'
<1>1. ASSUME proc' = proc PROVE TodoSound'
  BY <1>1 DEF TodoSound
<1>2. CASE (\E c \in Contents : Receive(c)) \/ Decide \/ Observe \/ StoreUnconditionally
           \/ AppendDecided
  <2>1. proc'.pc \in {"snapshot", "observe", "append", "idle"}
    BY <1>2, DecideTyped, ObserveTyped, StoreUnconditionallyTyped, AppendDecidedTyped
       DEF Receive
  <2> QED
    BY <2>1 DEF TodoSound, TodoPcs, FiringPcs
<1>3. CASE Snapshot
  <2> DEFINE S == {[s |-> s, pre |-> SessionPre(s)] : s \in bound}
  <2>1. proc' = [pc |-> "sessions", seq |-> proc.seq, any |-> FALSE, todo |-> S]
    BY <1>3 DEF Snapshot
  <2>2. \A d, e \in S : d.s = e.s => d = e
    OBVIOUS
  <2> HIDE DEF S
  <2>3. proc'.pc = "sessions" /\ proc'.todo = S
    BY <2>1
  <2> QED
    BY <2>2, <2>3 DEF TodoSound, FiringPcs
<1>4. ASSUME NEW e \in Waiting, Decrement(e) PROVE TodoSound'
  <2>1. /\ proc.pc = "sessions" /\ e \in proc.todo
        /\ proc'.pc = "evaluate" /\ proc'.todo = proc.todo \ {e} /\ proc'.s = e.s
    BY <1>4, DecrementTyped DEF Decrement
  <2>2. \A c, d \in proc.todo : c.s = d.s => c = d
    BY <2>1 DEF TodoSound, TodoPcs
  <2> QED
    BY <2>1, <2>2 DEF TodoSound
<1>5. CASE Evaluate
  <2>1. /\ proc.pc = "evaluate" /\ proc'.todo = proc.todo
        /\ \/ proc'.pc = "sessions"
           \/ proc'.pc = "match" /\ proc'.s = proc.s
    BY <1>5, EvaluateTyped DEF Evaluate
  <2> QED
    BY <2>1 DEF TodoSound, TodoPcs, FiringPcs
<1>6. CASE StoreMatch \/ Drain \/ CopyTrace \/ InsertFlushed \/ Extend
  <2>1. proc.pc \in FiringPcs /\ SameMatch
    BY <1>6, StoreMatchTyped, DrainTyped, CopyTraceTyped, InsertFlushedTyped, ExtendTyped
       DEF StoreMatch, Drain, CopyTrace, InsertFlushed, Extend, FiringPcs
  <2>2. proc'.pc \in FiringPcs
    BY <2>1 DEF SameMatch, Matching
  <2> QED
    BY <2>1, <2>2 DEF TodoSound, TodoPcs, FiringPcs, SameMatch
<1>7. CASE Notify \/ ProcResync
  <2>1. /\ proc.pc \in {"notify", "resync"} /\ proc'.todo = proc.todo
        /\ proc'.pc \in {"sessions", "resync"}
    BY <1>7, NotifyTyped, ProcResyncTyped DEF Notify, ProcResync
  <2> QED
    BY <2>1 DEF TodoSound, TodoPcs, FiringPcs
<1>8. CASE Buffer
  <2>1. proc.todo = {} /\ proc'.todo = {} /\ proc'.pc = "store"
    BY <1>8, BufferTyped DEF Buffer
  <2> QED
    BY <2>1 DEF TodoSound, FiringPcs
<1>9. ASSUME NEW s \in Sessions,
             \/ FilterRequest(s) \/ TriggerRequest(s) \/ SetDomain(s)
             \/ ResetWindows(s) \/ SyncBuffer(s)
      PROVE  proc' = proc
  BY <1>9 DEF FilterRequest, TriggerRequest, AddFilter, RemoveFilter, EditFilter,
     AddTrigger, EditTrigger, RemoveTrigger, Request, SetDomain, ResetWindows, SyncBuffer
<1>10. CASE SpanNumbered \/ ClearLogs \/ ExportStep
  BY <1>1, <1>10 DEF SpanNumbered, ClearLogs, ExportStep, ExportQuery, ExportRange, ExportGrade
<1> QED
  BY <1>1, <1>2, <1>3, <1>4, <1>5, <1>6, <1>7, <1>8, <1>9, <1>10, StepKinds

LEMMA PromiseNext ==
  ASSUME Typed, TodoSound, IngestNext, NEW f \in standing', f \in standing => Promised(f)
  PROVE  Promised(f)'
<1>0. counter \in Nat
  BY DEF Typed, StoreTyped
<1>1. CASE InsertFlushed
  BY <1>1, PromiseInsert
<1>2. CASE \E s \in Sessions : SetDomain(s)
  BY <1>2, PromiseSetDomain
<1>3. CASE (\E c \in Contents : Receive(c)) \/ Snapshot \/ (\E e \in Waiting : Decrement(e))
           \/ Extend \/ Decide \/ Observe
  <2>1. f \in standing
    BY <1>3 DEF Receive, Snapshot, Decrement, Extend, Decide, Observe, historyVars
  <2> QED
    BY <1>3, <2>1, PromiseReceive, PromiseSnapshot, PromiseDecrement, PromiseExtend,
       PromiseDecide, PromiseObserve
<1>4. CASE Evaluate \/ StoreMatch \/ Drain \/ CopyTrace \/ Notify \/ ProcResync \/ Buffer
  <2>1. /\ UNCHANGED <<content, bound, window, standing>>
    BY <1>4 DEF Evaluate, StoreMatch, Drain, CopyTrace, Notify, ProcResync, Buffer,
       historyVars, sessionVars
  <2>2. /\ proc.pc \in TodoPcs /\ proc.pc # "extend" /\ InHand
    BY <1>4 DEF Evaluate, StoreMatch, Drain, CopyTrace, Notify, ProcResync, Buffer,
       TodoPcs, FiringPcs, InHand
  <2>3. counter' = counter
    BY <1>4, NoOfferFacts DEF Evaluate, StoreMatch, Drain, CopyTrace, Notify, ProcResync,
       Buffer, Offer, Typed
  <2>4. /\ proc'.pc \in TodoPcs /\ proc'.seq = proc.seq /\ proc'.todo = proc.todo
        /\ proc'.any = proc.any
    <3>1. CASE StoreMatch \/ Drain \/ CopyTrace
      BY <3>1, StoreMatchTyped, DrainTyped, CopyTraceTyped DEF TodoPcs, FiringPcs, SameMatch
    <3>2. CASE Evaluate \/ Notify \/ ProcResync \/ Buffer
      BY <3>2, EvaluateTyped, NotifyTyped, ProcResyncTyped, BufferTyped DEF TodoPcs, FiringPcs
    <3> QED
      BY <1>4, <3>1, <3>2
  <2>5. f \in standing /\ f.s \in bound' /\ window'[f.s] = window[f.s]
    BY <2>1 DEF Promised
  <2>6. proc.any => proc'.any
    BY <2>4, Zenon
  <2>7. Promised(f)
    BY <2>5
  <2> QED
    BY <2>1, <2>2, <2>3, <2>4, <2>5, <2>6, <2>7, PromiseServed
<1>5. CASE StoreUnconditionally \/ AppendDecided
  <2>1. UNCHANGED <<content, bound, window, standing>> /\ proc.pc \in {"store", "append"}
    BY <1>5 DEF StoreUnconditionally, AppendDecided, sessionVars
  <2>2. counter' = counter
    BY <1>5, NoOfferFacts DEF StoreUnconditionally, AppendDecided, Offer, Typed
  <2>3. proc'.pc = "idle"
    BY <1>5, StoreUnconditionallyTyped, AppendDecidedTyped
  <2> QED
    BY <2>1, <2>2, <2>3, PromiseDone
<1>6. ASSUME UNCHANGED <<bound, window, standing, proc>>, Numbering
      PROVE  Promised(f)'
  <2>1. f \in standing /\ f.s \in bound' /\ window'[f.s] = window[f.s] /\ Promised(f)
    BY <1>6 DEF Promised
  <2> QED
    BY <1>6, <2>1, PromiseAside
<1>7. CASE SpanNumbered
  <2>1. Numbering
    BY <1>0, <1>7, AssignFacts DEF SpanNumbered, Numbering, Typed, RecordsTyped
  <2> QED
    BY <1>6, <1>7, <2>1 DEF SpanNumbered, sessionVars, historyVars
<1>8. CASE ClearLogs \/ ExportStep
  <2>1. UNCHANGED <<bound, window, standing, proc, content>>
    BY <1>8 DEF ClearLogs, ExportStep, ExportQuery, ExportRange, ExportGrade, sessionVars,
       historyVars
  <2>2. counter' = counter
    BY <1>8, ClearFacts, NoOfferFacts DEF ExportStep, ExportQuery, ExportRange, ExportGrade,
       Typed
  <2> QED
    BY <1>0, <1>6, <2>1, <2>2 DEF Numbering
<1>9. CASE \E s \in Sessions : \/ FilterRequest(s) \/ TriggerRequest(s)
                               \/ ResetWindows(s) \/ SyncBuffer(s)
  <2>1. UNCHANGED <<bound, window, standing, proc, content>> /\ NoOffer
    BY <1>9, ZenonT(60) DEF FilterRequest, TriggerRequest, AddFilter, RemoveFilter, EditFilter,
       AddTrigger, EditTrigger, RemoveTrigger, Request, ResetWindows, SyncBuffer, historyVars
  <2>2. counter' = counter
    BY <2>1, NoOfferFacts DEF Typed
  <2> QED
    BY <1>0, <1>6, <2>1, <2>2 DEF Numbering
<1> QED
  BY <1>1, <1>2, <1>3, <1>4, <1>5, <1>7, <1>8, <1>9, StepKinds

(* What was decided within a window stays stored or refused. *)
LEMMA KeptNext ==
  Typed /\ PromisesSound /\ PostWindowKept /\ [IngestNext]_ingestVars
    => PromisesSound' /\ PostWindowKept'
<1> SUFFICES ASSUME Typed, PromisesSound, PostWindowKept, IngestNext
             PROVE  PromisesSound' /\ PostWindowKept'
  <2>1. CASE UNCHANGED ingestVars
    BY <2>1, ZenonT(60) DEF ingestVars, vars, storeVars, sessionVars, historyVars, PromisesSound, TodoSound, Promised,
       InHand, Unserved, Reach, LogsBetween, Logs, IsLog, PostWindowKept, StoredEver
  <2> QED
    BY <2>1
<1>0. counter \in Nat /\ decided \subseteq 1..counter /\ standing \subseteq fires
  BY DEF Typed, StoreTyped, RecordsTyped
<1>1. PromisesSound'
  BY TodoNext, PromiseNext DEF PromisesSound
<1>2. Accounted \subseteq Accounted'
  BY AccountedGrows
<1>3. ASSUME NEW x, x \in Accounted' PROVE (StoredEver(x) \/ x \in refused)'
  BY <1>3 DEF Accounted, StoredEver
<1>4. Numbering
  <2>1. CASE SpanNumbered \/ \E c \in Contents : Receive(c)
    <3>1. PICK y \in Contents \cup {SpanContent} :
            AssignSeq /\ content' = Append(content, y)
      BY <2>1 DEF SpanNumbered, Receive
    <3>2. counter' = counter + 1
      BY <3>1 DEF AssignSeq
    <3>3. content \in Seq(Contents \cup {SpanContent}) /\ Len(content) = counter
      BY DEF Typed, RecordsTyped
    <3>4. \A x \in 1..counter : content'[x] = content[x]
      BY <3>1, <3>3
    <3> QED
      BY <1>0, <3>2, <3>4 DEF Numbering
  <2>2. CASE ClearLogs
    BY <1>0, <2>2, ClearFacts DEF ClearLogs, Numbering, Typed
  <2>3. CASE \/ \E s \in Sessions : \/ FilterRequest(s) \/ TriggerRequest(s) \/ SetDomain(s)
                                    \/ ResetWindows(s) \/ SyncBuffer(s)
             \/ ExportStep
    <3>1. NoOffer /\ content' = content
      BY <2>3, ZenonT(60) DEF FilterRequest, TriggerRequest, AddFilter, RemoveFilter, EditFilter,
         AddTrigger, EditTrigger, RemoveTrigger, Request, SetDomain, ResetWindows,
         SyncBuffer, ExportStep, ExportQuery, ExportRange, ExportGrade
    <3> QED
      BY <1>0, <3>1, NoOfferFacts DEF Numbering, Typed
  <2>4. CASE \/ Snapshot \/ (\E e \in Waiting : Decrement(e)) \/ Evaluate \/ StoreMatch \/ Drain
             \/ CopyTrace \/ InsertFlushed \/ Extend \/ Notify \/ ProcResync \/ Buffer
             \/ StoreUnconditionally \/ Decide \/ Observe \/ AppendDecided
    <3>1. content' = content /\ (NoOffer \/ counter' = counter)
      BY <2>4 DEF Snapshot, Decrement, Evaluate, StoreMatch, Drain, CopyTrace, InsertFlushed,
         Extend, Notify, ProcResync, Buffer, StoreUnconditionally, Decide, Observe,
         AppendDecided, Offer
    <3> QED
      BY <1>0, <3>1, NoOfferFacts DEF Numbering, Typed
  <2> QED
    BY <2>1, <2>2, <2>3, <2>4, StepKinds
<1>5. ASSUME NEW f \in standing, NEW x \in decided, x > f.seq,
             Cardinality(LogsBetween(f.seq, x)') <= f.post
      PROVE  (StoredEver(x) \/ x \in refused)'
  <2>1. LogsBetween(f.seq, x)' = LogsBetween(f.seq, x)
    <3>1. \A b \in 0..counter : LogsBetween(f.seq, b)' = LogsBetween(f.seq, b)
      BY <1>4, ReachFrame
    <3>2. x \in 0..counter
      BY <1>0
    <3> QED
      BY <3>1, <3>2 DEF LogsBetween
  <2>2. StoredEver(x) \/ x \in refused
    BY <1>5, <2>1 DEF PostWindowKept
  <2> QED
    BY <1>2, <1>3, <2>2 DEF Accounted, StoredEver
<1>6. CASE UNCHANGED decided
  <2>1. ASSUME NEW f \in standing', NEW x \in decided', x > f.seq,
               Cardinality(LogsBetween(f.seq, x)') <= f.post
        PROVE  (StoredEver(x) \/ x \in refused)'
    <3>1. CASE f \in standing
      BY <1>5, <1>6, <2>1, <3>1
    <3>2. CASE f \notin standing
      <4>1. CASE InsertFlushed
        <5>1. f \in NewFires
          BY <3>2, <4>1 DEF InsertFlushed
        <5>2. f.seq = proc.seq
          BY <5>1 DEF NewFires
        <5>3. x < proc.seq /\ x \in Nat /\ proc.seq \in Nat
          BY <1>0, <1>6, <4>1 DEF Typed, HandSound, InHand, InsertFlushed
        <5> QED
          BY <2>1, <5>2, <5>3
      <4>2. CASE ~InsertFlushed
        <5>1. standing' \subseteq standing
          BY <4>2, StepKinds, ZenonT(60) DEF Receive, Snapshot, Decrement, Evaluate, StoreMatch, Drain,
             CopyTrace, Extend, Notify, ProcResync, Buffer, StoreUnconditionally, Decide,
             Observe, AppendDecided, SpanNumbered, FilterRequest, TriggerRequest, AddFilter,
             RemoveFilter, EditFilter, AddTrigger, EditTrigger, RemoveTrigger, Request,
             SetDomain, ResetWindows, SyncBuffer, ClearLogs, ExportStep, ExportQuery,
             ExportRange, ExportGrade, historyVars
        <5> QED
          BY <3>2, <5>1
      <4> QED
        BY <4>1, <4>2
    <3> QED
      BY <3>1, <3>2
  <2>2. PostWindowKept'
    BY <2>1 DEF PostWindowKept
  <2> QED
    BY <1>1, <2>2
<1>7. CASE StoreUnconditionally \/ AppendDecided
  <2>1. /\ InHand /\ decided' = decided \cup {proc.seq} /\ standing' = standing
        /\ UNCHANGED <<content, window>>
    BY <1>7 DEF StoreUnconditionally, AppendDecided, Done, InHand
  <2>2. counter' = counter
    BY <1>7, NoOfferFacts DEF StoreUnconditionally, AppendDecided, Offer, Typed
  <2>3. ASSUME NEW f \in standing, proc.seq > f.seq,
               Cardinality(LogsBetween(f.seq, proc.seq)) <= f.post
        PROVE  proc.seq \in Accounted'
    <3>1. CASE StoreUnconditionally
      BY <3>1, StoreUnconditionallyTyped
    <3>2. CASE AppendDecided
      <4>1. ~Unserved(f.s) /\ proc.pc \notin TodoPcs
        BY <3>2 DEF AppendDecided, Unserved, TodoPcs, FiringPcs
      <4>2. Promised(f)
        BY DEF PromisesSound
      <4>3. f.seq < proc.seq
        <5>1. f.seq \in Nat /\ proc.seq \in Nat
          BY <1>0, <2>1, FiringFacts DEF Typed, HandSound
        <5> QED
          BY <2>3, <5>1
      <4>4. Reach(f, proc.seq) > f.post
        BY <2>1, <4>1, <4>2, <4>3 DEF Promised
      <4>5. Reach(f, proc.seq) \in Nat /\ f.post \in Nat
        BY <1>0, ReachFacts, FiringFacts
      <4> QED
        BY <2>3, <4>4, <4>5 DEF Reach
    <3> QED
      BY <1>7, <3>1, <3>2
  <2>4. ASSUME NEW f \in standing', NEW x \in decided', x > f.seq,
               Cardinality(LogsBetween(f.seq, x)') <= f.post
        PROVE  (StoredEver(x) \/ x \in refused)'
    <3>1. CASE x \in decided
      BY <1>5, <2>1, <2>4, <3>1
    <3>2. CASE x = proc.seq
      <4>1. LogsBetween(f.seq, x)' = LogsBetween(f.seq, proc.seq)
        BY <2>1, <2>2, <3>2 DEF LogsBetween, Logs, IsLog
      <4>2. x \in Accounted'
        BY <2>1, <2>3, <2>4, <3>2, <4>1
      <4> QED
        BY <1>3, <4>2
    <3> QED
      BY <2>1, <3>1, <3>2
  <2>5. PostWindowKept'
    BY <2>4 DEF PostWindowKept
  <2> QED
    BY <1>1, <2>5
<1>8. CASE ~(StoreUnconditionally \/ AppendDecided)
  <2>1. UNCHANGED decided
    BY <1>8, StepKinds, ZenonT(60) DEF Receive, Snapshot, Decrement, Evaluate, StoreMatch, Drain,
       CopyTrace, InsertFlushed, Extend, Notify, ProcResync, Buffer, Decide, Observe,
       SpanNumbered, FilterRequest, TriggerRequest, AddFilter, RemoveFilter, EditFilter,
       AddTrigger, EditTrigger, RemoveTrigger, Request, SetDomain, ResetWindows, SyncBuffer,
       ClearLogs, ExportStep, ExportQuery, ExportRange, ExportGrade, historyVars
  <2> QED
    BY <1>6, <2>1
<1> QED
  BY <1>7, <1>8

LEMMA WindowsInit ==
  IngestInit => PromisesSound /\ PostWindowKept /\ WindowWithinAsked /\ BufferSound
<1> SUFFICES ASSUME IngestInit
             PROVE  PromisesSound /\ PostWindowKept /\ WindowWithinAsked /\ BufferSound
  OBVIOUS
<1>1. proc.pc = "idle" /\ standing = {} /\ trig = InitTriggers /\ DOMAIN preBuf = {}
      /\ preCap = DomainPre
  BY DEF IngestInit, IdleProc
<1>2. PromisesSound /\ PostWindowKept
  BY <1>1 DEF PromisesSound, TodoSound, TodoPcs, FiringPcs, PostWindowKept
<1>3. WindowWithinAsked
  BY <1>1, SetupAssumption, WindowAssumption DEF WindowWithinAsked, Triggers, Windows
<1>4. BufferSound
  BY <1>1 DEF BufferSound
<1> QED
  BY <1>2, <1>3, <1>4

(* What a trigger promises is kept, whatever the sessions edit, remove or  *)
(* rebind meanwhile: the post_window log records after a firing are stored *)
(* past every filter while its session stays bound (extend_post_window,    *)
(* decrement_post_window), no debounce outlasts the window its trigger now *)
(* asks for (TriggerManager::edit), and with no resync outstanding the     *)
(* pre-trigger buffer is as large as the bound sessions need               *)
(* (resync_pre_buffer).                                                    *)
THEOREM WindowsAreKept == IngestSpec => []WindowsKept
<1>1. BufferSound => BufferFits
  BY DEF BufferSound, BufferFits, Settled
<1>2. IngestSpec => [](PromisesSound /\ PostWindowKept /\ WindowWithinAsked /\ BufferSound)
  BY WindowsInit, KeptNext, AskedNext, BufferNext, IngestTyped, PTL DEF IngestSpec
<1>3. PromisesSound /\ PostWindowKept /\ WindowWithinAsked /\ BufferSound => WindowsKept
  BY <1>1 DEF WindowsKept
<1> QED
  BY <1>2, <1>3, PTL
-----------------------------------------------------------------------------
(* What a step does to the record in hand, and to those that arrived. *)

(* Where the record in hand is already in the pre-trigger buffer. *)
BufferedPcs == {"store", "observe", "append"}

(* A step numbers a record, or moves the one in hand along. *)
LEMMA HandMoves ==
  ASSUME Typed, IngestNext
  PROVE  \/ \E c \in Contents : Receive(c)
         \/ SpanNumbered
         \/ /\ UNCHANGED <<counter, content>>
            /\ \/ proc' = proc
               \/ /\ InHand /\ InHand' /\ proc'.seq = proc.seq
                  /\ Buffer \/ (proc.pc \in BufferedPcs <=> proc'.pc \in BufferedPcs)
               \/ InHand /\ ~InHand' /\ proc.pc \in BufferedPcs
<1>1. CASE Snapshot \/ (\E e \in Waiting : Decrement(e)) \/ Evaluate \/ StoreMatch \/ Drain
           \/ CopyTrace \/ InsertFlushed \/ Extend \/ Notify \/ ProcResync \/ Buffer
           \/ Decide \/ Observe
  <2>1. content' = content /\ InHand
    BY <1>1 DEF Snapshot, Decrement, Evaluate, StoreMatch, Drain, CopyTrace, InsertFlushed,
       Extend, Notify, ProcResync, Buffer, Decide, Observe, InHand
  <2>2. counter' = counter
    BY <1>1, NoOfferFacts DEF Snapshot, Decrement, Evaluate, StoreMatch, Drain, CopyTrace,
       InsertFlushed, Extend, Notify, ProcResync, Buffer, Decide, Observe, Offer, Typed
  <2>3. /\ InHand' /\ proc'.seq = proc.seq
        /\ Buffer \/ (proc.pc \in BufferedPcs <=> proc'.pc \in BufferedPcs)
    <3>1. CASE StoreMatch \/ Drain \/ CopyTrace \/ InsertFlushed \/ Extend
      BY <3>1, StoreMatchTyped, DrainTyped, CopyTraceTyped, InsertFlushedTyped, ExtendTyped
         DEF SameMatch, InHand, BufferedPcs, StoreMatch, Drain, CopyTrace, InsertFlushed,
             Extend
    <3>2. CASE Snapshot \/ (\E e \in Waiting : Decrement(e)) \/ Evaluate \/ Notify
               \/ ProcResync
      BY <3>2, SnapshotTyped, DecrementTyped, EvaluateTyped, NotifyTyped, ProcResyncTyped
         DEF InHand, BufferedPcs, Snapshot, Decrement, Evaluate, Notify, ProcResync
    <3>3. CASE Buffer \/ Decide \/ Observe
      BY <3>3, BufferTyped, DecideTyped, ObserveTyped
         DEF InHand, BufferedPcs, Decide, Observe
    <3> QED
      BY <1>1, <3>1, <3>2, <3>3
  <2> QED
    BY <2>1, <2>2, <2>3
<1>2. CASE StoreUnconditionally \/ AppendDecided
  <2>1. content' = content /\ InHand /\ proc.pc \in BufferedPcs
    BY <1>2 DEF StoreUnconditionally, AppendDecided, InHand, BufferedPcs
  <2>2. counter' = counter
    BY <1>2, NoOfferFacts DEF StoreUnconditionally, AppendDecided, Offer, Typed
  <2>3. ~InHand'
    BY <1>2, StoreUnconditionallyTyped, AppendDecidedTyped DEF InHand
  <2> QED
    BY <2>1, <2>2, <2>3
<1>3. CASE ClearLogs \/ ExportStep
  <2>1. UNCHANGED <<proc, content>>
    BY <1>3 DEF ClearLogs, ExportStep, ExportQuery, ExportRange, ExportGrade
  <2>2. counter' = counter
    BY <1>3, ClearFacts, NoOfferFacts DEF ExportStep, ExportQuery, ExportRange, ExportGrade,
       Typed
  <2> QED
    BY <2>1, <2>2
<1>4. CASE \E s \in Sessions : \/ FilterRequest(s) \/ TriggerRequest(s) \/ SetDomain(s)
                               \/ ResetWindows(s) \/ SyncBuffer(s)
  <2>1. UNCHANGED <<proc, content>> /\ NoOffer
    BY <1>4, ZenonT(60) DEF FilterRequest, TriggerRequest, AddFilter, RemoveFilter, EditFilter,
       AddTrigger, EditTrigger, RemoveTrigger, Request, SetDomain, ResetWindows, SyncBuffer
  <2>2. counter' = counter
    BY <2>1, NoOfferFacts DEF Typed
  <2> QED
    BY <2>1, <2>2
<1> QED
  BY <1>1, <1>2, <1>3, <1>4, StepKinds

(* The numbers a step hands out: to a record, which is then the newest, or *)
(* to a span, which is no log record.                                      *)
LEMMA NumberingKept ==
  ASSUME Typed, IngestNext
  PROVE  Numbering /\ (SpanNumbered => Logs' = Logs)
<1>1. counter \in Nat /\ Len(content) = counter
      /\ content \in Seq(Contents \cup {SpanContent})
  BY DEF Typed, StoreTyped, RecordsTyped
<1>2. ASSUME NEW c \in Contents, Receive(c) PROVE Numbering
  <2>1. counter' = counter + 1 /\ content' = Append(content, c)
    BY <1>2, AssignFacts DEF Receive, Typed
  <2> QED
    BY <1>1, <2>1 DEF Numbering
<1>3. CASE SpanNumbered
  <2>1. counter' = counter + 1 /\ content' = Append(content, SpanContent)
    BY <1>3, AssignFacts DEF SpanNumbered, Typed
  <2>2. /\ \A x \in 1..counter : content'[x] = content[x]
        /\ content'[counter + 1] = SpanContent
    BY <1>1, <2>1
  <2>3. Logs' = Logs
    BY <1>1, <2>1, <2>2 DEF Logs, IsLog
  <2> QED
    BY <1>1, <2>1, <2>2, <2>3 DEF Numbering
<1>4. CASE UNCHANGED <<counter, content>>
  <2>1. Numbering
    BY <1>1, <1>4 DEF Numbering
  <2>2. Logs' = Logs
    BY <1>4 DEF Logs, IsLog
  <2> QED
    BY <2>1, <2>2
<1>5. ASSUME NEW c \in Contents, Receive(c), SpanNumbered PROVE FALSE
  BY <1>5, <1>1 DEF Receive, SpanNumbered, IdleProc
<1> QED
  BY <1>2, <1>3, <1>4, <1>5, HandMoves

(* Only spans are numbered after the record in hand. *)
NewestInHand == InHand => \A x \in Logs : x <= proc.seq

LEMMA NewestNext ==
  ASSUME Typed, NewestInHand, IngestNext
  PROVE  NewestInHand'
<1>1. ASSUME NEW c \in Contents, Receive(c) PROVE NewestInHand'
  <2>1. proc'.seq = counter' /\ counter' \in Nat
    BY <1>1, AssignFacts DEF Receive, Typed, StoreTyped
  <2> QED
    BY <2>1 DEF NewestInHand, Logs
<1>2. CASE SpanNumbered
  BY <1>2, NumberingKept DEF NewestInHand, SpanNumbered, InHand
<1>3. CASE UNCHANGED <<counter, content>> /\ ~(\E c \in Contents : Receive(c)) /\ ~SpanNumbered
  <2>1. Logs' = Logs
    BY <1>3 DEF Logs, IsLog
  <2>2. InHand' => InHand /\ proc'.seq = proc.seq
    BY <1>3, HandMoves DEF InHand
  <2> QED
    BY <2>1, <2>2 DEF NewestInHand
<1> QED
  BY <1>1, <1>2, <1>3, HandMoves

(* The records that have been offered to the pre-trigger buffer. *)
Buffered ==
  IF ~InHand THEN counter
  ELSE IF proc.pc \in BufferedPcs THEN proc.seq ELSE proc.seq - 1
Arrived == {x \in Logs : x <= Buffered}

(* How many arrived since x did. *)
Back(x) == Cardinality({y \in Arrived : y >= x})

LEMMA ArrivedFacts ==
  ASSUME Typed
  PROVE  /\ Arrived \in SUBSET (1..counter) /\ counter \in Nat
         /\ \A x : Back(x) \in Nat
         /\ \A x \in Arrived : Back(x) > 0
<1>1. Arrived \in SUBSET (1..counter) /\ counter \in Nat
  BY DEF Arrived, Logs, Typed, StoreTyped
<1>2. ASSUME NEW x PROVE Back(x) \in Nat /\ IsFiniteSet({y \in Arrived : y >= x})
  <2>1. {y \in Arrived : y >= x} \in SUBSET (1..counter)
    BY <1>1
  <2> QED
    BY <1>1, <2>1, NumbersFinite DEF Back
<1>3. ASSUME NEW x \in Arrived PROVE Back(x) > 0
  <2>1. x \in {y \in Arrived : y >= x}
    BY <1>1
  <2>2. Back(x) # 0
    BY <1>2, <2>1, FS_EmptySet DEF Back
  <2>3. Back(x) \in Nat
    BY <1>2
  <2> QED
    BY <2>2, <2>3
<1> QED
  BY <1>1, <1>2, <1>3

(* A record arrives when it is appended to the buffer, and then only. *)
LEMMA ArrivedNext ==
  ASSUME Typed, NewestInHand, IngestNext
  PROVE  /\ Buffer => /\ Arrived' = Arrived \cup {proc.seq}
                      /\ \A x \in Arrived : x < proc.seq
         /\ ~Buffer => Arrived' = Arrived
<1>1. counter \in Nat /\ \A x \in Logs : x \in Nat /\ x <= counter
  BY DEF Logs, Typed, StoreTyped
<1>2. InHand => proc.seq \in 1..counter /\ IsLog(proc.seq)
  BY DEF Typed, HandSound
<1>3. CASE Buffer
  <2>1. /\ InHand /\ proc.pc = "sessions" /\ InHand' /\ proc'.pc = "store"
        /\ proc'.seq = proc.seq
    BY <1>3, BufferTyped DEF Buffer, InHand
  <2>2. UNCHANGED <<counter, content>>
    BY <1>3, NoOfferFacts DEF Buffer, Typed
  <2>3. Logs' = Logs
    BY <2>2 DEF Logs, IsLog
  <2>4. Buffered = proc.seq - 1 /\ Buffered' = proc.seq
    BY <2>1 DEF Buffered, BufferedPcs
  <2>5. proc.seq \in Logs
    BY <1>2, <2>1 DEF Logs
  <2>6. Arrived = {x \in Logs : x <= proc.seq - 1} /\ Arrived' = {x \in Logs : x <= proc.seq}
    BY <2>3, <2>4 DEF Arrived
  <2> QED
    BY <1>1, <1>3, <2>5, <2>6
<1>4. ASSUME NEW c \in Contents, Receive(c) PROVE Arrived' = Arrived
  <2>1. ~InHand /\ InHand' /\ proc'.pc = "snapshot" /\ proc'.seq = counter + 1
        /\ counter' = counter + 1
    BY <1>4, AssignFacts DEF Receive, InHand, IdleProc, Typed
  <2>2. Buffered = counter /\ Buffered' = counter
    BY <1>1, <2>1 DEF Buffered, BufferedPcs
  <2>3. \A x \in 1..counter : x \in Logs' <=> x \in Logs
    BY <1>1, <2>1, NumberingKept DEF Numbering, Logs, IsLog
  <2>4. \A x \in Logs' : x \in 1..(counter + 1)
    BY <2>1 DEF Logs
  <2>5. Arrived = {x \in Logs : x <= counter} /\ Arrived' = {x \in Logs' : x <= counter}
    BY <2>2 DEF Arrived
  <2>6. \A x \in Logs' : x <= counter => x \in 1..counter
    BY <1>1, <2>4
  <2> QED
    BY <1>1, <2>3, <2>5, <2>6 DEF Logs
<1>5. ASSUME SpanNumbered PROVE Arrived' = Arrived
  <2>1. Logs' = Logs /\ counter' = counter + 1 /\ proc' = proc
    BY <1>5, NumberingKept, AssignFacts DEF SpanNumbered, Typed
  <2>2. CASE InHand
    <3>1. Buffered' = Buffered
      BY <2>1, <2>2 DEF Buffered, InHand
    <3> QED
      BY <2>1, <3>1 DEF Arrived
  <2>3. CASE ~InHand
    <3>1. Buffered = counter /\ Buffered' = counter + 1
      BY <2>1, <2>3 DEF Buffered, InHand
    <3>2. Arrived = {x \in Logs : x <= counter} /\ Arrived' = {x \in Logs : x <= counter + 1}
      BY <2>1, <3>1 DEF Arrived
    <3> QED
      BY <1>1, <3>2
  <2> QED
    BY <2>2, <2>3
<1>6. ASSUME UNCHANGED <<counter, content>>, ~Buffer,
             \/ proc' = proc
             \/ /\ InHand /\ InHand' /\ proc'.seq = proc.seq
                /\ proc.pc \in BufferedPcs <=> proc'.pc \in BufferedPcs
      PROVE  Arrived' = Arrived
  <2>1. Buffered' = Buffered
    BY <1>6 DEF Buffered, InHand
  <2> QED
    BY <1>6, <2>1 DEF Arrived, Logs, IsLog
<1>7. ASSUME UNCHANGED <<counter, content>>, InHand, ~InHand', proc.pc \in BufferedPcs
      PROVE  Arrived' = Arrived
  <2>1. Arrived = Logs
    BY <1>7 DEF NewestInHand, Arrived, Buffered
  <2>2. Logs' = Logs
    BY <1>7 DEF Logs, IsLog
  <2>3. Arrived' = Logs
    BY <1>1, <1>7, <2>2 DEF Arrived, Buffered
  <2> QED
    BY <2>1, <2>3
<1>8. CASE ~Buffer
  BY <1>4, <1>5, <1>6, <1>7, <1>8, HandMoves
<1> QED
  BY <1>3, <1>8
-----------------------------------------------------------------------------
(* The pre-windows. *)

(* Drained from the buffer, and about to be offered to the store. *)
OnTheWay == IF proc.pc \in {"copy", "insert"} THEN proc.batch ELSE {}

PreTypes ==
  /\ arrivals \in Nat
  /\ preCap \in Nat
  /\ shortTo \in [1..MaxWindow -> Nat]
  /\ DOMAIN preBuf \subseteq Arrived
  /\ \A x \in DOMAIN preBuf : preBuf[x] \in 0..(arrivals - 1)
  /\ \A x, y \in DOMAIN preBuf : preBuf[x] = preBuf[y] => x = y

(* A window of n still finds x, arrived while the buffer was large enough: *)
(* it is in the buffer, at its place in the order of arrival, or settled,  *)
(* or n others arrived since.                                              *)
InReach(x, n) ==
  /\ x \in DOMAIN preBuf => arrivals - preBuf[x] = Back(x)
  /\ x \in DOMAIN preBuf \/ x \in Accounted \/ x \in OnTheWay \/ Back(x) > n

PreReach ==
  \A n \in 1..MaxWindow : \A x \in Arrived : x > shortTo[n] => InReach(x, n)

(* What a firing drained is all its window asks for. *)
PreDrained ==
  proc.pc \in {"copy", "insert"} =>
    \A m \in proc.fired : \A x \in Arrived :
      (m.pre \in 1..MaxWindow /\ x > shortTo[m.pre] /\ Back(x) <= m.pre)
        => x \in Accounted \/ x \in proc.batch

PreSound == NewestInHand /\ PreTypes /\ PreReach /\ PreDrained

(* The domain's pre-window is a window. *)
LEMMA DomainPreTyped ==
  ASSUME SessionsTyped
  PROVE  DomainPre \in Windows /\ DomainPre \in Nat
<1> DEFINE T == {0} \cup {SessionPre(s) : s \in bound}
<1>1. T \subseteq 0..MaxWindow /\ T # {}
  BY PreTyped, WindowAssumption DEF SessionsTyped, Windows
<1> HIDE DEF T
<1>2. Top(T) \in T
  BY <1>1, TopFacts, WindowAssumption
<1> QED
  BY <1>1, <1>2, WindowAssumption DEF T, DomainPre, Windows

(* A step that leaves the buffer alone. *)
LEMMA PreFrame ==
  ASSUME Typed, PreSound, UNCHANGED preVars, Arrived' = Arrived, Accounted \subseteq Accounted',
         OnTheWay \subseteq OnTheWay' \cup Accounted',
         proc'.pc \in {"copy", "insert"} =>
           /\ proc.pc \in {"copy", "insert"}
           /\ proc'.fired = proc.fired /\ proc.batch \subseteq proc'.batch
  PROVE  PreTypes' /\ PreReach' /\ PreDrained'
<1>1. UNCHANGED <<preBuf, arrivals, preCap, shortTo>>
  BY DEF preVars
<1>2. \A x : Back(x)' = Back(x)
  BY DEF Back
<1>3. PreTypes'
  BY <1>1 DEF PreSound, PreTypes
<1>4. PreReach'
  BY <1>1, <1>2 DEF PreSound, PreReach, InReach
<1>5. PreDrained'
  BY <1>1, <1>2 DEF PreSound, PreDrained
<1> QED
  BY <1>3, <1>4, <1>5

(* The buffer takes the size it needs: what a window loses by that, it     *)
(* could no longer reach, or is told that it cannot.                       *)
LEMMA PreResync ==
  ASSUME Typed, PreSound, Resync, Arrived' = Arrived, Accounted \subseteq Accounted',
         OnTheWay' = OnTheWay,
         proc'.pc \in {"copy", "insert"} => proc' = proc
  PROVE  PreTypes' /\ PreReach' /\ PreDrained'
<1> DEFINE cap == DomainPre
<1>1. /\ preCap' = cap /\ arrivals' = arrivals
      /\ preBuf' = [s \in {x \in DOMAIN preBuf : preBuf[x] >= arrivals - cap} |-> preBuf[s]]
      /\ shortTo' = [n \in DOMAIN shortTo |-> IF n > cap THEN counter ELSE shortTo[n]]
  BY DEF Resync, Expired, TooShort
<1>2. cap \in Nat
  BY DomainPreTyped DEF Typed
<1> HIDE DEF cap
<1>3. /\ arrivals \in Nat /\ shortTo \in [1..MaxWindow -> Nat]
      /\ DOMAIN preBuf \subseteq Arrived
      /\ \A x \in DOMAIN preBuf : preBuf[x] \in 0..(arrivals - 1)
      /\ \A x, y \in DOMAIN preBuf : preBuf[x] = preBuf[y] => x = y
  BY DEF PreSound, PreTypes
<1>4. /\ DOMAIN preBuf' = {x \in DOMAIN preBuf : preBuf[x] >= arrivals - cap}
      /\ \A x \in DOMAIN preBuf' : preBuf'[x] = preBuf[x]
  BY <1>1
<1>5. counter \in Nat /\ Arrived \in SUBSET (1..counter)
  BY ArrivedFacts
<1>6. /\ shortTo' \in [1..MaxWindow -> Nat]
      /\ \A n \in 1..MaxWindow : \A x \in Arrived :
           x > shortTo'[n] => n <= cap /\ shortTo'[n] = shortTo[n]
  BY <1>1, <1>2, <1>3, <1>5
<1>7. PreTypes'
  BY <1>1, <1>2, <1>3, <1>4, <1>6 DEF PreTypes
<1>8. \A x : Back(x)' = Back(x)
  BY DEF Back
<1>9. ASSUME NEW n \in 1..MaxWindow, NEW x \in Arrived, x > shortTo'[n]
      PROVE  InReach(x, n)'
  <2>1. n <= cap /\ InReach(x, n)
    BY <1>6, <1>9 DEF PreSound, PreReach
  <2>2. CASE x \in DOMAIN preBuf'
    BY <1>1, <1>4, <1>8, <2>1, <2>2 DEF InReach
  <2>3. CASE x \in DOMAIN preBuf /\ x \notin DOMAIN preBuf'
    <3>1. /\ arrivals - preBuf[x] = Back(x) /\ ~(preBuf[x] >= arrivals - cap)
          /\ preBuf[x] \in 0..(arrivals - 1)
      BY <1>3, <1>4, <2>1, <2>3 DEF InReach
    <3>2. Back(x) > n
      <4> DEFINE b == Back(x)
      <4>1. arrivals - preBuf[x] = b
        BY <3>1
      <4> HIDE DEF b
      <4>2. b > n
        BY <1>2, <1>3, <2>1, <3>1, <4>1
      <4> QED
        BY <4>2 DEF b
    <3> QED
      BY <1>8, <2>3, <3>2 DEF InReach
  <2>4. CASE x \notin DOMAIN preBuf
    BY <1>4, <1>8, <2>1, <2>4 DEF InReach
  <2> QED
    BY <2>2, <2>3, <2>4
<1>10. PreReach'
  BY <1>9 DEF PreReach
<1>11. PreDrained'
  BY <1>6, <1>8 DEF PreSound, PreDrained
<1> QED
  BY <1>7, <1>10, <1>11

(* The record in hand joins the buffer: everything before it is one        *)
(* further back, and what is pushed out is out of every window's reach.    *)
LEMMA PreBuffer ==
  ASSUME Typed, PreSound, Buffer
  PROVE  PreTypes' /\ PreReach' /\ PreDrained'
<1> DEFINE cap == preCap
<1>0. PICK q : q = proc.seq
  OBVIOUS
<1>1. Arrived' = Arrived \cup {q} /\ \A x \in Arrived : x < q
  BY <1>0, ArrivedNext DEF PreSound, IngestNext, ProcessorStep
<1>2. proc.pc = "sessions" /\ proc'.pc = "store" /\ q \in 1..counter
  BY <1>0, BufferTyped DEF Buffer, Typed, HandSound, InHand
<1>3. /\ shortTo' = [n \in DOMAIN shortTo |-> IF n > cap THEN q ELSE shortTo[n]]
      /\ preCap' = cap
      /\ cap = 0 => UNCHANGED <<preBuf, arrivals>>
  BY <1>0 DEF Buffer, BufferAppend, TooShort
<1>4. ASSUME cap # 0
      PROVE  /\ arrivals' = arrivals + 1
             /\ preBuf' = Expired([x \in DOMAIN preBuf \cup {q} |->
                                     IF x = q THEN arrivals ELSE preBuf[x]],
                                  cap, arrivals + 1)
  BY <1>0, <1>4 DEF Buffer, BufferAppend
<1>5. /\ arrivals \in Nat /\ cap \in Nat /\ shortTo \in [1..MaxWindow -> Nat]
      /\ DOMAIN preBuf \subseteq Arrived
      /\ \A x \in DOMAIN preBuf : preBuf[x] \in 0..(arrivals - 1)
      /\ \A x, y \in DOMAIN preBuf : preBuf[x] = preBuf[y] => x = y
  BY DEF PreSound, PreTypes
<1>6. counter \in Nat /\ Arrived \in SUBSET (1..counter) /\ IsFiniteSet(Arrived)
  BY ArrivedFacts, NumbersFinite
<1> HIDE DEF cap
<1>7. /\ shortTo' \in [1..MaxWindow -> Nat]
      /\ \A n \in 1..MaxWindow : \A x \in Arrived' :
           x > shortTo'[n] => n <= cap /\ shortTo'[n] = shortTo[n]
  BY <1>1, <1>2, <1>3, <1>5, <1>6
<1>8. /\ \A x \in Arrived : Back(x)' = Back(x) + 1
      /\ Back(q)' = 1
  <2>1. ASSUME NEW x \in Arrived PROVE Back(x)' = Back(x) + 1
    <3> DEFINE S == {y \in Arrived : y >= x}
    <3>1. {y \in Arrived' : y >= x} = S \cup {q} /\ q \notin S
      BY <1>1, <1>2, <1>6, <2>1
    <3>2. IsFiniteSet(S)
      BY <1>6, FS_Subset
    <3> HIDE DEF S
    <3>3. Cardinality(S \cup {q}) = Cardinality(S) + 1
      BY <3>1, <3>2, FS_AddElement
    <3> QED
      BY <3>1, <3>3 DEF S, Back
  <2>2. {y \in Arrived' : y >= q} = {q}
    <3>1. q >= q /\ \A y \in Arrived : ~(y >= q)
      BY <1>1, <1>2, <1>6
    <3> QED
      BY <1>1, <3>1
  <2>3. Cardinality({q}) = 1
    BY FS_Singleton
  <2> QED
    BY <2>1, <2>2, <2>3 DEF Back
<1>9. CASE cap = 0
  <2>1. UNCHANGED <<preBuf, arrivals>>
    BY <1>3, <1>9
  <2>2. PreTypes'
    BY <1>1, <1>3, <1>5, <1>7, <2>1 DEF PreTypes
  <2>3. PreReach'
    BY <1>7, <1>9 DEF PreReach
  <2> QED
    BY <1>2, <2>2, <2>3 DEF PreDrained
<1>10. CASE cap # 0
  <2> DEFINE grown == [x \in DOMAIN preBuf \cup {q} |-> IF x = q THEN arrivals ELSE preBuf[x]]
  <2>0. DOMAIN grown = DOMAIN preBuf \cup {q} /\ preBuf' = Expired(grown, cap, arrivals + 1)
        /\ arrivals' = arrivals + 1
    BY <1>4, <1>10
  <2>1. /\ arrivals' = arrivals + 1
        /\ DOMAIN preBuf' = {x \in DOMAIN preBuf \cup {q} : grown[x] >= (arrivals + 1) - cap}
        /\ \A x \in DOMAIN preBuf' : preBuf'[x] = grown[x]
    <3> HIDE DEF grown
    <3>1. preBuf' = [x \in {y \in DOMAIN grown : grown[y] >= (arrivals + 1) - cap} |->
                       grown[x]]
      BY <2>0, Zenon DEF Expired
    <3>2. DOMAIN preBuf' = {y \in DOMAIN grown : grown[y] >= (arrivals + 1) - cap}
      BY <3>1
    <3> QED
      BY <2>0, <3>1, <3>2
  <2>2. q \notin DOMAIN preBuf
    BY <1>1, <1>2, <1>5, <1>6
  <2>3. grown[q] = arrivals /\ \A x \in DOMAIN preBuf : grown[x] = preBuf[x]
    BY <2>2
  <2> HIDE DEF grown
  <2>4. PreTypes'
    <3>1. \A x \in DOMAIN preBuf' : preBuf'[x] \in 0..arrivals
      BY <1>5, <2>1, <2>3
    <3>2. \A x, y \in DOMAIN preBuf' : preBuf'[x] = preBuf'[y] => x = y
      BY <1>5, <2>1, <2>3
    <3>3. DOMAIN preBuf' \subseteq Arrived'
      BY <1>1, <1>5, <2>1
    <3> QED
      BY <1>3, <1>5, <1>7, <2>1, <3>1, <3>2, <3>3 DEF PreTypes
  <2>5. ASSUME NEW n \in 1..MaxWindow, NEW x \in Arrived', x > shortTo'[n]
        PROVE  InReach(x, n)'
    <3>1. n <= cap /\ x > shortTo[n]
      BY <1>7, <2>5
    <3>2. CASE x = q
      <4>1. q \in DOMAIN preBuf' /\ preBuf'[q] = arrivals
        BY <1>5, <1>10, <2>1, <2>3
      <4> QED
        BY <1>5, <1>8, <2>1, <3>2, <4>1 DEF InReach
    <3>3. CASE x # q
      <4>1. x \in Arrived /\ InReach(x, n)
        BY <1>1, <3>1, <3>3 DEF PreSound, PreReach
      <4>2. Back(x)' = Back(x) + 1 /\ Back(x) \in Nat
        BY <1>8, <4>1, ArrivedFacts
      <4>3. CASE x \in DOMAIN preBuf
        <5>1. arrivals - preBuf[x] = Back(x) /\ preBuf[x] \in 0..(arrivals - 1)
          BY <1>5, <4>1, <4>3 DEF InReach
        <5>2. x \in DOMAIN preBuf' => arrivals' - preBuf'[x] = Back(x)'
          BY <1>5, <2>1, <2>3, <4>2, <4>3, <5>1
        <5>3. x \in DOMAIN preBuf' \/ Back(x)' > n
          <6>1. x \notin DOMAIN preBuf' => ~(preBuf[x] >= (arrivals + 1) - cap)
            BY <2>1, <2>3, <4>3
          <6> DEFINE b == Back(x)
                     c == Back(x)'
          <6>2. arrivals - preBuf[x] = b /\ c = b + 1 /\ b \in Nat
            BY <4>2, <5>1
          <6> HIDE DEF b, c
          <6>3. x \notin DOMAIN preBuf' => c > n
            BY <1>5, <3>1, <5>1, <6>1, <6>2
          <6> QED
            BY <6>3 DEF c
        <5> QED
          BY <5>2, <5>3 DEF InReach
      <4>4. CASE x \notin DOMAIN preBuf
        <5>1. x \notin DOMAIN preBuf'
          BY <2>1, <3>3, <4>4
        <5>2. x \in Accounted \/ Back(x) > n
          BY <1>2, <4>1, <4>4 DEF InReach, OnTheWay
        <5>3. Accounted' = Accounted
          BY NoOfferFacts DEF Buffer, Typed
        <5>4. Back(x) > n => Back(x)' > n
          <6> DEFINE b == Back(x)
                     c == Back(x)'
          <6>1. c = b + 1 /\ b \in Nat
            BY <4>2
          <6> HIDE DEF b, c
          <6>2. b > n => c > n
            BY <6>1
          <6> QED
            BY <6>2 DEF b, c
        <5> QED
          BY <5>1, <5>2, <5>3, <5>4 DEF InReach
      <4> QED
        BY <4>3, <4>4
    <3> QED
      BY <3>2, <3>3
  <2>6. PreReach'
    BY <2>5 DEF PreReach
  <2> QED
    BY <1>2, <2>4, <2>6 DEF PreDrained
<1> QED
  BY <1>9, <1>10

(* The longest window among those fired. *)
LEMMA MaxPreFacts ==
  ASSUME proc \in Matching, proc.fired # {}
  PROVE  MaxPre \in Nat /\ \A m \in proc.fired : m.pre <= MaxPre
<1> DEFINE T == {m.pre : m \in proc.fired}
<1>1. T \subseteq 0..MaxWindow /\ T # {}
  BY DEF Matching, Hits, Windows
<1> HIDE DEF T
<1>2. Top(T) \in T /\ \A y \in T : y <= Top(T)
  BY <1>1, TopFacts, WindowAssumption
<1>3. MaxPre = Top(T) /\ MaxPre \in Nat
  BY <1>1, <1>2, WindowAssumption DEF MaxPre, T
<1> QED
  BY <1>2, <1>3 DEF T

(* What is buffered after x arrived no more than Back(x) ago. *)
LEMMA BufferedSince ==
  ASSUME Typed, PreTypes, NEW x \in DOMAIN preBuf
  PROVE  Cardinality({t \in DOMAIN preBuf : preBuf[t] >= preBuf[x]})
           <= arrivals - preBuf[x]
<1> DEFINE S == {t \in DOMAIN preBuf : preBuf[t] >= preBuf[x]}
           R == preBuf[x]..(arrivals - 1)
           g == [t \in S |-> preBuf[t]]
<1>1. /\ arrivals \in Nat /\ \A t \in DOMAIN preBuf : preBuf[t] \in 0..(arrivals - 1)
      /\ \A t, u \in DOMAIN preBuf : preBuf[t] = preBuf[u] => t = u
  BY DEF PreTypes
<1>2. g \in Injection(S, R)
  <2>1. g \in [S -> R]
    BY <1>1
  <2>2. \A t, u \in S : g[t] = g[u] => t = u
    BY <1>1
  <2> QED
    BY <2>1, <2>2 DEF Injection, IsInjective
<1>3. IsFiniteSet(R) /\ Cardinality(R) = arrivals - preBuf[x]
  <2>1. preBuf[x] \in Int /\ arrivals - 1 \in Int /\ preBuf[x] <= arrivals - 1
    BY <1>1
  <2>2. IsFiniteSet(R) /\ Cardinality(R) = (arrivals - 1) - preBuf[x] + 1
    BY <2>1, FS_Interval
  <2> QED
    BY <1>1, <2>1, <2>2
<1> HIDE DEF S, R, g
<1>4. Cardinality(S) <= Cardinality(R)
  BY <1>2, <1>3, FS_Injection
<1> QED
  BY <1>3, <1>4 DEF S

(* A firing drains all of its pre-window that was still to be had. *)
LEMMA PreDrain ==
  ASSUME Typed, PreSound, Drain
  PROVE  PreTypes' /\ PreReach' /\ PreDrained'
<1> DEFINE out == LastArrivals(MaxPre)
<1>1. /\ proc.pc = "drain" /\ InHand /\ proc \in Matching /\ proc.fired # {}
  BY HandFields DEF Drain, InHand, Typed, RecordsTyped, FiringPcs, HandSound
<1>2. /\ proc'.pc = "copy" /\ proc'.fired = proc.fired /\ proc'.batch = out
  BY <1>1, DrainTyped DEF SameMatch, Drain, Matching
<1>3. /\ preBuf' = [s \in DOMAIN preBuf \ out |-> preBuf[s]]
      /\ UNCHANGED <<arrivals, preCap, shortTo>>
  BY DEF Drain, BufferDrain
<1>4. Accounted' = Accounted
  BY NoOfferFacts DEF Drain, Typed
<1>5. Arrived' = Arrived
  <2>1. IngestNext /\ ~Buffer
    BY <1>1 DEF IngestNext, ProcessorStep, Buffer
  <2> QED
    BY <2>1, ArrivedNext DEF PreSound
<1>6. \A x : Back(x)' = Back(x)
  BY <1>5 DEF Back
<1>7. MaxPre \in Nat /\ \A m \in proc.fired : m.pre <= MaxPre /\ m.pre \in Nat
  BY <1>1, MaxPreFacts, WindowAssumption DEF Matching, Hits, Windows
<1>8. out \subseteq DOMAIN preBuf
  BY DEF LastArrivals
<1>9. ASSUME NEW x \in DOMAIN preBuf, arrivals - preBuf[x] <= MaxPre PROVE x \in out
  <2> DEFINE S == {t \in DOMAIN preBuf : preBuf[t] >= preBuf[x]}
  <2>1. Cardinality(S) <= arrivals - preBuf[x]
    BY BufferedSince DEF PreSound
  <2>2. S \in SUBSET (1..counter) /\ counter \in Nat
    BY DEF Typed, RecordsTyped, StoreTyped
  <2>3. Cardinality(S) \in Nat
    BY <2>2, NumbersFinite
  <2>4. arrivals - preBuf[x] \in Int
    BY DEF PreSound, PreTypes
  <2>5. Cardinality(S) <= MaxPre
    <3> HIDE DEF S
    <3> QED
      BY <1>7, <1>9, <2>1, <2>3, <2>4
  <2> QED
    BY <2>5 DEF LastArrivals
<1> HIDE DEF out
<1>10. PreTypes'
  BY <1>3, <1>5 DEF PreSound, PreTypes
<1>11. PreReach'
  <2>1. ASSUME NEW n \in 1..MaxWindow, NEW x \in Arrived, x > shortTo[n]
        PROVE  InReach(x, n)'
    <3>1. InReach(x, n)
      BY <2>1 DEF PreSound, PreReach
    <3>2. OnTheWay = {} /\ OnTheWay' = out
      BY <1>1, <1>2 DEF OnTheWay
    <3> QED
      BY <1>3, <1>4, <1>6, <3>1, <3>2 DEF InReach
  <2> QED
    BY <1>3, <1>5, <2>1 DEF PreReach
<1>12. PreDrained'
  <2>1. ASSUME NEW m \in proc.fired, NEW x \in Arrived, m.pre \in 1..MaxWindow,
               x > shortTo[m.pre], Back(x) <= m.pre
        PROVE  x \in Accounted \/ x \in out
    <3>1. InReach(x, m.pre) /\ Back(x) \in Nat
      BY <2>1, ArrivedFacts DEF PreSound, PreReach
    <3>2. OnTheWay = {}
      BY <1>1 DEF OnTheWay
    <3>3. (x \in DOMAIN preBuf /\ arrivals - preBuf[x] = Back(x)) \/ x \in Accounted
      <4> DEFINE b == Back(x)
      <4>1. ~(b > m.pre)
        <5>1. b \in Nat /\ b <= m.pre
          BY <2>1, <3>1
        <5> HIDE DEF b
        <5> QED
          BY <1>7, <5>1
      <4> QED
        BY <3>1, <3>2, <4>1 DEF InReach
    <3>4. Back(x) <= MaxPre
      <4> DEFINE b == Back(x)
      <4>1. b \in Nat /\ b <= m.pre
        BY <2>1, <3>1
      <4> HIDE DEF b
      <4>2. b <= MaxPre
        BY <1>7, <4>1
      <4> QED
        BY <4>2 DEF b
    <3> QED
      BY <1>9, <3>3, <3>4
  <2> QED
    BY <1>2, <1>3, <1>4, <1>5, <1>6, <2>1 DEF PreDrained
<1> QED
  BY <1>10, <1>11, <1>12

(* Firings are recorded by InsertFlushed only, and none is forgotten. *)
LEMMA FiresGrow ==
  ASSUME IngestNext
  PROVE  InsertFlushed \/ fires' = fires
<1>1. CASE Snapshot \/ (\E e \in Waiting : Decrement(e)) \/ Evaluate \/ StoreMatch \/ Drain
           \/ CopyTrace \/ Extend \/ Notify \/ Decide \/ Observe \/ ProcResync \/ Buffer
           \/ StoreUnconditionally \/ AppendDecided \/ (\E c \in Contents : Receive(c))
           \/ SpanNumbered \/ ClearLogs \/ ExportStep
  BY <1>1 DEF Snapshot, Decrement, Evaluate, StoreMatch, Drain, CopyTrace, Extend, Notify,
     Decide, Observe, ProcResync, Buffer, StoreUnconditionally, AppendDecided, Receive,
     SpanNumbered, ClearLogs, ExportStep, ExportQuery, ExportRange, ExportGrade, historyVars
<1>2. CASE \E s \in Sessions : \/ FilterRequest(s) \/ TriggerRequest(s) \/ SetDomain(s)
                               \/ ResetWindows(s) \/ SyncBuffer(s)
  BY <1>2 DEF SyncBuffer, FilterRequest, TriggerRequest, AddFilter, RemoveFilter, EditFilter,
     AddTrigger, EditTrigger, RemoveTrigger, Request, SetDomain, ResetWindows, historyVars
<1> QED
  BY <1>1, <1>2, StepKinds

LEMMA PreNext ==
  ASSUME Typed, PreSound, IngestNext
  PROVE  PreSound'
<1>1. NewestInHand' /\ Accounted \subseteq Accounted'
  BY NewestNext, AccountedGrows DEF PreSound
<1>2. ~Buffer => Arrived' = Arrived
  BY ArrivedNext DEF PreSound
<1>3. CASE Buffer
  BY <1>1, <1>3, PreBuffer DEF PreSound
<1>4. CASE Drain
  BY <1>1, <1>4, PreDrain DEF PreSound
<1>5. CASE ProcResync \/ \E s \in Sessions : SyncBuffer(s)
  <2>1. Resync /\ ~Buffer
    <3>1. Buffer => proc.pc = "sessions" /\ proc'.pc = "store"
      BY BufferTyped DEF Buffer
    <3> QED
      BY <1>5, <3>1 DEF ProcResync, SyncBuffer
  <2>2. proc'.pc \in {"copy", "insert"} \/ proc.pc \in {"copy", "insert"} => proc' = proc
    BY <1>5, ProcResyncTyped DEF ProcResync, SyncBuffer
  <2>3. OnTheWay' = OnTheWay
    BY <2>2 DEF OnTheWay
  <2> QED
    BY <1>1, <1>2, <2>1, <2>2, <2>3, PreResync DEF PreSound
<1>6. ASSUME ~Buffer, UNCHANGED preVars,
             OnTheWay \subseteq OnTheWay' \cup Accounted',
             proc'.pc \in {"copy", "insert"} =>
               /\ proc.pc \in {"copy", "insert"}
               /\ proc'.fired = proc.fired /\ proc.batch \subseteq proc'.batch
      PROVE  PreSound'
  BY <1>1, <1>2, <1>6, PreFrame DEF PreSound
<1>7. CASE InsertFlushed
  <2>1. proc.pc = "insert" /\ proc'.pc = "extend" /\ UNCHANGED preVars
    BY <1>7, InsertFlushedTyped DEF InsertFlushed
  <2>2. proc.batch \subseteq Accounted'
    <3>1. proc.batch \subseteq 1..counter
      BY <2>1 DEF Typed, HandSound, FiringPcs
    <3> QED
      BY <1>7, <3>1, OfferFacts DEF InsertFlushed, Typed
  <2> QED
    BY <1>6, <2>1, <2>2 DEF OnTheWay, Buffer
<1>8. CASE CopyTrace
  <2>1. /\ proc.pc = "copy" /\ proc'.pc = "insert" /\ UNCHANGED preVars
        /\ proc'.fired = proc.fired
    BY <1>8, CopyTraceTyped DEF CopyTrace, SameMatch
  <2>2. proc.batch \subseteq proc'.batch
    <3>1. proc \in Matching
      BY <2>1, HandFields DEF Typed, RecordsTyped, FiringPcs
    <3>2. proc'.batch = IF content[proc.seq] \in Traced
                          THEN proc.batch \cup {x \in DOMAIN preBuf : content[x] \in Traced}
                          ELSE proc.batch
      BY <1>8, <3>1 DEF CopyTrace, Matching
    <3> QED
      BY <3>2
  <2> QED
    BY <1>6, <2>1, <2>2 DEF OnTheWay, Buffer
<1>9. CASE Snapshot \/ (\E e \in Waiting : Decrement(e)) \/ Evaluate \/ StoreMatch \/ Extend
           \/ Notify \/ Decide \/ Observe \/ StoreUnconditionally \/ AppendDecided
           \/ (\E c \in Contents : Receive(c))
  <2>1. UNCHANGED preVars /\ proc.pc \notin {"copy", "insert"}
    BY <1>9 DEF Snapshot, Decrement, Evaluate, StoreMatch, Extend, Notify, Decide, Observe,
       StoreUnconditionally, AppendDecided, Receive, IdleProc
  <2>2. proc'.pc \notin {"copy", "insert"}
    <3>1. CASE Snapshot \/ (\E e \in Waiting : Decrement(e)) \/ Evaluate \/ Notify
      BY <3>1, SnapshotTyped, DecrementTyped, EvaluateTyped, NotifyTyped
         DEF Decrement
    <3>2. CASE StoreMatch \/ Extend \/ Decide \/ Observe \/ StoreUnconditionally
               \/ AppendDecided
      BY <3>2, StoreMatchTyped, ExtendTyped, DecideTyped, ObserveTyped,
         StoreUnconditionallyTyped, AppendDecidedTyped
    <3>3. CASE \E c \in Contents : Receive(c)
      BY <3>3 DEF Receive
    <3> QED
      BY <1>9, <3>1, <3>2, <3>3
  <2>3. ~Buffer
    <3>1. Buffer => proc.pc = "sessions" /\ proc'.pc = "store"
      BY BufferTyped DEF Buffer
    <3>2. proc.pc = "sessions" => proc'.pc # "store"
      BY <1>9 DEF Snapshot, Decrement, Evaluate, StoreMatch, Extend, Notify, Decide, Observe,
         StoreUnconditionally, AppendDecided, Receive, IdleProc
    <3> QED
      BY <3>1, <3>2
  <2> QED
    BY <1>6, <2>1, <2>2, <2>3 DEF OnTheWay
<1>10. CASE SpanNumbered \/ ClearLogs \/ ExportStep
            \/ \E s \in Sessions : \/ FilterRequest(s) \/ TriggerRequest(s) \/ SetDomain(s)
                                   \/ ResetWindows(s)
  <2>1. UNCHANGED preVars /\ proc' = proc
    BY <1>10 DEF SpanNumbered, ClearLogs, ExportStep, ExportQuery, ExportRange, ExportGrade,
       FilterRequest, TriggerRequest, AddFilter, RemoveFilter, EditFilter, AddTrigger,
       EditTrigger, RemoveTrigger, Request, SetDomain, ResetWindows
  <2>2. ~Buffer
    <3>1. Buffer => proc.pc = "sessions" /\ proc'.pc = "store"
      BY BufferTyped DEF Buffer
    <3> QED
      BY <2>1, <3>1
  <2>3. OnTheWay' = OnTheWay
    BY <2>1 DEF OnTheWay
  <2> QED
    BY <1>6, <2>1, <2>2, <2>3
<1> QED
  BY <1>3, <1>4, <1>5, <1>7, <1>8, <1>9, <1>10, StepKinds

(* What shortTo says of a record before one already fired on is kept. *)
LEMMA ShortKept ==
  ASSUME Typed, PreSound, IngestNext, NEW f \in fires, NEW x \in Logs, x < f.seq,
         NEW n \in 1..MaxWindow, x > shortTo'[n]
  PROVE  x > shortTo[n]
<1>1. /\ f.seq \in Nat /\ f.seq <= counter /\ (InHand => f.seq <= proc.seq)
      /\ x \in Nat /\ counter \in Nat
  BY FiringFacts DEF Logs, Typed, StoreTyped
<1>2. InHand => proc.seq \in Nat
  BY DEF Typed, HandSound, StoreTyped
<1>3. shortTo \in [1..MaxWindow -> Nat] /\ preCap \in Nat
  BY DEF PreSound, PreTypes
<1>4. CASE Resync
  <2>1. shortTo' = [k \in DOMAIN shortTo |-> IF k > preCap' THEN counter ELSE shortTo[k]]
    BY <1>4 DEF Resync, TooShort
  <2>2. shortTo'[n] = counter \/ shortTo'[n] = shortTo[n]
    BY <1>3, <2>1
  <2> QED
    BY <1>1, <2>2
<1>5. CASE Buffer
  <2>1. shortTo' = [k \in DOMAIN shortTo |-> IF k > preCap THEN proc.seq ELSE shortTo[k]]
        /\ InHand
    BY <1>5 DEF Buffer, BufferAppend, TooShort, InHand
  <2>2. shortTo'[n] = proc.seq \/ shortTo'[n] = shortTo[n]
    BY <1>3, <2>1
  <2> QED
    BY <1>1, <1>2, <2>1, <2>2
<1>6. Resync \/ Buffer \/ shortTo' = shortTo
  <2>1. CASE Snapshot \/ (\E e \in Waiting : Decrement(e)) \/ Evaluate \/ StoreMatch \/ Drain
             \/ CopyTrace \/ InsertFlushed \/ Extend \/ Notify \/ Decide \/ Observe
             \/ StoreUnconditionally \/ AppendDecided \/ (\E c \in Contents : Receive(c))
             \/ SpanNumbered \/ ClearLogs \/ ExportStep
    BY <2>1 DEF Snapshot, Decrement, Evaluate, StoreMatch, Drain, BufferDrain, CopyTrace,
       InsertFlushed, Extend, Notify, Decide, Observe, StoreUnconditionally, AppendDecided,
       Receive, SpanNumbered, ClearLogs, ExportStep, ExportQuery, ExportRange, ExportGrade,
       preVars
  <2>2. CASE ProcResync \/ \E s \in Sessions : \/ FilterRequest(s) \/ TriggerRequest(s)
                                               \/ SetDomain(s) \/ ResetWindows(s)
                                               \/ SyncBuffer(s)
    BY <2>2, ZenonT(60) DEF ProcResync, SyncBuffer, FilterRequest, TriggerRequest, AddFilter,
       RemoveFilter, EditFilter, AddTrigger, EditTrigger, RemoveTrigger, Request, SetDomain,
       ResetWindows, preVars
  <2> QED
    BY <2>1, <2>2, StepKinds
<1> QED
  BY <1>4, <1>5, <1>6

(* A window the record in hand fires finds what it promises. *)
LEMMA CapturedInsert ==
  ASSUME Typed, PreSound, InsertFlushed, NEW f \in NewFires, NEW x \in Logs, x < f.seq,
         Cardinality(LogsBetween(x - 1, f.seq - 1)) <= f.pre, x > shortTo[f.pre]
  PROVE  x \in Accounted'
<1>1. /\ proc.pc = "insert" /\ InHand /\ proc \in Matching
      /\ proc.seq \in 1..counter /\ counter \in Nat
  BY HandFields DEF InsertFlushed, InHand, Typed, HandSound, StoreTyped, RecordsTyped, FiringPcs
<1>2. PICK m \in proc.fired : f.seq = proc.seq /\ f.pre = m.pre
  BY DEF NewFires
<1>3. m.pre \in 0..MaxWindow
  BY <1>1, <1>2 DEF Matching, Hits, Windows
<1>4. x \in 1..counter /\ \A y \in Logs : y \in 1..counter
  BY DEF Logs
<1>5. Buffered = proc.seq - 1
  BY <1>1 DEF Buffered, BufferedPcs
<1>6. Arrived = {y \in Logs : y <= proc.seq - 1}
  BY <1>5 DEF Arrived
<1>7. x \in Arrived
  BY <1>1, <1>2, <1>4, <1>6
<1>8. LogsBetween(x - 1, f.seq - 1) = {y \in Arrived : y >= x}
  <2>1. \A y \in Logs : (y > x - 1 /\ y <= f.seq - 1) <=> (y <= proc.seq - 1 /\ y >= x)
    BY <1>1, <1>2, <1>4
  <2> QED
    BY <1>6, <2>1 DEF LogsBetween
<1>9. Back(x) <= m.pre
  BY <1>2, <1>8 DEF Back
<1>10. m.pre \in 1..MaxWindow
  <2>1. Back(x) > 0 /\ Back(x) \in Nat
    BY <1>7, ArrivedFacts
  <2> DEFINE b == Back(x)
  <2>2. b > 0 /\ b \in Nat /\ b <= m.pre
    BY <1>9, <2>1
  <2> HIDE DEF b
  <2> QED
    BY <1>3, <2>2, WindowAssumption
<1>11. x \in Accounted \/ x \in proc.batch
  BY <1>1, <1>2, <1>7, <1>9, <1>10 DEF PreSound, PreDrained
<1>12. proc.batch \subseteq 1..counter
  BY <1>1 DEF Typed, HandSound, FiringPcs
<1> QED
  BY <1>11, <1>12, OfferFacts DEF InsertFlushed, Typed

LEMMA CapturedNext ==
  Typed /\ PreSound /\ PreWindowCaptured /\ [IngestNext]_ingestVars
    => PreSound' /\ PreWindowCaptured'
<1> SUFFICES ASSUME Typed, PreSound, PreWindowCaptured, IngestNext
             PROVE  PreSound' /\ PreWindowCaptured'
  <2>1. CASE UNCHANGED ingestVars
    <3>1. /\ UNCHANGED <<counter, held, departed, content, preBuf, arrivals, preCap,
                         shortTo, proc, fires, refused>>
      BY <2>1 DEF ingestVars, vars, storeVars, preVars, historyVars
    <3>2. Logs' = Logs /\ Arrived' = Arrived
      BY <3>1 DEF Arrived, Logs, IsLog, Buffered, InHand
    <3>3. NewestInHand => NewestInHand'
      BY <3>1, <3>2 DEF NewestInHand, InHand
    <3>4. \A x : Back(x)' = Back(x)
      BY <3>2 DEF Back
    <3>5. PreSound => PreSound'
      BY <3>1, <3>2, <3>3, <3>4 DEF PreSound, PreTypes, PreReach, InReach, PreDrained, Accounted,
         OnTheWay
    <3>6. PreWindowCaptured => PreWindowCaptured'
      BY <3>1, <3>2 DEF PreWindowCaptured, StoredEver, LogsBetween
    <3> QED
      BY <3>5, <3>6
  <2> QED
    BY <2>1
<1>1. PreSound'
  BY PreNext
<1>2. Accounted \subseteq Accounted' /\ Numbering /\ Typed'
  BY AccountedGrows, NumberingKept, TypedNext
<1>3. counter \in Nat /\ \A x \in 1..counter : x \in Logs' <=> x \in Logs
  <2>1. counter \in Nat
    BY DEF Typed, StoreTyped
  <2> QED
    BY <1>2, <2>1 DEF Numbering, Logs, IsLog
<1>4. ASSUME NEW f \in fires', NEW x \in Logs', x < f.seq,
             Cardinality(LogsBetween(x - 1, f.seq - 1)') <= f.pre, x > shortTo'[f.pre]
      PROVE  x \in Accounted'
  <2>1. CASE f \in fires
    <3>1. f.seq \in Nat /\ f.seq <= counter /\ f.pre \in 0..MaxWindow
      BY <2>1, FiringFacts DEF Typed, RecordsTyped, Firings, Windows
    <3>2. x \in Nat /\ x \in 1..counter
      BY <1>2, <1>3, <1>4, <3>1 DEF Logs, Numbering
    <3>3. x \in Logs
      BY <1>3, <3>2
    <3>4. LogsBetween(x - 1, f.seq - 1)' = LogsBetween(x - 1, f.seq - 1)
      <4>1. \A y \in Logs' : y \in 1..counter'
        BY DEF Logs
      <4>2. \A y \in Logs : y \in 1..counter
        BY DEF Logs
      <4>3. \A y \in Logs' : y <= f.seq - 1 => y \in Logs
        BY <1>2, <1>3, <3>1, <4>1 DEF Numbering
      <4>4. \A y \in Logs : y \in Logs'
        BY <1>3, <4>2
      <4> QED
        BY <4>3, <4>4 DEF LogsBetween
    <3>5. f.pre \in 1..MaxWindow
      <4>1. x \in LogsBetween(x - 1, f.seq - 1)
        BY <1>4, <3>1, <3>2, <3>3 DEF LogsBetween
      <4>2. LogsBetween(x - 1, f.seq - 1) \in SUBSET (1..counter)
        BY DEF LogsBetween, Logs
      <4>3. Cardinality(LogsBetween(x - 1, f.seq - 1)) \in Nat \ {0}
        BY <1>3, <4>1, <4>2, NumbersFinite, FS_EmptySet
      <4>4. Cardinality(LogsBetween(x - 1, f.seq - 1)) <= f.pre
        BY <1>4, <3>4
      <4> DEFINE k == Cardinality(LogsBetween(x - 1, f.seq - 1))
      <4> HIDE DEF k
      <4>5. k \in Nat \ {0} /\ k <= f.pre
        BY <4>3, <4>4 DEF k
      <4> QED
        BY <3>1, <4>5, WindowAssumption
    <3>6. x > shortTo[f.pre]
      BY <1>4, <2>1, <3>3, <3>5, ShortKept
    <3>7. StoredEver(x) \/ x \in refused
      BY <1>4, <2>1, <3>3, <3>4, <3>6 DEF PreWindowCaptured
    <3> QED
      BY <1>2, <3>7 DEF StoredEver, Accounted
  <2>2. CASE f \notin fires
    <3>1. InsertFlushed
      BY <2>2, FiresGrow
    <3>2. f \in NewFires
      BY <2>2, <3>1 DEF InsertFlushed
    <3>3. UNCHANGED <<content, counter, shortTo>>
      BY <3>1 DEF InsertFlushed, Offer, preVars
    <3>4. Logs' = Logs
      BY <3>3 DEF Logs, IsLog
    <3>5. LogsBetween(x - 1, f.seq - 1)' = LogsBetween(x - 1, f.seq - 1)
      BY <3>4 DEF LogsBetween
    <3> QED
      BY <1>4, <3>1, <3>2, <3>3, <3>4, <3>5, CapturedInsert
  <2> QED
    BY <2>1, <2>2
<1>5. PreWindowCaptured'
  BY <1>4 DEF PreWindowCaptured, StoredEver, Accounted, LogsBetween
<1> QED
  BY <1>1, <1>5

LEMMA CapturedInit == IngestInit => PreSound /\ PreWindowCaptured
<1> SUFFICES ASSUME IngestInit PROVE PreSound /\ PreWindowCaptured
  OBVIOUS
<1>1. /\ proc.pc = "idle" /\ fires = {} /\ counter = 0 /\ arrivals = 0
      /\ preCap = DomainPre /\ DOMAIN preBuf = {} /\ shortTo = [n \in 1..MaxWindow |-> 0]
  BY DEF IngestInit, Init, IdleProc
<1>2. DomainPre \in Nat
  BY TypedInit, DomainPreTyped DEF Typed
<1>3. Arrived = {}
  BY <1>1 DEF Arrived, Logs
<1>4. PreSound
  BY <1>1, <1>2, <1>3 DEF PreSound, NewestInHand, InHand, PreTypes, PreReach, PreDrained
<1>5. PreWindowCaptured
  BY <1>1 DEF PreWindowCaptured
<1> QED
  BY <1>4, <1>5

(* A firing keeps its promise backwards: the pre_window log records before *)
(* the match that arrived while the buffer was large enough for them were  *)
(* stored, or a floor refused them, whichever session drained the buffer   *)
(* first and however often requests resize it meanwhile (log_processor.rs, *)
(* flush; resync_pre_buffer).                                              *)
THEOREM PreWindowsAreCaptured == IngestSpec => []PreWindowCaptured
<1>1. IngestSpec => [](PreSound /\ PreWindowCaptured)
  BY CapturedInit, CapturedNext, IngestTyped, PTL DEF IngestSpec
<1> QED
  BY <1>1, PTL
-----------------------------------------------------------------------------
(* A trigger is silenced by its own window only. *)

(* The record in hand has yet to be counted against the debounces of s. *)
Uncounted(s) == Unserved(s) \/ (proc.pc = "evaluate" /\ proc.s = s)

(* The last record that was. *)
CountedTo(s) ==
  IF ~InHand THEN counter ELSE IF Uncounted(s) THEN proc.seq - 1 ELSE proc.seq

(* The window f opened has n records or more left. *)
Silences(f, n) ==
  /\ n + Reach(f, CountedTo(f.s)) <= f.post
  /\ InHand /\ Uncounted(f.s) => f.seq < proc.seq

(* A debounce of n is owed to a firing of the trigger, or to one being made. *)
Silenced(s, i, n) ==
  \/ \E f \in fires : f.s = s /\ f.id = i /\ Silences(f, n)
  \/ /\ proc.pc \in FiringBegun
     /\ proc.s = s
     /\ \E m \in proc.fired : m.id = i /\ n <= m.post

(* The debounces of s count: it is bound, or the record in hand is still   *)
(* to be counted against it, and no reset_post_windows is outstanding.     *)
Watched(s) ==
  /\ rpc[s] # "reset"
  /\ s \in bound \/ (proc.pc # "snapshot" /\ Uncounted(s))

Quiet(s) ==
  Watched(s) =>
    \A i \in DOMAIN trig[s] : trig[s][i].left > 0 => Silenced(s, i, trig[s][i].left)

SilenceSound == TodoSound /\ NewestInHand /\ \A s \in Sessions : Quiet(s)

(* A step that counts nothing against s. *)
CountKept(s) ==
  /\ fires \subseteq fires'
  /\ \A f \in fires : f.s = s => Reach(f, CountedTo(s))' = Reach(f, CountedTo(s))
  /\ InHand' /\ Uncounted(s)' =>
       \/ InHand /\ Uncounted(s) /\ proc'.seq = proc.seq
       \/ \A f \in fires : f.seq < proc'.seq
  /\ proc.pc \in FiringBegun /\ proc.s = s =>
       proc'.pc \in FiringBegun /\ proc'.s = s /\ proc'.fired = proc.fired

(* The debounces of s are as they were, or shorter. *)
NotLonger(s) ==
  \A i \in DOMAIN trig'[s] :
    \/ trig'[s][i].left = 0
    \/ i \in DOMAIN trig[s] /\ trig'[s][i].left <= trig[s][i].left

LEMMA LeftTyped ==
  ASSUME SessionsTyped
  PROVE  \A s \in Sessions : \A i \in DOMAIN trig[s] : trig[s][i].left \in Nat
BY WindowAssumption DEF SessionsTyped, Triggers, Windows

LEMMA QuietKept ==
  ASSUME Typed, Typed', NEW s \in Sessions, Quiet(s), CountKept(s), NotLonger(s),
         Watched(s)' => Watched(s)
  PROVE  Quiet(s)'
<1> SUFFICES ASSUME Watched(s)', NEW i \in DOMAIN trig'[s], trig'[s][i].left > 0
             PROVE  Silenced(s, i, trig[s][i].left)'
  BY DEF Quiet
<1> DEFINE n == trig[s][i].left
           k == trig'[s][i].left
<1>1. k \in Nat /\ k > 0
  BY WindowAssumption DEF Typed, SessionsTyped, Triggers, Windows
<1>2. i \in DOMAIN trig[s] /\ k <= n
  BY <1>1 DEF NotLonger
<1>3. n \in Nat /\ n > 0
  <2>1. n \in Nat
    BY <1>2, LeftTyped DEF Typed
  <2> HIDE DEF n, k
  <2> QED
    BY <1>1, <1>2, <2>1
<1>4. Silenced(s, i, n)
  BY <1>2, <1>3 DEF Quiet
<1> HIDE DEF n, k
<1>5. ASSUME NEW f \in fires, f.s = s, f.id = i, Silences(f, n)
      PROVE  Silenced(s, i, trig[s][i].left)'
  <2>1. /\ n + Reach(f, CountedTo(s)) <= f.post
        /\ InHand /\ Uncounted(s) => f.seq < proc.seq
    BY <1>5 DEF Silences
  <2>2. Reach(f, CountedTo(s))' = Reach(f, CountedTo(s)) /\ f \in fires'
    BY <1>5 DEF CountKept
  <2>3. InHand' /\ Uncounted(s)' => f.seq < proc'.seq
    BY <1>5, <2>1 DEF CountKept
  <2>4. Reach(f, CountedTo(s)) \in Nat /\ f.post \in Nat
    BY <1>5, ReachFacts, FiringFacts
  <2>5. k + Reach(f, CountedTo(s))' <= f.post
    <3> DEFINE r == Reach(f, CountedTo(s))
               q == Reach(f, CountedTo(s))'
    <3>1. r \in Nat /\ q = r /\ n + r <= f.post /\ f.post \in Nat
      BY <2>1, <2>2, <2>4
    <3> HIDE DEF r, q
    <3>2. k + q <= f.post
      BY <1>1, <1>2, <1>3, <3>1
    <3> QED
      BY <3>2 DEF q
  <2>6. Silences(f, trig[s][i].left)'
    BY <1>5, <2>3, <2>5 DEF Silences, k
  <2> QED
    BY <1>5, <2>2, <2>6 DEF Silenced
<1>6. ASSUME proc.pc \in FiringBegun, proc.s = s, NEW m \in proc.fired, m.id = i, n <= m.post
      PROVE  Silenced(s, i, trig[s][i].left)'
  <2>1. proc'.pc \in FiringBegun /\ proc'.s = s /\ m \in proc'.fired
    BY <1>6 DEF CountKept
  <2>2. m.post \in Nat
    <3>1. proc.pc \in FiringPcs
      BY <1>6 DEF FiringBegun, FiringPcs
    <3> QED
      BY <1>6, <3>1, HandFields, WindowAssumption DEF Matching, Hits, Windows, Typed,
         RecordsTyped
  <2>3. k <= m.post
    BY <1>1, <1>2, <1>3, <1>6, <2>2
  <2> QED
    BY <1>6, <2>1, <2>3 DEF Silenced, k
<1>7. \/ \E f \in fires : f.s = s /\ f.id = i /\ Silences(f, n)
      \/ /\ proc.pc \in FiringBegun
         /\ proc.s = s
         /\ \E m \in proc.fired : m.id = i /\ n <= m.post
  BY <1>4 DEF Silenced
<1> QED
  BY <1>5, <1>6, <1>7

(* A step beside the processor. *)
LEMMA CountAside ==
  ASSUME Typed, IngestNext, proc' = proc, fires' = fires,
         SpanNumbered \/ UNCHANGED <<counter, content>>, NEW s
  PROVE  CountKept(s)
<1>1. (Uncounted(s)' <=> Uncounted(s)) /\ (InHand' <=> InHand)
  BY DEF Uncounted, Unserved, InHand
<1>2. counter \in Nat /\ (InHand => proc.seq \in 1..counter)
      /\ \A x \in Logs : x \in 1..counter
  BY DEF Typed, HandSound, StoreTyped, Logs
<1>3. Logs' = Logs
  BY NumberingKept DEF Logs, IsLog
<1>4. counter' = counter \/ counter' = counter + 1
  BY AssignFacts DEF SpanNumbered, Typed
<1>5. ASSUME NEW f \in fires PROVE Reach(f, CountedTo(s))' = Reach(f, CountedTo(s))
  <2>1. CASE InHand
    <3>1. CountedTo(s)' = CountedTo(s)
      BY <1>1, <2>1 DEF CountedTo
    <3> QED
      BY <1>3, <3>1 DEF Reach, LogsBetween
  <2>2. CASE ~InHand
    <3>1. CountedTo(s) = counter /\ CountedTo(s)' = counter'
      BY <1>1, <2>2 DEF CountedTo
    <3>2. {x \in Logs : x > f.seq /\ x <= counter'} = {x \in Logs : x > f.seq /\ x <= counter}
      BY <1>2, <1>4
    <3> QED
      BY <1>3, <3>1, <3>2 DEF Reach, LogsBetween
  <2> QED
    BY <2>1, <2>2
<1> QED
  BY <1>1, <1>5 DEF CountKept

(* A step on the record in hand that counts nothing against s. *)
LEMMA CountMove ==
  ASSUME Typed, UNCHANGED <<counter, content>>, InHand, InHand', proc'.seq = proc.seq,
         fires \subseteq fires', NEW s, Uncounted(s)' <=> Uncounted(s),
         proc.pc \in FiringBegun /\ proc.s = s =>
           proc'.pc \in FiringBegun /\ proc'.s = s /\ proc'.fired = proc.fired
  PROVE  CountKept(s)
<1>1. CountedTo(s)' = CountedTo(s)
  BY DEF CountedTo
<1>2. ASSUME NEW f \in fires PROVE Reach(f, CountedTo(s))' = Reach(f, CountedTo(s))
  BY <1>1 DEF Reach, LogsBetween, Logs, IsLog
<1> QED
  BY <1>2 DEF CountKept

LEMMA QuietReceive ==
  ASSUME Typed, Typed', NEW c \in Contents, Receive(c), NEW s \in Sessions, Quiet(s)
  PROVE  Quiet(s)'
<1>1. /\ ~InHand /\ InHand' /\ proc.pc = "idle" /\ proc'.pc = "snapshot"
      /\ proc'.seq = counter + 1 /\ counter' = counter + 1 /\ counter \in Nat
      /\ UNCHANGED <<bound, trig, rpc, fires>>
  BY AssignFacts DEF Receive, InHand, IdleProc, Typed, StoreTyped, sessionVars, historyVars
<1>2. Uncounted(s)' /\ CountedTo(s) = counter /\ CountedTo(s)' = counter
  BY <1>1 DEF Uncounted, Unserved, CountedTo
<1>3. Numbering
  BY <1>1 DEF Receive, Numbering, Typed, RecordsTyped
<1>4. ASSUME NEW f \in fires
      PROVE  Reach(f, CountedTo(s))' = Reach(f, CountedTo(s)) /\ f.seq < proc'.seq
  <2>1. Reach(f, CountedTo(s))' = Cardinality({x \in Logs' : x > f.seq /\ x <= counter})
    BY <1>2 DEF Reach, LogsBetween
  <2>2. {x \in Logs' : x > f.seq /\ x <= counter} = LogsBetween(f.seq, counter)
    BY <1>1, <1>3 DEF LogsBetween, Logs, IsLog, Numbering
  <2>3. f.seq < proc'.seq
    BY <1>1, FiringFacts
  <2> QED
    BY <1>2, <2>1, <2>2, <2>3 DEF Reach
<1>5. CountKept(s)
  BY <1>1, <1>4 DEF CountKept, FiringBegun
<1>6. NotLonger(s)
  BY <1>1, LeftTyped DEF NotLonger, Typed
<1>7. Watched(s)' => Watched(s)
  BY <1>1 DEF Watched
<1> QED
  BY <1>5, <1>6, <1>7, QuietKept

LEMMA QuietSnapshot ==
  ASSUME Typed, Typed', Snapshot, NEW s \in Sessions, Quiet(s)
  PROVE  Quiet(s)'
<1>1. /\ InHand /\ InHand' /\ proc'.seq = proc.seq /\ proc.pc = "snapshot"
      /\ proc'.pc = "sessions"
      /\ proc'.todo = {[s |-> r, pre |-> SessionPre(r)] : r \in bound}
  BY SnapshotTyped DEF Snapshot, InHand
<1>2. UNCHANGED <<content, counter, bound, trig, rpc, fires>>
  BY NoOfferFacts DEF Snapshot, sessionVars, historyVars, Typed
<1>3. Uncounted(s) /\ (Uncounted(s)' <=> s \in bound)
  <2> DEFINE S == {[s |-> r, pre |-> SessionPre(r)] : r \in bound}
  <2>1. (\E e \in S : e.s = s) <=> s \in bound
    <3>1. ASSUME NEW e \in S, e.s = s PROVE s \in bound
      BY <3>1
    <3>2. ASSUME s \in bound PROVE \E e \in S : e.s = s
      <4>1. [s |-> s, pre |-> SessionPre(s)] \in S
        BY <3>2
      <4> QED
        BY <4>1
    <3> QED
      BY <3>1, <3>2
  <2> HIDE DEF S
  <2>2. proc'.todo = S
    BY <1>1 DEF S
  <2> QED
    BY <1>1, <2>1, <2>2 DEF Uncounted, Unserved, TodoPcs, FiringPcs
<1>4. CASE ~Watched(s)'
  BY <1>4 DEF Quiet
<1>5. CASE Watched(s)'
  <2>1. s \in bound /\ Watched(s)
    BY <1>1, <1>2, <1>3, <1>5 DEF Watched
  <2>2. CountKept(s)
    BY <1>1, <1>2, <1>3, <2>1, CountMove DEF FiringBegun
  <2>3. NotLonger(s)
    BY <1>2, LeftTyped DEF NotLonger, Typed
  <2> QED
    BY <2>1, <2>2, <2>3, QuietKept
<1> QED
  BY <1>4, <1>5

(* Steps on the record in hand that leave what is still to be counted. *)
LEMMA QuietMove ==
  ASSUME Typed, Typed', TodoSound, NEW s \in Sessions, Quiet(s),
         \/ \E e \in Waiting : Decrement(e)
         \/ StoreMatch \/ Drain \/ CopyTrace \/ Extend \/ Notify \/ ProcResync \/ Buffer
         \/ Decide \/ Observe
  PROVE  Quiet(s)'
<1>1. UNCHANGED <<content, bound, rpc, fires>>
  BY DEF Decrement, StoreMatch, Drain, CopyTrace, Extend, Notify, ProcResync, Buffer,
     Decide, Observe, sessionVars, historyVars
<1>2. counter' = counter
  BY NoOfferFacts DEF Decrement, StoreMatch, Drain, CopyTrace, Extend, Notify, ProcResync,
     Buffer, Decide, Observe, Offer, Typed
<1> DEFINE Moves ==
             /\ InHand /\ InHand' /\ proc'.seq = proc.seq
             /\ proc.pc # "snapshot" /\ proc'.pc # "snapshot"
             /\ Uncounted(s)' <=> Uncounted(s)
             /\ proc.pc \in FiringBegun =>
                  proc'.pc \in FiringBegun /\ proc'.s = proc.s /\ proc'.fired = proc.fired
<1>3. Moves
  <2>1. ASSUME NEW e \in Waiting, Decrement(e) PROVE Moves
    <3>1. /\ proc.pc = "sessions" /\ e \in proc.todo /\ proc'.pc = "evaluate"
          /\ proc'.todo = proc.todo \ {e} /\ proc'.s = e.s /\ proc'.seq = proc.seq
      BY <2>1, DecrementTyped DEF Decrement
    <3> QED
      BY <3>1 DEF InHand, Uncounted, Unserved, TodoPcs, FiringPcs, FiringBegun
  <2>2. CASE StoreMatch \/ Drain \/ CopyTrace
    <3>1. /\ SameMatch /\ proc.pc \in {"match", "drain", "copy"}
          /\ proc'.pc \in {"drain", "copy", "insert"}
      BY <2>2, StoreMatchTyped, DrainTyped, CopyTraceTyped DEF StoreMatch, Drain, CopyTrace
    <3> QED
      BY <3>1 DEF SameMatch, InHand, Uncounted, Unserved, TodoPcs, FiringPcs, FiringBegun
  <2>3. CASE Extend \/ Notify \/ ProcResync \/ Buffer
    <3>1. /\ proc.pc \in {"extend", "notify", "resync", "sessions"}
          /\ proc'.pc \in {"notify", "resync", "sessions", "store"}
          /\ proc'.todo = proc.todo /\ proc'.seq = proc.seq
      BY <2>3, ExtendTyped, NotifyTyped, ProcResyncTyped, BufferTyped
         DEF Extend, Notify, ProcResync, Buffer, SameMatch
    <3> QED
      BY <3>1 DEF InHand, Uncounted, Unserved, TodoPcs, FiringPcs, FiringBegun
  <2>4. CASE Decide \/ Observe
    <3>1. /\ proc.pc \in {"store", "observe"} /\ proc'.pc \in {"observe", "append"}
          /\ proc'.seq = proc.seq
      BY <2>4, DecideTyped, ObserveTyped DEF Decide, Observe
    <3>2. proc.pc = "store" => proc.todo = {}
      BY DEF TodoSound
    <3> QED
      BY <3>1, <3>2 DEF InHand, Uncounted, Unserved, TodoPcs, FiringPcs, FiringBegun
  <2> QED
    BY <2>1, <2>2, <2>3, <2>4
<1>4. CountKept(s)
  BY <1>1, <1>2, <1>3, CountMove
<1>5. Watched(s)' => Watched(s)
  BY <1>1, <1>3 DEF Watched
<1>6. NotLonger(s)
  <2>1. CASE Notify
    <3>1. /\ proc.s \in Sessions /\ DOMAIN trig = Sessions
          /\ trig' = [trig EXCEPT ![proc.s] =
                       [i \in DOMAIN trig[proc.s] \ Spent(proc.fired) |-> trig[proc.s][i]]]
      BY <2>1, HandFields DEF Notify, Matching, FiringPcs, Typed, RecordsTyped, SessionsTyped
    <3>2. \A i \in DOMAIN trig'[s] : i \in DOMAIN trig[s] /\ trig'[s][i] = trig[s][i]
      BY <3>1
    <3> QED
      BY <3>2, LeftTyped DEF NotLonger, Typed
  <2>2. CASE ~Notify
    <3>1. trig' = trig
      BY <2>2 DEF Decrement, StoreMatch, Drain, CopyTrace, Extend, ProcResync, Buffer,
         Decide, Observe, sessionVars
    <3> QED
      BY <3>1, LeftTyped DEF NotLonger, Typed
  <2> QED
    BY <2>1, <2>2
<1> QED
  BY <1>4, <1>5, <1>6, QuietKept

(* Done with a record, everything up to the newest is counted. *)
LEMMA QuietDone ==
  ASSUME Typed, Typed', TodoSound, NewestInHand, StoreUnconditionally \/ AppendDecided,
         NEW s \in Sessions, Quiet(s)
  PROVE  Quiet(s)'
<1>1. /\ UNCHANGED <<content, bound, rpc, trig, fires>>
      /\ InHand /\ proc.pc \in {"store", "append"}
  BY DEF StoreUnconditionally, AppendDecided, sessionVars, InHand
<1>2. counter' = counter
  BY NoOfferFacts DEF StoreUnconditionally, AppendDecided, Offer, Typed
<1>3. proc'.pc = "idle" /\ ~InHand'
  BY StoreUnconditionallyTyped, AppendDecidedTyped DEF InHand
<1>4. ~Uncounted(s) /\ ~Uncounted(s)'
  BY <1>1, <1>3 DEF Uncounted, Unserved, TodoPcs, FiringPcs, TodoSound
<1>5. CountedTo(s) = proc.seq /\ CountedTo(s)' = counter
  BY <1>1, <1>2, <1>3, <1>4 DEF CountedTo
<1>6. ASSUME NEW f \in fires PROVE Reach(f, CountedTo(s))' = Reach(f, CountedTo(s))
  <2>1. Logs' = Logs /\ \A x \in Logs : x <= counter /\ x <= proc.seq
    BY <1>1, <1>2 DEF Logs, IsLog, NewestInHand, Typed, StoreTyped
  <2>2. LogsBetween(f.seq, proc.seq) = {x \in Logs : x > f.seq}
    BY <2>1 DEF LogsBetween
  <2>3. LogsBetween(f.seq, CountedTo(s))' = {x \in Logs : x > f.seq}
    BY <1>5, <2>1 DEF LogsBetween
  <2> QED
    BY <1>5, <2>2, <2>3 DEF Reach
<1>7. CountKept(s)
  BY <1>1, <1>3, <1>6 DEF CountKept, FiringBegun
<1>8. NotLonger(s) /\ (Watched(s)' => Watched(s))
  BY <1>1, <1>4, LeftTyped DEF NotLonger, Watched, Typed
<1> QED
  BY <1>7, <1>8, QuietKept

(* What evaluate does with each trigger of the session it is at. *)
LEMMA EvaluateFacts ==
  ASSUME Typed, Evaluate
  PROVE  LET s == proc.s
             c == content[proc.seq]
         IN  /\ s \in Sessions
             /\ \A r \in Sessions \ {s} : trig'[r] = trig[r]
             /\ DOMAIN trig'[s] = DOMAIN trig[s]
             /\ \A i \in DOMAIN trig[s] :
                  /\ trig[s][i].left \in Nat
                  /\ trig[s][i].left > 0 => trig'[s][i].left = trig[s][i].left - 1
                  /\ trig[s][i].left = 0 /\ c \in trig[s][i].on =>
                       /\ trig'[s][i].left = trig[s][i].post
                       /\ proc'.pc = "match" /\ proc'.s = s
                       /\ \E m \in proc'.fired : m.id = i /\ m.post = trig[s][i].post
                  /\ trig[s][i].left = 0 /\ c \notin trig[s][i].on => trig'[s][i].left = 0
<1> DEFINE s == proc.s
           c == content[proc.seq]
           hit == {i \in DOMAIN trig[s] : Matches(s, trig[s][i], c)}
           T == [i \in DOMAIN trig[s] |-> Counted(s, trig[s][i], c)]
           F == {Fired(i, trig[s][i]) : i \in hit}
<1>1. s \in Sessions /\ DOMAIN trig = Sessions
  BY HandFields DEF Evaluate, Evaluating, Typed, RecordsTyped, SessionsTyped
<1>2. /\ trig' = [trig EXCEPT ![s] = T]
      /\ proc' = IF hit = {}
                   THEN [pc |-> "sessions", seq |-> proc.seq, todo |-> proc.todo,
                         any |-> proc.any]
                   ELSE [pc |-> "match", seq |-> proc.seq, todo |-> proc.todo,
                         any |-> proc.any, s |-> s, batch |-> {}, fired |-> F]
  BY DEF Evaluate
<1>3. /\ \A r \in Sessions \ {s} : trig'[r] = trig[r]
      /\ DOMAIN trig'[s] = DOMAIN trig[s]
      /\ \A i \in DOMAIN trig[s] : trig'[s][i] = Counted(s, trig[s][i], c)
  BY <1>1, <1>2
<1>4. ASSUME NEW i \in DOMAIN trig[s]
      PROVE  /\ trig[s][i].left \in Nat
             /\ trig[s][i].left > 0 => trig'[s][i].left = trig[s][i].left - 1
             /\ trig[s][i].left = 0 /\ c \in trig[s][i].on =>
                  /\ trig'[s][i].left = trig[s][i].post
                  /\ proc'.pc = "match" /\ proc'.s = s
                  /\ \E m \in proc'.fired : m.id = i /\ m.post = trig[s][i].post
             /\ trig[s][i].left = 0 /\ c \notin trig[s][i].on => trig'[s][i].left = 0
  <2> DEFINE t == trig[s][i]
             n == IF t.left > 0 THEN t.left - 1
                  ELSE IF Matches(s, t, c) THEN t.post ELSE 0
  <2>1. t \in Triggers /\ t.left \in Nat /\ t.post \in Nat
    BY <1>1, <1>4, WindowAssumption DEF Typed, SessionsTyped, Triggers, Windows
  <2>2. trig'[s][i] = [t EXCEPT !.left = n]
    BY <1>3, <1>4, <2>1 DEF Counted, Triggers
  <2>3. trig'[s][i].left = n
    <3> HIDE DEF n
    <3> QED
      BY <2>1, <2>2 DEF Triggers
  <2>4. t.left = 0 => (Matches(s, t, c) <=> c \in t.on)
    BY <2>1 DEF Matches, Debounced
  <2>5. ASSUME t.left = 0, c \in t.on
        PROVE  /\ proc'.pc = "match" /\ proc'.s = s
               /\ \E m \in proc'.fired : m.id = i /\ m.post = t.post
    <3>1. i \in hit /\ Fired(i, t) \in F
      BY <1>4, <2>4, <2>5
    <3>2. Fired(i, t).id = i /\ Fired(i, t).post = t.post
      BY DEF Fired
    <3> HIDE DEF hit, F, t
    <3>3. proc'.pc = "match" /\ proc'.s = s /\ proc'.fired = F
      BY <1>2, <3>1
    <3> QED
      BY <3>1, <3>2, <3>3
  <2> HIDE DEF t
  <2>6. /\ t.left > 0 => n = t.left - 1
        /\ t.left = 0 /\ c \in t.on => n = t.post
        /\ t.left = 0 /\ c \notin t.on => n = 0
    BY <2>1, <2>4
  <2> HIDE DEF n, s, c
  <2>7. /\ t.left \in Nat
        /\ t.left > 0 => trig'[s][i].left = t.left - 1
        /\ t.left = 0 /\ c \in t.on => trig'[s][i].left = t.post
        /\ t.left = 0 /\ c \notin t.on => trig'[s][i].left = 0
    BY <2>1, <2>3, <2>6
  <2> QED
    BY <2>5, <2>7 DEF t
<1> HIDE DEF T, F, hit
<1> QED
  BY <1>1, <1>3, <1>4

(* The debounces of the session evaluated count the record in hand, and    *)
(* what matched is being fired.                                            *)
LEMMA QuietEvaluate ==
  ASSUME Typed, Typed', TodoSound, Evaluate, NEW s \in Sessions, Quiet(s)
  PROVE  Quiet(s)'
<1>1. /\ proc.pc = "evaluate" /\ InHand /\ InHand' /\ proc'.seq = proc.seq
      /\ proc'.todo = proc.todo /\ proc'.pc \in {"sessions", "match"}
      /\ proc.seq \in Nat
  BY EvaluateTyped DEF Evaluate, InHand, Typed, HandSound, StoreTyped
<1>2. UNCHANGED <<content, counter, bound, rpc, fires>>
  BY NoOfferFacts DEF Evaluate, historyVars, Typed
<1>3. CASE s # proc.s
  <2>1. Uncounted(s)' <=> Uncounted(s)
    BY <1>1, <1>3 DEF Uncounted, Unserved, TodoPcs, FiringPcs
  <2>2. CountKept(s)
    BY <1>1, <1>2, <2>1, CountMove DEF FiringBegun
  <2>3. trig'[s] = trig[s]
    BY <1>3, EvaluateFacts
  <2>4. NotLonger(s) /\ (Watched(s)' => Watched(s))
    BY <1>1, <1>2, <2>1, <2>3, LeftTyped DEF NotLonger, Watched, Typed
  <2> QED
    BY <2>2, <2>4, QuietKept
<1>4. CASE s = proc.s
  <2>1. Uncounted(s) /\ ~Uncounted(s)'
    <3>1. \A e \in proc.todo : e.s # s
      BY <1>1, <1>4 DEF TodoSound
    <3> QED
      BY <1>1, <1>4, <3>1 DEF Uncounted, Unserved, TodoPcs, FiringPcs
  <2>2. CountedTo(s) = proc.seq - 1 /\ CountedTo(s)' = proc.seq
    BY <1>1, <2>1 DEF CountedTo
  <2>3. ASSUME Watched(s)', NEW i \in DOMAIN trig'[s], trig'[s][i].left > 0
        PROVE  Silenced(s, i, trig[s][i].left)'
    <3>1. Watched(s)
      BY <1>1, <1>2, <2>1, <2>3 DEF Watched
    <3>2. i \in DOMAIN trig[s] /\ trig[s][i].left \in Nat
      BY <1>4, <2>3, EvaluateFacts
    <3>3. CASE trig[s][i].left > 0
      <4> DEFINE n == trig[s][i].left
                 k == trig'[s][i].left
      <4>1. k = n - 1 /\ n \in Nat
        BY <1>4, <3>2, <3>3, EvaluateFacts
      <4>2. PICK f \in fires : f.s = s /\ f.id = i /\ Silences(f, n)
        BY <1>1, <3>1, <3>2, <3>3 DEF Quiet, Silenced, FiringBegun
      <4> HIDE DEF n, k
      <4>3. n + Reach(f, proc.seq - 1) <= f.post /\ f.seq < proc.seq
        BY <1>1, <2>1, <2>2, <4>2 DEF Silences
      <4>4. f.seq \in Nat /\ f.post \in Nat /\ f \in fires'
        BY <1>2, <4>2, FiringFacts
      <4>5. Reach(f, proc.seq) = Reach(f, proc.seq - 1) + 1 /\ Reach(f, proc.seq - 1) \in Nat
        BY <1>1, <4>3, <4>4, ReachStep, ReachFacts
      <4>6. Reach(f, CountedTo(s))' = Reach(f, proc.seq)
        BY <1>2, <2>2 DEF Reach, LogsBetween, Logs, IsLog
      <4>7. k + Reach(f, proc.seq) <= f.post
        BY <4>1, <4>3, <4>4, <4>5
      <4>8. k + Reach(f, CountedTo(s))' <= f.post
        BY <4>6, <4>7
      <4>9. Silences(f, trig[s][i].left)'
        BY <2>1, <4>2, <4>8 DEF Silences, k
      <4> QED
        BY <4>2, <4>4, <4>9 DEF Silenced
    <3>4. CASE trig[s][i].left = 0
      <4>1. content[proc.seq] \in trig[s][i].on
        BY <1>4, <2>3, <3>2, <3>4, EvaluateFacts
      <4>2. /\ trig'[s][i].left = trig[s][i].post /\ proc'.pc = "match" /\ proc'.s = s
            /\ \E m \in proc'.fired : m.id = i /\ m.post = trig[s][i].post
        BY <1>4, <3>2, <3>4, <4>1, EvaluateFacts
      <4>3. trig[s][i].post \in Nat
        BY <3>2, WindowAssumption DEF Typed, SessionsTyped, Triggers, Windows
      <4>4. \E m \in proc'.fired : m.id = i /\ trig'[s][i].left <= m.post
        BY <4>2, <4>3
      <4> QED
        BY <4>2, <4>4 DEF Silenced, FiringBegun
    <3> QED
      BY <3>2, <3>3, <3>4
  <2> QED
    BY <2>3 DEF Quiet
<1> QED
  BY <1>3, <1>4

(* The firing being made is made. *)
LEMMA QuietInsert ==
  ASSUME Typed, Typed', TodoSound, InsertFlushed, NEW s \in Sessions, Quiet(s)
  PROVE  Quiet(s)'
<1>1. /\ InHand /\ InHand' /\ proc.pc = "insert" /\ proc'.seq = proc.seq
      /\ proc'.pc = "extend" /\ proc'.todo = proc.todo /\ proc'.s = proc.s
      /\ proc.seq \in Nat /\ proc \in Matching
  BY InsertFlushedTyped DEF InsertFlushed, InHand, SameMatch, Matching
<1>2. UNCHANGED <<content, counter, bound, rpc, trig>> /\ fires' = fires \cup NewFires
  BY DEF InsertFlushed, Offer, sessionVars
<1>3. Uncounted(s)' <=> Uncounted(s)
  BY <1>1 DEF Uncounted, Unserved, TodoPcs, FiringPcs
<1>4. NotLonger(s) /\ (Watched(s)' => Watched(s))
  BY <1>1, <1>2, <1>3, LeftTyped DEF NotLonger, Watched, Typed
<1>5. CASE s # proc.s
  <2>1. CountKept(s)
    BY <1>1, <1>2, <1>3, <1>5, CountMove
  <2> QED
    BY <1>4, <2>1, QuietKept
<1>6. CASE s = proc.s
  <2>1. ~Uncounted(s) /\ ~Uncounted(s)'
    <3>1. \A e \in proc.todo : e.s # s
      BY <1>1, <1>6 DEF TodoSound, FiringPcs
    <3> QED
      BY <1>1, <1>6, <1>3, <3>1 DEF Uncounted, Unserved, TodoPcs, FiringPcs
  <2>2. CountedTo(s) = proc.seq /\ CountedTo(s)' = proc.seq
    BY <1>1, <2>1 DEF CountedTo
  <2>3. \A f : Reach(f, CountedTo(s))' = Reach(f, proc.seq)
    BY <1>2, <2>2 DEF Reach, LogsBetween, Logs, IsLog
  <2>4. ASSUME Watched(s)', NEW i \in DOMAIN trig'[s], trig'[s][i].left > 0
        PROVE  Silenced(s, i, trig[s][i].left)'
    <3> DEFINE n == trig[s][i].left
    <3>1. n \in Nat /\ Silenced(s, i, n) /\ trig'[s][i].left = n
      BY <1>2, <1>4, <2>4, LeftTyped DEF Quiet, Typed
    <3> HIDE DEF n
    <3>2. ASSUME NEW f \in fires', f.s = s, f.id = i, n + Reach(f, proc.seq) <= f.post
          PROVE  Silenced(s, i, trig[s][i].left)'
      <4>1. n + Reach(f, CountedTo(s))' <= f.post
        BY <2>3, <3>2
      <4>2. Silences(f, trig[s][i].left)'
        BY <2>1, <3>1, <3>2, <4>1 DEF Silences
      <4> QED
        BY <3>2, <4>2 DEF Silenced
    <3>3. ASSUME NEW f \in fires, f.s = s, f.id = i, Silences(f, n)
          PROVE  f \in fires' /\ n + Reach(f, proc.seq) <= f.post
      BY <1>2, <2>2, <3>3 DEF Silences
    <3>4. ASSUME NEW m \in proc.fired, m.id = i, n <= m.post
          PROVE  \E f \in fires' : f.s = s /\ f.id = i /\ n + Reach(f, proc.seq) <= f.post
      <4> DEFINE g == [s |-> proc.s, id |-> m.id, seq |-> proc.seq, pre |-> m.pre,
                       post |-> m.post, oneshot |-> m.oneshot]
      <4>1. g \in fires' /\ g.s = s /\ g.id = i /\ g.seq = proc.seq /\ g.post = m.post
        BY <1>2, <1>6, <3>4 DEF NewFires
      <4> HIDE DEF g
      <4>2. Reach(g, proc.seq) = 0
        <5>1. \A x \in Logs : x \in Nat
          BY DEF Logs, Typed, StoreTyped
        <5>2. LogsBetween(g.seq, proc.seq) = {}
          BY <1>1, <4>1, <5>1 DEF LogsBetween
        <5> QED
          BY <5>2, FS_EmptySet DEF Reach
      <4>3. n + Reach(g, proc.seq) <= g.post
        BY <3>1, <3>4, <4>1, <4>2
      <4> QED
        BY <4>1, <4>3
    <3>5. \/ \E f \in fires : f.s = s /\ f.id = i /\ Silences(f, n)
          \/ \E m \in proc.fired : m.id = i /\ n <= m.post
      BY <3>1 DEF Silenced
    <3> QED
      BY <3>2, <3>3, <3>4, <3>5
  <2> QED
    BY <2>4 DEF Quiet
<1> QED
  BY <1>5, <1>6

(* A session moved to another domain is not watched until its debounces    *)
(* are reset, and no request lengthens one.                                *)
LEMMA QuietRequest ==
  ASSUME Typed, Typed', IngestNext, NEW r \in Sessions,
         \/ FilterRequest(r) \/ TriggerRequest(r) \/ SetDomain(r)
         \/ ResetWindows(r) \/ SyncBuffer(r),
         NEW s \in Sessions, Quiet(s)
  PROVE  Quiet(s)'
<1>1. UNCHANGED <<proc, content, fires>> /\ NoOffer
  BY DEF FilterRequest, TriggerRequest, AddFilter, RemoveFilter, EditFilter, AddTrigger,
     EditTrigger, RemoveTrigger, Request, SetDomain, ResetWindows, SyncBuffer, historyVars
<1>2. counter' = counter
  BY <1>1, NoOfferFacts DEF Typed
<1>3. CountKept(s)
  BY <1>1, <1>2, CountAside
<1>4. (Uncounted(s)' <=> Uncounted(s)) /\ DOMAIN trig = Sessions
      /\ rpc \in [Sessions -> {"none", "reset", "sync"}]
  BY <1>1 DEF Uncounted, Unserved, Typed, SessionsTyped
<1>5. ASSUME NotLonger(s), Watched(s)' => Watched(s) PROVE Quiet(s)'
  BY <1>3, <1>5, QuietKept
<1>6. ASSUME trig'[s] = trig[s] PROVE NotLonger(s)
  BY <1>6, LeftTyped DEF NotLonger, Typed
<1>7. CASE FilterRequest(r)
  <2>1. UNCHANGED <<bound, trig>> /\ (rpc' = rpc \/ rpc' = [rpc EXCEPT ![r] = Pending(r)])
        /\ rpc[r] = "none"
    BY <1>7 DEF FilterRequest, AddFilter, RemoveFilter, EditFilter, Request
  <2>2. Watched(s)' => Watched(s)
    BY <1>1, <1>4, <2>1 DEF Watched
  <2> QED
    BY <1>5, <1>6, <2>1, <2>2
<1>8. CASE TriggerRequest(r)
  <2>1. bound' = bound /\ rpc' = [rpc EXCEPT ![r] = Pending(r)] /\ rpc[r] = "none"
    BY <1>8, TriggerRequestFacts
  <2>2. Watched(s)' => Watched(s)
    BY <1>1, <1>4, <2>1 DEF Watched
  <2>3. NotLonger(s)
    <3>1. PICK T : Retriggered(r, T)
      BY <1>8, TriggerRequestFacts
    <3>2. CASE s # r
      BY <1>4, <1>6, <3>1, <3>2 DEF Retriggered
    <3>3. CASE s = r
      <4>1. trig'[s] = T
        BY <1>4, <3>1, <3>3 DEF Retriggered
      <4> QED
        BY <3>1, <3>3, <4>1 DEF Retriggered, NotLonger
    <3> QED
      BY <3>2, <3>3
  <2> QED
    BY <1>5, <2>2, <2>3
<1>9. CASE SetDomain(r)
  <2>1. /\ trig' = trig /\ rpc' = [rpc EXCEPT ![r] = "reset"]
        /\ \A x \in Sessions \ {r} : x \in bound' <=> x \in bound
    BY <1>9, SetDomainTyped DEF SetDomain
  <2>2. Watched(s)' => Watched(s)
    BY <1>1, <1>4, <2>1 DEF Watched
  <2> QED
    BY <1>5, <1>6, <2>1, <2>2
<1>10. CASE ResetWindows(r)
  <2> DEFINE T == [i \in DOMAIN trig[r] |-> [trig[r][i] EXCEPT !.left = 0]]
  <2>1. /\ trig' = [trig EXCEPT ![r] = T] /\ rpc' = [rpc EXCEPT ![r] = "sync"]
        /\ bound' = bound
    BY <1>10 DEF ResetWindows
  <2>2. CASE s = r
    <3>1. trig'[s] = T
      BY <1>4, <2>1, <2>2
    <3>2. \A i \in DOMAIN T : T[i].left = 0
      BY DEF Typed, SessionsTyped, Triggers
    <3> HIDE DEF T
    <3>3. \A i \in DOMAIN trig'[s] : ~(trig'[s][i].left > 0)
      BY <3>1, <3>2
    <3> QED
      BY <3>3 DEF Quiet
  <2>3. CASE s # r
    <3>1. trig'[s] = trig[s] /\ rpc'[s] = rpc[s]
      BY <1>4, <2>1, <2>3
    <3>2. Watched(s)' => Watched(s)
      BY <1>1, <1>4, <2>1, <3>1 DEF Watched
    <3> QED
      BY <1>5, <1>6, <3>1, <3>2
  <2> QED
    BY <2>2, <2>3
<1>11. CASE SyncBuffer(r)
  <2>1. UNCHANGED <<bound, trig>> /\ rpc' = [rpc EXCEPT ![r] = "none"] /\ rpc[r] = "sync"
    BY <1>11 DEF SyncBuffer
  <2>2. Watched(s)' => Watched(s)
    BY <1>1, <1>4, <2>1 DEF Watched
  <2> QED
    BY <1>5, <1>6, <2>1, <2>2
<1> QED
  BY <1>7, <1>8, <1>9, <1>10, <1>11

LEMMA SilenceNext == Typed /\ SilenceSound /\ [IngestNext]_ingestVars => SilenceSound'
<1> SUFFICES ASSUME Typed, SilenceSound, IngestNext PROVE SilenceSound'
  <2>1. CASE UNCHANGED ingestVars
    <3>1. UNCHANGED <<counter, content, bound, trig, rpc, proc, fires>>
      BY <2>1 DEF ingestVars, vars, sessionVars, historyVars
    <3>2. TodoSound /\ NewestInHand => TodoSound' /\ NewestInHand'
      BY <3>1 DEF TodoSound, NewestInHand, InHand, Logs, IsLog
    <3>3. ASSUME NEW s \in Sessions, Quiet(s) PROVE Quiet(s)'
      <4>1. Logs' = Logs /\ (InHand' <=> InHand)
        BY <3>1 DEF Logs, IsLog, InHand
      <4>2. \A r : (Uncounted(r)' <=> Uncounted(r)) /\ CountedTo(r)' = CountedTo(r)
        BY <3>1, <4>1 DEF Uncounted, Unserved, CountedTo
      <4>3. \A f, n : Silences(f, n)' <=> Silences(f, n)
        BY <3>1, <4>1, <4>2 DEF Silences, Reach, LogsBetween
      <4>4. \A i, n : Silenced(s, i, n)' <=> Silenced(s, i, n)
        BY <3>1, <4>3 DEF Silenced
      <4>5. Watched(s)' <=> Watched(s)
        BY <3>1, <4>2 DEF Watched
      <4> QED
        BY <3>1, <3>3, <4>4, <4>5 DEF Quiet
    <3> QED
      BY <3>2, <3>3 DEF SilenceSound
  <2> QED
    BY <2>1
<1>1. TodoSound' /\ NewestInHand' /\ Typed'
  BY TodoNext, NewestNext, TypedNext DEF SilenceSound
<1>2. TodoSound /\ NewestInHand
  BY DEF SilenceSound
<1>3. ASSUME NEW s \in Sessions PROVE Quiet(s)'
  <2>1. Quiet(s)
    BY DEF SilenceSound
  <2>2. CASE \/ \E c \in Contents : Receive(c)
             \/ Snapshot \/ Evaluate \/ InsertFlushed
    BY <1>1, <1>2, <2>1, <2>2, QuietReceive, QuietSnapshot, QuietEvaluate, QuietInsert
  <2>3. CASE \/ \E e \in Waiting : Decrement(e)
             \/ StoreMatch \/ Drain \/ CopyTrace \/ Extend \/ Notify \/ ProcResync
             \/ Buffer \/ Decide \/ Observe
    BY <1>1, <1>2, <2>1, <2>3, QuietMove
  <2>4. CASE StoreUnconditionally \/ AppendDecided
    BY <1>1, <1>2, <2>1, <2>4, QuietDone
  <2>5. CASE \E r \in Sessions : \/ FilterRequest(r) \/ TriggerRequest(r) \/ SetDomain(r)
                                 \/ ResetWindows(r) \/ SyncBuffer(r)
    BY <1>1, <2>1, <2>5, QuietRequest
  <2>6. CASE SpanNumbered \/ ClearLogs \/ ExportStep
    <3>1. UNCHANGED <<proc, bound, trig, rpc, fires>>
      BY <2>6 DEF SpanNumbered, ClearLogs, ExportStep, ExportQuery, ExportRange, ExportGrade,
         sessionVars, historyVars
    <3>2. SpanNumbered \/ UNCHANGED <<counter, content>>
      BY <2>6, ClearFacts, NoOfferFacts DEF ClearLogs, ExportStep, ExportQuery, ExportRange,
         ExportGrade, Typed
    <3>3. CountKept(s)
      BY <3>1, <3>2, CountAside
    <3>4. NotLonger(s) /\ (Watched(s)' => Watched(s))
      BY <3>1, LeftTyped DEF NotLonger, Watched, Uncounted, Unserved, Typed
    <3> QED
      BY <1>1, <2>1, <3>3, <3>4, QuietKept
  <2> QED
    BY <2>2, <2>3, <2>4, <2>5, <2>6, StepKinds
<1> QED
  BY <1>1, <1>3 DEF SilenceSound

LEMMA SilenceInit == IngestInit => SilenceSound
<1> SUFFICES ASSUME IngestInit PROVE SilenceSound
  OBVIOUS
<1>1. proc.pc = "idle" /\ trig = InitTriggers
  BY DEF IngestInit, IdleProc
<1>2. TodoSound /\ NewestInHand
  BY <1>1 DEF TodoSound, TodoPcs, FiringPcs, NewestInHand, InHand
<1>3. \A s \in Sessions : \A i \in DOMAIN trig[s] : ~(trig[s][i].left > 0)
  BY <1>1, SetupAssumption
<1> QED
  BY <1>2, <1>3 DEF SilenceSound, Quiet

(* A trigger is silenced by its own window only: a record that matches it  *)
(* while no firing of its own is in reach fires it, whatever the session's *)
(* other triggers, edits and moves between domains (TriggerManager::       *)
(* evaluate, edit and reset_post_windows).                                 *)
THEOREM SilencedByOwnWindow == IngestSpec => OwnWindowOnly
<1> DEFINE Fires(i) == proc'.pc = "match" /\ \E m \in proc'.fired : m.id = i
           Own == (proc.pc = "evaluate" /\ proc'.pc # "evaluate" /\ rpc[proc.s] # "reset") =>
                    \A i \in DOMAIN trig[proc.s] :
                      (/\ content[proc.seq] \in trig[proc.s][i].on
                       /\ \A f \in fires :
                            (f.s = proc.s /\ f.id = i)
                              => Cardinality(LogsBetween(f.seq, proc.seq)) > f.post)
                        => proc'.pc = "match" /\ \E m \in proc'.fired : m.id = i
<1>1. ASSUME Typed, SilenceSound, IngestNext PROVE Own
  <2> SUFFICES ASSUME proc.pc = "evaluate", proc'.pc # "evaluate", rpc[proc.s] # "reset",
                      NEW i \in DOMAIN trig[proc.s],
                      content[proc.seq] \in trig[proc.s][i].on,
                      \A f \in fires : (f.s = proc.s /\ f.id = i) => Reach(f, proc.seq) > f.post
               PROVE  Fires(i)
    BY DEF Reach
  <2>1. Evaluate
    <3>1. CASE Snapshot \/ (\E e \in Waiting : Decrement(e)) \/ StoreMatch \/ Drain
               \/ CopyTrace \/ InsertFlushed \/ Extend \/ Notify \/ ProcResync \/ Buffer
               \/ Decide \/ Observe \/ StoreUnconditionally \/ AppendDecided
               \/ (\E c \in Contents : Receive(c))
      BY <3>1 DEF Snapshot, Decrement, StoreMatch, Drain, CopyTrace, InsertFlushed, Extend,
         Notify, ProcResync, Buffer, Decide, Observe, StoreUnconditionally, AppendDecided,
         Receive, IdleProc
    <3>2. CASE SpanNumbered \/ ClearLogs \/ ExportStep
               \/ \E s \in Sessions : \/ FilterRequest(s) \/ TriggerRequest(s) \/ SetDomain(s)
                                      \/ ResetWindows(s) \/ SyncBuffer(s)
      BY <3>2, ZenonT(60) DEF SpanNumbered, ClearLogs, ExportStep, ExportQuery, ExportRange, ExportGrade,
         FilterRequest, TriggerRequest, AddFilter, RemoveFilter, EditFilter, AddTrigger,
         EditTrigger, RemoveTrigger, Request, SetDomain, ResetWindows, SyncBuffer
    <3> QED
      BY <1>1, <3>1, <3>2, StepKinds
  <2>2. /\ proc.s \in Sessions /\ trig[proc.s][i].left \in Nat
        /\ trig[proc.s][i].left = 0 => Fires(i)
    BY <1>1, <2>1, EvaluateFacts
  <2>3. ASSUME trig[proc.s][i].left > 0 PROVE FALSE
    <3> DEFINE n == trig[proc.s][i].left
    <3>1. InHand /\ Uncounted(proc.s) /\ CountedTo(proc.s) = proc.seq - 1 /\ Watched(proc.s)
      BY DEF InHand, Uncounted, CountedTo, Watched
    <3>2. PICK f \in fires : f.s = proc.s /\ f.id = i /\ Silences(f, n)
      BY <1>1, <2>2, <2>3, <3>1 DEF SilenceSound, Quiet, Silenced, FiringBegun
    <3>3. n + Reach(f, proc.seq - 1) <= f.post /\ f.seq < proc.seq
      BY <3>1, <3>2 DEF Silences
    <3>4. f.seq \in Nat /\ f.post \in Nat
      BY <1>1, <3>2, FiringFacts
    <3>5. Reach(f, proc.seq) = Reach(f, proc.seq - 1) + 1 /\ Reach(f, proc.seq - 1) \in Nat
      BY <1>1, <3>1, <3>3, <3>4, ReachStep, ReachFacts
    <3>6. Reach(f, proc.seq) > f.post /\ n \in Nat /\ n > 0
      BY <2>2, <2>3, <3>2
    <3> HIDE DEF n
    <3> QED
      BY <3>3, <3>4, <3>5, <3>6
  <2> QED
    BY <2>2, <2>3
<1>2. ASSUME Typed, SilenceSound, [IngestNext]_ingestVars PROVE [Own]_ingestVars
  BY <1>1, <1>2
<1>3. IngestSpec => []SilenceSound
  BY SilenceInit, SilenceNext, IngestTyped, PTL DEF IngestSpec
<1> QED
  BY <1>2, <1>3, IngestTyped, PTL DEF IngestSpec, OwnWindowOnly
=============================================================================
