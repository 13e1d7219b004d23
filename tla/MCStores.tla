------------------------------ MODULE MCStores ------------------------------
(* The log store and its cursors on small instances.  Each behaviour is    *)
(* about one part, chosen at the start: the set-level store under two      *)
(* clients that clear it, two overlapping reads of a cursor, two that race *)
(* with sweeps, replacements and removals, one cursor's life with clears   *)
(* and reads of a trace, or the ring.  The other parts keep still, so      *)
(* their state spaces add up.                                              *)
EXTENDS Cursors, TLC

CONSTANTS c1, r1, r2, r3, t1, t2

VARIABLES part,
  ringCounter, traceOf, ring, ringAdmitFrom, ringReceived, ringStored,
  ringClearing, ringDeparted, ringClearedUpTo

Read == INSTANCE Cursors WITH Capacity <- 2, MaxReceived <- 4, Clients <- {},
          Readers <- {r1, r2}

Race == INSTANCE Cursors WITH Capacity <- 2, MaxSeq <- 3, MaxReceived <- 3, Clients <- {},
          Readers <- {r1, r2}, MaxCount <- 1, MaxOps <- 2, SpanFloors <- {3}

Life == INSTANCE Cursors WITH Capacity <- 2, MaxSeq <- 3, MaxReceived <- 3, Clients <- {c1},
          Readers <- {r3}, MaxCount <- 1, ReadKinds <- {"counted", "trace"},
          MaxOps <- 1, SpanFloors <- {3}

Ring == INSTANCE LogRing WITH MaxReceived <- 4, Clients <- {c1}, Traces <- {t1, t2}, NoTrace <- "none",
          MaxBatch <- 2, counter <- ringCounter, admitFrom <- ringAdmitFrom,
          received <- ringReceived, stored <- ringStored, clearing <- ringClearing,
          departed <- ringDeparted, clearedUpTo <- ringClearedUpTo

CursorState == <<spanLost, cursorVars, lateEver>>
RingState == <<ringCounter, traceOf, ring, ringAdmitFrom, ringReceived, ringStored,
               ringClearing, ringDeparted, ringClearedUpTo>>

MCInit ==
  /\ part \in {"store", "read", "race", "life", "ring"}
  /\ Init
  /\ BookmarkInit
  /\ Ring!Init

MCNext ==
  /\ \/ part = "store" /\ Next /\ UNCHANGED <<CursorState, RingState>>
     \/ part = "read" /\ Read!CursorNext /\ UNCHANGED RingState
     \/ part = "life" /\ Life!CursorNext /\ UNCHANGED RingState
     \/ part = "race" /\ Race!CursorNext /\ UNCHANGED RingState
     \/ part = "ring" /\ Ring!Next /\ UNCHANGED <<vars, CursorState>>
  /\ UNCHANGED part

mcVars == <<part, vars, CursorState, RingState>>
MCSpec == MCInit /\ [][MCNext]_mcVars

Symmetry == Permutations(Clients) \cup Permutations({r1, r2}) \cup Permutations({t1, t2})

(* The deque is strictly ascending, and the trace lists and the late maps  *)
(* name exactly what it holds (store/memory.rs, merge_locked, unindex).    *)
RingExact ==
  part = "ring" => Ring!RingAscending /\ Ring!TraceIndexExact /\ Ring!LateMapsConsistent

(* Ring!Store!Spec: every step of the ring is a step of the store it       *)
(* promises to be.  Both append paths, the batch merge and clear_through   *)
(* agree with it on what is kept, refused, evicted, numbered late and      *)
(* counted (append, insert_sorted, clear_through).                         *)
ImplementsStore ==
  Ring!Store!Init /\ [][part = "ring" => Ring!Store!Next]_(Ring!Store!vars)
=============================================================================
