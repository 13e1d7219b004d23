------------------------------- MODULE Cursors -------------------------------
(***************************************************************************)
(* A read-and-advance cursor over the log store: BookmarkStore             *)
(* (store/bookmarks.rs), InMemoryStore::cursor_read, cursor_read_trace and *)
(* CursorRead::advance_for (store/memory.rs), and the handlers that join   *)
(* them (daemon/rpc_handler.rs).  One cursor name of one domain.           *)
(*                                                                         *)
(* A cursor read is four separate steps, each atomic under its own lock:   *)
(* the store's late counter is read, the cursor's position is taken (and   *)
(* the cursor created when absent), the store is queried, the advance is   *)
(* committed.  Records are stored, evicted and cleared between them, and   *)
(* other sessions sweep or remove the bookmark between them.               *)
(***************************************************************************)
EXTENDS LogStore

CONSTANTS
  Readers,      \* reads of the cursor that may overlap
  MaxCount,     \* bound: the count of one read
  Match,        \* the records the cursor's filter selects
  ReadKinds,    \* "counted": logs.recent and logs.export; "trace": traces.logs
  MaxOps,       \* bound: bookmarks.add, remove and clear calls
  SpanFloors    \* bound: the values the span store's loss floor takes

ASSUME CountAssumption == MaxCount \in Nat

VARIABLES
  bm,          \* the bookmark, or NoBookmark
  evictedName, \* recently_evicted holds the cursor's name
  spanLost,    \* lost_below of the domain's span store
  rd,          \* per reader: where its read is, and what it took
  ops,         \* bookmarks.add, remove and clear calls so far
  delivered,   \* history: records committed reads of this cursor returned
  twice,       \* history: records they returned more than once
  crossed,     \* history: a read begun under another floor moved this cursor
  lateLost,    \* history: late records reported lost to this cursor, or
               \* NotCounted once a read that reports no loss moved it
  owed,        \* history: late records stored behind the cursor's position
  lateEver     \* history: the late number of every record ever stored late

cursorVars == <<bm, evictedName, rd, ops, delivered, twice, crossed, lateLost,
                owed>>
allVars == <<vars, spanLost, cursorVars, lateEver>>

NoBookmark == [seq |-> -1, mark |-> -1, floor |-> -1]
NotCounted == -1
Idle == [pc |-> "idle"]
-----------------------------------------------------------------------------
(* The store's side of a read, under one read lock. *)

(* What a walk that stops after n keeps: the first n by late number, or   *)
(* the first n by seq.                                                    *)
FirstLate(S, n) ==
  {s \in S : Cardinality({t \in S : lateNo[t] <= lateNo[s]}) <= n}

FirstNormal(S, n) == {s \in S : Cardinality({t \in S : t <= s}) <= n}

(* Late records numbered above a mark that are still held. *)
HeldLate(mark, upTo) ==
  {s \in DOMAIN lateNo : lateNo[s] > mark /\ lateNo[s] <= upTo}

(* Mutant of LateCandidates: the creation floor is forgotten. *)
LateCandidatesNoFloor(pos) ==
  {s \in HeldLate(pos.mark, lateCounter) : s <= pos.seq /\ s \in Match}

(* The late part: at or below the position, above the creation floor. *)
LateCandidates(pos) ==
  {s \in HeldLate(pos.mark, lateCounter) :
     s <= pos.seq /\ s > pos.floor /\ s \in Match}

(* The normal part: above the position. *)
NormalCandidates(pos) == {s \in held : s > pos.seq /\ s \in Match}

(* The late part was walked to its end, not cut by the budget. *)
LateExhausted(pos, ask) ==
  ask > 0 /\ Cardinality(LateCandidates(pos)) < ask

(* cursor_read(ask) of which the caller keeps the first keep records, in  *)
(* delivery order: late by number, then normal by seq.                    *)
KeptLate(pos, ask, keep) ==
  FirstLate(LateCandidates(pos), IF keep < ask THEN keep ELSE ask)

KeptNormal(pos, ask, keep) ==
  IF LateExhausted(pos, ask)
    THEN FirstNormal(NormalCandidates(pos),
                     (IF keep < ask THEN keep ELSE ask)
                       - Cardinality(LateCandidates(pos)))
    ELSE {}

Highest(S) == CHOOSE x \in S : \A y \in S : y <= x

(* Mutant of Advance: the mark moves to the late counter even when the    *)
(* late part was cut, passing late records the read did not keep.         *)
AdvanceMarkAlways(pos, exhausted, late, normal) ==
  [seq |-> IF exhausted THEN Highest({pos.seq} \cup normal) ELSE pos.seq,
   mark |-> Larger(lateCounter, pos.mark)]

(* Mutant of Advance: the mark stays where the read found it. *)
AdvanceSeqOnly(pos, exhausted, late, normal) ==
  [seq |-> Highest({pos.seq} \cup normal), mark |-> pos.mark]

(* advance_for: with every late candidate kept, the mark moves to the     *)
(* late counter and the position to the highest normal record kept;       *)
(* otherwise only the mark moves, to the last late record kept.           *)
Advance(pos, exhausted, late, normal) ==
  IF exhausted /\ late = LateCandidates(pos)
    THEN [seq |-> Highest({pos.seq} \cup normal),
          mark |-> Larger(lateCounter, pos.mark)]
    ELSE [seq |-> pos.seq,
          mark |-> IF late = {} THEN pos.mark
                   ELSE Highest({lateNo[s] : s \in late})]

(* Mutant of LostBetween: the records still held are not subtracted from  *)
(* the right range: one lost record goes unreported.                      *)
LostBetweenShort(mark0, mark1) ==
  LET gap == (mark1 - mark0) - Cardinality(HeldLate(mark0, mark1))
  IN  IF gap > 0 THEN gap - 1 ELSE 0

(* late_lost: numbers passed that no held record carries. *)
LostBetween(mark0, mark1) ==
  (mark1 - mark0) - Cardinality(HeldLate(mark0, mark1))
-----------------------------------------------------------------------------
(* Mutant of ShouldEvict: the mark itself, not the window after it. *)
ShouldEvictEarly(seq) == lostBelow > seq /\ spanLost > seq

(* should_evict: both stores lost records past the bookmark. *)
ShouldEvict(seq) == lostBelow > seq + 1 /\ spanLost > seq + 1

BookmarkInit ==
  /\ bm = NoBookmark
  /\ evictedName = FALSE
  /\ spanLost = 0
  /\ rd = [r \in Readers |-> Idle]
  /\ ops = 0
  /\ delivered = {}
  /\ twice = {}
  /\ crossed = FALSE
  /\ lateLost = 0
  /\ owed = {}
  /\ lateEver = [s \in {} |-> 0]

CursorInit == Init /\ BookmarkInit

(* History: the late records a step leaves at or below the position and  *)
(* above the mark are the cursor's to return or to report lost.           *)
Owe(before) ==
  owed' = before \cup {s \in DOMAIN lateNo' :
                          /\ bm' # NoBookmark
                          /\ s <= bm'.seq /\ s > bm'.floor
                          /\ lateNo'[s] > bm'.mark}

(* The store moves on: a record is numbered, stored, flushed or cleared. *)
StoreStep ==
  /\ \/ AssignSeq
     \/ \E batch \in SUBSET (1..counter) :
          batch \cap held = {} /\ batch # {} /\ InsertSorted(batch)
     \/ \E c \in Clients : ClearBegin(c)
     \/ \E c \in Clients : ClearEnd(c)
  /\ lateEver' = [s \in DOMAIN lateEver \cup DOMAIN lateNo' |->
                    IF s \in DOMAIN lateEver THEN lateEver[s] ELSE lateNo'[s]]
  /\ UNCHANGED <<spanLost, bm, evictedName, rd, ops, delivered, twice,
                 crossed, lateLost>>
  /\ Owe(owed)

(* The span store of the same domain evicts up to a span's number. *)
SpanEvict ==
  /\ \E n \in SpanFloors \cap (spanLost + 1..counter + 1) : spanLost' = n
  /\ UNCHANGED <<vars, cursorVars, lateEver>>

(* A cursor is born: nothing delivered to it yet. *)
Born(b) ==
  /\ bm' = b
  /\ delivered' = {}
  /\ twice' = {}
  /\ crossed' = FALSE
  /\ lateLost' = 0
  /\ owed' = {}

(* parse_and_resolve_filter reads the late counter before it resolves. *)
ReadMark(r) ==
  /\ rd[r] = Idle
  /\ rd' = [rd EXCEPT ![r] = [pc |-> "marked", mark |-> lateCounter]]
  /\ UNCHANGED <<vars, spanLost, bm, evictedName, ops, delivered, twice,
                 crossed, lateLost, owed, lateEver>>

(* cursor_read_and_advance_at, the cursor present. *)
Position(r) ==
  /\ rd[r].pc = "marked"
  /\ bm # NoBookmark
  /\ rd' = [rd EXCEPT ![r] = [pc |-> "positioned", pos |-> bm, seen |-> delivered,
                              crossed |-> crossed]]
  /\ UNCHANGED <<vars, spanLost, bm, evictedName, ops, delivered, twice,
                 crossed, lateLost, owed, lateEver>>

(* cursor_read_and_advance_at, the cursor absent: created at 0. *)
AutoCreate(r) ==
  /\ rd[r].pc = "marked"
  /\ bm = NoBookmark
  /\ Born([seq |-> 0, mark |-> rd[r].mark, floor |-> 0])
  /\ evictedName' = FALSE
  /\ rd' = [rd EXCEPT ![r] = [pc |-> "positioned", pos |-> bm', seen |-> {},
                              crossed |-> FALSE]]
  /\ UNCHANGED <<vars, spanLost, ops, lateEver>>

(* cursor_read for logs.recent (keeps all it asked for) and logs.export   *)
(* (asks one more than it keeps), and advance_for what is kept.           *)
Query(r, ask, keep) ==
  /\ "counted" \in ReadKinds
  /\ rd[r].pc = "positioned"
  /\ LET pos    == rd[r].pos
         late   == KeptLate(pos, ask, keep)
         normal == KeptNormal(pos, ask, keep)
         adv    == Advance(pos, LateExhausted(pos, ask), late, normal)
     IN  rd' = [rd EXCEPT ![r] =
                  [pc |-> "queried", pos |-> pos, seen |-> rd[r].seen,
                   crossed |-> rd[r].crossed, kept |-> late \cup normal,
                   adv |-> adv, lost |-> LostBetween(pos.mark, adv.mark)]]
  /\ UNCHANGED <<vars, spanLost, bm, evictedName, ops, delivered, twice,
                 crossed, lateLost, owed, lateEver>>

(* cursor_read_trace: the whole trace, no budget, no loss count. *)
QueryTrace(r) ==
  /\ "trace" \in ReadKinds
  /\ rd[r].pc = "positioned"
  /\ LET pos    == rd[r].pos
         late   == LateCandidates(pos)
         normal == NormalCandidates(pos)
     IN  rd' = [rd EXCEPT ![r] =
                  [pc |-> "queried", pos |-> pos, seen |-> rd[r].seen,
                   crossed |-> rd[r].crossed, kept |-> late \cup normal,
                   adv |-> Advance(pos, TRUE, late, normal), lost |-> NotCounted]]
  /\ UNCHANGED <<vars, spanLost, bm, evictedName, ops, delivered, twice,
                 crossed, lateLost, owed, lateEver>>

(* Mutant of CommitLands: the position the read started from is ignored. *)
CommitLandsAlways(q) == bm # NoBookmark

(* commit lands only over the position this read started from. *)
CommitLands(q) == bm # NoBookmark /\ bm.seq = q.pos.seq /\ bm.mark = q.pos.mark

(* An absent bookmark is put back only when the position moved. *)
CommitReinserts(q) == bm = NoBookmark /\ q.adv.seq # q.pos.seq

(* CursorCommit::commit, with its early return when nothing moved.  The   *)
(* reply counts as delivered to the cursor when the commit stands; a      *)
(* cursor put back goes on from what it had delivered when the read that  *)
(* puts it back took its position, and its account of late loss starts    *)
(* with that read.                                                        *)
Commit(r) ==
  /\ rd[r].pc = "queried"
  /\ UNCHANGED vars
  /\ LET q      == rd[r]
         moved  == q.adv.seq # q.pos.seq \/ q.adv.mark # q.pos.mark
         stands == moved /\ (CommitLands(q) \/ CommitReinserts(q))
         base   == IF bm = NoBookmark THEN q.seen ELSE delivered
         lost   == IF bm = NoBookmark THEN 0 ELSE lateLost
     IN  \/ /\ stands
            /\ bm' = [seq |-> q.adv.seq, mark |-> q.adv.mark,
                      floor |-> IF bm = NoBookmark THEN q.pos.floor ELSE bm.floor]
            /\ delivered' = base \cup q.kept
            /\ twice' = twice \cup (base \cap q.kept)
            /\ crossed' = IF bm = NoBookmark THEN q.crossed
                          ELSE crossed \/ bm.floor # q.pos.floor
            /\ lateLost' = IF NotCounted \in {lost, q.lost} THEN NotCounted
                           ELSE lost + q.lost
            /\ Owe(IF bm = NoBookmark THEN {} ELSE owed)
         \/ ~stands /\ UNCHANGED <<bm, delivered, twice, crossed, lateLost>> /\ Owe(owed)
  /\ rd' = [rd EXCEPT ![r] = Idle]
  /\ UNCHANGED <<spanLost, evictedName, ops, lateEver>>

(* Every bookmark whose data both stores lost leaves (any handler that    *)
(* sweeps: bookmarks.add and bookmarks.list of any session).              *)
Sweep ==
  /\ bm # NoBookmark
  /\ ShouldEvict(bm.seq)
  /\ bm' = NoBookmark
  /\ evictedName' = TRUE
  /\ UNCHANGED <<vars, spanLost, rd, ops, delivered, twice, crossed, lateLost,
                 owed, lateEver>>

(* bookmarks.remove of session/name, from any session. *)
Remove ==
  /\ bm # NoBookmark
  /\ ops < MaxOps
  /\ ops' = ops + 1
  /\ bm' = NoBookmark
  /\ UNCHANGED <<vars, spanLost, evictedName, rd, delivered, twice,
                 crossed, lateLost, owed, lateEver>>

(* clear_session: the eviction record goes with the bookmarks. *)
ClearSession ==
  /\ bm # NoBookmark \/ evictedName
  /\ ops < MaxOps
  /\ ops' = ops + 1
  /\ bm' = NoBookmark
  /\ evictedName' = FALSE
  /\ UNCHANGED <<vars, spanLost, rd, delivered, twice, crossed, lateLost,
                 owed, lateEver>>

(* bookmarks.add: the start position is taken first (the counter now, or  *)
(* the caller's start_seq), then the late counter, then the insert.       *)
AddStart(r) ==
  /\ rd[r] = Idle
  /\ ops < MaxOps
  /\ ops' = ops + 1
  /\ \E start \in 0..counter :
       rd' = [rd EXCEPT ![r] = [pc |-> "adding", seq |-> start]]
  /\ UNCHANGED <<vars, spanLost, bm, evictedName, delivered, twice, crossed,
                 lateLost, owed, lateEver>>

AddMark(r) ==
  /\ rd[r].pc = "adding"
  /\ rd' = [rd EXCEPT ![r] = [pc |-> "inserting", seq |-> rd[r].seq,
                              mark |-> lateCounter]]
  /\ UNCHANGED <<vars, spanLost, bm, evictedName, ops, delivered, twice,
                 crossed, lateLost, owed, lateEver>>

(* add_at: refused when the name is taken and replace is not set. *)
AddInsert(r, replace) ==
  /\ rd[r].pc = "inserting"
  /\ IF bm # NoBookmark /\ ~replace
       THEN UNCHANGED <<bm, delivered, twice, crossed, lateLost, owed>>
       ELSE Born([seq |-> rd[r].seq, mark |-> rd[r].mark, floor |-> rd[r].seq])
  /\ rd' = [rd EXCEPT ![r] = Idle]
  /\ UNCHANGED <<vars, spanLost, evictedName, ops, lateEver>>

ReaderStep(r) ==
  \/ ReadMark(r)
  \/ Position(r)
  \/ AutoCreate(r)
  \/ \E keep \in 0..MaxCount : \E more \in 0..1 : Query(r, keep + more, keep)
  \/ QueryTrace(r)
  \/ Commit(r)
  \/ AddStart(r)
  \/ AddMark(r)
  \/ \E replace \in BOOLEAN : AddInsert(r, replace)

CursorNext ==
  \/ StoreStep
  \/ SpanEvict
  \/ \E r \in Readers : ReaderStep(r)
  \/ Sweep
  \/ Remove
  \/ ClearSession

CursorSpec == CursorInit /\ [][CursorNext]_allVars
-----------------------------------------------------------------------------
(* A record a stored cursor may still return: above its position, or late *)
(* above its mark.                                                        *)
Ahead(s) ==
  \/ s > bm.seq
  \/ s \in DOMAIN lateNo /\ lateNo[s] > bm.mark

(* Exactly once, first half: reads that moved the cursor never return a   *)
(* record twice, however flushes, evictions, commits, replacements and    *)
(* sweeps interleave (advance_for; README "a cursor returns every stored  *)
(* record exactly once").                                                 *)
NoRecordTwice == twice = {}

(* Exactly once, second half: every held record the cursor's filter       *)
(* selects above its creation floor was delivered or is still ahead; no   *)
(* advance passes a record it did not return.  Excepted is a cursor moved *)
(* by a read that began under another floor: commit compares the position *)
(* and the mark, not the floor, so a replaced cursor may be taken for the *)
(* one the read began from.                                               *)
NoRecordSkipped ==
  (bm # NoBookmark /\ ~crossed) =>
    \A s \in held \cap Match : s > bm.floor => s \in delivered \/ Ahead(s)

(* Nothing at or below the position a cursor was created at is ever       *)
(* delivered through it, even when a flush stores it late afterwards      *)
(* (Bookmark::floor), with the same exception.                            *)
FloorRespected ==
  (bm # NoBookmark /\ ~crossed) => \A s \in delivered : s > bm.floor

(* The reads of one cursor return every record that stays once: none      *)
(* twice, none passed over by an advance, none at or below the position   *)
(* the cursor was created at (cursor_read, advance_for, commit).          *)
ExactlyOnce == NoRecordTwice /\ NoRecordSkipped /\ FloorRespected

(* Late loss is never hidden: a late record stored behind the cursor that *)
(* left before a read returned it is counted in a cursor_late_lost once   *)
(* the mark passes its number (LateTag, held_total), whatever reads,      *)
(* replacements and sweeps overlap.  Excepted are a cursor a read of a    *)
(* trace moved, which reports no loss, and one moved across floors.       *)
LateLossCounted ==
  (bm # NoBookmark /\ ~crossed /\ lateLost # NotCounted) =>
    Cardinality({s \in owed \cap departed \cap Match :
                   s \notin delivered /\ lateEver[s] <= bm.mark}) <= lateLost

(* A commit never moves a cursor backwards: a slow read cannot undo a     *)
(* faster one, or a replaced bookmark (CursorCommit::commit).             *)
NeverBackwards ==
  [][\A r \in Readers :
       (rd[r].pc = "queried" /\ rd'[r] = Idle /\ bm # NoBookmark)
         => bm'.seq >= bm.seq /\ bm'.mark >= bm.mark]_allVars

(* A sweep takes a bookmark only when a record after it really left the   *)
(* log store: a window that is still whole is never swept away.           *)
SweepOnlyLost ==
  [][(bm # NoBookmark /\ bm' = NoBookmark /\ ops' = ops)
       => \E d \in departed : d > bm.seq]_allVars

(* A commit never moves a cursor backwards, and a sweep takes a bookmark   *)
(* only when a record after it really left (commit, should_evict).         *)
BookmarksKept == NeverBackwards /\ SweepOnlyLost
=============================================================================
