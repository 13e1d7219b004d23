------------------------------- MODULE Throttle -------------------------------
(***************************************************************************)
(* The rate limit on log lines that something outside the broker can       *)
(* repeat at will, and the pause of an accept loop whose accepts fail      *)
(* (throttle.rs).                                                          *)
(*                                                                         *)
(* hit runs on any number of threads with no lock: each reads the clock,   *)
(* counts itself, reads the time of the last line, and claims the next one *)
(* by a compare-and-exchange on it.                                        *)
(***************************************************************************)
EXTENDS Integers, FiniteSets

CONSTANTS
  Threads,
  Interval,   \* INTERVAL_NANOS
  MaxClock,   \* bound: the clock
  MaxHits     \* bound: occurrences

ASSUME IntervalAssumption == Interval \in Nat \ {0}

Never == -1    \* i64::MIN: saturating_sub puts it an Interval or more back
Resting == [pc |-> "idle"]

VARIABLES
  clock,      \* the monotonic clock
  last,       \* time of the last line
  count,      \* occurrences
  hit,        \* per thread: where its call is
  lines,      \* history: the lines logged
  seen,       \* history: times of the occurrences whose call has ended
  failures,   \* failures_in_a_row of the accept loop
  sleeping,   \* it is in its pause
  unpaused    \* history: failed accepts since its last pause or success

throttleVars == <<clock, last, count, hit, lines, seen, failures, sleeping, unpaused>>

ThrottleInit ==
  /\ clock = 0
  /\ last = Never
  /\ count = 0
  /\ hit = [t \in Threads |-> Resting]
  /\ lines = {}
  /\ seen = {}
  /\ failures = 0
  /\ sleeping = FALSE
  /\ unpaused = 0

loopVars == <<failures, sleeping, unpaused>>

TickClock ==
  /\ clock < MaxClock
  /\ clock' = clock + 1
  /\ UNCHANGED <<last, count, hit, lines, seen, loopVars>>

(* hit: the clock is read before anything else. *)
Hit(t) ==
  /\ hit[t] = Resting
  /\ Cardinality({u \in Threads : hit[u] # Resting}) + count < MaxHits
  /\ hit' = [hit EXCEPT ![t] = [pc |-> "count", at |-> clock]]
  /\ UNCHANGED <<clock, last, count, lines, seen, loopVars>>

(* Mutant of Due: more than a minute, from the epoch. *)
DueAfterEpoch(at, since) == since # Never /\ at - since >= Interval
Due(at, since) == since = Never \/ at - since >= Interval

(* hit_at up to the exchange. *)
CountHit(t) ==
  /\ hit[t].pc = "count"
  /\ count' = count + 1
  /\ IF Due(hit[t].at, last)
       THEN /\ hit' = [hit EXCEPT ![t] = [pc |-> "claim", at |-> hit[t].at,
                                          last |-> last, n |-> count + 1]]
            /\ UNCHANGED seen
       ELSE /\ hit' = [hit EXCEPT ![t] = Resting]
            /\ seen' = seen \cup {hit[t].at}
  /\ UNCHANGED <<clock, last, lines, loopVars>>

(* Mutant of Claimed: a plain store, for whoever comes. *)
ClaimedAlways(t) == TRUE
(* compare_exchange *)
Claimed(t) == last = hit[t].last

ClaimLine(t) ==
  /\ hit[t].pc = "claim"
  /\ IF Claimed(t)
       THEN /\ last' = hit[t].at
            /\ lines' = lines \cup {[at |-> hit[t].at, when |-> clock, n |-> hit[t].n]}
       ELSE UNCHANGED <<last, lines>>
  /\ seen' = seen \cup {hit[t].at}
  /\ hit' = [hit EXCEPT ![t] = Resting]
  /\ UNCHANGED <<clock, count, loopVars>>
-----------------------------------------------------------------------------
(* An accept loop: pace_after_error, and PacedAccepts for tonic's. *)

AcceptOk ==
  /\ ~sleeping
  /\ failures' = 0
  /\ unpaused' = 0
  /\ UNCHANGED <<clock, last, count, hit, lines, seen, sleeping>>

(* Mutant of PerConnection: such an error counts as a success. *)
PerConnectionResets == failures' = 0 /\ UNCHANGED unpaused
(* is_per_connection: neither counted, logged nor paused for. *)
PerConnection == UNCHANGED <<failures, unpaused>>

AcceptReset ==
  /\ ~sleeping
  /\ PerConnection
  /\ UNCHANGED <<clock, last, count, hit, lines, seen, sleeping>>

AcceptFails ==
  /\ ~sleeping
  /\ failures < 3    \* bound: saturating_add in the code
  /\ failures' = failures + 1
  /\ unpaused' = unpaused + 1
  /\ sleeping' = (failures' > 1)
  /\ UNCHANGED <<clock, last, count, hit, lines, seen>>

PauseEnds ==
  /\ sleeping
  /\ sleeping' = FALSE
  /\ unpaused' = 0
  /\ UNCHANGED <<clock, last, count, hit, lines, seen, failures>>

ThrottleNext ==
  \/ TickClock
  \/ \E t \in Threads : Hit(t) \/ CountHit(t) \/ ClaimLine(t)
  \/ AcceptOk \/ AcceptReset \/ AcceptFails \/ PauseEnds

ThrottleSpec == ThrottleInit /\ [][ThrottleNext]_throttleVars
-----------------------------------------------------------------------------
(* At most one line a minute, whatever number of threads race for it       *)
(* (hit_at).                                                               *)
OneLineAMinute ==
  \A a, b \in lines : a # b => a.at - b.at >= Interval \/ b.at - a.at >= Interval

(* The log never goes quiet: an occurrence that logs nothing itself comes  *)
(* less than a minute after a line, or loses the race to one.              *)
NeverQuiet == \A s \in seen : \E l \in lines : l.when > s - Interval

(* A failure that repeats is never retried in a spin: of the accepts that  *)
(* fail with no success or pause between them there are at most two,       *)
(* however many resets of single connections come in between.              *)
NeverSpins == unpaused <= 2

(* One line a minute whatever threads race for it, never none, and a       *)
(* failing accept loop never spins (throttle.rs).                          *)
ThrottleHolds == OneLineAMinute /\ NeverQuiet /\ NeverSpins
=============================================================================
