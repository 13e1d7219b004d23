----------------------------- MODULE MCSessions -----------------------------
(* Sessions on two small instances, one of which each behaviour is about:  *)
(* "owners", the one the configuration gives, in which names, anonymous    *)
(* ids and domains change hands; and "notify", in which the notifications  *)
(* of one name reach its connections through a queue and two channels.     *)
EXTENDS Sessions

CONSTANT NotifyNames

VARIABLE part

Notify == INSTANCE Sessions WITH Names <- NotifyNames, AnonKeys <- {}, MaxQueue <- 2,
            EventBuffer <- 2, MaxEvents <- 2, MaxOps <- 2

mcVars == <<part, vars>>

MCInit == part \in {"owners", "notify"} /\ Init

MCNext ==
  /\ \/ part = "owners" /\ Next
     \/ part = "notify" /\ Notify!Next
  /\ UNCHANGED part

(* The sweep's task runs on its interval for as long as the daemon does. *)
MCSpec == MCInit /\ [][MCNext]_mcVars /\ WF_vars(SweepList) /\ WF_vars(Dispose)

(* The configured instance alone. *)
OwnersSpec == MCInit /\ part = "owners" /\ [][MCNext]_mcVars
=============================================================================
