------------------------------ MODULE MCIngest ------------------------------
(* Ingest on two small instances, one of which each behaviour is about:    *)
(* "evidence", one session whose filter, oneshot trigger and domain change *)
(* under exports, is the one the configuration gives; "triggers" has two   *)
(* sessions whose triggers overlap while they are edited.                  *)
EXTENDS Ingest

VARIABLE part

Plain == "plain"
Error == "error"
Rare == "rare"
Trigger(on, pre, post, oneshot) ==
  [on |-> on, pre |-> pre, post |-> post, oneshot |-> oneshot]

OnErrors == {Error, Rare}    \* a filter: errors only
EvidenceFilters == {OnErrors}
EvidenceInitFilters == [s \in Sessions |-> {OnErrors}]
(* Exports: everything, and the first two numbers. *)
EvidenceAsks == {<<0, 0>>, <<1, 2>>}
OnceDefs == {Trigger({Plain}, 0, 1, TRUE)}
Untriggered == [s \in Sessions |-> <<>>]

(* One session holds a wide and a narrow trigger, the other one of its own, *)
(* under a filter that keeps nothing plain; a request may install others.   *)
Busy == INSTANCE Ingest WITH
  Capacity <- 3, MaxSeq <- 4, Clients <- {}, Contents <- {Plain, Error, Rare},
  Traced <- {Rare}, Sessions <- {1, 2}, Filters <- {{Error}, OnErrors},
  TriggerIds <- {1, 2},
  TriggerDefs <- {Trigger({Error}, 2, 0, FALSE), Trigger({Error}, 1, 2, FALSE),
                  Trigger({Plain}, 2, 1, TRUE)},
  InitFilters <- [s \in {1, 2} |-> {{Error}}],
  InitTriggers <- <<<<Armed(Trigger({Error}, 1, 2, FALSE)),
                      Armed(Trigger({Rare}, 2, 0, FALSE))>>,
                    <<Armed(Trigger({Rare}, 1, 0, FALSE))>>>>,
  ExportAsks <- {}, MaxSpans <- 1, MaxOps <- 1, MaxRebinds <- 0

MCInit == \/ part = "evidence" /\ IngestInit
          \/ part = "triggers" /\ Busy!IngestInit

MCNext ==
  /\ \/ part = "evidence" /\ IngestNext
     \/ part = "triggers" /\ Busy!IngestNext
  /\ UNCHANGED part

MCSpec == MCInit /\ [][MCNext]_<<part, ingestVars>>
=============================================================================
