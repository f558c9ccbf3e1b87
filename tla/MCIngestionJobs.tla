--------------------------- MODULE MCIngestionJobs ---------------------------
(* One kind is polled. *)
EXTENDS IngestionJobs, Routes

CONSTANT etimad

OneKind == <<etimad>>
\* What GET /ingestions/next-job runs in the application as it is declared.
NextJobRouted ==
    \E n \in 1..Len(IngestionController) :
        /\ IngestionController[n].h = "ingestion.claimNext"
        /\ Answering(IngestionController[n]) = IngestionController[n]
=============================================================================
