--------------------------- MODULE MCSendPipeline ---------------------------
(* Model values for TLC's runs of SendPipeline. *)
EXTENDS SendPipeline

CONSTANTS d1, w1, w2, t1, t2

OneRow == {d1}
TwoReplicas == {w1, w2}
TwoTickets  == {t1, t2}

\* The default filter of RetryCampaign, and one that names leased rows too.
Filters == {{"failed"}, {"failed", "leased", "sent"}}

Schedule == <<1>>
=============================================================================
