------------------------- MODULE MCCampaignLifecycle -------------------------
(* Model values and operation mixes for TLC's runs of CampaignLifecycle. *)
EXTENDS CampaignLifecycle

CONSTANTS r1, c1, c2, s1, f1

OneRecipient == {r1}
OneCaller  == {c1}
TwoCallers == {c1, c2}
TheScheduler == {s1}
TheFinalizer == {f1}

\* Every operation of the API.
AllOperations == ApiOperations \cup {"retry_one"}

\* What it takes to get a campaign running, and a retry.
WithRetry == {"start", "ingest", "retry"}

\* The default filter, and any filter.
FailedRows == {"failed"}
AnyRows    == RowStatuses \ {"absent", "marked"}

\* No job outlives its lease.
NoRecipient == {}
=============================================================================
