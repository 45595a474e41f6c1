----------------------------- MODULE DeliveryRow -----------------------------
(***************************************************************************)
(* One row of the delivery table and what every statement of               *)
(* store.DeliveryRepo does to it (store/postgres/delivery.go; memstore and *)
(* mongo implement the same contract).                                     *)
(*                                                                         *)
(* lease_until and next_attempt_at are only ever compared with now, so the *)
(* row carries the distance to now instead: lease is lease_until - now,    *)
(* stopping at -1 (expired), and wait is next_attempt_at - now, stopping   *)
(* at 0 (due).  retry_gen is gen.                                          *)
(***************************************************************************)
EXTENDS Integers

CONSTANTS
  Workers,   \* the WorkerIDs of the sender replicas
  NoOwner,   \* the empty lease_owner
  LeaseFor   \* Config.LeaseFor in ticks

ASSUME RowAssumption ==
  /\ NoOwner \notin Workers
  /\ LeaseFor \in Nat

Waiting  == {"pending", "queued", "deferred"}
Terminal == {"sent", "failed", "bounced", "complained", "suppressed", "cancelled"}
Statuses == Waiting \cup {"leased"} \cup Terminal

Row == [status   : Statuses,
        owner    : Workers \cup {NoOwner},
        lease    : Int,
        wait     : Nat,
        attempts : Nat,
        gen      : Nat]

\* A result as Complete takes it.
Result == [status : Statuses, wait : Nat, inc : BOOLEAN]

\* InsertBatch: a row as ingest (pending) or the messages API (queued)
\* creates it.
NewRow(status) == [status |-> status, owner |-> NoOwner, lease |-> 0,
                   wait |-> 0, attempts |-> 0, gen |-> 0]

\* lease_owner = '', lease_until = NULL
Unleased(row) == [row EXCEPT !.owner = NoOwner, !.lease = 0]

\* Mutant: Claim also takes rows another replica has leased.
ClaimableLeasedToo(row, hasCampaign, inSet) ==
  /\ row.wait = 0
  /\ hasCampaign => inSet
  /\ row.status \in {"pending", "queued", "deferred", "leased"}

\* Claim's WHERE clause.  The sender always passes a list of running
\* campaigns; inSet says whether the row's campaign is on it.
Claimable(row, hasCampaign, inSet) ==
  /\ row.wait = 0
  /\ hasCampaign => inSet
  /\ \/ row.status \in {"queued", "deferred"}
     \/ row.status = "pending" /\ hasCampaign

Claimed(row, w) ==
  [row EXCEPT !.status = "leased", !.owner = w, !.lease = LeaseFor]

\* Mutant: Complete forgets the lease_owner condition.
CompleteUnguarded(row, w) == row.status \in Statuses /\ w \in Workers

\* Complete's compare-and-set is on lease_owner alone.
CompleteApplies(row, w) == row.owner = w

\* Complete: COALESCE keeps next_attempt_at for a result that names none.
Completed(row, res) ==
  [Unleased(row) EXCEPT
     !.status   = res.status,
     !.attempts = IF res.inc THEN @ + 1 ELSE @,
     !.wait     = IF res.status \in Waiting THEN res.wait ELSE @]

\* MarkSent's compare-and-set, and its effect: the lease is kept.
MarkSentApplies(row, w) == row.status = "leased" /\ row.owner = w

MarkedSent(row) == [row EXCEPT !.status = "sent"]

\* markTerminal: the asynchronous bounce and complaint transition.
MarkTerminalApplies(row) == row.status = "sent"

MarkedTerminal(row, to) == [Unleased(row) EXCEPT !.status = to]

\* Mutant: the reaper only looks at rows that were attempted before.
ExpiredIfAttempted(row) ==
  row.status = "leased" /\ row.lease < 0 /\ row.attempts > 0

\* ReleaseExpiredLeases: lease_until < now, strictly.
Expired(row) == row.status = "leased" /\ row.lease < 0

Released(row) ==
  [Unleased(row) EXCEPT
     !.status = IF row.attempts > 0 THEN "deferred" ELSE "queued",
     !.wait   = 0]

\* BulkTransition to cancelled: status only, the lease columns stay.
Cancellable(row) == row.status \in Waiting

BulkCancelled(row) == [row EXCEPT !.status = "cancelled"]

\* Requeue: queued again with retry_gen bumped and attempt_count kept.
Requeued(row) ==
  [Unleased(row) EXCEPT !.status = "queued", !.gen = @ + 1, !.wait = 0]

\* The passing of one tick.
Aged(row) ==
  [row EXCEPT !.lease = IF row.owner # NoOwner /\ @ >= 0 THEN @ - 1 ELSE @,
              !.wait  = IF @ > 0 THEN @ - 1 ELSE @]
=============================================================================
