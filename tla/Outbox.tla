------------------------------- MODULE Outbox -------------------------------
(***************************************************************************)
(* The event outbox of one tenant (store/postgres/misc.go) and the two     *)
(* dispatchers the control leader runs on it (internal/control/outbox.go): *)
(* the fast one over active tenants and the sweep over all of them.        *)
(*                                                                         *)
(* Each round of a loop reads the clock once, before it walks the tenants  *)
(* (internal/control/loops.go), so the now a tick works with may be old;   *)
(* lag is by how much.  lease_until and next_attempt_at are kept as the    *)
(* distance to the real now, stopping at -MaxLag, past which no comparison *)
(* tells them apart.  Every dispatcher of a replica claims under one       *)
(* lease_owner and no statement compares it, so a row is leased or not.    *)
(***************************************************************************)
EXTENDS Integers, Sequences, FiniteSets

CONSTANTS
  Events,        \* the outbox rows
  Dispatchers,   \* the loops that dispatch: outbox and outbox-sweep
  Sweeps,        \* those that visit tenants without running campaigns too
  NoJob,
  OutboxLease,   \* cfg.outboxLease in ticks
  OutboxBackoff, \* cfg.outboxBackoff
  MaxAttempts,   \* cfg.outboxMaxAttempts
  MaxLag,        \* bound: how old a tick's now may be
  MaxAge,        \* bound: jobs older than this are due at once when they fail
  MaxFaults      \* bound: slow batches, lost calls, replays, changed settings

ASSUME OutboxAssumption ==
  /\ IsFiniteSet(Dispatchers)
  /\ Sweeps \subseteq Dispatchers
  /\ OutboxLease \in Nat
  /\ OutboxBackoff \in Seq(Nat)
  /\ MaxAttempts \in Nat \ {0}
  /\ MaxLag \in Nat
  /\ MaxAge \in Nat
  /\ MaxFaults \in Nat

VARIABLES
  rows,       \* the outbox table
  hand,       \* what each dispatcher has claimed and not settled yet
  wanted,     \* the events the tenant is subscribed to
  replaying,  \* ReplayEvent calls that passed their check
  faults,     \* how many faults the environment has left
  taken,      \* history: the sink took this event
  emits,      \* history: Emit calls of each event
  failures,   \* history: Emit calls that returned an error
  overdue,    \* history: claims over a lease that had run out
  resets,     \* history: replays
  retired     \* history: events settled because nobody wanted them

vars == <<rows, hand, wanted, replaying, faults, taken, emits, failures, overdue,
          resets, retired>>

history == <<taken, emits, failures, overdue, resets, retired>>

\* store.OutboxStatus; absent before Enqueue, deleted after retention.
Statuses == {"absent", "pending", "delivered", "failed", "deleted"}

Stored == {"pending", "delivered", "failed"}

Row == [status : Statuses, attempts : Nat, wait : Int, leased : BOOLEAN, lease : Int]

\* attempts is the count the claim returned, age how old the tick's now is.
Job == [stage : {"claimed", "ready", "unwanted", "taken", "refused"},
        attempts : Nat, age : Nat]

TypeOK ==
  /\ rows \in [Events -> Row]
  /\ hand \in [Dispatchers -> [Events -> Job \cup {NoJob}]]
  /\ wanted \subseteq Events
  /\ replaying \subseteq Events
  /\ faults \in Nat
  /\ taken \in [Events -> BOOLEAN]
  /\ emits \in [Events -> Nat]
  /\ failures \in [Events -> Nat]
  /\ overdue \in [Events -> Nat]
  /\ resets \in [Events -> Nat]
  /\ retired \in [Events -> BOOLEAN]

-----------------------------------------------------------------------------

Fault == faults > 0 /\ faults' = faults - 1

NewRow(status) == [status |-> status, attempts |-> 0, wait |-> 0, leased |-> FALSE,
                   lease |-> 0]

Unleased(row) == [row EXCEPT !.leased = FALSE, !.lease = 0]

\* An empty schedule waits a minute, one tick here.
DefaultBackoff == 1

\* backoffFor: the wait after the n-th failure, the last entry reused.
BackoffFor(n) ==
  IF OutboxBackoff = <<>> THEN DefaultBackoff
  ELSE LET i == IF n < 1 THEN 1 ELSE n
       IN OutboxBackoff[IF i > Len(OutboxBackoff) THEN Len(OutboxBackoff) ELSE i]

\* Mutants: ClaimPending without the lease condition, and with one that never
\* takes over an expired lease.
ClaimableLeasedToo(row, lag) == row.status = "pending" /\ row.wait <= -lag

ClaimableUnleased(row, lag) ==
  row.status = "pending" /\ row.wait <= -lag /\ ~row.leased

\* ClaimPending's WHERE clause, for a tick whose now is lag old.
Claimable(row, lag) ==
  /\ row.status = "pending"
  /\ row.wait <= -lag
  /\ row.leased => row.lease <= -lag

Claimed(row, lag) == [row EXCEPT !.leased = TRUE, !.lease = OutboxLease - lag]

\* MarkDelivered, by id alone.
Delivered(row) ==
  IF row.status \in Stored THEN [Unleased(row) EXCEPT !.status = "delivered"] ELSE row

\* Mutant: the budget is compared off by one.
FailedEarly(row, job) ==
  LET last == job.attempts + 2 >= MaxAttempts
  IN IF row.status \notin Stored THEN row
     ELSE [Unleased(row) EXCEPT
             !.attempts = @ + 1,
             !.status = IF last THEN "failed" ELSE "pending",
             !.wait = IF last THEN @ ELSE BackoffFor(job.attempts + 1) - job.age]

\* The failing half of dispatch, and MarkFailed, by id alone: the budget is
\* compared with the attempts of the claim, the wait counts from the tick's now.
Failed(row, job) ==
  LET last == job.attempts + 1 >= MaxAttempts
  IN IF row.status \notin Stored THEN row
     ELSE [Unleased(row) EXCEPT
             !.attempts = @ + 1,
             !.status = IF last THEN "failed" ELSE "pending",
             !.wait = IF last THEN @ ELSE BackoffFor(job.attempts + 1) - job.age]

\* Reset: the replay verb.
Reset(row) == IF row.status \in Stored THEN NewRow("pending") ELSE row

\* A point in time, one tick on.
Nearer(n) == IF n > -MaxLag THEN n - 1 ELSE n

Aged(row) ==
  IF row.status # "pending" THEN row
  ELSE [row EXCEPT !.wait = Nearer(@), !.lease = IF row.leased THEN Nearer(@) ELSE @]

AgedJob(job) ==
  IF job = NoJob THEN job ELSE [job EXCEPT !.age = IF @ < MaxAge THEN @ + 1 ELSE @]

Init ==
  /\ rows = [e \in Events |-> NewRow("absent")]
  /\ hand = [d \in Dispatchers |-> [e \in Events |-> NoJob]]
  /\ wanted = Events
  /\ replaying = {}
  /\ faults = MaxFaults
  /\ taken = [e \in Events |-> FALSE]
  /\ emits = [e \in Events |-> 0]
  /\ failures = [e \in Events |-> 0]
  /\ overdue = [e \in Events |-> 0]
  /\ resets = [e \in Events |-> 0]
  /\ retired = [e \in Events |-> FALSE]

-----------------------------------------------------------------------------
(* Producers and the dispatchers.                                          *)

\* A producer enqueues an event.  Some look at the subscription first, but not
\* all of them do.
Enqueue(e) ==
  /\ rows[e].status = "absent"
  /\ rows' = [rows EXCEPT ![e] = NewRow("pending")]
  /\ UNCHANGED <<hand, wanted, replaying, faults, history>>

\* A tick begins: the previous one of this loop has returned.  The limit and
\* SKIP LOCKED leave out any of the claimable rows.
ClaimPending(d, S, lag) ==
  /\ \A e \in Events : hand[d][e] = NoJob
  /\ S # {}
  /\ \A e \in S : Claimable(rows[e], lag)
  /\ IF lag > 0 THEN Fault ELSE UNCHANGED faults
  /\ rows' = [e \in Events |-> IF e \in S THEN Claimed(rows[e], lag) ELSE rows[e]]
  /\ hand' = [hand EXCEPT ![d] =
                [e \in Events |-> IF e \in S THEN [stage |-> "claimed",
                                                   attempts |-> rows[e].attempts,
                                                   age |-> lag]
                                             ELSE NoJob]]
  /\ overdue' = [e \in Events |-> IF e \in S /\ rows[e].leased /\ rows[e].lease <= 0
                                    THEN overdue[e] + 1
                                    ELSE overdue[e]]
  /\ UNCHANGED <<wanted, replaying, taken, emits, failures, resets, retired>>

\* subscribed: the settings are read once; if that fails everything is
\* dispatched.
Subscribed(d) ==
  /\ \E e \in Events : hand[d][e] # NoJob /\ hand[d][e].stage = "claimed"
  /\ \E pass \in {wanted, Events} :
       /\ IF pass = wanted THEN UNCHANGED faults ELSE Fault
       /\ hand' = [hand EXCEPT ![d] =
                     [e \in Events |->
                        IF hand[d][e] = NoJob THEN NoJob
                        ELSE [hand[d][e] EXCEPT
                                !.stage = IF e \in pass THEN "ready" ELSE "unwanted"]]]
  /\ UNCHANGED <<rows, wanted, replaying, history>>

At(d, e, stage) == hand[d][e] # NoJob /\ hand[d][e].stage = stage

\* sink.Emit returns, once the unwanted events are retired.  A sink may take an
\* event and still return an error.
Emit(d, e) ==
  /\ At(d, e, "ready")
  /\ \A f \in Events : ~At(d, f, "unwanted")
  /\ emits' = [emits EXCEPT ![e] = @ + 1]
  /\ \/ /\ hand' = [hand EXCEPT ![d][e].stage = "taken"]
        /\ taken' = [taken EXCEPT ![e] = TRUE]
        /\ UNCHANGED <<failures, faults>>
     \/ /\ hand' = [hand EXCEPT ![d][e].stage = "refused"]
        /\ failures' = [failures EXCEPT ![e] = @ + 1]
        /\ \/ UNCHANGED <<taken, faults>>
           \/ Fault /\ taken' = [taken EXCEPT ![e] = TRUE]
  /\ UNCHANGED <<rows, wanted, replaying, overdue, resets, retired>>

\* The event was taken, or nobody wants it.
MarkDelivered(d, e) ==
  /\ At(d, e, "taken") \/ At(d, e, "unwanted")
  /\ rows' = [rows EXCEPT ![e] = Delivered(@)]
  /\ hand' = [hand EXCEPT ![d][e] = NoJob]
  /\ retired' = [retired EXCEPT ![e] = @ \/ At(d, e, "unwanted")]
  /\ UNCHANGED <<wanted, replaying, faults, taken, emits, failures, overdue, resets>>

MarkFailed(d, e) ==
  /\ At(d, e, "refused")
  /\ rows' = [rows EXCEPT ![e] = Failed(@, hand[d][e])]
  /\ hand' = [hand EXCEPT ![d][e] = NoJob]
  /\ UNCHANGED <<wanted, replaying, faults, history>>

\* The store refuses the mark, the leader stops feeding its workers, or the
\* process dies: the jobs are gone and their leases run out.
Lose(d, S) ==
  /\ S # {}
  /\ \A e \in S : hand[d][e] # NoJob
  /\ Fault
  /\ hand' = [hand EXCEPT ![d] = [e \in Events |-> IF e \in S THEN NoJob ELSE hand[d][e]]]
  /\ UNCHANGED <<rows, wanted, replaying, history>>

-----------------------------------------------------------------------------
(* Operators, retention and the clock.                                     *)

\* ReplayEvent reads the event and refuses a delivered one ...
ReplayCheck(e) ==
  /\ e \notin replaying
  /\ rows[e].status \in {"pending", "failed"}
  /\ Fault
  /\ replaying' = replaying \cup {e}
  /\ UNCHANGED <<rows, hand, wanted, history>>

\* ... and then resets it, whatever it is by now.
Replay(e) ==
  /\ e \in replaying
  /\ replaying' = replaying \ {e}
  /\ rows' = [rows EXCEPT ![e] = Reset(@)]
  /\ resets' = [resets EXCEPT ![e] = IF rows[e].status \in Stored THEN @ + 1 ELSE @]
  /\ UNCHANGED <<hand, wanted, faults, taken, emits, failures, overdue, retired>>

\* The tenant changes its event_types.
Subscribe(e) ==
  /\ Fault
  /\ wanted' = IF e \in wanted THEN wanted \ {e} ELSE wanted \cup {e}
  /\ UNCHANGED <<rows, hand, replaying, history>>

\* Mutant: retention goes by age alone.
DeletableByAge(row) == row.status \in Stored

\* DeleteBefore's condition, besides the age.
Deletable(row) == row.status \in {"delivered", "failed"}

\* retention: one chunk.
DeleteBefore(S) ==
  /\ S # {}
  /\ \A e \in S : Deletable(rows[e])
  /\ rows' = [e \in Events |-> IF e \in S THEN NewRow("deleted") ELSE rows[e]]
  /\ UNCHANGED <<hand, wanted, replaying, faults, history>>

\* The lease of an event in somebody's hand is about to run out.
Overrun ==
  \E d \in Dispatchers, e \in Events :
    hand[d][e] # NoJob /\ rows[e].leased /\ rows[e].lease = 1

\* Time passes.  A batch that outlives its lease is a fault.
Tick ==
  /\ IF Overrun THEN Fault ELSE UNCHANGED faults
  /\ rows' = [e \in Events |-> Aged(rows[e])]
  /\ hand' = [d \in Dispatchers |-> [e \in Events |-> AgedJob(hand[d][e])]]
  /\ UNCHANGED <<wanted, replaying, history>>

DispatchBatch(d) ==
  \/ Subscribed(d)
  \/ \E e \in Events : Emit(d, e) \/ MarkDelivered(d, e) \/ MarkFailed(d, e)

BeginTick(d) == \E S \in SUBSET Events, lag \in 0..MaxLag : ClaimPending(d, S, lag)

Next ==
  \/ \E d \in Dispatchers : BeginTick(d) \/ DispatchBatch(d)
  \/ \E d \in Dispatchers, S \in SUBSET Events : Lose(d, S)
  \/ \E e \in Events : Enqueue(e) \/ ReplayCheck(e) \/ Replay(e) \/ Subscribe(e)
  \/ \E S \in SUBSET Events : DeleteBefore(S)
  \/ Tick

Spec == Init /\ [][Next]_vars

-----------------------------------------------------------------------------
(* Safety.                                                                 *)

\* Nothing owed to the host is lost: an event that says delivered, or that
\* retention removed, was taken by the sink, was not wanted, or failed as often
\* as the budget allows, whichever of the racing dispatchers marked it.
Exhausted(e) == failures[e] >= MaxAttempts

OwedIsKept ==
  \A e \in Events :
    /\ rows[e].status = "delivered" => taken[e] \/ retired[e]
    /\ rows[e].status = "deleted" => taken[e] \/ retired[e] \/ Exhausted(e)

\* A dead letter has failed MaxAttempts times, however many dispatchers counted.
DeadLetterIsEarned ==
  \A e \in Events : rows[e].status = "failed" => Exhausted(e)

\* Jobs that may still lead to an Emit: before it, or about to put the event
\* back after one that failed.
Open(e) ==
  {d \in Dispatchers : hand[d][e] # NoJob /\ hand[d][e].stage \in {"claimed", "ready", "refused"}}

Due(e) == IF rows[e].status \in {"absent", "pending"} /\ ~rows[e].leased THEN 1 ELSE 0

\* At-least-once, made exact: an event is emitted at most once for its
\* enqueueing, for each failed Emit, each lease that ran out and each replay.
EmitHasCause ==
  \A e \in Events : emits[e] + Cardinality(Open(e)) + Due(e)
                      <= 1 + failures[e] + overdue[e] + resets[e]

-----------------------------------------------------------------------------
(* Liveness.                                                               *)

\* Emit and the store return, and the sweep ticks while a replica leads.  The
\* other loop may not see the tenant again: it visits active ones only.
Fairness ==
  /\ WF_vars(Tick)
  /\ \A d \in Dispatchers : WF_vars(DispatchBatch(d))
  /\ \A d \in Sweeps : WF_vars(BeginTick(d))

FairSpec == Spec /\ Fairness

\* Every event is settled in the end, by delivery or as a dead letter.
EventuallySettled ==
  \A e \in Events : <>[](rows[e].status # "pending")
=============================================================================
