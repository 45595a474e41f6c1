---------------------------- MODULE SendPipeline ----------------------------
(***************************************************************************)
(* The send path of one tenant and one lane: the sender replicas           *)
(* (internal/sender) working on the delivery table, next to the lease      *)
(* reaper and the canceller of the control leader, the operator's campaign *)
(* and retry calls, and the bounce poller's status transition.  They share *)
(* nothing but the table.                                                  *)
(*                                                                         *)
(* A job is one claimed delivery inside a replica, from Claim until its    *)
(* result leaves the batcher.  Claim, the SMTP exchange, MarkSent and the  *)
(* batched Complete are separate steps: a replica may crash, a lease may   *)
(* run out, and an operator may act between any two of them.               *)
(***************************************************************************)
EXTENDS DeliveryRow, RetryPolicy, FiniteSets

CONSTANTS
  Deliveries,          \* the rows
  Bulk,                \* the rows of the campaign; the others have none
  Tickets,             \* bound: jobs and uncommitted results at any time
  NoJob,
  Concurrency,         \* the lane's pool size in one replica
  InternalRetryAfter,  \* internalRetryAfter in ticks
  RetryFilters,        \* the status filters operators retry a campaign with
  MaxFaults            \* bound: environment faults and operator retries

ASSUME PipelineAssumption ==
  /\ IsFiniteSet(Tickets)
  /\ Bulk \subseteq Deliveries
  /\ Concurrency \in Nat
  /\ InternalRetryAfter \in Nat
  /\ RetryFilters \subseteq SUBSET Statuses
  /\ MaxFaults \in Nat

VARIABLES
  rows,      \* the delivery table
  jobs,      \* the replicas' jobs and the results in their batchers
  replica,   \* the state of each sender process
  running,   \* each replica's cached answer to "is the campaign running"
  campaign,  \* the campaign's status
  retrying,  \* RetryDelivery calls that passed their check
  faults,    \* how many faults the environment has left
  accepted,  \* history: how often a relay took each message
  released,  \* history: leases of each row the reaper took back
  lost,      \* history: acceptances whose reply never arrived
  events,    \* the delivery.sent / delivery.failed events enqueued
  reached    \* history: which of those two statuses each row has had

vars == <<rows, jobs, replica, running, campaign, retrying, faults,
          accepted, released, lost, events, reached>>

history == <<accepted, released, lost>>

Reported == {"sent", "failed"}

NoResult == Decision("leased", 0, FALSE)

Job == [w : Workers, d : Deliveries, attempts : Nat,
        stage : {"claimed", "accepted", "done"}, res : Result]

TypeOK ==
  /\ rows \in [Deliveries -> Row]
  /\ jobs \in [Tickets -> Job \cup {NoJob}]
  /\ replica \in [Workers -> {"up", "stopping", "down"}]
  /\ running \in [Workers -> BOOLEAN]
  /\ campaign \in {"running", "paused", "cancelled"}
  /\ retrying \subseteq Deliveries
  /\ faults \in Nat
  /\ accepted \in [Deliveries -> Nat]
  /\ released \in [Deliveries -> Nat]
  /\ lost \in [Deliveries -> Nat]
  /\ events \in [Deliveries -> SUBSET Reported]
  /\ reached \in [Deliveries -> SUBSET Reported]

-----------------------------------------------------------------------------

JobsOf(w) == {t \in Tickets : jobs[t] # NoJob /\ jobs[t].w = w}

\* lane.inflight: claimed and not yet handed to the batcher.
Inflight(w) == {t \in JobsOf(w) : jobs[t].stage # "done"}

\* batcher.buf
Buffer(w) == {t \in JobsOf(w) : jobs[t].stage = "done"}

\* batcher.add: the worker goroutine is done with the job.
Add(t, res) == jobs' = [jobs EXCEPT ![t].stage = "done", ![t].res = res]

Fault == faults > 0 /\ faults' = faults - 1

\* Every change of the table goes through here; reached follows it.
Write(newRows) ==
  /\ rows' = newRows
  /\ reached' = [d \in Deliveries |->
                   reached[d] \cup ({newRows[d].status} \cap Reported)]

Init ==
  /\ rows = [d \in Deliveries |-> NewRow(IF d \in Bulk THEN "pending" ELSE "queued")]
  /\ jobs = [t \in Tickets |-> NoJob]
  /\ replica = [w \in Workers |-> "up"]
  /\ running = [w \in Workers |-> FALSE]
  /\ campaign = "running"
  /\ retrying = {}
  /\ faults = MaxFaults
  /\ accepted = [d \in Deliveries |-> 0]
  /\ released = [d \in Deliveries |-> 0]
  /\ lost = [d \in Deliveries |-> 0]
  /\ events = [d \in Deliveries |-> {}]
  /\ reached = [d \in Deliveries |-> {}]

-----------------------------------------------------------------------------
(* The sender replica.                                                     *)

\* runningCampaigns re-reads the running set once its cache is too old.
RefreshRunning(w) ==
  /\ replica[w] = "up"
  /\ running[w] # (campaign = "running")
  /\ running' = [running EXCEPT ![w] = (campaign = "running")]
  /\ UNCHANGED <<rows, jobs, replica, campaign, retrying, faults, history,
                 events, reached>>

\* claimInto: capacity is reserved before the claim, so a claim needs a free
\* worker.  A batch is a run of these steps.
Claim(w, t, d) ==
  /\ replica[w] = "up"
  /\ jobs[t] = NoJob
  /\ Cardinality(Inflight(w)) < Concurrency
  /\ Claimable(rows[d], d \in Bulk, running[w])
  /\ Write([rows EXCEPT ![d] = Claimed(@, w)])
  /\ jobs' = [jobs EXCEPT ![t] = [w |-> w, d |-> d, attempts |-> rows[d].attempts,
                                  stage |-> "claimed", res |-> NoResult]]
  /\ UNCHANGED <<replica, running, campaign, retrying, faults, history, events>>

\* process gives up before SMTP: a missing campaign, version, sender or
\* transport, a render or MIME error (failResult), a suppressed recipient or
\* BeforeSend's ErrSkip.
RefuseToSend(t) ==
  /\ jobs[t] # NoJob /\ jobs[t].stage = "claimed"
  /\ \E status \in {"failed", "suppressed"} : Add(t, Decision(status, 0, FALSE))
  /\ UNCHANGED <<rows, replica, running, campaign, retrying, faults, history,
                 events, reached>>

\* process puts the delivery back without an attempt: internalDefer, or the
\* transport's circuit is open.
Postpone(t) ==
  /\ jobs[t] # NoJob /\ jobs[t].stage = "claimed"
  /\ Fault
  /\ \E wait \in {InternalRetryAfter, AuthRetryAfter} :
       Add(t, Decision("queued", wait, FALSE))
  /\ UNCHANGED <<rows, replica, running, campaign, retrying, history,
                 events, reached>>

\* The relay (or BeforeSend) answers with an error.  Auth failures put the
\* delivery back without using up an attempt, so they are counted as faults.
SendFails(t, class) ==
  /\ jobs[t] # NoJob /\ jobs[t].stage = "claimed"
  /\ IF class = "auth" THEN Fault ELSE UNCHANGED faults
  /\ \E res \in Decide(class, jobs[t].attempts) : Add(t, res)
  /\ UNCHANGED <<rows, replica, running, campaign, retrying, history,
                 events, reached>>

\* The relay takes the message and its reply is lost: Classify sees a broken
\* connection, which is transient.
SendReplyLost(t) ==
  /\ jobs[t] # NoJob /\ jobs[t].stage = "claimed"
  /\ Fault
  /\ accepted' = [accepted EXCEPT ![jobs[t].d] = @ + 1]
  /\ lost' = [lost EXCEPT ![jobs[t].d] = @ + 1]
  /\ \E res \in Decide("transient", jobs[t].attempts) : Add(t, res)
  /\ UNCHANGED <<rows, replica, running, campaign, retrying, released,
                 events, reached>>

\* SMTP 250.
SendAccepted(t) ==
  /\ jobs[t] # NoJob /\ jobs[t].stage = "claimed"
  /\ accepted' = [accepted EXCEPT ![jobs[t].d] = @ + 1]
  /\ jobs' = [jobs EXCEPT ![t].stage = "accepted"]
  /\ UNCHANGED <<rows, replica, running, campaign, retrying, faults, released,
                 lost, events, reached>>

\* MarkSent commits, and the result goes to the batcher.
MarkSent(t) ==
  /\ jobs[t] # NoJob /\ jobs[t].stage = "accepted"
  /\ MarkSentApplies(rows[jobs[t].d], jobs[t].w)
  /\ Write([rows EXCEPT ![jobs[t].d] = MarkedSent(@)])
  /\ \E res \in Decide("none", jobs[t].attempts) : Add(t, res)
  /\ UNCHANGED <<replica, running, campaign, retrying, faults, history, events>>

\* MarkSent reports ErrLeaseLost: the result is dropped.
MarkSentLeaseLost(t) ==
  /\ jobs[t] # NoJob /\ jobs[t].stage = "accepted"
  /\ ~MarkSentApplies(rows[jobs[t].d], jobs[t].w)
  /\ jobs' = [jobs EXCEPT ![t] = NoJob]
  /\ UNCHANGED <<rows, replica, running, campaign, retrying, faults, history,
                 events, reached>>

\* MarkSent fails in the store: logged, and the result is kept.
MarkSentFails(t) ==
  /\ jobs[t] # NoJob /\ jobs[t].stage = "accepted"
  /\ Fault
  /\ \E res \in Decide("none", jobs[t].attempts) : Add(t, res)
  /\ UNCHANGED <<rows, replica, running, campaign, retrying, history,
                 events, reached>>

\* batcher.flush and Complete.  A row still held by the worker takes one of
\* the results that name it (two results of one row in a batch leave the
\* choice to the store); the others are ignored.  enqueueEvents then reports
\* the whole batch.
Flush(w) ==
  /\ Buffer(w) # {}
  /\ LET held == {d \in Deliveries : /\ CompleteApplies(rows[d], w)
                                     /\ \E t \in Buffer(w) : jobs[t].d = d}
     IN \E pick \in [held -> Buffer(w)] :
          /\ \A d \in held : jobs[pick[d]].d = d
          /\ Write([d \in Deliveries |->
                      IF d \in held THEN Completed(rows[d], jobs[pick[d]].res)
                                    ELSE rows[d]])
  /\ jobs' = [t \in Tickets |-> IF t \in Buffer(w) THEN NoJob ELSE jobs[t]]
  /\ \/ /\ events' = [d \in Deliveries |->
                        events[d] \cup ({jobs[t].res.status :
                                           t \in {u \in Buffer(w) : jobs[u].d = d}}
                                        \cap Reported)]
        /\ UNCHANGED faults
     \/ Fault /\ UNCHANGED events
  /\ UNCHANGED <<replica, running, campaign, retrying, history>>

\* Mutant: the events go out although Complete failed.
FlushFailsReports(w) ==
  /\ Buffer(w) # {}
  /\ Fault
  /\ jobs' = [t \in Tickets |-> IF t \in Buffer(w) THEN NoJob ELSE jobs[t]]
  /\ events' = [d \in Deliveries |->
                  events[d] \cup ({jobs[t].res.status :
                                     t \in {u \in Buffer(w) : jobs[u].d = d}}
                                  \cap Reported)]
  /\ UNCHANGED <<rows, replica, running, campaign, retrying, history, reached>>

\* Complete fails: the batch is logged and dropped, the leases run out.
FlushFails(w) ==
  /\ Buffer(w) # {}
  /\ Fault
  /\ jobs' = [t \in Tickets |-> IF t \in Buffer(w) THEN NoJob ELSE jobs[t]]
  /\ UNCHANGED <<rows, replica, running, campaign, retrying, history,
                 events, reached>>

\* The process dies with everything it had in memory.
Crash(w) ==
  /\ replica[w] # "down"
  /\ Fault
  /\ replica' = [replica EXCEPT ![w] = "down"]
  /\ jobs' = [t \in Tickets |-> IF t \in JobsOf(w) THEN NoJob ELSE jobs[t]]
  /\ UNCHANGED <<rows, running, campaign, retrying, history, events, reached>>

\* Graceful shutdown: Run stops claiming ...
Stop(w) ==
  /\ replica[w] = "up"
  /\ Fault
  /\ replica' = [replica EXCEPT ![w] = "stopping"]
  /\ UNCHANGED <<rows, jobs, running, campaign, retrying, history, events, reached>>

\* ... claimInto gives up claimed deliveries it could not hand to a worker (as
\* it does, in a replica that is up, when the reply to its claim is lost) ...
GiveUp(t) ==
  /\ jobs[t] # NoJob /\ jobs[t].stage = "claimed"
  /\ IF replica[jobs[t].w] = "stopping" THEN UNCHANGED faults ELSE Fault
  /\ jobs' = [jobs EXCEPT ![t] = NoJob]
  /\ UNCHANGED <<rows, replica, running, campaign, retrying, history,
                 events, reached>>

\* ... and returns once the jobs are finished and the batcher is flushed.
Stopped(w) ==
  /\ replica[w] = "stopping"
  /\ JobsOf(w) = {}
  /\ replica' = [replica EXCEPT ![w] = "down"]
  /\ UNCHANGED <<rows, jobs, running, campaign, retrying, faults, history,
                 events, reached>>

\* The process comes back under its configured WorkerID.
Restart(w) ==
  /\ replica[w] = "down"
  /\ replica' = [replica EXCEPT ![w] = "up"]
  /\ running' = [running EXCEPT ![w] = FALSE]
  /\ UNCHANGED <<rows, jobs, campaign, retrying, faults, history, events, reached>>

-----------------------------------------------------------------------------
(* Everybody else.                                                         *)

\* leaseReaper.Tick: one chunk of expired leases.
ReleaseExpiredLeases(S) ==
  /\ S # {}
  /\ \A d \in S : Expired(rows[d])
  /\ Write([d \in Deliveries |-> IF d \in S THEN Released(rows[d]) ELSE rows[d]])
  /\ released' = [d \in Deliveries |-> IF d \in S THEN released[d] + 1 ELSE released[d]]
  /\ UNCHANGED <<jobs, replica, running, campaign, retrying, faults, accepted,
                 lost, events>>

PauseCampaign ==
  /\ campaign = "running"
  /\ campaign' = "paused"
  /\ UNCHANGED <<rows, jobs, replica, running, retrying, faults, history,
                 events, reached>>

ResumeCampaign ==
  /\ campaign = "paused"
  /\ campaign' = "running"
  /\ UNCHANGED <<rows, jobs, replica, running, retrying, faults, history,
                 events, reached>>

CancelCampaign ==
  /\ campaign \in {"running", "paused"}
  /\ campaign' = "cancelled"
  /\ UNCHANGED <<rows, jobs, replica, running, retrying, faults, history,
                 events, reached>>

\* canceller.Tick: one chunk of a cancelled campaign's waiting rows.
CancelChunk(S) ==
  /\ campaign = "cancelled"
  /\ S # {}
  /\ \A d \in S : d \in Bulk /\ Cancellable(rows[d])
  /\ Write([d \in Deliveries |-> IF d \in S THEN BulkCancelled(rows[d]) ELSE rows[d]])
  /\ UNCHANGED <<jobs, replica, running, campaign, retrying, faults, history, events>>

\* RetryCampaign: one Requeue chunk of the campaign's rows whose status the
\* filter names.  The campaign's status was checked before the first chunk and
\* may have changed since.
RetryCampaign(filter, S) ==
  /\ S # {}
  /\ \A d \in S : d \in Bulk /\ rows[d].status \in filter
  /\ Fault
  /\ Write([d \in Deliveries |-> IF d \in S THEN Requeued(rows[d]) ELSE rows[d]])
  /\ UNCHANGED <<jobs, replica, running, campaign, retrying, history, events>>

\* RetryDelivery reads the row and refuses one that is not finished ...
RetryDeliveryCheck(d) ==
  /\ d \notin retrying
  /\ rows[d].status \in Terminal
  /\ Fault
  /\ retrying' = retrying \cup {d}
  /\ UNCHANGED <<rows, jobs, replica, running, campaign, history, events, reached>>

\* ... and then requeues it by id, whatever its status is by now.
RetryDelivery(d) ==
  /\ d \in retrying
  /\ retrying' = retrying \ {d}
  /\ Write([rows EXCEPT ![d] = Requeued(@)])
  /\ UNCHANGED <<jobs, replica, running, campaign, faults, history, events>>

\* The bounce poller's MarkBounced and MarkComplained.
MarkTerminal(d, to) ==
  /\ MarkTerminalApplies(rows[d])
  /\ Write([rows EXCEPT ![d] = MarkedTerminal(@, to)])
  /\ UNCHANGED <<jobs, replica, running, campaign, retrying, faults, history, events>>

\* A lease is about to run out under a job that is still alive.
Overrun ==
  \E t \in Tickets : /\ jobs[t] # NoJob
                     /\ rows[jobs[t].d].owner = jobs[t].w
                     /\ rows[jobs[t].d].status = "leased"
                     /\ rows[jobs[t].d].lease = 0

\* A result's NextAttemptAt is a point in time, so its distance shrinks too.
AgedJob(j) ==
  IF j = NoJob THEN j ELSE [j EXCEPT !.res.wait = IF @ > 0 THEN @ - 1 ELSE @]

\* Time passes.  A job outliving its lease is an environment fault.
Tick ==
  /\ IF Overrun THEN Fault ELSE UNCHANGED faults
  /\ Write([d \in Deliveries |-> Aged(rows[d])])
  /\ jobs' = [t \in Tickets |-> AgedJob(jobs[t])]
  /\ UNCHANGED <<replica, running, campaign, retrying, history, events>>

-----------------------------------------------------------------------------

JobStep(t) ==
  \/ RefuseToSend(t)
  \/ Postpone(t)
  \/ \E class \in Classes \ {"none"} : SendFails(t, class)
  \/ SendReplyLost(t)
  \/ SendAccepted(t)
  \/ MarkSent(t)
  \/ MarkSentLeaseLost(t)
  \/ MarkSentFails(t)
  \/ GiveUp(t)

ReplicaStep(w) ==
  \/ RefreshRunning(w)
  \/ \E t \in Tickets, d \in Deliveries : Claim(w, t, d)
  \/ Flush(w)
  \/ FlushFails(w)
  \/ Crash(w)
  \/ Stop(w)
  \/ Stopped(w)
  \/ Restart(w)

OperatorStep ==
  \/ PauseCampaign
  \/ ResumeCampaign
  \/ CancelCampaign
  \/ \E filter \in RetryFilters, S \in SUBSET Deliveries : RetryCampaign(filter, S)
  \/ \E d \in Deliveries : RetryDeliveryCheck(d) \/ RetryDelivery(d)

Next ==
  \/ \E t \in Tickets : JobStep(t)
  \/ \E w \in Workers : ReplicaStep(w)
  \/ OperatorStep
  \/ \E S \in SUBSET Deliveries : ReleaseExpiredLeases(S) \/ CancelChunk(S)
  \/ \E d \in Deliveries, to \in {"bounced", "complained"} : MarkTerminal(d, to)
  \/ Tick

Spec == Init /\ [][Next]_vars

-----------------------------------------------------------------------------
(* Safety.                                                                 *)

\* The lease columns and the status agree: a leased row names its owner, and
\* only a leased row, or one MarkSent moved on while keeping the lease, names
\* one.  Every compare-and-set of the repository relies on it: a row that
\* left the send path must not be open to a late Complete.
LeaseMatchesStatus ==
  \A d \in Deliveries :
    /\ rows[d].status = "leased" => rows[d].owner # NoOwner
    /\ rows[d].owner # NoOwner => rows[d].status \in {"leased", "sent"}

\* Tickets that can still make a relay take d's message again: jobs before
\* SMTP, and uncommitted results that put the row back into the queue.
Open(d) ==
  {t \in Tickets : /\ jobs[t] # NoJob
                   /\ jobs[t].d = d
                   /\ \/ jobs[t].stage = "claimed"
                      \/ jobs[t].stage = "done" /\ jobs[t].res.status \in Waiting}

Queued(d) == IF rows[d].status \in Waiting THEN 1 ELSE 0

\* The reasons a message may go out once more: the first send, every lease the
\* reaper took back, every operator retry, every reply that was lost.
Causes(d) == 1 + released[d] + rows[d].gen + lost[d]

\* At-least-once, made exact: a relay takes a message at most once per cause.
\* Neither two replicas, nor a late result, nor a crash alone sends twice.
DuplicateHasCause == \A d \in Deliveries : accepted[d] <= Causes(d)

\* The inductive form: what was sent and what may still be sent together stay
\* within the causes.
SendLedger ==
  \A d \in Deliveries :
    accepted[d] + Cardinality(Open(d)) + Queued(d) <= Causes(d)

\* A row says sent (or bounced, complained) only if a relay took the message,
\* whichever job, replica or batch wrote the status.
SentWasAccepted ==
  \A d \in Deliveries :
    rows[d].status \in {"sent", "bounced", "complained"} => accepted[d] > 0

\* The same of the events: no delivery.sent for a message no relay took.
SentEventWasAccepted ==
  \A d \in Deliveries : "sent" \in events[d] => accepted[d] > 0

\* The retry budget: attempt_count never passes MaxAttempts by more than the
\* claims that a taken-back lease or an operator retry added.
AttemptBudget ==
  \A d \in Deliveries : rows[d].attempts <= MaxOf + released[d] + rows[d].gen

\* No lease of the row was taken back and no operator retried it, so that it
\* has never had two jobs at a time.
Undisturbed(d) == released[d] = 0 /\ rows[d].gen = 0

\* The state diagram of docs/architecture.md 4.1: a finished row changes only
\* by a bounce or complaint of a sent message, or by an operator retry.  Late
\* results, the reaper and the canceller leave it alone.  A row that MarkSent
\* wrote keeps its lease until its result is committed, so there it takes an
\* undisturbed row: a late result of an earlier claim can hit it otherwise.
SettledStep ==
  \A d \in Deliveries :
    (/\ rows[d].status \in Terminal
     /\ rows[d].owner = NoOwner \/ Undisturbed(d)
     /\ rows'[d].status # rows[d].status)
    => \/ rows[d].status = "sent" /\ rows'[d].status \in {"bounced", "complained"}
       \/ rows'[d].gen = rows[d].gen + 1

SettledStaysSettled == [][SettledStep]_vars

\* enqueueEvents: "an event only ever describes a transition that happened".
\* It holds of every row that never had two jobs at a time; a late result of
\* another one is reported although Complete ignored it.
EventsDescribeTransitions ==
  \A d \in Deliveries : Undisturbed(d) => events[d] \subseteq reached[d]

-----------------------------------------------------------------------------
(* Liveness.                                                               *)

\* The loops that keep ticking while the roles run: the clock, the reaper and
\* the canceller; each replica's claim loop, workers and flush timer; and an
\* orchestrator that restarts a dead replica.
Fairness ==
  /\ WF_vars(Tick)
  /\ WF_vars(\E S \in SUBSET Deliveries : ReleaseExpiredLeases(S))
  /\ WF_vars(\E S \in SUBSET Deliveries : CancelChunk(S))
  /\ \A t \in Tickets : WF_vars(JobStep(t))
  /\ \A w \in Workers :
       /\ WF_vars(RefreshRunning(w))
       /\ WF_vars(Flush(w))
       /\ WF_vars(Stopped(w))
       /\ WF_vars(Restart(w))
  /\ \A d \in Deliveries :
       WF_vars(\E w \in Workers, t \in Tickets : Claim(w, t, d))

FairSpec == Spec /\ Fairness

\* No delivery is stranded, whatever crashed or expired on the way: if the
\* campaign is left running, every row is finished in the end, and if it is
\* cancelled, every row of it, including the ones a dead replica held.
EventuallySettled ==
  /\ <>[](campaign = "running") => <>[](\A d \in Deliveries : rows[d].status \in Terminal)
  /\ campaign = "cancelled" ~> \A d \in Bulk : rows[d].status \in Terminal

=============================================================================
