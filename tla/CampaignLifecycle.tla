-------------------------- MODULE CampaignLifecycle --------------------------
(***************************************************************************)
(* One campaign, from draft to completed, cancelled or deleted.  HTTP      *)
(* handlers (internal/api, internal/control/campaign.go, internal/ingest)  *)
(* and the leader's scheduler, finalizer and canceller                     *)
(* (internal/control/campaign_loops.go) change the same campaign row.      *)
(* Each reads the row, decides on what it read, and writes the whole row   *)
(* back with a compare-and-set on its version; the delivery rows are       *)
(* changed on the side, without touching that version.                     *)
(*                                                                         *)
(* The checks a handler makes between reading the row and writing it       *)
(* (recipient count, published version) are part of the read here: a write *)
(* only succeeds if the row did not change in between.                     *)
(*                                                                         *)
(* Delivery rows are reduced to what the campaign depends on: deferred is  *)
(* queued, suppressed is failed, complained is bounced, and marked is sent *)
(* with the lease that MarkSent keeps for the batched Complete.            *)
(* SendPipeline has the send path in full.                                 *)
(***************************************************************************)
EXTENDS Integers, FiniteSets

CONSTANTS
  Recipients,   \* the addresses callers may ingest
  Callers,      \* HTTP handlers running at the same time
  Schedulers,   \* scheduler loops: one per replica that believes it leads
  Finalizers,   \* finalizer loops, likewise
  Operations,   \* the API operations the callers use
  Overrun,      \* the recipients with a job that outlives its lease
  NoCall,
  RetryStatuses, \* the statuses a retry's filter names
  RetryChunk,   \* Batches.RetryChunk
  MaxRetryChunks, \* maxRetryChunks
  MaxCalls,     \* bound: API calls, failing ticks of the loops and late results
  MaxPublished  \* bound: published versions of the campaign's template

Loops == Schedulers \cup Finalizers

\* What a handler or loop may be doing.  RetryDelivery ("retry_one") is a single
\* step of its own.
ApiOperations == {"start", "schedule", "pause", "resume", "cancel", "edit", "delete",
                  "retry", "ingest"}

LoopOperations == {"promote", "finalize", "refresh"}

\* inflightStatuses of the finalizer.
InflightStatuses == {"pending", "queued", "leased"}

RowStatuses ==
  InflightStatuses \cup {"absent", "marked", "sent", "failed", "bounced", "cancelled"}

\* The status column.
Shown(status) == IF status = "marked" THEN "sent" ELSE status

ASSUME LifecycleAssumption ==
  /\ Callers \cap Loops = {}
  /\ Schedulers \cap Finalizers = {}
  /\ IsFiniteSet(Recipients)
  /\ IsFiniteSet(Callers \cup Loops)
  /\ Operations \subseteq ApiOperations \cup {"retry_one"}
  /\ Overrun \subseteq Recipients
  /\ RetryStatuses \subseteq RowStatuses \ {"absent", "marked"}
  /\ RetryChunk \in Nat \ {0}
  /\ MaxRetryChunks \in Nat \ {0}
  /\ MaxCalls \in Nat
  /\ MaxPublished \in Nat

VARIABLES
  cam,        \* the campaign row
  rows,       \* the status of each recipient's delivery
  published,  \* the template's published version, 0 while there is none
  calls,      \* what each handler and loop is in the middle of
  spent,      \* API calls, failed ticks and late results so far
  cache,      \* the senders' cached "is it running"
  commits,    \* history: committed transitions, by the event they call for
  events,     \* campaign events enqueued in the outbox
  fresh,      \* history: rows put in flight since each finalizer's last count
  late        \* history: rows put in flight after the count that completed

vars == <<cam, rows, published, calls, spent, cache, commits, events, fresh, late>>

\* store.CampaignStatus, and deleted for a row that is gone.
CampaignStatuses ==
  {"draft", "scheduled", "running", "paused", "completed", "cancelled", "deleted"}

\* content is VersionID, 0 while the campaign only names its template; due is
\* ScheduleAt <= now; stats is the in-flight sum of Stats.ByStatus.
Campaign == [status : CampaignStatuses, version : Nat, content : Nat,
             due : BOOLEAN, stats : Nat]

EventTypes == {"started", "paused", "completed", "cancelled"}

\* seen is the row as read, want the struct that will be written back.  chunks
\* counts RetryCampaign's full chunks; done is the finalizer's verdict that
\* there were rows and none is in flight.
Call == [op   : ApiOperations \cup LoopOperations,
         step : {"update", "requeue", "count", "stats", "event"},
         seen : Campaign,
         want : Campaign,
         chunks : Nat,
         done : BOOLEAN]

TypeOK ==
  /\ cam \in Campaign
  /\ rows \in [Recipients -> RowStatuses]
  /\ published \in Nat
  /\ calls \in [Callers \cup Loops -> Call \cup {NoCall}]
  /\ spent \in Nat
  /\ cache \in BOOLEAN
  /\ commits \in [EventTypes -> Nat]
  /\ events \in [EventTypes -> Nat]
  /\ fresh \in [Finalizers -> SUBSET Recipients]
  /\ late \subseteq Recipients

-----------------------------------------------------------------------------

\* splitCounts over CountByStatus.
Total == {r \in Recipients : rows[r] # "absent"}

InFlight == {r \in Recipients : rows[r] \in InflightStatuses}

\* resolveCampaignVersion
Resolved(c) == IF c.content = 0 THEN published ELSE c.content

\* The event a committed operation enqueues; edit, schedule and delete have none.
EventOf(op) ==
  CASE op \in {"start", "promote", "resume", "retry"} -> "started"
    [] op = "pause" -> "paused"
    [] op = "finalize" -> "completed"
    [] op = "cancel" -> "cancelled"

Quiet == {"edit", "schedule"}

\* The statuses an operation accepts.
From(op) ==
  CASE op \in {"start", "schedule"} -> {"draft"}
    [] op = "promote" -> {"scheduled"}
    [] op \in {"pause", "finalize"} -> {"running"}
    [] op = "resume" -> {"paused"}
    [] op = "cancel" -> {"draft", "scheduled", "running", "paused"}
    [] op = "retry" -> {"running", "paused", "completed"}
    [] op \in {"edit", "ingest"} -> {"draft", "scheduled"}
    [] op = "delete" -> {"draft", "paused", "completed", "cancelled"}
    [] op = "refresh" -> {"completed"}

\* The other preconditions.
Ready(op, c) ==
  /\ op \in {"start", "schedule"} => Total # {}
  /\ op \in {"start", "promote"} => Resolved(c) # 0
  /\ op = "promote" => c.due

\* The structs an operation may write back, given the row it read.  An edit
\* takes its version from the client: the current one, or an older one that
\* can no longer match (0 stands for those).
Changed(op, c) ==
  CASE op \in {"start", "promote"} ->
         {[c EXCEPT !.status = "running", !.content = Resolved(c)]}
    [] op = "schedule" -> {[c EXCEPT !.status = "scheduled", !.due = FALSE]}
    [] op = "pause" -> {[c EXCEPT !.status = "paused"]}
    [] op \in {"resume", "retry"} -> {[c EXCEPT !.status = "running"]}
    [] op = "cancel" -> {[c EXCEPT !.status = "cancelled"]}
    [] op = "edit" -> {[c EXCEPT !.content = e[1], !.due = e[2]] :
                         e \in (0..published) \X BOOLEAN}
                      \cup {[c EXCEPT !.version = 0]}
    [] op = "finalize" -> {[c EXCEPT !.status = "completed"]}
    [] op \in {"delete", "ingest", "refresh"} -> {c}

FirstStep(op) ==
  CASE op \in {"retry", "ingest"} -> "requeue"
    [] op = "finalize" -> "count"
    [] op = "refresh" -> "stats"
    [] OTHER -> "update"

OperationsOf(c) ==
  CASE c \in Schedulers -> {"promote"}
    [] c \in Finalizers -> {"finalize", "refresh"}
    [] OTHER -> Operations \ {"retry_one"}

Return(c) == calls' = [calls EXCEPT ![c] = NoCall]

At(c, step) == calls[c] # NoCall /\ calls[c].step = step

Spend == spent < MaxCalls /\ spent' = spent + 1

\* Rows S are inserted or requeued.
PutInFlight(S, status) ==
  /\ rows' = [r \in Recipients |-> IF r \in S THEN status ELSE rows[r]]
  /\ fresh' = [f \in Finalizers |-> fresh[f] \cup S]
  /\ late' = late \cup S

Init ==
  /\ cam \in {[status |-> "draft", version |-> 1, content |-> v, due |-> FALSE,
               stats |-> 0] : v \in {0, MaxPublished}}
  /\ rows = [r \in Recipients |-> "absent"]
  /\ published = cam.content
  /\ calls = [c \in Callers \cup Loops |-> NoCall]
  /\ spent = 0
  /\ cache = FALSE
  /\ commits = [e \in EventTypes |-> 0]
  /\ events = [e \in EventTypes |-> 0]
  /\ fresh = [f \in Finalizers |-> {}]
  /\ late = {}

-----------------------------------------------------------------------------
(* Handlers and loops.                                                     *)

\* The read: Campaigns().Get, or ListByStatus in a loop, and the checks.
Begin(c, op) ==
  /\ calls[c] = NoCall
  /\ op \in OperationsOf(c)
  /\ cam.status \in From(op)
  /\ Ready(op, cam)
  /\ IF c \in Callers THEN Spend ELSE UNCHANGED spent
  /\ \E want \in Changed(op, cam) :
       calls' = [calls EXCEPT ![c] = [op |-> op, step |-> FirstStep(op), seen |-> cam,
                                      want |-> want, chunks |-> 0, done |-> FALSE]]
  /\ UNCHANGED <<cam, rows, published, cache, commits, events, fresh, late>>

\* Mutant: the version is bumped but not compared.
VersionIgnored(c) == cam.status # "deleted" /\ calls[c].want \in Campaign

\* Update's WHERE clause.
VersionMatches(c) ==
  cam.status # "deleted" /\ cam.version = calls[c].want.version

\* Campaigns().Update: every column is written, the version is bumped.
Update(c) ==
  /\ At(c, "update") /\ calls[c].op # "delete"
  /\ VersionMatches(c)
  /\ cam' = [calls[c].want EXCEPT !.version = @ + 1]
  /\ late' = IF calls[c].op = "finalize" THEN fresh[c] ELSE late
  /\ IF calls[c].op \in Quiet
       THEN Return(c) /\ UNCHANGED commits
       ELSE /\ calls' = [calls EXCEPT ![c].step = "event"]
            /\ commits' = [commits EXCEPT ![EventOf(calls[c].op)] = @ + 1]
  /\ UNCHANGED <<rows, published, spent, cache, events, fresh>>

\* ErrConflict or ErrNotFound: the handler reports it, a loop waits for its
\* next tick.
Conflict(c) ==
  /\ At(c, "update") /\ calls[c].op # "delete"
  /\ ~VersionMatches(c)
  /\ Return(c)
  /\ UNCHANGED <<cam, rows, published, spent, cache, commits, events, fresh, late>>

\* enqueueCampaignEvent, after the commit and outside its transaction.
Enqueue(c) ==
  /\ At(c, "event")
  /\ events' = [events EXCEPT ![EventOf(calls[c].op)] = @ + 1]
  /\ Return(c)
  /\ UNCHANGED <<cam, rows, published, spent, cache, commits, fresh, late>>

\* A store error, a cancelled request or a dying process ends a call anywhere.
Abandon(c) ==
  /\ calls[c] # NoCall
  /\ IF c \in Loops THEN Spend ELSE UNCHANGED spent
  /\ Return(c)
  /\ UNCHANGED <<cam, rows, published, cache, commits, events, fresh, late>>

\* DeleteCampaign: the row goes, whatever its version; the deliveries stay.
Delete(c) ==
  /\ At(c, "update") /\ calls[c].op = "delete"
  /\ cam' = [cam EXCEPT !.status = "deleted"]
  /\ Return(c)
  /\ UNCHANGED <<rows, published, spent, cache, commits, events, fresh, late>>

\* Ingest streams one batch after the other; the campaign is not looked at
\* again.  Abandon is also the end of the stream.
IngestBatch(c, S) ==
  /\ At(c, "requeue") /\ calls[c].op = "ingest"
  /\ S # {} /\ S \cap Total = {}
  /\ PutInFlight(S, "pending")
  /\ UNCHANGED <<cam, published, calls, spent, cache, commits, events>>

\* RetryCampaign: one Requeue of rows the filter matches, without the ones other
\* transactions have locked.  The last chunk is one that is not full, or the
\* MaxRetryChunks-th; the campaign is then written back only if rows moved and
\* it was read as completed.
Requeue(c, S) ==
  LET last  == Cardinality(S) < RetryChunk \/ calls[c].chunks + 1 = MaxRetryChunks
      moved == calls[c].chunks > 0 \/ S # {}
  IN /\ At(c, "requeue") /\ calls[c].op = "retry"
     /\ \A r \in S : Shown(rows[r]) \in RetryStatuses
     /\ Cardinality(S) <= RetryChunk
     /\ PutInFlight(S, "queued")
     /\ CASE ~last -> calls' = [calls EXCEPT ![c].chunks = @ + 1]
          [] last /\ moved /\ calls[c].seen.status = "completed" ->
               calls' = [calls EXCEPT ![c].step = "update"]
          [] OTHER -> Return(c)
     /\ UNCHANGED <<cam, published, spent, cache, commits, events>>

\* RetryDelivery on a finished row; the campaign is not looked at.  Its check
\* and its requeue are one step here, and two in SendPipeline.
RetryDelivery(r) ==
  /\ "retry_one" \in Operations
  /\ rows[r] \notin InflightStatuses \cup {"absent"}
  /\ Spend
  /\ PutInFlight({r}, "queued")
  /\ UNCHANGED <<cam, published, calls, cache, commits, events>>

\* Mutants: a leased delivery does not keep the campaign from completing; a
\* failed one does.
CountedWithoutLeased(k) ==
  [k EXCEPT !.step = "stats",
            !.done = (Total # {} /\ \A r \in InFlight : rows[r] = "leased"),
            !.want = [@ EXCEPT !.stats = Cardinality(InFlight)]]

CountedFailedToo(k) ==
  [k EXCEPT !.step = "stats",
            !.done = (Total # {} /\ \A r \in Total : rows[r] \in {"sent", "bounced"}),
            !.want = [@ EXCEPT !.stats = Cardinality(InFlight)]]

\* What CountByStatus tells the finalizer.
Counted(k) ==
  [k EXCEPT !.step = "stats",
            !.done = (Total # {} /\ InFlight = {}),
            !.want = [@ EXCEPT !.stats = Cardinality(InFlight)]]

Count(c) ==
  /\ At(c, "count")
  /\ fresh' = [fresh EXCEPT ![c] = {}]
  /\ calls' = [calls EXCEPT ![c] = Counted(@)]
  /\ UNCHANGED <<cam, rows, published, spent, cache, commits, events, late>>

\* UpdateStats writes whatever was counted, without a version.  A finalizer
\* that counted nothing in flight goes on to complete the campaign.
UpdateStats(c) ==
  /\ At(c, "stats")
  /\ cam' = IF cam.status = "deleted" THEN cam
                                      ELSE [cam EXCEPT !.stats = calls[c].want.stats]
  /\ IF calls[c].done /\ cam.status # "deleted"
       THEN calls' = [calls EXCEPT ![c].step = "update"]
       ELSE Return(c)
  /\ UNCHANGED <<rows, published, spent, cache, commits, events, fresh, late>>

\* canceller: one chunk of a cancelled campaign's waiting rows.
CancelRows(S) ==
  /\ cam.status = "cancelled"
  /\ S # {}
  /\ \A r \in S : rows[r] \in {"pending", "queued"}
  /\ rows' = [r \in Recipients |-> IF r \in S THEN "cancelled" ELSE rows[r]]
  /\ UNCHANGED <<cam, published, calls, spent, cache, commits, events, fresh, late>>

-----------------------------------------------------------------------------
(* The senders, and the rest of the world.                                 *)

RefreshRunning ==
  /\ cache # (cam.status = "running")
  /\ cache' = (cam.status = "running")
  /\ UNCHANGED <<cam, rows, published, calls, spent, commits, events, fresh, late>>

SetRow(r, status) ==
  /\ rows' = [rows EXCEPT ![r] = status]
  /\ UNCHANGED <<cam, published, calls, spent, cache, commits, events, fresh, late>>

Claim(r) == cache /\ rows[r] \in {"pending", "queued"} /\ SetRow(r, "leased")

Finish(r) == rows[r] = "leased" /\ \E s \in {"marked", "sent", "failed"} : SetRow(r, s)

\* The batched Complete that follows MarkSent.
Settle(r) == rows[r] = "marked" /\ SetRow(r, "sent")

\* Deferred by the policy, or its lease taken back by the reaper.
PutBack(r) == rows[r] = "leased" /\ SetRow(r, "queued")

\* The result of a job of an earlier claim of the same worker: Complete compares
\* the owner alone, and the lease that MarkSent left is the owner's.
LateResult(r) ==
  /\ r \in Overrun /\ rows[r] = "marked"
  /\ Spend
  /\ \/ PutInFlight({r}, "queued")
     \/ rows' = [rows EXCEPT ![r] = "failed"] /\ UNCHANGED <<fresh, late>>
  /\ UNCHANGED <<cam, published, calls, cache, commits, events>>

Bounce(r) == Shown(rows[r]) = "sent" /\ SetRow(r, "bounced")

Publish ==
  /\ published < MaxPublished
  /\ published' = published + 1
  /\ UNCHANGED <<cam, rows, calls, spent, cache, commits, events, fresh, late>>

\* The scheduled time comes.
BecomeDue ==
  /\ cam.status = "scheduled" /\ ~cam.due
  /\ cam' = [cam EXCEPT !.due = TRUE]
  /\ UNCHANGED <<rows, published, calls, spent, cache, commits, events, fresh, late>>

-----------------------------------------------------------------------------

CallStep(c) ==
  \/ Update(c)
  \/ Conflict(c)
  \/ Enqueue(c)
  \/ Delete(c)
  \/ \E S \in SUBSET Recipients : IngestBatch(c, S) \/ Requeue(c, S)
  \/ Count(c)
  \/ UpdateStats(c)

SenderStep(r) == Claim(r) \/ Finish(r) \/ Settle(r) \/ PutBack(r) \/ LateResult(r)

Next ==
  \/ \E c \in Callers \cup Loops : \/ \E op \in OperationsOf(c) : Begin(c, op)
                                   \/ CallStep(c)
                                   \/ Abandon(c)
  \/ \E r \in Recipients : SenderStep(r) \/ Bounce(r) \/ RetryDelivery(r)
  \/ \E S \in SUBSET Recipients : CancelRows(S)
  \/ RefreshRunning
  \/ Publish
  \/ BecomeDue

Spec == Init /\ [][Next]_vars

-----------------------------------------------------------------------------
(* Safety.                                                                 *)

\* The state diagram of internal/control/README.md, with the early returns of
\* every handler: whatever the handlers and loops read before they wrote, two
\* racing ones never compose into a transition that is not drawn.  Cancelled
\* leads nowhere, and only a retry leaves completed.
Edges ==
  {<<"draft", "scheduled">>, <<"draft", "running">>, <<"draft", "cancelled">>,
   <<"scheduled", "running">>, <<"scheduled", "cancelled">>,
   <<"running", "paused">>, <<"running", "completed">>, <<"running", "cancelled">>,
   <<"paused", "running">>, <<"paused", "cancelled">>,
   <<"completed", "running">>}

LifecycleStep ==
  cam'.status \in {cam.status, "deleted"} \/ <<cam.status, cam'.status>> \in Edges

FollowsLifecycle == [][LifecycleStep]_vars

\* What goes out is fixed when the campaign starts: a started campaign has a
\* message version, and no edit that was under way at the start replaces it.
\* UpdateCampaign refuses a campaign that is already sending for this reason.
ContentStep ==
  (cam.status \in {"running", "paused", "completed"} /\ cam'.status # "deleted")
    => cam'.content = cam.content /\ cam.content # 0

ContentIsPinned == [][ContentStep]_vars

\* Completion is decided on a count that may be old.  What can still be in
\* flight in a completed campaign was put there after that count: by an ingest, a
\* retry or a late result, none of which touches the campaign's version.
CompletedIsAccounted == cam.status = "completed" => InFlight \subseteq late

\* An event is enqueued only for a transition that was committed: a handler
\* that lost the race for the version reports nothing.
EventsFollowCommits == \A e \in EventTypes : events[e] <= commits[e]

\* finalizer: "the delivery counts of a completed campaign are final".  Its
\* cached counts have nothing in flight.
CompletedStatsAreFinal == cam.status = "completed" => cam.stats = 0

\* campaign.go: "a queued delivery of a campaign outside the sender's running
\* set would never be claimed".  Once no call is under way, a completed
\* campaign has no such delivery.
CompletedIsFinished ==
  (cam.status = "completed" /\ \A c \in Callers : calls[c] = NoCall) => InFlight = {}

-----------------------------------------------------------------------------
(* Liveness.                                                               *)

\* The leader's loops tick for as long as a replica leads; handlers that are
\* not abandoned go on; senders refresh, claim and finish.  A delivery is put
\* back only so often (the retry budget of SendPipeline), hence SF.
Fairness ==
  /\ \A c \in Callers \cup Loops : WF_vars(CallStep(c))
  /\ \A c \in Loops : WF_vars(\E op \in OperationsOf(c) : Begin(c, op))
  /\ WF_vars(\E S \in SUBSET Recipients : CancelRows(S))
  /\ WF_vars(RefreshRunning)
  /\ WF_vars(BecomeDue)
  /\ \A r \in Recipients : WF_vars(Claim(r)) /\ SF_vars(Finish(r))

FairSpec == Spec /\ Fairness

\* No campaign runs for ever: its rows are finished and the finalizer notices.
RunningEnds == []<>(cam.status # "running")

\* A scheduled campaign whose template is published starts, or is cancelled.
ScheduledStarts ==
  (cam.status = "scheduled" /\ published # 0) ~> (cam.status # "scheduled")

\* A cancel reaches every row, including the ones that were leased, inserted or
\* requeued while it happened, unless the campaign is deleted meanwhile.
CancelDrains ==
  cam.status = "cancelled" ~> (InFlight = {} \/ cam.status = "deleted")

\* The leader's loops get every campaign to its end across abandoned calls,
\* failed ticks, late rows and retries: finalizer, scheduler and canceller.
LoopsFinish == RunningEnds /\ ScheduledStarts /\ CancelDrains
=============================================================================
