# Verification of sendplane in TLA+

sendplane is an e-mail sending plane: an API, a control role and any number of
sender replicas that share nothing but a store (PostgreSQL, MongoDB or memory).
This directory holds TLA+ models of its core, the TLC configurations that check
them, and theorems about them with proofs that TLAPS checks. `PROJECT.json`
ties it together: every definition with the lines it models, every run, the
hazards of the code and the properties that watch them, the findings and the
theorems.

* [1. The system](#1-the-system)
* [2. Plan](#2-plan)
* [3. Modules](#3-modules)
* [4. Runs](#4-runs)
* [5. Fairness](#5-fairness)
* [6. Proofs](#6-proofs)
* [7. Where the code and its documentation differ](#7-where-the-code-and-its-documentation-differ)
* [8. What is not modelled](#8-what-is-not-modelled)

Run from this directory:

    tlc -workers 2 -config MCSendPipeline_send.cfg MCSendPipeline
    tlapm SendPipelineProofs.tla

## 1. The system

### 1.1 Components

| component | state | operations | works with |
|---|---|---|---|
| **delivery queue** `store/*/delivery.go` | one row per recipient: status, lease owner and deadline, next attempt, attempt count, retry generation | Claim, MarkSent, Complete, ReleaseExpiredLeases, BulkTransition, Requeue, MarkBounced/MarkComplained, InsertBatch | everybody; it is the only thing replicas share |
| **sender** `internal/sender/{sender,process}.go` | jobs in memory, per-lane capacity, caches | claim loop, worker, MarkSent, graceful stop | queue, relays, batcher |
| **retry policy** `internal/sender/policy.go` | none | Decide: status, wait and attempt of an error class | sender |
| **result batcher** `internal/sender/results.go` | results not committed yet | add, flush (Complete, then events) | queue, outbox |
| **SMTP classification** `internal/sender/classify.go` | none | Classify: a reply or a network failure to an error class | sender, retry policy, health |
| **transport health** `internal/sender/{health,cache}.go` | a circuit per replica, a shared versioned status row with a window, a cached copy of it | fail, success, probe pass, setTransportStatus, transportUsable | sender, API |
| **rate limiter, SMTP pool** `internal/sender/{ratelimit,pool}.go` | buckets, penalty factor; idle connections | reserve, penalise; get, put | sender, heartbeats |
| **campaign row** `store/campaign.go`, `store/postgres/crud.go` | status, version, content, schedule, cached stats | read; Update with compare-and-set on version; UpdateStats without it; Delete | API, control loops |
| **campaign API** `internal/api/campaigns.go`, `internal/control/campaign.go` | none between requests | start, schedule, pause, resume, cancel, retry, edit, delete | campaign row, queue, outbox |
| **control loops** `internal/control/{campaign_loops,maintenance}.go` | counters only | scheduler, finalizer, canceller, lease reaper, retention | campaign row, queue, outbox |
| **control leader** `internal/control/leader.go` | the lock row; loops running or not | acquire, renew, stop, release | runs the control loops |
| **recipient ingest** `internal/ingest/ingest.go` | chunk records (idempotency keys), counts, the recipient limit | look up the chunk, stream batches of rows into a draft campaign, record the counts | queue, campaign row |
| **outbox** `internal/control/outbox.go` | events with lease, attempts, next attempt | enqueue, claim, emit, back off, dead-letter, replay | all producers of events, the host |
| **tracking buffer** `internal/control/tracking.go`, `internal/api/tracking.go` | a bounded buffer in memory, counters; event rows and first-interaction columns | record, start, loop, flush by tenant, derive, close | public routes, store |
| **bounce poller** `internal/bounce/` | a mailbox lock, the mailbox | fetch, parse, correlate, record, mark, suppress, announce, acknowledge | queue, suppressions, outbox |
| **probes** `internal/probe/`, `internal/api/probeinbound.go` | probe runs without a version, the sender's health | trigger, enqueue, collect, inbound webhook, timeout, refresh of the summary | sender, mailboxes, outbox |
| **MongoDB delivery store** `store/mongo/delivery.go` | the delivery and attempt collections, claim tokens | Claim in three commands, sweeps in two, Complete result by result | what PostgreSQL does in one statement |
| **content, API CRUD, tokens, DNS checks, console** | configuration rows | request/response | no protocol of their own |

### 1.2 How they interact

    API handlers ----> campaign row (version) <---- scheduler, finalizer   } on the
        |  ingest          |                            canceller, reaper  } leader
        v                  v cached running set             |
    delivery rows <---- sender replicas <--SMTP--> relays   |
        ^   |________________________________________________|
        |                  |
    bounce poller          +--> outbox --> host

There is no lock around any of this. A delivery row is protected by its lease
and by the conditions of each statement, a campaign row by its version, the
control loops by the leader's lease. Handlers and loops read, decide, and write
later; rows of a campaign change without the campaign's version changing.

### 1.3 What is hard

* A job may outlive its lease and be claimed again, by another replica or by the
  *same* one, whose `WorkerID` is what `Complete` compares.
* A replica may die between the relay's 250, `MarkSent` and the batched `Complete`.
* A bounce, a cancel or an operator's retry may hit a row at any of these points.
* A relay may take a message whose reply is lost.
* Two API calls, the scheduler and the finalizer race on one campaign; the
  finalizer decides on a count that is outdated as soon as it is made; ingest and
  retry put rows in flight without touching the version.
* A call may be abandoned between any two of its writes.
* The leader may be paused, lose replies, or have a skewed clock.
* Outbox rows are leased but marked by id alone: a dispatcher whose batch outlived its
  lease, or whose round started with an old clock, marks a row another one holds.
* A cached transport row may be stored after the change that invalidated it; circuits
  of several replicas are written to one row by actors that read it earlier.
* The tracking buffer's loop, its start, its cancellation and Close race requests, and
  a flush may fail between two tenants.
* A client that got no answer sends its recipients again while the first call is still
  streaming.
* MongoDB has no multi-document statement: Claim, the sweeps and Complete stop or are
  overtaken between documents.
* A bounce handler may stop after it marked the delivery; a mail comes back, is held
  by two replicas, overtakes the commit of its own send, or is still in the mailbox when an
  operator has the message sent again.
* The inbound webhook and the collector finish the same unversioned probe run, while its
  mailbox is disabled or deleted.

`PROJECT.json` lists these as hazards, each at its line, with the properties that
would notice. Two have none: the delete race (`internal/api/campaigns.go:126`), where the
model only reproduces what the code does, and the rate limiter's arithmetic.

### 1.4 What makes each component correct

* *Send path*: a message goes out at most once per reason to send it; no delivery is
  stranded; `sent` means a relay took the message; finished rows stay finished; the
  attempt budget holds; events tell the truth.
* *Campaign*: only the drawn transitions happen, content is fixed once started,
  completion is decided on a true count, a running campaign ends, a cancel drains.
* *Leader*: one writer as long as nothing is late; a live lease is not stolen; the
  loops always come back.
* *Outbox*: every event is settled, none is lost by a late mark or by retention, none is
  dead-lettered before its budget is used up, and a repeated emission has a cause.
* *Transport health*: a window the cluster knows of is obeyed once caches are old, a
  replica in a burst of rate_limited replies is cooled, and a mended relay is used again.
* *Tracking buffer*: every record is buffered, written or counted as lost; a
  first-interaction column has its event; Close returns, and what it leaves has a reason.
* *Ingest*: a completed chunk misses nothing and counts every line once; one call
  respects the limit; a client that resends is answered.
* *MongoDB store*: Claim is as exclusive as the single statement of PostgreSQL, sweeps
  act on what a row is by then, and no broken-off call strands a row.
* *Bounces*: a delivery ends on verified evidence, each end is announced once and
  suppressed, and nothing is acknowledged unhandled.
* *Probes*: accepted mail is on record, red needs real misses, the sender shows the newest
  runs, and every run ends.

## 2. Plan

| step | modules | state |
|---|---|---|
| 1 | `RetryPolicy`, `DeliveryRow`, `SendPipeline`: the send path | done, proved |
| 2 | `LeaderLease`: who runs the loops | done, proved |
| 3 | `CampaignLifecycle`: the campaign row and everybody who writes it | done, proved |
| 4 | `Outbox`: leases without owner checks, back-off, dead letters, replay, retention | done, proved |
| 5 | `SmtpClassify`, `TransportHealth`: circuits, the shared row and its cached copy | done, proved |
| 6 | `TrackingBuffer`: record, flush, derive and close racing | done, proved |
| 7 | `RecipientIngest`: chunk idempotency, failure and replay, recipient limit | done, proved |
| 8 | `DeliveryLeases`, `MongoDelivery`: the claim contract and the store that needs three commands for it | done, refinement proved |
| 9 | `BounceParse`, `BouncePoller`: classification, correlation, fetch/mark/acknowledge | done, proved |
| 10 | `ProbeRuns`: triggers, collector, webhook, verdict and summary | done, proved |
| 11 | the two refinements below | open |
| 12 | retention of campaign rows, the limiter's shares | open |

Abstract specifications: `DeliveryLeases` is implemented by `MongoDelivery`. Two more are
worth stating: an at-least-once mailer (a message is accepted at least once and at most
once per cause), refined by `SendPipeline` with `accepted` and the causes as the
mapping, and a mutex with faults, refined by `LeaderLease`, to replace the
scheduler and finalizer sets of `CampaignLifecycle` by the leaders of `LeaderLease`.

Theorems still to prove: the two refinements. Every invariant and every action property
that a passing run checks has its theorem.

## 3. Modules

### RetryPolicy

`Policy.Decide` as an operator from an error class and the attempts at claim
time to the set of possible decisions; jitter is the only choice. `MaxOf` is the
budget after the default for zero or negative settings, `BackoffFor` the
schedule with its last entry repeated, `WaitFor` the rate-limit cap.

### DeliveryRow

One row and one operator per statement of `DeliveryRepo`, each split into its
WHERE clause (`Claimable`, `CompleteApplies`, `MarkSentApplies`, `Expired`,
`Cancellable`, ...) and its SET clause (`Claimed`, `Completed`, `MarkedSent`,
`Released`, `BulkCancelled`, `Requeued`). Times are kept as distances to now:
`lease` counts down to -1 because the reaper's comparison is strict, `wait` to 0.
`Complete` compares `lease_owner` and nothing else; `MarkSent` keeps the lease;
`BulkTransition` leaves the lease columns alone: these three facts carry most of the
argument in section 6.

### SendPipeline

The rows, the replicas and everybody else who writes the rows.

| variable | in the code |
|---|---|
| `rows` | table `delivery` |
| `jobs` | `job` values in lanes and workers (`claimed`, `accepted`) and `batcher.buf` (`done`) |
| `replica` | `Sender.Run`: up, draining, gone |
| `running` | `runningCampaigns` cache of each replica |
| `campaign` | the campaign's status as far as senders see it |
| `retrying` | RetryDelivery requests between their check and their requeue |
| `events` | `delivery.sent` / `delivery.failed` rows in the outbox |
| `accepted`, `released`, `lost`, `reached` | history |

Claim, the SMTP exchange (`SendAccepted`, `SendFails`, `SendReplyLost`), the
`MarkSent` outcomes, `Flush` with its events, and the giving up of claimed jobs are
separate steps; `RefuseToSend` and `Postpone` are the exits of `process` before
SMTP. A batch claim is a run of single claims, as nothing the model talks about
depends on claims of two rows being simultaneous. `Flush` is one step because
`Complete` is one transaction; two results of one row in one batch leave the choice
to the store. A tick during which a job outlives its lease costs a fault.

### CampaignLifecycle

One campaign row, the statuses of its deliveries, and one record per handler or
loop in the middle of an operation. `Begin` is the read with the checks that
follow it, `Update`/`Conflict` the compare-and-set, `Enqueue` the event after it,
`Abandon` the end of a call anywhere. `Requeue`, `IngestBatch`, `Count` and
`UpdateStats` are the steps operations have besides. The checks between reading
and writing (recipient count, published version) are folded into the read,
because the write only succeeds if the row did not change; deliveries are never
fewer later on, and published versions never disappear. `Delete` carries no
version. Delivery statuses are reduced to what the campaign depends on; `marked` is a row in
status sent whose lease `MarkSent` has left (`Settle` is the `Complete` that follows). While the
lease is there, the result of an earlier claim of the same worker passes `Complete`'s comparison
and puts the row back in the queue or to failed (`LateResult`): no version changes, and the row
may be in flight again after the count that completes the campaign.
`fresh` and `late` are history: the rows put in flight since a finalizer's count, and
since the count that completed the campaign.

An edit writes the version its client sends. The model lets clients send the
current version or one that is out of date, i.e. versions they have read.

### LeaderLease

The lock row as owner and remaining time, each replica's `Leader` as a program
counter, its renewal ticker and its clock offset: `Acquire`, `Renew` and `Release`
of `LockRepo` compare with the *caller's* now. Being late for a renewal, or still
stopping when the lease ends, costs a fault, as do lost replies, failed renewals
and crashes.

### Outbox

The events of one tenant and the two dispatchers of the leader, `outbox` (active
tenants, every second) and `outbox-sweep` (all tenants, every ten).

| variable | in the code |
|---|---|
| `rows` | table `outbox_event`; `absent` before Enqueue, `deleted` after retention |
| `hand` | the batch of each dispatcher's tick, per event: `claimed`, `ready` or `unwanted` after `subscribed`, `taken` or `refused` after Emit |
| `wanted` | the tenant's `event_types` |
| `replaying` | ReplayEvent requests between their check and their Reset |
| `taken`, `emits`, `failures`, `overdue`, `resets`, `retired` | history |

`ClaimPending` is the beginning of a tick, `Subscribed` the settings filter, `Emit` the
sink's answer, `MarkDelivered` and `MarkFailed` the marks by id, `Lose` everything that
drops jobs without a mark. A round reads the clock once (`tickTenants`) and then walks
the tenants, so a claim is made with a now that is `lag` old: the lease it writes is
shorter by that, and so is the back-off after a failure. Times are distances to the
real now and stop at `-MaxLag`, below which no comparison tells them apart. A sink may
take an event and still return an error.

### SmtpClassify and TransportHealth

`SmtpClassify` has the rule table of `classify.go` as a sequence of rules, `RuleMatches` and
`Classify`: the first rule that matches decides. `TransportHealth` feeds replies through it.

| variable | in the code |
|---|---|
| `row` | status and status_until of table `transport` |
| `circuit` | `transportHealth` of each replica: failures, status, next probe, rate_limited replies |
| `copy` | the cached row with its age (`cache.get`) |
| `job`, `fresh` | where each worker or probe pass is; whose read of the row no write has overtaken (the version) |
| `relay` | external: what the relay answers |
| `settled`, `recovered` | history: ticks since the row was written; circuits that came back from unhealthy and have not cooled down since |

`Lookup`, `Fill` and `Attempt` are a delivery's way through `process`, `Probe` the pass of
`probeTransports`; whoever changes the circuit reads the row (`ReadRow`) and writes it
(`UpdateRow`), with one retry after a conflict. `Copy` is stamped when the load *began*,
which is what bounds the staleness of a fill that lost a race. `PeerWrites` lets
replicas outside the model write any status their own circuits could have, and `UpdateTransport`
is the operator. Times are ages or what is left of a window. Of the rate_limited replies a
circuit keeps the ages of the newest `RateThreshold`, `Pruned` for one that has left the
window: whether the threshold is reached is the age of the last of them, whether the window
is clear the age of the first.

### TrackingBuffer

Per replica the buffer, its life (started, closed, cancelled), the flush of the loop and
the one of Close, and the counters of `TrackingStats`; in the store the events and the
first-interaction columns. `Track` and `OneClickUnsubscribe` are the public routes
for a token that verified, `Record` is the part they share, `Overflow` the drop of the
oldest. A flush swaps the buffer and then goes tenant by tenant (`InsertEvents`, which may
fail, then `DeriveFirst` per event). Close is two steps: up to the unlock (`Close`), where it learns
whether there is a loop, and the wait for that loop (`LoopDone`) or a flush of its own (`FinalFlush`);
`Start` may come between them. `joined` says which of the two Close chose, and `ended` is history, the
stamp of the loop's last swap. `PeerFlush` is another replica's flush. An event is stamped
with a clock that counts events, so buffers and batches are sets: the stamps order them, and the
oldest is `Earliest`.

### RecipientIngest

`rows` are the addresses that have a delivery row, `chunk` the records of the
idempotency keys, `calls` the handlers. `Ingest` is the beginning of a call, then
`LookUpChunk`, the count of existing rows, one line at a time (`Take`), `Flush` of a full batch,
and the record of the counts. `IngestFails` is a store error or a cut connection anywhere, with
or without the store call having taken effect. `CampaignStarts` ends the time in which rows
are accepted. `claimed` and `overlap` are history.

### DeliveryLeases and MongoDelivery

`DeliveryLeases` is what `Claim` promises: a row is leased while nobody holds it, and a
lease is given to one claimer at most. `MongoDelivery` is the store that needs three
commands for it: `ClaimFind`, `ClaimUpdate` document by document with the call's token, and
`ClaimRead` by that token. The sweeps (`ReleaseExpiredLeases`, `OperatorSweep` for
BulkTransition and a campaign's Requeue) find ids and update them later (`SweepUpdate`), Complete is
one update per result and one insert. `RetryDelivery` looks at one row, which may be finished in
any way, and requeues it by its id whatever it is by then. `given` is history, and
`Contract == INSTANCE DeliveryLeases WITH held <- Held` the refinement mapping: `held` are
the documents that are leased. Rows and results are those of `DeliveryRow`.

### BounceParse and BouncePoller

`BounceParse` is `Classify` and `correlate` on what the MIME walk collects of a mail: the
feedback type, the status blocks, codes and kinds of phrases, VERP addresses with the
key that signed them, and returned headers. `BouncePoller` is a mailbox, a
tenant's or the platform's, two or more replicas that take its lock, fetch a batch, and take each
mail, the oldest first, through `Handle` call by call: correlate, record, mark, suppress for the
tenant, suppress for the platform, enqueue; then acknowledge what was handled. A batch is the set of
its mails: they are numbered as they arrive, and `Fetch` returns the oldest `FetchBatch`. Locks run out, fetches,
store calls and acknowledgements fail, replicas crash, and the sender may commit `sent`
after the mail arrived. What an acknowledgement does depends on the `kind` of the mailbox: IMAP marks
the mail, POP3 deletes it when the session is closed (`Close`, whose QUIT may fail), and POP3 with
`keep` does nothing at all. `RetryDelivery` takes a finished delivery back to the send path, after which
it is sent again and an old report of it may end it once more. `ends`, `broken` and `early` are history:
how often a delivery ended, how often a handler stopped after the mark, and the mails that were looked
at before the send they now meet.

### ProbeRuns

The runs of one sender. `Tick` and `TriggerProbeRun` start them (`Enqueue`, `Create`),
`CollectStep` is the leader's collector, `Post`, `Complete` and `Defer` the
inbound webhook with its memo of seen mails, and `Refresh` the summary: it
reads the runs, then the sender, writes with its version up to three times and
enqueues the event. Runs have no version, so webhook and collector may both
finish one. `Expire` is the timeout of a run, `Arrive` its mail. `ChangeMailbox` enables, disables
or deletes a mailbox at any time: `Begin` goes by what is enabled then, and makes a DNS-only run
when nothing is, whose own status is written on the sender; the collector opens what exists and
closes the late runs of a mailbox without a row as undelivered (`CloseOut`). The webhook takes the mail of
any run, whatever the kind of its mailbox. A run may be written while the answer is lost (`CollectLost`, the
second half of `Defer`): then nobody refreshes the sender on its account. History: `answered` mails,
`missed` runs (mailbox open, no mail), `orphaned` runs (closed without a mailbox row), the DNS-only run that
`spoke` last for the sender, `rumours` (events without their change) and `behind` (the last refresh was lost
or out of date).

### MC modules

`MCSendPipeline`, `MCCampaignLifecycle`, `MCLeaderLease`, `MCOutbox`, `MCTransportHealth`,
`MCTrackingBuffer`, `MCRecipientIngest`, `MCMongoDelivery`, `MCBouncePoller` and
`MCProbeRuns` only name model values, operation mixes, the letters in a mailbox and the
bodies of chunks.

## 4. Runs

| run | expected | shows |
|---|---|---|
| `send` | pass | two replicas, one campaign delivery: `SendLedger`, `AttemptBudget`, `EventsDescribeTransitions`, `SettledStaysSettled`, and `EventuallySettled` under `FairSpec` |
| `campaign` | pass | two concurrent API calls of any kind against scheduler, finalizer, canceller and senders: `FollowsLifecycle`, `CompletedIsAccounted`, and `LoopsFinish` (running campaigns end, due ones start, cancels drain) |
| `leader_lease` | pass | `OverlapNeedsFault`, `LeaseNotStolen`, `LeaderComesBack` for three replicas |
| `outbox` | pass | both dispatchers on one event: `OwedIsKept`, `DeadLetterIsEarned`, `EmitHasCause`, `EventuallySettled` |
| `transport_health` | pass | `ShutStaysShut`, `BurstsAreCooled`, `EventuallyRouted` |
| `tracking_buffer` | pass | `EveryEventCounted`, `FirstsHaveEvents`, `CloseFlushes`, `CloseReturns` |
| `recipient_ingest` | pass | `CompletedIsIngested`, `LimitNeedsOverlap`, `EventuallyAnswered` |
| `mongo_claim` | pass | `ClaimIsExclusive` (the refinement), `BusyIsNotSwept`, `EventuallySettled` |
| `bounce_poller` | pass | POP3 mailboxes and an operator's retry: `EvidenceFirst`, `FollowedThrough`, `AckedIsHandled`, `EventuallyAcked` |
| `probe_runs` | pass | `AcceptedIsRecorded`, `RedNeedsMisses`, `SummaryIsCurrent`, `EventuallyFinished` |
| `retry_race` | violation | `CompletedIsFinished` |
| `bounce_lost` | violation | `FirstDidTheWork` |

The runs of `TrackingBuffer`, `RecipientIngest`, `BouncePoller` and `ProbeRuns` check their type
invariant as well, in which a bound of the code shows (`MaxBuffer`, `BatchSize`, `FetchBatch`, the
attempts to write the summary); for the others it is only a theorem. So are `DuplicateHasCause`, `LeaseMatchesStatus`, `SentWasAccepted`,
`SentEventWasAccepted`, `ContentIsPinned`, `EventsFollowCommits` and `CompletedStatsAreFinal`,
which no run repeats.

Every property of a passing run also has a mutant in the module it concerns (an
operator marked *Mutant*, never used by the specification): a plausible slip in the
code, under which TLC must find the property violated.

### Bounds

* *SendPipeline*. Rows are independent except inside a batch, where the proofs cover
  any number of them, so the run has one row, of the campaign.
  Two tickets are two jobs of one row at the same time, which is what a late result
  needs. `LeaseFor` is one tick (valid, at the deadline, expired: the three cases the
  comparisons tell apart), `MaxAttempts` 2 and a one-entry schedule reach retry, last
  attempt and a schedule shorter than the budget. `MaxFaults` bounds crashes,
  stops, overruns, lost replies, failing commits and operator retries *together*; a
  late result needs one. A late result with a crash or a retry on top of it needs two:
  the safety properties also hold with `MaxFaults` 2 (546,115 states up to symmetry,
  too many for the liveness properties), and the proofs cover any number.
  The counters that would otherwise be unbounded (`accepted`, `gen`, `attempts`) are
  bounded through it.
* *CampaignLifecycle*. One recipient, two callers that race; `MaxCalls` 3 is ingest and
  start plus one call against loops that are under way, or two calls that race on a
  draft. `MaxPublished` 1 tells "names only its template" from
  "names a version". `RetryChunk` 1 makes a chunk full with one row, `MaxRetryChunks`
  2 lets a retry go on after it. A late result costs one of the calls. Deadlock is not checked: a completed, cancelled or
  deleted campaign whose callers have used up their calls really stops.
* *LeaderLease*. Three replicas (old, new and a bystander), a ttl of three renewal
  periods as in the code, a skew of one tick, three faults.
* *Outbox*. One event: events share nothing but the batch they are claimed in, and the
  proofs cover any number. Both dispatchers, a lease of two ticks and a lag of up to
  two, so that a lease may be over when it is written; `MaxAttempts` 2 and a
  one-entry schedule; `MaxAge` 3, from where on a failed job is due at once. `MaxFaults` 2
  bounds slow batches, old clocks, lost marks, replays, changed subscriptions, failed
  settings reads and refusals of a taken event together: a takeover needs one, a
  takeover of a replayed or lost event two.
* *TransportHealth*. One replica with a worker and its probe pass; its peers write the row
  freely, which includes everything modelled peers could do. `Threshold` and
  `RateThreshold` 2 tell the first failure from the one that opens the circuit,
  `RateWindow` 1, `ProbeEvery` 2 and `CacheTTL` 2 let each of them end before and after the
  others (920,880 states). One upset: a restart, an operator's edit, a failed store call, or a late write of a peer.
* *TrackingBuffer*. One replica next to `PeerFlush`, two deliveries of two tenants (a flush
  fails for one and goes on with the other), `MaxBuffer` 2 and `MaxRecords` 3: the third
  record overflows. One outage of the store. About a million states.
* *RecipientIngest*. Two callers, two chunks that share an address, one with a line that
  does not parse, `BatchSize` 2, and a limit of 2 recipients below their union. Two
  faults: a failed call and a failed repetition.
* *MongoDelivery*. Two claimers of *one* worker ID, the case the token is for, two rows, `Limit`
  2, `MaxAttempts` 2, one fault (a retry or a cancel is one); 1,115,594 states. Four tokens: one for each row and each claimer, so that one is
  always unused. `LeaseFor` is 0, and a lease ends by `LeaseRunsOut`: under a job that is still
  alive it costs a fault. A reaper that fails while it releases such a lease takes two faults
  and is left to the proofs.
* *BouncePoller*. Two replicas, two tenants, a delivery of the first through the shared relay, a mailbox of
  either tenant or of the platform, two mails out of three letters (a signed hard bounce, one with a
  forged address and genuine headers, a complaint), batches of two, one fault, one operator retry: enough
  for a delivery to end, be sent again and meet its old report. The kinds are those of POP3, where mail
  comes back until the session is closed, or for ever; IMAP, which marks at once, is in `bounce_lost`, with a
  delivery of the other tenant that is a probe. 1,127,383 states.
* *ProbeRuns*. Four set-ups of mailboxes and DNS, two runs, one webhook request at a
  time against the collector, `FailuresForRed` 2, two attempts to write the summary (the code
  makes three: one conflict and its repetition are reached with two), one fault: a failure, a crash, an
  edit of sender, configuration or mailbox, or a manual trigger (764,613 states). Red for want of mail
  takes both runs. A mail shows a good result, which the DNS layer may dim: the safety properties
  were also checked with one that fails DKIM (2,749,474 states). Two mailboxes that change, or
  a change and a failure, are left to the proofs. Deadlock is
  not checked: a sender whose runs are used up really stops.

## 5. Fairness

* `SendPipeline`: weak fairness of the clock, of the reaper's and canceller's
  tickers, of each job's next step (every call in `process` has a timeout), of the
  flush timer, of claiming a claimable row (Claim takes rows in order of their due
  time, so a due row is not overtaken for ever), and of the orchestrator restarting
  a replica. Crashes, faults and operators get none.
* `CampaignLifecycle`: weak fairness of calls that have begun, of the loops'
  tickers, of the canceller, of the senders' cache refresh and claims, of the schedule
  time coming. `Finish` has strong fairness: a delivery can be put back by
  the policy or the reaper only so often (the attempt budget of `SendPipeline`), so it
  is not put back for ever. Callers may abandon at any time; loops' failures are
  bounded by `MaxCalls`.
* `Outbox`: weak fairness of the clock, of a batch once it is claimed (the webhook sink
  has a timeout, `cmd/sendplane/events.go:52`, and a host's own sink must return), and of the sweep's ticks, which visit every tenant as
  long as a replica leads (`LeaderComesBack`). The fast loop gets none for claiming: it
  may never see the tenant again.
* `LeaderLease`: weak fairness of the clock, renewals, stopping, releasing and
  trying to acquire. Replicas may shut down at any time, and faults are bounded.
* `TransportHealth`: weak fairness of the clock, of the probe pass (it runs on the sender's
  refresh ticker) and of status writes that began. Nothing is assumed of deliveries:
  `EventuallyRouted` must hold with no traffic.
* `TrackingBuffer`: weak fairness of the loop's goroutine and of Close; not of requests.
* `RecipientIngest`: store calls return, and a client without an answer sends its body again.
* `MongoDelivery`: weak fairness of the claim loops, the batcher, the reaper, and of leases
  that nobody works under running out.
* `BouncePoller`: weak fairness of each poll loop, which never returns, and of the end of a lease
  nobody renews; retries and arrivals get none.
* `ProbeRuns`: timeouts pass, the collector runs as long as a replica leads, refreshes
  and webhook requests are carried through. Triggers and mail get none.

## 6. Proofs

TLC's runs are small instances. The theorems hold for every value of the
constants that satisfies the named assumptions: `PolicyAssumption`,
`RowAssumption`, `PipelineAssumption` (a finite set of tickets, `Bulk` a subset of the
rows, filters made of statuses), `OutboxAssumption` (finitely many dispatchers, a
positive budget, a schedule of durations), `MongoAssumption` (finitely many rows, a positive claim limit and budget), `LeaseAssumption` (the renewal period is shorter
than the ttl) and `LifecycleAssumption` (callers, schedulers and finalizers are
different and finitely many, chunk sizes positive). TLC evaluates them on every run.

`SendPipelineProofs`

* `TypeCorrect`, `LeaseColumnsMatch`, `SentIsEarned` from the inductive invariant
  `SendInv`: types, the lease columns, *sent was accepted*, and `JobsHonest`: a job
  past SMTP, or an uncommitted result that says `sent`, belongs to a message a relay
  took. Without `JobsHonest` a batch could commit `sent` out of nowhere.
* `LedgerBalances`: `SendLedger` says that acceptances, tickets that can still lead
  to one, and the row itself if it is waiting, together stay within the causes. The
  sum is what makes at-least-once inductive: a claim moves one unit from the row to a
  ticket, an acceptance from the ticket to the counter, a requeueing result back to
  the row; only the reaper, an operator's retry and a lost reply add one, and each is
  a cause. `DuplicatesHaveCauses` follows.
* `SentEventsAreEarned`: the events of a batch come from its results, and `JobsHonest`
  holds for results that `Complete` will ignore as well.
* `BudgetIsKept` from `BudgetInv`: `JobsAreOwed` (jobs and queued rows are traded for each
  other, only a taken-back lease or a retry adds one), `AttemptsAreOwed` (the attempts counted
  and those the open jobs can still add) and `ResultsAffordable` (a result that would defer was
  decided with budget left). The attempts column alone is not inductive: what breaks it
  is a result that is still on its way.
* `SettledRowsStay`: a finished row that is unleased, or whose lease was never disturbed,
  fails every compare-and-set but that of a bounce of a sent message and a retry. For the leased
  ones it needs `CurrentJobs`: an undisturbed row has at most one job, and it is the
  one the row was leased for.
* `EventsAreTransitions` from the same invariant: for an undisturbed row the result in a batch is
  the one `Complete` applies, or `MarkSent` has committed it.

`DeliveryRowProofs` has the lemmas on the statements of `DeliveryRow` that this module and
`SharedRowProofs` share.

`ControlProofs`: the lease and the campaign

* `LeaseExcludes`: with no fault and no skew, `CoveredWriters` is inductive: every
  writer owns the lock with more time left than its own renewal timer needs.
* `LeaseIsNotStolen` for any skew and any number of faults.
* The theorems about the campaign rest on `LifecycleInv`: each call's step fits its operation
  (`StepOK`), what it will write is what `Changed` makes of the row it read
  (`WantOK`), a call whose version still matches has read the row as it is, except
  for stats and the passing of the schedule time (`SnapshotOK`), and a finalizer with a
  positive verdict knows that whatever is in flight is in `fresh` (`VerdictOK`).
* `StatusFollowsLifecycle`: a write happens on the status the operation accepted.
* `StartedContentIsPinned`: a write on a started campaign keeps the content; with
  `StartedBound`, there is one.
* `CompletionIsAccounted`: for any number of finalizers, even overlapping ones,
  what is in flight in a completed campaign came after the completing count.
* `EventsHaveCommits`: each event with the calls still to enqueue it never exceeds the commits
  of its kind; the calls between commit and event are what makes it inductive.
* `CompletedCountsStay` assumes `OneFinalizer`: whoever is between count and write is the
  finalizer that completes the campaign, so that no older count is left to be written.

`EventProofs`: the outbox and the tracking buffers

* `EventSteps` reduces every step to what it does to one event; `OutboxInv` is then
  kept event by event. It adds to the properties: a batch passes the filter as a whole
  (`BatchOK`, or the filter could reopen a settled job), only pending rows are leased, a
  job's stage and attempts are true (`JobsHonest`), and the attempts column together
  with the failures on their way to it never exceeds the failures
  (`AttemptsCounted`: MarkFailed adds to whatever the row holds by then).
* `OwedEventsAreKept` and `DeadLettersAreEarned`: a late mark can overwrite a newer one,
  but only with an outcome that happened.
* `EmissionsHaveCauses` balances like the send ledger: a claim trades a due row for an
  open job or takes an overdue lease, an emission uses up an open job or comes with a
  failure, MarkFailed trades its job for a due row.
* The theorems about tracking rest on `TrackInv`. `NoEventDisappears`: `EveryEventCounted` is a sum of
  sizes, and a set keeps its size only if nothing falls together in it; `BufferInv` (the stamps
  in a buffer tell its events apart, none is newer than the clock) makes every record add one and
  every overflow take one away. A swap moves the buffer to a batch, an insert moves one tenant's
  part of a batch to a counter.
* `ColumnsAreBacked`: what a flush still has to derive is in the store, of a derived kind and not a
  bot's (`DerivedFromStored`); `Earliest` takes the column's stamp from there.
* `CloseLeavesLittle`: `Ending` relates the loop, Close and the buffer in each stage of a shutdown. A loop
  that stop ended has swapped after `closed` was set, so nothing is recorded behind it; behind one that
  its context ended, what is buffered is newer than its last swap. A Close that found a loop waits for
  it; one that did not swaps the buffer itself after `closed` was set, and only a loop started since may
  still hold a batch.

`SharedRowProofs`: the MongoDB deliveries and the status row of a transport

* `MongoImplementsLeases`: every step of the three commands is a step of `DeliveryLeases` or a
  stutter. It rests on `TokenInv`: two calls never share a token (`TokensDistinct`), and a document
  that carries the token of a call under way was leased by that call and has not been given yet
  (`TokensUngiven`). An owner in place of the token would not do: two claimers of one
  `WorkerID` would read each other's rows.
* `SweepsSpareBusy`: a sweep changes a document only if the filter that `UpdateMany` repeats still
  matches it. For a leased or a sent row these are the reaper's, once the lease ran out, a retry whose
  filter names that status, and a retry of the delivery itself; what remains is the result of an owner.
* The theorems about the transport rest on `HealthInv`. `ShutIsObeyed`: a copy that is younger than the
  row's last write *has* the row (`CopiesAreRecent`), and so has a load, aged by the time it took
  (`LoadsAreRecent`). A copy never reaches `CacheTTL`, so a row that nobody wrote for `CacheTTL` is what
  every copy has, whichever fill came after whichever invalidation. The argument needs the
  stamp to be that of the lookup: with the time of the store in its place `LoadsAreRecent` would not
  carry over to the copy.
* `BurstsStayCooled`: the reply that fills the window opens the cooldown, and `Success` lifts it only when the
  *newest* reply is past the window, which is younger than the one the threshold asks for
  (`RatesInOrder`). A circuit that was unhealthy is the exception, in the code and in the property: it
  recovers in the middle of a burst (`recovered`). A restart forgets the burst. `HealthTypeCorrect` comes with it: all windows stay within `ProbeEvery`.

`IntakeProofs`: recipients and bounces

* `CompletedChunksAreIngested` from `IngestInv`. The property speaks of completed chunks only, which
  no step's guard looks at; what is inductive is `LinesAccounted`: every call has accounted for each
  line it consumed, with a row or a place in its batch for the recipient, and one of its three counts
  or a place in the batch for the line. A call that fails halfway leaves rows behind that nobody has
  claimed, so `claimed` is at most the rows, and equal to them until the first failure.
* `LimitHoldsAlone`: while no two calls have overlapped, the one that is served started from the
  true number of rows, and its count, its batch and the limit stay in order (`AloneInLimit`).
* The theorems about the bounce poller rest on `BounceInv`. An arrived mail is what the parser made
  of its letter (`MailsParsed`), and a mail speaks for the delivery it is correlated with exactly when
  its correlation verifies (`VerifiedSpeaks`, for every letter). A session about to mark holds a
  verified hard bounce or complaint and has its event on record (`SessionOK`).
* `EndsHaveEvidence`: the mark is the only way into the end states, and `SessionOK` has the evidence.
* `EndsAreFollowedThrough`: a ledger (`DeliveryOK`). The compare-and-set lets one session in for each end of a
  delivery, and that session either announces it, is still at it, or stopped: events, handlers that
  stopped and sessions past the mark add up to the ends. A delivery that was retried may have two sessions
  at two of its ends, so the sum is what is inductive, not that there is one of them.
* `AckedMailsAreHandled`: what a session handled is `Settled`, that is, the mail came early or the delivery
  it concerns has left sent, to which it returns only by a retry that makes the mail an early one. `DecidedNotToMark` shows it of every exit
  of `Handle` that does not mark: the tenant it runs in is the delivery's own, or the row is gone.

`ProbeRunsProofs`

* All four theorems rest on `ProbeInv`: each session knows the run it is at (`SessionOK`), what a
  refresh will write is what it should write unless somebody wrote a run since (`RefreshOK`: the summary, or
  for a trigger the status of its DNS-only run), two creators never hold the same id (`CreatorsDiffer`),
  what was accepted is finished, and a finished run without its mail was missed or orphaned unless its
  mailbox did not open (`MissesKnown`).
* `RedTakesMisses`: the streak that turns a run red is counted from finished runs that the
  collector missed or orphaned (`RedKnown`), and a later verdict on one of them does not undo it. A run is
  orphaned only by a pass that found no row, and a deleted mailbox stays deleted (`OrphansKnown`).
* `SenderShowsTheSummary`: with nobody at work and nothing lost, the last refresh read every
  finished run, or it was a DNS-only run's and that run is finished (`SpokeOK`); until then an actor is at
  work, or `behind` says that the refresh was lost or overtaken.

`Counting` holds the facts about cardinalities that the ledgers and batches use, and that a
nonempty bounded set of numbers has a smallest and a largest element.

The assumptions of these modules: `IngestAssumption` (finitely many handlers and keys, a body for each
key, a positive batch size), `PollerAssumption` and `LettersAssumption` (the names of tenants, deliveries
and replicas differ; a letter may say anything, but names deliveries and tenants of the model),
`ProbeAssumption` with `NoRunAssumption` (the actors differ, a missing run, id or mailbox is none),
`TrackingAssumption` (each delivery has a tenant, a buffer holds at least one event) and
`TransportAssumption` (each actor has a replica; thresholds, the probe interval and `CacheTTL` are
positive; no window is not the length of one).

Only model-checked: all liveness (out of TLAPS's reach here, as is ENABLED), that is
`EventuallySettled`, `LoopsFinish`, `LeaderComesBack`, `EventuallyRouted`, `CloseReturns`,
`EventuallyAnswered`, `EventuallyAcked` and `EventuallyFinished`.

## 7. Where the code and its documentation differ

Two have a run whose counterexample shows it, and an entry under `findings` that quotes
the line.

* `retry_race`: a campaign retried while the finalizer is completing it ends up
  completed with queued rows that nobody claims. An ingest that outlives draft
  (`internal/ingest/ingest.go:209`) gets there as well: its rows stay pending for ever.
* `bounce_lost`: a bounce handler that stops between the mark and the event leaves a
  delivery that is terminal; the redelivered mail is taken for a repetition, and
  neither suppression nor event are made up for.

The others were met while modelling. The models contain them, and the properties
are stated around them.

Send path and campaigns:

* A late result of an earlier claim of the same `WorkerID` can move a `sent` row back to the
  queue (`store/postgres/delivery.go:467`), and events are enqueued for results `Complete` ignored
  (`internal/sender/results.go:176`). Both need a disturbed lease, which is what
  `SettledStaysSettled` and `EventsDescribeTransitions` except: neither would notice more of it. In a
  completed campaign such a row is in flight and never claimed; `CompletedIsAccounted` counts it among
  what came after the completing count.
* A campaign started between DeleteCampaign's check and its delete is deleted while
  running (`internal/api/campaigns.go:126`).
* A paused or slowly stopping leader is still writing when the next one starts
  (`internal/control/leader.go:152`); `OverlapNeedsFault` says that it takes one of these.
* RetryDelivery on a delivery of a completed campaign queues it without putting
  the campaign back to running (`internal/api/deliveries.go:190`); it breaks
  `CompletedIsFinished` like the races above, without any race.
* Deleting a campaign leaves its deliveries (`internal/api/campaigns.go:126`),
  where `api/openapi.yaml:1575` says that recipient data goes with it.
* With two finalizers, i.e. during an overlap of leaders, the slower one's unversioned
  UpdateStats overwrites the final counts of a completed campaign
  (`internal/control/campaign_loops.go:145`, against the comment at line 184).
  `CompletedCountsStay` therefore assumes one finalizer.

Outbox:

* `internal/control/control.go:165` says of the two outbox loops that they "never
  deliver the same event twice"; they do when a batch outlives its lease or was claimed
  with an old clock. `EmitHasCause` says how often.
* `internal/api/lists.go:243` promises a replayed event a full attempt budget. A
  dispatcher that still holds the event from before the replay marks its failure on the
  new row, and if that failure was the last of the old budget, dead-letters it at once.
  `DeadLetterIsEarned` therefore counts the failures of an event over all replays, and does not
  notice a dead letter that is early by the budget of the last replay.

Transport health:

* A replica whose circuit is already unhealthy does not write the row again, so further
  failures do not push `StatusUntil` out, which a comment in `setTransportStatus`
  (`internal/sender/health.go`) describes.
* Connection failures classify as transient and never open the circuit, where
  `internal/sender/health.go:13` and `docs/architecture.md:607` name connect failures.
* A replica that restarts forgets that it was the one to shut the transport: the row stays
  unhealthy until its window has passed.

* `internal/sender/health.go:129` says that an unhealthy transport recovers only "after a successful
  probe". A delivery that was under way when the circuit opened calls `success` as well when it is
  accepted (`internal/sender/process.go:211`) and closes the circuit, even in the middle of a burst of
  rate_limited replies; `BurstsAreCooled` excepts a circuit that came back from unhealthy.

Tracking and ingest:

* A record made after a cancelled context ended the loop and before Close is still in the buffer when
  Close has returned (`internal/control/tracking.go:169`), whereas its comment says that it "writes whatever
  is still buffered". Control.Run calls Close after its context is done, so requests served in
  between take this way.
* A start between Close's look at `started` and its final flush (`internal/control/tracking.go:163-171`)
  leaves the batch to a loop that Close does not wait for: Close may return while it is being written.
  `CloseFlushes` allows these two and nothing else.
* A completed chunk that is sent again after the campaign started is answered with a
  conflict, not with its counts, and a slower call with the same key can put a completed
  chunk back to pending.

Bounces and probes:

* A bounce that arrives before the sender has committed `sent` is skipped and acknowledged
  for good (`internal/bounce/process.go:214`); `AckedIsHandled` excepts it.
* A POP3 mailbox with the default `keep` returns the oldest `FetchBatch` mails to every poll
  (`internal/mailbox/pop3.go:121`); what is behind them is never handled, whereas the comment at line 29 says
  that every poll re-delivers everything. `EventuallyAcked` therefore speaks of the other kinds.
* An old report that is still in the mailbox, or comes back, ends a delivery that an operator has sent
  again (`internal/api/deliveries.go:186` accepts bounced rows): the host hears of a second
  bounce that never happened. `FollowedThrough` counts the ends; that the second one is of an old mail
  it does not say. The comment at `internal/mailbox/pop3.go:30` has the processor idempotent because a
  delivery is only transitioned once.
* A late collector can overwrite the delivered verdict of a webhook with a timeout, as
  runs have no version (`store/probe.go`, `internal/probe/run.go:735`), and an error while
  searching a mailbox for a late run closes it as undelivered.
* A probe mail posted before its run's row exists is ignored; a change of configuration
  during a probe may not lead to another one.
* A mailbox that is deleted while its runs wait is never opened, and its runs are closed as undelivered
  (`internal/probe/run.go:541`): enough of them turn the sender red though nothing was missed. `RedNeedsMisses`
  allows it against a deleted mailbox only. That a late verdict overwrote a miss, or a miss a
  verdict, no property notices: `AcceptedIsRecorded` asks only that the run is finished.
* The summary counts the last runs of mailboxes that were deleted or disabled, and
  DNS-only runs, for ever: the yellow or red of a DNS-only run stays in the summary of later runs
  of mailboxes, and a DNS-only run writes its own status over what mailboxes said
  (`internal/probe/run.go:884`). A refresh that is lost, also because only the answer of the run's update was
  lost (`internal/api/probeinbound.go:299`), is made up for by the next run only. `SummaryIsCurrent` excepts lost and overtaken refreshes.
* A refresh that meets a conflict reads the sender again but not the runs (`internal/probe/run.go:998`): a
  collector that closed a run as timed out writes its old summary over the one the webhook made of the
  mail, although "a probe verdict must not be the write that gets dropped" (line 991). This takes no
  failure, and it is the overtaken refresh that `SummaryIsCurrent` excepts.

## 8. What is not modelled

* The rate limiter (token buckets in floating point), the SMTP connection pool, mailbox
  health, worker heartbeats, and retention of campaign rows. Their effects on what is
  modelled are choices of the environment: `Postpone` is the open circuit and
  every internal deferral, a broken connection is an SMTP failure, `DeleteBefore` removes a delivery
  under a bounce that is being handled.
* Retention of tracking_event and BounceEvent rows: `FirstsHaveEvents` and `EvidenceFirst` hold until it
  deletes the rows they speak of. An edit that changes the kind of a probe mailbox is not modelled
  either: runs keep the kind their mailbox had.
* Several tenants and lanes in the send path: the rows of a tenant are never touched by
  another's statements; round-robin between tenants only delays a claim.
* Text, MIME, DKIM, templates, tokens, DNS, mailbox protocols, the console: data
  transformations or I/O without a protocol of their own. Configuration rows, the platform
  overlay, the column mappings of three stores and the API's request
  decoding are CRUD. Together with generated code (`internal/api/gen.go` alone is a
  third of the Go source) and the store conformance suite (`store/storetest`) they are
  most of the repository's lines, which is why the map names a small share of
  them although it covers the stateful protocols.
* An ingest without an idempotency key: it has no chunk, and its rows are the ones
  `CampaignLifecycle` lets arrive.
* The memory store runs each call under one lock and does in one step what
  the PostgreSQL statements do; it is not compared with them.
