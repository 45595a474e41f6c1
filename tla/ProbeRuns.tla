------------------------------ MODULE ProbeRuns ------------------------------
(***************************************************************************)
(* The deliverability probes of one sender (internal/probe/run.go): a      *)
(* probe mail per mailbox, a run row that waits for it, and the summary of *)
(* the finished runs on the sender.  Mail comes back in two ways: the      *)
(* collector of the control leader looks into IMAP mailboxes and closes    *)
(* what timed out, and the inbound webhook (internal/api/probeinbound.go)  *)
(* completes a run the moment its mail is posted.                          *)
(*                                                                         *)
(* The run row has no version.  The sender row has one: current holds the  *)
(* actors that read the sender and whose version no write has overtaken.   *)
(***************************************************************************)
EXTENDS Integers, FiniteSetsExt

CONSTANTS
  None,            \* no row; also the mailbox of a DNS-only run
  Collector,       \* the collect loop of the leader
  Handlers,        \* requests at the webhook
  Ticker, Manual,  \* the trigger loop of the leader; POST /senders/{id}/probe
  Webhooks,        \* mailboxes of the webhook kind
  Imaps,           \* mailboxes of the IMAP kind
  Observations,    \* what a probe mail can show
  Setups,          \* the enabled mailboxes and what the DNS layer says, off without one
  FailuresForRed,  \* ConsecutiveFailuresForRed
  Attempts,        \* attempts of setSenderHealth
  MaxRuns,         \* bound: runs in all
  MaxFaults        \* bound: failures, crashes, edits, manual triggers

Triggers == {Ticker, Manual}

Actors == {Collector} \cup Handlers \cup Triggers

Mailboxes == Webhooks \cup Imaps

Ids == 1..MaxRuns

ASSUME ProbeAssumption ==
  /\ Setups \subseteq (SUBSET Mailboxes) \X {"off", "green", "red"}
  /\ None \notin Mailboxes /\ None \notin Ids /\ Webhooks \cap Imaps = {}
  /\ Collector \notin Handlers \cup Triggers /\ Handlers \cap Triggers = {}
  /\ FailuresForRed \in Nat \ {0} /\ Attempts \in Nat \ {0}
  /\ MaxRuns \in Nat /\ MaxFaults \in Nat

VARIABLES
  enabled,   \* the mailboxes that are enabled
  deleted,   \* the mailboxes whose row is gone
  dns,       \* the verdict of the DNS layer, off without one
  run,       \* the run rows, by id: the larger the later
  mail,      \* the probe mail of each run, and what it shows once it arrived
  health,    \* the sender's health
  due,       \* is the sender due for a probe
  current,   \* the actors whose read of the sender is up to date
  seen,      \* deliveryMemo
  job,       \* where each actor is
  faults,    \* how many faults the environment has left
  answered,  \* history: mails the webhook accepted for good
  missed,    \* history: runs closed with the mailbox open and no mail in it
  orphaned,  \* history: runs closed with no mailbox row to look at
  spoke,     \* history: the DNS-only run whose own status the health is
  rumours,   \* history: events that tell of a change the row did not go through
  behind     \* history: the last refresh of the health was lost or out of date

vars == <<enabled, deleted, dns, run, mail, health, due, current, seen, job, faults,
          answered, missed, orphaned, spoke, rumours, behind>>

config == <<enabled, deleted, dns>>

absences == <<missed, orphaned>>

Health == {"unknown", "green", "yellow", "red"}

Run == [box : Mailboxes \cup {None}, pending : BOOLEAN, status : Health,
        delivered : BOOLEAN, expired : BOOLEAN]

ASSUME NoRunAssumption == None \notin Run

Waiting(box) ==
  [box |-> box, pending |-> TRUE, status |-> "unknown", delivered |-> FALSE, expired |-> FALSE]

\* What an actor keeps: the runs or mailboxes still to visit; of a pass, the runs
\* past their timeout, the mailboxes that did not open and those without a row; the
\* run at hand; the
\* health to write, the health that setSenderHealth read and the one it wrote
\* over, and its attempts so far;
\* whether a run was written since the summary was made; whether HealthCheckedAt
\* will be later than every configuration change.
Idle == [stage |-> "idle", todo |-> {}, late |-> {}, shut |-> {}, absent |-> {},
         touched |-> FALSE, run |-> None, status |-> "unknown", before |-> "unknown",
         over |-> "unknown", tries |-> 0, stale |-> FALSE, clears |-> TRUE]

TypeOK ==
  /\ enabled \subseteq Mailboxes /\ deleted \subseteq Mailboxes
  /\ dns \in {"off", "green", "red"}
  /\ run \in [Ids -> Run \cup {None}]
  /\ \A i \in Ids : mail[i].at \in {"none", "sending", "arrived", "gone"}
  /\ health \in Health
  /\ due \in BOOLEAN /\ behind \in BOOLEAN
  /\ current \subseteq Actors
  /\ rumours \subseteq Health \X Health
  /\ seen \subseteq Ids /\ answered \subseteq Ids
  /\ missed \subseteq Ids /\ orphaned \subseteq Ids /\ spoke \in Ids \cup {None}
  /\ \A a \in Actors :
       /\ job[a].stage \in {"idle", "collecting", "completing", "queueing", "creating",
                            "listing", "writing", "emitting"}
       /\ job[a].tries < Attempts
       /\ job[a].stage = "creating" => run[job[a].run] = None /\ mail[job[a].run].at # "none"
  /\ faults \in 0..MaxFaults

Init ==
  /\ \E setup \in Setups : enabled = setup[1] /\ dns = setup[2]
  /\ deleted = {}
  /\ run = [i \in Ids |-> None]
  /\ mail = [i \in Ids |-> [at |-> "none", shows |-> None]]
  /\ health = "unknown"
  /\ due = TRUE
  /\ current = {}
  /\ seen = {}
  /\ job = [a \in Actors |-> Idle]
  /\ faults = MaxFaults
  /\ answered = {} /\ missed = {} /\ orphaned = {} /\ rumours = {}
  /\ spoke = None /\ behind = FALSE

Fault == faults > 0 /\ faults' = faults - 1

-----------------------------------------------------------------------------
(* Verdicts (verdict.go) and summaries.                                    *)

\* Verdict.  An unknown folder is neutral.
Verdict(o) ==
  LET results == {o.spf, o.dkim, o.dmarc}
  IN IF results \cap {"fail", "policy"} # {} THEN "red"
     ELSE IF \/ ~o.trusted
             \/ o.folder \in {"spam", "other"}
             \/ results \cap {"softfail", "none", "neutral", "permerror", "temperror"} # {}
             \/ o.dmarcPolicy = "none"
             \/ ~o.tls
             \/ o.ptr = "mismatch"
       THEN "yellow"
       ELSE "green"

\* CompleteRun: the DNS layer only dims a green verdict.
Completed(i) ==
  LET verdict == Verdict(mail[i].shows)
  IN [run[i] EXCEPT !.pending = FALSE, !.delivered = TRUE,
                    !.status = IF verdict = "green" /\ dns = "red" THEN "yellow" ELSE verdict]

Rank == [unknown |-> 0, green |-> 1, yellow |-> 2, red |-> 3]

\* worst.
Worst(statuses) == CHOOSE s \in statuses : \A t \in statuses : Rank[t] <= Rank[s]

Finished == {i \in Ids : run[i] # None /\ ~run[i].pending}

\* Mutant: the newest run overall speaks for the sender.
LatestOfAll == {i \in Finished : \A k \in Finished : k <= i}

\* updateSenderHealth: the newest finished run of each mailbox.
Latest == {i \in Finished : \A k \in Finished : run[k].box = run[i].box => k <= i}

\* Mutant: a run whose mailbox did not open counts as a miss.
MissesOfAll(i) == {k \in Finished \ {i} : run[k].box = run[i].box /\ ~run[k].delivered}

\* The misses of the mailbox that undeliveredStreak counts.
Misses(i) ==
  {k \in Finished \ {i} : run[k].box = run[i].box /\ ~run[k].delivered /\ run[k].status # "unknown"}

\* undeliveredStreak: those since the mailbox last got a mail, and this one.
Streak(i) ==
  Cardinality({k \in Misses(i) :
    \A l \in Finished \ {i} : l > k /\ run[l].box = run[i].box => ~run[l].delivered}) + 1

\* finishUnreachable, finishUndelivered.
Unreachable(i) == [run[i] EXCEPT !.pending = FALSE, !.delivered = FALSE, !.status = "unknown"]

Undelivered(i) ==
  [run[i] EXCEPT !.pending = FALSE, !.delivered = FALSE,
                 !.status = IF Streak(i) >= FailuresForRed THEN "red" ELSE "yellow"]

\* The other actors when a run is written: a summary made already is out of date.
Outdated(a, own) ==
  [b \in Actors |-> IF b = a THEN own
                    ELSE [job[b] EXCEPT !.stale = @ \/ job[b].stage = "writing"]]

-----------------------------------------------------------------------------
(* The world outside.                                                      *)

\* The mail is delivered; it may as well never be.
Arrive(i) ==
  /\ mail[i].at = "sending"
  /\ \E o \in Observations : mail' = [mail EXCEPT ![i] = [at |-> "arrived", shows |-> o]]
  /\ UNCHANGED <<config, run, health, spoke, due, current, seen, job, faults,
                 answered, absences, rumours, behind>>

\* The timeout of a run passes.
Expire(i) ==
  /\ run[i] # None /\ run[i].pending /\ ~run[i].expired
  /\ run' = [run EXCEPT ![i].expired = TRUE]
  /\ UNCHANGED <<config, mail, health, spoke, due, current, seen, job, faults,
                 answered, absences, rumours, behind>>

\* The interval passes; it is longer than anything that can be under way.
IntervalElapsed ==
  /\ ~due /\ \A a \in Actors : job[a] = Idle
  /\ due' = TRUE
  /\ UNCHANGED <<config, run, mail, health, spoke, current, seen, job, faults,
                 answered, absences, rumours, behind>>

\* The transport or the domain is edited: later than the times that passes under
\* way carry.
ChangeConfig ==
  /\ ~due \/ \E a \in Actors : job[a].stage # "idle"  \* it makes no difference otherwise
  /\ Fault
  /\ due' = TRUE
  /\ job' = [a \in Actors |-> [job[a] EXCEPT !.clears = job[a].stage = "idle"]]
  /\ UNCHANGED <<config, run, mail, health, spoke, current, seen,
                 answered, absences, rumours, behind>>

\* A probe mailbox is enabled, disabled or deleted; runs may be waiting in it.
ChangeMailbox(b) ==
  /\ b \notin deleted
  /\ Fault
  /\ \/ /\ enabled' = IF b \in enabled THEN enabled \ {b} ELSE enabled \cup {b}
        /\ UNCHANGED deleted
     \/ /\ enabled' = enabled \ {b}
        /\ deleted' = deleted \cup {b}
  /\ UNCHANGED <<dns, run, mail, health, spoke, due, current, seen, job,
                 answered, absences, rumours, behind>>

\* The sender is edited, between a read and a write of its health.
UpdateSender ==
  /\ current # {}
  /\ Fault
  /\ current' = {}
  /\ UNCHANGED <<config, run, mail, health, spoke, due, seen, job,
                 answered, absences, rumours, behind>>

-----------------------------------------------------------------------------
(* Triggers.                                                               *)

Unused == {i \in Ids : run[i] = None /\ mail[i].at = "none"}

\* Tick's inFlight.
InFlight == \E i \in Ids : run[i] # None /\ run[i].pending /\ ~run[i].expired

\* setSenderHealth has read the sender.
Got(a, status) == [job[a] EXCEPT !.stage = "writing", !.status = status, !.before = health]

\* dnsOnlyRun: finished from the start, and never green.  Its own status is what
\* goes on the sender, whatever the runs of mailboxes said.
DnsOnlyRun ==
  [Waiting(None) EXCEPT !.pending = FALSE, !.status = IF dns = "red" THEN "red" ELSE "yellow"]

\* Trigger: its loop begins, or there is no mailbox to write to (dnsOnlyRun).
Begin(a) ==
  /\ job[a].stage = "idle"
  /\ Cardinality(Unused) >= IF enabled = {} THEN 1 ELSE Cardinality(enabled)  \* bound
  /\ IF enabled # {}
       THEN /\ job' = [job EXCEPT ![a] = [@ EXCEPT !.stage = "queueing", !.todo = enabled]]
            /\ UNCHANGED run
       ELSE /\ dns # "off"
            /\ run' = [run EXCEPT ![Min(Unused)] = DnsOnlyRun]
            /\ job' = Outdated(a, [Got(a, DnsOnlyRun.status) EXCEPT !.run = Min(Unused)])
  /\ current' = IF enabled = {} THEN current \cup {a} ELSE current
  /\ UNCHANGED <<config, mail, health, spoke, due, seen, answered, absences, rumours, behind>>

Tick == due /\ ~InFlight /\ Begin(Ticker) /\ UNCHANGED faults

\* POST /senders/{id}/probe.
TriggerProbeRun == Fault /\ Begin(Manual)

\* The delivery of the next mailbox is enqueued ...
Enqueue(a) ==
  /\ job[a].stage = "queueing"
  /\ Unused # {}  \* bound
  /\ mail' = [mail EXCEPT ![Min(Unused)].at = "sending"]
  /\ job' = [job EXCEPT ![a] = [@ EXCEPT !.stage = "creating", !.run = Min(Unused)]]
  /\ UNCHANGED <<config, run, health, spoke, due, current, seen, faults,
                 answered, absences, rumours, behind>>

\* ... and then its run is created.
Create(a) ==
  /\ job[a].stage = "creating"
  /\ \E b \in job[a].todo :
       /\ run' = [run EXCEPT ![job[a].run] = Waiting(b)]
       /\ job' = [job EXCEPT ![a] =
                    IF job[a].todo = {b} THEN Idle
                    ELSE [job[a] EXCEPT !.stage = "queueing", !.todo = @ \ {b}, !.run = None]]
  /\ UNCHANGED <<config, mail, health, spoke, due, current, seen, faults,
                 answered, absences, rumours, behind>>

-----------------------------------------------------------------------------
(* The collector (CollectWith).                                            *)

\* Mutant: runs of webhook mailboxes are left to the webhook.
TimedOutImap(pending) == {i \in pending : run[i].expired /\ run[i].box \in Imaps}

\* The runs past their timeout, by the clock of the pass.
TimedOut(pending) == {i \in pending : run[i].expired}

\* The pending runs and the mailboxes are listed, and the mailboxes opened; one
\* without a row is not, and that is no error.
Collect ==
  /\ job[Collector].stage = "idle"
  /\ LET pending == {i \in Ids : run[i] # None /\ run[i].pending}
     IN /\ pending # {}
        /\ \E shut \in SUBSET ((Imaps \cap {run[i].box : i \in pending}) \ deleted) :
             /\ IF shut = {} THEN UNCHANGED faults ELSE Fault
             /\ job' = [job EXCEPT ![Collector] =
                          [@ EXCEPT !.stage = "collecting", !.todo = pending, !.shut = shut,
                                    !.absent = deleted, !.late = TimedOut(pending)]]
  /\ UNCHANGED <<config, run, mail, health, spoke, due, current, seen,
                 answered, absences, rumours, behind>>

\* The collector goes on; after the last run it refreshes the sender, if one was closed.
Visited(i, touched) ==
  LET job1 == [job[Collector] EXCEPT !.todo = @ \ {i}, !.touched = @ \/ touched]
  IN IF job1.todo # {} THEN job1
     ELSE IF job1.touched THEN [job1 EXCEPT !.stage = "listing"] ELSE Idle

\* find has the mail: CompleteRun, and the mail is deleted.
Found(i) ==
  /\ run[i].box \in Imaps \ (job[Collector].shut \cup job[Collector].absent)
  /\ mail[i].at = "arrived"

CollectFound(i) ==
  /\ job[Collector].stage = "collecting" /\ i \in job[Collector].todo
  /\ Found(i)
  /\ run' = [run EXCEPT ![i] = Completed(i)]
  /\ mail' = [mail EXCEPT ![i].at = "gone"]
  /\ job' = Outdated(Collector, Visited(i, TRUE))
  /\ UNCHANGED <<config, health, spoke, due, current, seen, faults,
                 answered, absences, rumours, behind>>

\* A run that timed out: a mailbox that did not open proves nothing, but one that
\* was opened and could not be searched counts as empty, and so does one without
\* a row.
CloseOut(i) ==
  LET box == run[i].box
      pass == job[Collector]
  IN /\ i \in pass.late
     /\ run' = [run EXCEPT ![i] = IF box \in pass.shut THEN Unreachable(i) ELSE Undelivered(i)]
     /\ missed' = IF box \in pass.shut \cup pass.absent THEN missed ELSE missed \cup {i}
     /\ orphaned' = IF box \in pass.absent THEN orphaned \cup {i} ELSE orphaned

CollectLate(i) ==
  /\ job[Collector].stage = "collecting" /\ i \in job[Collector].todo
  /\ IF Found(i) THEN Fault ELSE UNCHANGED faults
  /\ CloseOut(i)
  /\ job' = Outdated(Collector, Visited(i, TRUE))
  /\ UNCHANGED <<config, mail, health, spoke, due, current, seen, answered, rumours, behind>>

\* updateRun fails though it was done: the sender is not refreshed on account of it,
\* and the mail stays.
CollectLost(i) ==
  /\ job[Collector].stage = "collecting" /\ i \in job[Collector].todo
  /\ Fault
  /\ \/ /\ Found(i)
        /\ run' = [run EXCEPT ![i] = Completed(i)]
        /\ UNCHANGED absences
     \/ ~Found(i) /\ CloseOut(i)
  /\ job' = Outdated(Collector, Visited(i, FALSE))
  /\ behind' = TRUE
  /\ UNCHANGED <<config, mail, health, spoke, due, current, seen, answered, rumours>>

\* Nothing to do for a run yet, or its write fails.
CollectNothing(i) ==
  /\ job[Collector].stage = "collecting" /\ i \in job[Collector].todo
  /\ IF ~Found(i) /\ i \notin job[Collector].late THEN UNCHANGED faults ELSE Fault
  /\ job' = [job EXCEPT ![Collector] = Visited(i, FALSE)]
  /\ UNCHANGED <<config, run, mail, health, spoke, due, current, seen,
                 answered, absences, rumours, behind>>

-----------------------------------------------------------------------------
(* The webhook (handleInboundMessage).                                     *)

\* Mutant: the mail is remembered as soon as it is seen.
RememberedEarly(i) == seen \cup {i}

\* The memo while the run is still to be completed.
Remembered(i) == IF run[i] # None /\ ~run[i].pending THEN seen \cup {i} ELSE seen

\* The mail of a run is posted, or posted again, whatever the kind of its mailbox;
\* one that names no run is not wanted, one whose run is finished is accepted, one
\* the memo has is not looked at.
Post(h, i) ==
  /\ job[h].stage = "idle"
  /\ mail[i].at \in {"arrived", "gone"}
  /\ IF i \notin seen /\ run[i] # None /\ run[i].pending
       THEN /\ job' = [job EXCEPT ![h] = [@ EXCEPT !.stage = "completing", !.run = i]]
            /\ UNCHANGED answered
       ELSE /\ answered' = IF run[i] # None THEN answered \cup {i} ELSE answered
            /\ UNCHANGED job
  /\ seen' = Remembered(i)
  /\ UNCHANGED <<config, run, mail, health, spoke, due, current, faults, absences, rumours, behind>>

\* CompleteRun with the run as it was read.
Complete(h) ==
  /\ job[h].stage = "completing"
  /\ run' = [run EXCEPT ![job[h].run] = Completed(job[h].run)]
  /\ job' = Outdated(h, [job[h] EXCEPT !.stage = "listing"])
  /\ UNCHANGED <<config, mail, health, spoke, due, current, seen, faults,
                 answered, absences, rumours, behind>>

\* A store call up to updateRun fails: deferred, to be posted again, and not to be
\* refreshed even when the run was written.
Defer(h) ==
  /\ job[h].stage = "completing"
  /\ Fault
  /\ \/ /\ job' = [job EXCEPT ![h] = Idle]
        /\ UNCHANGED <<run, behind>>
     \/ /\ run' = [run EXCEPT ![job[h].run] = Completed(job[h].run)]
        /\ job' = Outdated(h, Idle)
        /\ behind' = TRUE
  /\ UNCHANGED <<config, mail, health, spoke, due, current, seen, answered, absences, rumours>>

\* What an actor leaves when the refresh is over or given up: a handler accepts
\* its mail.
Leave(a) ==
  /\ job' = [job EXCEPT ![a] = Idle]
  /\ IF a \in Handlers
       THEN /\ seen' = seen \cup {job[a].run}
            /\ answered' = answered \cup {job[a].run}
       ELSE UNCHANGED <<seen, answered>>

-----------------------------------------------------------------------------
(* The sender's health (updateSenderHealth, setSenderHealth).              *)

\* runsOf: the summary is made from the runs as they are, and the sender is read.
List(a) ==
  /\ job[a].stage = "listing"
  /\ current' = current \cup {a}
  /\ job' = [job EXCEPT ![a] = Got(a, Worst({run[i].status : i \in Latest}))]
  /\ UNCHANGED <<config, run, mail, health, spoke, due, seen, faults,
                 answered, absences, rumours, behind>>

\* The version predicate of Update.
UpToDate(a) == a \in current

\* Update: the health and HealthCheckedAt.
Write(a) ==
  /\ job[a].stage = "writing"
  /\ UpToDate(a)
  /\ health' = job[a].status
  /\ spoke' = IF a \in Triggers THEN job[a].run ELSE None
  /\ due' = (due /\ ~job[a].clears)
  /\ current' = {}
  /\ behind' = job[a].stale
  /\ IF job[a].before = job[a].status
       THEN Leave(a)
       ELSE /\ job' = [job EXCEPT ![a] = [@ EXCEPT !.stage = "emitting", !.over = health]]
            /\ UNCHANGED <<seen, answered>>
  /\ UNCHANGED <<config, run, mail, faults, absences, rumours>>

\* Mutant: one attempt too many.
MayRetryOnce(a) == job[a].tries + 1 <= Attempts

\* Is there an attempt left.
MayRetry(a) == job[a].tries + 1 < Attempts

\* ErrConflict: the sender is read again, or the refresh is given up.
Conflict(a) ==
  /\ job[a].stage = "writing"
  /\ ~UpToDate(a)
  /\ IF MayRetry(a)
       THEN /\ job' = [job EXCEPT ![a] = [Got(a, job[a].status) EXCEPT !.tries = @ + 1]]
            /\ current' = current \cup {a}
            /\ UNCHANGED <<behind, seen, answered>>
       ELSE behind' = TRUE /\ Leave(a) /\ UNCHANGED current
  /\ UNCHANGED <<config, run, mail, health, spoke, due, faults, absences, rumours>>

\* enqueueHealthChanged.
Emit(a) ==
  /\ job[a].stage = "emitting"
  /\ rumours' = IF job[a].before = job[a].over THEN rumours
                ELSE rumours \cup {<<job[a].before, job[a].status>>}
  /\ Leave(a)
  /\ UNCHANGED <<config, run, mail, health, spoke, due, current, faults, absences, behind>>

Refreshing == {"listing", "writing"}

\* A call of the refresh fails and the rest of it is given up.
RefreshFails(a) ==
  /\ job[a].stage \in Refreshing \cup {"emitting"}
  /\ Fault
  /\ behind' = (behind \/ job[a].stage \in Refreshing)
  /\ Leave(a)
  /\ current' = current \ {a}
  /\ UNCHANGED <<config, run, mail, health, spoke, due, absences, rumours>>

\* The process dies with the memo, and the webhook's mail is posted again.
Crash(a) ==
  /\ job[a].stage # "idle"
  /\ Fault
  /\ behind' = (behind \/ job[a].stage \in Refreshing \/ job[a].touched)
  /\ job' = [job EXCEPT ![a] = Idle]
  /\ seen' = IF a \in Handlers THEN {} ELSE seen
  /\ current' = current \ {a}
  /\ UNCHANGED <<config, run, mail, health, spoke, due, answered, absences, rumours>>

-----------------------------------------------------------------------------

Refresh(a) == List(a) \/ Write(a) \/ Conflict(a) \/ Emit(a)

CollectStep ==
  \/ Collect
  \/ \E i \in Ids : CollectFound(i) \/ CollectLate(i) \/ CollectLost(i) \/ CollectNothing(i)

Next ==
  \/ \E i \in Ids : Arrive(i) \/ Expire(i)
  \/ \E b \in Mailboxes : ChangeMailbox(b)
  \/ IntervalElapsed \/ ChangeConfig \/ UpdateSender
  \/ Tick \/ TriggerProbeRun
  \/ \E a \in Triggers : Enqueue(a) \/ Create(a)
  \/ CollectStep
  \/ \E h \in Handlers : Complete(h) \/ Defer(h) \/ \E i \in Ids : Post(h, i)
  \/ \E a \in Actors : Refresh(a) \/ RefreshFails(a) \/ Crash(a)

Spec == Init /\ [][Next]_vars

\* Time passes, the leader's loops run, and requests are served to their end.
FairSpec ==
  /\ Spec
  /\ \A i \in Ids : WF_vars(Expire(i))
  /\ WF_vars(CollectStep)
  /\ \A a \in Actors : WF_vars(Refresh(a))
  /\ \A h \in Handlers : WF_vars(Complete(h))

-----------------------------------------------------------------------------
(* Properties.                                                             *)

\* A mail the webhook accepted is on a finished run: a deferred mail is not
\* remembered, so that posting it again is not taken for a repetition
\* (deliveryMemo.add).
AcceptedIsRecorded == \A i \in answered : ~run[i].pending

\* A run is red for want of its mail only when FailuresForRed runs of its mailbox
\* were closed with the mailbox open and no mail in it; those closed after the
\* mailbox was deleted count only against a deleted mailbox, and a mailbox that did
\* not open blames nobody (finishUnreachable, undeliveredStreak).
RedNeedsMisses ==
  \A i \in Finished : run[i].status = "red" /\ ~run[i].delivered /\ run[i].box # None =>
    LET counted == IF run[i].box \in deleted THEN missed \cup orphaned ELSE missed
    IN Cardinality({k \in counted : run[k].box = run[i].box}) >= FailuresForRed

\* The actors that wrote a run and have not yet refreshed the sender.
AtWork == {a \in Actors : job[a].stage \in Refreshing \/ job[a].touched}

\* The worst of the newest finished run of each mailbox.
Verdicts ==
  Worst({run[i].status : i \in {k \in Finished :
           \A l \in Finished : run[l].box = run[k].box => l <= k}})

\* When nobody is at work the sender shows the worst of the newest finished run
\* of each mailbox, or the status of the DNS-only run that wrote last, unless the
\* last refresh was lost or overtaken.  Every sender.health_changed tells of a
\* change the sender's row went through: from and to are those of the versioned
\* write.
SummaryIsCurrent ==
  /\ AtWork = {} /\ ~behind /\ Finished # {} =>
       health = IF spoke = None THEN Verdicts ELSE run[spoke].status
  /\ rumours = {}

\* Every run comes to an end, by its mail or by its timeout: again and again none
\* is waiting, and a finished run never waits again.
EventuallyFinished == []<>(\A i \in Ids : run[i] = None \/ ~run[i].pending)
=============================================================================
