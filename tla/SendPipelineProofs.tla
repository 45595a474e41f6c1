------------------------- MODULE SendPipelineProofs -------------------------
(* Proofs about SendPipeline, for any number of deliveries, replicas and   *)
(* jobs, any retry schedule and any number of faults.                      *)
EXTENDS SendPipeline, DeliveryRowProofs, Counting, TLAPS, FiniteSetTheorems

-----------------------------------------------------------------------------
(* The retry policy.                                                       *)

\* Every entry of the backoff schedule is a duration, whatever attempt it is
\* looked up for (Policy.backoff clamps the index at both ends).
LEMMA WaitForType == ASSUME NEW class, NEW n \in Nat PROVE WaitFor(class, n) \in Nat
<1>1. BackoffFor(n) \in Nat
  <2>1. CASE Backoff = <<>>
    BY <2>1 DEF BackoffFor, DefaultBackoff
  <2>2. CASE Backoff # <<>>
    <3>1. Len(Backoff) \in Nat /\ Len(Backoff) > 0
      BY <2>2, PolicyAssumption
    <3>2. \A i \in 1..Len(Backoff) : Backoff[i] \in Nat
      BY PolicyAssumption
    <3> QED BY <2>2, <3>1, <3>2 DEF BackoffFor
  <2> QED BY <2>1, <2>2
<1> QED BY <1>1, PolicyAssumption DEF WaitFor

\* Policy.jittered never returns a negative duration.
LEMMA JitteredType == ASSUME NEW d \in Nat PROVE Jittered(d) \subseteq Nat
BY DEF Jittered

\* What Policy.Decide answers is a result Complete can apply, and only the
\* success class leads to sent.
LEMMA DecideType ==
  ASSUME NEW class \in Classes, NEW attempts \in Nat
  PROVE  /\ Decide(class, attempts) \subseteq Result
         /\ \A res \in Decide(class, attempts) : res.status = "sent" <=> class = "none"
<1>1. \A w \in Jittered(WaitFor(class, attempts + 1)) : w \in Nat
  BY WaitForType, JitteredType
<1>2. AuthRetryAfter \in Nat
  BY PolicyAssumption
<1> DEFINE Deferrals == {Decision("deferred", w, TRUE) :
                           w \in Jittered(WaitFor(class, attempts + 1))}
<1>3. \A w \in Nat : /\ Decision("deferred", w, TRUE) \in Result
                     /\ Decision("deferred", w, TRUE).status = "deferred"
  BY DEF Decision, Result, Statuses, Waiting
<1>4. CASE class = "none"
  BY <1>4 DEF Decide, Decision, Result, Statuses, Terminal
<1>5. CASE class \in {"transient", "rate_limited"}
  <2>1. Decide(class, attempts) = IF attempts + 1 >= MaxOf
                                    THEN {Decision("failed", 0, TRUE)} ELSE Deferrals
    BY <1>5 DEF Decide
  <2>4. \A res \in Deferrals : res \in Result /\ res.status = "deferred"
    BY <1>1, <1>3
  <2> HIDE DEF Deferrals
  <2>2. Decision("failed", 0, TRUE) \in Result
    BY DEF Decision, Result, Statuses, Terminal
  <2>3. Decision("failed", 0, TRUE).status = "failed"
    BY DEF Decision
  <2> QED BY <1>5, <2>1, <2>2, <2>3, <2>4
<1>6. CASE class = "auth"
  <2>1. Decide(class, attempts) = {Decision("queued", AuthRetryAfter, FALSE)}
    BY <1>6 DEF Decide
  <2>2. /\ Decision("queued", AuthRetryAfter, FALSE) \in Result
        /\ Decision("queued", AuthRetryAfter, FALSE).status = "queued"
    BY <1>2 DEF Decision, Result, Statuses, Waiting
  <2> QED BY <1>6, <2>1, <2>2
<1>7. CASE class \in {"permanent", "policy"}
  <2>1. Decide(class, attempts) = {Decision("failed", 0, FALSE)}
    BY <1>7 DEF Decide
  <2>2. /\ Decision("failed", 0, FALSE) \in Result
        /\ Decision("failed", 0, FALSE).status = "failed"
    BY DEF Decision, Result, Statuses, Terminal
  <2> QED BY <1>7, <2>1, <2>2
<1> QED BY <1>4, <1>5, <1>6, <1>7 DEF Classes

-----------------------------------------------------------------------------
(* The table and the jobs.                                                 *)

\* A write of the table keeps the table and its history typed.
LEMMA WriteType ==
  ASSUME TypeOK, NEW newRows \in [Deliveries -> Row], Write(newRows)
  PROVE  /\ rows' \in [Deliveries -> Row]
         /\ reached' \in [Deliveries -> SUBSET Reported]
BY DEF TypeOK, Write

\* batcher.add keeps the jobs typed.
LEMMA AddType ==
  ASSUME TypeOK, NEW t \in Tickets, NEW res \in Result, jobs[t] # NoJob, Add(t, res)
  PROVE  jobs' \in [Tickets -> Job \cup {NoJob}]
<1>1. jobs[t] \in Job
  BY DEF TypeOK
<1>2. [jobs[t] EXCEPT !.stage = "done", !.res = res] \in Job
  BY <1>1 DEF Job
<1>3. jobs' = [jobs EXCEPT ![t] = [jobs[t] EXCEPT !.stage = "done", !.res = res]]
  BY <1>1 DEF Add, Job, TypeOK
<1> QED BY <1>2, <1>3 DEF TypeOK

-----------------------------------------------------------------------------
(* Type correctness.                                                       *)

\* Every reachable state of the send path is well typed: rows keep a known
\* status, batchers hold results Complete can apply, counters never go
\* negative (a fault budget, an attempt count, a wait).
THEOREM TypeCorrect == Spec => []TypeOK
<1>1. Init => TypeOK
  BY PipelineAssumption DEF Init, TypeOK, NewRow, Row, Statuses, Waiting, Terminal
<1>2. TypeOK /\ [Next]_vars => TypeOK'
  <2> SUFFICES ASSUME TypeOK, [Next]_vars PROVE TypeOK'
    OBVIOUS
  <2>u. CASE UNCHANGED vars
    BY <2>u DEF TypeOK, vars
  <2>a. \A t \in Tickets : jobs[t] # NoJob => jobs[t] \in Job
    BY DEF TypeOK
  <2>f. Fault => faults' \in Nat
    BY DEF Fault, TypeOK
  <2>d. \A t \in Tickets, class \in Classes :
           jobs[t] # NoJob => Decide(class, jobs[t].attempts) \subseteq Result
    BY <2>a, DecideType DEF Job
  <2>r. \A d \in Deliveries : rows[d] \in Row
    BY DEF TypeOK
  <2>1. ASSUME NEW t \in Tickets, JobStep(t) PROVE TypeOK'
    <3>1. CASE RefuseToSend(t)
      <4>1. \A s \in {"failed", "suppressed"} : Decision(s, 0, FALSE) \in Result
        BY DEF Decision, Result, Statuses, Terminal
      <4> QED BY <3>1, <4>1, AddType DEF RefuseToSend, TypeOK, history
    <3>2. CASE Postpone(t)
      <4>1. \A n \in {InternalRetryAfter, AuthRetryAfter} : Decision("queued", n, FALSE) \in Result
        BY PipelineAssumption, PolicyAssumption DEF Decision, Result, Statuses, Waiting
      <4> QED BY <2>f, <3>2, <4>1, AddType DEF Postpone, TypeOK, history
    <3>3. ASSUME NEW class \in Classes \ {"none"}, SendFails(t, class) PROVE TypeOK'
      BY <2>d, <2>f, <3>3, AddType DEF SendFails, TypeOK, history
    <3>4. CASE SendReplyLost(t)
      <4>1. jobs[t].d \in Deliveries /\ "transient" \in Classes
        BY <2>a, <3>4 DEF SendReplyLost, Job, Classes
      <4>2. jobs' \in [Tickets -> Job \cup {NoJob}]
        BY <2>d, <3>4, <4>1, AddType DEF SendReplyLost
      <4> QED BY <2>f, <3>4, <4>1, <4>2 DEF SendReplyLost, TypeOK
    <3>5. CASE SendAccepted(t)
      <4>1. jobs[t] \in Job
        BY <2>a, <3>5 DEF SendAccepted
      <4>2. [jobs[t] EXCEPT !.stage = "accepted"] \in Job
        BY <4>1 DEF Job
      <4>3. jobs' \in [Tickets -> Job \cup {NoJob}]
        BY <3>5, <4>2 DEF SendAccepted, TypeOK
      <4>4. jobs[t].d \in Deliveries
        BY <4>1 DEF Job
      <4> QED BY <3>5, <4>3, <4>4 DEF SendAccepted, TypeOK
    <3>6. CASE MarkSent(t)
      <4>1. jobs[t].d \in Deliveries /\ "none" \in Classes
        BY <2>a, <3>6 DEF MarkSent, Job, Classes
      <4>2. [rows EXCEPT ![jobs[t].d] = MarkedSent(@)] \in [Deliveries -> Row]
        BY <2>r, <4>1, RowType DEF TypeOK
      <4>3. jobs' \in [Tickets -> Job \cup {NoJob}]
        BY <2>d, <3>6, <4>1, AddType DEF MarkSent
      <4> QED BY <3>6, <4>2, <4>3, WriteType DEF MarkSent, TypeOK, history
    <3>7. CASE MarkSentLeaseLost(t)
      BY <3>7 DEF MarkSentLeaseLost, TypeOK, history
    <3>8. CASE MarkSentFails(t)
      <4>1. "none" \in Classes
        BY DEF Classes
      <4> QED BY <2>d, <2>f, <3>8, <4>1, AddType DEF MarkSentFails, TypeOK, history
    <3>9. CASE GiveUp(t)
      BY <2>f, <3>9 DEF GiveUp, TypeOK, history
    <3> QED BY <2>1, <3>1, <3>2, <3>3, <3>4, <3>5, <3>6, <3>7, <3>8, <3>9 DEF JobStep
  <2>2. ASSUME NEW w \in Workers, ReplicaStep(w) PROVE TypeOK'
    <3>1. CASE RefreshRunning(w)
      BY <3>1 DEF RefreshRunning, TypeOK, history
    <3>2. ASSUME NEW t \in Tickets, NEW d \in Deliveries, Claim(w, t, d) PROVE TypeOK'
      <4>1. [rows EXCEPT ![d] = Claimed(@, w)] \in [Deliveries -> Row]
        BY <2>r, RowType DEF TypeOK
      <4>2. NoResult \in Result
        BY DEF NoResult, Decision, Result, Statuses
      <4>3. rows[d].attempts \in Nat
        BY <2>r DEF Row
      <4>4. jobs' \in [Tickets -> Job \cup {NoJob}]
        BY <3>2, <4>2, <4>3 DEF Claim, TypeOK, Job
      <4> QED BY <3>2, <4>1, <4>4, WriteType DEF Claim, TypeOK, history
    <3>3. CASE Flush(w)
      <4> DEFINE held == {d \in Deliveries : /\ CompleteApplies(rows[d], w)
                                            /\ \E t \in Buffer(w) : jobs[t].d = d}
      <4>1. PICK pick \in [held -> Buffer(w)] :
              Write([d \in Deliveries |-> IF d \in held THEN Completed(rows[d], jobs[pick[d]].res)
                                                        ELSE rows[d]])
        BY <3>3 DEF Flush
      <4>2. \A t \in Buffer(w) : t \in Tickets /\ jobs[t] # NoJob /\ jobs[t].res \in Result
        BY <2>a DEF Buffer, JobsOf, Job
      <4>3. \A d \in held : Completed(rows[d], jobs[pick[d]].res) \in Row
        BY <2>r, <4>1, <4>2, RowType
      <4>4. [d \in Deliveries |-> IF d \in held THEN Completed(rows[d], jobs[pick[d]].res)
                                                ELSE rows[d]] \in [Deliveries -> Row]
        BY <2>r, <4>3
      <4>5. /\ rows' \in [Deliveries -> Row]
            /\ reached' \in [Deliveries -> SUBSET Reported]
        BY <4>1, <4>4, WriteType
      <4>6. jobs' \in [Tickets -> Job \cup {NoJob}]
        BY <3>3 DEF Flush, TypeOK
      <4>7. events' \in [Deliveries -> SUBSET Reported] /\ faults' \in Nat
        BY <2>f, <3>3 DEF Flush, TypeOK
      <4> QED BY <3>3, <4>5, <4>6, <4>7 DEF Flush, TypeOK, history
    <3>4. CASE FlushFails(w)
      BY <2>f, <3>4 DEF FlushFails, TypeOK, history
    <3>5. CASE Crash(w)
      BY <2>f, <3>5 DEF Crash, TypeOK, history
    <3>6. CASE Stop(w)
      BY <2>f, <3>6 DEF Stop, TypeOK, history
    <3>7. CASE Stopped(w)
      BY <3>7 DEF Stopped, TypeOK, history
    <3>8. CASE Restart(w)
      BY <3>8 DEF Restart, TypeOK, history
    <3> QED BY <2>2, <3>1, <3>2, <3>3, <3>4, <3>5, <3>6, <3>7, <3>8 DEF ReplicaStep
  <2>3. CASE OperatorStep
    <3>1. CASE PauseCampaign \/ ResumeCampaign \/ CancelCampaign
      BY <3>1 DEF PauseCampaign, ResumeCampaign, CancelCampaign, TypeOK, history
    <3>2. ASSUME NEW filter \in RetryFilters, NEW S \in SUBSET Deliveries, RetryCampaign(filter, S)
          PROVE  TypeOK'
      <4>1. [d \in Deliveries |-> IF d \in S THEN Requeued(rows[d]) ELSE rows[d]]
              \in [Deliveries -> Row]
        BY <2>r, RowType
      <4> QED BY <2>f, <3>2, <4>1, WriteType DEF RetryCampaign, TypeOK, history
    <3>3. ASSUME NEW d \in Deliveries, RetryDeliveryCheck(d) PROVE TypeOK'
      BY <2>f, <3>3 DEF RetryDeliveryCheck, TypeOK, history
    <3>4. ASSUME NEW d \in Deliveries, RetryDelivery(d) PROVE TypeOK'
      <4>1. [rows EXCEPT ![d] = Requeued(@)] \in [Deliveries -> Row]
        BY <2>r, RowType DEF TypeOK
      <4> QED BY <3>4, <4>1, WriteType DEF RetryDelivery, TypeOK, history
    <3> QED BY <2>3, <3>1, <3>2, <3>3, <3>4 DEF OperatorStep
  <2>4. ASSUME NEW S \in SUBSET Deliveries, ReleaseExpiredLeases(S) PROVE TypeOK'
    <3>1. [d \in Deliveries |-> IF d \in S THEN Released(rows[d]) ELSE rows[d]]
            \in [Deliveries -> Row]
      BY <2>r, RowType
    <3> QED BY <2>4, <3>1, WriteType DEF ReleaseExpiredLeases, TypeOK
  <2>5. ASSUME NEW S \in SUBSET Deliveries, CancelChunk(S) PROVE TypeOK'
    <3>1. [d \in Deliveries |-> IF d \in S THEN BulkCancelled(rows[d]) ELSE rows[d]]
            \in [Deliveries -> Row]
      BY <2>r, RowType
    <3> QED BY <2>5, <3>1, WriteType DEF CancelChunk, TypeOK, history
  <2>6. ASSUME NEW d \in Deliveries, NEW to \in {"bounced", "complained"}, MarkTerminal(d, to)
        PROVE  TypeOK'
    <3>1. to \in Statuses
      BY DEF Statuses, Terminal
    <3>2. [rows EXCEPT ![d] = MarkedTerminal(@, to)] \in [Deliveries -> Row]
      BY <2>r, <3>1, RowType DEF TypeOK
    <3> QED BY <2>6, <3>2, WriteType DEF MarkTerminal, TypeOK, history
  <2>7. CASE Tick
    <3>1. [d \in Deliveries |-> Aged(rows[d])] \in [Deliveries -> Row]
      BY <2>r, RowType
    <3>2. ASSUME NEW j \in Job PROVE [j EXCEPT !.res.wait = IF @ > 0 THEN @ - 1 ELSE @] \in Job
      <4> DEFINE k == IF j.res.wait > 0 THEN j.res.wait - 1 ELSE j.res.wait
                 q == [j.res EXCEPT !.wait = k]
      <4>1. j.res \in Result
        BY DEF Job
      <4>2. q \in Result
        BY <4>1 DEF Result
      <4>3. [j EXCEPT !.res.wait = IF @ > 0 THEN @ - 1 ELSE @] = [j EXCEPT !.res = q]
        BY DEF Job, Result
      <4> HIDE DEF q
      <4> QED BY <4>2, <4>3 DEF Job
    <3>3. jobs' \in [Tickets -> Job \cup {NoJob}]
      BY <2>7, <2>a, <3>2 DEF Tick, AgedJob
    <3> QED BY <2>7, <2>f, <3>1, <3>3, WriteType DEF Tick, TypeOK, history
  <2> QED BY <2>u, <2>1, <2>2, <2>3, <2>4, <2>5, <2>6, <2>7 DEF Next
<1> QED BY <1>1, <1>2, PTL DEF Spec

-----------------------------------------------------------------------------
(* What one step can do to one row.                                        *)

\* A worker's uncommitted result for d.
ResultOf(w, t, d) ==
  /\ t \in Tickets
  /\ jobs[t] # NoJob
  /\ jobs[t].w = w
  /\ jobs[t].d = d
  /\ jobs[t].stage = "done"

\* The statements of store.DeliveryRepo, each under its own condition.
RowStep(d) ==
  \/ rows'[d] = rows[d]
  \/ /\ rows[d].status \in Waiting
     /\ \E w \in Workers : rows'[d] = Claimed(rows[d], w)
  \/ \E w \in Workers, t \in Tickets :
       /\ ResultOf(w, t, d)
       /\ CompleteApplies(rows[d], w)
       /\ rows'[d] = Completed(rows[d], jobs[t].res)
       /\ jobs'[t] = NoJob
  \/ \E t \in Tickets :
       /\ MarkSent(t)
       /\ jobs[t] # NoJob /\ jobs[t].d = d /\ jobs[t].stage = "accepted"
       /\ MarkSentApplies(rows[d], jobs[t].w)
       /\ rows'[d] = MarkedSent(rows[d])
  \/ /\ MarkTerminalApplies(rows[d])
     /\ \E to \in {"bounced", "complained"} : rows'[d] = MarkedTerminal(rows[d], to)
  \/ /\ Expired(rows[d])
     /\ rows'[d] = Released(rows[d])
     /\ released'[d] = released[d] + 1
  \/ Cancellable(rows[d]) /\ rows'[d] = BulkCancelled(rows[d])
  \/ rows'[d] = Requeued(rows[d])
  \/ rows'[d] = Aged(rows[d])

\* No step of any component changes a row in any other way.
LEMMA RowSteps ==
  ASSUME TypeOK, [Next]_vars, NEW d \in Deliveries
  PROVE  RowStep(d)
<1> USE DEF RowStep
<1>1. CASE UNCHANGED rows
  BY <1>1
<1>2. ASSUME NEW t \in Tickets, JobStep(t) PROVE RowStep(d)
  <2>1. CASE MarkSent(t)
    <3>1. rows' = [rows EXCEPT ![jobs[t].d] = MarkedSent(@)]
      BY <2>1 DEF MarkSent, Write
    <3>2. CASE jobs[t].d = d
      <4>1. rows'[d] = MarkedSent(rows[d])
        BY <3>1, <3>2 DEF TypeOK
      <4> QED BY <2>1, <3>2, <4>1 DEF MarkSent
    <3> QED BY <3>1, <3>2 DEF TypeOK
  <2>2. CASE ~MarkSent(t)
    BY <1>1, <1>2, <2>2 DEF JobStep, RefuseToSend, Postpone, SendFails, SendReplyLost,
       SendAccepted, MarkSentLeaseLost, MarkSentFails, GiveUp
  <2> QED BY <2>1, <2>2
<1>3. ASSUME NEW w \in Workers, ReplicaStep(w) PROVE RowStep(d)
  <2>1. ASSUME NEW t \in Tickets, NEW e \in Deliveries, Claim(w, t, e) PROVE RowStep(d)
    <3>1. rows' = [rows EXCEPT ![e] = Claimed(@, w)]
      BY <2>1 DEF Claim, Write
    <3>2. rows[e].status \in Waiting
      BY <2>1 DEF Claim, Claimable, Waiting
    <3>3. CASE e = d
      <4>1. rows'[d] = Claimed(rows[d], w)
        BY <3>1, <3>3 DEF TypeOK
      <4> QED BY <3>2, <3>3, <4>1
    <3> QED BY <3>1, <3>3 DEF TypeOK
  <2>2. CASE Flush(w)
    <3> DEFINE held == {e \in Deliveries : /\ CompleteApplies(rows[e], w)
                                          /\ \E t \in Buffer(w) : jobs[t].d = e}
    <3>1. PICK pick \in [held -> Buffer(w)] :
            /\ \A e \in held : jobs[pick[e]].d = e
            /\ rows' = [e \in Deliveries |->
                          IF e \in held THEN Completed(rows[e], jobs[pick[e]].res) ELSE rows[e]]
      BY <2>2 DEF Flush, Write
    <3>2. CASE d \in held
      <4>1. pick[d] \in Buffer(w) /\ jobs[pick[d]].d = d
        BY <3>1, <3>2
      <4>2. ResultOf(w, pick[d], d) /\ pick[d] \in Tickets
        BY <4>1 DEF ResultOf, Buffer, JobsOf
      <4>3. rows'[d] = Completed(rows[d], jobs[pick[d]].res)
        BY <3>1, <3>2
      <4>4. jobs'[pick[d]] = NoJob
        BY <2>2, <4>1, <4>2 DEF Flush
      <4> QED BY <3>2, <4>2, <4>3, <4>4
    <3> QED BY <3>1, <3>2
  <2>3. CASE RefreshRunning(w) \/ FlushFails(w) \/ Crash(w) \/ Stop(w) \/ Stopped(w) \/ Restart(w)
    BY <1>1, <2>3 DEF RefreshRunning, FlushFails, Crash, Stop, Stopped, Restart
  <2> QED BY <1>3, <2>1, <2>2, <2>3 DEF ReplicaStep
<1>4. CASE OperatorStep
  <2>1. ASSUME NEW filter \in RetryFilters, NEW S \in SUBSET Deliveries, RetryCampaign(filter, S)
        PROVE  RowStep(d)
    BY <2>1 DEF RetryCampaign, Write
  <2>2. ASSUME NEW e \in Deliveries, RetryDelivery(e) PROVE RowStep(d)
    BY <2>2 DEF RetryDelivery, Write, TypeOK
  <2>3. ASSUME NEW e \in Deliveries, RetryDeliveryCheck(e) PROVE RowStep(d)
    BY <2>3 DEF RetryDeliveryCheck
  <2>4. CASE PauseCampaign \/ ResumeCampaign \/ CancelCampaign
    BY <2>4 DEF PauseCampaign, ResumeCampaign, CancelCampaign
  <2> QED BY <1>4, <2>1, <2>2, <2>3, <2>4 DEF OperatorStep
<1>5. ASSUME NEW S \in SUBSET Deliveries, ReleaseExpiredLeases(S) \/ CancelChunk(S)
      PROVE  RowStep(d)
  BY <1>5 DEF ReleaseExpiredLeases, CancelChunk, Write
<1>6. ASSUME NEW e \in Deliveries, NEW to \in {"bounced", "complained"}, MarkTerminal(e, to)
      PROVE  RowStep(d)
  BY <1>6 DEF MarkTerminal, Write, TypeOK
<1>7. CASE Tick
  BY <1>7 DEF Tick, Write
<1>8. CASE UNCHANGED vars
  BY <1>8 DEF vars
<1> QED BY <1>2, <1>3, <1>4, <1>5, <1>6, <1>7, <1>8 DEF Next

-----------------------------------------------------------------------------
(* What the jobs know.                                                     *)

\* A job past SMTP stands for an accepted message, and a result in a batcher
\* never claims more than its job saw.
JobHonest(t) ==
  jobs[t] # NoJob =>
    /\ jobs[t].stage = "accepted" => accepted[jobs[t].d] > 0
    /\ jobs[t].stage = "done" =>
         /\ jobs[t].res.status \in {"sent", "failed", "suppressed", "queued", "deferred"}
         /\ jobs[t].res.status = "sent" => accepted[jobs[t].d] > 0

JobsHonest == \A t \in Tickets : JobHonest(t)

\* The rows' side: the lease columns match the status, and sent is earned.
SendInv == TypeOK /\ JobsHonest /\ LeaseMatchesStatus /\ SentWasAccepted

\* The reaper's count only grows, and the relay's counters move only where a
\* relay takes a message.
LEMMA HistorySteps ==
  ASSUME TypeOK, [Next]_vars, NEW d \in Deliveries
  PROVE  /\ released'[d] \in Nat /\ released'[d] >= released[d]
         /\ \/ UNCHANGED <<accepted, lost>>
            \/ \E t \in Tickets : SendReplyLost(t) \/ SendAccepted(t)
<1>1. released[d] \in Nat
  BY DEF TypeOK
<1> DEFINE Quiet == UNCHANGED <<accepted, lost, released>>
<1>2. ASSUME NEW t \in Tickets, JobStep(t), ~SendReplyLost(t), ~SendAccepted(t)
      PROVE  Quiet
  BY <1>2 DEF JobStep, RefuseToSend, Postpone, SendFails, MarkSent, MarkSentLeaseLost,
     MarkSentFails, GiveUp, history
<1>3. ASSUME NEW t \in Tickets, SendReplyLost(t) \/ SendAccepted(t)
      PROVE  UNCHANGED released
  BY <1>3 DEF SendReplyLost, SendAccepted
<1>4. ASSUME NEW w \in Workers, ReplicaStep(w) PROVE Quiet
  BY <1>4 DEF ReplicaStep, RefreshRunning, Claim, Flush, FlushFails, Crash, Stop, Stopped,
     Restart, history
<1>5. CASE OperatorStep
  <2>1. Quiet
    BY <1>5 DEF OperatorStep, PauseCampaign, ResumeCampaign, CancelCampaign, RetryCampaign,
       RetryDeliveryCheck, RetryDelivery, history
  <2> QED BY <1>1, <2>1
<1>6. ASSUME NEW S \in SUBSET Deliveries, ReleaseExpiredLeases(S)
      PROVE  /\ UNCHANGED <<accepted, lost>>
             /\ released'[d] \in {released[d], released[d] + 1}
  BY <1>6 DEF ReleaseExpiredLeases
<1>7. CASE \/ \E S \in SUBSET Deliveries : CancelChunk(S)
           \/ \E e \in Deliveries, to \in {"bounced", "complained"} : MarkTerminal(e, to)
           \/ Tick
           \/ UNCHANGED vars
  <2>1. Quiet
    BY <1>7 DEF CancelChunk, MarkTerminal, Tick, vars, history
  <2> QED BY <1>1, <2>1
<1> QED BY <1>1, <1>2, <1>3, <1>4, <1>5, <1>6, <1>7 DEF Next

\* The relay's counter only grows.
LEMMA AcceptedGrows ==
  ASSUME TypeOK, [Next]_vars, NEW d \in Deliveries
  PROVE  accepted'[d] \in Nat /\ accepted'[d] >= accepted[d]
<1>1. accepted[d] \in Nat
  BY DEF TypeOK
<1>2. ASSUME NEW t \in Tickets, SendReplyLost(t) \/ SendAccepted(t)
      PROVE  accepted'[d] \in Nat /\ accepted'[d] >= accepted[d]
  BY <1>1, <1>2 DEF SendReplyLost, SendAccepted, TypeOK
<1> QED BY <1>1, <1>2, HistorySteps

\* A result that counts as an attempt of a delivery whose budget it uses up
\* gives the delivery up.
Affordable(res, attempts) ==
  res.inc /\ attempts + 1 >= MaxOf => res.status = "failed"

\* What one step can do to one job.
JobChange(t) ==
  \/ jobs'[t] = jobs[t]
  \/ jobs'[t] = NoJob
  \/ jobs'[t] = AgedJob(jobs[t])
  \/ /\ jobs[t] = NoJob
     /\ jobs'[t] \in Job
     /\ jobs'[t].stage = "claimed"
     /\ \E w \in Workers, d \in Deliveries : Claim(w, t, d)
  \/ /\ jobs[t] # NoJob
     /\ jobs[t].stage = "claimed"
     /\ jobs'[t] = [jobs[t] EXCEPT !.stage = "accepted"]
     /\ accepted'[jobs[t].d] > 0
  \/ /\ jobs[t] # NoJob
     /\ \E res \in Result :
          /\ jobs'[t] = [jobs[t] EXCEPT !.stage = "done", !.res = res]
          /\ \/ /\ res.status \in {"failed", "suppressed", "queued", "deferred"}
                /\ jobs[t].stage = "claimed"
             \/ res.status = "sent" /\ jobs[t].stage = "accepted"
          /\ Affordable(res, jobs[t].attempts)

\* batcher.add changes only the job it is called for.
LEMMA AddChange ==
  ASSUME TypeOK, NEW t \in Tickets, NEW u \in Tickets, NEW res, jobs[u] # NoJob, Add(u, res)
  PROVE  /\ t # u => jobs'[t] = jobs[t]
         /\ t = u => jobs'[t] = [jobs[t] EXCEPT !.stage = "done", !.res = res]
<1>1. CASE t # u
  BY <1>1 DEF Add, TypeOK
<1>2. CASE t = u
  <2>1. jobs[u] \in Job
    BY DEF TypeOK
  <2> QED BY <1>2, <2>1 DEF Add, TypeOK, Job
<1> QED BY <1>1, <1>2

\* What Policy.Decide answers to a failure never says sent, and to success
\* nothing else; it never defers a delivery beyond its budget.
LEMMA DecideStatus ==
  ASSUME NEW class \in Classes, NEW attempts \in Nat, NEW res \in Decide(class, attempts)
  PROVE  /\ class = "none" => res.status = "sent"
         /\ class # "none" => res.status \in {"failed", "queued", "deferred"}
         /\ Affordable(res, attempts)
<1> USE DEF Affordable
<1>1. CASE class = "none"
  BY <1>1 DEF Decide, Decision
<1>2. CASE class \in {"transient", "rate_limited"}
  BY <1>2 DEF Decide, Decision
<1>3. CASE class = "auth"
  BY <1>3 DEF Decide, Decision
<1>4. CASE class \in {"permanent", "policy"}
  BY <1>4 DEF Decide, Decision
<1> QED BY <1>1, <1>2, <1>3, <1>4 DEF Classes

\* No step of any component changes a job in any other way.
LEMMA JobSteps ==
  ASSUME TypeOK, [Next]_vars, NEW t \in Tickets
  PROVE  JobChange(t)
<1> USE DEF JobChange
<1>t. \A u \in Tickets : jobs[u] # NoJob => jobs[u] \in Job /\ jobs[u].attempts \in Nat
  BY DEF TypeOK, Job
<1>1. ASSUME NEW u \in Tickets, JobStep(u) PROVE JobChange(t)
  <2>1. CASE RefuseToSend(u)
    <3>1. PICK s \in {"failed", "suppressed"} : Add(u, Decision(s, 0, FALSE))
      BY <2>1 DEF RefuseToSend
    <3>2. /\ Decision(s, 0, FALSE) \in Result
          /\ Decision(s, 0, FALSE).status = s
          /\ Affordable(Decision(s, 0, FALSE), jobs[u].attempts)
      BY DEF Decision, Result, Statuses, Terminal, Affordable
    <3> QED BY <2>1, <3>1, <3>2, AddChange DEF RefuseToSend
  <2>2. CASE Postpone(u)
    <3>1. PICK n \in {InternalRetryAfter, AuthRetryAfter} : Add(u, Decision("queued", n, FALSE))
      BY <2>2 DEF Postpone
    <3>2. /\ Decision("queued", n, FALSE) \in Result
          /\ Decision("queued", n, FALSE).status = "queued"
          /\ Affordable(Decision("queued", n, FALSE), jobs[u].attempts)
      BY PipelineAssumption, PolicyAssumption DEF Decision, Result, Statuses, Waiting, Affordable
    <3> QED BY <2>2, <3>1, <3>2, AddChange DEF Postpone
  <2>3. ASSUME NEW class \in Classes \ {"none"}, SendFails(u, class) PROVE JobChange(t)
    <3>1. PICK res \in Decide(class, jobs[u].attempts) : Add(u, res)
      BY <2>3 DEF SendFails
    <3>2. /\ res \in Result /\ res.status \in {"failed", "queued", "deferred"}
          /\ Affordable(res, jobs[u].attempts)
      BY <1>t, <2>3, DecideType, DecideStatus DEF SendFails
    <3> QED BY <2>3, <3>1, <3>2, AddChange DEF SendFails
  <2>4. CASE SendReplyLost(u)
    <3>1. PICK res \in Decide("transient", jobs[u].attempts) : Add(u, res)
      BY <2>4 DEF SendReplyLost
    <3>2. "transient" \in Classes /\ "transient" # "none"
      BY DEF Classes
    <3>3. /\ res \in Result /\ res.status \in {"failed", "queued", "deferred"}
          /\ Affordable(res, jobs[u].attempts)
      BY <1>t, <2>4, <3>2, DecideType, DecideStatus DEF SendReplyLost
    <3> QED BY <2>4, <3>1, <3>3, AddChange DEF SendReplyLost
  <2>5. CASE SendAccepted(u)
    <3>1. CASE t # u
      BY <2>5, <3>1 DEF SendAccepted, TypeOK
    <3>2. CASE t = u
      <4>1. jobs[t] \in Job /\ jobs[t].d \in Deliveries
        BY <1>t, <2>5, <3>2 DEF SendAccepted, Job
      <4>2. jobs'[t] = [jobs[t] EXCEPT !.stage = "accepted"]
        BY <2>5, <3>2 DEF SendAccepted, TypeOK
      <4>3. accepted'[jobs[t].d] > 0
        BY <2>5, <3>2, <4>1 DEF SendAccepted, TypeOK
      <4> QED BY <2>5, <3>2, <4>2, <4>3 DEF SendAccepted
    <3> QED BY <3>1, <3>2
  <2>6. CASE MarkSent(u) \/ MarkSentFails(u)
    <3>1. PICK res \in Decide("none", jobs[u].attempts) : Add(u, res)
      BY <2>6 DEF MarkSent, MarkSentFails
    <3>2. "none" \in Classes
      BY DEF Classes
    <3>3. /\ res \in Result /\ res.status = "sent"
          /\ Affordable(res, jobs[u].attempts)
      BY <1>t, <2>6, <3>2, DecideType, DecideStatus DEF MarkSent, MarkSentFails
    <3>4. jobs[u] # NoJob /\ jobs[u].stage = "accepted"
      BY <2>6 DEF MarkSent, MarkSentFails
    <3> QED BY <3>1, <3>3, <3>4, AddChange
  <2>7. CASE MarkSentLeaseLost(u) \/ GiveUp(u)
    BY <2>7 DEF MarkSentLeaseLost, GiveUp, TypeOK
  <2> QED BY <1>1, <2>1, <2>2, <2>3, <2>4, <2>5, <2>6, <2>7 DEF JobStep
<1>2. ASSUME NEW w \in Workers, ReplicaStep(w) PROVE JobChange(t)
  <2>1. ASSUME NEW u \in Tickets, NEW d \in Deliveries, Claim(w, u, d) PROVE JobChange(t)
    <3>1. rows[d].attempts \in Nat
      BY DEF TypeOK, Row
    <3>2. NoResult \in Result
      BY DEF NoResult, Decision, Result, Statuses
    <3> QED BY <2>1, <3>1, <3>2 DEF Claim, TypeOK, Job
  <2>2. CASE \/ RefreshRunning(w) \/ Flush(w) \/ FlushFails(w) \/ Crash(w)
             \/ Stop(w) \/ Stopped(w) \/ Restart(w)
    BY <2>2 DEF RefreshRunning, Flush, FlushFails, Crash, Stop, Stopped, Restart
  <2> QED BY <1>2, <2>1, <2>2 DEF ReplicaStep
<1>3. CASE OperatorStep
  BY <1>3 DEF OperatorStep, PauseCampaign, ResumeCampaign, CancelCampaign, RetryCampaign,
     RetryDeliveryCheck, RetryDelivery
<1>4. CASE \/ \E S \in SUBSET Deliveries : ReleaseExpiredLeases(S) \/ CancelChunk(S)
           \/ \E e \in Deliveries, to \in {"bounced", "complained"} : MarkTerminal(e, to)
           \/ UNCHANGED vars
  BY <1>4 DEF ReleaseExpiredLeases, CancelChunk, MarkTerminal, vars
<1>5. CASE Tick
  BY <1>5 DEF Tick
<1> QED BY <1>1, <1>2, <1>3, <1>4, <1>5 DEF Next

\* The invariant holds of new rows and idle replicas, and every step of every
\* component keeps it.
LEMMA SendInvInductive ==
  /\ Init => SendInv
  /\ SendInv /\ TypeOK' /\ [Next]_vars => SendInv'
<1>1. ASSUME Init PROVE SendInv
  <2>1. TypeOK
    BY <1>1, PipelineAssumption DEF Init, TypeOK, NewRow, Row, Statuses, Waiting, Terminal
  <2>2. JobsHonest
    BY <1>1 DEF Init, JobsHonest, JobHonest
  <2>3. LeaseMatchesStatus /\ SentWasAccepted
    BY <1>1 DEF Init, LeaseMatchesStatus, SentWasAccepted, NewRow
  <2> QED BY <2>1, <2>2, <2>3 DEF SendInv
<1>2. ASSUME SendInv, TypeOK', [Next]_vars PROVE SendInv'
  <2>a. TypeOK /\ JobsHonest /\ LeaseMatchesStatus /\ SentWasAccepted
    BY <1>2 DEF SendInv
  <2>1. ASSUME NEW t \in Tickets PROVE JobHonest(t)'
    <3>1. JobChange(t)
      BY <1>2, <2>a, JobSteps
    <3>2. SUFFICES ASSUME jobs'[t] # NoJob
                   PROVE  /\ jobs'[t].stage = "accepted" => accepted'[jobs'[t].d] > 0
                          /\ jobs'[t].stage = "done" =>
                               /\ jobs'[t].res.status \in {"sent", "failed", "suppressed", "queued", "deferred"}
                               /\ jobs'[t].res.status = "sent" => accepted'[jobs'[t].d] > 0
      BY DEF JobHonest
    <3>3. JobHonest(t)
      BY <2>a DEF JobsHonest
    <3>4. jobs[t] # NoJob => /\ jobs[t] \in Job
                             /\ jobs[t].d \in Deliveries
                             /\ jobs[t].res \in Result
      BY <2>a DEF TypeOK, Job
    <3>5. \A d \in Deliveries : accepted[d] > 0 => accepted'[d] > 0
      <4>1. \A d \in Deliveries : /\ accepted[d] \in Nat
                                   /\ accepted'[d] \in Nat
                                   /\ accepted'[d] >= accepted[d]
        BY <1>2, <2>a, AcceptedGrows DEF TypeOK
      <4> QED BY <4>1
    <3>6. CASE jobs'[t] = jobs[t]
      BY <3>2, <3>3, <3>4, <3>5, <3>6 DEF JobHonest
    <3>7. CASE jobs'[t] = AgedJob(jobs[t])
      <4>1. jobs[t] # NoJob
        BY <3>2, <3>7 DEF AgedJob
      <4>2. /\ jobs'[t].stage = jobs[t].stage
            /\ jobs'[t].d = jobs[t].d
            /\ jobs'[t].res.status = jobs[t].res.status
        BY <3>4, <3>7, <4>1 DEF AgedJob, Job, Result
      <4> QED BY <3>3, <3>4, <3>5, <4>1, <4>2 DEF JobHonest
    <3>8. CASE jobs[t] = NoJob /\ jobs'[t] \in Job /\ jobs'[t].stage = "claimed"
      BY <3>8
    <3>9. CASE /\ jobs[t] # NoJob
               /\ jobs'[t] = [jobs[t] EXCEPT !.stage = "accepted"]
               /\ accepted'[jobs[t].d] > 0
      BY <3>4, <3>9 DEF Job
    <3>10. ASSUME jobs[t] # NoJob,
                  NEW res \in Result,
                  jobs'[t] = [jobs[t] EXCEPT !.stage = "done", !.res = res],
                  \/ res.status \in {"failed", "suppressed", "queued", "deferred"}
                  \/ res.status = "sent" /\ jobs[t].stage = "accepted"
           PROVE  /\ jobs'[t].stage = "accepted" => accepted'[jobs'[t].d] > 0
                  /\ jobs'[t].stage = "done" =>
                       /\ jobs'[t].res.status \in {"sent", "failed", "suppressed", "queued", "deferred"}
                       /\ jobs'[t].res.status = "sent" => accepted'[jobs'[t].d] > 0
      <4>1. jobs'[t].stage = "done" /\ jobs'[t].res = res /\ jobs'[t].d = jobs[t].d
        BY <3>4, <3>10 DEF Job
      <4> QED BY <3>3, <3>4, <3>5, <3>10, <4>1 DEF JobHonest
    <3> QED BY <3>1, <3>2, <3>6, <3>7, <3>8, <3>9, <3>10 DEF JobChange
  <2>2. ASSUME NEW d \in Deliveries
        PROVE  /\ rows'[d].status = "leased" => rows'[d].owner # NoOwner
               /\ rows'[d].owner # NoOwner => rows'[d].status \in {"leased", "sent"}
               /\ rows'[d].status \in {"sent", "bounced", "complained"} => accepted'[d] > 0
    <3>1. RowStep(d)
      BY <1>2, <2>a, RowSteps
    <3>2. rows[d] \in Row
      BY <2>a DEF TypeOK
    <3>3. /\ rows[d].status = "leased" => rows[d].owner # NoOwner
          /\ rows[d].owner # NoOwner => rows[d].status \in {"leased", "sent"}
          /\ rows[d].status \in {"sent", "bounced", "complained"} => accepted[d] > 0
      BY <2>a DEF LeaseMatchesStatus, SentWasAccepted
    <3>4. accepted[d] > 0 => accepted'[d] > 0
      <4>1. accepted[d] \in Nat /\ accepted'[d] \in Nat /\ accepted'[d] >= accepted[d]
        BY <1>2, <2>a, AcceptedGrows DEF TypeOK
      <4> QED BY <4>1
    <3>5. CASE rows'[d] = rows[d]
      BY <3>3, <3>4, <3>5
    <3>6. ASSUME NEW w \in Workers, rows'[d] = Claimed(rows[d], w)
          PROVE  rows'[d].status = "leased" /\ rows'[d].owner # NoOwner
      BY <3>2, <3>6, RowAssumption DEF Claimed, Row
    <3>7. ASSUME NEW w \in Workers, NEW t \in Tickets, ResultOf(w, t, d),
                 rows'[d] = Completed(rows[d], jobs[t].res)
          PROVE  /\ rows'[d].owner = NoOwner
                 /\ rows'[d].status \in {"sent", "failed", "suppressed", "queued", "deferred"}
                 /\ rows'[d].status = "sent" => accepted'[d] > 0
      <4>1. JobHonest(t)
        BY <2>a DEF JobsHonest
      <4>2. rows'[d].status = jobs[t].res.status /\ rows'[d].owner = NoOwner
        BY <3>2, <3>7 DEF Completed, Unleased, Row
      <4> QED BY <3>4, <3>7, <4>1, <4>2 DEF JobHonest, ResultOf
    <3>8. ASSUME NEW t \in Tickets, jobs[t] # NoJob, jobs[t].d = d, jobs[t].stage = "accepted",
                 MarkSentApplies(rows[d], jobs[t].w), rows'[d] = MarkedSent(rows[d])
          PROVE  rows'[d].status = "sent" /\ accepted'[d] > 0
      <4>1. JobHonest(t)
        BY <2>a DEF JobsHonest
      <4> QED BY <3>2, <3>4, <3>8, <4>1 DEF JobHonest, MarkedSent, Row
    <3>9. ASSUME MarkTerminalApplies(rows[d]), NEW to \in {"bounced", "complained"},
                 rows'[d] = MarkedTerminal(rows[d], to)
          PROVE  rows'[d].status = to /\ rows'[d].owner = NoOwner /\ accepted'[d] > 0
      BY <3>2, <3>3, <3>4, <3>9 DEF MarkTerminalApplies, MarkedTerminal, Unleased, Row
    <3>10. CASE rows'[d] = Released(rows[d]) \/ rows'[d] = Requeued(rows[d])
      <4>1. rows'[d].status \in {"queued", "deferred"} /\ rows'[d].owner = NoOwner
        BY <3>2, <3>10 DEF Released, Requeued, Unleased, Row
      <4> QED BY <4>1
    <3>11. CASE Cancellable(rows[d]) /\ rows'[d] = BulkCancelled(rows[d])
      <4>1. rows'[d].status = "cancelled" /\ rows'[d].owner = rows[d].owner
        BY <3>2, <3>11 DEF BulkCancelled, Row
      <4>2. rows[d].owner = NoOwner
        BY <3>3, <3>11 DEF Cancellable, Waiting
      <4> QED BY <4>1, <4>2
    <3>12. CASE rows'[d] = Aged(rows[d])
      <4>1. rows'[d].status = rows[d].status /\ rows'[d].owner = rows[d].owner
        BY <3>2, <3>12 DEF Aged, Row
      <4> QED BY <3>3, <3>4, <4>1
    <3> QED BY <3>1, <3>5, <3>6, <3>7, <3>8, <3>9, <3>10, <3>11, <3>12 DEF RowStep
  <2> QED BY <1>2, <2>1, <2>2 DEF SendInv, JobsHonest, LeaseMatchesStatus, SentWasAccepted
<1> QED BY <1>1, <1>2

\* The lease columns never disagree with the status, so a row that left the
\* send path is closed to every later compare-and-set of a replica.
THEOREM LeaseColumnsMatch == Spec => []LeaseMatchesStatus
<1>1. SendInv => LeaseMatchesStatus
  BY DEF SendInv
<1> QED BY <1>1, SendInvInductive, TypeCorrect, PTL DEF Spec

\* sent, bounced and complained are only ever recorded for a message a relay
\* took, whichever replica, batch or retry recorded them.
THEOREM SentIsEarned == Spec => []SentWasAccepted
<1>1. SendInv => SentWasAccepted
  BY DEF SendInv
<1> QED BY <1>1, SendInvInductive, TypeCorrect, PTL DEF Spec

\* Only a batcher's flush enqueues delivery events, and only those of the
\* results in its batch.
LEMMA EventSteps ==
  ASSUME TypeOK, [Next]_vars, NEW d \in Deliveries, NEW x \in events'[d]
  PROVE  \/ x \in events[d]
         \/ \E w \in Workers : /\ Flush(w)
                               /\ x \in Reported
                               /\ \E t \in Buffer(w) : jobs[t].d = d /\ jobs[t].res.status = x
<1>1. ASSUME NEW t \in Tickets, JobStep(t) PROVE UNCHANGED events
  BY <1>1 DEF JobStep, RefuseToSend, Postpone, SendFails, SendReplyLost, SendAccepted,
     MarkSent, MarkSentLeaseLost, MarkSentFails, GiveUp
<1>2. ASSUME NEW w \in Workers, Flush(w), ~UNCHANGED events
      PROVE  \/ x \in events[d]
             \/ /\ x \in Reported
                /\ \E t \in Buffer(w) : jobs[t].d = d /\ jobs[t].res.status = x
  <2>1. events' = [e \in Deliveries |->
                     events[e] \cup ({jobs[t].res.status :
                                        t \in {u \in Buffer(w) : jobs[u].d = e}}
                                     \cap Reported)]
    BY <1>2 DEF Flush
  <2> QED BY <2>1
<1>3. ASSUME NEW w \in Workers, ReplicaStep(w), ~Flush(w) PROVE UNCHANGED events
  BY <1>3 DEF ReplicaStep, RefreshRunning, Claim, FlushFails, Crash, Stop, Stopped, Restart
<1>4. CASE OperatorStep
  BY <1>4 DEF OperatorStep, PauseCampaign, ResumeCampaign, CancelCampaign, RetryCampaign,
     RetryDeliveryCheck, RetryDelivery
<1>5. CASE \/ \E S \in SUBSET Deliveries : ReleaseExpiredLeases(S) \/ CancelChunk(S)
           \/ \E e \in Deliveries, to \in {"bounced", "complained"} : MarkTerminal(e, to)
           \/ Tick
           \/ UNCHANGED vars
  BY <1>5 DEF ReleaseExpiredLeases, CancelChunk, MarkTerminal, Tick, vars
<1> QED BY <1>1, <1>2, <1>3, <1>4, <1>5 DEF Next

\* No delivery.sent event is enqueued for a message no relay took, whatever
\* results a batch holds and whether or not Complete applied them.
THEOREM SentEventsAreEarned == Spec => []SentEventWasAccepted
<1>1. Init => SentEventWasAccepted
  BY DEF Init, SentEventWasAccepted
<1>2. SendInv /\ SentEventWasAccepted /\ [Next]_vars => SentEventWasAccepted'
  <2> SUFFICES ASSUME SendInv, SentEventWasAccepted, [Next]_vars,
                      NEW d \in Deliveries, "sent" \in events'[d]
               PROVE  accepted'[d] > 0
    BY DEF SentEventWasAccepted
  <2>1. TypeOK /\ JobsHonest
    BY DEF SendInv
  <2>2. \/ "sent" \in events[d]
        \/ \E t \in Tickets : /\ jobs[t] # NoJob /\ jobs[t].stage = "done"
                             /\ jobs[t].d = d /\ jobs[t].res.status = "sent"
    BY <2>1, EventSteps DEF Buffer, JobsOf
  <2>3. accepted[d] > 0
    BY <2>1, <2>2 DEF SentEventWasAccepted, JobsHonest, JobHonest
  <2>4. accepted[d] \in Nat /\ accepted'[d] \in Nat /\ accepted'[d] >= accepted[d]
    BY <2>1, AcceptedGrows DEF TypeOK
  <2> QED BY <2>3, <2>4
<1> QED BY <1>1, <1>2, SendInvInductive, TypeCorrect, PTL DEF Spec

-----------------------------------------------------------------------------
(* The ledger of sends.                                                    *)

\* Only a claim opens a ticket; every other step can only close some.
LEMMA OpenShrinks ==
  ASSUME TypeOK, [Next]_vars, NEW d \in Deliveries, NEW t \in Open(d)'
  PROVE  t \in Open(d) \/ \E w \in Workers, e \in Deliveries : Claim(w, t, e)
<1>1. t \in Tickets
  BY DEF Open
<1>2. JobChange(t)
  BY <1>1, JobSteps
<1>3. /\ jobs'[t] # NoJob
      /\ jobs'[t].d = d
      /\ \/ jobs'[t].stage = "claimed"
         \/ jobs'[t].stage = "done" /\ jobs'[t].res.status \in Waiting
  BY DEF Open
<1>4. jobs[t] # NoJob => jobs[t] \in Job /\ jobs[t].res \in Result
  BY <1>1 DEF TypeOK, Job
<1>5. CASE jobs'[t] = jobs[t]
  BY <1>1, <1>3, <1>5 DEF Open
<1>6. CASE jobs'[t] = AgedJob(jobs[t])
  <2>1. jobs[t] # NoJob
    BY <1>3, <1>6 DEF AgedJob
  <2>2. /\ jobs'[t].stage = jobs[t].stage
        /\ jobs'[t].d = jobs[t].d
        /\ jobs'[t].res.status = jobs[t].res.status
    BY <1>4, <1>6, <2>1 DEF AgedJob, Job, Result
  <2> QED BY <1>1, <1>3, <2>1, <2>2 DEF Open
<1>7. jobs[t] # NoJob => jobs'[t] # [jobs[t] EXCEPT !.stage = "accepted"]
  BY <1>3, <1>4 DEF Job
<1>8. ASSUME jobs[t] # NoJob,
             NEW res \in Result,
             jobs'[t] = [jobs[t] EXCEPT !.stage = "done", !.res = res],
             \/ /\ res.status \in {"failed", "suppressed", "queued", "deferred"}
                /\ jobs[t].stage = "claimed"
             \/ res.status = "sent" /\ jobs[t].stage = "accepted"
      PROVE  t \in Open(d)
  <2>1. jobs'[t].stage = "done" /\ jobs'[t].res = res /\ jobs'[t].d = jobs[t].d
    BY <1>4, <1>8 DEF Job
  <2>2. jobs[t].stage = "claimed"
    BY <1>3, <1>8, <2>1 DEF Waiting
  <2> QED BY <1>1, <1>3, <1>8, <2>1, <2>2 DEF Open
<1> QED BY <1>2, <1>3, <1>5, <1>6, <1>7, <1>8 DEF JobChange

\* The retry generation of a row only grows.
LEMMA GenGrows ==
  ASSUME TypeOK, [Next]_vars, NEW d \in Deliveries
  PROVE  rows'[d].gen \in Nat /\ rows'[d].gen >= rows[d].gen
<1>1. RowStep(d)
  BY RowSteps
<1>2. rows[d] \in Row /\ rows[d].gen \in Nat
  BY DEF TypeOK, Row
<1>3. \/ rows'[d].gen = rows[d].gen
      \/ rows'[d].gen = rows[d].gen + 1
  BY <1>1, <1>2 DEF RowStep, Row, Claimed, Completed, MarkedSent, MarkedTerminal, Released,
     BulkCancelled, Requeued, Aged, Unleased
<1> QED BY <1>2, <1>3

\* The ledger is inductive: a claim trades a queued row for an open ticket, a
\* send an open ticket for an acceptance, a committed retry an open ticket for
\* a queued row; whatever else puts a row back is one of its causes.
THEOREM LedgerBalances == Spec => []SendLedger
<1>1. ASSUME Init PROVE SendLedger
  <2> SUFFICES ASSUME NEW d \in Deliveries
               PROVE  accepted[d] + Cardinality(Open(d)) + Queued(d) <= Causes(d)
    BY DEF SendLedger
  <2>1. Open(d) = {}
    BY <1>1 DEF Init, Open
  <2>2. accepted[d] = 0 /\ released[d] = 0 /\ lost[d] = 0 /\ rows[d].gen = 0
    BY <1>1 DEF Init, NewRow
  <2>3. Queued(d) \in {0, 1}
    BY DEF Queued
  <2> QED BY <2>1, <2>2, <2>3, FS_EmptySet DEF Causes
<1>2. ASSUME TypeOK, TypeOK', SendLedger, [Next]_vars PROVE SendLedger'
  <2> SUFFICES ASSUME NEW d \in Deliveries
               PROVE  accepted'[d] + Cardinality(Open(d)') + Queued(d)' <= Causes(d)'
    BY DEF SendLedger
  <2> DEFINE O == Open(d)
             P == Open(d)'
  <2>1. /\ IsFiniteSet(O) /\ IsFiniteSet(P)
        /\ Cardinality(O) \in Nat /\ Cardinality(P) \in Nat
    <3>1. O \subseteq Tickets /\ P \subseteq Tickets
      BY DEF Open
    <3> HIDE DEF O, P
    <3> QED BY <3>1, PipelineAssumption, FS_Subset, FS_CardinalityType
  <2>2. /\ accepted[d] \in Nat /\ released[d] \in Nat /\ lost[d] \in Nat /\ rows[d].gen \in Nat
        /\ accepted'[d] \in Nat /\ lost'[d] \in Nat
    BY <1>2 DEF TypeOK, Row
  <2>3. accepted[d] + Cardinality(O) + Queued(d) <= 1 + released[d] + rows[d].gen + lost[d]
    BY <1>2 DEF SendLedger, Causes
  <2>4. /\ released'[d] \in Nat /\ released'[d] >= released[d]
        /\ rows'[d].gen \in Nat /\ rows'[d].gen >= rows[d].gen
    BY <1>2, HistorySteps, GenGrows
  <2>5. Causes(d)' = 1 + released'[d] + rows'[d].gen + lost'[d]
    BY DEF Causes
  <2>6. /\ Queued(d) \in {0, 1} /\ Queued(d)' \in {0, 1}
        /\ rows[d].status \in Waiting <=> Queued(d) = 1
        /\ rows'[d].status \in Waiting <=> Queued(d)' = 1
    BY DEF Queued
  <2>7. ASSUME NEW w \in Workers, NEW t \in Tickets, NEW e \in Deliveries, Claim(w, t, e)
        PROVE  accepted'[d] + Cardinality(P) + Queued(d)' <= Causes(d)'
    <3>1. accepted' = accepted /\ lost' = lost
      BY <2>7 DEF Claim, history
    <3>2. /\ jobs[t] = NoJob
          /\ jobs'[t].d = e
          /\ \A u \in Tickets : u # t => jobs'[u] = jobs[u]
      BY <1>2, <2>7 DEF Claim, TypeOK
    <3>3. rows' = [rows EXCEPT ![e] = Claimed(@, w)] /\ rows[e].status \in Waiting
      BY <2>7 DEF Claim, Claimable, Write, Waiting
    <3>4. CASE e = d
      <4>1. rows'[d].status = "leased"
        BY <1>2, <3>3, <3>4 DEF TypeOK, Row, Claimed
      <4>2. Queued(d) = 1 /\ Queued(d)' = 0
        BY <2>6, <3>3, <3>4, <4>1 DEF Waiting
      <4>3. P \subseteq O \cup {t}
        BY <3>2 DEF Open
      <4> HIDE DEF O, P
      <4>4. Cardinality(P) <= Cardinality(O) + 1
        BY <2>1, <4>3, CountAdded
      <4> QED BY <2>1, <2>2, <2>3, <2>4, <2>5, <3>1, <4>2, <4>4
    <3>5. CASE e # d
      <4>1. rows'[d] = rows[d]
        BY <1>2, <3>3, <3>5 DEF TypeOK
      <4>2. P \subseteq O
        BY <3>2, <3>5 DEF Open
      <4>3. Queued(d)' = Queued(d)
        BY <4>1 DEF Queued
      <4> HIDE DEF O, P
      <4>4. Cardinality(P) <= Cardinality(O)
        BY <2>1, <4>2, CountSubset
      <4> QED BY <2>1, <2>2, <2>3, <2>4, <2>5, <2>6, <3>1, <4>3, <4>4
    <3> QED BY <3>4, <3>5
  <2>8. ASSUME \A w \in Workers, t \in Tickets, e \in Deliveries : ~Claim(w, t, e)
        PROVE  accepted'[d] + Cardinality(P) + Queued(d)' <= Causes(d)'
    <3>1. P \subseteq O
      BY <1>2, <2>8, OpenShrinks DEF Open
    <3>2. ASSUME NEW t \in Tickets, SendReplyLost(t) \/ SendAccepted(t)
          PROVE  accepted'[d] + Cardinality(P) + Queued(d)' <= Causes(d)'
      <4>1. /\ rows' = rows
            /\ jobs[t] # NoJob /\ jobs[t].stage = "claimed"
            /\ jobs[t] \in Job
        BY <1>2, <3>2 DEF SendReplyLost, SendAccepted, TypeOK
      <4>2. Queued(d)' = Queued(d)
        BY <4>1 DEF Queued
      <4>3. CASE jobs[t].d # d
        <5>1. accepted'[d] = accepted[d] /\ lost'[d] >= lost[d]
          BY <1>2, <3>2, <4>3 DEF SendReplyLost, SendAccepted, TypeOK
        <5> HIDE DEF O, P
        <5>2. Cardinality(P) <= Cardinality(O)
          BY <2>1, <3>1, CountSubset
        <5> QED BY <2>1, <2>2, <2>3, <2>4, <2>5, <2>6, <4>2, <5>1, <5>2
      <4>4. CASE jobs[t].d = d /\ SendReplyLost(t)
        <5>1. accepted'[d] = accepted[d] + 1 /\ lost'[d] = lost[d] + 1
          BY <1>2, <4>4 DEF SendReplyLost, TypeOK
        <5> HIDE DEF O, P
        <5>2. Cardinality(P) <= Cardinality(O)
          BY <2>1, <3>1, CountSubset
        <5> QED BY <2>1, <2>2, <2>3, <2>4, <2>5, <2>6, <4>2, <5>1, <5>2
      <4>5. CASE jobs[t].d = d /\ SendAccepted(t)
        <5>1. accepted'[d] = accepted[d] + 1 /\ lost'[d] = lost[d]
          BY <1>2, <4>5 DEF SendAccepted, TypeOK
        <5>2. t \in O
          BY <4>1, <4>5 DEF Open
        <5>3. jobs'[t] = [jobs[t] EXCEPT !.stage = "accepted"]
          BY <1>2, <4>5 DEF SendAccepted, TypeOK
        <5>4. t \notin P
          BY <4>1, <5>3 DEF Open, Job
        <5> HIDE DEF O, P
        <5>5. Cardinality(P) + 1 <= Cardinality(O)
          BY <2>1, <3>1, <5>2, <5>4, CountDropped
        <5> QED BY <2>1, <2>2, <2>3, <2>4, <2>5, <2>6, <4>2, <5>1, <5>5
      <4> QED BY <3>2, <4>3, <4>4, <4>5
    <3>3. ASSUME accepted' = accepted, lost' = lost
          PROVE  accepted'[d] + Cardinality(P) + Queued(d)' <= Causes(d)'
      <4>1. RowStep(d) /\ rows[d] \in Row
        BY <1>2, RowSteps DEF TypeOK
      <4>2. Cardinality(P) <= Cardinality(O)
        <5> HIDE DEF O, P
        <5> QED BY <2>1, <3>1, CountSubset
      <4>3. CASE Queued(d)' <= Queued(d)
        <5> HIDE DEF O, P
        <5> QED BY <2>1, <2>2, <2>3, <2>4, <2>5, <2>6, <3>3, <4>2, <4>3
      <4>4. CASE released'[d] = released[d] + 1 \/ rows'[d].gen = rows[d].gen + 1
        <5> HIDE DEF O, P
        <5> QED BY <2>1, <2>2, <2>3, <2>4, <2>5, <2>6, <3>3, <4>2, <4>4
      <4>5. ASSUME NEW w \in Workers, NEW t \in Tickets, ResultOf(w, t, d),
                   rows'[d] = Completed(rows[d], jobs[t].res), jobs'[t] = NoJob,
                   Queued(d)' = 1
            PROVE  accepted'[d] + Cardinality(P) + Queued(d)' <= Causes(d)'
        <5>1. rows'[d].status = jobs[t].res.status
          BY <4>1, <4>5 DEF Completed, Unleased, Row
        <5>2. t \in O
          BY <2>6, <4>5, <5>1 DEF Open, ResultOf
        <5>3. t \notin P
          BY <4>5 DEF Open
        <5> HIDE DEF O, P
        <5>4. Cardinality(P) + 1 <= Cardinality(O)
          BY <2>1, <3>1, <5>2, <5>3, CountDropped
        <5> QED BY <2>1, <2>2, <2>3, <2>4, <2>5, <2>6, <3>3, <4>5, <5>4
      <4>6. CASE rows'[d].status \notin Waiting \/ rows'[d].status = rows[d].status
        <5>1. Queued(d)' <= Queued(d)
          BY <2>6, <4>6
        <5> QED BY <4>3, <5>1
      <4>7. CASE rows'[d] = rows[d] \/ rows'[d] = Aged(rows[d])
        BY <4>1, <4>6, <4>7 DEF Aged, Row
      <4>8. CASE \/ \E w \in Workers : rows'[d] = Claimed(rows[d], w)
                 \/ rows'[d] = MarkedSent(rows[d])
                 \/ \E to \in {"bounced", "complained"} : rows'[d] = MarkedTerminal(rows[d], to)
                 \/ rows'[d] = BulkCancelled(rows[d])
        <5>1. rows'[d].status \in {"leased", "sent", "bounced", "complained", "cancelled"}
          BY <4>1, <4>8 DEF Claimed, MarkedSent, MarkedTerminal, BulkCancelled, Unleased, Row
        <5> QED BY <4>6, <5>1 DEF Waiting
      <4>9. CASE rows'[d] = Requeued(rows[d])
        <5>1. rows'[d].gen = rows[d].gen + 1
          BY <4>1, <4>9 DEF Requeued, Unleased, Row
        <5> QED BY <4>4, <5>1
      <4>10. ASSUME NEW w \in Workers, NEW t \in Tickets, ResultOf(w, t, d),
                    rows'[d] = Completed(rows[d], jobs[t].res), jobs'[t] = NoJob
             PROVE  accepted'[d] + Cardinality(P) + Queued(d)' <= Causes(d)'
        <5>1. CASE Queued(d)' = 1
          BY <4>5, <4>10, <5>1
        <5>2. CASE Queued(d)' = 0
          <6>1. Queued(d)' <= Queued(d)
            BY <2>6, <5>2
          <6> QED BY <4>3, <6>1
        <5> QED BY <2>6, <5>1, <5>2
      <4> HIDE DEF O, P
      <4> QED BY <4>1, <4>4, <4>7, <4>8, <4>9, <4>10 DEF RowStep
    <3> QED BY <1>2, <3>2, <3>3, HistorySteps
  <2> QED BY <2>7, <2>8
<1> QED BY <1>1, <1>2, TypeCorrect, PTL DEF Spec

\* A relay takes a message at most once per cause: the first send, a lease the
\* reaper took back, an operator retry or a lost reply.
THEOREM DuplicatesHaveCauses == Spec => []DuplicateHasCause
<1>1. TypeOK /\ SendLedger => DuplicateHasCause
  <2> SUFFICES ASSUME TypeOK, SendLedger, NEW d \in Deliveries PROVE accepted[d] <= Causes(d)
    BY DEF DuplicateHasCause
  <2>1. Open(d) \subseteq Tickets
    BY DEF Open
  <2>2. Cardinality(Open(d)) \in Nat
    BY <2>1, PipelineAssumption, CountSubset
  <2>3. Queued(d) \in Nat /\ accepted[d] \in Nat /\ Causes(d) \in Nat
    BY DEF Queued, Causes, TypeOK, Row
  <2>4. accepted[d] + Cardinality(Open(d)) + Queued(d) <= Causes(d)
    BY DEF SendLedger
  <2> QED BY <2>2, <2>3, <2>4
<1> QED BY <1>1, TypeCorrect, LedgerBalances, PTL

-----------------------------------------------------------------------------
(* The retry budget.                                                       *)

\* The jobs of one row, and those whose failure may still be retried.
JobsFor(d) == {t \in Tickets : jobs[t] # NoJob /\ jobs[t].d = d}

Retryable(d) == {t \in JobsFor(d) : jobs[t].attempts + 1 < MaxOf}

\* The claims a row had beyond its first run of retries.
Debt(d) == released[d] + rows[d].gen

\* 1 once the row has been given up: the last attempt is on the books.
Spent(d) == IF rows[d].status = "failed" THEN 1 ELSE 0

\* Jobs and queued rows are traded for each other; only a taken-back lease or
\* an operator retry adds one.
JobsAreOwed(d) == Cardinality(JobsFor(d)) + Queued(d) <= 1 + Debt(d)

\* The attempts counted, and those the open jobs can still add.
AttemptsAreOwed(d) ==
  rows[d].attempts + Cardinality(Retryable(d)) <= (MaxOf - 1) + Debt(d) + Spent(d)

ResultsAffordable ==
  \A t \in Tickets :
    (jobs[t] # NoJob /\ jobs[t].stage = "done") => Affordable(jobs[t].res, jobs[t].attempts)

BudgetInv ==
  /\ ResultsAffordable
  /\ \A d \in Deliveries : JobsAreOwed(d) /\ AttemptsAreOwed(d)

\* Policy.maxAttempts is at least one.
LEMMA MaxOfType == MaxOf \in Nat /\ MaxOf >= 1
BY PolicyAssumption DEF MaxOf

\* What a result may say is settled when the job is done, and time does not
\* change it.
LEMMA ResultsStayAffordable ==
  ASSUME TypeOK, [Next]_vars, ResultsAffordable
  PROVE  ResultsAffordable'
<1> SUFFICES ASSUME NEW t \in Tickets, jobs'[t] # NoJob, jobs'[t].stage = "done"
             PROVE  Affordable(jobs'[t].res, jobs'[t].attempts)
  BY DEF ResultsAffordable, Affordable
<1>1. JobChange(t)
  BY JobSteps
<1>2. jobs[t] # NoJob => jobs[t] \in Job /\ jobs[t].res \in Result
  BY DEF TypeOK, Job
<1>3. CASE jobs'[t] = jobs[t]
  BY <1>3 DEF ResultsAffordable
<1>4. CASE jobs'[t] = AgedJob(jobs[t])
  <2>1. jobs[t] # NoJob
    BY <1>4 DEF AgedJob
  <2>2. /\ jobs'[t].stage = jobs[t].stage
        /\ jobs'[t].attempts = jobs[t].attempts
        /\ jobs'[t].res.status = jobs[t].res.status
        /\ jobs'[t].res.inc = jobs[t].res.inc
    BY <1>2, <1>4, <2>1 DEF AgedJob, Job, Result
  <2> QED BY <2>1, <2>2 DEF ResultsAffordable, Affordable
<1>5. jobs[t] # NoJob => jobs'[t] # [jobs[t] EXCEPT !.stage = "accepted"]
  BY <1>2 DEF Job
<1>6. ASSUME jobs[t] # NoJob, NEW res \in Result, Affordable(res, jobs[t].attempts),
             jobs'[t] = [jobs[t] EXCEPT !.stage = "done", !.res = res]
      PROVE  Affordable(jobs'[t].res, jobs'[t].attempts)
  <2>1. jobs'[t].res = res /\ jobs'[t].attempts = jobs[t].attempts
    BY <1>2, <1>6 DEF Job
  <2> QED BY <1>6, <2>1
<1> QED BY <1>1, <1>3, <1>4, <1>5, <1>6 DEF JobChange

\* What no step changes of a job: its replica, its row, the attempts the row
\* had when it was claimed, and the verdict once there is one.
KeptJob(t) ==
  /\ jobs'[t].w = jobs[t].w
  /\ jobs'[t].d = jobs[t].d
  /\ jobs'[t].attempts = jobs[t].attempts
  /\ jobs[t].stage = "done" => /\ jobs'[t].stage = "done"
                               /\ jobs'[t].res.status = jobs[t].res.status

\* Only a claim adds a job; the others keep what a job is about.
LEMMA JobsForShrink ==
  ASSUME TypeOK, [Next]_vars, NEW d \in Deliveries, NEW t \in JobsFor(d)'
  PROVE  \/ /\ t \in JobsFor(d)
            /\ KeptJob(t)
         \/ \E w \in Workers, e \in Deliveries : Claim(w, t, e)
<1>1. t \in Tickets /\ jobs'[t] # NoJob /\ jobs'[t].d = d
  BY DEF JobsFor
<1>2. JobChange(t)
  BY <1>1, JobSteps
<1>3. jobs[t] # NoJob => jobs[t] \in Job /\ jobs[t].res \in Result
  BY <1>1 DEF TypeOK, Job
<1> DEFINE Same == jobs[t] # NoJob /\ KeptJob(t)
<1>4. CASE jobs'[t] = jobs[t]
  BY <1>1, <1>4 DEF JobsFor, KeptJob
<1>5. CASE jobs'[t] = AgedJob(jobs[t])
  <2>1. Same
    BY <1>1, <1>3, <1>5 DEF AgedJob, Job, Result, KeptJob
  <2> QED BY <1>1, <2>1 DEF JobsFor, KeptJob
<1>6. CASE /\ jobs[t] # NoJob /\ jobs[t].stage = "claimed"
          /\ jobs'[t] = [jobs[t] EXCEPT !.stage = "accepted"]
  <2>1. Same
    BY <1>3, <1>6 DEF Job, KeptJob
  <2> QED BY <1>1, <2>1 DEF JobsFor, KeptJob
<1>7. ASSUME jobs[t] # NoJob, jobs[t].stage # "done",
             NEW res, jobs'[t] = [jobs[t] EXCEPT !.stage = "done", !.res = res]
      PROVE  t \in JobsFor(d) /\ KeptJob(t)
  <2>1. Same
    BY <1>3, <1>7 DEF Job, KeptJob
  <2> QED BY <1>1, <2>1 DEF JobsFor, KeptJob
<1> QED BY <1>1, <1>2, <1>4, <1>5, <1>6, <1>7 DEF JobChange

\* The counts of the two sets are numbers.
LEMMA JobCounts ==
  ASSUME NEW d \in Deliveries
  PROVE  /\ IsFiniteSet(JobsFor(d)) /\ Cardinality(JobsFor(d)) \in Nat
         /\ IsFiniteSet(Retryable(d)) /\ Cardinality(Retryable(d)) \in Nat
         /\ IsFiniteSet(JobsFor(d)') /\ Cardinality(JobsFor(d)') \in Nat
         /\ IsFiniteSet(Retryable(d)') /\ Cardinality(Retryable(d)') \in Nat
         /\ Retryable(d) \subseteq JobsFor(d)
<1>1. /\ JobsFor(d) \subseteq Tickets /\ Retryable(d) \subseteq JobsFor(d)
      /\ JobsFor(d)' \subseteq Tickets /\ Retryable(d)' \subseteq Tickets
  BY DEF JobsFor, Retryable
<1> QED BY <1>1, PipelineAssumption, FS_Subset, FS_CardinalityType

\* A claim: a queued row becomes a job, which may be retried only if the row
\* still had attempts left.
LEMMA ClaimKeepsBudget ==
  ASSUME TypeOK, TypeOK', BudgetInv, [Next]_vars, NEW d \in Deliveries,
         NEW w \in Workers, NEW t \in Tickets, NEW e \in Deliveries, Claim(w, t, e)
  PROVE  JobsAreOwed(d)' /\ AttemptsAreOwed(d)'
<1> DEFINE J == JobsFor(d)
           K == JobsFor(d)'
           L == Retryable(d)
           M == Retryable(d)'
<1>1. /\ IsFiniteSet(J) /\ IsFiniteSet(L) /\ L \subseteq J
      /\ Cardinality(J) \in Nat /\ Cardinality(K) \in Nat
      /\ Cardinality(L) \in Nat /\ Cardinality(M) \in Nat
  BY JobCounts
<1>2. /\ jobs[t] = NoJob
      /\ jobs'[t].d = e /\ jobs'[t].attempts = rows[e].attempts
      /\ \A u \in Tickets : u # t => jobs'[u] = jobs[u]
  BY DEF Claim, TypeOK
<1>3. rows' = [rows EXCEPT ![e] = Claimed(@, w)] /\ rows[e].status \in Waiting
  BY DEF Claim, Claimable, Write, Waiting
<1>4. released' = released
  BY DEF Claim, history
<1>5. /\ rows[d].attempts \in Nat /\ released[d] \in Nat /\ rows[d].gen \in Nat
      /\ rows[d] \in Row
  BY DEF TypeOK, Row
<1>6. JobsAreOwed(d) /\ AttemptsAreOwed(d)
  BY DEF BudgetInv
<1>7. CASE e # d
  <2>1. rows'[d] = rows[d]
    BY <1>3, <1>7 DEF TypeOK
  <2>2. K \subseteq J /\ M \subseteq L
    BY <1>2, <1>7 DEF JobsFor, Retryable
  <2>3. Queued(d)' = Queued(d) /\ Debt(d)' = Debt(d) /\ Spent(d)' = Spent(d)
    BY <1>4, <2>1 DEF Queued, Debt, Spent
  <2>4. Queued(d) \in Nat /\ Debt(d) \in Nat /\ Spent(d) \in Nat
    BY <1>5 DEF Queued, Debt, Spent
  <2>5. /\ Cardinality(J) + Queued(d) <= 1 + Debt(d)
        /\ rows[d].attempts + Cardinality(L) <= (MaxOf - 1) + Debt(d) + Spent(d)
    BY <1>6 DEF JobsAreOwed, AttemptsAreOwed
  <2>6. Cardinality(K) <= Cardinality(J) /\ Cardinality(M) <= Cardinality(L)
    <3> HIDE DEF J, K, L, M
    <3> QED BY <1>1, <2>2, CountSubset
  <2>7. /\ Cardinality(K) + Queued(d)' <= 1 + Debt(d)'
        /\ rows'[d].attempts + Cardinality(M) <= (MaxOf - 1) + Debt(d)' + Spent(d)'
    <3> HIDE DEF J, K, L, M
    <3> QED BY <1>1, <1>5, <2>1, <2>3, <2>4, <2>5, <2>6, MaxOfType
  <2> QED BY <2>7 DEF JobsAreOwed, AttemptsAreOwed
<1>8. CASE e = d
  <2>1. /\ rows'[d].status = "leased" /\ rows'[d].gen = rows[d].gen
        /\ rows'[d].attempts = rows[d].attempts
    BY <1>3, <1>5, <1>8 DEF TypeOK, Row, Claimed
  <2>2. Queued(d) = 1 /\ Queued(d)' = 0 /\ Spent(d) = 0 /\ Spent(d)' = 0 /\ Debt(d)' = Debt(d)
    BY <1>3, <1>4, <1>8, <2>1 DEF Queued, Spent, Debt, Waiting
  <2>3. Debt(d) \in Nat
    BY <1>5 DEF Debt
  <2>4. /\ Cardinality(J) + 1 <= 1 + Debt(d)
        /\ rows[d].attempts + Cardinality(L) <= (MaxOf - 1) + Debt(d)
    <3>1. /\ Cardinality(J) + Queued(d) <= 1 + Debt(d)
          /\ rows[d].attempts + Cardinality(L) <= (MaxOf - 1) + Debt(d) + Spent(d)
      BY <1>6 DEF JobsAreOwed, AttemptsAreOwed
    <3> HIDE DEF J, L
    <3> QED BY <1>1, <1>5, <2>2, <2>3, <3>1, MaxOfType
  <2>5. /\ K \subseteq J \cup {t} /\ M \subseteq L \cup {t}
        /\ rows[d].attempts + 1 >= MaxOf => M \subseteq L
    <3>1. K \subseteq J \cup {t} /\ M \subseteq L \cup {t}
      BY <1>2 DEF JobsFor, Retryable
    <3>2. ASSUME rows[d].attempts + 1 >= MaxOf PROVE t \notin M
      <4>1. ~(jobs'[t].attempts + 1 < MaxOf)
        BY <1>2, <1>5, <1>8, <3>2, MaxOfType
      <4> QED BY <4>1 DEF Retryable
    <3> QED BY <3>1, <3>2
  <2>6. /\ Cardinality(K) <= Cardinality(J) + 1
        /\ Cardinality(M) <= Cardinality(L) + 1
        /\ Cardinality(L) <= Cardinality(J)
        /\ rows[d].attempts + 1 >= MaxOf => Cardinality(M) <= Cardinality(L)
    <3> HIDE DEF J, K, L, M
    <3> QED BY <1>1, <2>5, CountAdded, CountSubset
  <2>7. /\ Cardinality(K) + Queued(d)' <= 1 + Debt(d)'
        /\ rows'[d].attempts + Cardinality(M) <= (MaxOf - 1) + Debt(d)' + Spent(d)'
    <3> HIDE DEF J, K, L, M
    <3> QED BY <1>1, <1>5, <2>1, <2>2, <2>3, <2>4, <2>6, MaxOfType
  <2> QED BY <2>7 DEF JobsAreOwed, AttemptsAreOwed
<1> QED BY <1>7, <1>8

\* Any other step: a committed result trades its job for a queued row, or for
\* an attempt on the books; the reaper and the operator pay for what they add.
LEMMA OtherStepsKeepBudget ==
  ASSUME TypeOK, TypeOK', LeaseMatchesStatus, BudgetInv, [Next]_vars, NEW d \in Deliveries,
         \A w \in Workers, t \in Tickets, e \in Deliveries : ~Claim(w, t, e)
  PROVE  JobsAreOwed(d)' /\ AttemptsAreOwed(d)'
<1> DEFINE J == JobsFor(d)
           K == JobsFor(d)'
           L == Retryable(d)
           M == Retryable(d)'
           Goal == JobsAreOwed(d)' /\ AttemptsAreOwed(d)'
<1>1. /\ IsFiniteSet(J) /\ IsFiniteSet(L)
      /\ Cardinality(J) \in Nat /\ Cardinality(K) \in Nat
      /\ Cardinality(L) \in Nat /\ Cardinality(M) \in Nat
  BY JobCounts
<1>2. K \subseteq J /\ M \subseteq L
  <2>1. \A t \in K : t \in J /\ jobs'[t].attempts = jobs[t].attempts
    BY JobsForShrink DEF JobsFor, KeptJob
  <2> QED BY <2>1 DEF JobsFor, Retryable
<1>3. Cardinality(K) <= Cardinality(J) /\ Cardinality(M) <= Cardinality(L)
  <2> HIDE DEF J, K, L, M
  <2> QED BY <1>1, <1>2, CountSubset
<1>4. RowStep(d) /\ rows[d] \in Row /\ rows[d].attempts \in Nat
  BY RowSteps DEF TypeOK, Row
<1>5. /\ released[d] \in Nat /\ rows[d].gen \in Nat
      /\ released'[d] \in Nat /\ released'[d] >= released[d]
      /\ rows'[d].gen \in Nat /\ rows'[d].gen >= rows[d].gen
  BY HistorySteps, GenGrows DEF TypeOK, Row
<1>6. /\ Debt(d) \in Nat /\ Debt(d)' \in Nat /\ Debt(d)' >= Debt(d)
      /\ (released'[d] = released[d] + 1 \/ rows'[d].gen = rows[d].gen + 1)
           => Debt(d)' >= Debt(d) + 1
  BY <1>5 DEF Debt
<1>7. /\ Queued(d) \in {0, 1} /\ Queued(d)' \in {0, 1}
      /\ Spent(d) \in {0, 1} /\ Spent(d)' \in {0, 1}
      /\ rows[d].status \in Waiting <=> Queued(d) = 1
      /\ rows'[d].status \in Waiting <=> Queued(d)' = 1
      /\ rows[d].status = "failed" <=> Spent(d) = 1
      /\ rows'[d].status = "failed" <=> Spent(d)' = 1
  BY DEF Queued, Spent
<1>8. /\ Cardinality(J) + Queued(d) <= 1 + Debt(d)
      /\ rows[d].attempts + Cardinality(L) <= (MaxOf - 1) + Debt(d) + Spent(d)
  BY DEF BudgetInv, JobsAreOwed, AttemptsAreOwed
<1>9. ASSUME Cardinality(K) + Queued(d)' <= 1 + Debt(d)',
             rows'[d].attempts + Cardinality(M) <= (MaxOf - 1) + Debt(d)' + Spent(d)'
      PROVE  Goal
  BY <1>9 DEF JobsAreOwed, AttemptsAreOwed
\* Steps that neither count an attempt, nor queue the row, nor take it off
\* failed without paying for it.
<1>10. ASSUME rows'[d].attempts = rows[d].attempts,
              \/ Queued(d)' <= Queued(d) /\ Spent(d)' >= Spent(d)
              \/ released'[d] = released[d] + 1
              \/ rows'[d].gen = rows[d].gen + 1
       PROVE  Goal
  <2> HIDE DEF J, K, L, M, Goal
  <2> QED BY <1>1, <1>3, <1>4, <1>6, <1>7, <1>8, <1>9, <1>10, MaxOfType
<1>11. ASSUME rows'[d].attempts = rows[d].attempts, rows[d].status # "failed",
              rows'[d].status \notin Waiting
       PROVE  Goal
  <2> HIDE DEF Goal
  <2> QED BY <1>7, <1>10, <1>11
<1>12. ASSUME rows'[d] = rows[d] \/ rows'[d] = Aged(rows[d])
       PROVE  Goal
  <2>1. rows'[d].attempts = rows[d].attempts /\ rows'[d].status = rows[d].status
    BY <1>4, <1>12 DEF Aged, Row
  <2>2. Queued(d)' <= Queued(d) /\ Spent(d)' >= Spent(d)
    BY <1>7, <2>1
  <2> HIDE DEF Goal
  <2> QED BY <1>10, <2>1, <2>2
<1>13. ASSUME \/ /\ rows[d].status \in Waiting
                 /\ \E w \in Workers : rows'[d] = Claimed(rows[d], w)
              \/ /\ Cancellable(rows[d])
                 /\ rows'[d] = BulkCancelled(rows[d])
              \/ /\ \E t \in Tickets : MarkSentApplies(rows[d], jobs[t].w)
                 /\ rows'[d] = MarkedSent(rows[d])
              \/ /\ MarkTerminalApplies(rows[d])
                 /\ \E to \in {"bounced", "complained"} : rows'[d] = MarkedTerminal(rows[d], to)
       PROVE  Goal
  <2>1. /\ rows'[d].attempts = rows[d].attempts
        /\ rows'[d].status \in {"leased", "sent", "bounced", "complained", "cancelled"}
        /\ rows[d].status \in Waiting \cup {"leased", "sent"}
    BY <1>4, <1>13 DEF Claimed, MarkedSent, MarkedTerminal, BulkCancelled, Unleased, Row,
       Cancellable, MarkSentApplies, MarkTerminalApplies
  <2>2. rows[d].status # "failed" /\ rows'[d].status \notin Waiting
    BY <2>1 DEF Waiting
  <2> HIDE DEF Goal
  <2> QED BY <1>11, <2>1, <2>2
<1>14. ASSUME rows'[d] = Released(rows[d]), released'[d] = released[d] + 1 PROVE Goal
  <2>1. rows'[d].attempts = rows[d].attempts
    BY <1>4, <1>14 DEF Released, Unleased, Row
  <2> HIDE DEF Goal
  <2> QED BY <1>10, <1>14, <2>1
<1>15. ASSUME rows'[d] = Requeued(rows[d]) PROVE Goal
  <2>1. rows'[d].attempts = rows[d].attempts /\ rows'[d].gen = rows[d].gen + 1
    BY <1>4, <1>15 DEF Requeued, Unleased, Row
  <2> HIDE DEF Goal
  <2> QED BY <1>10, <2>1
<1>16. ASSUME NEW w \in Workers, NEW t \in Tickets, ResultOf(w, t, d),
              CompleteApplies(rows[d], w),
              rows'[d] = Completed(rows[d], jobs[t].res), jobs'[t] = NoJob
       PROVE  Goal
  <2>1. jobs[t] # NoJob /\ jobs[t].stage = "done" /\ jobs[t].d = d /\ jobs[t] \in Job
    BY <1>16 DEF ResultOf, TypeOK
  <2>2. jobs[t].attempts \in Nat /\ jobs[t].res \in Result
    BY <2>1 DEF Job
  <2>3. /\ rows'[d].status = jobs[t].res.status
        /\ rows'[d].attempts = IF jobs[t].res.inc THEN rows[d].attempts + 1 ELSE rows[d].attempts
    BY <1>4, <1>16 DEF Completed, Unleased, Row
  <2>4. rows[d].status # "failed"
    BY <1>16, RowAssumption DEF CompleteApplies, LeaseMatchesStatus
  <2>5. Spent(d) = 0
    BY <1>7, <2>4
  <2>6. t \in J /\ t \notin K /\ t \notin M
    BY <1>16, <2>1 DEF JobsFor, Retryable
  <2>7. jobs[t].attempts + 1 < MaxOf => t \in L
    BY <2>6 DEF Retryable
  <2>8. ~(jobs[t].attempts + 1 < MaxOf) /\ jobs[t].res.inc => Spent(d)' = 1
    BY <1>7, <2>1, <2>2, <2>3, MaxOfType DEF BudgetInv, ResultsAffordable, Affordable
  <2> HIDE DEF J, K, L, M, Goal
  <2>9. Cardinality(K) + 1 <= Cardinality(J)
    BY <1>1, <1>2, <2>6, CountDropped
  <2>10. t \in L => Cardinality(M) + 1 <= Cardinality(L)
    BY <1>1, <1>2, <2>6, CountDropped
  <2>11. Cardinality(K) + Queued(d)' <= 1 + Debt(d)'
    BY <1>1, <1>6, <1>7, <1>8, <2>9
  <2>12. rows'[d].attempts + Cardinality(M) <= (MaxOf - 1) + Debt(d)' + Spent(d)'
    <3>1. CASE jobs[t].res.inc
      BY <1>1, <1>3, <1>4, <1>6, <1>7, <1>8, <2>3, <2>5, <2>7, <2>8, <2>10, <3>1, MaxOfType
    <3>2. CASE ~jobs[t].res.inc
      BY <1>1, <1>3, <1>4, <1>6, <1>7, <1>8, <2>3, <2>5, <3>2, MaxOfType
    <3> QED BY <3>1, <3>2
  <2> QED BY <1>9, <2>11, <2>12
<1> HIDE DEF J, K, L, M, Goal
<1>17. Goal
  BY <1>4, <1>12, <1>13, <1>14, <1>15, <1>16 DEF RowStep
<1> QED BY <1>17 DEF Goal

\* The invariant holds of new rows, and every step of every component keeps it.
LEMMA BudgetInvariant == Spec => []BudgetInv
<1>1. ASSUME Init PROVE BudgetInv
  <2>1. ResultsAffordable
    BY <1>1 DEF Init, ResultsAffordable
  <2>2. ASSUME NEW d \in Deliveries PROVE JobsAreOwed(d) /\ AttemptsAreOwed(d)
    <3>1. JobsFor(d) = {} /\ Retryable(d) = {}
      BY <1>1 DEF Init, JobsFor, Retryable
    <3>2. released[d] = 0 /\ rows[d].gen = 0 /\ rows[d].attempts = 0
      BY <1>1, <2>2 DEF Init, NewRow
    <3>3. Queued(d) \in {0, 1} /\ Spent(d) \in {0, 1}
      BY DEF Queued, Spent
    <3> QED BY <3>1, <3>2, <3>3, FS_EmptySet, MaxOfType DEF JobsAreOwed, AttemptsAreOwed, Debt
  <2> QED BY <2>1, <2>2 DEF BudgetInv
<1>2. ASSUME TypeOK, TypeOK', LeaseMatchesStatus, BudgetInv, [Next]_vars PROVE BudgetInv'
  <2>1. ResultsAffordable'
    BY <1>2, ResultsStayAffordable DEF BudgetInv
  <2>2. ASSUME NEW d \in Deliveries PROVE JobsAreOwed(d)' /\ AttemptsAreOwed(d)'
    <3>1. CASE \E w \in Workers, t \in Tickets, e \in Deliveries : Claim(w, t, e)
      BY <1>2, <3>1, ClaimKeepsBudget
    <3>2. CASE \A w \in Workers, t \in Tickets, e \in Deliveries : ~Claim(w, t, e)
      BY <1>2, <3>2, OtherStepsKeepBudget
    <3> QED BY <3>1, <3>2
  <2> QED BY <2>1, <2>2 DEF BudgetInv
<1> QED BY <1>1, <1>2, TypeCorrect, LeaseColumnsMatch, PTL DEF Spec

\* attempt_count never passes MaxAttempts by more than the leases taken back
\* and the operator retries of the row: neither a batch that names a row twice
\* nor a result that outlives its lease gets a delivery extra attempts.
THEOREM BudgetIsKept == Spec => []AttemptBudget
<1>1. ASSUME TypeOK, BudgetInv PROVE AttemptBudget
  <2> SUFFICES ASSUME NEW d \in Deliveries
               PROVE  rows[d].attempts <= MaxOf + released[d] + rows[d].gen
    BY DEF AttemptBudget
  <2>1. /\ rows[d].attempts \in Nat /\ released[d] \in Nat /\ rows[d].gen \in Nat
    BY <1>1 DEF TypeOK, Row
  <2>2. rows[d].attempts + Cardinality(Retryable(d))
          <= (MaxOf - 1) + (released[d] + rows[d].gen) + Spent(d)
    BY <1>1 DEF BudgetInv, AttemptsAreOwed, Debt
  <2>3. Cardinality(Retryable(d)) \in Nat
    BY JobCounts
  <2>4. Spent(d) \in {0, 1}
    BY DEF Spent
  <2> QED BY <2>1, <2>2, <2>3, <2>4, MaxOfType
<1> QED BY <1>1, TypeCorrect, BudgetInvariant, PTL

-----------------------------------------------------------------------------
(* Rows that never had two jobs at a time.                                 *)

\* The job of an undisturbed row holds its lease, or has sent the message.
JobIsCurrent(d, t) ==
  \/ rows[d].status = "leased" /\ rows[d].owner = jobs[t].w
  \/ /\ rows[d].status \in {"sent", "bounced", "complained"}
     /\ "sent" \in reached[d]
     /\ jobs[t].stage = "done" /\ jobs[t].res.status = "sent"

CurrentJobs ==
  \A d \in Deliveries : Undisturbed(d) => \A t \in JobsFor(d) : JobIsCurrent(d, t)

\* A row is disturbed for good.
LEMMA DisturbedForGood ==
  ASSUME TypeOK, [Next]_vars, NEW d \in Deliveries, Undisturbed(d)'
  PROVE  Undisturbed(d) /\ released'[d] = released[d] /\ rows'[d].gen = rows[d].gen
<1>1. /\ released[d] \in Nat /\ rows[d].gen \in Nat
      /\ released'[d] \in Nat /\ released'[d] >= released[d]
      /\ rows'[d].gen \in Nat /\ rows'[d].gen >= rows[d].gen
  BY HistorySteps, GenGrows DEF TypeOK, Row
<1>2. released'[d] = 0 /\ rows'[d].gen = 0
  BY DEF Undisturbed
<1> QED BY <1>1, <1>2 DEF Undisturbed

\* An undisturbed row has one job at most, and none while it is queued.
LEMMA OneJob ==
  ASSUME NEW d \in Deliveries, JobsAreOwed(d), Undisturbed(d), NEW t \in JobsFor(d)
  PROVE  /\ rows[d].status \notin Waiting
         /\ \A u \in JobsFor(d) : u = t
<1> DEFINE J == JobsFor(d)
<1>1. IsFiniteSet(J) /\ Cardinality(J) \in Nat /\ t \in J
  BY JobCounts
<1>2. Cardinality(J) + Queued(d) <= 1
  BY DEF JobsAreOwed, Debt, Undisturbed
<1>3. Queued(d) \in {0, 1} /\ (rows[d].status \in Waiting => Queued(d) = 1)
  BY DEF Queued
<1> HIDE DEF J
<1>4. Cardinality({}) = 0
  BY FS_EmptySet
<1>5. Cardinality(J) >= 1
  <2>1. {} \subseteq J \ {t}
    OBVIOUS
  <2>2. Cardinality({}) + 1 <= Cardinality(J)
    BY ONLY <1>1, <2>1, CountDropped
  <2> QED BY <1>1, <1>4, <2>2
<1>6. ASSUME NEW u \in J, u # t PROVE FALSE
  <2>1. {u} \subseteq J \ {t}
    BY <1>6
  <2>2. Cardinality({u}) + 1 <= Cardinality(J)
    BY ONLY <1>1, <2>1, CountDropped
  <2>3. Cardinality({u}) = 1
    BY FS_Singleton
  <2> QED BY <1>1, <1>2, <1>3, <2>2, <2>3
<1> QED BY <1>1, <1>2, <1>3, <1>5, <1>6 DEF J

\* The history of statuses only grows, and has every reported status.
LEMMA ReachedSteps ==
  ASSUME TypeOK, [Next]_vars, NEW d \in Deliveries
  PROVE  /\ reached[d] \subseteq reached'[d]
         /\ rows'[d] # rows[d] /\ rows'[d].status \in Reported => rows'[d].status \in reached'[d]
<1> DEFINE Quiet == rows' = rows /\ reached' = reached
           Goal == /\ reached[d] \subseteq reached'[d]
                   /\ rows'[d] # rows[d] /\ rows'[d].status \in Reported
                        => rows'[d].status \in reached'[d]
<1>1. ASSUME NEW newRows, Write(newRows) PROVE Goal
  BY <1>1 DEF Write
<1>2. Quiet => Goal
  OBVIOUS
<1> HIDE DEF Goal
<1>3. ASSUME NEW t \in Tickets, JobStep(t) PROVE Goal
  <2>1. CASE MarkSent(t)
    BY <1>1, <2>1 DEF MarkSent
  <2>2. CASE ~MarkSent(t)
    BY <1>2, <1>3, <2>2 DEF JobStep, RefuseToSend, Postpone, SendFails, SendReplyLost,
       SendAccepted, MarkSentLeaseLost, MarkSentFails, GiveUp
  <2> QED BY <2>1, <2>2
<1>4. ASSUME NEW w \in Workers, ReplicaStep(w) PROVE Goal
  <2>1. ASSUME NEW t \in Tickets, NEW e \in Deliveries, Claim(w, t, e) PROVE Goal
    BY <1>1, <2>1 DEF Claim
  <2>2. CASE Flush(w)
    BY <1>1, <2>2 DEF Flush
  <2>3. CASE RefreshRunning(w) \/ FlushFails(w) \/ Crash(w) \/ Stop(w) \/ Stopped(w) \/ Restart(w)
    BY <1>2, <2>3 DEF RefreshRunning, FlushFails, Crash, Stop, Stopped, Restart
  <2> QED BY <1>4, <2>1, <2>2, <2>3 DEF ReplicaStep
<1>5. ASSUME OperatorStep PROVE Goal
  <2>1. ASSUME NEW filter \in RetryFilters, NEW S \in SUBSET Deliveries, RetryCampaign(filter, S)
        PROVE  Goal
    BY <1>1, <2>1 DEF RetryCampaign
  <2>2. ASSUME NEW e \in Deliveries, RetryDelivery(e) PROVE Goal
    BY <1>1, <2>2 DEF RetryDelivery
  <2>3. ASSUME NEW e \in Deliveries, RetryDeliveryCheck(e) PROVE Goal
    BY <1>2, <2>3 DEF RetryDeliveryCheck
  <2>4. ASSUME PauseCampaign \/ ResumeCampaign \/ CancelCampaign PROVE Goal
    BY <1>2, <2>4 DEF PauseCampaign, ResumeCampaign, CancelCampaign
  <2> QED BY <1>5, <2>1, <2>2, <2>3, <2>4 DEF OperatorStep
<1>6. ASSUME NEW S \in SUBSET Deliveries, ReleaseExpiredLeases(S) \/ CancelChunk(S) PROVE Goal
  BY <1>1, <1>6 DEF ReleaseExpiredLeases, CancelChunk
<1>7. ASSUME NEW e \in Deliveries, NEW to \in {"bounced", "complained"}, MarkTerminal(e, to)
      PROVE  Goal
  BY <1>1, <1>7 DEF MarkTerminal
<1>8. ASSUME Tick PROVE Goal
  BY <1>1, <1>8 DEF Tick
<1>9. ASSUME UNCHANGED vars PROVE Goal
  BY <1>2, <1>9 DEF vars
<1>10. Goal
  BY <1>3, <1>4, <1>5, <1>6, <1>7, <1>8, <1>9 DEF Next
<1> QED BY <1>10 DEF Goal

\* MarkSent leaves the job it was called for with a sent result.
LEMMA MarkSentJob ==
  ASSUME TypeOK, NEW t \in Tickets, MarkSent(t)
  PROVE  jobs'[t].stage = "done" /\ jobs'[t].res.status = "sent"
<1>1. PICK res \in Decide("none", jobs[t].attempts) : Add(t, res)
  BY DEF MarkSent
<1>2. jobs[t] # NoJob /\ jobs[t] \in Job /\ jobs[t].attempts \in Nat
  BY DEF MarkSent, TypeOK, Job
<1>3. "none" \in Classes
  BY DEF Classes
<1>4. res.status = "sent"
  BY <1>2, <1>3, DecideStatus
<1>5. jobs'[t] = [jobs[t] EXCEPT !.stage = "done", !.res = res]
  BY <1>1, <1>2, AddChange
<1> QED BY <1>2, <1>4, <1>5 DEF Job

\* Every step keeps the job of an undisturbed row current: as long as nobody
\* takes the lease or requeues the row, no second job comes between a job and
\* its row.
LEMMA JobsStayCurrent == Spec => []CurrentJobs
<1>1. ASSUME Init PROVE CurrentJobs
  BY <1>1 DEF Init, CurrentJobs, JobsFor
<1>2. ASSUME TypeOK, BudgetInv, CurrentJobs, [Next]_vars PROVE CurrentJobs'
  <2> SUFFICES ASSUME NEW d \in Deliveries, Undisturbed(d)', NEW t \in JobsFor(d)'
               PROVE  JobIsCurrent(d, t)'
    BY DEF CurrentJobs
  <2> DEFINE Goal == JobIsCurrent(d, t)'
  <2>1. /\ Undisturbed(d)
        /\ released'[d] = released[d] /\ rows'[d].gen = rows[d].gen
        /\ released[d] \in Nat /\ rows[d].gen \in Nat
    BY <1>2, DisturbedForGood DEF TypeOK, Row
  <2>2. t \in Tickets /\ jobs'[t] # NoJob /\ jobs'[t].d = d
    BY DEF JobsFor
  <2>3. ASSUME NEW w \in Workers, NEW e \in Deliveries, Claim(w, t, e) PROVE Goal
    <3>1. jobs'[t].d = e /\ jobs'[t].w = w
      BY <1>2, <2>2, <2>3 DEF Claim, TypeOK
    <3>2. rows' = [rows EXCEPT ![e] = Claimed(@, w)]
      BY <2>3 DEF Claim, Write
    <3>3. rows'[d] = Claimed(rows[d], w) /\ rows[d] \in Row
      BY <1>2, <2>2, <3>1, <3>2 DEF TypeOK
    <3>4. rows'[d].status = "leased" /\ rows'[d].owner = w
      BY <3>3 DEF Claimed, Row
    <3> QED BY <3>1, <3>4 DEF JobIsCurrent
  <2>4. ASSUME t \in JobsFor(d), KeptJob(t) PROVE Goal
    <3>1. JobIsCurrent(d, t)
      BY <1>2, <2>1, <2>4 DEF CurrentJobs
    <3>2. rows[d].status \notin Waiting /\ \A u \in JobsFor(d) : u = t
      BY <1>2, <2>1, <2>4, OneJob DEF BudgetInv
    <3>3. RowStep(d) /\ rows[d] \in Row
      BY <1>2, RowSteps DEF TypeOK
    <3>4. /\ reached[d] \subseteq reached'[d]
          /\ rows'[d] # rows[d] /\ rows'[d].status \in Reported => rows'[d].status \in reached'[d]
      BY <1>2, ReachedSteps
    <3>5. ASSUME rows'[d].status = rows[d].status, rows'[d].owner = rows[d].owner PROVE Goal
      BY <2>4, <3>1, <3>4, <3>5 DEF JobIsCurrent, KeptJob
    <3>6. ASSUME NEW w \in Workers, NEW u \in Tickets, ResultOf(w, u, d), jobs'[u] = NoJob
          PROVE  FALSE
      <4>1. u \in JobsFor(d)
        BY <3>6 DEF ResultOf, JobsFor
      <4> QED BY <2>2, <3>2, <3>6, <4>1
    <3>7. ASSUME NEW u \in Tickets, MarkSent(u), jobs[u] # NoJob, jobs[u].d = d,
                 rows'[d] = MarkedSent(rows[d]), MarkSentApplies(rows[d], jobs[u].w)
          PROVE  Goal
      <4>1. u = t
        BY <3>2, <3>7 DEF JobsFor
      <4>2. jobs'[t].stage = "done" /\ jobs'[t].res.status = "sent"
        BY <1>2, <3>7, <4>1, MarkSentJob
      <4>3. rows'[d].status = "sent" /\ rows[d].status = "leased"
        BY <3>3, <3>7 DEF MarkedSent, MarkSentApplies, Row
      <4>4. "sent" \in reached'[d]
        BY <3>4, <4>3 DEF Reported
      <4> QED BY <4>2, <4>3, <4>4 DEF JobIsCurrent
    <3>8. ASSUME MarkTerminalApplies(rows[d]), NEW to \in {"bounced", "complained"},
                 rows'[d] = MarkedTerminal(rows[d], to)
          PROVE  Goal
      <4>1. rows[d].status = "sent" /\ rows'[d].status \in {"bounced", "complained"}
        BY <3>3, <3>8 DEF MarkTerminalApplies, MarkedTerminal, Unleased, Row
      <4>2. "sent" \in reached'[d] /\ jobs[t].stage = "done" /\ jobs[t].res.status = "sent"
        BY <3>1, <3>4, <4>1 DEF JobIsCurrent
      <4> QED BY <2>4, <4>1, <4>2 DEF JobIsCurrent, KeptJob
    <3>9. rows'[d] # Requeued(rows[d]) /\ released'[d] # released[d] + 1
      <4>1. ASSUME rows'[d] = Requeued(rows[d]) PROVE FALSE
        <5>1. rows'[d].gen = rows[d].gen + 1
          BY <3>3, <4>1 DEF Requeued, Unleased, Row
        <5> QED BY <2>1, <5>1
      <4>2. released'[d] # released[d] + 1
        BY <2>1
      <4> QED BY <4>1, <4>2
    <3>10. ASSUME rows'[d] = Aged(rows[d]) PROVE Goal
      <4>1. rows'[d].status = rows[d].status /\ rows'[d].owner = rows[d].owner
        BY <3>3, <3>10 DEF Aged, Row
      <4> HIDE DEF Goal
      <4> QED BY <3>5, <4>1
    <3> HIDE DEF Goal
    <3>11. rows'[d] = rows[d] => Goal
      BY <3>5
    <3> QED BY <3>2, <3>3, <3>6, <3>7, <3>8, <3>9, <3>10, <3>11 DEF RowStep, Cancellable
  <2> HIDE DEF Goal
  <2>5. Goal
    BY <1>2, <2>3, <2>4, JobsForShrink
  <2> QED BY <2>5 DEF Goal
<1> QED BY <1>1, <1>2, TypeCorrect, BudgetInvariant, PTL DEF Spec

\* Finished rows are out of reach of the reaper and the canceller, and of late
\* results as long as the row is released or never had a second job.
THEOREM SettledRowsStay == Spec => SettledStaysSettled
<1>1. TypeOK /\ LeaseMatchesStatus /\ CurrentJobs /\ [Next]_vars => [SettledStep]_vars
  <2> SUFFICES ASSUME TypeOK, LeaseMatchesStatus, CurrentJobs, [Next]_vars, NEW d \in Deliveries,
                      rows[d].status \in Terminal,
                      rows[d].owner = NoOwner \/ Undisturbed(d),
                      rows'[d].status # rows[d].status
               PROVE  \/ /\ rows[d].status = "sent"
                         /\ rows'[d].status \in {"bounced", "complained"}
                      \/ rows'[d].gen = rows[d].gen + 1
    BY DEF SettledStep
  <2>1. RowStep(d)
    BY RowSteps
  <2>2. rows[d] \in Row
    BY DEF TypeOK
  <2>3. ~Expired(rows[d]) /\ ~Cancellable(rows[d]) /\ rows[d].status \notin Waiting
        /\ rows[d].status # "leased"
    BY DEF Terminal, Waiting, Expired, Cancellable
  <2>4. ASSUME NEW w \in Workers, NEW t \in Tickets, ResultOf(w, t, d),
               CompleteApplies(rows[d], w), rows'[d] = Completed(rows[d], jobs[t].res)
        PROVE  FALSE
    <3>1. rows[d].owner = w /\ w # NoOwner
      BY <2>4, RowAssumption DEF CompleteApplies
    <3>2. rows[d].status = "sent"
      BY <2>3, <3>1 DEF LeaseMatchesStatus
    <3>3. t \in JobsFor(d) /\ Undisturbed(d)
      BY <2>4, <3>1 DEF ResultOf, JobsFor
    <3>4. jobs[t].res.status = "sent"
      BY <2>3, <3>3 DEF CurrentJobs, JobIsCurrent
    <3>5. rows'[d].status = jobs[t].res.status
      BY <2>2, <2>4 DEF Completed, Unleased, Row
    <3> QED BY <3>2, <3>4, <3>5
  <2>5. CASE MarkTerminalApplies(rows[d])
             /\ \E to \in {"bounced", "complained"} : rows'[d] = MarkedTerminal(rows[d], to)
    BY <2>2, <2>5 DEF MarkTerminalApplies, MarkedTerminal, Unleased, Row
  <2>6. CASE rows'[d] = Requeued(rows[d])
    BY <2>2, <2>6 DEF Requeued, Unleased, Row
  <2>7. rows'[d] # Aged(rows[d])
    BY <2>2 DEF Aged, Row
  <2> QED BY <2>1, <2>3, <2>4, <2>5, <2>6, <2>7 DEF RowStep, MarkSentApplies
<1> QED BY <1>1, TypeCorrect, LeaseColumnsMatch, JobsStayCurrent, PTL DEF Spec, SettledStaysSettled

\* An event of an undisturbed row describes a status the row has had: the
\* result it was made from is the one Complete applied, or MarkSent has
\* already committed it.
THEOREM EventsAreTransitions == Spec => []EventsDescribeTransitions
<1>1. ASSUME Init PROVE EventsDescribeTransitions
  BY <1>1 DEF Init, EventsDescribeTransitions
<1>2. ASSUME TypeOK, BudgetInv, CurrentJobs, EventsDescribeTransitions, [Next]_vars
      PROVE  EventsDescribeTransitions'
  <2> SUFFICES ASSUME NEW d \in Deliveries, Undisturbed(d)', NEW x \in events'[d]
               PROVE  x \in reached'[d]
    BY DEF EventsDescribeTransitions
  <2>1. Undisturbed(d)
    BY <1>2, DisturbedForGood
  <2>2. /\ reached[d] \subseteq reached'[d]
        /\ rows'[d] # rows[d] /\ rows'[d].status \in Reported => rows'[d].status \in reached'[d]
    BY <1>2, ReachedSteps
  <2>3. CASE x \in events[d]
    BY <1>2, <2>1, <2>2, <2>3 DEF EventsDescribeTransitions
  <2>4. ASSUME NEW w \in Workers, Flush(w), x \in Reported,
               NEW t \in Buffer(w), jobs[t].d = d, jobs[t].res.status = x
        PROVE  x \in reached'[d]
    <3>1. t \in JobsFor(d) /\ jobs[t].w = w
      BY <2>4 DEF JobsFor, Buffer, JobsOf
    <3>2. \A u \in JobsFor(d) : u = t
      BY <1>2, <2>1, <3>1, OneJob DEF BudgetInv
    <3>3. JobIsCurrent(d, t)
      BY <1>2, <2>1, <3>1 DEF CurrentJobs
    <3>4. CASE rows[d].status = "leased" /\ rows[d].owner = jobs[t].w
      <4> DEFINE held == {e \in Deliveries : /\ CompleteApplies(rows[e], w)
                                            /\ \E u \in Buffer(w) : jobs[u].d = e}
      <4>1. PICK pick \in [held -> Buffer(w)] :
              /\ \A e \in held : jobs[pick[e]].d = e
              /\ rows' = [e \in Deliveries |->
                            IF e \in held THEN Completed(rows[e], jobs[pick[e]].res) ELSE rows[e]]
        BY <2>4 DEF Flush, Write
      <4>2. d \in held
        BY <2>4, <3>1, <3>4 DEF CompleteApplies
      <4>3. pick[d] \in Buffer(w) /\ jobs[pick[d]].d = d
        BY <4>1, <4>2
      <4>4. pick[d] = t
        BY <3>2, <4>3 DEF JobsFor, Buffer, JobsOf
      <4>5. rows'[d] = Completed(rows[d], jobs[t].res)
        BY <4>1, <4>2, <4>4
      <4>6. rows'[d].status = x
        <5>1. rows[d] \in Row
          BY <1>2 DEF TypeOK
        <5> QED BY <2>4, <4>5, <5>1 DEF Completed, Unleased, Row
      <4> QED BY <2>2, <2>4, <3>4, <4>6 DEF Reported
    <3>5. CASE "sent" \in reached[d] /\ jobs[t].res.status = "sent"
      BY <2>2, <2>4, <3>5
    <3> QED BY <3>3, <3>4, <3>5 DEF JobIsCurrent
  <2> QED BY <1>2, <2>3, <2>4, EventSteps
<1> QED BY <1>1, <1>2, TypeCorrect, BudgetInvariant, JobsStayCurrent, PTL DEF Spec

=============================================================================
