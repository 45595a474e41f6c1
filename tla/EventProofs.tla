----------------------------- MODULE EventProofs -----------------------------
(***************************************************************************)
(* Proofs about events on their way to where they are kept or awaited: the *)
(* outbox and its dispatcher (Outbox), for any number of events and        *)
(* dispatchers, any lease, back-off schedule and attempt budget, and any   *)
(* number of faults; and the tracking events of a control replica          *)
(* (TrackingBuffer), for any replicas, deliveries and tenants, any buffer  *)
(* size, and any number of requests and outages of the store.              *)
(***************************************************************************)
EXTENDS Outbox, TrackingBuffer, Counting, TLAPS, FiniteSetTheorems

-----------------------------------------------------------------------------
(* Types.                                                                  *)

\* backoffFor clamps its index at both ends of the schedule.
LEMMA BackoffType == ASSUME NEW n \in Nat PROVE BackoffFor(n) \in Nat
<1>1. CASE OutboxBackoff = <<>>
  BY <1>1 DEF BackoffFor, DefaultBackoff
<1>2. CASE OutboxBackoff # <<>>
  <2>1. Len(OutboxBackoff) \in Nat /\ Len(OutboxBackoff) > 0
    BY <1>2, OutboxAssumption
  <2>2. \A i \in 1..Len(OutboxBackoff) : OutboxBackoff[i] \in Nat
    BY OutboxAssumption
  <2> QED BY <1>2, <2>1, <2>2 DEF BackoffFor
<1> QED BY <1>1, <1>2

\* Updating one column with a value of its type keeps a row well formed.
LEMMA FieldType ==
  ASSUME NEW row \in Row
  PROVE  /\ \A s \in Statuses : [row EXCEPT !.status = s] \in Row
         /\ \A n \in Nat : [row EXCEPT !.attempts = n] \in Row
         /\ \A n \in Int : [row EXCEPT !.wait = n] \in Row
         /\ \A b \in BOOLEAN : [row EXCEPT !.leased = b] \in Row
         /\ \A n \in Int : [row EXCEPT !.lease = n] \in Row
BY DEF Row

\* Every statement on outbox_event, and the clock, maps rows to rows.
LEMMA RowTypes ==
  ASSUME NEW row \in Row
  PROVE  /\ \A lag \in Nat : Claimed(row, lag) \in Row
         /\ \A job \in Job : Failed(row, job) \in Row
         /\ Delivered(row) \in Row
         /\ Reset(row) \in Row
         /\ Aged(row) \in Row
<1>a. /\ {"pending", "delivered", "failed"} \subseteq Statuses
      /\ row.attempts \in Nat /\ row.wait \in Int /\ row.lease \in Int /\ row.leased \in BOOLEAN
  BY DEF Statuses, Row
<1>b. Unleased(row) \in Row /\ Unleased(row).attempts \in Nat /\ Unleased(row).wait \in Int
  <2> DEFINE r == [row EXCEPT !.leased = FALSE]
  <2>1. r \in Row
    BY FieldType
  <2>2. Unleased(row) = [r EXCEPT !.lease = 0]
    BY DEF Unleased, Row
  <2> HIDE DEF r
  <2>3. Unleased(row) \in Row
    BY <2>1, <2>2, FieldType
  <2> QED BY <2>3 DEF Row
<1>1. ASSUME NEW lag \in Nat PROVE Claimed(row, lag) \in Row
  <2> DEFINE r == [row EXCEPT !.leased = TRUE]
  <2>0. OutboxLease \in Nat
    BY OutboxAssumption
  <2>3. OutboxLease - lag \in Int
    BY <2>0
  <2>1. r \in Row
    BY FieldType
  <2>2. Claimed(row, lag) = [r EXCEPT !.lease = OutboxLease - lag]
    BY DEF Claimed, Row
  <2> HIDE DEF r
  <2> QED BY <2>1, <2>2, <2>3, FieldType
<1>2. ASSUME NEW job \in Job PROVE Failed(row, job) \in Row
  <2> DEFINE last == job.attempts + 1 >= MaxAttempts
             status == IF last THEN "failed" ELSE "pending"
             wait == IF last THEN Unleased(row).wait ELSE BackoffFor(job.attempts + 1) - job.age
             n == Unleased(row).attempts + 1
             r == [Unleased(row) EXCEPT !.attempts = n]
             q == [r EXCEPT !.status = status]
  <2>1. job.attempts + 1 \in Nat /\ job.age \in Nat
    BY DEF Job
  <2>2. status \in Statuses /\ wait \in Int /\ n \in Nat
    BY <1>a, <1>b, <2>1, BackoffType
  <2>3. row.status \in Stored => Failed(row, job) = [q EXCEPT !.wait = wait]
    BY <1>b DEF Failed, Row
  <2>4. row.status \notin Stored => Failed(row, job) = row
    BY DEF Failed
  <2> HIDE DEF last, status, wait, n
  <2>5. r \in Row
    BY <1>b, <2>2, FieldType
  <2> HIDE DEF r
  <2>6. q \in Row
    BY <2>2, <2>5, FieldType
  <2> HIDE DEF q
  <2> QED BY <2>2, <2>3, <2>4, <2>6, FieldType
<1>3. Delivered(row) \in Row
  BY <1>a, <1>b, FieldType DEF Delivered
<1>4. Reset(row) \in Row
  BY <1>a DEF Reset, NewRow, Row
<1>5. Aged(row) \in Row
  <2> DEFINE i == Nearer(row.wait)
             k == IF row.leased THEN Nearer(row.lease) ELSE row.lease
             r == [row EXCEPT !.wait = i]
  <2>1. i \in Int /\ k \in Int
    BY <1>a, OutboxAssumption DEF Nearer
  <2>2. Aged(row) = row \/ Aged(row) = [r EXCEPT !.lease = k]
    BY DEF Aged, Row
  <2> HIDE DEF i, k
  <2>3. r \in Row
    BY <2>1, FieldType
  <2> HIDE DEF r
  <2> QED BY <2>1, <2>2, <2>3, FieldType
<1> QED BY <1>1, <1>2, <1>3, <1>4, <1>5

\* So are the rows Enqueue inserts and the ones retention leaves behind.
LEMMA NewRowType == \A s \in Statuses : NewRow(s) \in Row
BY DEF NewRow, Row

\* A job that moves on, or grows older, is a job.
LEMMA JobTypes ==
  /\ \A job \in Job, s \in {"claimed", "ready", "unwanted", "taken", "refused"} :
       [job EXCEPT !.stage = s] \in Job
  /\ \A job \in Job \cup {NoJob} : AgedJob(job) \in Job \cup {NoJob}
BY OutboxAssumption DEF Job, AgedJob

\* Every step keeps the outbox, the dispatchers and the history well typed.
LEMMA TypeStep == TypeOK /\ [Next]_vars => TypeOK'
<1> SUFFICES ASSUME TypeOK, [Next]_vars PROVE TypeOK'
  OBVIOUS
<1>0. \A d \in Dispatchers, e \in Events :
        /\ hand[d] \in [Events -> Job \cup {NoJob}]
        /\ hand[d][e] \in Job \cup {NoJob}
        /\ hand[d][e] # NoJob => hand[d][e] \in Job
  BY DEF TypeOK
<1>r. \A e \in Events : rows[e] \in Row
  BY DEF TypeOK
<1>f. Fault => faults' \in Nat
  BY DEF Fault, TypeOK
<1>1. ASSUME NEW e \in Events, Enqueue(e) PROVE TypeOK'
  BY <1>1, NewRowType DEF Enqueue, TypeOK, history, Statuses
<1>2. ASSUME NEW d \in Dispatchers, NEW S \in SUBSET Events, NEW lag \in 0..MaxLag,
             ClaimPending(d, S, lag)
      PROVE  TypeOK'
  <2>1. lag \in Nat
    BY OutboxAssumption
  <2>2. rows' \in [Events -> Row]
    BY <1>r, <1>2, <2>1, RowTypes DEF ClaimPending
  <2>3. \A e \in Events : [stage |-> "claimed", attempts |-> rows[e].attempts, age |-> lag] \in Job
    BY <1>r, <2>1 DEF Job, Row
  <2>4. hand' \in [Dispatchers -> [Events -> Job \cup {NoJob}]]
    BY <1>2, <2>3 DEF ClaimPending, TypeOK
  <2>5. overdue' \in [Events -> Nat] /\ faults' \in Nat
    BY <1>2, <1>f DEF ClaimPending, TypeOK
  <2> QED BY <1>2, <2>2, <2>4, <2>5 DEF ClaimPending, TypeOK
<1>3. ASSUME NEW d \in Dispatchers, Subscribed(d) PROVE TypeOK'
  <2>1. PICK pass \in {wanted, Events} :
          /\ IF pass = wanted THEN UNCHANGED faults ELSE Fault
          /\ hand' = [hand EXCEPT ![d] =
                        [e \in Events |->
                           IF hand[d][e] = NoJob THEN NoJob
                           ELSE [hand[d][e] EXCEPT
                                   !.stage = IF e \in pass THEN "ready" ELSE "unwanted"]]]
    BY <1>3 DEF Subscribed
  <2>2. \A e \in Events : hand[d][e] # NoJob =>
          [hand[d][e] EXCEPT !.stage = IF e \in pass THEN "ready" ELSE "unwanted"] \in Job
    BY <1>0, JobTypes
  <2>3. hand' \in [Dispatchers -> [Events -> Job \cup {NoJob}]]
    BY <2>1, <2>2 DEF TypeOK
  <2> QED BY <1>3, <1>f, <2>1, <2>3 DEF Subscribed, TypeOK, history
<1>4. ASSUME NEW d \in Dispatchers, NEW e \in Events, Emit(d, e) PROVE TypeOK'
  <2>1. hand[d][e] \in Job
    BY <1>0, <1>4 DEF Emit, At
  <2>2. /\ [hand[d][e] EXCEPT !.stage = "taken"] \in Job
        /\ [hand[d][e] EXCEPT !.stage = "refused"] \in Job
    BY <2>1, JobTypes
  <2>a. \/ hand' = [hand EXCEPT ![d][e] = [hand[d][e] EXCEPT !.stage = "taken"]]
        \/ hand' = [hand EXCEPT ![d][e] = [hand[d][e] EXCEPT !.stage = "refused"]]
    BY <1>4 DEF Emit
  <2>b. \A job \in Job : [hand EXCEPT ![d][e] = job] \in [Dispatchers -> [Events -> Job \cup {NoJob}]]
    BY DEF TypeOK
  <2>3. hand' \in [Dispatchers -> [Events -> Job \cup {NoJob}]]
    BY <2>2, <2>a, <2>b
  <2>c. emits' \in [Events -> Nat]
    BY <1>4 DEF Emit, TypeOK
  <2>d. failures' \in [Events -> Nat]
    BY <1>4 DEF Emit, TypeOK
  <2>4. /\ emits' \in [Events -> Nat] /\ failures' \in [Events -> Nat]
        /\ taken' \in [Events -> BOOLEAN] /\ faults' \in Nat
    BY <1>4, <1>f, <2>c, <2>d DEF Emit, TypeOK
  <2> QED BY <1>4, <2>3, <2>4 DEF Emit, TypeOK
<1>5. ASSUME NEW d \in Dispatchers, NEW e \in Events, MarkDelivered(d, e) PROVE TypeOK'
  <2>1. rows' \in [Events -> Row]
    BY <1>r, <1>5, RowTypes DEF MarkDelivered, TypeOK
  <2>2. hand' \in [Dispatchers -> [Events -> Job \cup {NoJob}]]
    BY <1>5 DEF MarkDelivered, TypeOK
  <2>3. retired' \in [Events -> BOOLEAN]
    BY <1>5 DEF MarkDelivered, TypeOK, At
  <2> QED BY <1>5, <2>1, <2>2, <2>3 DEF MarkDelivered, TypeOK
<1>6. ASSUME NEW d \in Dispatchers, NEW e \in Events, MarkFailed(d, e) PROVE TypeOK'
  <2>1. hand[d][e] \in Job
    BY <1>0, <1>6 DEF MarkFailed, At
  <2>2. rows' \in [Events -> Row]
    BY <1>r, <1>6, <2>1, RowTypes DEF MarkFailed, TypeOK
  <2>3. hand' \in [Dispatchers -> [Events -> Job \cup {NoJob}]]
    BY <1>6 DEF MarkFailed, TypeOK
  <2> QED BY <1>6, <2>2, <2>3 DEF MarkFailed, TypeOK, history
<1>7. ASSUME NEW d \in Dispatchers, NEW S \in SUBSET Events, Lose(d, S) PROVE TypeOK'
  <2>1. hand' \in [Dispatchers -> [Events -> Job \cup {NoJob}]]
    BY <1>0, <1>7 DEF Lose, TypeOK
  <2> QED BY <1>7, <1>f, <2>1 DEF Lose, TypeOK, history
<1>8. ASSUME NEW e \in Events, ReplayCheck(e) \/ Replay(e) \/ Subscribe(e) PROVE TypeOK'
  <2>1. CASE ReplayCheck(e)
    BY <1>f, <2>1 DEF ReplayCheck, TypeOK, history
  <2>2. CASE Replay(e)
    <3>1. rows' \in [Events -> Row]
      BY <1>r, <2>2, RowTypes DEF Replay, TypeOK
    <3> QED BY <2>2, <3>1 DEF Replay, TypeOK
  <2>3. CASE Subscribe(e)
    BY <1>f, <2>3 DEF Subscribe, TypeOK, history
  <2> QED BY <1>8, <2>1, <2>2, <2>3
<1>9. ASSUME NEW S \in SUBSET Events, DeleteBefore(S) PROVE TypeOK'
  <2>1. rows' \in [Events -> Row]
    <3>1. NewRow("deleted") \in Row
      BY NewRowType DEF Statuses
    <3> QED BY <1>r, <1>9, <3>1 DEF DeleteBefore
  <2> QED BY <1>9, <2>1 DEF DeleteBefore, TypeOK, history
<1>10. CASE Tick
  <2>1. rows' \in [Events -> Row]
    <3>1. \A e \in Events : Aged(rows[e]) \in Row
      BY <1>r, RowTypes
    <3> QED BY <1>10, <3>1 DEF Tick
  <2>2. hand' \in [Dispatchers -> [Events -> Job \cup {NoJob}]]
    BY <1>0, <1>10, JobTypes DEF Tick
  <2> QED BY <1>10, <1>f, <2>1, <2>2 DEF Tick, TypeOK, history
<1>11. CASE UNCHANGED vars
  BY <1>11 DEF vars, TypeOK
<1> QED
  BY <1>1, <1>2, <1>3, <1>4, <1>5, <1>6, <1>7, <1>8, <1>9, <1>10, <1>11
     DEF Next, BeginTick, DispatchBatch

\* The outbox, its dispatchers and its history stay well typed.
THEOREM OutboxTypeCorrect == Spec => []TypeOK
<1>1. Init => TypeOK
  BY NewRowType, OutboxAssumption DEF Init, TypeOK, Statuses
<1> QED BY <1>1, TypeStep, PTL DEF Spec

-----------------------------------------------------------------------------
(* What a step does to one event.                                          *)

\* What the statements do to the columns the proofs look at.
LEMMA RowEffects ==
  ASSUME NEW row \in Row
  PROVE  /\ \A lag \in Nat :
              /\ Claimed(row, lag).status = row.status
              /\ Claimed(row, lag).attempts = row.attempts
              /\ Claimed(row, lag).leased
         /\ \A s : /\ NewRow(s).status = s
                   /\ NewRow(s).attempts = 0
                   /\ ~NewRow(s).leased
         /\ row.status \in Stored =>
              /\ Delivered(row).status = "delivered"
              /\ Delivered(row).attempts = row.attempts
              /\ ~Delivered(row).leased
         /\ row.status \in Stored =>
              \A job \in Job :
                /\ Failed(row, job).status =
                     IF job.attempts + 1 >= MaxAttempts THEN "failed" ELSE "pending"
                /\ Failed(row, job).attempts = row.attempts + 1
                /\ ~Failed(row, job).leased
         /\ Aged(row).status = row.status
         /\ Aged(row).attempts = row.attempts
         /\ Aged(row).leased = row.leased
<1>1. /\ Unleased(row).attempts = row.attempts
      /\ Unleased(row).leased = FALSE
      /\ DOMAIN Unleased(row) = DOMAIN row
  BY DEF Unleased, Row
<1>2. \A lag \in Nat : /\ Claimed(row, lag).status = row.status
                       /\ Claimed(row, lag).attempts = row.attempts
                       /\ Claimed(row, lag).leased
  BY DEF Claimed, Row
<1>3. \A s : NewRow(s).status = s /\ NewRow(s).attempts = 0 /\ ~NewRow(s).leased
  BY DEF NewRow
<1>4. row.status \in Stored => /\ Delivered(row).status = "delivered"
                               /\ Delivered(row).attempts = row.attempts
                               /\ ~Delivered(row).leased
  BY <1>1 DEF Delivered, Row
<1>5. ASSUME row.status \in Stored, NEW job \in Job
      PROVE  /\ Failed(row, job).status =
                  IF job.attempts + 1 >= MaxAttempts THEN "failed" ELSE "pending"
             /\ Failed(row, job).attempts = row.attempts + 1
             /\ ~Failed(row, job).leased
  BY <1>1, <1>5 DEF Failed, Row
<1>6. /\ Aged(row).status = row.status
      /\ Aged(row).attempts = row.attempts
      /\ Aged(row).leased = row.leased
  BY DEF Aged, Row
<1> QED BY <1>1, <1>2, <1>3, <1>4, <1>5, <1>6

\* Two parts of the state of one event that a step may leave alone.
HandSame(e) == \A d \in Dispatchers : hand'[d][e] = hand[d][e]

OtherHandsSame(d, e) == \A c \in Dispatchers \ {d} : hand'[c][e] = hand[c][e]

CountsSame(e) ==
  /\ emits'[e] = emits[e]
  /\ failures'[e] = failures[e]
  /\ overdue'[e] = overdue[e]
  /\ resets'[e] = resets[e]

SinkSame(e) == taken'[e] = taken[e] /\ retired'[e] = retired[e]

\* The row of e is replaced and nobody's job on it changes.
RowOnly(e, new) == rows'[e] = new /\ HandSame(e) /\ CountsSame(e) /\ SinkSame(e)

ClaimedBy(d, e) ==
  /\ hand[d][e] = NoJob
  /\ rows[e].status = "pending"
  /\ \E lag \in Nat :
       /\ rows'[e] = Claimed(rows[e], lag)
       /\ hand'[d][e] = [stage |-> "claimed", attempts |-> rows[e].attempts, age |-> lag]
  /\ overdue'[e] = IF rows[e].leased THEN overdue[e] + 1 ELSE overdue[e]
  /\ emits'[e] = emits[e] /\ failures'[e] = failures[e] /\ resets'[e] = resets[e]
  /\ OtherHandsSame(d, e) /\ SinkSame(e)

FilteredBy(d, e) ==
  /\ hand[d][e] # NoJob
  /\ \E f \in Events : At(d, f, "claimed")
  /\ \E stage \in {"ready", "unwanted"} : hand'[d][e] = [hand[d][e] EXCEPT !.stage = stage]
  /\ rows'[e] = rows[e]
  /\ OtherHandsSame(d, e) /\ CountsSame(e) /\ SinkSame(e)

TakenBy(d, e) ==
  /\ At(d, e, "ready")
  /\ hand'[d][e] = [hand[d][e] EXCEPT !.stage = "taken"]
  /\ emits'[e] = emits[e] + 1
  /\ failures'[e] = failures[e] /\ overdue'[e] = overdue[e] /\ resets'[e] = resets[e]
  /\ taken'[e] = TRUE /\ retired'[e] = retired[e]
  /\ rows'[e] = rows[e]
  /\ OtherHandsSame(d, e)

RefusedTo(d, e) ==
  /\ At(d, e, "ready")
  /\ hand'[d][e] = [hand[d][e] EXCEPT !.stage = "refused"]
  /\ emits'[e] = emits[e] + 1
  /\ failures'[e] = failures[e] + 1
  /\ overdue'[e] = overdue[e] /\ resets'[e] = resets[e]
  /\ taken'[e] \in {taken[e], TRUE} /\ retired'[e] = retired[e]
  /\ rows'[e] = rows[e]
  /\ OtherHandsSame(d, e)

MarkedBy(d, e) ==
  /\ At(d, e, "taken") \/ At(d, e, "unwanted")
  /\ rows'[e] = Delivered(rows[e])
  /\ hand'[d][e] = NoJob
  /\ taken'[e] = taken[e]
  /\ retired'[e] = (retired[e] \/ At(d, e, "unwanted"))
  /\ OtherHandsSame(d, e) /\ CountsSame(e)

PutBackBy(d, e) ==
  /\ At(d, e, "refused")
  /\ rows'[e] = Failed(rows[e], hand[d][e])
  /\ hand'[d][e] = NoJob
  /\ OtherHandsSame(d, e) /\ CountsSame(e) /\ SinkSame(e)

LostBy(d, e) ==
  /\ hand'[d][e] = NoJob
  /\ rows'[e] = rows[e]
  /\ OtherHandsSame(d, e) /\ CountsSame(e) /\ SinkSame(e)

Replayed(e) ==
  /\ rows[e].status \in Stored
  /\ rows'[e] = NewRow("pending")
  /\ resets'[e] = resets[e] + 1
  /\ emits'[e] = emits[e] /\ failures'[e] = failures[e] /\ overdue'[e] = overdue[e]
  /\ HandSame(e) /\ SinkSame(e)

Older(e) ==
  /\ rows'[e] = Aged(rows[e])
  /\ \A d \in Dispatchers : hand'[d][e] = AgedJob(hand[d][e])
  /\ CountsSame(e) /\ SinkSame(e)

EventChange(e) ==
  \/ RowOnly(e, rows[e])
  \/ rows[e].status = "absent" /\ RowOnly(e, NewRow("pending"))
  \/ rows[e].status \in {"delivered", "failed"} /\ RowOnly(e, NewRow("deleted"))
  \/ Replayed(e)
  \/ Older(e)
  \/ \E d \in Dispatchers :
       \/ ClaimedBy(d, e) \/ FilteredBy(d, e) \/ TakenBy(d, e) \/ RefusedTo(d, e)
       \/ MarkedBy(d, e) \/ PutBackBy(d, e) \/ LostBy(d, e)

\* Whatever step is taken, one of these things happens to each event.
LEMMA EventSteps ==
  ASSUME TypeOK, [Next]_vars, NEW e \in Events
  PROVE  EventChange(e)
<1>0. /\ rows \in [Events -> Row] /\ rows[e] \in Row
      /\ hand \in [Dispatchers -> [Events -> Job \cup {NoJob}]]
      /\ emits \in [Events -> Nat] /\ failures \in [Events -> Nat]
      /\ overdue \in [Events -> Nat] /\ resets \in [Events -> Nat]
      /\ taken \in [Events -> BOOLEAN] /\ retired \in [Events -> BOOLEAN]
  BY DEF TypeOK
<1>1. ASSUME NEW f \in Events, Enqueue(f) PROVE EventChange(e)
  <2>1. f # e => RowOnly(e, rows[e])
    BY <1>0, <1>1 DEF Enqueue, history, RowOnly, HandSame, CountsSame, SinkSame
  <2>2. f = e => rows[e].status = "absent" /\ RowOnly(e, NewRow("pending"))
    BY <1>0, <1>1 DEF Enqueue, history, RowOnly, HandSame, CountsSame, SinkSame
  <2> QED BY <2>1, <2>2 DEF EventChange
<1>2. ASSUME NEW d \in Dispatchers, NEW S \in SUBSET Events, NEW lag \in 0..MaxLag,
             ClaimPending(d, S, lag)
      PROVE  EventChange(e)
  <2>1. lag \in Nat
    BY OutboxAssumption
  <2>2. OtherHandsSame(d, e)
    BY <1>0, <1>2 DEF ClaimPending, OtherHandsSame
  <2>3. CASE e \notin S
    <3>1. HandSame(e)
      BY <1>0, <1>2, <2>2, <2>3 DEF ClaimPending, HandSame, OtherHandsSame
    <3> QED BY <1>0, <1>2, <2>3, <3>1 DEF ClaimPending, EventChange, RowOnly, CountsSame, SinkSame
  <2>4. CASE e \in S
    <3>1. /\ rows[e].status = "pending"
          /\ rows[e].leased => rows[e].lease <= -lag
      BY <1>2, <2>4 DEF ClaimPending, Claimable
    <3>2. rows[e].leased => rows[e].lease <= 0
      BY <1>0, <2>1, <3>1 DEF Row
    <3>3. overdue'[e] = IF rows[e].leased THEN overdue[e] + 1 ELSE overdue[e]
      BY <1>0, <1>2, <2>4, <3>2 DEF ClaimPending
    <3>4. /\ hand'[d][e] = [stage |-> "claimed", attempts |-> rows[e].attempts, age |-> lag]
          /\ rows'[e] = Claimed(rows[e], lag)
          /\ hand[d][e] = NoJob
      BY <1>0, <1>2, <2>4 DEF ClaimPending
    <3>5. /\ emits'[e] = emits[e] /\ failures'[e] = failures[e] /\ resets'[e] = resets[e]
          /\ SinkSame(e)
      BY <1>2 DEF ClaimPending, SinkSame
    <3>6. ClaimedBy(d, e)
      BY <2>1, <2>2, <3>1, <3>3, <3>4, <3>5 DEF ClaimedBy
    <3> QED BY <3>6 DEF EventChange
  <2> QED BY <2>3, <2>4
<1>3. ASSUME NEW d \in Dispatchers, Subscribed(d) PROVE EventChange(e)
  <2>1. PICK pass \in {wanted, Events} :
          hand' = [hand EXCEPT ![d] =
                     [f \in Events |->
                        IF hand[d][f] = NoJob THEN NoJob
                        ELSE [hand[d][f] EXCEPT
                                !.stage = IF f \in pass THEN "ready" ELSE "unwanted"]]]
    BY <1>3 DEF Subscribed
  <2>2. OtherHandsSame(d, e)
    BY <1>0, <2>1 DEF OtherHandsSame
  <2>3. /\ hand[d][e] = NoJob => hand'[d][e] = NoJob
        /\ hand[d][e] # NoJob => \/ hand'[d][e] = [hand[d][e] EXCEPT !.stage = "ready"]
                                 \/ hand'[d][e] = [hand[d][e] EXCEPT !.stage = "unwanted"]
    BY <1>0, <2>1
  <2>4. /\ rows'[e] = rows[e] /\ CountsSame(e) /\ SinkSame(e)
        /\ \E f \in Events : At(d, f, "claimed")
    BY <1>3 DEF Subscribed, history, CountsSame, SinkSame, At
  <2>5. hand[d][e] = NoJob => RowOnly(e, rows[e])
    BY <2>2, <2>3, <2>4 DEF RowOnly, HandSame, OtherHandsSame
  <2>6. hand[d][e] # NoJob => FilteredBy(d, e)
    BY <2>2, <2>3, <2>4 DEF FilteredBy
  <2> QED BY <2>5, <2>6 DEF EventChange
<1>4. ASSUME NEW d \in Dispatchers, NEW f \in Events,
             Emit(d, f) \/ MarkDelivered(d, f) \/ MarkFailed(d, f)
      PROVE  EventChange(e)
  <2>1. CASE f # e
    <3>1. HandSame(e)
      BY <1>0, <1>4, <2>1 DEF Emit, MarkDelivered, MarkFailed, HandSame
    <3>2. rows'[e] = rows[e]
      BY <1>0, <1>4, <2>1 DEF Emit, MarkDelivered, MarkFailed
    <3>3. CountsSame(e)
      BY <1>0, <1>4, <2>1 DEF Emit, MarkDelivered, MarkFailed, CountsSame, history
    <3>4. SinkSame(e)
      BY <1>0, <1>4, <2>1 DEF Emit, MarkDelivered, MarkFailed, SinkSame, history
    <3> QED BY <3>1, <3>2, <3>3, <3>4 DEF EventChange, RowOnly
  <2>2. CASE f = e
    <3>1. OtherHandsSame(d, e)
      BY <1>0, <1>4, <2>2 DEF Emit, MarkDelivered, MarkFailed, OtherHandsSame
    <3>2. CASE Emit(d, e)
      <4>1. \/ /\ hand'[d][e] = [hand[d][e] EXCEPT !.stage = "taken"]
               /\ taken'[e] = TRUE /\ failures'[e] = failures[e]
            \/ /\ hand'[d][e] = [hand[d][e] EXCEPT !.stage = "refused"]
               /\ taken'[e] \in {taken[e], TRUE} /\ failures'[e] = failures[e] + 1
        <5>1. CASE /\ hand' = [hand EXCEPT ![d][e].stage = "taken"]
                   /\ taken' = [taken EXCEPT ![e] = TRUE]
                   /\ failures' = failures
          BY <1>0, <5>1
        <5>2. CASE /\ hand' = [hand EXCEPT ![d][e].stage = "refused"]
                   /\ failures' = [failures EXCEPT ![e] = @ + 1]
                   /\ taken' = taken \/ taken' = [taken EXCEPT ![e] = TRUE]
          <6>1. taken'[e] \in {taken[e], TRUE}
            BY <1>0, <5>2
          <6>2. failures'[e] = failures[e] + 1
            BY <1>0, <5>2
          <6> QED BY <1>0, <5>2, <6>1, <6>2
        <5> QED BY <3>2, <5>1, <5>2 DEF Emit
      <4>2. /\ At(d, e, "ready")
            /\ emits'[e] = emits[e] + 1
            /\ overdue'[e] = overdue[e] /\ resets'[e] = resets[e]
            /\ retired'[e] = retired[e] /\ rows'[e] = rows[e]
        BY <1>0, <3>2 DEF Emit
      <4>3. TakenBy(d, e) \/ RefusedTo(d, e)
        BY <3>1, <4>1, <4>2 DEF TakenBy, RefusedTo
      <4> QED BY <4>3 DEF EventChange
    <3>3. CASE MarkDelivered(d, e)
      <4>1. MarkedBy(d, e)
        BY <1>0, <3>1, <3>3 DEF MarkDelivered, MarkedBy, CountsSame
      <4> QED BY <4>1 DEF EventChange
    <3>4. CASE MarkFailed(d, e)
      <4>1. PutBackBy(d, e)
        BY <1>0, <3>1, <3>4 DEF MarkFailed, PutBackBy, CountsSame, SinkSame, history
      <4> QED BY <4>1 DEF EventChange
    <3> QED BY <1>4, <2>2, <3>2, <3>3, <3>4
  <2> QED BY <2>1, <2>2
<1>5. ASSUME NEW d \in Dispatchers, NEW S \in SUBSET Events, Lose(d, S) PROVE EventChange(e)
  <2>1. OtherHandsSame(d, e)
    BY <1>0, <1>5 DEF Lose, OtherHandsSame
  <2>2. rows'[e] = rows[e] /\ CountsSame(e) /\ SinkSame(e)
    BY <1>5 DEF Lose, history, CountsSame, SinkSame
  <2>3. IF e \in S THEN hand'[d][e] = NoJob ELSE hand'[d][e] = hand[d][e]
    BY <1>0, <1>5 DEF Lose
  <2>4. e \in S => LostBy(d, e)
    BY <2>1, <2>2, <2>3 DEF LostBy
  <2>5. e \notin S => RowOnly(e, rows[e])
    BY <2>1, <2>2, <2>3 DEF RowOnly, HandSame, OtherHandsSame
  <2> QED BY <2>4, <2>5 DEF EventChange
<1>6. ASSUME NEW f \in Events, Replay(f) PROVE EventChange(e)
  <2>1. HandSame(e) /\ SinkSame(e)
    BY <1>6 DEF Replay, HandSame, SinkSame
  <2>2. emits'[e] = emits[e] /\ failures'[e] = failures[e] /\ overdue'[e] = overdue[e]
    BY <1>6 DEF Replay
  <2>3. f = e /\ rows[e].status \in Stored => /\ rows'[e] = NewRow("pending")
                                              /\ resets'[e] = resets[e] + 1
    BY <1>0, <1>6 DEF Replay, Reset
  <2>4. f # e \/ rows[e].status \notin Stored => rows'[e] = rows[e] /\ resets'[e] = resets[e]
    BY <1>0, <1>6 DEF Replay, Reset
  <2> QED BY <2>1, <2>2, <2>3, <2>4 DEF EventChange, Replayed, RowOnly, CountsSame
<1>7. ASSUME NEW f \in Events, ReplayCheck(f) \/ Subscribe(f) PROVE EventChange(e)
  <2>1. RowOnly(e, rows[e])
    BY <1>7 DEF ReplayCheck, Subscribe, history, RowOnly, HandSame, CountsSame, SinkSame
  <2> QED BY <2>1 DEF EventChange
<1>8. ASSUME NEW S \in SUBSET Events, DeleteBefore(S) PROVE EventChange(e)
  <2>1. HandSame(e) /\ CountsSame(e) /\ SinkSame(e)
    BY <1>8 DEF DeleteBefore, history, HandSame, CountsSame, SinkSame
  <2>2. \/ rows'[e] = rows[e]
        \/ rows[e].status \in {"delivered", "failed"} /\ rows'[e] = NewRow("deleted")
    BY <1>8 DEF DeleteBefore, Deletable
  <2> QED BY <2>1, <2>2 DEF EventChange, RowOnly
<1>9. CASE Tick
  <2>1. Older(e)
    BY <1>9 DEF Tick, history, Older, CountsSame, SinkSame
  <2> QED BY <2>1 DEF EventChange
<1>10. CASE UNCHANGED vars
  <2>1. RowOnly(e, rows[e])
    BY <1>10 DEF vars, RowOnly, HandSame, CountsSame, SinkSame
  <2> QED BY <2>1 DEF EventChange
<1> QED
  BY <1>1, <1>2, <1>3, <1>4, <1>5, <1>6, <1>7, <1>8, <1>9, <1>10
     DEF Next, BeginTick, DispatchBatch

-----------------------------------------------------------------------------
(* The inductive invariant.                                                *)

\* The filter works on a whole batch: no event of a batch is ahead of it.
BatchOK ==
  \A d \in Dispatchers, e, f \in Events :
    At(d, e, "claimed") /\ hand[d][f] # NoJob => hand[d][f].stage = "claimed"

\* Only a pending row is leased.
LeasedIsPending == \A e \in Events : rows[e].leased => rows[e].status = "pending"

\* A job past its Emit tells the truth, and the attempts it was claimed with,
\* its own failure included, have really failed.
JobHonest(d, e) ==
  hand[d][e] # NoJob =>
    /\ hand[d][e].stage = "taken" => taken[e]
    /\ hand[d][e].attempts <= failures[e]
    /\ hand[d][e].stage = "refused" => hand[d][e].attempts + 1 <= failures[e]

JobsHonest == \A d \in Dispatchers, e \in Events : JobHonest(d, e)

\* The failures that MarkFailed has still to count.
Refused(e) == {d \in Dispatchers : At(d, e, "refused")}

\* The attempts column and the failures on their way to it have happened.
AttemptsCounted ==
  \A e \in Events : rows[e].attempts + Cardinality(Refused(e)) <= failures[e]

OutboxInv ==
  /\ TypeOK
  /\ BatchOK
  /\ LeasedIsPending
  /\ JobsHonest
  /\ AttemptsCounted
  /\ OwedIsKept
  /\ DeadLetterIsEarned
  /\ EmitHasCause

\* A step keeps batches together.
LEMMA BatchStep == TypeOK /\ BatchOK /\ [Next]_vars => BatchOK'
<1> SUFFICES ASSUME TypeOK, BatchOK, [Next]_vars,
                    NEW d \in Dispatchers, NEW e \in Events, NEW f \in Events,
                    At(d, e, "claimed")', hand'[d][f] # NoJob
             PROVE  hand'[d][f].stage = "claimed"
  BY DEF BatchOK
<1>0. /\ hand \in [Dispatchers -> [Events -> Job \cup {NoJob}]]
      /\ \A x \in Events : hand[d][x] # NoJob => hand[d][x] \in Job
      /\ hand'[d][e] # NoJob /\ hand'[d][e].stage = "claimed"
  BY DEF TypeOK, At
<1>a. ASSUME At(d, e, "claimed"), hand[d][f] # NoJob, hand'[d][f] = hand[d][f]
      PROVE  hand'[d][f].stage = "claimed"
  BY <1>a DEF BatchOK
<1>1. ASSUME \A x \in {e, f} : hand'[d][x] \in {hand[d][x], NoJob}
      PROVE  hand'[d][f].stage = "claimed"
  BY <1>0, <1>1, <1>a DEF At
<1>2. ASSUME NEW c \in Dispatchers, NEW S \in SUBSET Events, NEW lag \in 0..MaxLag,
             ClaimPending(c, S, lag)
      PROVE  hand'[d][f].stage = "claimed"
  <2>1. CASE c = d
    BY <1>0, <1>2, <2>1 DEF ClaimPending
  <2>2. CASE c # d
    BY <1>0, <1>1, <1>2, <2>2 DEF ClaimPending
  <2> QED BY <2>1, <2>2
<1>3. ASSUME NEW c \in Dispatchers, Subscribed(c) PROVE hand'[d][f].stage = "claimed"
  <2>1. PICK pass \in {wanted, Events} :
          hand' = [hand EXCEPT ![c] =
                     [x \in Events |->
                        IF hand[c][x] = NoJob THEN NoJob
                        ELSE [hand[c][x] EXCEPT
                                !.stage = IF x \in pass THEN "ready" ELSE "unwanted"]]]
    BY <1>3 DEF Subscribed
  <2>2. CASE c = d
    <3>1. /\ hand[d][e] # NoJob
          /\ hand'[d][e] = [hand[d][e] EXCEPT !.stage = IF e \in pass THEN "ready" ELSE "unwanted"]
      BY <1>0, <2>1, <2>2
    <3>2. hand'[d][e].stage # "claimed"
      BY <1>0, <3>1 DEF Job
    <3> QED BY <1>0, <3>2
  <2>3. CASE c # d
    BY <1>0, <1>1, <2>1, <2>3
  <2> QED BY <2>2, <2>3
<1>4. ASSUME NEW c \in Dispatchers, NEW g \in Events, Emit(c, g)
      PROVE  hand'[d][f].stage = "claimed"
  <2>1. CASE c # d
    BY <1>0, <1>1, <1>4, <2>1 DEF Emit
  <2>2. CASE c = d
    <3>1. \A x \in Events : x # g => hand'[d][x] = hand[d][x]
      BY <1>0, <1>4, <2>2 DEF Emit
    <3>2. hand[d][g] # NoJob /\ hand[d][g].stage = "ready"
      BY <1>4, <2>2 DEF Emit, At
    <3>3. \/ hand'[d][g] = [hand[d][g] EXCEPT !.stage = "taken"]
          \/ hand'[d][g] = [hand[d][g] EXCEPT !.stage = "refused"]
      BY <1>0, <1>4, <2>2 DEF Emit
    <3>4. hand'[d][g].stage # "claimed"
      BY <1>0, <3>2, <3>3 DEF Job
    <3>5. At(d, e, "claimed")
      BY <1>0, <3>1, <3>4 DEF At
    <3> QED BY <3>2, <3>5 DEF BatchOK
  <2> QED BY <2>1, <2>2
<1>5. ASSUME NEW c \in Dispatchers, NEW g \in Events, MarkDelivered(c, g) \/ MarkFailed(c, g)
      PROVE  hand'[d][f].stage = "claimed"
  BY <1>0, <1>1, <1>5 DEF MarkDelivered, MarkFailed
<1>6. ASSUME NEW c \in Dispatchers, NEW S \in SUBSET Events, Lose(c, S)
      PROVE  hand'[d][f].stage = "claimed"
  BY <1>0, <1>1, <1>6 DEF Lose
<1>7. CASE Tick
  <2>1. \A x \in Events : hand'[d][x] = AgedJob(hand[d][x])
    BY <1>7 DEF Tick
  <2>2. \A x \in Events : hand'[d][x] # NoJob =>
          hand[d][x] # NoJob /\ hand'[d][x].stage = hand[d][x].stage
    BY <1>0, <2>1 DEF AgedJob, Job
  <2> QED BY <1>0, <2>2 DEF BatchOK, At
<1>8. ASSUME hand' = hand PROVE hand'[d][f].stage = "claimed"
  BY <1>1, <1>8
<1>9. ASSUME NEW g \in Events, Enqueue(g) \/ ReplayCheck(g) \/ Replay(g) \/ Subscribe(g)
      PROVE  hand' = hand
  BY <1>9 DEF Enqueue, ReplayCheck, Replay, Subscribe
<1>10. ASSUME NEW S \in SUBSET Events, DeleteBefore(S) PROVE hand' = hand
  BY <1>10 DEF DeleteBefore
<1>11. CASE UNCHANGED vars
  BY <1>8, <1>11 DEF vars
<1> QED
  BY <1>2, <1>3, <1>4, <1>5, <1>6, <1>7, <1>8, <1>9, <1>10, <1>11
     DEF Next, BeginTick, DispatchBatch

\* How the open and the refused jobs of an event change with the step.
LEMMA JobSets ==
  ASSUME TypeOK, BatchOK, NEW e \in Events
  PROVE  /\ HandSame(e) \/ Older(e) =>
              Open(e)' \subseteq Open(e) /\ Refused(e)' \subseteq Refused(e)
         /\ \A d \in Dispatchers :
              /\ ClaimedBy(d, e) =>
                   Open(e)' \subseteq Open(e) \cup {d} /\ Refused(e)' \subseteq Refused(e)
              /\ FilteredBy(d, e) \/ MarkedBy(d, e) \/ LostBy(d, e) =>
                   Open(e)' \subseteq Open(e) /\ Refused(e)' \subseteq Refused(e)
              /\ TakenBy(d, e) =>
                   /\ d \in Open(e)
                   /\ Open(e)' \subseteq Open(e) \ {d}
                   /\ Refused(e)' \subseteq Refused(e)
              /\ RefusedTo(d, e) =>
                   Open(e)' \subseteq Open(e) /\ Refused(e)' \subseteq Refused(e) \cup {d}
              /\ PutBackBy(d, e) =>
                   /\ d \in Open(e) /\ d \in Refused(e)
                   /\ Open(e)' \subseteq Open(e) \ {d}
                   /\ Refused(e)' \subseteq Refused(e) \ {d}
<1>0. \A c \in Dispatchers : hand[c][e] # NoJob => hand[c][e] \in Job
  BY DEF TypeOK
<1>1. ASSUME HandSame(e)
      PROVE  Open(e)' \subseteq Open(e) /\ Refused(e)' \subseteq Refused(e)
  BY <1>1 DEF HandSame, Open, Refused, At
<1>2. ASSUME Older(e)
      PROVE  Open(e)' \subseteq Open(e) /\ Refused(e)' \subseteq Refused(e)
  <2>1. \A c \in Dispatchers : hand'[c][e] # NoJob =>
          hand[c][e] # NoJob /\ hand'[c][e].stage = hand[c][e].stage
    BY <1>0, <1>2 DEF Older, AgedJob, Job
  <2> QED BY <2>1 DEF Open, Refused, At
<1>3. ASSUME NEW d \in Dispatchers, OtherHandsSame(d, e)
      PROVE  /\ Open(e)' \subseteq Open(e) \cup {d}
             /\ Refused(e)' \subseteq Refused(e) \cup {d}
  BY <1>3 DEF OtherHandsSame, Open, Refused, At
<1>4. ASSUME NEW d \in Dispatchers, ClaimedBy(d, e)
      PROVE  d \notin Refused(e)' /\ OtherHandsSame(d, e)
  BY <1>4 DEF ClaimedBy, Refused, At
<1>5. ASSUME NEW d \in Dispatchers, FilteredBy(d, e)
      PROVE  d \in Open(e) /\ d \notin Refused(e)' /\ OtherHandsSame(d, e)
  <2>1. hand[d][e] # NoJob /\ hand[d][e].stage = "claimed"
    BY <1>5 DEF FilteredBy, BatchOK
  <2>2. hand'[d][e].stage # "refused"
    BY <1>0, <1>5, <2>1 DEF FilteredBy, Job
  <2> QED BY <1>5, <2>1, <2>2 DEF FilteredBy, Open, Refused, At
<1>6. ASSUME NEW d \in Dispatchers, MarkedBy(d, e) \/ LostBy(d, e) \/ PutBackBy(d, e)
      PROVE  d \notin Open(e)' /\ d \notin Refused(e)' /\ OtherHandsSame(d, e)
  BY <1>6 DEF MarkedBy, LostBy, PutBackBy, Open, Refused, At
<1>7. ASSUME NEW d \in Dispatchers, TakenBy(d, e)
      PROVE  d \in Open(e) /\ d \notin Open(e)' /\ d \notin Refused(e)' /\ OtherHandsSame(d, e)
  <2>1. hand[d][e] # NoJob /\ hand[d][e].stage = "ready"
    BY <1>7 DEF TakenBy, At
  <2>2. hand'[d][e].stage = "taken"
    BY <1>0, <1>7, <2>1 DEF TakenBy, Job
  <2> QED BY <1>7, <2>1, <2>2 DEF TakenBy, Open, Refused, At
<1>8. ASSUME NEW d \in Dispatchers, RefusedTo(d, e)
      PROVE  d \in Open(e) /\ OtherHandsSame(d, e)
  BY <1>8 DEF RefusedTo, At, Open
<1>9. ASSUME NEW d \in Dispatchers, PutBackBy(d, e)
      PROVE  d \in Open(e) /\ d \in Refused(e)
  BY <1>9 DEF PutBackBy, At, Open, Refused
<1> QED BY <1>1, <1>2, <1>3, <1>4, <1>5, <1>6, <1>7, <1>8, <1>9

\* The sets of jobs are finite, so they can be counted.
LEMMA JobSetsFinite ==
  ASSUME NEW e \in Events
  PROVE  /\ IsFiniteSet(Open(e)) /\ IsFiniteSet(Refused(e))
         /\ Cardinality(Open(e)) \in Nat /\ Cardinality(Refused(e)) \in Nat
         /\ Cardinality(Open(e)') \in Nat /\ Cardinality(Refused(e)') \in Nat
<1>1. /\ Open(e) \subseteq Dispatchers /\ Refused(e) \subseteq Dispatchers
      /\ Open(e)' \subseteq Dispatchers /\ Refused(e)' \subseteq Dispatchers
  BY DEF Open, Refused
<1>2. \A A : A \subseteq Dispatchers => IsFiniteSet(A) /\ Cardinality(A) \in Nat
  BY OutboxAssumption, FS_Subset, FS_CardinalityType
<1> QED BY <1>1, <1>2

\* Every lease is on a pending row: MarkDelivered, MarkFailed and Reset drop it.
LEMMA LeaseStep ==
  ASSUME TypeOK, LeasedIsPending, [Next]_vars
  PROVE  LeasedIsPending'
<1> SUFFICES ASSUME NEW e \in Events, rows'[e].leased PROVE rows'[e].status = "pending"
  BY DEF LeasedIsPending
<1>0. rows[e] \in Row /\ (rows[e].leased => rows[e].status = "pending")
  BY DEF TypeOK, LeasedIsPending
<1>1. EventChange(e)
  BY EventSteps
<1>2. CASE rows'[e] = rows[e]
  BY <1>0, <1>2
<1>3. CASE \E s : rows'[e] = NewRow(s)
  BY <1>0, <1>3, RowEffects
<1>4. CASE Older(e)
  BY <1>0, <1>4, RowEffects DEF Older
<1>5. ASSUME NEW d \in Dispatchers, ClaimedBy(d, e) PROVE rows'[e].status = "pending"
  BY <1>0, <1>5, RowEffects DEF ClaimedBy
<1>6. ASSUME NEW d \in Dispatchers, MarkedBy(d, e) PROVE rows'[e].status = "pending"
  <2>1. rows[e].status \notin Stored
    BY <1>0, <1>6, RowEffects DEF MarkedBy
  <2> QED BY <1>0, <1>6, <2>1 DEF MarkedBy, Delivered
<1>7. ASSUME NEW d \in Dispatchers, PutBackBy(d, e) PROVE rows'[e].status = "pending"
  <2>1. hand[d][e] \in Job
    BY <1>7 DEF PutBackBy, At, TypeOK
  <2>2. rows[e].status \notin Stored
    BY <1>0, <1>7, <2>1, RowEffects DEF PutBackBy
  <2> QED BY <1>0, <1>7, <2>2 DEF PutBackBy, Failed
<1> QED
  BY <1>1, <1>2, <1>3, <1>4, <1>5, <1>6, <1>7
     DEF EventChange, RowOnly, Replayed, FilteredBy, TakenBy, RefusedTo, LostBy

\* What the sink was given and refused is never forgotten.
LEMMA HistoryGrows ==
  ASSUME TypeOK, [Next]_vars, NEW e \in Events
  PROVE  /\ failures[e] \in Nat /\ failures'[e] \in Nat /\ failures'[e] >= failures[e]
         /\ taken[e] => taken'[e]
         /\ retired[e] => retired'[e]
<1>0. failures[e] \in Nat
  BY DEF TypeOK
<1>1. EventChange(e)
  BY EventSteps
<1>2. failures'[e] = failures[e] \/ failures'[e] = failures[e] + 1
  BY <1>1 DEF EventChange, RowOnly, Replayed, Older, ClaimedBy, FilteredBy, TakenBy, RefusedTo,
     MarkedBy, PutBackBy, LostBy, CountsSame
<1>3. (taken[e] => taken'[e]) /\ (retired[e] => retired'[e])
  BY <1>1 DEF EventChange, RowOnly, Replayed, Older, ClaimedBy, FilteredBy, TakenBy, RefusedTo,
     MarkedBy, PutBackBy, LostBy, SinkSame
<1> QED BY <1>0, <1>2, <1>3

\* Jobs stay honest: a claim copies the attempts of the row, an Emit that
\* fails adds one to the failures.
LEMMA HonestStep ==
  ASSUME TypeOK, BatchOK, JobsHonest, AttemptsCounted, [Next]_vars
  PROVE  JobsHonest'
<1> SUFFICES ASSUME NEW d \in Dispatchers, NEW e \in Events PROVE JobHonest(d, e)'
  BY DEF JobsHonest
<1>0. /\ hand[d][e] # NoJob => hand[d][e] \in Job
      /\ JobHonest(d, e)
      /\ rows[e] \in Row /\ rows[e].attempts \in Nat
  BY DEF TypeOK, JobsHonest, Row
<1>1. EventChange(e)
  BY EventSteps
<1>2. /\ failures[e] \in Nat /\ failures'[e] \in Nat /\ failures'[e] >= failures[e]
      /\ taken[e] => taken'[e]
  BY HistoryGrows
<1>a. rows[e].attempts <= failures[e]
  BY <1>0, <1>2, JobSetsFinite DEF AttemptsCounted
<1>3. CASE hand'[d][e] = NoJob
  BY <1>3 DEF JobHonest
<1>4. CASE hand'[d][e] = hand[d][e]
  BY <1>0, <1>2, <1>4 DEF JobHonest, Job
<1>5. CASE hand'[d][e] = AgedJob(hand[d][e])
  <2>1. CASE hand[d][e] = NoJob
    BY <1>5, <2>1 DEF AgedJob, JobHonest
  <2>2. CASE hand[d][e] # NoJob
    <3>1. hand'[d][e].stage = hand[d][e].stage /\ hand'[d][e].attempts = hand[d][e].attempts
      BY <1>0, <1>5, <2>2 DEF AgedJob, Job
    <3> QED BY <1>0, <1>2, <2>2, <3>1 DEF JobHonest, Job
  <2> QED BY <2>1, <2>2
<1>6. CASE ClaimedBy(d, e)
  <2>1. hand'[d][e].stage = "claimed" /\ hand'[d][e].attempts = rows[e].attempts
    BY <1>6 DEF ClaimedBy
  <2> QED BY <1>0, <1>2, <1>a, <2>1 DEF JobHonest
<1>7. ASSUME NEW stage \in {"ready", "unwanted", "taken"}, hand[d][e] # NoJob,
             hand'[d][e] = [hand[d][e] EXCEPT !.stage = stage],
             stage = "taken" => taken'[e]
      PROVE  JobHonest(d, e)'
  <2>1. hand'[d][e].stage = stage /\ hand'[d][e].attempts = hand[d][e].attempts
    BY <1>0, <1>7 DEF Job
  <2> QED BY <1>0, <1>2, <1>7, <2>1 DEF JobHonest, Job
<1>8. CASE RefusedTo(d, e)
  <2>1. hand[d][e] # NoJob
    BY <1>8 DEF RefusedTo, At
  <2>2. hand'[d][e].stage = "refused" /\ hand'[d][e].attempts = hand[d][e].attempts
    BY <1>0, <1>8, <2>1 DEF RefusedTo, Job
  <2>3. failures'[e] = failures[e] + 1
    BY <1>8 DEF RefusedTo
  <2> QED BY <1>0, <1>2, <2>1, <2>2, <2>3 DEF JobHonest, Job
<1>9. CASE FilteredBy(d, e)
  BY <1>7, <1>9 DEF FilteredBy
<1>10. CASE TakenBy(d, e)
  BY <1>7, <1>10 DEF TakenBy, At
<1>11. \/ hand'[d][e] \in {NoJob, hand[d][e], AgedJob(hand[d][e])}
       \/ ClaimedBy(d, e) \/ FilteredBy(d, e) \/ TakenBy(d, e) \/ RefusedTo(d, e)
  <2>1. ASSUME NEW c \in Dispatchers, OtherHandsSame(c, e), c # d
        PROVE  hand'[d][e] = hand[d][e]
    BY <2>1 DEF OtherHandsSame
  <2>2. ASSUME NEW c \in Dispatchers,
               \/ ClaimedBy(c, e) \/ FilteredBy(c, e) \/ TakenBy(c, e) \/ RefusedTo(c, e)
               \/ MarkedBy(c, e) \/ PutBackBy(c, e) \/ LostBy(c, e)
        PROVE  OtherHandsSame(c, e)
    BY <2>2 DEF ClaimedBy, FilteredBy, TakenBy, RefusedTo, MarkedBy, PutBackBy, LostBy
  <2>3. MarkedBy(d, e) \/ PutBackBy(d, e) \/ LostBy(d, e) => hand'[d][e] = NoJob
    BY DEF MarkedBy, PutBackBy, LostBy
  <2>4. HandSame(e) => hand'[d][e] = hand[d][e]
    BY DEF HandSame
  <2>5. Older(e) => hand'[d][e] = AgedJob(hand[d][e])
    BY DEF Older
  <2> QED BY <1>1, <2>1, <2>2, <2>3, <2>4, <2>5 DEF EventChange, RowOnly, Replayed
<1> QED BY <1>3, <1>4, <1>5, <1>6, <1>8, <1>9, <1>10, <1>11

\* The attempts column never runs ahead of the failures, although MarkFailed
\* adds to whatever the row holds by then.
LEMMA CountStep ==
  ASSUME TypeOK, BatchOK, AttemptsCounted, [Next]_vars
  PROVE  AttemptsCounted'
<1> SUFFICES ASSUME NEW e \in Events
             PROVE  rows'[e].attempts + Cardinality(Refused(e)') <= failures'[e]
  BY DEF AttemptsCounted
<1> DEFINE r == Cardinality(Refused(e))
           q == Cardinality(Refused(e)')
<1>0. /\ rows[e] \in Row /\ rows[e].attempts \in Nat
      /\ rows[e].attempts + r <= failures[e]
      /\ r \in Nat /\ q \in Nat
  BY JobSetsFinite DEF TypeOK, AttemptsCounted, Row
<1>1. EventChange(e)
  BY EventSteps
<1>2. failures[e] \in Nat /\ failures'[e] \in Nat /\ failures'[e] >= failures[e]
  BY HistoryGrows
<1>3. Refused(e)' \subseteq Refused(e) => q <= r
  BY JobSetsFinite, CountSubset
<1>4. \A d \in Dispatchers : Refused(e)' \subseteq Refused(e) \cup {d} => q <= r + 1
  BY JobSetsFinite, CountAdded
<1>5. \A d \in Refused(e) : Refused(e)' \subseteq Refused(e) \ {d} => q + 1 <= r
  BY JobSetsFinite, CountDropped
<1> HIDE DEF r, q
<1>6. ASSUME q <= r, rows'[e].attempts \in {0, rows[e].attempts}
      PROVE  rows'[e].attempts + q <= failures'[e]
  BY <1>0, <1>2, <1>6
<1>7. ASSUME RowOnly(e, rows[e]) \/ Older(e)
      PROVE  rows'[e].attempts + q <= failures'[e]
  <2>1. q <= r
    BY <1>3, <1>7, JobSets DEF RowOnly
  <2>2. rows'[e].attempts = rows[e].attempts
    BY <1>0, <1>7, RowEffects DEF RowOnly, Older
  <2> QED BY <1>6, <2>1, <2>2
<1>8. ASSUME RowOnly(e, NewRow("pending")) \/ RowOnly(e, NewRow("deleted")) \/ Replayed(e)
      PROVE  rows'[e].attempts + q <= failures'[e]
  <2>1. q <= r
    BY <1>3, <1>8, JobSets DEF RowOnly, Replayed
  <2>2. rows'[e].attempts = 0
    BY <1>0, <1>8, RowEffects DEF RowOnly, Replayed
  <2> QED BY <1>6, <2>1, <2>2
<1>9. ASSUME NEW d \in Dispatchers,
             \/ ClaimedBy(d, e) \/ FilteredBy(d, e) \/ TakenBy(d, e) \/ LostBy(d, e)
             \/ MarkedBy(d, e)
      PROVE  rows'[e].attempts + q <= failures'[e]
  <2>1. q <= r
    BY <1>3, <1>9, JobSets
  <2>2. rows'[e].attempts = rows[e].attempts
    <3>1. CASE ClaimedBy(d, e)
      BY <1>0, <3>1, RowEffects DEF ClaimedBy
    <3>2. CASE MarkedBy(d, e)
      BY <1>0, <3>2, RowEffects DEF MarkedBy, Delivered
    <3> QED BY <1>9, <3>1, <3>2 DEF FilteredBy, TakenBy, LostBy
  <2> QED BY <1>6, <2>1, <2>2
<1>10. ASSUME NEW d \in Dispatchers, RefusedTo(d, e)
       PROVE  rows'[e].attempts + q <= failures'[e]
  <2>1. q <= r + 1
    BY <1>4, <1>10, JobSets
  <2>2. rows'[e].attempts = rows[e].attempts /\ failures'[e] = failures[e] + 1
    BY <1>10 DEF RefusedTo
  <2> QED BY <1>0, <1>2, <2>1, <2>2
<1>11. ASSUME NEW d \in Dispatchers, PutBackBy(d, e)
       PROVE  rows'[e].attempts + q <= failures'[e]
  <2>1. q + 1 <= r
    BY <1>5, <1>11, JobSets
  <2>2. hand[d][e] \in Job
    BY <1>11 DEF PutBackBy, At, TypeOK
  <2>3. rows'[e].attempts \in {rows[e].attempts, rows[e].attempts + 1}
    BY <1>0, <1>11, <2>2, RowEffects DEF PutBackBy, Failed
  <2> QED BY <1>0, <1>2, <2>1, <2>3
<1> QED
  BY <1>1, <1>7, <1>8, <1>9, <1>10, <1>11 DEF EventChange, r, q

\* Nothing is settled without a reason: MarkDelivered follows a taken or an
\* unwanted event, a dead letter a failure at the end of the budget, and
\* retention only one of these.
LEMMA SettledStep ==
  ASSUME TypeOK, JobsHonest, OwedIsKept, DeadLetterIsEarned, [Next]_vars
  PROVE  OwedIsKept' /\ DeadLetterIsEarned'
<1> DEFINE Good(e) ==
             /\ rows[e].status = "delivered" => taken[e] \/ retired[e]
             /\ rows[e].status = "deleted" => taken[e] \/ retired[e] \/ Exhausted(e)
             /\ rows[e].status = "failed" => Exhausted(e)
<1> SUFFICES ASSUME NEW e \in Events PROVE Good(e)'
  BY DEF OwedIsKept, DeadLetterIsEarned
<1>0. rows[e] \in Row /\ Good(e) /\ MaxAttempts \in Nat
  BY OutboxAssumption DEF TypeOK, OwedIsKept, DeadLetterIsEarned
<1>1. EventChange(e)
  BY EventSteps
<1>2. /\ failures[e] \in Nat /\ failures'[e] \in Nat /\ failures'[e] >= failures[e]
      /\ taken[e] => taken'[e]
      /\ retired[e] => retired'[e]
  BY HistoryGrows
<1>3. Exhausted(e) => Exhausted(e)'
  BY <1>0, <1>2 DEF Exhausted
<1>4. CASE rows'[e].status = rows[e].status
  BY <1>0, <1>2, <1>3, <1>4
<1>5. CASE rows'[e].status = "pending"
  BY <1>5
<1>6. CASE rows[e].status \in {"delivered", "failed"} /\ RowOnly(e, NewRow("deleted"))
  <2>1. rows'[e].status = "deleted"
    BY <1>0, <1>6, RowEffects DEF RowOnly
  <2> QED BY <1>0, <1>2, <1>3, <1>6, <2>1
<1>7. ASSUME NEW d \in Dispatchers, MarkedBy(d, e) PROVE Good(e)'
  <2>1. CASE rows[e].status \in Stored
    <3>1. rows'[e].status = "delivered"
      BY <1>0, <1>7, <2>1, RowEffects DEF MarkedBy
    <3>2. taken'[e] \/ retired'[e]
      BY <1>7 DEF MarkedBy, JobsHonest, JobHonest, At
    <3> QED BY <3>1, <3>2
  <2>2. CASE rows[e].status \notin Stored
    BY <1>4, <1>7, <2>2 DEF MarkedBy, Delivered
  <2> QED BY <2>1, <2>2
<1>8. ASSUME NEW d \in Dispatchers, PutBackBy(d, e) PROVE Good(e)'
  <2>0. hand[d][e] \in Job /\ hand[d][e] # NoJob /\ hand[d][e].stage = "refused"
    BY <1>8 DEF PutBackBy, At, TypeOK
  <2>1. CASE rows[e].status \in Stored
    <3>1. rows'[e].status = IF hand[d][e].attempts + 1 >= MaxAttempts THEN "failed" ELSE "pending"
      BY <1>0, <1>8, <2>0, <2>1, RowEffects DEF PutBackBy
    <3>2. hand[d][e].attempts + 1 <= failures[e] /\ hand[d][e].attempts \in Nat
      BY <2>0 DEF JobsHonest, JobHonest, Job
    <3>3. hand[d][e].attempts + 1 >= MaxAttempts => Exhausted(e)'
      BY <1>0, <1>2, <3>2 DEF Exhausted
    <3> QED BY <3>1, <3>3
  <2>2. CASE rows[e].status \notin Stored
    BY <1>4, <1>8, <2>2 DEF PutBackBy, Failed
  <2> QED BY <2>1, <2>2
<1>9. ASSUME NEW d \in Dispatchers,
             ClaimedBy(d, e) \/ FilteredBy(d, e) \/ TakenBy(d, e) \/ RefusedTo(d, e) \/ LostBy(d, e)
      PROVE  rows'[e].status = rows[e].status
  <2>1. CASE ClaimedBy(d, e)
    BY <1>0, <2>1, RowEffects DEF ClaimedBy
  <2> QED BY <1>9, <2>1 DEF FilteredBy, TakenBy, RefusedTo, LostBy
<1>10. RowOnly(e, rows[e]) \/ Older(e) => rows'[e].status = rows[e].status
  BY <1>0, RowEffects DEF RowOnly, Older
<1>11. RowOnly(e, NewRow("pending")) \/ Replayed(e) => rows'[e].status = "pending"
  BY <1>0, RowEffects DEF RowOnly, Replayed
<1> HIDE DEF Good
<1> QED
  BY <1>1, <1>4, <1>5, <1>6, <1>7, <1>8, <1>9, <1>10, <1>11 DEF EventChange

\* The account of emissions: a claim trades a due row for an open job or takes
\* an overdue lease, an Emit trades an open job or a failure for an emission, a
\* failure trades its open job for a due row, a replay is a cause of its own.
LEMMA CauseStep ==
  ASSUME TypeOK, TypeOK', BatchOK, LeasedIsPending, EmitHasCause, [Next]_vars
  PROVE  EmitHasCause'
<1> SUFFICES ASSUME NEW e \in Events
             PROVE  emits'[e] + Cardinality(Open(e)') + Due(e)'
                      <= 1 + failures'[e] + overdue'[e] + resets'[e]
  BY DEF EmitHasCause
<1> DEFINE o == Cardinality(Open(e))
           p == Cardinality(Open(e)')
           u == Due(e)
           v == Due(e)'
<1>0. /\ rows[e] \in Row
      /\ emits[e] \in Nat /\ failures[e] \in Nat /\ overdue[e] \in Nat /\ resets[e] \in Nat
      /\ emits[e] + o + u <= 1 + failures[e] + overdue[e] + resets[e]
      /\ o \in Nat /\ p \in Nat /\ u \in {0, 1} /\ v \in {0, 1}
  BY JobSetsFinite DEF TypeOK, EmitHasCause, Due
<1>1. EventChange(e)
  BY EventSteps
<1>2. Open(e)' \subseteq Open(e) => p <= o
  BY JobSetsFinite, CountSubset
<1>3. \A d \in Dispatchers : Open(e)' \subseteq Open(e) \cup {d} => p <= o + 1
  BY JobSetsFinite, CountAdded
<1>4. \A d \in Open(e) : Open(e)' \subseteq Open(e) \ {d} => p + 1 <= o
  BY JobSetsFinite, CountDropped
<1>a. rows[e].leased => rows[e].status = "pending"
  BY DEF LeasedIsPending
<1>b. rows'[e] = rows[e] => v = u
  BY DEF Due
<1>c. rows'[e].status \in {"delivered", "failed", "deleted"} => v = 0
  BY DEF Due
<1>d. rows[e].status = "absent" => u = 1
  BY <1>a DEF Due
<1>e. rows'[e].status = rows[e].status /\ rows'[e].leased = rows[e].leased => v = u
  BY DEF Due
<1>f. ASSUME NEW d \in Dispatchers, ClaimedBy(d, e)
      PROVE  v = 0 /\ (rows[e].leased \/ u = 1)
  <2>1. rows'[e].leased /\ rows[e].status = "pending"
    BY <1>0, <1>f, RowEffects DEF ClaimedBy
  <2> QED BY <2>1 DEF Due
<1> HIDE DEF o, p, u, v
<1> DEFINE Goal == emits'[e] + p + v <= 1 + failures'[e] + overdue'[e] + resets'[e]
<1>5. ASSUME p <= o, v <= u, CountsSame(e) PROVE Goal
  BY <1>0, <1>5 DEF CountsSame
<1>6. ASSUME RowOnly(e, rows[e]) \/ Older(e) PROVE Goal
  <2>1. p <= o /\ CountsSame(e)
    BY <1>2, <1>6, JobSets DEF RowOnly, Older
  <2>2. v = u
    BY <1>0, <1>6, <1>b, <1>e, RowEffects DEF RowOnly, Older
  <2> QED BY <1>0, <1>5, <2>1, <2>2
<1>7. ASSUME rows[e].status = "absent", RowOnly(e, NewRow("pending")) PROVE Goal
  <2>1. p <= o /\ CountsSame(e)
    BY <1>2, <1>7, JobSets DEF RowOnly
  <2> QED BY <1>0, <1>5, <1>7, <1>d, <2>1
<1>8. ASSUME RowOnly(e, NewRow("deleted")) PROVE Goal
  <2>1. p <= o /\ CountsSame(e)
    BY <1>2, <1>8, JobSets DEF RowOnly
  <2>2. v = 0
    BY <1>0, <1>8, <1>c, RowEffects DEF RowOnly
  <2> QED BY <1>0, <1>5, <2>1, <2>2
<1>9. ASSUME Replayed(e) PROVE Goal
  <2>1. p <= o
    BY <1>2, <1>9, JobSets DEF Replayed
  <2>2. /\ resets'[e] = resets[e] + 1
        /\ emits'[e] = emits[e] /\ failures'[e] = failures[e] /\ overdue'[e] = overdue[e]
    BY <1>9 DEF Replayed
  <2> QED BY <1>0, <2>1, <2>2
<1>10. ASSUME NEW d \in Dispatchers, ClaimedBy(d, e) PROVE Goal
  <2>1. p <= o + 1
    BY <1>3, <1>10, JobSets
  <2>2. /\ overdue'[e] = IF rows[e].leased THEN overdue[e] + 1 ELSE overdue[e]
        /\ emits'[e] = emits[e] /\ failures'[e] = failures[e] /\ resets'[e] = resets[e]
    BY <1>10 DEF ClaimedBy
  <2>3. v = 0 /\ (rows[e].leased \/ u = 1)
    BY <1>10, <1>f
  <2>4. CASE rows[e].leased
    BY <1>0, <2>1, <2>2, <2>3, <2>4
  <2>5. CASE ~rows[e].leased
    BY <1>0, <2>1, <2>2, <2>3, <2>5
  <2> QED BY <2>4, <2>5
<1>11. ASSUME NEW d \in Dispatchers, FilteredBy(d, e) \/ LostBy(d, e) PROVE Goal
  <2>1. p <= o
    BY <1>2, <1>11, JobSets
  <2>2. v = u /\ CountsSame(e)
    BY <1>11, <1>b DEF FilteredBy, LostBy
  <2> QED BY <1>0, <1>5, <2>1, <2>2
<1>12. ASSUME NEW d \in Dispatchers, TakenBy(d, e) PROVE Goal
  <2>1. p + 1 <= o
    BY <1>4, <1>12, JobSets
  <2>2. /\ v = u /\ emits'[e] = emits[e] + 1
        /\ failures'[e] = failures[e] /\ overdue'[e] = overdue[e] /\ resets'[e] = resets[e]
    BY <1>12, <1>b DEF TakenBy
  <2> QED BY <1>0, <2>1, <2>2
<1>13. ASSUME NEW d \in Dispatchers, RefusedTo(d, e) PROVE Goal
  <2>1. p <= o
    BY <1>2, <1>13, JobSets
  <2>2. /\ v = u /\ emits'[e] = emits[e] + 1 /\ failures'[e] = failures[e] + 1
        /\ overdue'[e] = overdue[e] /\ resets'[e] = resets[e]
    BY <1>13, <1>b DEF RefusedTo
  <2> QED BY <1>0, <2>1, <2>2
<1>14. ASSUME NEW d \in Dispatchers, MarkedBy(d, e) PROVE Goal
  <2>1. p <= o /\ CountsSame(e)
    BY <1>2, <1>14, JobSets DEF MarkedBy
  <2>2. v <= u
    <3>1. CASE rows[e].status \in Stored
      BY <1>0, <1>14, <1>c, <3>1, RowEffects DEF MarkedBy
    <3>2. CASE rows[e].status \notin Stored
      BY <1>0, <1>14, <1>b, <3>2 DEF MarkedBy, Delivered
    <3> QED BY <3>1, <3>2
  <2> QED BY <1>5, <2>1, <2>2
<1>15. ASSUME NEW d \in Dispatchers, PutBackBy(d, e) PROVE Goal
  <2>1. p + 1 <= o
    BY <1>4, <1>15, JobSets
  <2>2. CountsSame(e)
    BY <1>15 DEF PutBackBy
  <2> QED BY <1>0, <2>1, <2>2 DEF CountsSame
<1>16. Goal
  <2> HIDE DEF Goal
  <2> QED
    BY <1>1, <1>6, <1>7, <1>8, <1>9, <1>10, <1>11, <1>12, <1>13, <1>14, <1>15 DEF EventChange
<1> QED BY <1>16 DEF p, v

\* The invariant holds at the start and every step keeps it.
LEMMA OutboxInvInductive == Spec => []OutboxInv
<1>1. Init => OutboxInv
  <2> SUFFICES ASSUME Init PROVE OutboxInv
    OBVIOUS
  <2>1. TypeOK
    BY NewRowType, OutboxAssumption DEF Init, TypeOK, Statuses
  <2>2. \A e \in Events :
          /\ rows[e].status = "absent" /\ rows[e].attempts = 0 /\ ~rows[e].leased
          /\ Open(e) = {} /\ Refused(e) = {}
          /\ emits[e] = 0 /\ failures[e] = 0 /\ overdue[e] = 0 /\ resets[e] = 0
    BY DEF Init, NewRow, Open, Refused, At
  <2>3. \A d \in Dispatchers, e \in Events : hand[d][e] = NoJob
    BY DEF Init
  <2>4. BatchOK /\ JobsHonest
    BY <2>3 DEF BatchOK, At, JobsHonest, JobHonest
  <2>5. LeasedIsPending /\ OwedIsKept /\ DeadLetterIsEarned
    BY <2>2 DEF LeasedIsPending, OwedIsKept, DeadLetterIsEarned
  <2>6. Cardinality({}) = 0
    BY FS_EmptySet
  <2>7. AttemptsCounted
    <3>1. \A e \in Events : Cardinality(Refused(e)) = 0
      BY <2>2, <2>6
    <3> QED BY <2>2, <3>1 DEF AttemptsCounted
  <2>8. EmitHasCause
    BY <2>2, <2>6 DEF EmitHasCause, Due
  <2> QED BY <2>1, <2>4, <2>5, <2>7, <2>8 DEF OutboxInv
<1>2. OutboxInv /\ [Next]_vars => OutboxInv'
  <2> SUFFICES ASSUME OutboxInv, [Next]_vars PROVE OutboxInv'
    OBVIOUS
  <2>1. /\ TypeOK /\ BatchOK /\ LeasedIsPending /\ JobsHonest /\ AttemptsCounted
        /\ OwedIsKept /\ DeadLetterIsEarned /\ EmitHasCause
    BY DEF OutboxInv
  <2>2. TypeOK'
    BY <2>1, TypeStep
  <2>3. BatchOK'
    BY <2>1, BatchStep
  <2>4. LeasedIsPending'
    BY <2>1, LeaseStep
  <2>5. JobsHonest'
    BY <2>1, HonestStep
  <2>6. AttemptsCounted'
    BY <2>1, CountStep
  <2>7. OwedIsKept' /\ DeadLetterIsEarned'
    BY <2>1, SettledStep
  <2>8. EmitHasCause'
    BY <2>1, <2>2, CauseStep
  <2> QED BY <2>2, <2>3, <2>4, <2>5, <2>6, <2>7, <2>8 DEF OutboxInv
<1> QED BY <1>1, <1>2, PTL DEF Spec

-----------------------------------------------------------------------------
(* Theorems.                                                               *)

\* No event the host is owed is lost, however many dispatchers mark rows they
\* no longer hold, and whatever retention deletes.
THEOREM OwedEventsAreKept == Spec => []OwedIsKept
<1>1. OutboxInv => OwedIsKept
  BY DEF OutboxInv
<1> QED BY <1>1, OutboxInvInductive, PTL

\* A dead letter has failed as often as the budget says, although the budget is
\* compared with the attempts of a claim that may be out of date.
THEOREM DeadLettersAreEarned == Spec => []DeadLetterIsEarned
<1>1. OutboxInv => DeadLetterIsEarned
  BY DEF OutboxInv
<1> QED BY <1>1, OutboxInvInductive, PTL

\* An event goes out at most once for its enqueueing, each failure, each lease
\* that ran out and each replay.
THEOREM EmissionsHaveCauses == Spec => []EmitHasCause
<1>1. OutboxInv => EmitHasCause
  BY DEF OutboxInv
<1> QED BY <1>1, OutboxInvInductive, PTL

-----------------------------------------------------------------------------
(* Tracking: the shapes of a flush.                                        *)

USE TrackingAssumption

\* The stages and the empty flush are well formed.
LEMMA FlushType ==
  /\ Off \in Flush
  /\ \A s \in {"off", "waiting", "stopping", "inserting", "deriving", "returned"} :
       [Off EXCEPT !.stage = s] \in Flush
BY DEF Off, Flush, Event

\* So is a flush that starts, and one that ends or goes on.
LEMMA FlushMoves ==
  /\ \A r \in Replicas, last \in BOOLEAN, s \in {"waiting", "returned"} :
       buf[r] \in SUBSET Event => Swapped(r, last, s) \in Flush
  /\ \A f \in Flushers, j \in Flush : Ended(f, j) \in Flush /\ Continue(f, j) \in Flush
<1>1. ASSUME NEW r \in Replicas, NEW last \in BOOLEAN, NEW s \in {"waiting", "returned"},
             buf[r] \in SUBSET Event
      PROVE  Swapped(r, last, s) \in Flush
  <2>1. [Off EXCEPT !.stage = s] \in Flush
    BY FlushType
  <2>2. [stage |-> "inserting", batch |-> buf[r], derive |-> {}, last |-> last] \in Flush
    BY <1>1 DEF Flush
  <2> QED BY <2>1, <2>2 DEF Swapped
<1>2. ASSUME NEW f \in Flushers, NEW j \in Flush
      PROVE  Ended(f, j) \in Flush /\ Continue(f, j) \in Flush
  BY FlushType DEF Ended, Continue
<1> QED BY <1>1, <1>2

\* Replacing the flush of one flusher keeps them all well formed.
LEMMA FlushUpdate ==
  ASSUME flush \in [Replicas -> [Flushers -> Flush]], NEW r \in Replicas, NEW f \in Flushers,
         NEW j \in Flush
  PROVE  /\ [flush EXCEPT ![r][f] = j] \in [Replicas -> [Flushers -> Flush]]
         /\ [flush EXCEPT ![r][f] = j][r][f] = j
         /\ \A q \in Replicas, g \in Flushers :
              q # r \/ g # f => [flush EXCEPT ![r][f] = j][q][g] = flush[q][g]
OBVIOUS

-----------------------------------------------------------------------------
(* Making room.                                                            *)

\* A full buffer gives up exactly its oldest event, any other none.
LEMMA RoomIsMade ==
  ASSUME NEW r \in Replicas, buf[r] \in SUBSET Event, IsFiniteSet(buf[r]),
         Cardinality(buf[r]) <= MaxBuffer,
         \A e, o \in buf[r] : e.at = o.at => e = o
  PROVE  /\ Kept(r) \subseteq buf[r]
         /\ IsFiniteSet(Kept(r))
         /\ Overflow(r) \in Nat
         /\ Cardinality(Kept(r)) + Overflow(r) = Cardinality(buf[r])
         /\ Cardinality(Kept(r)) < MaxBuffer
<1> DEFINE older(e) == {o \in buf[r] : o.at < e.at}
<1>0. Cardinality(buf[r]) \in Nat /\ MaxBuffer \in Nat /\ MaxBuffer > 0
  BY FS_CardinalityType
<1>1. ASSUME NEW e \in buf[r]
      PROVE  IsFiniteSet(older(e)) /\ Cardinality(older(e)) \in Nat
  <2>1. older(e) \subseteq buf[r]
    OBVIOUS
  <2> QED BY <2>1, FS_Subset, FS_CardinalityType
<1>2. Kept(r) \subseteq buf[r] /\ IsFiniteSet(Kept(r))
  <2>1. Kept(r) \subseteq buf[r]
    BY DEF Kept
  <2> QED BY <2>1, FS_Subset
<1>3. CASE Cardinality(buf[r]) < MaxBuffer
  <2>1. Overflow(r) = 0
    BY <1>0, <1>3 DEF Overflow
  <2>2. Kept(r) = buf[r]
    BY <1>1, <2>1 DEF Kept
  <2> QED BY <1>0, <1>2, <1>3, <2>1, <2>2
<1>4. CASE Cardinality(buf[r]) = MaxBuffer
  <2>1. Overflow(r) = 1
    BY <1>0, <1>4 DEF Overflow
  <2>2. buf[r] # {}
    BY <1>0, <1>4, FS_EmptySet
  <2> DEFINE stamps == {e.at : e \in buf[r]}
  <2>3. stamps \in SUBSET Nat /\ stamps # {}
    BY <2>2 DEF Event
  <2>4. PICK m \in stamps : \A n \in stamps : m <= n
    BY <2>3, SmallestOf
  <2>5. PICK x \in buf[r] : x.at = m
    OBVIOUS
  <2>6. \A e \in buf[r] : x.at <= e.at
    BY <2>4, <2>5
  <2>7. \A e \in buf[r] : e.at \in Nat
    BY DEF Event
  <2>8. ASSUME NEW e \in buf[r]
        PROVE  (Cardinality(older(e)) >= 1) <=> (e # x)
    <3>1. CASE e = x
      <4>1. older(e) = {}
        BY <2>6, <2>7, <3>1
      <4>2. Cardinality(older(e)) = 0
        BY <4>1, FS_EmptySet
      <4> QED BY <3>1, <4>2
    <3>2. CASE e # x
      <4>1. x \in older(e)
        <5>1. x.at # e.at
          BY <3>2
        <5>2. x.at < e.at
          BY <2>6, <2>7, <5>1
        <5> QED BY <5>2
      <4>2. Cardinality(older(e)) # 0
        BY <1>1, <4>1, FS_EmptySet
      <4> QED BY <1>1, <3>2, <4>2
    <3> QED BY <3>1, <3>2
  <2>9. Kept(r) = buf[r] \ {x}
    BY <2>1, <2>8 DEF Kept
  <2>10. Cardinality(buf[r] \ {x}) = Cardinality(buf[r]) - 1
    BY <2>5, FS_RemoveElement
  <2> QED BY <1>0, <1>2, <1>4, <2>1, <2>9, <2>10
<1> QED BY <1>0, <1>3, <1>4
-----------------------------------------------------------------------------
(* Well-formedness.                                                        *)

\* The stamps of buffered events tell them apart, and buffers are finite.
BufferInv ==
  \A r \in Replicas :
    /\ IsFiniteSet(buf[r])
    /\ \A e \in buf[r] : e.at <= clock
    /\ \A e, o \in buf[r] : e.at = o.at => e = o

\* Batches are finite.
BatchInv == \A r \in Replicas, f \in Flushers : IsFiniteSet(flush[r][f].batch)

\* What Record does to the buffers: nothing, or room for one event and the event.
LEMMA RecordKeeps ==
  ASSUME TrackTypeOK, BufferInv, NEW r \in Replicas, NEW ev \in Event,
         clock' = clock + 1, ev.at = clock', Record(r, ev)
  PROVE  /\ buf' \in [Replicas -> SUBSET Event]
         /\ \A q \in Replicas : Cardinality(buf'[q]) <= MaxBuffer
         /\ stats' \in [Replicas -> [flushed : Nat, dropped : Nat, failed : Nat]]
         /\ recorded' \in [Replicas -> Nat]
         /\ BufferInv'
         /\ \A q \in Replicas : life[q].closed => buf'[q] = buf[q]
         /\ buf'[r] \subseteq buf[r] \cup {ev}
         /\ recorded'[r] = recorded[r] + 1
         /\ Cardinality(buf'[r]) + stats'[r].dropped = Cardinality(buf[r]) + stats[r].dropped + 1
         /\ stats'[r].flushed = stats[r].flushed /\ stats'[r].failed = stats[r].failed
         /\ \A q \in Replicas \ {r} :
              buf'[q] = buf[q] /\ stats'[q] = stats[q] /\ recorded'[q] = recorded[q]
<1>0. /\ buf \in [Replicas -> SUBSET Event] /\ clock \in Nat
      /\ stats \in [Replicas -> [flushed : Nat, dropped : Nat, failed : Nat]]
      /\ recorded \in [Replicas -> Nat]
      /\ \A q \in Replicas : Cardinality(buf[q]) <= MaxBuffer
      /\ MaxBuffer \in Nat
  BY DEF TrackTypeOK
<1>1. /\ recorded' \in [Replicas -> Nat]
      /\ recorded'[r] = recorded[r] + 1
      /\ \A q \in Replicas \ {r} : recorded'[q] = recorded[q]
  BY <1>0 DEF Record
<1>2. \A q \in Replicas : Cardinality(buf[q]) \in Nat
  BY FS_CardinalityType DEF BufferInv
<1>3. CASE life[r].closed
  <2>1. buf' = buf /\ stats' = [stats EXCEPT ![r].dropped = @ + 1]
    BY <1>3 DEF Record
  <2>2. BufferInv'
    <3>1. \A q \in Replicas : \A e \in buf[q] : e.at \in Nat
      BY <1>0 DEF Event
    <3> QED BY <1>0, <2>1, <3>1 DEF BufferInv
  <2>3. /\ stats' \in [Replicas -> [flushed : Nat, dropped : Nat, failed : Nat]]
        /\ stats'[r].dropped = stats[r].dropped + 1
        /\ stats'[r].flushed = stats[r].flushed /\ stats'[r].failed = stats[r].failed
        /\ stats[r].dropped \in Nat
        /\ \A q \in Replicas \ {r} : stats'[q] = stats[q]
    BY <1>0, <2>1
  <2> QED BY <1>0, <1>1, <1>2, <2>1, <2>2, <2>3
<1>4. CASE ~life[r].closed
  <2>1. /\ buf' = [buf EXCEPT ![r] = Kept(r) \cup {ev}]
        /\ stats' = [stats EXCEPT ![r].dropped = @ + Overflow(r)]
    BY <1>4 DEF Record, Dropped
  <2>2. /\ Kept(r) \subseteq buf[r]
        /\ IsFiniteSet(Kept(r))
        /\ Overflow(r) \in Nat
        /\ Cardinality(Kept(r)) + Overflow(r) = Cardinality(buf[r])
        /\ Cardinality(Kept(r)) < MaxBuffer
    BY <1>0, RoomIsMade DEF BufferInv
  <2>3. \A q \in Replicas : \A e \in buf[q] : e.at \in Nat /\ e.at <= clock
    BY <1>0 DEF Event, BufferInv
  <2>4. ev \notin Kept(r)
    BY <1>0, <2>2, <2>3
  <2>5. /\ IsFiniteSet(Kept(r) \cup {ev})
        /\ Cardinality(Kept(r) \cup {ev}) = Cardinality(Kept(r)) + 1
        /\ Cardinality(Kept(r)) \in Nat
    BY <2>2, <2>4, FS_AddElement, FS_CardinalityType
  <2>6. /\ buf' \in [Replicas -> SUBSET Event]
        /\ buf'[r] = Kept(r) \cup {ev}
        /\ \A q \in Replicas \ {r} : buf'[q] = buf[q]
    BY <1>0, <2>1, <2>2
  <2>7. /\ stats' \in [Replicas -> [flushed : Nat, dropped : Nat, failed : Nat]]
        /\ stats'[r].dropped = stats[r].dropped + Overflow(r)
        /\ stats'[r].flushed = stats[r].flushed /\ stats'[r].failed = stats[r].failed
        /\ stats[r].dropped \in Nat
        /\ \A q \in Replicas \ {r} : stats'[q] = stats[q]
    BY <1>0, <2>1, <2>2
  <2>8. BufferInv'
    <3> SUFFICES ASSUME NEW q \in Replicas
                 PROVE  /\ IsFiniteSet(buf'[q])
                        /\ \A e \in buf'[q] : e.at <= clock'
                        /\ \A e, o \in buf'[q] : e.at = o.at => e = o
      BY DEF BufferInv
    <3>1. CASE q = r
      <4>1. \A e \in Kept(r) : e.at \in Nat /\ e.at <= clock /\ e.at # ev.at
        BY <1>0, <2>2, <2>3
      <4>2. \A e, o \in Kept(r) : e.at = o.at => e = o
        BY <2>2 DEF BufferInv
      <4>3. \A e \in buf'[r] : e.at <= clock'
        BY <1>0, <2>6, <4>1
      <4>4. \A e, o \in buf'[r] : e.at = o.at => e = o
        BY <2>6, <4>1, <4>2
      <4> QED BY <2>5, <2>6, <3>1, <4>3, <4>4
    <3>2. CASE q # r
      BY <1>0, <2>3, <2>6, <3>2 DEF BufferInv
    <3> QED BY <3>1, <3>2
  <2>9. \A q \in Replicas : Cardinality(buf'[q]) <= MaxBuffer
    <3>1. Cardinality(buf'[r]) <= MaxBuffer
      BY <1>0, <2>2, <2>5, <2>6
    <3> QED BY <1>0, <2>6, <3>1
  <2>10. /\ \A q \in Replicas : life[q].closed => buf'[q] = buf[q]
         /\ buf'[r] \subseteq buf[r] \cup {ev}
    BY <1>4, <2>2, <2>6
  <2>11. Cardinality(buf'[r]) + stats'[r].dropped = Cardinality(buf[r]) + stats[r].dropped + 1
    BY <1>2, <2>2, <2>5, <2>6, <2>7
  <2> QED BY <1>1, <2>6, <2>7, <2>8, <2>9, <2>10, <2>11
<1> QED BY <1>3, <1>4
\* A flush with something left to do goes on; another ends.
LEMMA Continues ==
  \A f \in Flushers, j \in Flush :
         /\ Continue(f, j) \in Flush
         /\ Continue(f, j).batch = j.batch /\ Continue(f, j).derive = j.derive
         /\ j.batch # {} \/ j.derive # {} => Continue(f, j) = j
         /\ j.batch = {} /\ j.derive = {} =>
              /\ Continue(f, j).last = FALSE
              /\ Continue(f, j).stage = IF f = "loop" /\ ~j.last THEN "waiting" ELSE "returned"
<1> TAKE f \in Flushers, j \in Flush
<1>2. CASE j.batch = {} /\ j.derive = {}
  <2> DEFINE k == [Off EXCEPT !.stage = IF f = "loop" /\ ~j.last THEN "waiting" ELSE "returned"]
  <2>1. Continue(f, j) = k
    BY <1>2 DEF Continue, Ended
  <2>2. /\ k.batch = {} /\ k.derive = {} /\ k.last = FALSE
        /\ k.stage = IF f = "loop" /\ ~j.last THEN "waiting" ELSE "returned"
    BY DEF Off
  <2>3. k \in Flush
    BY FlushType
  <2> QED BY <1>2, <2>1, <2>2, <2>3
<1>3. CASE j.batch # {} \/ j.derive # {}
  BY <1>3 DEF Continue
<1> QED BY <1>2, <1>3

\* How flusher f goes on from j to k: with another tenant, with the columns of
\* this one, or not at all.
GoesOn(f, j, k) ==
  \/ k.stage = "inserting" /\ k.batch # {} /\ k.last = j.last
  \/ k.stage = "deriving" /\ k.derive # {} /\ k.last = j.last
  \/ /\ k.batch = {} /\ k.derive = {} /\ k.last = FALSE
     /\ k.stage = IF f = "loop" /\ ~j.last THEN "waiting" ELSE "returned"

LEMMA FlushGoesOn ==
  ASSUME NEW f \in Flushers, NEW j \in Flush, NEW i \in Flush, i.last = j.last,
         i.stage = IF i.derive = {} THEN "inserting" ELSE "deriving"
  PROVE  /\ Continue(f, i) \in Flush /\ Continue(f, i).batch = i.batch
         /\ Continue(f, i).derive = i.derive /\ GoesOn(f, j, Continue(f, i))
<1>1. /\ Continue(f, i) \in Flush /\ Continue(f, i).batch = i.batch
      /\ Continue(f, i).derive = i.derive
  BY Continues
<1>2. i.batch # {} \/ i.derive # {} => Continue(f, i) = i
  BY Continues
<1>3. ASSUME i.batch = {}, i.derive = {}
      PROVE  /\ Continue(f, i).last = FALSE
             /\ Continue(f, i).stage = IF f = "loop" /\ ~i.last THEN "waiting" ELSE "returned"
  <2>1. Continue(f, i).last = FALSE
    BY <1>3, Continues
  <2>2. Continue(f, i).stage = IF f = "loop" /\ ~i.last THEN "waiting" ELSE "returned"
    BY <1>3, Continues
  <2> QED BY <2>1, <2>2
<1>4. GoesOn(f, j, Continue(f, i))
  BY <1>1, <1>2, <1>3, Zenon DEF GoesOn
<1> QED BY <1>1, <1>4

\* The events of one tenant and of the others make up the batch.
LEMMA BatchSplits ==
  ASSUME NEW r \in Replicas, NEW f \in Flushers, NEW t, IsFiniteSet(flush[r][f].batch)
  PROVE  /\ IsFiniteSet(Batched(r, f, t)) /\ IsFiniteSet(Rest(r, f, t))
         /\ Cardinality(Batched(r, f, t)) \in Nat /\ Cardinality(Rest(r, f, t)) \in Nat
         /\ Cardinality(flush[r][f].batch) = Cardinality(Batched(r, f, t)) + Cardinality(Rest(r, f, t))
<1>1. /\ Batched(r, f, t) \subseteq flush[r][f].batch
      /\ Rest(r, f, t) \subseteq flush[r][f].batch
      /\ Batched(r, f, t) \cap Rest(r, f, t) = {}
      /\ flush[r][f].batch = Batched(r, f, t) \cup Rest(r, f, t)
  BY DEF Batched, Rest
<1>2. IsFiniteSet(Batched(r, f, t)) /\ IsFiniteSet(Rest(r, f, t))
  BY <1>1, FS_Subset
<1>3. Cardinality(Batched(r, f, t)) \in Nat /\ Cardinality(Rest(r, f, t)) \in Nat
  BY <1>2, FS_CardinalityType
<1>4. Cardinality({}) = 0
  BY FS_EmptySet
<1>5. Cardinality(Batched(r, f, t) \cup Rest(r, f, t))
        = Cardinality(Batched(r, f, t)) + Cardinality(Rest(r, f, t))
          - Cardinality(Batched(r, f, t) \cap Rest(r, f, t))
  BY <1>2, FS_Union
<1>6. Cardinality(flush[r][f].batch) = Cardinality(Batched(r, f, t) \cup Rest(r, f, t))
  BY <1>1
<1>7. Cardinality(Batched(r, f, t) \cap Rest(r, f, t)) = 0
  BY <1>1, <1>4
<1> QED BY <1>2, <1>3, <1>5, <1>6, <1>7

\* One tenant's turn: its events leave the batch, counted as flushed or failed,
\* and columns are derived only from events that were inserted.
LEMMA InsertStep ==
  ASSUME TrackTypeOK, BatchInv, NEW r \in Replicas, NEW f \in Flushers, NEW t,
         InsertEvents(r, f, t)
  PROVE  \E k \in Flush :
           /\ flush[r][f].stage = "inserting"
           /\ flush' = [flush EXCEPT ![r][f] = k]
           /\ k.batch = Rest(r, f, t)
           /\ \A e \in k.derive : e \in events' /\ ~e.bot /\ e.kind \in Derived
           /\ GoesOn(f, flush[r][f], k)
           /\ stats' \in [Replicas -> [flushed : Nat, dropped : Nat, failed : Nat]]
           /\ stats'[r].dropped = stats[r].dropped
           /\ stats'[r].flushed + stats'[r].failed
                = stats[r].flushed + stats[r].failed + Cardinality(Batched(r, f, t))
           /\ \A q \in Replicas \ {r} : stats'[q] = stats[q]
           /\ events \subseteq events' /\ events' \subseteq Event
           /\ outages' \in 0..MaxOutages
<1> DEFINE j == flush[r][f]
           b == Batched(r, f, t)
           n == Cardinality(b)
<1>0. /\ j \in Flush /\ events \subseteq Event /\ outages \in 0..MaxOutages
      /\ stats \in [Replicas -> [flushed : Nat, dropped : Nat, failed : Nat]]
      /\ j.batch \in SUBSET Event
  BY DEF TrackTypeOK, Flush
<1>1. n \in Nat
  BY BatchSplits DEF BatchInv
<1>2. b \in SUBSET Event /\ Rest(r, f, t) \in SUBSET Event
  BY <1>0 DEF Batched, Rest
<1>3. j.stage = "inserting"
  BY DEF InsertEvents
<1>4. ASSUME NEW D \in SUBSET Event,
             flush' = [flush EXCEPT ![r][f] = Continue(f, [j EXCEPT !.batch = Rest(r, f, t), !.derive = D,
                         !.stage = IF D = {} THEN @ ELSE "deriving"])]
      PROVE  \E k \in Flush :
               /\ flush' = [flush EXCEPT ![r][f] = k]
               /\ k.batch = Rest(r, f, t) /\ k.derive = D /\ GoesOn(f, j, k)
  <2> DEFINE to == [j EXCEPT !.batch = Rest(r, f, t), !.derive = D,
                             !.stage = IF D = {} THEN @ ELSE "deriving"]
  <2>1. /\ to \in Flush /\ to.batch = Rest(r, f, t) /\ to.derive = D /\ to.last = j.last
        /\ to.stage = IF D = {} THEN "inserting" ELSE "deriving"
    <3> HIDE DEF j
    <3> QED BY <1>0, <1>2, <1>3 DEF Flush
  <2>2. PICK i \in Flush :
          /\ i = to /\ i.batch = Rest(r, f, t) /\ i.derive = D /\ i.last = j.last
          /\ i.stage = IF D = {} THEN "inserting" ELSE "deriving"
    BY <2>1
  <2>3. flush' = [flush EXCEPT ![r][f] = Continue(f, i)]
    BY <1>4, <2>2, Zenon
  <2> HIDE DEF j, to
  <2>4. /\ Continue(f, i) \in Flush /\ Continue(f, i).batch = i.batch
        /\ Continue(f, i).derive = i.derive /\ GoesOn(f, j, Continue(f, i))
    BY <1>0, <2>2, FlushGoesOn
  <2> QED BY <2>2, <2>3, <2>4, Zenon
<1>5. CASE /\ events' = events \cup b
           /\ stats' = [stats EXCEPT ![r].flushed = @ + n]
           /\ flush' = [flush EXCEPT ![r][f] = Continue(f, [j EXCEPT !.batch = Rest(r, f, t),
                          !.derive = Derivable(b), !.stage = IF Derivable(b) = {} THEN @ ELSE "deriving"])]
           /\ UNCHANGED outages
  <2>1. Derivable(b) \in SUBSET Event
    BY <1>2 DEF Derivable
  <2>2. PICK k \in Flush :
               /\ flush' = [flush EXCEPT ![r][f] = k]
               /\ k.batch = Rest(r, f, t) /\ k.derive = Derivable(b) /\ GoesOn(f, j, k)
    BY <1>4, <1>5, <2>1
  <2>3. \A e \in k.derive : e \in events' /\ ~e.bot /\ e.kind \in Derived
    BY <1>5, <2>2 DEF Derivable
  <2>4. /\ stats' \in [Replicas -> [flushed : Nat, dropped : Nat, failed : Nat]]
        /\ stats'[r].dropped = stats[r].dropped
        /\ stats'[r].flushed = stats[r].flushed + n /\ stats'[r].failed = stats[r].failed
        /\ stats[r].flushed \in Nat /\ stats[r].failed \in Nat
        /\ \A q \in Replicas \ {r} : stats'[q] = stats[q]
    <3> HIDE DEF n
    <3> QED BY <1>0, <1>1, <1>5
  <2>5. stats'[r].flushed + stats'[r].failed = stats[r].flushed + stats[r].failed + n
    <3> HIDE DEF n
    <3> QED BY <1>1, <2>4
  <2>6. events \subseteq events' /\ events' \subseteq Event /\ outages' \in 0..MaxOutages
    BY <1>0, <1>2, <1>5
  <2> QED BY <1>3, <2>2, <2>3, <2>4, <2>5, <2>6
<1>6. CASE /\ Outage
           /\ stats' = [stats EXCEPT ![r].failed = @ + n]
           /\ flush' = [flush EXCEPT ![r][f] = Continue(f, [j EXCEPT !.batch = Rest(r, f, t),
                          !.derive = {}, !.stage = IF {} = {} THEN @ ELSE "deriving"])]
           /\ UNCHANGED events
  <2>2. PICK k \in Flush :
               /\ flush' = [flush EXCEPT ![r][f] = k]
               /\ k.batch = Rest(r, f, t) /\ k.derive = {} /\ GoesOn(f, j, k)
    BY <1>4, <1>6
  <2>4. /\ stats' \in [Replicas -> [flushed : Nat, dropped : Nat, failed : Nat]]
        /\ stats'[r].dropped = stats[r].dropped
        /\ stats'[r].flushed = stats[r].flushed /\ stats'[r].failed = stats[r].failed + n
        /\ stats[r].flushed \in Nat /\ stats[r].failed \in Nat
        /\ \A q \in Replicas \ {r} : stats'[q] = stats[q]
    <3> HIDE DEF n
    <3> QED BY <1>0, <1>1, <1>6
  <2>5. stats'[r].flushed + stats'[r].failed = stats[r].flushed + stats[r].failed + n
    <3> HIDE DEF n
    <3> QED BY <1>1, <2>4
  <2>6. events \subseteq events' /\ events' \subseteq Event /\ outages' \in 0..MaxOutages
    BY <1>0, <1>6 DEF Outage
  <2> QED BY <1>3, <2>2, <2>4, <2>5, <2>6
<1> QED BY <1>5, <1>6 DEF InsertEvents, DeriveAfterFailure
\* The events whose columns a flush derives are stored, of a derived kind and not
\* a bot's, and a flush is only deriving while it has some.
DerivedFromStored ==
  \A r \in Replicas, f \in Flushers :
    /\ \A e \in flush[r][f].derive : e \in events /\ ~e.bot /\ e.kind \in Derived
    /\ flush[r][f].stage = "deriving" => flush[r][f].derive # {}

\* Some events have an earliest one.
LEMMA EarliestIs ==
  ASSUME NEW S \in SUBSET Event, S # {}
  PROVE  Earliest(S) \in S
<1> DEFINE stamps == {e.at : e \in S}
<1>1. stamps \in SUBSET Nat /\ stamps # {}
  BY DEF Event
<1>2. PICK m \in stamps : \A n \in stamps : m <= n
  BY <1>1, SmallestOf
<1>3. PICK x \in S : x.at = m
  OBVIOUS
<1>4. \A o \in S : x.at <= o.at
  BY <1>2, <1>3
<1> QED BY <1>4 DEF Earliest

\* One call of a setter: the batch stays, and a column can only get the stamp of
\* an event that the flush has stored.
LEMMA DeriveStep ==
  ASSUME TrackTypeOK, DerivedFromStored, NEW r \in Replicas, NEW f \in Flushers,
         DeriveFirst(r, f)
  PROVE  \E k \in Flush, e \in flush[r][f].derive :
           /\ flush[r][f].stage = "deriving"
           /\ flush' = [flush EXCEPT ![r][f] = k]
           /\ k.batch = flush[r][f].batch
           /\ k.derive \subseteq flush[r][f].derive
           /\ GoesOn(f, flush[r][f], k)
           /\ \/ firsts' = firsts
              \/ firsts' = [firsts EXCEPT ![e.delivery][e.kind] = SetFirst(@, e.at)]
           /\ outages' \in 0..MaxOutages
<1> DEFINE j == flush[r][f]
           e == Earliest(j.derive)
           left == {o \in j.derive : o.kind # e.kind \/ o.delivery # e.delivery}
           to == [j EXCEPT !.derive = left, !.stage = IF left = {} THEN "inserting" ELSE @]
<1>0. j \in Flush /\ outages \in 0..MaxOutages /\ j.derive \in SUBSET Event
  BY DEF TrackTypeOK, Flush
<1>1. /\ j.stage = "deriving"
      /\ flush' = [flush EXCEPT ![r][f] = Continue(f, to)]
      /\ \/ firsts' = firsts
         \/ firsts' = [firsts EXCEPT ![e.delivery][e.kind] = SetFirst(@, e.at)]
      /\ outages' = outages \/ Outage
  BY DEF DeriveFirst
<1>2. e \in j.derive
  BY <1>0, <1>1, EarliestIs DEF DerivedFromStored
<1>3. left \subseteq j.derive
  OBVIOUS
<1> HIDE DEF e, left, j
<1>4. /\ to \in Flush /\ to.batch = j.batch /\ to.derive = left /\ to.last = j.last
      /\ to.stage = IF left = {} THEN "inserting" ELSE "deriving"
  BY <1>0, <1>1, <1>3 DEF Flush
<1>5. PICK i \in Flush :
        /\ i = to /\ i.batch = j.batch /\ i.derive = left /\ i.last = j.last
        /\ i.stage = IF left = {} THEN "inserting" ELSE "deriving"
  BY <1>4
<1>6. flush' = [flush EXCEPT ![r][f] = Continue(f, i)]
  BY <1>1, <1>5, Zenon
<1> HIDE DEF to
<1>7. /\ Continue(f, i) \in Flush /\ Continue(f, i).batch = i.batch
      /\ Continue(f, i).derive = i.derive /\ GoesOn(f, j, Continue(f, i))
  BY <1>0, <1>5, FlushGoesOn
<1>8. outages' \in 0..MaxOutages
  BY <1>0, <1>1 DEF Outage
<1>9. Continue(f, i).batch = j.batch /\ Continue(f, i).derive \subseteq j.derive
  BY <1>3, <1>5, <1>7
<1> QED BY <1>1, <1>2, <1>6, <1>7, <1>8, <1>9, Zenon DEF j
\* The buffer is taken whole, and the flush is over at once when it was empty.
LEMMA SwapStep ==
  ASSUME NEW r \in Replicas, buf[r] \in SUBSET Event, NEW last \in BOOLEAN,
         NEW s \in {"waiting", "returned"}
  PROVE  /\ Swapped(r, last, s) \in Flush
         /\ Swapped(r, last, s).batch = buf[r] /\ Swapped(r, last, s).derive = {}
         /\ buf[r] = {} => Swapped(r, last, s).stage = s /\ Swapped(r, last, s).last = FALSE
         /\ buf[r] # {} => Swapped(r, last, s).stage = "inserting" /\ Swapped(r, last, s).last = last
<1>1. Swapped(r, last, s) \in Flush
  BY FlushMoves
<1>2. CASE buf[r] = {}
  BY <1>1, <1>2 DEF Swapped, Off
<1>3. CASE buf[r] # {}
  BY <1>1, <1>3 DEF Swapped
<1> QED BY <1>2, <1>3

-----------------------------------------------------------------------------
(* The end of a replica's buffer.                                          *)

Resting == {"off", "waiting", "stopping", "returned"}

\* From the loop's last swap, and from Close to its return.  After that swap only a
\* loop that its context ended sees more events; Close waits for the loop that it
\* found, and otherwise takes the buffer itself.
Ending(l, loop, close, b) ==
  /\ l.closed <=> close.stage # "off"
  /\ l.started <=> loop.stage # "off"
  /\ l.joined => l.started
  /\ loop.stage \in Resting => loop.batch = {} /\ ~loop.last
  /\ close.stage \in Resting => close.batch = {} /\ ~close.last
  /\ loop.stage = "returned" \/ loop.last =>
       /\ l.cancelled \/ l.closed
       /\ \A e \in b : l.cancelled /\ e.at > l.ended
  /\ close.stage = "waiting" => l.joined
  /\ close.stage = "stopping" => ~l.joined
  /\ close.stage \in {"inserting", "deriving"} => b = {} /\ ~l.joined
  /\ close.stage = "returned" => b = {} \/ l.joined
  /\ close.stage = "returned" /\ l.joined => loop.stage = "returned"

\* Ending, of every replica.
EndingInv ==
  \A r \in Replicas : Ending(life[r], flush[r]["loop"], flush[r]["close"], buf[r])

CloseInv == EndingInv /\ \A r \in Replicas : life[r].ended <= clock

\* The inductive invariant.
TrackInv ==
  /\ TrackTypeOK
  /\ BufferInv
  /\ BatchInv
  /\ CloseInv
  /\ DerivedFromStored
  /\ EveryEventCounted
  /\ FirstsHaveEvents
-----------------------------------------------------------------------------
(* Every action keeps it.                                                  *)

\* The sizes the ledger adds up are numbers.
LEMMA Sizes ==
  ASSUME TrackTypeOK, BufferInv, BatchInv
  PROVE  \A r \in Replicas :
           /\ Cardinality(buf[r]) \in Nat
           /\ \A f \in Flushers : Cardinality(flush[r][f].batch) \in Nat
           /\ stats[r].flushed \in Nat /\ stats[r].dropped \in Nat /\ stats[r].failed \in Nat
           /\ recorded[r] \in Nat
<1>1. \A r \in Replicas : Cardinality(buf[r]) \in Nat
  BY FS_CardinalityType DEF BufferInv
<1>2. \A r \in Replicas, f \in Flushers : Cardinality(flush[r][f].batch) \in Nat
  BY FS_CardinalityType DEF BatchInv
<1>3. \A r \in Replicas :
         /\ stats[r].flushed \in Nat /\ stats[r].dropped \in Nat /\ stats[r].failed \in Nat
         /\ recorded[r] \in Nat
  BY DEF TrackTypeOK
<1> QED BY <1>1, <1>2, <1>3

\* Initially.
LEMMA InitTracks == TrackInit => TrackInv
<1> SUFFICES ASSUME TrackInit PROVE TrackInv
  OBVIOUS
<1> USE DEF TrackInit
<1>0. IsFiniteSet({}) /\ Cardinality({}) = 0
  BY FS_EmptySet
<1>f. /\ Off \in Flush /\ Off.stage = "off" /\ Off.batch = {} /\ Off.derive = {} /\ Off.last = FALSE
  BY FlushType DEF Off
<1>g. \A r \in Replicas : buf[r] = {} /\ \A f \in Flushers : flush[r][f] = Off
  OBVIOUS
<1>1. TrackTypeOK
  <2>1. MaxBuffer \in Nat /\ MaxRecords \in Nat /\ MaxOutages \in Nat
    OBVIOUS
  <2>2. \A r \in Replicas : Cardinality(buf[r]) <= MaxBuffer
    BY <1>0, <1>g, <2>1
  <2>3. flush \in [Replicas -> [Flushers -> Flush]]
    BY <1>f
  <2>4. clock \in 0..MaxRecords /\ outages \in 0..MaxOutages
    BY <2>1
  <2>5. life \in [Replicas -> Life]
    BY DEF Life
  <2>6. /\ stats \in [Replicas -> [flushed : Nat, dropped : Nat, failed : Nat]]
        /\ recorded \in [Replicas -> Nat]
        /\ firsts \in [Deliveries -> [Derived -> Nat]]
    OBVIOUS
  <2>7. buf \in [Replicas -> SUBSET Event]
    OBVIOUS
  <2> QED BY <2>2, <2>3, <2>4, <2>5, <2>6, <2>7 DEF TrackTypeOK
<1>2. BufferInv
  BY <1>0, <1>g DEF BufferInv
<1>3. BatchInv
  BY <1>0, <1>f, <1>g DEF BatchInv
<1>4. CloseInv
  <2>1. \A r \in Replicas : /\ ~life[r].closed /\ ~life[r].started /\ ~life[r].cancelled
                            /\ ~life[r].joined /\ life[r].ended <= clock
    OBVIOUS
  <2>2. EndingInv
    BY <1>f, <1>g, <2>1 DEF EndingInv, Ending, Flushers, Resting
  <2> QED BY <2>1, <2>2 DEF CloseInv
<1>5. DerivedFromStored
  BY <1>f, <1>g DEF DerivedFromStored
<1>6. EveryEventCounted
  <2>1. \A r \in Replicas : /\ stats[r].flushed = 0 /\ stats[r].dropped = 0 /\ stats[r].failed = 0
                            /\ recorded[r] = 0
    OBVIOUS
  <2>2. \A r \in Replicas : Cardinality(buf[r]) = 0
    BY <1>0, <1>g
  <2>3. \A r \in Replicas, f \in Flushers : Cardinality(flush[r][f].batch) = 0
    BY <1>0, <1>f, <1>g
  <2>4. \A r \in Replicas : InFlight(r) = 0
    BY <2>3 DEF InFlight, Flushers
  <2> QED BY <2>1, <2>2, <2>4 DEF EveryEventCounted
<1>7. FirstsHaveEvents
  BY DEF FirstsHaveEvents
<1> QED BY <1>1, <1>2, <1>3, <1>4, <1>5, <1>6, <1>7 DEF TrackInv

\* A request records an event and leaves flushes and the store alone.
LEMMA RequestTracks ==
  ASSUME TrackInv, NEW r \in Replicas, NEW d \in Deliveries, NEW kind \in Kinds, NEW bot \in BOOLEAN,
         clock < MaxRecords, clock' = clock + 1,
         Record(r, [delivery |-> d, kind |-> kind, bot |-> bot, at |-> clock']),
         UNCHANGED <<life, flush, events, firsts>>,
         suppressed' \subseteq Deliveries, notified' \subseteq Deliveries,
         outages' \in 0..MaxOutages
  PROVE  TrackInv'
<1> DEFINE ev == [delivery |-> d, kind |-> kind, bot |-> bot, at |-> clock']
<1>0. TrackTypeOK /\ BufferInv /\ BatchInv /\ clock \in Nat
  BY DEF TrackInv, TrackTypeOK
<1>1. ev \in Event /\ ev.at = clock'
  BY <1>0 DEF Event
<1> HIDE DEF ev
<1>2. Record(r, ev)
  BY DEF ev
<1>3. /\ buf' \in [Replicas -> SUBSET Event]
      /\ \A q \in Replicas : Cardinality(buf'[q]) <= MaxBuffer
      /\ stats' \in [Replicas -> [flushed : Nat, dropped : Nat, failed : Nat]]
      /\ recorded' \in [Replicas -> Nat]
      /\ BufferInv'
      /\ \A q \in Replicas : life[q].closed => buf'[q] = buf[q]
      /\ buf'[r] \subseteq buf[r] \cup {ev}
  BY <1>0, <1>1, <1>2, RecordKeeps
<1>4. /\ recorded'[r] = recorded[r] + 1
      /\ Cardinality(buf'[r]) + stats'[r].dropped = Cardinality(buf[r]) + stats[r].dropped + 1
      /\ stats'[r].flushed = stats[r].flushed /\ stats'[r].failed = stats[r].failed
      /\ \A q \in Replicas \ {r} :
           buf'[q] = buf[q] /\ stats'[q] = stats[q] /\ recorded'[q] = recorded[q]
  BY <1>0, <1>1, <1>2, RecordKeeps
<1>5. TrackTypeOK'
  <2>1. clock' \in 0..MaxRecords
    BY <1>0
  <2> QED BY <1>0, <1>3, <2>1 DEF TrackTypeOK
<1>6. BatchInv'
  BY <1>0 DEF BatchInv
<1>7. CloseInv'
  <2>1. EndingInv /\ \A q \in Replicas : life[q].ended <= clock /\ life[q].ended \in Nat
    BY <1>0 DEF TrackInv, CloseInv, TrackTypeOK, Life
  <2>2. \A q \in Replicas : life[q].ended <= clock' /\ clock' > life[q].ended
    BY <1>0, <2>1
  <2>3. ASSUME NEW q \in Replicas
        PROVE  Ending(life[q], flush[q]["loop"], flush[q]["close"], buf'[q])
    <3>1. Ending(life[q], flush[q]["loop"], flush[q]["close"], buf[q])
      BY <2>1 DEF EndingInv
    <3>2. CASE buf'[q] = buf[q]
      BY <3>1, <3>2
    <3>3. CASE buf'[q] # buf[q]
      <4>1. q = r /\ ~life[q].closed
        BY <1>3, <1>4, <3>3
      <4>2. \A e \in buf'[q] : e \in buf[q] \/ e.at > life[q].ended
        BY <1>1, <1>3, <2>2, <4>1
      <4> QED BY <3>1, <4>1, <4>2 DEF Ending
    <3> QED BY <3>2, <3>3
  <2> QED BY <2>2, <2>3 DEF CloseInv, EndingInv
<1>8. DerivedFromStored' /\ FirstsHaveEvents'
  BY DEF TrackInv, DerivedFromStored, FirstsHaveEvents
<1>9. EveryEventCounted'
  <2> SUFFICES ASSUME NEW q \in Replicas
               PROVE  recorded'[q] = Cardinality(buf'[q]) + InFlight(q)'
                        + stats'[q].flushed + stats'[q].dropped + stats'[q].failed
    BY DEF EveryEventCounted
  <2>1. InFlight(q)' = InFlight(q)
    BY DEF InFlight
  <2>2. recorded[q] = Cardinality(buf[q]) + InFlight(q)
                        + stats[q].flushed + stats[q].dropped + stats[q].failed
    BY DEF TrackInv, EveryEventCounted
  <2>3. CASE q # r
    BY <1>4, <2>1, <2>2, <2>3
  <2>4. CASE q = r
    <3>1. /\ Cardinality(buf[r]) \in Nat /\ InFlight(r) \in Nat
          /\ stats[r].flushed \in Nat /\ stats[r].dropped \in Nat /\ stats[r].failed \in Nat
      BY <1>0, Sizes DEF InFlight, Flushers
    <3>2. Cardinality(buf'[r]) \in Nat /\ stats'[r].dropped \in Nat
      BY <1>3, FS_CardinalityType DEF BufferInv
    <3> QED BY <1>4, <2>1, <2>2, <2>4, <3>1, <3>2
  <2> QED BY <2>3, <2>4
<1> QED BY <1>3, <1>5, <1>6, <1>7, <1>8, <1>9 DEF TrackInv

\* Another replica's event is stored before its column is.
LEMMA PeerTracks ==
  ASSUME TrackInv, NEW d \in Deliveries, NEW kind \in Tracked \cup {"unsubscribed"}, PeerFlush(d, kind)
  PROVE  TrackInv'
<1> USE DEF PeerFlush
<1> DEFINE ev == [delivery |-> d, kind |-> kind, bot |-> FALSE, at |-> clock']
<1>0. TrackTypeOK /\ clock \in Nat /\ clock' = clock + 1 /\ clock < MaxRecords /\ kind \in Derived
  BY DEF TrackInv, TrackTypeOK, Derived
<1>1. ev \in Event
  BY <1>0 DEF Event, Derived, Kinds
<1>2. events' = events \cup {ev}
  OBVIOUS
<1>3. firsts \in [Deliveries -> [Derived -> Nat]]
  BY <1>0 DEF TrackTypeOK
<1>4. firsts' \in [Deliveries -> [Derived -> Nat]]
  BY <1>0, <1>3 DEF SetFirst
<1>5. \A c \in Deliveries, k \in Derived :
        \/ firsts'[c][k] = firsts[c][k]
        \/ c = d /\ k = kind /\ firsts'[c][k] = clock'
  BY <1>0, <1>3 DEF SetFirst
<1>6. TrackTypeOK'
  <2>1. clock' \in 0..MaxRecords /\ events' \subseteq Event
    <3> HIDE DEF ev
    <3> QED BY <1>0, <1>1, <1>2 DEF TrackTypeOK
  <2> QED BY <1>0, <1>4, <2>1 DEF TrackTypeOK
<1>7. BufferInv'
  <2>1. \A r \in Replicas : \A e \in buf[r] : e.at \in Nat
    BY <1>0 DEF TrackTypeOK, Event
  <2> QED BY <1>0, <2>1 DEF TrackInv, BufferInv
<1>8. BatchInv' /\ CloseInv' /\ EveryEventCounted'
  <2>1. \A r \in Replicas : life[r].ended <= clock /\ life[r].ended \in Nat
    BY <1>0 DEF TrackInv, CloseInv, TrackTypeOK, Life
  <2>2. \A r \in Replicas : life[r].ended <= clock'
    BY <1>0, <2>1
  <2> QED BY <2>2 DEF TrackInv, BatchInv, CloseInv, EndingInv, EveryEventCounted, InFlight
<1>9. DerivedFromStored'
  BY DEF TrackInv, DerivedFromStored
<1>10. FirstsHaveEvents'
  <2> SUFFICES ASSUME NEW c \in Deliveries, NEW k \in Derived, firsts'[c][k] # 0
               PROVE  [delivery |-> c, kind |-> k, bot |-> FALSE, at |-> firsts'[c][k]] \in events'
    BY DEF FirstsHaveEvents
  <2>1. CASE firsts'[c][k] = firsts[c][k]
    BY <1>2, <2>1 DEF TrackInv, FirstsHaveEvents
  <2>2. CASE c = d /\ k = kind /\ firsts'[c][k] = clock'
    BY <1>2, <2>2
  <2> QED BY <1>5, <2>1, <2>2
<1> QED BY <1>6, <1>7, <1>8, <1>9, <1>10 DEF TrackInv
\* A step of a flush keeps CloseInv: only a last flush ends the loop.
LEMMA ClosingGoesOn ==
  ASSUME TrackTypeOK, CloseInv, clock' = clock,
         NEW r \in Replicas, NEW f \in Flushers, NEW k \in Flush,
         flush[r][f].stage \in {"inserting", "deriving"},
         GoesOn(f, flush[r][f], k), flush'[r][f] = k,
         \A q \in Replicas, g \in Flushers : q # r \/ g # f => flush'[q][g] = flush[q][g],
         UNCHANGED <<buf, life>>
  PROVE  CloseInv'
<1> SUFFICES ASSUME NEW q \in Replicas
             PROVE  Ending(life[q], flush'[q]["loop"], flush'[q]["close"], buf[q])
  BY DEF CloseInv, EndingInv
<1>1. Ending(life[q], flush[q]["loop"], flush[q]["close"], buf[q])
  BY DEF CloseInv, EndingInv
<1>2. "loop" \in Flushers /\ "close" \in Flushers
  BY DEF Flushers
<1>3. CASE q # r
  BY <1>1, <1>2, <1>3
<1>4. CASE q = r /\ f = "loop"
  <2>1. flush'[q]["close"] = flush[q]["close"] /\ flush'[q]["loop"] = k
    BY <1>2, <1>4
  <2>3. /\ k.stage # "off"
        /\ k.stage \in Resting => k.batch = {} /\ ~k.last
        /\ k.stage = "returned" \/ k.last => flush[q]["loop"].last
    BY <1>4 DEF GoesOn, Resting, Flush
  <2>4. flush[q]["loop"].stage \in {"inserting", "deriving"}
    BY <1>4
  <2> QED BY <1>1, <2>1, <2>3, <2>4 DEF Ending, Resting
<1>5. CASE q = r /\ f = "close"
  <2>1. flush'[q]["loop"] = flush[q]["loop"] /\ flush'[q]["close"] = k
    BY <1>2, <1>5
  <2>3. /\ k.stage \in {"inserting", "deriving", "returned"}
        /\ k.stage \in Resting => k.batch = {} /\ ~k.last
    BY <1>5 DEF GoesOn, Resting, Flush
  <2>4. flush[q]["close"].stage \in {"inserting", "deriving"}
    BY <1>5
  <2> QED BY <1>1, <2>1, <2>3, <2>4 DEF Ending, Resting
<1> QED BY <1>3, <1>4, <1>5 DEF Flushers

\* One tenant's turn.
LEMMA InsertTracks ==
  ASSUME TrackInv, NEW r \in Replicas, NEW f \in Flushers, NEW t, InsertEvents(r, f, t)
  PROVE  TrackInv'
<1>0. TrackTypeOK /\ BufferInv /\ BatchInv /\ CloseInv /\ DerivedFromStored
  BY DEF TrackInv
<1>1. PICK k \in Flush :
           /\ flush[r][f].stage = "inserting"
           /\ flush' = [flush EXCEPT ![r][f] = k]
           /\ k.batch = Rest(r, f, t)
           /\ \A e \in k.derive : e \in events' /\ ~e.bot /\ e.kind \in Derived
           /\ GoesOn(f, flush[r][f], k)
           /\ stats' \in [Replicas -> [flushed : Nat, dropped : Nat, failed : Nat]]
           /\ stats'[r].dropped = stats[r].dropped
           /\ stats'[r].flushed + stats'[r].failed
                = stats[r].flushed + stats[r].failed + Cardinality(Batched(r, f, t))
           /\ \A q \in Replicas \ {r} : stats'[q] = stats[q]
           /\ events \subseteq events' /\ events' \subseteq Event
           /\ outages' \in 0..MaxOutages
  BY <1>0, InsertStep
<1>2. UNCHANGED <<clock, buf, life, firsts, suppressed, notified, recorded>>
  BY DEF InsertEvents
<1>3. /\ flush' \in [Replicas -> [Flushers -> Flush]]
      /\ flush'[r][f] = k
      /\ \A q \in Replicas, g \in Flushers : q # r \/ g # f => flush'[q][g] = flush[q][g]
  BY <1>0, <1>1, FlushUpdate DEF TrackTypeOK
<1>4. TrackTypeOK'
  BY <1>0, <1>1, <1>2, <1>3 DEF TrackTypeOK
<1>5. BufferInv'
  BY <1>0, <1>2 DEF BufferInv
<1>6. /\ IsFiniteSet(Rest(r, f, t))
      /\ Cardinality(Batched(r, f, t)) \in Nat /\ Cardinality(Rest(r, f, t)) \in Nat
      /\ Cardinality(flush[r][f].batch) = Cardinality(Batched(r, f, t)) + Cardinality(Rest(r, f, t))
  BY <1>0, BatchSplits DEF BatchInv
<1>7. BatchInv'
  BY <1>0, <1>1, <1>3, <1>6 DEF BatchInv
<1>8. CloseInv'
  BY <1>0, <1>1, <1>2, <1>3, ClosingGoesOn
<1>9. DerivedFromStored'
  <2>1. k.stage = "deriving" => k.derive # {}
    BY <1>1 DEF GoesOn
  <2> QED BY <1>0, <1>1, <1>3, <2>1 DEF DerivedFromStored
<1>10. FirstsHaveEvents'
  BY <1>1, <1>2 DEF TrackInv, FirstsHaveEvents
<1>11. EveryEventCounted'
  <2> SUFFICES ASSUME NEW q \in Replicas
               PROVE  recorded'[q] = Cardinality(buf'[q]) + InFlight(q)'
                        + stats'[q].flushed + stats'[q].dropped + stats'[q].failed
    BY DEF EveryEventCounted
  <2>2. recorded[q] = Cardinality(buf[q]) + InFlight(q)
                        + stats[q].flushed + stats[q].dropped + stats[q].failed
    BY DEF TrackInv, EveryEventCounted
  <2>3. CASE q # r
    <3>1. InFlight(q)' = InFlight(q)
      BY <1>3, <2>3 DEF InFlight, Flushers
    <3> QED BY <1>1, <1>2, <2>2, <2>3, <3>1
  <2>4. CASE q = r
    <3>1. /\ Cardinality(buf[r]) \in Nat
          /\ \A g \in Flushers : Cardinality(flush[r][g].batch) \in Nat
          /\ stats[r].flushed \in Nat /\ stats[r].dropped \in Nat /\ stats[r].failed \in Nat
      BY <1>0, Sizes
    <3>2. stats'[r].flushed \in Nat /\ stats'[r].failed \in Nat
      BY <1>1
    <3>3. Cardinality(flush'[r][f].batch) = Cardinality(flush[r][f].batch) - Cardinality(Batched(r, f, t))
      BY <1>1, <1>3, <1>6
    <3>4. /\ InFlight(r) \in Nat
          /\ InFlight(r)' = InFlight(r) - Cardinality(Batched(r, f, t))
      <4>1. CASE f = "loop"
        <5>1. flush'[r]["close"] = flush[r]["close"]
          BY <1>3, <4>1 DEF Flushers
        <5> QED BY <1>6, <3>1, <3>3, <4>1, <5>1 DEF InFlight, Flushers
      <4>2. CASE f = "close"
        <5>1. flush'[r]["loop"] = flush[r]["loop"]
          BY <1>3, <4>2 DEF Flushers
        <5> QED BY <1>6, <3>1, <3>3, <4>2, <5>1 DEF InFlight, Flushers
      <4> QED BY <4>1, <4>2 DEF Flushers
    <3>5. /\ recorded'[r] = recorded[r] /\ buf'[r] = buf[r] /\ stats'[r].dropped = stats[r].dropped
          /\ stats'[r].flushed + stats'[r].failed
                = stats[r].flushed + stats[r].failed + Cardinality(Batched(r, f, t))
      BY <1>1, <1>2
    <3> QED BY <1>6, <2>2, <2>4, <3>1, <3>2, <3>4, <3>5
  <2> QED BY <2>3, <2>4
<1> QED BY <1>4, <1>5, <1>7, <1>8, <1>9, <1>10, <1>11 DEF TrackInv

\* One call of a setter.
LEMMA DeriveTracks ==
  ASSUME TrackInv, NEW r \in Replicas, NEW f \in Flushers, DeriveFirst(r, f)
  PROVE  TrackInv'
<1>0. TrackTypeOK /\ BufferInv /\ BatchInv /\ CloseInv /\ DerivedFromStored
  BY DEF TrackInv
<1>1. PICK k \in Flush, e \in flush[r][f].derive :
           /\ flush[r][f].stage = "deriving"
           /\ flush' = [flush EXCEPT ![r][f] = k]
           /\ k.batch = flush[r][f].batch
           /\ k.derive \subseteq flush[r][f].derive
           /\ GoesOn(f, flush[r][f], k)
           /\ \/ firsts' = firsts
              \/ firsts' = [firsts EXCEPT ![e.delivery][e.kind] = SetFirst(@, e.at)]
           /\ outages' \in 0..MaxOutages
  BY <1>0, DeriveStep
<1>2. UNCHANGED <<clock, buf, life, stats, events, suppressed, notified, recorded>>
  BY DEF DeriveFirst
<1>3. /\ flush' \in [Replicas -> [Flushers -> Flush]]
      /\ flush'[r][f] = k
      /\ \A q \in Replicas, g \in Flushers : q # r \/ g # f => flush'[q][g] = flush[q][g]
  BY <1>0, <1>1, FlushUpdate DEF TrackTypeOK
<1>4. \A q \in Replicas, g \in Flushers : flush'[q][g].batch = flush[q][g].batch
  BY <1>1, <1>3
<1>5. e \in events /\ e \in Event /\ ~e.bot /\ e.kind \in Derived
  <2>1. e \in events /\ ~e.bot /\ e.kind \in Derived
    BY <1>0 DEF DerivedFromStored
  <2> QED BY <1>0, <2>1 DEF TrackTypeOK
<1>6. e = [delivery |-> e.delivery, kind |-> e.kind, bot |-> FALSE, at |-> e.at] /\ e.delivery \in Deliveries /\ e.at \in Nat
  BY <1>5 DEF Event
<1>7. firsts \in [Deliveries -> [Derived -> Nat]]
  BY <1>0 DEF TrackTypeOK
<1>8. firsts' \in [Deliveries -> [Derived -> Nat]]
  BY <1>1, <1>5, <1>6, <1>7 DEF SetFirst
<1>9. \A c \in Deliveries, m \in Derived :
        \/ firsts'[c][m] = firsts[c][m]
        \/ c = e.delivery /\ m = e.kind /\ firsts'[c][m] = e.at
  BY <1>1, <1>5, <1>6, <1>7 DEF SetFirst
<1>10. TrackTypeOK'
  BY <1>0, <1>1, <1>2, <1>3, <1>8 DEF TrackTypeOK
<1>11. BufferInv'
  BY <1>0, <1>2 DEF BufferInv
<1>12. BatchInv'
  BY <1>0, <1>4 DEF BatchInv
<1>13. CloseInv'
  BY <1>0, <1>1, <1>2, <1>3, ClosingGoesOn
<1>14. DerivedFromStored'
  <2>1. k.stage = "deriving" => k.derive # {}
    BY <1>1 DEF GoesOn
  <2> QED BY <1>0, <1>1, <1>2, <1>3, <2>1 DEF DerivedFromStored
<1>15. FirstsHaveEvents'
  <2> SUFFICES ASSUME NEW c \in Deliveries, NEW m \in Derived, firsts'[c][m] # 0
               PROVE  [delivery |-> c, kind |-> m, bot |-> FALSE, at |-> firsts'[c][m]] \in events'
    BY DEF FirstsHaveEvents
  <2>1. CASE firsts'[c][m] = firsts[c][m]
    BY <1>2, <2>1 DEF TrackInv, FirstsHaveEvents
  <2>2. CASE c = e.delivery /\ m = e.kind /\ firsts'[c][m] = e.at
    BY <1>2, <1>5, <1>6, <2>2
  <2> QED BY <1>9, <2>1, <2>2
<1>16. EveryEventCounted'
  <2>1. \A q \in Replicas : InFlight(q)' = InFlight(q)
    BY <1>4 DEF InFlight, Flushers
  <2> QED BY <1>2, <2>1 DEF TrackInv, EveryEventCounted
<1> QED BY <1>10, <1>11, <1>12, <1>13, <1>14, <1>15, <1>16 DEF TrackInv
\* A flusher that has no batch takes the buffer: events only change places.
LEMMA SwapTracks ==
  ASSUME TrackInv, NEW r \in Replicas, NEW f \in Flushers, NEW last \in BOOLEAN,
         NEW s \in {"waiting", "returned"},
         flush[r][f].stage \in Resting,
         flush' = [flush EXCEPT ![r][f] = Swapped(r, last, s)],
         buf' = [buf EXCEPT ![r] = {}],
         UNCHANGED <<clock, stats, events, firsts, suppressed, notified, outages, recorded>>,
         life' \in [Replicas -> Life],
         CloseInv'
  PROVE  TrackInv'
<1>0. TrackTypeOK /\ BufferInv /\ BatchInv /\ CloseInv /\ DerivedFromStored
  BY DEF TrackInv
<1>1. buf \in [Replicas -> SUBSET Event]
  BY <1>0 DEF TrackTypeOK
<1>2. PICK k \in Flush : k = Swapped(r, last, s) /\ k.batch = buf[r] /\ k.derive = {} /\ k.stage # "deriving"
  <2>0. buf[r] \in SUBSET Event
    BY <1>1
  <2>1. /\ Swapped(r, last, s) \in Flush
        /\ Swapped(r, last, s).batch = buf[r] /\ Swapped(r, last, s).derive = {}
    BY <2>0, SwapStep, Zenon
  <2>2. Swapped(r, last, s).stage = s \/ Swapped(r, last, s).stage = "inserting"
    <3>1. CASE buf[r] = {}
      BY <3>1 DEF Swapped, Off
    <3>2. CASE buf[r] # {}
      BY <3>2 DEF Swapped
    <3> QED BY <3>1, <3>2
  <2>3. Swapped(r, last, s).stage # "deriving"
    BY <2>2
  <2> QED BY <2>1, <2>3
<1>3. /\ flush' \in [Replicas -> [Flushers -> Flush]]
      /\ flush'[r][f] = k
      /\ \A q \in Replicas, g \in Flushers : q # r \/ g # f => flush'[q][g] = flush[q][g]
  BY <1>0, <1>2, FlushUpdate DEF TrackTypeOK
<1>4. /\ buf' \in [Replicas -> SUBSET Event] /\ buf'[r] = {}
      /\ \A q \in Replicas \ {r} : buf'[q] = buf[q]
  BY <1>1
<1>5. IsFiniteSet({}) /\ Cardinality({}) = 0
  BY FS_EmptySet
<1>6. TrackTypeOK'
  <2>1. \A q \in Replicas : Cardinality(buf'[q]) <= MaxBuffer
    <3>1. MaxBuffer \in Nat /\ Cardinality(buf'[r]) = 0
      BY <1>4, <1>5
    <3>2. \A q \in Replicas \ {r} : Cardinality(buf'[q]) <= MaxBuffer
      BY <1>0, <1>4 DEF TrackTypeOK
    <3> QED BY <3>1, <3>2
  <2> QED BY <1>0, <1>3, <1>4, <2>1 DEF TrackTypeOK
<1>7. BufferInv'
  BY <1>0, <1>4, <1>5 DEF BufferInv
<1>8. BatchInv'
  BY <1>0, <1>2, <1>3 DEF BatchInv, BufferInv
<1>9. DerivedFromStored'
  BY <1>0, <1>2, <1>3 DEF DerivedFromStored
<1>10. FirstsHaveEvents'
  BY DEF TrackInv, FirstsHaveEvents
<1>11. EveryEventCounted'
  <2> SUFFICES ASSUME NEW q \in Replicas
               PROVE  recorded[q] = Cardinality(buf'[q]) + InFlight(q)'
                        + stats[q].flushed + stats[q].dropped + stats[q].failed
    BY DEF EveryEventCounted
  <2>2. recorded[q] = Cardinality(buf[q]) + InFlight(q)
                        + stats[q].flushed + stats[q].dropped + stats[q].failed
    BY DEF TrackInv, EveryEventCounted
  <2>3. CASE q # r
    <3>1. InFlight(q)' = InFlight(q)
      BY <1>3, <2>3 DEF InFlight, Flushers
    <3> QED BY <1>4, <2>2, <2>3, <3>1
  <2>4. CASE q = r
    <3>1. /\ Cardinality(buf[r]) \in Nat
          /\ \A g \in Flushers : Cardinality(flush[r][g].batch) \in Nat
          /\ stats[r].flushed \in Nat /\ stats[r].dropped \in Nat /\ stats[r].failed \in Nat
      BY <1>0, Sizes
    <3>2. Cardinality(flush[r][f].batch) = 0 /\ Cardinality(buf'[r]) = 0
      <4>1. Ending(life[r], flush[r]["loop"], flush[r]["close"], buf[r])
        BY <1>0 DEF CloseInv, EndingInv
      <4>2. CASE f = "loop"
        BY <1>4, <1>5, <4>1, <4>2 DEF Ending
      <4>3. CASE f = "close"
        BY <1>4, <1>5, <4>1, <4>3 DEF Ending
      <4> QED BY <4>2, <4>3 DEF Flushers
    <3>3. Cardinality(flush'[r][f].batch) = Cardinality(buf[r])
      BY <1>2, <1>3
    <3>4. InFlight(r)' = InFlight(r) + Cardinality(buf[r])
      <4>1. CASE f = "loop"
        <5>1. flush'[r]["close"] = flush[r]["close"]
          BY <1>3, <4>1 DEF Flushers
        <5> QED BY <3>1, <3>2, <3>3, <4>1, <5>1 DEF InFlight, Flushers
      <4>2. CASE f = "close"
        <5>1. flush'[r]["loop"] = flush[r]["loop"]
          BY <1>3, <4>2 DEF Flushers
        <5> QED BY <3>1, <3>2, <3>3, <4>2, <5>1 DEF InFlight, Flushers
      <4> QED BY <4>1, <4>2 DEF Flushers
    <3>5. InFlight(r) \in Nat
      BY <3>1 DEF InFlight, Flushers
    <3> QED BY <2>2, <2>4, <3>1, <3>2, <3>4, <3>5
  <2> QED BY <2>3, <2>4
<1> QED BY <1>6, <1>7, <1>8, <1>9, <1>10, <1>11 DEF TrackInv

\* The flush keeps its batch and starts to derive nothing.
SameWork(j, k) ==
  /\ k.batch = j.batch
  /\ k.derive \subseteq j.derive
  /\ k.stage = "deriving" => k.derive # {} \/ k = j

\* A step that moves no event: batches and buffers stay as they are.
LEMMA QuietTracks ==
  ASSUME TrackInv,
         UNCHANGED <<clock, buf, stats, events, firsts, suppressed, notified, outages, recorded>>,
         life' \in [Replicas -> Life],
         flush' \in [Replicas -> [Flushers -> Flush]],
         \A r \in Replicas, f \in Flushers : SameWork(flush[r][f], flush'[r][f]),
         CloseInv'
  PROVE  TrackInv'
<1>1. TrackTypeOK'
  BY DEF TrackInv, TrackTypeOK
<1>2. BufferInv' /\ BatchInv'
  BY DEF TrackInv, BufferInv, BatchInv, SameWork
<1>3. DerivedFromStored' /\ FirstsHaveEvents'
  BY DEF TrackInv, DerivedFromStored, FirstsHaveEvents, SameWork
<1>4. EveryEventCounted'
  <2>1. \A r \in Replicas : InFlight(r)' = InFlight(r)
    BY DEF InFlight, Flushers, SameWork
  <2> QED BY <2>1 DEF TrackInv, EveryEventCounted
<1> QED BY <1>1, <1>2, <1>3, <1>4 DEF TrackInv
\* The loop takes the buffer, for the last time once stop or its context ended.
LEMMA LoopFlushTracks ==
  ASSUME TrackInv, NEW r \in Replicas, NEW last \in BOOLEAN, LoopFlush(r, last)
  PROVE  TrackInv'
<1> DEFINE s == IF last THEN "returned" ELSE "waiting"
<1>0. TrackTypeOK /\ CloseInv /\ "loop" \in Flushers /\ "close" \in Flushers /\ s \in {"waiting", "returned"}
  BY DEF TrackInv, Flushers
<1>1. /\ flush[r]["loop"].stage = "waiting"
      /\ last => life[r].cancelled \/ flush[r]["close"].stage # "off"
      /\ flush' = [flush EXCEPT ![r]["loop"] = Swapped(r, last, s)]
      /\ buf' = [buf EXCEPT ![r] = {}]
      /\ life' = IF last THEN [life EXCEPT ![r].ended = clock] ELSE life
      /\ UNCHANGED <<clock, stats, events, firsts, suppressed, notified, outages, recorded>>
  BY DEF LoopFlush, Over
<1> HIDE DEF s
<1>2. buf \in [Replicas -> SUBSET Event] /\ flush \in [Replicas -> [Flushers -> Flush]]
  BY <1>0 DEF TrackTypeOK
<1>3. PICK k \in Flush :
        /\ k = Swapped(r, last, s) /\ k.batch = buf[r]
        /\ buf[r] = {} => k.stage = s /\ k.last = FALSE
        /\ buf[r] # {} => k.stage = "inserting" /\ k.last = last
  <2>0. buf[r] \in SUBSET Event
    BY <1>2
  <2>1. Swapped(r, last, s) \in Flush /\ Swapped(r, last, s).batch = buf[r]
    BY <1>0, <2>0, SwapStep
  <2>2. buf[r] = {} => Swapped(r, last, s).stage = s /\ Swapped(r, last, s).last = FALSE
    BY <1>0, <2>0, SwapStep, Zenon
  <2>3. buf[r] # {} => Swapped(r, last, s).stage = "inserting" /\ Swapped(r, last, s).last = last
    BY <1>0, <2>0, SwapStep, Zenon
  <2> QED BY <2>1, <2>2, <2>3, Zenon
<1>4. /\ flush'[r]["loop"] = k /\ flush'[r]["close"] = flush[r]["close"]
      /\ \A q \in Replicas \ {r} : flush'[q] = flush[q] /\ buf'[q] = buf[q]
      /\ buf'[r] = {}
  BY <1>0, <1>1, <1>2, <1>3
<1>4a. /\ life' \in [Replicas -> Life]
       /\ life'[r].started = life[r].started /\ life'[r].closed = life[r].closed
       /\ life'[r].cancelled = life[r].cancelled /\ life'[r].joined = life[r].joined
       /\ \A q \in Replicas \ {r} : life'[q] = life[q]
       /\ \A q \in Replicas : life'[q].ended <= clock
  <2>1. life \in [Replicas -> Life] /\ clock \in Nat /\ \A q \in Replicas : life[q].ended <= clock
    BY <1>0 DEF TrackTypeOK, CloseInv
  <2>2. CASE last
    <3>1. life' = [life EXCEPT ![r].ended = clock]
      BY <1>1, <2>2
    <3> QED BY <2>1, <3>1 DEF Life
  <2>3. CASE ~last
    <3>1. life' = life
      BY <1>1, <2>3
    <3> QED BY <2>1, <3>1
  <2> QED BY <2>2, <2>3
<1>5. Ending(life'[r], k, flush[r]["close"], {})
  <2>1. Ending(life[r], flush[r]["loop"], flush[r]["close"], buf[r])
    BY <1>0 DEF CloseInv, EndingInv
  <2>2. CASE buf[r] = {}
    BY <1>1, <1>3, <1>4a, <2>1, <2>2 DEF Ending, Resting, s
  <2>3. CASE buf[r] # {}
    BY <1>1, <1>3, <1>4a, <2>1, <2>3 DEF Ending, Resting
  <2> QED BY <2>2, <2>3
<1>6. CloseInv'
  <2>1. ASSUME NEW q \in Replicas
        PROVE  Ending(life'[q], flush'[q]["loop"], flush'[q]["close"], buf'[q])
    <3>1. CASE q = r
      BY <1>1, <1>4, <1>4a, <1>5, <3>1
    <3>2. CASE q # r
      <4>1. /\ life'[q] = life[q] /\ flush'[q] = flush[q] /\ buf'[q] = buf[q]
            /\ Ending(life[q], flush[q]["loop"], flush[q]["close"], buf[q])
        BY <1>0, <1>1, <1>4, <1>4a, <1>5, <3>2 DEF CloseInv, EndingInv
      <4> QED BY <4>1
    <3> QED BY <3>1, <3>2
  <2>2. EndingInv'
    BY <2>1 DEF EndingInv
  <2>3. \A q \in Replicas : life'[q].ended <= clock'
    BY <1>1, <1>4a
  <2> QED BY <2>2, <2>3 DEF CloseInv
<1>7. flush[r]["loop"].stage \in Resting /\ life' \in [Replicas -> Life]
  BY <1>1, <1>4a DEF Resting
<1> QED BY <1>0, <1>1, <1>6, <1>7, SwapTracks

\* Close stops the recording, and finds the loop or not.
LEMMA CloseTracks ==
  ASSUME TrackInv, NEW r \in Replicas, Close(r)
  PROVE  TrackInv'
<1> DEFINE s == IF life[r].started THEN "waiting" ELSE "stopping"
<1>0. TrackTypeOK /\ CloseInv /\ "loop" \in Flushers /\ "close" \in Flushers
  BY DEF TrackInv, Flushers
<1>1. /\ flush[r]["close"].stage = "off"
      /\ life' = [life EXCEPT ![r].closed = TRUE, ![r].joined = life[r].started]
      /\ flush' = [flush EXCEPT ![r]["close"].stage = s]
      /\ UNCHANGED <<clock, buf, stats, events, firsts, suppressed, notified, outages, recorded>>
  BY DEF Close
<1>2. /\ buf \in [Replicas -> SUBSET Event] /\ flush \in [Replicas -> [Flushers -> Flush]]
      /\ life \in [Replicas -> Life] /\ \A q \in Replicas : life[q].ended <= clock
  BY <1>0 DEF TrackTypeOK, CloseInv
<1>3. /\ life' \in [Replicas -> Life]
      /\ life'[r].closed /\ life'[r].started = life[r].started
      /\ life'[r].joined = life[r].started /\ life'[r].cancelled = life[r].cancelled
      /\ life'[r].ended = life[r].ended
      /\ \A q \in Replicas \ {r} : life'[q] = life[q]
  BY <1>1, <1>2 DEF Life
<1>4. Ending(life[r], flush[r]["loop"], flush[r]["close"], buf[r])
  BY <1>0 DEF CloseInv, EndingInv
<1>5. s \in {"waiting", "stopping"} /\ (s = "waiting" <=> life[r].started)
  OBVIOUS
<1> HIDE DEF s
<1> DEFINE k == [flush[r]["close"] EXCEPT !.stage = s]
<1>6. /\ k \in Flush /\ k.stage = s /\ k.batch = flush[r]["close"].batch
      /\ k.derive = flush[r]["close"].derive /\ k.last = flush[r]["close"].last
  <2>1. PICK c \in Flush : c = flush[r]["close"]
    BY <1>0, <1>2
  <2>2. LET i == [c EXCEPT !.stage = s]
        IN  /\ i \in Flush /\ i.stage = s /\ i.batch = c.batch
            /\ i.derive = c.derive /\ i.last = c.last
    BY <1>5 DEF Flush
  <2> QED BY <2>1, <2>2
<1>7. flush' = [flush EXCEPT ![r]["close"] = k]
  BY <1>0, <1>1, <1>2
<1> HIDE DEF k
<1>8. /\ flush' \in [Replicas -> [Flushers -> Flush]]
      /\ flush'[r]["close"] = k /\ flush'[r]["loop"] = flush[r]["loop"]
      /\ \A q \in Replicas \ {r} : flush'[q] = flush[q]
  BY <1>0, <1>2, <1>6, <1>7
<1>9. Ending(life'[r], flush[r]["loop"], k, buf[r])
  <2>1. k.batch = {} /\ ~k.last
    BY <1>1, <1>4, <1>6 DEF Ending, Resting
  <2>2. CASE life[r].started
    BY <1>3, <1>4, <1>5, <1>6, <2>1, <2>2 DEF Ending, Resting
  <2>3. CASE ~life[r].started
    BY <1>3, <1>4, <1>5, <1>6, <2>1, <2>3 DEF Ending, Resting
  <2> QED BY <2>2, <2>3
<1>10. CloseInv'
  <2>1. ASSUME NEW q \in Replicas
        PROVE  Ending(life'[q], flush'[q]["loop"], flush'[q]["close"], buf'[q])
    <3>1. CASE q = r
      BY <1>1, <1>3, <1>8, <1>9, <3>1
    <3>2. CASE q # r
      <4>1. /\ life'[q] = life[q] /\ flush'[q] = flush[q] /\ buf'[q] = buf[q]
            /\ Ending(life[q], flush[q]["loop"], flush[q]["close"], buf[q])
        BY <1>0, <1>1, <1>3, <1>8, <1>9, <3>2 DEF CloseInv, EndingInv
      <4> QED BY <4>1
    <3> QED BY <3>1, <3>2
  <2>2. EndingInv'
    BY <2>1 DEF EndingInv
  <2>3. \A q \in Replicas : life'[q].ended <= clock'
    BY <1>1, <1>2, <1>3
  <2> QED BY <2>2, <2>3 DEF CloseInv
<1>11. ASSUME NEW q \in Replicas, NEW g \in Flushers
       PROVE  SameWork(flush[q][g], flush'[q][g])
  <2>1. CASE q = r /\ g = "close"
    BY <1>5, <1>6, <1>8, <2>1 DEF SameWork
  <2>2. CASE q # r \/ g = "loop"
    BY <1>8, <2>2, Zenon DEF SameWork
  <2> QED BY <2>1, <2>2 DEF Flushers
<1> QED BY <1>1, <1>3, <1>8, <1>10, <1>11, QuietTracks

\* A Close that found no loop takes the buffer itself.
LEMMA FinalFlushTracks ==
  ASSUME TrackInv, NEW r \in Replicas, FinalFlush(r)
  PROVE  TrackInv'
<1>0. TrackTypeOK /\ CloseInv /\ "loop" \in Flushers /\ "close" \in Flushers
  BY DEF TrackInv, Flushers
<1>1. /\ flush[r]["close"].stage = "stopping"
      /\ flush' = [flush EXCEPT ![r]["close"] = Swapped(r, TRUE, "returned")]
      /\ buf' = [buf EXCEPT ![r] = {}]
      /\ UNCHANGED <<clock, life, stats, events, firsts, suppressed, notified, outages, recorded>>
  BY DEF FinalFlush
<1>2. /\ buf \in [Replicas -> SUBSET Event] /\ flush \in [Replicas -> [Flushers -> Flush]]
      /\ life' \in [Replicas -> Life]
  BY <1>0, <1>1 DEF TrackTypeOK
<1>3. PICK k \in Flush :
        /\ k = Swapped(r, TRUE, "returned") /\ k.batch = buf[r]
        /\ buf[r] = {} => k.stage = "returned" /\ k.last = FALSE
        /\ buf[r] # {} => k.stage = "inserting"
  <2>1. /\ Swapped(r, TRUE, "returned") \in Flush /\ Swapped(r, TRUE, "returned").batch = buf[r]
        /\ buf[r] = {} => Swapped(r, TRUE, "returned").stage = "returned" /\ Swapped(r, TRUE, "returned").last = FALSE
        /\ buf[r] # {} => Swapped(r, TRUE, "returned").stage = "inserting"
    BY <1>2, SwapStep
  <2> QED BY <2>1
<1>4. /\ flush'[r]["close"] = k /\ flush'[r]["loop"] = flush[r]["loop"]
      /\ \A q \in Replicas \ {r} : flush'[q] = flush[q] /\ buf'[q] = buf[q]
      /\ buf'[r] = {}
  BY <1>0, <1>1, <1>2, <1>3
<1>5. Ending(life[r], flush[r]["loop"], flush[r]["close"], buf[r])
  BY <1>0 DEF CloseInv, EndingInv
<1>6. Ending(life[r], flush[r]["loop"], k, {})
  <2>1. CASE buf[r] = {}
    BY <1>1, <1>3, <1>5, <2>1 DEF Ending, Resting
  <2>2. CASE buf[r] # {}
    BY <1>1, <1>3, <1>5, <2>2 DEF Ending, Resting
  <2> QED BY <2>1, <2>2
<1>7. CloseInv'
  BY <1>0, <1>1, <1>4, <1>6 DEF CloseInv, EndingInv
<1>8. flush[r]["close"].stage \in Resting
  BY <1>1 DEF Resting
<1> QED BY <1>0, <1>1, <1>2, <1>7, <1>8, SwapTracks

\* The loop starts, its context ends, and Close sees the loop gone.
LEMMA LifeTracks ==
  ASSUME TrackInv, NEW r \in Replicas, Start(r) \/ Cancel(r) \/ LoopDone(r)
  PROVE  TrackInv'
<1>0. TrackTypeOK /\ CloseInv /\ "loop" \in Flushers /\ "close" \in Flushers
  BY DEF TrackInv, Flushers
<1>1. UNCHANGED <<clock, buf, stats, events, firsts, suppressed, notified, outages, recorded>>
  BY DEF Start, Cancel, LoopDone
<1>2. /\ buf \in [Replicas -> SUBSET Event] /\ flush \in [Replicas -> [Flushers -> Flush]]
      /\ life \in [Replicas -> Life]
  BY <1>0 DEF TrackTypeOK
<1>3. /\ Ending(life[r], flush[r]["loop"], flush[r]["close"], buf[r])
      /\ \A q \in Replicas : life[q].ended <= clock
  BY <1>0 DEF CloseInv, EndingInv
<1>4. CASE Start(r)
  <2> DEFINE k == [Off EXCEPT !.stage = "waiting"]
  <2>1. /\ ~life[r].started /\ life' = [life EXCEPT ![r].started = TRUE]
        /\ flush' = [flush EXCEPT ![r]["loop"] = k]
    BY <1>4 DEF Start
  <2>2. k \in Flush /\ k.stage = "waiting" /\ k.batch = {} /\ k.derive = {} /\ k.last = FALSE
    BY FlushType DEF Off
  <2> HIDE DEF k
  <2>3. /\ flush' \in [Replicas -> [Flushers -> Flush]]
        /\ flush'[r]["loop"] = k /\ flush'[r]["close"] = flush[r]["close"]
        /\ \A q \in Replicas \ {r} : flush'[q] = flush[q]
    BY <1>0, <1>2, <2>1, <2>2
  <2>4. /\ life' \in [Replicas -> Life]
        /\ life'[r].started /\ life'[r].closed = life[r].closed /\ life'[r].cancelled = life[r].cancelled
        /\ life'[r].joined = life[r].joined /\ life'[r].ended = life[r].ended
        /\ \A q \in Replicas \ {r} : life'[q] = life[q]
    BY <1>2, <2>1 DEF Life
  <2>5. Ending(life'[r], k, flush[r]["close"], buf[r])
    BY <1>3, <2>1, <2>2, <2>4 DEF Ending, Resting
  <2>6. CloseInv'
    BY <1>0, <1>1, <1>3, <2>3, <2>4, <2>5 DEF CloseInv, EndingInv
  <2>7. flush[r]["loop"].batch = {}
    BY <1>3, <2>1 DEF Ending, Resting
  <2>8. ASSUME NEW q \in Replicas, NEW g \in Flushers
        PROVE  SameWork(flush[q][g], flush'[q][g])
    <3>1. CASE q = r /\ g = "loop"
      BY <2>2, <2>3, <2>7, <3>1 DEF SameWork
    <3>2. CASE q # r \/ g = "close"
      BY <2>3, <3>2, Zenon DEF SameWork
    <3> QED BY <3>1, <3>2 DEF Flushers
  <2> QED BY <1>1, <2>3, <2>4, <2>6, <2>8, QuietTracks
<1>5. CASE Cancel(r)
  <2>1. life' = [life EXCEPT ![r].cancelled = TRUE] /\ flush' = flush
    BY <1>5 DEF Cancel
  <2>2. /\ life' \in [Replicas -> Life]
        /\ life'[r].started = life[r].started /\ life'[r].closed = life[r].closed /\ life'[r].cancelled
        /\ life'[r].joined = life[r].joined /\ life'[r].ended = life[r].ended
        /\ \A q \in Replicas \ {r} : life'[q] = life[q]
    BY <1>2, <2>1 DEF Life
  <2>3. Ending(life'[r], flush[r]["loop"], flush[r]["close"], buf[r])
    BY <1>3, <2>2 DEF Ending
  <2>4. CloseInv'
    BY <1>0, <1>1, <1>3, <2>1, <2>2, <2>3 DEF CloseInv, EndingInv
  <2>5. \A q \in Replicas, g \in Flushers : SameWork(flush[q][g], flush'[q][g])
    BY <2>1 DEF SameWork
  <2> QED BY <1>1, <1>2, <2>1, <2>2, <2>4, <2>5, QuietTracks
<1>6. CASE LoopDone(r)
  <2> DEFINE k == [flush[r]["close"] EXCEPT !.stage = "returned"]
  <2>1. /\ flush[r]["close"].stage = "waiting" /\ flush[r]["loop"].stage = "returned"
        /\ flush' = [flush EXCEPT ![r]["close"].stage = "returned"] /\ life' = life
    BY <1>6 DEF LoopDone
  <2>2. /\ k \in Flush /\ k.stage = "returned" /\ k.batch = flush[r]["close"].batch
        /\ k.derive = flush[r]["close"].derive /\ k.last = flush[r]["close"].last
    <3>1. PICK c \in Flush : c = flush[r]["close"]
      BY <1>0, <1>2
    <3>2. LET i == [c EXCEPT !.stage = "returned"]
          IN  /\ i \in Flush /\ i.stage = "returned" /\ i.batch = c.batch
              /\ i.derive = c.derive /\ i.last = c.last
      BY DEF Flush
    <3> QED BY <3>1, <3>2
  <2>3. flush' = [flush EXCEPT ![r]["close"] = k]
    BY <1>0, <1>2, <2>1
  <2> HIDE DEF k
  <2>4. /\ flush' \in [Replicas -> [Flushers -> Flush]]
        /\ flush'[r]["close"] = k /\ flush'[r]["loop"] = flush[r]["loop"]
        /\ \A q \in Replicas \ {r} : flush'[q] = flush[q]
    BY <1>0, <1>2, <2>2, <2>3
  <2>5. Ending(life[r], flush[r]["loop"], k, buf[r])
    BY <1>3, <2>1, <2>2 DEF Ending, Resting
  <2>6. CloseInv'
    BY <1>0, <1>1, <1>3, <2>1, <2>4, <2>5 DEF CloseInv, EndingInv
  <2>7. ASSUME NEW q \in Replicas, NEW g \in Flushers
        PROVE  SameWork(flush[q][g], flush'[q][g])
    <3>1. CASE q = r /\ g = "close"
      BY <2>2, <2>4, <3>1 DEF SameWork
    <3>2. CASE q # r \/ g = "loop"
      BY <2>4, <3>2, Zenon DEF SameWork
    <3> QED BY <3>1, <3>2 DEF Flushers
  <2> QED BY <1>1, <1>2, <2>1, <2>4, <2>6, <2>7, QuietTracks
<1> QED BY <1>4, <1>5, <1>6

\* Every step of the buffer and its flushers keeps the inductive invariant.
LEMMA NextTracks == TrackInv /\ [TrackNext]_trackVars => TrackInv'
<1> SUFFICES ASSUME TrackInv, [TrackNext]_trackVars PROVE TrackInv'
  OBVIOUS
<1>0. TrackTypeOK /\ "loop" \in Flushers /\ "close" \in Flushers
  BY DEF TrackInv, Flushers
<1>1. ASSUME NEW r \in Replicas, NEW d \in Deliveries, NEW kind \in Kinds, NEW bot \in BOOLEAN,
             Track(r, d, kind, bot)
      PROVE  TrackInv'
  <2>1. suppressed' \subseteq Deliveries /\ notified' \subseteq Deliveries /\ outages' \in 0..MaxOutages
    BY <1>0, <1>1 DEF Track, TrackTypeOK
  <2>2. /\ clock < MaxRecords /\ clock' = clock + 1
        /\ Record(r, [delivery |-> d, kind |-> kind, bot |-> bot, at |-> clock'])
        /\ UNCHANGED <<life, flush, events, firsts>>
    BY <1>1 DEF Track
  <2> QED BY <2>1, <2>2, RequestTracks
<1>2. ASSUME NEW r \in Replicas, NEW d \in Deliveries, OneClickUnsubscribe(r, d)
      PROVE  TrackInv'
  <2>1. suppressed' \subseteq Deliveries /\ notified' \subseteq Deliveries
    BY <1>0, <1>2 DEF OneClickUnsubscribe, TrackTypeOK
  <2>2. outages' \in 0..MaxOutages
    BY <1>0, <1>2 DEF OneClickUnsubscribe, TrackTypeOK, Outage
  <2>3. /\ clock < MaxRecords /\ clock' = clock + 1
        /\ Record(r, [delivery |-> d, kind |-> "unsubscribed", bot |-> FALSE, at |-> clock'])
        /\ UNCHANGED <<life, flush, events, firsts>>
        /\ "unsubscribed" \in Kinds /\ FALSE \in BOOLEAN
    BY <1>2 DEF OneClickUnsubscribe, Kinds
  <2> QED BY <2>1, <2>2, <2>3, RequestTracks
<1>3. ASSUME NEW r \in Replicas, NEW f \in Flushers, FlushStep(r, f)
      PROVE  TrackInv'
  <2>1. ASSUME NEW d \in Deliveries, InsertEvents(r, f, TenantOf[d]) PROVE TrackInv'
    BY <2>1, InsertTracks
  <2>2. CASE DeriveFirst(r, f)
    BY <2>2, DeriveTracks
  <2> QED BY <1>3, <2>1, <2>2 DEF FlushStep
<1>4. ASSUME NEW r \in Replicas, Loop(r) PROVE TrackInv'
  BY <1>0, <1>3, <1>4, LoopFlushTracks DEF Loop
<1>5. ASSUME NEW r \in Replicas, Closing(r) PROVE TrackInv'
  BY <1>0, <1>3, <1>5, FinalFlushTracks, LifeTracks DEF Closing
<1>6. CASE UNCHANGED trackVars
  <2>1. CloseInv'
    BY <1>6 DEF TrackInv, CloseInv, EndingInv, trackVars
  <2>2. /\ UNCHANGED <<clock, buf, stats, events, firsts, suppressed, notified, outages, recorded>>
        /\ life' = life /\ flush' = flush
    BY <1>6 DEF trackVars
  <2>3. /\ life' \in [Replicas -> Life]
        /\ flush' \in [Replicas -> [Flushers -> Flush]]
    BY <1>0, <2>2 DEF TrackTypeOK
  <2>4. \A r \in Replicas, f \in Flushers : SameWork(flush[r][f], flush'[r][f])
    BY <2>2 DEF SameWork
  <2> QED BY <2>1, <2>2, <2>3, <2>4, QuietTracks
<1>7. CASE TrackNext
  BY <1>1, <1>2, <1>4, <1>5, <1>6, <1>7, PeerTracks, LifeTracks, CloseTracks DEF TrackNext, Stopped
<1> QED BY <1>6, <1>7

\* The inductive invariant holds of every behaviour of the tracking buffer.
THEOREM TrackingInvariant == TrackSpec => []TrackInv
BY InitTracks, NextTracks, PTL DEF TrackSpec

\* Buffers stay within MaxBuffer and every value in its type, for any number of
\* replicas, deliveries and requests.
THEOREM TrackTypeCorrect == TrackSpec => []TrackTypeOK
<1>1. TrackInv => TrackTypeOK
  BY DEF TrackInv
<1> QED BY <1>1, TrackingInvariant, PTL

\* No event disappears uncounted (Record, flush).
THEOREM NoEventDisappears == TrackSpec => []EveryEventCounted
<1>1. TrackInv => EveryEventCounted
  BY DEF TrackInv
<1> QED BY <1>1, TrackingInvariant, PTL

\* A first-interaction column is backed by a stored event (deriveFirsts).
THEOREM ColumnsAreBacked == TrackSpec => []FirstsHaveEvents
<1>1. TrackInv => FirstsHaveEvents
  BY DEF TrackInv
<1> QED BY <1>1, TrackingInvariant, PTL

\* What a Close that returned leaves behind, whatever start, cancelled context or
\* request raced it (Close, finalFlush, loop).
THEOREM CloseLeavesLittle == TrackSpec => []CloseFlushes
<1>1. TrackInv => CloseFlushes
  <2> SUFFICES ASSUME TrackInv, NEW r \in Replicas, flush[r]["close"].stage = "returned"
               PROVE  /\ \A e \in buf[r] : life[r].joined /\ life[r].cancelled /\ e.at > life[r].ended
                      /\ flush[r]["close"].batch = {}
                      /\ life[r].joined => flush[r]["loop"].batch = {}
    BY DEF CloseFlushes
  <2>1. Ending(life[r], flush[r]["loop"], flush[r]["close"], buf[r])
    BY DEF TrackInv, CloseInv, EndingInv
  <2> QED BY <2>1 DEF Ending, Resting
<1> QED BY <1>1, TrackingInvariant, PTL
=============================================================================
