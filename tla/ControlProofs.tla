--------------------------- MODULE ControlProofs ---------------------------
(***************************************************************************)
(* Proofs about the control plane: the election of the leader that runs    *)
(* its loops (LeaderLease), for any number of replicas, any ttl and any    *)
(* number of faults, and what those loops and the API calls do to a        *)
(* campaign (CampaignLifecycle), for any number of recipients, handlers,   *)
(* loops and calls.                                                        *)
(***************************************************************************)
EXTENDS LeaderLease, CampaignLifecycle, Counting

-----------------------------------------------------------------------------
(* The leader's lease.                                                     *)

\* While nothing is late or lost, a running loop is covered by its replica's
\* own lease, with time left until the next renewal.
Covered(r) ==
  /\ lock.owner = r
  /\ lock.left > 0
  /\ pc[r] = "leading" => lock.left > renewIn[r]

CoveredWriters ==
  (faults = MaxFaults /\ \A r \in Replicas : skew[r] = 0)
    => \A r \in Writers : Covered(r)

LeaseInv == LeaseTypeOK /\ CoveredWriters

\* Every step of LeaderLease keeps its variables well typed.
LEMMA LeaseTypeStep == LeaseTypeOK /\ [LeaseNext]_leaseVars => LeaseTypeOK'
<1> SUFFICES ASSUME LeaseTypeOK, [LeaseNext]_leaseVars PROVE LeaseTypeOK'
  OBVIOUS
<1> USE LeaseAssumption
<1>0. /\ Free \in [owner : Replicas \cup {NoOwner}, left : Nat]
      /\ \A r \in Replicas : Held(r) \in [owner : Replicas \cup {NoOwner}, left : Nat]
  BY DEF LeaseTypeOK, Free, Held
<1>1. ASSUME NEW r \in Replicas, ReplicaStep(r) PROVE LeaseTypeOK'
  BY <1>0, <1>1 DEF ReplicaStep, LeaseTypeOK, Acquire, AcquireReplyLost, Renew, LeaseLost,
     RenewFails, Shutdown, LoopsStopped, Release, Released, ReleaseFails, Crash, Fault
<1>2. CASE Tick
  <2>1. lock' \in [owner : Replicas \cup {NoOwner}, left : Nat]
    BY <1>2 DEF Tick, LeaseTypeOK
  <2>2. renewIn' \in [Replicas -> Nat] /\ faults' \in 0..MaxFaults
    BY <1>2 DEF Tick, LeaseTypeOK, Fault
  <2> QED
    BY <1>2, <2>1, <2>2 DEF Tick, LeaseTypeOK
<1>3. CASE UNCHANGED leaseVars
  BY <1>3 DEF leaseVars, LeaseTypeOK
<1> QED
  BY <1>1, <1>2, <1>3 DEF LeaseNext

\* The covering of the writers is inductive.
LEMMA CoveredStep == LeaseInv /\ [LeaseNext]_leaseVars => CoveredWriters'
<1> SUFFICES ASSUME LeaseInv, [LeaseNext]_leaseVars,
                    faults' = MaxFaults,
                    \A r \in Replicas : skew'[r] = 0,
                    NEW r \in Writers'
             PROVE  Covered(r)'
  BY DEF CoveredWriters
<1> USE LeaseAssumption
<1>1. r \in Replicas /\ pc'[r] \in {"leading", "stopping"}
  BY DEF Writers
<1>2. LeaseTypeOK
  BY DEF LeaseInv
<1>3. skew' = skew
  BY DEF LeaseNext, ReplicaStep, Acquire, AcquireReplyLost, Renew, LeaseLost, RenewFails,
     Shutdown, LoopsStopped, Release, ReleaseFails, Crash, Tick, leaseVars
<1>4. ~Fault
  BY <1>2 DEF Fault, LeaseTypeOK
<1>5. faults = MaxFaults
  BY <1>4 DEF LeaseNext, ReplicaStep, Acquire, AcquireReplyLost, Renew, LeaseLost, RenewFails,
     Shutdown, LoopsStopped, Release, ReleaseFails, Crash, Tick, leaseVars
<1>6. \A s \in Writers : Covered(s)
  BY <1>3, <1>5 DEF LeaseInv, CoveredWriters
<1>7. ASSUME NEW s \in Replicas, ReplicaStep(s) PROVE Covered(r)'
  <2>1. CASE Acquire(s)
    <3>1. lock' = [owner |-> s, left |-> TTL] /\ renewIn'[s] = RenewEvery
      BY <1>2, <1>3, <2>1 DEF Acquire, Held, LeaseTypeOK
    <3>2. r = s
      <4>1. SUFFICES ASSUME r # s PROVE FALSE
        OBVIOUS
      <4>2. r \in Writers
        BY <1>1, <1>2, <2>1, <4>1 DEF Acquire, Writers, LeaseTypeOK
      <4>3. lock.owner = r /\ lock.left > 0
        BY <1>6, <4>2 DEF Covered
      <4> QED
        BY <1>1, <1>2, <1>3, <2>1, <4>1, <4>3 DEF Acquire, Acquirable, LeaseTypeOK
    <3> QED
      BY <3>1, <3>2 DEF Covered
  <2>2. CASE Renew(s)
    <3>1. lock' = [owner |-> s, left |-> TTL] /\ renewIn'[s] = RenewEvery /\ lock.owner = s
      BY <1>2, <1>3, <2>2 DEF Renew, Renewable, Held, LeaseTypeOK
    <3>2. r \in Writers
      BY <1>1, <2>2 DEF Renew, Writers
    <3>3. r = s
      BY <1>6, <3>1, <3>2 DEF Covered
    <3> QED
      BY <3>1, <3>3 DEF Covered
  <2>3. CASE LeaseLost(s) \/ Shutdown(s) \/ LoopsStopped(s)
    <3>1. r \in Writers /\ (pc'[r] = "leading" => pc[r] = "leading")
      BY <1>1, <1>2, <2>3 DEF LeaseLost, Shutdown, LoopsStopped, Writers, LeaseTypeOK
    <3> QED
      BY <1>6, <2>3, <3>1 DEF LeaseLost, Shutdown, LoopsStopped, Covered
  <2>4. CASE Release(s)
    <3>1. r \in Writers /\ pc'[r] = pc[r] /\ r # s
      BY <1>1, <1>2, <2>4 DEF Release, Writers, LeaseTypeOK
    <3>2. lock' = lock /\ renewIn' = renewIn
      BY <1>6, <2>4, <3>1 DEF Release, Released, Covered
    <3> QED
      BY <1>6, <3>1, <3>2 DEF Covered
  <2> QED
    BY <1>4, <1>7, <2>1, <2>2, <2>3, <2>4 DEF ReplicaStep, AcquireReplyLost, RenewFails,
       ReleaseFails, Crash
<1>8. CASE Tick
  <2>1. ~Late(r) /\ r \in Writers /\ pc' = pc
    BY <1>1, <1>4, <1>8 DEF Tick, Writers
  <2>2. Covered(r)
    BY <1>6, <2>1
  <2>3. lock'.owner = lock.owner /\ lock'.left = lock.left - 1 /\ lock.left \in Nat
    BY <1>2, <1>8, <2>2 DEF Tick, LeaseTypeOK, Covered
  <2>4. pc[r] = "leading" => renewIn[r] > 0 /\ renewIn'[r] = renewIn[r] - 1
    BY <1>1, <1>2, <1>8, <2>1 DEF Tick, Late, LeaseTypeOK
  <2>5. pc[r] = "stopping" => lock.left > 1
    BY <2>1, <2>3 DEF Late
  <2>6. renewIn[r] \in Nat
    BY <1>1, <1>2 DEF LeaseTypeOK
  <2> QED
    BY <1>1, <2>1, <2>2, <2>3, <2>4, <2>5, <2>6 DEF Covered
<1>9. CASE UNCHANGED leaseVars
  BY <1>1, <1>6, <1>9 DEF leaseVars, Writers, Covered
<1> QED
  BY <1>7, <1>8, <1>9 DEF LeaseNext

\* The initial state satisfies the invariant: nobody leads.
LEMMA LeaseStarts == LeaseInit => LeaseInv
  BY LeaseAssumption DEF LeaseInit, LeaseInv, LeaseTypeOK, CoveredWriters, Writers, Free

LEMMA LeaseInvariant == LeaseSpec => []LeaseInv
<1>1. LeaseInv /\ [LeaseNext]_leaseVars => LeaseInv'
  BY LeaseTypeStep, CoveredStep DEF LeaseInv
<1> QED
  BY <1>1, LeaseStarts, PTL DEF LeaseSpec

\* The control leader's state is well typed.
THEOREM LeaseTypeCorrect == LeaseSpec => []LeaseTypeOK
<1>1. LeaseInv => LeaseTypeOK
  BY DEF LeaseInv
<1> QED
  BY <1>1, LeaseInvariant, PTL

\* Without a late or lost call and with equal clocks the loops run on one
\* replica at a time (Leader.hold, LockRepo.Acquire and Renew).
THEOREM LeaseExcludes == LeaseSpec => []OverlapNeedsFault
<1>1. LeaseInv => OverlapNeedsFault
  BY DEF LeaseInv, CoveredWriters, OverlapNeedsFault, OneWriter, Covered, Writers
<1> QED
  BY <1>1, LeaseInvariant, PTL

\* A live lease is only ever given up by its owner's Release, whatever late
\* calls former leaders make and however the clocks differ (up to MaxSkew).
THEOREM LeaseIsNotStolen == LeaseSpec => LeaseNotStolen
<1>1. LeaseTypeOK /\ [LeaseNext]_leaseVars => HandoverStep
  <2> SUFFICES ASSUME LeaseTypeOK, [LeaseNext]_leaseVars, NEW r \in Replicas,
                      lock.owner = r, lock.left > MaxSkew, lock'.owner # r
               PROVE  pc[r] = "releasing" /\ pc'[r] = "idle"
    BY DEF HandoverStep
  <2> USE LeaseAssumption
  <2>1. ASSUME NEW s \in Replicas, ReplicaStep(s) PROVE s = r /\ Release(s)
    <3>1. lock.left > skew[s] /\ lock.left \in Nat /\ skew[s] \in Nat
      BY DEF LeaseTypeOK
    <3>2. CASE Acquire(s) \/ AcquireReplyLost(s)
      BY <3>1, <3>2 DEF Acquire, AcquireReplyLost, Acquirable, Held
    <3>3. CASE Renew(s) \/ RenewFails(s)
      BY <3>3 DEF Renew, RenewFails, Renewable, Held
    <3>4. CASE Release(s)
      BY <3>4 DEF Release, Released
    <3> QED
      BY <2>1, <3>2, <3>3, <3>4 DEF ReplicaStep, LeaseLost, Shutdown, LoopsStopped,
         ReleaseFails, Crash
  <2>2. ~Tick /\ ~UNCHANGED leaseVars
    BY DEF Tick, leaseVars, LeaseTypeOK
  <2> QED
    BY <2>1, <2>2 DEF LeaseNext, Release, LeaseTypeOK
<1> QED
  BY <1>1, LeaseTypeCorrect, PTL DEF LeaseSpec, LeaseNotStolen

-----------------------------------------------------------------------------
(* The campaign.                                                           *)

Started == {"running", "paused", "completed"}

\* The status an operation writes, given the one it read.
Target(op, from) ==
  CASE op \in {"start", "promote", "resume", "retry"} -> "running"
    [] op = "schedule" -> "scheduled"
    [] op = "pause" -> "paused"
    [] op = "cancel" -> "cancelled"
    [] op = "finalize" -> "completed"
    [] OTHER -> from

\* What a call's struct says about the row it read.
WantOK(op, seen, want) ==
  /\ seen.status \in From(op)
  /\ want.version <= seen.version
  /\ want.status = Target(op, seen.status)
  /\ op \in {"start", "promote"} => want.content # 0
  /\ op \notin {"start", "promote", "edit"} => want.content = seen.content

\* Replacing one column of a campaign keeps it a campaign.
LEMMA CampaignFields ==
  ASSUME NEW c \in Campaign
  PROVE  /\ \A s \in CampaignStatuses : [c EXCEPT !.status = s] \in Campaign
         /\ \A v \in Nat : /\ [c EXCEPT !.content = v] \in Campaign
                           /\ [c EXCEPT !.stats = v] \in Campaign
                           /\ [c EXCEPT !.version = v] \in Campaign
         /\ \A b \in BOOLEAN : [c EXCEPT !.due = b] \in Campaign
  BY DEF Campaign

\* Every struct an operation writes back is a campaign that differs from the
\* row it read as WantOK says.
LEMMA ChangedOK ==
  ASSUME NEW op \in ApiOperations \cup LoopOperations, NEW c \in Campaign,
         published \in Nat, c.status \in From(op), Ready(op, c),
         NEW want \in Changed(op, c)
  PROVE  want \in Campaign /\ WantOK(op, c, want)
<1>0. Resolved(c) \in Nat /\ c.version <= c.version
  BY DEF Resolved, Campaign
<1>1. CASE op \in {"start", "promote"}
  <2> DEFINE a == [c EXCEPT !.status = "running"]
  <2>1. a \in Campaign /\ a.version = c.version /\ a.status = "running"
    BY CampaignFields DEF Campaign, CampaignStatuses
  <2>2. want = [a EXCEPT !.content = Resolved(c)]
    <3> DEFINE S == {[c EXCEPT !.status = "running", !.content = Resolved(c)]}
    <3>1. Changed("start", c) = S /\ Changed("promote", c) = S
      BY DEF Changed
    <3> QED
      BY <1>1, <3>1
  <2>3. want \in Campaign /\ want.version = a.version /\ want.status = a.status
        /\ want.content = Resolved(c)
    <3> HIDE DEF a
    <3> QED
      BY <1>0, <2>1, <2>2, CampaignFields DEF Campaign
  <2> QED
    BY <1>0, <1>1, <2>1, <2>3 DEF WantOK, Target, Ready
<1>2. CASE op = "schedule"
  <2> DEFINE a == [c EXCEPT !.status = "scheduled"]
  <2>1. a \in Campaign /\ a.version = c.version /\ a.status = "scheduled" /\ a.content = c.content
    BY CampaignFields DEF Campaign, CampaignStatuses
  <2>2. want = [a EXCEPT !.due = FALSE]
    BY <1>2 DEF Changed
  <2>3. want \in Campaign /\ want.version = a.version /\ want.status = a.status
        /\ want.content = a.content
    <3> HIDE DEF a
    <3> QED
      BY <2>1, <2>2, CampaignFields DEF Campaign
  <2> QED
    BY <1>0, <1>2, <2>1, <2>3 DEF WantOK, Target
<1>3. CASE op = "edit"
  <2> DEFINE Edited == {[c EXCEPT !.content = e[1], !.due = e[2]] :
                          e \in (0..published) \X BOOLEAN}
  <2>0. Changed("edit", c) = Edited \cup {[c EXCEPT !.version = 0]}
    BY DEF Changed
  <2>1. CASE want \in Edited
    <3>1. PICK e \in (0..published) \X BOOLEAN :
            want = [c EXCEPT !.content = e[1], !.due = e[2]]
      BY <2>1
    <3> DEFINE a == [c EXCEPT !.content = e[1]]
    <3>2. a \in Campaign /\ a.version = c.version /\ a.status = c.status
      BY CampaignFields DEF Campaign
    <3>3. want = [a EXCEPT !.due = e[2]] /\ e[2] \in BOOLEAN
      BY <3>1
    <3>4. want \in Campaign /\ want.version = a.version /\ want.status = a.status
      <4> HIDE DEF a
      <4> QED
        BY <3>2, <3>3, CampaignFields DEF Campaign
    <3> QED
      BY <1>3, <3>2, <3>4 DEF WantOK, Target, Campaign
  <2>2. CASE want = [c EXCEPT !.version = 0]
    <3>1. want \in Campaign /\ want.version = 0 /\ want.status = c.status
      BY <2>2, CampaignFields DEF Campaign
    <3> QED
      BY <1>3, <3>1 DEF WantOK, Target, Campaign
  <2> QED
    BY <1>3, <2>0, <2>1, <2>2
<1>4. CASE op \in {"pause", "resume", "retry", "cancel", "finalize"}
  <2> DEFINE s == Target(op, c.status)
  <2>1. s \in CampaignStatuses
    BY <1>4 DEF Target, CampaignStatuses
  <2>2. want = [c EXCEPT !.status = s]
    <3>1. /\ Changed("pause", c) = {[c EXCEPT !.status = "paused"]}
          /\ Changed("resume", c) = {[c EXCEPT !.status = "running"]}
          /\ Changed("retry", c) = {[c EXCEPT !.status = "running"]}
          /\ Changed("cancel", c) = {[c EXCEPT !.status = "cancelled"]}
          /\ Changed("finalize", c) = {[c EXCEPT !.status = "completed"]}
      BY DEF Changed
    <3> QED
      BY <1>4, <3>1 DEF Target
  <2>3. want \in Campaign /\ want.version = c.version /\ want.status = s
        /\ want.content = c.content
    <3> HIDE DEF s
    <3> QED
      BY <2>1, <2>2, CampaignFields DEF Campaign
  <2> QED
    BY <1>0, <1>4, <2>3 DEF WantOK
<1>5. CASE op \in {"delete", "ingest", "refresh"}
  BY <1>0, <1>5 DEF Changed, WantOK, Target
<1> QED
  BY <1>1, <1>2, <1>3, <1>4, <1>5 DEF ApiOperations, LoopOperations

-----------------------------------------------------------------------------

Steps == {"update", "requeue", "count", "stats", "event"}

\* Replacing one field of a call keeps it a call and the other fields.
LEMMA CallFields ==
  ASSUME NEW k \in Call
  PROVE  /\ \A s \in Steps : LET n == [k EXCEPT !.step = s]
                             IN n \in Call /\ n.step = s /\ n.op = k.op /\ n.seen = k.seen
                                /\ n.want = k.want /\ n.chunks = k.chunks /\ n.done = k.done
         /\ \A b \in BOOLEAN : LET n == [k EXCEPT !.done = b]
                               IN n \in Call /\ n.step = k.step /\ n.op = k.op
                                  /\ n.seen = k.seen /\ n.want = k.want /\ n.done = b
         /\ \A w \in Campaign : LET n == [k EXCEPT !.want = w]
                               IN n \in Call /\ n.step = k.step /\ n.op = k.op
                                  /\ n.seen = k.seen /\ n.want = w /\ n.done = k.done
         /\ \A i \in Nat : LET n == [k EXCEPT !.chunks = i]
                           IN n \in Call /\ n.step = k.step /\ n.op = k.op
                              /\ n.seen = k.seen /\ n.want = k.want /\ n.done = k.done
  BY DEF Call, Steps

\* The finalizer's count only touches the step, the verdict and the counts.
LEMMA CountedOK ==
  ASSUME TypeOK, NEW k \in Call
  PROVE  /\ Counted(k) \in Call
         /\ Counted(k).step = "stats"
         /\ Counted(k).op = k.op
         /\ Counted(k).seen = k.seen
         /\ Counted(k).done = (Total # {} /\ InFlight = {})
         /\ Counted(k).want.version = k.want.version
         /\ Counted(k).want.status = k.want.status
         /\ Counted(k).want.content = k.want.content
<1> DEFINE n == Cardinality(InFlight)
           v == (Total # {} /\ InFlight = {})
           w == [k.want EXCEPT !.stats = n]
           k1 == [k EXCEPT !.step = "stats"]
           k2 == [k1 EXCEPT !.done = v]
           k3 == [k2 EXCEPT !.want = w]
<1>1. n \in Nat
  BY LifecycleAssumption, FS_Subset, FS_CardinalityType DEF InFlight
<1>2. w \in Campaign /\ w.version = k.want.version /\ w.status = k.want.status
      /\ w.content = k.want.content
  <2>1. k.want \in Campaign
    BY DEF Call
  <2> HIDE DEF n
  <2> QED
    BY <1>1, <2>1, CampaignFields DEF Campaign
<1>3. v \in BOOLEAN
  OBVIOUS
<1>4. k1 \in Call /\ k1.step = "stats" /\ k1.op = k.op /\ k1.seen = k.seen /\ k1.want = k.want
  BY CallFields DEF Steps
<1>5. k2 \in Call /\ k2.step = "stats" /\ k2.op = k.op /\ k2.seen = k.seen /\ k2.want = k.want
      /\ k2.done = v
  <2> HIDE DEF v, k1
  <2> QED
    BY <1>3, <1>4, CallFields
<1>6. k3 \in Call /\ k3.step = "stats" /\ k3.op = k.op /\ k3.seen = k.seen /\ k3.want = w
      /\ k3.done = v
  <2> HIDE DEF v, w, k2
  <2> QED
    BY <1>2, <1>5, CallFields
<1>7. Counted(k) = k3
  BY <1>4, <1>5 DEF Counted
<1> HIDE DEF w, k3, n
<1> QED
  BY <1>2, <1>6, <1>7

-----------------------------------------------------------------------------

Agents == Callers \cup Loops

\* A call that has just read the campaign.
Begun(c) ==
  /\ calls[c] = NoCall
  /\ calls'[c] \in Call
  /\ calls'[c].op \in OperationsOf(c)
  /\ calls'[c].step = FirstStep(calls'[c].op)
  /\ calls'[c].seen = cam
  /\ WantOK(calls'[c].op, cam, calls'[c].want)
  /\ ~calls'[c].done
  /\ cam' = cam
  /\ rows' = rows

\* A call that went on to its next step.
Advanced(c) ==
  /\ calls[c] \in Call /\ calls[c] # NoCall
  /\ calls'[c] \in Call
  /\ calls'[c].op = calls[c].op
  /\ calls'[c].seen = calls[c].seen
  /\ calls'[c].want.version = calls[c].want.version
  /\ calls'[c].want.status = calls[c].want.status
  /\ calls'[c].want.content = calls[c].want.content
  /\ \/ /\ calls[c].step = "requeue" /\ calls[c].op = "retry"
        /\ \/ calls'[c].step = "requeue"
           \/ calls'[c].step = "update" /\ calls[c].seen.status = "completed"
     \/ /\ calls[c].step = "count" /\ calls'[c].step = "stats"
        /\ rows' = rows
        /\ calls'[c].done => InFlight = {}
     \/ calls[c].step = "stats" /\ calls'[c].step = "update" /\ calls[c].done
     \/ /\ calls[c].step = "update" /\ calls'[c].step = "event"
        /\ calls[c].op \notin Quiet \cup {"delete"}

CallChange(c) ==
  calls'[c] = calls[c] \/ calls'[c] = NoCall \/ Begun(c) \/ Advanced(c)

LEMMA NoCallType ==
  ASSUME TypeOK, NEW c \in Agents, calls[c] # NoCall
  PROVE  calls[c] \in Call
  BY DEF TypeOK, Agents

LEMMA OperationsType ==
  ASSUME NEW c \in Agents
  PROVE  OperationsOf(c) \subseteq ApiOperations \cup LoopOperations
  BY LifecycleAssumption DEF OperationsOf, LoopOperations, ApiOperations

\* What one step of Next does to each call, and that calls stay well typed.
LEMMA CallSteps ==
  ASSUME TypeOK, [Next]_vars
  PROVE  /\ calls' \in [Agents -> Call \cup {NoCall}]
         /\ \A c \in Agents : CallChange(c)
<1> USE DEF Agents
<1>0. calls \in [Agents -> Call \cup {NoCall}] /\ cam \in Campaign /\ published \in Nat
  BY DEF TypeOK
\* It is enough that the one call an action touches changes as it should.
<1>1. ASSUME NEW c \in Agents, NEW k \in Call \cup {NoCall},
             calls' = [calls EXCEPT ![c] = k],
             CallChange(c)
      PROVE  /\ calls' \in [Agents -> Call \cup {NoCall}]
             /\ \A d \in Agents : CallChange(d)
  <2>1. calls' \in [Agents -> Call \cup {NoCall}]
    BY <1>0, <1>1
  <2>2. \A d \in Agents : d # c => calls'[d] = calls[d]
    BY <1>0, <1>1
  <2> QED
    BY <1>1, <2>1, <2>2 DEF CallChange
<1>2. ASSUME NEW c \in Agents, Return(c)
      PROVE  /\ calls' \in [Agents -> Call \cup {NoCall}]
             /\ \A d \in Agents : CallChange(d)
  <2>1. calls'[c] = NoCall
    BY <1>0, <1>2 DEF Return
  <2> QED
    BY <1>1, <1>2, <2>1 DEF Return, CallChange
<1>3. ASSUME calls' = calls
      PROVE  /\ calls' \in [Agents -> Call \cup {NoCall}]
             /\ \A d \in Agents : CallChange(d)
  BY <1>0, <1>3 DEF CallChange
<1>4. ASSUME NEW c \in Agents, NEW op \in OperationsOf(c), Begin(c, op)
      PROVE  /\ calls' \in [Agents -> Call \cup {NoCall}]
             /\ \A d \in Agents : CallChange(d)
  <2>1. PICK want \in Changed(op, cam) :
          calls' = [calls EXCEPT ![c] = [op |-> op, step |-> FirstStep(op), seen |-> cam,
                                         want |-> want, chunks |-> 0, done |-> FALSE]]
    BY <1>4 DEF Begin
  <2> DEFINE k == [op |-> op, step |-> FirstStep(op), seen |-> cam,
                   want |-> want, chunks |-> 0, done |-> FALSE]
  <2>2. op \in ApiOperations \cup LoopOperations
    BY OperationsType
  <2>3. want \in Campaign /\ WantOK(op, cam, want)
    BY <1>0, <1>4, <2>2, ChangedOK DEF Begin
  <2>4. FirstStep(op) \in Steps
    BY DEF FirstStep, Steps
  <2>5. k \in Call
    BY <1>0, <2>2, <2>3, <2>4 DEF Call, Steps
  <2>6. calls'[c] = k
    BY <1>0, <2>1
  <2>7. Begun(c)
    BY <1>4, <2>2, <2>3, <2>5, <2>6 DEF Begun, Begin
  <2> HIDE DEF k
  <2> QED
    BY <1>1, <2>1, <2>5, <2>7 DEF k, CallChange
<1>5. ASSUME NEW c \in Agents, NEW s \in Steps, calls[c] # NoCall,
             calls' = [calls EXCEPT ![c].step = s],
             LET k == calls[c]
             IN \/ k.step = "requeue" /\ k.op = "retry" /\ s = "update"
                   /\ k.seen.status = "completed"
                \/ k.step = "stats" /\ s = "update" /\ k.done
                \/ k.step = "update" /\ s = "event" /\ k.op \notin Quiet \cup {"delete"}
      PROVE  /\ calls' \in [Agents -> Call \cup {NoCall}]
             /\ \A d \in Agents : CallChange(d)
  <2> DEFINE k == [calls[c] EXCEPT !.step = s]
  <2>1. calls[c] \in Call
    BY <1>5, NoCallType
  <2>2. k \in Call /\ k.step = s /\ k.op = calls[c].op /\ k.seen = calls[c].seen
        /\ k.want = calls[c].want
    BY <2>1, CallFields
  <2>3. calls' = [calls EXCEPT ![c] = k]
    BY <1>5
  <2> HIDE DEF k
  <2>4. calls'[c] = k
    BY <1>0, <2>3
  <2>5. Advanced(c)
    BY <1>5, <2>1, <2>2, <2>4 DEF Advanced
  <2> QED
    BY <1>1, <2>2, <2>3, <2>5 DEF CallChange
<1>6. ASSUME NEW c \in Agents, CallStep(c)
      PROVE  /\ calls' \in [Agents -> Call \cup {NoCall}]
             /\ \A d \in Agents : CallChange(d)
  <2>1. CASE Update(c)
    <3>1. CASE calls[c].op \in Quiet
      BY <1>2, <2>1, <3>1 DEF Update
    <3>2. CASE calls[c].op \notin Quiet
      BY <1>5, <2>1, <3>2 DEF Update, At, Steps
    <3> QED
      BY <3>1, <3>2
  <2>2. CASE Conflict(c) \/ Enqueue(c) \/ Delete(c)
    BY <1>2, <2>2 DEF Conflict, Enqueue, Delete
  <2>3. ASSUME NEW S, IngestBatch(c, S)
        PROVE  /\ calls' \in [Agents -> Call \cup {NoCall}]
               /\ \A d \in Agents : CallChange(d)
    BY <1>3, <2>3 DEF IngestBatch
  <2>4. ASSUME NEW S, Requeue(c, S)
        PROVE  /\ calls' \in [Agents -> Call \cup {NoCall}]
               /\ \A d \in Agents : CallChange(d)
    <3>0. At(c, "requeue") /\ calls[c].op = "retry"
      BY <2>4 DEF Requeue
    <3>1. \/ calls' = [calls EXCEPT ![c].chunks = @ + 1]
          \/ calls' = [calls EXCEPT ![c].step = "update"] /\ calls[c].seen.status = "completed"
          \/ Return(c)
      BY <2>4 DEF Requeue
    <3>2. CASE calls' = [calls EXCEPT ![c].chunks = @ + 1]
      <4> DEFINE n == calls[c].chunks + 1
                 k == [calls[c] EXCEPT !.chunks = n]
      <4>1. calls[c] \in Call
        BY <3>0, NoCallType DEF At
      <4>2. n \in Nat
        BY <4>1 DEF Call
      <4>3. k \in Call /\ k.step = calls[c].step /\ k.op = calls[c].op
            /\ k.seen = calls[c].seen /\ k.want = calls[c].want
        <5> HIDE DEF n
        <5> QED
          BY <4>1, <4>2, CallFields
      <4>4. calls' = [calls EXCEPT ![c] = k]
        BY <3>2
      <4> HIDE DEF k
      <4>5. calls'[c] = k
        BY <1>0, <4>4
      <4>6. Advanced(c)
        BY <3>0, <4>1, <4>3, <4>5 DEF Advanced, At
      <4> QED
        BY <1>1, <4>3, <4>4, <4>6 DEF CallChange
    <3>3. CASE calls' = [calls EXCEPT ![c].step = "update"] /\ calls[c].seen.status = "completed"
      BY <1>5, <3>0, <3>3 DEF At, Steps
    <3> QED
      BY <1>2, <3>1, <3>2, <3>3
  <2>5. CASE Count(c)
    <3> DEFINE k == Counted(calls[c])
    <3>1. calls[c] \in Call /\ calls[c] # NoCall /\ calls[c].step = "count"
      BY <2>5, NoCallType DEF Count, At
    <3>2. /\ k \in Call
          /\ k.step = "stats"
          /\ k.op = calls[c].op
          /\ k.seen = calls[c].seen
          /\ k.done = (Total # {} /\ InFlight = {})
          /\ k.want.version = calls[c].want.version
          /\ k.want.status = calls[c].want.status
          /\ k.want.content = calls[c].want.content
      BY <3>1, CountedOK
    <3>3. calls' = [calls EXCEPT ![c] = k] /\ rows' = rows
      BY <2>5 DEF Count
    <3> HIDE DEF k
    <3>4. calls'[c] = k
      BY <1>0, <3>3
    <3>5. Advanced(c)
      BY <3>1, <3>2, <3>3, <3>4 DEF Advanced
    <3> QED
      BY <1>1, <3>2, <3>3, <3>5 DEF CallChange
  <2>6. CASE UpdateStats(c)
    BY <1>2, <1>5, <2>6 DEF UpdateStats, At, Steps
  <2> QED
    BY <1>6, <2>1, <2>2, <2>3, <2>4, <2>5, <2>6 DEF CallStep
<1>7. CASE \E c \in Agents : Abandon(c)
  BY <1>2, <1>7 DEF Abandon
<1>8. CASE \/ \E r \in Recipients : SenderStep(r) \/ Bounce(r) \/ RetryDelivery(r)
           \/ \E S \in SUBSET Recipients : CancelRows(S)
           \/ RefreshRunning \/ Publish \/ BecomeDue \/ UNCHANGED vars
  BY <1>3, <1>8 DEF SenderStep, Claim, Finish, Settle, PutBack, LateResult, Bounce, SetRow, RetryDelivery,
     CancelRows, RefreshRunning, Publish, BecomeDue, vars
<1> QED
  BY <1>4, <1>6, <1>7, <1>8 DEF Next

-----------------------------------------------------------------------------

\* A step that leaves the row's version alone leaves its status and content
\* alone too, unless it deletes the campaign.
CamKept ==
  /\ cam'.version = cam.version
  /\ cam'.content = cam.content
  /\ cam'.status \in {cam.status, "deleted"}

\* A compare-and-set that went through.
CamWritten(c) ==
  /\ Update(c)
  /\ cam'.version = cam.version + 1
  /\ cam'.status = calls[c].want.status
  /\ cam'.content = calls[c].want.content

LEMMA UpdateWrites ==
  ASSUME TypeOK, NEW c \in Agents, Update(c)
  PROVE  cam' \in Campaign /\ CamWritten(c)
<1> DEFINE w == calls[c].want
           v == w.version + 1
<1>1. w \in Campaign /\ w.version = cam.version
  BY NoCallType DEF Update, At, Call, VersionMatches
<1>2. v \in Nat
  BY <1>1 DEF Campaign
<1>3. cam' = [w EXCEPT !.version = v]
  BY DEF Update
<1>4. cam' \in Campaign /\ cam'.version = v /\ cam'.status = w.status
      /\ cam'.content = w.content
  <2> HIDE DEF v, w
  <2> QED
    BY <1>1, <1>2, <1>3, CampaignFields DEF Campaign
<1> QED
  BY <1>1, <1>4 DEF CamWritten

\* The campaign changes by a compare-and-set, by a deletion, or in columns
\* outside the version's protection.
LEMMA CamSteps ==
  ASSUME TypeOK, [Next]_vars
  PROVE  /\ cam' \in Campaign
         /\ CamKept \/ \E c \in Agents : CamWritten(c)
<1> USE DEF Agents
<1>0. cam \in Campaign
  BY DEF TypeOK
<1>1. CASE cam' = cam
  BY <1>0, <1>1 DEF CamKept
<1>2. ASSUME NEW c \in Agents, Update(c)
      PROVE  cam' \in Campaign /\ CamWritten(c)
  BY <1>2, UpdateWrites
<1>3. ASSUME NEW c \in Agents, Delete(c)
      PROVE  cam' \in Campaign /\ CamKept
  <2>1. cam' = [cam EXCEPT !.status = "deleted"]
    BY <1>3 DEF Delete
  <2> QED
    BY <1>0, <2>1, CampaignFields DEF Campaign, CampaignStatuses, CamKept
<1>4. ASSUME NEW c \in Agents, UpdateStats(c)
      PROVE  cam' \in Campaign /\ CamKept
  <2> DEFINE n == calls[c].want.stats
  <2>1. n \in Nat
    BY <1>4, NoCallType DEF UpdateStats, At, Call, Campaign
  <2>2. cam' = cam \/ cam' = [cam EXCEPT !.stats = n]
    BY <1>4 DEF UpdateStats
  <2> HIDE DEF n
  <2> QED
    BY <1>0, <2>1, <2>2, CampaignFields DEF Campaign, CamKept
<1>5. CASE BecomeDue
  <2>1. cam' = [cam EXCEPT !.due = TRUE]
    BY <1>5 DEF BecomeDue
  <2> QED
    BY <1>0, <2>1, CampaignFields DEF Campaign, CamKept
<1>6. ASSUME NEW c \in Agents,
             \/ \E op \in OperationsOf(c) : Begin(c, op)
             \/ Conflict(c) \/ Enqueue(c) \/ Abandon(c) \/ Count(c)
             \/ \E S \in SUBSET Recipients : IngestBatch(c, S) \/ Requeue(c, S)
      PROVE  cam' = cam
  BY <1>6 DEF Begin, Conflict, Enqueue, Abandon, Count, IngestBatch, Requeue
<1>7. CASE \/ \E r \in Recipients : SenderStep(r) \/ Bounce(r) \/ RetryDelivery(r)
           \/ \E S \in SUBSET Recipients : CancelRows(S)
           \/ RefreshRunning \/ Publish \/ UNCHANGED vars
  <2>1. cam' = cam
    BY <1>7 DEF SenderStep, Claim, Finish, Settle, PutBack, LateResult, Bounce, SetRow, RetryDelivery,
       CancelRows, RefreshRunning, Publish, vars
  <2> QED
    BY <1>1, <2>1
<1> QED
  BY <1>1, <1>2, <1>3, <1>4, <1>5, <1>6, <1>7 DEF Next, CallStep

\* What one step of Next does to the rows in flight: some are put there, and
\* every finalizer and a completed campaign are told; or some leave.
Filled(S) ==
  /\ PutInFlight(S, "pending") \/ PutInFlight(S, "queued")
  /\ S \subseteq Recipients
  /\ cam' = cam

Kept == fresh' = fresh /\ late' = late /\ InFlight' \subseteq InFlight

Recounted(c) ==
  Count(c) /\ fresh' = [fresh EXCEPT ![c] = {}] /\ late' = late /\ rows' = rows

Finalized(c) ==
  Update(c) /\ fresh' = fresh /\ rows' = rows
  /\ late' = IF calls[c].op = "finalize" THEN fresh[c] ELSE late

LEMMA RowSteps ==
  ASSUME TypeOK, [Next]_vars
  PROVE  /\ rows' \in [Recipients -> RowStatuses]
         /\ \/ \E S \in SUBSET Recipients : Filled(S)
            \/ Kept
            \/ \E c \in Agents : Recounted(c) \/ Finalized(c)
<1> USE DEF Agents
<1>0. rows \in [Recipients -> RowStatuses]
  BY DEF TypeOK
<1>1. ASSUME NEW S \in SUBSET Recipients, cam' = cam,
             PutInFlight(S, "pending") \/ PutInFlight(S, "queued")
      PROVE  rows' \in [Recipients -> RowStatuses] /\ Filled(S)
  BY <1>0, <1>1 DEF PutInFlight, Filled, RowStatuses, InflightStatuses
<1>2. ASSUME NEW r \in Recipients,
             \/ Claim(r) \/ Finish(r) \/ Settle(r) \/ PutBack(r) \/ Bounce(r)
             \/ LateResult(r) /\ rows' = [rows EXCEPT ![r] = "failed"]
                              /\ UNCHANGED <<fresh, late>>
      PROVE  rows' \in [Recipients -> RowStatuses] /\ Kept
  <2>1. /\ fresh' = fresh /\ late' = late
        /\ \/ /\ rows[r] \in InflightStatuses
              /\ rows' \in {[rows EXCEPT ![r] = s] :
                              s \in {"leased", "marked", "sent", "failed", "queued"}}
           \/ rows' \in {[rows EXCEPT ![r] = s] : s \in {"sent", "failed", "bounced"}}
    BY <1>2 DEF Claim, Finish, Settle, PutBack, Bounce, SetRow, InflightStatuses
  <2>2. rows' \in [Recipients -> RowStatuses]
    BY <1>0, <2>1 DEF RowStatuses, InflightStatuses
  <2>3. \A q \in Recipients : rows'[q] \in InflightStatuses => rows[q] \in InflightStatuses
    BY <1>0, <2>1 DEF InflightStatuses
  <2> QED
    BY <2>1, <2>2, <2>3 DEF Kept, InFlight
<1>3. ASSUME NEW r \in Recipients, RetryDelivery(r)
      PROVE  rows' \in [Recipients -> RowStatuses] /\ Filled({r})
  BY <1>1, <1>3 DEF RetryDelivery
<1>3a. ASSUME NEW r \in Recipients, LateResult(r), PutInFlight({r}, "queued")
       PROVE  rows' \in [Recipients -> RowStatuses] /\ Filled({r})
  BY <1>1, <1>3a DEF LateResult
<1>3b. ASSUME NEW r \in Recipients, LateResult(r)
       PROVE  \/ PutInFlight({r}, "queued")
              \/ rows' = [rows EXCEPT ![r] = "failed"] /\ UNCHANGED <<fresh, late>>
  BY <1>3b DEF LateResult
<1>4. ASSUME NEW S \in SUBSET Recipients, CancelRows(S)
      PROVE  rows' \in [Recipients -> RowStatuses] /\ Kept
  BY <1>0, <1>4 DEF CancelRows, Kept, InFlight, InflightStatuses, RowStatuses
<1>5. ASSUME NEW c \in Agents, NEW S \in SUBSET Recipients, IngestBatch(c, S) \/ Requeue(c, S)
      PROVE  rows' \in [Recipients -> RowStatuses] /\ Filled(S)
  BY <1>1, <1>5 DEF IngestBatch, Requeue
<1>6. ASSUME NEW c \in Agents, Count(c)
      PROVE  rows' \in [Recipients -> RowStatuses] /\ Recounted(c)
  BY <1>0, <1>6 DEF Count, Recounted
<1>7. ASSUME NEW c \in Agents, Update(c)
      PROVE  rows' \in [Recipients -> RowStatuses] /\ Finalized(c)
  BY <1>0, <1>7 DEF Update, Finalized
<1>8. ASSUME rows' = rows, fresh' = fresh, late' = late
      PROVE  rows' \in [Recipients -> RowStatuses] /\ Kept
  BY <1>0, <1>8 DEF Kept, InFlight
<1>9. ASSUME NEW c \in Agents,
             \/ \E op \in OperationsOf(c) : Begin(c, op)
             \/ Conflict(c) \/ Enqueue(c) \/ Abandon(c) \/ Delete(c) \/ UpdateStats(c)
      PROVE  rows' \in [Recipients -> RowStatuses] /\ Kept
  BY <1>8, <1>9 DEF Begin, Conflict, Enqueue, Abandon, Delete, UpdateStats
<1>10. CASE RefreshRunning \/ Publish \/ BecomeDue \/ UNCHANGED vars
  BY <1>8, <1>10 DEF RefreshRunning, Publish, BecomeDue, vars
<1>11. CASE \E r \in Recipients : SenderStep(r)
  BY <1>2, <1>3a, <1>3b, <1>11 DEF SenderStep
<1> QED
  BY <1>2, <1>3, <1>4, <1>5, <1>6, <1>7, <1>9, <1>10, <1>11 DEF Next, CallStep

-----------------------------------------------------------------------------

\* The counters and histories keep their types.
LEMMA CounterTypes ==
  ASSUME TypeOK, [Next]_vars
  PROVE  /\ published' \in Nat
         /\ spent' \in Nat
         /\ cache' \in BOOLEAN
         /\ commits' \in [EventTypes -> Nat]
         /\ events' \in [EventTypes -> Nat]
<1>0. /\ published \in Nat /\ spent \in Nat /\ cache \in BOOLEAN
      /\ commits \in [EventTypes -> Nat] /\ events \in [EventTypes -> Nat]
  BY DEF TypeOK
<1>1. /\ published' = published \/ published' = published + 1
      /\ spent' = spent \/ spent' = spent + 1
  BY DEF Next, CallStep, Begin, Update, Conflict, Enqueue, Abandon, Delete, IngestBatch,
     Requeue, RetryDelivery, Count, UpdateStats, CancelRows, RefreshRunning, SetRow, Claim,
     Finish, Settle, PutBack, LateResult, Bounce, SenderStep, Publish, BecomeDue, Spend, vars
<1>2. cache' = cache \/ cache' = (cam.status = "running")
  BY <1>0 DEF Next, CallStep, Begin, Update, Conflict, Enqueue, Abandon, Delete, IngestBatch,
     Requeue, RetryDelivery, Count, UpdateStats, CancelRows, RefreshRunning, SetRow, Claim,
     Finish, Settle, PutBack, LateResult, Bounce, SenderStep, Publish, BecomeDue, vars
<1>3. \/ commits' = commits
      \/ \E c \in Agents : commits' = [commits EXCEPT ![EventOf(calls[c].op)] = @ + 1]
  BY DEF Next, CallStep, Begin, Update, Conflict, Enqueue, Abandon, Delete, IngestBatch,
     Requeue, RetryDelivery, Count, UpdateStats, CancelRows, RefreshRunning, SetRow, Claim,
     Finish, Settle, PutBack, LateResult, Bounce, SenderStep, Publish, BecomeDue, vars, Agents
<1>4. \/ events' = events
      \/ \E c \in Agents : events' = [events EXCEPT ![EventOf(calls[c].op)] = @ + 1]
  BY DEF Next, CallStep, Begin, Update, Conflict, Enqueue, Abandon, Delete, IngestBatch,
     Requeue, RetryDelivery, Count, UpdateStats, CancelRows, RefreshRunning, SetRow, Claim,
     Finish, Settle, PutBack, LateResult, Bounce, SenderStep, Publish, BecomeDue, vars, Agents
<1>5. ASSUME NEW f \in [EventTypes -> Nat], NEW e
      PROVE  [f EXCEPT ![e] = @ + 1] \in [EventTypes -> Nat]
  <2>1. CASE e \in EventTypes
    <3>1. f[e] + 1 \in Nat
      BY <2>1
    <3> QED
      BY <3>1
  <2>2. CASE e \notin EventTypes
    <3>1. [f EXCEPT ![e] = @ + 1] = f
      BY <2>2
    <3> QED
      BY <3>1
  <2> QED
    BY <2>1, <2>2
<1>6. cache' \in BOOLEAN
  BY <1>0, <1>2
<1>7. commits' \in [EventTypes -> Nat]
  BY <1>0, <1>3, <1>5
<1>8. events' \in [EventTypes -> Nat]
  BY <1>0, <1>4, <1>5
<1> QED
  BY <1>0, <1>1, <1>6, <1>7, <1>8

-----------------------------------------------------------------------------
(* The inductive invariant.                                                *)

\* Which steps a call of an operation may be at.
StepOK(c) ==
  LET k == calls[c]
  IN /\ k.op \in OperationsOf(c)
     /\ k.op = "finalize" => k.step \in {"count", "stats", "update", "event"}
     /\ k.op = "refresh" => k.step = "stats" /\ ~k.done
     /\ k.op = "ingest" => k.step = "requeue"
     /\ k.op = "retry" /\ k.step = "update" => k.seen.status = "completed"
     /\ k.op \notin {"finalize", "refresh"} => k.step \notin {"count", "stats"}
     /\ k.op \in Quiet \cup {"delete"} => k.step = "update"

\* What a call read is no newer than the row, and while the version is the
\* same, so are the status and the content.
SnapshotOK(c) ==
  LET s == calls[c].seen
  IN /\ s.version <= cam.version
     /\ (s.version = cam.version /\ cam.status # "deleted")
          => s.status = cam.status /\ s.content = cam.content

\* A finalizer that will complete the campaign knows every row in flight that
\* its count did not see.
VerdictOK(c) ==
  (calls[c].op = "finalize" /\ (calls[c].step = "update" \/ (calls[c].step = "stats" /\ calls[c].done)))
    => InFlight \subseteq fresh[c]

CallInv ==
  \A c \in Agents : calls[c] # NoCall =>
    /\ StepOK(c)
    /\ WantOK(calls[c].op, calls[c].seen, calls[c].want)
    /\ SnapshotOK(c)
    /\ VerdictOK(c)

\* A campaign that was started has its message.
StartedBound == cam.status \in Started => cam.content # 0

LifecycleInv == TypeOK /\ CallInv /\ StartedBound /\ CompletedIsAccounted

\* Only finalizers complete or refresh a campaign.
LEMMA WhoFinalizes ==
  ASSUME NEW c \in Agents, "finalize" \in OperationsOf(c)
  PROVE  c \in Finalizers
  BY LifecycleAssumption DEF OperationsOf, ApiOperations, Agents, Loops

LEMMA TypeStep == LifecycleInv /\ [Next]_vars => TypeOK'
<1> SUFFICES ASSUME LifecycleInv, [Next]_vars
             PROVE  TypeOK'
  OBVIOUS
<1>0. TypeOK
  BY DEF LifecycleInv
<1>1. cam' \in Campaign
  BY <1>0, CamSteps
<1>2. rows' \in [Recipients -> RowStatuses]
  BY <1>0, RowSteps
<1>3. calls' \in [Callers \cup Loops -> Call \cup {NoCall}]
  BY <1>0, CallSteps DEF Agents
<1>4. fresh' \in [Finalizers -> SUBSET Recipients] /\ late' \subseteq Recipients
  <2>0. fresh \in [Finalizers -> SUBSET Recipients] /\ late \subseteq Recipients
    BY <1>0 DEF TypeOK
  <2>1. ASSUME NEW S \in SUBSET Recipients, Filled(S)
        PROVE  fresh' \in [Finalizers -> SUBSET Recipients] /\ late' \subseteq Recipients
    BY <2>0, <2>1 DEF Filled, PutInFlight
  <2>2. ASSUME NEW c \in Agents, Recounted(c)
        PROVE  fresh' \in [Finalizers -> SUBSET Recipients] /\ late' \subseteq Recipients
    BY <2>0, <2>2 DEF Recounted
  <2>3. ASSUME NEW c \in Agents, Finalized(c)
        PROVE  fresh' \in [Finalizers -> SUBSET Recipients] /\ late' \subseteq Recipients
    <3>1. calls[c] # NoCall
      BY <2>3 DEF Finalized, Update, At
    <3>2. calls[c].op = "finalize" => c \in Finalizers
      BY <3>1, WhoFinalizes DEF LifecycleInv, CallInv, StepOK
    <3> QED
      BY <2>0, <2>3, <3>2 DEF Finalized
  <2> QED
    BY <1>0, <2>0, <2>1, <2>2, <2>3, RowSteps DEF Kept
<1> QED
  BY <1>0, <1>1, <1>2, <1>3, <1>4, CounterTypes DEF TypeOK

\* The calls stay within their protocol.
LEMMA ProtocolStep ==
  ASSUME LifecycleInv, [Next]_vars, NEW c \in Agents, calls'[c] # NoCall
  PROVE  StepOK(c)' /\ WantOK(calls'[c].op, calls'[c].seen, calls'[c].want)
<1>0. TypeOK /\ CallInv
  BY DEF LifecycleInv
<1>1. CallChange(c)
  BY <1>0, CallSteps
<1>2. CASE calls'[c] = calls[c]
  BY <1>0, <1>2 DEF CallInv, StepOK
<1>3. CASE Begun(c)
  <2>1. FirstStep("retry") = "requeue" /\ FirstStep("ingest") = "requeue"
        /\ FirstStep("finalize") = "count" /\ FirstStep("refresh") = "stats"
    BY DEF FirstStep
  <2>2. \A op \in {"start", "schedule", "pause", "resume", "cancel", "edit", "delete", "promote"} :
           FirstStep(op) = "update"
    BY DEF FirstStep
  <2>3. calls'[c].op \in ApiOperations \cup LoopOperations
    BY <1>3 DEF Begun, Call
  <2>4. StepOK(c)'
    BY <1>3, <2>1, <2>2, <2>3 DEF Begun, StepOK, Quiet, ApiOperations, LoopOperations
  <2> QED
    BY <1>3, <2>4 DEF Begun
<1>4. CASE Advanced(c)
  <2>1. calls[c] # NoCall
    BY <1>4 DEF Advanced
  <2>2. StepOK(c) /\ WantOK(calls[c].op, calls[c].seen, calls[c].want)
    BY <1>0, <2>1 DEF CallInv
  <2>3. WantOK(calls'[c].op, calls'[c].seen, calls'[c].want)
    BY <1>4, <2>2 DEF Advanced, WantOK
  <2>4. StepOK(c)'
    BY <1>4, <2>2 DEF Advanced, StepOK, Quiet
  <2> QED
    BY <2>3, <2>4
<1> QED
  BY <1>1, <1>2, <1>3, <1>4 DEF CallChange

\* What calls read stays valid until the version moves.
LEMMA SnapshotStep ==
  ASSUME LifecycleInv, [Next]_vars, NEW c \in Agents, calls'[c] # NoCall
  PROVE  SnapshotOK(c)'
<1>0. TypeOK /\ CallInv /\ cam \in Campaign
  BY DEF LifecycleInv, TypeOK
<1>1. CASE Begun(c)
  BY <1>0, <1>1 DEF Begun, SnapshotOK, Campaign
<1>2. CASE calls'[c] = calls[c] \/ Advanced(c)
  <2>1. calls[c] # NoCall /\ calls'[c].seen = calls[c].seen
    BY <1>2 DEF Advanced
  <2>2. SnapshotOK(c) /\ calls[c].seen.version \in Nat /\ cam.version \in Nat
    BY <1>0, <2>1, NoCallType DEF CallInv, Call, Campaign
  <2>3. CamKept \/ (cam'.version = cam.version + 1)
    BY <1>0, CamSteps DEF CamWritten
  <2> QED
    BY <2>1, <2>2, <2>3 DEF SnapshotOK, CamKept
<1> QED
  BY <1>0, <1>1, <1>2, CallSteps DEF CallChange

\* A write that goes through acts on the row as it is: the transition it makes
\* is the one the operation is for.
LEMMA WriteIsCurrent ==
  ASSUME LifecycleInv, NEW c \in Agents, Update(c)
  PROVE  LET op == calls[c].op
         IN /\ calls[c] # NoCall
            /\ op \in ApiOperations \cup LoopOperations
            /\ op \notin {"delete", "ingest", "refresh"}
            /\ cam.status \in From(op)
            /\ op = "retry" => cam.status = "completed"
            /\ cam'.status = Target(op, cam.status)
            /\ op \in {"start", "promote"} => cam'.content # 0
            /\ op \notin {"start", "promote", "edit"} => cam'.content = cam.content
            /\ op = "finalize" => InFlight \subseteq fresh[c]
<1>1. TypeOK /\ CallInv
  BY DEF LifecycleInv
<1>2. calls[c] # NoCall /\ calls[c].step = "update" /\ calls[c].op # "delete"
      /\ VersionMatches(c)
  BY DEF Update, At
<1>3. calls[c] \in Call
  BY <1>1, <1>2, NoCallType
<1>4. StepOK(c) /\ SnapshotOK(c) /\ VerdictOK(c)
      /\ WantOK(calls[c].op, calls[c].seen, calls[c].want)
  BY <1>1, <1>2 DEF CallInv
<1>5. CamWritten(c)
  BY <1>1, UpdateWrites
<1>6. calls[c].seen.status = cam.status /\ calls[c].seen.content = cam.content
  <2>1. calls[c].seen.version \in Nat /\ cam.version \in Nat
    BY <1>1, <1>3 DEF TypeOK, Call, Campaign
  <2>2. calls[c].seen.version = cam.version
    BY <1>2, <1>4, <2>1 DEF VersionMatches, WantOK, SnapshotOK
  <2> QED
    BY <1>2, <1>4, <2>2 DEF VersionMatches, SnapshotOK
<1>7. calls[c].op \in ApiOperations \cup LoopOperations
  BY <1>3 DEF Call
<1>8. calls[c].op \notin {"delete", "ingest", "refresh"}
      /\ (calls[c].op = "retry" => cam.status = "completed")
  BY <1>2, <1>4, <1>6 DEF StepOK
<1>9. calls[c].op = "finalize" => InFlight \subseteq fresh[c]
  BY <1>2, <1>4 DEF VerdictOK
<1> QED
  BY <1>2, <1>4, <1>5, <1>6, <1>7, <1>8, <1>9 DEF WantOK, CamWritten

\* The same, operation by operation.
LEMMA WriteByOperation ==
  ASSUME LifecycleInv, NEW c \in Agents, Update(c)
  PROVE  /\ cam'.status = cam.status \/ <<cam.status, cam'.status>> \in Edges
         /\ cam.status \in Started => cam'.content = cam.content
         /\ cam'.status \in Started /\ cam.status \notin Started => cam'.content # 0
         /\ cam'.status = "completed" => calls[c].op = "finalize"
<1> DEFINE op == calls[c].op
<1>1. /\ op \in ApiOperations \cup LoopOperations
      /\ op \notin {"delete", "ingest", "refresh"}
      /\ cam.status \in From(op)
      /\ op = "retry" => cam.status = "completed"
      /\ cam'.status = Target(op, cam.status)
      /\ op \in {"start", "promote"} => cam'.content # 0
      /\ op \notin {"start", "promote", "edit"} => cam'.content = cam.content
  BY WriteIsCurrent
<1> HIDE DEF op
<1>2. CASE op \in {"start", "schedule"}
  <2>1. From("start") = {"draft"} /\ From("schedule") = {"draft"}
    BY DEF From
  <2> QED
    BY <1>1, <1>2, <2>1 DEF Target, Edges, Started
<1>3. CASE op = "promote"
  BY <1>1, <1>3 DEF From, Target, Edges, Started
<1>4. CASE op = "pause"
  BY <1>1, <1>4 DEF From, Target, Edges, Started
<1>5. CASE op = "resume"
  BY <1>1, <1>5 DEF From, Target, Edges, Started
<1>6. CASE op = "cancel"
  BY <1>1, <1>6 DEF From, Target, Edges, Started
<1>7. CASE op = "retry"
  BY <1>1, <1>7 DEF Target, Edges, Started
<1>8. CASE op = "edit"
  BY <1>1, <1>8 DEF From, Target, Edges, Started
<1>9. CASE op = "finalize"
  BY <1>1, <1>9 DEF From, Target, Edges, Started, op
<1> QED
  BY <1>1, <1>2, <1>3, <1>4, <1>5, <1>6, <1>7, <1>8, <1>9 DEF ApiOperations, LoopOperations

\* A finalizer's verdict stays accounted for.
LEMMA VerdictStep ==
  ASSUME LifecycleInv, [Next]_vars, NEW c \in Agents, calls'[c] # NoCall
  PROVE  VerdictOK(c)'
<1>0. TypeOK /\ CallInv /\ rows \in [Recipients -> RowStatuses]
      /\ fresh \in [Finalizers -> SUBSET Recipients]
  BY DEF LifecycleInv, TypeOK
<1>1. CallChange(c) /\ StepOK(c)'
  BY <1>0, CallSteps, ProtocolStep
<1> SUFFICES ASSUME calls'[c].op = "finalize",
                    \/ calls'[c].step = "update"
                    \/ calls'[c].step = "stats" /\ calls'[c].done
             PROVE  (InFlight \subseteq fresh[c])'
  BY DEF VerdictOK
<1>2. c \in Finalizers
  BY <1>1, WhoFinalizes DEF StepOK, OperationsOf
<1>3. ASSUME InFlight \subseteq fresh[c], ~Count(c)
      PROVE  (InFlight \subseteq fresh[c])'
  <2>1. ASSUME NEW S \in SUBSET Recipients, Filled(S)
        PROVE  (InFlight \subseteq fresh[c])'
    BY <1>0, <1>2, <1>3, <2>1 DEF Filled, PutInFlight, InFlight
  <2>2. ASSUME NEW d \in Agents, Recounted(d)
        PROVE  (InFlight \subseteq fresh[c])'
    BY <1>0, <1>2, <1>3, <2>2 DEF Recounted, InFlight
  <2>3. CASE Kept \/ \E d \in Agents : Finalized(d)
    BY <1>3, <2>3 DEF Kept, Finalized, InFlight
  <2> QED
    BY <1>0, <2>1, <2>2, <2>3, RowSteps
<1>4. CASE calls'[c] = calls[c]
  <2>1. VerdictOK(c)
    BY <1>0, <1>4 DEF CallInv
  <2>2. InFlight \subseteq fresh[c] /\ ~Count(c)
    BY <1>4, <2>1 DEF VerdictOK, Count, At
  <2> QED
    BY <1>3, <2>2
<1>5. CASE Begun(c)
  <2>1. calls'[c].step = "count"
    BY <1>5 DEF Begun, FirstStep
  <2> QED
    BY <2>1
<1>6. CASE Advanced(c)
  <2>0. calls[c] # NoCall /\ calls[c].op = "finalize"
    BY <1>6 DEF Advanced
  <2>1. CASE calls[c].step = "count"
    <3>1. rows' = rows /\ InFlight = {}
      BY <1>6, <2>1 DEF Advanced
    <3> QED
      BY <3>1 DEF InFlight
  <2>2. CASE calls[c].step # "count"
    <3>1. calls[c].step = "stats" /\ calls[c].done
      BY <1>6, <2>0, <2>2 DEF Advanced
    <3>2. InFlight \subseteq fresh[c] /\ ~Count(c)
      BY <1>0, <2>0, <3>1 DEF CallInv, VerdictOK, Count, At
    <3> QED
      BY <1>3, <3>2
  <2> QED
    BY <2>1, <2>2
<1> QED
  BY <1>1, <1>4, <1>5, <1>6 DEF CallChange

\* What is in flight in a completed campaign stays accounted for.
LEMMA AccountedStep ==
  ASSUME LifecycleInv, [Next]_vars
  PROVE  CompletedIsAccounted'
<1>0. TypeOK /\ CompletedIsAccounted /\ rows \in [Recipients -> RowStatuses]
  BY DEF LifecycleInv, TypeOK
<1>1. ASSUME NEW c \in Agents, Update(c)
      PROVE  CompletedIsAccounted'
  <2>1. cam'.status = "completed" => calls[c].op = "finalize" /\ InFlight \subseteq fresh[c]
    BY <1>1, WriteByOperation, WriteIsCurrent
  <2>2. rows' = rows /\ late' = IF calls[c].op = "finalize" THEN fresh[c] ELSE late
    BY <1>1 DEF Update
  <2> QED
    BY <2>1, <2>2 DEF CompletedIsAccounted, InFlight
<1>2. CASE \A c \in Agents : ~Update(c)
  <2>1. cam'.status \in {cam.status, "deleted"}
    BY <1>0, <1>2, CamSteps DEF CamKept, CamWritten
  <2>2. ASSUME NEW S \in SUBSET Recipients, Filled(S)
        PROVE  CompletedIsAccounted'
    BY <1>0, <2>2 DEF Filled, PutInFlight, CompletedIsAccounted, InFlight
  <2>3. CASE Kept \/ \E c \in Agents : Recounted(c)
    BY <1>0, <2>1, <2>3 DEF Kept, Recounted, CompletedIsAccounted, InFlight
  <2> QED
    BY <1>0, <1>2, <2>2, <2>3, RowSteps DEF Finalized
<1> QED
  BY <1>1, <1>2

LEMMA LifecycleInit == Init => LifecycleInv
<1> SUFFICES ASSUME Init
             PROVE  LifecycleInv
  OBVIOUS
<1>1. cam \in Campaign /\ cam.status = "draft" /\ published \in Nat
  <2>1. PICK v \in {0, MaxPublished} :
          cam = [status |-> "draft", version |-> 1, content |-> v, due |-> FALSE, stats |-> 0]
    BY DEF Init
  <2>2. v \in Nat
    BY LifecycleAssumption
  <2>3. cam \in Campaign /\ cam.status = "draft" /\ cam.content = v
    BY <2>1, <2>2 DEF Campaign, CampaignStatuses
  <2> QED
    BY <2>2, <2>3 DEF Init
<1>2. \A c \in Agents : calls[c] = NoCall
  BY DEF Init, Agents
<1>3. TypeOK
  BY <1>1 DEF Init, TypeOK, RowStatuses
<1> QED
  BY <1>1, <1>2, <1>3 DEF LifecycleInv, CallInv, StartedBound, Started, CompletedIsAccounted

LEMMA LifecycleNext == LifecycleInv /\ [Next]_vars => LifecycleInv'
<1> SUFFICES ASSUME LifecycleInv, [Next]_vars
             PROVE  LifecycleInv'
  OBVIOUS
<1>1. TypeOK'
  BY TypeStep
<1>2. CallInv'
  BY ProtocolStep, SnapshotStep, VerdictStep DEF CallInv, Agents
<1>3. StartedBound'
  <2>1. ASSUME NEW c \in Agents, Update(c)
        PROVE  StartedBound'
    BY <2>1, WriteByOperation DEF StartedBound, LifecycleInv
  <2>2. CASE CamKept
    BY <2>2 DEF CamKept, StartedBound, LifecycleInv, Started
  <2> QED
    BY <2>1, <2>2, CamSteps DEF LifecycleInv, CamWritten
<1> QED
  BY <1>1, <1>2, <1>3, AccountedStep DEF LifecycleInv

-----------------------------------------------------------------------------
(* The theorems.                                                           *)

LEMMA LifecycleInvariant == Spec => []LifecycleInv
  BY LifecycleInit, LifecycleNext, PTL DEF Spec

\* The campaign row, the delivery rows, every handler and every loop are well
\* typed in every reachable state.
THEOREM LifecycleTypeCorrect == Spec => []TypeOK
<1>1. LifecycleInv => TypeOK
  BY DEF LifecycleInv
<1> QED
  BY <1>1, LifecycleInvariant, PTL

\* However many handlers and loops race on a campaign, its status only moves
\* along the arrows of the state diagram: the compare-and-set of
\* Campaigns().Update makes every read-check-write act on a current row.
THEOREM StatusFollowsLifecycle == Spec => FollowsLifecycle
<1>1. LifecycleInv /\ [Next]_vars => [LifecycleStep]_vars
  <2> SUFFICES ASSUME LifecycleInv, [Next]_vars
               PROVE  LifecycleStep
    OBVIOUS
  <2> QED
    BY CamSteps, WriteByOperation DEF CamKept, CamWritten, LifecycleStep, LifecycleInv
<1> QED
  BY <1>1, LifecycleInvariant, PTL DEF Spec, FollowsLifecycle

\* A started campaign has a message version and keeps it, whatever edits were
\* under way when it started.
THEOREM StartedContentIsPinned == Spec => ContentIsPinned
<1>1. LifecycleInv /\ [Next]_vars => [ContentStep]_vars
  <2> SUFFICES ASSUME LifecycleInv, [Next]_vars
               PROVE  ContentStep
    OBVIOUS
  <2> QED
    BY CamSteps, WriteByOperation
    DEF CamKept, CamWritten, ContentStep, LifecycleInv, StartedBound, Started
<1> QED
  BY <1>1, LifecycleInvariant, PTL DEF Spec, ContentIsPinned

\* Any number of finalizers, ingests and retries: a delivery in flight in a
\* completed campaign was put there after the count that completed it.
THEOREM CompletionIsAccounted == Spec => []CompletedIsAccounted
<1>1. LifecycleInv => CompletedIsAccounted
  BY DEF LifecycleInv
<1> QED
  BY <1>1, LifecycleInvariant, PTL

-----------------------------------------------------------------------------
(* Events.                                                                 *)

\* The calls that committed and have their event still to enqueue.
Unreported(e) ==
  {c \in Agents : calls[c] # NoCall /\ calls[c].step = "event" /\ EventOf(calls[c].op) = e}

EventLedger == \A e \in EventTypes : events[e] + Cardinality(Unreported(e)) <= commits[e]

EventInv == LifecycleInv /\ EventLedger

\* A step that neither commits nor reports a transition.
NoNews ==
  /\ commits' = commits /\ events' = events
  /\ \A c \in Agents : calls'[c] = calls[c] \/ calls'[c] = NoCall \/ calls'[c].step # "event"

LEMMA EventSteps ==
  ASSUME LifecycleInv, [Next]_vars
  PROVE  NoNews \/ \E c \in Agents : Enqueue(c) \/ (Update(c) /\ calls[c].op \notin Quiet)
<1> USE DEF Agents
<1>0. TypeOK /\ calls \in [Agents -> Call \cup {NoCall}]
  BY DEF LifecycleInv, TypeOK
<1>1. ASSUME NEW c \in Agents, Return(c), commits' = commits, events' = events
      PROVE  NoNews
  BY <1>0, <1>1 DEF Return, NoNews
<1>2. ASSUME NEW c \in Agents, NEW op \in OperationsOf(c), Begin(c, op)
      PROVE  NoNews
  <2>1. PICK want \in Changed(op, cam) :
          calls' = [calls EXCEPT ![c] = [op |-> op, step |-> FirstStep(op), seen |-> cam,
                                         want |-> want, chunks |-> 0, done |-> FALSE]]
    BY <1>2 DEF Begin
  <2>2. calls'[c].step = FirstStep(op) /\ \A d \in Agents : d # c => calls'[d] = calls[d]
    BY <1>0, <2>1
  <2>3. FirstStep(op) # "event"
    BY DEF FirstStep
  <2> QED
    BY <1>2, <2>2, <2>3 DEF Begin, NoNews
<1>3. ASSUME NEW c \in Agents, NEW k, calls' = [calls EXCEPT ![c] = k], k.step # "event",
             commits' = commits, events' = events
      PROVE  NoNews
  BY <1>0, <1>3 DEF NoNews
<1>4. ASSUME NEW c \in Agents, NEW S, Requeue(c, S)
      PROVE  NoNews
  <2>1. calls[c] \in Call /\ calls[c].step = "requeue"
    BY <1>0, <1>4, NoCallType DEF Requeue, At
  <2>2. commits' = commits /\ events' = events
    BY <1>4 DEF Requeue
  <2>3. \/ calls' = [calls EXCEPT ![c].chunks = @ + 1]
        \/ calls' = [calls EXCEPT ![c].step = "update"]
        \/ Return(c)
    BY <1>4 DEF Requeue
  <2>4. CASE calls' = [calls EXCEPT ![c].chunks = @ + 1]
    <3> DEFINE n == calls[c].chunks + 1
               k == [calls[c] EXCEPT !.chunks = n]
    <3>1. calls' = [calls EXCEPT ![c] = k]
      BY <2>4
    <3>2. n \in Nat
      BY <2>1 DEF Call
    <3>3. k.step # "event"
      <4> HIDE DEF n
      <4> QED
        BY <2>1, <3>2, CallFields
    <3> HIDE DEF k
    <3> QED
      BY <1>3, <2>2, <3>1, <3>3
  <2>5. CASE calls' = [calls EXCEPT ![c].step = "update"]
    <3> DEFINE k == [calls[c] EXCEPT !.step = "update"]
    <3>1. calls' = [calls EXCEPT ![c] = k]
      BY <2>5
    <3>2. k.step # "event"
      BY <2>1, CallFields DEF Steps
    <3> HIDE DEF k
    <3> QED
      BY <1>3, <2>2, <3>1, <3>2
  <2> QED
    BY <1>1, <2>2, <2>3, <2>4, <2>5
<1>5. ASSUME NEW c \in Agents, Count(c)
      PROVE  NoNews
  <2> DEFINE k == Counted(calls[c])
  <2>1. calls[c] \in Call
    BY <1>0, <1>5, NoCallType DEF Count, At
  <2>2. k.step # "event"
    BY <1>0, <2>1, CountedOK
  <2>3. calls' = [calls EXCEPT ![c] = k] /\ commits' = commits /\ events' = events
    BY <1>5 DEF Count
  <2> HIDE DEF k
  <2> QED
    BY <1>3, <2>2, <2>3
<1>6. ASSUME NEW c \in Agents, UpdateStats(c)
      PROVE  NoNews
  <2>1. calls[c] \in Call /\ commits' = commits /\ events' = events
    BY <1>0, <1>6, NoCallType DEF UpdateStats, At
  <2>2. CASE calls' = [calls EXCEPT ![c].step = "update"]
    <3> DEFINE k == [calls[c] EXCEPT !.step = "update"]
    <3>1. calls' = [calls EXCEPT ![c] = k]
      BY <2>2
    <3>2. k.step # "event"
      BY <2>1, CallFields DEF Steps
    <3> HIDE DEF k
    <3> QED
      BY <1>3, <2>1, <3>1, <3>2
  <2> QED
    BY <1>1, <1>6, <2>1, <2>2 DEF UpdateStats
<1>7. ASSUME NEW c \in Agents,
             Conflict(c) \/ Abandon(c) \/ Delete(c) \/ (Update(c) /\ calls[c].op \in Quiet)
      PROVE  NoNews
  BY <1>1, <1>7 DEF Conflict, Abandon, Delete, Update
<1>8. ASSUME NEW c \in Agents, NEW S, IngestBatch(c, S)
      PROVE  NoNews
  BY <1>8 DEF IngestBatch, NoNews
<1>9. CASE \/ \E r \in Recipients : SenderStep(r) \/ Bounce(r) \/ RetryDelivery(r)
           \/ \E S \in SUBSET Recipients : CancelRows(S)
           \/ RefreshRunning \/ Publish \/ BecomeDue \/ UNCHANGED vars
  <2>1. calls' = calls /\ commits' = commits /\ events' = events
    BY <1>9 DEF SenderStep, Claim, Finish, Settle, PutBack, LateResult, Bounce, SetRow, RetryDelivery,
       CancelRows, RefreshRunning, Publish, BecomeDue, vars
  <2> QED
    BY <2>1 DEF NoNews
<1> QED
  BY <1>2, <1>4, <1>5, <1>6, <1>7, <1>8, <1>9 DEF Next, CallStep

\* A commit makes one event due; reporting it settles one.
LEMMA LedgerStep ==
  ASSUME EventInv, [Next]_vars
  PROVE  EventLedger'
<1>0. /\ LifecycleInv /\ EventLedger
      /\ calls \in [Agents -> Call \cup {NoCall}]
      /\ commits \in [EventTypes -> Nat] /\ events \in [EventTypes -> Nat]
  BY DEF EventInv, LifecycleInv, TypeOK, Agents
<1>1. \A e : IsFiniteSet(Unreported(e)) /\ Cardinality(Unreported(e)) \in Nat
  BY LifecycleAssumption, FS_Subset, FS_CardinalityType DEF Unreported, Agents
<1>2. CASE NoNews
  <2> SUFFICES ASSUME NEW e \in EventTypes
               PROVE  events[e] + Cardinality(Unreported(e)') <= commits[e]
    BY <1>2 DEF EventLedger, NoNews
  <2>1. Unreported(e)' \subseteq Unreported(e)
    BY <1>2 DEF NoNews, Unreported
  <2>2. Cardinality(Unreported(e)') \in Nat
        /\ Cardinality(Unreported(e)') <= Cardinality(Unreported(e))
    BY <1>1, <2>1, CountSubset
  <2> QED
    BY <1>0, <1>1, <2>2 DEF EventLedger
<1>3. ASSUME NEW c \in Agents, Enqueue(c)
      PROVE  EventLedger'
  <2> SUFFICES ASSUME NEW e \in EventTypes
               PROVE  events'[e] + Cardinality(Unreported(e)') <= commits[e]
    BY <1>3 DEF EventLedger, Enqueue
  <2> DEFINE f == EventOf(calls[c].op)
  <2>1. calls[c] # NoCall /\ calls[c].step = "event"
    BY <1>3 DEF Enqueue, At
  <2>2. calls' = [calls EXCEPT ![c] = NoCall] /\ events' = [events EXCEPT ![f] = @ + 1]
    BY <1>3 DEF Enqueue, Return
  <2>3. Unreported(e)' \subseteq Unreported(e) \ {c}
    BY <1>0, <2>2 DEF Unreported
  <2>4. CASE f = e
    <3>1. c \in Unreported(e)
      BY <2>1, <2>4 DEF Unreported
    <3>2. Cardinality(Unreported(e)') + 1 <= Cardinality(Unreported(e))
      BY <1>1, <2>3, <3>1, CountDropped
    <3>3. events'[e] = events[e] + 1
      <4> HIDE DEF f
      <4> QED
        BY <1>0, <2>2, <2>4
    <3>4. Cardinality(Unreported(e)') \in Nat
      BY <1>1, <2>3, CountSubset
    <3> QED
      BY <1>0, <1>1, <3>2, <3>3, <3>4 DEF EventLedger
  <2>5. CASE f # e
    <3>1. Cardinality(Unreported(e)') \in Nat
          /\ Cardinality(Unreported(e)') <= Cardinality(Unreported(e))
      BY <1>1, <2>3, CountSubset
    <3>2. events'[e] = events[e]
      <4> HIDE DEF f
      <4> QED
        BY <1>0, <2>2, <2>5
    <3> QED
      BY <1>0, <1>1, <3>1, <3>2 DEF EventLedger
  <2> QED
    BY <2>4, <2>5
<1>4. ASSUME NEW c \in Agents, Update(c), calls[c].op \notin Quiet
      PROVE  EventLedger'
  <2> SUFFICES ASSUME NEW e \in EventTypes
               PROVE  events[e] + Cardinality(Unreported(e)') <= commits'[e]
    BY <1>4 DEF EventLedger, Update
  <2> DEFINE f == EventOf(calls[c].op)
             k == [calls[c] EXCEPT !.step = "event"]
  <2>1. calls[c] \in Call
    BY <1>0, <1>4, NoCallType DEF Update, At, LifecycleInv
  <2>2. calls' = [calls EXCEPT ![c] = k] /\ commits' = [commits EXCEPT ![f] = @ + 1]
    BY <1>4 DEF Update
  <2>3. k.op = calls[c].op
    BY <2>1, CallFields DEF Steps
  <2>4. CASE f = e
    <3>1. Unreported(e)' \subseteq Unreported(e) \cup {c}
      <4> HIDE DEF k
      <4> QED
        BY <1>0, <2>2 DEF Unreported
    <3>2. Cardinality(Unreported(e)') <= Cardinality(Unreported(e)) + 1
      BY <1>1, <3>1, CountAdded
    <3>3. commits'[e] = commits[e] + 1
      <4> HIDE DEF f
      <4> QED
        BY <1>0, <2>2, <2>4
    <3>4. Cardinality(Unreported(e)') \in Nat
      <4>1. IsFiniteSet(Unreported(e) \cup {c})
        BY <1>1, FS_AddElement
      <4> QED
        BY <3>1, <4>1, CountSubset
    <3> QED
      BY <1>0, <1>1, <3>2, <3>3, <3>4 DEF EventLedger
  <2>5. CASE f # e
    <3>1. Unreported(e)' \subseteq Unreported(e)
      <4>1. calls'[c] = k /\ \A d \in Agents : d # c => calls'[d] = calls[d]
        <5> HIDE DEF k
        <5> QED
          BY <1>0, <2>2
      <4>2. c \notin Unreported(e)'
        <5> HIDE DEF k
        <5> QED
          BY <2>3, <2>5, <4>1 DEF Unreported
      <4> HIDE DEF k
      <4> QED
        BY <4>1, <4>2 DEF Unreported
    <3>2. Cardinality(Unreported(e)') \in Nat
          /\ Cardinality(Unreported(e)') <= Cardinality(Unreported(e))
      BY <1>1, <3>1, CountSubset
    <3>3. commits'[e] = commits[e]
      <4> HIDE DEF f
      <4> QED
        BY <1>0, <2>2, <2>5
    <3> QED
      BY <1>0, <1>1, <3>2, <3>3 DEF EventLedger
  <2> QED
    BY <2>4, <2>5
<1> QED
  BY <1>0, <1>2, <1>3, <1>4, EventSteps

\* However many handlers and loops race, campaign events are only enqueued for
\* transitions that were committed.
THEOREM EventsHaveCommits == Spec => []EventsFollowCommits
<1>1. Init => EventInv
  <2> SUFFICES ASSUME Init
               PROVE  EventLedger
    BY LifecycleInit DEF EventInv
  <2>1. \A e \in EventTypes : Unreported(e) = {} /\ events[e] = 0 /\ commits[e] = 0
    BY DEF Init, Unreported, Agents
  <2> QED
    BY <2>1, FS_EmptySet DEF EventLedger
<1>2. EventInv /\ [Next]_vars => EventInv'
  BY LedgerStep, LifecycleNext DEF EventInv
<1>3. EventInv => EventsFollowCommits
  <2> SUFFICES ASSUME EventInv, NEW e \in EventTypes
               PROVE  events[e] <= commits[e]
    BY DEF EventsFollowCommits
  <2>1. Cardinality(Unreported(e)) \in Nat
    BY LifecycleAssumption, FS_Subset, FS_CardinalityType DEF Unreported, Agents
  <2>2. events[e] \in Nat /\ commits[e] \in Nat
    BY DEF EventInv, LifecycleInv, TypeOK
  <2> QED
    BY <2>1, <2>2 DEF EventInv, EventLedger
<1> QED
  BY <1>1, <1>2, <1>3, PTL DEF Spec

-----------------------------------------------------------------------------
(* The cached counts of a completed campaign.                              *)

\* The control leader: one replica's finalizer at a time.
OneFinalizer == \A f, g \in Finalizers : f = g

\* A finalizer in the middle of a tick looks at a campaign that is not
\* completed, and the counts it will complete or refresh one with are zero.
FinalCall(c) ==
  LET k == calls[c]
  IN /\ k.op = "finalize" /\ k.step # "event" => cam.status # "completed"
     /\ k.op = "finalize" /\ (k.step = "update" \/ (k.step = "stats" /\ k.done)) => k.want.stats = 0
     /\ k.op = "refresh" => k.want.stats = 0

FinalCalls == \A c \in Finalizers : calls[c] # NoCall => FinalCall(c)

StatsInv == LifecycleInv /\ CompletedStatsAreFinal /\ FinalCalls

LEMMA FinalizersAct ==
  ASSUME LifecycleInv, NEW c \in Agents, calls[c] # NoCall,
         calls[c].step \in {"count", "stats"} \/ calls[c].op \in {"finalize", "refresh"}
  PROVE  c \in Finalizers /\ calls[c].op \in {"finalize", "refresh"}
<1>1. StepOK(c)
  BY DEF LifecycleInv, CallInv
<1>2. calls[c].op \in {"finalize", "refresh"}
  BY <1>1 DEF StepOK
<1>3. calls[c].op \in OperationsOf(c)
  BY <1>1 DEF StepOK
<1> QED
  BY <1>2, <1>3, LifecycleAssumption DEF OperationsOf, ApiOperations, Agents, Loops

\* The columns of the counts change by a compare-and-set or by UpdateStats.
LEMMA StatsSteps ==
  ASSUME LifecycleInv, [Next]_vars
  PROVE  \/ cam'.stats = cam.stats /\ cam'.status \in {cam.status, "deleted"}
         \/ \E c \in Agents : UpdateStats(c) /\ cam'.status = cam.status /\ cam.status # "deleted"
                              /\ cam'.stats = calls[c].want.stats
         \/ \E c \in Agents : Update(c) /\ cam'.stats = calls[c].want.stats
<1> USE DEF Agents
<1>0. TypeOK /\ cam \in Campaign
  BY DEF LifecycleInv, TypeOK
<1>1. ASSUME NEW c \in Agents, Update(c)
      PROVE  cam'.stats = calls[c].want.stats
  <2> DEFINE w == calls[c].want
             v == w.version + 1
  <2>1. w \in Campaign
    BY <1>0, <1>1, NoCallType DEF Update, At, Call
  <2>2. cam' = [w EXCEPT !.version = v]
    BY <1>1 DEF Update
  <2> HIDE DEF w, v
  <2>3. cam'.stats = w.stats
    BY <2>1, <2>2 DEF Campaign
  <2> QED
    BY <2>3 DEF w
<1>2. ASSUME NEW c \in Agents, UpdateStats(c)
      PROVE  \/ cam' = cam
             \/ /\ cam'.status = cam.status /\ cam.status # "deleted"
                /\ cam'.stats = calls[c].want.stats
  <2> DEFINE n == calls[c].want.stats
  <2>1. cam' = cam \/ (cam.status # "deleted" /\ cam' = [cam EXCEPT !.stats = n])
    BY <1>2 DEF UpdateStats
  <2> HIDE DEF n
  <2>2. cam' = cam \/ (cam.status # "deleted" /\ cam'.status = cam.status /\ cam'.stats = n)
    BY <1>0, <2>1 DEF Campaign
  <2> QED
    BY <2>2 DEF n
<1>3. ASSUME NEW c \in Agents, Delete(c)
      PROVE  cam'.stats = cam.stats /\ cam'.status = "deleted"
  BY <1>0, <1>3 DEF Delete, Campaign
<1>4. CASE BecomeDue
  BY <1>0, <1>4 DEF BecomeDue, Campaign
<1>5. ASSUME NEW c \in Agents,
             \/ \E op \in OperationsOf(c) : Begin(c, op)
             \/ Conflict(c) \/ Enqueue(c) \/ Abandon(c) \/ Count(c)
             \/ \E S \in SUBSET Recipients : IngestBatch(c, S) \/ Requeue(c, S)
      PROVE  cam' = cam
  BY <1>5 DEF Begin, Conflict, Enqueue, Abandon, Count, IngestBatch, Requeue
<1>6. CASE \/ \E r \in Recipients : SenderStep(r) \/ Bounce(r) \/ RetryDelivery(r)
           \/ \E S \in SUBSET Recipients : CancelRows(S)
           \/ RefreshRunning \/ Publish \/ UNCHANGED vars
  <2>1. cam' = cam
    BY <1>6 DEF SenderStep, Claim, Finish, Settle, PutBack, LateResult, Bounce, SetRow, RetryDelivery,
       CancelRows, RefreshRunning, Publish, vars
  <2> QED
    BY <2>1
<1>7. CASE cam' = cam
  BY <1>7
<1> QED
  BY <1>1, <1>2, <1>3, <1>4, <1>5, <1>6, <1>7 DEF Next, CallStep

\* The status of a campaign becomes completed by the only finalizer, and its
\* counts with it.
LEMMA FinalStep ==
  ASSUME OneFinalizer, StatsInv, [Next]_vars
  PROVE  CompletedStatsAreFinal'
<1>0. LifecycleInv /\ CompletedStatsAreFinal /\ FinalCalls
  BY DEF StatsInv
<1>1. ASSUME NEW c \in Agents, UpdateStats(c), cam'.status = cam.status,
             cam'.stats = calls[c].want.stats
      PROVE  CompletedStatsAreFinal'
  <2>1. calls[c] # NoCall /\ calls[c].step = "stats"
    BY <1>1 DEF UpdateStats, At
  <2>2. c \in Finalizers /\ calls[c].op \in {"finalize", "refresh"}
    BY <1>0, <2>1, FinalizersAct
  <2>3. FinalCall(c)
    BY <1>0, <2>1, <2>2 DEF FinalCalls
  <2> QED
    BY <1>1, <2>1, <2>2, <2>3 DEF FinalCall, CompletedStatsAreFinal
<1>2. ASSUME NEW c \in Agents, Update(c), cam'.stats = calls[c].want.stats
      PROVE  CompletedStatsAreFinal'
  <2>1. calls[c] # NoCall /\ calls[c].step = "update"
    BY <1>2 DEF Update, At
  <2>2. cam'.status = "completed" => calls[c].op = "finalize"
    BY <1>0, <1>2, WriteByOperation
  <2>3. calls[c].op = "finalize" => c \in Finalizers
    BY <1>0, <2>1, FinalizersAct
  <2> QED
    BY <1>0, <1>2, <2>1, <2>2, <2>3 DEF FinalCalls, FinalCall, CompletedStatsAreFinal
<1> QED
  BY <1>0, <1>1, <1>2, StatsSteps DEF CompletedStatsAreFinal

\* What one step does to a call and the counts it carries.
CallBegins(c) ==
  /\ calls[c] = NoCall
  /\ cam' = cam
  /\ calls'[c].step = FirstStep(calls'[c].op)
  /\ calls'[c].op = "finalize" => cam.status = "running"
  /\ calls'[c].op = "refresh" => cam.status = "completed" /\ calls'[c].want = cam

CallMoves(c) ==
  /\ calls[c] # NoCall
  /\ calls'[c].op = calls[c].op
  /\ calls'[c].want = calls[c].want
  /\ \/ calls[c].op = "retry"
     \/ calls'[c].step = "event"
     \/ calls[c].step = "stats" /\ calls[c].done /\ calls'[c].step = "update"

CallCounts(c) ==
  /\ calls[c] # NoCall /\ calls[c].step = "count"
  /\ cam' = cam
  /\ calls'[c].op = calls[c].op
  /\ calls'[c].step = "stats"
  /\ calls'[c].done => calls'[c].want.stats = 0

CountsKept(c) ==
  calls'[c] = calls[c] \/ calls'[c] = NoCall \/ CallBegins(c) \/ CallMoves(c) \/ CallCounts(c)

LEMMA CountsSteps ==
  ASSUME LifecycleInv, [Next]_vars
  PROVE  \A c \in Agents : CountsKept(c)
<1> USE DEF Agents
<1>0. TypeOK /\ calls \in [Agents -> Call \cup {NoCall}]
  BY DEF LifecycleInv, TypeOK
<1>1. ASSUME NEW c \in Agents, NEW k, calls' = [calls EXCEPT ![c] = k], CountsKept(c)
      PROVE  \A d \in Agents : CountsKept(d)
  BY <1>0, <1>1 DEF CountsKept
<1>2. ASSUME NEW c \in Agents, Return(c)
      PROVE  \A d \in Agents : CountsKept(d)
  BY <1>0, <1>2 DEF Return, CountsKept
<1>3. ASSUME calls' = calls
      PROVE  \A d \in Agents : CountsKept(d)
  BY <1>3 DEF CountsKept
<1>4. ASSUME NEW c \in Agents, NEW op \in OperationsOf(c), Begin(c, op)
      PROVE  \A d \in Agents : CountsKept(d)
  <2>1. PICK want \in Changed(op, cam) :
          calls' = [calls EXCEPT ![c] = [op |-> op, step |-> FirstStep(op), seen |-> cam,
                                         want |-> want, chunks |-> 0, done |-> FALSE]]
    BY <1>4 DEF Begin
  <2> DEFINE k == [op |-> op, step |-> FirstStep(op), seen |-> cam,
                   want |-> want, chunks |-> 0, done |-> FALSE]
  <2>2. calls'[c] = k
    BY <1>0, <2>1
  <2>3. From("finalize") = {"running"} /\ From("refresh") = {"completed"}
    BY DEF From
  <2>4. Changed("refresh", cam) = {cam}
    BY DEF Changed
  <2>5. CallBegins(c)
    BY <1>4, <2>2, <2>3, <2>4 DEF CallBegins, Begin
  <2> QED
    BY <1>1, <2>1, <2>5 DEF CountsKept
<1>5. ASSUME NEW c \in Agents, calls[c] # NoCall, NEW s \in Steps,
             calls' = [calls EXCEPT ![c].step = s],
             \/ calls[c].op = "retry"
             \/ s = "event"
             \/ calls[c].step = "stats" /\ calls[c].done /\ s = "update"
      PROVE  \A d \in Agents : CountsKept(d)
  <2> DEFINE k == [calls[c] EXCEPT !.step = s]
  <2>1. calls' = [calls EXCEPT ![c] = k]
    BY <1>5
  <2>2. k.op = calls[c].op /\ k.want = calls[c].want /\ k.step = s
    BY <1>0, <1>5, NoCallType, CallFields
  <2> HIDE DEF k
  <2>3. calls'[c] = k
    BY <1>0, <2>1
  <2>4. CallMoves(c)
    BY <1>5, <2>2, <2>3 DEF CallMoves
  <2> QED
    BY <1>1, <2>1, <2>4 DEF CountsKept
<1>6. ASSUME NEW c \in Agents, NEW S, Requeue(c, S)
      PROVE  \A d \in Agents : CountsKept(d)
  <2>1. calls[c] \in Call /\ calls[c] # NoCall /\ calls[c].op = "retry"
    BY <1>0, <1>6, NoCallType DEF Requeue, At
  <2>2. \/ calls' = [calls EXCEPT ![c].chunks = @ + 1]
        \/ calls' = [calls EXCEPT ![c].step = "update"]
        \/ Return(c)
    BY <1>6 DEF Requeue
  <2>3. CASE calls' = [calls EXCEPT ![c].chunks = @ + 1]
    <3> DEFINE n == calls[c].chunks + 1
               k == [calls[c] EXCEPT !.chunks = n]
    <3>1. calls' = [calls EXCEPT ![c] = k]
      BY <2>3
    <3>2. n \in Nat
      BY <2>1 DEF Call
    <3>3. k.op = calls[c].op /\ k.want = calls[c].want
      <4> HIDE DEF n
      <4> QED
        BY <2>1, <3>2, CallFields
    <3> HIDE DEF k
    <3>4. calls'[c] = k
      BY <1>0, <3>1
    <3>5. CallMoves(c)
      BY <2>1, <3>3, <3>4 DEF CallMoves
    <3> QED
      BY <1>1, <3>1, <3>5 DEF CountsKept
  <2> QED
    BY <1>2, <1>5, <2>1, <2>2, <2>3 DEF Steps
<1>7. ASSUME NEW c \in Agents, Count(c)
      PROVE  \A d \in Agents : CountsKept(d)
  <2> DEFINE k == Counted(calls[c])
  <2>1. calls[c] \in Call /\ calls[c] # NoCall /\ calls[c].step = "count"
    BY <1>0, <1>7, NoCallType DEF Count, At
  <2>2. k.step = "stats" /\ k.op = calls[c].op /\ k.done = (Total # {} /\ InFlight = {})
    BY <1>0, <2>1, CountedOK
  <2>3. k.want.stats = Cardinality(InFlight)
    <3>1. calls[c].want \in Campaign
      BY <2>1 DEF Call
    <3>2. k.want = [calls[c].want EXCEPT !.stats = Cardinality(InFlight)]
      BY <2>1 DEF Counted, Call
    <3> HIDE DEF k
    <3> QED
      BY <3>1, <3>2 DEF Campaign
  <2>4. k.done => k.want.stats = 0
    BY <2>2, <2>3, FS_EmptySet
  <2>5. calls' = [calls EXCEPT ![c] = k] /\ cam' = cam
    BY <1>7 DEF Count
  <2> HIDE DEF k
  <2>6. calls'[c] = k
    BY <1>0, <2>5
  <2>7. CallCounts(c)
    BY <2>1, <2>2, <2>4, <2>5, <2>6 DEF CallCounts
  <2> QED
    BY <1>1, <2>5, <2>7 DEF CountsKept
<1>8. ASSUME NEW c \in Agents, UpdateStats(c) \/ Update(c)
      PROVE  \A d \in Agents : CountsKept(d)
  BY <1>2, <1>5, <1>8 DEF UpdateStats, Update, At, Steps
<1>9. ASSUME NEW c \in Agents, Conflict(c) \/ Enqueue(c) \/ Abandon(c) \/ Delete(c)
      PROVE  \A d \in Agents : CountsKept(d)
  BY <1>2, <1>9 DEF Conflict, Enqueue, Abandon, Delete
<1>10. ASSUME NEW c \in Agents, NEW S, IngestBatch(c, S)
       PROVE  \A d \in Agents : CountsKept(d)
  BY <1>3, <1>10 DEF IngestBatch
<1>11. CASE \/ \E r \in Recipients : SenderStep(r) \/ Bounce(r) \/ RetryDelivery(r)
            \/ \E S \in SUBSET Recipients : CancelRows(S)
            \/ RefreshRunning \/ Publish \/ BecomeDue \/ UNCHANGED vars
  BY <1>3, <1>11 DEF SenderStep, Claim, Finish, Settle, PutBack, LateResult, Bounce, SetRow, RetryDelivery,
     CancelRows, RefreshRunning, Publish, BecomeDue, vars
<1> QED
  BY <1>4, <1>6, <1>7, <1>8, <1>9, <1>10, <1>11 DEF Next, CallStep

LEMMA FinalCallsStep ==
  ASSUME OneFinalizer, StatsInv, [Next]_vars
  PROVE  FinalCalls'
<1>0. LifecycleInv /\ CompletedStatsAreFinal /\ FinalCalls
  BY DEF StatsInv
<1> SUFFICES ASSUME NEW c \in Finalizers, calls'[c] # NoCall
             PROVE  FinalCall(c)'
  BY DEF FinalCalls
<1>1. CountsKept(c) /\ c \in Agents
  BY <1>0, CountsSteps DEF Agents, Loops
\* Another status turns completed only when this finalizer gets to its event.
<1>2. cam'.status = "completed" => cam.status = "completed" \/ calls'[c].step = "event"
  <2> SUFFICES ASSUME cam'.status = "completed", cam.status # "completed"
               PROVE  calls'[c].step = "event"
    OBVIOUS
  <2>1. PICK d \in Agents : Update(d)
    BY <1>0, StatsSteps
  <2>2. calls[d] # NoCall /\ calls[d].op = "finalize"
    BY <1>0, <2>1, WriteByOperation DEF Update, At
  <2>3. d = c
    BY <1>0, <2>2, FinalizersAct DEF OneFinalizer
  <2>4. calls[c] \in Call /\ calls \in [Agents -> Call \cup {NoCall}]
    BY <1>0, <2>2, <2>3, NoCallType DEF LifecycleInv, TypeOK, Agents
  <2>5. calls' = [calls EXCEPT ![c].step = "event"]
    BY <2>1, <2>2, <2>3 DEF Update, Quiet
  <2>6. calls'[c] = [calls[c] EXCEPT !.step = "event"]
    BY <1>1, <2>4, <2>5
  <2> QED
    BY <2>4, <2>6, CallFields DEF Steps
<1>3. CASE calls'[c] = calls[c]
  <2>1. FinalCall(c)
    BY <1>0, <1>3 DEF FinalCalls
  <2> QED
    BY <1>2, <1>3, <2>1 DEF FinalCall
<1>4. CASE CallBegins(c)
  <2>1. FirstStep("finalize") = "count" /\ FirstStep("refresh") = "stats"
    BY DEF FirstStep
  <2> QED
    BY <1>0, <1>4, <2>1 DEF CallBegins, FinalCall, CompletedStatsAreFinal
<1>5. CASE CallMoves(c)
  <2>1. calls[c] # NoCall /\ FinalCall(c)
    BY <1>0, <1>5 DEF CallMoves, FinalCalls
  <2> QED
    BY <1>2, <1>5, <2>1 DEF CallMoves, FinalCall
<1>6. CASE CallCounts(c)
  <2>1. calls[c] # NoCall /\ FinalCall(c) /\ StepOK(c)
    BY <1>0, <1>1, <1>6 DEF CallCounts, FinalCalls, LifecycleInv, CallInv
  <2> QED
    BY <1>6, <2>1 DEF CallCounts, FinalCall, StepOK
<1> QED
  BY <1>1, <1>3, <1>4, <1>5, <1>6 DEF CountsKept

\* While one replica leads, the cached counts of a completed campaign are final:
\* nothing the finalizer counted earlier is written over them.
THEOREM CompletedCountsStay == OneFinalizer => (Spec => []CompletedStatsAreFinal)
<1> SUFFICES ASSUME OneFinalizer
             PROVE  Spec => []CompletedStatsAreFinal
  OBVIOUS
<1>1. Init => StatsInv
  BY LifecycleInit DEF Init, StatsInv, CompletedStatsAreFinal, FinalCalls, Loops
<1>2. StatsInv /\ [Next]_vars => StatsInv'
  BY FinalStep, FinalCallsStep, LifecycleNext DEF StatsInv
<1>3. StatsInv => CompletedStatsAreFinal
  BY DEF StatsInv
<1> QED
  BY <1>1, <1>2, <1>3, PTL DEF Spec
=============================================================================
