----------------------------- MODULE LeaderLease -----------------------------
(***************************************************************************)
(* The election of the control leader: internal/control/leader.go on the   *)
(* lock row of LockRepo (store/postgres/misc.go).  A replica acquires the  *)
(* lease, runs the loops, renews at a third of the ttl, and stops the      *)
(* loops before it gives the lease back.                                   *)
(*                                                                         *)
(* expires_at is only compared with now, so the lock carries left, the     *)
(* distance between them, stopping at 0 (expired).  Every replica passes   *)
(* its own clock to the store; skew is how far that clock is ahead.        *)
(***************************************************************************)
EXTENDS Integers, FiniteSets

CONSTANTS
  Replicas,
  NoOwner,
  TTL,         \* leaderTTL in ticks
  RenewEvery,  \* leaderTTL / 3
  MaxSkew,     \* bound: how far one replica's clock is ahead of another's
  MaxFaults    \* bound: pauses, lost replies, store errors and crashes

ASSUME LeaseAssumption ==
  /\ NoOwner \notin Replicas
  /\ TTL \in Nat
  /\ RenewEvery \in 1..(TTL - 1)
  /\ MaxSkew \in Nat
  /\ MaxFaults \in Nat

VARIABLES
  lock,     \* the lock row: owner and left
  pc,       \* what each replica's Leader is doing
  renewIn,  \* each replica's renewal ticker
  skew,     \* each replica's clock offset
  faults    \* how many faults are left

leaseVars == <<lock, pc, renewIn, skew, faults>>

Free == [owner |-> NoOwner, left |-> 0]

LeaseTypeOK ==
  /\ lock \in [owner : Replicas \cup {NoOwner}, left : Nat]
  /\ pc \in [Replicas -> {"idle", "leading", "stopping", "releasing"}]
  /\ renewIn \in [Replicas -> Nat]
  /\ skew \in [Replicas -> 0..MaxSkew]
  /\ faults \in 0..MaxFaults

\* The replicas whose loops are running: from hold until <-done.
Writers == {r \in Replicas : pc[r] \in {"leading", "stopping"}}

Fault == faults > 0 /\ faults' = faults - 1

Held(r) == [owner |-> r, left |-> TTL + skew[r]]

LeaseInit ==
  /\ lock = Free
  /\ pc = [r \in Replicas |-> "idle"]
  /\ renewIn = [r \in Replicas |-> 0]
  /\ skew \in [Replicas -> 0..MaxSkew]
  /\ faults = MaxFaults

-----------------------------------------------------------------------------

\* Mutants: a lease about to expire is taken for expired; an expired lease is
\* not taken over.
AcquirableEarly(r) == lock.owner \in {NoOwner, r} \/ lock.left <= skew[r] + 1

AcquirableIfFree(r) == lock.owner = NoOwner /\ r \in Replicas

\* Acquire's conflict clause: free, already ours, or expired by our clock.
Acquirable(r) == lock.owner \in {NoOwner, r} \/ lock.left <= skew[r]

\* attempt and the start of hold.
Acquire(r) ==
  /\ pc[r] = "idle"
  /\ Acquirable(r)
  /\ lock' = Held(r)
  /\ pc' = [pc EXCEPT ![r] = "leading"]
  /\ renewIn' = [renewIn EXCEPT ![r] = RenewEvery]
  /\ UNCHANGED <<skew, faults>>

\* The lease is taken but the reply is lost: attempt logs an error and returns.
AcquireReplyLost(r) ==
  /\ pc[r] = "idle"
  /\ Acquirable(r)
  /\ Fault
  /\ lock' = Held(r)
  /\ UNCHANGED <<pc, renewIn, skew>>

Renewable(r) == lock.owner = r /\ lock.left > skew[r]

Renew(r) ==
  /\ pc[r] = "leading"
  /\ renewIn[r] = 0
  /\ Renewable(r)
  /\ lock' = Held(r)
  /\ renewIn' = [renewIn EXCEPT ![r] = RenewEvery]
  /\ UNCHANGED <<pc, skew, faults>>

\* Renew says the lease is gone ...
LeaseLost(r) ==
  /\ pc[r] = "leading"
  /\ renewIn[r] = 0
  /\ ~Renewable(r)
  /\ pc' = [pc EXCEPT ![r] = "stopping"]
  /\ UNCHANGED <<lock, renewIn, skew, faults>>

\* ... or fails, possibly after the store renewed it ...
RenewFails(r) ==
  /\ pc[r] = "leading"
  /\ renewIn[r] = 0
  /\ Fault
  /\ lock' \in {lock, IF Renewable(r) THEN Held(r) ELSE lock}
  /\ pc' = [pc EXCEPT ![r] = "stopping"]
  /\ UNCHANGED <<renewIn, skew>>

\* ... or the process shuts down: stopLoops.
Shutdown(r) ==
  /\ pc[r] = "leading"
  /\ pc' = [pc EXCEPT ![r] = "stopping"]
  /\ UNCHANGED <<lock, renewIn, skew, faults>>

\* <-done: the last loop has returned.
LoopsStopped(r) ==
  /\ pc[r] = "stopping"
  /\ pc' = [pc EXCEPT ![r] = "releasing"]
  /\ UNCHANGED <<lock, renewIn, skew, faults>>

\* Mutant: Release deletes the lock whoever owns it.
ReleasedAnyway(r) == IF r \in Replicas THEN Free ELSE lock

\* Release deletes the row only if it still names this owner.
Released(r) == IF lock.owner = r THEN Free ELSE lock

Release(r) ==
  /\ pc[r] = "releasing"
  /\ lock' = Released(r)
  /\ pc' = [pc EXCEPT ![r] = "idle"]
  /\ UNCHANGED <<renewIn, skew, faults>>

\* Release fails or times out: a warning.
ReleaseFails(r) ==
  /\ pc[r] = "releasing"
  /\ Fault
  /\ pc' = [pc EXCEPT ![r] = "idle"]
  /\ UNCHANGED <<lock, renewIn, skew>>

\* The process dies and comes back.
Crash(r) ==
  /\ pc[r] # "idle"
  /\ Fault
  /\ pc' = [pc EXCEPT ![r] = "idle"]
  /\ UNCHANGED <<lock, renewIn, skew>>

\* A replica is late: its renewal is due, or its loops are still stopping when
\* the last of the lease runs out.
Late(r) ==
  \/ pc[r] = "leading" /\ renewIn[r] = 0
  \/ pc[r] = "stopping" /\ lock.left <= 1

\* Time passes.  That a replica is paused past its renewal is a fault.
Tick ==
  /\ IF \E r \in Replicas : Late(r) THEN Fault ELSE UNCHANGED faults
  /\ lock' = [lock EXCEPT !.left = IF @ > 0 THEN @ - 1 ELSE @]
  /\ renewIn' = [r \in Replicas |-> IF renewIn[r] > 0 THEN renewIn[r] - 1 ELSE 0]
  /\ UNCHANGED <<pc, skew>>

ReplicaStep(r) ==
  \/ Acquire(r)
  \/ AcquireReplyLost(r)
  \/ Renew(r)
  \/ LeaseLost(r)
  \/ RenewFails(r)
  \/ Shutdown(r)
  \/ LoopsStopped(r)
  \/ Release(r)
  \/ ReleaseFails(r)
  \/ Crash(r)

LeaseNext == (\E r \in Replicas : ReplicaStep(r)) \/ Tick

LeaseSpec == LeaseInit /\ [][LeaseNext]_leaseVars

-----------------------------------------------------------------------------

OneWriter == \A r, s \in Writers : r = s

\* leader.go: "runs the registered loops on exactly one replica at a time", "a
\* replica which lost the lease ... stops writing before another replica starts".
\* The lease excludes a second writer as long as nothing is late or lost and the
\* clocks agree.
OverlapNeedsFault ==
  (faults = MaxFaults /\ \A r \in Replicas : skew[r] = 0) => OneWriter

\* A live lease changes hands only when its owner gives it back: neither a late
\* Release nor a late Renew of a former leader takes it from the new one.
HandoverStep ==
  \A r \in Replicas :
    (lock.owner = r /\ lock.left > MaxSkew /\ lock'.owner # r)
      => pc[r] = "releasing" /\ pc'[r] = "idle"

LeaseNotStolen == [][HandoverStep]_leaseVars

-----------------------------------------------------------------------------

\* Timers fire, and calls to the store return.
LeaseFairness ==
  /\ WF_leaseVars(Tick)
  /\ \A r \in Replicas :
       /\ WF_leaseVars(Renew(r) \/ LeaseLost(r))
       /\ WF_leaseVars(LoopsStopped(r))
       /\ WF_leaseVars(Release(r))
       /\ WF_leaseVars(Acquire(r))

FairLeaseSpec == LeaseSpec /\ LeaseFairness

\* Whatever is lost or crashes, the loops are run again by a replica that holds
\* the lease.
LeaderComesBack == []<>(\E r \in Replicas : pc[r] = "leading" /\ lock.owner = r)
=============================================================================
