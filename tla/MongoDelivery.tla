---------------------------- MODULE MongoDelivery ----------------------------
(***************************************************************************)
(* The delivery queue on MongoDB (store/mongo/delivery.go), which has no   *)
(* transactions: Claim is three commands, the sweeps (lease reaper,        *)
(* canceller, manual retry) are two, Complete is one per result and one    *)
(* more for the attempts.  Each command is atomic for one document only,   *)
(* so UpdateMany is one step per document; a call may fail between any two *)
(* of them and leave what it has done.                                     *)
(*                                                                         *)
(* The rows are those of DeliveryRow with a claim_token next to them.      *)
(***************************************************************************)
EXTENDS DeliveryRow, FiniteSetsExt

CONSTANTS
  Rows,         \* the _ids; all belong to one running campaign
  Claimers,     \* claim loops running at the same time
  Tokens,       \* store.NewID: enough values for one that is not in use
  NoToken,      \* the empty claim_token
  NoCall,
  Limit,        \* ClaimRequest.Limit
  RetryStatuses, \* the statuses a campaign retry's filter names
  MaxAttempts,  \* a result after that many attempts is final
  MaxFaults     \* bound: failed commands, crashes, expired leases, operator calls

ASSUME MongoAssumption ==
  /\ IsFiniteSet(Rows)
  /\ NoToken \notin Tokens
  /\ Limit \in Nat \ {0}
  /\ RetryStatuses \subseteq Statuses
  /\ MaxAttempts \in Nat \ {0}
  /\ MaxFaults \in Nat

VARIABLES
  rows,      \* the delivery collection
  token,     \* claim_token of each document
  claims,    \* the Claim call of each claimer
  sweep,     \* the ReleaseExpiredLeases, BulkTransition or Requeue call
  jobs,      \* rows handed to a worker that has no result yet
  batch,     \* each worker's Complete call
  attempts,  \* how many documents of the attempt collection name each row
  faults,    \* how many faults the environment has left
  given      \* history: how often a Claim has returned the latest lease of each row

vars == <<rows, token, claims, sweep, jobs, batch, attempts, faults, given>>

\* ids: what step one found; todo: documents UpdateMany has yet to visit.
Claim == [w : Workers, token : Tokens, ids : SUBSET Rows, todo : SUBSET Rows]

\* requeue: RetryCampaign's filter by status; retry_one: RetryDelivery's by id.
SweepKinds == {"release", "cancel", "requeue", "retry_one"}

Sweep == [kind : SweepKinds, todo : SUBSET Rows]

Outcome == [r : Rows, status : {"sent", "deferred", "failed"}]

\* todo: results to apply; applied: rows whose attempt goes in at the end.
Batch == [todo : SUBSET Outcome, applied : SUBSET Rows]

Job == [w : Workers, r : Rows, stage : {"claimed", "marked"}]

TypeOK ==
  /\ rows \in [Rows -> Row]
  /\ token \in [Rows -> Tokens \cup {NoToken}]
  /\ claims \in [Claimers -> Claim \cup {NoCall}]
  /\ sweep \in Sweep \cup {NoCall}
  /\ jobs \subseteq Job
  /\ batch \in [Workers -> Batch]
  /\ attempts \in [Rows -> Nat]
  /\ faults \in 0..MaxFaults
  /\ given \in [Rows -> Nat]

-----------------------------------------------------------------------------

NoBatch == [todo |-> {}, applied |-> {}]

Init ==
  /\ rows = [r \in Rows |-> NewRow("pending")]
  /\ token = [r \in Rows |-> NoToken]
  /\ claims = [c \in Claimers |-> NoCall]
  /\ sweep = NoCall
  /\ jobs = {}
  /\ batch = [w \in Workers |-> NoBatch]
  /\ attempts = [r \in Rows |-> 0]
  /\ faults = MaxFaults
  /\ given = [r \in Rows |-> 1]

Fault == faults > 0 /\ faults' = faults - 1

\* findIDs: the first documents of the filter in some order.
FindIDs(match, limit) ==
  {S \in SUBSET match : Cardinality(S) = Min({limit, Cardinality(match)})}

\* The filter of Claim, in which the campaign is one the caller named.
Due(row) == Claimable(row, TRUE, TRUE)

\* store.NewID: a value no document and no call has.
Unused == {t \in Tokens : /\ \A r \in Rows : token[r] # t
                          /\ \A c \in Claimers : claims[c] # NoCall => claims[c].token # t}

NewID == CHOOSE t \in Unused : TRUE

-----------------------------------------------------------------------------
(* Claim.                                                                  *)

\* Step one, and the token of the call.
ClaimFind(c, w) ==
  /\ claims[c] = NoCall
  /\ Unused # {}
  /\ \E ids \in FindIDs({r \in Rows : Due(rows[r])}, Limit) :
       /\ ids # {}
       /\ claims' = [claims EXCEPT ![c] = [w |-> w, token |-> NewID, ids |-> ids, todo |-> ids]]
  /\ UNCHANGED <<rows, token, sweep, jobs, batch, attempts, faults, given>>

\* Step two's filter is step one's again, with the ids.
LeaseFilter(r) == Due(rows[r])

\* Step two, one document.
ClaimUpdate(c, r) ==
  /\ claims[c] # NoCall
  /\ r \in claims[c].todo
  /\ claims' = [claims EXCEPT ![c].todo = @ \ {r}]
  /\ IF LeaseFilter(r)
       THEN /\ rows' = [rows EXCEPT ![r] = Claimed(@, claims[c].w)]
            /\ token' = [token EXCEPT ![r] = claims[c].token]
            /\ given' = [given EXCEPT ![r] = 0]
       ELSE UNCHANGED <<rows, token, given>>
  /\ UNCHANGED <<sweep, jobs, batch, attempts, faults>>

\* Mutant: the rows are read back by the worker's ID.
WonByOwner(call) == {r \in call.ids : rows[r].owner = call.w}

\* Step three's filter: what this call won.
Won(call) == {r \in call.ids : token[r] = call.token}

\* Step three; the worker starts a job for every row it is given.
ClaimRead(c) ==
  /\ claims[c] # NoCall
  /\ claims[c].todo = {}
  /\ claims' = [claims EXCEPT ![c] = NoCall]
  /\ given' = [r \in Rows |-> given[r] + IF r \in Won(claims[c]) THEN 1 ELSE 0]
  /\ jobs' = jobs \cup {[w |-> claims[c].w, r |-> r, stage |-> "claimed"] : r \in Won(claims[c])}
  /\ UNCHANGED <<rows, token, sweep, batch, attempts, faults>>

\* Any of the commands fails or the process dies: nobody gets the rows.
ClaimFails(c) ==
  /\ claims[c] # NoCall
  /\ Fault
  /\ claims' = [claims EXCEPT ![c] = NoCall]
  /\ UNCHANGED <<rows, token, sweep, jobs, batch, attempts, given>>

-----------------------------------------------------------------------------
(* MarkSent and Complete.                                                  *)

\* The relay accepts the message.  MarkSent may fail or find the lease lost;
\* the job goes on to Complete all the same.
MarkSent(j) ==
  /\ j.stage = "claimed"
  /\ jobs' = (jobs \ {j}) \cup {[j EXCEPT !.stage = "marked"]}
  /\ \/ /\ rows' = [rows EXCEPT ![j.r] = IF MarkSentApplies(@, j.w) THEN MarkedSent(@) ELSE @]
        /\ UNCHANGED faults
     \/ Fault /\ UNCHANGED rows
  /\ UNCHANGED <<token, claims, sweep, batch, attempts, given>>

\* The result of a job: sent, or an attempt that failed.
OutcomeOf(j) ==
  [r |-> j.r, status |-> IF j.stage = "marked" THEN "sent"
                         ELSE IF rows[j.r].attempts + 1 >= MaxAttempts THEN "failed" ELSE "deferred"]

\* The batcher hands the results of some finished jobs to Complete.
Complete(w) ==
  /\ batch[w] = NoBatch
  /\ \E J \in SUBSET {j \in jobs : j.w = w} :
       /\ J # {}
       /\ Cardinality({j.r : j \in J}) = Cardinality(J)
       /\ jobs' = jobs \ J
       /\ batch' = [batch EXCEPT ![w].todo = {OutcomeOf(j) : j \in J}]
  /\ UNCHANGED <<rows, token, claims, sweep, attempts, faults, given>>

\* MatchedCount is not 0.
AttemptApplies(r, w) == CompleteApplies(rows[r], w)

\* UpdateOne for one result: it clears the lease and the token.
CompleteUpdate(w, res) ==
  /\ res \in batch[w].todo
  /\ IF CompleteApplies(rows[res.r], w)
       THEN /\ rows' = [rows EXCEPT ![res.r] =
                          Completed(@, [status |-> res.status, inc |-> TRUE, wait |-> 0])]
            /\ token' = [token EXCEPT ![res.r] = NoToken]
       ELSE UNCHANGED <<rows, token>>
  /\ batch' = [batch EXCEPT ![w] = [todo |-> @.todo \ {res},
                 applied |-> IF AttemptApplies(res.r, w) THEN @.applied \cup {res.r} ELSE @.applied]]
  /\ UNCHANGED <<claims, sweep, jobs, attempts, faults, given>>

\* The attempts of the results that applied go in as one insert.
CompleteInsert(w) ==
  /\ batch[w].todo = {} /\ batch[w] # NoBatch
  /\ attempts' = [r \in Rows |-> attempts[r] + IF r \in batch[w].applied THEN 1 ELSE 0]
  /\ batch' = [batch EXCEPT ![w] = NoBatch]
  /\ UNCHANGED <<rows, token, claims, sweep, jobs, faults, given>>

\* A command fails: flush drops the batch, the updates so far stay.
CompleteFails(w) ==
  /\ batch[w] # NoBatch
  /\ Fault
  /\ batch' = [batch EXCEPT ![w] = NoBatch]
  /\ UNCHANGED <<rows, token, claims, sweep, jobs, attempts, given>>

\* The worker dies with its jobs and its batch.
Crash(w) ==
  /\ \/ batch[w] # NoBatch
     \/ \E j \in jobs : j.w = w
  /\ Fault
  /\ jobs' = {j \in jobs : j.w # w}
  /\ batch' = [batch EXCEPT ![w] = NoBatch]
  /\ UNCHANGED <<rows, token, claims, sweep, attempts, given>>

\* markTerminal: the claim_token stays.
MarkTerminal(r) ==
  /\ MarkTerminalApplies(rows[r])
  /\ Fault
  /\ \E to \in {"bounced", "complained"} : rows' = [rows EXCEPT ![r] = MarkedTerminal(@, to)]
  /\ UNCHANGED <<token, claims, sweep, jobs, batch, attempts, given>>

-----------------------------------------------------------------------------
(* The sweeps.                                                             *)

\* The filter of each sweep: Requeue looks at the status only when told to.
SweepFilter(kind, row) ==
  CASE kind = "release" -> Expired(row)
    [] kind = "cancel"  -> Cancellable(row)
    [] kind = "requeue" -> row.status \in RetryStatuses
    [] kind = "retry_one" -> TRUE

\* Mutant: the reaper clears the lease and leaves the row leased.
SweepEffectLeased(kind, row) ==
  CASE kind = "release" -> Unleased(row)
    [] kind = "cancel"  -> BulkCancelled(row)
    [] kind \in {"requeue", "retry_one"} -> Requeued(row)

\* What each sweep sets.
SweepEffect(kind, row) ==
  CASE kind = "release" -> Released(row)
    [] kind = "cancel"  -> BulkCancelled(row)
    [] kind \in {"requeue", "retry_one"} -> Requeued(row)

SweepFind(kind) ==
  /\ sweep = NoCall
  /\ \E ids \in FindIDs({r \in Rows : SweepFilter(kind, rows[r])}, Limit) :
       ids # {} /\ sweep' = [kind |-> kind, todo |-> ids]
  /\ UNCHANGED <<rows, token, claims, jobs, batch, attempts, given>>

\* The leader's reaper runs whenever there is something to release.
ReleaseExpiredLeases == SweepFind("release") /\ UNCHANGED faults

\* The canceller and the campaign's retry run when an operator calls them.
OperatorSweep == \E kind \in {"cancel", "requeue"} : SweepFind(kind) /\ Fault

\* RetryDelivery: the row is finished when it is read; the Requeue that follows
\* names its id and no status.
RetryDelivery(r) ==
  /\ sweep = NoCall
  /\ rows[r].status \in Terminal
  /\ Fault
  /\ sweep' = [kind |-> "retry_one", todo |-> {r}]
  /\ UNCHANGED <<rows, token, claims, jobs, batch, attempts, given>>

\* Mutant: UpdateMany by the ids alone.
SweepStillMatchesIds(kind, r) == kind \in SweepKinds /\ r \in Rows

\* UpdateMany carries the filter next to the ids.
SweepStillMatches(kind, r) == SweepFilter(kind, rows[r])

\* One document; BulkTransition leaves the lease and the token alone.
SweepUpdate(r) ==
  /\ sweep # NoCall /\ r \in sweep.todo
  /\ sweep' = IF sweep.todo = {r} THEN NoCall ELSE [sweep EXCEPT !.todo = @ \ {r}]
  /\ IF SweepStillMatches(sweep.kind, r)
       THEN /\ rows' = [rows EXCEPT ![r] = SweepEffect(sweep.kind, @)]
            /\ token' = IF sweep.kind = "cancel" THEN token ELSE [token EXCEPT ![r] = NoToken]
       ELSE UNCHANGED <<rows, token>>
  /\ UNCHANGED <<claims, jobs, batch, attempts, faults, given>>

\* A command of the sweep fails.  The calls of operators are bounded already.
SweepFails ==
  /\ sweep # NoCall
  /\ IF sweep.kind = "release" THEN Fault ELSE UNCHANGED faults
  /\ sweep' = NoCall
  /\ UNCHANGED <<rows, token, claims, jobs, batch, attempts, given>>

\* The lease runs out: surely when nobody works on the row any more, and now
\* and then while somebody does.
Orphaned(r) ==
  /\ \A j \in jobs : j.r # r
  /\ \A w \in Workers : \A res \in batch[w].todo : res.r # r
  /\ \A c \in Claimers : claims[c] # NoCall => r \notin claims[c].ids

LeaseRunsOut(r) ==
  /\ rows[r].status = "leased" /\ rows[r].lease >= 0
  /\ IF Orphaned(r) THEN UNCHANGED faults ELSE Fault
  /\ rows' = [rows EXCEPT ![r].lease = -1]
  /\ UNCHANGED <<token, claims, sweep, jobs, batch, attempts, given>>

-----------------------------------------------------------------------------

\* Every row is settled and every call has returned.
Settled ==
  /\ \A r \in Rows : rows[r].status \in Terminal
  /\ \A c \in Claimers : claims[c] = NoCall
  /\ sweep = NoCall /\ jobs = {} /\ batch = [w \in Workers |-> NoBatch]

Next ==
  \/ \E c \in Claimers :
       \/ \E w \in Workers : ClaimFind(c, w)
       \/ \E r \in Rows : ClaimUpdate(c, r)
       \/ ClaimRead(c) \/ ClaimFails(c)
  \/ \E j \in jobs : MarkSent(j)
  \/ \E w \in Workers :
       \/ Complete(w) \/ CompleteInsert(w) \/ CompleteFails(w) \/ Crash(w)
       \/ \E res \in batch[w].todo : CompleteUpdate(w, res)
  \/ ReleaseExpiredLeases \/ OperatorSweep \/ SweepFails
  \/ \E r \in Rows : SweepUpdate(r) \/ RetryDelivery(r) \/ MarkTerminal(r) \/ LeaseRunsOut(r)
  \/ Settled /\ UNCHANGED vars

Spec == Init /\ [][Next]_vars

\* The loops of the replicas and of the leader run, and calls go on.
Fairness ==
  /\ \A c \in Claimers :
       WF_vars(\/ \E w \in Workers : ClaimFind(c, w)
               \/ \E r \in Rows : ClaimUpdate(c, r)
               \/ ClaimRead(c))
  /\ \A w \in Workers :
       WF_vars(Complete(w) \/ CompleteInsert(w) \/ \E res \in batch[w].todo : CompleteUpdate(w, res))
  /\ WF_vars(ReleaseExpiredLeases \/ \E r \in Rows : SweepUpdate(r))
  /\ \A r \in Rows : WF_vars(LeaseRunsOut(r) /\ faults' = faults)

FairSpec == Spec /\ Fairness

-----------------------------------------------------------------------------
(* Properties.                                                             *)

Held == {r \in Rows : rows[r].status = "leased"}

\* The three steps implement the contract: no row is leased twice at a time,
\* and none is handed to two callers, not even of one worker ID.
Contract == INSTANCE DeliveryLeases WITH held <- Held

ClaimIsExclusive == Contract!Spec

\* An operator's retry that covers the row as it is now.
RetryCovers(r) ==
  /\ sweep # NoCall /\ r \in sweep.todo
  /\ \/ sweep.kind = "retry_one"
     \/ sweep.kind = "requeue" /\ rows[r].status \in RetryStatuses

SweepStep ==
  \A r \in Rows :
    rows[r].status \in {"leased", "sent"} /\ rows'[r].status \in Waiting
      => batch' # batch \/ Expired(rows[r]) \/ RetryCovers(r)

\* The sweeps act on what a row is by then, not on what it was when they found
\* it: a row that is leased or sent goes back to the queue only by a result of its
\* owner, when its lease has run out, or by a retry that names the delivery or its
\* status.
BusyIsNotSwept == [][SweepStep]_vars

\* No failure loses a row: each one is settled in the end.
EventuallySettled == \A r \in Rows : <>[](rows[r].status \in Terminal)
=============================================================================
