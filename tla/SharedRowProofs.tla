--------------------------- MODULE SharedRowProofs ---------------------------
(***************************************************************************)
(* Proofs about rows that several processes write, each on what it read    *)
(* before.  Deliveries in MongoDB (MongoDelivery), for any number of rows, *)
(* claimers, workers and faults: they implement DeliveryLeases, and no     *)
(* sweep undoes a delivery that was sent.  The status row of a transport   *)
(* (TransportHealth), for any replicas, workers and probe passes, any      *)
(* thresholds and times, and any number of upsets: a transport the cluster *)
(* has shut is left alone, and cooldowns outlast bursts.                   *)
(***************************************************************************)
EXTENDS MongoDelivery, TransportHealth, DeliveryRowProofs, TLAPS

-----------------------------------------------------------------------------
(* The MongoDB deliveries: type correctness.                               *)

\* A sweep's update keeps a row well formed.
LEMMA SweepEffectType ==
  ASSUME NEW kind \in SweepKinds, NEW doc \in Row
  PROVE  SweepEffect(kind, doc) \in Row
<1>1. CASE kind = "release"
  BY <1>1, RowType DEF SweepEffect
<1>2. CASE kind = "cancel"
  BY <1>2, RowType DEF SweepEffect
<1>3. CASE kind \in {"requeue", "retry_one"}
  BY <1>3, RowType DEF SweepEffect
<1> QED BY <1>1, <1>2, <1>3 DEF SweepKinds

\* findIDs returns documents of the filter.
LEMMA FindIDsType ==
  ASSUME NEW match, NEW limit, NEW ids \in FindIDs(match, limit)
  PROVE  ids \subseteq match
BY DEF FindIDs

\* The steps of Claim keep the state typed.
LEMMA ClaimTyped ==
  ASSUME TypeOK, NEW c \in Claimers,
         \/ \E w \in Workers : ClaimFind(c, w)
         \/ \E r \in Rows : ClaimUpdate(c, r)
         \/ ClaimRead(c) \/ ClaimFails(c)
  PROVE  TypeOK'
<1> USE DEF TypeOK
<1>1. ASSUME NEW w \in Workers, ClaimFind(c, w) PROVE TypeOK'
  <2>1. PICK ids \in FindIDs({r \in Rows : Due(rows[r])}, Limit) :
          claims' = [claims EXCEPT ![c] = [w |-> w, token |-> NewID, ids |-> ids, todo |-> ids]]
    BY <1>1 DEF ClaimFind
  <2>2. ids \subseteq Rows
    BY FindIDsType
  <2>3. NewID \in Tokens
    BY <1>1 DEF ClaimFind, NewID, Unused
  <2>4. [w |-> w, token |-> NewID, ids |-> ids, todo |-> ids] \in Claim
    BY <2>2, <2>3 DEF Claim
  <2>5. claims' \in [Claimers -> Claim \cup {NoCall}]
    BY <2>1, <2>4
  <2> QED BY <1>1, <2>5 DEF ClaimFind
<1>2. ASSUME NEW r \in Rows, ClaimUpdate(c, r) PROVE TypeOK'
  <2>1. claims[c] \in Claim
    BY <1>2 DEF ClaimUpdate
  <2>2. [claims[c] EXCEPT !.todo = @ \ {r}] \in Claim /\ claims[c].w \in Workers /\ claims[c].token \in Tokens
    BY <2>1 DEF Claim
  <2>3. claims' \in [Claimers -> Claim \cup {NoCall}]
    BY <1>2, <2>2 DEF ClaimUpdate
  <2>4. Claimed(rows[r], claims[c].w) \in Row
    BY <2>2, RowType
  <2>5. /\ rows' \in [Rows -> Row]
        /\ token' \in [Rows -> Tokens \cup {NoToken}]
        /\ given' \in [Rows -> Nat]
    BY <1>2, <2>2, <2>4 DEF ClaimUpdate
  <2> QED BY <1>2, <2>3, <2>5 DEF ClaimUpdate
<1>3. ASSUME ClaimRead(c) PROVE TypeOK'
  <2>1. claims[c] \in Claim
    BY <1>3 DEF ClaimRead
  <2>2. claims[c].w \in Workers /\ claims[c].ids \subseteq Rows
    BY <2>1 DEF Claim
  <2>3. Won(claims[c]) \subseteq Rows
    BY <2>2 DEF Won
  <2>4. jobs' \subseteq Job
    BY <1>3, <2>2, <2>3 DEF ClaimRead, Job
  <2>5. given' \in [Rows -> Nat]
    BY <1>3 DEF ClaimRead
  <2> QED BY <1>3, <2>4, <2>5 DEF ClaimRead
<1>4. ASSUME ClaimFails(c) PROVE TypeOK'
  BY <1>4, MongoAssumption DEF ClaimFails, Fault
<1> QED BY <1>1, <1>2, <1>3, <1>4

\* MarkSent, Complete, a crash and markTerminal keep the state typed.
LEMMA ResultTyped ==
  ASSUME TypeOK,
         \/ \E j \in jobs : MarkSent(j)
         \/ \E w \in Workers :
              \/ Complete(w) \/ CompleteInsert(w) \/ CompleteFails(w) \/ Crash(w)
              \/ \E res \in batch[w].todo : CompleteUpdate(w, res)
         \/ \E r \in Rows : MarkTerminal(r)
  PROVE  TypeOK'
<1> USE DEF TypeOK
<1>a. NoBatch \in Batch
  BY DEF NoBatch, Batch
<1>1. ASSUME NEW j \in jobs, MarkSent(j) PROVE TypeOK'
  <2>1. j \in Job /\ j.r \in Rows /\ [j EXCEPT !.stage = "marked"] \in Job
    BY DEF Job
  <2>2. MarkedSent(rows[j.r]) \in Row
    BY <2>1, RowType
  <2>3. rows' \in [Rows -> Row]
    BY <1>1, <2>1, <2>2 DEF MarkSent
  <2>4. jobs' \subseteq Job
    BY <1>1, <2>1 DEF MarkSent
  <2>5. faults' \in 0..MaxFaults
    BY <1>1, MongoAssumption DEF MarkSent, Fault
  <2> QED BY <1>1, <2>3, <2>4, <2>5 DEF MarkSent
<1>2. ASSUME NEW w \in Workers, Complete(w) PROVE TypeOK'
  <2>1. PICK J \in SUBSET {j \in jobs : j.w = w} :
          /\ jobs' = jobs \ J
          /\ batch' = [batch EXCEPT ![w].todo = {OutcomeOf(j) : j \in J}]
    BY <1>2 DEF Complete
  <2>2. \A j \in J : OutcomeOf(j) \in Outcome
    <3> SUFFICES ASSUME NEW j \in J PROVE OutcomeOf(j) \in Outcome
      OBVIOUS
    <3>1. j.r \in Rows
      BY DEF Job
    <3> QED BY <3>1 DEF OutcomeOf, Outcome
  <2>3. [batch[w] EXCEPT !.todo = {OutcomeOf(j) : j \in J}] \in Batch
    BY <2>2 DEF Batch
  <2>4. batch' \in [Workers -> Batch]
    BY <2>1, <2>3
  <2> QED BY <1>2, <2>1, <2>4 DEF Complete
<1>3. ASSUME NEW w \in Workers, NEW res \in batch[w].todo, CompleteUpdate(w, res) PROVE TypeOK'
  <2>1. batch[w] \in Batch /\ res \in Outcome
    BY DEF Batch
  <2>2. res.r \in Rows /\ res.status \in Statuses
    BY <2>1 DEF Outcome, Statuses, Waiting, Terminal
  <2>3. [status |-> res.status, inc |-> TRUE, wait |-> 0] \in Result
    BY <2>2 DEF Result
  <2>4. Completed(rows[res.r], [status |-> res.status, inc |-> TRUE, wait |-> 0]) \in Row
    BY <2>2, <2>3, RowType
  <2>5. rows' \in [Rows -> Row] /\ token' \in [Rows -> Tokens \cup {NoToken}]
    BY <1>3, <2>2, <2>4 DEF CompleteUpdate
  <2> DEFINE B == [todo |-> batch[w].todo \ {res},
                   applied |-> IF AttemptApplies(res.r, w) THEN batch[w].applied \cup {res.r}
                                                          ELSE batch[w].applied]
  <2>6. B \in Batch
    BY <2>1, <2>2 DEF Batch
  <2>7. batch' = [batch EXCEPT ![w] = B]
    BY <1>3 DEF CompleteUpdate
  <2> HIDE DEF B
  <2>8. batch' \in [Workers -> Batch]
    BY <2>6, <2>7
  <2> QED BY <1>3, <2>5, <2>8 DEF CompleteUpdate
<1>4. ASSUME NEW w \in Workers, CompleteInsert(w) PROVE TypeOK'
  BY <1>4, <1>a DEF CompleteInsert
<1>5. ASSUME NEW w \in Workers, CompleteFails(w) PROVE TypeOK'
  BY <1>5, <1>a, MongoAssumption DEF CompleteFails, Fault
<1>6. ASSUME NEW w \in Workers, Crash(w) PROVE TypeOK'
  BY <1>6, <1>a, MongoAssumption DEF Crash, Fault
<1>7. ASSUME NEW r \in Rows, MarkTerminal(r) PROVE TypeOK'
  <2>1. \A to \in {"bounced", "complained"} : MarkedTerminal(rows[r], to) \in Row
    BY RowType DEF Statuses, Terminal
  <2>2. rows' \in [Rows -> Row]
    BY <1>7, <2>1 DEF MarkTerminal
  <2> QED BY <1>7, <2>2, MongoAssumption DEF MarkTerminal, Fault
<1> QED BY <1>1, <1>2, <1>3, <1>4, <1>5, <1>6, <1>7

\* The sweeps and the passing of a lease keep the state typed.
LEMMA SweepTyped ==
  ASSUME TypeOK,
         \/ ReleaseExpiredLeases \/ OperatorSweep \/ SweepFails
         \/ \E r \in Rows : SweepUpdate(r) \/ RetryDelivery(r) \/ LeaseRunsOut(r)
  PROVE  TypeOK'
<1> USE DEF TypeOK
<1>1. ASSUME NEW kind \in SweepKinds, SweepFind(kind), faults' \in 0..MaxFaults PROVE TypeOK'
  <2>1. PICK ids \in FindIDs({r \in Rows : SweepFilter(kind, rows[r])}, Limit) :
          sweep' = [kind |-> kind, todo |-> ids]
    BY <1>1 DEF SweepFind
  <2>2. ids \subseteq Rows
    BY FindIDsType
  <2>3. sweep' \in Sweep
    BY <2>1, <2>2 DEF Sweep
  <2> QED BY <1>1, <2>3 DEF SweepFind
<1>2. CASE ReleaseExpiredLeases
  BY <1>1, <1>2 DEF ReleaseExpiredLeases, SweepKinds
<1>3. CASE OperatorSweep
  <2>1. PICK kind \in {"cancel", "requeue"} : SweepFind(kind) /\ Fault
    BY <1>3 DEF OperatorSweep
  <2> QED BY <1>1, <2>1, MongoAssumption DEF SweepKinds, Fault
<1>4. CASE SweepFails
  BY <1>4, MongoAssumption DEF SweepFails, Fault
<1>4a. ASSUME NEW r \in Rows, RetryDelivery(r) PROVE TypeOK'
  <2>1. sweep' \in Sweep /\ faults' \in 0..MaxFaults
    BY <1>4a, MongoAssumption DEF RetryDelivery, Fault, Sweep, SweepKinds
  <2> QED BY <1>4a, <2>1 DEF RetryDelivery
<1>5. ASSUME NEW r \in Rows, SweepUpdate(r) PROVE TypeOK'
  <2>1. sweep \in Sweep /\ sweep.kind \in SweepKinds
    BY <1>5 DEF SweepUpdate, Sweep
  <2>2. [sweep EXCEPT !.todo = @ \ {r}] \in Sweep
    BY <2>1 DEF Sweep
  <2>3. SweepEffect(sweep.kind, rows[r]) \in Row
    BY <2>1, SweepEffectType
  <2>4. rows' \in [Rows -> Row] /\ token' \in [Rows -> Tokens \cup {NoToken}]
    BY <1>5, <2>3 DEF SweepUpdate
  <2>5. sweep' \in Sweep \cup {NoCall}
    BY <1>5, <2>2 DEF SweepUpdate
  <2> QED BY <1>5, <2>4, <2>5 DEF SweepUpdate
<1>6. ASSUME NEW r \in Rows, LeaseRunsOut(r) PROVE TypeOK'
  <2>1. [rows[r] EXCEPT !.lease = -1] \in Row
    <3>1. rows[r] \in Row /\ -1 \in Int
      OBVIOUS
    <3> QED BY <3>1, FieldType
  <2>2. rows' \in [Rows -> Row]
    BY <1>6, <2>1 DEF LeaseRunsOut
  <2>3. faults' \in 0..MaxFaults
    BY <1>6, MongoAssumption DEF LeaseRunsOut, Fault
  <2> QED BY <1>6, <2>2, <2>3 DEF LeaseRunsOut
<1> QED BY <1>2, <1>3, <1>4, <1>4a, <1>5, <1>6

\* Every reachable state of the collections and of the calls is well typed:
\* a call only ever marks documents with a token of its own and the batches
\* hold results that Complete can apply.
THEOREM TypeCorrect == Spec => []TypeOK
<1>1. Init => TypeOK
  <2> SUFFICES ASSUME Init PROVE TypeOK
    OBVIOUS
  <2>1. NewRow("pending") \in Row
    BY DEF NewRow, Row, Statuses, Waiting
  <2>2. NoBatch \in Batch
    BY DEF NoBatch, Batch
  <2> QED BY <2>1, <2>2, MongoAssumption DEF Init, TypeOK
<1>2. TypeOK /\ [Next]_vars => TypeOK'
  <2> SUFFICES ASSUME TypeOK, [Next]_vars PROVE TypeOK'
    OBVIOUS
  <2>1. CASE Next
    BY <2>1, ClaimTyped, ResultTyped, SweepTyped DEF Next, TypeOK, vars
  <2>2. CASE UNCHANGED vars
    BY <2>2 DEF TypeOK, vars
  <2> QED BY <2>1, <2>2
<1> QED BY <1>1, <1>2, PTL DEF Spec
-----------------------------------------------------------------------------
(* The tokens.                                                             *)

\* No two calls in progress have the same token.
TokensDistinct ==
  \A c, d \in Claimers :
    claims[c] # NoCall /\ claims[d] # NoCall /\ c # d => claims[c].token # claims[d].token

\* A document that carries the token of a call in progress was leased by it,
\* and that lease has not been handed out.
TokensUngiven ==
  \A c \in Claimers, r \in Rows :
    claims[c] # NoCall /\ token[r] = claims[c].token => given[r] = 0

\* A step that starts no call and only takes tokens away keeps both.
LEMMA TokensKept ==
  ASSUME TypeOK, TokensDistinct, TokensUngiven, UNCHANGED <<claims, given>>,
         \A r \in Rows : token'[r] \in {token[r], NoToken}
  PROVE  TokensDistinct' /\ TokensUngiven'
<1>1. TokensDistinct'
  BY DEF TokensDistinct
<1>2. TokensUngiven'
  <2> SUFFICES ASSUME NEW c \in Claimers, NEW r \in Rows, claims[c] # NoCall,
                      token'[r] = claims[c].token
               PROVE  given[r] = 0
    BY DEF TokensUngiven
  <2>1. claims[c].token \in Tokens
    BY DEF TypeOK, Claim
  <2>2. token[r] = claims[c].token
    BY <2>1, MongoAssumption
  <2> QED BY <2>2 DEF TokensUngiven
<1> QED BY <1>1, <1>2

\* The steps of Claim keep both: the token is new, and the lease it marks is
\* handed out when the call ends.
LEMMA ClaimTokens ==
  ASSUME TypeOK, TokensDistinct, TokensUngiven, NEW c \in Claimers,
         \/ \E w \in Workers : ClaimFind(c, w)
         \/ \E r \in Rows : ClaimUpdate(c, r)
         \/ ClaimRead(c) \/ ClaimFails(c)
  PROVE  TokensDistinct' /\ TokensUngiven'
<1> USE DEF TypeOK
<1>1. ASSUME NEW w \in Workers, ClaimFind(c, w) PROVE TokensDistinct' /\ TokensUngiven'
  <2>1. PICK ids \in FindIDs({r \in Rows : Due(rows[r])}, Limit) :
          claims' = [claims EXCEPT ![c] = [w |-> w, token |-> NewID, ids |-> ids, todo |-> ids]]
    BY <1>1 DEF ClaimFind
  <2>2. NewID \in Unused
    BY <1>1 DEF ClaimFind, NewID
  <2>3. claims'[c].token = NewID /\ \A d \in Claimers : d # c => claims'[d] = claims[d]
    BY <2>1
  <2>4. UNCHANGED <<token, given>>
    BY <1>1 DEF ClaimFind
  <2>5. TokensDistinct'
    BY <2>2, <2>3 DEF TokensDistinct, Unused
  <2>6. TokensUngiven'
    BY <2>2, <2>3, <2>4 DEF TokensUngiven, Unused
  <2> QED BY <2>5, <2>6
<1>2. ASSUME NEW r \in Rows, ClaimUpdate(c, r) PROVE TokensDistinct' /\ TokensUngiven'
  <2>1. claims[c] \in Claim
    BY <1>2 DEF ClaimUpdate
  <2>2. /\ claims'[c].token = claims[c].token
        /\ \A d \in Claimers : d # c => claims'[d] = claims[d]
        /\ claims[c] # NoCall
    BY <1>2, <2>1 DEF ClaimUpdate, Claim
  <2>3. TokensDistinct'
    BY <2>2 DEF TokensDistinct
  <2>4. CASE LeaseFilter(r)
    <3>1. /\ token'[r] = claims[c].token /\ given'[r] = 0
          /\ \A s \in Rows : s # r => token'[s] = token[s] /\ given'[s] = given[s]
      BY <1>2, <2>4 DEF ClaimUpdate
    <3> QED BY <2>2, <2>3, <3>1 DEF TokensUngiven
  <2>5. CASE ~LeaseFilter(r)
    <3>1. UNCHANGED <<token, given>>
      BY <1>2, <2>5 DEF ClaimUpdate
    <3> QED BY <2>2, <2>3, <3>1 DEF TokensUngiven
  <2> QED BY <2>4, <2>5
<1>3. ASSUME ClaimRead(c) PROVE TokensDistinct' /\ TokensUngiven'
  <2>1. /\ claims'[c] = NoCall
        /\ \A d \in Claimers : d # c => claims'[d] = claims[d]
        /\ claims[c] # NoCall
        /\ UNCHANGED token
    BY <1>3 DEF ClaimRead
  <2>2. \A r \in Rows : r \notin Won(claims[c]) => given'[r] = given[r]
    BY <1>3 DEF ClaimRead
  <2>3. \A r \in Rows : r \in Won(claims[c]) => token[r] = claims[c].token
    BY DEF Won
  <2>4. TokensDistinct'
    BY <2>1 DEF TokensDistinct
  <2>5. TokensUngiven'
    <3> SUFFICES ASSUME NEW d \in Claimers, NEW r \in Rows, claims'[d] # NoCall,
                        token[r] = claims'[d].token
                 PROVE  given'[r] = 0
      BY <2>1 DEF TokensUngiven
    <3>1. d # c /\ claims'[d] = claims[d]
      BY <2>1
    <3>2. r \notin Won(claims[c])
      BY <2>1, <2>3, <3>1 DEF TokensDistinct
    <3> QED BY <2>2, <3>1, <3>2 DEF TokensUngiven
  <2> QED BY <2>4, <2>5
<1>4. ASSUME ClaimFails(c) PROVE TokensDistinct' /\ TokensUngiven'
  <2>1. /\ claims'[c] = NoCall
        /\ \A d \in Claimers : d # c => claims'[d] = claims[d]
        /\ UNCHANGED <<token, given>>
    BY <1>4 DEF ClaimFails
  <2> QED BY <2>1 DEF TokensDistinct, TokensUngiven
<1> QED BY <1>1, <1>2, <1>3, <1>4

\* The inductive invariant of the refinement.
TokenInv == TypeOK /\ TokensDistinct /\ TokensUngiven

LEMMA TokenInvariant == Spec => []TokenInv
<1>1. Init => TokensDistinct /\ TokensUngiven
  BY DEF Init, TokensDistinct, TokensUngiven
<1>2. TypeOK /\ TokensDistinct /\ TokensUngiven /\ [Next]_vars => TokensDistinct' /\ TokensUngiven'
  <2> SUFFICES ASSUME TypeOK, TokensDistinct, TokensUngiven, [Next]_vars
               PROVE  TokensDistinct' /\ TokensUngiven'
    OBVIOUS
  <2>1. ASSUME NEW j \in jobs, MarkSent(j) PROVE TokensDistinct' /\ TokensUngiven'
    BY <2>1, TokensKept DEF MarkSent
  <2>2. ASSUME NEW w \in Workers, Complete(w) \/ CompleteInsert(w) \/ CompleteFails(w) \/ Crash(w)
        PROVE  TokensDistinct' /\ TokensUngiven'
    BY <2>2, TokensKept DEF Complete, CompleteInsert, CompleteFails, Crash
  <2>3. ASSUME NEW w \in Workers, NEW res \in batch[w].todo, CompleteUpdate(w, res)
        PROVE  TokensDistinct' /\ TokensUngiven'
    <3>1. \A r \in Rows : token'[r] \in {token[r], NoToken}
      BY <2>3 DEF CompleteUpdate, TypeOK
    <3> QED BY <2>3, <3>1, TokensKept DEF CompleteUpdate
  <2>4. ASSUME \/ ReleaseExpiredLeases \/ OperatorSweep \/ SweepFails
               \/ \E r \in Rows : RetryDelivery(r)
        PROVE  TokensDistinct' /\ TokensUngiven'
    BY <2>4, TokensKept
       DEF ReleaseExpiredLeases, OperatorSweep, SweepFind, SweepFails, RetryDelivery
  <2>5. ASSUME NEW r \in Rows, SweepUpdate(r) PROVE TokensDistinct' /\ TokensUngiven'
    <3>1. \A s \in Rows : token'[s] \in {token[s], NoToken}
      BY <2>5 DEF SweepUpdate, TypeOK
    <3> QED BY <2>5, <3>1, TokensKept DEF SweepUpdate
  <2>6. ASSUME NEW r \in Rows, MarkTerminal(r) \/ LeaseRunsOut(r)
        PROVE  TokensDistinct' /\ TokensUngiven'
    BY <2>6, TokensKept DEF MarkTerminal, LeaseRunsOut
  <2>7. ASSUME UNCHANGED vars PROVE TokensDistinct' /\ TokensUngiven'
    BY <2>7, TokensKept DEF vars
  <2> QED BY <2>1, <2>2, <2>3, <2>4, <2>5, <2>6, <2>7, ClaimTokens DEF Next
<1> QED BY <1>1, <1>2, TypeCorrect, PTL DEF Spec, TokenInv

-----------------------------------------------------------------------------
(* The refinement.                                                         *)

\* Which rows are leased after one document changed.
LEMMA HeldAfter ==
  ASSUME TypeOK, NEW r \in Rows, NEW X, rows' = [rows EXCEPT ![r] = X]
  PROVE  /\ X.status = "leased" => Held' = Held \cup {r}
         /\ X.status # "leased" => Held' = Held \ {r}
<1>1. rows'[r] = X /\ \A s \in Rows : s # r => rows'[s] = rows[s]
  BY DEF TypeOK
<1> QED BY <1>1 DEF Held

\* A document that is not leased after the step: the lease ended, or there was
\* none.
LEMMA EndOrStutter ==
  ASSUME TypeOK, NEW r \in Rows, NEW X, rows' = [rows EXCEPT ![r] = X], X.status # "leased",
         UNCHANGED given
  PROVE  [Contract!Next]_Contract!vars
<1>1. Held' = Held \ {r}
  BY HeldAfter
<1>2. CASE r \in Held
  BY <1>1, <1>2 DEF Contract!Next, Contract!EndLease
<1>3. CASE r \notin Held
  BY <1>1, <1>3 DEF Contract!vars
<1> QED BY <1>2, <1>3

\* The status that each statement leaves a row in.
LEMMA StatusAfter ==
  ASSUME NEW doc \in Row
  PROVE  /\ \A w \in Workers : Claimed(doc, w).status = "leased"
         /\ MarkedSent(doc).status = "sent"
         /\ \A to \in Statuses : MarkedTerminal(doc, to).status = to
         /\ \A st \in Statuses :
              Completed(doc, [status |-> st, inc |-> TRUE, wait |-> 0]).status = st
         /\ \A kind \in SweepKinds : SweepEffect(kind, doc).status # "leased"
<1>1. \A w \in Workers : Claimed(doc, w).status = "leased"
  BY DEF Claimed, Row
<1>2. MarkedSent(doc).status = "sent"
  BY DEF MarkedSent, Row
<1>3. \A to \in Statuses : MarkedTerminal(doc, to).status = to
  BY DEF MarkedTerminal, Unleased, Row
<1>4. \A st \in Statuses : Completed(doc, [status |-> st, inc |-> TRUE, wait |-> 0]).status = st
  BY DEF Completed, Unleased, Row
<1>5. /\ Released(doc).status # "leased"
      /\ BulkCancelled(doc).status # "leased"
      /\ Requeued(doc).status # "leased"
  BY DEF Released, BulkCancelled, Requeued, Unleased, Row
<1>6. SweepEffect("release", doc) = Released(doc)
  BY DEF SweepEffect
<1>7. SweepEffect("cancel", doc) = BulkCancelled(doc)
  BY DEF SweepEffect
<1>8. SweepEffect("requeue", doc) = Requeued(doc) /\ SweepEffect("retry_one", doc) = Requeued(doc)
  BY DEF SweepEffect
<1>9. \A kind \in SweepKinds : SweepEffect(kind, doc).status # "leased"
  BY <1>5, <1>6, <1>7, <1>8 DEF SweepKinds
<1> QED BY <1>1, <1>2, <1>3, <1>4, <1>9

\* Every step of the MongoDB store is a step of the contract or invisible.
LEMMA StepRefines ==
  ASSUME TokenInv, [Next]_vars
  PROVE  [Contract!Next]_Contract!vars
<1> USE DEF TokenInv
<1> DEFINE Goal == [Contract!Next]_Contract!vars
<1>q. ASSUME UNCHANGED <<rows, given>> PROVE Goal
  BY <1>q DEF Contract!vars, Held
<1> HIDE DEF Goal
<1>1. ASSUME NEW c \in Claimers, NEW r \in Rows, ClaimUpdate(c, r) PROVE Goal
  <2>1. CASE LeaseFilter(r)
    <3>1. claims[c].w \in Workers /\ rows[r] \in Row
      BY <1>1 DEF ClaimUpdate, TypeOK, Claim
    <3>2. rows' = [rows EXCEPT ![r] = Claimed(rows[r], claims[c].w)]
      BY <1>1, <2>1 DEF ClaimUpdate
    <3>3. Held' = Held \cup {r}
      BY <3>1, <3>2, HeldAfter, StatusAfter
    <3>4. r \notin Held
      BY <2>1 DEF Held, LeaseFilter, Due, Claimable
    <3>5. given' = [given EXCEPT ![r] = 0]
      BY <1>1, <2>1 DEF ClaimUpdate
    <3> QED BY <3>3, <3>4, <3>5 DEF Goal, Contract!Next, Contract!Grant
  <2>2. CASE ~LeaseFilter(r)
    BY <1>1, <1>q, <2>2 DEF ClaimUpdate
  <2> QED BY <2>1, <2>2
<1>2. ASSUME NEW c \in Claimers, ClaimRead(c) PROVE Goal
  <2>1. claims[c] # NoCall /\ claims[c].ids \subseteq Rows
    BY <1>2 DEF ClaimRead, TypeOK, Claim
  <2>2. Won(claims[c]) \in SUBSET Rows
    BY <2>1 DEF Won
  <2>3. \A r \in Won(claims[c]) : given[r] = 0
    BY <2>1, <2>2 DEF Won, TokensUngiven
  <2>4. given' = [r \in Rows |-> given[r] + IF r \in Won(claims[c]) THEN 1 ELSE 0]
    BY <1>2 DEF ClaimRead
  <2>5. Held' = Held
    BY <1>2 DEF ClaimRead, Held
  <2>6. Contract!Give(Won(claims[c]))
    BY <2>3, <2>4, <2>5 DEF Contract!Give
  <2> QED BY <2>2, <2>6 DEF Goal, Contract!Next
<1>3. ASSUME NEW c \in Claimers, NEW w \in Workers, ClaimFind(c, w) PROVE Goal
  BY <1>3, <1>q DEF ClaimFind
<1>4. ASSUME NEW c \in Claimers, ClaimFails(c) PROVE Goal
  BY <1>4, <1>q DEF ClaimFails
<1>5. ASSUME NEW j \in jobs, MarkSent(j) PROVE Goal
  <2>1. j.r \in Rows /\ rows[j.r] \in Row /\ UNCHANGED given
    BY <1>5 DEF MarkSent, TypeOK, Job
  <2>2. CASE rows' = [rows EXCEPT ![j.r] = MarkedSent(rows[j.r])]
    <3>1. MarkedSent(rows[j.r]).status # "leased"
      BY <2>1, StatusAfter
    <3> QED BY <2>1, <2>2, <3>1, EndOrStutter DEF Goal
  <2>3. CASE rows' = rows
    BY <1>q, <2>1, <2>3
  <2>4. CASE rows' = [rows EXCEPT ![j.r] = rows[j.r]]
    BY <1>q, <2>1, <2>4 DEF TypeOK
  <2> QED BY <1>5, <2>2, <2>3, <2>4 DEF MarkSent
<1>6. ASSUME NEW w \in Workers, Complete(w) \/ CompleteInsert(w) \/ CompleteFails(w) \/ Crash(w)
      PROVE  Goal
  BY <1>6, <1>q DEF Complete, CompleteInsert, CompleteFails, Crash
<1>7. ASSUME NEW w \in Workers, NEW res \in batch[w].todo, CompleteUpdate(w, res) PROVE Goal
  <2>1. res \in Outcome /\ UNCHANGED given
    BY <1>7 DEF CompleteUpdate, TypeOK, Batch
  <2>2. /\ res.r \in Rows /\ rows[res.r] \in Row
        /\ res.status \in Statuses /\ res.status # "leased"
    BY <2>1 DEF TypeOK, Outcome, Statuses, Waiting, Terminal
  <2> DEFINE X == Completed(rows[res.r], [status |-> res.status, inc |-> TRUE, wait |-> 0])
  <2>3. X.status # "leased"
    BY <2>2, StatusAfter
  <2>4. rows' = [rows EXCEPT ![res.r] = X] \/ rows' = rows
    BY <1>7 DEF CompleteUpdate
  <2> HIDE DEF X
  <2> QED BY <1>q, <2>1, <2>2, <2>3, <2>4, EndOrStutter DEF Goal
<1>8. ASSUME \/ ReleaseExpiredLeases \/ OperatorSweep \/ SweepFails
             \/ \E r \in Rows : RetryDelivery(r)
      PROVE  Goal
  BY <1>8, <1>q DEF ReleaseExpiredLeases, OperatorSweep, SweepFind, SweepFails, RetryDelivery
<1>9. ASSUME NEW r \in Rows, SweepUpdate(r) PROVE Goal
  <2>1. sweep.kind \in SweepKinds /\ rows[r] \in Row /\ UNCHANGED given
    BY <1>9 DEF SweepUpdate, TypeOK, Sweep
  <2> DEFINE X == SweepEffect(sweep.kind, rows[r])
  <2>2. X.status # "leased"
    BY <2>1, StatusAfter
  <2>3. rows' = [rows EXCEPT ![r] = X] \/ rows' = rows
    BY <1>9 DEF SweepUpdate
  <2> HIDE DEF X
  <2> QED BY <1>q, <2>1, <2>2, <2>3, EndOrStutter DEF Goal
<1>10. ASSUME NEW r \in Rows, MarkTerminal(r) PROVE Goal
  <2>1. PICK to \in {"bounced", "complained"} : rows' = [rows EXCEPT ![r] = MarkedTerminal(rows[r], to)]
    BY <1>10 DEF MarkTerminal
  <2>2. MarkedTerminal(rows[r], to).status # "leased"
    BY StatusAfter DEF TypeOK, Statuses, Terminal
  <2> QED BY <1>10, <2>1, <2>2, EndOrStutter DEF Goal, MarkTerminal
<1>11. ASSUME NEW r \in Rows, LeaseRunsOut(r) PROVE Goal
  <2>1. rows[r] \in Row /\ r \in Held
    BY <1>11 DEF LeaseRunsOut, TypeOK, Held
  <2> DEFINE X == [rows[r] EXCEPT !.lease = -1]
  <2>2. X.status = "leased"
    BY <1>11, <2>1 DEF LeaseRunsOut, Row
  <2>3. rows' = [rows EXCEPT ![r] = X]
    BY <1>11 DEF LeaseRunsOut
  <2> HIDE DEF X
  <2>4. Held' = Held
    BY <2>1, <2>2, <2>3, HeldAfter
  <2> QED BY <1>11, <2>4 DEF Goal, LeaseRunsOut, Contract!vars
<1>12. ASSUME UNCHANGED vars PROVE Goal
  BY <1>12, <1>q DEF vars
<1> QED BY <1>1, <1>2, <1>3, <1>4, <1>5, <1>6, <1>7, <1>8, <1>9, <1>10, <1>11, <1>12 DEF Next, Goal

\* The three-command Claim is exclusive although each command is atomic for a
\* single document only and every call may fail half way: no row is leased
\* while somebody holds it, and no lease reaches two callers.
THEOREM MongoImplementsLeases == Spec => ClaimIsExclusive
<1>1. Init => Contract!Init
  BY DEF Init, Contract!Init, Held, NewRow
<1>2. TokenInv /\ [Next]_vars => [Contract!Next]_Contract!vars
  BY StepRefines
<1> QED BY <1>1, <1>2, TokenInvariant, PTL DEF Spec, ClaimIsExclusive, Contract!Spec

-----------------------------------------------------------------------------
(* The sweeps.                                                             *)

\* A document that a step changes goes from leased or sent to the queue only when
\* its lease has run out or a retry covers it.
LEMMA OneRowSwept ==
  ASSUME TypeOK, NEW r \in Rows, NEW X, rows' = [rows EXCEPT ![r] = X],
         \/ rows[r].status \notin {"leased", "sent"} \/ X.status \notin Waiting
         \/ Expired(rows[r]) \/ RetryCovers(r)
  PROVE  SweepStep
<1>1. rows'[r] = X /\ \A s \in Rows \ {r} : rows'[s] = rows[s]
  BY DEF TypeOK
<1>2. \A s \in Rows : rows'[s] = rows[s] =>
         ~(rows[s].status \in {"leased", "sent"} /\ rows'[s].status \in Waiting)
  BY DEF Waiting
<1> QED BY <1>1, <1>2 DEF SweepStep

\* The filter in each update protects a row that was leased or sent after the sweep,
\* or the Claim, had found it (UpdateMany repeats the filter next to the ids); only
\* CompleteUpdate, the result of an owner, a lease that ran out and a retry that
\* names the row or its status move one.
THEOREM SweepsSpareBusy == Spec => BusyIsNotSwept
<1>1. TypeOK /\ [Next]_vars => SweepStep
  <2> SUFFICES ASSUME TypeOK, [Next]_vars PROVE SweepStep
    OBVIOUS
  <2>q. ASSUME rows' = rows PROVE SweepStep
    BY <2>q DEF SweepStep, Waiting
  <2>r. \A r \in Rows : rows[r] \in Row
    BY DEF TypeOK
  <2>1. ASSUME NEW c \in Claimers, NEW r \in Rows, ClaimUpdate(c, r) PROVE SweepStep
    <3>1. CASE LeaseFilter(r)
      <4>1. /\ rows[r].status \notin {"leased", "sent"}
            /\ rows' = [rows EXCEPT ![r] = Claimed(rows[r], claims[c].w)]
        BY <2>1, <3>1 DEF ClaimUpdate, LeaseFilter, Due, Claimable, Waiting
      <4> QED BY <4>1, OneRowSwept
    <3>2. CASE ~LeaseFilter(r)
      BY <2>1, <2>q, <3>2 DEF ClaimUpdate
    <3> QED BY <3>1, <3>2
  <2>2. ASSUME NEW j \in jobs, MarkSent(j) PROVE SweepStep
    <3>1. j.r \in Rows /\ MarkedSent(rows[j.r]).status = "sent"
      BY <2>r, StatusAfter DEF TypeOK, Job
    <3>2. CASE rows' = [rows EXCEPT ![j.r] = MarkedSent(rows[j.r])]
      BY <3>1, <3>2, OneRowSwept DEF Waiting
    <3>3. CASE rows' = [rows EXCEPT ![j.r] = rows[j.r]]
      BY <2>q, <3>3 DEF TypeOK
    <3> QED BY <2>2, <2>q, <3>2, <3>3 DEF MarkSent
  <2>3. ASSUME NEW w \in Workers, NEW res \in batch[w].todo, CompleteUpdate(w, res) PROVE SweepStep
    <3>1. batch'[w].todo = batch[w].todo \ {res}
      BY <2>3 DEF CompleteUpdate, TypeOK
    <3>2. batch' # batch
      BY <3>1
    <3> QED BY <3>2 DEF SweepStep
  <2>4. ASSUME NEW r \in Rows, SweepUpdate(r) PROVE SweepStep
    <3>1. CASE SweepStillMatches(sweep.kind, r)
      <4>1. /\ sweep.kind \in SweepKinds
            /\ rows' = [rows EXCEPT ![r] = SweepEffect(sweep.kind, rows[r])]
        BY <2>4, <3>1 DEF SweepUpdate, TypeOK, Sweep
      <4>2. CASE sweep.kind = "release"
        <5>1. Expired(rows[r])
          BY <3>1, <4>2 DEF SweepStillMatches, SweepFilter
        <5> QED BY <4>1, <5>1, OneRowSwept
      <4>3. CASE sweep.kind = "cancel"
        <5>1. SweepEffect(sweep.kind, rows[r]) = BulkCancelled(rows[r])
          BY <4>3 DEF SweepEffect
        <5>2. SweepEffect(sweep.kind, rows[r]).status \notin Waiting
          BY <2>r, <5>1 DEF BulkCancelled, Row, Waiting
        <5> QED BY <4>1, <5>2, OneRowSwept
      <4>4. CASE sweep.kind \in {"requeue", "retry_one"}
        <5>1. RetryCovers(r)
          BY <2>4, <3>1, <4>4 DEF SweepUpdate, SweepStillMatches, SweepFilter, RetryCovers
        <5> QED BY <4>1, <5>1, OneRowSwept
      <4> QED BY <4>1, <4>2, <4>3, <4>4 DEF SweepKinds
    <3>2. CASE ~SweepStillMatches(sweep.kind, r)
      BY <2>4, <2>q, <3>2 DEF SweepUpdate
    <3> QED BY <3>1, <3>2
  <2>5. ASSUME NEW r \in Rows, MarkTerminal(r) PROVE SweepStep
    <3>1. PICK to \in {"bounced", "complained"} :
            rows' = [rows EXCEPT ![r] = MarkedTerminal(rows[r], to)]
      BY <2>5 DEF MarkTerminal
    <3>2. MarkedTerminal(rows[r], to).status = to /\ to \notin Waiting
      BY <2>r, StatusAfter DEF Statuses, Terminal, Waiting
    <3> QED BY <3>1, <3>2, OneRowSwept
  <2>6. ASSUME NEW r \in Rows, LeaseRunsOut(r) PROVE SweepStep
    <3>1. /\ rows' = [rows EXCEPT ![r] = [rows[r] EXCEPT !.lease = -1]]
          /\ [rows[r] EXCEPT !.lease = -1].status \notin Waiting
      BY <2>6, <2>r DEF LeaseRunsOut, Row, Waiting
    <3> QED BY <3>1, OneRowSwept
  <2>7. ASSUME rows' # rows
        PROVE  \/ \E c \in Claimers, r \in Rows : ClaimUpdate(c, r)
               \/ \E j \in jobs : MarkSent(j)
               \/ \E w \in Workers : \E res \in batch[w].todo : CompleteUpdate(w, res)
               \/ \E r \in Rows : SweepUpdate(r) \/ MarkTerminal(r) \/ LeaseRunsOut(r)
    BY <2>7 DEF Next, ClaimFind, ClaimRead, ClaimFails, Complete, CompleteInsert, CompleteFails,
       Crash, ReleaseExpiredLeases, OperatorSweep, SweepFind, SweepFails, RetryDelivery, vars
  <2> QED BY <2>1, <2>2, <2>3, <2>4, <2>5, <2>6, <2>7, <2>q
<1> QED BY <1>1, TypeCorrect, PTL DEF Spec, BusyIsNotSwept

-----------------------------------------------------------------------------
(* The transport: tasks, windows and circuits.                             *)

\* The parts of a task that its stage names.
LEMMA TaskShape ==
  ASSUME NEW j \in Task
  PROVE  /\ j.stage \in {"idle", "probing", "filling", "sending", "reading", "updating"}
         /\ j.stage = "filling" =>
              j \in [stage : {"filling"}, row : StatusRow, age : 0..CacheTTL, late : BOOLEAN]
         /\ j.stage = "sending" => j \in [stage : {"sending"}, late : BOOLEAN]
         /\ j.stage \in {"reading", "updating"} =>
              j \in [stage : {"reading", "updating"}, status : Status, left : Window, tries : 1..2]
BY DEF Task

\* The tasks that the actions make.
LEMMA TaskType ==
  /\ Idle \in Task /\ Idle.stage = "idle"
  /\ [stage |-> "probing"] \in Task
  /\ \A late \in BOOLEAN : [stage |-> "sending", late |-> late] \in Task
  /\ \A tr \in StatusRow, late \in BOOLEAN :
       [stage |-> "filling", row |-> tr, age |-> 0, late |-> late] \in Task
  /\ \A s \in Status, l \in Window : [stage |-> "reading", status |-> s, left |-> l, tries |-> 2] \in Task
<1>0. 0 \in 0..CacheTTL
  BY TransportAssumption
<1> QED BY <1>0 DEF Task, Idle

\* Windows run down one tick after the other.
LEMMA WindowType ==
  ASSUME NEW l \in Window, NEW n \in Nat
  PROVE  /\ Passed(l, n) \in Window
         /\ Passed(l, 0) = l
         /\ Passed(Passed(l, n), 1) = Passed(l, n + 1)
<1>1. CASE l = None
  BY <1>1 DEF Passed, Window
<1>2. CASE l # None
  <2>1. l \in -1..ProbeEvery /\ ProbeEvery \in Nat /\ None \notin -1..ProbeEvery
    BY <1>2, TransportAssumption DEF Window
  <2>2. Passed(l, n) = IF l - n < 0 THEN -1 ELSE l - n
    BY <1>2 DEF Passed
  <2>3. Passed(l, n) \in -1..ProbeEvery /\ Passed(l, n) # None
    BY <2>1, <2>2
  <2>4. Passed(Passed(l, n), 1) = IF Passed(l, n) - 1 < 0 THEN -1 ELSE Passed(l, n) - 1
    BY <2>3 DEF Passed
  <2>5. Passed(l, n + 1) = IF l - (n + 1) < 0 THEN -1 ELSE l - (n + 1)
    BY <1>2 DEF Passed
  <2>6. Passed(l, 0) = l
    BY <1>2, <2>1 DEF Passed
  <2> QED BY <2>1, <2>2, <2>3, <2>4, <2>5, <2>6 DEF Window
<1> QED BY <1>1, <1>2

\* And rows with them.
LEMMA PassedRowType ==
  ASSUME NEW tr \in StatusRow, NEW n \in Nat
  PROVE  /\ PassedRow(tr, n) \in StatusRow
         /\ PassedRow(tr, 0) = tr
         /\ PassedRow(PassedRow(tr, n), 1) = PassedRow(tr, n + 1)
<1>1. tr.until \in Window
  BY DEF StatusRow
<1>2. /\ Passed(tr.until, n) \in Window /\ Passed(tr.until, 0) = tr.until
      /\ Passed(Passed(tr.until, n), 1) = Passed(tr.until, n + 1)
  BY <1>1, WindowType
<1>3. \A m \in Nat : PassedRow(tr, m) = [tr EXCEPT !.until = Passed(tr.until, m)]
  BY DEF PassedRow, StatusRow
<1>4. PassedRow(tr, n) \in StatusRow /\ PassedRow(tr, n).until = Passed(tr.until, n)
  BY <1>2, <1>3 DEF StatusRow
<1>5. PassedRow(PassedRow(tr, n), 1) = [PassedRow(tr, n) EXCEPT !.until = Passed(Passed(tr.until, n), 1)]
  BY <1>4 DEF PassedRow
<1>6. [PassedRow(tr, n) EXCEPT !.until = Passed(Passed(tr.until, n), 1)]
        = [tr EXCEPT !.until = Passed(tr.until, n + 1)]
  BY <1>2, <1>3 DEF StatusRow
<1>7. n + 1 \in Nat /\ 0 \in Nat
  OBVIOUS
<1>8. PassedRow(tr, 0) = tr
  BY <1>2, <1>3, <1>7 DEF StatusRow
<1> QED BY <1>3, <1>4, <1>5, <1>6, <1>7, <1>8

\* What fail, success and the passing of time make of a circuit.
LEMMA CircuitType ==
  ASSUME NEW c \in Circuit
  PROVE  /\ \A class : Fail(c, class) \in Circuit
         /\ Success(c) \in Circuit
         /\ \A class : Observe(c, class) \in Circuit
<1>0. /\ Threshold \in Nat /\ ProbeEvery \in Nat /\ RateWindow \in Nat
      /\ RateThreshold \in Nat /\ RateThreshold > 0 /\ Pruned \in Nat
  BY TransportAssumption DEF Pruned
<1>1. /\ c.failures \in 0..Threshold /\ c.status \in Status /\ c.next \in 0..ProbeEvery
      /\ c.rates \in [1..RateThreshold -> 0..Pruned]
  BY DEF Circuit
<1>2. \A n \in 0..Threshold : [c EXCEPT !.failures = n] \in Circuit
  BY DEF Circuit
<1>3. Newest(c.rates) \in [1..RateThreshold -> 0..Pruned]
  <2>1. ASSUME NEW i \in 1..RateThreshold
        PROVE  (IF i = 1 THEN 0 ELSE c.rates[i - 1]) \in 0..Pruned
    <3>1. CASE i = 1
      BY <1>0, <3>1
    <3>2. CASE i # 1
      <4>1. i - 1 \in 1..RateThreshold
        BY <1>0, <3>2
      <4> QED BY <1>1, <3>2, <4>1
    <3> QED BY <3>1, <3>2
  <2> QED BY <2>1 DEF Newest
<1>4. ASSUME NEW class PROVE Fail(c, class) \in Circuit
  <2> DEFINE n == IF c.failures < Threshold THEN c.failures + 1 ELSE Threshold
             rates == Newest(c.rates)
             s == IF c.status = "healthy" /\ rates[RateThreshold] <= RateWindow THEN "cooldown" ELSE c.status
  <2>1. n \in 0..Threshold
    BY <1>0, <1>1
  <2>2. s \in Status /\ "unhealthy" \in Status /\ ProbeEvery \in 0..ProbeEvery
    BY <1>0, <1>1 DEF Status
  <2>3. \/ Fail(c, class) = [c EXCEPT !.failures = n, !.next = ProbeEvery]
        \/ Fail(c, class) = [c EXCEPT !.failures = n]
        \/ Fail(c, class) = [c EXCEPT !.failures = n, !.status = "unhealthy", !.next = ProbeEvery]
        \/ Fail(c, class) = [c EXCEPT !.rates = rates, !.status = s]
        \/ Fail(c, class) = c
    BY <1>1 DEF Fail
  <2> HIDE DEF n, rates, s
  <2>4. rates \in [1..RateThreshold -> 0..Pruned]
    BY <1>3 DEF rates
  <2>5. /\ [c EXCEPT !.failures = n, !.next = ProbeEvery] \in Circuit
        /\ [c EXCEPT !.failures = n, !.status = "unhealthy", !.next = ProbeEvery] \in Circuit
        /\ [c EXCEPT !.rates = rates, !.status = s] \in Circuit
    BY <2>1, <2>2, <2>4 DEF Circuit
  <2> QED BY <1>2, <2>1, <2>3, <2>5
<1>5. Success(c) \in Circuit
  <2> DEFINE s == IF c.status = "cooldown" /\ c.rates[1] <= RateWindow THEN c.status ELSE "healthy"
  <2>1. s \in Status /\ 0 \in 0..Threshold
    BY <1>0, <1>1 DEF Status
  <2>2. Success(c) = [c EXCEPT !.failures = 0, !.status = s]
    BY DEF Success, Circuit
  <2> HIDE DEF s
  <2> QED BY <2>1, <2>2 DEF Circuit
<1>6. ASSUME NEW class PROVE Observe(c, class) \in Circuit
  BY <1>4, <1>5 DEF Observe
<1> QED BY <1>4, <1>5, <1>6

\* The replies of a circuit are kept newest first, and nothing but the recovery of
\* an unhealthy one makes a circuit healthy in the middle of a burst.
LEMMA CircuitCools ==
  ASSUME NEW c \in Circuit, NEW class, c.rates[1] <= c.rates[RateThreshold]
  PROVE  /\ Observe(c, class).rates[1] <= Observe(c, class).rates[RateThreshold]
         /\ Observe(c, class).status = "healthy" /\ Observe(c, class).rates[RateThreshold] <= RateWindow
              => \/ c.status = "unhealthy"
                 \/ c.status = "healthy" /\ c.rates[RateThreshold] <= RateWindow
         /\ Success(c).rates[1] <= Success(c).rates[RateThreshold]
         /\ Success(c).status = "healthy" /\ Success(c).rates[RateThreshold] <= RateWindow
              => \/ c.status = "unhealthy"
                 \/ c.status = "healthy" /\ c.rates[RateThreshold] <= RateWindow
<1>0. RateThreshold \in Nat /\ RateThreshold > 0 /\ RateWindow \in Nat /\ Pruned \in Nat
  BY TransportAssumption DEF Pruned
<1>1. /\ c.rates \in [1..RateThreshold -> 0..Pruned]
      /\ c.rates[1] \in Nat /\ c.rates[RateThreshold] \in Nat /\ c.status \in Status
  BY <1>0 DEF Circuit
<1>2. Newest(c.rates)[1] = 0 /\ Newest(c.rates)[RateThreshold] \in Nat
  <2>1. Newest(c.rates)[1] = 0
    BY <1>0 DEF Newest
  <2>2. CASE RateThreshold = 1
    BY <2>1, <2>2
  <2>3. CASE RateThreshold # 1
    <3>1. RateThreshold - 1 \in 1..RateThreshold
      BY <1>0, <2>3
    <3>2. Newest(c.rates)[RateThreshold] = c.rates[RateThreshold - 1]
      BY <1>0, <2>3 DEF Newest
    <3>3. c.rates[RateThreshold - 1] \in 0..Pruned
      BY <1>1, <3>1
    <3> QED BY <1>0, <2>1, <3>2, <3>3
  <2> QED BY <2>2, <2>3
<1>3. Success(c).rates = c.rates
  BY DEF Success, Circuit
<1>4. Success(c).status = "healthy" =>
        c.status \in {"healthy", "unhealthy"} \/ c.rates[1] > RateWindow
  BY <1>0, <1>1 DEF Success, Circuit, Status
<1>5. /\ Success(c).rates[1] <= Success(c).rates[RateThreshold]
      /\ Success(c).status = "healthy" /\ Success(c).rates[RateThreshold] <= RateWindow
           => \/ c.status = "unhealthy"
              \/ c.status = "healthy" /\ c.rates[RateThreshold] <= RateWindow
  BY <1>0, <1>1, <1>3, <1>4
<1> DEFINE d == Observe(c, class)
           Kept == /\ d.rates[1] <= d.rates[RateThreshold]
                   /\ d.status = "healthy" /\ d.rates[RateThreshold] <= RateWindow
                        => \/ c.status = "unhealthy"
                           \/ c.status = "healthy" /\ c.rates[RateThreshold] <= RateWindow
<1>6. ASSUME class = "rate_limited" PROVE Kept
  <2> DEFINE rates == Newest(c.rates)
             t == IF c.status = "healthy" /\ rates[RateThreshold] <= RateWindow
                    THEN "cooldown" ELSE c.status
  <2>1. d = [c EXCEPT !.rates = rates, !.status = t]
    BY <1>6 DEF Observe, Fail, Circuit
  <2>2. d.status = t /\ d.rates = rates
    <3> HIDE DEF t, rates
    <3> QED BY <2>1 DEF Circuit
  <2> HIDE DEF d
  <2>3. d.rates[1] <= d.rates[RateThreshold]
    BY <1>2, <2>2
  <2> QED BY <1>1, <2>2, <2>3
<1>7. ASSUME class = "none" PROVE Kept
  <2>1. d = Success(c)
    BY <1>7 DEF Observe
  <2> QED BY <1>5, <2>1
<1>8. ASSUME class = "auth" PROVE Kept
  <2>1. d = Fail(c, class)
    BY <1>8 DEF Observe
  <2>2. Fail(c, class).rates = c.rates /\ Fail(c, class).status \in {c.status, "unhealthy"}
    BY <1>8 DEF Fail, Circuit
  <2> HIDE DEF d
  <2> QED BY <2>1, <2>2
<1>9. ASSUME class \notin {"none", "auth", "rate_limited"} PROVE Kept
  <2>1. d = c
    BY <1>9 DEF Observe
  <2> QED BY <2>1
<1>10. Kept
  BY <1>6, <1>7, <1>8, <1>9
<1> QED BY <1>5, <1>10

-----------------------------------------------------------------------------
(* The transport: the inductive invariant.                                 *)

\* A row that says to keep off the transport.
KeepsOff(tr) == tr.status = "unhealthy" /\ tr.until # None /\ tr.until >= 0

\* A copy that is younger than the row's last write has the row.
CopiesAreRecent ==
  \A r \in Replicas : copy[r] # None /\ copy[r].age < settled => copy[r].row = row

\* So has a load that began after it; and one that began while the cluster had
\* the transport shut has read that.
LoadsAreRecent ==
  \A a \in Actors : job[a].stage = "filling" =>
    /\ job[a].age < settled => PassedRow(job[a].row, job[a].age) = row
    /\ job[a].late => KeepsOff(job[a].row)

\* A circuit keeps the rate_limited replies newest first.
RatesInOrder == \A r \in Replicas : circuit[r].rates[1] <= circuit[r].rates[RateThreshold]

HealthInv ==
  /\ HealthTypeOK
  /\ CopiesAreRecent
  /\ LoadsAreRecent
  /\ ShutStaysShut
  /\ RatesInOrder
  /\ BurstsAreCooled

\* A row that keeps off is not usable, whatever the circuit says.
LEMMA KeptOff ==
  ASSUME NEW tr \in StatusRow, NEW c, KeepsOff(tr)
  PROVE  ~TransportUsable(tr, c)
<1>1. tr.until \in Int
  BY DEF StatusRow, Window, KeepsOff
<1> QED BY <1>1 DEF TransportUsable, KeepsOff

LEMMA InitHealthy == HealthInit => HealthInv
<1> SUFFICES ASSUME HealthInit PROVE HealthInv
  OBVIOUS
<1> USE DEF HealthInit
<1>0. /\ Threshold \in Nat /\ ProbeEvery \in Nat /\ RateWindow \in Nat /\ CacheTTL \in Nat
      /\ RateThreshold \in Nat /\ RateThreshold > 0 /\ Pruned \in Nat /\ MaxUpsets \in Nat
  BY TransportAssumption DEF Pruned
<1>1. row \in StatusRow
  BY DEF StatusRow, Status, Window
<1>2. /\ NewCircuit \in Circuit /\ NewCircuit.rates[1] = Pruned
      /\ NewCircuit.rates[RateThreshold] = Pruned /\ Pruned > RateWindow
  BY <1>0 DEF NewCircuit, Circuit, Status, Pruned
<1>3. HealthTypeOK
  <2>1. circuit \in [Replicas -> Circuit]
    BY <1>2
  <2>2. job \in [Actors -> Task]
    BY TaskType
  <2>3. recovered \subseteq Replicas /\ upsets \in 0..MaxUpsets /\ settled \in 0..CacheTTL
    BY <1>0
  <2> QED BY <1>1, <2>1, <2>2, <2>3 DEF HealthTypeOK, Relays
<1>4. CopiesAreRecent
  BY DEF CopiesAreRecent
<1>5. \A a \in Actors : job[a].stage = "idle"
  BY TaskType
<1>6. LoadsAreRecent
  BY <1>5 DEF LoadsAreRecent
<1>7. ShutStaysShut
  BY <1>5 DEF ShutStaysShut, Actors
<1>8. RatesInOrder /\ BurstsAreCooled
  BY <1>0, <1>2 DEF RatesInOrder, BurstsAreCooled
<1> QED BY <1>3, <1>4, <1>6, <1>7, <1>8 DEF HealthInv

\* A step that leaves the row, copies and replies seen alone and gives one actor
\* a task that is neither a load nor an attempt.
LEMMA TaskHealthy ==
  ASSUME HealthInv, NEW a \in Actors, NEW j \in Task, j.stage \notin {"filling", "sending"},
         job' = [job EXCEPT ![a] = j]
  PROVE  /\ job' \in [Actors -> Task]
         /\ row' = row /\ settled' <= settled /\ settled' \in Nat => LoadsAreRecent'
         /\ settled' = 0 => LoadsAreRecent'
         /\ ShutStaysShut'
<1>0. job \in [Actors -> Task] /\ settled \in 0..CacheTTL
  BY DEF HealthInv, HealthTypeOK
<1>1. job' \in [Actors -> Task] /\ job'[a] = j /\ \A b \in Actors \ {a} : job'[b] = job[b]
  BY <1>0
<1>2. \A b \in Actors : job[b].stage = "filling" => job[b].age \in Nat
  BY <1>0, TaskShape
<1>3. CacheTTL \in Nat
  BY TransportAssumption
<1>4. ASSUME row' = row, settled' <= settled, settled' \in Nat PROVE LoadsAreRecent'
  <2> SUFFICES ASSUME NEW b \in Actors, job'[b].stage = "filling"
               PROVE  /\ job'[b].age < settled' => PassedRow(job'[b].row, job'[b].age) = row
                      /\ job'[b].late => KeepsOff(job'[b].row)
    BY <1>4 DEF LoadsAreRecent
  <2>1. job'[b] = job[b]
    BY <1>1
  <2>2. job[b].age < settled' => job[b].age < settled
    BY <1>0, <1>2, <1>3, <1>4, <2>1
  <2> QED BY <2>1, <2>2 DEF HealthInv, LoadsAreRecent
<1>5. ASSUME settled' = 0 PROVE LoadsAreRecent'
  <2> SUFFICES ASSUME NEW b \in Actors, job'[b].stage = "filling"
               PROVE  ~(job'[b].age < settled') /\ (job'[b].late => KeepsOff(job'[b].row))
    BY DEF LoadsAreRecent
  <2>1. job'[b] = job[b]
    BY <1>1
  <2> QED BY <1>2, <1>5, <2>1 DEF HealthInv, LoadsAreRecent
<1>6. ShutStaysShut'
  BY <1>1 DEF HealthInv, ShutStaysShut, Actors
<1> QED BY <1>1, <1>4, <1>5, <1>6

\* Routing: an attempt never begins late.
LEMMA RouteHealthy ==
  ASSUME HealthInv, NEW w \in SendWorkers, NEW tr \in StatusRow, NEW late \in BOOLEAN,
         late => KeepsOff(tr), Route(w, tr, late), UNCHANGED <<row, settled>>
  PROVE  job' \in [Actors -> Task] /\ LoadsAreRecent' /\ ShutStaysShut'
<1>0. job \in [Actors -> Task] /\ w \in Actors
  BY DEF HealthInv, HealthTypeOK, Actors
<1>1. CASE TransportUsable(tr, circuit[Home[w]])
  <2> DEFINE j == [stage |-> "sending", late |-> late]
  <2>1. job' = [job EXCEPT ![w] = j] /\ ~late
    BY <1>1, KeptOff DEF Route, Goto
  <2>2. j \in Task /\ j.stage = "sending" /\ ~j.late
    BY <2>1, TaskType
  <2> HIDE DEF j
  <2>3. job' \in [Actors -> Task] /\ job'[w] = j /\ \A b \in Actors \ {w} : job'[b] = job[b]
    BY <1>0, <2>1, <2>2
  <2>4. LoadsAreRecent'
    <3> SUFFICES ASSUME NEW b \in Actors, job'[b].stage = "filling"
                 PROVE  /\ job'[b].age < settled => PassedRow(job'[b].row, job'[b].age) = row
                        /\ job'[b].late => KeepsOff(job'[b].row)
      BY DEF LoadsAreRecent
    <3>1. job'[b] = job[b]
      BY <2>2, <2>3
    <3> QED BY <3>1 DEF HealthInv, LoadsAreRecent
  <2>5. ShutStaysShut'
    BY <2>2, <2>3 DEF HealthInv, ShutStaysShut, Actors
  <2> QED BY <2>3, <2>4, <2>5
<1>2. CASE ~TransportUsable(tr, circuit[Home[w]])
  <2>1. job' = [job EXCEPT ![w] = Idle]
    BY <1>2 DEF Route, Goto
  <2>2. Idle \in Task /\ Idle.stage \notin {"filling", "sending"}
    BY TaskType
  <2>3. settled' <= settled /\ settled' \in Nat
    BY TransportAssumption DEF HealthInv, HealthTypeOK
  <2> QED BY <1>0, <2>1, <2>2, <2>3, TaskHealthy
<1> QED BY <1>1, <1>2

-----------------------------------------------------------------------------
(* The transport: every action keeps the invariant.                        *)

\* A delivery is routed by a copy, or loads the row first.
LEMMA LookupHealthy ==
  ASSUME HealthInv, NEW w \in SendWorkers, Lookup(w)
  PROVE  HealthInv'
<1>0. /\ HealthTypeOK /\ w \in Actors /\ Home[w] \in Replicas /\ Shut \in BOOLEAN
      /\ row \in StatusRow /\ job \in [Actors -> Task]
      /\ settled \in 0..CacheTTL /\ CacheTTL \in Nat
  BY TransportAssumption DEF HealthInv, HealthTypeOK, Actors, Shut
<1>1. UNCHANGED <<relay, row, circuit, copy, fresh, upsets, settled, recovered>>
  BY DEF Lookup
<1>2. Shut => KeepsOff(row)
  BY DEF Shut, KeepsOff
<1>3. CASE copy[Home[w]] # None
  <2> DEFINE cached == copy[Home[w]]
  <2>1. cached.row \in StatusRow /\ cached.age \in 0..CacheTTL - 1
    BY <1>0, <1>3 DEF HealthTypeOK
  <2>2. Shut => KeepsOff(cached.row)
    <3>1. SUFFICES ASSUME Shut PROVE KeepsOff(cached.row)
      OBVIOUS
    <3>2. cached.age < settled
      BY <1>0, <2>1, <3>1 DEF Shut
    <3>3. cached.row = row
      BY <1>0, <1>3, <3>2 DEF HealthInv, CopiesAreRecent
    <3> QED BY <1>2, <3>1, <3>3
  <2>3. Route(w, cached.row, Shut)
    BY <1>3 DEF Lookup
  <2>4. job' \in [Actors -> Task] /\ LoadsAreRecent' /\ ShutStaysShut'
    BY <1>0, <1>1, <2>1, <2>2, <2>3, RouteHealthy
  <2> QED BY <1>0, <1>1, <2>4 DEF HealthInv, HealthTypeOK, CopiesAreRecent, RatesInOrder, BurstsAreCooled
<1>4. CASE copy[Home[w]] = None
  <2> DEFINE j == [stage |-> "filling", row |-> row, age |-> 0, late |-> Shut]
  <2>1. job' = [job EXCEPT ![w] = j]
    BY <1>4 DEF Lookup, Goto
  <2>2. /\ j \in Task /\ j.stage = "filling" /\ j.row = row /\ j.age = 0
        /\ j.late => KeepsOff(row)
    BY <1>0, <1>2, TaskType
  <2> HIDE DEF j
  <2>3. job' \in [Actors -> Task] /\ job'[w] = j /\ \A b \in Actors \ {w} : job'[b] = job[b]
    BY <1>0, <2>1, <2>2
  <2>4. LoadsAreRecent'
    <3> SUFFICES ASSUME NEW b \in Actors, job'[b].stage = "filling"
                 PROVE  /\ job'[b].age < settled => PassedRow(job'[b].row, job'[b].age) = row
                        /\ job'[b].late => KeepsOff(job'[b].row)
      BY <1>1 DEF LoadsAreRecent
    <3>1. CASE b = w
      <4>1. PassedRow(row, 0) = row
        BY <1>0, PassedRowType
      <4> QED BY <2>2, <2>3, <3>1, <4>1
    <3>2. CASE b # w
      BY <2>3, <3>2 DEF HealthInv, LoadsAreRecent
    <3> QED BY <3>1, <3>2
  <2>5. ShutStaysShut'
    BY <2>2, <2>3 DEF HealthInv, ShutStaysShut, Actors
  <2> QED BY <1>0, <1>1, <2>3, <2>4, <2>5 DEF HealthInv, HealthTypeOK, CopiesAreRecent, RatesInOrder, BurstsAreCooled
<1> QED BY <1>3, <1>4

\* A load is stored, if it is still young enough, and routes its delivery.
LEMMA FillHealthy ==
  ASSUME HealthInv, NEW w \in SendWorkers, Fill(w)
  PROVE  HealthInv'
<1>0. /\ HealthTypeOK /\ w \in Actors /\ Home[w] \in Replicas
      /\ row \in StatusRow /\ job \in [Actors -> Task]
      /\ settled \in 0..CacheTTL /\ CacheTTL \in Nat
  BY TransportAssumption DEF HealthInv, HealthTypeOK, Actors
<1>1. /\ UNCHANGED <<relay, row, circuit, fresh, upsets, settled, recovered>>
      /\ job[w].stage = "filling"
      /\ copy' = [copy EXCEPT ![Home[w]] = Copy(job[w].row, job[w].age)]
      /\ Route(w, job[w].row, job[w].late)
  BY DEF Fill
<1>2. job[w].row \in StatusRow /\ job[w].age \in 0..CacheTTL /\ job[w].late \in BOOLEAN
  BY <1>0, <1>1, TaskShape
<1>3. /\ job[w].age < settled => PassedRow(job[w].row, job[w].age) = row
      /\ job[w].late => KeepsOff(job[w].row)
  BY <1>0, <1>1 DEF HealthInv, LoadsAreRecent
<1>4. job' \in [Actors -> Task] /\ LoadsAreRecent' /\ ShutStaysShut'
  BY <1>1, <1>2, <1>3, RouteHealthy
<1> DEFINE c == Copy(job[w].row, job[w].age)
<1>5. c \in [row : StatusRow, age : 0..CacheTTL - 1] \cup {None}
  <2>1. PassedRow(job[w].row, job[w].age) \in StatusRow
    BY <1>0, <1>2, PassedRowType
  <2> QED BY <1>0, <1>2, <2>1 DEF Copy
<1>6. c # None /\ c.age < settled => c.row = row
  BY <1>3 DEF Copy
<1> HIDE DEF c
<1>7. copy \in [Replicas -> [row : StatusRow, age : 0..CacheTTL - 1] \cup {None}]
  BY <1>0 DEF HealthTypeOK
<1>8. /\ copy' \in [Replicas -> [row : StatusRow, age : 0..CacheTTL - 1] \cup {None}]
      /\ copy'[Home[w]] = c /\ \A r \in Replicas \ {Home[w]} : copy'[r] = copy[r]
  BY <1>0, <1>1, <1>5, <1>7 DEF c
<1>9. CopiesAreRecent'
  BY <1>1, <1>6, <1>8 DEF HealthInv, CopiesAreRecent
<1>10. HealthTypeOK'
  BY <1>0, <1>1, <1>4, <1>8 DEF HealthTypeOK
<1> QED BY <1>1, <1>4, <1>9, <1>10 DEF HealthInv, RatesInOrder, BurstsAreCooled

\* A circuit changes, and its actor may have the row to write.
LEMMA ReportHealthy ==
  ASSUME HealthInv, NEW a \in Actors, NEW c \in Circuit, Report(a, c),
         UNCHANGED <<relay, row, copy, fresh, upsets, settled>>,
         c.rates[1] <= c.rates[RateThreshold],
         c.status = "healthy" /\ c.rates[RateThreshold] <= RateWindow =>
           \/ circuit[Home[a]].status = "unhealthy"
           \/ /\ circuit[Home[a]].status = "healthy"
              /\ circuit[Home[a]].rates[RateThreshold] <= RateWindow
  PROVE  HealthInv'
<1>0. /\ HealthTypeOK /\ Home[a] \in Replicas /\ circuit \in [Replicas -> Circuit]
      /\ settled \in 0..CacheTTL /\ CacheTTL \in Nat
  BY TransportAssumption DEF HealthInv, HealthTypeOK
<1>1. /\ circuit' \in [Replicas -> Circuit] /\ circuit'[Home[a]] = c
      /\ \A r \in Replicas \ {Home[a]} : circuit'[r] = circuit[r]
  BY <1>0 DEF Report
<1> DEFINE j == IF c.status = circuit[Home[a]].status THEN Idle
                ELSE [stage |-> "reading", status |-> c.status,
                      left |-> StatusUntil(c.status), tries |-> 2]
<1>2. j \in Task /\ j.stage \notin {"filling", "sending"}
  <2>1. c.status \in Status
    BY DEF Circuit
  <2>2. StatusUntil(c.status) \in Window
    BY TransportAssumption DEF StatusUntil, Window
  <2> QED BY <2>1, <2>2, TaskType
<1>3. job' = [job EXCEPT ![a] = j]
  BY DEF Report, Goto
<1> HIDE DEF j
<1>4. settled' <= settled /\ settled' \in Nat
  BY <1>0
<1>5. job' \in [Actors -> Task] /\ LoadsAreRecent' /\ ShutStaysShut'
  BY <1>2, <1>3, <1>4, TaskHealthy
<1>10. recovered' = CASE c.status = "healthy" /\ circuit[Home[a]].status = "unhealthy" ->
                          recovered \cup {Home[a]}
                    [] c.status = "cooldown" -> recovered \ {Home[a]}
                    [] OTHER                 -> recovered
  BY DEF Report
<1>6. HealthTypeOK'
  <2>1. recovered' \subseteq Replicas
    BY <1>0, <1>10 DEF HealthTypeOK
  <2> QED BY <1>0, <1>1, <1>5, <2>1 DEF HealthTypeOK
<1>7. CopiesAreRecent'
  BY DEF HealthInv, CopiesAreRecent
<1>8. RatesInOrder'
  BY <1>0, <1>1 DEF HealthInv, RatesInOrder
<1>9. BurstsAreCooled'
  <2> SUFFICES ASSUME NEW r \in Replicas, r \notin recovered',
                      circuit'[r].rates[RateThreshold] <= RateWindow, circuit'[r].status = "healthy"
               PROVE  FALSE
    BY DEF BurstsAreCooled
  <2>1. CASE r # Home[a]
    <3>1. r \notin recovered /\ circuit'[r] = circuit[r]
      BY <1>1, <1>10, <2>1
    <3> QED BY <3>1 DEF HealthInv, BurstsAreCooled
  <2>2. CASE r = Home[a]
    <3>1. circuit'[r] = c
      BY <1>1, <2>2
    <3>2. circuit[r].status # "unhealthy" /\ recovered' = recovered
      BY <1>10, <2>2, <3>1
    <3>3. circuit[r].status = "healthy" /\ circuit[r].rates[RateThreshold] <= RateWindow
      BY <2>2, <3>1, <3>2
    <3> QED BY <3>2, <3>3 DEF HealthInv, BurstsAreCooled
  <2> QED BY <2>1, <2>2
<1> QED BY <1>5, <1>6, <1>7, <1>8, <1>9 DEF HealthInv

\* An attempt ends.
LEMMA AttemptHealthy ==
  ASSUME HealthInv, NEW w \in SendWorkers, Attempt(w)
  PROVE  HealthInv'
<1>0. w \in Actors /\ Home[w] \in Replicas /\ circuit \in [Replicas -> Circuit]
  BY TransportAssumption DEF HealthInv, HealthTypeOK, Actors
<1>1. PICK reply \in Replies : Report(w, Observe(circuit[Home[w]], Classify(reply)))
  BY DEF Attempt
<1>2. UNCHANGED <<relay, row, copy, fresh, upsets, settled>>
  BY DEF Attempt
<1> DEFINE class == Classify(reply)
           c == circuit[Home[w]]
           d == Observe(c, class)
<1>3. c \in Circuit /\ c.rates[1] <= c.rates[RateThreshold] /\ d \in Circuit
  BY <1>0, CircuitType DEF HealthInv, RatesInOrder
<1>4. /\ d.rates[1] <= d.rates[RateThreshold]
      /\ d.status = "healthy" /\ d.rates[RateThreshold] <= RateWindow =>
           \/ c.status = "unhealthy"
           \/ c.status = "healthy" /\ c.rates[RateThreshold] <= RateWindow
  BY <1>3, CircuitCools
<1>5. Report(w, d)
  BY <1>1
<1> HIDE DEF class, d
<1> QED BY <1>0, <1>2, <1>3, <1>4, <1>5, ReportHealthy

\* The probe pass.
LEMMA ProbeHealthy ==
  ASSUME HealthInv, NEW p \in Probers, ProbePass(p)
  PROVE  HealthInv'
<1>0. /\ HealthTypeOK /\ p \in Actors /\ Home[p] \in Replicas
      /\ circuit \in [Replicas -> Circuit]
      /\ settled \in 0..CacheTTL /\ CacheTTL \in Nat /\ ProbeEvery \in Nat
  BY TransportAssumption DEF HealthInv, HealthTypeOK, Actors
<1>1. UNCHANGED <<relay, row, copy, fresh, upsets, settled>>
  BY DEF ProbePass, ProbeDue, Probe
<1>2. settled' <= settled /\ settled' \in Nat
  BY <1>0, <1>1
<1>3. CASE ProbeDue(p)
  <2> DEFINE j == [stage |-> "probing"]
  <2>1. /\ circuit' = [circuit EXCEPT ![Home[p]].next = ProbeEvery]
        /\ job' = [job EXCEPT ![p] = j] /\ UNCHANGED recovered
    BY <1>3 DEF ProbeDue, Goto
  <2>2. j \in Task /\ j.stage \notin {"filling", "sending"}
    BY TaskType
  <2> HIDE DEF j
  <2>3. job' \in [Actors -> Task] /\ LoadsAreRecent' /\ ShutStaysShut'
    BY <1>0, <1>1, <1>2, <2>1, <2>2, TaskHealthy
  <2>4. /\ circuit' \in [Replicas -> Circuit]
        /\ \A r \in Replicas : circuit'[r].rates = circuit[r].rates /\ circuit'[r].status = circuit[r].status
    <3> DEFINE d == [circuit[Home[p]] EXCEPT !.next = ProbeEvery]
    <3>1. circuit' = [circuit EXCEPT ![Home[p]] = d]
      BY <1>0, <2>1
    <3>2. /\ d \in Circuit /\ d.rates = circuit[Home[p]].rates
          /\ d.status = circuit[Home[p]].status
      <4>1. circuit[Home[p]] \in Circuit /\ ProbeEvery \in 0..ProbeEvery
        BY <1>0
      <4> QED BY <4>1 DEF Circuit
    <3> HIDE DEF d
    <3> QED BY <1>0, <3>1, <3>2
  <2>5. HealthTypeOK'
    BY <1>0, <1>1, <2>1, <2>3, <2>4 DEF HealthTypeOK
  <2>6. CopiesAreRecent' /\ RatesInOrder' /\ BurstsAreCooled'
    BY <1>1, <2>1, <2>4 DEF HealthInv, CopiesAreRecent, RatesInOrder, BurstsAreCooled
  <2> QED BY <2>3, <2>5, <2>6 DEF HealthInv
<1>4. CASE Probe(p) /\ Report(p, Success(circuit[Home[p]]))
  <2> DEFINE c == circuit[Home[p]]
             d == Success(c)
  <2>1. c \in Circuit /\ c.rates[1] <= c.rates[RateThreshold] /\ d \in Circuit
    BY <1>0, CircuitType DEF HealthInv, RatesInOrder
  <2>2. /\ d.rates[1] <= d.rates[RateThreshold]
        /\ d.status = "healthy" /\ d.rates[RateThreshold] <= RateWindow =>
             \/ c.status = "unhealthy"
             \/ c.status = "healthy" /\ c.rates[RateThreshold] <= RateWindow
    BY <2>1, CircuitCools
  <2>3. Report(p, d)
    BY <1>4
  <2> HIDE DEF d
  <2> QED BY <1>0, <1>1, <2>1, <2>2, <2>3, ReportHealthy
<1>5. CASE Probe(p) /\ Goto(p, Idle) /\ UNCHANGED <<circuit, recovered>>
  <2>1. job' = [job EXCEPT ![p] = Idle] /\ Idle \in Task /\ Idle.stage \notin {"filling", "sending"}
    BY <1>5, TaskType DEF Goto
  <2>2. job' \in [Actors -> Task] /\ LoadsAreRecent' /\ ShutStaysShut'
    BY <1>0, <1>1, <1>2, <2>1, TaskHealthy
  <2>3. HealthTypeOK'
    BY <1>0, <1>1, <1>5, <2>2 DEF HealthTypeOK
  <2>4. CopiesAreRecent' /\ RatesInOrder' /\ BurstsAreCooled'
    BY <1>1, <1>5 DEF HealthInv, CopiesAreRecent, RatesInOrder, BurstsAreCooled
  <2> QED BY <2>2, <2>3, <2>4 DEF HealthInv
<1> QED BY <1>3, <1>4, <1>5 DEF ProbePass, Probe

\* Reading and writing the status row, and store calls that fail.
LEMMA StatusHealthy ==
  ASSUME HealthInv, NEW a \in Actors, SetTransportStatus(a) \/ StoreFails(a)
  PROVE  HealthInv'
<1>0. /\ HealthTypeOK /\ Home[a] \in Replicas /\ job \in [Actors -> Task]
      /\ copy \in [Replicas -> [row : StatusRow, age : 0..CacheTTL - 1] \cup {None}]
      /\ settled \in 0..CacheTTL /\ CacheTTL \in Nat /\ upsets \in 0..MaxUpsets
  BY TransportAssumption DEF HealthInv, HealthTypeOK
<1>1. UNCHANGED <<relay, circuit, recovered>> /\ job[a].stage \in {"reading", "updating"}
  BY DEF SetTransportStatus, ReadRow, UpdateRow, StoreFails
<1>2. /\ job[a] \in [stage : {"reading", "updating"}, status : Status, left : Window, tries : 1..2]
      /\ job[a].status \in Status /\ job[a].left \in Window /\ job[a].tries \in 1..2
  <2>1. job[a] \in [stage : {"reading", "updating"}, status : Status, left : Window, tries : 1..2]
    BY <1>0, <1>1, TaskShape
  <2> QED BY <2>1
<1>3. RatesInOrder' /\ BurstsAreCooled'
  BY <1>1 DEF HealthInv, RatesInOrder, BurstsAreCooled
<1>4. Idle \in Task /\ Idle.stage \notin {"filling", "sending"}
  BY TaskType
<1> DEFINE up == [job[a] EXCEPT !.stage = "updating"]
           again == [job[a] EXCEPT !.stage = "reading", !.tries = @ - 1]
<1>5. up \in Task /\ up.stage \notin {"filling", "sending"}
  BY <1>2 DEF Task
<1>6. ASSUME job[a].tries > 1
      PROVE  again \in Task /\ again.stage \notin {"filling", "sending"}
  <2>1. job[a].tries - 1 \in 1..2
    BY <1>2, <1>6
  <2> QED BY <1>2, <2>1 DEF Task
<1> HIDE DEF up, again
<1>10. settled <= settled /\ settled \in Nat
  BY <1>0
<1>7. CASE ReadRow(a)
  <2>1. PICK j \in Task : job' = [job EXCEPT ![a] = j] /\ j.stage \notin {"filling", "sending"}
    BY <1>4, <1>5, <1>7 DEF ReadRow, Goto, up
  <2>2. UNCHANGED <<row, copy, upsets, settled>> /\ fresh' \subseteq Actors
    BY <1>0, <1>7 DEF ReadRow, HealthTypeOK
  <2>3. job' \in [Actors -> Task] /\ LoadsAreRecent' /\ ShutStaysShut'
    BY <1>10, <2>1, <2>2, TaskHealthy
  <2>4. HealthTypeOK' /\ CopiesAreRecent'
    BY <1>0, <1>1, <2>2, <2>3 DEF HealthTypeOK, HealthInv, CopiesAreRecent
  <2> QED BY <1>3, <2>3, <2>4 DEF HealthInv
<1>8. CASE StoreFails(a)
  <2>1. PICK j \in Task : job' = [job EXCEPT ![a] = j] /\ j.stage \notin {"filling", "sending"}
    BY <1>4, <1>6, <1>8 DEF StoreFails, Goto, again
  <2>2. UNCHANGED <<row, settled>> /\ fresh' \subseteq Actors /\ upsets' \in 0..MaxUpsets
    <3>1. UNCHANGED <<row, settled>> /\ fresh' = fresh \ {a} /\ Upset
      BY <1>8 DEF StoreFails
    <3>2. upsets' \in 0..MaxUpsets
      BY <1>0, <3>1, TransportAssumption DEF Upset
    <3> QED BY <1>0, <3>1, <3>2 DEF HealthTypeOK
  <2>3. job' \in [Actors -> Task] /\ LoadsAreRecent' /\ ShutStaysShut'
    BY <1>10, <2>1, <2>2, TaskHealthy
  <2>4. copy' = copy \/ copy' = [copy EXCEPT ![Home[a]] = None]
    BY <1>8 DEF StoreFails
  <2>5. /\ copy' \in [Replicas -> [row : StatusRow, age : 0..CacheTTL - 1] \cup {None}]
        /\ \A r \in Replicas : copy'[r] \in {copy[r], None}
    BY <1>0, <2>4
  <2>6. CopiesAreRecent'
    BY <2>2, <2>5 DEF HealthInv, CopiesAreRecent
  <2>7. HealthTypeOK'
    BY <1>0, <1>1, <2>2, <2>3, <2>5 DEF HealthTypeOK
  <2> QED BY <1>3, <2>3, <2>6, <2>7 DEF HealthInv
<1>9. CASE UpdateRow(a)
  <2>1. copy' = [copy EXCEPT ![Home[a]] = None] /\ UNCHANGED upsets
    BY <1>9 DEF UpdateRow
  <2>2. /\ copy' \in [Replicas -> [row : StatusRow, age : 0..CacheTTL - 1] \cup {None}]
        /\ \A r \in Replicas : copy'[r] \in {copy[r], None}
        /\ \A r \in Replicas : copy'[r] # None => copy'[r].age \in Nat
    BY <1>0, <2>1
  <2>3. CASE a \in fresh
    <3>1. /\ row' = [status |-> job[a].status, until |-> job[a].left]
          /\ fresh' = {} /\ settled' = 0 /\ job' = [job EXCEPT ![a] = Idle]
      BY <1>9, <2>3 DEF UpdateRow, Goto
    <3>2. row' \in StatusRow
      BY <1>2, <3>1 DEF StatusRow
    <3>3. job' \in [Actors -> Task] /\ LoadsAreRecent' /\ ShutStaysShut'
      BY <1>0, <1>4, <3>1, TaskHealthy
    <3>4. CopiesAreRecent'
      BY <2>2, <3>1 DEF CopiesAreRecent
    <3>5. HealthTypeOK'
      BY <1>0, <1>1, <2>1, <2>2, <3>1, <3>2, <3>3 DEF HealthTypeOK
    <3> QED BY <1>3, <3>3, <3>4, <3>5 DEF HealthInv
  <2>4. CASE a \notin fresh
    <3>1. PICK j \in Task : job' = [job EXCEPT ![a] = j] /\ j.stage \notin {"filling", "sending"}
      BY <1>4, <1>6, <1>9, <2>4 DEF UpdateRow, Goto, again
    <3>2. UNCHANGED <<row, fresh, settled>>
      BY <1>9, <2>4 DEF UpdateRow
    <3>3. job' \in [Actors -> Task] /\ LoadsAreRecent' /\ ShutStaysShut'
      BY <1>10, <3>1, <3>2, TaskHealthy
    <3>4. CopiesAreRecent'
      BY <2>2, <3>2 DEF HealthInv, CopiesAreRecent
    <3>5. HealthTypeOK'
      BY <1>0, <1>1, <2>1, <2>2, <3>2, <3>3 DEF HealthTypeOK
    <3> QED BY <1>3, <3>3, <3>4, <3>5 DEF HealthInv
  <2> QED BY <2>3, <2>4
<1> QED BY <1>7, <1>8, <1>9 DEF SetTransportStatus

\* The environment: nothing of it touches a load but a restart, which ends it.
LEMMA EnvironmentHealthy ==
  ASSUME HealthInv, RelayMended \/ UpdateTransport \/ PeerWrites
  PROVE  HealthInv'
<1>0. /\ HealthTypeOK /\ job \in [Actors -> Task]
      /\ settled \in 0..CacheTTL /\ CacheTTL \in Nat /\ upsets \in 0..MaxUpsets /\ MaxUpsets \in Nat
  BY TransportAssumption DEF HealthInv, HealthTypeOK
<1>1. UNCHANGED <<circuit, copy, job, recovered>>
  BY DEF RelayMended, UpdateTransport, PeerWrites
<1>2. RatesInOrder' /\ ShutStaysShut' /\ BurstsAreCooled'
  BY <1>1 DEF HealthInv, RatesInOrder, ShutStaysShut, BurstsAreCooled
<1>3. CASE RelayMended \/ UpdateTransport
  <2>1. UNCHANGED <<row, settled>> /\ relay' \in Relays /\ fresh' \subseteq Actors
    BY <1>0, <1>3 DEF RelayMended, UpdateTransport, HealthTypeOK, Relays
  <2>2. upsets' \in 0..MaxUpsets
    <3>1. CASE RelayMended
      BY <1>0, <3>1 DEF RelayMended
    <3>2. CASE UpdateTransport
      BY <1>0, <3>2 DEF UpdateTransport, Upset
    <3> QED BY <1>3, <3>1, <3>2
  <2>3. HealthTypeOK'
    BY <1>0, <1>1, <2>1, <2>2 DEF HealthTypeOK
  <2>4. CopiesAreRecent' /\ LoadsAreRecent'
    BY <1>1, <2>1 DEF HealthInv, CopiesAreRecent, LoadsAreRecent
  <2> QED BY <1>2, <2>3, <2>4 DEF HealthInv
<1>4. CASE PeerWrites
  <2>1. PICK status \in Status :
          /\ IF relay = "failing" \/ status = "healthy" THEN UNCHANGED upsets ELSE Upset
          /\ row' = [status |-> status, until |-> StatusUntil(status)]
    BY <1>4 DEF PeerWrites
  <2>2. settled' = 0 /\ fresh' = {} /\ UNCHANGED relay
    BY <1>4 DEF PeerWrites
  <2>3. StatusUntil(status) \in Window
    BY TransportAssumption DEF StatusUntil, Window
  <2>4. row' \in StatusRow
    BY <2>1, <2>3 DEF StatusRow
  <2>5. upsets' \in 0..MaxUpsets
    BY <1>0, <2>1 DEF Upset
  <2>6. HealthTypeOK'
    BY <1>0, <1>1, <2>2, <2>4, <2>5 DEF HealthTypeOK
  <2>7. CopiesAreRecent'
    <3>1. \A r \in Replicas : copy[r] # None => copy[r].age \in Nat
      BY <1>0 DEF HealthTypeOK
    <3> QED BY <1>1, <2>2, <3>1 DEF CopiesAreRecent
  <2>8. LoadsAreRecent'
    <3>1. \A a \in Actors : job[a].stage = "filling" => job[a].age \in Nat
      BY <1>0, TaskShape
    <3> SUFFICES ASSUME NEW a \in Actors, job[a].stage = "filling"
                 PROVE  ~(job[a].age < 0) /\ (job[a].late => KeepsOff(job[a].row))
      BY <1>1, <2>2 DEF LoadsAreRecent
    <3> QED BY <3>1 DEF HealthInv, LoadsAreRecent
  <2> QED BY <1>2, <2>6, <2>7, <2>8 DEF HealthInv
<1> QED BY <1>3, <1>4

\* A restart forgets the circuit together with the replies it had seen.
LEMMA RestartHealthy ==
  ASSUME HealthInv, NEW r \in Replicas, Restart(r)
  PROVE  HealthInv'
<1>0. /\ HealthTypeOK /\ job \in [Actors -> Task] /\ circuit \in [Replicas -> Circuit]
      /\ copy \in [Replicas -> [row : StatusRow, age : 0..CacheTTL - 1] \cup {None}]
      /\ Pruned \in Nat /\ Pruned > RateWindow /\ RateWindow \in Nat
      /\ upsets \in 0..MaxUpsets /\ MaxUpsets \in Nat
  BY TransportAssumption DEF HealthInv, HealthTypeOK, Pruned
<1>1. UNCHANGED <<relay, row, settled>> /\ fresh' \subseteq fresh /\ Upset
  BY DEF Restart
<1>2. upsets' \in 0..MaxUpsets
  BY <1>0, <1>1 DEF Upset
<1>3. NewCircuit \in Circuit /\ NewCircuit.rates[1] = Pruned /\ NewCircuit.rates[RateThreshold] = Pruned
  BY TransportAssumption DEF NewCircuit, Circuit, Status, Pruned
<1>4. /\ circuit' \in [Replicas -> Circuit] /\ circuit'[r] = NewCircuit
      /\ \A s \in Replicas \ {r} : circuit'[s] = circuit[s]
  BY <1>0, <1>3 DEF Restart
<1>5. recovered' = recovered \ {r} /\ recovered' \subseteq Replicas
  BY <1>0 DEF Restart, HealthTypeOK
<1>6. /\ copy' \in [Replicas -> [row : StatusRow, age : 0..CacheTTL - 1] \cup {None}]
      /\ \A s \in Replicas : copy'[s] \in {copy[s], None}
  BY <1>0 DEF Restart
<1>7. \A a \in Actors : job'[a] \in {job[a], Idle}
  BY DEF Restart
<1>8. job' \in [Actors -> Task]
  <2>1. job' = [a \in Actors |-> IF Home[a] = r THEN Idle ELSE job[a]] /\ Idle \in Task
    BY TaskType DEF Restart
  <2> QED BY <1>0, <2>1
<1>9. Idle.stage = "idle"
  BY TaskType
<1>10. HealthTypeOK'
  BY <1>0, <1>1, <1>2, <1>4, <1>5, <1>6, <1>8 DEF HealthTypeOK
<1>11. CopiesAreRecent'
  BY <1>1, <1>6 DEF HealthInv, CopiesAreRecent
<1>12. LoadsAreRecent'
  <2> SUFFICES ASSUME NEW a \in Actors, job'[a].stage = "filling"
               PROVE  /\ job'[a].age < settled => PassedRow(job'[a].row, job'[a].age) = row
                      /\ job'[a].late => KeepsOff(job'[a].row)
    BY <1>1 DEF LoadsAreRecent
  <2>1. job'[a] = job[a]
    BY <1>7, <1>9
  <2> QED BY <2>1 DEF HealthInv, LoadsAreRecent
<1>13. ShutStaysShut'
  BY <1>7, <1>9 DEF HealthInv, ShutStaysShut, Actors
<1>14. RatesInOrder'
  BY <1>0, <1>3, <1>4 DEF HealthInv, RatesInOrder
<1>15. BurstsAreCooled'
  <2> SUFFICES ASSUME NEW s \in Replicas, s \notin recovered',
                      circuit'[s].rates[RateThreshold] <= RateWindow
               PROVE  circuit'[s].status # "healthy"
    BY DEF BurstsAreCooled
  <2>1. s # r
    BY <1>0, <1>3, <1>4
  <2> QED BY <1>4, <1>5, <2>1 DEF HealthInv, BurstsAreCooled
<1> QED BY <1>10, <1>11, <1>12, <1>13, <1>14, <1>15 DEF HealthInv

\* What a tick makes of a task.
LEMMA AgedTask ==
  ASSUME NEW j \in Task
  PROVE  /\ AgedJob(j) \in Task /\ AgedJob(j).stage = j.stage
         /\ j.stage = "sending" => AgedJob(j) = j
         /\ j.stage = "filling" => /\ AgedJob(j).row = j.row /\ AgedJob(j).late = j.late
                                   /\ AgedJob(j).age = Older(j.age, CacheTTL)
<1>0. CacheTTL \in Nat
  BY TransportAssumption
<1>1. CASE j.stage = "filling"
  <2>1. /\ j \in [stage : {"filling"}, row : StatusRow, age : 0..CacheTTL, late : BOOLEAN]
        /\ AgedJob(j) = [j EXCEPT !.age = Older(j.age, CacheTTL)]
    BY <1>1, TaskShape DEF AgedJob
  <2>2. Older(j.age, CacheTTL) \in 0..CacheTTL
    BY <1>0, <2>1 DEF Older
  <2>3. AgedJob(j) \in [stage : {"filling"}, row : StatusRow, age : 0..CacheTTL, late : BOOLEAN]
    BY <2>1, <2>2
  <2>4. AgedJob(j) \in Task
    BY <2>3 DEF Task
  <2> QED BY <1>1, <2>1, <2>4
<1>2. CASE j.stage \in {"reading", "updating"}
  <2>1. /\ j \in [stage : {"reading", "updating"}, status : Status, left : Window, tries : 1..2]
        /\ AgedJob(j) = [j EXCEPT !.left = Passed(j.left, 1)]
    BY <1>2, TaskShape DEF AgedJob
  <2>2. Passed(j.left, 1) \in Window
    BY <2>1, WindowType
  <2>3. AgedJob(j) \in [stage : {"reading", "updating"}, status : Status, left : Window, tries : 1..2]
    BY <2>1, <2>2
  <2>4. AgedJob(j) \in Task
    BY <2>3 DEF Task
  <2> QED BY <1>2, <2>1, <2>4
<1>3. CASE j.stage \notin {"filling", "reading", "updating"}
  BY <1>3 DEF AgedJob
<1> QED BY <1>1, <1>2, <1>3

\* A tick ages the row and its copies alike.
LEMMA TickHealthy ==
  ASSUME HealthInv, Tick
  PROVE  HealthInv'
<1>0. /\ HealthTypeOK /\ job \in [Actors -> Task] /\ circuit \in [Replicas -> Circuit]
      /\ copy \in [Replicas -> [row : StatusRow, age : 0..CacheTTL - 1] \cup {None}]
      /\ Pruned \in Nat /\ Pruned = RateWindow + 1 /\ RateWindow \in Nat /\ row \in StatusRow
      /\ settled \in 0..CacheTTL /\ CacheTTL \in Nat /\ ProbeEvery \in Nat
      /\ RateThreshold \in Nat /\ RateThreshold > 0
  BY TransportAssumption DEF HealthInv, HealthTypeOK, Pruned
<1>1. UNCHANGED <<relay, fresh, upsets, recovered>> /\ row' = PassedRow(row, 1) /\ settled' = Older(settled, CacheTTL)
  BY DEF Tick
<1>2. row' \in StatusRow
  BY <1>0, <1>1, PassedRowType
<1>3. settled' \in 0..CacheTTL
  BY <1>0, <1>1 DEF Older
<1>4. /\ job' \in [Actors -> Task]
      /\ \A a \in Actors : job'[a] = AgedJob(job[a])
  <2>1. job' = [a \in Actors |-> AgedJob(job[a])]
    BY DEF Tick
  <2> QED BY <1>0, <2>1, AgedTask
<1>6. ASSUME NEW r \in Replicas
      PROVE  /\ circuit'[r] \in Circuit /\ circuit'[r].status = circuit[r].status
             /\ circuit'[r].rates[1] = Older(circuit[r].rates[1], Pruned)
             /\ circuit'[r].rates[RateThreshold] = Older(circuit[r].rates[RateThreshold], Pruned)
             /\ circuit[r].rates[1] \in 0..Pruned /\ circuit[r].rates[RateThreshold] \in 0..Pruned
  <2> DEFINE c == circuit[r]
             next == IF c.next > 0 THEN c.next - 1 ELSE 0
             rates == [i \in 1..RateThreshold |-> Older(c.rates[i], Pruned)]
  <2>1. circuit'[r] = [c EXCEPT !.next = next, !.rates = rates]
    BY <1>0 DEF Tick, Circuit
  <2>2. c \in Circuit /\ c.next \in 0..ProbeEvery /\ c.rates \in [1..RateThreshold -> 0..Pruned]
    BY <1>0 DEF Circuit
  <2>3. next \in 0..ProbeEvery
    BY <1>0, <2>2
  <2>4. /\ rates \in [1..RateThreshold -> 0..Pruned] /\ rates[1] = Older(c.rates[1], Pruned)
        /\ rates[RateThreshold] = Older(c.rates[RateThreshold], Pruned)
    BY <1>0, <2>2 DEF Older
  <2>5. c.rates[1] \in 0..Pruned /\ c.rates[RateThreshold] \in 0..Pruned
    BY <1>0, <2>2
  <2> HIDE DEF c, next, rates
  <2> QED BY <2>1, <2>2, <2>3, <2>4, <2>5 DEF Circuit, c
<1>7. circuit' \in [Replicas -> Circuit]
  <2>1. DOMAIN circuit' = Replicas /\ circuit' = [r \in Replicas |-> circuit'[r]]
    BY DEF Tick
  <2> QED BY <1>6, <2>1
<1>8. ASSUME NEW r \in Replicas
      PROVE  /\ copy'[r] \in [row : StatusRow, age : 0..CacheTTL - 1] \cup {None}
             /\ copy'[r] # None => /\ copy[r] # None /\ copy'[r].age = copy[r].age + 1
                                   /\ copy'[r].row = PassedRow(copy[r].row, 1)
  <2>1. copy'[r] = IF copy[r] = None THEN None
                   ELSE IF copy[r].age + 1 >= CacheTTL THEN None
                   ELSE [row |-> PassedRow(copy[r].row, 1), age |-> copy[r].age + 1]
    BY DEF Tick
  <2>2. CASE copy'[r] = None
    BY <2>2
  <2>3. CASE copy'[r] # None
    <3>1. /\ copy[r] # None /\ ~(copy[r].age + 1 >= CacheTTL)
          /\ copy'[r] = [row |-> PassedRow(copy[r].row, 1), age |-> copy[r].age + 1]
      BY <2>1, <2>3
    <3>2. copy[r].row \in StatusRow /\ copy[r].age \in 0..CacheTTL - 1
      BY <1>0, <3>1
    <3>3. PassedRow(copy[r].row, 1) \in StatusRow
      BY <3>2, PassedRowType
    <3>4. copy[r].age + 1 \in 0..CacheTTL - 1
      BY <1>0, <3>1, <3>2
    <3> QED BY <3>1, <3>3, <3>4
  <2> QED BY <2>2, <2>3
<1>9. copy' \in [Replicas -> [row : StatusRow, age : 0..CacheTTL - 1] \cup {None}]
  <2>1. copy' = [r \in Replicas |-> copy'[r]]
    BY DEF Tick
  <2> QED BY <1>8, <2>1
<1>10. HealthTypeOK'
  BY <1>0, <1>1, <1>2, <1>3, <1>4, <1>7, <1>9 DEF HealthTypeOK
<1>11. ASSUME NEW n \in Nat, n + 1 < settled' PROVE n < settled
  BY <1>0, <1>1, <1>11 DEF Older
<1>12. CopiesAreRecent'
  <2> SUFFICES ASSUME NEW r \in Replicas, copy'[r] # None, copy'[r].age < settled'
               PROVE  copy'[r].row = row'
    BY DEF CopiesAreRecent
  <2>1. copy[r] # None /\ copy'[r].age = copy[r].age + 1 /\ copy'[r].row = PassedRow(copy[r].row, 1)
    BY <1>8
  <2>2. copy[r].age \in Nat
    BY <1>0, <2>1
  <2>3. copy[r].age < settled
    BY <1>11, <2>1, <2>2
  <2>4. copy[r].row = row
    BY <2>1, <2>3 DEF HealthInv, CopiesAreRecent
  <2> QED BY <1>1, <2>1, <2>4
<1>13. LoadsAreRecent'
  <2> SUFFICES ASSUME NEW a \in Actors, job'[a].stage = "filling"
               PROVE  /\ job'[a].age < settled' => PassedRow(job'[a].row, job'[a].age) = row'
                      /\ job'[a].late => KeepsOff(job'[a].row)
    BY DEF LoadsAreRecent
  <2>1. job[a] \in Task /\ job'[a] = AgedJob(job[a])
    BY <1>0, <1>4
  <2>2. job[a].stage = "filling"
    BY <2>1, AgedTask
  <2>3. job'[a].row = job[a].row /\ job'[a].late = job[a].late /\ job'[a].age = Older(job[a].age, CacheTTL)
    BY <2>1, <2>2, AgedTask
  <2>4. job[a].row \in StatusRow /\ job[a].age \in 0..CacheTTL
    BY <2>1, <2>2, TaskShape
  <2>5. job'[a].late => KeepsOff(job'[a].row)
    BY <2>2, <2>3 DEF HealthInv, LoadsAreRecent
  <2>6. ASSUME job'[a].age < settled' PROVE PassedRow(job'[a].row, job'[a].age) = row'
    <3>1. job[a].age < CacheTTL /\ job'[a].age = job[a].age + 1 /\ job[a].age \in Nat
      BY <1>0, <1>3, <2>3, <2>4, <2>6 DEF Older
    <3>2. job[a].age < settled
      BY <1>11, <2>6, <3>1
    <3>3. PassedRow(job[a].row, job[a].age) = row
      BY <2>2, <3>2 DEF HealthInv, LoadsAreRecent
    <3>4. PassedRow(PassedRow(job[a].row, job[a].age), 1) = PassedRow(job[a].row, job[a].age + 1)
      BY <2>4, <3>1, PassedRowType
    <3> QED BY <1>1, <2>3, <3>1, <3>3, <3>4
  <2> QED BY <2>5, <2>6
<1>14. ShutStaysShut'
  <2> SUFFICES ASSUME NEW w \in SendWorkers, job'[w].stage = "sending"
               PROVE  ~job'[w].late
    BY DEF ShutStaysShut
  <2>1. w \in Actors /\ job[w] \in Task /\ job'[w] = AgedJob(job[w])
    BY <1>0, <1>4 DEF Actors
  <2>2. job[w].stage = "sending"
    BY <2>1, AgedTask
  <2>3. job'[w] = job[w]
    BY <2>1, <2>2, AgedTask
  <2> QED BY <2>2, <2>3 DEF HealthInv, ShutStaysShut
<1>15. RatesInOrder'
  <2> SUFFICES ASSUME NEW r \in Replicas
               PROVE  circuit'[r].rates[1] <= circuit'[r].rates[RateThreshold]
    BY DEF RatesInOrder
  <2>1. circuit[r].rates[1] <= circuit[r].rates[RateThreshold]
    BY DEF HealthInv, RatesInOrder
  <2> QED BY <1>0, <1>6, <2>1 DEF Older
<1>16. BurstsAreCooled'
  <2> SUFFICES ASSUME NEW r \in Replicas, r \notin recovered',
                      circuit'[r].rates[RateThreshold] <= RateWindow
               PROVE  circuit'[r].status # "healthy"
    BY DEF BurstsAreCooled
  <2>1. circuit[r].rates[RateThreshold] <= RateWindow
    BY <1>0, <1>6 DEF Older
  <2> QED BY <1>1, <1>6, <2>1 DEF HealthInv, BurstsAreCooled
<1> QED BY <1>10, <1>12, <1>13, <1>14, <1>15, <1>16 DEF HealthInv

\* Every step keeps the invariant.
LEMMA NextHealthy ==
  ASSUME HealthInv, [HealthNext]_healthVars
  PROVE  HealthInv'
<1>1. ASSUME UNCHANGED healthVars PROVE HealthInv'
  BY <1>1 DEF healthVars, HealthInv, HealthTypeOK, CopiesAreRecent, LoadsAreRecent, ShutStaysShut,
              RatesInOrder, BurstsAreCooled
<1>2. ASSUME NEW w \in SendWorkers, Process(w) PROVE HealthInv'
  <2>1. CASE Lookup(w) \/ Fill(w)
    BY <2>1, LookupHealthy, FillHealthy
  <2>2. CASE Attempt(w)
    BY <2>2, AttemptHealthy
  <2> QED BY <1>2, <2>1, <2>2 DEF Process
<1> QED BY <1>1, <1>2, ProbeHealthy, StatusHealthy, EnvironmentHealthy, RestartHealthy, TickHealthy
        DEF HealthNext

-----------------------------------------------------------------------------
(* The transport: what follows.                                            *)

\* The invariant holds of every behaviour.
THEOREM HealthInvariant == HealthSpec => []HealthInv
<1>1. HealthInv /\ [HealthNext]_healthVars => HealthInv'
  BY NextHealthy
<1> QED BY InitHealthy, <1>1, PTL DEF HealthSpec

\* Rows, circuits, copies and tasks stay what the code keeps in them, and no
\* window is longer than the interval the probes come at.
THEOREM HealthTypeCorrect == HealthSpec => []HealthTypeOK
<1>1. HealthInv => HealthTypeOK
  BY DEF HealthInv
<1> QED BY HealthInvariant, <1>1, PTL

\* No delivery is sent that started while the cluster had the transport shut.
THEOREM ShutIsObeyed == HealthSpec => []ShutStaysShut
<1>1. HealthInv => ShutStaysShut
  BY DEF HealthInv
<1> QED BY HealthInvariant, <1>1, PTL

\* A circuit is not healthy in the middle of a burst, unless it was unhealthy and
\* recovered since it last cooled down.
THEOREM BurstsStayCooled == HealthSpec => []BurstsAreCooled
<1>1. HealthInv => BurstsAreCooled
  BY DEF HealthInv
<1> QED BY HealthInvariant, <1>1, PTL
=============================================================================
