---------------------------- MODULE IntakeProofs ----------------------------
(***************************************************************************)
(* Proofs about what comes in from outside: the recipients of a campaign   *)
(* (RecipientIngest), for any number of handlers and chunks, any bodies,   *)
(* batch size and limit, and any number of failures; and the bounces and   *)
(* complaints about what was sent (BouncePoller), for any replicas,        *)
(* tenants, deliveries and letters, and any number of mails and faults.    *)
(***************************************************************************)
EXTENDS RecipientIngest, BouncePoller, Counting, TLAPS, FiniteSetTheorems

-----------------------------------------------------------------------------
(* Recipients: the inductive invariant.                                    *)

Serving(c) == calls[c] # NoCall

Total(counts) == counts.accepted + counts.duplicates + counts.invalid

\* What InsertBatch and the cardinalities need: finitely many rows.
Finite == IsFiniteSet(rows) /\ \A c \in Callers : Serving(c) => IsFiniteSet(calls[c].batch)

\* A call has accounted for every line it has consumed: its recipient has a row
\* or is in the batch, and the line is in one count or in the batch.
Accounted(call, stored) ==
  /\ call.line <= Lines(call.key)
  /\ \A i \in 1..call.line : Body[call.key][i] \in stored \cup call.batch \cup {BadLine}
  /\ Total(call.counts) + Cardinality(call.batch) = call.line

LinesAccounted == \A c \in Callers : Serving(c) => Accounted(calls[c], rows)

\* While calls have not overlapped, the one that is served knows how many rows
\* there are, and what it holds fits below the limit.
AloneInLimit ==
  ~overlap =>
    /\ Cardinality(rows) <= MaxRecipients
    /\ \A c, o \in Callers : Serving(c) /\ Serving(o) => c = o
    /\ \A c \in Callers : Serving(c) =>
         /\ Cardinality(rows) = calls[c].existing + calls[c].counts.accepted
         /\ Budgeted(calls[c]) <= MaxRecipients

IngestInv == IngestTypeOK /\ Finite /\ LinesAccounted /\ CompletedIsIngested /\ AloneInLimit

-----------------------------------------------------------------------------
(* Types.                                                                  *)

\* A line that was rejected is no recipient.
LEMMA BadLineIsNoAddress == BadLine \notin Addresses
BY DEF Addresses

\* The fields of a call.
LEMMA CallFields ==
  ASSUME NEW call \in Call
  PROVE  /\ call.key \in Keys /\ call.existing \in Nat /\ call.line \in Nat
         /\ call.batch \subseteq Addresses /\ call.counts \in Counts
         /\ call.counts.accepted \in Nat /\ call.counts.duplicates \in Nat
         /\ call.counts.invalid \in Nat
         /\ Lines(call.key) \in Nat
         /\ \A i \in 1..Lines(call.key) : Body[call.key][i] \in Addresses \cup {BadLine}
BY IngestAssumption DEF Call, Counts, Lines

\* Updating the parts of a call with values of their types keeps it a call.
LEMMA CallUpdates ==
  ASSUME NEW call \in Call
  PROVE  /\ \A s \in {"lookup", "open", "stream"} : [call EXCEPT !.stage = s] \in Call
         /\ \A n \in Nat : [call EXCEPT !.line = n] \in Call
         /\ \A S \in SUBSET Addresses : [call EXCEPT !.batch = S] \in Call
         /\ \A n \in Counts : [call EXCEPT !.counts = n] \in Call
         /\ \A n \in Nat : /\ [call.counts EXCEPT !.accepted = n] \in Counts
                           /\ [call.counts EXCEPT !.duplicates = n] \in Counts
                           /\ [call.counts EXCEPT !.invalid = n] \in Counts
BY DEF Call, Counts

\* What the effect of one line is.
LEMMA TakeEffect ==
  ASSUME NEW call \in Call, IsFiniteSet(call.batch), call.line < Lines(call.key)
  PROVE  /\ Take(call) \in Call
         /\ Take(call).key = call.key /\ Take(call).existing = call.existing
         /\ Take(call).line = call.line + 1
         /\ Take(call).counts.accepted = call.counts.accepted
         /\ IsFiniteSet(Take(call).batch)
         /\ Take(call).batch \subseteq call.batch \cup {NextLine(call)}
         /\ call.batch \cup {NextLine(call)} \subseteq Take(call).batch \cup {BadLine}
         /\ Cardinality(Take(call).batch) =
              IF NextLine(call) \in call.batch \cup {BadLine} THEN Cardinality(call.batch)
              ELSE Cardinality(call.batch) + 1
         /\ Total(Take(call).counts) + Cardinality(Take(call).batch)
              = Total(call.counts) + Cardinality(call.batch) + 1
<1> DEFINE next == NextLine(call)
           moved == [call EXCEPT !.line = @ + 1]
<1>1. /\ call.key \in Keys /\ call.line \in Nat /\ Lines(call.key) \in Nat
      /\ call.counts \in Counts /\ call.batch \subseteq Addresses
      /\ call.counts.accepted \in Nat /\ call.counts.duplicates \in Nat
      /\ call.counts.invalid \in Nat
  BY CallFields
<1>2. next \in Addresses \cup {BadLine}
  BY <1>1, CallFields DEF NextLine
<1>3. /\ moved \in Call /\ moved.line = call.line + 1 /\ moved.key = call.key
      /\ moved.existing = call.existing /\ moved.batch = call.batch /\ moved.counts = call.counts
  <2>1. call.line + 1 \in Nat
    BY <1>1
  <2> QED BY <2>1, CallUpdates DEF Call
<1>4. Cardinality(call.batch) \in Nat
  BY FS_CardinalityType
<1> HIDE DEF next, moved
<1>5. CASE next = BadLine
  <2> DEFINE n == [moved.counts EXCEPT !.invalid = @ + 1]
  <2>0. next \notin call.batch
    BY <1>1, <1>5, BadLineIsNoAddress
  <2>1. Take(call) = [moved EXCEPT !.counts = n]
    BY <1>5, <1>3, <2>0 DEF Take, moved, next, Call
  <2>2. /\ n \in Counts /\ n.accepted = call.counts.accepted
        /\ n.duplicates = call.counts.duplicates /\ n.invalid = call.counts.invalid + 1
    BY <1>1, <1>3 DEF Counts
  <2> HIDE DEF n
  <2>3. Take(call) \in Call
    BY <1>3, <2>1, <2>2, CallUpdates
  <2>4. /\ Take(call).counts = n /\ Take(call).batch = call.batch /\ Take(call).key = call.key
        /\ Take(call).existing = call.existing /\ Take(call).line = call.line + 1
    BY <1>3, <2>1 DEF Call
  <2> QED BY <1>1, <1>4, <1>5, <2>2, <2>3, <2>4 DEF Total, next
<1>6. CASE next # BadLine /\ next \in call.batch
  <2> DEFINE n == [moved.counts EXCEPT !.duplicates = @ + 1]
  <2>1. Take(call) = [moved EXCEPT !.counts = n]
    BY <1>6, <1>3 DEF Take, moved, next, Call
  <2>2. /\ n \in Counts /\ n.accepted = call.counts.accepted
        /\ n.duplicates = call.counts.duplicates + 1 /\ n.invalid = call.counts.invalid
    BY <1>1, <1>3 DEF Counts
  <2> HIDE DEF n
  <2>3. Take(call) \in Call
    BY <1>3, <2>1, <2>2, CallUpdates
  <2>4. /\ Take(call).counts = n /\ Take(call).batch = call.batch /\ Take(call).key = call.key
        /\ Take(call).existing = call.existing /\ Take(call).line = call.line + 1
    BY <1>3, <2>1 DEF Call
  <2> QED BY <1>1, <1>4, <1>6, <2>2, <2>3, <2>4 DEF Total, next
<1>7. CASE next # BadLine /\ next \notin call.batch
  <2> DEFINE S == call.batch \cup {next}
  <2>1. Take(call) = [moved EXCEPT !.batch = S]
    BY <1>7, <1>3 DEF Take, moved, next, Call
  <2>2. S \in SUBSET Addresses /\ IsFiniteSet(S) /\ Cardinality(S) = Cardinality(call.batch) + 1
    BY <1>1, <1>2, <1>7, FS_AddElement
  <2>3. call.batch \cup {next} = S
    OBVIOUS
  <2> HIDE DEF S
  <2>4. Take(call) \in Call
    BY <1>3, <2>1, <2>2, CallUpdates
  <2>5. /\ Take(call).counts = call.counts /\ Take(call).batch = S /\ Take(call).key = call.key
        /\ Take(call).existing = call.existing /\ Take(call).line = call.line + 1
    BY <1>3, <2>1 DEF Call
  <2> QED BY <1>1, <1>4, <1>7, <2>2, <2>3, <2>4, <2>5 DEF Total, next
<1> QED BY <1>5, <1>6, <1>7

\* What a flush does to its call and to the rows.
LEMMA FlushEffect ==
  ASSUME IngestTypeOK, Finite, NEW c \in Callers, Flush(c)
  PROVE  \E q \in Call, new \in Nat :
           /\ new = Cardinality(Inserted(calls[c]))
           /\ calls' = [calls EXCEPT ![c] = q]
           /\ q.key = calls[c].key /\ q.line = calls[c].line /\ q.existing = calls[c].existing
           /\ q.batch = {}
           /\ q.counts.accepted = calls[c].counts.accepted + new
           /\ Total(q.counts) = Total(calls[c].counts) + Cardinality(calls[c].batch)
           /\ new <= Cardinality(calls[c].batch)
           /\ IsFiniteSet(rows') /\ Cardinality(rows') = Cardinality(rows) + new
<1> DEFINE call == calls[c]
           new == Cardinality(Inserted(call))
<1>1. Serving(c) /\ call \in Call
  BY DEF Flush, At, Serving, IngestTypeOK
<1>2. IsFiniteSet(call.batch) /\ IsFiniteSet(rows)
  BY <1>1 DEF Finite
<1>3. /\ new \in Nat /\ new <= Cardinality(call.batch) /\ Cardinality(call.batch) \in Nat
      /\ IsFiniteSet(Inserted(call))
  <2>1. Inserted(call) \in SUBSET call.batch
    BY DEF Inserted
  <2> QED BY <1>2, <2>1, FS_Subset, FS_CardinalityType
<1>4. IsFiniteSet(rows') /\ Cardinality(rows') = Cardinality(rows) + new
  <2>1. rows' = rows \cup Inserted(call) /\ rows \cap Inserted(call) = {}
    BY DEF Flush, Inserted
  <2>2. Cardinality(rows) \in Nat
    BY <1>2, FS_CardinalityType
  <2>3. Cardinality(rows \cap Inserted(call)) = 0
    BY <2>1, FS_EmptySet
  <2>4. /\ IsFiniteSet(rows \cup Inserted(call))
        /\ Cardinality(rows \cup Inserted(call))
             = Cardinality(rows) + Cardinality(Inserted(call)) - Cardinality(rows \cap Inserted(call))
    BY <1>2, <1>3, FS_Union
  <2> QED BY <1>3, <2>1, <2>2, <2>3, <2>4
<1> DEFINE n == [call.counts EXCEPT !.accepted = @ + new]
           d == n.duplicates + Cardinality(call.batch) - new
           m == [n EXCEPT !.duplicates = d]
           s == [call EXCEPT !.batch = {}]
           q == [s EXCEPT !.counts = m]
<1>5. /\ call.counts \in Counts /\ call.counts.accepted \in Nat
      /\ call.counts.duplicates \in Nat /\ call.counts.invalid \in Nat
  BY <1>1, CallFields
<1>6. calls' = [calls EXCEPT ![c] = q]
  BY <1>1 DEF Flush, IngestTypeOK, Call, Counts
<1>7. /\ n \in Counts /\ n.accepted = call.counts.accepted + new
      /\ n.duplicates = call.counts.duplicates /\ n.invalid = call.counts.invalid
  BY <1>3, <1>5 DEF Counts
<1> HIDE DEF n
<1>8. d \in Nat /\ d = call.counts.duplicates + Cardinality(call.batch) - new
  BY <1>3, <1>5, <1>7
<1> HIDE DEF d
<1>9. /\ m \in Counts /\ m.accepted = call.counts.accepted + new
      /\ m.duplicates = d /\ m.invalid = call.counts.invalid
  BY <1>7, <1>8 DEF Counts
<1> HIDE DEF m
<1>10. s \in Call /\ s.batch = {} /\ s.key = call.key /\ s.line = call.line /\ s.existing = call.existing
  BY <1>1 DEF Call
<1> HIDE DEF s
<1>11. /\ q \in Call /\ q.batch = {} /\ q.key = call.key /\ q.line = call.line
       /\ q.existing = call.existing /\ q.counts = m
  BY <1>9, <1>10 DEF Call
<1> HIDE DEF q
<1>12. Total(q.counts) = Total(call.counts) + Cardinality(call.batch)
  BY <1>3, <1>5, <1>8, <1>9, <1>11 DEF Total
<1> HIDE DEF call, new
<1>13. /\ new = Cardinality(Inserted(calls[c])) /\ call = calls[c]
  BY DEF call, new
<1> QED BY <1>3, <1>4, <1>6, <1>9, <1>11, <1>12, <1>13

-----------------------------------------------------------------------------
(* Preservation.                                                           *)

\* One call moves on or ends and rows are only added: the calls stay well typed
\* and accounted for if this one does.
LEMMA CallsStep ==
  ASSUME IngestTypeOK, Finite, LinesAccounted, NEW c \in Callers, NEW q,
         calls' = [calls EXCEPT ![c] = q], rows \subseteq rows', IsFiniteSet(rows'),
         q # NoCall => /\ q \in Call /\ IsFiniteSet(q.batch)
                       /\ Cardinality(q.batch) <= BatchSize /\ Accounted(q, rows')
  PROVE  /\ Finite' /\ LinesAccounted'
         /\ calls' \in [Callers -> Call \cup {NoCall}]
         /\ \A o \in Callers : calls'[o] # NoCall => Cardinality(calls'[o].batch) <= BatchSize
<1>1. \A o \in Callers : calls'[o] = IF o = c THEN q ELSE calls[o]
  BY DEF IngestTypeOK
<1>2. \A o \in Callers : calls[o] # NoCall => Accounted(calls[o], rows')
  BY DEF LinesAccounted, Serving, Accounted
<1>3. LinesAccounted'
  BY <1>1, <1>2 DEF LinesAccounted, Serving, Accounted
<1>4. Finite'
  BY <1>1 DEF Finite, Serving
<1>5. calls' \in [Callers -> Call \cup {NoCall}]
  BY DEF IngestTypeOK
<1> QED BY <1>1, <1>3, <1>4, <1>5 DEF IngestTypeOK

\* The call that is served alone moves on or ends.
LEMMA AloneStep ==
  ASSUME IngestTypeOK, AloneInLimit, NEW c \in Callers, NEW q, Serving(c),
         calls' = [calls EXCEPT ![c] = q], overlap' = overlap,
         ~overlap => /\ Cardinality(rows') <= MaxRecipients
                     /\ q # NoCall => /\ Cardinality(rows') = q.existing + q.counts.accepted
                                      /\ Budgeted(q) <= MaxRecipients
  PROVE  AloneInLimit'
<1>1. \A o \in Callers : calls'[o] = IF o = c THEN q ELSE calls[o]
  BY DEF IngestTypeOK
<1> SUFFICES ASSUME ~overlap PROVE /\ Cardinality(rows') <= MaxRecipients
                                   /\ \A a, o \in Callers : Serving(a)' /\ Serving(o)' => a = o
                                   /\ \A a \in Callers : Serving(a)' =>
                                        /\ Cardinality(rows') = calls'[a].existing + calls'[a].counts.accepted
                                        /\ Budgeted(calls'[a]) <= MaxRecipients
  BY DEF AloneInLimit, Budgeted
<1>2. \A o \in Callers : Serving(o) => o = c
  BY DEF AloneInLimit
<1>3. \A o \in Callers : Serving(o)' => o = c
  BY <1>1, <1>2 DEF Serving
<1> QED BY <1>1, <1>3 DEF Serving

\* Rows that are only added keep the completed chunks complete.
LEMMA ChunksStep ==
  ASSUME CompletedIsIngested, rows \subseteq rows', chunk' = chunk
  PROVE  \A k \in Keys : chunk'[k].state = "completed" =>
           /\ Recipients(k) \subseteq rows'
           /\ Total(chunk'[k].counts) = Lines(k)
BY DEF CompletedIsIngested, Total

\* Every step keeps the invariant.
LEMMA IngestStep == IngestInv /\ [IngestNext]_ingestVars => IngestInv'
<1> SUFFICES ASSUME IngestInv, [IngestNext]_ingestVars PROVE IngestInv'
  OBVIOUS
<1> USE DEF IngestInv
<1>t. /\ BatchSize \in Nat /\ BatchSize >= 1 /\ MaxRecipients \in Nat /\ MaxFailures \in Nat
      /\ failures \in 0..MaxFailures /\ claimed \in Nat
      /\ \A c \in Callers : Serving(c) => calls[c] \in Call /\ Accounted(calls[c], rows)
  BY IngestAssumption DEF IngestTypeOK, Serving, LinesAccounted
<1>f. IsFiniteSet(rows) /\ \A c \in Callers : Serving(c) =>
        IsFiniteSet(calls[c].batch) /\ Cardinality(calls[c].batch) \in Nat
  BY FS_CardinalityType DEF Finite
<1>r. Cardinality(rows) \in Nat
  BY <1>f, FS_CardinalityType
<1>b. \A c \in Callers : Serving(c) => Cardinality(calls[c].batch) <= BatchSize
  BY DEF IngestTypeOK, Serving
<1>e. \A c \in Callers : End(c) => calls' = [calls EXCEPT ![c] = NoCall]
  BY DEF End
\* A call that ends without a trace but its chunk, which is not completed by it.
<1>1. ASSUME NEW c \in Callers, Serving(c), End(c), rows' = rows, claimed' = claimed,
             overlap' = overlap, editable' = editable, answered' \subseteq Keys,
             failures' \in 0..MaxFailures, failures' = MaxFailures => failures = MaxFailures,
             chunk' \in [Keys -> Chunk],
             \A k \in Keys : chunk'[k].state = "completed" =>
               Recipients(k) \subseteq rows /\ Total(chunk'[k].counts) = Lines(k)
      PROVE  IngestInv'
  <2>1. /\ Finite' /\ LinesAccounted' /\ calls' \in [Callers -> Call \cup {NoCall}]
        /\ \A o \in Callers : calls'[o] # NoCall => Cardinality(calls'[o].batch) <= BatchSize
    BY <1>1, <1>e, <1>f, CallsStep
  <2>2. AloneInLimit'
    <3>1. ~overlap => Cardinality(rows') <= MaxRecipients
      BY <1>1 DEF AloneInLimit
    <3> QED BY <1>1, <1>e, <3>1, AloneStep
  <2>3. IngestTypeOK'
    BY <1>1, <2>1 DEF IngestTypeOK
  <2>4. CompletedIsIngested'
    BY <1>1 DEF CompletedIsIngested, Total
  <2> QED BY <2>1, <2>2, <2>3, <2>4
<1>2. ASSUME NEW c \in Callers, NEW k \in Keys, Ingest(c, k) PROVE IngestInv'
  <2> DEFINE q == [key |-> k, stage |-> "lookup", existing |-> Cardinality(rows), line |-> 0,
                   batch |-> {}, counts |-> NoCounts]
  <2>0. /\ ~Serving(c) /\ rows' = rows /\ chunk' = chunk /\ failures' = failures /\ claimed' = claimed
        /\ editable' = editable
    BY <1>2 DEF Ingest, Serving
  <2>1. CASE editable
    <3>1. calls' = [calls EXCEPT ![c] = q]
      BY <1>2, <2>1 DEF Ingest
    <3>2. /\ answered' = answered
          /\ overlap' = (overlap \/ \E o \in Callers : calls[o] # NoCall)
      BY <1>2, <2>1 DEF Ingest
    <3>3. /\ q \in Call /\ IsFiniteSet(q.batch) /\ Cardinality(q.batch) = 0 /\ Accounted(q, rows')
      <4>1. q \in Call
        BY <1>r DEF Call, NoCounts, Counts
      <4>2. IsFiniteSet(q.batch) /\ Cardinality(q.batch) = 0
        BY FS_EmptySet
      <4>3. Lines(k) \in Nat
        BY <4>1, CallFields
      <4> QED BY <4>1, <4>2, <4>3 DEF Accounted, Total, NoCounts
    <3>4. q.existing = Cardinality(rows) /\ q.counts.accepted = 0
      BY DEF NoCounts
    <3> HIDE DEF q
    <3>5. /\ Finite' /\ LinesAccounted' /\ calls' \in [Callers -> Call \cup {NoCall}]
          /\ \A o \in Callers : calls'[o] # NoCall => Cardinality(calls'[o].batch) <= BatchSize
      <4>1. Cardinality(q.batch) <= BatchSize /\ rows \subseteq rows' /\ IsFiniteSet(rows')
        BY <1>t, <1>f, <2>0, <3>3
      <4> QED BY <3>1, <3>3, <4>1, CallsStep
    <3>6. \A o \in Callers : calls'[o] = IF o = c THEN q ELSE calls[o]
      BY <3>1 DEF IngestTypeOK
    <3>7. ~overlap' => /\ \A o \in Callers : Serving(o)' => o = c
                       /\ Cardinality(rows') <= MaxRecipients
      BY <2>0, <3>2, <3>6 DEF AloneInLimit, Serving
    <3>8. Budgeted(q) = Cardinality(rows)
      BY <1>r, <3>3, <3>4 DEF Budgeted
    <3>9. AloneInLimit'
      <4>1. Cardinality(rows) = q.existing + q.counts.accepted
        BY <1>r, <3>4
      <4>2. \A o \in Callers : Serving(o)' /\ ~overlap' => calls'[o] = q
        BY <3>6, <3>7
      <4>3. ASSUME ~overlap', NEW o \in Callers, Serving(o)'
            PROVE  /\ Cardinality(rows') = calls'[o].existing + calls'[o].counts.accepted
                   /\ Budgeted(calls'[o]) <= MaxRecipients
        BY <2>0, <3>7, <3>8, <4>1, <4>2, <4>3
      <4> QED BY <3>7, <4>3 DEF AloneInLimit, Budgeted
    <3>10. IngestTypeOK'
      BY <2>0, <3>2, <3>5 DEF IngestTypeOK
    <3>11. CompletedIsIngested'
      BY <2>0 DEF CompletedIsIngested
    <3> QED BY <3>5, <3>9, <3>10, <3>11
  <2>2. CASE ~editable
    <3>1. calls' = calls /\ overlap' = overlap /\ answered' = answered \cup {k}
      BY <1>2, <2>2 DEF Ingest
    <3>2. IngestTypeOK'
      BY <2>0, <3>1 DEF IngestTypeOK
    <3> QED BY <2>0, <3>1, <3>2 DEF Finite, LinesAccounted, Serving, CompletedIsIngested,
                                    AloneInLimit, Budgeted
  <2> QED BY <2>1, <2>2
\* A call that only moves to another stage.
<1>4. ASSUME NEW c \in Callers, NEW s \in {"open", "stream"}, Serving(c),
             calls' = [calls EXCEPT ![c] = [calls[c] EXCEPT !.stage = s]],
             rows' = rows, claimed' = claimed, failures' = failures, editable' = editable,
             overlap' = overlap, answered' = answered, chunk' \in [Keys -> Chunk],
             \A k \in Keys : chunk'[k].state = "completed" => chunk'[k] = chunk[k]
      PROVE  IngestInv'
  <2> DEFINE q == [calls[c] EXCEPT !.stage = s]
  <2>1. /\ q \in Call /\ q.key = calls[c].key /\ q.line = calls[c].line /\ q.batch = calls[c].batch
        /\ q.counts = calls[c].counts /\ q.existing = calls[c].existing
    BY <1>t, <1>4 DEF Call
  <2> HIDE DEF q
  <2>2. Accounted(q, rows) /\ IsFiniteSet(q.batch) /\ Cardinality(q.batch) <= BatchSize
    BY <1>t, <1>f, <1>b, <1>4, <2>1 DEF Accounted
  <2>3. /\ Finite' /\ LinesAccounted' /\ calls' \in [Callers -> Call \cup {NoCall}]
        /\ \A o \in Callers : calls'[o] # NoCall => Cardinality(calls'[o].batch) <= BatchSize
    <3>1. calls' = [calls EXCEPT ![c] = q]
      BY <1>4 DEF q
    <3> QED BY <1>4, <1>f, <2>1, <2>2, <3>1, CallsStep
  <2>4. AloneInLimit'
    <3>1. calls' = [calls EXCEPT ![c] = q]
      BY <1>4 DEF q
    <3>2. ~overlap => /\ Cardinality(rows') <= MaxRecipients
                      /\ Cardinality(rows') = q.existing + q.counts.accepted
                      /\ Budgeted(q) <= MaxRecipients
      BY <1>4, <2>1 DEF AloneInLimit, Budgeted
    <3> QED BY <1>4, <3>1, <3>2, AloneStep
  <2>5. IngestTypeOK'
    BY <1>4, <2>3 DEF IngestTypeOK
  <2>6. CompletedIsIngested'
    BY <1>4 DEF CompletedIsIngested
  <2> QED BY <2>3, <2>4, <2>5, <2>6
<1>3. ASSUME NEW c \in Callers, LookUpChunk(c) PROVE IngestInv'
  <2>0. /\ Serving(c) /\ rows' = rows /\ chunk' = chunk /\ failures' = failures /\ claimed' = claimed
        /\ editable' = editable /\ overlap' = overlap
    BY <1>3 DEF LookUpChunk, At, Serving
  <2>1. CASE chunk[calls[c].key].state = "completed"
    <3>1. End(c) /\ answered' \subseteq Keys
      BY <1>3, <1>t, <2>0, <2>1, CallFields DEF LookUpChunk, Answer, IngestTypeOK
    <3>2. chunk' \in [Keys -> Chunk]
      BY <2>0 DEF IngestTypeOK
    <3>3. \A k \in Keys : chunk'[k].state = "completed" =>
            Recipients(k) \subseteq rows /\ Total(chunk'[k].counts) = Lines(k)
      BY <2>0, ChunksStep
    <3>4. failures' \in 0..MaxFailures /\ (failures' = MaxFailures => failures = MaxFailures)
      BY <1>t, <2>0
    <3> QED BY <1>1, <2>0, <3>1, <3>2, <3>3, <3>4
  <2>2. CASE chunk[calls[c].key].state # "completed"
    <3>1. calls' = [calls EXCEPT ![c] = [calls[c] EXCEPT !.stage = "open"]] /\ answered' = answered
      BY <1>3, <1>t, <2>0, <2>2 DEF LookUpChunk, IngestTypeOK
    <3>2. chunk' \in [Keys -> Chunk]
      BY <2>0 DEF IngestTypeOK
    <3> QED BY <1>4, <2>0, <3>1, <3>2
  <2> QED BY <2>1, <2>2
<1>5. ASSUME NEW c \in Callers, PutPending(c) PROVE IngestInv'
  <2>0. /\ Serving(c) /\ rows' = rows /\ failures' = failures /\ claimed' = claimed
        /\ editable' = editable /\ overlap' = overlap
        /\ chunk' = [chunk EXCEPT ![calls[c].key] = [state |-> "pending", counts |-> NoCounts]]
    BY <1>5 DEF PutPending, At, Serving
  <2>1. calls[c].key \in Keys
    BY <1>t, <2>0, CallFields
  <2>2. /\ chunk' \in [Keys -> Chunk]
        /\ \A k \in Keys : chunk'[k].state = "completed" => chunk'[k] = chunk[k]
    BY <2>0, <2>1 DEF IngestTypeOK, Chunk, NoCounts, Counts
  <2>3. CASE calls[c].existing >= MaxRecipients
    <3>1. End(c) /\ answered' \subseteq Keys
      BY <1>5, <2>1, <2>3 DEF PutPending, Answer, IngestTypeOK
    <3>2. \A k \in Keys : chunk'[k].state = "completed" =>
            Recipients(k) \subseteq rows /\ Total(chunk'[k].counts) = Lines(k)
      BY <2>2 DEF CompletedIsIngested, Total
    <3>3. failures' \in 0..MaxFailures /\ (failures' = MaxFailures => failures = MaxFailures)
      BY <1>t, <2>0
    <3> QED BY <1>1, <2>0, <2>2, <3>1, <3>2, <3>3
  <2>4. CASE ~(calls[c].existing >= MaxRecipients)
    <3>1. calls' = [calls EXCEPT ![c] = [calls[c] EXCEPT !.stage = "stream"]] /\ answered' = answered
      BY <1>5, <2>4 DEF PutPending, IngestTypeOK
    <3> QED BY <1>4, <2>0, <2>2, <3>1
  <2> QED BY <2>3, <2>4
<1>6. ASSUME NEW c \in Callers, StreamLine(c) PROVE IngestInv'
  <2>0. /\ Serving(c) /\ rows' = rows /\ chunk' = chunk /\ failures' = failures /\ claimed' = claimed
        /\ editable' = editable /\ overlap' = overlap
    BY <1>6 DEF StreamLine, At, Serving
  <2>1. chunk' \in [Keys -> Chunk]
    BY <2>0 DEF IngestTypeOK
  <2>2. CASE Fresh(calls[c]) /\ Budgeted(calls[c]) >= MaxRecipients
    <3>1. End(c) /\ answered' \subseteq Keys
      BY <1>6, <1>t, <2>0, <2>2, CallFields DEF StreamLine, Answer, IngestTypeOK
    <3>2. \A k \in Keys : chunk'[k].state = "completed" =>
            Recipients(k) \subseteq rows /\ Total(chunk'[k].counts) = Lines(k)
      BY <2>0, ChunksStep
    <3>3. failures' \in 0..MaxFailures /\ (failures' = MaxFailures => failures = MaxFailures)
      BY <1>t, <2>0
    <3> QED BY <1>1, <2>0, <2>1, <3>1, <3>2, <3>3
  <2>3. CASE ~(Fresh(calls[c]) /\ Budgeted(calls[c]) >= MaxRecipients)
    <3> DEFINE call == calls[c]
               q == Take(call)
    <3>1. calls' = [calls EXCEPT ![c] = q] /\ answered' = answered
      BY <1>6, <2>3 DEF StreamLine, IngestTypeOK
    <3>2. /\ call \in Call /\ IsFiniteSet(call.batch) /\ Accounted(call, rows)
          /\ Cardinality(call.batch) \in Nat
      BY <1>t, <1>f, <2>0
    <3>3. /\ call.line \in Nat /\ Lines(call.key) \in Nat /\ call.existing \in Nat
          /\ call.counts.accepted \in Nat
      BY <3>2, CallFields
    <3>4. call.line < Lines(call.key)
      BY <1>6, <3>2, <3>3 DEF StreamLine, AtEOF, Accounted, Lines
    <3>5. /\ q \in Call /\ q.key = call.key /\ q.existing = call.existing /\ q.line = call.line + 1
          /\ q.counts.accepted = call.counts.accepted /\ IsFiniteSet(q.batch)
          /\ q.batch \subseteq call.batch \cup {NextLine(call)}
          /\ call.batch \cup {NextLine(call)} \subseteq q.batch \cup {BadLine}
          /\ Cardinality(q.batch) = IF NextLine(call) \in call.batch \cup {BadLine}
                                      THEN Cardinality(call.batch) ELSE Cardinality(call.batch) + 1
          /\ Total(q.counts) + Cardinality(q.batch) = Total(call.counts) + Cardinality(call.batch) + 1
      BY <3>2, <3>4, TakeEffect
    <3> HIDE DEF q
    <3>6. Cardinality(q.batch) <= BatchSize
      <4>1. Cardinality(call.batch) <= BatchSize
        BY <1>b, <2>0
      <4>2. ~FlushDue(call)
        BY <1>6 DEF StreamLine
      <4>3. call.batch = {} => Cardinality(call.batch) = 0
        BY FS_EmptySet
      <4>4. Cardinality(call.batch) < BatchSize
        BY <1>t, <3>2, <4>2, <4>3 DEF FlushDue
      <4> QED BY <1>t, <3>2, <3>5, <4>4
    <3>7. Accounted(q, rows')
      <4>1. NextLine(call) = Body[call.key][q.line]
        BY <3>5 DEF NextLine
      <4>2. ASSUME NEW i \in 1..q.line
            PROVE  Body[q.key][i] \in rows \cup q.batch \cup {BadLine}
        <5>1. CASE i = q.line
          BY <3>5, <4>1, <5>1
        <5>2. CASE i # q.line
          <6>1. i \in 1..call.line
            BY <3>3, <3>5, <5>2
          <6>2. Body[call.key][i] \in rows \cup call.batch \cup {BadLine}
            BY <3>2, <6>1 DEF Accounted
          <6> QED BY <3>5, <6>2
        <5> QED BY <5>1, <5>2
      <4>3. q.line <= Lines(q.key)
        BY <3>3, <3>4, <3>5
      <4>4. Total(q.counts) + Cardinality(q.batch) = q.line
        BY <3>2, <3>5 DEF Accounted
      <4> QED BY <2>0, <4>2, <4>3, <4>4 DEF Accounted
    <3>8. /\ Finite' /\ LinesAccounted' /\ calls' \in [Callers -> Call \cup {NoCall}]
          /\ \A o \in Callers : calls'[o] # NoCall => Cardinality(calls'[o].batch) <= BatchSize
      <4>1. rows \subseteq rows' /\ IsFiniteSet(rows')
        BY <1>f, <2>0
      <4> QED BY <3>1, <3>5, <3>6, <3>7, <4>1, CallsStep
    <3>9. AloneInLimit'
      <4>1. ~overlap => /\ Cardinality(rows') <= MaxRecipients
                        /\ Cardinality(rows') = q.existing + q.counts.accepted
                        /\ Budgeted(call) <= MaxRecipients
        BY <2>0, <3>5 DEF AloneInLimit
      <4>2. NextLine(call) \notin call.batch \cup {BadLine} => Budgeted(call) < MaxRecipients
        BY <1>t, <1>6, <2>3, <3>2, <3>3 DEF StreamLine, Fresh, Budgeted
      <4>3. ~overlap => Budgeted(q) <= MaxRecipients
        BY <1>t, <3>2, <3>3, <3>5, <4>1, <4>2 DEF Budgeted
      <4> QED BY <2>0, <3>1, <4>1, <4>3, AloneStep
    <3>10. IngestTypeOK'
      BY <2>0, <2>1, <3>1, <3>8 DEF IngestTypeOK
    <3>11. CompletedIsIngested'
      BY <2>0 DEF CompletedIsIngested
    <3> QED BY <3>8, <3>9, <3>10, <3>11
  <2> QED BY <2>2, <2>3
<1>7. ASSUME NEW c \in Callers, Flush(c) PROVE IngestInv'
  <2> DEFINE call == calls[c]
  <2>0. /\ Serving(c) /\ chunk' = chunk /\ failures' = failures /\ editable' = editable
        /\ answered' = answered /\ overlap' = overlap
        /\ rows' = rows \cup call.batch
        /\ claimed' = claimed + Cardinality(Inserted(call))
    BY <1>7 DEF Flush, At, Serving
  <2>1. /\ call \in Call /\ IsFiniteSet(call.batch) /\ Accounted(call, rows)
        /\ Cardinality(call.batch) \in Nat
    BY <1>t, <1>f, <2>0
  <2>2. PICK q \in Call, new \in Nat :
          /\ new = Cardinality(Inserted(call))
          /\ calls' = [calls EXCEPT ![c] = q]
          /\ q.key = call.key /\ q.line = call.line /\ q.existing = call.existing
          /\ q.batch = {}
          /\ q.counts.accepted = call.counts.accepted + new
          /\ Total(q.counts) = Total(call.counts) + Cardinality(call.batch)
          /\ new <= Cardinality(call.batch)
          /\ IsFiniteSet(rows') /\ Cardinality(rows') = Cardinality(rows) + new
    BY <1>7, FlushEffect
  <2>3. IsFiniteSet(q.batch) /\ Cardinality(q.batch) = 0
    BY <2>2, FS_EmptySet
  <2>4. Total(q.counts) = q.line /\ q.line \in Nat
    BY <2>1, <2>2, CallFields DEF Accounted
  <2>5. Accounted(q, rows')
    <3>1. Total(q.counts) + Cardinality(q.batch) = q.line
      BY <2>3, <2>4
    <3> QED BY <2>0, <2>1, <2>2, <3>1 DEF Accounted
  <2>6. /\ Finite' /\ LinesAccounted' /\ calls' \in [Callers -> Call \cup {NoCall}]
        /\ \A o \in Callers : calls'[o] # NoCall => Cardinality(calls'[o].batch) <= BatchSize
    <3>1. Cardinality(q.batch) <= BatchSize /\ rows \subseteq rows'
      BY <1>t, <2>0, <2>3
    <3> QED BY <2>2, <2>3, <2>5, <3>1, CallsStep
  <2>7. call.existing \in Nat /\ call.counts.accepted \in Nat
    BY <2>1, CallFields
  <2>8. AloneInLimit'
    <3>1. ~overlap => /\ Cardinality(rows) = call.existing + call.counts.accepted
                      /\ call.existing + call.counts.accepted + Cardinality(call.batch) <= MaxRecipients
      BY <2>0 DEF AloneInLimit, Budgeted
    <3>2. ~overlap => /\ Cardinality(rows') = q.existing + q.counts.accepted
                      /\ Cardinality(rows') <= MaxRecipients
                      /\ Budgeted(q) <= MaxRecipients
      BY <1>t, <2>1, <2>2, <2>3, <2>7, <3>1 DEF Budgeted
    <3> QED BY <2>0, <2>2, <3>2, AloneStep
  <2>9. claimed' = claimed + new /\ claimed' \in Nat
    BY <1>t, <2>0, <2>2
  <2>10. IngestTypeOK'
    <3>1. rows' \subseteq Addresses
      BY <2>0, <2>1, CallFields DEF IngestTypeOK
    <3> QED BY <2>0, <2>6, <2>9, <3>1 DEF IngestTypeOK
  <2>11. CompletedIsIngested'
    <3>1. rows \subseteq rows'
      BY <2>0
    <3>2. \A k \in Keys : chunk'[k].state = "completed" =>
            Recipients(k) \subseteq rows' /\ Total(chunk'[k].counts) = Lines(k)
      BY <2>0, <3>1, ChunksStep
    <3>3. claimed' <= Cardinality(rows') /\ (failures' = MaxFailures => claimed' = Cardinality(rows'))
      BY <1>t, <1>r, <2>0, <2>2, <2>9 DEF CompletedIsIngested
    <3> QED BY <3>2, <3>3 DEF CompletedIsIngested, Total
  <2> QED BY <2>6, <2>8, <2>10, <2>11
\* What a call puts as completed misses nothing.
<1>8. ASSUME NEW c \in Callers, Serving(c), Streamed(calls[c])
      PROVE  LET done == [chunk EXCEPT ![calls[c].key] =
                            [state |-> "completed", counts |-> calls[c].counts]]
             IN /\ done \in [Keys -> Chunk]
                /\ \A k \in Keys : done[k].state = "completed" =>
                     Recipients(k) \subseteq rows /\ Total(done[k].counts) = Lines(k)
  <2> DEFINE call == calls[c]
             done == [chunk EXCEPT ![call.key] = [state |-> "completed", counts |-> call.counts]]
  <2>1. call \in Call /\ Accounted(call, rows)
    BY <1>8, <1>t
  <2>2. /\ call.key \in Keys /\ call.counts \in Counts /\ call.line = Lines(call.key)
        /\ call.batch = {} /\ Lines(call.key) \in Nat
        /\ call.counts.accepted \in Nat /\ call.counts.duplicates \in Nat
        /\ call.counts.invalid \in Nat
    BY <1>8, <2>1, CallFields DEF Streamed, AtEOF, Lines
  <2>3. Recipients(call.key) \subseteq rows
    <3>1. DOMAIN Body[call.key] = 1..Lines(call.key)
      BY <2>2, IngestAssumption DEF Lines
    <3> QED BY <2>1, <2>2, <3>1 DEF Accounted, Recipients
  <2>4. Total(call.counts) = Lines(call.key)
    <3>1. Cardinality(call.batch) = 0
      BY <2>2, FS_EmptySet
    <3> QED BY <2>1, <2>2, <3>1 DEF Accounted, Total
  <2>5. done \in [Keys -> Chunk]
    BY <2>2 DEF IngestTypeOK, Chunk
  <2>6. \A k \in Keys : done[k] = IF k = call.key
                                     THEN [state |-> "completed", counts |-> call.counts] ELSE chunk[k]
    BY DEF IngestTypeOK
  <2>7. \A k \in Keys : chunk[k].state = "completed" =>
          Recipients(k) \subseteq rows /\ Total(chunk[k].counts) = Lines(k)
    BY DEF CompletedIsIngested, Total
  <2> HIDE DEF done
  <2>8. \A k \in Keys : done[k].state = "completed" =>
          Recipients(k) \subseteq rows /\ Total(done[k].counts) = Lines(k)
    BY <2>3, <2>4, <2>6, <2>7
  <2> QED BY <2>5, <2>8 DEF done
<1>9. ASSUME NEW c \in Callers, PutCompleted(c) PROVE IngestInv'
  <2>0. /\ Serving(c) /\ Streamed(calls[c]) /\ End(c) /\ rows' = rows /\ failures' = failures
        /\ claimed' = claimed /\ editable' = editable /\ overlap' = overlap
        /\ chunk' = [chunk EXCEPT ![calls[c].key] = [state |-> "completed", counts |-> calls[c].counts]]
    BY <1>9 DEF PutCompleted, At, Serving, Answer
  <2>1. answered' \subseteq Keys
    BY <1>9, <1>t, <2>0, CallFields DEF PutCompleted, Answer, IngestTypeOK
  <2>2. /\ chunk' \in [Keys -> Chunk]
        /\ \A k \in Keys : chunk'[k].state = "completed" =>
             Recipients(k) \subseteq rows /\ Total(chunk'[k].counts) = Lines(k)
    BY <1>8, <2>0
  <2>3. failures' \in 0..MaxFailures /\ (failures' = MaxFailures => failures = MaxFailures)
    BY <1>t, <2>0
  <2> QED BY <1>1, <2>0, <2>1, <2>2, <2>3
<1>10. ASSUME NEW c \in Callers, IngestFails(c) PROVE IngestInv'
  <2>0. /\ Serving(c) /\ End(c) /\ answered' = answered /\ claimed' = claimed
        /\ editable' = editable /\ overlap' = overlap
    BY <1>10 DEF IngestFails, Serving
  <2>1. failures' \in 0..MaxFailures /\ failures' # MaxFailures
    BY <1>10, <1>t DEF IngestFails, Failure
  <2>2. answered' \subseteq Keys
    BY <2>0 DEF IngestTypeOK
  <2>3. CASE UNCHANGED <<rows, chunk>>
    <3>1. chunk' \in [Keys -> Chunk]
      BY <2>3 DEF IngestTypeOK
    <3>2. \A k \in Keys : chunk'[k].state = "completed" =>
            Recipients(k) \subseteq rows /\ Total(chunk'[k].counts) = Lines(k)
      BY <2>3, ChunksStep
    <3> QED BY <1>1, <2>0, <2>1, <2>2, <2>3, <3>1, <3>2
  <2>4. CASE /\ Streamed(calls[c])
             /\ chunk' = [chunk EXCEPT ![calls[c].key] = [state |-> "completed",
                                                          counts |-> calls[c].counts]]
             /\ UNCHANGED rows
    <3>1. /\ chunk' \in [Keys -> Chunk]
          /\ \A k \in Keys : chunk'[k].state = "completed" =>
               Recipients(k) \subseteq rows /\ Total(chunk'[k].counts) = Lines(k)
      BY <1>8, <2>0, <2>4
    <3> QED BY <1>1, <2>0, <2>1, <2>2, <2>4, <3>1
  <2>5. CASE /\ \E S \in SUBSET calls[c].batch : S # {} /\ rows' = rows \cup S
             /\ UNCHANGED chunk
    <3> DEFINE call == calls[c]
    <3>1. PICK S \in SUBSET call.batch : rows' = rows \cup S
      BY <2>5
    <3>2. /\ call \in Call /\ IsFiniteSet(call.batch) /\ Cardinality(call.batch) \in Nat
          /\ call.existing \in Nat /\ call.counts.accepted \in Nat /\ call.batch \subseteq Addresses
      BY <1>t, <1>f, <2>0, CallFields
    <3>3. IsFiniteSet(S) /\ Cardinality(S) \in Nat /\ Cardinality(S) <= Cardinality(call.batch)
      BY <3>2, FS_Subset, FS_CardinalityType
    <3>4. IsFiniteSet(rows') /\ Cardinality(rows') \in Nat
          /\ Cardinality(rows') <= Cardinality(rows) + Cardinality(S)
      <4>1. /\ IsFiniteSet(rows \cup S)
            /\ Cardinality(rows \cup S) = Cardinality(rows) + Cardinality(S) - Cardinality(rows \cap S)
        BY <1>f, <3>3, FS_Union
      <4>2. Cardinality(rows \cap S) \in Nat /\ Cardinality(rows \cup S) \in Nat
        BY <1>f, <4>1, FS_Subset, FS_CardinalityType
      <4> QED BY <1>r, <3>1, <3>3, <4>1, <4>2
    <3>5. rows \subseteq rows' /\ Cardinality(rows) <= Cardinality(rows')
      BY <3>1, <3>4, CountSubset
    <3>6. /\ Finite' /\ LinesAccounted' /\ calls' \in [Callers -> Call \cup {NoCall}]
          /\ \A o \in Callers : calls'[o] # NoCall => Cardinality(calls'[o].batch) <= BatchSize
      BY <1>e, <2>0, <3>4, <3>5, CallsStep
    <3>7. AloneInLimit'
      <4>1. ~overlap => /\ Cardinality(rows) = call.existing + call.counts.accepted
                        /\ call.existing + call.counts.accepted + Cardinality(call.batch) <= MaxRecipients
        BY <2>0 DEF AloneInLimit, Budgeted
      <4>2. ~overlap => Cardinality(rows') <= MaxRecipients
        BY <1>t, <3>2, <3>3, <3>4, <4>1
      <4> QED BY <1>e, <2>0, <4>2, AloneStep
    <3>8. IngestTypeOK'
      <4>1. rows' \subseteq Addresses
        BY <3>1, <3>2 DEF IngestTypeOK
      <4> QED BY <2>0, <2>1, <2>2, <2>5, <3>6, <4>1 DEF IngestTypeOK
    <3>9. CompletedIsIngested'
      <4>1. \A k \in Keys : chunk'[k].state = "completed" =>
              Recipients(k) \subseteq rows' /\ Total(chunk'[k].counts) = Lines(k)
        BY <2>5, <3>5, ChunksStep
      <4>2. claimed' <= Cardinality(rows')
        BY <1>t, <1>r, <2>0, <3>4, <3>5 DEF CompletedIsIngested
      <4> QED BY <2>1, <4>1, <4>2 DEF CompletedIsIngested, Total
    <3> QED BY <3>6, <3>7, <3>8, <3>9
  <2> QED BY <1>10, <2>3, <2>4, <2>5 DEF IngestFails
<1>11. ASSUME UNCHANGED <<rows, chunk, calls, answered, failures, claimed, overlap>>,
              editable' \in BOOLEAN
       PROVE  IngestInv'
  <2>1. IngestTypeOK'
    BY <1>11 DEF IngestTypeOK
  <2> QED BY <1>11, <2>1 DEF Finite, LinesAccounted, Serving, CompletedIsIngested,
                             AloneInLimit, Budgeted
<1>12. CASE CampaignStarts
  BY <1>11, <1>12 DEF CampaignStarts
<1>13. CASE AllAnswered \/ UNCHANGED ingestVars
  <2>1. editable' = editable /\ UNCHANGED <<rows, chunk, calls, answered, failures, claimed, overlap>>
    BY <1>13 DEF AllAnswered, ingestVars
  <2> QED BY <1>11, <2>1 DEF IngestTypeOK
<1> QED BY <1>2, <1>3, <1>5, <1>6, <1>7, <1>9, <1>10, <1>12, <1>13 DEF IngestNext, Serve

\* The invariant holds at first.
LEMMA IngestStarts == IngestInit => IngestInv
<1> SUFFICES ASSUME IngestInit PROVE IngestInv
  OBVIOUS
<1>1. IngestTypeOK
  <2>1. [state |-> "absent", counts |-> NoCounts] \in Chunk
    BY DEF Chunk, Counts, NoCounts
  <2>2. calls \in [Callers -> Call \cup {NoCall}] /\ \A c \in Callers : calls[c] = NoCall
    BY DEF IngestInit
  <2>3. chunk \in [Keys -> Chunk]
    BY <2>1 DEF IngestInit
  <2>4. failures \in 0..MaxFailures
    BY IngestAssumption DEF IngestInit
  <2> QED BY <2>2, <2>3, <2>4 DEF IngestInit, IngestTypeOK
<1>2. \A c \in Callers : ~Serving(c)
  BY DEF IngestInit, Serving
<1>3. IsFiniteSet(rows) /\ Cardinality(rows) = 0
  BY FS_EmptySet DEF IngestInit
<1>4. CompletedIsIngested
  BY <1>3 DEF IngestInit, CompletedIsIngested
<1>5. AloneInLimit
  BY <1>2, <1>3, IngestAssumption DEF AloneInLimit
<1> QED BY <1>1, <1>2, <1>3, <1>4, <1>5 DEF IngestInv, Finite, LinesAccounted

\* IngestInv is an invariant.
LEMMA IngestInvariant == IngestSpec => []IngestInv
<1>1. IngestInit => IngestInv
  BY IngestStarts
<1>2. IngestInv /\ [IngestNext]_ingestVars => IngestInv'
  BY IngestStep
<1> QED BY <1>1, <1>2, PTL DEF IngestSpec

-----------------------------------------------------------------------------
(* Theorems.                                                               *)

\* Types: in particular no batch outgrows DefaultBatchSize.
THEOREM IngestTypeCorrect == IngestSpec => []IngestTypeOK
<1>1. IngestInv => IngestTypeOK
  BY DEF IngestInv
<1> QED BY <1>1, IngestInvariant, PTL

\* Whatever calls race, fail or are sent again, a completed chunk has a row for
\* every recipient and its counts account for every line, and no row is counted
\* as accepted twice (Ingest, stream, flush).
THEOREM CompletedChunksAreIngested == IngestSpec => []CompletedIsIngested
<1>1. IngestInv => CompletedIsIngested
  BY DEF IngestInv
<1> QED BY <1>1, IngestInvariant, PTL

\* Calls that never overlap never exceed MaxRecipientsPerCampaign together: the
\* count read at the start of a call is exact then, and stream flushes early
\* rather than overshoot it.
THEOREM LimitHoldsAlone == IngestSpec => []LimitNeedsOverlap
<1>1. IngestInv => LimitNeedsOverlap
  <2> SUFFICES ASSUME IngestInv PROVE LimitNeedsOverlap
    OBVIOUS
  <2>1. Cardinality(rows) \in Nat /\ MaxRecipients \in Nat
    BY IngestAssumption, FS_CardinalityType DEF IngestInv, Finite
  <2> QED BY <2>1 DEF IngestInv, AloneInLimit, LimitNeedsOverlap
<1> QED BY <1>1, IngestInvariant, PTL

-----------------------------------------------------------------------------
(* Bounces: the inductive invariant.                                       *)

Stages == {"idle", "fetching", "acking", "aborting", "closing", "releasing"} \cup Handling

Session == [stage : Stages, batch : SUBSET Mails, handled : SUBSET Mails,
            deleted : SUBSET Mails, full : BOOLEAN, tenant : Tenants \cup {System, None}, marks : BOOLEAN]

Events == [tenant : Tenants \cup {System}, delivery : Deliveries \cup {None},
           type : Types, verified : BOOLEAN]

Typed ==
  /\ box \in Tenants \cup {System} /\ kind \in Kinds
  /\ letter \in [Mails -> DOMAIN Letters \cup {None}]
  /\ DOMAIN parsed = Mails
  /\ mailbox \in [Mails -> {"coming", "unread", "acked"}]
  /\ delivery \in [Deliveries -> {"leased", "sent", "gone"} \cup Ended]
  /\ events \subseteq Events
  /\ suppressed \subseteq (Tenants \cup {System}) \X Deliveries
  /\ outbox \in [Deliveries -> Nat]
  /\ lock \in [owner : Replicas \cup {None}, live : BOOLEAN]
  /\ job \in [Replicas -> Session]
  /\ faults \in 0..MaxFaults /\ retries \in 0..MaxRetries /\ early \subseteq Mails
  /\ broken \in [Deliveries -> Nat] /\ ends \in [Deliveries -> Nat]

\* A mail has a letter once it arrived, and the parser read it.
Arrived == {m \in Mails : mailbox[m] # "coming"}

MailsParsed ==
  \A m \in Mails : IF m \in Arrived THEN /\ letter[m] \in DOMAIN Letters
                                         /\ parsed[m] = Parse(Letters[letter[m]])
                                    ELSE letter[m] = None /\ parsed[m] = None

\* A hard bounce or complaint that its mailbox may apply to a delivery.
Concerns(m, d) ==
  /\ parsed[m].type \in {"hard", "complaint"}
  /\ d = parsed[m].c.delivery /\ SpeaksFor(Letters[letter[m]], d)
  /\ box \in {System, TenantOf[d]}
  /\ parsed[m].c.tenant \in {None, TenantOf[d]}

\* A mail that was dealt with: its delivery is no longer in sent, and will not be
\* again unless an operator retries it, after which the mail is an early one.
Settled(m) ==
  m \in early \/ \A d \in Deliveries : Concerns(m, d) => delivery[d] \notin {"leased", "sent"}

\* The BounceEvent of a delivery's own tenant.
Event(d, type) == [tenant |-> TenantOf[d], delivery |-> d, verified |-> TRUE, type |-> type]

\* The session is about to end a delivery, or has: the mail at hand is a verified
\* hard bounce or complaint of a delivery that was sent, and if that was sent again
\* since, the mail is an early one.
Ending(r) ==
  /\ Target(r) \in Deliveries
  /\ job[r].tenant = TenantOf[Target(r)]
  /\ Verified(Current(r).c, job[r].tenant)
  /\ Current(r).type \in {"hard", "complaint"}
  /\ delivery[Target(r)] # "leased" \/ Min(job[r].batch) \in early

\* The suppression lists a delivery must be on while its session goes through
\* them, and those it may be on.
Listed(d, own, platform) ==
  /\ own /\ TenantOf[d] \in Suppressing => <<TenantOf[d], d>> \in suppressed
  /\ platform /\ d \in SharedTransport => <<System, d>> \in suppressed

RightlyListed(d) ==
  \A t \in Tenants \cup {System} : <<t, d>> \in suppressed =>
    /\ ends[d] > 0 /\ d \notin ProbeLane
    /\ \/ t = TenantOf[d] /\ t \in Suppressing
       \/ t = System /\ d \in SharedTransport

SessionOK(r) ==
  /\ job[r].stage \in Handling <=> job[r].batch # {}
  /\ job[r].batch \cup job[r].handled \cup job[r].deleted \subseteq Arrived
  /\ Cardinality(job[r].handled) + Cardinality(job[r].batch) <= FetchBatch
  /\ \A m \in job[r].handled \cup job[r].deleted : Settled(m)
  /\ job[r].stage = "recording" =>
       /\ job[r].tenant # None
       /\ IF job[r].marks THEN Ending(r) ELSE Settled(Min(job[r].batch))
  /\ job[r].stage \in {"marking"} \cup AfterMark =>
       Ending(r) /\ Event(Target(r), Current(r).type) \in events
  /\ job[r].stage \in AfterMark =>
       /\ Settled(Min(job[r].batch)) /\ ends[Target(r)] > 0
       /\ job[r].stage # "emitting" => Target(r) \notin ProbeLane
       /\ Target(r) \notin ProbeLane =>
            Listed(Target(r), job[r].stage # "suppressing", job[r].stage = "emitting")

\* Each end of a delivery is announced, was given up on or is being followed
\* through, and what was announced is on its lists.
DeliveryOK(d) ==
  /\ outbox[d] + broken[d] + Cardinality(Following(d)) = ends[d]
  /\ delivery[d] \in Ended => ends[d] > 0
  /\ RightlyListed(d)
  /\ outbox[d] > 0 /\ d \notin ProbeLane => Listed(d, TRUE, TRUE)

BounceInv ==
  /\ Typed /\ MailsParsed
  /\ \A r \in Replicas : SessionOK(r)
  /\ \A d \in Deliveries : DeliveryOK(d)
  /\ EvidenceFirst
  /\ \A m \in Mails : mailbox[m] = "acked" => Settled(m)

-----------------------------------------------------------------------------
(* What the parser makes of a letter.                                      *)

\* Every mail is of one of the four types.
LEMMA ClassifyType ==
  ASSUME NEW mail, mail.subject \in {"bounce", "complaint", "other"}
  PROVE  Classify(mail) \in Types /\ (Classify(mail) # "unknown" => mail.readable)
<1>1. \A code : TypeFromStatus(code) \in Types
  BY DEF TypeFromStatus, Types
<1>2. \A code : StatusFromText(code) \in Types
  BY <1>1 DEF StatusFromText, Types
<1>3. ClassifyDSN(mail) \in Types
  BY <1>1, <1>2 DEF ClassifyDSN, Types
<1>4. ClassifyHeuristic(mail) \in Types
  BY <1>2 DEF ClassifyHeuristic, Types
<1>5. ClassifyFeedback(mail) \in Types
  BY DEF ClassifyFeedback, Types
<1> QED BY <1>3, <1>4, <1>5 DEF Classify, Types

\* The first of some addresses.
LEMMA FirstElement ==
  ASSUME NEW S, NEW s \in Seq(S), s # <<>>
  PROVE  1 \in DOMAIN s /\ s[1] \in S
OBVIOUS

\* A correlation names a delivery, a tenant and a key, if it names any.
LEMMA CorrelateType ==
  ASSUME NEW l \in DOMAIN Letters
  PROVE  LET c == Correlate(Letters[l])
         IN /\ c.delivery \in Deliveries \cup {None}
            /\ c.tenant \in Tenants \cup {System, None}
            /\ c.key \in Tenants \cup {AnyKey, None}
<1> DEFINE mail == Letters[l]
<1>1. /\ mail.verp \in Seq([delivery : Deliveries, key : Tenants \cup {None}])
      /\ mail.headers \in Seq([tenant : Tenants \cup {System}, delivery : Deliveries])
      /\ mail.replies \in Seq(Deliveries)
  BY LettersAssumption
<1> HIDE DEF mail
<1>2. CASE mail.verp # <<>>
  <2>1. mail.verp[1] \in [delivery : Deliveries, key : Tenants \cup {None}]
    BY <1>1, <1>2, FirstElement
  <2> QED BY <1>2, <2>1 DEF Correlate, Correlation, mail
<1>3. CASE mail.verp = <<>> /\ mail.headers # <<>>
  <2>1. mail.headers[1] \in [tenant : Tenants \cup {System}, delivery : Deliveries]
    BY <1>1, <1>3, FirstElement
  <2> QED BY <1>3, <2>1 DEF Correlate, CorrelateHeaders, Correlation, mail
<1>4. CASE mail.verp = <<>> /\ mail.headers = <<>>
  <2>1. mail.replies # <<>> => mail.replies[1] \in Deliveries
    BY <1>1, FirstElement
  <2> QED BY <1>4, <2>1 DEF Correlate, CorrelateHeaders, Correlation, mail
<1> QED BY <1>2, <1>3, <1>4

\* A mail speaks for the delivery it is correlated with exactly when the
\* tenant's keys verify the correlation: a VERP address that does not verify is
\* never passed over for the headers.
LEMMA VerifiedSpeaks ==
  ASSUME NEW l \in DOMAIN Letters, NEW d \in Deliveries, Correlate(Letters[l]).delivery = d
  PROVE  Verified(Correlate(Letters[l]), TenantOf[d]) <=> SpeaksFor(Letters[l], d)
<1> DEFINE mail == Letters[l]
           c == Correlate(mail)
<1>1. /\ mail.verp \in Seq([delivery : Deliveries, key : Tenants \cup {None}])
      /\ mail.headers \in Seq([tenant : Tenants \cup {System}, delivery : Deliveries])
      /\ mail.replies \in Seq(Deliveries)
  BY LettersAssumption
<1>2. TenantOf[d] \in Tenants /\ TenantOf[d] # None /\ d # None /\ AnyKey \notin Tenants \cup {None}
  BY PollerAssumption
<1>3. c.delivery = d
  OBVIOUS
<1> HIDE DEF mail
<1>4. CASE mail.verp # <<>>
  <2>1. mail.verp[1] \in [delivery : Deliveries, key : Tenants \cup {None}]
    BY <1>1, <1>4, FirstElement
  <2>2. c.delivery = mail.verp[1].delivery /\ c.key = mail.verp[1].key
    BY <1>4 DEF Correlate, Correlation
  <2>3. mail.verp[1] = [delivery |-> mail.verp[1].delivery, key |-> mail.verp[1].key]
    BY <2>1
  <2>4. SpeaksFor(mail, d) <=> mail.verp[1] = [delivery |-> d, key |-> TenantOf[d]]
    BY <1>4 DEF SpeaksFor
  <2>5. Verified(c, TenantOf[d]) <=> mail.verp[1].key = TenantOf[d]
    BY <1>2, <2>1, <2>2 DEF Verified
  <2> QED BY <1>3, <2>2, <2>3, <2>4, <2>5 DEF mail
<1>5. CASE mail.verp = <<>> /\ mail.headers # <<>>
  <2>1. c.delivery = mail.headers[1].delivery /\ c.key = AnyKey /\ 1 \in DOMAIN mail.headers
    BY <1>1, <1>5 DEF Correlate, CorrelateHeaders, Correlation
  <2>2. SpeaksFor(mail, d) /\ Verified(c, TenantOf[d])
    BY <1>3, <1>5, <2>1 DEF SpeaksFor, Verified
  <2> QED BY <2>2 DEF mail
<1>6. CASE mail.verp = <<>> /\ mail.headers = <<>> /\ mail.replies # <<>>
  <2>1. c.delivery = mail.replies[1] /\ c.key = AnyKey /\ 1 \in DOMAIN mail.replies
    BY <1>1, <1>6 DEF Correlate, CorrelateHeaders, Correlation
  <2>2. SpeaksFor(mail, d) /\ Verified(c, TenantOf[d])
    BY <1>3, <1>6, <2>1 DEF SpeaksFor, Verified
  <2> QED BY <2>2 DEF mail
<1>7. CASE mail.verp = <<>> /\ mail.headers = <<>> /\ mail.replies = <<>>
  <2>1. c.delivery = None
    BY <1>7 DEF Correlate, CorrelateHeaders, Correlation
  <2> QED BY <1>2, <1>3, <2>1
<1> QED BY <1>4, <1>5, <1>6, <1>7

\* An arrived mail is parsed.
LEMMA ParsedMail ==
  ASSUME BounceInv, NEW m \in Arrived
  PROVE  /\ m \in Mails /\ letter[m] \in DOMAIN Letters /\ letter[m] # None
         /\ parsed[m].type \in Types /\ (parsed[m].type # "unknown" => parsed[m].readable)
         /\ parsed[m].c = Correlate(Letters[letter[m]])
         /\ parsed[m].c.delivery \in Deliveries \cup {None}
         /\ parsed[m].c.tenant \in Tenants \cup {System, None}
<1>1. m \in Mails /\ letter[m] \in DOMAIN Letters /\ parsed[m] = Parse(Letters[letter[m]])
  BY DEF BounceInv, MailsParsed, Arrived
<1>2. letter[m] # None /\ Letters[letter[m]].subject \in {"bounce", "complaint", "other"}
  BY <1>1, LettersAssumption
<1> QED BY <1>1, <1>2, ClassifyType, CorrelateType DEF Parse

\* The mail at hand is one of the batch.
LEMMA MailAtHand ==
  ASSUME BounceInv, NEW r \in Replicas, job[r].stage \in Handling
  PROVE  /\ job[r].batch # {} /\ Min(job[r].batch) \in job[r].batch
         /\ Min(job[r].batch) \in Arrived
<1>1. job[r].batch # {} /\ job[r].batch \subseteq Arrived
  BY DEF BounceInv, SessionOK
<1>2. job[r].batch \in SUBSET Nat
  BY <1>1 DEF Arrived, Mails
<1>3. \E m \in job[r].batch : \A n \in job[r].batch : m <= n
  BY <1>1, <1>2, SmallestOf
<1> QED BY <1>1, <1>3 DEF Min

\* There are finitely many mails.
LEMMA MailsFinite ==
  ASSUME NEW S \in SUBSET Mails
  PROVE  IsFiniteSet(S) /\ Cardinality(S) \in Nat
<1>1. 1 \in Int /\ LastMail \in Int
  BY PollerAssumption
<1>2. IsFiniteSet(Mails)
  BY <1>1, FS_Interval DEF Mails
<1>3. IsFiniteSet(S)
  BY <1>2, FS_Subset
<1> QED BY <1>3, FS_CardinalityType

\* Fetch returns at most FetchBatch mails.
LEMMA UnreadBounded ==
  ASSUME NEW j
  PROVE  /\ Unread(j) \subseteq {m \in Mails : mailbox[m] = "unread"}
         /\ Cardinality(Unread(j)) \in Nat /\ Cardinality(Unread(j)) <= FetchBatch
<1> DEFINE unread == {m \in Mails : mailbox[m] = "unread"} \ j.deleted
           Older(m) == {n \in unread : n < m}
           fetched == Unread(j)
<1>1. fetched = {m \in unread : Cardinality(Older(m)) < FetchBatch}
  BY DEF Unread
<1>2. fetched \subseteq unread /\ unread \subseteq Mails
  BY <1>1
<1> HIDE DEF fetched
<1>3. IsFiniteSet(fetched) /\ Cardinality(fetched) \in Nat
  BY <1>2, MailsFinite
<1>4. Cardinality(fetched) <= FetchBatch
  <2>1. CASE fetched = {}
    BY <2>1, FS_EmptySet, PollerAssumption
  <2>2. CASE fetched # {}
    <3>1. fetched \in SUBSET (1..LastMail) /\ LastMail \in Nat
      BY <1>2, PollerAssumption DEF Mails
    <3>2. PICK m \in fetched : \A n \in fetched : n <= m
      BY <2>2, <3>1, LargestOf
    <3>3. Cardinality(Older(m)) < FetchBatch
      BY <1>1
    <3>4. Older(m) \in SUBSET Mails
      BY <1>2
    <3>5. IsFiniteSet(Older(m)) /\ Cardinality(Older(m)) \in Nat
      BY <3>4, MailsFinite
    <3>6. fetched \subseteq Older(m) \cup {m}
      BY <1>2, <3>1, <3>2
    <3> HIDE DEF Older
    <3>7. Cardinality(fetched) <= Cardinality(Older(m)) + 1
      BY <3>5, <3>6, CountAdded
    <3> QED BY <1>3, <3>3, <3>5, <3>7, PollerAssumption
  <2> QED BY <2>1, <2>2
<1> QED BY <1>2, <1>3, <1>4 DEF fetched

-----------------------------------------------------------------------------
(* What Handle decides.                                                    *)

\* A mail that concerns a delivery is handled in the delivery's tenant, unless
\* the delivery is gone, and its correlation is verified there.
LEMMA HandledWhereItBelongs ==
  ASSUME BounceInv, NEW m \in Arrived, NEW d \in Deliveries, Concerns(m, d)
  PROVE  /\ HandlingTenant(parsed[m]) = TenantOf[d] \/ delivery[d] = "gone"
         /\ Verified(parsed[m].c, TenantOf[d])
<1>1. /\ parsed[m].readable /\ parsed[m].c.delivery = d /\ d # None /\ letter[m] \in DOMAIN Letters
      /\ parsed[m].c = Correlate(Letters[letter[m]])
  BY ParsedMail, PollerAssumption DEF Concerns
<1>2. Verified(parsed[m].c, TenantOf[d])
  BY <1>1, VerifiedSpeaks DEF Concerns
<1>3. HandlingTenant(parsed[m]) = TenantOf[d] \/ delivery[d] = "gone"
  BY <1>1 DEF Concerns, HandlingTenant, ResolveTenant
<1> QED BY <1>2, <1>3

\* The tenant is known.
LEMMA HandlingTenantType ==
  ASSUME BounceInv, NEW m \in Arrived
  PROVE  HandlingTenant(parsed[m]) \in Tenants \cup {System} /\ HandlingTenant(parsed[m]) # None
<1>1. /\ parsed[m].c.delivery \in Deliveries \cup {None}
      /\ parsed[m].c.tenant \in Tenants \cup {System, None}
  BY ParsedMail
<1>2. box \in Tenants \cup {System} /\ \A d \in Deliveries : TenantOf[d] \in Tenants
  BY PollerAssumption DEF BounceInv, Typed
<1> QED BY <1>1, <1>2, PollerAssumption DEF HandlingTenant, ResolveTenant

\* Handle decides to end a delivery only when all it needs is there ...
LEMMA DecidedToMark ==
  ASSUME BounceInv, NEW m \in Arrived, NEW tenant, Decision(parsed[m], tenant) = "mark"
  PROVE  LET p == parsed[m]
             d == p.c.delivery
         IN /\ d \in Deliveries /\ tenant = TenantOf[d] /\ Verified(p.c, tenant)
            /\ p.type \in {"hard", "complaint"} /\ delivery[d] = "sent"
<1> DEFINE p == parsed[m]
           d == p.c.delivery
           status == StatusIn(tenant, d)
<1>1. p.type \in Types /\ d \in Deliveries \cup {None}
  BY ParsedMail
<1>2. /\ p.type # "unknown" /\ d # None /\ status # "gone" /\ Verified(p.c, tenant)
      /\ status = "sent" /\ p.type # "soft"
  BY DEF Decision
<1>3. TenantOf[d] = tenant /\ delivery[d] = "sent"
  BY <1>2 DEF StatusIn
<1> QED BY <1>1, <1>2, <1>3 DEF Types

\* ... and otherwise the mail concerns nothing that is sent, or came early.
LEMMA DecidedNotToMark ==
  ASSUME BounceInv, NEW m \in Arrived,
         Decision(parsed[m], HandlingTenant(parsed[m])) # "mark",
         StatusIn(HandlingTenant(parsed[m]), parsed[m].c.delivery) # "leased",
         NEW d \in Deliveries, Concerns(m, d)
  PROVE  delivery[d] \notin {"leased", "sent"}
<1> DEFINE p == parsed[m]
           tenant == HandlingTenant(p)
<1>1. p.type \in {"hard", "complaint"} /\ d = p.c.delivery /\ p.c.tenant \in {None, TenantOf[d]}
  BY DEF Concerns
<1>2. d # None
  BY PollerAssumption
<1>3. /\ tenant = TenantOf[d] \/ delivery[d] = "gone"
      /\ Verified(p.c, TenantOf[d])
  BY HandledWhereItBelongs
<1>4. CASE delivery[d] = "gone"
  BY <1>4
<1>5. CASE tenant = TenantOf[d]
  <2>1. StatusIn(tenant, d) = delivery[d]
    BY <1>2, <1>5 DEF StatusIn
  <2> HIDE DEF p, tenant
  <2>2. Decision(p, tenant) = IF delivery[d] = "gone" THEN "record"
                              ELSE IF delivery[d] = "sent" THEN "mark" ELSE "skip"
    BY <1>1, <1>2, <1>3, <1>5, <2>1 DEF Decision
  <2> QED BY <1>1, <2>1, <2>2 DEF p, tenant
<1> QED BY <1>3, <1>4, <1>5

-----------------------------------------------------------------------------
(* What a step leaves alone.                                               *)

\* Arrived mails stay as they are, what was noted stays noted, and a delivery only
\* goes back when the mails about it are early ones from then on.
Forwards(d) ==
  /\ delivery[d] \notin {"leased", "sent"} => delivery'[d] \notin {"leased", "sent"}
  /\ delivery[d] # "leased" => delivery'[d] # "leased"

Onwards ==
  /\ box' = box /\ early \subseteq early' /\ events \subseteq events' /\ suppressed \subseteq suppressed'
  /\ \A m \in Arrived : m \in Arrived' /\ letter'[m] = letter[m] /\ parsed'[m] = parsed[m]
  /\ \A d \in Deliveries : ends[d] > 0 => ends'[d] > 0
  /\ \A d \in Deliveries :
       Forwards(d) \/ \A m \in Arrived : parsed[m].c.delivery = d => m \in early'

LEMMA SettledKept ==
  ASSUME BounceInv, Onwards, NEW m \in Arrived, Settled(m)
  PROVE  Settled(m)'
<1>1. CASE m \in early
  BY <1>1 DEF Settled, Onwards
<1>2. CASE m \notin early /\ m \notin early'
  <2> SUFFICES ASSUME NEW d \in Deliveries, Concerns(m, d)'
               PROVE  delivery'[d] \notin {"leased", "sent"}
    BY DEF Settled
  <2>1. Concerns(m, d) /\ parsed[m].c.delivery = d
    BY DEF Concerns, Onwards
  <2>2. Forwards(d) /\ delivery[d] \notin {"leased", "sent"}
    BY <1>2, <2>1 DEF Onwards, Settled
  <2> QED BY <2>2 DEF Forwards
<1>3. CASE m \in early'
  BY <1>3 DEF Settled
<1> QED BY <1>1, <1>2, <1>3

\* What was done for a delivery.
SameFor(d) ==
  /\ outbox'[d] = outbox[d] /\ broken'[d] = broken[d] /\ ends'[d] = ends[d]
  /\ \A t \in Tenants \cup {System} : <<t, d>> \in suppressed' <=> <<t, d>> \in suppressed

\* The fields of a session.
LEMMA SessionFields ==
  ASSUME Typed, NEW r \in Replicas
  PROVE  /\ job[r] \in Session
         /\ job[r].stage \in Stages /\ job[r].batch \subseteq Mails /\ job[r].handled \subseteq Mails
         /\ job[r].deleted \subseteq Mails
         /\ job[r].full \in BOOLEAN /\ job[r].tenant \in Tenants \cup {System, None}
         /\ job[r].marks \in BOOLEAN
<1>1. job[r] \in Session
  BY DEF Typed
<1> QED BY <1>1 DEF Session

\* A session that a step leaves alone is in order after it.
LEMMA SessionKept ==
  ASSUME BounceInv, Onwards, NEW q \in Replicas, job'[q] = job[q]
  PROVE  SessionOK(q)' /\ (job[q].stage \in Handling => Target(q)' = Target(q))
<1>0. SessionOK(q) /\ AfterMark \subseteq Handling /\ {"recording", "marking"} \subseteq Handling
  BY DEF BounceInv, Handling
<1>1. job[q].batch \cup job[q].handled \cup job[q].deleted \subseteq Arrived
  BY <1>0 DEF SessionOK
<1>2. job[q].batch \cup job[q].handled \cup job[q].deleted \subseteq Arrived'
  BY <1>1 DEF Onwards
<1>3. \A m \in job[q].handled \cup job[q].deleted : Settled(m)'
  BY <1>0, <1>1, SettledKept DEF SessionOK
<1>4. ASSUME job[q].stage \in Handling PROVE Current(q)' = Current(q) /\ Target(q)' = Target(q)
  <2>1. Min(job[q].batch) \in Arrived
    BY <1>4, MailAtHand
  <2> QED BY <2>1 DEF Current, Target, Onwards
<1>5. ASSUME job[q].stage \in Handling, Ending(q) PROVE Ending(q)'
  <2>1. Min(job[q].batch) \in Arrived /\ parsed[Min(job[q].batch)].c.delivery = Target(q)
    BY <1>5, MailAtHand DEF Target, Current
  <2>2. Target(q) \in Deliveries /\ (delivery[Target(q)] # "leased" \/ Min(job[q].batch) \in early)
    BY <1>5 DEF Ending
  <2>3. delivery'[Target(q)] # "leased" \/ Min(job[q].batch) \in early'
    BY <2>1, <2>2 DEF Onwards, Forwards
  <2> QED BY <1>4, <1>5, <2>3 DEF Ending
<1>6. ASSUME job[q].stage \in Handling, Settled(Min(job[q].batch)) PROVE Settled(Min(job[q].batch))'
  <2>1. Min(job[q].batch) \in Arrived
    BY <1>6, MailAtHand
  <2> QED BY <1>6, <2>1, SettledKept
<1>7. ASSUME job[q].stage \in {"marking"} \cup AfterMark
      PROVE  Ending(q)' /\ Event(Target(q), Current(q).type)' \in events'
  BY <1>0, <1>4, <1>5, <1>7 DEF SessionOK, Event, Onwards
<1>8. ASSUME job[q].stage \in AfterMark
      PROVE  /\ Settled(Min(job[q].batch))' /\ ends'[Target(q)'] > 0
             /\ job[q].stage # "emitting" => Target(q)' \notin ProbeLane
             /\ Target(q)' \notin ProbeLane =>
                  Listed(Target(q), job[q].stage # "suppressing", job[q].stage = "emitting")'
  <2>1. Target(q)' = Target(q) /\ Target(q) \in Deliveries /\ ends[Target(q)] > 0
    BY <1>0, <1>4, <1>8 DEF SessionOK, Ending
  <2>2. Settled(Min(job[q].batch))'
    BY <1>0, <1>6, <1>8 DEF SessionOK
  <2>3. ASSUME Target(q) \notin ProbeLane
        PROVE  Listed(Target(q), job[q].stage # "suppressing", job[q].stage = "emitting")'
    <3>1. Listed(Target(q), job[q].stage # "suppressing", job[q].stage = "emitting")
      BY <1>0, <1>8, <2>3 DEF SessionOK
    <3> QED BY <2>1, <3>1 DEF Listed, Onwards
  <2> QED BY <1>0, <1>8, <2>1, <2>2, <2>3 DEF SessionOK, Onwards
<1>9. job[q].stage = "recording" =>
        /\ job[q].tenant # None
        /\ IF job[q].marks THEN Ending(q)' ELSE Settled(Min(job[q].batch))'
  BY <1>0, <1>5, <1>6 DEF SessionOK
<1> QED BY <1>0, <1>2, <1>3, <1>4, <1>7, <1>8, <1>9 DEF SessionOK

\* Who follows a delivery through, when only r moves.
LEMMA FollowingOthers ==
  ASSUME BounceInv, Onwards, NEW r \in Replicas, NEW d,
         \A q \in Replicas \ {r} : job'[q] = job[q]
  PROVE  Following(d)' \ {r} = Following(d) \ {r}
<1>1. \A q \in Replicas \ {r} : job'[q].stage = job[q].stage
                               /\ (job[q].stage \in AfterMark => Target(q)' = Target(q))
  BY SessionKept DEF Handling
<1> QED BY <1>1 DEF Following

LEMMA FollowingFinite ==
  ASSUME NEW d
  PROVE  /\ IsFiniteSet(Following(d)) /\ Cardinality(Following(d)) \in Nat
         /\ IsFiniteSet(Following(d)') /\ Cardinality(Following(d)') \in Nat
<1>1. Following(d) \subseteq Replicas /\ Following(d)' \subseteq Replicas /\ IsFiniteSet(Replicas)
  BY PollerAssumption DEF Following
<1>2. IsFiniteSet(Following(d)) /\ IsFiniteSet(Following(d)')
  BY <1>1, FS_Subset
<1> QED BY <1>2, FS_CardinalityType

\* One session joins or leaves.
LEMMA CountJoined ==
  ASSUME NEW S, NEW T, NEW r, IsFiniteSet(S), IsFiniteSet(T), T \ {r} = S \ {r}, r \notin S, r \in T
  PROVE  Cardinality(T) = Cardinality(S) + 1
<1>1. T = S \cup {r}
  OBVIOUS
<1> QED BY <1>1, FS_AddElement

\* A delivery that a step leaves alone.
LEMMA DeliveryKept ==
  ASSUME BounceInv, NEW d \in Deliveries, SameFor(d), Following(d)' = Following(d),
         delivery'[d] \in Ended => delivery[d] \in Ended
  PROVE  DeliveryOK(d)'
<1>1. DeliveryOK(d) /\ TenantOf[d] \in Tenants
  BY PollerAssumption DEF BounceInv
<1>2. RightlyListed(d)' /\ (Listed(d, TRUE, TRUE) => Listed(d, TRUE, TRUE)')
  BY <1>1 DEF DeliveryOK, RightlyListed, SameFor, Listed
<1>3. outbox'[d] + broken'[d] + Cardinality(Following(d)') = ends'[d]
  BY <1>1 DEF DeliveryOK, SameFor
<1>4. delivery'[d] \in Ended => ends'[d] > 0
  BY <1>1 DEF DeliveryOK, SameFor
<1>5. outbox'[d] > 0 /\ d \notin ProbeLane => Listed(d, TRUE, TRUE)'
  BY <1>1, <1>2 DEF DeliveryOK, SameFor
<1> QED BY <1>2, <1>3, <1>4, <1>5 DEF DeliveryOK

\* Evidence is kept, and only a delivery that ends needs more of it.
LEMMA EvidenceKept ==
  ASSUME BounceInv, Onwards, \A d \in Deliveries : delivery'[d] \in Ended => delivery'[d] = delivery[d]
  PROVE  EvidenceFirst'
<1> SUFFICES ASSUME NEW d \in Deliveries, delivery'[d] \in Ended
             PROVE  /\ [tenant |-> TenantOf[d], delivery |-> d, verified |-> TRUE,
                         type |-> IF delivery'[d] = "bounced" THEN "hard" ELSE "complaint"] \in events'
                    /\ \E m \in Mails : letter'[m] # None /\ SpeaksFor(Letters[letter'[m]], d)
  BY DEF EvidenceFirst
<1>1. delivery'[d] = delivery[d]
  OBVIOUS
<1>2. PICK m \in Mails : letter[m] # None /\ SpeaksFor(Letters[letter[m]], d)
  BY <1>1 DEF BounceInv, EvidenceFirst
<1>3. m \in Arrived
  BY <1>2 DEF BounceInv, MailsParsed
<1> QED BY <1>1, <1>2, <1>3 DEF BounceInv, EvidenceFirst, Onwards

\* Mails stay where they are and what they are.
SameMails == letter' = letter /\ parsed' = parsed /\ mailbox' = mailbox

LEMMA MailsSame ==
  ASSUME BounceInv, SameMails
  PROVE  /\ Arrived' = Arrived /\ MailsParsed'
         /\ \A m \in Arrived : m \in Arrived' /\ letter'[m] = letter[m] /\ parsed'[m] = parsed[m]
BY DEF SameMails, BounceInv, Arrived, MailsParsed

\* A step of a session that is not past its mark, and does not pass it.
LEMMA QuietStep ==
  ASSUME BounceInv, Typed', Onwards, NEW r \in Replicas,
         \A q \in Replicas \ {r} : job'[q] = job[q],
         job[r].stage \notin AfterMark, job'[r].stage \notin AfterMark,
         UNCHANGED <<delivery, outbox, suppressed, broken, ends>>,
         SessionOK(r)', MailsParsed',
         \A m \in Mails : mailbox'[m] = "acked" =>
           mailbox[m] = "acked" \/ m \in job[r].handled \cup job[r].deleted
  PROVE  BounceInv'
<1>1. \A d : SameFor(d)
  BY DEF SameFor
<1>2. \A q \in Replicas \ {r} : SessionOK(q)'
  BY SessionKept
<1>3. \A d : Following(d)' = Following(d)
  <2> SUFFICES ASSUME NEW d PROVE Following(d)' = Following(d)
    OBVIOUS
  <2>1. Following(d)' \ {r} = Following(d) \ {r}
    BY FollowingOthers
  <2>2. r \notin Following(d) /\ r \notin Following(d)'
    BY DEF Following
  <2> QED BY <2>1, <2>2
<1>6. \A d \in Deliveries : DeliveryOK(d)'
  BY <1>1, <1>3, DeliveryKept
<1>7. EvidenceFirst'
  BY EvidenceKept
<1>8. ASSUME NEW m \in Mails, mailbox'[m] = "acked" PROVE Settled(m)'
  <2>1. Settled(m) /\ m \in Arrived
    BY <1>8 DEF BounceInv, SessionOK, Arrived
  <2> QED BY <2>1, SettledKept
<1> QED BY <1>2, <1>6, <1>7, <1>8 DEF BounceInv

\* A step that moves no session.
LEMMA SessionsKept ==
  ASSUME BounceInv, Onwards, job' = job
  PROVE  /\ \A q \in Replicas : SessionOK(q)'
         /\ \A d : Following(d)' = Following(d)
<1>1. \A q \in Replicas : SessionOK(q)' /\ (job[q].stage \in Handling => Target(q)' = Target(q))
  BY SessionKept
<1>2. \A q \in Replicas : job[q].stage \in AfterMark => Target(q)' = Target(q)
  BY <1>1 DEF Handling
<1> QED BY <1>1, <1>2 DEF Following

-----------------------------------------------------------------------------
(* The world outside.                                                      *)

\* A fault is one of those left.
LEMMA FaultType ==
  ASSUME Typed, Fault
  PROVE  faults' \in 0..MaxFaults
BY PollerAssumption DEF Typed, Fault

LEMMA ArriveStep ==
  ASSUME BounceInv, NEW m \in Mails, Arrive(m)
  PROVE  BounceInv'
<1>1. PICK l \in DOMAIN Letters : /\ letter' = [letter EXCEPT ![m] = l]
                                  /\ parsed' = [parsed EXCEPT ![m] = Parse(Letters[l])]
  BY DEF Arrive
<1>2. Typed /\ mailbox[m] = "coming" /\ mailbox' = [mailbox EXCEPT ![m] = "unread"] /\ job' = job
  BY DEF BounceInv, Arrive
<1>3. Typed'
  BY <1>1, <1>2 DEF Typed, Arrive
<1>4. Arrived' = Arrived \cup {m} /\ m \notin Arrived
  BY <1>2 DEF Arrived, Typed
<1>5. MailsParsed' /\ \A n \in Arrived : letter'[n] = letter[n] /\ parsed'[n] = parsed[n]
  <2>1. letter'[m] = l /\ parsed'[m] = Parse(Letters[l])
    BY <1>1, <1>2 DEF Typed
  <2>2. \A n \in Mails \ {m} : letter'[n] = letter[n] /\ parsed'[n] = parsed[n]
    BY <1>1, <1>2 DEF Typed
  <2>3. MailsParsed'
    BY <1>4, <2>1, <2>2 DEF BounceInv, MailsParsed
  <2>4. \A n \in Arrived : n \in Mails \ {m}
    BY <1>4 DEF Arrived
  <2> QED BY <2>2, <2>3, <2>4
<1>6. Onwards /\ \A d \in Deliveries : SameFor(d)
  BY <1>4, <1>5 DEF Onwards, Forwards, SameFor, Arrive
<1>7. /\ \A q \in Replicas : SessionOK(q)'
      /\ \A d \in Deliveries : DeliveryOK(d)'
  BY <1>2, <1>6, SessionsKept, DeliveryKept DEF Arrive
<1>8. EvidenceFirst'
  BY <1>6, EvidenceKept DEF Arrive
<1>9. ASSUME NEW n \in Mails, mailbox'[n] = "acked" PROVE Settled(n)'
  <2>1. mailbox[n] = "acked" /\ n \in Arrived
    BY <1>2, <1>9 DEF Typed, Arrived
  <2> QED BY <1>6, <2>1, SettledKept DEF BounceInv
<1> QED BY <1>3, <1>5, <1>7, <1>8, <1>9 DEF BounceInv

\* A step of the world outside that leaves the mails alone.
LEMMA WorldStep ==
  ASSUME BounceInv, Typed', Onwards, SameMails, job' = job,
         UNCHANGED <<outbox, suppressed, broken, ends>>,
         \A d \in Deliveries : delivery'[d] \in Ended => delivery'[d] = delivery[d]
  PROVE  BounceInv'
<1>1. \A d \in Deliveries : SameFor(d)
  BY DEF SameFor
<1>2. /\ \A q \in Replicas : SessionOK(q)'
      /\ \A d : Following(d)' = Following(d)
  BY SessionsKept
<1>3. \A d \in Deliveries : DeliveryOK(d)'
  BY <1>1, <1>2, DeliveryKept
<1>4. EvidenceFirst' /\ MailsParsed'
  BY EvidenceKept, MailsSame
<1>5. ASSUME NEW n \in Mails, mailbox'[n] = "acked" PROVE Settled(n)'
  <2>1. mailbox[n] = "acked" /\ n \in Arrived
    BY <1>5 DEF SameMails, Arrived
  <2> QED BY <2>1, SettledKept DEF BounceInv
<1> QED BY <1>2, <1>3, <1>4, <1>5 DEF BounceInv

LEMMA MarkSentStep ==
  ASSUME BounceInv, NEW d \in Deliveries, MarkSent(d)
  PROVE  BounceInv'
<1>1. Typed /\ delivery[d] = "leased" /\ delivery' = [delivery EXCEPT ![d] = "sent"] /\ SameMails
  BY DEF BounceInv, MarkSent, SameMails
<1>2. Typed'
  BY <1>1 DEF Typed, MarkSent
<1>3. \A e \in Deliveries : Forwards(e) /\ (delivery'[e] \in Ended => delivery'[e] = delivery[e])
  BY <1>1 DEF Typed, Ended, Forwards
<1>4. Onwards
  BY <1>1, <1>3, MailsSame DEF Onwards, MarkSent
<1> QED BY <1>1, <1>2, <1>3, <1>4, WorldStep DEF MarkSent

\* The mails about a retried delivery are early ones from then on.
LEMMA RetryDeliveryStep ==
  ASSUME BounceInv, NEW d \in Deliveries, RetryDelivery(d)
  PROVE  BounceInv'
<1>1. /\ Typed /\ delivery' = [delivery EXCEPT ![d] = "leased"] /\ SameMails
      /\ early' = early \cup {m \in Mails : mailbox[m] # "coming" /\ parsed[m].c.delivery = d}
      /\ retries' \in 0..MaxRetries
  BY PollerAssumption DEF BounceInv, RetryDelivery, SameMails, Typed
<1>2. Typed'
  BY <1>1 DEF Typed, RetryDelivery
<1>3. /\ \A e \in Deliveries \ {d} : Forwards(e)
      /\ \A m \in Arrived : parsed[m].c.delivery = d => m \in early'
      /\ \A e \in Deliveries : delivery'[e] \in Ended => delivery'[e] = delivery[e]
  BY <1>1 DEF Typed, Ended, Forwards, Arrived
<1>4. Onwards
  BY <1>1, <1>3, MailsSame DEF Onwards, RetryDelivery
<1> QED BY <1>1, <1>2, <1>3, <1>4, WorldStep DEF RetryDelivery

LEMMA DeleteBeforeStep ==
  ASSUME BounceInv, NEW d \in Deliveries, DeleteBefore(d)
  PROVE  BounceInv'
<1>1. Typed /\ delivery[d] # "leased" /\ delivery' = [delivery EXCEPT ![d] = "gone"] /\ SameMails
  BY DEF BounceInv, DeleteBefore, SameMails, Ended
<1>2. Typed'
  BY <1>1, FaultType DEF Typed, DeleteBefore
<1>3. \A e \in Deliveries : Forwards(e) /\ (delivery'[e] \in Ended => delivery'[e] = delivery[e])
  BY <1>1 DEF Typed, Ended, Forwards
<1>4. Onwards
  BY <1>1, <1>3, MailsSame DEF Onwards, DeleteBefore
<1> QED BY <1>1, <1>2, <1>3, <1>4, WorldStep DEF DeleteBefore

LEMMA LeaseRunsOutStep ==
  ASSUME BounceInv, LeaseRunsOut
  PROVE  BounceInv'
<1>1. Typed /\ SameMails /\ delivery' = delivery /\ job' = job
  BY DEF BounceInv, LeaseRunsOut, SameMails
<1>2. faults' \in 0..MaxFaults
  BY <1>1, FaultType DEF LeaseRunsOut, Typed
<1>3. lock' \in [owner : Replicas \cup {None}, live : BOOLEAN]
  BY <1>1 DEF LeaseRunsOut, Typed
<1>4. Typed'
  BY <1>1, <1>2, <1>3 DEF Typed, LeaseRunsOut
<1>5. Onwards
  BY <1>1, MailsSame DEF Onwards, Forwards, LeaseRunsOut
<1> QED BY <1>1, <1>4, <1>5, WorldStep DEF LeaseRunsOut

-----------------------------------------------------------------------------
(* The pass over the mailbox.                                              *)

\* The sessions after a step of r.
LEMMA SessionsType ==
  ASSUME Typed, NEW r \in Replicas, NEW j \in Session, job' = [job EXCEPT ![r] = j]
  PROVE  /\ job' \in [Replicas -> Session]
         /\ job'[r] = j /\ \A q \in Replicas \ {r} : job'[q] = job[q]
BY DEF Typed

\* Enter only changes the stage.
LEMMA Entered ==
  ASSUME Typed, NEW r \in Replicas, NEW s \in Stages, Enter(r, s)
  PROVE  /\ job' \in [Replicas -> Session] /\ \A q \in Replicas \ {r} : job'[q] = job[q]
         /\ job'[r].stage = s /\ job'[r].batch = job[r].batch /\ job'[r].handled = job[r].handled
         /\ job'[r].tenant = job[r].tenant /\ job'[r].marks = job[r].marks
         /\ job'[r].deleted = job[r].deleted
<1>1. job[r] \in Session /\ job \in [Replicas -> Session]
  BY DEF Typed
<1>2. [job[r] EXCEPT !.stage = s] \in Session
  BY <1>1 DEF Session
<1>3. job' = [job EXCEPT ![r] = [job[r] EXCEPT !.stage = s]]
  BY <1>1 DEF Enter
<1>4. /\ job' \in [Replicas -> Session]
      /\ job'[r] = [job[r] EXCEPT !.stage = s] /\ \A q \in Replicas \ {r} : job'[q] = job[q]
  BY <1>2, <1>3, SessionsType
<1> QED BY <1>1, <1>4 DEF Session

\* A step that leaves the mails and the deliveries alone.
LEMMA StaysOnwards ==
  ASSUME BounceInv, SameMails, box' = box, delivery' = delivery, early \subseteq early',
         events \subseteq events', suppressed \subseteq suppressed', ends' = ends
  PROVE  Onwards /\ Arrived' = Arrived /\ MailsParsed'
BY MailsSame DEF Onwards, Forwards

\* A session between two mailboxes' worth of work: what it handled is settled.
LEMMA RestingOK ==
  ASSUME BounceInv, Onwards, NEW r \in Replicas, job'[r].stage \in Stages \ Handling,
         job'[r].batch = {}, job'[r].handled \subseteq job[r].handled,
         job'[r].deleted \subseteq job[r].handled \cup job[r].deleted
  PROVE  SessionOK(r)'
<1>1. SessionOK(r) /\ job[r].handled \in SUBSET Mails /\ job[r].batch \in SUBSET Mails
  BY SessionFields DEF BounceInv
<1>2. \A m \in job'[r].handled \cup job'[r].deleted : m \in Arrived /\ m \in Arrived' /\ Settled(m)'
  BY <1>1, SettledKept DEF SessionOK, Onwards
<1>3. job'[r].stage \notin Handling /\ "recording" \in Handling /\ {"marking"} \cup AfterMark \subseteq Handling
  BY DEF Handling
<1>4. Cardinality(job'[r].handled) + Cardinality(job'[r].batch) <= FetchBatch
  <2>1. job'[r].handled \in SUBSET Mails
    BY <1>1
  <2>2. /\ IsFiniteSet(job[r].handled) /\ Cardinality(job[r].handled) \in Nat
        /\ Cardinality(job'[r].handled) \in Nat /\ Cardinality(job[r].batch) \in Nat
    BY <1>1, <2>1, MailsFinite
  <2>3. Cardinality(job'[r].handled) <= Cardinality(job[r].handled)
    BY <2>2, FS_Subset
  <2>4. Cardinality(job'[r].batch) = 0
    BY FS_EmptySet
  <2>5. Cardinality(job[r].handled) + Cardinality(job[r].batch) <= FetchBatch
    BY <1>1 DEF SessionOK
  <2> QED BY <2>2, <2>3, <2>4, <2>5, PollerAssumption
<1> QED BY <1>2, <1>3, <1>4 DEF SessionOK

LEMMA AcquireStep ==
  ASSUME BounceInv, NEW r \in Replicas, Acquire(r)
  PROVE  BounceInv'
<1>1. /\ Typed /\ SameMails /\ delivery' = delivery /\ box' = box /\ early' = early /\ events' = events
      /\ suppressed' = suppressed /\ ends' = ends
  BY DEF BounceInv, Acquire, SameMails
<1>2. /\ job' \in [Replicas -> Session] /\ \A q \in Replicas \ {r} : job'[q] = job[q]
      /\ job'[r].stage = "fetching" /\ job'[r].batch = job[r].batch
      /\ job'[r].handled = job[r].handled /\ job'[r].deleted = job[r].deleted
  BY <1>1, Entered DEF Acquire, Stages
<1>3. Typed'
  BY <1>1, <1>2 DEF Typed, Acquire
<1>4. Onwards /\ MailsParsed'
  BY <1>1, StaysOnwards
<1>5. "idle" \notin Handling /\ job[r].stage = "idle" /\ "fetching" \in Stages \ Handling
  BY DEF Handling, AfterMark, Stages, Acquire
<1>6. SessionOK(r)'
  <2>1. job[r].batch = {}
    BY <1>5 DEF BounceInv, SessionOK
  <2> QED BY <1>2, <1>4, <1>5, <2>1, RestingOK
<1> QED BY <1>1, <1>2, <1>3, <1>4, <1>5, <1>6, QuietStep DEF Acquire, SameMails, Handling

LEMMA FetchStep ==
  ASSUME BounceInv, NEW r \in Replicas, Fetch(r)
  PROVE  BounceInv'
<1>0. PICK msgs : msgs = Unread(job[r])
  OBVIOUS
<1> DEFINE j == Fetched(job[r], msgs)
<1>1. /\ Typed /\ SameMails /\ delivery' = delivery /\ box' = box /\ early' = early /\ events' = events
      /\ suppressed' = suppressed /\ ends' = ends
      /\ job[r].stage = "fetching" /\ job' = [job EXCEPT ![r] = j]
  BY <1>0 DEF BounceInv, Fetch, SameMails
<1>2. /\ msgs \subseteq Mails /\ msgs \subseteq Arrived
      /\ Cardinality(msgs) \in Nat /\ Cardinality(msgs) <= FetchBatch
  BY <1>0, UnreadBounded DEF Arrived
<1>3. /\ j \in Session /\ j.stage = (IF msgs = {} THEN "closing" ELSE "judging")
      /\ j.batch = msgs /\ j.handled = {} /\ j.deleted = job[r].deleted
  <2>1. job[r] \in Session /\ {"closing", "judging"} \subseteq Stages
    BY <1>1, SessionFields DEF Stages, Handling
  <2>2. j \in Session
    BY <1>2, <2>1 DEF Session, Fetched
  <2> QED BY <2>1, <2>2 DEF Session, Fetched
<1> HIDE DEF j
<1>4. /\ job' \in [Replicas -> Session]
      /\ job'[r] = j /\ \A q \in Replicas \ {r} : job'[q] = job[q]
  BY <1>1, <1>3, SessionsType
<1>5. Typed'
  BY <1>1, <1>4 DEF Typed, Fetch
<1>6. Onwards /\ Arrived' = Arrived /\ MailsParsed'
  BY <1>1, StaysOnwards
<1>7. SessionOK(r)'
  <2>1. Cardinality({}) = 0
    BY FS_EmptySet
  <2>2. Cardinality(j.handled) + Cardinality(j.batch) <= FetchBatch
    BY <1>2, <1>3, <2>1
  <2>3. j.stage \in Handling <=> j.batch # {}
    BY <1>3 DEF Handling, AfterMark
  <2>4. j.stage \notin {"recording", "marking"} \cup AfterMark
    BY <1>3 DEF AfterMark
  <2>5. \A m \in j.deleted : m \in Arrived' /\ Settled(m)'
    BY <1>3, <1>6, SettledKept DEF BounceInv, SessionOK
  <2> QED BY <1>2, <1>3, <1>4, <1>6, <2>2, <2>3, <2>4, <2>5 DEF SessionOK
<1>8. job[r].stage \notin AfterMark /\ job'[r].stage \notin AfterMark
  BY <1>1, <1>3, <1>4 DEF AfterMark
<1> QED BY <1>1, <1>4, <1>5, <1>6, <1>7, <1>8, QuietStep DEF Fetch, SameMails

\* A session that is not at a mail goes on to something that is not a mail either.
LEMMA RestingStep ==
  ASSUME BounceInv, NEW r \in Replicas, NEW j \in Session, job' = [job EXCEPT ![r] = j],
         j.stage \in Stages \ Handling, j.batch = {}, j.handled \subseteq job[r].handled,
         j.deleted \subseteq job[r].handled \cup job[r].deleted,
         job[r].stage \notin Handling,
         UNCHANGED <<box, kind, delivery, events, suppressed, outbox, lock, retries, early, broken, ends>>,
         faults' \in 0..MaxFaults, letter' = letter, parsed' = parsed,
         mailbox' \in [Mails -> {"coming", "unread", "acked"}],
         \A m \in Mails : mailbox'[m] = mailbox[m] \/
           (mailbox'[m] = "acked" /\ m \in job[r].handled \cup job[r].deleted)
  PROVE  BounceInv'
<1>1. Typed /\ SessionOK(r)
  BY DEF BounceInv
<1>2. /\ job' \in [Replicas -> Session]
      /\ job'[r] = j /\ \A q \in Replicas \ {r} : job'[q] = job[q]
  BY <1>1, SessionsType
<1>3. Typed'
  BY <1>1, <1>2 DEF Typed
<1>4. Arrived' = Arrived
  BY <1>1 DEF SessionOK, Arrived
<1>5. MailsParsed' /\ Onwards
  BY <1>4 DEF BounceInv, MailsParsed, Onwards, Forwards
<1>6. SessionOK(r)'
  BY <1>2, <1>5, RestingOK
<1>7. job[r].stage \notin AfterMark /\ job'[r].stage \notin AfterMark
  BY <1>2 DEF Handling
<1> QED BY <1>2, <1>3, <1>5, <1>6, <1>7, QuietStep

LEMMA FetchFailsStep ==
  ASSUME BounceInv, NEW r \in Replicas, FetchFails(r)
  PROVE  BounceInv'
<1>1. /\ Typed /\ mailbox' = mailbox /\ mailbox \in [Mails -> {"coming", "unread", "acked"}]
      /\ job[r] \in Session /\ job \in [Replicas -> Session]
  BY DEF BounceInv, FetchFails, Typed
<1>2. faults' \in 0..MaxFaults
  BY <1>1, FaultType DEF FetchFails
<1>3. job[r].stage \notin Handling /\ "closing" \in Stages \ Handling
  BY DEF FetchFails, Handling, AfterMark, Stages
<1>4. PICK j : j = [job[r] EXCEPT !.stage = "closing", !.deleted = job[r].deleted]
  OBVIOUS
<1>5. /\ j \in Session /\ j.stage = "closing" /\ j.deleted = job[r].deleted
      /\ j.batch = job[r].batch /\ j.handled = job[r].handled
  BY <1>1, <1>3, <1>4 DEF Session
<1>6. job' = [job EXCEPT ![r] = j]
  BY <1>1, <1>4 DEF FetchFails, Enter, Session
<1>7. job[r].batch = {}
  BY <1>3 DEF BounceInv, SessionOK
<1> QED BY <1>1, <1>2, <1>3, <1>5, <1>6, <1>7, RestingStep DEF FetchFails

\* Ack of some of what was handled.
LEMMA SomeAcked ==
  ASSUME BounceInv, NEW r \in Replicas, NEW some \in SUBSET job[r].handled,
         job[r].stage \in {"acking", "aborting"}, NEW s \in {"fetching", "closing"},
         mailbox' = Seen(some),
         job' = [job EXCEPT ![r].stage = s, ![r].deleted = Deleted(job[r], some)],
         UNCHANGED <<box, kind, letter, parsed, delivery, events, suppressed, outbox, lock, retries, early,
                     broken, ends>>,
         faults' \in 0..MaxFaults
  PROVE  BounceInv'
<1>1. /\ Typed /\ job[r] \in Session /\ job \in [Replicas -> Session]
      /\ job[r].handled \subseteq Mails /\ job[r].deleted \subseteq Mails
  BY SessionFields DEF BounceInv, Typed
<1>2. PICK D : D = Deleted(job[r], some)
  OBVIOUS
<1>3. D \in SUBSET Mails /\ D \subseteq job[r].handled \cup job[r].deleted
  BY <1>1, <1>2 DEF Deleted
<1>4. job[r].stage \notin Handling /\ s \in Stages \ Handling
  BY DEF Handling, AfterMark, Stages
<1>5. PICK j : j = [job[r] EXCEPT !.stage = s, !.deleted = D]
  OBVIOUS
<1>6. /\ j \in Session /\ j.stage = s /\ j.deleted = D
      /\ j.batch = job[r].batch /\ j.handled = job[r].handled
  BY <1>1, <1>3, <1>4, <1>5 DEF Session
<1>7. job' = [job EXCEPT ![r] = j]
  BY <1>1, <1>2, <1>5 DEF Session
<1>8. job[r].batch = {}
  BY <1>4 DEF BounceInv, SessionOK
<1>9. /\ mailbox' \in [Mails -> {"coming", "unread", "acked"}]
      /\ \A m \in Mails : mailbox'[m] = mailbox[m] \/ (mailbox'[m] = "acked" /\ m \in job[r].handled)
  BY <1>1 DEF Seen, Typed
<1> QED BY <1>3, <1>4, <1>6, <1>7, <1>8, <1>9, RestingStep

LEMMA AckStep ==
  ASSUME BounceInv, NEW r \in Replicas, Ack(r)
  PROVE  BounceInv'
<1>1. AfterAck(r) \in {"fetching", "closing"} /\ faults' \in 0..MaxFaults
  BY DEF AfterAck, Ack, BounceInv, Typed
<1> QED BY <1>1, SomeAcked DEF Ack

LEMMA AckFailsStep ==
  ASSUME BounceInv, NEW r \in Replicas, AckFails(r)
  PROVE  BounceInv'
<1>1. faults' \in 0..MaxFaults
  BY FaultType DEF BounceInv, AckFails
<1>2. PICK some \in SUBSET job[r].handled :
        /\ mailbox' = Seen(some)
        /\ job' = [job EXCEPT ![r].stage = "closing", ![r].deleted = Deleted(job[r], some)]
  BY DEF AckFails
<1> QED BY <1>1, <1>2, SomeAcked DEF AckFails

LEMMA CloseStep ==
  ASSUME BounceInv, NEW r \in Replicas, Close(r)
  PROVE  BounceInv'
<1>1. Typed /\ job[r] \in Session /\ job \in [Replicas -> Session]
  BY DEF BounceInv, Typed
<1>2. job[r].stage \notin Handling /\ "releasing" \in Stages \ Handling /\ "releasing" \in Stages
  BY DEF Close, Handling, AfterMark, Stages
<1>3. PICK j : j = [job[r] EXCEPT !.stage = "releasing", !.deleted = {}]
  OBVIOUS
<1>4. /\ j \in Session /\ j.stage = "releasing" /\ j.deleted = {}
      /\ j.batch = job[r].batch /\ j.handled = job[r].handled
  BY <1>1, <1>2, <1>3 DEF Session
<1>5. job' = [job EXCEPT ![r] = j]
  BY <1>1, <1>3 DEF Close, Session
<1>6. job[r].batch = {}
  BY <1>2 DEF BounceInv, SessionOK
<1>7. /\ mailbox' \in [Mails -> {"coming", "unread", "acked"}] /\ faults' \in 0..MaxFaults
      /\ \A m \in Mails : mailbox'[m] = mailbox[m] \/ (mailbox'[m] = "acked" /\ m \in job[r].deleted)
  <2>1. CASE /\ mailbox' = [m \in Mails |-> IF m \in job[r].deleted THEN "acked" ELSE mailbox[m]]
             /\ UNCHANGED faults
    BY <1>1, <2>1 DEF Typed
  <2>2. CASE Fault /\ UNCHANGED mailbox
    BY <1>1, <2>2, FaultType DEF Typed
  <2> QED BY <2>1, <2>2 DEF Close
<1> QED BY <1>2, <1>4, <1>5, <1>6, <1>7, RestingStep DEF Close

\* A session that is over.
LEMMA IdleSession ==
  /\ Idle \in Session /\ Idle.batch = {} /\ Idle.handled = {} /\ Idle.deleted = {}
  /\ Idle.stage \in Stages \ Handling
BY DEF Idle, Session, Stages, Handling, AfterMark

LEMMA ReleaseStep ==
  ASSUME BounceInv, NEW r \in Replicas, Release(r)
  PROVE  BounceInv'
<1>1. /\ Typed /\ SameMails /\ delivery' = delivery /\ box' = box /\ early' = early /\ events' = events
      /\ suppressed' = suppressed /\ ends' = ends
  BY DEF BounceInv, Release, SameMails
<1>2. /\ job' \in [Replicas -> Session]
      /\ job'[r] = Idle /\ \A q \in Replicas \ {r} : job'[q] = job[q]
  BY <1>1, IdleSession, SessionsType DEF Release
<1>3. lock' \in [owner : Replicas \cup {None}, live : BOOLEAN] /\ faults' \in 0..MaxFaults
  <2>1. Unlocked \in [owner : Replicas \cup {None}, live : BOOLEAN]
    BY DEF Unlocked
  <2>2. CASE lock' = (IF lock.owner = r THEN Unlocked ELSE lock) /\ UNCHANGED faults
    BY <1>1, <2>1, <2>2 DEF Typed
  <2>3. CASE Fault /\ UNCHANGED lock
    BY <1>1, <2>3, FaultType DEF Typed
  <2> QED BY <2>2, <2>3 DEF Release
<1>4. Typed'
  BY <1>1, <1>2, <1>3 DEF Typed, Release
<1>5. Onwards /\ MailsParsed'
  BY <1>1, StaysOnwards
<1>6. SessionOK(r)'
  BY <1>2, <1>5, IdleSession, RestingOK
<1>7. job[r].stage \notin AfterMark /\ job'[r].stage \notin AfterMark
  BY <1>2 DEF Release, AfterMark, Idle
<1> QED BY <1>1, <1>2, <1>4, <1>5, <1>6, <1>7, QuietStep DEF Release, SameMails

-----------------------------------------------------------------------------
(* One mail.                                                               *)

\* The session after a mail.
LEMMA Advanced ==
  ASSUME BounceInv, NEW r \in Replicas, job[r].stage \in Handling
  PROVE  LET m == Min(job[r].batch)
             j == Advance(job[r])
         IN /\ j \in Session /\ j.stage \in {"acking", "judging"}
            /\ j.stage = "judging" <=> j.batch # {}
            /\ j.batch = job[r].batch \ {m} /\ j.handled = job[r].handled \cup {m}
            /\ j.deleted = job[r].deleted
<1> DEFINE m == Min(job[r].batch)
           j == Advance(job[r])
<1>1. /\ job[r] \in Session /\ m \in job[r].batch /\ m \in Mails
      /\ {"acking", "judging"} \subseteq Stages
  BY MailAtHand, SessionFields DEF BounceInv, Arrived, Stages, Handling
<1> HIDE DEF m
<1>2. j = [job[r] EXCEPT !.stage = IF job[r].batch = {m} THEN "acking" ELSE "judging",
                         !.batch = job[r].batch \ {m}, !.handled = job[r].handled \cup {m},
                         !.tenant = None, !.marks = FALSE]
  BY DEF Advance, m
<1> HIDE DEF j
<1>3. j \in Session
  BY <1>1, <1>2 DEF Session
<1>4. /\ j.stage = (IF job[r].batch = {m} THEN "acking" ELSE "judging")
      /\ j.batch = job[r].batch \ {m} /\ j.handled = job[r].handled \cup {m}
      /\ j.deleted = job[r].deleted
  BY <1>1, <1>2 DEF Session
<1>5. j.stage = "judging" <=> j.batch # {}
  BY <1>1, <1>4
<1> QED BY <1>3, <1>4, <1>5 DEF j, m

LEMMA AdvancedOK ==
  ASSUME BounceInv, Onwards, NEW r \in Replicas, job[r].stage \in Handling,
         job'[r] = Advance(job[r]), NEW m, m = Min(job[r].batch), Settled(m)'
  PROVE  SessionOK(r)' /\ job'[r].stage \notin AfterMark
<1> DEFINE j == Advance(job[r])
<1>1. /\ j \in Session /\ j.stage \in {"acking", "judging"}
      /\ j.stage = "judging" <=> j.batch # {}
      /\ j.batch = job[r].batch \ {m} /\ j.handled = job[r].handled \cup {m}
      /\ j.deleted = job[r].deleted
  BY Advanced
<1>2. m \in job[r].batch /\ job[r].batch \in SUBSET Mails /\ job[r].handled \in SUBSET Mails
  BY MailAtHand, SessionFields DEF BounceInv
<1>3. SessionOK(r)
  BY DEF BounceInv
<1> HIDE DEF j
<1>4. j.batch \cup j.handled \cup j.deleted \subseteq Arrived'
  BY <1>1, <1>2, <1>3 DEF SessionOK, Onwards
<1>5. \A n \in j.handled \cup j.deleted : Settled(n)'
  <2>1. \A n \in job[r].handled \cup job[r].deleted : Settled(n)'
    BY <1>3, SettledKept DEF SessionOK
  <2> QED BY <1>1, <2>1
<1>6. Cardinality(j.handled) + Cardinality(j.batch) <= FetchBatch
  <2>1. /\ IsFiniteSet(job[r].handled) /\ Cardinality(job[r].handled) \in Nat
        /\ IsFiniteSet(job[r].batch) /\ Cardinality(job[r].batch) \in Nat
    BY <1>2, MailsFinite
  <2>2. j.handled \in SUBSET Mails /\ j.batch \in SUBSET Mails
    BY <1>1, <1>2
  <2>3. Cardinality(j.handled) \in Nat /\ Cardinality(j.batch) \in Nat
    BY <2>2, MailsFinite
  <2>4. Cardinality(j.handled) <= Cardinality(job[r].handled) + 1
    BY <1>1, <2>1, CountAdded
  <2>5. Cardinality(j.batch) + 1 <= Cardinality(job[r].batch)
    BY <1>1, <1>2, <2>1, CountDropped
  <2>6. Cardinality(job[r].handled) + Cardinality(job[r].batch) <= FetchBatch
    BY <1>3 DEF SessionOK
  <2> QED BY <2>1, <2>3, <2>4, <2>5, <2>6, PollerAssumption
<1>7. job'[r] = j /\ j.stage \notin {"recording", "marking"} \cup AfterMark
  BY <1>1 DEF AfterMark, j
<1>8. j.stage \in Handling <=> j.batch # {}
  BY <1>1 DEF Handling, AfterMark
<1> QED BY <1>4, <1>5, <1>6, <1>7, <1>8 DEF SessionOK

LEMMA JudgeStep ==
  ASSUME BounceInv, NEW r \in Replicas, Judge(r)
  PROVE  BounceInv'
<1>0. PICK m : m = Min(job[r].batch)
  OBVIOUS
<1> DEFINE tenant == HandlingTenant(parsed[m])
           decision == Decision(parsed[m], tenant)
           status == StatusIn(tenant, parsed[m].c.delivery)
           j == [job[r] EXCEPT !.stage = "recording", !.tenant = tenant, !.marks = decision = "mark"]
<1>1. /\ Typed /\ SameMails /\ delivery' = delivery /\ box' = box /\ events' = events
      /\ suppressed' = suppressed /\ ends' = ends
      /\ job[r].stage = "judging" /\ job[r].stage \in Handling
      /\ job' = [job EXCEPT ![r] = IF decision = "skip" THEN Advance(job[r]) ELSE j]
      /\ early' = IF status = "leased" THEN early \cup {m} ELSE early
  BY <1>0 DEF BounceInv, Judge, SameMails, Handling
<1>2. m \in job[r].batch /\ m \in Arrived /\ m \in Mails
  BY <1>0, <1>1, MailAtHand DEF Arrived
<1>3. Onwards /\ Arrived' = Arrived /\ MailsParsed'
  BY <1>1, StaysOnwards
<1>4. tenant \in Tenants \cup {System} /\ tenant # None
  BY <1>2, HandlingTenantType
<1>5. ASSUME decision # "mark" PROVE Settled(m)'
  <2>1. CASE status = "leased"
    BY <1>1, <2>1 DEF Settled
  <2>2. CASE status # "leased"
    <3>1. Settled(m)
      BY <1>2, <1>5, <2>2, DecidedNotToMark DEF Settled
    <3> QED BY <1>2, <1>3, <3>1, SettledKept
  <2> QED BY <2>1, <2>2
<1>6. early' \subseteq Mails
  BY <1>1, <1>2 DEF Typed
<1>7. CASE decision = "skip"
  <2>1. job' = [job EXCEPT ![r] = Advance(job[r])] /\ decision # "mark"
    BY <1>1, <1>7
  <2>2. /\ job' \in [Replicas -> Session]
        /\ job'[r] = Advance(job[r]) /\ \A q \in Replicas \ {r} : job'[q] = job[q]
    BY <1>1, <2>1, Advanced, SessionsType
  <2>3. SessionOK(r)' /\ job'[r].stage \notin AfterMark
    BY <1>0, <1>1, <1>3, <1>5, <2>1, <2>2, AdvancedOK
  <2>4. Typed'
    BY <1>1, <1>6, <2>2 DEF Typed, Judge
  <2>5. job[r].stage \notin AfterMark
    BY <1>1 DEF AfterMark
  <2> QED BY <1>1, <1>3, <2>2, <2>3, <2>4, <2>5, QuietStep DEF Judge, SameMails
<1>8. CASE decision # "skip"
  <2>1. job' = [job EXCEPT ![r] = j]
    BY <1>1, <1>8
  <2>2. /\ j \in Session /\ j.stage = "recording" /\ j.tenant = tenant /\ j.marks = (decision = "mark")
        /\ j.batch = job[r].batch /\ j.handled = job[r].handled /\ j.deleted = job[r].deleted
    <3>1. job[r] \in Session /\ "recording" \in Stages
      BY <1>1, SessionFields DEF Stages, Handling
    <3> HIDE DEF decision, tenant
    <3>2. j \in Session
      BY <1>4, <3>1 DEF Session
    <3> QED BY <3>1, <3>2 DEF Session
  <2> HIDE DEF j
  <2>3. /\ job' \in [Replicas -> Session]
        /\ job'[r] = j /\ \A q \in Replicas \ {r} : job'[q] = job[q]
    BY <1>1, <2>1, <2>2, SessionsType
  <2>4. Typed'
    BY <1>1, <1>6, <2>3 DEF Typed, Judge
  <2>5. Min(job'[r].batch) = m /\ Current(r)' = parsed[m] /\ Target(r)' = parsed[m].c.delivery
    BY <1>0, <1>1, <2>2, <2>3 DEF Current, Target, SameMails
  <2>6. IF j.marks THEN Ending(r)' ELSE Settled(m)'
    <3>1. CASE decision = "mark"
      <4>1. LET p == parsed[m]
                d == p.c.delivery
            IN /\ d \in Deliveries /\ tenant = TenantOf[d] /\ Verified(p.c, tenant)
               /\ p.type \in {"hard", "complaint"} /\ delivery[d] = "sent"
        BY <1>2, <3>1, DecidedToMark
      <4> HIDE DEF tenant
      <4>2. Ending(r)'
        BY <1>1, <2>2, <2>3, <2>5, <4>1 DEF Ending
      <4> QED BY <2>2, <3>1, <4>2
    <3>2. CASE decision # "mark"
      BY <1>5, <2>2, <3>2
    <3> QED BY <3>1, <3>2
  <2>7. SessionOK(r)'
    <3>1. SessionOK(r)
      BY DEF BounceInv
    <3>2. "recording" \in Handling /\ "recording" \notin {"marking"} \cup AfterMark
      BY DEF Handling, AfterMark
    <3>3. \A n \in job[r].handled \cup job[r].deleted : Settled(n)'
      BY <1>3, <3>1, SettledKept DEF SessionOK
    <3> QED BY <1>2, <1>3, <1>4, <2>2, <2>3, <2>5, <2>6, <3>1, <3>2, <3>3 DEF SessionOK
  <2>8. job[r].stage \notin AfterMark /\ job'[r].stage \notin AfterMark
    BY <1>1, <2>2, <2>3 DEF AfterMark
  <2> QED BY <1>1, <1>3, <2>3, <2>4, <2>7, <2>8, QuietStep DEF Judge, SameMails
<1> QED BY <1>7, <1>8

LEMMA RecordStep ==
  ASSUME BounceInv, NEW r \in Replicas, Record(r)
  PROVE  BounceInv'
<1>0. PICK m : m = Min(job[r].batch)
  OBVIOUS
<1> DEFINE j == [job[r] EXCEPT !.stage = "marking"]
           e == [tenant |-> job[r].tenant, delivery |-> Current(r).c.delivery,
                 type |-> Current(r).type, verified |-> Verified(Current(r).c, job[r].tenant)]
<1>1. /\ Typed /\ SameMails /\ delivery' = delivery /\ box' = box /\ early' = early
      /\ suppressed' = suppressed /\ ends' = ends
      /\ job[r].stage = "recording" /\ job[r].stage \in Handling
      /\ job' = [job EXCEPT ![r] = IF job[r].marks THEN j ELSE Advance(job[r])]
      /\ events' = events \cup {e}
  BY DEF BounceInv, Record, Recorded, SameMails, Handling
<1>2. m \in job[r].batch /\ m \in Arrived /\ m \in Mails /\ Current(r) = parsed[m]
  BY <1>0, <1>1, MailAtHand DEF Arrived, Current
<1>3. Onwards /\ Arrived' = Arrived /\ MailsParsed'
  BY <1>1, StaysOnwards
<1>4. SessionOK(r) /\ job[r].tenant \in Tenants \cup {System} /\ job[r].marks \in BOOLEAN
  <2>1. SessionOK(r) /\ job[r].tenant # None
    BY <1>1 DEF BounceInv, SessionOK
  <2> QED BY <1>1, <2>1, SessionFields
<1>5. e \in Events
  <2>1. Verified(Current(r).c, job[r].tenant) \in BOOLEAN
    BY DEF Verified
  <2>2. Current(r).type \in Types /\ Current(r).c.delivery \in Deliveries \cup {None}
    BY <1>2, ParsedMail
  <2> QED BY <1>4, <2>1, <2>2 DEF Events
<1>6. events' \subseteq Events
  BY <1>1, <1>5 DEF Typed
<1>7. job[r].stage \notin AfterMark
  BY <1>1 DEF AfterMark
<1>8. CASE ~job[r].marks
  <2>1. job' = [job EXCEPT ![r] = Advance(job[r])]
    BY <1>1, <1>8
  <2>2. /\ job' \in [Replicas -> Session]
        /\ job'[r] = Advance(job[r]) /\ \A q \in Replicas \ {r} : job'[q] = job[q]
    BY <1>1, <2>1, Advanced, SessionsType
  <2>3. Settled(m)'
    <3>1. Settled(m)
      BY <1>0, <1>1, <1>4, <1>8 DEF SessionOK
    <3> QED BY <1>2, <1>3, <3>1, SettledKept
  <2>4. SessionOK(r)' /\ job'[r].stage \notin AfterMark
    BY <1>0, <1>1, <1>3, <2>2, <2>3, AdvancedOK
  <2>5. Typed'
    BY <1>1, <1>6, <2>2 DEF Typed, Record
  <2> QED BY <1>1, <1>3, <1>7, <2>2, <2>4, <2>5, QuietStep DEF Record, SameMails
<1>9. CASE job[r].marks
  <2>1. job' = [job EXCEPT ![r] = j]
    BY <1>1, <1>9
  <2>2. /\ j \in Session /\ j.stage = "marking" /\ j.tenant = job[r].tenant
        /\ j.batch = job[r].batch /\ j.handled = job[r].handled /\ j.deleted = job[r].deleted
    <3>1. job[r] \in Session /\ "marking" \in Stages
      BY <1>1, SessionFields DEF Stages, Handling
    <3>2. j \in Session
      BY <3>1 DEF Session
    <3> QED BY <3>1, <3>2 DEF Session
  <2> HIDE DEF j
  <2>3. /\ job' \in [Replicas -> Session]
        /\ job'[r] = j /\ \A q \in Replicas \ {r} : job'[q] = job[q]
    BY <1>1, <2>1, <2>2, SessionsType
  <2>4. Typed'
    BY <1>1, <1>6, <2>3 DEF Typed, Record
  <2>5. Current(r)' = Current(r) /\ Target(r)' = Target(r)
    BY <1>1, <2>2, <2>3 DEF Current, Target, SameMails
  <2>6. Ending(r)
    BY <1>1, <1>4, <1>9 DEF SessionOK
  <2>7. Ending(r)'
    BY <1>1, <2>2, <2>3, <2>5, <2>6 DEF Ending
  <2>8. Event(Target(r), Current(r).type)' \in events'
    <3>1. e = Event(Target(r), Current(r).type)
      BY <2>6 DEF Event, Ending, Target
    <3> QED BY <1>1, <2>5, <3>1 DEF Event
  <2>9. SessionOK(r)'
    <3>1. "marking" \in Handling /\ "marking" \notin AfterMark
      BY DEF Handling, AfterMark
    <3>2. \A n \in job[r].handled \cup job[r].deleted : Settled(n)'
      BY <1>3, <1>4, SettledKept DEF SessionOK
    <3> QED BY <1>2, <1>3, <1>4, <2>2, <2>3, <2>7, <2>8, <3>1, <3>2 DEF SessionOK
  <2>10. job'[r].stage \notin AfterMark
    BY <2>2, <2>3 DEF AfterMark
  <2> QED BY <1>1, <1>3, <1>7, <2>3, <2>4, <2>9, <2>10, QuietStep DEF Record, SameMails
<1> QED BY <1>4, <1>8, <1>9

\* A step of a session that touches the delivery it ends.
LEMMA EndingStep ==
  ASSUME BounceInv, Typed', Onwards, SameMails, NEW r \in Replicas, NEW d \in Deliveries,
         \A q \in Replicas \ {r} : job'[q] = job[q],
         \A e \in Deliveries \ {d} : SameFor(e) /\ delivery'[e] = delivery[e],
         job[r].stage \in AfterMark => Target(r) = d,
         job'[r].stage \in AfterMark => Target(r)' = d,
         SessionOK(r)', DeliveryOK(d)', EvidenceFirst'
  PROVE  BounceInv'
<1>1. \A q \in Replicas \ {r} : SessionOK(q)'
  BY SessionKept
<1>2. \A e \in Deliveries : DeliveryOK(e)'
  <2> SUFFICES ASSUME NEW e \in Deliveries \ {d} PROVE DeliveryOK(e)'
    OBVIOUS
  <2>1. Following(e)' \ {r} = Following(e) \ {r}
    BY FollowingOthers
  <2>2. r \notin Following(e) /\ r \notin Following(e)'
    BY DEF Following
  <2>3. Following(e)' = Following(e)
    BY <2>1, <2>2
  <2> QED BY <2>3, DeliveryKept
<1>3. MailsParsed'
  BY MailsSame
<1>4. ASSUME NEW m \in Mails, mailbox'[m] = "acked" PROVE Settled(m)'
  <2>1. mailbox[m] = "acked" /\ m \in Arrived
    BY <1>4 DEF SameMails, Arrived
  <2> QED BY <2>1, SettledKept DEF BounceInv
<1> QED BY <1>1, <1>2, <1>3, <1>4 DEF BounceInv

\* The account of a delivery: its events, what was given up and who is at it.
LEMMA AccountType ==
  ASSUME BounceInv, NEW d \in Deliveries
  PROVE  /\ outbox[d] \in Nat /\ broken[d] \in Nat /\ ends[d] \in Nat
         /\ outbox[d] + broken[d] + Cardinality(Following(d)) = ends[d]
         /\ Cardinality(Following(d)) \in Nat /\ Cardinality(Following(d)') \in Nat
BY FollowingFinite DEF BounceInv, Typed, DeliveryOK

\* The mark has its evidence: record came before it, and the mail speaks for the
\* delivery.
LEMMA MarkHasEvidence ==
  ASSUME BounceInv, Onwards, NEW r \in Replicas, job[r].stage = "marking", delivery' = Marked(r)
  PROVE  EvidenceFirst'
<1>1. Typed /\ Ending(r) /\ Event(Target(r), Current(r).type) \in events /\ job[r].stage \in Handling
  BY DEF BounceInv, SessionOK, Handling
<1> DEFINE d == Target(r)
           m == Min(job[r].batch)
<1>2. /\ d \in Deliveries /\ Current(r).type \in {"hard", "complaint"}
      /\ delivery'[d] = IF Current(r).type = "complaint" THEN "complained" ELSE "bounced"
      /\ \A e \in Deliveries \ {d} : delivery'[e] = delivery[e]
  BY <1>1 DEF Ending, Marked, Typed
<1>3. m \in Arrived /\ m \in Mails /\ letter[m] # None /\ SpeaksFor(Letters[letter[m]], d)
  <2>1. m \in Arrived
    BY <1>1, MailAtHand
  <2>2. /\ m \in Mails /\ letter[m] \in DOMAIN Letters /\ letter[m] # None
        /\ Current(r).c = Correlate(Letters[letter[m]])
    BY <2>1, ParsedMail DEF Current
  <2>3. Correlate(Letters[letter[m]]).delivery = d /\ Verified(Correlate(Letters[letter[m]]), TenantOf[d])
    BY <1>1, <2>2 DEF Ending, Target
  <2> QED BY <1>2, <2>1, <2>2, <2>3, VerifiedSpeaks
<1>4. Event(d, IF delivery'[d] = "bounced" THEN "hard" ELSE "complaint") \in events
  BY <1>1, <1>2
<1> HIDE DEF d, m
<1> SUFFICES ASSUME NEW e \in Deliveries, delivery'[e] \in Ended
             PROVE  /\ [tenant |-> TenantOf[e], delivery |-> e, verified |-> TRUE,
                         type |-> IF delivery'[e] = "bounced" THEN "hard" ELSE "complaint"] \in events'
                    /\ \E n \in Mails : letter'[n] # None /\ SpeaksFor(Letters[letter'[n]], e)
  BY DEF EvidenceFirst
<1>5. CASE e = d
  <2>1. letter'[m] = letter[m]
    BY <1>3 DEF Onwards
  <2> QED BY <1>3, <1>4, <1>5, <2>1 DEF Event, Onwards
<1>6. CASE e # d
  <2>1. delivery'[e] = delivery[e]
    BY <1>2, <1>6
  <2>2. PICK n \in Mails : letter[n] # None /\ SpeaksFor(Letters[letter[n]], e)
    BY <2>1 DEF BounceInv, EvidenceFirst
  <2>3. n \in Arrived
    BY <2>2 DEF BounceInv, MailsParsed
  <2> QED BY <2>1, <2>2, <2>3 DEF BounceInv, EvidenceFirst, Onwards
<1> QED BY <1>5, <1>6

\* A mail whose delivery has ended, or was sent again since, is settled.
LEMMA EndedIsSettled ==
  ASSUME BounceInv, NEW r \in Replicas, NEW m, m = Min(job[r].batch), Ending(r),
         delivery[Target(r)] # "sent"
  PROVE  Settled(m)
BY DEF Settled, Concerns, Target, Current, Ending

\* The session that marks a delivery joins those that follow it through.
LEMMA MarkedDelivery ==
  ASSUME BounceInv, Onwards, NEW r \in Replicas, NEW d \in Deliveries,
         \A q \in Replicas \ {r} : job'[q] = job[q], job[r].stage \notin AfterMark,
         ends' = [ends EXCEPT ![d] = @ + 1], outbox' = outbox, suppressed' = suppressed,
         \/ job'[r].stage \in AfterMark /\ Target(r)' = d /\ broken' = broken
         \/ job'[r].stage \notin AfterMark /\ broken' = [broken EXCEPT ![d] = @ + 1]
  PROVE  DeliveryOK(d)'
<1>1. /\ Typed /\ DeliveryOK(d) /\ outbox[d] \in Nat /\ broken[d] \in Nat /\ ends[d] \in Nat
      /\ outbox[d] + broken[d] + Cardinality(Following(d)) = ends[d]
      /\ Cardinality(Following(d)) \in Nat /\ Cardinality(Following(d)') \in Nat
  BY AccountType DEF BounceInv
<1>2. ends'[d] = ends[d] + 1
  BY <1>1 DEF Typed
<1>3. Following(d)' \ {r} = Following(d) \ {r} /\ r \notin Following(d)
  <2>1. Following(d)' \ {r} = Following(d) \ {r}
    BY FollowingOthers
  <2> QED BY <2>1 DEF Following
<1>4. outbox'[d] + broken'[d] + Cardinality(Following(d)') = ends'[d]
  <2>1. CASE job'[r].stage \in AfterMark /\ Target(r)' = d /\ broken' = broken
    <3>1. r \in Following(d)'
      BY <2>1 DEF Following
    <3>2. Cardinality(Following(d)') = Cardinality(Following(d)) + 1
      BY <1>3, <3>1, FollowingFinite, CountJoined
    <3> QED BY <1>1, <1>2, <2>1, <3>2
  <2>2. CASE job'[r].stage \notin AfterMark /\ broken' = [broken EXCEPT ![d] = @ + 1]
    <3>1. r \notin Following(d)'
      BY <2>2 DEF Following
    <3>2. Following(d)' = Following(d)
      BY <1>3, <3>1
    <3>3. broken'[d] = broken[d] + 1
      BY <1>1, <2>2 DEF Typed
    <3> QED BY <1>1, <1>2, <3>2, <3>3
  <2> QED BY <2>1, <2>2
<1>5. RightlyListed(d)'
  BY <1>1, <1>2 DEF DeliveryOK, RightlyListed
<1>6. outbox'[d] > 0 /\ d \notin ProbeLane => Listed(d, TRUE, TRUE)'
  BY <1>1 DEF DeliveryOK, Listed
<1>7. ends'[d] > 0
  BY <1>1, <1>2
<1> QED BY <1>4, <1>5, <1>6, <1>7 DEF DeliveryOK

LEMMA MarkStep ==
  ASSUME BounceInv, NEW r \in Replicas, Mark(r)
  PROVE  BounceInv'
<1>0. PICK m, d : m = Min(job[r].batch) /\ d = Target(r)
  OBVIOUS
<1>1. /\ Typed /\ SameMails /\ box' = box /\ early' = early /\ events' = events
      /\ job[r].stage = "marking" /\ job[r].stage \in Handling /\ job[r].stage \notin AfterMark
      /\ outbox' = outbox /\ suppressed' = suppressed /\ broken' = broken
  BY DEF BounceInv, Mark, SameMails, Handling, AfterMark
<1>2. SessionOK(r) /\ Ending(r) /\ Event(Target(r), Current(r).type) \in events /\ d \in Deliveries
  BY <1>0, <1>1 DEF BounceInv, SessionOK, Ending
<1>3. m \in job[r].batch /\ m \in Arrived /\ m \in Mails
  BY <1>0, <1>1, MailAtHand DEF Arrived
<1>4. CASE ~Markable(d)
  <2>1. job' = [job EXCEPT ![r] = Advance(job[r])] /\ delivery' = delivery /\ ends' = ends
    BY <1>0, <1>4 DEF Mark
  <2>2. Onwards /\ MailsParsed'
    BY <1>1, <2>1, StaysOnwards
  <2>3. /\ job' \in [Replicas -> Session]
        /\ job'[r] = Advance(job[r]) /\ \A q \in Replicas \ {r} : job'[q] = job[q]
    BY <1>1, <2>1, Advanced, SessionsType
  <2>4. Settled(m)'
    <3>1. Settled(m)
      BY <1>0, <1>2, <1>4, EndedIsSettled DEF Markable
    <3> QED BY <1>3, <2>2, <3>1, SettledKept
  <2>5. SessionOK(r)' /\ job'[r].stage \notin AfterMark
    BY <1>0, <1>1, <2>2, <2>3, <2>4, AdvancedOK
  <2>6. Typed'
    BY <1>1, <2>1, <2>3 DEF Typed, Mark
  <2> QED BY <1>1, <2>1, <2>2, <2>3, <2>5, <2>6, QuietStep DEF Mark, SameMails
<1>5. CASE Markable(d)
  <2> DEFINE s == IF d \in ProbeLane THEN "emitting" ELSE "suppressing"
  <2>1. /\ delivery' = Marked(r) /\ Enter(r, s) /\ delivery[d] = "sent"
        /\ ends' = [ends EXCEPT ![d] = @ + 1]
    BY <1>0, <1>5 DEF Mark, Markable, OneMoreEnd, Ended
  <2>2. s \in Stages /\ s \in AfterMark /\ s \in Handling
    BY DEF Stages, Handling, AfterMark
  <2>3. /\ job' \in [Replicas -> Session] /\ \A q \in Replicas \ {r} : job'[q] = job[q]
        /\ job'[r].stage = s /\ job'[r].batch = job[r].batch /\ job'[r].handled = job[r].handled
        /\ job'[r].tenant = job[r].tenant /\ job'[r].deleted = job[r].deleted
    BY <1>1, <2>1, <2>2, Entered
  <2>4. /\ delivery' \in [Deliveries -> {"leased", "sent", "gone"} \cup Ended]
        /\ delivery'[d] \in Ended /\ \A e \in Deliveries \ {d} : delivery'[e] = delivery[e]
    BY <1>0, <1>1, <1>2, <2>1 DEF Typed, Marked, Ended
  <2>5. /\ ends' \in [Deliveries -> Nat] /\ ends'[d] > 0
        /\ \A e \in Deliveries \ {d} : ends'[e] = ends[e]
    BY <1>1, <1>2, <2>1 DEF Typed
  <2>6. Typed'
    BY <1>1, <2>3, <2>4, <2>5 DEF Typed, Mark
  <2>7. Onwards
    BY <1>1, <2>1, <2>4, <2>5, MailsSame DEF Onwards, Forwards, Ended
  <2>8. EvidenceFirst'
    BY <1>1, <2>1, <2>7, MarkHasEvidence
  <2>9. Current(r)' = Current(r) /\ Target(r)' = d
    BY <1>0, <1>1, <2>3 DEF Current, Target, SameMails
  <2>10. DeliveryOK(d)'
    BY <1>1, <1>2, <2>1, <2>2, <2>3, <2>7, <2>9, MarkedDelivery
  <2>11. SessionOK(r)'
    <3>1. Ending(r)' /\ Event(Target(r), Current(r).type)' \in events'
      BY <1>0, <1>1, <1>2, <2>3, <2>4, <2>9 DEF Ending, Event, Ended
    <3>2. \A n \in job[r].handled \cup job[r].deleted : Settled(n)'
      BY <1>2, <2>7, SettledKept DEF SessionOK
    <3>3. job'[r].batch \cup job'[r].handled \cup job'[r].deleted \subseteq Arrived'
      BY <1>2, <2>3, <2>7 DEF SessionOK, Onwards
    <3>4. s \notin {"recording", "marking"} /\ delivery'[d] \notin {"leased", "sent"}
      BY <2>4 DEF Ended
    <3>5. Min(job'[r].batch) = m /\ parsed'[m].c.delivery = d
      BY <1>0, <2>3, <2>9 DEF Target, Current
    <3>6. Settled(m)'
      BY <3>4, <3>5 DEF Settled, Concerns
    <3>7. /\ Settled(Min(job[r].batch))' /\ ends'[Target(r)'] > 0
          /\ job'[r].stage # "emitting" => Target(r)' \notin ProbeLane
          /\ Target(r)' \notin ProbeLane =>
               Listed(Target(r), job[r].stage # "suppressing", job[r].stage = "emitting")'
      BY <2>3, <2>5, <2>9, <3>5, <3>6 DEF Listed
    <3> HIDE DEF s
    <3> QED BY <1>2, <1>3, <2>2, <2>3, <3>1, <3>2, <3>3, <3>4, <3>7 DEF SessionOK
  <2>12. \A e \in Deliveries \ {d} : SameFor(e)
    BY <1>1, <2>5 DEF SameFor
  <2> QED BY <1>1, <1>2, <2>3, <2>4, <2>6, <2>7, <2>8, <2>9, <2>10, <2>11, <2>12, EndingStep
<1> QED BY <1>4, <1>5

\* What a session past its mark has done so far.
LEMMA PastMark ==
  ASSUME BounceInv, NEW r \in Replicas, job[r].stage \in AfterMark, NEW d, d = Target(r)
  PROVE  /\ Typed /\ job[r].stage \in Handling /\ d \in Deliveries
         /\ TenantOf[d] \in Tenants /\ job[r].tenant = TenantOf[d]
         /\ ends[d] > 0 /\ Settled(Min(job[r].batch)) /\ r \in Following(d)
         /\ job[r].stage # "emitting" => d \notin ProbeLane
         /\ d \notin ProbeLane => Listed(d, job[r].stage # "suppressing", job[r].stage = "emitting")
BY PollerAssumption DEF BounceInv, SessionOK, Ending, Handling, Following

\* The session that ended a delivery goes through the lists.
LEMMA ListingStep ==
  ASSUME BounceInv, NEW r \in Replicas, NEW d, d = Target(r),
         job[r].stage \in {"suppressing", "platform"},
         NEW s \in {"platform", "emitting"}, Enter(r, s),
         UNCHANGED <<box, kind, letter, parsed, mailbox, delivery, events, outbox, lock, faults, retries,
                     early, broken, ends>>,
         suppressed \subseteq suppressed',
         suppressed' \subseteq (Tenants \cup {System}) \X Deliveries,
         \A e \in Deliveries \ {d} : SameFor(e),
         Listed(d, TRUE, s = "emitting")', RightlyListed(d)'
  PROVE  BounceInv'
<1>1. /\ Typed /\ SameMails /\ job[r].stage \in AfterMark /\ job[r].stage \in Handling
      /\ s \in Stages /\ s \in AfterMark /\ s \in Handling
  BY DEF BounceInv, SameMails, Stages, Handling, AfterMark
<1>2. /\ SessionOK(r) /\ Ending(r) /\ Event(Target(r), Current(r).type) \in events /\ d \in Deliveries
      /\ ends[d] > 0 /\ d \notin ProbeLane /\ r \in Following(d) /\ TenantOf[d] \in Tenants
      /\ Settled(Min(job[r].batch)) /\ Min(job[r].batch) \in Arrived
  BY <1>1, PastMark, MailAtHand DEF BounceInv, SessionOK
<1>3. /\ job' \in [Replicas -> Session] /\ \A q \in Replicas \ {r} : job'[q] = job[q]
      /\ job'[r].stage = s /\ job'[r].batch = job[r].batch /\ job'[r].handled = job[r].handled
      /\ job'[r].tenant = job[r].tenant /\ job'[r].deleted = job[r].deleted
  BY <1>1, Entered
<1>4. Typed'
  BY <1>1, <1>3 DEF Typed
<1>5. Onwards /\ Arrived' = Arrived /\ EvidenceFirst'
  BY <1>1, StaysOnwards, EvidenceKept
<1>6. Current(r)' = Current(r) /\ Target(r)' = d
  BY <1>1, <1>3 DEF Current, Target, SameMails
<1>7. DeliveryOK(d)'
  <2>1. Following(d)' = Following(d)
    <3>1. Following(d)' \ {r} = Following(d) \ {r}
      BY <1>3, <1>5, FollowingOthers
    <3>2. r \in Following(d)'
      BY <1>1, <1>3, <1>6 DEF Following
    <3> QED BY <1>2, <3>1, <3>2
  <2>2. DeliveryOK(d)
    BY <1>2 DEF BounceInv
  <2>3. outbox'[d] > 0 /\ d \notin ProbeLane => Listed(d, TRUE, TRUE)'
    BY <2>2 DEF DeliveryOK, Listed
  <2>4. /\ outbox'[d] + broken'[d] + Cardinality(Following(d)') = ends'[d]
        /\ delivery'[d] \in Ended => ends'[d] > 0
    BY <2>1, <2>2 DEF DeliveryOK
  <2> QED BY <2>3, <2>4 DEF DeliveryOK
<1>8. SessionOK(r)'
  <2>1. Ending(r)' /\ Event(Target(r), Current(r).type)' \in events'
    BY <1>2, <1>3, <1>6 DEF Ending, Event
  <2>2. \A n \in job[r].handled \cup job[r].deleted : Settled(n)'
    BY <1>2, <1>5, SettledKept DEF SessionOK
  <2>3. Settled(Min(job[r].batch))'
    <3>1. PICK m \in Arrived : m = Min(job[r].batch)
      BY <1>2
    <3>2. Settled(m)'
      BY <1>2, <1>5, <3>1, SettledKept
    <3> QED BY <1>3, <3>1, <3>2 DEF Settled, Concerns
  <2>4. /\ Settled(Min(job[r].batch))' /\ ends'[Target(r)'] > 0
        /\ job'[r].stage # "emitting" => Target(r)' \notin ProbeLane
        /\ Target(r)' \notin ProbeLane =>
             Listed(Target(r), job[r].stage # "suppressing", job[r].stage = "emitting")'
    BY <1>2, <1>3, <1>6, <2>3 DEF Listed
  <2>5. s \notin {"recording", "marking"}
    OBVIOUS
  <2> QED BY <1>1, <1>2, <1>3, <1>5, <2>1, <2>2, <2>4, <2>5 DEF SessionOK
<1> QED BY <1>1, <1>2, <1>3, <1>4, <1>5, <1>6, <1>7, <1>8, EndingStep

LEMMA SuppressStep ==
  ASSUME BounceInv, NEW r \in Replicas, Suppress(r)
  PROVE  BounceInv'
<1>0. PICK d : d = Target(r)
  OBVIOUS
<1>1. /\ job[r].stage = "suppressing" /\ job[r].stage \in AfterMark /\ Enter(r, "platform")
      /\ UNCHANGED <<box, kind, letter, parsed, mailbox, delivery, events, outbox, lock, faults, retries,
                     early, broken, ends>>
      /\ suppressed' = suppressed \cup {<<t, d>> : t \in {job[r].tenant} \cap Suppressing}
  BY <1>0 DEF Suppress, AfterMark
<1>2. /\ Typed /\ d \in Deliveries /\ TenantOf[d] \in Tenants /\ job[r].tenant = TenantOf[d]
      /\ d \notin ProbeLane /\ ends[d] > 0 /\ RightlyListed(d)
  BY <1>0, <1>1, PastMark DEF BounceInv, DeliveryOK
<1>3. suppressed' \subseteq (Tenants \cup {System}) \X Deliveries
  BY <1>1, <1>2 DEF Typed
<1>4. \A e \in Deliveries \ {d} : SameFor(e)
  BY <1>1 DEF SameFor
<1>5. RightlyListed(d)'
  BY <1>1, <1>2 DEF RightlyListed
<1>6. Listed(d, TRUE, "platform" = "emitting")'
  BY <1>1, <1>2 DEF Listed
<1> QED BY <1>0, <1>1, <1>3, <1>4, <1>5, <1>6, ListingStep

LEMMA SuppressPlatformStep ==
  ASSUME BounceInv, NEW r \in Replicas, SuppressPlatform(r)
  PROVE  BounceInv'
<1>0. PICK d : d = Target(r)
  OBVIOUS
<1>1. /\ job[r].stage = "platform" /\ job[r].stage \in AfterMark /\ Enter(r, "emitting")
      /\ UNCHANGED <<box, kind, letter, parsed, mailbox, delivery, events, outbox, lock, faults, retries,
                     early, broken, ends>>
      /\ suppressed' = suppressed \cup (IF d \in SharedTransport THEN {<<System, d>>} ELSE {})
  BY <1>0 DEF SuppressPlatform, PlatformEntry, AfterMark
<1>2. /\ Typed /\ d \in Deliveries /\ TenantOf[d] \in Tenants
      /\ d \notin ProbeLane /\ ends[d] > 0 /\ RightlyListed(d) /\ Listed(d, TRUE, FALSE)
  <2>1. d \notin ProbeLane /\ Listed(d, job[r].stage # "suppressing", job[r].stage = "emitting")
    BY <1>0, <1>1, PastMark
  <2> QED BY <1>0, <1>1, <2>1, PastMark DEF BounceInv, DeliveryOK, Listed
<1>3. suppressed' \subseteq (Tenants \cup {System}) \X Deliveries
  BY <1>1, <1>2 DEF Typed
<1>4. \A e \in Deliveries \ {d} : SameFor(e)
  BY <1>1 DEF SameFor
<1>5. RightlyListed(d)'
  BY <1>1, <1>2 DEF RightlyListed
<1>6. Listed(d, TRUE, "emitting" = "emitting")'
  BY <1>1, <1>2 DEF Listed
<1> QED BY <1>0, <1>1, <1>3, <1>4, <1>5, <1>6, ListingStep

\* A session stops following a delivery: it announced its end, or gave up.
LEMMA LeavesDelivery ==
  ASSUME BounceInv, Onwards, NEW r \in Replicas, NEW d \in Deliveries,
         \A q \in Replicas \ {r} : job'[q] = job[q],
         job[r].stage \in AfterMark, Target(r) = d, job'[r].stage \notin AfterMark,
         ends' = ends, suppressed' = suppressed, delivery' = delivery,
         \/ /\ outbox' = [outbox EXCEPT ![d] = @ + 1] /\ broken' = broken
            /\ d \notin ProbeLane => Listed(d, TRUE, TRUE)
         \/ outbox' = outbox /\ broken' = [broken EXCEPT ![d] = @ + 1]
  PROVE  DeliveryOK(d)' /\ \A e \in Deliveries \ {d} : SameFor(e)
<1>1. /\ Typed /\ DeliveryOK(d) /\ outbox[d] \in Nat /\ broken[d] \in Nat /\ ends[d] \in Nat
      /\ outbox[d] + broken[d] + Cardinality(Following(d)) = ends[d]
      /\ Cardinality(Following(d)) \in Nat /\ Cardinality(Following(d)') \in Nat
  BY AccountType DEF BounceInv
<1>2. outbox'[d] + broken'[d] = outbox[d] + broken[d] + 1
  <2>1. CASE outbox' = [outbox EXCEPT ![d] = @ + 1] /\ broken' = broken
    BY <1>1, <2>1 DEF Typed
  <2>2. CASE outbox' = outbox /\ broken' = [broken EXCEPT ![d] = @ + 1]
    <3>1. outbox'[d] = outbox[d] /\ broken'[d] = broken[d] + 1
      BY <1>1, <2>2 DEF Typed
    <3> QED BY <1>1, <3>1
  <2> QED BY <2>1, <2>2
<1>3. Cardinality(Following(d)) = Cardinality(Following(d)') + 1
  <2>1. Following(d)' \ {r} = Following(d) \ {r}
    BY FollowingOthers
  <2>2. r \in Following(d) /\ r \notin Following(d)'
    BY DEF Following
  <2> QED BY <2>1, <2>2, FollowingFinite, CountJoined
<1>4. outbox'[d] + broken'[d] + Cardinality(Following(d)') = ends'[d]
  BY <1>1, <1>2, <1>3
<1>5. RightlyListed(d)'
  BY <1>1 DEF DeliveryOK, RightlyListed
<1>6. outbox'[d] > 0 /\ d \notin ProbeLane => Listed(d, TRUE, TRUE)'
  BY <1>1 DEF DeliveryOK, Listed
<1>7. DeliveryOK(d)'
  BY <1>1, <1>4, <1>5, <1>6 DEF DeliveryOK
<1>8. \A e \in Deliveries \ {d} : SameFor(e)
  BY <1>1 DEF SameFor, Typed
<1> QED BY <1>7, <1>8

LEMMA EmitStep ==
  ASSUME BounceInv, NEW r \in Replicas, Emit(r)
  PROVE  BounceInv'
<1>0. PICK m, d : m = Min(job[r].batch) /\ d = Target(r)
  OBVIOUS
<1>1. /\ Typed /\ SameMails /\ box' = box /\ early' = early /\ events' = events /\ delivery' = delivery
      /\ job[r].stage = "emitting" /\ job[r].stage \in Handling /\ job[r].stage \in AfterMark
      /\ outbox' = [outbox EXCEPT ![d] = @ + 1] /\ suppressed' = suppressed /\ broken' = broken
      /\ job' = [job EXCEPT ![r] = Advance(job[r])] /\ ends' = ends
  BY <1>0 DEF BounceInv, Emit, SameMails, Handling, AfterMark
<1>2. d \in Deliveries /\ Settled(m) /\ (d \notin ProbeLane => Listed(d, TRUE, TRUE))
  <2>1. /\ d \notin ProbeLane => Listed(d, job[r].stage # "suppressing", job[r].stage = "emitting")
        /\ d \in Deliveries /\ Settled(m)
    BY <1>0, <1>1, PastMark
  <2> QED BY <1>1, <2>1 DEF Listed
<1>3. m \in Arrived
  BY <1>0, <1>1, MailAtHand
<1>4. Onwards /\ EvidenceFirst'
  BY <1>1, StaysOnwards, EvidenceKept
<1>5. /\ job' \in [Replicas -> Session]
      /\ job'[r] = Advance(job[r]) /\ \A q \in Replicas \ {r} : job'[q] = job[q]
  BY <1>1, Advanced, SessionsType
<1>6. Settled(m)'
  BY <1>2, <1>3, <1>4, SettledKept
<1>7. SessionOK(r)' /\ job'[r].stage \notin AfterMark
  BY <1>0, <1>1, <1>4, <1>5, <1>6, AdvancedOK
<1>8. outbox' \in [Deliveries -> Nat]
  BY <1>1, <1>2 DEF Typed
<1>9. Typed'
  BY <1>1, <1>5, <1>8 DEF Typed, Emit
<1>10. DeliveryOK(d)' /\ \A e \in Deliveries \ {d} : SameFor(e)
  BY <1>0, <1>1, <1>2, <1>4, <1>5, <1>7, LeavesDelivery
<1> QED BY <1>0, <1>1, <1>2, <1>4, <1>5, <1>7, <1>9, <1>10, EndingStep

-----------------------------------------------------------------------------
(* A handler that stops.                                                   *)

\* What is left of a session whose handler failed.
LEMMA AbortedSession ==
  ASSUME Typed, NEW r \in Replicas
  PROVE  LET j == Aborted(job[r])
         IN /\ j \in Session /\ j.batch = {} /\ j.handled = job[r].handled
            /\ j.deleted = job[r].deleted /\ j.stage \in Stages \ Handling
<1>1. job[r] \in Session /\ "aborting" \in Stages \ Handling
  BY SessionFields DEF Stages, Handling, AfterMark
<1>2. Aborted(job[r]) \in Session
  BY <1>1 DEF Aborted, Session
<1> QED BY <1>1, <1>2 DEF Aborted, Session

\* A session stops at a mail, or between two.  If it was past its mark, the
\* delivery has an end that nobody follows through.
LEMMA StopStep ==
  ASSUME BounceInv, NEW r \in Replicas, NEW j \in Session, job' = [job EXCEPT ![r] = j],
         j.stage \in Stages \ Handling, j.batch = {}, j.handled \subseteq job[r].handled,
         j.deleted \subseteq job[r].deleted,
         UNCHANGED <<delivery, box, kind, letter, parsed, mailbox, events, suppressed, outbox, lock,
                     retries, early, ends>>,
         faults' \in 0..MaxFaults, Stopped(r)
  PROVE  BounceInv'
<1>1. Typed /\ SameMails
  BY DEF BounceInv, SameMails
<1>2. /\ job' \in [Replicas -> Session]
      /\ job'[r] = j /\ \A q \in Replicas \ {r} : job'[q] = job[q]
  BY <1>1, SessionsType
<1>3. Onwards /\ MailsParsed' /\ EvidenceFirst'
  BY <1>1, StaysOnwards, EvidenceKept
<1>4. SessionOK(r)' /\ job'[r].stage \notin AfterMark
  BY <1>2, <1>3, RestingOK DEF Handling
<1>5. CASE job[r].stage \notin AfterMark
  <2>1. broken' = broken
    BY <1>5 DEF Stopped
  <2>2. Typed'
    BY <1>1, <1>2, <2>1 DEF Typed
  <2> QED BY <1>2, <1>3, <1>4, <1>5, <2>1, <2>2, QuietStep
<1>6. CASE job[r].stage \in AfterMark
  <2>0. PICK d : d = Target(r)
    OBVIOUS
  <2>1. d \in Deliveries
    BY <1>6, <2>0, PastMark
  <2>2. broken' = [broken EXCEPT ![d] = @ + 1]
    BY <1>6, <2>0 DEF Stopped
  <2>3. broken' \in [Deliveries -> Nat]
    BY <1>1, <2>1, <2>2 DEF Typed
  <2>4. Typed'
    BY <1>1, <1>2, <2>3 DEF Typed
  <2>5. DeliveryOK(d)' /\ \A e \in Deliveries \ {d} : SameFor(e)
    BY <1>2, <1>3, <1>4, <1>6, <2>0, <2>1, <2>2, LeavesDelivery
  <2> QED BY <1>1, <1>2, <1>3, <1>4, <2>0, <2>1, <2>4, <2>5, EndingStep
<1> QED BY <1>5, <1>6

LEMMA LostAnswerStep ==
  ASSUME BounceInv, NEW r \in Replicas, HandleFails(r), job[r].stage = "marking",
         Markable(Target(r)), delivery' = Marked(r), ends' = OneMoreEnd(r),
         broken' = [broken EXCEPT ![Target(r)] = @ + 1]
  PROVE  BounceInv'
<1>0. PICK d : d = Target(r)
  OBVIOUS
<1>1. /\ Typed /\ SameMails /\ box' = box /\ early' = early /\ events' = events
      /\ job[r].stage \notin AfterMark /\ delivery[d] = "sent"
      /\ outbox' = outbox /\ suppressed' = suppressed
      /\ job' = [job EXCEPT ![r] = Aborted(job[r])]
      /\ ends' = [ends EXCEPT ![d] = @ + 1] /\ broken' = [broken EXCEPT ![d] = @ + 1]
  BY <1>0 DEF BounceInv, HandleFails, SameMails, AfterMark, Markable, OneMoreEnd, Ended
<1>2. d \in Deliveries
  BY <1>0 DEF BounceInv, SessionOK, Ending
<1>3. /\ job' \in [Replicas -> Session]
      /\ job'[r] = Aborted(job[r]) /\ \A q \in Replicas \ {r} : job'[q] = job[q]
      /\ job'[r].batch = {} /\ job'[r].handled = job[r].handled /\ job'[r].deleted = job[r].deleted
      /\ job'[r].stage \in Stages \ Handling
  BY <1>1, AbortedSession, SessionsType
<1>4. /\ delivery' \in [Deliveries -> {"leased", "sent", "gone"} \cup Ended]
      /\ delivery'[d] \in Ended /\ \A e \in Deliveries \ {d} : delivery'[e] = delivery[e]
  BY <1>0, <1>1, <1>2 DEF Typed, Marked, Ended
<1>5. /\ faults' \in 0..MaxFaults
      /\ ends' \in [Deliveries -> Nat] /\ broken' \in [Deliveries -> Nat]
      /\ ends'[d] > 0 /\ \A e \in Deliveries \ {d} : ends'[e] = ends[e] /\ broken'[e] = broken[e]
  BY <1>1, <1>2, FaultType DEF HandleFails, Typed
<1>6. Typed'
  BY <1>1, <1>3, <1>4, <1>5 DEF Typed, HandleFails
<1>7. Onwards
  BY <1>1, <1>4, <1>5, MailsSame DEF Onwards, Forwards, Ended
<1>8. EvidenceFirst'
  BY <1>7, MarkHasEvidence
<1>9. SessionOK(r)' /\ job'[r].stage \notin AfterMark
  BY <1>3, <1>7, RestingOK DEF Handling
<1>10. DeliveryOK(d)'
  BY <1>1, <1>2, <1>3, <1>7, <1>9, MarkedDelivery
<1>11. \A e \in Deliveries \ {d} : SameFor(e)
  BY <1>1, <1>5 DEF SameFor
<1> QED BY <1>1, <1>2, <1>3, <1>4, <1>6, <1>7, <1>8, <1>9, <1>10, <1>11, EndingStep

LEMMA HandleFailsStep ==
  ASSUME BounceInv, NEW r \in Replicas, HandleFails(r)
  PROVE  BounceInv'
<1>1. CASE /\ job[r].stage = "marking" /\ Markable(Target(r)) /\ delivery' = Marked(r)
           /\ ends' = OneMoreEnd(r) /\ broken' = [broken EXCEPT ![Target(r)] = @ + 1]
  BY <1>1, LostAnswerStep
<1>2. CASE Stopped(r) /\ UNCHANGED <<delivery, ends>>
  <2>1. Typed /\ faults' \in 0..MaxFaults
    BY FaultType DEF BounceInv, HandleFails
  <2>2. LET j == Aborted(job[r])
        IN /\ j \in Session /\ j.batch = {} /\ j.handled = job[r].handled
           /\ j.deleted = job[r].deleted /\ j.stage \in Stages \ Handling
    BY <2>1, AbortedSession
  <2> QED BY <1>2, <2>1, <2>2, StopStep DEF HandleFails
<1> QED BY <1>1, <1>2 DEF HandleFails

LEMMA CrashStep ==
  ASSUME BounceInv, NEW r \in Replicas, Crash(r)
  PROVE  BounceInv'
<1>1. faults' \in 0..MaxFaults
  BY FaultType DEF BounceInv, Crash
<1> QED BY <1>1, IdleSession, StopStep DEF Crash

-----------------------------------------------------------------------------
(* The specification.                                                      *)

LEMMA BounceInit ==
  ASSUME Init
  PROVE  BounceInv
<1>1. /\ Idle \in Session /\ Idle.batch = {} /\ Idle.handled = {} /\ Idle.deleted = {}
      /\ Idle.stage \notin Handling
  BY IdleSession
<1>2. \A r \in Replicas : job[r] = Idle
  BY DEF Init
<1>3. Typed
  BY <1>1, PollerAssumption DEF Init, Typed, Unlocked
<1>4. MailsParsed /\ \A m \in Mails : mailbox[m] # "acked"
  BY DEF Init, MailsParsed, Arrived
<1>5. "recording" \in Handling /\ {"marking"} \cup AfterMark \subseteq Handling
  BY DEF Handling
<1>6. ASSUME NEW r \in Replicas PROVE SessionOK(r)
  <2>1. Cardinality({}) = 0 /\ FetchBatch \in Nat
    BY FS_EmptySet, PollerAssumption
  <2>2. Cardinality(job[r].handled) + Cardinality(job[r].batch) <= FetchBatch
    BY <1>1, <1>2, <2>1
  <2> QED BY <1>1, <1>2, <1>5, <2>2 DEF SessionOK
<1>7. (\A d \in Deliveries : DeliveryOK(d)) /\ EvidenceFirst
  <2>1. \A d \in Deliveries : delivery[d] = "leased" /\ outbox[d] = 0 /\ broken[d] = 0 /\ ends[d] = 0
    BY DEF Init
  <2>2. suppressed = {} /\ \A d \in Deliveries : Cardinality(Following(d)) = 0
    <3>1. \A d \in Deliveries : Following(d) = {}
      BY <1>1, <1>2, <1>5 DEF Following
    <3> QED BY <3>1, FS_EmptySet DEF Init
  <2>3. ASSUME NEW d \in Deliveries PROVE DeliveryOK(d)
    <3>1. outbox[d] + broken[d] + Cardinality(Following(d)) = ends[d]
      BY <2>1, <2>2
    <3>2. RightlyListed(d)
      BY <2>2 DEF RightlyListed
    <3>3. delivery[d] \notin Ended /\ ~(outbox[d] > 0)
      BY <2>1 DEF Ended
    <3> QED BY <3>1, <3>2, <3>3 DEF DeliveryOK
  <2> QED BY <2>1, <2>3 DEF EvidenceFirst, Ended
<1> QED BY <1>3, <1>4, <1>6, <1>7 DEF BounceInv

LEMMA BounceStutter ==
  ASSUME BounceInv, UNCHANGED vars
  PROVE  BounceInv'
<1>1. Typed /\ SameMails /\ delivery' = delivery /\ job' = job
  BY DEF BounceInv, vars, SameMails
<1>2. Typed'
  BY <1>1 DEF Typed, vars
<1>3. Onwards
  BY <1>1, StaysOnwards DEF vars
<1> QED BY <1>1, <1>2, <1>3, WorldStep DEF vars

LEMMA BounceStep ==
  ASSUME BounceInv, [Next]_vars
  PROVE  BounceInv'
<1>1. ASSUME NEW m \in Mails, Arrive(m) PROVE BounceInv'
  BY <1>1, ArriveStep
<1>2. ASSUME NEW d \in Deliveries, MarkSent(d) \/ RetryDelivery(d) \/ DeleteBefore(d) PROVE BounceInv'
  BY <1>2, MarkSentStep, RetryDeliveryStep, DeleteBeforeStep
<1>3. ASSUME LeaseRunsOut PROVE BounceInv'
  BY <1>3, LeaseRunsOutStep
<1>4. ASSUME NEW r \in Replicas, Poll(r) PROVE BounceInv'
  BY <1>4, AcquireStep, FetchStep, JudgeStep, RecordStep, MarkStep, SuppressStep,
     SuppressPlatformStep, EmitStep, AckStep, CloseStep, ReleaseStep DEF Poll
<1>5. ASSUME NEW r \in Replicas, FetchFails(r) \/ HandleFails(r) \/ AckFails(r) \/ Crash(r)
      PROVE  BounceInv'
  BY <1>5, FetchFailsStep, HandleFailsStep, AckFailsStep, CrashStep
<1> QED BY <1>1, <1>2, <1>3, <1>4, <1>5, BounceStutter DEF Next

LEMMA BounceInvariant == Spec => []BounceInv
<1>1. Init => BounceInv
  BY BounceInit
<1>2. BounceInv /\ [Next]_vars => BounceInv'
  BY BounceStep
<1> QED BY <1>1, <1>2, PTL DEF Spec

\* The variables keep their types: the batch and what was handled of it never
\* hold more than FetchBatch mails between them (pollSession), and a session is
\* inside Handle exactly while it has mails left.
THEOREM BounceTypeCorrect == Spec => []TypeOK
<1>1. BounceInv => TypeOK
  <2> SUFFICES ASSUME BounceInv PROVE TypeOK
    OBVIOUS
  <2>1. Typed
    BY DEF BounceInv
  <2>2. \A m \in Mails : parsed[m] # None => parsed[m].type \in Types
    BY ParsedMail DEF BounceInv, MailsParsed
  <2>3. \A r \in Replicas :
          /\ job[r].stage \in {"idle", "fetching", "acking", "aborting", "closing", "releasing"} \cup Handling
          /\ job[r].stage \in Handling <=> job[r].batch # {}
          /\ job[r].handled \subseteq Mails /\ job[r].deleted \subseteq Mails
          /\ Cardinality(job[r].handled) + Cardinality(job[r].batch) <= FetchBatch
    BY <2>1, SessionFields DEF BounceInv, SessionOK, Stages
  <2> QED BY <2>1, <2>2, <2>3 DEF TypeOK, Typed, Events
<1> QED BY <1>1, BounceInvariant, PTL

\* No delivery bounces or complains without the verified BounceEvent of its own
\* tenant and a mail that speaks for it, whatever letters arrive, however often
\* they are fetched and whichever replicas handle them (Handle, correlate).
THEOREM EndsHaveEvidence == Spec => []EvidenceFirst
<1>1. BounceInv => EvidenceFirst
  BY DEF BounceInv
<1> QED BY <1>1, BounceInvariant, PTL

\* Every end of a delivery is announced once, has a session at work on it or was
\* given up by a handler that stopped after its mark, however often the mails are
\* fetched and the delivery is sent again; and a suppression list holds the
\* deliveries that ended and belong on it, all of them once they are announced
\* (markTerminal's compare-and-set, suppress, suppressPlatform, enqueueEvent).
THEOREM EndsAreFollowedThrough == Spec => []FollowedThrough
<1>1. BounceInv => FollowedThrough
  <2> SUFFICES ASSUME BounceInv, NEW d \in Deliveries
               PROVE  LET listed == {e \in suppressed : e[2] = d}
                      IN /\ outbox[d] + broken[d] + Cardinality(Following(d)) = ends[d]
                         /\ delivery[d] \in Ended => ends[d] > 0
                         /\ listed \subseteq IF ends[d] > 0 /\ d \notin ProbeLane THEN Belongs(d) ELSE {}
                         /\ outbox[d] > 0 /\ d \notin ProbeLane => listed = Belongs(d)
    BY DEF FollowedThrough
  <2> DEFINE listed == {e \in suppressed : e[2] = d}
  <2>1. DeliveryOK(d) /\ Typed
    BY DEF BounceInv
  <2>2. ASSUME NEW e \in listed
        PROVE  \E t \in Tenants \cup {System} : e = <<t, d>> /\ <<t, d>> \in suppressed
    <3>1. e \in (Tenants \cup {System}) \X Deliveries /\ e \in suppressed /\ e[2] = d
      BY <2>1 DEF Typed
    <3>2. e = <<e[1], e[2]>> /\ e[1] \in Tenants \cup {System}
      BY <3>1
    <3> QED BY <3>1, <3>2
  <2>3. Belongs(d) = {e \in {<<TenantOf[d], d>>} : TenantOf[d] \in Suppressing}
                     \cup {e \in {<<System, d>>} : d \in SharedTransport}
    BY DEF Belongs, PlatformEntry
  <2>4. \A e \in listed : ends[d] > 0 /\ d \notin ProbeLane /\ e \in Belongs(d)
    BY <2>1, <2>2, <2>3 DEF DeliveryOK, RightlyListed
  <2>5. Listed(d, TRUE, TRUE) => Belongs(d) \subseteq listed
    BY <2>3 DEF Listed
  <2>6. outbox[d] > 0 /\ d \notin ProbeLane => listed = Belongs(d)
    BY <2>1, <2>4, <2>5 DEF DeliveryOK
  <2>7. listed \subseteq IF ends[d] > 0 /\ d \notin ProbeLane THEN Belongs(d) ELSE {}
    BY <2>4
  <2> QED BY <2>1, <2>6, <2>7 DEF DeliveryOK
<1> QED BY <1>1, BounceInvariant, PTL

\* Dealing with a mail never loses a bounce: a hard bounce or complaint of this
\* mailbox that Handle is done with has moved its delivery out of sent, but for
\* the mails from before the send was last committed (pollSession's ack of what
\* Handle returned without an error).
THEOREM AckedMailsAreHandled == Spec => []AckedIsHandled
<1>1. BounceInv => AckedIsHandled
  <2> SUFFICES ASSUME BounceInv, NEW m \in Mails, Dealt(m), m \notin early,
                      parsed[m].type \in {"hard", "complaint"}, parsed[m].c.delivery # None,
                      SpeaksFor(Letters[letter[m]], parsed[m].c.delivery),
                      box \in {System, TenantOf[parsed[m].c.delivery]},
                      parsed[m].c.tenant \in {None, TenantOf[parsed[m].c.delivery]}
               PROVE  delivery[parsed[m].c.delivery] # "sent"
    BY DEF AckedIsHandled
  <2>1. Settled(m) /\ m \in Arrived
    BY DEF BounceInv, Arrived, Dealt, SessionOK
  <2>2. parsed[m].c.delivery \in Deliveries
    BY <2>1, ParsedMail
  <2> QED BY <2>1, <2>2 DEF Settled, Concerns
<1> QED BY <1>1, BounceInvariant, PTL
=============================================================================
