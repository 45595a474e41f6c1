--------------------------- MODULE RecipientIngest ---------------------------
(***************************************************************************)
(* Streaming recipients into one campaign (internal/ingest/ingest.go): a   *)
(* call reads the campaign, the recipient count and its chunk, streams the *)
(* body line by line, inserting a batch at a time, and marks the chunk     *)
(* completed.  Calls overlap, fail at any store call, and are sent again   *)
(* by clients that had no answer, under the same key and with the same     *)
(* body.                                                                   *)
(***************************************************************************)
EXTENDS Integers, Sequences, FiniteSetsExt

CONSTANTS
  Callers,     \* HTTP handlers running at the same time
  Keys,        \* Idempotency-Keys
  Body,        \* the lines sent under each key: an address, or BadLine
  BadLine,     \* a line that parse rejects, or too long
  NoCall,
  BatchSize,   \* DefaultBatchSize
  MaxRecipients, \* Limits.MaxRecipientsPerCampaign
  MaxFailures  \* bound: failed store calls, broken streams, lost answers

Addresses == (UNION {{Body[k][i] : i \in DOMAIN Body[k]} : k \in Keys}) \ {BadLine}

ASSUME IngestAssumption ==
  /\ IsFiniteSet(Keys) /\ IsFiniteSet(Callers)
  /\ DOMAIN Body = Keys
  /\ \A k \in Keys : Body[k] \in Seq(Addresses \cup {BadLine})
  /\ BatchSize \in Nat \ {0}
  /\ MaxRecipients \in Nat
  /\ MaxFailures \in Nat

VARIABLES
  editable,  \* the campaign is draft or scheduled
  rows,      \* the addresses with a delivery row
  chunk,     \* the recipient_chunk row of each key
  calls,     \* the call each handler is serving
  answered,  \* the keys whose client has its answer
  failures,  \* how many failures are left
  claimed,   \* history: rows that some call has counted as accepted
  overlap    \* history: two calls were streaming at the same time

ingestVars == <<editable, rows, chunk, calls, answered, failures, claimed, overlap>>

Counts == [accepted : Nat, duplicates : Nat, invalid : Nat]

NoCounts == [accepted |-> 0, duplicates |-> 0, invalid |-> 0]

Chunk == [state : {"absent", "pending", "completed"}, counts : Counts]

\* line is the number of lines consumed, batch what the next flush inserts.
Call == [key : Keys, stage : {"lookup", "open", "stream"}, existing : Nat,
         line : Nat, batch : SUBSET Addresses, counts : Counts]

IngestTypeOK ==
  /\ editable \in BOOLEAN
  /\ rows \subseteq Addresses
  /\ chunk \in [Keys -> Chunk]
  /\ calls \in [Callers -> Call \cup {NoCall}]
  /\ \A c \in Callers : calls[c] # NoCall => Cardinality(calls[c].batch) <= BatchSize
  /\ answered \subseteq Keys
  /\ failures \in 0..MaxFailures
  /\ claimed \in Nat
  /\ overlap \in BOOLEAN

-----------------------------------------------------------------------------

Failure == failures > 0 /\ failures' = failures - 1

IngestInit ==
  /\ editable = TRUE
  /\ rows = {}
  /\ chunk = [k \in Keys |-> [state |-> "absent", counts |-> NoCounts]]
  /\ calls = [c \in Callers |-> NoCall]
  /\ answered = {}
  /\ failures = MaxFailures
  /\ claimed = 0
  /\ overlap = FALSE

At(c, stage) == calls[c] # NoCall /\ calls[c].stage = stage

End(c) == calls' = [calls EXCEPT ![c] = NoCall]

Answer(c) == End(c) /\ answered' = answered \cup {calls[c].key}

\* Mutant: the batch in hand is not counted against the limit.
BudgetedInserted(call) == call.existing + call.counts.accepted

\* What the call has inserted or holds, and what was there when it began.
Budgeted(call) == call.existing + call.counts.accepted + Cardinality(call.batch)

AtEOF(call) == call.line = Len(Body[call.key])

NextLine(call) == Body[call.key][call.line + 1]

\* The next line is a recipient the current batch does not hold yet.
Fresh(call) == ~AtEOF(call) /\ NextLine(call) \notin call.batch \cup {BadLine}

\* stream flushes a full batch, the rest at the end, and early rather than
\* overshoot the limit.
FlushDue(call) ==
  /\ call.batch # {}
  /\ \/ AtEOF(call)
     \/ Cardinality(call.batch) >= BatchSize
     \/ Fresh(call) /\ Budgeted(call) >= MaxRecipients

-----------------------------------------------------------------------------
(* One call.                                                               *)

\* The client sends its body, perhaps again and while the first try is still
\* being served.  The campaign is read, then counted.
Ingest(c, k) ==
  /\ calls[c] = NoCall
  /\ k \notin answered
  /\ IF editable
       THEN /\ calls' = [calls EXCEPT ![c] =
                 [key |-> k, stage |-> "lookup", existing |-> Cardinality(rows), line |-> 0,
                  batch |-> {}, counts |-> NoCounts]]
            /\ overlap' = (overlap \/ \E o \in Callers : calls[o] # NoCall)
            /\ UNCHANGED answered
       ELSE answered' = answered \cup {k} /\ UNCHANGED <<calls, overlap>>
  /\ UNCHANGED <<editable, rows, chunk, failures, claimed>>

\* Mutant: a completed chunk is refused like one in progress.
LookUpRefuses(c) ==
  /\ At(c, "lookup")
  /\ IF chunk[calls[c].key].state = "completed"
       THEN End(c) /\ UNCHANGED answered
       ELSE calls' = [calls EXCEPT ![c].stage = "open"] /\ UNCHANGED answered
  /\ UNCHANGED <<editable, rows, chunk, failures, claimed, overlap>>

\* A completed chunk is answered from its stored counts.
LookUpChunk(c) ==
  /\ At(c, "lookup")
  /\ IF chunk[calls[c].key].state = "completed"
       THEN Answer(c)
       ELSE calls' = [calls EXCEPT ![c].stage = "open"] /\ UNCHANGED answered
  /\ UNCHANGED <<editable, rows, chunk, failures, claimed, overlap>>

\* The chunk is put as pending, whatever it is by now; a full campaign is
\* refused only after that.
PutPending(c) ==
  /\ At(c, "open")
  /\ chunk' = [chunk EXCEPT ![calls[c].key] = [state |-> "pending", counts |-> NoCounts]]
  /\ IF calls[c].existing >= MaxRecipients
       THEN Answer(c)
       ELSE calls' = [calls EXCEPT ![c].stage = "stream"] /\ UNCHANGED answered
  /\ UNCHANGED <<editable, rows, failures, claimed, overlap>>

\* Mutant: a line that did not parse is kept.
TakeUnparsed(call) == [call EXCEPT !.line = @ + 1, !.batch = @ \cup {NextLine(call)}]

\* The effect of a line that needs no store call.
Take(call) ==
  CASE NextLine(call) = BadLine       -> [call EXCEPT !.line = @ + 1, !.counts.invalid = @ + 1]
    [] NextLine(call) \in call.batch  -> [call EXCEPT !.line = @ + 1, !.counts.duplicates = @ + 1]
    [] OTHER                          -> [call EXCEPT !.line = @ + 1, !.batch = @ \cup {NextLine(call)}]

\* One line; one more recipient than the limit allows ends the call.
StreamLine(c) ==
  /\ At(c, "stream")
  /\ ~FlushDue(calls[c]) /\ ~AtEOF(calls[c])
  /\ IF Fresh(calls[c]) /\ Budgeted(calls[c]) >= MaxRecipients
       THEN Answer(c)
       ELSE calls' = [calls EXCEPT ![c] = Take(@)] /\ UNCHANGED answered
  /\ UNCHANGED <<editable, rows, chunk, failures, claimed, overlap>>

\* The rows InsertBatch adds: the unique key skips the others.
Inserted(call) == call.batch \ rows

\* flush
Flush(c) ==
  LET new == Cardinality(Inserted(calls[c]))
  IN /\ At(c, "stream")
     /\ FlushDue(calls[c])
     /\ rows' = rows \cup calls[c].batch
     /\ claimed' = claimed + new
     /\ calls' = [calls EXCEPT ![c].batch = {}, ![c].counts.accepted = @ + new,
                               ![c].counts.duplicates = @ + Cardinality(calls[c].batch) - new]
     /\ UNCHANGED <<editable, chunk, answered, failures, overlap>>

\* Mutant: the chunk is completed as soon as the body has been read.
StreamedWhenRead(call) == AtEOF(call)

\* stream has returned without an error.
Streamed(call) == AtEOF(call) /\ call.batch = {}

\* The recipients are counted again and the chunk is put as completed.
PutCompleted(c) ==
  /\ At(c, "stream")
  /\ Streamed(calls[c])
  /\ chunk' = [chunk EXCEPT ![calls[c].key] = [state |-> "completed", counts |-> calls[c].counts]]
  /\ Answer(c)
  /\ UNCHANGED <<editable, rows, failures, claimed, overlap>>

\* The call fails wherever it is.  InsertBatch may have inserted some of its
\* rows, or all, and then nothing is counted; the answer may be lost after the
\* chunk was put.
IngestFails(c) ==
  /\ calls[c] # NoCall
  /\ Failure
  /\ End(c)
  /\ \/ UNCHANGED <<rows, chunk>>
     \/ /\ At(c, "stream") /\ FlushDue(calls[c])
        /\ \E S \in SUBSET calls[c].batch : S # {} /\ rows' = rows \cup S
        /\ UNCHANGED chunk
     \/ /\ At(c, "stream") /\ Streamed(calls[c])
        /\ chunk' = [chunk EXCEPT ![calls[c].key] = [state |-> "completed",
                                                     counts |-> calls[c].counts]]
        /\ UNCHANGED rows
  /\ UNCHANGED <<editable, answered, claimed, overlap>>

\* The campaign starts; calls that have read it go on.
CampaignStarts ==
  /\ editable
  /\ editable' = FALSE
  /\ UNCHANGED <<rows, chunk, calls, answered, failures, claimed, overlap>>

-----------------------------------------------------------------------------

Serve(c) ==
  LookUpChunk(c) \/ PutPending(c) \/ StreamLine(c) \/ Flush(c) \/ PutCompleted(c)

\* Every client has its answer.
AllAnswered == answered = Keys /\ (\A c \in Callers : calls[c] = NoCall) /\ UNCHANGED ingestVars

IngestNext ==
  \/ \E c \in Callers, k \in Keys : Ingest(c, k)
  \/ \E c \in Callers : Serve(c) \/ IngestFails(c)
  \/ CampaignStarts
  \/ AllAnswered

IngestSpec == IngestInit /\ [][IngestNext]_ingestVars

\* Store calls return, and a client without an answer sends its body again.
IngestFairness ==
  /\ \A c \in Callers : WF_ingestVars(Serve(c))
  /\ \A k \in Keys : WF_ingestVars(\E c \in Callers : Ingest(c, k))

FairIngestSpec == IngestSpec /\ IngestFairness

-----------------------------------------------------------------------------
(* Properties.                                                             *)

Lines(k) == Len(Body[k])

Recipients(k) == {Body[k][i] : i \in DOMAIN Body[k]} \ {BadLine}

\* However many calls with its key raced, failed or were half done, a completed
\* chunk, which is never read again, misses nothing: every recipient it names has
\* a row, and the counts a replay answers with account for every line.  No
\* recipient is counted as accepted by two calls.
CompletedIsIngested ==
  /\ \A k \in Keys : chunk[k].state = "completed" =>
       /\ Recipients(k) \subseteq rows
       /\ chunk[k].counts.accepted + chunk[k].counts.duplicates + chunk[k].counts.invalid = Lines(k)
  /\ claimed <= Cardinality(rows)
  /\ failures = MaxFailures => claimed = Cardinality(rows)

\* The limit is kept by each call on its own, so only calls that overlap can
\* exceed it together.
LimitNeedsOverlap == Cardinality(rows) > MaxRecipients => overlap

\* A client that keeps sending gets its answer.
EventuallyAnswered == \A k \in Keys : <>(k \in answered)
=============================================================================
