------------------------- MODULE DeliveryRowProofs -------------------------
(* The statements of store.DeliveryRepo keep a row well formed.            *)
EXTENDS DeliveryRow, TLAPS

\* Updating one column with a value of its type keeps a row well formed.
LEMMA FieldType ==
  ASSUME NEW row \in Row
  PROVE  /\ \A s \in Statuses : [row EXCEPT !.status = s] \in Row
         /\ \A o \in Workers \cup {NoOwner} : [row EXCEPT !.owner = o] \in Row
         /\ \A n \in Int : [row EXCEPT !.lease = n] \in Row
         /\ \A n \in Nat : [row EXCEPT !.wait = n] \in Row
         /\ \A n \in Nat : [row EXCEPT !.attempts = n] \in Row
         /\ \A n \in Nat : [row EXCEPT !.gen = n] \in Row
BY DEF Row

\* Claim, Complete, MarkSent, markTerminal, ReleaseExpiredLeases,
\* BulkTransition, Requeue and the clock map rows to rows.
LEMMA RowType ==
  ASSUME NEW row \in Row
  PROVE  /\ \A w \in Workers : Claimed(row, w) \in Row
         /\ \A res \in Result : Completed(row, res) \in Row
         /\ MarkedSent(row) \in Row
         /\ \A to \in Statuses : MarkedTerminal(row, to) \in Row
         /\ Released(row) \in Row
         /\ BulkCancelled(row) \in Row
         /\ Requeued(row) \in Row
         /\ Aged(row) \in Row
<1>a. {"leased", "sent", "queued", "deferred", "cancelled"} \subseteq Statuses
  BY DEF Statuses, Waiting, Terminal
<1>b. Unleased(row) \in Row
  <2> DEFINE r == [row EXCEPT !.owner = NoOwner]
  <2>1. r \in Row
    BY FieldType
  <2>2. Unleased(row) = [r EXCEPT !.lease = 0]
    BY DEF Unleased, Row
  <2> HIDE DEF r
  <2> QED BY <2>1, <2>2, FieldType
<1>c. /\ row.attempts \in Nat /\ row.wait \in Nat /\ row.gen \in Nat /\ row.lease \in Int
      /\ Unleased(row).attempts = row.attempts
      /\ Unleased(row).wait = row.wait
      /\ Unleased(row).gen = row.gen
  BY DEF Row, Unleased
<1>1. ASSUME NEW w \in Workers PROVE Claimed(row, w) \in Row
  <2> DEFINE r == [row EXCEPT !.status = "leased", !.owner = w]
  <2>1. r \in Row
    BY <1>a DEF Row
  <2>2. Claimed(row, w) = [r EXCEPT !.lease = LeaseFor]
    BY DEF Claimed, Row
  <2> HIDE DEF r
  <2> QED BY <2>1, <2>2, FieldType, RowAssumption
<1>2. ASSUME NEW res \in Result PROVE Completed(row, res) \in Row
  <2> DEFINE r == Unleased(row)
             n == IF res.inc THEN r.attempts + 1 ELSE r.attempts
             k == IF res.status \in Waiting THEN res.wait ELSE r.wait
  <2>1. res.status \in Statuses /\ n \in Nat /\ k \in Nat
    BY <1>c DEF Result
  <2>2. Completed(row, res) = [[[r EXCEPT !.status = res.status] EXCEPT !.attempts = n] EXCEPT !.wait = k]
    BY <1>b DEF Completed, Row
  <2>. HIDE DEF n, k
  <2>3. [r EXCEPT !.status = res.status] \in Row
    BY <1>b, <2>1, FieldType
  <2>4. [[r EXCEPT !.status = res.status] EXCEPT !.attempts = n] \in Row
    BY <2>1, <2>3, FieldType
  <2> QED BY <2>1, <2>2, <2>4, FieldType
<1>3. MarkedSent(row) \in Row
  BY <1>a, FieldType DEF MarkedSent
<1>4. \A to \in Statuses : MarkedTerminal(row, to) \in Row
  BY <1>b, FieldType DEF MarkedTerminal
<1>5. Released(row) \in Row
  BY <1>a, <1>b DEF Row, Released
<1>6. BulkCancelled(row) \in Row
  BY <1>a, FieldType DEF BulkCancelled
<1>7. Requeued(row) \in Row
  <2> DEFINE r == [Unleased(row) EXCEPT !.status = "queued"]
             q == [r EXCEPT !.gen = row.gen + 1]
  <2>1. r \in Row
    BY <1>a, <1>b, FieldType
  <2>2. Requeued(row) = [q EXCEPT !.wait = 0]
    BY <1>b, <1>c DEF Requeued, Row
  <2> HIDE DEF r
  <2>3. q \in Row
    BY <1>c, <2>1, FieldType
  <2> HIDE DEF q
  <2> QED BY <2>2, <2>3, FieldType
<1>8. Aged(row) \in Row
  <2> DEFINE i == IF row.owner # NoOwner /\ row.lease >= 0 THEN row.lease - 1 ELSE row.lease
             k == IF row.wait > 0 THEN row.wait - 1 ELSE row.wait
  <2>1. i \in Int /\ k \in Nat
    BY <1>c
  <2>2. Aged(row) = [[row EXCEPT !.lease = i] EXCEPT !.wait = k]
    BY DEF Aged, Row
  <2> HIDE DEF i, k
  <2>3. [row EXCEPT !.lease = i] \in Row
    BY <2>1, FieldType
  <2> QED BY <2>1, <2>2, <2>3, FieldType
<1> QED BY <1>1, <1>2, <1>3, <1>4, <1>5, <1>6, <1>7, <1>8
=============================================================================
