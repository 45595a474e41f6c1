--------------------------- MODULE DeliveryLeases ---------------------------
(***************************************************************************)
(* What store.DeliveryRepo.Claim promises its callers, whichever database  *)
(* is behind it: a row is leased only while nobody holds it, and a lease   *)
(* is handed to one claimer at most, the one that took it.                 *)
(***************************************************************************)
EXTENDS Integers

CONSTANT Rows

VARIABLES
  held,  \* the rows that are leased now
  given  \* how often the latest lease of each row was handed to a claimer

vars == <<held, given>>

Init ==
  /\ held = {}
  /\ given = [r \in Rows |-> 1]

Grant(r) ==
  /\ r \notin held
  /\ held' = held \cup {r}
  /\ given' = [given EXCEPT ![r] = 0]

\* A claim returns.  A lease may have ended on its way to the claimer, but
\* nobody else was or will be given it.
Give(S) ==
  /\ \A r \in S : given[r] = 0
  /\ given' = [r \in Rows |-> given[r] + IF r \in S THEN 1 ELSE 0]
  /\ UNCHANGED held

\* The row was completed, marked sent, released or requeued.
EndLease(r) ==
  /\ r \in held
  /\ held' = held \ {r}
  /\ UNCHANGED given

Next ==
  \/ \E r \in Rows : Grant(r) \/ EndLease(r)
  \/ \E S \in SUBSET Rows : Give(S)

Spec == Init /\ [][Next]_vars
=============================================================================
