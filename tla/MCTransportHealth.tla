------------------------- MODULE MCTransportHealth -------------------------
(* Model values for TLC's run of TransportHealth. *)
EXTENDS TransportHealth

CONSTANTS r1, w1, p1

OneReplica == {r1}
OneWorker  == {w1}
OneProber  == {p1}
Homes == [a \in OneWorker \cup OneProber |-> r1]
=============================================================================
