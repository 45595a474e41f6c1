------------------------- MODULE MCTrackingBuffer -------------------------
(* Model values for TLC's runs of TrackingBuffer. *)
EXTENDS TrackingBuffer

CONSTANTS r1, d1, d2, t1, t2

OneReplica    == {r1}
TwoDeliveries == {d1, d2}
TwoTenants    == [d \in TwoDeliveries |-> IF d = d1 THEN t1 ELSE t2]
=============================================================================
