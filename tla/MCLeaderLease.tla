---------------------------- MODULE MCLeaderLease ----------------------------
(* Model values for TLC's runs of LeaderLease. *)
EXTENDS LeaderLease

CONSTANTS r1, r2, r3

ThreeReplicas == {r1, r2, r3}
=============================================================================
