-------------------------- MODULE MCMongoDelivery --------------------------
(* Model values for TLC's runs of MongoDelivery. *)
EXTENDS MongoDelivery

CONSTANTS r1, r2, c1, c2, w1, t1, t2, t3, t4

TwoRows     == {r1, r2}
TwoClaimers == {c1, c2}
OneWorker   == {w1}
FourTokens  == {t1, t2, t3, t4}
=============================================================================
