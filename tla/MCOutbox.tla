------------------------------ MODULE MCOutbox ------------------------------
(* Model values for TLC's runs of Outbox. *)
EXTENDS Outbox

CONSTANTS e1, outbox, sweep

OneEvent == {e1}
BothLoops == {outbox, sweep}
TheSweep  == {sweep}

Schedule == <<1>>
=============================================================================
