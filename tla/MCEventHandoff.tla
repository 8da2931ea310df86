---------------------------- MODULE MCEventHandoff ----------------------------
(* Three turns of one agent, or two.                                       *)
EXTENDS EventHandoff

CONSTANTS t1, t2, t3

ThreeTurns == {t1, t2, t3}
TwoTurns   == {t1, t2}
=============================================================================
