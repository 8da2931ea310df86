----------------------------- MODULE MCTurnQueue -----------------------------
(* Three messages of one conversation, two of them with a create time, as  *)
(* Feishu gives one, or none with a create time, as elsewhere.             *)
EXTENDS TurnQueueRefinement, TLC

CONSTANTS m1, m2, m3, s1, s2, s3, s4

ThreeMsgs   == {m1, m2, m3}
FourStates  == {s1, s2, s3, s4}
TwoTimed    == m1 :> 1 @@ m2 :> 2 @@ m3 :> 0
Untimed     == m1 :> 0 @@ m2 :> 0 @@ m3 :> 0
=============================================================================
