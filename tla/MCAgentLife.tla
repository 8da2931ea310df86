---------------------------- MODULE MCAgentLife ----------------------------
(* Two messages of one conversation, a command and the reaper as model     *)
(* values.                                                                 *)
EXTENDS AgentLife

CONSTANTS m1, m2

TwoMsgs == {m1, m2}

(* The two messages are interchangeable, in the steps and the properties:  *)
(* what happens when m2 locks first, or alone, happens with the names      *)
(* exchanged.                                                              *)
FirstComesFirst == pc[m1] = "new" => pc[m2] = "new"
=============================================================================
