------------------------ MODULE TurnQueueRefinement ------------------------
(***************************************************************************)
(* TurnQueue implements Mailbox: the message served is the current one of  *)
(* a worker until its fate is settled, and those that wait are the queue   *)
(* of the state the worker runs on, or of the entry when none runs.        *)
(***************************************************************************)
EXTENDS TurnQueue

Serving == {m \in Msgs : fate[m] \in OpenFates /\ \E w \in Msgs : wmsg[w] = m}

Running == {w \in Msgs : wref[w] # NoState}

Waiting ==
    IF Running # {} THEN queue[wref[CHOOSE w \in Running : TRUE]]
    ELSE IF cur # NoState THEN queue[cur] ELSE <<>>

Abstract == INSTANCE Mailbox WITH serving <- Serving, waiting <- Waiting

(* Users see a mailbox: whatever the interleaving of handlers, workers,    *)
(* /stop and dying agents, the conversation serves one message at a time,  *)
(* none twice, those in the queue in their order, and every message that   *)
(* leaves the queue unserved is settled, or forgotten with its state.      *)
ServesAsMailbox == Abstract!Spec
=============================================================================
