------------------------------ MODULE Mailbox ------------------------------
(***************************************************************************)
(* What the engine promises the users of one conversation, without locks,  *)
(* states or processes: one message is served at a time, each at most      *)
(* once, those that wait in the order in which they came, and what became  *)
(* of a message is settled once.  TurnQueue implements it.                 *)
(***************************************************************************)
EXTENDS Naturals, Sequences, SequencesExt

CONSTANT Msgs

VARIABLES
    fate,       \* message -> what became of it, as in TurnQueue
    serving,    \* the message being served
    waiting     \* the messages that wait, in order

vars == <<fate, serving, waiting>>

Final == {"answered", "told", "silent", "superseded"}

Init ==
    /\ fate = [m \in Msgs |-> "none"]
    /\ serving = {}
    /\ waiting = <<>>

Unseen(m) == fate[m] = "none" /\ m \notin serving

(* A message is turned away: the user is told, or it is stale. *)
Refuse(m) ==
    /\ Unseen(m)
    /\ \E v \in {"told", "silent"} : fate' = [fate EXCEPT ![m] = v]
    /\ UNCHANGED <<serving, waiting>>

(* A message is served at once, which may overtake some that wait. *)
Serve(m) ==
    /\ Unseen(m) /\ serving = {}
    /\ serving' = {m}
    /\ UNCHANGED <<fate, waiting>>

(* A message is told that it waits, and does so or is forgotten. *)
Wait(m) ==
    /\ Unseen(m)
    /\ fate' = [fate EXCEPT ![m] = "queued"]
    /\ waiting' \in {waiting, Append(waiting, m)}
    /\ UNCHANGED serving

Skipped(k) == {waiting[i] : i \in 1 .. k}

(* The next message that is not stale is served; the stale ones before it  *)
(* are superseded.                                                         *)
Take ==
    /\ serving = {}
    /\ \E k \in 1 .. Len(waiting) :
        /\ serving' = {waiting[k]}
        /\ waiting' = SubSeq(waiting, k + 1, Len(waiting))
        /\ fate' = [m \in Msgs |-> IF m \in Skipped(k - 1) THEN "superseded" ELSE fate[m]]

(* All that wait are dropped: stale ones, then others, which are told. *)
Dropped(f, k) ==
    [m \in Msgs |-> IF m \in Skipped(k) THEN "superseded"
                    ELSE IF m \in ToSet(waiting) THEN "told" ELSE f[m]]

Drop ==
    /\ \E k \in 0 .. Len(waiting) : fate' = Dropped(fate, k)
    /\ waiting' = <<>>
    /\ UNCHANGED serving

(* The message that is served is answered, failed or stopped; with its     *)
(* agent gone, those that wait are told as well.                           *)
End ==
    \E m \in serving, v \in Final \ {"superseded"} :
        LET ended == [fate EXCEPT ![m] = v] IN
        /\ serving' = {}
        /\ \/ fate' = ended /\ UNCHANGED waiting
           \/ fate' = Dropped(ended, 0) /\ waiting' = <<>>

(* The messages that wait are forgotten with the state they wait in ...    *)
Forget ==
    /\ waiting' = <<>>
    /\ UNCHANGED <<fate, serving>>

(* ... and may be told later. *)
Forgotten == {m \in Msgs : fate[m] = "queued"} \ (serving \cup ToSet(waiting))

TellForgotten ==
    /\ \E ms \in SUBSET Forgotten :
        fate' = [m \in Msgs |-> IF m \in ms THEN "told" ELSE fate[m]]
    /\ UNCHANGED <<serving, waiting>>

Next ==
    \/ \E m \in Msgs : Refuse(m) \/ Serve(m) \/ Wait(m)
    \/ Take \/ Drop \/ End \/ Forget \/ TellForgotten

Spec == Init /\ [][Next]_vars
=============================================================================
