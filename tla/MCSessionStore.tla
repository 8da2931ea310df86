--------------------------- MODULE MCSessionStore ---------------------------
(***************************************************************************)
(* Two users of one chat and one of another, two types of agent.  The file *)
(* holds a session with history for each of the two users of a chat.       *)
(***************************************************************************)
EXTENDS SessionStore, TLC

CONSTANTS k1, k2, k3, a1, a2

MCChat     == k1 :> "c1" @@ k2 :> "c1" @@ k3 :> "c2"
MCKindOf   == a1 :> "claude" @@ a2 :> "codex"
MCSymmetry == Permutations(Savers)

Talked == [agent |-> a1, past |-> {}, hist |-> TRUE]
MCFiles ==
    {[sess    |-> [i \in Ids |-> IF i <= 2 THEN Talked ELSE Null],
      active  |-> k1 :> 1 @@ k2 :> 2 @@ k3 :> 0,
      lists   |-> [k \in Keys |-> [i \in Ids |->
                      IF <<k, i>> \in {<<k1, 1>>, <<k2, 2>>} THEN 1 ELSE 0]],
      counter |-> 2]}
=============================================================================
