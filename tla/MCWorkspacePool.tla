---------------------------- MODULE MCWorkspacePool ----------------------------
(* Two turns of one conversation, with their readers, and two objects: the *)
(* one the pool has dropped and the one that replaces it.                  *)
EXTENDS WorkspacePool, TLC

CONSTANTS t1, t2, c1, w1, w2

TwoTurns     == {t1, t2}
OneConv      == [t \in TwoTurns |-> c1]
TwoObjects   == {w1, w2}
PoolSymmetry == Permutations(TwoObjects)
=============================================================================
