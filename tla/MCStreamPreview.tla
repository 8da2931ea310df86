---------------------------- MODULE MCStreamPreview ----------------------------
(* Every kind of platform, and three timers.                               *)
EXTENDS StreamPreview

CONSTANTS t1, t2, t3

ThreeTimers  == {t1, t2, t3}
AllPlatforms == {"keep", "clean", "plain"}
=============================================================================
