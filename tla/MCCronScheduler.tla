---------------------------- MODULE MCCronScheduler ----------------------------
(* One job, which may change its id once, two requests at a time beside    *)
(* the start-up, one run.                                                  *)
EXTENDS CronScheduler, TLC

CONSTANTS j1, j2, x1, x2, bad, c1, c2, e1, e2, r1

TwoIds      == {j1, j2}
ThreeExprs  == {x1, x2, bad}
TwoValid    == {x1, x2}
TwoRequests == {c1, c2}
TwoEntries  == {e1, e2}
OneRun      == {r1}

(* bounds: j2 is only what j1 is renamed to; a job is added with x1 and     *)
(* updated to x2, or by reflection to any; one request at a time while a    *)
(* save has failed, after an update by reflection and after a change of id; *)
(* after that no update by reflection, and no run beside a request.         *)
Bounds ==
    /\ \A c \in Requesters :
        /\ request[c].op = "add" => request[c].job = j1 /\ request[c].expr = x1
        /\ request[c].op = "setExpr" => request[c].expr = x2
    /\ unsaved \/ raw # {} \/ j2 \in used => \E c \in Requesters : ~Busy(c)
    /\ j2 \in used => raw = {} /\ (rpc[r1] = "idle" \/ \A c \in Requesters : ~Busy(c))

Symmetric == Permutations(TwoRequests) \cup Permutations(TwoEntries)
=============================================================================
