--------------------------- MODULE MCPooledExecutor ---------------------------
(* Instances of PooledExecutor for TLC.                                    *)
EXTENDS PooledExecutor

CONSTANTS r1, c1, c2, read, timeout

(* A root task, as a Server is, and the tasks its polls spawn, as a Server *)
(* spawns a ConnectionFuture per client.                                   *)
OneRoot == {r1}
TwoTasks == {r1, c1}
ThreeTasks == {r1, c1, c2}

(* One descriptor, or a descriptor and a timeout.                          *)
OneSource == {read}
TwoSources == {read, timeout}
=============================================================================
