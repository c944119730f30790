------------------------- MODULE MCThreadlessExecutor -------------------------
(* Instances of ThreadlessExecutor for TLC: a root task and two tasks that *)
(* polls spawn, each with a descriptor and a timeout to wait for.          *)
EXTENDS ThreadlessExecutor

CONSTANTS r1, c1, c2, read, timeout

OneRoot == {r1}
ThreeTasks == {r1, c1, c2}
TwoSources == {read, timeout}
=============================================================================
