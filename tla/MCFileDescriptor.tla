--------------------------- MODULE MCFileDescriptor ---------------------------
(* Instances of FileDescriptor for TLC: tasks that share one descriptor    *)
(* number, so that each reuses what the one before it closed.              *)
EXTENDS FileDescriptor

CONSTANTS t1, t2, t3

ThreeTasks == {t1, t2, t3}
OneFd == {3}
=============================================================================
