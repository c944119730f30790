------------------------------- MODULE TaskCell -------------------------------
(***************************************************************************)
(* Task::InnerTask (futures/Task.cpp): the cell that hands a task's future *)
(* to the one thread that may poll it.  The future itself is abstracted to *)
(* whether the cell holds it.  Each operation below is one critical        *)
(* section of the cell's mutex.                                            *)
(***************************************************************************)

InnerTask == [future : BOOLEAN, stale : BOOLEAN, inUse : BOOLEAN]

MakeTask == [future |-> TRUE, stale |-> FALSE, inUse |-> FALSE]

(* What consume does: "skip" (it returned false), "take" (true, and the    *)
(* future is now the caller's) or "null" (true, but the caller got none).  *)
Consume(cell) ==
    IF cell.inUse THEN "skip"
    ELSE IF cell.stale THEN "null"
    ELSE IF cell.future THEN "take" ELSE "skip"

(* Mutants: the future is copied out, and the cell only marked as in use;  *)
(* the future is copied out and nothing is marked.                         *)
MutConsumedCopy(cell) == [cell EXCEPT !.inUse = TRUE]

MutConsumedUnmarked(cell) == cell

Consumed(cell) ==
    IF Consume(cell) = "take"
    THEN [future |-> FALSE, stale |-> TRUE, inUse |-> TRUE]
    ELSE cell

(* Mutant: in_use is not reset.                                            *)
MutDeconsumed(cell) == [future |-> TRUE, stale |-> FALSE, inUse |-> TRUE]

Deconsumed(cell) == [future |-> TRUE, stale |-> FALSE, inUse |-> FALSE]
=============================================================================
