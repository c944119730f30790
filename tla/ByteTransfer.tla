------------------------------ MODULE ByteTransfer ------------------------------
(***************************************************************************)
(* What copying a stream promises: the receiver gets the text from its     *)
(* beginning, in order, nothing twice and nothing left out, and the copy   *)
(* is complete only when all of it was sent.  It may fail at any point.    *)
(***************************************************************************)
EXTENDS Integers, Sequences

VARIABLES
    text,           \* the text to be sent, which does not change
    sent,           \* what was sent of it
    status          \* "open", "complete" or "failed"

Init ==
    /\ sent = <<>>
    /\ status = "open"

Send ==
    /\ status = "open"
    /\ \E n \in Len(sent) .. Len(text) : sent' = SubSeq(text, 1, n)
    /\ status' \in {"open"} \cup IF Len(sent') = Len(text) THEN {"complete"} ELSE {}
    /\ UNCHANGED text

Fail ==
    /\ status = "open"
    /\ status' = "failed"
    /\ UNCHANGED <<text, sent>>

Next == Send \/ Fail

Spec == Init /\ [][Next]_<<text, sent, status>>
=============================================================================
