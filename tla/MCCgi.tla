--------------------------------- MODULE MCCgi ---------------------------------
(* Instances of Cgi for TLC.                                               *)
EXTENDS Cgi

CONSTANTS c1, c2, p1, p2

OneConn == {c1}
TwoConns == {c1, c2}

OnePid == {p1}
TwoPids == {p1, p2}

(* Only the first connection has a body, and a script that writes.         *)
OneFirst == [c \in Conn |-> IF c = c1 THEN 1 ELSE 0]
=============================================================================
