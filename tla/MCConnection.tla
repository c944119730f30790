----------------------------- MODULE MCConnection -----------------------------
(* Instances of Connection for TLC.                                        *)
EXTENDS Connection

CONSTANT c1

OneConn == {c1}
=============================================================================
