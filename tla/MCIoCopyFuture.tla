----------------------------- MODULE MCIoCopyFuture -----------------------------
(* Instances of IoCopyFuture for TLC.                                      *)
EXTENDS IoCopyFuture

Reason == <<Symbol("reason", 0)>>
Line == <<Symbol("request", 1), Symbol("request", 2)>>
Long == <<Symbol("value", 1), Symbol("value", 2)>>
Short == <<Symbol("value", 0)>>

Make(type, line, headers, body, size) ==
    [type : {type}, line : {line}, headers : headers, body : body, size : size]

(* With and without headers, each kind of body, empty bodies too.          *)
AllMessages ==
    Make("response", Reason, {<<>>, <<Long>>, <<Short, Long>>}, {"length", "chunked"}, 0 .. 5)
    \cup Make("response", Reason, {<<>>, <<Long, Short>>}, {"none"}, {0})
    \cup Make("request", Line, {<<>>, <<Long>>}, {"length", "chunked"}, {0, 4})
    \cup Make("request", Line, {<<>>, <<Long>>}, {"none"}, {0})
=============================================================================
