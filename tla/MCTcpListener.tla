---------------------------- MODULE MCTcpListener ----------------------------
(* Instances of TcpListener for TLC: one listening socket.                 *)
EXTENDS TcpListener

ListenFd == 3
OneFd == {ListenFd}
=============================================================================
