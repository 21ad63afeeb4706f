----------------------------- MODULE MCTcpSocket -----------------------------
(* TcpSocket for TLC. *)
EXTENDS TcpSocket
===============================================================================
