--------------------------- MODULE MCNetworkSession ---------------------------
(* NetworkSession for TLC. *)
EXTENDS NetworkSession
===============================================================================
