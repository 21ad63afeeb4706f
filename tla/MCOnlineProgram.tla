---------------------------- MODULE MCOnlineProgram ----------------------------
(* StartLedger for TLC. *)
EXTENDS StartLedger
===============================================================================
