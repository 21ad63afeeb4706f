------------------------------ MODULE MCFirmware ------------------------------
(* Firmware for TLC. *)
EXTENDS Firmware

MCSize == [i \in Items |-> IF i \in {"checksumW", "checksumR"} THEN 1 ELSE 2]
===============================================================================
