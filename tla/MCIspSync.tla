------------------------------ MODULE MCIspSync ------------------------------
(* IspSync for TLC. *)
EXTENDS IspSync
===============================================================================
