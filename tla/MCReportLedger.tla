---------------------------- MODULE MCReportLedger ----------------------------
(* ReportLedger for TLC. *)
EXTENDS ReportLedger
===============================================================================
