----------------------------- MODULE StartLedger -----------------------------
(***************************************************************************)
(* OnlineProgram with a memory of the one press of SW2 that a mode switch  *)
(* does not discard: resetEventFlags clears startProgramFlag one store     *)
(* before modeSwitchFlag.  Pressed between the two, SW2 (in code mode,     *)
(* with the old status) starts a job, and SW3 after it changes the mode    *)
(* without leaving a switch pending.  The variable only observes.          *)
(***************************************************************************)
EXTENDS OnlineProgram

VARIABLE stray    \* such a start is flagged, or the job it has started runs

startVars == <<allVars, stray>>

StartInit == Init /\ stray = FALSE

Starts == "startProgramFlag" \notin eventFlags /\ "startProgramFlag" \in eventFlags'

Observe ==
  stray' = \/ mainPc = "reset" /\ Starts
           \/ stray /\ ("startProgramFlag" \in eventFlags' \/ devStatus' = "PROGRAMING")

StartSpec == StartInit /\ [][Next /\ Observe]_startVars

-------------------------------------------------------------------------------
(* startProgramFlag belongs to code mode: only a pending switch, which     *)
(* clears it, lets it be seen in UID mode, or the stray press.             *)
NoStartInUidMode ==
  "startProgramFlag" \in eventFlags /\ deviceMode = "UID"
    => "modeSwitchFlag" \in eventFlags \/ stray

(* programUID runs in an authorised session, unless SW3 was pressed since  *)
(* the job was started, and with an identifier the server has issued,      *)
(* unless the stray press of SW2 started it: that one finds the uid of an  *)
(* earlier request, or none.                                               *)
BurnHasUid ==
  mainPc = "progUID" /\ ~SwitchPending
    => "authorizePassFlag" \in networkEvent /\ (uid \in issued \/ stray)
===============================================================================
