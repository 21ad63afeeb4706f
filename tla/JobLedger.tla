------------------------------ MODULE JobLedger ------------------------------
(***************************************************************************)
(* OnlineProgram with a memory of what was asked for and what was done, so *)
(* that a burn can be compared with the request behind it and a report     *)
(* with the burn it is about.  The two variables only observe.             *)
(***************************************************************************)
EXTENDS OnlineProgram

VARIABLES job,      \* what put devStatus into PROGRAMING: "none", "code" or "uid"
          burn      \* the last run of programUID: its uid and whether it succeeded

ledgerVars == <<allVars, job, burn>>

Burns == [uid : UIDs \cup {NoUid}, ok : BOOLEAN]

LedgerInit == Init /\ job = "none" /\ burn = [uid |-> NoUid, ok |-> FALSE]

(* A job starts in the CONNECTED case, for the UID that has become         *)
(* available or else for the SW2 press of code mode.                       *)
JobStarts == devStatus # "PROGRAMING" /\ devStatus' = "PROGRAMING"

ForUid == "UIDavailableFlag" \in eventFlags /\ "UIDavailableFlag" \notin eventFlags'

Observe ==
  /\ job' = CASE JobStarts /\ ForUid  -> "uid"
              [] JobStarts /\ ~ForUid -> "code"
              [] OTHER                -> job
  /\ burn' = IF mainPc = "progUID" /\ mainPc' # "progUID"
               THEN [uid |-> uid, ok |-> devStatus' = "PROGRAM_SUCCESS"]
               ELSE burn

LedgerSpec == LedgerInit /\ [][Next /\ Observe]_ledgerVars

-------------------------------------------------------------------------------
(* A job runs in the mode it was asked for in: programBinFileV1, which     *)
(* begins by erasing the board, runs only for a press of SW2 in code mode, *)
(* programUID only for an identifier that was requested.  The mode is read again when the job is  *)
(* run, so a press of SW3 between the two breaks it.                       *)
JobRunsInItsMode ==
  /\ mainPc = "progCode" => job = "code"
  /\ mainPc = "progUID"  => job = "uid"

Sends(m) == Len(wire') = Len(wire) + 1 /\ wire'[Len(wire')] = m

(* A result report names the identifier that was burned and the outcome of *)
(* that burn: sendMsgHandle formats it from uid and UIDProgramSuccessFlag  *)
(* when it is sent, not when the burn ends.                                *)
ReportTellsTheBurn ==
  [][Sends("NOTIFY") =>
       burn = [uid |-> uid, ok |-> "UIDProgramSuccessFlag" \in eventFlags]]_ledgerVars
===============================================================================
