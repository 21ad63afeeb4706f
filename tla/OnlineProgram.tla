---------------------------- MODULE OnlineProgram ----------------------------
(***************************************************************************)
(* The application loop: mainThread and updateDeviceStatus of              *)
(* OnlineProgram.cpp over the network code, with the button interrupts,    *)
(* the timer thread and the link.  The operator may plug and unplug target *)
(* boards at any moment, so that every handshake and every burn finds one  *)
(* or does not.                                                            *)
(*                                                                         *)
(* An interrupt can come at every label of the main thread.  Two accesses  *)
(* of the code to state an interrupt can change stand at two labels,       *)
(* unless the interrupt commutes with the code between them.  A press the  *)
(* handlers ignore (bounce, no matching status) is a stuttering step.      *)
(***************************************************************************)
EXTENDS Network

VARIABLE devStatus

allVars == <<vars, devStatus>>

DevStatus == {"BIN_NOT_FOUND", "DISCONNECTED", "CONNECTED", "PROGRAMING",
              "PROGRAM_SUCCESS", "PROGRAM_FAIL"}

Results == {"PROGRAM_SUCCESS", "PROGRAM_FAIL"}

(* Turn of the loop: "switch" (and the 200 ms sleep before it), "reset",   *)
(* "enter", "enterUID" or "enterCode" when a switch is handled, "detect",  *)
(* the network labels, "gate", and inside updateDeviceStatus "update",     *)
(* "settle", "progCode" and "progUID".                                     *)
SwitchPcs == {"reset", "enter", "enterUID", "enterCode"}
UpdatePcs == {"update", "settle", "progCode", "progUID"}
MainPcs   == {"switch", "detect", "gate"} \cup SwitchPcs \cup NetworkPcs \cup UpdatePcs

(* Where the main thread sleeps or waits for the TCP/IP thread.            *)
Blocking == NetworkPcs \cup {"switch", "enter"}

(***************************************************************************)
(* The state main() leaves to the threads it starts (Firmware.tla shows    *)
(* that it is one of these): SW3 may have been pressed during the start-up.*)
(***************************************************************************)
Init ==
  /\ mainPc = "switch"
  /\ NetworkInit
  /\ \/ deviceMode = "UID" /\ eventFlags = {} /\ devStatus = "DISCONNECTED"
     \/ /\ deviceMode \in Modes /\ eventFlags = {"modeSwitchFlag"}
        /\ devStatus \in {"DISCONNECTED", "BIN_NOT_FOUND"}

-------------------------------------------------------------------------------
(***************************************************************************)
(* mainThread: a mode switch resets every event flag, then starts a fresh  *)
(* network session or closes the socket, then sets the device status.      *)
(***************************************************************************)
NoSwitch ==
  /\ mainPc = "switch" /\ "modeSwitchFlag" \notin eventFlags
  /\ mainPc' = "detect"
  /\ UNCHANGED <<eventFlags, netVars, deviceMode, tickVars, devStatus>>

(***************************************************************************)
(* resetEventFlags.  Of its eight stores only those to the three flags of  *)
(* the interrupts can be seen from outside.  A press can come before the   *)
(* store that clears modeSwitchFlag, and that store is the last of them.   *)
(***************************************************************************)
(* Mutant: resetEventFlags forgets startProgramFlag.                       *)
KeptByResetButStart == eventFlags \cap {"modeSwitchFlag", "startProgramFlag"}

KeptByReset == eventFlags \cap {"modeSwitchFlag"}

ResetEventFlags ==
  /\ \/ /\ mainPc = "switch" /\ "modeSwitchFlag" \in eventFlags
        /\ eventFlags' = KeptByReset
        /\ mainPc' = "reset"
     \/ /\ mainPc = "reset"
        /\ eventFlags' = eventFlags \ {"modeSwitchFlag"}
        /\ mainPc' = "enter"
  /\ UNCHANGED <<netVars, deviceMode, tickVars, devStatus>>

EnterUidMode ==
  /\ mainPc = "enter" /\ deviceMode = "UID"
  /\ InitNetworkEvent
  /\ mainPc' = "enterUID"
  /\ UNCHANGED <<msgSendId, msgRecvId, sinceSend, uid, conn, wire, srvAuth, issued,
                 eventFlags, deviceMode, tickVars, devStatus>>

EnterCodeMode ==
  /\ mainPc = "enter" /\ deviceMode = "CODE"
  /\ CloseSocket
  /\ mainPc' = "enterCode"
  /\ UNCHANGED <<networkEvent, msgSendId, msgRecvId, sinceSend, uid, srvAuth, issued,
                 eventFlags, deviceMode, tickVars, devStatus>>

EnterStatus ==
  /\ \/ mainPc = "enterUID"  /\ devStatus' = "DISCONNECTED"
     \/ mainPc = "enterCode" /\ devStatus' = "BIN_NOT_FOUND"
  /\ mainPc' = "detect"
  /\ UNCHANGED <<eventFlags, netVars, deviceMode, tickVars>>

ModeSwitch == ResetEventFlags \/ EnterUidMode \/ EnterCodeMode \/ EnterStatus

(* Both detections of one turn.  The card may hold a .bin file or not, and *)
(* the baud-rate handshake finds a board or does not.                      *)
Detect ==
  /\ mainPc = "detect"
  /\ \E board \in BOOLEAN, bin \in BOOLEAN :
        /\ deviceMode = "UID" => bin = ("binFileExsitFlag" \in eventFlags)
        /\ eventFlags' = (eventFlags \ {"boardConnectedFlag", "binFileExsitFlag"})
              \cup (IF board THEN {"boardConnectedFlag"} ELSE {})
              \cup (IF bin THEN {"binFileExsitFlag"} ELSE {})
  /\ mainPc' = "net"
  /\ UNCHANGED <<netVars, deviceMode, tickVars, devStatus>>

(* updateDeviceStatus runs in code mode, or when the server has authorised *)
(* the device.  The mode is read twice: SW3 between the two can hide both  *)
(* modes from the test.                                                    *)
Gate ==
  /\ mainPc = "gate"
  /\ \/ /\ deviceMode = "CODE" \/ "authorizePassFlag" \in networkEvent
        /\ mainPc' = "update"
     \/ /\ deviceMode = "UID"
        /\ "authorizePassFlag" \notin networkEvent \/ "modeSwitchFlag" \in eventFlags
        /\ mainPc' = "switch"
  /\ UNCHANGED <<eventFlags, netVars, deviceMode, tickVars, devStatus>>

-------------------------------------------------------------------------------
(***************************************************************************)
(* updateDeviceStatus, one action per case of its switch.                  *)
(***************************************************************************)
BinNotFound ==
  /\ mainPc = "update" /\ devStatus = "BIN_NOT_FOUND"
  /\ devStatus' = IF "binFileExsitFlag" \in eventFlags THEN "DISCONNECTED"
                                                       ELSE devStatus
  /\ mainPc' = "switch"
  /\ UNCHANGED <<eventFlags, netVars, deviceMode, tickVars>>

(* The later tests of the case win over the earlier ones: a missing file   *)
(* in code mode, an available UID in UID mode, even with the board gone.   *)
Connected ==
  /\ mainPc = "update" /\ devStatus = "CONNECTED"
  /\ devStatus' =
       CASE deviceMode = "CODE" /\ "binFileExsitFlag" \notin eventFlags -> "BIN_NOT_FOUND"
         [] deviceMode = "UID" /\ "UIDavailableFlag" \in eventFlags     -> "PROGRAMING"
         [] OTHER -> IF "boardConnectedFlag" \notin eventFlags THEN "DISCONNECTED"
                     ELSE IF "startProgramFlag" \in eventFlags THEN "PROGRAMING"
                     ELSE "CONNECTED"
  /\ eventFlags' = eventFlags \ ({"startProgramFlag"} \cup
                      (IF deviceMode = "UID" THEN {"UIDavailableFlag"} ELSE {}))
  /\ mainPc' = "switch"
  /\ UNCHANGED <<netVars, deviceMode, tickVars>>

(* CONNECTED is assigned before the bin file is looked at, and stays in    *)
(* sight of the SW2 interrupt until then.                                  *)
Disconnected ==
  /\ mainPc = "update" /\ devStatus = "DISCONNECTED"
  /\ devStatus' = IF "boardConnectedFlag" \in eventFlags THEN "CONNECTED" ELSE devStatus
  /\ mainPc' = "settle"
  /\ UNCHANGED <<eventFlags, netVars, deviceMode, tickVars>>

(* Mutant: the bin file is missed in UID mode, too.                        *)
BinMissedInAnyMode == "binFileExsitFlag" \notin eventFlags

BinMissed == "binFileExsitFlag" \notin eventFlags /\ deviceMode = "CODE"

Settle ==
  /\ mainPc = "settle"
  /\ devStatus' = IF BinMissed
                    THEN "BIN_NOT_FOUND" ELSE devStatus
  /\ mainPc' = "switch"
  /\ UNCHANGED <<eventFlags, netVars, deviceMode, tickVars>>

StartPrograming ==
  /\ mainPc = "update" /\ devStatus = "PROGRAMING"
  /\ mainPc' = IF deviceMode = "CODE" THEN "progCode" ELSE "progUID"
  /\ UNCHANGED <<eventFlags, netVars, deviceMode, tickVars, devStatus>>

(***************************************************************************)
(* programBinFileV1 and programUID as the rest of the loop sees them: they *)
(* succeed or fail, as when the board is gone; programUID refuses an empty *)
(* uid.  IspBurn.tla has what they do to the board.                        *)
(***************************************************************************)
ProgramBinFile ==
  /\ mainPc = "progCode"
  /\ devStatus' \in Results
  /\ mainPc' = "switch"
  /\ UNCHANGED <<eventFlags, netVars, deviceMode, tickVars>>

(* Mutant: only a successful burn is reported.                             *)
ReportSuccessOnly ==
  networkEvent' = networkEvent \cup
     (IF devStatus' = "PROGRAM_SUCCESS" THEN {"notifyResultFlag"} ELSE {})

Report == networkEvent' = networkEvent \cup {"notifyResultFlag"}

ProgramUID ==
  /\ mainPc = "progUID"
  /\ \/ /\ uid # NoUid
        /\ devStatus' = "PROGRAM_SUCCESS"
        /\ eventFlags' = eventFlags \cup {"UIDProgramSuccessFlag"}
     \/ /\ devStatus' = "PROGRAM_FAIL"
        /\ eventFlags' = eventFlags \ {"UIDProgramSuccessFlag"}
  /\ Report
  /\ mainPc' = "switch"
  /\ UNCHANGED <<msgSendId, msgRecvId, sinceSend, uid, conn, wire, srvAuth, issued,
                 deviceMode, tickVars>>

(* A result is left by SW2 and, in UID mode, once the server has           *)
(* acknowledged the report.                                                *)
Result ==
  /\ mainPc = "update" /\ devStatus \in Results
  /\ LET confirmed == /\ "resetDevStatusFlag" \in eventFlags
                      /\ deviceMode = "CODE" \/ "notifyDoneFlag" \in eventFlags
     IN IF confirmed
          THEN /\ devStatus' = "CONNECTED"
               /\ eventFlags' = eventFlags \ ({"resetDevStatusFlag"} \cup
                     (IF deviceMode = "UID" THEN {"notifyDoneFlag"} ELSE {}))
          ELSE UNCHANGED <<devStatus, eventFlags>>
  /\ mainPc' = "switch"
  /\ UNCHANGED <<netVars, deviceMode, tickVars>>

UpdateDeviceStatus ==
  \/ BinNotFound \/ Connected \/ Disconnected \/ Settle
  \/ StartPrograming \/ ProgramBinFile \/ ProgramUID \/ Result

MainThread ==
  \/ NoSwitch \/ ModeSwitch \/ Detect
  \/ NetworkStep /\ UNCHANGED devStatus
  \/ Gate \/ UpdateDeviceStatus

-------------------------------------------------------------------------------
(***************************************************************************)
(* The button interrupts.                                                  *)
(***************************************************************************)
Sw2Release ==
  /\ \/ /\ devStatus = "CONNECTED" /\ deviceMode = "CODE"
        /\ eventFlags' = eventFlags \cup {"startProgramFlag"}
        /\ UNCHANGED networkEvent
     \/ /\ devStatus = "CONNECTED" /\ deviceMode = "UID"
        /\ networkEvent' = networkEvent \cup {"uidReqFlag"}
        /\ UNCHANGED eventFlags
     \/ /\ devStatus \in Results
        /\ eventFlags' = eventFlags \cup {"resetDevStatusFlag"}
        /\ UNCHANGED networkEvent
  /\ UNCHANGED <<mainPc, msgSendId, msgRecvId, sinceSend, uid, conn, wire, srvAuth,
                 issued, deviceMode, tickVars, devStatus>>

Sw3Release ==
  /\ eventFlags' = eventFlags \cup {"modeSwitchFlag"}
  /\ deviceMode' = IF deviceMode = "CODE" THEN "UID" ELSE "CODE"
  /\ UNCHANGED <<mainPc, netVars, tickVars, devStatus>>

Environment ==
  \/ Sw2Release \/ Sw3Release
  \/ (SwallowHeartbeat \/ Link) /\ UNCHANGED devStatus

Next == MainThread \/ (SysTickThread(Blocking) /\ UNCHANGED devStatus) \/ Environment

Spec == Init /\ [][Next]_allVars

-------------------------------------------------------------------------------
TypeOK ==
  /\ NetworkTypeOK
  /\ mainPc \in MainPcs
  /\ devStatus \in DevStatus

(* SW3 was pressed and the main thread has not yet acted on the press.     *)
SwitchPending == "modeSwitchFlag" \in eventFlags \/ mainPc = "enter"

(* Once a switch to code mode has been handled the firmware holds no       *)
(* connection: whatever the press interrupted (a dial that succeeds after  *)
(* it, a request in flight), the switch closes the socket.                 *)
SocketClosedInCodeMode ==
  deviceMode = "CODE" /\ ~SwitchPending => conn = "closed"

(* The gate of updateDeviceStatus in UID mode stands on a live session:    *)
(* authorizePassFlag survives code mode, where the socket is closed, but   *)
(* is gone before the firmware is back in UID mode with no switch pending. *)
SessionBehindGate ==
  /\ deviceMode = "UID" /\ ~SwitchPending
  /\ "authorizePassFlag" \in networkEvent
  => conn # "closed" /\ srvAuth

(* In UID mode a result is left only with the acknowledgement of its       *)
(* report, so while it is shown the report must be flagged, pending or     *)
(* acknowledged: otherwise SW2 could never leave it.                       *)
ResultHasReport ==
  devStatus \in Results /\ deviceMode = "UID" /\ ~SwitchPending /\ mainPc # "enterUID"
    => \/ "notifyResultFlag" \in networkEvent
       \/ msgSendId = "NOTIFY"
       \/ "notifyDoneFlag" \in eventFlags

(* BIN_NOT_FOUND is a status of code mode: in UID mode no turn looks for   *)
(* the bin file, so the device would wait for it until it is reset.        *)
NoBinWaitInUidMode ==
  deviceMode = "UID" /\ ~SwitchPending /\ mainPc # "enterUID"
    => devStatus # "BIN_NOT_FOUND"
===============================================================================
