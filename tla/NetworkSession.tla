---------------------------- MODULE NetworkSession ----------------------------
(***************************************************************************)
(* The network code on its own, in UID mode, under the most general        *)
(* application: what updateDeviceStatus and the SW2 interrupt may do to    *)
(* the flags they share with it.  OnlineProgram.tla puts the real ones in  *)
(* their place; here the question is what the protocol with the server     *)
(* keeps and what it eventually achieves.                                  *)
(***************************************************************************)
EXTENDS Network

VARIABLE phase      \* devStatus, as far as the network code can tell:
                    \* "idle" (CONNECTED), "job" (PROGRAMING), "result"

Phases == {"idle", "job", "result"}

sessionVars == <<vars, phase>>

Init ==
  /\ mainPc = "net"
  /\ deviceMode = "UID"
  /\ eventFlags = {}
  /\ phase = "idle"
  /\ NetworkInit

(***************************************************************************)
(* The application.  SW2 asks for a UID at any moment no job is running;   *)
(* between two turns of the network code, and only when authorised,        *)
(* updateDeviceStatus starts the job a UID is available for, finishes it   *)
(* and has it reported, or leaves the result once it is acknowledged.      *)
(***************************************************************************)
PressSw2 ==
  /\ phase = "idle"
  /\ networkEvent' = networkEvent \cup {"uidReqFlag"}
  /\ UNCHANGED <<mainPc, msgSendId, msgRecvId, sinceSend, uid, conn, wire, srvAuth,
                 issued, eventFlags, deviceMode, tickVars, phase>>

StartJob ==
  /\ phase = "idle" /\ "UIDavailableFlag" \in eventFlags
  /\ phase' = "job"
  /\ eventFlags' = eventFlags \ {"UIDavailableFlag"}
  /\ UNCHANGED networkEvent

FinishJob ==
  /\ phase = "job"
  /\ phase' = "result"
  /\ networkEvent' = networkEvent \cup {"notifyResultFlag"}
  /\ \E f \in {{}, {"UIDProgramSuccessFlag"}} :
        eventFlags' = (eventFlags \ {"UIDProgramSuccessFlag"}) \cup f

(* Mutant: the acknowledgement is not used up.                             *)
LeaveResultAcked ==
  /\ phase = "result" /\ "notifyDoneFlag" \in eventFlags
  /\ phase' = "idle"
  /\ UNCHANGED <<eventFlags, networkEvent>>

LeaveResult ==
  /\ phase = "result" /\ "notifyDoneFlag" \in eventFlags
  /\ phase' = "idle"
  /\ eventFlags' = eventFlags \ {"notifyDoneFlag"}
  /\ UNCHANGED networkEvent

Wait == UNCHANGED <<networkEvent, eventFlags, phase>>

UpdateDeviceStatus ==
  /\ mainPc = "gate"
  /\ mainPc' = "net"
  /\ \/ Wait
     \/ "authorizePassFlag" \in networkEvent /\ (StartJob \/ FinishJob \/ LeaveResult)
  /\ UNCHANGED <<msgSendId, msgRecvId, sinceSend, uid, conn, wire, srvAuth, issued,
                 deviceMode, tickVars>>

Blocking == NetworkPcs \cup {"gate"}

Next ==
  \/ /\ NetworkStep \/ SwallowHeartbeat \/ Link \/ SysTickThread(Blocking)
     /\ UNCHANGED phase
  \/ PressSw2
  \/ UpdateDeviceStatus

Spec == Init /\ [][Next]_sessionVars

(***************************************************************************)
(* Fairness.  The main loop never stops; the timer thread gets the         *)
(* processor each time the main thread sleeps; the server eventually       *)
(* accepts a connection that is dialled for ever and eventually agrees to  *)
(* a request that is repeated for ever, and swallows heartbeats.           *)
(***************************************************************************)
Agrees(m) ==
  \E k \in 1..MaxInFlight, granted \in BOOLEAN, r \in Reply :
     /\ \E i \in 1..Len(wire) : FirstAnswered(i) /\ wire[i] = m
     /\ r.code = "SUCCESS"
     /\ ReceiveReply(k, granted, r)

Fairness ==
  /\ WF_sessionVars((NetworkStep /\ UNCHANGED phase) \/ UpdateDeviceStatus)
  /\ SF_sessionVars(SysTickThread(Blocking) /\ UNCHANGED phase)
  /\ SF_sessionVars(ConnectSucceeds /\ UNCHANGED phase)
  /\ \A m \in MsgIds : SF_sessionVars(Agrees(m) /\ UNCHANGED phase)
  /\ WF_sessionVars(SwallowHeartbeat /\ UNCHANGED phase)

FairSpec == Spec /\ Fairness

-------------------------------------------------------------------------------
TypeOK == NetworkTypeOK /\ phase \in Phases /\ mainPc \in NetworkPcs \cup {"gate"}

(* UIDavailableFlag, which starts a burn without another button press,     *)
(* stands for an identifier the server really issued.                      *)
AvailableUidIsIssued == "UIDavailableFlag" \in eventFlags => uid \in issued

(* The link stops changing at some point.                                  *)
StableLink == <>[][~Link]_sessionVars

(* With a stable link the device is authorised again and again, whatever   *)
(* it had pending when the connection was lost.                            *)
AuthorizedAgain == StableLink => []<>("authorizePassFlag" \in networkEvent)

(* With a stable link every result the application reports is acknowledged *)
(* by the server: the request is resent until its reply comes.             *)
ResultDelivered ==
  StableLink => ("notifyResultFlag" \in networkEvent ~> "notifyDoneFlag" \in eventFlags)
===============================================================================
