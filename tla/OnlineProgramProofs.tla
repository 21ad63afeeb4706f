-------------------------- MODULE OnlineProgramProofs --------------------------
(***************************************************************************)
(* The application loop under any server, any boards and any bounds: its   *)
(* types, the session behind the gate of updateDeviceStatus, and what a    *)
(* mode switch that comes at any moment leaves behind.                     *)
(***************************************************************************)
EXTENDS StartLedger, NetworkProofs

SwitchSeen == "modeSwitchFlag" \in eventFlags

(* Without a socket, authorizePassFlag can be set only in code mode or     *)
(* while a switch is pending.                                              *)
AuthNeedsSocket ==
  "authorizePassFlag" \in networkEvent /\ conn = "closed"
    => deviceMode = "CODE" \/ SwitchPending

(* Where the main thread acts on a mode it read before, that mode is still *)
(* the mode, or SW3 has been pressed since.                                *)
ModeAtPc ==
  /\ mainPc = "reset" => SwitchSeen
  /\ mainPc = "dial" => deviceMode = "UID" \/ SwitchSeen
  /\ mainPc = "enterCode" => deviceMode = "CODE" \/ SwitchSeen

ModeInv ==
  /\ SocketClosedInCodeMode
  /\ AuthNeedsSocket
  /\ ModeAtPc
  /\ NoBinWaitInUidMode

IInv == TypeOK /\ SessionInv /\ ModeInv

(* The state main() leaves to the threads satisfies the invariant.         *)
LEMMA InitIInv == Init => IInv
<1> SUFFICES ASSUME Init PROVE IInv
  OBVIOUS
<1> USE DEF Init, NetworkInit
<1>1. NetworkTypeOK
  BY InitTypes DEF Modes, EventFlags
<1>2. TypeOK
  BY <1>1 DEF TypeOK, MainPcs, DevStatus
<1>3. SessionInv
  BY <1>1 DEF SessionInv, OfflineNotAuthorized, AuthIsCurrent, SocketUse, FreshSession
<1>4. ModeInv
  BY DEF ModeInv, SocketClosedInCodeMode, AuthNeedsSocket, ModeAtPc, NoBinWaitInUidMode,
         SwitchPending, FreshSession
<1>5. QED
  BY <1>2, <1>3, <1>4 DEF IInv

-------------------------------------------------------------------------------
(* The network code and its surroundings raise only the two flags of a     *)
(* reply, leave the mode alone and stay within their labels.               *)
LEMMA NetworkFrame ==
  ASSUME NetworkTypeOK, NetworkStep
  PROVE  /\ deviceMode' = deviceMode
         /\ eventFlags \subseteq eventFlags'
         /\ eventFlags' \subseteq eventFlags \cup {"UIDavailableFlag", "notifyDoneFlag"}
         /\ mainPc \in NetworkPcs
         /\ mainPc' \in {"dial", "transceive", "receive", "gate"}
         /\ mainPc' = "dial" => deviceMode = "UID"
<1> USE DEF netVars, tickVars, NetworkPcs
<1>1. CASE CheckNetwork
  BY <1>1 DEF CheckNetwork, SkipNetwork, Redial, Heartbeat
<1>2. CASE ConnectFails \/ ConnectSucceeds
  BY <1>2 DEF ConnectFails, ConnectSucceeds
<1>3. CASE Transceive
  BY <1>3 DEF Transceive, OfflineSkip, Resend, NoRequest, StartRequest
<1>4. CASE Receive
  <2>1. CASE ReceiveNothing
    BY <2>1 DEF ReceiveNothing
  <2>2. ASSUME NEW k, NEW granted, ReceiveGarbage(k, granted)
        PROVE  /\ mainPc = "receive" /\ mainPc' = "gate"
               /\ UNCHANGED <<deviceMode, eventFlags>>
    BY <2>2 DEF ReceiveGarbage
  <2>3. ASSUME NEW k, NEW granted, NEW r, ReceiveReply(k, granted, r)
        PROVE  /\ mainPc = "receive" /\ mainPc' = "gate" /\ deviceMode' = deviceMode
               /\ eventFlags \subseteq eventFlags'
               /\ eventFlags' \subseteq eventFlags \cup {"UIDavailableFlag", "notifyDoneFlag"}
    <3>1. PICK m : ParseRecvMsgInfo(m, r)
      BY <2>3 DEF ReceiveReply
    <3>2. QED
      BY <2>3, <3>1 DEF ReceiveReply, ParseRecvMsgInfo
  <2>4. QED
    BY <1>4, <2>1, <2>2, <2>3 DEF Receive
<1>5. QED
  BY <1>1, <1>2, <1>3, <1>4 DEF NetworkStep

(* The socket is opened by the dial only, and losing it never leaves the   *)
(* device authorised.                                                      *)
LEMMA NetworkSocket ==
  ASSUME SessionInv, NetworkStep
  PROVE  /\ conn = "closed" /\ mainPc # "dial" => conn' = "closed"
         /\ "authorizePassFlag" \in networkEvent' /\ conn' = "closed"
              => "authorizePassFlag" \in networkEvent /\ conn = "closed"
<1> USE DEF netVars, tickVars
<1>1. CASE SkipNetwork \/ ConnectFails
  BY <1>1 DEF SkipNetwork, ConnectFails
<1>2. CASE Redial
  BY <1>2 DEF Redial, CloseSocket, SessionInv, OfflineNotAuthorized
<1>3. CASE Heartbeat
  BY <1>3 DEF Heartbeat, WentOffline
<1>4. CASE ConnectSucceeds
  BY <1>4 DEF ConnectSucceeds
<1>5. CASE Transceive
  BY <1>5 DEF Transceive, OfflineSkip, Resend, NoRequest, StartRequest
<1>6. CASE Receive
  <2>1. CASE ReceiveNothing
    BY <2>1 DEF ReceiveNothing
  <2>2. ASSUME NEW k, NEW granted, ReceiveGarbage(k, granted)
        PROVE  conn = "up" /\ conn' = "up"
    BY <2>2 DEF ReceiveGarbage, ServerConsumes
  <2>3. ASSUME NEW k, NEW granted, NEW r, ReceiveReply(k, granted, r)
        PROVE  conn = "up" /\ conn' = "up"
    BY <2>3 DEF ReceiveReply, ServerConsumes
  <2>4. QED
    BY <1>6, <2>1, <2>2, <2>3 DEF Receive
<1>7. QED
  BY <1>1, <1>2, <1>3, <1>4, <1>5, <1>6 DEF NetworkStep, CheckNetwork

(* The network part of a turn of mainThread preserves the invariant.       *)
LEMMA NetworkStepIInv ==
  ASSUME IInv, NetworkStep, UNCHANGED devStatus
  PROVE  IInv'
<1> USE DEF IInv
<1>1. SessionInv'
  BY NetworkStepSession
<1>2. TypeOK'
  BY <1>1, NetworkFrame DEF TypeOK, SessionInv, MainPcs, NetworkPcs
<1>3. ModeInv'
  BY NetworkFrame, NetworkSocket
     DEF TypeOK, ModeInv, SocketClosedInCodeMode, AuthNeedsSocket, ModeAtPc,
         NoBinWaitInUidMode, SwitchPending, SwitchSeen, NetworkPcs
<1>4. QED
  BY <1>1, <1>2, <1>3

(* So do sysTickThread, the link and the server.                           *)
LEMMA SurroundingsIInv ==
  ASSUME IInv, SwallowHeartbeat \/ Link \/ SysTickThread(Blocking), UNCHANGED devStatus
  PROVE  IInv'
<1> USE DEF IInv
<1>1. SessionInv'
  BY SurroundingsSession
<1>2. /\ UNCHANGED <<mainPc, deviceMode, eventFlags>>
      /\ conn' = "closed" <=> conn = "closed"
      /\ "authorizePassFlag" \in networkEvent' => "authorizePassFlag" \in networkEvent
  BY DEF SwallowHeartbeat, Link, LinkStalls, LinkResumes, PeerResets, LinkChange,
         SysTickThread, Tick, TickTest, TickRaise, netVars
<1>3. TypeOK'
  BY <1>1, <1>2 DEF TypeOK, SessionInv
<1>4. ModeInv'
  BY <1>2 DEF ModeInv, SocketClosedInCodeMode, AuthNeedsSocket, ModeAtPc,
              NoBinWaitInUidMode, SwitchPending, SwitchSeen
<1>5. QED
  BY <1>1, <1>3, <1>4

(* A mode switch, step by step.                                            *)
LEMMA ModeSwitchIInv ==
  ASSUME IInv, NoSwitch \/ ModeSwitch
  PROVE  IInv'
<1> USE DEF IInv, TypeOK, NetworkTypeOK, SessionInv, OfflineNotAuthorized, AuthIsCurrent,
            SocketUse, ModeInv, SocketClosedInCodeMode, AuthNeedsSocket, ModeAtPc,
            NoBinWaitInUidMode, SwitchPending, SwitchSeen,
            netVars, tickVars, MainPcs, SwitchPcs, NetworkPcs
<1>1. CASE NoSwitch
  BY <1>1 DEF NoSwitch
<1>2. CASE ResetEventFlags
  BY <1>2 DEF ResetEventFlags, KeptByReset
<1>3. CASE EnterUidMode
  BY <1>3 DEF EnterUidMode, InitNetworkEvent, FreshSession, NetworkEvents
<1>4. CASE EnterCodeMode
  <2>1. wire' \in Seq(Requests) /\ Len(wire') <= MaxInFlight
    BY <1>4, NetworkAssumption DEF EnterCodeMode, CloseSocket, NetworkAssumption
  <2>2. TypeOK'
    BY <1>4, <2>1 DEF EnterCodeMode, CloseSocket, Conns
  <2>3. QED
    BY <1>4, <2>2 DEF EnterCodeMode, CloseSocket
<1>5. CASE EnterStatus
  BY <1>5 DEF EnterStatus, DevStatus
<1>6. QED
  BY <1>1, <1>2, <1>3, <1>4, <1>5 DEF ModeSwitch

(* The detections, the gate and updateDeviceStatus leave the mode, the     *)
(* pending switch, the session and the socket alone; the job they run may  *)
(* only flag a report.                                                     *)
LEMMA Quiet ==
  ASSUME TypeOK, Detect \/ Gate \/ UpdateDeviceStatus
  PROVE  /\ UNCHANGED <<deviceMode, conn, srvAuth>>
         /\ networkEvent' \in {networkEvent, networkEvent \cup {"notifyResultFlag"}}
         /\ SwitchSeen' <=> SwitchSeen
         /\ "startProgramFlag" \in eventFlags' => "startProgramFlag" \in eventFlags
         /\ mainPc \in {"detect", "gate"} \cup UpdatePcs
         /\ mainPc' \in {"switch", "net"} \cup UpdatePcs
         /\ devStatus' = "BIN_NOT_FOUND"
              => devStatus = "BIN_NOT_FOUND" \/ deviceMode = "CODE"
<1> USE DEF SwitchSeen, netVars, tickVars, UpdatePcs
<1>1. CASE Detect \/ Gate
  BY <1>1 DEF Detect, Gate
<1>2. CASE BinNotFound \/ Connected \/ Disconnected \/ Settle
  BY <1>2 DEF BinNotFound, Connected, Disconnected, Settle, BinMissed
<1>3. CASE StartPrograming \/ ProgramBinFile \/ ProgramUID \/ Result
  BY <1>3 DEF StartPrograming, ProgramBinFile, ProgramUID, Result, Report, Results
<1>4. QED
  BY <1>1, <1>2, <1>3 DEF UpdateDeviceStatus

(* The handlers of one turn outside the network code keep every type.      *)
LEMMA JobTypes ==
  ASSUME TypeOK, Detect \/ Gate \/ UpdateDeviceStatus
  PROVE  TypeOK'
<1> USE DEF TypeOK, NetworkTypeOK, netVars, tickVars, MainPcs, NetworkPcs, UpdatePcs
<1>1. CASE Detect
  BY <1>1 DEF Detect, EventFlags
<1>2. CASE Gate
  BY <1>2 DEF Gate
<1>3. CASE BinNotFound
  BY <1>3 DEF BinNotFound, DevStatus
<1>4. CASE Connected
  BY <1>4 DEF Connected, DevStatus
<1>5. CASE Disconnected
  BY <1>5 DEF Disconnected, DevStatus
<1>6. CASE Settle
  BY <1>6 DEF Settle, DevStatus
<1>7. CASE StartPrograming
  BY <1>7 DEF StartPrograming
<1>8. CASE ProgramBinFile
  BY <1>8 DEF ProgramBinFile, DevStatus, Results
<1>9. CASE ProgramUID
  <2>1. eventFlags' \subseteq EventFlags /\ networkEvent' \subseteq NetworkEvents
    BY <1>9 DEF ProgramUID, Report, EventFlags, NetworkEvents
  <2>2. QED
    BY <1>9, <2>1 DEF ProgramUID, DevStatus
<1>10. CASE Result
  BY <1>10 DEF Result, DevStatus
<1>11. QED
  BY <1>1, <1>2, <1>3, <1>4, <1>5, <1>6, <1>7, <1>8, <1>9, <1>10 DEF UpdateDeviceStatus

(* The detections, the gate and updateDeviceStatus preserve the invariant.  *)
LEMMA QuietIInv ==
  ASSUME IInv, Detect \/ Gate \/ UpdateDeviceStatus
  PROVE  IInv'
<1>1. TypeOK'
  BY JobTypes DEF IInv
<1>2. SessionInv'
  BY <1>1, Quiet DEF IInv, TypeOK, SessionInv, OfflineNotAuthorized, AuthIsCurrent,
                     SocketUse, UpdatePcs
<1>3. ModeInv'
  BY Quiet DEF IInv, ModeInv, SocketClosedInCodeMode, AuthNeedsSocket, ModeAtPc,
               NoBinWaitInUidMode, SwitchPending, SwitchSeen, UpdatePcs
<1>4. QED
  BY <1>1, <1>2, <1>3 DEF IInv

(* The buttons.                                                            *)
LEMMA OperatorIInv ==
  ASSUME IInv, Sw2Release \/ Sw3Release
  PROVE  IInv'
<1> USE DEF IInv, TypeOK, NetworkTypeOK, SessionInv, OfflineNotAuthorized, AuthIsCurrent,
            SocketUse, ModeInv, SocketClosedInCodeMode, AuthNeedsSocket, ModeAtPc,
            NoBinWaitInUidMode, SwitchPending, SwitchSeen,
            netVars, tickVars
<1>1. CASE Sw2Release
  <2>1. \/ /\ eventFlags' = eventFlags \cup {"startProgramFlag"}
           /\ networkEvent' = networkEvent
        \/ eventFlags' = eventFlags /\ networkEvent' = networkEvent \cup {"uidReqFlag"}
        \/ /\ eventFlags' = eventFlags \cup {"resetDevStatusFlag"}
           /\ networkEvent' = networkEvent
    BY <1>1 DEF Sw2Release
  <2>2. eventFlags' \subseteq EventFlags /\ networkEvent' \subseteq NetworkEvents
    BY <2>1 DEF EventFlags, NetworkEvents
  <2>3. UNCHANGED <<mainPc, msgSendId, msgRecvId, sinceSend, uid, conn, wire, srvAuth,
                    issued, deviceMode, tickVars, devStatus>>
    BY <1>1 DEF Sw2Release
  <2>4. TypeOK'
    BY <2>2, <2>3
  <2>5. SessionInv' /\ ModeInv'
    BY <2>1, <2>3, <2>4
  <2>6. QED
    BY <2>4, <2>5
<1>2. CASE Sw3Release
  BY <1>2 DEF Sw3Release, EventFlags, Modes
<1>3. QED
  BY <1>1, <1>2

(* Every step of the firmware and of its surroundings preserves the        *)
(* invariant.                                                              *)
LEMMA StepIInv == IInv /\ [Next]_allVars => IInv'
<1> SUFFICES ASSUME IInv, [Next]_allVars PROVE IInv'
  OBVIOUS
<1>1. CASE UNCHANGED allVars
  BY <1>1 DEF allVars, vars, netVars, tickVars, IInv, TypeOK, NetworkTypeOK,
              SessionInv, OfflineNotAuthorized, AuthIsCurrent, SocketUse, ModeInv,
              SocketClosedInCodeMode, AuthNeedsSocket, ModeAtPc,
              NoBinWaitInUidMode, SwitchPending, SwitchSeen
<1>2. CASE MainThread
  BY <1>2, NetworkStepIInv, ModeSwitchIInv, QuietIInv DEF MainThread
<1>3. CASE SysTickThread(Blocking) /\ UNCHANGED devStatus
  BY <1>3, SurroundingsIInv
<1>4. CASE Environment
  BY <1>4, OperatorIInv, SurroundingsIInv DEF Environment
<1>5. QED
  BY <1>1, <1>2, <1>3, <1>4 DEF Next

(* The inductive invariant holds throughout every behaviour of the         *)
(* firmware.                                                               *)
THEOREM ProgramInvariant == Spec => []IInv
  BY InitIInv, StepIInv, PTL DEF Spec

(* The types of OnlineProgram, for every value of its constants.           *)
THEOREM ProgramTypeCorrect == Spec => []TypeOK
<1>1. IInv => TypeOK
  BY DEF IInv
<1>2. QED
  BY <1>1, ProgramInvariant, PTL

(* However the presses of SW3 fall, code mode holds no connection once the *)
(* switch to it has been handled.                                          *)
THEOREM CodeModeIsOffline == Spec => []SocketClosedInCodeMode
<1>1. IInv => SocketClosedInCodeMode
  BY DEF IInv, ModeInv
<1>2. QED
  BY <1>1, ProgramInvariant, PTL

(* In UID mode, with no switch pending, updateDeviceStatus runs only on a  *)
(* connection whose server has authorised it.                              *)
THEOREM GateNeedsSession == Spec => []SessionBehindGate
<1>1. IInv => SessionBehindGate
  BY DEF IInv, SessionInv, ModeInv, AuthNeedsSocket, AuthIsCurrent, SessionBehindGate
<1>2. QED
  BY <1>1, ProgramInvariant, PTL

(* UID mode never waits for a bin file that nothing there looks for.       *)
THEOREM UidModeNeverWaitsForBin == Spec => []NoBinWaitInUidMode
<1>1. IInv => NoBinWaitInUidMode
  BY DEF IInv, ModeInv
<1>2. QED
  BY <1>1, ProgramInvariant, PTL

-------------------------------------------------------------------------------
(* The stray press of SW2: it is remembered when it comes and as long as   *)
(* its start is flagged or the job it started runs.                        *)
Remembers ==
  /\ mainPc = "reset" /\ Starts => stray'
  /\ stray /\ ("startProgramFlag" \in eventFlags' \/ devStatus' = "PROGRAMING") => stray'

(* What the ledger does in a step of the firmware, in these words.         *)
LEMMA LedgerStep ==
  [Next /\ Observe]_startVars => [Next]_allVars /\ (UNCHANGED startVars \/ (Next /\ Remembers))
BY DEF Observe, Remembers, startVars

(* While resetEventFlags is between its two stores, a start that is        *)
(* flagged is a stray one.                                                 *)
StartInv ==
  /\ NoStartInUidMode
  /\ mainPc = "reset" /\ "startProgramFlag" \in eventFlags => stray

(* Who raises startProgramFlag, who reaches the label "reset", and who     *)
(* clears a pending switch.                                                *)
LEMMA StartFlag ==
  ASSUME IInv, Next
  PROVE  /\ "startProgramFlag" \in eventFlags'
              => "startProgramFlag" \in eventFlags
                   \/ (deviceMode = "CODE" /\ deviceMode' = "CODE" /\ mainPc' = mainPc)
         /\ mainPc' = "reset" =>
              mainPc = "reset" \/ "startProgramFlag" \notin eventFlags'
         /\ deviceMode' = deviceMode \/ SwitchSeen'
         /\ SwitchSeen => SwitchSeen' \/ mainPc = "reset"
<1> USE DEF SwitchSeen, netVars, tickVars
<1>1. CASE NoSwitch \/ EnterUidMode \/ EnterCodeMode \/ EnterStatus
  BY <1>1 DEF NoSwitch, EnterUidMode, EnterCodeMode, EnterStatus
<1>2. CASE ResetEventFlags
  BY <1>2 DEF ResetEventFlags, KeptByReset
<1>3. CASE NetworkStep
  <2>1. NetworkTypeOK
    BY DEF IInv, TypeOK
  <2>2. QED
    BY <1>3, <2>1, NetworkFrame DEF NetworkPcs
<1>4. CASE Detect \/ Gate \/ UpdateDeviceStatus
  BY <1>4, Quiet DEF IInv, UpdatePcs
<1>5. CASE Sw2Release
  BY <1>5 DEF Sw2Release
<1>6. CASE Sw3Release
  BY <1>6 DEF Sw3Release
<1>7. CASE SwallowHeartbeat \/ Link \/ SysTickThread(Blocking)
  BY <1>7 DEF SwallowHeartbeat, Link, LinkStalls, LinkResumes, PeerResets, LinkChange,
              SysTickThread, Tick, TickTest, TickRaise
<1>8. QED
  BY <1>1, <1>2, <1>3, <1>4, <1>5, <1>6, <1>7
     DEF Next, MainThread, ModeSwitch, Environment

(* So a start that outlives its switch is the stray one.                   *)
LEMMA StepStart == IInv /\ StartInv /\ [Next /\ Observe]_startVars => StartInv'
<1> SUFFICES ASSUME IInv, StartInv, [Next /\ Observe]_startVars PROVE StartInv'
  OBVIOUS
<1>1. CASE UNCHANGED startVars
  BY <1>1 DEF startVars, allVars, vars, StartInv, NoStartInUidMode
<1>2. CASE Next /\ Remembers
  <2>1. ASSUME mainPc' = "reset", "startProgramFlag" \in eventFlags' PROVE stray'
    BY <1>2, <2>1, StartFlag DEF StartInv, Remembers, Starts
  <2>2. ASSUME "startProgramFlag" \in eventFlags', deviceMode' = "UID", ~SwitchSeen'
        PROVE  stray'
    <3>1. "startProgramFlag" \in eventFlags /\ deviceMode = "UID"
      BY <1>2, <2>2, StartFlag
    <3>2. stray
      BY <1>2, <2>2, <3>1, StartFlag DEF StartInv, NoStartInUidMode, SwitchSeen
    <3>3. QED
      BY <1>2, <2>2, <3>2 DEF Remembers
  <2>3. QED
    BY <2>1, <2>2 DEF StartInv, NoStartInUidMode, SwitchSeen
<1>3. QED
  BY <1>1, <1>2, LedgerStep

(* A start of code mode is never seen in UID mode unless a switch, which   *)
(* discards it, is pending, or it is the one press of SW2 that falls       *)
(* between two stores of resetEventFlags.                                  *)
THEOREM StartBelongsToCodeMode == StartSpec => []NoStartInUidMode
<1>1. StartInit => Init /\ StartInv
  BY DEF StartInit, Init, StartInv, NoStartInUidMode
<1>2. [Next /\ Observe]_startVars => [Next]_allVars
  BY LedgerStep
<1>3. StartInv => NoStartInUidMode
  BY DEF StartInv
<1>4. QED
  BY <1>1, <1>2, <1>3, InitIInv, StepIInv, StepStart, PTL DEF StartSpec

-------------------------------------------------------------------------------
(* Why a burn always has an identifier: BurnHasUid speaks of one label and *)
(* must be carried from the reply through the CONNECTED case to it.        *)
BurnInv ==
  /\ "UIDavailableFlag" \in eventFlags => uid \in issued
  /\ devStatus = "PROGRAMING" /\ deviceMode = "UID" /\ ~SwitchPending /\ mainPc # "enterUID"
       => uid \in issued \/ stray
  /\ mainPc = "progUID" => devStatus = "PROGRAMING" /\ (deviceMode = "UID" \/ SwitchSeen)
  /\ mainPc \in {"update", "progUID"} /\ deviceMode = "UID" /\ ~SwitchSeen
       => "authorizePassFlag" \in networkEvent

(* No job has started in the state main() leaves.                          *)
LEMMA InitBurnInv == Init => BurnInv
BY DEF Init, BurnInv

(* The identifier a reply delivers is an issued one, and stays so.         *)
LEMMA NetworkUid ==
  ASSUME NetworkTypeOK, NetworkStep
  PROVE  /\ uid \in issued => uid' \in issued'
         /\ "UIDavailableFlag" \in eventFlags'
              => "UIDavailableFlag" \in eventFlags \/ uid' \in issued'
<1> USE DEF netVars, tickVars
<1>1. CASE CheckNetwork
  BY <1>1 DEF CheckNetwork, SkipNetwork, Redial, Heartbeat
<1>2. CASE ConnectFails \/ ConnectSucceeds
  BY <1>2 DEF ConnectFails, ConnectSucceeds
<1>3. CASE Transceive
  BY <1>3 DEF Transceive, OfflineSkip, Resend, NoRequest, StartRequest
<1>4. CASE Receive
  <2>1. CASE ReceiveNothing
    BY <2>1 DEF ReceiveNothing
  <2>2. ASSUME NEW k, NEW granted, ReceiveGarbage(k, granted)
        PROVE  UNCHANGED <<uid, issued, eventFlags>>
    BY <2>2 DEF ReceiveGarbage
  <2>3. ASSUME NEW k, NEW granted, NEW r \in Reply, ReceiveReply(k, granted, r)
        PROVE  /\ uid \in issued => uid' \in issued'
               /\ "UIDavailableFlag" \in eventFlags'
                    => "UIDavailableFlag" \in eventFlags \/ uid' \in issued'
    <3>1. PICK m : ParseRecvMsgInfo(m, r)
      BY <2>3 DEF ReceiveReply
    <3>2. CASE DeliversUid(m, r)
      <4>1. r.uid \in UIDs
        BY <3>2 DEF DeliversUid, Reply
      <4>2. uid' = r.uid /\ issued' = issued \cup ({r.uid} \cap UIDs)
        BY <3>1, <3>2 DEF ParseRecvMsgInfo
      <4>3. QED
        BY <4>1, <4>2
    <3>3. CASE ~DeliversUid(m, r)
      BY <3>1, <3>3 DEF ParseRecvMsgInfo
    <3>4. QED
      BY <3>2, <3>3
  <2>4. QED
    BY <1>4, <2>1, <2>2, <2>3 DEF Receive
<1>5. QED
  BY <1>1, <1>2, <1>3, <1>4 DEF NetworkStep

(* Every step keeps a started UID job backed by an issued identifier and a *)
(* session, or by the stray press.                                         *)
LEMMA StepBurnInv ==
  IInv /\ StartInv /\ BurnInv /\ [Next /\ Observe]_startVars => BurnInv'
<1> SUFFICES ASSUME IInv, StartInv, BurnInv, [Next /\ Observe]_startVars PROVE BurnInv'
  OBVIOUS
<1> USE DEF BurnInv, SwitchPending, SwitchSeen, netVars, tickVars
<1>1. CASE UNCHANGED startVars
  BY <1>1 DEF startVars, allVars, vars
<1> SUFFICES ASSUME Next, stray /\ devStatus' = "PROGRAMING" => stray',
                    "startProgramFlag" \in eventFlags /\ deviceMode = "UID"
                      => SwitchSeen \/ stray
             PROVE  BurnInv'
  BY <1>1, LedgerStep DEF Remembers, StartInv, NoStartInUidMode
<1>2. CASE NoSwitch \/ ModeSwitch
  BY <1>2 DEF NoSwitch, ModeSwitch, ResetEventFlags, KeptByReset, EnterUidMode,
              InitNetworkEvent, EnterCodeMode, CloseSocket, EnterStatus, IInv, ModeInv,
              ModeAtPc
<1>3. CASE NetworkStep /\ UNCHANGED devStatus
  <2>1. NetworkTypeOK
    BY DEF IInv, TypeOK
  <2>2. QED
    BY <1>3, <2>1, NetworkFrame, NetworkUid DEF NetworkPcs
<1>4. CASE Detect \/ Gate
  BY <1>4 DEF Detect, Gate
<1>5. CASE UpdateDeviceStatus
  <2>1. CASE BinNotFound \/ Disconnected \/ Settle
    BY <2>1 DEF BinNotFound, Disconnected, Settle
  <2>2. CASE Connected
    BY <2>2 DEF Connected
  <2>3. CASE StartPrograming
    BY <2>3 DEF StartPrograming, IInv, TypeOK, NetworkTypeOK, Modes
  <2>4. CASE ProgramBinFile
    BY <2>4 DEF ProgramBinFile, Results
  <2>5. CASE ProgramUID
    BY <2>5 DEF ProgramUID, Report
  <2>6. CASE Result
    BY <2>6 DEF Result
  <2>7. QED
    BY <1>5, <2>1, <2>2, <2>3, <2>4, <2>5, <2>6 DEF UpdateDeviceStatus
<1>6. CASE Sw2Release \/ Sw3Release
  BY <1>6 DEF Sw2Release, Sw3Release
<1>7. CASE (SwallowHeartbeat \/ Link \/ SysTickThread(Blocking)) /\ UNCHANGED devStatus
  BY <1>7 DEF SwallowHeartbeat, Link, LinkStalls, LinkResumes, PeerResets, LinkChange,
              SysTickThread, Tick, TickTest, TickRaise
<1>8. QED
  BY <1>1, <1>2, <1>3, <1>4, <1>5, <1>6, <1>7 DEF Next, MainThread, Environment

(* programUID runs with an identifier of the server and an authorised      *)
(* session, unless SW3 was pressed since the job was started, or the stray *)
(* press of SW2 started it.                                                *)
THEOREM BurnsAreBacked == StartSpec => []BurnHasUid
<1>1. BurnInv => BurnHasUid
  BY DEF BurnInv, BurnHasUid, SwitchPending, SwitchSeen
<1>2. StartInit => Init /\ StartInv /\ BurnInv
  BY InitBurnInv DEF StartInit, Init, StartInv, NoStartInUidMode
<1>3. [Next /\ Observe]_startVars => [Next]_allVars
  BY LedgerStep
<1>4. QED
  BY <1>1, <1>2, <1>3, InitIInv, StepIInv, StepStart, StepBurnInv, PTL DEF StartSpec

-------------------------------------------------------------------------------
(* The report of a result is somewhere: flagged, pending or acknowledged.  *)
Reported ==
  \/ "notifyResultFlag" \in networkEvent
  \/ msgSendId = "NOTIFY"
  \/ "notifyDoneFlag" \in eventFlags

(* ResultHasReport speaks of every label; besides it, a bin file is only   *)
(* programmed in UID mode when SW3 has been pressed since.                 *)
ReportInv ==
  /\ ResultHasReport
  /\ mainPc = "progCode" => deviceMode = "CODE" \/ SwitchSeen

(* The network code passes the report on and never drops it: a flag it     *)
(* clears becomes the pending request, and the pending request ends with   *)
(* its own answer, which acknowledges it.                                  *)
LEMMA NetworkReport ==
  ASSUME NetworkTypeOK, ~HeartbeatAcked, NetworkStep, Reported
  PROVE  Reported'
<1> USE DEF Reported, netVars, tickVars
<1>1. CASE CheckNetwork
  BY <1>1 DEF CheckNetwork, SkipNetwork, Redial, Heartbeat, WentOffline
<1>2. CASE ConnectFails \/ ConnectSucceeds
  BY <1>2 DEF ConnectFails, ConnectSucceeds, WentOnline
<1>3. CASE OfflineSkip \/ Resend \/ NoRequest
  BY <1>3 DEF OfflineSkip, Resend, NoRequest, SendMsgHandle
<1>4. ASSUME NEW m \in MsgIds, StartRequest(m) PROVE Reported'
  <2>1. /\ msgSendId = "INVALID" /\ msgSendId' = m
        /\ networkEvent' = networkEvent \ {RequestFlag[m]} /\ eventFlags' = eventFlags
    BY <1>4 DEF StartRequest, SendMsgHandle
  <2>2. m # "NOTIFY" => RequestFlag[m] # "notifyResultFlag"
    BY DEF RequestFlag, MsgIds
  <2>3. QED
    BY <2>1, <2>2
<1>5. CASE Receive
  <2>1. CASE ReceiveNothing
    BY <2>1 DEF ReceiveNothing
  <2>2. ASSUME NEW k, NEW granted, ReceiveGarbage(k, granted) PROVE Reported'
    BY <2>2 DEF ReceiveGarbage
  <2>3. ASSUME NEW k, NEW granted \in BOOLEAN, NEW r \in Reply, ReceiveReply(k, granted, r)
        PROVE  Reported'
    <3>1. PICK i \in 1..Len(wire) : OwnReply(i, r)
      BY <2>3, ReplyEffect DEF HeartbeatReply
    <3>2. eventFlags \subseteq eventFlags'
      BY <1>5, NetworkFrame DEF NetworkStep
    <3>3. QED
      BY <3>1, <3>2 DEF OwnReply
  <2>4. QED
    BY <1>5, <2>1, <2>2, <2>3 DEF Receive
<1>6. QED
  BY <1>1, <1>2, <1>3, <1>4, <1>5 DEF NetworkStep, Transceive

(* Every step keeps the report of a result that is shown in UID mode.      *)
LEMMA StepReport ==
  ASSUME IInv, ReportInv, ~HeartbeatAcked, [Next]_allVars
  PROVE  ReportInv'
<1> USE DEF ReportInv, ResultHasReport, SwitchPending, SwitchSeen, Results,
            netVars, tickVars
<1>1. CASE UNCHANGED allVars
  BY <1>1 DEF allVars, vars
<1>2. CASE NoSwitch \/ ModeSwitch
  BY <1>2 DEF NoSwitch, ModeSwitch, ResetEventFlags, KeptByReset, EnterUidMode,
              InitNetworkEvent, EnterCodeMode, CloseSocket, EnterStatus, IInv, ModeInv,
              ModeAtPc
<1>3. CASE NetworkStep /\ UNCHANGED devStatus
  <2>1. NetworkTypeOK
    BY DEF IInv, TypeOK
  <2>2. Reported => Reported'
    BY <1>3, <2>1, NetworkReport
  <2>3. QED
    BY <1>3, <2>1, <2>2, NetworkFrame DEF NetworkPcs, Reported
<1>4. CASE Detect \/ Gate
  BY <1>4 DEF Detect, Gate
<1>5. CASE UpdateDeviceStatus
  <2>1. CASE BinNotFound \/ Disconnected \/ Settle
    BY <2>1 DEF BinNotFound, Disconnected, Settle
  <2>2. CASE Connected
    BY <2>2 DEF Connected
  <2>3. CASE StartPrograming
    BY <2>3 DEF StartPrograming
  <2>4. CASE ProgramBinFile
    BY <2>4 DEF ProgramBinFile
  <2>5. CASE ProgramUID
    BY <2>5 DEF ProgramUID, Report
  <2>6. CASE Result
    BY <2>6 DEF Result
  <2>7. QED
    BY <1>5, <2>1, <2>2, <2>3, <2>4, <2>5, <2>6 DEF UpdateDeviceStatus
<1>6. CASE Sw2Release \/ Sw3Release
  BY <1>6 DEF Sw2Release, Sw3Release, IInv, TypeOK, NetworkTypeOK, Modes
<1>7. CASE (SwallowHeartbeat \/ Link \/ SysTickThread(Blocking)) /\ UNCHANGED devStatus
  BY <1>7 DEF SwallowHeartbeat, Link, LinkStalls, LinkResumes, PeerResets, LinkChange,
              SysTickThread, Tick, TickTest, TickRaise
<1>8. QED
  BY <1>1, <1>2, <1>3, <1>4, <1>5, <1>6, <1>7 DEF Next, MainThread, Environment

(* With a server that does not answer heartbeats, a result shown in UID    *)
(* mode can always be left: its report is never lost between the flag, the *)
(* pending request and the acknowledgement, not over a lost connection.    *)
THEOREM ResultsAreReported == ~HeartbeatAcked => (Spec => []ResultHasReport)
<1> SUFFICES ASSUME ~HeartbeatAcked PROVE Spec => []ResultHasReport
  OBVIOUS
<1>1. Init => ReportInv
  BY DEF Init, ReportInv, ResultHasReport, Results
<1>2. IInv /\ ReportInv /\ [Next]_allVars => ReportInv'
  BY StepReport
<1>3. ReportInv => ResultHasReport
  BY DEF ReportInv
<1>4. QED
  BY <1>1, <1>2, <1>3, ProgramInvariant, PTL DEF Spec

-------------------------------------------------------------------------------
(* The mode switch is the one place outside the network code that touches  *)
(* the session: it ends it.                                                *)
LEMMA SwitchKeepsPromise ==
  ASSUME NoSwitch \/ ModeSwitch
  PROVE  Promised!Next \/ UNCHANGED PromiseVars
<1> USE DEF Believed, netVars
<1>1. CASE NoSwitch \/ ResetEventFlags \/ EnterStatus
  BY <1>1 DEF NoSwitch, ResetEventFlags, EnterStatus, PromiseVars
<1>2. CASE EnterUidMode
  <2>1. networkEvent' = FreshSession /\ UNCHANGED <<msgSendId, msgRecvId, wire>>
    BY <1>2 DEF EnterUidMode, InitNetworkEvent
  <2>2. Believed' = "down"
    BY <2>1 DEF FreshSession
  <2>3. Believed # "down" => Promised!Lose
    BY <2>1, <2>2 DEF Promised!Lose
  <2>4. Believed # "down" => Promised!Next
    BY <2>3 DEF Promised!Next
  <2>5. QED
    BY <2>1, <2>2, <2>4 DEF PromiseVars
<1>3. CASE EnterCodeMode
  <2>1. wire' = <<>> /\ UNCHANGED <<networkEvent, msgSendId, msgRecvId>>
    BY <1>3 DEF EnterCodeMode, CloseSocket
  <2>2. Promised!Drop
    BY <2>1 DEF Promised!Drop, OnLine
  <2>3. QED
    BY <2>2 DEF Promised!Next
<1>4. QED
  BY <1>1, <1>2, <1>3 DEF ModeSwitch

(* The rest of the application and the operator leave it alone.            *)
LEMMA OthersKeepPromise ==
  ASSUME \/ Detect \/ Gate \/ UpdateDeviceStatus \/ Sw2Release \/ Sw3Release
         \/ UNCHANGED allVars
  PROVE  UNCHANGED PromiseVars
<1> USE DEF PromiseVars, Believed, netVars
<1>1. CASE Detect \/ Gate
  BY <1>1 DEF Detect, Gate
<1>2. CASE UpdateDeviceStatus
  BY <1>2 DEF UpdateDeviceStatus, BinNotFound, Connected, Disconnected, Settle,
              StartPrograming, ProgramBinFile, ProgramUID, Report, Result
<1>3. CASE Sw2Release \/ Sw3Release
  BY <1>3 DEF Sw2Release, Sw3Release
<1>4. CASE UNCHANGED allVars
  BY <1>4 DEF allVars, vars
<1>5. QED
  BY <1>1, <1>2, <1>3, <1>4

(* Every step of the firmware is one of Session.tla, or nothing to it.     *)
LEMMA StepPromise == IInv /\ [Next]_allVars => [Promised!Next]_PromiseVars
BY SwitchKeepsPromise, OthersKeepPromise, NetworkPromise, SurroundingsPromise
   DEF Next, MainThread, Environment, IInv

(* The whole firmware keeps the abstract session, whatever the operator    *)
(* does with the buttons, and whether or not the server answers            *)
(* heartbeats: a mode switch in the middle of an exchange is to the server *)
(* no more than a lost connection.                                         *)
THEOREM ProgramKeepsPromise == Spec => KeepsPromise
<1>1. Init => Promised!Init
  BY InitPromise DEF Init
<1>2. IInv /\ [Next]_allVars => [Promised!Next]_(Promised!sessionState)
  BY StepPromise DEF Promised!sessionState, PromiseVars
<1>3. QED
  BY <1>1, <1>2, ProgramInvariant, PTL DEF Spec, KeepsPromise, Promised!Spec
===============================================================================
