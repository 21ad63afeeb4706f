---------------------------- MODULE SessionProofs ----------------------------
(***************************************************************************)
(* NetworkSession under any application, any order of losses, resends and  *)
(* answers, and any bounds: its types, the authorisation it acts on, the   *)
(* abstract session of Session.tla that it keeps, and that no result is    *)
(* left before the server has read its report (ReportLedger).              *)
(***************************************************************************)
EXTENDS ReportLedger, NetworkProofs

IInv == TypeOK /\ SessionInv

(* The fresh session that main() leaves satisfies the invariant.           *)
LEMMA InitIInv == Init => IInv
<1> SUFFICES ASSUME Init PROVE IInv
  OBVIOUS
<1> USE NetworkAssumption DEF NetworkAssumption, Init, NetworkInit
<1>1. NetworkTypeOK
  BY InitTypes DEF Modes
<1>2. QED
  BY <1>1 DEF IInv, SessionInv, TypeOK, Phases, OfflineNotAuthorized, AuthIsCurrent,
              SocketUse, FreshSession, NetworkPcs

(* The application changes only flags the session does not depend on.      *)
LEMMA StepIInv == IInv /\ [Next]_sessionVars => IInv'
<1> SUFFICES ASSUME IInv, [Next]_sessionVars PROVE IInv'
  OBVIOUS
<1> USE DEF IInv
<1>1. CASE UNCHANGED sessionVars
  BY <1>1 DEF sessionVars, vars, netVars, tickVars, TypeOK, NetworkTypeOK, SessionInv,
              OfflineNotAuthorized, AuthIsCurrent, SocketUse
<1>2. ASSUME NetworkStep, UNCHANGED phase PROVE IInv'
  <2>1. SessionInv'
    BY <1>2, NetworkStepSession
  <2>2. mainPc' \in NetworkPcs \cup {"gate"}
    BY <1>2 DEF NetworkStep, CheckNetwork, SkipNetwork, Redial, Heartbeat, ConnectFails,
                ConnectSucceeds, Transceive, OfflineSkip, Resend, NoRequest, StartRequest,
                Receive, ReceiveNothing, ReceiveGarbage, ReceiveReply, NetworkPcs
  <2>3. QED
    BY <1>2, <2>1, <2>2 DEF TypeOK, SessionInv
<1>3. ASSUME SwallowHeartbeat \/ Link \/ SysTickThread(Blocking), UNCHANGED phase
      PROVE  IInv'
  <2>1. SessionInv'
    BY <1>3, SurroundingsSession
  <2>2. mainPc' = mainPc
    BY <1>3 DEF SwallowHeartbeat, Link, LinkStalls, LinkResumes, PeerResets, LinkChange,
                SysTickThread, Tick, TickTest, TickRaise
  <2>3. QED
    BY <1>3, <2>1, <2>2 DEF TypeOK, SessionInv
<1>4. CASE PressSw2
  BY <1>4 DEF PressSw2, tickVars, TypeOK, NetworkTypeOK, NetworkEvents, SessionInv,
              OfflineNotAuthorized, AuthIsCurrent, SocketUse
<1>5. CASE UpdateDeviceStatus
  <2>1. /\ eventFlags' \subseteq EventFlags /\ phase' \in Phases
        /\ networkEvent' \subseteq networkEvent \cup {"notifyResultFlag"}
        /\ networkEvent \subseteq networkEvent'
    BY <1>5 DEF UpdateDeviceStatus, Wait, StartJob, FinishJob, LeaveResult, TypeOK,
                NetworkTypeOK, EventFlags, Phases
  <2>2. QED
    BY <1>5, <2>1 DEF UpdateDeviceStatus, tickVars, TypeOK, NetworkTypeOK, NetworkPcs,
                      NetworkEvents, SessionInv, OfflineNotAuthorized, AuthIsCurrent,
                      SocketUse
<1>6. QED
  BY <1>1, <1>2, <1>3, <1>4, <1>5 DEF Next

(* The inductive invariant holds throughout every behaviour of the         *)
(* session.                                                                *)
THEOREM SessionInvariant == Spec => []IInv
  BY InitIInv, StepIInv, PTL DEF Spec

(* The types of NetworkSession, for every value of its constants.          *)
THEOREM SessionTypeCorrect == Spec => []TypeOK
<1>1. IInv => TypeOK
  BY DEF IInv
<1>2. QED
  BY <1>1, SessionInvariant, PTL

(* A device that knows it is offline never counts itself authorised.       *)
THEOREM SessionOfflineNotAuthorized == Spec => []OfflineNotAuthorized
<1>1. IInv => OfflineNotAuthorized
  BY DEF IInv, SessionInv
<1>2. QED
  BY <1>1, SessionInvariant, PTL

(* authorizePassFlag always comes from the server of the connection the    *)
(* device holds, never from an earlier one.                                *)
THEOREM SessionAuthIsCurrent == Spec => []AuthIsCurrent
<1>1. IInv => AuthIsCurrent
  BY DEF IInv, SessionInv
<1>2. QED
  BY <1>1, SessionInvariant, PTL

-------------------------------------------------------------------------------
(* The application asks, learns and loses nothing that the abstract        *)
(* session tells apart.                                                    *)
LEMMA ApplicationPromise ==
  ASSUME PressSw2 \/ UpdateDeviceStatus \/ UNCHANGED sessionVars
  PROVE  UNCHANGED PromiseVars
<1> USE DEF PromiseVars, Believed, netVars
<1>1. CASE PressSw2
  BY <1>1 DEF PressSw2
<1>2. CASE UpdateDeviceStatus
  <2>1. /\ UNCHANGED <<msgSendId, msgRecvId, wire>>
        /\ networkEvent' \in {networkEvent, networkEvent \cup {"notifyResultFlag"}}
    BY <1>2 DEF UpdateDeviceStatus, Wait, StartJob, FinishJob, LeaveResult
  <2>2. QED
    BY <2>1
<1>3. CASE UNCHANGED sessionVars
  BY <1>3 DEF sessionVars, vars
<1>4. QED
  BY <1>1, <1>2, <1>3

(* So every step is one of Session.tla, or changes nothing it can see.     *)
LEMMA StepPromise == IInv /\ [Next]_sessionVars => [Promised!Next]_PromiseVars
BY NetworkPromise, SurroundingsPromise, ApplicationPromise DEF Next, IInv

-------------------------------------------------------------------------------
(* The session keeps the abstract one, whether or not the server answers   *)
(* heartbeats: every behaviour of the network code maps to one of          *)
(* Session.tla.                                                            *)
THEOREM SessionKeepsPromise == Spec => KeepsPromise
<1>1. Init => Promised!Init
  BY InitPromise DEF Init
<1>2. IInv /\ [Next]_sessionVars => [Promised!Next]_(Promised!sessionState)
  BY StepPromise DEF Promised!sessionState, PromiseVars
<1>3. QED
  BY <1>1, <1>2, SessionInvariant, PTL DEF Spec, KeepsPromise, Promised!Spec

(* The authorisation is never forgotten: on a connection without it the    *)
(* AUTH request is flagged or pending, if heartbeats are not answered.     *)
(* An abstract session that never abandons a question never gives up.      *)
THEOREM NeverForgotten == ~HeartbeatAcked => (Spec => []AuthNotForgotten)
<1> SUFFICES ASSUME ~HeartbeatAcked PROVE Spec => []AuthNotForgotten
  OBVIOUS
<1>1. Init => AuthNotForgotten
  BY DEF Init, NetworkInit, FreshSession, AuthNotForgotten
<1>2. IInv /\ AuthNotForgotten /\ [Next]_sessionVars => AuthNotForgotten'
  <2>1. AuthNotForgotten <=> Believed # "givenUp"
    BY GivenUp
  <2>2. AuthNotForgotten' <=> Believed' # "givenUp"
    BY DEF AuthNotForgotten, Believed
  <2>3. QED
    BY <2>1, <2>2, StepPromise, GivenUp
<1>3. QED
  BY <1>1, <1>2, SessionInvariant, PTL DEF Spec

(* An available UID comes from a reply that carried one; nothing else      *)
(* writes uid or raises the flag.                                          *)
LEMMA StepUid ==
  ASSUME IInv, AvailableUidIsIssued, [Next]_sessionVars
  PROVE  AvailableUidIsIssued'
<1> USE DEF AvailableUidIsIssued, netVars
<1>1. ASSUME NEW m, NEW r \in Reply, ParseRecvMsgInfo(m, r) PROVE AvailableUidIsIssued'
  <2>1. CASE DeliversUid(m, r)
    <3>1. uid' = r.uid /\ issued' = issued \cup ({r.uid} \cap UIDs) /\ r.uid \in UIDs
      BY <1>1, <2>1 DEF ParseRecvMsgInfo, DeliversUid, Reply
    <3>2. QED
      BY <3>1
  <2>2. CASE ~DeliversUid(m, r)
    <3>1. "UIDavailableFlag" \in eventFlags' => "UIDavailableFlag" \in eventFlags
      BY <1>1, <2>2 DEF ParseRecvMsgInfo
    <3>2. UNCHANGED <<uid, issued>>
      BY <1>1, <2>2 DEF ParseRecvMsgInfo
    <3>3. QED
      BY <3>1, <3>2
  <2>3. QED
    BY <2>1, <2>2
<1>2. CASE NetworkStep
  <2>1. CASE Receive
    BY <1>1, <2>1 DEF Receive, ReceiveNothing, ReceiveGarbage, ReceiveReply
  <2>2. CASE CheckNetwork \/ ConnectFails \/ ConnectSucceeds \/ Transceive
    BY <2>2 DEF CheckNetwork, SkipNetwork, Redial, Heartbeat, ConnectFails, ConnectSucceeds,
                Transceive, OfflineSkip, NoRequest, Resend, StartRequest
  <2>3. QED
    BY <1>2, <2>1, <2>2 DEF NetworkStep
<1>3. CASE ~NetworkStep
  BY <1>3 DEF Next, sessionVars, vars, SwallowHeartbeat, Link, LinkStalls, LinkResumes,
              PeerResets, LinkChange, SysTickThread, Tick, TickTest, TickRaise, PressSw2,
              UpdateDeviceStatus, Wait, StartJob, FinishJob, LeaveResult
<1>4. QED
  BY <1>2, <1>3

(* UIDavailableFlag stands for an identifier the server has issued.        *)
THEOREM AvailableIsIssued == Spec => []AvailableUidIsIssued
<1>1. Init => AvailableUidIsIssued
  BY DEF Init, AvailableUidIsIssued
<1>2. IInv /\ AvailableUidIsIssued /\ [Next]_sessionVars => AvailableUidIsIssued'
  BY StepUid
<1>3. QED
  BY <1>1, <1>2, SessionInvariant, PTL DEF Spec

-------------------------------------------------------------------------------
(* Of the present result there is one report and it goes one way: flagged, *)
(* pending or on the wire, acknowledged.  Its copy on the wire is younger  *)
(* than the result.                                                        *)
Copies(w, b) ==
  \A i \in InFlight("NOTIFY", w) : i > b /\ \A j \in InFlight("NOTIFY", w) : i = j

Rested ==
  /\ InFlight("NOTIFY", wire) = {} /\ msgSendId # "NOTIFY"
  /\ "notifyResultFlag" \notin networkEvent /\ "notifyDoneFlag" \notin eventFlags

OneWay ==
  /\ InFlight("NOTIFY", wire) # {} \/ msgSendId = "NOTIFY" =>
       "notifyResultFlag" \notin networkEvent /\ "notifyDoneFlag" \notin eventFlags
  /\ "notifyDoneFlag" \in eventFlags =>
       "notifyResultFlag" \notin networkEvent /\ report = "delivered"

SingleReport == (phase = "result" \/ Rested) /\ Copies(wire, before) /\ OneWay

(* It holds until two copies are about, and again once both are gone.      *)
LedgerInv ==
  /\ before \in 0..Len(wire)
  /\ report \in (IF phase = "result" THEN {"due", "delivered"} ELSE {"none"})
  /\ twice \/ SingleReport

(* A step that takes requests from the buffers, or leaves them alone.      *)
Drained ==
  \/ wire' \in {wire, <<>>}
  \/ \E k \in 1..Len(wire) : wire' = SubSeq(wire, k + 1, Len(wire))

(* What the ledger counts when no result is new.                           *)
Counted == before' = IF Taken > 0 THEN IF before > Taken THEN before - Taken ELSE 0
                                  ELSE before

(* The copies that stay in the buffers keep their places, counted from the *)
(* result.                                                                 *)
LEMMA DrainedCopies ==
  ASSUME wire \in Seq(Requests), before \in 0..Len(wire), Drained, Counted
  PROVE  /\ before' \in 0..Len(wire')
         /\ Copies(wire, before) => Copies(wire', before')
         /\ InFlight("NOTIFY", wire) = {} => InFlight("NOTIFY", wire') = {}
<1>1. PICK k \in 0..Len(wire) :
         /\ Len(wire') = Len(wire) - k
         /\ \A i \in 1..Len(wire') : i + k \in 1..Len(wire) /\ wire'[i] = wire[i + k]
  <2>1. Len(wire) \in Nat
    OBVIOUS
  <2>2. CASE wire' = wire
    BY <2>1, <2>2
  <2>3. CASE wire' = <<>>
    BY <2>1, <2>3
  <2>4. ASSUME NEW k \in 1..Len(wire), wire' = SubSeq(wire, k + 1, Len(wire))
        PROVE  /\ Len(wire') = Len(wire) - k
               /\ \A i \in 1..Len(wire') : i + k \in 1..Len(wire) /\ wire'[i] = wire[i + k]
    BY <2>4
  <2>5. CASE \E k \in 1..Len(wire) : wire' = SubSeq(wire, k + 1, Len(wire))
    BY <2>1, <2>4, <2>5
  <2>6. QED
    BY <2>2, <2>3, <2>5 DEF Drained
<1>2. before' = IF before > k THEN before - k ELSE 0
  <2>1. Taken = k /\ Len(wire) \in Nat
    BY <1>1 DEF Taken
  <2>2. QED
    BY <2>1 DEF Counted
<1>3. \A i \in InFlight("NOTIFY", wire') :
         i \in Nat \ {0} /\ i + k \in InFlight("NOTIFY", wire)
  BY <1>1 DEF InFlight
<1>4. ASSUME Copies(wire, before) PROVE Copies(wire', before')
  <2>1. ASSUME NEW i \in InFlight("NOTIFY", wire') PROVE i > before'
    <3>1. i + k > before /\ i \in Nat \ {0}
      BY <1>3, <1>4 DEF Copies
    <3>2. QED
      BY <1>2, <3>1
  <2>2. ASSUME NEW i \in InFlight("NOTIFY", wire'), NEW j \in InFlight("NOTIFY", wire')
        PROVE  i = j
    <3>1. i + k = j + k /\ i \in Nat /\ j \in Nat
      BY <1>3, <1>4 DEF Copies
    <3>2. QED
      BY <3>1
  <2>3. QED
    BY <2>1, <2>2 DEF Copies
<1>5. before' \in 0..Len(wire')
  BY <1>1, <1>2
<1>6. QED
  BY <1>3, <1>4, <1>5

(* A request that is sent takes the last place; when it is a report it is  *)
(* the only one, or the second.                                            *)
LEMMA SentCopies ==
  ASSUME wire \in Seq(Requests), before \in 0..Len(wire), Counted,
         NEW m \in Requests, wire' = Append(wire, m)
  PROVE  /\ before' \in 0..Len(wire') /\ Taken < 0 /\ wire'[Len(wire')] = m
         /\ m # "NOTIFY" /\ Copies(wire, before) => Copies(wire', before')
         /\ m # "NOTIFY" /\ InFlight("NOTIFY", wire) = {} => InFlight("NOTIFY", wire') = {}
         /\ InFlight("NOTIFY", wire) = {} => Copies(wire', before')
<1>1. /\ Len(wire) \in Nat /\ Len(wire') = Len(wire) + 1 /\ wire'[Len(wire) + 1] = m
      /\ \A i \in 1..Len(wire) : wire'[i] = wire[i]
  OBVIOUS
<1>2. Taken = -1 /\ before' = before
  <2>1. Taken = -1
    BY <1>1 DEF Taken
  <2>2. QED
    BY <2>1 DEF Counted
<1>3. ASSUME NEW i \in InFlight("NOTIFY", wire')
      PROVE  i \in InFlight("NOTIFY", wire) \/ (m = "NOTIFY" /\ i = Len(wire) + 1)
  BY <1>1, <1>3 DEF InFlight
<1>4. m # "NOTIFY" /\ Copies(wire, before) => Copies(wire', before')
  BY <1>2, <1>3 DEF Copies
<1>5. ASSUME InFlight("NOTIFY", wire) = {} PROVE Copies(wire', before')
  <2>1. \A i \in InFlight("NOTIFY", wire') : i = Len(wire) + 1
    BY <1>3, <1>5
  <2>2. Len(wire) + 1 > before'
    BY <1>1, <1>2
  <2>3. QED
    BY <2>1, <2>2 DEF Copies
<1>6. m # "NOTIFY" /\ InFlight("NOTIFY", wire) = {} => InFlight("NOTIFY", wire') = {}
  BY <1>3
<1>7. before' \in 0..Len(wire') /\ Taken < 0 /\ wire'[Len(wire')] = m
  BY <1>1, <1>2
<1>8. QED
  BY <1>4, <1>5, <1>6, <1>7

(* A step of anything but the application: the report of the result can    *)
(* only be read, and when two copies have been about they may be gone.     *)
LEMMA LedgerFrame ==
  ASSUME LedgerInv, Observe, phase' = phase
  PROVE  /\ Counted
         /\ report' \in (IF phase' = "result" THEN {"due", "delivered"} ELSE {"none"})
         /\ report = "delivered" => report' = "delivered"
         /\ report = "due" /\ ReportRead => report' = "delivered"
         /\ before' \in 0..Len(wire') /\ (twice' \/ twice \/ SingleReport') => LedgerInv'
<1>1. ~Finishes /\ ~Leaves
  BY DEF Finishes, Leaves
<1>2. Counted
  BY <1>1 DEF Observe, Counted
<1>3. report' = IF report = "due" /\ ReportRead THEN "delivered" ELSE report
  BY <1>1 DEF Observe
<1>4. report' \in (IF phase' = "result" THEN {"due", "delivered"} ELSE {"none"})
  BY <1>3 DEF LedgerInv
<1>5. ASSUME before' \in 0..Len(wire'), twice' \/ twice \/ SingleReport'
      PROVE  LedgerInv'
  <2>1. CASE twice /\ ~twice'
    <3>1. Settled
      BY <2>1 DEF Observe
    <3>2. SingleReport'
      BY <3>1 DEF Settled, SingleReport, Rested, OneWay, Copies
    <3>3. QED
      BY <1>4, <1>5, <3>2 DEF LedgerInv
  <2>2. QED
    BY <1>4, <1>5, <2>1 DEF LedgerInv
<1>6. QED
  BY <1>2, <1>3, <1>4, <1>5

(* A step that has nothing to do with the report.                          *)
LEMMA LedgerQuiet ==
  ASSUME IInv, LedgerInv, Observe, phase' = phase,
         Drained \/ \E m \in Requests \ {"NOTIFY"} : wire' = Append(wire, m),
         msgSendId' = "NOTIFY" => msgSendId = "NOTIFY",
         "notifyResultFlag" \in networkEvent' => "notifyResultFlag" \in networkEvent,
         "notifyDoneFlag" \in eventFlags' => "notifyDoneFlag" \in eventFlags
  PROVE  LedgerInv'
<1>1. wire \in Seq(Requests) /\ before \in 0..Len(wire)
  BY DEF IInv, TypeOK, NetworkTypeOK, LedgerInv
<1>2. Counted /\ (report = "delivered" => report' = "delivered")
  BY LedgerFrame
<1>3. /\ before' \in 0..Len(wire')
      /\ Copies(wire, before) => Copies(wire', before')
      /\ InFlight("NOTIFY", wire) = {} => InFlight("NOTIFY", wire') = {}
  BY <1>1, <1>2, DrainedCopies, SentCopies
<1>4. SingleReport => SingleReport'
  BY <1>2, <1>3 DEF SingleReport, Rested, OneWay
<1>5. QED
  BY <1>3, <1>4, LedgerFrame DEF LedgerInv

(* A report is sent, or sent again, or the socket refuses it.              *)
LEMMA LedgerReport ==
  ASSUME IInv, LedgerInv, Observe, phase' = phase, eventFlags' = eventFlags,
         SendMsgHandle("NOTIFY"),
         \/ msgSendId = "NOTIFY" /\ networkEvent' = networkEvent
         \/ /\ "notifyResultFlag" \in networkEvent
            /\ networkEvent' = networkEvent \ {"notifyResultFlag"}
  PROVE  LedgerInv'
<1>1. wire \in Seq(Requests) /\ before \in 0..Len(wire)
  BY DEF IInv, TypeOK, NetworkTypeOK, LedgerInv
<1>2. Counted /\ (report = "delivered" => report' = "delivered")
  BY LedgerFrame
<1>3. wire' = wire \/ wire' = Append(wire, "NOTIFY")
  BY DEF SendMsgHandle, Transmit
<1>4. before' \in 0..Len(wire')
  <2>1. wire' = wire => Drained
    BY DEF Drained
  <2>2. "NOTIFY" \in Requests
    BY DEF Requests, MsgIds
  <2>3. QED
    BY <1>1, <1>2, <1>3, <2>1, <2>2, DrainedCopies, SentCopies
<1>5. ASSUME SingleReport PROVE twice' \/ SingleReport'
  <2>1. /\ msgSendId' = "NOTIFY" /\ phase' = "result"
        /\ "notifyResultFlag" \notin networkEvent' /\ "notifyDoneFlag" \notin eventFlags'
    BY <1>5 DEF SendMsgHandle, SingleReport, Rested, OneWay
  <2>2. CASE wire' = wire
    <3>1. Copies(wire', before')
      BY <1>1, <1>2, <1>5, <2>2, DrainedCopies DEF Drained, SingleReport
    <3>2. QED
      BY <2>1, <3>1 DEF SingleReport, OneWay
  <2>3. CASE wire' = Append(wire, "NOTIFY")
    <3>1. /\ Taken < 0 /\ wire'[Len(wire')] = "NOTIFY"
          /\ InFlight("NOTIFY", wire) = {} => Copies(wire', before')
      BY <1>1, <1>2, <2>3, SentCopies DEF Requests, MsgIds
    <3>2. InFlight("NOTIFY", wire) # {} => twice'
      BY <3>1 DEF Observe
    <3>3. QED
      BY <2>1, <3>1, <3>2 DEF SingleReport, OneWay
  <2>4. QED
    BY <1>3, <2>2, <2>3
<1>6. QED
  BY <1>4, <1>5, LedgerFrame DEF LedgerInv

(* The sending half of a turn.                                             *)
LEMMA LedgerSend ==
  ASSUME IInv, LedgerInv, Observe, phase' = phase, Transceive
  PROVE  LedgerInv'
<1> USE DEF netVars
<1>1. CASE OfflineSkip \/ NoRequest
  BY <1>1, LedgerQuiet DEF OfflineSkip, NoRequest, Drained
<1>2. ASSUME NEW m \in MsgIds \ {"NOTIFY"}, SendMsgHandle(m), eventFlags' = eventFlags,
             msgSendId \in {"INVALID", m}, networkEvent' \subseteq networkEvent
      PROVE  LedgerInv'
  <2>1. wire' = wire \/ wire' = Append(wire, m)
    BY <1>2 DEF SendMsgHandle, Transmit
  <2>2. Drained \/ \E n \in Requests \ {"NOTIFY"} : wire' = Append(wire, n)
    BY <1>2, <2>1 DEF Drained, Requests
  <2>3. "NOTIFY" \notin {msgSendId, msgSendId'}
    BY <1>2 DEF SendMsgHandle, MsgIds
  <2>4. QED
    BY <1>2, <2>2, <2>3, LedgerQuiet
<1>3. CASE Resend
  <2>1. msgSendId \in MsgIds
    BY <1>3 DEF Resend, IInv, TypeOK, NetworkTypeOK
  <2>2. CASE UNCHANGED <<msgSendId, wire, sinceSend>>
    BY <1>3, <2>2, LedgerQuiet DEF Resend, Drained
  <2>3. CASE SendMsgHandle(msgSendId)
    BY <1>2, <1>3, <2>1, <2>3, LedgerReport DEF Resend
  <2>4. QED
    BY <1>3, <2>2, <2>3 DEF Resend
<1>4. ASSUME NEW m \in MsgIds, StartRequest(m) PROVE LedgerInv'
  <2>1. /\ SendMsgHandle(m) /\ eventFlags' = eventFlags /\ msgSendId = "INVALID"
        /\ RequestFlag[m] \in networkEvent
        /\ networkEvent' = networkEvent \ {RequestFlag[m]}
    BY <1>4 DEF StartRequest, Selected
  <2>2. CASE m = "NOTIFY"
    BY <2>1, <2>2, LedgerReport DEF RequestFlag
  <2>3. CASE m # "NOTIFY"
    BY <1>2, <2>1, <2>3
  <2>4. QED
    BY <2>2, <2>3
<1>5. QED
  BY <1>1, <1>3, <1>4 DEF Transceive

(* The receiving half.  The answer to a report is read by the device in    *)
(* the step in which the server reads the report.                          *)
LEMMA LedgerReceive ==
  ASSUME IInv, LedgerInv, Observe, phase' = phase, Receive
  PROVE  LedgerInv'
<1> USE DEF netVars
<1>1. CASE ReceiveNothing
  BY <1>1, LedgerQuiet DEF ReceiveNothing, Drained
<1>2. ASSUME NEW k, NEW granted, ServerConsumes(k, granted)
      PROVE  Drained /\ k \in 1..Len(wire) /\ Taken = k
  <2>1. k \in 1..Len(wire) /\ wire' = SubSeq(wire, k + 1, Len(wire)) /\ wire \in Seq(Requests)
    BY <1>2 DEF ServerConsumes, IInv, TypeOK, NetworkTypeOK
  <2>2. Len(wire') = Len(wire) - k /\ Len(wire) \in Nat
    BY <2>1
  <2>3. QED
    BY <2>1, <2>2 DEF Drained, Taken
<1>3. ASSUME NEW k, NEW granted, ReceiveGarbage(k, granted) PROVE LedgerInv'
  BY <1>2, <1>3, LedgerQuiet DEF ReceiveGarbage
<1>4. ASSUME NEW k, NEW granted \in BOOLEAN, NEW r \in Reply, ReceiveReply(k, granted, r)
      PROVE  LedgerInv'
  <2>1. /\ Drained /\ k \in 1..Len(wire) /\ Taken = k
        /\ mainPc = "receive" /\ mainPc' = "gate"
    BY <1>2, <1>4 DEF ReceiveReply
  <2>2. PICK i \in 1..Len(wire) : i <= k /\ (OwnReply(i, r) \/ HeartbeatReply(i, r))
    BY <1>4, ReplyEffect DEF IInv, TypeOK
  <2>3. "notifyResultFlag" \in networkEvent' => "notifyResultFlag" \in networkEvent
    BY <2>2 DEF OwnReply, HeartbeatReply
  <2>4. CASE ~(wire[i] = "NOTIFY" /\ r.code = "SUCCESS")
    <3>1. /\ msgSendId' = "NOTIFY" => msgSendId = "NOTIFY"
          /\ "notifyDoneFlag" \in eventFlags' => "notifyDoneFlag" \in eventFlags
      BY <2>2, <2>4 DEF OwnReply, HeartbeatReply
    <3>2. QED
      BY <2>1, <2>3, <3>1, LedgerQuiet
  <2>5. CASE wire[i] = "NOTIFY" /\ r.code = "SUCCESS"
    <3>1. wire \in Seq(Requests) /\ before \in 0..Len(wire) /\ Counted
      BY LedgerFrame DEF IInv, TypeOK, NetworkTypeOK, LedgerInv
    <3>2. before' \in 0..Len(wire') /\ (Copies(wire, before) => Copies(wire', before'))
      BY <2>1, <3>1, DrainedCopies
    <3>3. msgSendId' # "NOTIFY" /\ OwnReply(i, r)
      BY <2>2, <2>5 DEF OwnReply, HeartbeatReply
    <3>4. ASSUME SingleReport PROVE SingleReport'
      <4>1. i \in InFlight("NOTIFY", wire) /\ \A j \in InFlight("NOTIFY", wire) : i = j
        BY <2>5, <3>4 DEF InFlight, SingleReport, Copies
      <4>2. "notifyResultFlag" \notin networkEvent' /\ phase' = "result" /\ i > before
        BY <2>3, <3>4, <4>1 DEF SingleReport, Rested, OneWay, Copies
      <4>3. ReportRead
        <5>1. i \in (before + 1)..Taken
          BY <2>1, <2>2, <3>1, <4>2
        <5>2. QED
          BY <2>1, <2>5, <5>1 DEF ReportRead
      <4>4. report' = "delivered"
        BY <4>2, <4>3, LedgerFrame DEF LedgerInv
      <4>5. InFlight("NOTIFY", wire') = {}
        <5>1. wire' = SubSeq(wire, k + 1, Len(wire))
          BY <1>4 DEF ReceiveReply, ServerConsumes
        <5>2. SUFFICES ASSUME NEW j \in InFlight("NOTIFY", wire') PROVE FALSE
          OBVIOUS
        <5>3. j \in Nat \ {0} /\ j + k \in InFlight("NOTIFY", wire)
          BY <2>1, <3>1, <5>1, <5>2 DEF InFlight
        <5>4. QED
          BY <2>1, <2>2, <4>1, <5>3
      <4>6. QED
        BY <3>2, <3>4, <3>3, <4>2, <4>4, <4>5 DEF SingleReport, OneWay
    <3>5. QED
      BY <3>2, <3>4, LedgerFrame DEF LedgerInv
  <2>6. QED
    BY <2>4, <2>5
<1>5. QED
  BY <1>1, <1>3, <1>4 DEF Receive

(* Only the application makes a result, and leaves it.                     *)
LEMMA LedgerApplication ==
  ASSUME IInv, LedgerInv, Observe, UpdateDeviceStatus
  PROVE  LedgerInv' /\ (Leaves => report = "delivered" \/ twice)
<1>1. UNCHANGED <<msgSendId, wire>> /\ wire \in Seq(Requests) /\ Len(wire) \in Nat
  BY DEF UpdateDeviceStatus, IInv, TypeOK, NetworkTypeOK
<1>2. Drained /\ Taken = 0 /\ ~ReportRead
  BY <1>1 DEF Drained, Taken, ReportRead, UpdateDeviceStatus
<1>3. CASE Wait \/ StartJob
  <2>1. phase' = phase \/ (phase = "idle" /\ phase' = "job")
    BY <1>3 DEF Wait, StartJob
  <2>2. /\ networkEvent' = networkEvent
        /\ "notifyDoneFlag" \in eventFlags' => "notifyDoneFlag" \in eventFlags
    BY <1>3 DEF Wait, StartJob
  <2>3. CASE phase' = phase
    BY <1>1, <1>2, <2>2, <2>3, LedgerQuiet DEF Leaves
  <2>4. CASE phase = "idle" /\ phase' = "job"
    <3>1. ~Finishes /\ ~Leaves
      BY <2>4 DEF Finishes, Leaves
    <3>2. before' = before /\ report' = report /\ report = "none"
      BY <1>2, <2>4, <3>1 DEF Observe, LedgerInv
    <3>3. SingleReport => SingleReport'
      BY <1>1, <2>2, <2>4, <3>2 DEF SingleReport, Rested, OneWay
    <3>4. twice /\ ~twice' => SingleReport'
      BY DEF Observe, Settled, SingleReport, Rested, OneWay, Copies
    <3>5. QED
      BY <1>1, <2>4, <3>1, <3>2, <3>3, <3>4 DEF LedgerInv
  <2>5. QED
    BY <2>1, <2>3, <2>4
<1>4. CASE FinishJob
  <2>1. /\ phase = "job" /\ phase' = "result" /\ Finishes /\ ~Leaves
        /\ "notifyDoneFlag" \in eventFlags' => "notifyDoneFlag" \in eventFlags
    BY <1>4 DEF FinishJob, Finishes, Leaves
  <2>2. before' = Len(wire) /\ report' = "due"
    BY <1>2, <2>1 DEF Observe
  <2>3. SingleReport => SingleReport'
    BY <1>1, <2>1, <2>2 DEF SingleReport, Rested, OneWay, Copies
  <2>4. twice /\ ~twice' => SingleReport'
    BY DEF Observe, Settled, SingleReport, Rested, OneWay, Copies
  <2>5. QED
    BY <1>1, <2>1, <2>2, <2>3, <2>4 DEF LedgerInv
<1>5. CASE LeaveResult
  <2>1. /\ phase = "result" /\ phase' = "idle" /\ Leaves /\ ~Finishes
        /\ "notifyDoneFlag" \in eventFlags /\ "notifyDoneFlag" \notin eventFlags'
        /\ networkEvent' = networkEvent
    BY <1>5 DEF LeaveResult, Finishes, Leaves
  <2>2. before' = before /\ report' = "none"
    BY <1>2, <2>1 DEF Observe
  <2>3. SingleReport => report = "delivered" /\ SingleReport'
    BY <1>1, <2>1, <2>2 DEF SingleReport, Rested, OneWay, Copies
  <2>4. twice /\ ~twice' => SingleReport'
    BY DEF Observe, Settled, SingleReport, Rested, OneWay, Copies
  <2>5. QED
    BY <1>1, <2>1, <2>2, <2>3, <2>4 DEF LedgerInv
<1>6. QED
  BY <1>3, <1>4, <1>5 DEF UpdateDeviceStatus

(* Everything together.                                                    *)
LEMMA StepLedger ==
  ASSUME IInv, LedgerInv, [Next /\ Observe]_reportVars
  PROVE  LedgerInv' /\ (Leaves => report = "delivered" \/ twice)
<1> USE DEF netVars
<1>1. CASE UNCHANGED reportVars
  BY <1>1 DEF reportVars, sessionVars, vars, Leaves, LedgerInv, SingleReport, Rested,
              OneWay, Copies, InFlight
<1> SUFFICES ASSUME Next, Observe
             PROVE  LedgerInv' /\ (Leaves => report = "delivered" \/ twice)
  BY <1>1
<1>2. ASSUME NetworkStep \/ SwallowHeartbeat \/ Link \/ SysTickThread(Blocking),
             UNCHANGED phase
      PROVE  LedgerInv' /\ ~Leaves
  <2>1. phase' = phase /\ ~Leaves
    BY <1>2 DEF Leaves
  <2>2. CASE SkipNetwork \/ ConnectFails \/ ConnectSucceeds \/ Redial
    BY <2>1, <2>2, LedgerQuiet DEF SkipNetwork, ConnectFails, ConnectSucceeds, WentOnline,
                                   Redial, CloseSocket, Drained
  <2>3. CASE Heartbeat
    <3>1. wire' = wire \/ wire' = Append(wire, "HEARTBEAT")
      BY <2>3 DEF Heartbeat, Transmit
    <3>2. Drained \/ \E m \in Requests \ {"NOTIFY"} : wire' = Append(wire, m)
      BY <3>1 DEF Drained, Requests, MsgIds
    <3>3. /\ msgSendId' = msgSendId /\ eventFlags' = eventFlags
          /\ "notifyResultFlag" \in networkEvent' => "notifyResultFlag" \in networkEvent
      BY <2>3 DEF Heartbeat, WentOffline
    <3>4. QED
      BY <2>1, <3>2, <3>3, LedgerQuiet
  <2>4. CASE Transceive \/ Receive
    BY <2>1, <2>4, LedgerSend, LedgerReceive
  <2>5. CASE SwallowHeartbeat
    <3>1. Len(wire) \in Nat /\ Len(wire) > 0 /\ wire' = SubSeq(wire, 2, Len(wire))
      BY <2>5 DEF SwallowHeartbeat, IInv, TypeOK, NetworkTypeOK
    <3>2. 1 \in 1..Len(wire) /\ wire' = SubSeq(wire, 1 + 1, Len(wire))
      BY <3>1
    <3>3. Drained
      BY <3>2 DEF Drained
    <3>4. QED
      BY <2>1, <2>5, <3>3, LedgerQuiet DEF SwallowHeartbeat
  <2>6. CASE Link
    BY <2>1, <2>6, LedgerQuiet DEF Link, LinkStalls, LinkResumes, PeerResets, LinkChange,
                                   Drained
  <2>7. CASE SysTickThread(Blocking)
    BY <2>1, <2>7, LedgerQuiet DEF SysTickThread, Tick, TickTest, TickRaise, Drained
  <2>8. QED
    BY <1>2, <2>1, <2>2, <2>3, <2>4, <2>5, <2>6, <2>7 DEF NetworkStep, CheckNetwork
<1>3. CASE PressSw2
  BY <1>3, LedgerQuiet DEF PressSw2, Drained, Leaves
<1>4. CASE UpdateDeviceStatus
  BY <1>4, LedgerApplication
<1>5. QED
  BY <1>2, <1>3, <1>4 DEF Next

(* A result is left only once the server has read its report, whatever is  *)
(* lost, resent or delayed, unless two copies of a report were about.      *)
THEOREM ResultsAreDelivered == ReportSpec => LeftOnceDelivered
<1>1. ReportInit => Init /\ LedgerInv
  BY DEF ReportInit, Init, NetworkInit, FreshSession, LedgerInv, SingleReport, Rested,
         OneWay, Copies, InFlight
<1>2. [Next /\ Observe]_reportVars => [Next]_sessionVars
  BY DEF reportVars
<1>3. IInv /\ LedgerInv /\ [Next /\ Observe]_reportVars => LedgerInv'
  BY StepLedger
<1>4. IInv /\ LedgerInv /\ [Next /\ Observe]_reportVars
        => [Leaves => report = "delivered" \/ twice]_reportVars
  BY StepLedger
<1>5. QED
  BY <1>1, <1>2, <1>3, <1>4, InitIInv, StepIInv, PTL DEF ReportSpec, LeftOnceDelivered
===============================================================================
