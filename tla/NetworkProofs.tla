---------------------------- MODULE NetworkProofs ----------------------------
(***************************************************************************)
(* Lemmas about the actions of Network.tla that hold in every program      *)
(* built from them: types, the session they keep and what a reply does.    *)
(* SessionProofs and OnlineProgramProofs cite them for the steps they      *)
(* share.                                                                  *)
(***************************************************************************)
EXTENDS Network, SequenceTheorems, TLAPS

(* The network's own state starts within its types.                        *)
LEMMA InitTypes ==
  ASSUME NetworkInit, deviceMode \in Modes, eventFlags \subseteq EventFlags
  PROVE  NetworkTypeOK
<1> USE NetworkAssumption DEF NetworkAssumption, NetworkInit
<1>1. wire \in Seq(Requests) /\ Len(wire) <= MaxInFlight
  OBVIOUS
<1>2. systemTimer \in 0..(HEARTBEAT_PERIOD_S - 1) /\ sinceSend \in 0..MSG_RESEND_PERIOD_S
  OBVIOUS
<1>3. networkEvent \subseteq NetworkEvents /\ eventFlags \subseteq EventFlags
  BY DEF FreshSession, NetworkEvents
<1>4. QED
  BY <1>1, <1>2, <1>3 DEF NetworkTypeOK, Conns

(* Requests taken from the front of the wire leave a shorter wire of       *)
(* requests.                                                               *)
LEMMA ConsumedWire ==
  ASSUME NetworkTypeOK, NEW k, NEW granted \in BOOLEAN, ServerConsumes(k, granted)
  PROVE  /\ wire' \in Seq(Requests)
         /\ Len(wire') <= MaxInFlight
         /\ srvAuth' \in BOOLEAN
<1>1. k \in 1..Len(wire) /\ wire' = SubSeq(wire, k + 1, Len(wire))
  BY DEF ServerConsumes
<1>2. wire \in Seq(Requests) /\ Len(wire) \in Nat /\ Len(wire) <= MaxInFlight
  BY DEF NetworkTypeOK
<1>3. wire' \in Seq(Requests)
  BY <1>1, <1>2, SubSeqProperties
<1>4. Len(wire') <= MaxInFlight
  BY <1>1, <1>2, SubSeqProperties, NetworkAssumption DEF NetworkAssumption
<1>5. QED
  BY <1>3, <1>4 DEF ServerConsumes, NetworkTypeOK

(* An accepted send leaves a wire of requests within the buffers.          *)
LEMMA TransmittedWire ==
  ASSUME NetworkTypeOK, NEW m \in Requests, SendAccepted(m), Transmit(m)
  PROVE  wire' \in Seq(Requests) /\ Len(wire') <= MaxInFlight
<1>1. CASE Absorbed(m)
  BY <1>1 DEF Transmit, NetworkTypeOK
<1>2. CASE ~Absorbed(m)
  BY <1>2, NetworkAssumption
     DEF Transmit, SendAccepted, NetworkTypeOK, NetworkAssumption
<1>3. QED
  BY <1>1, <1>2

(* Every step of the network code on the main thread keeps the types.      *)
LEMMA NetworkStepTypes ==
  ASSUME NetworkTypeOK, NetworkStep
  PROVE  NetworkTypeOK'
<1> USE NetworkAssumption DEF NetworkAssumption, NetworkTypeOK, netVars, tickVars
<1>1. CASE SkipNetwork
  BY <1>1 DEF SkipNetwork
<1>2. CASE Redial
  BY <1>2 DEF Redial, CloseSocket, Conns
<1>3. CASE Heartbeat
  <2>1. networkEvent' \subseteq NetworkEvents
    BY <1>3 DEF Heartbeat, WentOffline, NetworkEvents
  <2>2. wire' \in Seq(Requests) /\ Len(wire') <= MaxInFlight
    BY <1>3, TransmittedWire DEF Heartbeat, Requests
  <2>3. QED
    BY <1>3, <2>1, <2>2 DEF Heartbeat
<1>4. CASE ConnectFails
  BY <1>4 DEF ConnectFails
<1>5. CASE ConnectSucceeds
  BY <1>5 DEF ConnectSucceeds, WentOnline, NetworkEvents, Conns
<1>6. CASE Transceive
  <2>1. CASE OfflineSkip \/ NoRequest
    BY <2>1 DEF OfflineSkip, NoRequest
  <2>2. CASE Resend
    BY <2>2, TransmittedWire DEF Resend, SendMsgHandle, Requests
  <2>3. ASSUME NEW m \in MsgIds, StartRequest(m) PROVE NetworkTypeOK'
    BY <2>3, TransmittedWire DEF StartRequest, SendMsgHandle, Requests
  <2>4. QED
    BY <1>6, <2>1, <2>2, <2>3 DEF Transceive
<1>7. CASE Receive
  <2>1. CASE ReceiveNothing
    BY <2>1 DEF ReceiveNothing
  <2>2. ASSUME NEW k \in 1..MaxInFlight, NEW granted \in BOOLEAN,
               ReceiveGarbage(k, granted)
        PROVE  NetworkTypeOK'
    <3>1. wire' \in Seq(Requests) /\ Len(wire') <= MaxInFlight /\ srvAuth' \in BOOLEAN
      BY <2>2, ConsumedWire DEF ReceiveGarbage
    <3>2. QED
      BY <2>2, <3>1 DEF ReceiveGarbage
  <2>3. ASSUME NEW k \in 1..MaxInFlight, NEW granted \in BOOLEAN, NEW r \in Reply,
               ReceiveReply(k, granted, r)
        PROVE  NetworkTypeOK'
    <3>1. wire' \in Seq(Requests) /\ Len(wire') <= MaxInFlight /\ srvAuth' \in BOOLEAN
      BY <2>3, ConsumedWire DEF ReceiveReply
    <3>2. PICK m : ParseRecvMsgInfo(m, r)
      BY <2>3 DEF ReceiveReply
    <3>3. networkEvent' \subseteq NetworkEvents /\ eventFlags' \subseteq EventFlags
      BY <3>2 DEF ParseRecvMsgInfo, NetworkEvents, EventFlags
    <3>4. uid' \in UIDs \cup {NoUid} /\ issued' \subseteq UIDs
      BY <3>2 DEF ParseRecvMsgInfo, Reply
    <3>5. msgSendId' \in MsgIds \cup {"INVALID"} /\ msgRecvId' \in MsgIds \cup {"INVALID"}
      BY <3>2 DEF ParseRecvMsgInfo
    <3>6. QED
      BY <2>3, <3>1, <3>3, <3>4, <3>5 DEF ReceiveReply
  <2>4. QED
    BY <1>7, <2>1, <2>2, <2>3 DEF Receive
<1>8. QED
  BY <1>1, <1>2, <1>3, <1>4, <1>5, <1>6, <1>7 DEF NetworkStep, CheckNetwork

(* So do the link, the server and the timer thread.                        *)
LEMMA SurroundingsTypes ==
  ASSUME NetworkTypeOK, NEW B,
         SwallowHeartbeat \/ Link \/ SysTickThread(B)
  PROVE  NetworkTypeOK'
<1> USE NetworkAssumption DEF NetworkAssumption, NetworkTypeOK, tickVars
<1>1. CASE SwallowHeartbeat
  BY <1>1 DEF SwallowHeartbeat
<1>2. ASSUME NEW from \in Conns, NEW to \in Conns, LinkChange(from, to)
      PROVE  NetworkTypeOK'
  BY <1>2 DEF LinkChange
<1>3. CASE Link
  BY <1>2, <1>3 DEF Link, LinkStalls, LinkResumes, PeerResets, Conns
<1>4. CASE Tick(B)
  BY <1>4 DEF Tick
<1>5. CASE TickTest(B)
  BY <1>5 DEF TickTest, netVars
<1>6. CASE TickRaise(B)
  BY <1>6 DEF TickRaise, NetworkEvents
<1>7. QED
  BY <1>1, <1>3, <1>4, <1>5, <1>6 DEF SysTickThread

-------------------------------------------------------------------------------
(* The dial is made without a socket and with nothing in flight by a       *)
(* device that knows it is offline, the receive call by one that believes  *)
(* it is online.                                                           *)
SocketUse ==
  /\ mainPc = "dial" => conn = "closed" /\ wire = <<>> /\ "offlineFlag" \in networkEvent
  /\ mainPc = "receive" => "offlineFlag" \notin networkEvent

(* What keeps authorizePassFlag honest: AuthIsCurrent alone is not         *)
(* inductive, for a dial could then find the flag set.                     *)
SessionInv == NetworkTypeOK /\ OfflineNotAuthorized /\ AuthIsCurrent /\ SocketUse

(* A turn of checkNetwork and msgTransceiverHandle keeps authorisation     *)
(* tied to the present connection.                                         *)
LEMMA NetworkStepSession ==
  ASSUME SessionInv, NetworkStep
  PROVE  SessionInv'
<1> USE DEF SessionInv, OfflineNotAuthorized, AuthIsCurrent, SocketUse, netVars, tickVars
<1>1. NetworkTypeOK'
  BY NetworkStepTypes
<1>2. CASE SkipNetwork \/ ConnectFails
  BY <1>1, <1>2 DEF SkipNetwork, ConnectFails
<1>3. CASE Redial
  BY <1>1, <1>3 DEF Redial, CloseSocket
<1>4. CASE Heartbeat
  BY <1>1, <1>4 DEF Heartbeat, WentOffline
<1>5. CASE ConnectSucceeds
  BY <1>1, <1>5 DEF ConnectSucceeds, WentOnline
<1>6. CASE Transceive
  <2>1. CASE OfflineSkip \/ NoRequest \/ Resend
    BY <1>1, <2>1 DEF OfflineSkip, NoRequest, Resend
  <2>2. ASSUME NEW m \in MsgIds, StartRequest(m) PROVE SessionInv'
    <3>1. RequestFlag[m] \notin {"offlineFlag", "authorizePassFlag"}
      BY DEF RequestFlag, MsgIds
    <3>2. QED
      BY <1>1, <2>2, <3>1 DEF StartRequest
  <2>3. QED
    BY <1>6, <2>1, <2>2 DEF Transceive
<1>7. CASE Receive
  <2>1. CASE ReceiveNothing
    BY <1>1, <2>1 DEF ReceiveNothing
  <2>2. ASSUME NEW k \in 1..MaxInFlight, NEW granted \in BOOLEAN,
               ReceiveGarbage(k, granted)
        PROVE  SessionInv'
    BY <1>1, <2>2 DEF ReceiveGarbage, ServerConsumes
  <2>3. ASSUME NEW k \in 1..MaxInFlight, NEW granted \in BOOLEAN, NEW r \in Reply,
               ReceiveReply(k, granted, r)
        PROVE  SessionInv'
    <3>1. PICK i \in 1..k : /\ wire[i] = "AUTH" /\ r.code = "SUCCESS" => granted
                            /\ ParseRecvMsgInfo(wire[i], r)
      BY <2>3 DEF ReceiveReply
    <3>2. srvAuth' = (srvAuth \/ granted)
      BY <2>3 DEF ReceiveReply, ServerConsumes
    <3>3. \/ networkEvent' = networkEvent
          \/ networkEvent' = networkEvent \cup {"authorizePassFlag"} /\ srvAuth'
      <4>1. CASE Authorizes(wire[i], r)
        BY <3>1, <3>2, <4>1 DEF ParseRecvMsgInfo, Authorizes
      <4>2. CASE ~Authorizes(wire[i], r)
        BY <3>1, <4>2 DEF ParseRecvMsgInfo
      <4>3. QED
        BY <4>1, <4>2
    <3>4. "offlineFlag" \notin networkEvent /\ mainPc' = "gate" /\ conn' = conn
      BY <2>3 DEF ReceiveReply
    <3>5. QED
      BY <1>1, <3>2, <3>3, <3>4
  <2>4. QED
    BY <1>7, <2>1, <2>2, <2>3 DEF Receive
<1>8. QED
  BY <1>2, <1>3, <1>4, <1>5, <1>6, <1>7 DEF NetworkStep, CheckNetwork

(* So do the timer thread, the link and the server on their own.           *)
LEMMA SurroundingsSession ==
  ASSUME SessionInv, NEW B,
         SwallowHeartbeat \/ Link \/ SysTickThread(B)
  PROVE  SessionInv'
<1> USE DEF SessionInv, OfflineNotAuthorized, AuthIsCurrent, SocketUse, tickVars
<1>1. NetworkTypeOK'
  BY SurroundingsTypes
<1>2. CASE SwallowHeartbeat
  BY <1>1, <1>2 DEF SwallowHeartbeat
<1>3. CASE Link
  BY <1>1, <1>3 DEF Link, LinkStalls, LinkResumes, PeerResets, LinkChange
<1>4. CASE SysTickThread(B)
  BY <1>1, <1>4 DEF SysTickThread, Tick, TickTest, TickRaise, netVars
<1>5. QED
  BY <1>2, <1>3, <1>4

-------------------------------------------------------------------------------
(* What parseRecvMsgInfo makes of the answer to request i, when it is one  *)
(* of AUTH, GET_UID and NOTIFY.                                            *)
OwnReply(i, r) ==
  /\ wire[i] \in MsgIds
  /\ IF wire[i] = "AUTH" /\ r.code = "SUCCESS"
       THEN networkEvent' = networkEvent \cup {"authorizePassFlag"}
       ELSE networkEvent' = networkEvent
  /\ IF wire[i] = msgSendId /\ r.code = "SUCCESS"
       THEN msgSendId' = "INVALID" /\ msgRecvId' = "INVALID"
       ELSE msgSendId' = msgSendId /\ msgRecvId' = wire[i]
  /\ "notifyDoneFlag" \in eventFlags' <=>
       "notifyDoneFlag" \in eventFlags \/ (wire[i] = "NOTIFY" /\ r.code = "SUCCESS")

(* And of the answer to a heartbeat.                                       *)
HeartbeatReply(i, r) ==
  /\ HeartbeatAcked /\ wire[i] = "HEARTBEAT"
  /\ UNCHANGED networkEvent
  /\ IF msgRecvId = msgSendId /\ r.code = "SUCCESS"
       THEN msgSendId' = "INVALID" /\ msgRecvId' = "INVALID"
       ELSE UNCHANGED <<msgSendId, msgRecvId>>
  /\ "notifyDoneFlag" \in eventFlags' <=> "notifyDoneFlag" \in eventFlags

(* A reply belongs to one request in flight; it settles the pending        *)
(* request when it is that one, authorises when it is AUTH, and            *)
(* acknowledges the report when it is NOTIFY; the reply to a heartbeat     *)
(* settles the request whose answer has been read before it.               *)
LEMMA ReplyEffect ==
  ASSUME NetworkTypeOK,
         NEW k, NEW granted \in BOOLEAN, NEW r \in Reply, ReceiveReply(k, granted, r)
  PROVE  \E i \in 1..Len(wire) : i <= k /\ (OwnReply(i, r) \/ HeartbeatReply(i, r))
<1>1. PICK i \in 1..k : FirstAnswered(i) /\ ParseRecvMsgInfo(wire[i], r)
  BY DEF ReceiveReply
<1>2. i \in 1..Len(wire) /\ i <= k
  BY DEF ReceiveReply, ServerConsumes, NetworkTypeOK
<1>3. wire[i] \in MsgIds \/ (wire[i] = "HEARTBEAT" /\ HeartbeatAcked)
  <2>1. wire[i] \in Requests
    BY <1>2 DEF NetworkTypeOK
  <2>2. QED
    BY <1>1, <2>1 DEF FirstAnswered, Silent, Requests
<1>4. "notifyDoneFlag" \in eventFlags' <=>
        "notifyDoneFlag" \in eventFlags \/ (wire[i] = "NOTIFY" /\ r.code = "SUCCESS")
  BY <1>1 DEF ParseRecvMsgInfo
<1>5. CASE wire[i] \in MsgIds
  <2>1. IF wire[i] = "AUTH" /\ r.code = "SUCCESS"
          THEN networkEvent' = networkEvent \cup {"authorizePassFlag"}
          ELSE networkEvent' = networkEvent
    <3>1. CASE wire[i] = "AUTH" /\ r.code = "SUCCESS"
      BY <1>1, <3>1 DEF ParseRecvMsgInfo, Authorizes
    <3>2. CASE ~(wire[i] = "AUTH" /\ r.code = "SUCCESS")
      BY <1>1, <3>2 DEF ParseRecvMsgInfo, Authorizes
    <3>3. QED
      BY <3>1, <3>2
  <2>2. IF wire[i] = msgSendId /\ r.code = "SUCCESS"
          THEN msgSendId' = "INVALID" /\ msgRecvId' = "INVALID"
          ELSE msgSendId' = msgSendId /\ msgRecvId' = wire[i]
    BY <1>1, <1>5 DEF ParseRecvMsgInfo, Clears
  <2>3. QED
    BY <1>2, <1>4, <1>5, <2>1, <2>2 DEF OwnReply
<1>6. CASE wire[i] = "HEARTBEAT" /\ HeartbeatAcked
  <2>1. networkEvent' = networkEvent
    BY <1>1, <1>6 DEF ParseRecvMsgInfo, Authorizes
  <2>2. IF msgRecvId = msgSendId /\ r.code = "SUCCESS"
          THEN msgSendId' = "INVALID" /\ msgRecvId' = "INVALID"
          ELSE UNCHANGED <<msgSendId, msgRecvId>>
    BY <1>1, <1>6 DEF ParseRecvMsgInfo, Clears, MsgIds
  <2>3. "notifyDoneFlag" \in eventFlags' <=> "notifyDoneFlag" \in eventFlags
    BY <1>4, <1>6
  <2>4. QED
    BY <1>2, <1>6, <2>1, <2>2, <2>3 DEF HeartbeatReply
<1>7. QED
  BY <1>3, <1>5, <1>6

-------------------------------------------------------------------------------
(* What is taken from the buffers puts no question on the line.            *)
LEMMA LineDrained ==
  ASSUME wire \in Seq(Requests), NEW k \in 1..Len(wire),
         wire' = SubSeq(wire, k + 1, Len(wire))
  PROVE  OnLine(wire') \in SUBSET OnLine(wire)
<1>1. /\ Len(wire) \in Nat /\ Len(wire') = Len(wire) - k
      /\ \A i \in 1..Len(wire') : wire'[i] = wire[i + k] /\ i + k \in 1..Len(wire)
  OBVIOUS
<1>2. SUFFICES ASSUME NEW m \in OnLine(wire') PROVE m \in OnLine(wire)
  OBVIOUS
<1>3. PICK i \in 1..Len(wire') : wire'[i] = m
  BY <1>2 DEF OnLine
<1>4. wire[i + k] = m /\ i + k \in 1..Len(wire)
  BY <1>1, <1>3
<1>5. QED
  BY <1>2, <1>4 DEF OnLine

(* What is sent puts itself on the line, and a heartbeat nothing.          *)
LEMMA LineSent ==
  ASSUME NetworkTypeOK, NEW m \in Requests, Transmit(m)
  PROVE  OnLine(wire') = OnLine(wire) \/ (m \in MsgIds /\ OnLine(wire') = OnLine(wire) \cup {m})
<1>1. CASE Absorbed(m)
  BY <1>1 DEF Transmit
<1>2. CASE ~Absorbed(m)
  <2>1. wire' = Append(wire, m) /\ wire \in Seq(Requests)
    BY <1>2 DEF Transmit, NetworkTypeOK
  <2>2. /\ Len(wire) \in Nat /\ Len(wire') = Len(wire) + 1 /\ wire'[Len(wire) + 1] = m
        /\ \A i \in 1..Len(wire) : wire'[i] = wire[i]
    BY <2>1
  <2>3. ASSUME NEW n \in MsgIds
        PROVE  n \in OnLine(wire') <=> n \in OnLine(wire) \/ n = m
    <3>1. (\E i \in 1..Len(wire') : wire'[i] = n) <=>
            (\E i \in 1..Len(wire) : wire[i] = n) \/ n = m
      BY <2>2
    <3>2. QED
      BY <3>1 DEF OnLine
  <2>4. OnLine(wire) \subseteq MsgIds /\ OnLine(wire') \subseteq MsgIds
    BY DEF OnLine
  <2>5. QED
    BY <2>3, <2>4
<1>3. QED
  BY <1>1, <1>2

(* A session starts without a connection and with nothing in flight.       *)
LEMMA InitPromise == NetworkInit => Promised!Init
BY DEF NetworkInit, FreshSession, Promised!Init, Believed, OnLine

PromiseVars == <<Believed, msgSendId, OnLine(wire), msgRecvId>>

(* The sending half of a turn asks, repeats or does nothing.               *)
LEMMA SendPromise ==
  ASSUME SessionInv, Transceive
  PROVE  Promised!Next \/ UNCHANGED PromiseVars
<1> USE DEF SessionInv, netVars
<1>1. CASE OfflineSkip \/ NoRequest
  BY <1>1 DEF OfflineSkip, NoRequest, PromiseVars, Believed
<1>2. ASSUME NEW m \in MsgIds, SendMsgHandle(m)
      PROVE  OnLine(wire') \in {OnLine(wire), OnLine(wire) \cup {m}}
  BY <1>2, LineSent DEF SendMsgHandle, Requests
<1>3. CASE Resend
  <2>1. "offlineFlag" \notin networkEvent /\ msgSendId \in MsgIds /\ msgSendId # "INVALID"
        /\ UNCHANGED <<networkEvent, msgRecvId>>
    BY <1>3 DEF Resend, NetworkTypeOK
  <2>2. CASE UNCHANGED <<msgSendId, wire, sinceSend>>
    BY <2>1, <2>2 DEF PromiseVars, Believed
  <2>3. CASE SendMsgHandle(msgSendId)
    <3>1. msgSendId' = msgSendId /\ Believed' = Believed /\ Believed # "down"
      BY <2>1, <2>3 DEF SendMsgHandle, Believed
    <3>2. Promised!Repeat
      BY <1>2, <2>1, <2>3, <3>1 DEF Promised!Repeat, Promised!Send
    <3>3. QED
      BY <3>2 DEF Promised!Next
  <2>4. QED
    BY <1>3, <2>2, <2>3 DEF Resend
<1>4. ASSUME NEW m \in MsgIds, StartRequest(m) PROVE Promised!Next
  <2>1. /\ msgSendId = "INVALID" /\ msgSendId' = m /\ Selected(m) /\ SendMsgHandle(m)
        /\ "offlineFlag" \notin networkEvent /\ msgRecvId' = msgRecvId
        /\ networkEvent' = networkEvent \ {RequestFlag[m]}
    BY <1>4 DEF StartRequest, SendMsgHandle
  <2>2. RequestFlag[m] \notin {"offlineFlag", "authorizePassFlag"}
        /\ (m # "AUTH" => RequestFlag[m] # "authorizeReqFlag")
    BY DEF RequestFlag, MsgIds
  <2>3. IF m = "AUTH" THEN "authorizeReqFlag" \in networkEvent
                      ELSE "authorizeReqFlag" \notin networkEvent
    BY <2>1 DEF Selected, Precedes, RequestFlag, MsgIds
  <2>4. Believed' = Believed /\ Believed # "down"
    BY <2>1, <2>2, <2>3 DEF Believed
  <2>5. m # "AUTH" => Believed \in {"authorised", "givenUp"}
    BY <2>1, <2>3 DEF Believed
  <2>6. Promised!Ask(m)
    BY <1>2, <2>1, <2>4, <2>5 DEF Promised!Ask, Promised!Send
  <2>7. QED
    BY <2>6 DEF Promised!Next
<1>5. QED
  BY <1>1, <1>3, <1>4 DEF Transceive

(* The answer to a question settles it or is noted.                        *)
LEMMA OwnReplyPromise ==
  ASSUME NetworkTypeOK, "offlineFlag" \notin networkEvent, NEW r \in Reply,
         NEW i \in 1..Len(wire), OwnReply(i, r), OnLine(wire') \in SUBSET OnLine(wire)
  PROVE  Promised!Next
<1> USE DEF OwnReply
<1>1. wire[i] \in OnLine(wire) /\ wire[i] \in MsgIds
  BY DEF OnLine
<1>2. "offlineFlag" \notin networkEvent' /\ Believed # "down"
  BY DEF Believed
<1>3. CASE wire[i] = msgSendId /\ r.code = "SUCCESS"
  <2>1. msgSendId' = "INVALID" /\ msgRecvId' = "INVALID"
    BY <1>3
  <2>2. Believed' = IF msgSendId = "AUTH" THEN "authorised" ELSE Believed
    BY <1>2, <1>3, <2>1 DEF Believed
  <2>3. Promised!Settle(msgSendId)
    BY <1>1, <1>2, <1>3, <2>1, <2>2 DEF Promised!Settle
  <2>4. QED
    BY <1>1, <1>3, <2>3 DEF Promised!Next
<1>4. CASE ~(wire[i] = msgSendId /\ r.code = "SUCCESS")
  <2>1. msgSendId' = msgSendId /\ msgRecvId' = wire[i]
    BY <1>4
  <2>2. CASE wire[i] = "AUTH" /\ r.code = "SUCCESS"
    <3>1. Believed' = "authorised" /\ msgSendId # "AUTH"
      BY <1>2, <1>4, <2>2 DEF Believed
    <3>2. Promised!Note(wire[i])
      BY <1>1, <1>2, <2>1, <2>2, <3>1 DEF Promised!Note
    <3>3. QED
      BY <1>1, <3>2 DEF Promised!Next
  <2>3. CASE ~(wire[i] = "AUTH" /\ r.code = "SUCCESS")
    <3>1. Believed' = Believed
      BY <2>1, <2>3 DEF Believed
    <3>2. Promised!Note(wire[i])
      BY <1>1, <1>2, <2>1, <3>1 DEF Promised!Note
    <3>3. QED
      BY <1>1, <3>2 DEF Promised!Next
  <2>4. QED
    BY <2>2, <2>3
<1>5. QED
  BY <1>3, <1>4

(* The answer to a heartbeat gives up a question or changes nothing.       *)
LEMMA HeartbeatReplyPromise ==
  ASSUME "offlineFlag" \notin networkEvent, NEW r, NEW i, HeartbeatReply(i, r),
         OnLine(wire') \in SUBSET OnLine(wire)
  PROVE  Promised!Next
<1> USE DEF HeartbeatReply
<1>1. networkEvent' = networkEvent /\ Believed # "down"
  BY DEF Believed
<1>2. CASE msgSendId = "INVALID" \/ ~(msgRecvId = msgSendId /\ r.code = "SUCCESS")
  <2>1. UNCHANGED <<msgSendId, msgRecvId>>
    BY <1>2
  <2>2. Promised!Drop
    BY <1>1, <2>1 DEF Promised!Drop, Believed
  <2>3. QED
    BY <2>2 DEF Promised!Next
<1>3. CASE msgSendId # "INVALID" /\ msgRecvId = msgSendId /\ r.code = "SUCCESS"
  <2>1. msgSendId' = "INVALID" /\ msgRecvId' = "INVALID"
    BY <1>3
  <2>2. Believed' = Believed \/ (msgSendId = "AUTH" /\ Believed = "up" /\ Believed' = "givenUp")
    BY <1>1, <2>1 DEF Believed
  <2>3. Promised!Abandon
    BY <1>1, <1>3, <2>1, <2>2 DEF Promised!Abandon
  <2>4. QED
    BY <2>3 DEF Promised!Next
<1>4. QED
  BY <1>2, <1>3

(* What a network step does to the session.                                *)
LEMMA NetworkPromise ==
  ASSUME SessionInv, NetworkStep
  PROVE  Promised!Next \/ UNCHANGED PromiseVars
<1> USE DEF SessionInv, netVars
<1>1. CASE SkipNetwork \/ ConnectFails
  BY <1>1 DEF SkipNetwork, ConnectFails, PromiseVars, Believed
<1>2. CASE Redial
  <2>1. wire' = <<>> /\ UNCHANGED <<networkEvent, msgSendId, msgRecvId>>
    BY <1>2 DEF Redial, CloseSocket
  <2>2. Promised!Drop
    BY <2>1 DEF Promised!Drop, Believed, OnLine
  <2>3. QED
    BY <2>2 DEF Promised!Next
<1>3. CASE ConnectSucceeds
  <2>1. /\ "offlineFlag" \in networkEvent /\ "authorizePassFlag" \notin networkEvent
        /\ wire = <<>> /\ UNCHANGED <<msgSendId, msgRecvId, wire>>
        /\ networkEvent' = WentOnline
    BY <1>3 DEF ConnectSucceeds, SocketUse, OfflineNotAuthorized
  <2>2. Believed = "down" /\ Believed' = "up" /\ OnLine(wire) = {}
    BY <2>1 DEF Believed, WentOnline, OnLine
  <2>3. Promised!Connect
    BY <2>1, <2>2 DEF Promised!Connect
  <2>4. QED
    BY <2>3 DEF Promised!Next
<1>4. CASE Heartbeat
  <2>1. "offlineFlag" \notin networkEvent /\ UNCHANGED <<msgSendId, msgRecvId>>
    BY <1>4 DEF Heartbeat
  <2>2. OnLine(wire') = OnLine(wire)
    BY <1>4, LineSent DEF Heartbeat, Requests, MsgIds
  <2>3. CASE "offlineFlag" \in networkEvent'
    <3>1. Promised!Lose
      BY <2>1, <2>2, <2>3 DEF Promised!Lose, Believed
    <3>2. QED
      BY <3>1 DEF Promised!Next
  <2>4. CASE "offlineFlag" \notin networkEvent'
    <3>1. networkEvent' \in {networkEvent, networkEvent \ {"heartbeatFlag"}}
      BY <1>4, <2>4 DEF Heartbeat, WentOffline
    <3>2. QED
      BY <2>1, <2>2, <3>1 DEF PromiseVars, Believed
  <2>5. QED
    BY <2>3, <2>4
<1>5. CASE Receive
  <2>1. CASE ReceiveNothing
    BY <2>1 DEF ReceiveNothing, PromiseVars, Believed
  <2>2. ASSUME NEW k, NEW granted, ServerConsumes(k, granted)
        PROVE  OnLine(wire') \in SUBSET OnLine(wire)
    BY <2>2, LineDrained DEF ServerConsumes, NetworkTypeOK
  <2>3. ASSUME NEW k, NEW granted, ReceiveGarbage(k, granted) PROVE Promised!Next
    <3>1. Promised!Drop
      BY <2>2, <2>3 DEF ReceiveGarbage, Promised!Drop, Believed
    <3>2. QED
      BY <3>1 DEF Promised!Next
  <2>4. ASSUME NEW k, NEW granted \in BOOLEAN, NEW r \in Reply, ReceiveReply(k, granted, r)
        PROVE  Promised!Next
    <3>1. "offlineFlag" \notin networkEvent /\ OnLine(wire') \in SUBSET OnLine(wire)
      BY <2>2, <2>4 DEF ReceiveReply, SocketUse
    <3>2. PICK i \in 1..Len(wire) : OwnReply(i, r) \/ HeartbeatReply(i, r)
      BY <2>4, ReplyEffect
    <3>3. QED
      BY <3>1, <3>2, OwnReplyPromise, HeartbeatReplyPromise
  <2>5. QED
    BY <1>5, <2>1, <2>3, <2>4 DEF Receive
<1>6. QED
  BY <1>1, <1>2, <1>3, <1>4, <1>5, SendPromise DEF NetworkStep, CheckNetwork

(* The link, the server and the timer thread at most lose what is on the   *)
(* line.                                                                   *)
LEMMA SurroundingsPromise ==
  ASSUME SessionInv, NEW B, SwallowHeartbeat \/ Link \/ SysTickThread(B)
  PROVE  Promised!Next \/ UNCHANGED PromiseVars
<1> USE DEF SessionInv, netVars
<1>1. ASSUME UNCHANGED <<networkEvent, msgSendId, msgRecvId>>,
             OnLine(wire') \in SUBSET OnLine(wire)
      PROVE  Promised!Next
  <2>1. Promised!Drop
    BY <1>1 DEF Promised!Drop, Believed
  <2>2. QED
    BY <2>1 DEF Promised!Next
<1>2. CASE SwallowHeartbeat
  <2>1. /\ Len(wire) \in Nat /\ Len(wire) > 0 /\ wire' = SubSeq(wire, 2, Len(wire))
        /\ wire \in Seq(Requests)
    BY <1>2 DEF SwallowHeartbeat, NetworkTypeOK
  <2>2. 1 \in 1..Len(wire) /\ wire' = SubSeq(wire, 1 + 1, Len(wire))
    BY <2>1
  <2>3. QED
    BY <1>1, <1>2, <2>1, <2>2, LineDrained DEF SwallowHeartbeat
<1>3. CASE Link
  BY <1>1, <1>3 DEF Link, LinkStalls, LinkResumes, PeerResets, LinkChange, OnLine
<1>4. CASE SysTickThread(B)
  BY <1>4 DEF SysTickThread, Tick, TickTest, TickRaise, PromiseVars, Believed
<1>5. QED
  BY <1>2, <1>3, <1>4

(* AUTH is forgotten exactly when the abstract session has given it up,    *)
(* which takes a heartbeat that is answered.                               *)
LEMMA GivenUp ==
  /\ AuthNotForgotten <=> Believed # "givenUp"
  /\ ~HeartbeatAcked /\ Believed # "givenUp" /\ [Promised!Next]_PromiseVars
       => Believed' # "givenUp"
<1>1. AuthNotForgotten <=> Believed # "givenUp"
  BY DEF AuthNotForgotten, Believed
<1>2. ASSUME ~HeartbeatAcked, Believed # "givenUp", [Promised!Next]_PromiseVars
      PROVE  Believed' # "givenUp"
  BY <1>2 DEF Promised!Next, Promised!Connect, Promised!Lose, Promised!Repeat, Promised!Drop,
              Promised!Abandon, Promised!Ask, Promised!Settle, Promised!Note, PromiseVars
<1>3. QED
  BY <1>1, <1>2
===============================================================================
