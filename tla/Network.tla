------------------------------- MODULE Network -------------------------------
(***************************************************************************)
(* The network half of the firmware: checkNetwork and msgTransceiverHandle *)
(* of network.cpp, the heartbeat thread sysTickThread of OnlineProgram.cpp,*)
(* the TCP socket they share and the server at its other end.              *)
(*                                                                         *)
(* A C struct of bool flags is modelled by the set of the names of the     *)
(* flags that are true, so that "flag = true" is membership.  mainPc is    *)
(* the place the main thread has reached in one turn of its loop; tickPc   *)
(* is the place of sysTickThread.  The main thread has the higher          *)
(* priority, so sysTickThread moves only where the main thread can block.  *)
(***************************************************************************)
EXTENDS Integers, Sequences

CONSTANTS UIDs,                 \* identifiers the server can issue
          NoUid,                \* the empty string uid holds before the first reply
          HEARTBEAT_PERIOD_S,
          MSG_RESEND_PERIOD_S,
          MaxInFlight,          \* requests the TCP connection can buffer
          HeartbeatAcked,       \* does the server answer heartbeats?
          ServerRequiresAuth,   \* does it refuse requests before authorisation?
          Faults                \* the faults of the surroundings that can happen

ASSUME NetworkAssumption ==
  /\ NoUid \notin UIDs
  /\ HEARTBEAT_PERIOD_S \in Nat \ {0}
  /\ MSG_RESEND_PERIOD_S \in Nat
  /\ MaxInFlight \in Nat \ {0}
  /\ HeartbeatAcked \in BOOLEAN
  /\ ServerRequiresAuth \in BOOLEAN
  /\ Faults \subseteq {"stall", "reset"}

VARIABLES mainPc, tickPc,       \* control of the two threads
          deviceMode,           \* "CODE" or "UID"
          eventFlags,           \* flags of EVENT_FLAGS_T that are true
          networkEvent,         \* flags of NETWORK_EVENT_T that are true
          msgSendId, msgRecvId, \* the two live fields of msgHandle
          systemTimer,          \* systemTimer modulo the heartbeat period
          sinceSend,            \* systemTimer - sendMsgTime, up to the resend period
          uid,
          conn,                 \* tcpSock and the connection behind it
          wire,                 \* requests sent, not yet answered, oldest first
          srvAuth,              \* the server has authorised this connection
          issued                \* identifiers the server has handed out

netVars  == <<networkEvent, msgSendId, msgRecvId, sinceSend, uid, conn, wire,
              srvAuth, issued>>
tickVars == <<tickPc, systemTimer>>
vars     == <<mainPc, deviceMode, eventFlags, netVars, tickVars>>

Modes == {"CODE", "UID"}

EventFlags == {"binFileExsitFlag", "boardConnectedFlag", "startProgramFlag",
               "resetDevStatusFlag", "modeSwitchFlag", "UIDavailableFlag",
               "UIDProgramSuccessFlag", "notifyDoneFlag"}

NetworkEvents == {"authorizeReqFlag", "heartbeatFlag", "uidReqFlag",
                  "notifyResultFlag", "offlineFlag", "firstConnectFlag",
                  "authorizePassFlag"}

MsgIds   == {"AUTH", "GET_UID", "NOTIFY"}
Requests == MsgIds \cup {"HEARTBEAT"}

(* "closed": no socket.  "up": the server is reachable.  "stalled": the    *)
(* link is down and TCP still buffers.  "reset": the peer is gone and      *)
(* every send fails.                                                       *)
Conns == {"closed", "up", "stalled", "reset"}

(* Places of the main thread inside the network calls.  It can block on    *)
(* the socket in each of them.                                             *)
NetworkPcs == {"net", "dial", "transceive", "receive"}

(***************************************************************************)
(* initNetworkEvent: a fresh session, offline and never connected.         *)
(***************************************************************************)
FreshSession == {"offlineFlag", "firstConnectFlag"}

(* Mutant: authorizePassFlag is not cleared.                               *)
InitNetworkEventKeepsAuth ==
  networkEvent' = FreshSession \cup (networkEvent \cap {"authorizePassFlag"})

InitNetworkEvent == networkEvent' = FreshSession

NetworkInit ==
  /\ tickPc = "sleep"
  /\ networkEvent = FreshSession
  /\ msgSendId = "INVALID"
  /\ msgRecvId = "INVALID"
  /\ systemTimer = 0
  /\ sinceSend = 0
  /\ uid = NoUid
  /\ conn = "closed"
  /\ wire = <<>>
  /\ srvAuth = FALSE
  /\ issued = {}

(***************************************************************************)
(* The socket.  A send is accepted while there is a connection with room   *)
(* in its buffers; otherwise tcpSock.send returns a negative value.  A     *)
(* heartbeat that the server does not answer takes room only while the     *)
(* link is down: a server that can be reached reads it at once.            *)
(***************************************************************************)
Silent(m) == m = "HEARTBEAT" /\ ~HeartbeatAcked

Absorbed(m) == conn = "up" /\ Silent(m)

(* Mutant: the buffers of the connection never fill up.                    *)
SendAlwaysAccepted(m) == conn \in {"up", "stalled"}

SendAccepted(m) ==
  Absorbed(m) \/ (conn \in {"up", "stalled"} /\ Len(wire) < MaxInFlight)

Transmit(m) == wire' = IF Absorbed(m) THEN wire ELSE Append(wire, m)

(* Mutant: the call of tcpSock.close is missing.                           *)
CloseSocketSkipped == UNCHANGED <<conn, wire>>

CloseSocket == conn' = "closed" /\ wire' = <<>>

(***************************************************************************)
(* checkNetwork.  Offline, it closes the socket and dials again; online,   *)
(* it sends the heartbeat the timer thread asked for, and only the failure *)
(* of that send puts the device offline.                                   *)
(***************************************************************************)
WentOffline ==
  (networkEvent \ {"heartbeatFlag", "authorizePassFlag"}) \cup {"offlineFlag"}

(* Mutant: a new connection does not ask for authorisation.                *)
WentOnlineSilently == networkEvent \ {"firstConnectFlag", "offlineFlag"}

WentOnline ==
  (networkEvent \ {"firstConnectFlag", "offlineFlag"}) \cup {"authorizeReqFlag"}

SkipNetwork ==
  /\ mainPc = "net" /\ deviceMode # "UID"
  /\ mainPc' = "gate"
  /\ UNCHANGED <<netVars, eventFlags, deviceMode, tickVars>>

Redial ==
  /\ mainPc = "net" /\ deviceMode = "UID"
  /\ "offlineFlag" \in networkEvent
  /\ CloseSocket
  /\ mainPc' = "dial"
  /\ UNCHANGED <<networkEvent, msgSendId, msgRecvId, sinceSend, uid, srvAuth,
                 issued, eventFlags, deviceMode, tickVars>>

ConnectFails ==
  /\ mainPc = "dial"
  /\ mainPc' = "transceive"
  /\ UNCHANGED <<netVars, eventFlags, deviceMode, tickVars>>

ConnectSucceeds ==
  /\ mainPc = "dial"
  /\ conn' = "up"
  /\ srvAuth' = FALSE
  /\ networkEvent' = WentOnline
  /\ mainPc' = "transceive"
  /\ UNCHANGED <<msgSendId, msgRecvId, sinceSend, uid, wire, issued,
                 eventFlags, deviceMode, tickVars>>

Heartbeat ==
  /\ mainPc = "net" /\ deviceMode = "UID"
  /\ "offlineFlag" \notin networkEvent
  /\ \/ /\ "heartbeatFlag" \notin networkEvent
        /\ UNCHANGED <<networkEvent, wire>>
     \/ /\ "heartbeatFlag" \in networkEvent /\ SendAccepted("HEARTBEAT")
        /\ networkEvent' = networkEvent \ {"heartbeatFlag"}
        /\ Transmit("HEARTBEAT")
     \/ /\ "heartbeatFlag" \in networkEvent /\ ~SendAccepted("HEARTBEAT")
        /\ networkEvent' = WentOffline
        /\ wire' = wire
  /\ mainPc' = "transceive"
  /\ UNCHANGED <<msgSendId, msgRecvId, sinceSend, uid, conn, srvAuth, issued,
                 eventFlags, deviceMode, tickVars>>

CheckNetwork == SkipNetwork \/ Redial \/ Heartbeat

(***************************************************************************)
(* sendMsgHandle(m).  m becomes the pending request (its caller has set    *)
(* msgSendId in any case) and the resend timer restarts only when the      *)
(* socket accepts the bytes.                                               *)
(***************************************************************************)
SendMsgHandle(m) ==
  /\ msgSendId' = m
  /\ \/ SendAccepted(m)  /\ Transmit(m) /\ sinceSend' = 0
     \/ ~SendAccepted(m) /\ UNCHANGED <<wire, sinceSend>>

RequestFlag == [AUTH    |-> "authorizeReqFlag",
                GET_UID |-> "uidReqFlag",
                NOTIFY  |-> "notifyResultFlag"]

(* The order of the else-ifs: authorisation, then UID, then result.        *)
Precedes == {<<"AUTH", "GET_UID">>, <<"AUTH", "NOTIFY">>, <<"GET_UID", "NOTIFY">>}

Selected(m) ==
  /\ RequestFlag[m] \in networkEvent
  /\ \A n \in MsgIds : <<n, m>> \in Precedes => RequestFlag[n] \notin networkEvent

(***************************************************************************)
(* The sending half of msgTransceiverHandle: nothing while offline; with a *)
(* request pending, resend it when its period has passed; otherwise start  *)
(* the most urgent request that is flagged.                                *)
(***************************************************************************)
OfflineSkip ==
  /\ mainPc = "transceive" /\ "offlineFlag" \in networkEvent
  /\ mainPc' = "gate"
  /\ UNCHANGED <<netVars, eventFlags, deviceMode, tickVars>>

(* Mutant: an unanswered request is never sent again.                      *)
ResendNeverDue == FALSE

ResendDue == sinceSend >= MSG_RESEND_PERIOD_S

Resend ==
  /\ mainPc = "transceive" /\ "offlineFlag" \notin networkEvent
  /\ msgSendId # "INVALID"
  /\ \/ ResendDue  /\ SendMsgHandle(msgSendId)
     \/ ~ResendDue /\ UNCHANGED <<msgSendId, wire, sinceSend>>
  /\ mainPc' = "receive"
  /\ UNCHANGED <<networkEvent, msgRecvId, uid, conn, srvAuth, issued,
                 eventFlags, deviceMode, tickVars>>

StartRequest(m) ==
  /\ mainPc = "transceive" /\ "offlineFlag" \notin networkEvent
  /\ msgSendId = "INVALID"
  /\ Selected(m)
  /\ networkEvent' = networkEvent \ {RequestFlag[m]}
  /\ SendMsgHandle(m)
  /\ mainPc' = "receive"
  /\ UNCHANGED <<msgRecvId, uid, conn, srvAuth, issued,
                 eventFlags, deviceMode, tickVars>>

NoRequest ==
  /\ mainPc = "transceive" /\ "offlineFlag" \notin networkEvent
  /\ msgSendId = "INVALID"
  /\ \A m \in MsgIds : RequestFlag[m] \notin networkEvent
  /\ mainPc' = "receive"
  /\ UNCHANGED <<netVars, eventFlags, deviceMode, tickVars>>

Transceive == OfflineSkip \/ Resend \/ NoRequest \/ \E m \in MsgIds : StartRequest(m)

(***************************************************************************)
(* What the server may answer to the request m.  A GET_UID reply may lack  *)
(* its UID field, written uid |-> NoUid; no identifier is issued twice.    *)
(***************************************************************************)
Reply == [code : {"SUCCESS", "ERROR"}, uid : UIDs \cup {NoUid}]

Served == ServerRequiresAuth => srvAuth

Replies(m) ==
  {r \in Reply :
     /\ r.uid # NoUid => m = "GET_UID" /\ r.code = "SUCCESS" /\ r.uid \notin issued
     /\ m \in {"GET_UID", "NOTIFY"} /\ r.code = "SUCCESS" => Served}

(***************************************************************************)
(* parseRecvMsgInfo on the reply r to a request m.  The pending request is *)
(* cleared by comparing it with msgRecvId, which a heartbeat reply leaves  *)
(* as the previous reply set it.                                           *)
(***************************************************************************)
(* Mutant: the response code of an AUTH reply is ignored.                  *)
AuthorizesAnyway(m, r) == m = "AUTH"

Authorizes(m, r) == m = "AUTH" /\ r.code = "SUCCESS"

(* Mutant: a GET_UID reply is used without looking for its UID field.      *)
DeliversAnything(m, r) == m = "GET_UID" /\ r.code = "SUCCESS"

DeliversUid(m, r) == m = "GET_UID" /\ r.code = "SUCCESS" /\ r.uid # NoUid

(* Mutant: any successful reply clears the pending request.                *)
ClearsAny(recv) == TRUE

Clears(recv) == recv = msgSendId

ParseRecvMsgInfo(m, r) ==
  LET recv == IF m \in MsgIds THEN m ELSE msgRecvId
  IN /\ networkEvent' = networkEvent \cup
          (IF Authorizes(m, r) THEN {"authorizePassFlag"} ELSE {})
     /\ IF DeliversUid(m, r)
          THEN /\ uid' = r.uid
               /\ issued' = issued \cup ({r.uid} \cap UIDs)
          ELSE UNCHANGED <<uid, issued>>
     /\ eventFlags' = eventFlags
          \cup (IF DeliversUid(m, r) THEN {"UIDavailableFlag"} ELSE {})
          \cup (IF m = "NOTIFY" /\ r.code = "SUCCESS" THEN {"notifyDoneFlag"} ELSE {})
     /\ IF r.code = "SUCCESS" /\ Clears(recv)
          THEN msgSendId' = "INVALID" /\ msgRecvId' = "INVALID"
          ELSE msgSendId' = msgSendId /\ msgRecvId' = recv

(* Request i is the first in flight that gets an answer.                   *)
FirstAnswered(i) ==
  /\ ~Silent(wire[i])
  /\ \A j \in 1..(i - 1) : Silent(wire[j])

(* The server works through the first k requests and answers at least one; *)
(* when one of them asks for authorisation it may grant it, whether or not *)
(* the device reads the answer.                                            *)
ServerConsumes(k, granted) ==
  /\ conn = "up"
  /\ k \in 1..Len(wire)
  /\ \E i \in 1..k : ~Silent(wire[i])
  /\ granted => \E i \in 1..k : wire[i] = "AUTH"
  /\ srvAuth' = (srvAuth \/ granted)
  /\ wire' = SubSeq(wire, k + 1, Len(wire))

(***************************************************************************)
(* msgRecvHandle makes one receive call.  It may find nothing; it may find *)
(* the replies to k requests in one segment, of which cJSON_Parse sees     *)
(* only the first; or it may find text that is no reply at all.            *)
(***************************************************************************)
ReceiveNothing ==
  /\ mainPc = "receive"
  /\ mainPc' = "gate"
  /\ UNCHANGED <<netVars, eventFlags, deviceMode, tickVars>>

ReceiveReply(k, granted, r) ==
  /\ mainPc = "receive"
  /\ ServerConsumes(k, granted)
  /\ \E i \in 1..k :
        /\ FirstAnswered(i)
        /\ r \in Replies(wire[i])
        /\ wire[i] = "AUTH" /\ r.code = "SUCCESS" => granted
        /\ ParseRecvMsgInfo(wire[i], r)
  /\ mainPc' = "gate"
  /\ UNCHANGED <<sinceSend, conn, deviceMode, tickVars>>

ReceiveGarbage(k, granted) ==
  /\ mainPc = "receive"
  /\ ServerConsumes(k, granted)
  /\ mainPc' = "gate"
  /\ UNCHANGED <<networkEvent, msgSendId, msgRecvId, sinceSend, uid, conn, issued,
                 eventFlags, deviceMode, tickVars>>

Receive ==
  \/ ReceiveNothing
  \/ \E k \in 1..MaxInFlight, granted \in BOOLEAN :
        ReceiveGarbage(k, granted) \/ \E r \in Reply : ReceiveReply(k, granted, r)

NetworkStep == CheckNetwork \/ ConnectFails \/ ConnectSucceeds \/ Transceive \/ Receive

(***************************************************************************)
(* The server swallows a heartbeat that was held up and that it does not   *)
(* answer, and the link and the peer fail and recover on their own.        *)
(***************************************************************************)
SwallowHeartbeat ==
  /\ conn = "up" /\ wire # <<>> /\ Silent(Head(wire))
  /\ wire' = Tail(wire)
  /\ UNCHANGED <<mainPc, networkEvent, msgSendId, msgRecvId, sinceSend, uid, conn,
                 srvAuth, issued, eventFlags, deviceMode, tickVars>>

LinkChange(from, to) ==
  /\ conn = from
  /\ conn' = to
  /\ wire' = IF to = "reset" THEN <<>> ELSE wire
  /\ UNCHANGED <<mainPc, networkEvent, msgSendId, msgRecvId, sinceSend, uid,
                 srvAuth, issued, eventFlags, deviceMode, tickVars>>

LinkStalls  == "stall" \in Faults /\ LinkChange("up", "stalled")
LinkResumes == LinkChange("stalled", "up")
PeerResets  == /\ "reset" \in Faults
               /\ LinkChange("up", "reset") \/ LinkChange("stalled", "reset")

Link == LinkStalls \/ LinkResumes \/ PeerResets

(***************************************************************************)
(* sysTickThread.  Each second it counts and prints; then, online in UID   *)
(* mode at the end of a heartbeat period, it asks for a heartbeat.  The    *)
(* main thread and the button interrupts can come between the count, the   *)
(* test and the store.                                                     *)
(***************************************************************************)
Tick(blocking) ==
  /\ tickPc = "sleep" /\ mainPc \in blocking
  /\ systemTimer' = (systemTimer + 1) % HEARTBEAT_PERIOD_S
  /\ sinceSend' = IF sinceSend < MSG_RESEND_PERIOD_S THEN sinceSend + 1 ELSE sinceSend
  /\ tickPc' = "test"
  /\ UNCHANGED <<mainPc, networkEvent, msgSendId, msgRecvId, uid, conn, wire,
                 srvAuth, issued, eventFlags, deviceMode>>

HeartbeatDue ==
  deviceMode = "UID" /\ systemTimer = 0 /\ "offlineFlag" \notin networkEvent

TickTest(blocking) ==
  /\ tickPc = "test" /\ mainPc \in blocking
  /\ tickPc' = IF HeartbeatDue THEN "raise" ELSE "sleep"
  /\ UNCHANGED <<mainPc, netVars, systemTimer, eventFlags, deviceMode>>

TickRaise(blocking) ==
  /\ tickPc = "raise" /\ mainPc \in blocking
  /\ networkEvent' = networkEvent \cup {"heartbeatFlag"}
  /\ tickPc' = "sleep"
  /\ UNCHANGED <<mainPc, msgSendId, msgRecvId, sinceSend, uid, conn, wire, srvAuth,
                 issued, systemTimer, eventFlags, deviceMode>>

SysTickThread(blocking) == Tick(blocking) \/ TickTest(blocking) \/ TickRaise(blocking)

(***************************************************************************)
(* Types of the network's own state, and the safety properties both this   *)
(* module's specification and OnlineProgram's must have.                   *)
(***************************************************************************)
NetworkTypeOK ==
  /\ tickPc \in {"sleep", "test", "raise"}
  /\ deviceMode \in Modes
  /\ eventFlags \subseteq EventFlags
  /\ networkEvent \subseteq NetworkEvents
  /\ msgSendId \in MsgIds \cup {"INVALID"}
  /\ msgRecvId \in MsgIds \cup {"INVALID"}
  /\ systemTimer \in 0..(HEARTBEAT_PERIOD_S - 1)
  /\ sinceSend \in 0..MSG_RESEND_PERIOD_S
  /\ uid \in UIDs \cup {NoUid}
  /\ conn \in Conns
  /\ wire \in Seq(Requests)
  /\ Len(wire) <= MaxInFlight
  /\ srvAuth \in BOOLEAN
  /\ issued \subseteq UIDs

(* A device that knows it is offline never counts itself authorised: every *)
(* path that raises offlineFlag (a failed heartbeat, initNetworkEvent) has *)
(* to withdraw authorizePassFlag, the gate of updateDeviceStatus.          *)
OfflineNotAuthorized ==
  "offlineFlag" \in networkEvent => "authorizePassFlag" \notin networkEvent

(* authorizePassFlag is never left over from an earlier connection: while  *)
(* there is a socket, it is the server of that very connection that        *)
(* granted it (a reply cannot survive the redial that checkNetwork does).  *)
AuthIsCurrent ==
  "authorizePassFlag" \in networkEvent /\ conn # "closed" => srvAuth

(* On a connection whose authorisation is neither given, requested nor     *)
(* flagged nothing would ever ask for it: online, the device is authorised *)
(* or the AUTH request is still flagged or pending.                        *)
AuthNotForgotten ==
  "offlineFlag" \notin networkEvent =>
     \/ "authorizePassFlag" \in networkEvent
     \/ "authorizeReqFlag" \in networkEvent
     \/ msgSendId = "AUTH"

(* The connection as far as the device knows it, and the questions on it.  *)
Believed ==
  IF "offlineFlag" \in networkEvent THEN "down"
  ELSE IF "authorizePassFlag" \in networkEvent THEN "authorised"
  ELSE IF "authorizeReqFlag" \in networkEvent \/ msgSendId = "AUTH" THEN "up"
  ELSE "givenUp"

OnLine(w) == {m \in MsgIds : \E i \in 1..Len(w) : w[i] = m}

Promised ==
  INSTANCE Session WITH Questions <- MsgIds, link <- Believed, asked <- msgSendId,
                        line <- OnLine(wire), last <- msgRecvId

(* Through lost connections, carried-over requests, refusals, late and     *)
(* doubled answers, and the answers to heartbeats, the device keeps the    *)
(* abstract session: it starts no request but AUTH on a connection that is *)
(* not authorised, resends the one pending and no other, and takes only    *)
(* the answer to a request sent on the present connection for it.          *)
KeepsPromise == Promised!Spec
=============================================================================
