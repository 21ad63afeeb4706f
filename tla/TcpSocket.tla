------------------------------ MODULE TcpSocket ------------------------------
(***************************************************************************)
(* TCPSocketConnection and Socket of the Ethernet interface, called as the *)
(* main thread calls them: a close before every dial and in code mode,     *)
(* sends and receives while offlineFlag is false.  The descriptors and the *)
(* connection behind them are lwIP's.                                      *)
(*                                                                         *)
(* close leaves _is_connected as it is, a lost peer shows in the results   *)
(* of send and receive alone, and only the failure of a heartbeat is ever  *)
(* looked at: the question is what that adds up to.                        *)
(***************************************************************************)
EXTENDS Integers

CONSTANT NUM_SOCKETS    \* descriptors lwIP has

ASSUME SocketAssumption == NUM_SOCKETS \in Nat \ {0}

VARIABLES sock_fd, is_connected,
          taken,        \* lwIP's descriptors in use
          peer,         \* behind the connected descriptor: "none", "open",
                        \* "finished" (it has closed and all it sent is read), "aborted"
          room,         \* is there room in the send buffer?
          last,         \* the result of the last send
          mainPc, deviceMode, modeSwitchFlag, offlineFlag, heartbeatFlag

sockVars == <<sock_fd, is_connected, taken, peer, room, last>>
mainVars == <<mainPc, deviceMode, modeSwitchFlag, offlineFlag, heartbeatFlag>>
tcpVars  == <<sockVars, mainVars>>

Descriptors == 0..(NUM_SOCKETS - 1)

Init ==
  /\ sock_fd = -1 /\ is_connected = FALSE
  /\ taken = {} /\ peer = "none" /\ room = TRUE
  /\ last = "none"
  /\ mainPc = "switch" /\ deviceMode = "UID" /\ modeSwitchFlag = FALSE
  /\ offlineFlag = TRUE /\ heartbeatFlag = FALSE

-------------------------------------------------------------------------------
(* Mutant: the descriptor is forgotten, not given back.                    *)
CloseForgets ==
  /\ sock_fd' = -1
  /\ peer' = "none" /\ room' = TRUE
  /\ UNCHANGED <<is_connected, taken, last>>

Close ==
  /\ sock_fd' = -1
  /\ taken' = taken \ {sock_fd}
  /\ peer' = "none" /\ room' = TRUE
  /\ UNCHANGED <<is_connected, last>>

(* init_socket, then lwip_connect; a failure of the latter closes again.   *)
(* set_address does not fail: the server is a literal address.             *)
ConnectOk ==
  /\ sock_fd = -1
  /\ \E fd \in Descriptors \ taken : sock_fd' = fd /\ taken' = taken \cup {fd}
  /\ is_connected' = TRUE /\ peer' = "open"
  /\ UNCHANGED <<room, last>>

(* Mutant: it does not.                                                    *)
ConnectFailsOpen ==
  \/ sock_fd # -1 /\ UNCHANGED sockVars
  \/ /\ sock_fd = -1
     /\ \E fd \in Descriptors \ taken : sock_fd' = fd /\ taken' = taken \cup {fd}
     /\ UNCHANGED <<is_connected, peer, room, last>>

ConnectFails == UNCHANGED sockVars

(* Mutant: send looks at the descriptor alone.                             *)
SendsOnAny == sock_fd >= 0

Sends == sock_fd >= 0 /\ is_connected

(* lwip_send never returns 0 for a text that is not empty.                 *)
Accepted == Sends /\ room /\ peer \in {"open", "finished"}

Send ==
  /\ last' = IF Accepted THEN "sent" ELSE "refused"
  /\ is_connected' = (is_connected \/ (Sends /\ room))
  /\ UNCHANGED <<sock_fd, taken, peer, room>>

(* Mutant: the end of the stream does not count as the end.                *)
ReadsEndAsData == is_connected

(* The call returns data, nothing or an error, or 0 at the end.            *)
StillConnected == is_connected /\ ~(sock_fd >= 0 /\ peer = "finished")

Receive ==
  /\ is_connected' = StillConnected
  /\ UNCHANGED <<sock_fd, taken, peer, room, last>>

-------------------------------------------------------------------------------
(***************************************************************************)
(* The main thread, as far as it uses the socket.                          *)
(***************************************************************************)
Turn(from, to) == mainPc = from /\ mainPc' = to

NoSwitch ==
  /\ Turn("switch", "net") /\ ~modeSwitchFlag
  /\ UNCHANGED <<sockVars, deviceMode, modeSwitchFlag, offlineFlag, heartbeatFlag>>

ResetEventFlags ==
  /\ Turn("switch", "enter") /\ modeSwitchFlag
  /\ modeSwitchFlag' = FALSE
  /\ UNCHANGED <<sockVars, deviceMode, offlineFlag, heartbeatFlag>>

EnterUid ==
  /\ Turn("enter", "net") /\ deviceMode = "UID"
  /\ offlineFlag' = TRUE /\ heartbeatFlag' = FALSE
  /\ UNCHANGED <<sockVars, deviceMode, modeSwitchFlag>>

EnterCode ==
  /\ Turn("enter", "net") /\ deviceMode = "CODE"
  /\ Close
  /\ UNCHANGED <<deviceMode, modeSwitchFlag, offlineFlag, heartbeatFlag>>

SkipNetwork ==
  /\ Turn("net", "switch") /\ deviceMode = "CODE"
  /\ UNCHANGED <<sockVars, deviceMode, modeSwitchFlag, offlineFlag, heartbeatFlag>>

Redial ==
  /\ Turn("net", "dial") /\ deviceMode = "UID" /\ offlineFlag
  /\ Close
  /\ UNCHANGED <<deviceMode, modeSwitchFlag, offlineFlag, heartbeatFlag>>

Dial ==
  /\ Turn("dial", "request")
  /\ \/ ConnectOk /\ offlineFlag' = FALSE
     \/ ConnectFails /\ UNCHANGED offlineFlag
  /\ UNCHANGED <<deviceMode, modeSwitchFlag, heartbeatFlag>>

Heartbeat ==
  /\ Turn("net", "request") /\ deviceMode = "UID" /\ ~offlineFlag
  /\ \/ ~heartbeatFlag /\ UNCHANGED <<sockVars, offlineFlag, heartbeatFlag>>
     \/ heartbeatFlag /\ heartbeatFlag' = FALSE /\ Send /\ offlineFlag' = (last' = "refused")
  /\ UNCHANGED <<deviceMode, modeSwitchFlag>>

(* msgTransceiverHandle; the result of a request is not looked at.         *)
Request ==
  /\ \/ Turn("request", "switch") /\ offlineFlag /\ UNCHANGED sockVars
     \/ Turn("request", "receive") /\ ~offlineFlag /\ (Send \/ UNCHANGED sockVars)
  /\ UNCHANGED <<deviceMode, modeSwitchFlag, offlineFlag, heartbeatFlag>>

MsgRecvHandle ==
  /\ Turn("receive", "switch")
  /\ Receive
  /\ UNCHANGED <<deviceMode, modeSwitchFlag, offlineFlag, heartbeatFlag>>

MainThread ==
  \/ NoSwitch \/ ResetEventFlags \/ EnterUid \/ EnterCode
  \/ SkipNetwork \/ Redial \/ Dial \/ Heartbeat \/ Request \/ MsgRecvHandle

(* The timer thread in one step; Network.tla has its two.                  *)
SysTickThread ==
  /\ deviceMode = "UID" /\ ~offlineFlag
  /\ heartbeatFlag' = TRUE
  /\ UNCHANGED <<sockVars, mainPc, deviceMode, modeSwitchFlag, offlineFlag>>

Sw3Release ==
  /\ deviceMode' = IF deviceMode = "CODE" THEN "UID" ELSE "CODE"
  /\ modeSwitchFlag' = TRUE
  /\ UNCHANGED <<sockVars, mainPc, offlineFlag, heartbeatFlag>>

(* The peer closes, vanishes or refuses; the buffer fills and drains.      *)
Surroundings ==
  /\ \/ peer = "open" /\ peer' \in {"finished", "aborted"} /\ UNCHANGED room
     \/ peer = "finished" /\ peer' = "aborted" /\ UNCHANGED room
     \/ peer = "open" /\ room' = ~room /\ UNCHANGED peer
  /\ UNCHANGED <<sock_fd, is_connected, taken, last, mainVars>>

Next == MainThread \/ SysTickThread \/ Sw3Release \/ Surroundings

(* The main loop turns, and the timer comes round again and again.         *)
Spec ==
  /\ Init /\ [][Next]_tcpVars
  /\ WF_tcpVars(MainThread) /\ SF_tcpVars(SysTickThread)

-------------------------------------------------------------------------------
TypeOK ==
  /\ sock_fd \in Descriptors \cup {-1} /\ is_connected \in BOOLEAN
  /\ taken \subseteq Descriptors
  /\ peer \in {"none", "open", "finished", "aborted"} /\ room \in BOOLEAN
  /\ peer = "none" <=> sock_fd = -1
  /\ last \in {"none", "sent", "refused"}
  /\ mainPc \in {"switch", "enter", "net", "dial", "request", "receive"}
  /\ deviceMode \in {"UID", "CODE"} /\ modeSwitchFlag \in BOOLEAN
  /\ offlineFlag \in BOOLEAN /\ heartbeatFlag \in BOOLEAN

(* However often the device dials, fails and switches modes, the one       *)
(* descriptor it holds is the one its socket knows: lwIP, which has only a *)
(* few, never runs out of them, and no dial is refused for want of one.    *)
OneDescriptor ==
  /\ taken = IF sock_fd = -1 THEN {} ELSE {sock_fd}
  /\ mainPc = "dial" => sock_fd = -1

(* The socket as Network.tla takes it.                                     *)
Standing ==
  IF sock_fd = -1 THEN "closed"
  ELSE IF peer = "open" /\ room THEN "up"
  ELSE IF peer \in {"open", "finished"} /\ is_connected THEN "stalled" ELSE "reset"

Served == INSTANCE Connection WITH conn <- Standing

(* What Network.tla assumes of a send, refused without a peer and accepted *)
(* where there is room, is what these wrappers give, stale _is_connected   *)
(* and all.                                                                *)
ServesNetwork == Served!Spec

Dead == peer \in {"finished", "aborted"}

(* A peer that is gone is noticed, though neither a request nor a receive  *)
(* that fails is looked at: the next heartbeat fails and the device dials. *)
LossNoticed == <>[](deviceMode = "UID") => []<>(~Dead)
===============================================================================
