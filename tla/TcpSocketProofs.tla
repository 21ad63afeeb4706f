--------------------------- MODULE TcpSocketProofs ---------------------------
(***************************************************************************)
(* For every number of descriptors lwIP may have: the socket holds at most *)
(* the one it knows, and behaves as Network.tla takes it.                  *)
(***************************************************************************)
EXTENDS TcpSocket, TLAPS

(* _is_connected outlives its connection, but never misses an open one.    *)
SockInv ==
  /\ TypeOK /\ OneDescriptor
  /\ peer = "open" => is_connected
  /\ sock_fd = -1 => room

-------------------------------------------------------------------------------
(* The socket is created without a descriptor.                             *)
LEMMA InitSock == Init => SockInv
BY SocketAssumption DEF Init, SockInv, TypeOK, OneDescriptor, Descriptors

(* A close gives back the one descriptor, whatever the place it is called  *)
(* from.                                                                   *)
LEMMA CloseSock ==
  ASSUME SockInv, Close
  PROVE  sock_fd' = -1 /\ taken' = {} /\ peer' = "none" /\ room'
BY DEF SockInv, OneDescriptor, Close

(* Every step keeps the invariant.                                         *)
LEMMA StepSock ==
  ASSUME SockInv, [Next]_tcpVars
  PROVE  SockInv'
<1> USE SocketAssumption DEF SockInv, TypeOK, OneDescriptor, sockVars, mainVars, Turn, Descriptors
<1>1. CASE UNCHANGED tcpVars
  BY <1>1 DEF tcpVars
<1>2. CASE NoSwitch \/ ResetEventFlags \/ EnterUid \/ SkipNetwork
  <2>1. CASE NoSwitch \/ SkipNetwork
    BY <2>1 DEF NoSwitch, SkipNetwork
  <2>2. CASE ResetEventFlags
    BY <2>2 DEF ResetEventFlags
  <2>3. CASE EnterUid
    BY <2>3 DEF EnterUid
  <2>4. QED
    BY <1>2, <2>1, <2>2, <2>3
<1>3. CASE EnterCode \/ Redial
  <2>1. Close
    BY <1>3 DEF EnterCode, Redial
  <2>2. sock_fd' = -1 /\ taken' = {} /\ peer' = "none" /\ room'
    BY <2>1, CloseSock
  <2>3. UNCHANGED <<is_connected, last>>
    BY <2>1 DEF Close
  <2>4. QED
    BY <1>3, <2>2, <2>3 DEF EnterCode, Redial
<1>4. CASE Dial
  <2>1. CASE ConnectOk
    <3>1. PICK fd \in Descriptors : sock_fd' = fd /\ taken' = taken \cup {fd}
      BY <2>1 DEF ConnectOk
    <3>2. fd # -1 /\ taken' = {fd}
      BY <2>1, <3>1 DEF ConnectOk
    <3>3. QED
      BY <1>4, <2>1, <3>1, <3>2 DEF Dial, ConnectOk
  <2>2. CASE ConnectFails
    BY <1>4, <2>2 DEF Dial, ConnectFails
  <2>3. QED
    BY <1>4, <2>1, <2>2 DEF Dial
<1>5. CASE Heartbeat \/ Request
  <2>1. CASE Send
    BY <1>5, <2>1 DEF Heartbeat, Request, Send, Accepted, Sends
  <2>2. CASE UNCHANGED sockVars
    BY <1>5, <2>2 DEF Heartbeat, Request
  <2>3. QED
    BY <1>5, <2>1, <2>2 DEF Heartbeat, Request
<1>6. CASE MsgRecvHandle
  BY <1>6 DEF MsgRecvHandle, Receive, StillConnected
<1>7. CASE SysTickThread \/ Sw3Release
  <2>1. CASE SysTickThread
    BY <2>1 DEF SysTickThread
  <2>2. CASE Sw3Release
    BY <2>2 DEF Sw3Release
  <2>3. QED
    BY <1>7, <2>1, <2>2
<1>8. CASE Surroundings
  <2>1. UNCHANGED <<sock_fd, is_connected, taken, last, mainPc, deviceMode,
                    modeSwitchFlag, offlineFlag, heartbeatFlag>>
    BY <1>8 DEF Surroundings
  <2>2. peer # "none" /\ peer' # "none" /\ (peer' = "open" => peer = "open")
    BY <1>8 DEF Surroundings
  <2>3. peer' \in {"none", "open", "finished", "aborted"}
    BY <1>8 DEF Surroundings
  <2>4. room' \in BOOLEAN
    BY <1>8 DEF Surroundings
  <2>5. QED
    BY <2>1, <2>2, <2>3, <2>4
<1>9. QED
  BY <1>1, <1>2, <1>3, <1>4, <1>5, <1>6, <1>7, <1>8 DEF Next, MainThread

(* Every step is one of the connection, or none.                           *)
LEMMA StepServed ==
  ASSUME SockInv, SockInv', [Next]_tcpVars
  PROVE  [Served!Next]_<<Standing, last>>
<1> USE DEF SockInv, TypeOK, Standing, sockVars, mainVars
<1>1. CASE UNCHANGED tcpVars
  BY <1>1 DEF tcpVars
<1>2. CASE NoSwitch \/ ResetEventFlags \/ EnterUid \/ SkipNetwork \/ SysTickThread \/ Sw3Release
  BY <1>2 DEF NoSwitch, ResetEventFlags, EnterUid, SkipNetwork, SysTickThread, Sw3Release
<1>3. CASE EnterCode \/ Redial
  <2>1. Served!Close
    BY <1>3 DEF EnterCode, Redial, Close, Served!Close
  <2>2. QED
    BY <2>1 DEF Served!Next
<1>4. CASE Dial
  <2>1. CASE ConnectOk
    <3>1. room
      BY <2>1 DEF ConnectOk
    <3>2. Served!Dial \/ UNCHANGED <<Standing, last>>
      BY <2>1, <3>1 DEF ConnectOk, Descriptors, Served!Dial
    <3>3. QED
      BY <3>2 DEF Served!Next
  <2>2. CASE ConnectFails
    BY <2>2 DEF ConnectFails
  <2>3. QED
    BY <1>4, <2>1, <2>2 DEF Dial
<1>5. CASE Heartbeat \/ Request
  <2>1. CASE Send
    <3>1. UNCHANGED Standing
      BY <2>1 DEF Send, Sends
    <3>2. CASE Accepted
      <4>1. last' = "sent" /\ Standing \in {"up", "stalled"}
        BY <2>1, <3>2 DEF Send, Accepted, Sends
      <4>2. QED
        BY <3>1, <4>1 DEF Served!Next, Served!Send
    <3>3. CASE ~Accepted
      <4>1. last' = "refused" /\ Standing # "up"
        BY <2>1, <3>3 DEF Send, Accepted, Sends, Descriptors
      <4>2. QED
        BY <3>1, <4>1 DEF Served!Next, Served!Send
    <3>4. QED
      BY <3>2, <3>3
  <2>2. CASE UNCHANGED sockVars
    BY <2>2
  <2>3. QED
    BY <1>5, <2>1, <2>2 DEF Heartbeat, Request
<1>6. CASE MsgRecvHandle
  <2>1. UNCHANGED last /\ (Standing' = Standing \/ <<Standing, Standing'>> = <<"stalled", "reset">>)
    BY <1>6 DEF MsgRecvHandle, Receive, StillConnected
  <2>2. QED
    BY <2>1 DEF Served!Next, Served!Weather
<1>7. CASE Surroundings
  <2>1. UNCHANGED last
        /\ \/ Standing' = Standing
           \/ <<Standing, Standing'>> \in {"up", "stalled"} \X {"up", "stalled", "reset"}
    BY <1>7 DEF Surroundings
  <2>2. QED
    BY <2>1 DEF Served!Next, Served!Weather
<1>8. QED
  BY <1>1, <1>2, <1>3, <1>4, <1>5, <1>6, <1>7 DEF Next, MainThread

-------------------------------------------------------------------------------
(* What the wrapper's members amount to between two calls.                 *)
THEOREM SocketInvariant == Spec => []SockInv
  BY InitSock, StepSock, PTL DEF Spec

(* The types of the socket, with its peer where it has a descriptor.       *)
THEOREM SocketTypes == Spec => []TypeOK
<1>1. SockInv => TypeOK
  BY DEF SockInv
<1>2. QED
  BY <1>1, SocketInvariant, PTL

(* No dial, failure or mode switch ever costs a descriptor.                *)
THEOREM DescriptorKept == Spec => []OneDescriptor
<1>1. SockInv => OneDescriptor
  BY DEF SockInv
<1>2. QED
  BY <1>1, SocketInvariant, PTL

(* The wrappers implement the connection Network.tla relies on.            *)
THEOREM SocketServesNetwork == Spec => ServesNetwork
<1>1. Init => Served!Init
  BY DEF Init, Standing, Served!Init
<1>2. SockInv /\ SockInv' /\ [Next]_tcpVars => [Served!Next]_<<Standing, last>>
  BY StepServed
<1>3. QED
  BY <1>1, <1>2, SocketInvariant, PTL DEF Spec, ServesNetwork, Served!Spec
===============================================================================
