----------------------------- MODULE IspSyncProofs -----------------------------
(***************************************************************************)
(* With a boot loader that does not begin a broken handshake again, what   *)
(* ISP_syncBaudRate reports is so, whatever the number of lost and late    *)
(* answers; with one that does, a mistake takes six faults, by an          *)
(* accounting of the faults behind every text on the line.                 *)
(***************************************************************************)
EXTENDS IspSync, SequenceTheorems, TLAPS

(* What can be on the line, by the state of the boot loader: it sends      *)
(* "Synchronized" once, then "OK" once, and only then listens or echoes.   *)
LineInv ==
  /\ board \in {"none", "autobaud"} => late = <<>>
  /\ board = "greeted" => \A i \in 1..Len(late) : late[i] = "Synchronized"
  /\ board = "clock" => \A i \in 1..Len(late) :
                           late[i] = "Synchronized" \/ (i = Len(late) /\ late[i] = "OK")
  /\ board = "clock" /\ syncStatus = "SEND_FREQ" => late = <<>>
  /\ board = "data" => /\ syncStatus \notin {"RESP_SYNC", "SEND_FREQ"}
                       /\ \A i \in 1..Len(late) : late[i] \in {"OK", "0", "?"}

SyncInv == TypeOK /\ (~restarts => LineInv)
Texts == {"?", "Synchronized", "OK", "0", "ESC"}

(* What ISP_syncBaudRate sends in each of its states.                      *)
Asks == {<<"SETUP_SYNC", "?">>, <<"RESP_SYNC", "Synchronized">>, <<"SEND_FREQ", "0">>,
         <<"EXIT_SYNC", "ESC">>}

-------------------------------------------------------------------------------
(* The boot loader answers a text with at most one.                        *)
LEMMA ReactionFacts ==
  ASSUME TypeOK, NEW text \in Texts
  PROVE  /\ Reaction(text)[1] \in Boards \cup {"none"}
         /\ Reaction(text)[2] = <<>> \/ \E t \in Texts : Reaction(text)[2] = <<t>>
BY DEF TypeOK, Texts, Reaction, Boards

(* What was late and the answer, at most one text, are the line, and the   *)
(* window takes its front.                                                 *)
LEMMA LineFacts ==
  ASSUME TypeOK, NEW x \in Exchanges, NEW text \in Texts
  PROVE  /\ Line(x, text) \in Seq(Texts)
         /\ Len(Line(x, text)) \in {Len(late), Len(late) + 1}
         /\ \A i \in 1..Len(late) : Line(x, text)[i] = late[i]
         /\ Len(Line(x, text)) = Len(late) + 1 =>
              x.heard /\ Reaction(text)[2] = <<Line(x, text)[Len(late) + 1]>>
<1>1. late \in Seq(Texts)
  BY DEF TypeOK, Texts
<1>2. CASE x.heard /\ ~x.lost
  <2>1. Line(x, text) = late \o Reaction(text)[2]
    BY <1>2 DEF Line
  <2>2. CASE Reaction(text)[2] = <<>>
    <3>1. Line(x, text) = late
      BY <1>1, <2>1, <2>2
    <3>2. QED
      BY <1>1, <3>1
  <2>3. ASSUME NEW t \in Texts, Reaction(text)[2] = <<t>>
        PROVE  /\ Line(x, text) \in Seq(Texts) /\ Len(Line(x, text)) = Len(late) + 1
               /\ \A i \in 1..Len(late) : Line(x, text)[i] = late[i]
               /\ x.heard /\ Reaction(text)[2] = <<Line(x, text)[Len(late) + 1]>>
    <3>1. Line(x, text) = Append(late, t)
      BY <1>1, <2>1, <2>3
    <3>2. QED
      BY <1>1, <1>2, <2>3, <3>1
  <2>4. QED
    BY <2>2, <2>3, ReactionFacts, <1>1, <2>1
<1>3. CASE ~(x.heard /\ ~x.lost)
  <2>1. Line(x, text) = late \o <<>>
    BY <1>3 DEF Line
  <2>2. Line(x, text) = late
    BY <1>1, <2>1
  <2>3. QED
    BY <1>1, <2>2
<1>4. QED
  BY <1>2, <1>3

(* A window is the beginning of the line and late what is left of it.      *)
Divides(n, L, W, rest) ==
  /\ n \in 0..Len(L) /\ Len(L) \in Nat
  /\ W \in Seq(Texts) /\ Len(W) = n /\ \A i \in 1..n : W[i] = L[i]
  /\ rest \in Seq(Texts) /\ Len(rest) = Len(L) - n
  /\ \A i \in 1..Len(rest) : rest[i] = L[i + n] /\ i + n \in 1..Len(L)

(* So it is after every exchange.                                          *)
LEMMA ExchangeFacts ==
  ASSUME TypeOK, NEW x \in Exchanges, NEW text \in Texts, ISP_getResp(x, text)
  PROVE  Divides(x.n, Line(x, text), Window(x, text), late')
<1> SUFFICES ASSUME NEW L, L = Line(x, text), NEW W, W = Window(x, text)
             PROVE  Divides(x.n, L, W, late')
  OBVIOUS
<1>1. L \in Seq(Texts) /\ Len(L) \in Nat
  BY LineFacts
<1>2. x.n \in 0..Len(L) /\ late' = SubSeq(L, x.n + 1, Len(L))
  BY <1>1, SyncAssumption DEF ISP_getResp, Exchanges
<1>3. W = SubSeq(L, 1, x.n)
  BY DEF Window
<1>4. W \in Seq(Texts) /\ Len(W) = x.n /\ \A i \in 1..x.n : W[i] = L[i]
  BY <1>1, <1>2, <1>3
<1>5. /\ late' \in Seq(Texts) /\ Len(late') = Len(L) - x.n
      /\ \A i \in 1..Len(late') : late'[i] = L[i + x.n] /\ i + x.n \in 1..Len(L)
  <2>1. late' \in Seq(Texts) /\ Len(late') = Len(L) - x.n
    BY <1>1, <1>2
  <2>2. x.n \in Nat /\ Len(L) \in Nat
    BY <1>1, <1>2
  <2>3. \A i \in 1..Len(late') : late'[i] = L[(x.n + 1) + i - 1]
    <3>1. \A i \in (x.n + 1)..Len(L) : L[i] \in Texts
      BY <1>1, <2>2
    <3>2. /\ x.n + 1 \in Int /\ Len(L) \in Int
          /\ \A i \in 1..Len(late') : i \in 1..(Len(L) - (x.n + 1) + 1)
      BY <2>1, <2>2
    <3>3. QED
      BY <1>2, <3>1, <3>2, SubSeqProperties
  <2>4. ASSUME NEW i \in 1..Len(late')
        PROVE  (x.n + 1) + i - 1 = i + x.n /\ i + x.n \in 1..Len(L)
    BY <2>1, <2>2
  <2>5. QED
    BY <2>1, <2>3, <2>4
<1>6. QED
  BY <1>1, <1>2, <1>4, <1>5 DEF Divides

Free(b) == IF b \in {"command", "data"} THEN 1 ELSE 0

(* A window that leaves something costs a fault, so what is late is        *)
(* bounded by the faults and the echo that a job leaves for free.          *)
LEMMA ExchangeTypes ==
  ASSUME TypeOK, NEW x \in Exchanges, NEW text \in Texts, ISP_getResp(x, text)
  PROVE  /\ board' \in Boards \cup {"none"} /\ restarts' = restarts
         /\ late' \in Seq(Texts) /\ faults' \in 0..MaxFaults
         /\ Len(late') <= faults' + Free(board')
<1> DEFINE L == Line(x, text)
<1>1. /\ x.n \in 0..Len(L) /\ Len(L) \in Nat
      /\ late' \in Seq(Texts) /\ Len(late') = Len(L) - x.n
  BY ExchangeFacts DEF Divides
<1>2. board' \in Boards \cup {"none"} /\ restarts' = restarts
  BY ReactionFacts DEF ISP_getResp, TypeOK
<1>3. Len(L) \in {Len(late), Len(late) + 1} /\ Len(late) \in Nat
  BY LineFacts DEF TypeOK
<1>4. Costs(x, text) \in Nat /\ (x.n < Len(L) => Costs(x, text) >= 1)
  BY DEF Costs, Exchanges
<1>5. faults' = faults + Costs(x, text) /\ faults' <= MaxFaults /\ faults \in Nat
      /\ Len(late) <= faults + Free(board)
  BY SyncAssumption DEF ISP_getResp, TypeOK, Free
<1>6. faults' \in 0..MaxFaults
  BY <1>4, <1>5, SyncAssumption
<1>7. Free(board) \in {0, 1} /\ Free(board') \in {0, 1} /\ Free(board) <= Free(board')
  <2>1. board \in {"command", "data"} => board' \in {"command", "data"}
    BY DEF ISP_getResp, Reaction
  <2>2. QED
    BY <2>1 DEF Free
<1>8. Len(late') <= faults' + Free(board')
  <2> HIDE DEF L
  <2>1. CASE x.n < Len(L)
    <3>1. x.n = 0 \/ Len(late') <= Len(late)
      BY <1>1, <1>3
    <3>2. QED
      BY <1>1, <1>3, <1>4, <1>5, <1>7, <2>1
  <2>2. CASE x.n = Len(L)
    BY <1>1, <1>4, <1>5, <1>7, <2>2
  <2>3. QED
    BY <1>1, <2>1, <2>2
<1>9. QED
  BY <1>1, <1>2, <1>6, <1>8

(* What one exchange shows and leaves, by the state of the boot loader     *)
(* after it.                                                               *)
LEMMA ExchangeLine ==
  ASSUME TypeOK, LineInv, ~restarts, NEW x \in Exchanges, NEW text \in Texts,
         <<syncStatus, text>> \in Asks, ISP_getResp(x, text),
         NEW W, W = Window(x, text)
  PROVE  /\ board' \in {"none", "autobaud"} => late' = <<>> /\ W = <<>>
         /\ board' = "greeted" =>
              /\ \A i \in 1..Len(late') : late'[i] = "Synchronized"
              /\ \A i \in 1..Len(W) : W[i] = "Synchronized"
         /\ board' = "clock" =>
              /\ \A i \in 1..Len(late') :
                    late'[i] = "Synchronized" \/ (i = Len(late') /\ late'[i] = "OK")
              /\ \A i \in 1..Len(W) : W[i] \in {"Synchronized", "OK"}
              /\ Found("OK", W) => late' = <<>> /\ syncStatus # "SEND_FREQ"
         /\ board' = "data" =>
              /\ syncStatus \notin {"RESP_SYNC", "SEND_FREQ"}
              /\ \A i \in 1..Len(late') : late'[i] \in {"OK", "0", "?"}
              /\ \A i \in 1..Len(W) : W[i] \in {"OK", "0", "?"}
<1> DEFINE L == Line(x, text)
<1>1. /\ x.n \in 0..Len(L) /\ Len(L) \in Nat
      /\ W \in Seq(Texts) /\ Len(W) = x.n /\ \A i \in 1..x.n : W[i] = L[i]
      /\ late' \in Seq(Texts) /\ Len(late') = Len(L) - x.n
      /\ \A i \in 1..Len(late') : late'[i] = L[i + x.n] /\ i + x.n \in 1..Len(L)
  <2>1. Divides(x.n, L, W, late')
    BY ExchangeFacts
  <2>2. QED
    BY <2>1 DEF Divides
<1> HIDE DEF L
<1>2. board' = IF x.heard THEN Reaction(text)[1] ELSE board
  BY DEF ISP_getResp
<1>3. late \in Seq(Texts) /\ Len(late) \in Nat /\ board \in Boards \cup {"none"}
  BY DEF TypeOK, Texts
<1>5. /\ Len(L) \in {Len(late), Len(late) + 1}
      /\ \A i \in 1..Len(late) : L[i] = late[i]
      /\ Len(L) = Len(late) + 1 => x.heard /\ Reaction(text)[2] = <<L[Len(late) + 1]>>
  BY LineFacts DEF L
<1>4. /\ \A i \in 1..Len(L) : \/ i \in 1..Len(late) /\ L[i] = late[i]
                              \/ i = Len(L) /\ x.heard /\ Reaction(text)[2] = <<L[i]>>
      /\ Len(L) = Len(late) \/ (x.heard /\ Reaction(text)[2] # <<>>)
  <2>1. Len(L) = Len(late) \/ Len(L) = Len(late) + 1
    BY <1>5
  <2>2. ASSUME NEW i \in 1..Len(L), i \notin 1..Len(late)
        PROVE  i = Len(L) /\ x.heard /\ Reaction(text)[2] = <<L[i]>>
    BY <1>3, <1>5, <2>1, <2>2
  <2>3. QED
    BY <1>5, <2>1, <2>2
<1>6. CASE board' \in {"none", "autobaud"}
  <2>1. board = board' /\ (x.heard => Reaction(text)[2] = <<>>)
    BY <1>2, <1>3, <1>6 DEF Reaction, Boards
  <2>2. Len(L) = 0
    BY <1>3, <1>4, <1>6, <2>1 DEF LineInv
  <2>3. Len(late') = 0 /\ Len(W) = 0
    BY <1>1, <2>2
  <2>4. late' = <<>> /\ W = <<>>
    BY <1>1, <2>3
  <2>5. QED
    BY <1>6, <2>4
<1>7. CASE board' = "greeted"
  <2>1. \/ board = "greeted" /\ (x.heard => Reaction(text)[2] = <<>>)
        \/ board = "autobaud" /\ Reaction(text)[2] = <<"Synchronized">>
    BY <1>2, <1>3, <1>7 DEF Reaction, Boards
  <2>2. ASSUME NEW i \in 1..Len(L) PROVE L[i] = "Synchronized"
    <3>1. CASE i \in 1..Len(late) /\ L[i] = late[i]
      BY <2>1, <3>1 DEF LineInv
    <3>2. CASE x.heard /\ Reaction(text)[2] = <<L[i]>>
      BY <2>1, <3>2
    <3>3. QED
      BY <1>4, <3>1, <3>2
  <2>3. /\ \A i \in 1..Len(late') : late'[i] = "Synchronized"
        /\ \A i \in 1..Len(W) : W[i] = "Synchronized"
    <3>1. ASSUME NEW i \in 1..Len(late') PROVE late'[i] = "Synchronized"
      <4>1. late'[i] = L[i + x.n] /\ i + x.n \in 1..Len(L)
        BY <1>1
      <4>2. QED
        BY <4>1, <2>2
    <3>2. ASSUME NEW i \in 1..Len(W) PROVE W[i] = "Synchronized"
      <4>1. W[i] = L[i] /\ i \in 1..Len(L)
        BY <1>1
      <4>2. QED
        BY <4>1, <2>2
    <3>3. QED
      BY <3>1, <3>2
  <2>4. QED
    BY <1>7, <2>3
<1>8. CASE board' = "clock"
  <2>1. \/ board = "clock" /\ (x.heard => Reaction(text)[2] = <<>>)
        \/ board = "greeted" /\ Reaction(text)[2] = <<"OK">> /\ text = "Synchronized"
    BY <1>2, <1>3, <1>8 DEF Reaction, Boards
  <2>2. ASSUME NEW i \in 1..Len(L)
        PROVE  L[i] = "Synchronized" \/ (i = Len(L) /\ L[i] = "OK")
    <3>1. CASE i \in 1..Len(late) /\ L[i] = late[i]
      <4>1. CASE board = "greeted"
        BY <3>1, <4>1 DEF LineInv
      <4>2. CASE board = "clock" /\ (x.heard => Reaction(text)[2] = <<>>)
        <5>1. Len(L) = Len(late)
          BY <1>4, <4>2
        <5>2. QED
          BY <3>1, <4>2, <5>1 DEF LineInv
      <4>3. QED
        BY <2>1, <4>1, <4>2
    <3>2. CASE i = Len(L) /\ x.heard /\ Reaction(text)[2] = <<L[i]>>
      BY <2>1, <3>2
    <3>3. QED
      BY <1>4, <3>1, <3>2
  <2>3. ASSUME NEW i \in 1..Len(late')
        PROVE  late'[i] = "Synchronized" \/ (i = Len(late') /\ late'[i] = "OK")
    <3>1. late'[i] = L[i + x.n] /\ i + x.n \in 1..Len(L)
      BY <1>1
    <3>2. CASE L[i + x.n] = "Synchronized"
      BY <3>1, <3>2
    <3>3. CASE i + x.n = Len(L) /\ L[i + x.n] = "OK"
      BY <1>1, <3>1, <3>3
    <3>4. QED
      BY <2>2, <3>1, <3>2, <3>3
  <2>4. ASSUME NEW i \in 1..Len(W)
        PROVE  i \in 1..Len(L) /\ W[i] = L[i] /\ W[i] \in {"Synchronized", "OK"}
    BY <1>1, <2>2
  <2>5. ASSUME NEW i \in 1..Len(W), W[i] = "OK"
        PROVE  late' = <<>> /\ syncStatus # "SEND_FREQ"
    <3>1. i = Len(L)
      BY <2>2, <2>4, <2>5
    <3>2. Len(late') = 0
      BY <1>1, <3>1
    <3>3. syncStatus = "SEND_FREQ" => Len(L) = 0
      BY <1>4, <2>1 DEF LineInv, Asks
    <3>4. QED
      BY <1>1, <3>1, <3>2, <3>3
  <2>6. Found("OK", W) => late' = <<>> /\ syncStatus # "SEND_FREQ"
    BY <2>5 DEF Found
  <2>7. /\ \A i \in 1..Len(late') :
              late'[i] = "Synchronized" \/ (i = Len(late') /\ late'[i] = "OK")
        /\ \A i \in 1..Len(W) : W[i] \in {"Synchronized", "OK"}
    BY <2>3, <2>4
  <2>8. QED
    BY <1>8, <2>6, <2>7
<1>10. CASE board' = "data"
  <2>1. board = "data" /\ (x.heard => text # "ESC" /\ Reaction(text)[2] = <<text>>)
    BY <1>2, <1>3, <1>10 DEF Reaction, Boards
  <2>2. text \in {"?", "ESC"}
    BY <2>1 DEF LineInv, Asks
  <2>3. ASSUME NEW i \in 1..Len(L) PROVE L[i] \in {"OK", "0", "?"}
    <3>1. CASE i \in 1..Len(late) /\ L[i] = late[i]
      BY <2>1, <3>1 DEF LineInv
    <3>2. CASE x.heard /\ Reaction(text)[2] = <<L[i]>>
      BY <2>1, <2>2, <3>2
    <3>3. QED
      BY <1>4, <3>1, <3>2
  <2>4. /\ \A i \in 1..Len(late') : late'[i] \in {"OK", "0", "?"}
        /\ \A i \in 1..Len(W) : W[i] \in {"OK", "0", "?"}
    <3>1. ASSUME NEW i \in 1..Len(late') PROVE late'[i] \in {"OK", "0", "?"}
      <4>1. late'[i] = L[i + x.n] /\ i + x.n \in 1..Len(L)
        BY <1>1
      <4>2. QED
        BY <4>1, <2>3
    <3>2. ASSUME NEW i \in 1..Len(W) PROVE W[i] \in {"OK", "0", "?"}
      <4>1. W[i] = L[i] /\ i \in 1..Len(L)
        BY <1>1
      <4>2. QED
        BY <4>1, <2>3
    <3>3. QED
      BY <3>1, <3>2
  <2>5. syncStatus \notin {"RESP_SYNC", "SEND_FREQ"}
    BY <2>1 DEF LineInv
  <2>6. QED
    BY <1>10, <2>4, <2>5
<1>11. QED
  BY <1>2, <1>3, <1>6, <1>7, <1>8, <1>10


(* The window cannot hold what the loader has not sent.                    *)
LEMMA WindowTells ==
  ASSUME TypeOK, LineInv, ~restarts, NEW x \in Exchanges, NEW text \in Texts,
         <<syncStatus, text>> \in Asks, ISP_getResp(x, text),
         NEW W, W = Window(x, text)
  PROVE  /\ Found("OK", W) => /\ board' \notin {"none", "autobaud", "greeted"}
                              /\ board' = "clock" => late' = <<>> /\ syncStatus # "SEND_FREQ"
         /\ Found("Synchronized", W) => board' # "data"
         /\ W # <<>> /\ W[1] = "ESC" => board' = "command"
<1>1. W \in Seq(Texts) /\ Len(W) \in Nat /\ board' \in Boards \cup {"none"}
  BY ExchangeFacts, ExchangeTypes DEF Divides
<1>2. ASSUME Found("OK", W)
      PROVE  /\ board' \notin {"none", "autobaud", "greeted"}
             /\ board' = "clock" => late' = <<>> /\ syncStatus # "SEND_FREQ"
  <2>1. PICK i \in 1..Len(W) : W[i] = "OK"
    BY <1>2 DEF Found
  <2>2. W # <<>>
    BY <1>1, <2>1
  <2>3. QED
    BY <1>2, <2>1, <2>2, ExchangeLine
<1>3. ASSUME Found("Synchronized", W) PROVE board' # "data"
  <2>1. PICK i \in 1..Len(W) : W[i] = "Synchronized"
    BY <1>3 DEF Found
  <2>2. QED
    BY <2>1, ExchangeLine
<1>4. ASSUME W # <<>>, W[1] = "ESC" PROVE board' = "command"
  <2>1. 1 \in 1..Len(W)
    BY <1>1, <1>4
  <2>2. QED
    BY <1>1, <1>4, <2>1, ExchangeLine DEF Boards
<1>5. QED
  BY <1>2, <1>3, <1>4

(* One exchange preserves the invariant, when what the switch makes of the *)
(* window is never more than the window tells.                             *)
LEMMA ExchangeSync ==
  ASSUME SyncInv, NEW x \in Exchanges, NEW text \in Texts,
         <<syncStatus, text>> \in Asks, ISP_getResp(x, text),
         NEW W, W = Window(x, text),
         syncStatus' \in Returned \cup {"RESP_SYNC", "SEND_FREQ", "EXIT_SYNC"},
         syncStatus' = "RESP_SYNC" => Found("Synchronized", W),
         syncStatus' = "SEND_FREQ" => Found("OK", W) /\ syncStatus = "RESP_SYNC"
  PROVE  SyncInv'
<1>1. TypeOK'
  BY ExchangeTypes DEF SyncInv, TypeOK, Texts, Free
<1>2. ASSUME ~restarts PROVE LineInv'
  <2>1. /\ board' \in {"none", "autobaud"} => late' = <<>>
        /\ board' = "greeted" => \A i \in 1..Len(late') : late'[i] = "Synchronized"
        /\ board' = "clock" =>
             \A i \in 1..Len(late') :
                late'[i] = "Synchronized" \/ (i = Len(late') /\ late'[i] = "OK")
        /\ board' = "data" => \A i \in 1..Len(late') : late'[i] \in {"OK", "0", "?"}
    BY <1>2, ExchangeLine DEF SyncInv
  <2>2. board' = "clock" /\ syncStatus' = "SEND_FREQ" => late' = <<>>
    BY <1>2, WindowTells DEF SyncInv
  <2>3. board' = "data" => syncStatus' \notin {"RESP_SYNC", "SEND_FREQ"}
    <3>1. board' = "data" => syncStatus \notin {"RESP_SYNC", "SEND_FREQ"}
      BY <1>2, ExchangeLine DEF SyncInv
    <3>2. QED
      BY <1>2, <3>1, WindowTells DEF SyncInv
  <2>4. QED
    BY <2>1, <2>2, <2>3 DEF LineInv
<1>3. restarts' = restarts
  BY ExchangeTypes DEF SyncInv
<1>4. QED
  BY <1>1, <1>2, <1>3 DEF SyncInv

Told == Succeeds /\ ~restarts => board' = "command"

(* Every exchange of ISP_syncBaudRate keeps the invariant.                 *)
LEMMA HandshakeSync ==
  ASSUME SyncInv, ISP_syncBaudRate
  PROVE  SyncInv' /\ Told
<1>1. CASE SetupSync
  <2>1. PICK x \in Exchanges :
          ISP_getResp(x, "?") /\ syncStatus' = AfterSetup(Window(x, "?"))
    BY <1>1 DEF SetupSync
  <2>2. /\ "?" \in Texts /\ <<syncStatus, "?">> \in Asks
        /\ syncStatus' \in {"SYNC_TIMEOUT", "SYNC_ERROR", "RESP_SYNC", "EXIT_SYNC"}
        /\ syncStatus' = "RESP_SYNC" => Found("Synchronized", Window(x, "?"))
    BY <1>1, <2>1 DEF SetupSync, AfterSetup, Texts, Asks
  <2>3. SyncInv'
    BY <2>1, <2>2, ExchangeSync DEF Returned
  <2>4. QED
    BY <2>2, <2>3 DEF Told, Succeeds
<1>2. CASE RespSync
  <2>1. PICK x \in Exchanges :
          /\ ISP_getResp(x, "Synchronized")
          /\ syncStatus' = AfterOk(Window(x, "Synchronized"), "SEND_FREQ")
    BY <1>2 DEF RespSync
  <2>2. /\ "Synchronized" \in Texts /\ <<syncStatus, "Synchronized">> \in Asks
        /\ syncStatus = "RESP_SYNC"
        /\ syncStatus' \in {"SYNC_TIMEOUT", "SYNC_ERROR", "SEND_FREQ"}
        /\ syncStatus' = "SEND_FREQ" => Found("OK", Window(x, "Synchronized"))
    BY <1>2, <2>1 DEF RespSync, AfterOk, Texts, Asks
  <2>3. SyncInv'
    BY <2>1, <2>2, ExchangeSync DEF Returned
  <2>4. QED
    BY <2>2, <2>3 DEF Told, Succeeds
<1>3. CASE SendFreq
  <2>1. PICK x \in Exchanges :
          ISP_getResp(x, "0") /\ syncStatus' = AfterOk(Window(x, "0"), "SYNC_DONE")
    BY <1>3 DEF SendFreq
  <2>2. /\ "0" \in Texts /\ <<syncStatus, "0">> \in Asks /\ syncStatus = "SEND_FREQ"
        /\ syncStatus' \in {"SYNC_TIMEOUT", "SYNC_ERROR", "SYNC_DONE"}
        /\ syncStatus' = "SYNC_DONE" => Found("OK", Window(x, "0"))
    BY <1>3, <2>1 DEF SendFreq, AfterOk, Texts, Asks
  <2>3. SyncInv'
    BY <2>1, <2>2, ExchangeSync DEF Returned
  <2>4. ASSUME ~restarts, Found("OK", Window(x, "0")) PROVE board' = "command"
    <3>1. board' \in Boards \cup {"none"}
      BY <2>1, <2>2, ExchangeTypes DEF SyncInv
    <3>2. board' \notin {"none", "autobaud", "greeted", "clock"}
      BY <2>1, <2>2, <2>4, WindowTells DEF SyncInv
    <3>3. board' # "data"
      BY <2>1, <2>2, <2>4, ExchangeLine DEF SyncInv
    <3>4. QED
      BY <3>1, <3>2, <3>3 DEF Boards
  <2>5. QED
    BY <2>2, <2>3, <2>4 DEF Told, Succeeds
<1>4. CASE ExitSync
  <2>1. PICK x \in Exchanges :
          ISP_getResp(x, "ESC") /\ syncStatus' = AfterExit(Window(x, "ESC"))
    BY <1>4 DEF ExitSync
  <2>2. /\ "ESC" \in Texts /\ <<syncStatus, "ESC">> \in Asks
        /\ syncStatus' \in {"SYNC_TIMEOUT", "SYNC_ERROR", "SYNC_DONE"}
        /\ syncStatus' = "SYNC_DONE" =>
             Window(x, "ESC") # <<>> /\ Window(x, "ESC")[1] = "ESC"
    BY <1>4, <2>1 DEF ExitSync, AfterExit, Texts, Asks
  <2>3. SyncInv'
    BY <2>1, <2>2, ExchangeSync DEF Returned
  <2>4. QED
    BY <2>1, <2>2, <2>3, WindowTells DEF Told, Succeeds, SyncInv
<1>5. QED
  BY <1>1, <1>2, <1>3, <1>4 DEF ISP_syncBaudRate

(* What a job leaves on the line.                                          *)
LEMMA JobLeaves ==
  ASSUME TypeOK, SuccessfulJob \/ FailedJob
  PROVE  /\ late' \in Seq(Texts) /\ \A i \in 1..Len(late') : late'[i] \in {"OK", "0", "?"}
         /\ faults' \in 0..MaxFaults /\ Len(late') <= faults' + 1
<1>1. /\ late' \in Seq(Texts) /\ \A i \in 1..Len(late') : late'[i] \in {"OK", "0", "?"}
      /\ Len(late') \in 0..2 /\ (SuccessfulJob => Len(late') \in 0..1)
  <2>1. CASE late' = <<>>
    BY <2>1
  <2>2. ASSUME NEW t \in {"OK", "0"}, late' = <<t>>
        PROVE  /\ late' \in Seq(Texts) /\ Len(late') = 1
               /\ \A i \in 1..Len(late') : late'[i] \in {"OK", "0", "?"}
    <3>1. t \in Texts
      BY DEF Texts
    <3>2. Len(late') = 1 /\ late'[1] = t
      BY <2>2
    <3>3. QED
      BY <2>2, <3>1, <3>2
  <2>3. ASSUME NEW t \in {"OK", "0"}, NEW u \in {"OK", "0"}, late' = <<t, u>>
        PROVE  /\ late' \in Seq(Texts) /\ Len(late') = 2
               /\ \A i \in 1..Len(late') : late'[i] \in {"OK", "0", "?"}
    <3>1. t \in Texts /\ u \in Texts
      BY DEF Texts
    <3>2. Len(late') = 2 /\ late'[1] = t /\ late'[2] = u
      BY <2>3
    <3>3. QED
      BY <2>3, <3>1, <3>2
  <2>4. /\ SuccessfulJob => late' = <<>> \/ late' = <<"OK">>
        /\ FailedJob => \/ late' = <<>> \/ late' = <<"OK">> \/ late' = <<"0">>
                        \/ late' = <<"OK", "0">> \/ late' = <<"0", "0">>
    BY DEF SuccessfulJob, FailedJob
  <2>5. (late' = <<"OK">> \/ late' = <<"0">>) => \E t \in {"OK", "0"} : late' = <<t>>
    OBVIOUS
  <2>6. (late' = <<"OK", "0">> \/ late' = <<"0", "0">>)
          => \E t, u \in {"OK", "0"} : late' = <<t, u>>
    OBVIOUS
  <2>7. late' = <<>> => Len(late') = 0 /\ Len(late') \in 0..1
    OBVIOUS
  <2>8. QED
    BY <2>1, <2>2, <2>3, <2>4, <2>5, <2>6, <2>7
<1>2. faults \in 0..MaxFaults /\ MaxFaults \in Nat
  BY SyncAssumption DEF TypeOK
<1>3. CASE SuccessfulJob
  <2>1. faults' = faults
    BY <1>3 DEF SuccessfulJob
  <2>2. QED
    BY <1>1, <1>2, <1>3, <2>1
<1>4. CASE FailedJob
  <2>1. faults' = faults + 1 /\ faults < MaxFaults
    BY <1>4 DEF FailedJob
  <2>2. QED
    BY <1>1, <1>2, <1>4, <2>1
<1>5. QED
  BY <1>3, <1>4

(* So does everything that happens to the board between two handshakes.    *)
LEMMA OtherSync ==
  ASSUME SyncInv, NextTurn \/ SuccessfulJob \/ FailedJob \/ Replug \/ UNCHANGED syncVars
  PROVE  SyncInv' /\ Told
<1>1. CASE NextTurn
  <2>1. TypeOK' /\ restarts' = restarts
    <3>1. late' = late \/ late' = <<>>
      BY <1>1 DEF NextTurn
    <3>2. CASE late' = late
      BY <1>1, <3>2 DEF NextTurn, SyncInv, TypeOK, Texts
    <3>3. CASE late' = <<>>
      <4>1. late' \in Seq(Texts) /\ Len(late') = 0
        BY <3>3
      <4>2. QED
        BY <1>1, <4>1, SyncAssumption DEF NextTurn, SyncInv, TypeOK, Texts
    <3>4. QED
      BY <1>1, <3>1, <3>2, <3>3 DEF NextTurn
  <2>2. ASSUME ~restarts, late' = <<>> PROVE LineInv'
    BY <1>1, <2>2 DEF NextTurn, LineInv
  <2>3. ASSUME ~restarts, late' = late PROVE LineInv'
    BY <1>1, <2>3 DEF NextTurn, LineInv, SyncInv
  <2>4. QED
    BY <1>1, <2>1, <2>2, <2>3 DEF NextTurn, SyncInv, Told, Succeeds
<1>2. CASE SuccessfulJob \/ FailedJob
  <2>1. /\ syncStatus' = "SYNC_DONE" /\ syncStatus = "SYNC_DONE" /\ restarts' = restarts
        /\ board' \in {"command", "data"}
    BY <1>2 DEF SuccessfulJob, FailedJob
  <2>2. faults' \in 0..MaxFaults /\ Len(late') <= faults' + 1
    BY <1>2, JobLeaves DEF SyncInv
  <2>3. late' \in Seq(Texts) /\ \A i \in 1..Len(late') : late'[i] \in {"OK", "0", "?"}
    BY <1>2, JobLeaves DEF SyncInv
  <2>4. TypeOK'
    BY <2>1, <2>2, <2>3 DEF TypeOK, SyncInv, Boards, Texts, Returned
  <2>5. LineInv'
    BY <2>1, <2>3 DEF LineInv
  <2>6. QED
    BY <2>1, <2>4, <2>5 DEF SyncInv, Told, Succeeds
<1>3. CASE Replug
  <2>1. /\ syncStatus' = syncStatus /\ restarts' = restarts
        /\ board' \in {"none", "autobaud"} /\ late' = <<>>
    BY <1>3 DEF Replug
  <2>2. faults' \in 0..MaxFaults /\ late' \in Seq(Texts)
    BY <1>3, <2>1, SyncAssumption DEF Replug, SyncInv, TypeOK
  <2>3. board' \in Boards \cup {"none"} /\ board' \notin {"command", "data"}
    BY <2>1 DEF Boards
  <2>4. TypeOK'
    <3>1. Len(late') <= faults' + Free(board')
      <4>1. Free(board') = 0
        BY <2>3 DEF Free
      <4>2. faults' \in Nat
        BY <2>2, SyncAssumption
      <4>3. Len(late') = 0
        BY <2>1
      <4>4. \A f \in Nat : 0 <= f + 0
        OBVIOUS
      <4>5. QED
        BY <4>1, <4>2, <4>3, <4>4, Zenon
    <3>2. syncStatus' = syncStatus /\ restarts' = restarts
      BY <2>1
    <3>3. QED
      BY <2>2, <2>3, <3>1, <3>2 DEF TypeOK, SyncInv, Texts, Free
  <2>5. LineInv'
    BY <2>1 DEF LineInv
  <2>6. QED
    BY <2>1, <2>4, <2>5 DEF SyncInv, Told, Succeeds
<1>4. CASE UNCHANGED syncVars
  BY <1>4 DEF syncVars, SyncInv, TypeOK, LineInv, Told, Succeeds
<1>5. QED
  BY <1>1, <1>2, <1>3, <1>4

(* The line never holds what the boot loader has not sent.                 *)
THEOREM LineInvariant == Spec => []SyncInv
<1>1. Init => SyncInv
  BY SyncAssumption DEF Init, SyncInv, TypeOK, LineInv, Boards, Returned
<1>2. SyncInv /\ [Next]_syncVars => SyncInv'
  BY HandshakeSync, OtherSync DEF Next
<1>3. QED
  BY <1>1, <1>2, PTL DEF Spec

(* Type correctness, with what is late bounded by what has gone wrong and  *)
(* the one echo that a job leaves.                                         *)
THEOREM SyncTypes == Spec => []TypeOK
<1>1. SyncInv => TypeOK
  BY DEF SyncInv
<1>2. QED
  BY <1>1, LineInvariant, PTL

(* The handshake succeeds only with a boot loader that listens, for every  *)
(* number of lost and late answers.                                        *)
THEOREM SyncMeansListening == Spec => DoneMeansListening
<1>1. SyncInv /\ [Next]_syncVars
        => [Succeeds /\ ~restarts => board' = "command"]_syncVars
  BY HandshakeSync, OtherSync DEF Next, Told
<1>2. QED
  BY <1>1, LineInvariant, PTL DEF Spec, DoneMeansListening

-------------------------------------------------------------------------------
(* What a boot loader can have on the line whether or not it begins again. *)
Sendable ==
  /\ board \in {"none", "autobaud"} => late = <<>>
  /\ board \in {"greeted", "clock"} =>
       \A i \in 1..Len(late) : late[i] \in {"Synchronized", "OK"}
  /\ board = "data" => /\ syncStatus \notin {"RESP_SYNC", "SEND_FREQ"}
                       /\ \A i \in 1..Len(late) : late[i] \in {"OK", "0", "?"}

(* An "OK" on the line behind a "Synchronized".                            *)
OkBehindSync(line) ==
  \E i, j \in 1..Len(line) : i < j /\ line[i] = "Synchronized" /\ line[j] = "OK"

(* What has gone wrong before the line of a loader that is not yet         *)
(* listening can mislead the host: the further the handshake has come, the *)
(* more faults an "OK" that still waits on the line stands for.            *)
Debt ==
  board \in {"greeted", "clock"} =>
    /\ syncStatus \notin {"RESP_SYNC", "SEND_FREQ"} /\ OkBehindSync(late) => faults >= 3
    /\ syncStatus = "RESP_SYNC" /\ board = "greeted" /\ Found("Synchronized", late)
         => faults >= 2
    /\ syncStatus = "RESP_SYNC" /\ Found("OK", late) => faults >= 4
    /\ syncStatus = "SEND_FREQ" /\ Found("OK", late) => faults >= 5
    /\ syncStatus = "SEND_FREQ" /\ Found("OK", late) /\ board = "greeted" => faults >= 6

DebtInv == TypeOK /\ Sendable /\ Debt

(* An answer of one text is not an answer of none, and is its text.        *)
LEMMA OneText ==
  ASSUME NEW a, NEW b
  PROVE  <<a>> # <<>> /\ (<<a>> = <<b>> => a = b)
<1>1. Len(<<a>>) = 1 /\ Len(<<>>) = 0
  OBVIOUS
<1>2. <<a>>[1] = a /\ <<b>>[1] = b
  OBVIOUS
<1>3. QED
  BY <1>1, <1>2

(* Where the texts of a window W and of what stays late, rest, come from:  *)
(* of the line L only the last text is an answer to the present one.       *)
Traced(x, text, L, W, rest) ==
  /\ Len(L) \in Nat
  /\ \A p, q \in 1..Len(L) : p < q => p \in 1..Len(late) /\ L[p] = late[p]
  /\ \A p \in 1..Len(L) : \/ p \in 1..Len(late) /\ L[p] = late[p]
                          \/ x.heard /\ Reaction(text)[2] = <<L[p]>>
  /\ W \in Seq(Texts) /\ \A i \in 1..Len(W) : i \in 1..Len(L) /\ W[i] = L[i]
  /\ \A i \in 1..Len(W), j \in 1..Len(rest) : i < j + x.n
  /\ rest \in Seq(Texts) /\ x.n \in Nat
  /\ \A j \in 1..Len(rest) : j + x.n \in 1..Len(L) /\ rest[j] = L[j + x.n]

(* So it is after every exchange.                                          *)
LEMMA WhereFrom ==
  ASSUME TypeOK, NEW x \in Exchanges, NEW text \in Texts, ISP_getResp(x, text)
  PROVE  Traced(x, text, Line(x, text), Window(x, text), late')
<1> SUFFICES ASSUME NEW L, L = Line(x, text), NEW W, W = Window(x, text)
             PROVE  Traced(x, text, L, W, late')
  OBVIOUS
<1>1. /\ x.n \in 0..Len(L) /\ Len(L) \in Nat
      /\ W \in Seq(Texts) /\ Len(W) = x.n /\ \A i \in 1..x.n : W[i] = L[i]
      /\ late' \in Seq(Texts) /\ Len(late') = Len(L) - x.n
      /\ \A i \in 1..Len(late') : late'[i] = L[i + x.n] /\ i + x.n \in 1..Len(L)
  <2>1. Divides(x.n, L, W, late')
    BY ExchangeFacts
  <2>2. QED
    BY <2>1 DEF Divides
<1>2. /\ Len(L) \in {Len(late), Len(late) + 1} /\ Len(late) \in Nat
      /\ \A i \in 1..Len(late) : L[i] = late[i]
      /\ Len(L) = Len(late) + 1 => x.heard /\ Reaction(text)[2] = <<L[Len(late) + 1]>>
  BY LineFacts DEF TypeOK
<1>3. ASSUME NEW p \in 1..Len(L), p \notin 1..Len(late)
      PROVE  p = Len(L) /\ x.heard /\ Reaction(text)[2] = <<L[p]>>
  BY <1>1, <1>2, <1>3
<1>4. ASSUME NEW p \in 1..Len(L), NEW q \in 1..Len(L), p < q
      PROVE  p \in 1..Len(late) /\ L[p] = late[p]
  BY <1>1, <1>2, <1>4
<1>5. \A i \in 1..Len(W), j \in 1..Len(late') : i < j + x.n
  BY <1>1
<1>6. \A p \in 1..Len(L) : \/ p \in 1..Len(late) /\ L[p] = late[p]
                           \/ x.heard /\ Reaction(text)[2] = <<L[p]>>
  BY <1>2, <1>3
<1>7. QED
  BY <1>1, <1>4, <1>5, <1>6 DEF Traced

(* A lost text and a window that leaves something cost a fault each.       *)
LEMMA ExchangeCosts ==
  ASSUME TypeOK, NEW x \in Exchanges, NEW text \in Texts, ISP_getResp(x, text)
  PROVE  /\ faults \in Nat /\ faults' \in Nat /\ faults' >= faults
         /\ ~x.heard => faults' >= faults + 1
         /\ Len(late') > 0 => faults' >= faults + 1
         /\ ~x.heard /\ Len(late') > 0 => faults' >= faults + 2
<1> DEFINE L == Line(x, text)
<1>1. x.n \in 0..Len(L) /\ Len(L) \in Nat /\ Len(late') = Len(L) - x.n
  BY ExchangeFacts DEF Divides
<1>2. faults' = faults + Costs(x, text) /\ faults \in Nat
  BY SyncAssumption DEF ISP_getResp, TypeOK
<1>3. Len(late') > 0 => x.n < Len(L)
  BY <1>1
<1>4. QED
  BY <1>2, <1>3 DEF Costs, Exchanges

(* What the line holds after an exchange, by the boot loader's new state.  *)
LEMMA ExchangeSendable ==
  ASSUME TypeOK, Sendable, NEW x \in Exchanges, NEW text \in Texts,
         <<syncStatus, text>> \in Asks, ISP_getResp(x, text),
         NEW L, L = Line(x, text)
  PROVE  /\ board' \in Boards \cup {"none"}
         /\ board' \in {"none", "autobaud"} => Len(L) = 0
         /\ board' \in {"greeted", "clock"} =>
              \A p \in 1..Len(L) : L[p] \in {"Synchronized", "OK"}
         /\ board' = "data" => /\ syncStatus \notin {"RESP_SYNC", "SEND_FREQ"}
                               /\ \A p \in 1..Len(L) : L[p] \in {"OK", "0", "?"}
<1>1. board' = IF x.heard THEN Reaction(text)[1] ELSE board
  BY DEF ISP_getResp
<1>2. /\ Len(L) \in Nat
      /\ \A p \in 1..Len(L) : \/ p \in 1..Len(late) /\ L[p] = late[p]
                              \/ x.heard /\ Reaction(text)[2] = <<L[p]>>
  BY WhereFrom DEF Traced
<1>3. board \in Boards \cup {"none"} /\ Len(late) \in Nat
  BY DEF TypeOK
<1>4. board' \in Boards \cup {"none"}
  BY ExchangeTypes
<1>5. CASE board' \in {"none", "autobaud"}
  <2>1. board = board' /\ (x.heard => Reaction(text)[2] = <<>>)
    BY <1>1, <1>3, <1>5 DEF Reaction, Boards
  <2>2. late = <<>>
    BY <1>5, <2>1 DEF Sendable
  <2>3. ASSUME NEW p \in 1..Len(L) PROVE FALSE
    <3>1. p \notin 1..Len(late)
      BY <2>2
    <3>2. Reaction(text)[2] = <<L[p]>> /\ Reaction(text)[2] = <<>>
      BY <1>2, <2>1, <3>1
    <3>3. QED
      BY <3>2, OneText
  <2>4. Len(L) = 0
    BY <1>2, <2>3
  <2>5. QED
    BY <1>4, <1>5, <2>4
<1>6. CASE board' \in {"greeted", "clock"}
  <2>1. /\ board = "autobaud" \/ board \in {"greeted", "clock"}
        /\ x.heard => Reaction(text)[2] \in {<<>>, <<"Synchronized">>, <<"OK">>}
    BY <1>1, <1>3, <1>6 DEF Reaction, Boards
  <2>2. \A p \in 1..Len(late) : late[p] \in {"Synchronized", "OK"}
    BY <2>1, <1>3 DEF Sendable
  <2>3. \A p \in 1..Len(L) : L[p] \in {"Synchronized", "OK"}
    <3> SUFFICES ASSUME NEW p \in 1..Len(L), p \notin 1..Len(late) \/ L[p] # late[p]
                 PROVE  L[p] \in {"Synchronized", "OK"}
      BY <2>2
    <3>1. /\ Reaction(text)[2] = <<L[p]>>
          /\ Reaction(text)[2] \in {<<>>, <<"Synchronized">>, <<"OK">>}
      BY <1>2, <2>1
    <3>2. <<L[p]>> # <<>> /\ \A t \in Texts : <<L[p]>> = <<t>> => L[p] = t
      BY OneText
    <3>3. QED
      BY <3>1, <3>2 DEF Texts
  <2>4. QED
    BY <1>4, <1>6, <2>3
<1>7. CASE board' = "data"
  <2>1. board = "data" /\ (x.heard => text # "ESC" /\ Reaction(text)[2] = <<text>>)
    BY <1>1, <1>3, <1>7 DEF Reaction, Boards
  <2>2. text \in {"?", "ESC"} /\ syncStatus \notin {"RESP_SYNC", "SEND_FREQ"}
    BY <2>1 DEF Sendable, Asks
  <2>3. \A p \in 1..Len(L) : L[p] \in {"OK", "0", "?"}
    BY <1>2, <2>1, <2>2 DEF Sendable
  <2>4. QED
    BY <1>4, <1>7, <2>2, <2>3
<1>8. QED
  BY <1>4, <1>5, <1>6, <1>7

(* So an exchange keeps the line within what the loader sends.             *)
LEMMA SendableKept ==
  ASSUME TypeOK, Sendable, NEW x \in Exchanges, NEW text \in Texts,
         <<syncStatus, text>> \in Asks, ISP_getResp(x, text),
         syncStatus' \in Returned \cup {"RESP_SYNC", "SEND_FREQ", "EXIT_SYNC"},
         syncStatus' = "RESP_SYNC" => Found("Synchronized", Window(x, text)),
         syncStatus' = "SEND_FREQ" => syncStatus = "RESP_SYNC"
  PROVE  Sendable'
<1> DEFINE L == Line(x, text)
           W == Window(x, text)
<1> HIDE DEF L, W
<1>1. /\ board' \in {"none", "autobaud"} => Len(L) = 0
      /\ board' \in {"greeted", "clock"} =>
              \A p \in 1..Len(L) : L[p] \in {"Synchronized", "OK"}
      /\ board' = "data" => /\ syncStatus \notin {"RESP_SYNC", "SEND_FREQ"}
                            /\ \A p \in 1..Len(L) : L[p] \in {"OK", "0", "?"}
  BY ExchangeSendable DEF L
<1>2. /\ late' \in Seq(Texts) /\ Len(L) \in Nat /\ x.n \in Nat
      /\ \A j \in 1..Len(late') : j + x.n \in 1..Len(L) /\ late'[j] = L[j + x.n]
      /\ \A i \in 1..Len(W) : i \in 1..Len(L) /\ W[i] = L[i]
  <2>1. Traced(x, text, L, W, late')
    BY WhereFrom DEF L, W
  <2>2. QED
    BY <2>1 DEF Traced
<1>3. Len(L) = 0 => late' = <<>>
  BY <1>2
<1>4. board' \in {"greeted", "clock"} =>
        \A j \in 1..Len(late') : late'[j] \in {"Synchronized", "OK"}
  BY <1>1, <1>2
<1>5. board' = "data" => \A j \in 1..Len(late') : late'[j] \in {"OK", "0", "?"}
  BY <1>1, <1>2
<1>6. board' = "data" => syncStatus' \notin {"RESP_SYNC", "SEND_FREQ"}
  <2>1. board' = "data" => ~Found("Synchronized", W)
    BY <1>1, <1>2 DEF Found
  <2>2. QED
    BY <1>1, <2>1 DEF W
<1>7. QED
  BY <1>1, <1>3, <1>4, <1>5, <1>6 DEF Sendable

-------------------------------------------------------------------------------
(* The first exchange, which makes the boot loader greet.                  *)
LEMMA SetupDebt ==
  ASSUME DebtInv, SetupSync
  PROVE  DebtInv' /\ syncStatus' # "SYNC_DONE"
<1>1. PICK x \in Exchanges :
         ISP_getResp(x, "?") /\ syncStatus' = AfterSetup(Window(x, "?"))
  BY DEF SetupSync
<1> DEFINE L == Line(x, "?")
           W == Window(x, "?")
<1> HIDE DEF L, W
<1>2. /\ "?" \in Texts /\ <<syncStatus, "?">> \in Asks /\ syncStatus = "SETUP_SYNC"
      /\ syncStatus' \in {"SYNC_TIMEOUT", "SYNC_ERROR", "RESP_SYNC", "EXIT_SYNC"}
      /\ syncStatus' = "RESP_SYNC" => Found("Synchronized", W)
  BY <1>1 DEF SetupSync, AfterSetup, Texts, Asks, W
<1>3. TypeOK /\ Sendable /\ Debt
  BY DEF DebtInv
<1>4. TypeOK'
  BY <1>1, <1>2, <1>3, ExchangeTypes DEF TypeOK, Texts, Returned, Free
<1>5. Sendable'
  BY <1>1, <1>2, <1>3, SendableKept DEF W, Returned
<1>6. /\ Len(L) \in Nat
      /\ \A p, q \in 1..Len(L) : p < q => p \in 1..Len(late) /\ L[p] = late[p]
      /\ \A p \in 1..Len(L) : \/ p \in 1..Len(late) /\ L[p] = late[p]
                              \/ x.heard /\ Reaction("?")[2] = <<L[p]>>
      /\ \A i \in 1..Len(W) : i \in 1..Len(L) /\ W[i] = L[i]
      /\ \A i \in 1..Len(W), j \in 1..Len(late') : i < j + x.n
      /\ x.n \in Nat /\ late' \in Seq(Texts)
      /\ \A j \in 1..Len(late') : j + x.n \in 1..Len(L) /\ late'[j] = L[j + x.n]
  <2>1. Traced(x, "?", L, W, late')
    BY <1>1, <1>2, <1>3, WhereFrom DEF L, W
  <2>2. QED
    BY <2>1 DEF Traced
<1>7. /\ faults \in Nat /\ faults' \in Nat /\ faults' >= faults
      /\ Len(late') > 0 => faults' >= faults + 1
  BY <1>1, <1>2, <1>3, ExchangeCosts
<1> SUFFICES ASSUME board' \in {"greeted", "clock"} PROVE Debt'
  BY <1>2, <1>4, <1>5 DEF Debt, DebtInv
<1>8. board \in {"autobaud", "greeted", "clock"}
  BY <1>1, <1>3 DEF ISP_getResp, Reaction, TypeOK, Boards
<1>9. \A q \in 1..Len(L) : L[q] = "OK" => q \in 1..Len(late) /\ late[q] = "OK"
  <2>1. Reaction("?")[2] \in {<<>>, <<"Synchronized">>}
    BY <1>8 DEF Reaction
  <2>2. SUFFICES ASSUME NEW q \in 1..Len(L), L[q] = "OK",
                        q \notin 1..Len(late) \/ L[q] # late[q]
                 PROVE  FALSE
    BY <1>6
  <2>3. Reaction("?")[2] = <<"OK">>
    BY <1>6, <2>2
  <2>4. <<"OK">> # <<>> /\ (<<"OK">> = <<"Synchronized">> => "OK" = "Synchronized")
    BY OneText
  <2>5. QED
    BY <2>1, <2>3, <2>4
<1>10. ASSUME NEW p \in 1..Len(L), NEW q \in 1..Len(L), p < q,
              L[p] = "Synchronized", L[q] = "OK"
       PROVE  faults >= 3
  <2>1. OkBehindSync(late)
    BY <1>6, <1>9, <1>10 DEF OkBehindSync
  <2>2. board # "autobaud"
    BY <1>3, <1>9, <1>10 DEF Sendable
  <2>3. QED
    BY <1>2, <1>3, <1>8, <2>1, <2>2 DEF Debt
<1>11. OkBehindSync(late') => faults' >= 3
  <2> SUFFICES ASSUME NEW i \in 1..Len(late'), NEW j \in 1..Len(late'), i < j,
                      late'[i] = "Synchronized", late'[j] = "OK"
               PROVE  faults' >= 3
    BY DEF OkBehindSync
  <2>1. /\ i + x.n \in 1..Len(L) /\ j + x.n \in 1..Len(L) /\ i + x.n < j + x.n
        /\ L[i + x.n] = "Synchronized" /\ L[j + x.n] = "OK"
    BY <1>6
  <2>2. QED
    BY <1>7, <1>10, <2>1
<1>12. ASSUME syncStatus' = "RESP_SYNC", NEW j \in 1..Len(late')
       PROVE  /\ late'[j] = "Synchronized" => faults' >= 2
              /\ late'[j] = "OK" => faults' >= 4
  <2>1. PICK i \in 1..Len(W) : W[i] = "Synchronized"
    BY <1>2, <1>12 DEF Found
  <2>2. /\ i \in 1..Len(L) /\ L[i] = "Synchronized" /\ j + x.n \in 1..Len(L)
        /\ i < j + x.n /\ late'[j] = L[j + x.n]
    BY <1>6, <2>1
  <2>3. faults' >= faults + 1
    <3>1. Len(late') > 0
      BY <1>6
    <3>2. QED
      BY <1>7, <3>1
  <2>4. ASSUME late'[j] = "OK" PROVE faults' >= 4
    <3>1. faults >= 3
      BY <1>10, <2>2, <2>4
    <3>2. QED
      BY <1>7, <2>3, <3>1
  <2>5. faults >= 1
    <3>1. i \in 1..Len(late)
      BY <1>6, <2>2
    <3>2. late \in Seq(Texts) /\ Len(late) <= faults + 0
      BY <1>3, <1>8 DEF TypeOK, Texts
    <3>3. Len(late) \in Nat
      BY <3>2
    <3>4. QED
      BY <1>7, <3>1, <3>2, <3>3
  <2>6. QED
    BY <1>7, <2>3, <2>4, <2>5
<1>13. QED
  BY <1>2, <1>11, <1>12 DEF Debt, Found

(* The second: an "OK" that is found may be one of an earlier handshake,   *)
(* but then it was late already.                                           *)
LEMMA RespDebt ==
  ASSUME DebtInv, RespSync
  PROVE  DebtInv' /\ syncStatus' # "SYNC_DONE"
<1> DEFINE text == "Synchronized"
<1>1. PICK x \in Exchanges :
         ISP_getResp(x, text) /\ syncStatus' = AfterOk(Window(x, text), "SEND_FREQ")
  BY DEF RespSync
<1> DEFINE L == Line(x, text)
           W == Window(x, text)
<1> HIDE DEF L, W
<1>2. /\ text \in Texts /\ <<syncStatus, text>> \in Asks /\ syncStatus = "RESP_SYNC"
      /\ syncStatus' \in {"SYNC_TIMEOUT", "SYNC_ERROR", "SEND_FREQ"}
      /\ syncStatus' = "SEND_FREQ" => Found("OK", W)
  BY <1>1 DEF RespSync, AfterOk, Texts, Asks, W
<1>3. TypeOK /\ Sendable /\ Debt
  BY DEF DebtInv
<1>4. TypeOK'
  BY <1>1, <1>2, <1>3, ExchangeTypes DEF TypeOK, Texts, Returned, Free
<1>5. Sendable'
  BY <1>1, <1>2, <1>3, SendableKept DEF W, Returned
<1>6. /\ Len(L) \in Nat
      /\ \A p, q \in 1..Len(L) : p < q => p \in 1..Len(late) /\ L[p] = late[p]
      /\ \A p \in 1..Len(L) : \/ p \in 1..Len(late) /\ L[p] = late[p]
                              \/ x.heard /\ Reaction(text)[2] = <<L[p]>>
      /\ \A i \in 1..Len(W) : i \in 1..Len(L) /\ W[i] = L[i]
      /\ \A i \in 1..Len(W), j \in 1..Len(late') : i < j + x.n
      /\ x.n \in Nat /\ late' \in Seq(Texts)
      /\ \A j \in 1..Len(late') : j + x.n \in 1..Len(L) /\ late'[j] = L[j + x.n]
  <2>1. Traced(x, text, L, W, late')
    BY <1>1, <1>2, <1>3, WhereFrom DEF L, W
  <2>2. QED
    BY <2>1 DEF Traced
<1>7. /\ faults \in Nat /\ faults' \in Nat /\ faults' >= faults
      /\ Len(late') > 0 => faults' >= faults + 1
      /\ ~x.heard /\ Len(late') > 0 => faults' >= faults + 2
  BY <1>1, <1>2, <1>3, ExchangeCosts
<1> SUFFICES ASSUME board' \in {"greeted", "clock"} PROVE Debt'
  BY <1>2, <1>4, <1>5 DEF Debt, DebtInv
<1>8. /\ board \in {"greeted", "clock"}
      /\ board' = "greeted" => ~x.heard
      /\ board = "clock" => Reaction(text)[2] = <<>>
  BY <1>1, <1>3 DEF ISP_getResp, Reaction, TypeOK, Boards
<1>9. Found("OK", late) => faults >= 4
  BY <1>2, <1>3, <1>8 DEF Debt
<1>10. ASSUME syncStatus' = "SEND_FREQ", NEW j \in 1..Len(late'), late'[j] = "OK"
       PROVE  faults' >= 5 /\ (board' = "greeted" => faults' >= 6)
  <2>1. PICK i \in 1..Len(W) : W[i] = "OK"
    BY <1>2, <1>10 DEF Found
  <2>2. i \in 1..Len(late) /\ late[i] = "OK"
    BY <1>6, <2>1
  <2>3. faults >= 4
    BY <1>9, <2>2 DEF Found
  <2>4. Len(late') > 0
    BY <1>6
  <2>5. QED
    BY <1>7, <1>8, <2>3, <2>4
<1>11. ASSUME NEW i \in 1..Len(late'), NEW j \in 1..Len(late'), i < j,
              late'[i] = "Synchronized", late'[j] = "OK"
       PROVE  faults' >= 3
  <2>1. /\ i + x.n \in 1..Len(L) /\ j + x.n \in 1..Len(L) /\ i + x.n < j + x.n
        /\ L[i + x.n] = "Synchronized" /\ L[j + x.n] = "OK"
    BY <1>6, <1>11
  <2>2. i + x.n \in 1..Len(late) /\ late[i + x.n] = "Synchronized"
    BY <1>6, <2>1
  <2>3. CASE board = "greeted"
    <3>1. faults >= 2
      BY <1>2, <1>3, <2>2, <2>3 DEF Debt, Found
    <3>2. Len(late') > 0
      BY <1>6
    <3>3. QED
      BY <1>7, <3>1, <3>2
  <2>4. CASE board = "clock"
    <3>1. j + x.n \in 1..Len(late) /\ late[j + x.n] = "OK"
      BY <1>6, <1>8, <2>1, <2>4, OneText
    <3>2. QED
      BY <1>7, <1>9, <3>1 DEF Found
  <2>5. QED
    BY <1>8, <2>3, <2>4
<1>12. OkBehindSync(late') => faults' >= 3
  BY <1>11 DEF OkBehindSync
<1>13. QED
  BY <1>2, <1>10, <1>12 DEF Debt, Found

(* The third: with a loader that has not heard the frequency, "OK" can     *)
(* only be found where it waited on the line.                              *)
LEMMA FreqDebt ==
  ASSUME DebtInv, SendFreq
  PROVE  DebtInv' /\ (syncStatus' = "SYNC_DONE" /\ board' # "command" => faults' >= 6)
<1>1. PICK x \in Exchanges :
         ISP_getResp(x, "0") /\ syncStatus' = AfterOk(Window(x, "0"), "SYNC_DONE")
  BY DEF SendFreq
<1> DEFINE L == Line(x, "0")
           W == Window(x, "0")
<1> HIDE DEF L, W
<1>2. /\ "0" \in Texts /\ <<syncStatus, "0">> \in Asks /\ syncStatus = "SEND_FREQ"
      /\ syncStatus' \in {"SYNC_TIMEOUT", "SYNC_ERROR", "SYNC_DONE"}
      /\ syncStatus' = "SYNC_DONE" => Found("OK", W)
  BY <1>1 DEF SendFreq, AfterOk, Texts, Asks, W
<1>3. TypeOK /\ Sendable /\ Debt
  BY DEF DebtInv
<1>4. TypeOK'
  BY <1>1, <1>2, <1>3, ExchangeTypes DEF TypeOK, Texts, Returned, Free
<1>5. Sendable'
  BY <1>1, <1>2, <1>3, SendableKept DEF W, Returned
<1>6. /\ Len(L) \in Nat
      /\ \A p \in 1..Len(L) : \/ p \in 1..Len(late) /\ L[p] = late[p]
                              \/ x.heard /\ Reaction("0")[2] = <<L[p]>>
      /\ \A i \in 1..Len(W) : i \in 1..Len(L) /\ W[i] = L[i]
      /\ x.n \in Nat /\ late' \in Seq(Texts)
      /\ \A j \in 1..Len(late') : j + x.n \in 1..Len(L) /\ late'[j] = L[j + x.n]
  <2>1. Traced(x, "0", L, W, late')
    BY <1>1, <1>2, <1>3, WhereFrom DEF L, W
  <2>2. QED
    BY <2>1 DEF Traced
<1>7. /\ faults \in Nat /\ faults' \in Nat /\ faults' >= faults
      /\ ~x.heard => faults' >= faults + 1
  BY <1>1, <1>2, <1>3, ExchangeCosts
<1>8. /\ board' \in Boards \cup {"none"}
      /\ board' \in {"none", "autobaud"} => Len(L) = 0
      /\ board' # "data"
  BY <1>1, <1>2, <1>3, ExchangeSendable DEF L
<1>9. ASSUME board' \in {"greeted", "clock"}
      PROVE  /\ \A p \in 1..Len(L) : L[p] = "OK" => faults >= 5 /\ faults' >= 6
  <2>1. /\ Reaction("0")[2] = <<>> \/ ~x.heard
        /\ board = "clock" => ~x.heard
    BY <1>1, <1>3, <1>9 DEF ISP_getResp, Reaction, TypeOK, Boards
  <2>2. board = board'
    BY <1>1, <1>3, <1>9 DEF ISP_getResp, Reaction, TypeOK, Boards
  <2>3. ASSUME NEW p \in 1..Len(L), L[p] = "OK" PROVE faults >= 5 /\ faults' >= 6
    <3>1. Found("OK", late)
      BY <1>6, <2>1, <2>3, OneText DEF Found
    <3>2. faults >= 5 /\ (board = "greeted" => faults >= 6)
      BY <1>2, <1>3, <1>9, <2>2, <3>1 DEF Debt
    <3>3. QED
      BY <1>7, <1>9, <2>1, <2>2, <3>2
  <2>4. QED
    BY <2>3
<1>10. Debt'
  <2>1. ASSUME board' \in {"greeted", "clock"}, OkBehindSync(late') PROVE faults' >= 3
    <3>1. PICK j \in 1..Len(late') : late'[j] = "OK"
      BY <2>1 DEF OkBehindSync
    <3>2. j + x.n \in 1..Len(L) /\ L[j + x.n] = "OK"
      BY <1>6, <3>1
    <3>3. QED
      BY <1>7, <1>9, <2>1, <3>2
  <2>2. QED
    BY <1>2, <2>1 DEF Debt
<1>11. ASSUME syncStatus' = "SYNC_DONE", board' # "command" PROVE faults' >= 6
  <2>1. PICK p \in 1..Len(L) : L[p] = "OK"
    BY <1>2, <1>6, <1>11 DEF Found
  <2>2. board' \in {"greeted", "clock"}
    BY <1>6, <1>8, <1>11, <2>1 DEF Boards
  <2>3. QED
    BY <1>9, <2>1, <2>2
<1>12. QED
  BY <1>4, <1>5, <1>10, <1>11 DEF DebtInv

(* The echo of an "ESC" comes from a command handler and from nothing else.*)
LEMMA ExitDebt ==
  ASSUME DebtInv, ExitSync
  PROVE  DebtInv' /\ (syncStatus' = "SYNC_DONE" => board' = "command")
<1>1. PICK x \in Exchanges :
         ISP_getResp(x, "ESC") /\ syncStatus' = AfterExit(Window(x, "ESC"))
  BY DEF ExitSync
<1> DEFINE L == Line(x, "ESC")
           W == Window(x, "ESC")
<1> HIDE DEF L, W
<1>2. /\ "ESC" \in Texts /\ <<syncStatus, "ESC">> \in Asks /\ syncStatus = "EXIT_SYNC"
      /\ syncStatus' \in {"SYNC_TIMEOUT", "SYNC_ERROR", "SYNC_DONE"}
      /\ syncStatus' = "SYNC_DONE" => W # <<>> /\ W[1] = "ESC"
  BY <1>1 DEF ExitSync, AfterExit, Texts, Asks, W
<1>3. TypeOK /\ Sendable /\ Debt
  BY DEF DebtInv
<1>4. TypeOK'
  BY <1>1, <1>2, <1>3, ExchangeTypes DEF TypeOK, Texts, Returned, Free
<1>5. Sendable'
  BY <1>1, <1>2, <1>3, SendableKept DEF W, Returned
<1>6. /\ Len(L) \in Nat /\ W \in Seq(Texts)
      /\ \A p \in 1..Len(L) : \/ p \in 1..Len(late) /\ L[p] = late[p]
                              \/ x.heard /\ Reaction("ESC")[2] = <<L[p]>>
      /\ \A i \in 1..Len(W) : i \in 1..Len(L) /\ W[i] = L[i]
      /\ x.n \in Nat /\ late' \in Seq(Texts)
      /\ \A j \in 1..Len(late') : j + x.n \in 1..Len(L) /\ late'[j] = L[j + x.n]
  <2>1. Traced(x, "ESC", L, W, late')
    BY <1>1, <1>2, <1>3, WhereFrom DEF L, W
  <2>2. QED
    BY <2>1 DEF Traced
<1>7. faults \in Nat /\ faults' \in Nat /\ faults' >= faults
  BY <1>1, <1>2, <1>3, ExchangeCosts
<1>8. Debt'
  <2> SUFFICES ASSUME board' \in {"greeted", "clock"},
                      NEW i \in 1..Len(late'), NEW j \in 1..Len(late'), i < j,
                      late'[i] = "Synchronized", late'[j] = "OK"
               PROVE  faults' >= 3
    BY <1>2 DEF Debt, OkBehindSync
  <2>1. board = board' /\ (x.heard => Reaction("ESC")[2] = <<>>)
    BY <1>1, <1>3 DEF ISP_getResp, Reaction, TypeOK, Boards
  <2>2. /\ i + x.n \in 1..Len(late) /\ j + x.n \in 1..Len(late) /\ i + x.n < j + x.n
        /\ late[i + x.n] = "Synchronized" /\ late[j + x.n] = "OK"
    <3>1. ASSUME NEW p \in 1..Len(L), L[p] \in {"Synchronized", "OK"}
          PROVE  p \in 1..Len(late) /\ late[p] = L[p]
      <4>1. <<L[p]>> # <<>>
        BY OneText
      <4>2. QED
        BY <1>6, <2>1, <3>1, <4>1
    <3>2. /\ i + x.n \in 1..Len(L) /\ L[i + x.n] = "Synchronized"
          /\ j + x.n \in 1..Len(L) /\ L[j + x.n] = "OK"
      BY <1>6
    <3>3. i + x.n < j + x.n
      BY <1>6
    <3>4. QED
      BY <3>1, <3>2, <3>3
  <2>3. OkBehindSync(late)
    BY <2>2 DEF OkBehindSync
  <2>4. QED
    BY <1>2, <1>3, <1>7, <2>1, <2>3 DEF Debt
<1>9. ASSUME syncStatus' = "SYNC_DONE" PROVE board' = "command"
  <2>1. 1 \in 1..Len(L) /\ L[1] = "ESC"
    <3>1. 1 \in 1..Len(W)
      BY <1>2, <1>6, <1>9
    <3>2. QED
      BY <1>2, <1>6, <1>9, <3>1
  <2>2. /\ board' \in Boards \cup {"none"}
        /\ board' \in {"none", "autobaud"} => Len(L) = 0
        /\ board' \in {"greeted", "clock"} => L[1] \in {"Synchronized", "OK"}
        /\ board' = "data" => L[1] \in {"OK", "0", "?"}
    BY <1>1, <1>2, <1>3, <2>1, ExchangeSendable DEF L
  <2>3. QED
    BY <1>6, <2>1, <2>2 DEF Boards
<1>10. QED
  BY <1>4, <1>5, <1>8, <1>9 DEF DebtInv

Pays == Succeeds /\ board' # "command" => faults' >= 6

(* The next turn of the loop, a failed job and another board.              *)
LEMMA OtherDebt ==
  ASSUME DebtInv, TypeOK', NextTurn \/ SuccessfulJob \/ FailedJob \/ Replug \/ UNCHANGED syncVars
  PROVE  DebtInv' /\ Pays
<1> USE DEF DebtInv, Sendable, Debt, Pays, Succeeds
<1>1. CASE NextTurn
  <2>1. CASE late' = late
    BY <1>1, <2>1 DEF NextTurn, Returned
  <2>2. CASE late' = <<>>
    BY <1>1, <2>2 DEF NextTurn, Returned, OkBehindSync
  <2>3. QED
    BY <1>1, <2>1, <2>2 DEF NextTurn
<1>2. CASE SuccessfulJob \/ FailedJob
  <2>1. \A i \in 1..Len(late') : late'[i] \in {"OK", "0", "?"}
    BY <1>2, JobLeaves
  <2>2. QED
    BY <1>2, <2>1 DEF SuccessfulJob, FailedJob
<1>3. CASE Replug
  BY <1>3 DEF Replug
<1>4. CASE UNCHANGED syncVars
  BY <1>4 DEF syncVars, TypeOK
<1>5. QED
  BY <1>1, <1>2, <1>3, <1>4

(* Even a boot loader that begins broken handshakes again is mistaken for  *)
(* one that listens only after six faults.                                 *)
THEOREM SixFaultsForAMistake == Spec => MistakeTakesSix
<1>1. Init => DebtInv
  BY SyncAssumption DEF Init, DebtInv, Sendable, Debt, TypeOK, Boards, Returned
<1>2. TypeOK' /\ DebtInv /\ [Next]_syncVars => DebtInv' /\ Pays
  BY SetupDebt, RespDebt, FreqDebt, ExitDebt, OtherDebt
     DEF Next, ISP_syncBaudRate, Pays, Succeeds
<1>3. TypeOK' /\ DebtInv /\ [Next]_syncVars
        => [Succeeds /\ board' # "command" => faults' >= 6]_syncVars
  BY <1>2 DEF Pays
<1>4. QED
  BY <1>1, <1>2, <1>3, SyncTypes, PTL DEF Spec, MistakeTakesSix
===============================================================================
