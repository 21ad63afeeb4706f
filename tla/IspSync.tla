------------------------------- MODULE IspSync -------------------------------
(***************************************************************************)
(* ISP_syncBaudRate of program.cpp, called once per turn of the main loop, *)
(* and the boot loader at the other end of the line.  Its result is        *)
(* boardConnectedFlag, and IspBurn.tla starts its jobs on what it leaves.  *)
(*                                                                         *)
(* An exchange sends a text and reads until the line is silent.  Commands  *)
(* and answers get lost and answers come after their window, in the order  *)
(* they were sent; the next window reads them first.                       *)
(***************************************************************************)
EXTENDS Integers, Sequences

CONSTANT MaxFaults      \* bound on what goes wrong on the line

ASSUME SyncAssumption == MaxFaults \in Nat

VARIABLES syncStatus,   \* where ISP_syncBaudRate is, or what it has returned
          board,        \* the boot loader at the end of the line, or "none"
          restarts,     \* does a "?" begin a broken handshake again?
          late,         \* what the board has sent and no window has read
          faults

syncVars == <<syncStatus, board, restarts, late, faults>>

Returned == {"SYNC_DONE", "SYNC_TIMEOUT", "SYNC_ERROR"}

(* Waiting for a "?", for the host's "Synchronized", for the frequency of  *)
(* the crystal, for a command, or for the data of a write command.         *)
Boards == {"autobaud", "greeted", "clock", "command", "data"}

Init ==
  /\ syncStatus = "SETUP_SYNC"
  /\ board \in {"none", "autobaud"}
  /\ restarts \in BOOLEAN
  /\ late = <<>>
  /\ faults = 0

-------------------------------------------------------------------------------
(***************************************************************************)
(* The boot loader: its three answers, and the echo of its command         *)
(* handler, by which the code recognises it.  ESC aborts a command.        *)
(***************************************************************************)
Reaction(text) ==
  CASE board = "autobaud" /\ text = "?"            -> <<"greeted", <<"Synchronized">> >>
    [] board \in {"greeted", "clock"} /\ text = "?" /\ restarts
                                                   -> <<"greeted", <<"Synchronized">> >>
    [] board = "greeted" /\ text = "Synchronized"  -> <<"clock", <<"OK">> >>
    [] board = "clock" /\ text = "0"               -> <<"command", <<"OK">> >>
    [] board = "data" /\ text = "ESC"              -> <<"command", <<"ESC">> >>
    [] board \in {"command", "data"} /\ ~(board = "data" /\ text = "ESC")
                                                   -> <<board, <<text>> >>
    [] OTHER                                       -> <<board, <<>> >>

(* x.heard: the board gets the text.  x.lost: its answer gets lost.        *)
(* x.n: how many of the texts on the line arrive in the window.            *)
Exchanges == [heard : BOOLEAN, lost : BOOLEAN, n : 0..(MaxFaults + 2)]

Line(x, text) ==
  late \o (IF x.heard /\ ~x.lost THEN Reaction(text)[2] ELSE <<>>)

Window(x, text) == SubSeq(Line(x, text), 1, x.n)

Costs(x, text) ==
  (IF x.heard THEN 0 ELSE 1) + (IF x.lost THEN 1 ELSE 0)
     + (IF x.n < Len(Line(x, text)) THEN 1 ELSE 0)

(* Mutant: the window does not take from the line what it shows.           *)
ISP_getRespPeeks(x, text) ==
  /\ x.n <= Len(Line(x, text))
  /\ board' = IF x.heard THEN Reaction(text)[1] ELSE board
  /\ late' = Line(x, text)
  /\ faults' = faults + Costs(x, text) /\ faults' <= MaxFaults
  /\ UNCHANGED restarts

ISP_getResp(x, text) ==
  /\ x.n <= Len(Line(x, text))
  /\ board' = IF x.heard THEN Reaction(text)[1] ELSE board
  /\ late' = SubSeq(Line(x, text), x.n + 1, Len(Line(x, text)))
  /\ faults' = faults + Costs(x, text) /\ faults' <= MaxFaults
  /\ UNCHANGED restarts

Found(text, window) == \E i \in 1..Len(window) : window[i] = text

-------------------------------------------------------------------------------
(***************************************************************************)
(* ISP_syncBaudRate, one action per case of its switch.                    *)
(***************************************************************************)
(* Mutant: the echo of a board that is synchronised is not looked for.     *)
AfterSetupNoEcho(window) ==
  CASE window = <<>>                                    -> "SYNC_TIMEOUT"
    [] window # <<>> /\ Found("Synchronized", window)   -> "RESP_SYNC"
    [] OTHER                                            -> "SYNC_ERROR"

AfterSetup(window) ==
  CASE window = <<>>                                    -> "SYNC_TIMEOUT"
    [] Found("Synchronized", window)                    -> "RESP_SYNC"
    [] Found("?", window) /\ ~Found("Synchronized", window) -> "EXIT_SYNC"
    [] OTHER                                            -> "SYNC_ERROR"

SetupSync ==
  /\ syncStatus = "SETUP_SYNC"
  /\ \E x \in Exchanges :
        ISP_getResp(x, "?") /\ syncStatus' = AfterSetup(Window(x, "?"))

(* Mutant: any text counts as OK.                                          *)
AfterAnything(window, next) == IF window = <<>> THEN "SYNC_TIMEOUT" ELSE next

AfterOk(window, next) ==
  CASE window = <<>>                                    -> "SYNC_TIMEOUT"
    [] Found("OK", window)                              -> next
    [] OTHER                                            -> "SYNC_ERROR"

RespSync ==
  /\ syncStatus = "RESP_SYNC"
  /\ \E x \in Exchanges :
        /\ ISP_getResp(x, "Synchronized")
        /\ syncStatus' = AfterOk(Window(x, "Synchronized"), "SEND_FREQ")

SendFreq ==
  /\ syncStatus = "SEND_FREQ"
  /\ \E x \in Exchanges :
        ISP_getResp(x, "0") /\ syncStatus' = AfterOk(Window(x, "0"), "SYNC_DONE")

(* Mutant: the answer to the ESC is not looked at.                         *)
AfterExitAnyhow(window) == IF window = <<>> THEN "SYNC_TIMEOUT" ELSE "SYNC_DONE"

AfterExit(window) ==
  CASE window = <<>>                                    -> "SYNC_TIMEOUT"
    [] window # <<>> /\ window[1] = "ESC"               -> "SYNC_DONE"
    [] OTHER                                            -> "SYNC_ERROR"

ExitSync ==
  /\ syncStatus = "EXIT_SYNC"
  /\ \E x \in Exchanges :
        ISP_getResp(x, "ESC") /\ syncStatus' = AfterExit(Window(x, "ESC"))

ISP_syncBaudRate == SetupSync \/ RespSync \/ SendFreq \/ ExitSync

(* The next turn of the main loop.  The UART keeps what has come meanwhile *)
(* or loses it.                                                            *)
NextTurn ==
  /\ syncStatus \in Returned
  /\ syncStatus' = "SETUP_SYNC"
  /\ late' \in {late, <<>>}
  /\ UNCHANGED <<board, restarts, faults>>

(* A job that succeeds confirms the last block it has read with an "OK",   *)
(* and nothing reads the echo.  A job that fails leaves the boot loader in *)
(* the middle of a write, or answers on the line: that of an unlock, which *)
(* it does not look for, or such an echo, and the one it has missed.       *)
SuccessfulJob ==
  /\ syncStatus = "SYNC_DONE" /\ board = "command"
  /\ late' \in {<<>>, <<"OK">>}
  /\ UNCHANGED <<syncStatus, board, restarts, faults>>

FailedJob ==
  /\ syncStatus = "SYNC_DONE" /\ board = "command"
  /\ faults < MaxFaults /\ faults' = faults + 1
  /\ board' \in {"command", "data"}
  /\ late' \in {<<>>, <<"OK">>, <<"0">>, <<"OK", "0">>, <<"0", "0">>}
  /\ UNCHANGED <<syncStatus, restarts>>

(* The operator removes the board or connects a fresh one.  It takes him   *)
(* longer than a turn of the loop, whose windows empty the line.           *)
Replug ==
  /\ faults < MaxFaults /\ faults' = faults + 1
  /\ board' \in {"none", "autobaud"}
  /\ late' = <<>>
  /\ UNCHANGED <<syncStatus, restarts>>

Next == ISP_syncBaudRate \/ NextTurn \/ SuccessfulJob \/ FailedJob \/ Replug

(* Every exchange ends and the loop turns.                                 *)
Spec == Init /\ [][Next]_syncVars /\ WF_syncVars(ISP_syncBaudRate \/ NextTurn)

-------------------------------------------------------------------------------
TypeOK ==
  /\ syncStatus \in Returned \cup {"SETUP_SYNC", "RESP_SYNC", "SEND_FREQ", "EXIT_SYNC"}
  /\ board \in Boards \cup {"none"}
  /\ restarts \in BOOLEAN
  /\ late \in Seq({"?", "Synchronized", "OK", "0", "ESC"})
  /\ faults \in 0..MaxFaults
  /\ Len(late) <= faults + (IF board \in {"command", "data"} THEN 1 ELSE 0)

Succeeds == syncStatus # "SYNC_DONE" /\ syncStatus' = "SYNC_DONE"

(* The handshake succeeds only with a boot loader that listens to          *)
(* commands: neither late answers nor the echo of a board that waits for   *)
(* data are taken for it.  Detect of OnlineProgram and the first command   *)
(* of IspBurn rely on it.                                                  *)
DoneMeansListening == [][Succeeds /\ ~restarts => board' = "command"]_syncVars

(* A boot loader that begins a broken handshake again can be mistaken, for *)
(* two OKs of broken handshakes can then be on the line together; but it   *)
(* takes six faults in a row.                                              *)
MistakeTakesSix ==
  [][Succeeds /\ board' # "command" => faults' >= 6]_syncVars

(* A broken handshake the boot loader does not begin again.                *)
Stuck == ~restarts /\ board \in {"greeted", "clock"} /\ syncStatus \in Returned

(* Once the line is quiet, a board that stays there is found again and     *)
(* again, whatever failed jobs and broken handshakes have left in it.      *)
FoundAgain ==
  <>[](board # "none" /\ ~Stuck) => []<>(syncStatus = "SYNC_DONE")
===============================================================================
