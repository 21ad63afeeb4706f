------------------------------- MODULE Firmware -------------------------------
(***************************************************************************)
(* The life of the firmware: main and getISPCfg of OnlineProgram.cpp up to *)
(* the threads, with the buttons that are already enabled meanwhile, and   *)
(* then the calls that take memory and files, programBinFileV1 and         *)
(* parseRecvMsgInfo, one after the other on the one heap.                  *)
(*                                                                         *)
(* The heap is its number of free units: there is room for an item or      *)
(* there is none.  The endless loop of line 780 is left out, for with it   *)
(* no thread is ever started.                                              *)
(***************************************************************************)
EXTENDS Integers

CONSTANTS Heap,     \* the units of heap that are free at power-on
          Size      \* the units an item takes

Buffers == {"buffer", "checksumW", "checksumR"}
Items   == Buffers \cup {"FILE", "txt", "txtFlit", "json"}

ASSUME FirmwareAssumption == Heap \in Nat /\ Size \in [Items -> Nat \ {0}]

VARIABLES at,           \* the place in main, then "rest" or one in a call
          deviceMode, devStatus, eventFlags, networkEvent,
          held,         \* what the running function has and has not given back
          free,         \* the free units of the heap
          lost,         \* what the function that returned last left behind
          result,       \* what that function was: a job that succeeded or failed, or "none"
          config,       \* what getISPCfg left behind
          successes,    \* the jobs that have returned 0
          earlyReturns, \* those that returned between fopen and their loops
          replies       \* the replies that have been parsed

modeVars  == <<deviceMode, devStatus, eventFlags, networkEvent>>
countVars == <<lost, result, config, successes, earlyReturns, replies>>
lifeVars  == <<at, modeVars, held, free, countVars>>

MainPlaces == {"reset", "buttons", "test", "session", "status", "storeUID", "threads"}
CfgPlaces  == {"cfgOpened", "cfgTxt", "cfgFlit", "cfgParsed"}
JobPlaces  == {"opened", "erased", "gotBuffer", "gotChecksumW", "loops"}

Init ==
  /\ at = "reset"
  /\ deviceMode = "UID" /\ devStatus = "BIN_NOT_FOUND"
  /\ eventFlags = {} /\ networkEvent = {}
  /\ held = {} /\ lost = {} /\ config = {} /\ free = Heap
  /\ result = "none"
  /\ successes = 0 /\ earlyReturns = 0 /\ replies = 0

-------------------------------------------------------------------------------
(* Mutant: what malloc returns is not checked.                             *)
GetsUnchecked(item, from, to) ==
  /\ at = from
  /\ at' = to
  /\ held' = held \cup {item} /\ free' = free - Size[item]
  /\ UNCHANGED <<modeVars, countVars>>

(* malloc, fopen or cJSON_Parse finds room for the item; on a heap in      *)
(* pieces it may fail all the same.                                        *)
Gets(item, from, to) ==
  /\ at = from /\ free >= Size[item]
  /\ at' = to
  /\ held' = held \cup {item} /\ free' = free - Size[item]
  /\ UNCHANGED <<modeVars, countVars>>

(* What the items of a set take together.                                  *)
Units(i, S) == IF i \in S THEN Size[i] ELSE 0

Room(S) ==
  Units("FILE", S) + Units("txt", S) + Units("txtFlit", S) + Units("json", S)
    + Units("buffer", S) + Units("checksumW", S) + Units("checksumR", S)

(* The function returns: what it holds and does not free is lost.          *)
Returns(freed, to) ==
  /\ at' = to
  /\ held' = {} /\ lost' = held \ freed /\ free' = free + Room(held \cap freed)

-------------------------------------------------------------------------------
(***************************************************************************)
(* main.  SW3 can be pressed as soon as its interrupt is enabled; SW2 does *)
(* nothing, for no status it looks at is reached.                          *)
(***************************************************************************)
Step(from, to) == at = from /\ at' = to /\ UNCHANGED <<held, free, countVars>>

ResetEventFlags ==
  /\ Step("reset", "buttons")
  /\ eventFlags' = {}
  /\ UNCHANGED <<deviceMode, devStatus, networkEvent>>

EnableButtons == Step("buttons", "test") /\ UNCHANGED modeVars

(* test() finds no configuration on the card, or one it cannot open.       *)
NoConfiguration == Step("test", "session") /\ UNCHANGED modeVars

(* Mutant: the network is set up after the flags have been reset again.    *)
InitNetworkResets ==
  /\ Step("session", "status")
  /\ networkEvent' = {"offlineFlag", "firstConnectFlag"}
  /\ eventFlags' = {}
  /\ UNCHANGED <<deviceMode, devStatus>>

(* initNetworkEvent, and initNetwork, which goes on without a link, too:   *)
(* with a static address its test for one never succeeds.                  *)
InitNetwork ==
  /\ Step("session", "status")
  /\ networkEvent' = {"offlineFlag", "firstConnectFlag"}
  /\ UNCHANGED <<deviceMode, devStatus, eventFlags>>

(* Line 785: the mode is read, then the status is stored.                  *)
ReadMode ==
  /\ \/ deviceMode = "UID"  /\ Step("status", "storeUID")
     \/ deviceMode = "CODE" /\ Step("status", "threads")
  /\ UNCHANGED modeVars

StoreStatus ==
  /\ Step("storeUID", "threads")
  /\ devStatus' = "DISCONNECTED"
  /\ UNCHANGED <<deviceMode, eventFlags, networkEvent>>

StartThreads == Step("threads", "rest") /\ UNCHANGED modeVars

Sw3Release ==
  /\ at \in (MainPlaces \ {"reset", "buttons"}) \cup CfgPlaces
  /\ deviceMode' = IF deviceMode = "CODE" THEN "UID" ELSE "CODE"
  /\ eventFlags' = eventFlags \cup {"modeSwitchFlag"}
  /\ UNCHANGED <<at, devStatus, networkEvent, held, free, countVars>>

(***************************************************************************)
(* getISPCfg.  It returns without closing or freeing anything when all is  *)
(* well, and frees txt alone when it leaves by Exit.                       *)
(***************************************************************************)
CfgReturns(from, freed) ==
  /\ at = from /\ Returns(freed, "session")
  /\ config' = held \ freed
  /\ UNCHANGED <<modeVars, result, successes, earlyReturns, replies>>

GetISPCfg ==
  \/ Gets("FILE", "test", "cfgOpened")
  \/ CfgReturns("cfgOpened", {"FILE"})                          \* too large, no room for txt
  \/ Gets("txt", "cfgOpened", "cfgTxt")
  \/ CfgReturns("cfgTxt", {"FILE"})                             \* no room for txtFlit
  \/ Gets("txtFlit", "cfgTxt", "cfgFlit")
  \/ CfgReturns("cfgFlit", {"FILE", "txt"})                     \* no JSON
  \/ Gets("json", "cfgFlit", "cfgParsed")
  \/ CfgReturns("cfgParsed", {"FILE", "txt"})                   \* an item is missing
  \/ CfgReturns("cfgParsed", {})

-------------------------------------------------------------------------------
(***************************************************************************)
(* programBinFileV1.  The 64 bytes that ISP_WriteToRAM takes and gives     *)
(* back at once are not followed; without them the job leaves by Exit.     *)
(***************************************************************************)
JobFails(from, freed) ==
  /\ at = from /\ Returns(freed, "rest")
  /\ result' = "failure"
  /\ earlyReturns' = earlyReturns + (IF from \in JobPlaces \ {"loops"} THEN 1 ELSE 0)
  /\ UNCHANGED <<modeVars, config, successes, replies>>

(* Mutant: the second buffer is forgotten when there is no room for the    *)
(* third.                                                                  *)
NoRoomForgets == JobFails("gotChecksumW", {"buffer"})

NoChecksumR == JobFails("gotChecksumW", {"buffer", "checksumW"})

(* Mutant: a job that succeeds forgets to close its file, too.             *)
FreedBySuccessNothing == {}

FreedBySuccess == {"FILE"}

JobSucceeds ==
  /\ at = "loops" /\ Returns(FreedBySuccess, "rest")
  /\ result' = "success" /\ successes' = successes + 1
  /\ UNCHANGED <<modeVars, config, earlyReturns, replies>>

ProgramBinFileV1 ==
  \/ JobFails("rest", {})                                       \* no file
  \/ Gets("FILE", "rest", "opened")
  \/ JobFails("opened", {})                                     \* illegal size, not erased
  \/ at = "opened" /\ at' = "erased" /\ UNCHANGED <<modeVars, held, free, countVars>>
  \/ JobFails("erased", {})                                     \* no room for buffer
  \/ Gets("buffer", "erased", "gotBuffer")
  \/ JobFails("gotBuffer", {"buffer"})                          \* no room for checksumW
  \/ Gets("checksumW", "gotBuffer", "gotChecksumW")
  \/ NoChecksumR
  \/ Gets("checksumR", "gotChecksumW", "loops")
  \/ JobFails("loops", Buffers \cup {"FILE"})                   \* Exit
  \/ JobSucceeds

(* parseRecvMsgInfo never deletes what cJSON_Parse returns.                *)
ParseRecvMsgInfo ==
  /\ at = "rest" /\ free >= Size["json"]
  /\ free' = free - Size["json"]
  /\ lost' = {"json"} /\ result' = "none" /\ replies' = replies + 1
  /\ UNCHANGED <<at, modeVars, held, config, successes, earlyReturns>>

Main ==
  \/ ResetEventFlags \/ EnableButtons \/ NoConfiguration \/ GetISPCfg \/ InitNetwork
  \/ ReadMode \/ StoreStatus \/ StartThreads

Next == Main \/ Sw3Release \/ ProgramBinFileV1 \/ ParseRecvMsgInfo

Spec == Init /\ [][Next]_lifeVars

-------------------------------------------------------------------------------
TypeOK ==
  /\ at \in MainPlaces \cup CfgPlaces \cup JobPlaces \cup {"rest"}
  /\ deviceMode \in {"CODE", "UID"} /\ devStatus \in {"BIN_NOT_FOUND", "DISCONNECTED"}
  /\ eventFlags \subseteq {"modeSwitchFlag"}
  /\ networkEvent \subseteq {"offlineFlag", "firstConnectFlag"}
  /\ held \subseteq Items /\ lost \subseteq Items
  /\ free \in 0..Heap
  /\ result \in {"none", "success", "failure"}
  /\ config \subseteq Items
  /\ successes \in Nat /\ earlyReturns \in Nat /\ replies \in Nat

(* The main loop, its session and no job behind it.                        *)
Program ==
  INSTANCE OnlineProgram
  WITH mainPc <- "switch", tickPc <- "sleep", systemTimer <- 0, sinceSend <- 0,
       msgSendId <- "INVALID", msgRecvId <- "INVALID", uid <- "none",
       conn <- "closed", wire <- <<>>, srvAuth <- FALSE, issued <- {},
       UIDs <- {}, NoUid <- "none",
       HEARTBEAT_PERIOD_S <- 30, MSG_RESEND_PERIOD_S <- 5, MaxInFlight <- 1,
       HeartbeatAcked <- FALSE, ServerRequiresAuth <- TRUE, Faults <- {}

(* Whenever SW3 is pressed during the start-up, the threads find a state   *)
(* that OnlineProgram starts in: the status may belong to the other mode,  *)
(* but then the switch that repairs it is pending.                         *)
HandsOver == at = "threads" => Program!Init

(* A job that fails gives back all memory it got so far, wherever it       *)
(* leaves; at most the open file is forgotten.                             *)
FailureKeepsOnlyTheFile == result = "failure" => lost \subseteq {"FILE"}

(* What is gone for good: the configuration, the buffers of the successes, *)
(* the file of every early return and the tree of every reply.             *)
Gone ==
  Room(config) + successes * Room(Buffers) + earlyReturns * Size["FILE"]
    + replies * Size["json"]

(* The heap lasts for as many jobs and replies as their known leaks leave  *)
(* room for: however the calls of getISPCfg, programBinFileV1 and          *)
(* parseRecvMsgInfo succeed or fail one after the other, nothing else is   *)
(* ever lost, and nothing is given back twice.                             *)
LossIsKnown == free + Room(held) <= Heap /\ Heap <= free + Room(held) + Gone

(* The label that follows `return 0' announces that the memory is freed    *)
(* "here"; a job that has ended, well or not, has freed it.                *)
MemoryIsFreed == lost \cap Buffers = {}
===============================================================================
