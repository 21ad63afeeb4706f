---------------------------- MODULE FirmwareProofs ----------------------------
(***************************************************************************)
(* For every heap and every size of what is taken from it: what a failed   *)
(* job keeps, what is ever lost of the heap, and the state the threads     *)
(* start in.                                                               *)
(***************************************************************************)
EXTENDS Firmware, TLAPS

(* What the running function holds at each of its places.                  *)
HeldAt ==
  /\ at \in MainPlaces \cup {"rest"} => held = {}
  /\ at = "cfgOpened" => held = {"FILE"}
  /\ at = "cfgTxt" => held = {"FILE", "txt"}
  /\ at = "cfgFlit" => held = {"FILE", "txt", "txtFlit"}
  /\ at = "cfgParsed" => held = {"FILE", "txt", "txtFlit", "json"}
  /\ at \in {"opened", "erased"} => held = {"FILE"}
  /\ at = "gotBuffer" => held = {"FILE", "buffer"}
  /\ at = "gotChecksumW" => held = {"FILE", "buffer", "checksumW"}
  /\ at = "loops" => held = {"FILE", "buffer", "checksumW", "checksumR"}

(* The free units, those in use and those gone for good are the heap.      *)
Balance == free + Room(held) + Gone = Heap

(* How far main has come; nothing is left behind before getISPCfg returns. *)
Prepared ==
  /\ at \in {"reset", "buttons", "test"} \cup CfgPlaces => config = {}
  /\ at \in {"reset", "buttons"} => deviceMode = "UID" /\ eventFlags = {}
  /\ at \in {"status", "storeUID", "threads"}
       => networkEvent = {"offlineFlag", "firstConnectFlag"}
  /\ eventFlags = {} => deviceMode = "UID"
  /\ at \in MainPlaces \cup CfgPlaces /\ at # "threads" => devStatus = "BIN_NOT_FOUND"
  /\ at = "threads" /\ eventFlags = {} => devStatus = "DISCONNECTED"
  /\ at \in MainPlaces \cup CfgPlaces => result = "none"

LifeInv == TypeOK /\ HeldAt /\ Balance /\ FailureKeepsOnlyTheFile /\ Prepared

-------------------------------------------------------------------------------
(* What an item takes, in a set or not, is a number of units.              *)
LEMMA UnitTypes ==
  /\ \A i \in Items : Size[i] \in Nat /\ Size[i] > 0
  /\ \A i \in Items, S \in SUBSET Items : Units(i, S) \in Nat
BY FirmwareAssumption DEF Units

(* And so is what any set of items takes.                                  *)
LEMMA SizeTypes ==
  /\ \A i \in Items : Size[i] \in Nat /\ Size[i] > 0
  /\ \A S \in SUBSET Items : Room(S) \in Nat
  /\ Room({}) = 0 /\ Room({"FILE"}) = Size["FILE"]
<1>1. ASSUME NEW S \in SUBSET Items PROVE Room(S) \in Nat
  BY UnitTypes DEF Items, Buffers, Room
<1>2. \A i \in Items : Units(i, {}) = 0 /\ Units(i, {"FILE"}) = IF i = "FILE" THEN Size[i] ELSE 0
  BY DEF Units
<1>3. Room({}) = 0 /\ Room({"FILE"}) = Size["FILE"]
  BY <1>2, UnitTypes DEF Items, Buffers, Room
<1>4. QED
  BY <1>1, <1>3, UnitTypes

(* The units of a set are those of its two parts.                          *)
LEMMA RoomSplits ==
  ASSUME NEW S \in SUBSET Items, NEW freed
  PROVE  Room(S) = Room(S \cap freed) + Room(S \ freed)
<1>1. \A i \in Items : Units(i, S) = Units(i, S \cap freed) + Units(i, S \ freed)
  BY UnitTypes DEF Units
<1>2. \A i \in Items : Units(i, S \cap freed) \in Nat /\ Units(i, S \ freed) \in Nat
  BY UnitTypes
<1>3. QED
  BY <1>1, <1>2 DEF Items, Buffers, Room

(* An item that is not held yet adds its own units.                        *)
LEMMA RoomGrows ==
  ASSUME NEW S \in SUBSET Items, NEW item \in Items, item \notin S
  PROVE  Room(S \cup {item}) = Room(S) + Size[item]
<1>1. S \cup {item} \in SUBSET Items
  OBVIOUS
<1>2. (S \cup {item}) \cap S = S /\ (S \cup {item}) \ S = {item}
  OBVIOUS
<1>3. Room(S \cup {item}) = Room(S) + Room({item})
  BY <1>1, <1>2, RoomSplits
<1>4. \A i \in Items : Units(i, {item}) = IF i = item THEN Size[i] ELSE 0
  BY DEF Units
<1>5. Room({item}) = Size[item]
  BY <1>4, UnitTypes DEF Items, Buffers, Room
<1>6. QED
  BY <1>3, <1>5

(* What jobs, replies and the configuration leave behind for good is one,  *)
(* too, and so are its parts.                                              *)
LEMMA GoneTypes ==
  ASSUME TypeOK
  PROVE  /\ Room(config) \in Nat /\ Room(Buffers) \in Nat
         /\ Size["FILE"] \in Nat /\ Size["json"] \in Nat
         /\ successes * Room(Buffers) \in Nat
         /\ earlyReturns * Size["FILE"] \in Nat
         /\ replies * Size["json"] \in Nat
         /\ Gone \in Nat
<1>1. successes \in Nat /\ earlyReturns \in Nat /\ replies \in Nat /\ config \in SUBSET Items
  BY DEF TypeOK
<1>2. Room(config) \in Nat /\ Room(Buffers) \in Nat /\ Size["FILE"] \in Nat /\ Size["json"] \in Nat
  BY <1>1, SizeTypes DEF Items
<1>3. \A a, b \in Nat : a * b \in Nat
  OBVIOUS
<1>4. /\ successes * Room(Buffers) \in Nat /\ earlyReturns * Size["FILE"] \in Nat
      /\ replies * Size["json"] \in Nat
  BY <1>1, <1>2, <1>3
<1>5. QED
  BY <1>2, <1>4 DEF Gone

(* At power-on the whole heap is free.                                     *)
LEMMA InitLife == Init => LifeInv
<1> SUFFICES ASSUME Init PROVE LifeInv
  OBVIOUS
<1> USE FirmwareAssumption DEF Init
<1>1. TypeOK /\ HeldAt /\ FailureKeepsOnlyTheFile /\ Prepared
  BY DEF TypeOK, HeldAt, FailureKeepsOnlyTheFile, Prepared, MainPlaces, CfgPlaces, JobPlaces
<1>2. Balance
  <2>1. /\ 0 * Room(Buffers) = 0 /\ 0 * Size["FILE"] = 0 /\ 0 * Size["json"] = 0
        /\ Room({}) = 0
    BY SizeTypes DEF Items
  <2>2. QED
    BY <2>1 DEF Balance, Gone
<1>3. QED
  BY <1>1, <1>2 DEF LifeInv

(* Taking an item that is not held yet keeps the balance.                  *)
LEMMA GetsLife ==
  ASSUME LifeInv, NEW item \in Items, NEW from, NEW to, Gets(item, from, to), item \notin held
  PROVE  /\ held' = held \cup {item} /\ held' \in SUBSET Items
         /\ free' \in 0..Heap
         /\ Balance'
<1> USE FirmwareAssumption DEF LifeInv, TypeOK
<1>1. free' = free - Size[item] /\ free >= Size[item] /\ held' = held \cup {item}
  BY DEF Gets
<1>2. Size[item] \in Nat /\ free' \in 0..Heap
  BY <1>1, SizeTypes
<1>3. Room(held') = Room(held) + Size[item]
  BY <1>1, RoomGrows
<1>4. Gone' = Gone /\ Gone \in Nat
  BY GoneTypes DEF Gets, countVars, Gone
<1>5. Room(held) \in Nat /\ Room(held') \in Nat
  BY <1>1, SizeTypes
<1>6. QED
  BY <1>1, <1>2, <1>3, <1>4, <1>5 DEF Balance

(* So does returning, if what is not freed is counted as gone.             *)
LEMMA ReturnsLife ==
  ASSUME LifeInv, NEW freed, NEW to, Returns(freed, to)
  PROVE  /\ held' = {} /\ lost' = held \ freed /\ lost' \in SUBSET Items
         /\ free' \in 0..Heap
         /\ Gone' = Gone + Room(held \ freed) => Balance'
<1> USE FirmwareAssumption DEF LifeInv, TypeOK
<1>1. /\ held' = {} /\ lost' = held \ freed /\ lost' \in SUBSET Items
      /\ free' = free + Room(held \cap freed)
  BY DEF Returns
<1>2. Room(held) = Room(held \cap freed) + Room(held \ freed)
  BY RoomSplits
<1>3. Room(held \cap freed) \in Nat /\ Room(held \ freed) \in Nat /\ Room({}) = 0
  BY SizeTypes
<1>4. Gone \in Nat
  BY GoneTypes
<1>5. free' \in 0..Heap
  BY <1>1, <1>2, <1>3, <1>4 DEF Balance
<1>6. Gone' = Gone + Room(held \ freed) => Balance'
  BY <1>1, <1>2, <1>3, <1>4 DEF Balance
<1>7. QED
  BY <1>1, <1>5, <1>6

-------------------------------------------------------------------------------
(* The steps of main and of SW3 leave the heap alone.                      *)
LEMMA MainLife ==
  ASSUME LifeInv,
         ResetEventFlags \/ EnableButtons \/ NoConfiguration \/ InitNetwork \/ ReadMode
           \/ StoreStatus \/ StartThreads \/ Sw3Release
  PROVE  LifeInv'
<1> USE FirmwareAssumption
        DEF ResetEventFlags, EnableButtons, NoConfiguration, InitNetwork, ReadMode,
            StoreStatus, StartThreads, Sw3Release, Step, modeVars, countVars
<1>1. UNCHANGED <<held, free, countVars>>
  OBVIOUS
<1>2. TypeOK'
  BY <1>1 DEF LifeInv, TypeOK, MainPlaces, CfgPlaces, JobPlaces
<1>3. HeldAt'
  BY <1>1 DEF LifeInv, TypeOK, HeldAt, MainPlaces, CfgPlaces
<1>4. Balance' /\ FailureKeepsOnlyTheFile'
  BY <1>1 DEF LifeInv, Balance, Gone, FailureKeepsOnlyTheFile
<1>5. Prepared'
  BY DEF LifeInv, TypeOK, Prepared, MainPlaces, CfgPlaces
<1>6. QED
  BY <1>2, <1>3, <1>4, <1>5 DEF LifeInv

(* getISPCfg runs before the counts begin.                                 *)
LEMMA CfgLife == LifeInv /\ GetISPCfg => LifeInv'
<1> SUFFICES ASSUME LifeInv, GetISPCfg PROVE LifeInv'
  OBVIOUS
<1> USE DEF LifeInv, TypeOK, HeldAt, Prepared, FailureKeepsOnlyTheFile, MainPlaces, CfgPlaces,
            JobPlaces, modeVars, countVars, Items
<1>1. CASE Gets("FILE", "test", "cfgOpened")
  BY <1>1, GetsLife DEF Gets
<1>2. CASE Gets("txt", "cfgOpened", "cfgTxt")
  BY <1>2, GetsLife DEF Gets
<1>3. CASE Gets("txtFlit", "cfgTxt", "cfgFlit")
  BY <1>3, GetsLife DEF Gets
<1>4. CASE Gets("json", "cfgFlit", "cfgParsed")
  BY <1>4, GetsLife DEF Gets
<1>5. ASSUME NEW from \in CfgPlaces, NEW freed, CfgReturns(from, freed) PROVE LifeInv'
  <2>1. /\ at = from /\ at' = "session" /\ Returns(freed, "session")
        /\ config' = held \ freed
        /\ UNCHANGED <<modeVars, result, successes, earlyReturns, replies>>
    BY <1>5 DEF CfgReturns, Returns
  <2>2. config = {} /\ Room({}) = 0 /\ Room(held \ freed) \in Nat
    BY <2>1, SizeTypes
  <2>3. Gone' = Gone + Room(held \ freed)
    BY <2>1, <2>2, GoneTypes DEF Gone
  <2>4. held' = {} /\ lost' \in SUBSET Items /\ free' \in 0..Heap /\ Balance'
    BY <2>1, <2>3, ReturnsLife
  <2>5. result = "none"
    BY <2>1
  <2>6. QED
    BY <2>1, <2>4, <2>5
<1>6. QED
  BY <1>1, <1>2, <1>3, <1>4, <1>5 DEF GetISPCfg

(* The places where a job leaves by a return before its loops.             *)
EarlyReturn(from, freed) ==
  \/ from = "rest" /\ freed = {}
  \/ from = "opened" /\ freed = {}
  \/ from = "erased" /\ freed = {}
  \/ from = "gotBuffer" /\ freed = {"buffer"}
  \/ from = "gotChecksumW" /\ freed = {"buffer", "checksumW"}
  \/ from = "loops" /\ freed = Buffers \cup {"FILE"}

(* A job that fails keeps no buffer.                                       *)
LEMMA FailsLife ==
  ASSUME LifeInv, NEW from, NEW freed, JobFails(from, freed), EarlyReturn(from, freed)
  PROVE  LifeInv'
<1>1. /\ at = from /\ at' = "rest" /\ Returns(freed, "rest") /\ result' = "failure"
      /\ earlyReturns' = earlyReturns + (IF from \in JobPlaces \ {"loops"} THEN 1 ELSE 0)
      /\ UNCHANGED <<modeVars, config, successes, replies>>
  BY DEF JobFails, Returns
<1>2. held \ freed = IF from \in JobPlaces \ {"loops"} THEN {"FILE"} ELSE {}
  BY <1>1 DEF LifeInv, HeldAt, EarlyReturn, Buffers, JobPlaces
<1>3. earlyReturns' \in Nat
  BY <1>1 DEF LifeInv, TypeOK
<1>4. Gone' = Gone + Room(held \ freed)
  <2>1. Room({"FILE"}) = Size["FILE"] /\ Room({}) = 0 /\ Size["FILE"] \in Nat
    BY SizeTypes DEF Items
  <2>2. earlyReturns' * Size["FILE"] = earlyReturns * Size["FILE"] + Room(held \ freed)
    <3>1. \A e, f \in Nat : (e + 1) * f = e * f + f /\ e + 0 = e /\ e * f + 0 = e * f
      OBVIOUS
    <3>2. earlyReturns \in Nat
      BY DEF LifeInv, TypeOK
    <3>3. CASE from \in JobPlaces \ {"loops"}
      <4>1. earlyReturns' = earlyReturns + 1 /\ Room(held \ freed) = Size["FILE"]
        BY <1>1, <1>2, <2>1, <3>3
      <4>2. QED
        <5>1. (earlyReturns + 1) * Size["FILE"] = earlyReturns * Size["FILE"] + Size["FILE"]
          BY <2>1, <3>1, <3>2
        <5>2. QED
          BY <4>1, <5>1, Zenon
    <3>4. CASE from \notin JobPlaces \ {"loops"}
      <4>1. earlyReturns' = earlyReturns + 0 /\ Room(held \ freed) = 0
        BY <1>1, <1>2, <2>1, <3>4
      <4>2. QED
        BY <2>1, <3>1, <3>2, <4>1, Zenon
    <3>5. QED
      BY <3>3, <3>4
  <2>3. Room(held \ freed) \in Nat
    BY <1>2, <2>1
  <2>4. QED
    BY <1>1, <2>2, <2>3, GoneTypes DEF Gone, LifeInv
<1>5. held' = {} /\ lost' = held \ freed /\ lost' \in SUBSET Items /\ free' \in 0..Heap /\ Balance'
  BY <1>1, <1>4, ReturnsLife
<1>6. TypeOK'
  BY <1>1, <1>3, <1>5 DEF LifeInv, TypeOK, modeVars
<1>7. HeldAt' /\ FailureKeepsOnlyTheFile' /\ Prepared'
  BY <1>1, <1>2, <1>5
     DEF LifeInv, HeldAt, FailureKeepsOnlyTheFile, Prepared, MainPlaces, CfgPlaces, modeVars
<1>8. QED
  BY <1>5, <1>6, <1>7 DEF LifeInv

(* A job that succeeds is counted with the three buffers it keeps.         *)
LEMMA SucceedsLife == LifeInv /\ JobSucceeds => LifeInv'
<1> SUFFICES ASSUME LifeInv, JobSucceeds PROVE LifeInv'
  OBVIOUS
<1>1. /\ at = "loops" /\ at' = "rest" /\ Returns({"FILE"}, "rest") /\ result' = "success"
      /\ successes' = successes + 1 /\ UNCHANGED <<modeVars, config, earlyReturns, replies>>
  BY DEF JobSucceeds, FreedBySuccess, Returns
<1>2. held \ {"FILE"} = Buffers
  BY <1>1 DEF LifeInv, HeldAt, Buffers
<1>3. Gone' = Gone + Room(held \ {"FILE"})
  <2>1. \A s, m \in Nat : (s + 1) * m = s * m + m
    OBVIOUS
  <2>2. successes \in Nat /\ Room(Buffers) \in Nat
    BY GoneTypes DEF LifeInv, TypeOK
  <2>3. successes' * Room(Buffers) = successes * Room(Buffers) + Room(Buffers)
    BY <1>1, <2>1, <2>2, Zenon
  <2>4. QED
    <3>1. LifeInv => TypeOK
      BY DEF LifeInv
    <3>2. Room(held \ {"FILE"}) = Room(Buffers)
      BY <1>2
    <3>3. /\ Room(config') = Room(config) /\ earlyReturns' = earlyReturns
          /\ replies' = replies
      BY <1>1
    <3>4. QED
      BY <2>3, <3>1, <3>2, <3>3, GoneTypes DEF Gone
<1>4. held' = {} /\ lost' \in SUBSET Items /\ free' \in 0..Heap /\ Balance'
  BY <1>1, <1>3, ReturnsLife
<1>5. TypeOK'
  BY <1>1, <1>4 DEF LifeInv, TypeOK, modeVars
<1>6. HeldAt' /\ FailureKeepsOnlyTheFile' /\ Prepared'
  BY <1>1, <1>4
     DEF LifeInv, HeldAt, FailureKeepsOnlyTheFile, Prepared, MainPlaces, CfgPlaces, modeVars
<1>7. QED
  BY <1>4, <1>5, <1>6 DEF LifeInv

(* A reply is counted with its tree.                                       *)
LEMMA ReplyLife == LifeInv /\ ParseRecvMsgInfo => LifeInv'
<1> SUFFICES ASSUME LifeInv, ParseRecvMsgInfo PROVE LifeInv'
  OBVIOUS
<1> USE DEF ParseRecvMsgInfo, modeVars
<1>1. Size["json"] \in Nat /\ replies \in Nat /\ free \in 0..Heap
  BY SizeTypes DEF Items, LifeInv, TypeOK
<1>2. free' \in 0..Heap
  BY <1>1, FirmwareAssumption
<1>3. TypeOK' /\ HeldAt' /\ FailureKeepsOnlyTheFile' /\ Prepared'
  BY <1>1, <1>2
     DEF LifeInv, TypeOK, HeldAt, FailureKeepsOnlyTheFile, Prepared, MainPlaces, CfgPlaces, Items
<1>4. Balance'
  <2>1. \A r, j \in Nat : (r + 1) * j = r * j + j
    OBVIOUS
  <2>2. replies' * Size["json"] = replies * Size["json"] + Size["json"]
    BY <1>1, <2>1
  <2>3. Gone' = Gone + Size["json"]
    BY <1>1, <2>2, GoneTypes DEF Gone, LifeInv
  <2>4. Gone \in Nat /\ Room(held) \in Nat /\ Room(held') = Room(held)
    BY GoneTypes, SizeTypes DEF LifeInv, TypeOK
  <2>5. QED
    BY <1>1, <2>3, <2>4, FirmwareAssumption DEF LifeInv, Balance
<1>5. QED
  BY <1>3, <1>4 DEF LifeInv

(* The calls of a job up to its return.                                    *)
LEMMA JobLife == LifeInv /\ ProgramBinFileV1 => LifeInv'
<1> SUFFICES ASSUME LifeInv, ProgramBinFileV1 PROVE LifeInv'
  OBVIOUS
<1>1. ASSUME NEW item \in {"FILE"} \cup Buffers, NEW from \in {"rest"} \cup JobPlaces,
             NEW to \in JobPlaces, Gets(item, from, to), item \notin held, HeldAt'
      PROVE  LifeInv'
  <2>1. held' \in SUBSET Items /\ free' \in 0..Heap /\ Balance'
    BY <1>1, GetsLife DEF Items
  <2>2. at' = to /\ UNCHANGED <<modeVars, countVars>>
    BY <1>1 DEF Gets
  <2>3. TypeOK' /\ FailureKeepsOnlyTheFile' /\ Prepared'
    BY <2>1, <2>2
       DEF LifeInv, TypeOK, FailureKeepsOnlyTheFile, Prepared, MainPlaces, CfgPlaces, JobPlaces,
           modeVars, countVars
  <2>4. QED
    BY <1>1, <2>1, <2>3 DEF LifeInv
<1>2. CASE Gets("FILE", "rest", "opened")
  <2>1. "FILE" \notin held /\ HeldAt'
    BY <1>2 DEF LifeInv, HeldAt, Gets, MainPlaces
  <2>2. QED
    BY <1>1, <1>2, <2>1 DEF JobPlaces
<1>3. CASE Gets("buffer", "erased", "gotBuffer")
  <2>1. "buffer" \notin held /\ HeldAt'
    BY <1>3 DEF LifeInv, HeldAt, Gets, MainPlaces
  <2>2. QED
    BY <1>1, <1>3, <2>1 DEF JobPlaces, Buffers
<1>4. CASE Gets("checksumW", "gotBuffer", "gotChecksumW")
  <2>1. "checksumW" \notin held /\ HeldAt'
    BY <1>4 DEF LifeInv, HeldAt, Gets, MainPlaces
  <2>2. QED
    BY <1>1, <1>4, <2>1 DEF JobPlaces, Buffers
<1>5. CASE Gets("checksumR", "gotChecksumW", "loops")
  <2>1. "checksumR" \notin held /\ HeldAt'
    BY <1>5 DEF LifeInv, HeldAt, Gets, MainPlaces
  <2>2. QED
    BY <1>1, <1>5, <2>1 DEF JobPlaces, Buffers
<1>6. CASE at = "opened" /\ at' = "erased" /\ UNCHANGED <<modeVars, held, free, countVars>>
  BY <1>6
     DEF LifeInv, TypeOK, HeldAt, Balance, Gone, FailureKeepsOnlyTheFile, Prepared, MainPlaces,
         CfgPlaces, JobPlaces, modeVars, countVars
<1>7. ASSUME NEW from, NEW freed, JobFails(from, freed), EarlyReturn(from, freed) PROVE LifeInv'
  BY <1>7, FailsLife
<1>8. CASE JobSucceeds
  BY <1>8, SucceedsLife
<1>9. QED
  BY <1>2, <1>3, <1>4, <1>5, <1>6, <1>7, <1>8 DEF ProgramBinFileV1, EarlyReturn, NoChecksumR

(* Every step of the firmware keeps the invariant.                         *)
LEMMA StepLife == LifeInv /\ [Next]_lifeVars => LifeInv'
<1> SUFFICES ASSUME LifeInv, [Next]_lifeVars PROVE LifeInv'
  OBVIOUS
<1>1. CASE UNCHANGED lifeVars
  BY <1>1
     DEF LifeInv, TypeOK, HeldAt, Balance, Gone, FailureKeepsOnlyTheFile, Prepared, lifeVars,
         modeVars, countVars
<1>2. CASE Next
  BY <1>2, MainLife, CfgLife, JobLife, ReplyLife DEF Next, Main
<1>3. QED
  BY <1>1, <1>2

-------------------------------------------------------------------------------
(* The invariant of the life of the firmware: what each function holds,    *)
(* the balance of the heap, and how far main has prepared the session.     *)
THEOREM LifeInvariant == Spec => []LifeInv
<1>1. QED
  BY InitLife, StepLife, PTL DEF Spec

(* Types of the firmware's life.                                           *)
THEOREM FirmwareTypes == Spec => []TypeOK
<1>1. LifeInv => TypeOK
  BY DEF LifeInv
<1>2. QED
  BY <1>1, LifeInvariant, PTL

(* A job that fails gives its memory back, wherever programBinFileV1       *)
(* leaves, for whatever room it finds on the heap.                         *)
THEOREM FailureKeeps == Spec => []FailureKeepsOnlyTheFile
<1>1. LifeInv => FailureKeepsOnlyTheFile
  BY DEF LifeInv
<1>2. QED
  BY <1>1, LifeInvariant, PTL

(* However the calls succeed or fail one after the other, the heap loses   *)
(* nothing but the known leaks, and nothing is given back twice.           *)
THEOREM OnlyKnownLosses == Spec => []LossIsKnown
<1>1. LifeInv => LossIsKnown
  <2>1. ASSUME LifeInv PROVE free \in Nat /\ Room(held) \in Nat /\ Gone \in Nat /\ Heap \in Nat
    BY <2>1, GoneTypes, SizeTypes, FirmwareAssumption DEF LifeInv, TypeOK
  <2>2. QED
    BY <2>1 DEF LifeInv, Balance, LossIsKnown
<1>2. QED
  BY <1>1, LifeInvariant, PTL

(* Whenever SW3 is pressed during start-up, the threads are handed a state *)
(* that the specification of the main loop starts in.                      *)
THEOREM HandOver == Spec => []HandsOver
<1>1. LifeInv => HandsOver
  BY DEF LifeInv, TypeOK, Prepared, HandsOver, Program!Init, Program!NetworkInit,
         Program!FreshSession, Program!Modes
<1>2. QED
  BY <1>1, LifeInvariant, PTL
===============================================================================
