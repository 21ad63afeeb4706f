------------------------------- MODULE IspBurn -------------------------------
(***************************************************************************)
(* A job on a target board, one exchange with its boot loader at a time:   *)
(* programBinFileV1 and programUID of OnlineProgram.cpp over the ISP_*     *)
(* functions of program.cpp.                                               *)
(*                                                                         *)
(* Every exchange sends a command and collects, in ISP_getResp, whatever   *)
(* arrives until the line has been silent for a while; it succeeds when    *)
(* the expected answer is somewhere in that text.  An answer that comes    *)
(* after its window is therefore read in a later one, as the answer to     *)
(* another command.  Error codes, noise and silence all fail an exchange   *)
(* alike and are not told apart.                                           *)
(***************************************************************************)
EXTENDS Integers

CONSTANTS LastBlock,    \* the flash has the 512-byte blocks 0..LastBlock
          UidSector,    \* the blocks of the sector at UID_PROGRAM_ADDRESS
          UidBlock,     \* the block programUID writes
          Contents,     \* what a block of flash or the RAM buffer can hold
          Blank,        \* an erased block
          Garbage,      \* neither blank nor a block of any image
          Checksum,     \* the sum of the bytes of a block
          BinFiles,     \* bin files of a legal size, cut into blocks
          UidBlocks,    \* uid strings, padded to a block
          MaxFaults     \* bound on the faults during one job

Blocks == 0..LastBlock

ASSUME IspAssumption ==
  /\ LastBlock \in Nat
  /\ UidSector \subseteq Blocks
  /\ UidBlock \in UidSector
  /\ {Blank, Garbage} \cup UidBlocks \subseteq Contents
  /\ Checksum \in [Contents -> Int]
  /\ \A f \in BinFiles : \E n \in Blocks : f \in [0..n -> Contents]
  /\ MaxFaults \in Nat \ {0}

VARIABLES ispPc, job, image, result,
          block,        \* the index i of the block loops
          late,         \* answers on their way that no window has read yet
          faults,       \* what has gone wrong on the line during this job
          alive,        \* the board is attached and in ISP mode
          unlocked, prepared, expecting, ram, flash     \* the boot loader

boardVars == <<unlocked, prepared, expecting, ram, flash>>
jobVars   == <<job, image>>
ispVars   == <<ispPc, job, image, result, block, late, faults, alive, boardVars>>

(* The two answers the code looks for: CMD_SUCCESS_RESP_STR and OK_STR.    *)
Answers == {"zero", "OK"}

IspPcs == {"idle", "unlockErase", "prepareErase", "erase", "unlockWrite", "write",
           "data", "prepareCopy", "copy", "verify"}

FactoryFlash == {[b \in Blocks |-> c] : c \in {Blank, Garbage}}

Init ==
  /\ ispPc = "idle" /\ job = "none" /\ image = [b \in {} |-> Blank] /\ result = "none"
  /\ block = 0
  /\ late = {} /\ faults = 0
  /\ alive = TRUE
  /\ unlocked = FALSE /\ prepared = {} /\ expecting = FALSE
  /\ ram = Garbage
  /\ flash \in FactoryFlash

-------------------------------------------------------------------------------
(***************************************************************************)
(* One exchange.  x.heard: the command gets through.  x.own: its answer,   *)
(* if there is one, arrives in time.  x.stale: the late answers that       *)
(* arrive in the same window.  x.left: those that are still on their way.  *)
(***************************************************************************)
Exchanges == [heard : BOOLEAN, own : BOOLEAN, stale : SUBSET Answers,
              left : SUBSET Answers]

Reply(x, served, answer) == IF x.heard /\ served THEN {answer} ELSE {}

Mishaps(x, reply) ==
  (IF alive /\ ~x.heard THEN 1 ELSE 0) + (IF reply # {} /\ ~x.own THEN 1 ELSE 0)

ISP_getResp(x, reply) ==
  /\ x.heard => alive
  /\ x.stale \subseteq late
  /\ x.left \subseteq (late \ x.stale) \cup (IF x.own THEN {} ELSE reply)
  /\ late' = x.left
  /\ faults' = faults + Mishaps(x, reply)
  /\ faults' <= MaxFaults

Found(x, reply, answer) == answer \in x.stale \/ (x.own /\ answer \in reply)

Abort == ispPc' = "idle" /\ result' = "failure" /\ UNCHANGED block

Proceed(next) == ispPc' = next /\ UNCHANGED <<result, block>>

-------------------------------------------------------------------------------
(***************************************************************************)
(* The beginning of a job.  The board has just answered the baud-rate      *)
(* handshake, so its boot loader listens to commands; answers to an        *)
(* earlier job may still be on their way.                                  *)
(***************************************************************************)
Accept(j, img, first) ==
  /\ ispPc = "idle" /\ alive
  /\ job' = j /\ image' = img /\ block' = first
  /\ result' = "running"
  /\ ispPc' = "unlockErase"
  /\ \E left \in SUBSET late :
        late' = left /\ faults' = IF left = {} THEN 0 ELSE 1
  /\ expecting' = FALSE
  /\ UNCHANGED <<alive, unlocked, prepared, ram, flash>>

ProgramBinFile == \E f \in BinFiles : Accept("code", f, 0)

ProgramUID == \E c \in UidBlocks : Accept("uid", [b \in {UidBlock} |-> c], UidBlock)

(* No bin file, one of an illegal size, or an empty uid.                   *)
Refuse ==
  /\ ispPc = "idle"
  /\ job' = "none" /\ result' = "failure"
  /\ UNCHANGED <<ispPc, image, block, late, faults, alive, boardVars>>

(* The result of ISP_unlock is not looked at.                              *)
ISP_unlock(from, to) ==
  /\ ispPc = from
  /\ \E x \in Exchanges :
        /\ ISP_getResp(x, Reply(x, TRUE, "zero"))
        /\ unlocked' = (unlocked \/ x.heard)
  /\ Proceed(to)
  /\ UNCHANGED <<jobVars, alive, prepared, expecting, ram, flash>>

UnlockErase == ISP_unlock("unlockErase", "prepareErase")
UnlockWrite == ISP_unlock("unlockWrite", "write")

(* Mutant: programUID erases the sectors programBinFileV1 erases.          *)
EraseRangeWhole == Blocks

EraseRange == IF job = "code" THEN Blocks ELSE UidSector

ISP_prepareSectors(from, to, range) ==
  /\ ispPc = from
  /\ \E x \in Exchanges :
        /\ ISP_getResp(x, Reply(x, TRUE, "zero"))
        /\ prepared' = IF x.heard THEN range ELSE prepared
        /\ IF Found(x, Reply(x, TRUE, "zero"), "zero") THEN Proceed(to) ELSE Abort
  /\ UNCHANGED <<jobVars, alive, unlocked, expecting, ram, flash>>

PrepareErase == ISP_prepareSectors("prepareErase", "erase", EraseRange)

ISP_eraseSectors ==
  /\ ispPc = "erase"
  /\ \E x \in Exchanges :
        LET served == unlocked /\ EraseRange \subseteq prepared
            reply  == Reply(x, served, "zero")
        IN /\ ISP_getResp(x, reply)
           /\ IF x.heard /\ served
                THEN /\ flash' = [b \in Blocks |-> IF b \in EraseRange THEN Blank ELSE flash[b]]
                     /\ prepared' = {}
                ELSE UNCHANGED <<flash, prepared>>
           /\ IF Found(x, reply, "zero") THEN Proceed("unlockWrite") ELSE Abort
  /\ UNCHANGED <<jobVars, alive, unlocked, expecting, ram>>

(* malloc or fread fails between the erasure and the end of the writes of  *)
(* a bin file; or malloc finds no room for an encoded line, in either job, *)
(* and the boot loader goes on waiting for the data.                       *)
LocalFailure ==
  /\ \/ ispPc \in {"unlockWrite", "write"} /\ job = "code"
     \/ ispPc = "data"
  /\ faults < MaxFaults /\ faults' = faults + 1
  /\ Abort
  /\ UNCHANGED <<jobVars, late, alive, boardVars>>

(***************************************************************************)
(* ISP_WriteToRAM: the command, then the encoded data and its checksum.    *)
(***************************************************************************)
WriteCommand ==
  /\ ispPc = "write"
  /\ \E x \in Exchanges :
        /\ ISP_getResp(x, Reply(x, TRUE, "zero"))
        /\ expecting' = x.heard
        /\ IF Found(x, Reply(x, TRUE, "zero"), "zero") THEN Proceed("data") ELSE Abort
  /\ UNCHANGED <<jobVars, alive, unlocked, prepared, ram, flash>>

(* The boot loader echoes the lines of the data and the checksum, in which *)
(* either answer may occur by chance.                                      *)
WriteData ==
  /\ ispPc = "data"
  /\ \E x \in Exchanges, echo \in SUBSET {a \in Answers : alive} :
        LET reply == echo \cup Reply(x, expecting, "OK")
        IN /\ ISP_getResp(x, reply)
           /\ ram' = IF ~expecting \/ ~alive THEN ram
                     ELSE IF x.heard THEN image[block] ELSE Garbage
           /\ IF Found(x, reply, "OK") THEN Proceed("prepareCopy") ELSE Abort
  /\ expecting' = FALSE
  /\ UNCHANGED <<jobVars, alive, unlocked, prepared, flash>>

(***************************************************************************)
(* ISP_copyToFlash: prepare every sector, then copy the RAM buffer.  The   *)
(* bits of a block that is not blank can only be cleared.                  *)
(***************************************************************************)
(* Mutant: the sectors are not prepared again for each block.              *)
CopyRangeForgotten == {}

CopyRange == Blocks

PrepareCopy == ISP_prepareSectors("prepareCopy", "copy", CopyRange)

(* Mutant: every other block is skipped.                                   *)
BlockAfterNext(b) == b + 2

(* Mutant: the index of the loop stands still.                             *)
BlockAgain(b) == b

BlockAfter(b) == b + 1

FirstBlock == IF job = "code" THEN 0 ELSE UidBlock

IsLast(b) == b + 1 \notin DOMAIN image

Copied == IF flash[block] \in {Blank, ram} THEN ram ELSE Garbage

ISP_copyToFlash ==
  /\ ispPc = "copy"
  /\ \E x \in Exchanges :
        LET served == unlocked /\ block \in prepared
            reply  == Reply(x, served, "zero")
        IN /\ ISP_getResp(x, reply)
           /\ IF x.heard /\ served
                THEN flash' = [flash EXCEPT ![block] = Copied] /\ prepared' = {}
                ELSE UNCHANGED <<flash, prepared>>
           /\ \/ ~Found(x, reply, "zero") /\ Abort
              \/ /\ Found(x, reply, "zero")
                 /\ ispPc'  = IF IsLast(block) THEN "verify" ELSE "write"
                 /\ block'  = IF IsLast(block) THEN FirstBlock ELSE BlockAfter(block)
                 /\ result' = result
  /\ UNCHANGED <<jobVars, alive, unlocked, expecting, ram>>

(***************************************************************************)
(* The verification.  ISP_readMemory finds the data right behind the first *)
(* "0\r\n" of its window, so a late one makes it decode the wrong place    *)
(* and fail its own checksum; when it succeeds it confirms with an OK that *)
(* the boot loader echoes.  Without that OK the boot loader waits until    *)
(* the handshake of the next job.                                          *)
(*                                                                         *)
(* The late answer to another read would bring data and a checksum of its  *)
(* own.  It is assumed not to come here: a read that stays without its     *)
(* answer ends the job, and the boot loader, which answers in order, would *)
(* have to hold that answer back through the handshake, the erasure and    *)
(* the writes of the next one.                                             *)
(***************************************************************************)
(* Mutant: the checksum is that of the buffer that was written.            *)
MatchesItself(b) == TRUE

Matches(b) == Checksum[flash[b]] = Checksum[image[b]]

VerifyBlock ==
  /\ ispPc = "verify"
  /\ \E x \in Exchanges :
        LET genuine == x.heard /\ x.own /\ "zero" \notin x.stale
            reply   == Reply(x, TRUE, "zero")
        IN /\ x.heard => alive
           /\ x.stale \subseteq late
           /\ x.left \subseteq (late \ x.stale) \cup (IF x.own THEN {} ELSE reply)
                               \cup (IF genuine THEN {"OK"} ELSE {})
           /\ late' = x.left
           /\ faults' = faults + Mishaps(x, reply) /\ faults' <= MaxFaults
           /\ \/ ~(genuine /\ Matches(block)) /\ Abort
              \/ /\ genuine /\ Matches(block)
                 /\ ispPc'  = IF IsLast(block) THEN "idle" ELSE "verify"
                 /\ result' = IF IsLast(block) THEN "success" ELSE "running"
                 /\ block'  = IF IsLast(block) THEN block ELSE BlockAfter(block)
  /\ UNCHANGED <<jobVars, alive, boardVars>>

Job ==
  \/ UnlockErase \/ PrepareErase \/ ISP_eraseSectors \/ UnlockWrite \/ LocalFailure
  \/ WriteCommand \/ WriteData \/ PrepareCopy \/ ISP_copyToFlash \/ VerifyBlock

-------------------------------------------------------------------------------
(* The operator pulls the board off the line, or takes the next one.       *)
Unplug ==
  /\ alive /\ faults < MaxFaults
  /\ alive' = FALSE /\ faults' = faults + 1
  /\ UNCHANGED <<ispPc, job, image, result, block, late, boardVars>>

NewBoard ==
  /\ ispPc = "idle"
  /\ alive' = TRUE /\ unlocked' = FALSE /\ prepared' = {} /\ expecting' = FALSE
  /\ ram' = Garbage
  /\ flash' \in FactoryFlash
  /\ job' = "none" /\ result' = "none"
  /\ late' = {} /\ faults' = 0
  /\ UNCHANGED <<ispPc, image, block>>

Next == ProgramBinFile \/ ProgramUID \/ Refuse \/ Job \/ Unplug \/ NewBoard

Spec == Init /\ [][Next]_ispVars

(* Every exchange ends, with an answer or with its timeout.                *)
FairSpec == Spec /\ WF_ispVars(Job)

-------------------------------------------------------------------------------
TypeOK ==
  /\ ispPc \in IspPcs
  /\ job \in {"none", "code", "uid"}
  /\ \E S \in SUBSET Blocks : image \in [S -> Contents]
  /\ ispPc # "idle" => block \in DOMAIN image
  /\ result \in {"none", "running", "success", "failure"}
  /\ ispPc # "idle" <=> result = "running"
  /\ block \in Blocks
  /\ late \subseteq Answers
  /\ faults \in 0..MaxFaults
  /\ alive \in BOOLEAN /\ unlocked \in BOOLEAN /\ expecting \in BOOLEAN
  /\ prepared \subseteq Blocks
  /\ ram \in Contents
  /\ flash \in [Blocks -> Contents]

(* A burn that returns 0 has left its image in the flash, up to blocks of  *)
(* equal checksum, however many commands were lost and whichever answers   *)
(* were taken for those of other commands: the verification at the end is  *)
(* not fooled by a late answer.                                            *)
SuccessIsVerified ==
  result = "success" => \A b \in DOMAIN image : Checksum[flash[b]] = Checksum[image[b]]

(* A burn fails only when something went wrong during it: what an earlier  *)
(* failed job left in the boot loader (sectors prepared, half a write, a   *)
(* RAM buffer full of garbage) never spoils the next one.                  *)
RetryWorks == result = "failure" /\ job # "none" => faults > 0

(* Seen from updateDeviceStatus a job is an atomic burn of Burn.tla; above *)
(* all, programUID changes no block outside its sector.                    *)
Abstract == INSTANCE Burn
AbstractBurn == Abstract!Spec

(* A job ends, however the line behaves.                                   *)
JobEnds == result = "running" ~> result \in {"success", "failure"}
===============================================================================
