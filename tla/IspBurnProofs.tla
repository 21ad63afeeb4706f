---------------------------- MODULE IspBurnProofs ----------------------------
(***************************************************************************)
(* What a job on a target board keeps, for every flash, every program and  *)
(* any number of faults: its types, that a success is verified, and that   *)
(* it implements the atomic burn of Burn.tla.                              *)
(***************************************************************************)
EXTENDS IspBurn, TLAPS

(* The image of a job is a run of blocks from 0, or the block of the UID.  *)
ImageShape ==
  ispPc # "idle" =>
     \/ job = "code" /\ \E n \in Blocks : image \in [0..n -> Contents]
     \/ job = "uid" /\ image \in [{UidBlock} -> Contents]

(* The blocks the verification has passed.                                 *)
PassedBlocks ==
  ispPc = "verify" =>
     \A b \in DOMAIN image : b < block => Checksum[flash[b]] = Checksum[image[b]]

IInv == TypeOK /\ ImageShape /\ PassedBlocks /\ SuccessIsVerified

-------------------------------------------------------------------------------
(* The idle firmware before the first job satisfies the invariant.         *)
LEMMA InitIInv == Init => IInv
<1> SUFFICES ASSUME Init PROVE IInv
  OBVIOUS
<1> USE IspAssumption DEF Init
<1>1. TypeOK
  BY DEF TypeOK, Blocks, FactoryFlash, IspPcs
<1>2. QED
  BY <1>1 DEF IInv, ImageShape, PassedBlocks, SuccessIsVerified

(* A receive window keeps the bookkeeping of the line within its bounds.   *)
LEMMA WindowTypes ==
  ASSUME TypeOK, NEW x \in Exchanges, NEW reply \in SUBSET Answers, ISP_getResp(x, reply)
  PROVE  late' \subseteq Answers /\ faults' \in 0..MaxFaults
BY IspAssumption DEF TypeOK, Exchanges, ISP_getResp, Mishaps

(* An exchange counts at most a lost command and a late answer.            *)
LEMMA MishapsTypes ==
  ASSUME NEW x, NEW reply
  PROVE  Mishaps(x, reply) \in Nat
BY DEF Mishaps

(* Faults are only added up to the bound.                                  *)
LEMMA FaultsTypes ==
  ASSUME TypeOK, NEW m \in Nat, faults' = faults + m, faults' <= MaxFaults
  PROVE  faults' \in 0..MaxFaults
BY IspAssumption DEF TypeOK

(* An answer of the boot loader is one the code looks for.                 *)
LEMMA ReplyTypes ==
  ASSUME NEW x, NEW served, NEW answer \in Answers
  PROVE  Reply(x, served, answer) \subseteq Answers
BY DEF Reply

(* While a job runs its image lies in the part of the flash it owns, its   *)
(* loops start inside the image and stop at its end.                       *)
LEMMA Loops ==
  ASSUME TypeOK, ImageShape, ispPc # "idle"
  PROVE  /\ block \in DOMAIN image
         /\ DOMAIN image \subseteq Blocks
         /\ image \in [DOMAIN image -> Contents]
         /\ FirstBlock \in DOMAIN image
         /\ \A b \in DOMAIN image : ~(b < FirstBlock)
         /\ ~IsLast(block) => BlockAfter(block) \in DOMAIN image
         /\ IsLast(block) => \A b \in DOMAIN image : b < block \/ b = block
         /\ job \in {"code", "uid"}
         /\ DOMAIN image \subseteq EraseRange
         /\ EraseRange \subseteq Blocks
<1> USE IspAssumption
<1>1. block \in DOMAIN image /\ block \in Nat
  BY DEF TypeOK, Blocks
<1>2. CASE job = "code" /\ \E n \in Blocks : image \in [0..n -> Contents]
  BY <1>1, <1>2 DEF Blocks, FirstBlock, IsLast, BlockAfter, EraseRange
<1>3. CASE job = "uid" /\ image \in [{UidBlock} -> Contents]
  BY <1>1, <1>3 DEF Blocks, FirstBlock, IsLast, BlockAfter, EraseRange
<1>4. QED
  BY <1>2, <1>3 DEF ImageShape

(***************************************************************************)
(* The steps of a running job.  Each ends it, goes on with the same block  *)
(* or moves the loops on.                                                  *)
(***************************************************************************)
Ends   == ispPc' = "idle" /\ result' \in {"success", "failure"} /\ block' = block
Stays  == ispPc' \in IspPcs \ {"idle", "verify"} /\ result' = result /\ block' = block
Rewind == ispPc' = "verify" /\ result' = result /\ block' = FirstBlock
Moves  == /\ ispPc' \in {"write", "verify"} /\ result' = result
          /\ ~IsLast(block) /\ block' = BlockAfter(block)

(* Where a step leaves the loops, and that it leaves the job's image alone.*)
LEMMA JobControl ==
  ASSUME IInv, Job
  PROVE  /\ ispPc # "idle" /\ result = "running"
         /\ UNCHANGED <<job, image>>
         /\ Ends \/ Stays \/ Rewind \/ Moves
<1> USE DEF Ends, Stays, Rewind, Moves, Abort, Proceed, jobVars, IInv, TypeOK, IspPcs
<1>1. CASE UnlockErase \/ UnlockWrite
  BY <1>1 DEF UnlockErase, UnlockWrite, ISP_unlock
<1>2. CASE PrepareErase \/ PrepareCopy
  BY <1>2 DEF PrepareErase, PrepareCopy, ISP_prepareSectors
<1>3. CASE ISP_eraseSectors
  BY <1>3 DEF ISP_eraseSectors
<1>4. CASE LocalFailure
  BY <1>4 DEF LocalFailure
<1>5. CASE WriteCommand
  BY <1>5 DEF WriteCommand
<1>6. CASE WriteData
  BY <1>6 DEF WriteData
<1>7. CASE ISP_copyToFlash
  BY <1>7 DEF ISP_copyToFlash
<1>8. CASE VerifyBlock
  BY <1>8 DEF VerifyBlock
<1>9. QED
  BY <1>1, <1>2, <1>3, <1>4, <1>5, <1>6, <1>7, <1>8 DEF Job

(* What a step does to the line and to the boot loader is well typed, and  *)
(* it changes only flash the job owns.                                     *)
LEMMA JobBoard ==
  ASSUME IInv, Job
  PROVE  /\ late' \subseteq Answers /\ faults' \in 0..MaxFaults
         /\ alive' = alive
         /\ unlocked' \in BOOLEAN /\ expecting' \in BOOLEAN
         /\ prepared' \subseteq Blocks
         /\ ram' \in Contents
         /\ flash' \in [Blocks -> Contents]
         /\ \A b \in Blocks \ EraseRange : flash'[b] = flash[b]
         /\ flash' # flash => ispPc \in {"erase", "copy"}
<1> USE IspAssumption DEF IInv, boardVars
<1>0. TypeOK /\ ispPc # "idle"
  BY JobControl
<1>a. /\ block \in DOMAIN image /\ image \in [DOMAIN image -> Contents]
      /\ DOMAIN image \subseteq EraseRange /\ EraseRange \subseteq Blocks
  BY <1>0, Loops
<1>1. CASE UnlockErase \/ UnlockWrite
  <2>1. PICK x \in Exchanges : ISP_getResp(x, Reply(x, TRUE, "zero"))
                              /\ unlocked' = (unlocked \/ x.heard)
    BY <1>1 DEF UnlockErase, UnlockWrite, ISP_unlock
  <2>2. late' \subseteq Answers /\ faults' \in 0..MaxFaults
    BY <1>0, <2>1, WindowTypes, ReplyTypes DEF Answers
  <2>3. UNCHANGED <<alive, prepared, expecting, ram, flash>>
    BY <1>1 DEF UnlockErase, UnlockWrite, ISP_unlock
  <2>4. unlocked' \in BOOLEAN
    BY <2>1, <1>0 DEF Exchanges, TypeOK
  <2>5. QED
    BY <1>0, <2>2, <2>3, <2>4 DEF TypeOK
<1>2. CASE PrepareErase \/ PrepareCopy
  <2>1. PICK x \in Exchanges, range \in {EraseRange, CopyRange} :
           /\ ISP_getResp(x, Reply(x, TRUE, "zero"))
           /\ prepared' = IF x.heard THEN range ELSE prepared
    BY <1>2 DEF PrepareErase, PrepareCopy, ISP_prepareSectors
  <2>2. late' \subseteq Answers /\ faults' \in 0..MaxFaults
    BY <1>0, <2>1, WindowTypes, ReplyTypes DEF Answers
  <2>3. UNCHANGED <<alive, unlocked, expecting, ram, flash>>
    BY <1>2 DEF PrepareErase, PrepareCopy, ISP_prepareSectors
  <2>4. prepared' \subseteq Blocks
    BY <2>1, <1>0, <1>a DEF TypeOK, CopyRange
  <2>5. QED
    BY <1>0, <2>2, <2>3, <2>4 DEF TypeOK
<1>3. CASE ISP_eraseSectors
  <2>1. PICK x \in Exchanges :
           LET served == unlocked /\ EraseRange \subseteq prepared
           IN  /\ ISP_getResp(x, Reply(x, served, "zero"))
               /\ IF x.heard /\ served
                    THEN /\ flash' = [b \in Blocks |-> IF b \in EraseRange THEN Blank
                                                                        ELSE flash[b]]
                         /\ prepared' = {}
                    ELSE UNCHANGED <<flash, prepared>>
    BY <1>3 DEF ISP_eraseSectors
  <2>2. late' \subseteq Answers /\ faults' \in 0..MaxFaults
    BY <1>0, <2>1, WindowTypes, ReplyTypes DEF Answers
  <2>3. UNCHANGED <<alive, unlocked, expecting, ram>> /\ ispPc = "erase"
    BY <1>3 DEF ISP_eraseSectors
  <2>4. /\ flash' \in [Blocks -> Contents] /\ prepared' \subseteq Blocks
        /\ \A b \in Blocks \ EraseRange : flash'[b] = flash[b]
    BY <2>1, <1>0 DEF TypeOK
  <2>5. QED
    BY <1>0, <2>2, <2>3, <2>4 DEF TypeOK
<1>4. CASE LocalFailure
  BY <1>0, <1>4 DEF LocalFailure, TypeOK
<1>5. CASE WriteCommand
  <2>1. PICK x \in Exchanges : ISP_getResp(x, Reply(x, TRUE, "zero"))
                              /\ expecting' = x.heard
    BY <1>5 DEF WriteCommand
  <2>2. late' \subseteq Answers /\ faults' \in 0..MaxFaults
    BY <1>0, <2>1, WindowTypes, ReplyTypes DEF Answers
  <2>3. UNCHANGED <<alive, unlocked, prepared, ram, flash>>
    BY <1>5 DEF WriteCommand
  <2>4. expecting' \in BOOLEAN
    BY <2>1 DEF Exchanges
  <2>5. QED
    BY <1>0, <2>2, <2>3, <2>4 DEF TypeOK
<1>6. CASE WriteData
  <2>1. PICK x \in Exchanges, echo \in SUBSET {a \in Answers : alive} :
           /\ ISP_getResp(x, echo \cup Reply(x, expecting, "OK"))
           /\ ram' = IF ~expecting \/ ~alive THEN ram
                     ELSE IF x.heard THEN image[block] ELSE Garbage
    BY <1>6 DEF WriteData
  <2>2. late' \subseteq Answers /\ faults' \in 0..MaxFaults
    <3>1. echo \cup Reply(x, expecting, "OK") \subseteq Answers
      BY ReplyTypes DEF Answers
    <3>2. QED
      BY <1>0, <2>1, <3>1, WindowTypes
  <2>3. UNCHANGED <<alive, unlocked, prepared, flash>> /\ expecting' = FALSE
    BY <1>6 DEF WriteData
  <2>4. ram' \in Contents
    BY <2>1, <1>0, <1>a DEF TypeOK
  <2>5. QED
    BY <1>0, <2>2, <2>3, <2>4 DEF TypeOK
<1>7. CASE ISP_copyToFlash
  <2>1. PICK x \in Exchanges :
           LET served == unlocked /\ block \in prepared
           IN  /\ ISP_getResp(x, Reply(x, served, "zero"))
               /\ IF x.heard /\ served
                    THEN flash' = [flash EXCEPT ![block] = Copied] /\ prepared' = {}
                    ELSE UNCHANGED <<flash, prepared>>
    BY <1>7 DEF ISP_copyToFlash
  <2>2. late' \subseteq Answers /\ faults' \in 0..MaxFaults
    BY <1>0, <2>1, WindowTypes, ReplyTypes DEF Answers
  <2>3. UNCHANGED <<alive, unlocked, expecting, ram>> /\ ispPc = "copy"
    BY <1>7 DEF ISP_copyToFlash
  <2>4. Copied \in Contents
    BY <1>0 DEF TypeOK, Copied
  <2>5. /\ flash' \in [Blocks -> Contents] /\ prepared' \subseteq Blocks
        /\ \A b \in Blocks \ EraseRange : flash'[b] = flash[b]
    BY <2>1, <2>4, <1>0, <1>a DEF TypeOK
  <2>6. QED
    BY <1>0, <2>2, <2>3, <2>5 DEF TypeOK
<1>8. CASE VerifyBlock
  <2>1. PICK x \in Exchanges :
           /\ x.left \subseteq (late \ x.stale)
                               \cup (IF x.own THEN {} ELSE Reply(x, TRUE, "zero"))
                               \cup (IF x.heard /\ x.own /\ "zero" \notin x.stale
                                        THEN {"OK"} ELSE {})
           /\ late' = x.left
           /\ faults' = faults + Mishaps(x, Reply(x, TRUE, "zero"))
           /\ faults' <= MaxFaults
    BY <1>8 DEF VerifyBlock
  <2>2. late' \subseteq Answers
    BY <1>0, <2>1 DEF TypeOK, Answers, Reply
  <2>3. faults' \in 0..MaxFaults
    <3>1. Mishaps(x, Reply(x, TRUE, "zero")) \in Nat
      BY MishapsTypes
    <3>2. QED
      BY <1>0, <2>1, <3>1, FaultsTypes
  <2>4. UNCHANGED <<alive, unlocked, prepared, expecting, ram, flash>>
    BY <1>8 DEF VerifyBlock
  <2>5. QED
    BY <1>0, <2>2, <2>3, <2>4 DEF TypeOK
<1>9. QED
  BY <1>1, <1>2, <1>3, <1>4, <1>5, <1>6, <1>7, <1>8 DEF Job

-------------------------------------------------------------------------------
(* A step that ends the job with a success has just verified the last      *)
(* block, and one that goes on within the verification has verified the    *)
(* block it leaves.                                                        *)
LEMMA JobVerifies ==
  ASSUME IInv, Job
  PROVE  /\ result' = "success" => ispPc = "verify" /\ IsLast(block)
         /\ ispPc = "verify" /\ (ispPc' = "verify" \/ result' = "success") => Matches(block)
         /\ ispPc = "verify" /\ ispPc' = "verify" => Moves
         /\ ispPc # "verify" /\ ispPc' = "verify" => block' = FirstBlock
<1> USE DEF IInv, Abort, Proceed
<1>0. result = "running"
  BY JobControl
<1>1. CASE UnlockErase \/ UnlockWrite
  BY <1>0, <1>1 DEF UnlockErase, UnlockWrite, ISP_unlock
<1>2. CASE PrepareErase \/ PrepareCopy
  BY <1>0, <1>2 DEF PrepareErase, PrepareCopy, ISP_prepareSectors
<1>3. CASE ISP_eraseSectors
  BY <1>0, <1>3 DEF ISP_eraseSectors
<1>4. CASE LocalFailure
  BY <1>0, <1>4 DEF LocalFailure
<1>5. CASE WriteCommand
  BY <1>0, <1>5 DEF WriteCommand
<1>6. CASE WriteData
  BY <1>0, <1>6 DEF WriteData
<1>7. CASE ISP_copyToFlash
  BY <1>0, <1>7 DEF ISP_copyToFlash
<1>8. CASE VerifyBlock
  BY <1>0, <1>8 DEF VerifyBlock, Moves
<1>9. QED
  BY <1>1, <1>2, <1>3, <1>4, <1>5, <1>6, <1>7, <1>8 DEF Job

(* Every step of a job preserves the invariant.                            *)
LEMMA JobIInv ==
  ASSUME IInv, Job
  PROVE  IInv'
<1> USE IspAssumption
<1>0. TypeOK /\ ImageShape /\ PassedBlocks /\ ispPc # "idle" /\ result = "running"
  BY JobControl DEF IInv
<1>1. UNCHANGED <<job, image>> /\ (Ends \/ Stays \/ Rewind \/ Moves)
  BY JobControl
<1>2. /\ block' \in DOMAIN image' /\ block' \in Blocks
      /\ ispPc' \in IspPcs
      /\ ispPc' # "idle" <=> result' = "running"
      /\ result' \in {"running", "success", "failure"}
  BY <1>0, <1>1, Loops DEF Ends, Stays, Rewind, Moves, IspPcs
<1>3. TypeOK'
  BY <1>0, <1>1, <1>2, JobBoard DEF TypeOK
<1>4. ImageShape'
  BY <1>0, <1>1 DEF ImageShape
<1>5. PassedBlocks'
  <2> SUFFICES ASSUME ispPc' = "verify", NEW b \in DOMAIN image, b < block'
               PROVE  Checksum[flash'[b]] = Checksum[image[b]]
    BY <1>1 DEF PassedBlocks
  <2>1. CASE ispPc # "verify"
    BY <2>1, <1>0, JobVerifies, Loops
  <2>2. CASE ispPc = "verify"
    <3>1. flash' = flash
      BY <2>2, JobBoard
    <3>2. block' = block + 1 /\ Matches(block)
      BY <2>2, JobVerifies DEF Moves, BlockAfter
    <3>3. b \in Int /\ block \in Int
      BY <1>0, Loops DEF Blocks, TypeOK
    <3>4. b < block \/ b = block
      BY <3>2, <3>3
    <3>5. QED
      BY <2>2, <3>1, <3>2, <3>4, <1>0 DEF Matches, PassedBlocks
  <2>3. QED
    BY <2>1, <2>2
<1>6. SuccessIsVerified'
  <2> SUFFICES ASSUME result' = "success", NEW b \in DOMAIN image
               PROVE  Checksum[flash'[b]] = Checksum[image[b]]
    BY <1>1 DEF SuccessIsVerified
  <2>1. ispPc = "verify" /\ IsLast(block) /\ Matches(block)
    BY JobVerifies
  <2>2. flash' = flash
    BY <2>1, JobBoard
  <2>3. b < block \/ b = block
    BY <1>0, <2>1, Loops
  <2>4. QED
    BY <2>1, <2>2, <2>3, <1>0 DEF Matches, PassedBlocks
<1>7. QED
  BY <1>3, <1>4, <1>5, <1>6 DEF IInv

(* A job that is accepted starts well typed.                               *)
LEMMA AcceptTypes ==
  ASSUME TypeOK, NEW j \in {"code", "uid"}, NEW img, NEW first \in Blocks,
         Accept(j, img, first), first \in DOMAIN img,
         NEW S \in SUBSET Blocks, img \in [S -> Contents]
  PROVE  TypeOK'
<1> USE IspAssumption
<1>1. late' \subseteq Answers /\ faults' \in 0..MaxFaults
  BY DEF Accept, TypeOK
<1>2. ispPc' = "unlockErase" /\ "unlockErase" \in IspPcs
  BY DEF Accept, IspPcs
<1>3. QED
  BY <1>1, <1>2 DEF Accept, TypeOK

(* So does what happens between jobs and around them.                      *)
LEMMA OtherIInv ==
  ASSUME IInv, ProgramBinFile \/ ProgramUID \/ Refuse \/ Unplug \/ NewBoard
  PROVE  IInv'
<1>0. TypeOK /\ ImageShape /\ PassedBlocks /\ SuccessIsVerified
  BY DEF IInv
<1>1. CASE ProgramBinFile
  <2>1. PICK f \in BinFiles : Accept("code", f, 0)
    BY <1>1 DEF ProgramBinFile
  <2>2. PICK n \in Blocks : f \in [0..n -> Contents]
    BY IspAssumption
  <2>3. 0..n \in SUBSET Blocks /\ 0 \in Blocks /\ 0 \in DOMAIN f
    BY <2>2, IspAssumption DEF Blocks
  <2>4. TypeOK'
    <3> "code" \in {"code", "uid"}
      OBVIOUS
    <3> QED
      BY <1>0, <2>1, <2>2, <2>3, AcceptTypes
  <2>5. QED
    BY <2>1, <2>2, <2>4 DEF Accept, IInv, ImageShape, PassedBlocks, SuccessIsVerified
<1>2. CASE ProgramUID
  <2>1. PICK c \in UidBlocks : Accept("uid", [b \in {UidBlock} |-> c], UidBlock)
    BY <1>2 DEF ProgramUID
  <2> DEFINE img == [b \in {UidBlock} |-> c]
  <2>2. img \in [{UidBlock} -> Contents] /\ UidBlock \in DOMAIN img
    BY IspAssumption
  <2>3. {UidBlock} \in SUBSET Blocks /\ UidBlock \in Blocks
    BY IspAssumption
  <2>4. Accept("uid", img, UidBlock)
    BY <2>1
  <2> HIDE DEF img
  <2>5. TypeOK'
    <3> "uid" \in {"code", "uid"}
      OBVIOUS
    <3> QED
      BY <1>0, <2>2, <2>3, <2>4, AcceptTypes
  <2>6. QED
    BY <2>2, <2>4, <2>5 DEF Accept, IInv, ImageShape, PassedBlocks, SuccessIsVerified
<1> USE IspAssumption DEF IInv, ImageShape, PassedBlocks, SuccessIsVerified
<1>3. CASE Refuse
  BY <1>3 DEF Refuse, TypeOK, boardVars
<1>4. CASE Unplug
  <2>1. UNCHANGED <<ispPc, job, image, result, block, late, boardVars>>
    BY <1>4 DEF Unplug
  <2>2. alive' \in BOOLEAN /\ faults' \in 0..MaxFaults
    <3>1. faults' = faults + 1 /\ faults' <= MaxFaults /\ 1 \in Nat
      BY <1>4, IspAssumption DEF Unplug, TypeOK
    <3>2. QED
      BY <1>4, <3>1, FaultsTypes DEF Unplug
  <2>3. TypeOK'
    BY <2>1, <2>2 DEF TypeOK, boardVars
  <2>4. QED
    BY <2>1, <2>3 DEF boardVars
<1>5. CASE NewBoard
  <2>1. /\ ispPc = "idle" /\ UNCHANGED <<ispPc, image, block>>
        /\ alive' = TRUE /\ unlocked' = FALSE /\ prepared' = {} /\ expecting' = FALSE
        /\ ram' = Garbage /\ job' = "none" /\ result' = "none"
        /\ late' = {} /\ faults' = 0
    BY <1>5 DEF NewBoard
  <2>2. flash' \in [Blocks -> Contents]
    BY <1>5 DEF NewBoard, FactoryFlash
  <2>3. 0 \in 0..MaxFaults
    BY IspAssumption
  <2>4. TypeOK'
    BY <2>1, <2>2, <2>3 DEF TypeOK
  <2>5. QED
    BY <2>1, <2>4
<1>6. QED
  BY <1>1, <1>2, <1>3, <1>4, <1>5

(* Every step preserves the invariant.                                     *)
LEMMA StepIInv == IInv /\ [Next]_ispVars => IInv'
<1> SUFFICES ASSUME IInv, [Next]_ispVars PROVE IInv'
  OBVIOUS
<1>1. CASE UNCHANGED ispVars
  BY <1>1 DEF ispVars, boardVars, IInv, TypeOK, ImageShape, PassedBlocks, SuccessIsVerified
<1>2. CASE Next
  BY <1>2, JobIInv, OtherIInv DEF Next
<1>3. QED
  BY <1>1, <1>2

(* The inductive invariant holds throughout every behaviour of the jobs.   *)
THEOREM BurnInvariant == Spec => []IInv
  BY InitIInv, StepIInv, PTL DEF Spec

(* Type correctness of a job and of the boot loader at every step of it.   *)
THEOREM BurnTypes == Spec => []TypeOK
<1>1. IInv => TypeOK
  BY DEF IInv
<1>2. QED
  BY <1>1, BurnInvariant, PTL

(* A burn that returns 0 has left its image in the flash, block by block   *)
(* up to the checksum, whatever the line did to commands and answers.      *)
THEOREM SuccessVerified == Spec => []SuccessIsVerified
<1>1. IInv => SuccessIsVerified
  BY DEF IInv
<1>2. QED
  BY <1>1, BurnInvariant, PTL

-------------------------------------------------------------------------------
(* An idle board is an abstract board without a job.                       *)
LEMMA InitRefines == Init => Abstract!Init
BY IspAssumption DEF Init, Abstract!Init, FactoryFlash

(* Every exchange is a change of the abstract burn's own flash, its        *)
(* success, its failure, or nothing to it.                                 *)
LEMMA StepRefines == IInv /\ [Next]_ispVars => [Abstract!Next]_(Abstract!burnVars)
<1> SUFFICES ASSUME IInv, [Next]_ispVars PROVE [Abstract!Next]_(Abstract!burnVars)
  OBVIOUS
<1> USE IspAssumption DEF Abstract!Next, Abstract!burnVars
<1>1. CASE UNCHANGED ispVars
  BY <1>1 DEF ispVars, boardVars
<1>2. CASE Job
  <2>1. /\ result = "running" /\ UNCHANGED <<job, image>>
        /\ result' \in {"running", "success", "failure"}
    BY <1>2, JobControl DEF Ends, Stays, Rewind, Moves
  <2>2. Abstract!Change
    BY <1>2, JobBoard, JobControl DEF Abstract!Change, Abstract!Owned, EraseRange
  <2>3. CASE result' = "success"
    <3>1. flash' = flash
      BY <1>2, <2>3, JobVerifies, JobBoard
    <3>2. SuccessIsVerified'
      BY <1>2, JobIInv DEF IInv
    <3>3. Abstract!Verified
      BY <2>1, <2>3, <3>1, <3>2 DEF SuccessIsVerified, Abstract!Verified
    <3>4. QED
      BY <2>1, <2>3, <3>1, <3>3 DEF Abstract!Succeed
  <2>4. CASE result' # "success"
    BY <2>1, <2>2, <2>4 DEF Abstract!Work, Abstract!Fail
  <2>5. QED
    BY <2>3, <2>4
<1>3. CASE ProgramBinFile \/ ProgramUID
  <2>1. /\ result # "running" /\ result' = "running"
        /\ job' \in {"code", "uid"} /\ flash' = flash
    BY <1>3 DEF ProgramBinFile, ProgramUID, Accept, IInv, TypeOK
  <2>2. TypeOK' /\ ImageShape' /\ ispPc' # "idle"
    BY <1>3, OtherIInv DEF IInv, ProgramBinFile, ProgramUID, Accept
  <2>3. /\ DOMAIN image' \subseteq Abstract!Owned(job')
        /\ image' \in [DOMAIN image' -> Contents]
    BY <2>2 DEF TypeOK, ImageShape, Abstract!Owned
  <2>4. QED
    BY <2>1, <2>3 DEF Abstract!Start
<1>4. CASE Refuse
  BY <1>4 DEF Refuse, Abstract!Refuse, IInv, TypeOK, boardVars
<1>5. CASE Unplug
  BY <1>5 DEF Unplug, boardVars
<1>6. CASE NewBoard
  BY <1>6 DEF NewBoard, Abstract!NewBoard, FactoryFlash, IInv, TypeOK
<1>7. QED
  BY <1>1, <1>2, <1>3, <1>4, <1>5, <1>6 DEF Next

(* The exchanges with the boot loader implement the atomic burn: above     *)
(* all, programUID never changes a block outside its sector.               *)
THEOREM BurnRefines == Spec => AbstractBurn
<1>1. Spec => Abstract!Spec
  BY InitRefines, StepRefines, BurnInvariant, PTL DEF Spec, Abstract!Spec
<1>2. QED
  BY <1>1 DEF AbstractBurn

-------------------------------------------------------------------------------
(* Where a job in which nothing has gone wrong is: the board is there and  *)
(* unlocked, nothing is late, the sectors are prepared when a command      *)
(* needs them, the blocks written so far hold the image and those to come  *)
(* are blank.  During the verification only the OK that the boot loader    *)
(* echoes is late.                                                         *)
Erasing == {"unlockErase", "prepareErase", "erase"}
Writing == {"unlockWrite", "write", "data", "prepareCopy", "copy"}

OnTrack ==
  /\ alive
  /\ late \subseteq (IF ispPc = "verify" THEN {"OK"} ELSE {})
  /\ expecting = (ispPc = "data")
  /\ ispPc # "unlockErase" => unlocked
  /\ ispPc \in Erasing => block = FirstBlock
  /\ ispPc = "erase" => EraseRange \subseteq prepared
  /\ ispPc = "copy" => prepared = Blocks
  /\ ispPc \in {"prepareCopy", "copy"} => ram = image[block]
  /\ ispPc \in Writing =>
       \A b \in DOMAIN image : flash[b] = IF b < block THEN image[b] ELSE Blank
  /\ ispPc = "verify" => \A b \in DOMAIN image : flash[b] = image[b]

(* A job fails, and is off that track, only for a fault of its own time.   *)
TrackInv == (ispPc # "idle" /\ faults = 0 => OnTrack) /\ RetryWorks

(* An exchange in which nothing goes wrong: the command is heard, the      *)
(* answer is read in its own window, and nothing more becomes late.        *)
LEMMA CleanWindow ==
  ASSUME TypeOK, alive, NEW x \in Exchanges, NEW reply \in SUBSET Answers,
         faults' = faults + Mishaps(x, reply), faults' = 0
  PROVE  faults = 0 /\ x.heard /\ (reply # {} => x.own)
<1>1. faults \in Nat
  BY IspAssumption DEF TypeOK
<1>2. x.heard \in BOOLEAN /\ x.own \in BOOLEAN
  BY DEF Exchanges
<1>3. QED
  BY <1>1, <1>2 DEF Mishaps

(* The same for a window of ISP_getResp, whose answer is then found.       *)
LEMMA CleanExchange ==
  ASSUME TypeOK, alive, late = {}, NEW x \in Exchanges, NEW reply \in SUBSET Answers,
         ISP_getResp(x, reply), faults' = 0
  PROVE  /\ faults = 0 /\ x.heard /\ late' = {}
         /\ \A a \in reply : Found(x, reply, a)
<1>1. faults = 0 /\ x.heard /\ (reply # {} => x.own)
  BY CleanWindow DEF ISP_getResp
<1>2. late' = {}
  BY <1>1 DEF ISP_getResp
<1>3. QED
  BY <1>1, <1>2 DEF Found

(* A command is answered when the boot loader serves it.                   *)
LEMMA CleanCommand ==
  ASSUME TypeOK, alive, late = {}, NEW x \in Exchanges, NEW served \in BOOLEAN,
         ISP_getResp(x, Reply(x, served, "zero")), faults' = 0
  PROVE  /\ faults = 0 /\ x.heard /\ late' = {}
         /\ served => Found(x, Reply(x, served, "zero"), "zero")
<1>1. Reply(x, served, "zero") \in SUBSET Answers
  BY ReplyTypes DEF Answers
<1>2. /\ faults = 0 /\ x.heard /\ late' = {}
      /\ \A a \in Reply(x, served, "zero") : Found(x, Reply(x, served, "zero"), a)
  BY <1>1, CleanExchange
<1>3. QED
  BY <1>2 DEF Reply

(* A step of a job in which nothing has gone wrong and nothing goes wrong  *)
(* leads on along the track and does not fail.                             *)
LEMMA JobOnTrack ==
  ASSUME IInv, OnTrack, Job, faults' = 0
  PROVE  /\ faults = 0
         /\ result' # "failure"
         /\ ispPc' # "idle" => OnTrack'
<1> USE IspAssumption DEF OnTrack, Erasing, Writing, Proceed, Abort
<1>0. TypeOK /\ ImageShape /\ ispPc # "idle" /\ result = "running" /\ UNCHANGED <<job, image>>
  BY JobControl DEF IInv
<1>a. /\ block \in DOMAIN image /\ DOMAIN image \subseteq Blocks
      /\ \A b \in DOMAIN image : ~(b < FirstBlock)
      /\ ~IsLast(block) => BlockAfter(block) \in DOMAIN image
      /\ IsLast(block) => \A b \in DOMAIN image : b < block \/ b = block
      /\ DOMAIN image \subseteq EraseRange
  BY <1>0, Loops
<1>b. FirstBlock' = FirstBlock /\ EraseRange' = EraseRange
  BY <1>0 DEF FirstBlock, EraseRange
<1>c. \A b \in DOMAIN image : b \in Int
  BY <1>a DEF Blocks
<1>1. CASE UnlockErase \/ UnlockWrite
  <2>1. PICK x \in Exchanges : ISP_getResp(x, Reply(x, TRUE, "zero"))
                              /\ unlocked' = (unlocked \/ x.heard)
    BY <1>1 DEF UnlockErase, UnlockWrite, ISP_unlock
  <2>2. /\ \/ ispPc = "unlockErase" /\ ispPc' = "prepareErase"
           \/ ispPc = "unlockWrite" /\ ispPc' = "write"
        /\ UNCHANGED <<result, block, alive, prepared, expecting, ram, flash>>
    BY <1>1 DEF UnlockErase, UnlockWrite, ISP_unlock
  <2>3. late = {}
    BY <2>2
  <2>4. faults = 0 /\ x.heard /\ late' = {}
    BY <1>0, <2>1, <2>3, CleanCommand
  <2>5. QED
    BY <1>0, <1>b, <2>1, <2>2, <2>4
<1>2. CASE PrepareErase \/ PrepareCopy
  <2>1. PICK x \in Exchanges :
           /\ ISP_getResp(x, Reply(x, TRUE, "zero"))
           /\ \/ /\ ispPc = "prepareErase"
                 /\ prepared' = IF x.heard THEN EraseRange ELSE prepared
                 /\ Found(x, Reply(x, TRUE, "zero"), "zero") => Proceed("erase")
              \/ /\ ispPc = "prepareCopy"
                 /\ prepared' = IF x.heard THEN CopyRange ELSE prepared
                 /\ Found(x, Reply(x, TRUE, "zero"), "zero") => Proceed("copy")
    BY <1>2 DEF PrepareErase, PrepareCopy, ISP_prepareSectors
  <2>2. UNCHANGED <<alive, unlocked, expecting, ram, flash>>
    BY <1>2 DEF PrepareErase, PrepareCopy, ISP_prepareSectors
  <2>3. late = {}
    BY <2>1
  <2>4. /\ faults = 0 /\ x.heard /\ late' = {}
        /\ Found(x, Reply(x, TRUE, "zero"), "zero")
    BY <1>0, <2>1, <2>3, CleanCommand
  <2>5. QED
    BY <1>0, <1>b, <2>1, <2>2, <2>4 DEF CopyRange
<1>3. CASE ISP_eraseSectors
  <2>1. PICK x \in Exchanges :
           /\ ISP_getResp(x, Reply(x, unlocked /\ EraseRange \subseteq prepared, "zero"))
           /\ x.heard /\ unlocked /\ EraseRange \subseteq prepared =>
                /\ flash' = [b \in Blocks |-> IF b \in EraseRange THEN Blank ELSE flash[b]]
                /\ prepared' = {}
           /\ Found(x, Reply(x, unlocked /\ EraseRange \subseteq prepared, "zero"), "zero")
                => Proceed("unlockWrite")
    BY <1>3 DEF ISP_eraseSectors
  <2>2. /\ ispPc = "erase" /\ late = {} /\ unlocked /\ EraseRange \subseteq prepared
        /\ UNCHANGED <<alive, unlocked, expecting, ram>>
    BY <1>3 DEF ISP_eraseSectors
  <2>3. (unlocked /\ EraseRange \subseteq prepared) \in BOOLEAN
    OBVIOUS
  <2>4. /\ faults = 0 /\ x.heard /\ late' = {}
        /\ Found(x, Reply(x, unlocked /\ EraseRange \subseteq prepared, "zero"), "zero")
    BY <1>0, <2>1, <2>2, <2>3, CleanCommand
  <2>5. \A b \in DOMAIN image : flash'[b] = Blank /\ ~(b < block)
    BY <1>a, <2>1, <2>2, <2>4
  <2>6. QED
    BY <1>0, <1>b, <2>1, <2>2, <2>4, <2>5
<1>4. CASE LocalFailure
  BY <1>0, <1>4 DEF LocalFailure, TypeOK
<1>5. CASE WriteCommand
  <2>1. PICK x \in Exchanges : /\ ISP_getResp(x, Reply(x, TRUE, "zero"))
                               /\ expecting' = x.heard
                               /\ Found(x, Reply(x, TRUE, "zero"), "zero") => Proceed("data")
    BY <1>5 DEF WriteCommand
  <2>2. ispPc = "write" /\ late = {} /\ UNCHANGED <<alive, unlocked, prepared, ram, flash>>
    BY <1>5 DEF WriteCommand
  <2>3. /\ faults = 0 /\ x.heard /\ late' = {}
        /\ Found(x, Reply(x, TRUE, "zero"), "zero")
    BY <1>0, <2>1, <2>2, CleanCommand
  <2>4. QED
    BY <1>0, <1>b, <2>1, <2>2, <2>3
<1>6. CASE WriteData
  <2>1. PICK x \in Exchanges, echo \in SUBSET {a \in Answers : alive} :
           /\ ISP_getResp(x, echo \cup Reply(x, expecting, "OK"))
           /\ ram' = IF ~expecting \/ ~alive THEN ram
                     ELSE IF x.heard THEN image[block] ELSE Garbage
           /\ Found(x, echo \cup Reply(x, expecting, "OK"), "OK") => Proceed("prepareCopy")
    BY <1>6 DEF WriteData
  <2>2. /\ ispPc = "data" /\ late = {} /\ expecting /\ expecting' = FALSE
        /\ UNCHANGED <<alive, unlocked, prepared, flash>>
    BY <1>6 DEF WriteData
  <2>3. echo \cup Reply(x, expecting, "OK") \in SUBSET Answers
    BY ReplyTypes DEF Answers
  <2>4. /\ faults = 0 /\ x.heard /\ late' = {}
        /\ \A a \in echo \cup Reply(x, expecting, "OK") :
              Found(x, echo \cup Reply(x, expecting, "OK"), a)
    BY <1>0, <2>1, <2>2, <2>3, CleanExchange
  <2>5. "OK" \in Reply(x, expecting, "OK")
    BY <2>2, <2>4 DEF Reply
  <2>6. Proceed("prepareCopy") /\ ram' = image[block]
    BY <2>1, <2>2, <2>4, <2>5
  <2>7. QED
    BY <1>0, <1>b, <2>2, <2>4, <2>6
<1>7. CASE ISP_copyToFlash
  <2>1. PICK x \in Exchanges :
           /\ ISP_getResp(x, Reply(x, unlocked /\ block \in prepared, "zero"))
           /\ x.heard /\ unlocked /\ block \in prepared =>
                flash' = [flash EXCEPT ![block] = Copied] /\ prepared' = {}
           /\ Found(x, Reply(x, unlocked /\ block \in prepared, "zero"), "zero") =>
                /\ ispPc'  = IF IsLast(block) THEN "verify" ELSE "write"
                /\ block'  = IF IsLast(block) THEN FirstBlock ELSE BlockAfter(block)
                /\ result' = result
    BY <1>7 DEF ISP_copyToFlash
  <2>2. /\ ispPc = "copy" /\ late = {} /\ unlocked /\ block \in prepared
        /\ UNCHANGED <<alive, unlocked, expecting, ram>>
    BY <1>7, <1>a DEF ISP_copyToFlash
  <2>3. (unlocked /\ block \in prepared) \in BOOLEAN
    OBVIOUS
  <2>4. /\ faults = 0 /\ x.heard /\ late' = {}
        /\ Found(x, Reply(x, unlocked /\ block \in prepared, "zero"), "zero")
    BY <1>0, <2>1, <2>2, <2>3, CleanCommand
  <2>5. Copied = image[block]
    BY <1>a, <1>c, <2>2 DEF Copied
  <2>6. \A b \in DOMAIN image :
           flash'[b] = IF b < block \/ b = block THEN image[b] ELSE Blank
    BY <1>0, <1>a, <1>c, <2>1, <2>2, <2>4, <2>5 DEF TypeOK
  <2>7. CASE IsLast(block)
    BY <1>0, <1>a, <1>b, <2>1, <2>2, <2>4, <2>6, <2>7
  <2>8. CASE ~IsLast(block)
    <3>1. \A b \in DOMAIN image : b < block' <=> b < block \/ b = block
      BY <1>a, <1>c, <2>1, <2>4, <2>8 DEF BlockAfter
    <3>2. QED
      BY <1>0, <1>b, <2>1, <2>2, <2>4, <2>6, <2>8, <3>1
  <2>9. QED
    BY <2>7, <2>8
<1>8. CASE VerifyBlock
  <2>1. PICK x \in Exchanges :
           /\ x.stale \subseteq late
           /\ x.left \subseteq (late \ x.stale)
                               \cup (IF x.own THEN {} ELSE Reply(x, TRUE, "zero"))
                               \cup (IF x.heard /\ x.own /\ "zero" \notin x.stale
                                        THEN {"OK"} ELSE {})
           /\ late' = x.left
           /\ faults' = faults + Mishaps(x, Reply(x, TRUE, "zero"))
           /\ x.heard /\ x.own /\ "zero" \notin x.stale /\ Matches(block) =>
                /\ ispPc'  = IF IsLast(block) THEN "idle" ELSE "verify"
                /\ result' = IF IsLast(block) THEN "success" ELSE "running"
    BY <1>8 DEF VerifyBlock
  <2>2. /\ ispPc = "verify" /\ late \subseteq {"OK"}
        /\ UNCHANGED <<alive, unlocked, prepared, expecting, ram, flash>>
    BY <1>8 DEF VerifyBlock, boardVars
  <2>3. Reply(x, TRUE, "zero") \in SUBSET Answers
    BY ReplyTypes DEF Answers
  <2>4. faults = 0 /\ x.heard /\ (Reply(x, TRUE, "zero") # {} => x.own)
    BY <1>0, <2>1, <2>3, CleanWindow
  <2>5. x.heard /\ x.own /\ "zero" \notin x.stale
    BY <2>1, <2>2, <2>4 DEF Reply
  <2>6. Matches(block) /\ late' \subseteq {"OK"}
    BY <1>a, <2>1, <2>2, <2>5 DEF Matches
  <2>7. QED
    BY <1>0, <1>b, <2>1, <2>2, <2>4, <2>5, <2>6
<1>9. QED
  BY <1>1, <1>2, <1>3, <1>4, <1>5, <1>6, <1>7, <1>8 DEF Job

(* A job forgets no fault.                                                 *)
LEMMA JobFaults ==
  ASSUME TypeOK, Job
  PROVE  faults' >= faults
<1>1. ASSUME NEW x, NEW reply, faults' = faults + Mishaps(x, reply)
      PROVE  faults' >= faults
  <2>1. Mishaps(x, reply) \in Nat /\ faults \in Nat
    BY MishapsTypes, IspAssumption DEF TypeOK
  <2>2. QED
    BY <1>1, <2>1
<1>2. ASSUME NEW x, NEW reply, ISP_getResp(x, reply) PROVE faults' >= faults
  BY <1>1, <1>2 DEF ISP_getResp
<1>3. CASE UnlockErase \/ UnlockWrite
  BY <1>2, <1>3, Zenon DEF UnlockErase, UnlockWrite, ISP_unlock
<1>4. CASE PrepareErase \/ PrepareCopy
  BY <1>2, <1>4, Zenon DEF PrepareErase, PrepareCopy, ISP_prepareSectors
<1>5. CASE ISP_eraseSectors
  BY <1>2, <1>5 DEF ISP_eraseSectors
<1>6. CASE LocalFailure
  BY <1>6, IspAssumption DEF LocalFailure, TypeOK
<1>7. CASE WriteCommand
  BY <1>2, <1>7, Zenon DEF WriteCommand
<1>8. CASE WriteData
  BY <1>2, <1>8 DEF WriteData
<1>9. CASE ISP_copyToFlash
  BY <1>2, <1>9 DEF ISP_copyToFlash
<1>10. CASE VerifyBlock
  BY <1>1, <1>10, Zenon DEF VerifyBlock
<1>11. QED
  BY <1>3, <1>4, <1>5, <1>6, <1>7, <1>8, <1>9, <1>10 DEF Job

(* Every step preserves it: a new job starts on the track unless an answer *)
(* to an earlier one is still about, and whatever goes wrong is counted.   *)
LEMMA StepTrack == IInv /\ TrackInv /\ [Next]_ispVars => TrackInv'
<1> SUFFICES ASSUME IInv, TrackInv, [Next]_ispVars PROVE TrackInv'
  OBVIOUS
<1> USE IspAssumption DEF TrackInv, RetryWorks
<1>0. TypeOK /\ faults \in Nat
  BY DEF IInv, TypeOK
<1>1. CASE UNCHANGED ispVars
  BY <1>1 DEF ispVars, boardVars, OnTrack, Erasing, Writing, FirstBlock, EraseRange
<1>2. CASE Job
  <2>1. faults' \in Nat /\ (faults' = 0 => faults = 0)
    <3>1. faults' \in 0..MaxFaults
      BY <1>2, JobBoard
    <3>2. faults' >= faults
      BY <1>0, <1>2, JobFaults
    <3>3. QED
      BY <1>0, <3>1, <3>2
  <2>2. ispPc # "idle"
    BY <1>2, JobControl
  <2>3. CASE faults' = 0
    BY <1>2, <2>1, <2>2, <2>3, JobOnTrack
  <2>4. CASE faults' # 0
    BY <2>1, <2>4
  <2>5. QED
    BY <2>3, <2>4
<1>3. CASE ProgramBinFile \/ ProgramUID
  <2>1. PICK j, img, first :
           /\ Accept(j, img, first)
           /\ first = IF j = "code" THEN 0 ELSE UidBlock
    BY <1>3 DEF ProgramBinFile, ProgramUID
  <2>2. /\ result' = "running" /\ ispPc' = "unlockErase" /\ alive' /\ expecting' = FALSE
        /\ block' = FirstBlock' /\ (faults' = 0 => late' = {})
    BY <2>1 DEF Accept, FirstBlock
  <2>3. QED
    BY <2>2 DEF OnTrack, Erasing, Writing
<1>4. CASE Refuse \/ NewBoard
  BY <1>4, <1>0 DEF Refuse, NewBoard, IInv, TypeOK
<1>5. CASE Unplug
  BY <1>0, <1>5 DEF Unplug
<1>6. QED
  BY <1>1, <1>2, <1>3, <1>4, <1>5 DEF Next

(* A burn fails only when something went wrong during it: nothing an       *)
(* earlier job left in the boot loader, on the line or in the flash spoils *)
(* the next one.                                                           *)
THEOREM RetryAlwaysWorks == Spec => []RetryWorks
<1>1. Init => TrackInv
  BY DEF Init, TrackInv, RetryWorks
<1>2. TrackInv => RetryWorks
  BY DEF TrackInv
<1>3. QED
  BY <1>1, <1>2, StepTrack, BurnInvariant, PTL DEF Spec
===============================================================================
