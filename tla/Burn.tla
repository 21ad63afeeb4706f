--------------------------------- MODULE Burn ---------------------------------
(***************************************************************************)
(* What a burn of a target board promises, whatever commands it is made    *)
(* of: programBinFileV1 and programUID as updateDeviceStatus sees them.    *)
(* It touches only the part of the flash its job owns, and it returns 0    *)
(* only when every block of the image reads back with its checksum.        *)
(***************************************************************************)
CONSTANTS Blocks,       \* the 512-byte blocks of the target's flash
          UidSector,    \* those of the sector at UID_PROGRAM_ADDRESS
          Contents,     \* what a block can hold
          Checksum      \* the sum of the bytes of a block

VARIABLES flash,
          job,          \* "none", "code" or "uid"
          image,        \* what the job is to leave in which blocks
          result        \* "none", "running", "success" or "failure"

burnVars == <<flash, job, image, result>>

Owned(j) == IF j = "code" THEN Blocks ELSE UidSector

Verified == \A b \in DOMAIN image : Checksum[flash[b]] = Checksum[image[b]]

Init == flash \in [Blocks -> Contents] /\ job = "none" /\ DOMAIN image = {} /\ result = "none"

Start ==
  /\ result # "running"
  /\ result' = "running"
  /\ job' \in {"code", "uid"}
  /\ DOMAIN image' \subseteq Owned(job')
  /\ image' \in [DOMAIN image' -> Contents]
  /\ flash' = flash

Refuse ==
  /\ result # "running"
  /\ result' = "failure"
  /\ job' = "none"
  /\ UNCHANGED <<image, flash>>

(* Erasing and programming, in any order and with any outcome.             *)
Change ==
  /\ flash' \in [Blocks -> Contents]
  /\ \A b \in Blocks \ Owned(job) : flash'[b] = flash[b]

Work == result = "running" /\ Change /\ UNCHANGED <<job, image, result>>

Succeed ==
  /\ result = "running" /\ Verified
  /\ result' = "success"
  /\ UNCHANGED <<flash, job, image>>

Fail ==
  /\ result = "running" /\ Change
  /\ result' = "failure"
  /\ UNCHANGED <<job, image>>

NewBoard ==
  /\ result # "running"
  /\ flash' \in [Blocks -> Contents]
  /\ job' = "none" /\ result' = "none"
  /\ image' = image

Next == Start \/ Refuse \/ Work \/ Succeed \/ Fail \/ NewBoard

Spec == Init /\ [][Next]_burnVars
===============================================================================
