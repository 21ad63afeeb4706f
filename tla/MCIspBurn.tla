------------------------------ MODULE MCIspBurn ------------------------------
(* IspBurn for TLC: four blocks, the last two of which are the sector of   *)
(* the UID; d1 and d2 are different blocks with the same checksum.         *)
EXTENDS IspBurn, TLC

CONSTANTS d0, d1, d2, id

MCContents == {d0, d1, d2, id, Blank, Garbage}

MCChecksum == d0 :> 1 @@ d1 :> 2 @@ d2 :> 2 @@ id :> 4 @@ Blank :> 5 @@ Garbage :> 6

(* A program that leaves the sector of the UID alone and one that does not.*)
MCBinFiles == {0 :> d0 @@ 1 :> d1, 0 :> d0 @@ 1 :> d1 @@ 2 :> d2}
===============================================================================
