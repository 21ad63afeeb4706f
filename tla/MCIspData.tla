------------------------------ MODULE MCIspData ------------------------------
(* IspData for TLC: the lengths the firmware uses and others its checks    *)
(* accept, with every value of a byte in every place of a group.           *)
EXTENDS IspData

MCSizes == {4, 44, 48, 92, 256, 512}

MCBuffers ==
  {[i \in 0..(MaxSize + 2) |-> (p[1] * i + p[2]) % 256] :
      p \in {<<0, 0>>, <<0, 255>>, <<1, 0>>, <<3, 1>>, <<85, 2>>, <<171, 64>>}}

(* A multiple of 4 and of 45.                                              *)
MCWholeLines == {180}
===============================================================================
