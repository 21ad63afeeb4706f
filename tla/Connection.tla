------------------------------ MODULE Connection ------------------------------
(***************************************************************************)
(* The TCP connection as Network.tla takes it: what becomes of it, and     *)
(* when a send may be accepted or refused.  A connection whose buffers are *)
(* full counts as stalled.                                                 *)
(***************************************************************************)
VARIABLES conn,     \* "closed", "up", "stalled" or "reset"
          last      \* the result of the last send: "none", "sent" or "refused"

Init == conn = "closed" /\ last = "none"

Dial == conn = "closed" /\ conn' = "up" /\ UNCHANGED last

Close == conn' = "closed" /\ UNCHANGED last

(* A peer that is gone never comes back on the same connection.            *)
Weather ==
  /\ <<conn, conn'>> \in {"up", "stalled"} \X {"up", "stalled", "reset"}
  /\ UNCHANGED last

Send ==
  /\ \/ conn = "up" /\ last' = "sent"
     \/ conn = "stalled" /\ last' \in {"sent", "refused"}
     \/ conn \in {"closed", "reset"} /\ last' = "refused"
  /\ UNCHANGED conn

Next == Dial \/ Close \/ Weather \/ Send

Spec == Init /\ [][Next]_<<conn, last>>
===============================================================================
