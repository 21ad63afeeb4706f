------------------------------- MODULE Session -------------------------------
(***************************************************************************)
(* What the device promises the server, whatever its threads, timers and   *)
(* sockets do.  It waits for one answer at a time.  It begins a question   *)
(* other than AUTH only on an authorised connection; one that it carries   *)
(* over from a lost connection it repeats on the next one, before AUTH.    *)
(* Only the answer to a copy sent on the present connection settles a      *)
(* question or authorises the device.                                      *)
(*                                                                         *)
(* A server that answers heartbeats weakens the promise in one place: the  *)
(* answer to a heartbeat settles a question whose own answer was read and  *)
(* settled nothing, an AUTH without authorisation among them.              *)
(***************************************************************************)
CONSTANTS Questions,        \* what can be asked, "AUTH" among them
          HeartbeatAcked    \* does the server answer heartbeats?

VARIABLES link,     \* "down", "up", "authorised", or "givenUp": up, and
                    \* nothing asks for the authorisation any more
          asked,    \* the question that waits for its answer, or "INVALID"
          line,     \* questions sent on this connection and not yet answered
          last      \* the answer read last, if it settled nothing, or "INVALID"

sessionState == <<link, asked, line, last>>

Init == link = "down" /\ asked = "INVALID" /\ line = {} /\ last = "INVALID"

(* A connection starts with nothing on the line; the question that was     *)
(* asked on the one before outlives it.                                    *)
Connect ==
  /\ link = "down" /\ line = {}
  /\ link' = "up" /\ UNCHANGED <<asked, line, last>>

Lose == link # "down" /\ link' = "down" /\ UNCHANGED <<asked, line, last>>

(* The socket may refuse what is sent.                                     *)
Send(q) == line' \in {line, line \cup {q}}

Ask(q) ==
  /\ link # "down" /\ asked = "INVALID"
  /\ q # "AUTH" => link \in {"authorised", "givenUp"}
  /\ asked' = q /\ Send(q) /\ UNCHANGED <<link, last>>

Repeat ==
  /\ link # "down" /\ asked # "INVALID"
  /\ Send(asked) /\ UNCHANGED <<link, asked, last>>

(* Questions leave the line unanswered: lost, refused or read for nothing. *)
Drop == line' \in SUBSET line /\ UNCHANGED <<link, asked, last>>

Settle(q) ==
  /\ link # "down" /\ q \in line /\ asked = q
  /\ asked' = "INVALID" /\ last' = "INVALID"
  /\ link' = IF q = "AUTH" THEN "authorised" ELSE link
  /\ line' \in SUBSET line

(* A refusal, or the answer to a copy of a question settled before.        *)
Note(q) ==
  /\ link # "down" /\ q \in line
  /\ last' = q /\ UNCHANGED asked
  /\ link' = link \/ (q = "AUTH" /\ asked # "AUTH" /\ link' = "authorised")
  /\ line' \in SUBSET line

Abandon ==
  /\ HeartbeatAcked
  /\ link # "down" /\ asked # "INVALID" /\ last = asked
  /\ asked' = "INVALID" /\ last' = "INVALID"
  /\ link' = link \/ (asked = "AUTH" /\ link = "up" /\ link' = "givenUp")
  /\ line' \in SUBSET line

Next ==
  \/ Connect \/ Lose \/ Repeat \/ Drop \/ Abandon
  \/ \E q \in Questions : Ask(q) \/ Settle(q) \/ Note(q)

Spec == Init /\ [][Next]_sessionState
===============================================================================
