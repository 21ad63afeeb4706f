----------------------------- MODULE ReportLedger -----------------------------
(***************************************************************************)
(* NetworkSession with a memory of where the report of a result has got    *)
(* to: whether the server has read it, and whether two copies of a report  *)
(* are about.  The three variables only observe.                           *)
(***************************************************************************)
EXTENDS NetworkSession

VARIABLES report,   \* of the present result: "none", "due" or "delivered"
          before,   \* how many of the requests in flight are older than the result
          twice     \* two copies of a report were in flight, and have left traces

reportVars == <<sessionVars, report, before, twice>>

ReportInit == Init /\ report = "none" /\ before = 0 /\ twice = FALSE

Taken == Len(wire) - Len(wire')

(* The server has read a report that was sent after the burn.              *)
ReportRead ==
  /\ mainPc = "receive" /\ mainPc' = "gate"
  /\ \E i \in (before + 1)..Taken : wire[i] = "NOTIFY"

InFlight(m, w) == {i \in 1..Len(w) : w[i] = m}

(* Nothing of a report is left: no copy, no request, no acknowledgement.   *)
Settled ==
  /\ InFlight("NOTIFY", wire') = {} /\ msgSendId' # "NOTIFY"
  /\ "notifyResultFlag" \notin networkEvent' /\ "notifyDoneFlag" \notin eventFlags'

Finishes == phase = "job" /\ phase' = "result"
Leaves   == phase = "result" /\ phase' = "idle"

Observe ==
  /\ report' = CASE Finishes                       -> "due"
                 [] Leaves                         -> "none"
                 [] report = "due" /\ ReportRead   -> "delivered"
                 [] OTHER                          -> report
  /\ before' = CASE Finishes           -> Len(wire)
                 [] Taken > 0          -> IF before > Taken THEN before - Taken ELSE 0
                 [] OTHER              -> before
  /\ twice' = \/ InFlight("NOTIFY", wire) # {} /\ Taken < 0 /\ wire'[Len(wire')] = "NOTIFY"
              \/ twice /\ ~Settled

ReportSpec == ReportInit /\ [][Next /\ Observe]_reportVars

-------------------------------------------------------------------------------
(* A result is left only once the server has read its report: notifyDone-  *)
(* Flag is the acknowledgement of this result and of none before it.  Only *)
(* a resend that overtakes the answer breaks it, and then for every result *)
(* that follows, until the report traffic has come to rest.                *)
LeftOnceDelivered == [][Leaves => report = "delivered" \/ twice]_reportVars
===============================================================================
