--------------------------- MODULE GpsmonSession ---------------------------
(***************************************************************************)
(* Gpsmon with a history variable, and the abstract session it implements. *)
(***************************************************************************)
EXTENDS Gpsmon

VARIABLE overrun    \* operations finished although bailout was already set

hvars == <<vars, overrun>>

\* The operations of the main loop: waiting for input, a poll with its hooks,
\* a command (with the read of its line), the return to single-byte input.
FinishesOperation ==
    \/ pc = "await"   /\ pc' \in {"awaited", "loop"}
    \/ pc = "poll"    /\ pc' = "polled"
    \/ pc = "command" /\ pc' = "commanded"
    \/ pc = "rearmed" /\ todo /= <<>> /\ todo' = <<>>

HInit == Init /\ overrun = 0

\* The history need not count further than to the first breach.
OverrunBound == 2

HNext ==
    /\ Next
    /\ overrun' = IF FinishesOperation /\ bailout /= 0 /\ overrun < OverrunBound
                  THEN overrun + 1 ELSE overrun

HSpec == HInit /\ [][HNext]_hvars /\ Fairness

Phase ==
    CASE pc = "aborted" -> "crashed"
      [] pc = "exited"  -> "ended"
      [] pc \in {"stopPPS", "closeLog", "restore", "explain", "closeAgain"} -> "closing"
      [] OTHER -> "running"

Writer ==
    IF Running /\ section = "in" THEN "main"
    ELSE IF Running /\ pps = "in" THEN "pps" ELSE "nobody"

Stop ==
    CASE bailout = 0 -> "none"
      [] bailout /= 0 /\ overrun = 0 -> "asked"
      [] bailout /= 0 /\ overrun = 1 -> "due"
      [] OTHER -> "overdue"     \* no stop of Session

Abstract == INSTANCE Session WITH
    Threads <- {"main", "pps"},
    phase   <- Phase,
    stop    <- Stop,
    writer  <- Writer

\* gpsmon implements the session: after a signal, an error or q, whenever it
\* comes, main() finishes at most the operation it is in before it closes
\* down, it closes down for no other reason, and main() and pps_report()
\* never write to the output together.  About main() 1426-1521 ("check
\* bailout frequently as that is async to the loop").
ImplementsSession == Abstract!Spec
=============================================================================
