------------------------------ MODULE Session ------------------------------
(***************************************************************************)
(* What a gpsmon run promises, without the program: it works until a stop  *)
(* is requested, finishes at most one more operation after that, closes    *)
(* down and ends; and one thread at a time writes to the shared output.    *)
(***************************************************************************)
CONSTANT Threads    \* the threads that write

Nobody == "nobody"

VARIABLES
    phase,      \* "running", "closing", "ended" or "crashed"
    stop,       \* "none"; "asked"; "due" when no operation may be finished
    writer      \* the thread that is writing

vars == <<phase, stop, writer>>
Alive == phase \in {"running", "closing"}

Init ==
    /\ phase = "running"
    /\ stop \in {"none", "asked"}
    /\ writer = Nobody

\* Finish an operation.  The operation itself may ask for the stop; after it
\* was asked for, only one may be finished.
Work ==
    /\ phase = "running"
    /\ \/ stop = "none" /\ stop' \in {"none", "asked"}
       \/ stop = "asked" /\ stop' = "due"
    /\ UNCHANGED phase

Operate == Work /\ UNCHANGED writer

AskStop ==
    /\ Alive
    /\ stop' = IF stop = "none" THEN "asked" ELSE stop
    /\ UNCHANGED <<phase, writer>>

Enter(t) ==
    /\ Alive /\ writer = Nobody
    /\ writer' = t
    /\ UNCHANGED <<phase, stop>>

\* A thread leaves the output; that may be the end of an operation too.
Leave(t) ==
    /\ Alive /\ writer = t
    /\ writer' = Nobody
    /\ Work \/ UNCHANGED <<phase, stop>>

CloseDown ==
    /\ phase = "running" /\ stop /= "none"
    /\ phase' = "closing"
    /\ UNCHANGED <<stop, writer>>

End ==
    /\ phase = "closing"
    /\ phase' = "ended" /\ writer' = Nobody
    /\ UNCHANGED stop

\* The process dies of undefined behaviour or of an assertion.
Crash ==
    /\ Alive
    /\ phase' = "crashed" /\ writer' = Nobody
    /\ UNCHANGED stop

Next ==
    \/ Operate \/ AskStop \/ CloseDown \/ End \/ Crash
    \/ \E t \in Threads : Enter(t) \/ Leave(t)

Spec == Init /\ [][Next]_vars
=============================================================================
