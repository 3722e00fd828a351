------------------------------- MODULE Ledger -------------------------------
(***************************************************************************)
(* What the database holds of a stream of measurements, numbered as they   *)
(* arrive: a row for some of them, in order, never two rows for one.       *)
(***************************************************************************)
EXTENDS Naturals, Sequences

VARIABLES
    seen,       \* measurements that have arrived
    rows        \* the measurements recorded, oldest first

vars == <<seen, rows>>

Init == seen = 0 /\ rows = <<>>

Arrive == seen' = seen + 1 /\ UNCHANGED rows

\* Only the newest measurement can be recorded, and only once.
Record ==
    /\ seen > 0
    /\ \A i \in DOMAIN rows : rows[i] < seen
    /\ rows' = Append(rows, seen)
    /\ UNCHANGED seen

Next == Arrive \/ Record

Spec == Init /\ [][Next]_vars
=============================================================================
