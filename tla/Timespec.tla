------------------------------ MODULE Timespec ------------------------------
(***************************************************************************)
(* timespec.h: seconds and nanoseconds of one sign, and their difference.   *)
(* Ns is the time they stand for, the measure of them all.                 *)
(***************************************************************************)
EXTENDS Integers

CONSTANT NS_IN_SEC      \* nanoseconds in a second
ASSUME NsAssumption == NS_IN_SEC \in Nat \ {0}

Timespecs == [sec : Int, nsec : Int]
Zero == [sec |-> 0, nsec |-> 0]

\* Of a time of several seconds, both members have the same sign.
Normalized(ts) ==
    /\ -NS_IN_SEC < ts.nsec /\ ts.nsec < NS_IN_SEC
    /\ ts.sec > 0 => ts.nsec >= 0
    /\ ts.sec < 0 => ts.nsec <= 0

Ns(ts) == ts.sec * NS_IN_SEC + ts.nsec

-----------------------------------------------------------------------------
Borrow(ts) == [sec |-> ts.sec + 1, nsec |-> ts.nsec - NS_IN_SEC]
Carry(ts) == [sec |-> ts.sec - 1, nsec |-> ts.nsec + NS_IN_SEC]

\* Mutation of TS_NORM: seconds and nanoseconds below zero are borrowed alike.
TS_NORM_OneSign(ts) ==
    IF ts.nsec >= NS_IN_SEC THEN Borrow(ts) ELSE IF ts.nsec < 0 THEN Carry(ts) ELSE ts

TS_NORM(ts) ==
    IF ts.sec >= 1 \/ (ts.sec = 0 /\ ts.nsec >= 0)
    THEN IF ts.nsec >= NS_IN_SEC THEN Borrow(ts) ELSE IF ts.nsec < 0 THEN Carry(ts) ELSE ts
    ELSE IF ts.nsec <= -NS_IN_SEC THEN Carry(ts) ELSE IF ts.nsec > 0 THEN Borrow(ts) ELSE ts

\* Mutation of TS_SUB: the difference is not normalized.
TS_SUB_Raw(ts1, ts2) == [sec |-> ts1.sec - ts2.sec, nsec |-> ts1.nsec - ts2.nsec]

TS_SUB(ts1, ts2) == TS_NORM([sec |-> ts1.sec - ts2.sec, nsec |-> ts1.nsec - ts2.nsec])
=============================================================================
