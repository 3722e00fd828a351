------------------------------- MODULE Device -------------------------------
(***************************************************************************)
(* What the owner of a receiver may rely on, without the program: the      *)
(* receiver changes by what was ordered at the keyboard, once for each     *)
(* order, or by gpsd once it was ordered to let gpsd probe; and while a    *)
(* request is on its way nothing else is said to it.                       *)
(***************************************************************************)
EXTENDS Sequences

CONSTANT NoRequest

NoOrder == <<>>

VARIABLES
    receiver,   \* driver, speed and mode of the receiver
    request,    \* the request on its way to it, or none
    allowed,    \* the last order about probing was to enable it
    order       \* the line to be executed, or none; its first letter is the command

vars == <<receiver, request, allowed, order>>

Idle == request = NoRequest

Init == Idle /\ ~allowed /\ order = NoOrder

Type == order = NoOrder /\ order' /= NoOrder /\ UNCHANGED <<receiver, request, allowed>>

\* Whatever comes of an order, it is executed once.
Execute(letters) == Idle /\ order /= NoOrder /\ order[1] \in letters /\ order' = NoOrder

\* i: gpsd may probe, or may not.
Allow == Execute({"i"}) /\ allowed' \in BOOLEAN /\ UNCHANGED <<receiver, request>>

Ask(letter, kind) ==
    /\ Execute({letter})
    /\ ~Idle' /\ request'.kind = kind
    /\ UNCHANGED <<receiver, allowed>>

\* Bytes of the user's own: x asks for no permission, X does.
Say ==
    /\ Execute(IF allowed THEN {"x", "X"} ELSE {"x"})
    /\ receiver'.driver = receiver.driver
    /\ UNCHANGED <<request, allowed>>

\* An order that is refused, or that is not about the receiver's state.
Pass == Idle /\ order /= NoOrder /\ order' = NoOrder /\ UNCHANGED <<receiver, request, allowed>>

Obeyed ==
    IF request.kind = "mode" THEN [receiver EXCEPT !.textual = (request.value = "nmea")]
                             ELSE [receiver EXCEPT !.speed = request.value]

\* A request is obeyed if the receiver can read it, or lost.
Hear ==
    /\ ~Idle /\ Idle'
    /\ \/ receiver' = receiver
       \/ request.driver = receiver.driver /\ receiver' = Obeyed
    /\ UNCHANGED <<allowed, order>>

\* gpsd may take the receiver to its native mode.
Probe ==
    /\ Idle /\ allowed
    /\ receiver' = [receiver EXCEPT !.textual = FALSE]
    /\ UNCHANGED <<request, allowed, order>>

Next ==
    \/ Type \/ Allow \/ Ask("n", "mode") \/ Ask("s", "speed") \/ Say \/ Pass
    \/ Hear \/ Probe

Spec == Init /\ [][Next]_vars
=============================================================================
