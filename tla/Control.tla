------------------------------ MODULE Control ------------------------------
(***************************************************************************)
(* The commands of do_command() that act on the device: c, i, n, s, t, x and *)
(* X, with the driver methods they call, the receiver at the other end of   *)
(* the line, and gpsd, which decodes packets and, if it may, probes.  A     *)
(* request is written, then transmitted (tcdrain), then n and s go on; the  *)
(* receiver and main() act side by side in between.                        *)
(***************************************************************************)
EXTENDS Startup

CONSTANTS
    Drivers,        \* the drivers in gpsd_drivers
    Methods,        \* the methods each driver has
    PacketType,     \* the type of the packets each driver decodes
    Fragments,      \* the drivers whose name the argument of a t may be part of
    Receivers,      \* the drivers that understand the receiver attached
    Speeds          \* speed and framing of the line

BAD_PACKET == -1
NMEA_PACKET == 1
MAX_TEXTUAL_TYPE == 3
JSON_PACKET == 22
PacketTypes == BAD_PACKET .. JSON_PACKET
TEXTUAL_PACKET_TYPE(n) == n \in NMEA_PACKET .. MAX_TEXTUAL_TYPE \/ n = JSON_PACKET

MethodNames == {"rate_switcher", "mode_switcher", "speed_switcher", "control_send"}

ASSUME DriversAssumption == None \notin Drivers /\ Monitors \subseteq Drivers
ASSUME MethodsAssumption == Methods \in [Drivers -> SUBSET MethodNames]
ASSUME PacketTypeAssumption == PacketType \in [Drivers -> PacketTypes]
ASSUME FragmentsAssumption == Fragments \subseteq SUBSET Drivers
ASSUME ReceiversAssumption == Receivers \subseteq Drivers

\* What n and s ask of a receiver, through a driver.
Requests == [driver : Drivers, kind : {"mode"}, value : {"nmea", "binary"}]
            \cup [driver : Drivers, kind : {"speed"}, value : Speeds]
NoRequest == [driver |-> None, kind |-> "none", value |-> None]

VARIABLES
    deviceType,     \* session.device_type, or NULL
    lexerType,      \* session.lexer.type
    port,           \* speed and framing of the port
    receiver,       \* driver, speed and mode of the receiver
    wire,           \* the request on its way to the receiver, or none
    waiting,        \* the request that n or s waits for, or none
    ordered,        \* history: the last i that was obeyed enabled probing
    parked,         \* history: the receiver is textual because n asked it to be
    agreed          \* history: packets were decoded, and since then nobody but the
                    \* receiver's driver has spoken of its speed

session == <<deviceType, lexerType>>
cable == <<port, receiver, wire>>
history == <<ordered, parked, agreed>>
controlVars == <<startupVars, session, cable, waiting, history>>

-----------------------------------------------------------------------------
(* Commands.  Each is the whole branch of do_command(): what it cannot do it *)
(* complains about, and changes nothing.                                    *)

Ready == phase = "running" /\ waiting = NoRequest
Complain == UNCHANGED controlVars

\* Mutation of Asked: the driver of the session comes first.
AskedSessionFirst(method) ==
    IF deviceType /= None /\ method \in Methods[deviceType] THEN deviceType ELSE fallback

\* switcher: the fallback if it has the method, else the driver of the session.
Asked(method) ==
    IF fallback /= None /\ method \in Methods[fallback] THEN fallback ELSE deviceType

CanAsk(method) ==
    /\ deviceType /= None /\ serial
    /\ Asked(method) /= None /\ method \in Methods[Asked(method)]

\* c: the driver supports the rate or not; the rest of do_command() is the same.
ChangeRate ==
    IF CanAsk("rate_switcher")
    THEN readonly' = TRUE
         /\ UNCHANGED <<phase, given, options, fallback, curses, opened,
                        session, cable, waiting, history>>
    ELSE Complain

\* i: enable or disable probing.  announce_log() says which in the packet window and
\* in the log; where there is neither, nobody is told.
SetProbing(enabled) ==
    IF deviceType /= None /\ serial
    THEN /\ readonly' = ~enabled
         /\ ordered' = enabled
         /\ UNCHANGED <<phase, given, options, fallback, curses, opened,
                        session, cable, waiting, parked, agreed>>
    ELSE Complain

\* n, up to tcdrain().
AskMode(mode) ==
    IF CanAsk("mode_switcher")
    THEN LET request == [driver |-> Asked("mode_switcher"), kind |-> "mode", value |-> mode]
         IN  /\ wire' = request /\ waiting' = request
             /\ readonly' = TRUE
             /\ UNCHANGED <<phase, given, options, fallback, curses, opened,
                            session, port, receiver, history>>
    ELSE Complain

\* n, after tcdrain() and nanosleep().
ModeAsked ==
    /\ waiting /= NoRequest /\ waiting.kind = "mode" /\ wire = NoRequest
    /\ fallback' = IF waiting.value = "nmea" THEN waiting.driver ELSE fallback
    /\ waiting' = NoRequest
    /\ UNCHANGED <<phase, given, options, curses, opened, readonly, session, cable, history>>

\* s, up to tcdrain().  A mode specification that is cut short is completed by what
\* older lines have left in the buffer: any speed and framing may come of it.
AskSpeed ==
    \/ Complain
    \/ CanAsk("speed_switcher") /\ readonly' = TRUE      \* not supported
       /\ UNCHANGED <<phase, given, options, fallback, curses, opened,
                      session, cable, waiting, history>>
    \/ /\ CanAsk("speed_switcher")
       /\ \E speed \in Speeds :
             LET request == [driver |-> Asked("speed_switcher"),
                             kind |-> "speed", value |-> speed]
             IN  wire' = request /\ waiting' = request
       /\ readonly' = FALSE
       /\ agreed' = (agreed /\ Asked("speed_switcher") = receiver.driver)
       /\ UNCHANGED <<phase, given, options, fallback, curses, opened,
                      session, port, receiver, ordered, parked>>

\* Mutation of SpeedAsked: the port is set before the request is transmitted.
SpeedAskedTooEarly ==
    /\ waiting /= NoRequest /\ waiting.kind = "speed"
    /\ port' = waiting.value /\ wire' = NoRequest
    /\ readonly' = TRUE
    /\ waiting' = NoRequest
    /\ UNCHANGED <<phase, given, options, fallback, curses, opened,
                   session, receiver, history>>

\* Mutation of SpeedAsked: readonly is not set back.
SpeedAskedLeavesWritable ==
    /\ waiting /= NoRequest /\ waiting.kind = "speed" /\ wire = NoRequest
    /\ port' = waiting.value
    /\ waiting' = NoRequest
    /\ UNCHANGED <<startupVars, session, receiver, wire, history>>

\* s, after tcdrain() and nanosleep(): gpsd_set_speed().
SpeedAsked ==
    /\ waiting /= NoRequest /\ waiting.kind = "speed" /\ wire = NoRequest
    /\ port' = waiting.value
    /\ readonly' = TRUE
    /\ waiting' = NoRequest
    /\ UNCHANGED <<phase, given, options, fallback, curses, opened,
                   session, receiver, wire, history>>

\* t: one driver has to match.  switch_type() must find a monitor and make its
\* windows.  Without curses the argument ends in a newline, and no name matches.
ForceDriver ==
    \/ Complain
    \/ /\ serial /\ curses
       /\ \E d \in Monitors : {d} \in Fragments /\ deviceType' = d
       /\ UNCHANGED <<startupVars, lexerType, cable, waiting, history>>

\* The bytes of a user do what they do.
UserBytes ==
    /\ agreed' = FALSE
    /\ receiver' \in IF port = receiver.speed
                     THEN [driver : {receiver.driver}, speed : Speeds, textual : BOOLEAN]
                     ELSE {receiver}
    /\ parked' = (parked /\ receiver'.textual)
    /\ UNCHANGED <<phase, given, options, fallback, curses, opened,
                   session, port, wire, waiting, ordered>>

\* x: through control_send() of the session's driver.
SendControl ==
    \/ Complain
    \/ /\ serial /\ deviceType /= None /\ "control_send" \in Methods[deviceType]
       /\ readonly' = TRUE
       /\ UserBytes

\* X: gpsd_write(), which refuses while readonly is set.
SendRaw ==
    \/ Complain
    \/ serial /\ ~readonly /\ UNCHANGED readonly /\ UserBytes

-----------------------------------------------------------------------------
(* The receiver, and gpsd between commands *)

\* A request is read if the speeds agree, and obeyed if it is in the receiver's
\* language.
ReceiverReads ==
    /\ wire /= NoRequest
    /\ wire' = NoRequest
    /\ IF port = receiver.speed /\ wire.driver = receiver.driver
       THEN IF wire.kind = "mode"
            THEN /\ receiver' = [receiver EXCEPT !.textual = (wire.value = "nmea")]
                 /\ parked' = (wire.value = "nmea")
            ELSE receiver' = [receiver EXCEPT !.speed = wire.value] /\ UNCHANGED parked
       ELSE UNCHANGED <<receiver, parked>>
    /\ UNCHANGED <<startupVars, session, port, waiting, ordered, agreed>>

\* gpsd decodes a packet, and selects the driver for its type; a driver may be
\* kept although packets are textual.
Decode ==
    /\ Ready
    /\ IF serial
       THEN /\ port = receiver.speed /\ agreed' = TRUE
            /\ IF receiver.textual
               THEN /\ lexerType' = NMEA_PACKET
                    /\ deviceType' \in {deviceType} \cup
                          {d \in Drivers : PacketType[d] = NMEA_PACKET}
                    /\ deviceType' /= None
               ELSE /\ lexerType' = PacketType[receiver.driver]
                    /\ deviceType' = receiver.driver
       ELSE /\ deviceType' \in Drivers /\ lexerType' = PacketType[deviceType']
            /\ UNCHANGED agreed
    /\ UNCHANGED <<startupVars, cable, waiting, ordered, parked>>

\* gpsd tries other speeds while it can decode nothing.
Hunt ==
    /\ Ready /\ serial
    /\ port /= receiver.speed
    /\ port' \in Speeds
    /\ UNCHANGED <<startupVars, session, receiver, wire, waiting, history>>

\* gpsd identifies and configures the receiver; it may take it to native mode.
Probe ==
    /\ Ready /\ serial /\ ~readonly /\ deviceType /= None
    /\ port = receiver.speed
    /\ \E textual \in {receiver.textual, FALSE} :
          /\ receiver' = [receiver EXCEPT !.textual = textual]
          /\ parked' = (parked /\ textual)
    /\ UNCHANGED <<startupVars, session, port, wire, waiting, ordered, agreed>>

\* q, the end of the source, or a signal.
Leave ==
    /\ Ready
    /\ phase' = "exited"
    /\ UNCHANGED <<given, options, fallback, curses, opened, readonly,
                   session, cable, waiting, history>>

ControlInit ==
    /\ StartupInit
    /\ deviceType = None /\ lexerType = BAD_PACKET
    /\ port \in Speeds /\ wire = NoRequest /\ waiting = NoRequest
    /\ receiver \in [driver : Receivers, speed : Speeds, textual : BOOLEAN]
    /\ ordered = FALSE /\ parked = FALSE /\ agreed = FALSE

Command ==
    \/ ChangeRate \/ AskSpeed \/ ForceDriver \/ SendControl \/ SendRaw
    \/ \E enabled \in {readonly, TRUE, FALSE} : SetProbing(enabled)
    \/ \E mode \in {"nmea", "binary"} : AskMode(mode)

ControlNext ==
    \/ StartupNext /\ UNCHANGED <<session, cable, waiting, history>>
    \/ Ready /\ Command
    \/ ModeAsked \/ SpeedAsked \/ Leave
    \/ ReceiverReads \/ Decode \/ Hunt \/ Probe

\* Any command at any time.
ControlSpec == ControlInit /\ [][ControlNext]_controlVars

-----------------------------------------------------------------------------
ControlTypeOK ==
    /\ StartupTypeOK(Drivers)
    /\ ordered \in BOOLEAN /\ parked \in BOOLEAN /\ agreed \in BOOLEAN
    /\ deviceType \in Drivers \cup {None} /\ lexerType \in PacketTypes
    /\ port \in Speeds
    /\ receiver \in [driver : Receivers, speed : Speeds, textual : BOOLEAN]
    /\ wire \in {NoRequest, waiting} /\ waiting \in Requests \cup {NoRequest}

\* gpsd writes to the device between commands only if the last i ordered it, by its
\* argument or by toggling: no path through c, n, s or x, each of which lets the driver
\* write for a while, leaves context.readonly unset (665-667, 871-877, 946-949,
\* 1012-1036).
ProbingIsOrdered == phase = "running" /\ waiting = NoRequest /\ ~readonly => ordered

\* After s the port has the speed and framing the receiver has, if they agreed
\* before and the driver asked was the receiver's: the request is transmitted at
\* the old speed and nothing of it is lost.
SpeedsAgree == agreed /\ waiting = NoRequest => port = receiver.speed

\* A receiver that n has taken to NMEA mode is asked back by its own driver, although
\* the session's driver has become that for NMEA ("stash the current type to be
\* restored if we do 'n' from NMEA mode", gpsmon.c:959).
WayBack ==
    [][ parked /\ waiting = NoRequest /\ waiting' /= NoRequest /\ waiting'.kind = "mode"
        => waiting'.driver = receiver.driver ]_controlVars
=============================================================================
