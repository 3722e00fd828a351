--------------------------- MODULE ConsoleProofs ---------------------------
(***************************************************************************)
(* The commands on the device and the line editor, for any drivers, lines  *)
(* and size of the buffer.  What Control promises is proved of ControlSpec, *)
(* any command at any time; ControlPart carries it over to the console.     *)
(***************************************************************************)
EXTENDS Console, SequenceTheorems, FiniteSetTheorems, TLAPS

-----------------------------------------------------------------------------
(* Types *)

\* The variables of main() up to its main loop, drivers being all that may become
\* the fallback.
LEMMA StartupTypes ==
    ASSUME StartupTypeOK(Drivers), StartupNext
    PROVE  StartupTypeOK(Drivers)'
<1>. USE DEF StartupTypeOK, NextOption, options, opened
<1>1. CASE NoCurses
  <2>1. curses' \in BOOLEAN
    BY <1>1 DEF NoCurses
  <2>. QED
    BY <1>1, <2>1 DEF NoCurses
<1>2. CASE ForceNMEA
  BY <1>2 DEF ForceNMEA
<1>3. CASE ForceType
  <2>1. PICK m \in TypeOptions :
            /\ named' = Append(named, m) /\ matches' = matches + Cardinality(m)
            /\ fallback' \in IF m = {} THEN {None} ELSE m
            /\ phase' = IF matches' = 1 THEN phase ELSE "exited"
    BY <1>3 DEF ForceType
  <2>2. m \subseteq Monitors /\ m \subseteq Drivers
    BY TypeOptionsAssumption, DriversAssumption
  <2>3. Cardinality(m) \in Nat
    BY <2>2, MonitorsAssumption, FS_Subset, FS_CardinalityType
  <2>. QED
    BY <1>3, <2>1, <2>2, <2>3 DEF ForceType
<1>4. CASE ExitOption
  BY <1>4 DEF ExitOption
<1>5. CASE Open
  BY <1>5 DEF Open
<1>6. CASE FailToOpen
  BY <1>6 DEF FailToOpen
<1>. QED
  BY <1>1, <1>2, <1>3, <1>4, <1>5, <1>6 DEF StartupNext

\* The variables of Startup that commands write: fallback and readonly, and phase.
LEMMA StartupKept ==
    ASSUME StartupTypeOK(Drivers),
           UNCHANGED <<given, options, curses, opened>>,
           phase' \in {"options", "running", "exited"},
           fallback' \in Drivers \cup {None}, readonly' \in BOOLEAN
    PROVE  StartupTypeOK(Drivers)'
BY DEF StartupTypeOK, options, opened

\* The driver that is asked has the method.
LEMMA AskedHasMethod ==
    ASSUME ControlTypeOK, NEW method, CanAsk(method)
    PROVE  Asked(method) \in Drivers /\ method \in Methods[Asked(method)] /\ serial
BY DEF CanAsk, Asked, ControlTypeOK, StartupTypeOK

\* The two kinds of requests.
LEMMA RequestKinds ==
    /\ \A r \in Requests : /\ r.driver \in Drivers /\ r.kind \in {"mode", "speed"}
                           /\ r.kind = "mode" => r.value \in {"nmea", "binary"}
                           /\ r.kind = "speed" => r.value \in Speeds
                           /\ r /= NoRequest
    /\ \A d \in Drivers : /\ \A m \in {"nmea", "binary"} : [driver |-> d, kind |-> "mode", value |-> m] \in Requests
                          /\ \A s \in Speeds : [driver |-> d, kind |-> "speed", value |-> s] \in Requests
BY DriversAssumption DEF Requests, NoRequest

\* UserBytes keeps the receiver what it is.
LEMMA UserBytesType ==
    ASSUME ControlTypeOK, UserBytes
    PROVE  /\ receiver' \in [driver : Receivers, speed : Speeds, textual : BOOLEAN]
           /\ parked' \in BOOLEAN /\ agreed' \in BOOLEAN
           /\ receiver'.driver = receiver.driver
<1>1. receiver \in [driver : Receivers, speed : Speeds, textual : BOOLEAN]
  BY DEF ControlTypeOK
<1>2. receiver' \in IF port = receiver.speed
                    THEN [driver : {receiver.driver}, speed : Speeds, textual : BOOLEAN]
                    ELSE {receiver}
  BY DEF UserBytes
<1>3. receiver' \in [driver : Receivers, speed : Speeds, textual : BOOLEAN]
  BY <1>1, <1>2
<1>4. receiver'.driver = receiver.driver
  BY <1>1, <1>2
<1>5. parked' \in BOOLEAN /\ agreed' \in BOOLEAN
  BY DEF UserBytes
<1>. QED
  BY <1>3, <1>4, <1>5

\* Commands, what follows them, the receiver and gpsd keep the types.
LEMMA CommandTypes ==
    ASSUME ControlTypeOK, Ready, Command
    PROVE  ControlTypeOK'
<1>0. /\ StartupTypeOK(Drivers) /\ fallback \in Drivers \cup {None} /\ readonly \in BOOLEAN
      /\ phase \in {"options", "running", "exited"}
  BY DEF ControlTypeOK, StartupTypeOK
<1>1. ASSUME UNCHANGED controlVars PROVE ControlTypeOK'
  BY <1>1 DEF controlVars, startupVars, options, opened, session, cable, history,
              ControlTypeOK, StartupTypeOK
<1>2. CASE ChangeRate
  <2>1. CASE UNCHANGED controlVars
    BY <1>1, <2>1
  <2>2. CASE /\ readonly' = TRUE
             /\ UNCHANGED <<phase, given, options, fallback, curses, opened,
                            session, cable, waiting, history>>
    <3>1. StartupTypeOK(Drivers)'
      BY <1>0, <2>2, StartupKept
    <3>. QED
      BY <2>2, <3>1 DEF ControlTypeOK, session, cable, history
  <2>. QED
    BY <1>2, <2>1, <2>2 DEF ChangeRate, Complain
<1>3. CASE AskSpeed
  <2>1. CASE UNCHANGED controlVars
    BY <1>1, <2>1
  <2>2. CASE /\ readonly' = TRUE
             /\ UNCHANGED <<phase, given, options, fallback, curses, opened,
                            session, cable, waiting, history>>
    <3>1. StartupTypeOK(Drivers)'
      BY <1>0, <2>2, StartupKept
    <3>. QED
      BY <2>2, <3>1 DEF ControlTypeOK, session, cable, history
  <2>3. CASE /\ CanAsk("speed_switcher")
             /\ \E speed \in Speeds :
                   LET request == [driver |-> Asked("speed_switcher"),
                                   kind |-> "speed", value |-> speed]
                   IN  wire' = request /\ waiting' = request
             /\ readonly' = FALSE
             /\ agreed' = (agreed /\ Asked("speed_switcher") = receiver.driver)
             /\ UNCHANGED <<phase, given, options, fallback, curses, opened,
                            session, port, receiver, ordered, parked>>
    <3>1. StartupTypeOK(Drivers)'
      BY <1>0, <2>3, StartupKept
    <3>2. waiting' \in Requests /\ wire' = waiting'
      BY <2>3, AskedHasMethod, RequestKinds
    <3>3. agreed' \in BOOLEAN
      BY <2>3
    <3>. QED
      BY <2>3, <3>1, <3>2, <3>3 DEF ControlTypeOK, session
  <2>. QED
    BY <1>3, <2>1, <2>2, <2>3 DEF AskSpeed, Complain
<1>4. CASE ForceDriver
  <2>1. CASE UNCHANGED controlVars
    BY <1>1, <2>1
  <2>2. CASE /\ \E d \in Monitors : {d} \in Fragments /\ deviceType' = d
             /\ UNCHANGED <<startupVars, lexerType, cable, waiting, history>>
    <3>1. StartupTypeOK(Drivers)'
      BY <1>0, <2>2, StartupKept DEF startupVars
    <3>2. deviceType' \in Drivers
      BY <2>2, DriversAssumption
    <3>. QED
      BY <2>2, <3>1, <3>2 DEF ControlTypeOK, cable, history
  <2>. QED
    BY <1>4, <2>1, <2>2 DEF ForceDriver, Complain
<1>5. CASE SendControl \/ SendRaw
  <2>1. CASE UNCHANGED controlVars
    BY <1>1, <2>1
  <2>2. CASE UserBytes /\ (readonly' = TRUE \/ readonly' = readonly)
    <3>0. readonly' \in BOOLEAN
      BY <1>0, <2>2
    <3>1. StartupTypeOK(Drivers)'
      BY <1>0, <2>2, <3>0, StartupKept DEF UserBytes
    <3>. QED
      BY <2>2, <3>1, UserBytesType DEF ControlTypeOK, UserBytes, session
  <2>. QED
    BY <1>5, <2>1, <2>2 DEF SendControl, SendRaw, Complain
<1>6. ASSUME NEW enabled \in {readonly, TRUE, FALSE}, SetProbing(enabled)
      PROVE  ControlTypeOK'
  <2>1. CASE UNCHANGED controlVars
    BY <1>1, <2>1
  <2>2. CASE /\ readonly' = ~enabled /\ ordered' = enabled
             /\ UNCHANGED <<phase, given, options, fallback, curses, opened,
                            session, cable, waiting, parked, agreed>>
    <3>0. enabled \in BOOLEAN /\ (~enabled) \in BOOLEAN
      <4>1. readonly \in BOOLEAN
        BY <1>0
      <4>2. {readonly, TRUE, FALSE} \subseteq BOOLEAN
        BY <4>1
      <4>3. enabled \in BOOLEAN
        BY <4>2
      <4>. QED
        BY <4>3
    <3>1. StartupTypeOK(Drivers)'
      BY <1>0, <2>2, <3>0, StartupKept
    <3>2. ordered' \in BOOLEAN
      <4>1. ordered' = enabled
        BY <2>2
      <4>. QED
        BY <3>0, <4>1
    <3>. QED
      BY <2>2, <3>1, <3>2 DEF ControlTypeOK, session, cable
  <2>. QED
    BY <1>6, <2>1, <2>2 DEF SetProbing, Complain
<1>7. ASSUME NEW mode \in {"nmea", "binary"}, AskMode(mode)
      PROVE  ControlTypeOK'
  <2>1. CASE UNCHANGED controlVars
    BY <1>1, <2>1
  <2>2. CASE CanAsk("mode_switcher")
    <3>0. /\ waiting' = [driver |-> Asked("mode_switcher"), kind |-> "mode", value |-> mode]
          /\ wire' = waiting' /\ readonly' = TRUE
          /\ UNCHANGED <<phase, given, options, fallback, curses, opened,
                         session, port, receiver, history>>
      BY <1>7, <2>2 DEF AskMode
    <3>1. StartupTypeOK(Drivers)'
      BY <1>0, <3>0, StartupKept
    <3>2. waiting' \in Requests
      BY <2>2, <3>0, AskedHasMethod, RequestKinds
    <3>. QED
      BY <3>0, <3>1, <3>2 DEF ControlTypeOK, session, history
  <2>. QED
    BY <1>7, <2>1, <2>2 DEF AskMode, Complain
<1>. QED
  BY <1>2, <1>3, <1>4, <1>5, <1>6, <1>7 DEF Command

LEMMA SettledTypes ==
    ASSUME ControlTypeOK,
           ModeAsked \/ SpeedAsked \/ Leave \/ ReceiverReads \/ Decode \/ Hunt \/ Probe
    PROVE  ControlTypeOK'
<1>0. /\ StartupTypeOK(Drivers) /\ fallback \in Drivers \cup {None} /\ readonly \in BOOLEAN
      /\ phase \in {"options", "running", "exited"}
      /\ receiver \in [driver : Receivers, speed : Speeds, textual : BOOLEAN]
      /\ ordered \in BOOLEAN /\ parked \in BOOLEAN /\ agreed \in BOOLEAN
  BY DEF ControlTypeOK, StartupTypeOK
<1>a. waiting /= NoRequest => waiting \in Requests
  BY DEF ControlTypeOK
<1>1. CASE ModeAsked
  <2>1. StartupTypeOK(Drivers)'
    BY <1>0, <1>1, <1>a, RequestKinds, StartupKept DEF ModeAsked
  <2>. QED
    BY <1>1, <2>1 DEF ModeAsked, ControlTypeOK, session, cable, history
<1>2. CASE SpeedAsked
  <2>1. StartupTypeOK(Drivers)'
    BY <1>0, <1>2, StartupKept DEF SpeedAsked
  <2>2. port' \in Speeds
    BY <1>2, <1>a, RequestKinds DEF SpeedAsked
  <2>. QED
    BY <1>2, <2>1, <2>2 DEF SpeedAsked, ControlTypeOK, session, history
<1>3. CASE Leave
  <2>1. StartupTypeOK(Drivers)'
    BY <1>0, <1>3, StartupKept DEF Leave
  <2>. QED
    BY <1>3, <2>1 DEF Leave, ControlTypeOK, session, cable, history
<1>4. CASE ReceiverReads
  <2>1. StartupTypeOK(Drivers)'
    BY <1>0, <1>4, StartupKept DEF ReceiverReads, startupVars
  <2>2. wire \in Requests
    BY <1>4, <1>a DEF ReceiverReads, ControlTypeOK
  <2>3. /\ receiver' \in [driver : Receivers, speed : Speeds, textual : BOOLEAN]
        /\ parked' \in BOOLEAN
    <3>1. CASE /\ wire.kind = "mode" /\ parked' = (wire.value = "nmea")
               /\ receiver' = [receiver EXCEPT !.textual = (wire.value = "nmea")]
      <4>1. (wire.value = "nmea") \in BOOLEAN
        OBVIOUS
      <4>2. parked' \in BOOLEAN
        BY <3>1, <4>1
      <4>. QED
        BY <1>0, <3>1, <4>1, <4>2
    <3>2. CASE /\ wire.kind /= "mode" /\ UNCHANGED parked
               /\ receiver' = [receiver EXCEPT !.speed = wire.value]
      <4>1. wire.value \in Speeds
        BY <2>2, <3>2, RequestKinds
      <4>2. parked' \in BOOLEAN
        BY <1>0, <3>2
      <4>. QED
        BY <1>0, <3>2, <4>1, <4>2
    <3>3. CASE UNCHANGED <<receiver, parked>>
      BY <1>0, <3>3
    <3>. QED
      BY <1>4, <3>1, <3>2, <3>3 DEF ReceiverReads
  <2>. QED
    BY <1>4, <2>1, <2>3 DEF ReceiverReads, ControlTypeOK, session
<1>5. CASE Decode
  <2>1. StartupTypeOK(Drivers)'
    BY <1>0, <1>5, StartupKept DEF Decode, startupVars
  <2>2. deviceType' \in Drivers /\ lexerType' \in PacketTypes
    <3>1. CASE deviceType' \in Drivers /\ lexerType' = PacketType[deviceType']
      BY <3>1, PacketTypeAssumption
    <3>2. CASE deviceType' = receiver.driver /\ lexerType' = PacketType[receiver.driver]
      BY <1>0, <3>2, PacketTypeAssumption, ReceiversAssumption
    <3>3. CASE /\ lexerType' = NMEA_PACKET /\ deviceType' /= None
               /\ deviceType' \in {deviceType} \cup {d \in Drivers : PacketType[d] = NMEA_PACKET}
      BY <3>3 DEF ControlTypeOK, PacketTypes, NMEA_PACKET, BAD_PACKET, JSON_PACKET
    <3>. QED
      BY <1>5, <3>1, <3>2, <3>3 DEF Decode
  <2>3. agreed' \in BOOLEAN
    <3>1. agreed' = TRUE \/ agreed' = agreed
      BY <1>5 DEF Decode
    <3>. QED
      BY <1>0, <3>1
  <2>. QED
    BY <1>5, <2>1, <2>2, <2>3 DEF Decode, ControlTypeOK, cable
<1>6. CASE Hunt
  <2>1. StartupTypeOK(Drivers)'
    BY <1>0, <1>6, StartupKept DEF Hunt, startupVars
  <2>. QED
    BY <1>6, <2>1 DEF Hunt, ControlTypeOK, session, history
<1>7. CASE Probe
  <2>1. StartupTypeOK(Drivers)'
    BY <1>0, <1>7, StartupKept DEF Probe, startupVars
  <2>2. PICK textual \in {receiver.textual, FALSE} :
            /\ receiver' = [receiver EXCEPT !.textual = textual]
            /\ parked' = (parked /\ textual)
    BY <1>7 DEF Probe
  <2>3. textual \in BOOLEAN
    BY <1>0
  <2>4. parked' \in BOOLEAN
    BY <2>2
  <2>. QED
    BY <1>0, <1>7, <2>1, <2>2, <2>3, <2>4 DEF Probe, ControlTypeOK, session
<1>. QED
  BY <1>1, <1>2, <1>3, <1>4, <1>5, <1>6, <1>7

\* Every step keeps the types.
LEMMA ControlStepTypes == ControlTypeOK /\ [ControlNext]_controlVars => ControlTypeOK'
<1>. SUFFICES ASSUME ControlTypeOK, [ControlNext]_controlVars
              PROVE  ControlTypeOK'
  OBVIOUS
<1>1. CASE StartupNext /\ UNCHANGED <<session, cable, waiting, history>>
  <2>1. StartupTypeOK(Drivers)'
    BY <1>1, StartupTypes DEF ControlTypeOK
  <2>. QED
    BY <1>1, <2>1 DEF ControlTypeOK, session, cable, history
<1>2. CASE UNCHANGED controlVars
  BY <1>2 DEF controlVars, startupVars, options, opened, session, cable, history,
              ControlTypeOK, StartupTypeOK
<1>. QED
  BY <1>1, <1>2, CommandTypes, SettledTypes DEF ControlNext

\* Whatever the options and the commands, and whatever the receiver does.
THEOREM ControlTypes == ControlSpec => []ControlTypeOK
<1>1. ControlInit => ControlTypeOK
  <2>. SUFFICES ASSUME ControlInit
                PROVE  ControlTypeOK
    OBVIOUS
  <2>1. StartupTypeOK(Drivers)
    <3>1. /\ nmea \in BOOLEAN /\ curses \in BOOLEAN /\ serial \in BOOLEAN
          /\ ppsThread \in BOOLEAN /\ readonly \in BOOLEAN
      BY DEF ControlInit, StartupInit
    <3>. QED
      BY <3>1 DEF ControlInit, StartupInit, StartupTypeOK
  <2>2. ordered \in BOOLEAN /\ parked \in BOOLEAN /\ agreed \in BOOLEAN
    BY DEF ControlInit
  <2>. QED
    BY <2>1, <2>2 DEF ControlInit, ControlTypeOK, PacketTypes, BAD_PACKET, JSON_PACKET
<1>. QED
  BY <1>1, ControlStepTypes, PTL DEF ControlSpec

-----------------------------------------------------------------------------
(* -t *)

\* Commands keep what was decided at the start, but for readonly.
LEMMA CommandKeeps ==
    ASSUME Command
    PROVE  UNCHANGED <<phase, given, options, fallback, curses, opened>>
<1>1. CASE UNCHANGED controlVars
  BY <1>1 DEF controlVars, startupVars
<1>2. CASE ChangeRate
  BY <1>1, <1>2 DEF ChangeRate, Complain
<1>3. CASE AskSpeed
  BY <1>1, <1>3 DEF AskSpeed, Complain
<1>4. CASE ForceDriver
  BY <1>1, <1>4 DEF ForceDriver, Complain, startupVars
<1>5. CASE SendControl
  BY <1>1, <1>5 DEF SendControl, Complain, UserBytes
<1>6. CASE SendRaw
  BY <1>1, <1>6 DEF SendRaw, Complain, UserBytes
<1>7. ASSUME NEW enabled \in {readonly, TRUE, FALSE}, SetProbing(enabled)
      PROVE  UNCHANGED <<phase, given, options, fallback, curses, opened>>
  BY <1>1, <1>7 DEF SetProbing, Complain
<1>8. ASSUME NEW mode \in {"nmea", "binary"}, AskMode(mode)
      PROVE  UNCHANGED <<phase, given, options, fallback, curses, opened>>
  BY <1>1, <1>8 DEF AskMode, Complain
<1>. QED
  BY <1>2, <1>3, <1>4, <1>5, <1>6, <1>7, <1>8 DEF Command

\* Between options nothing has been asked of a receiver, and matches counts the -t
\* options, each of which but one has matched nothing.
BeginInv ==
    phase = "options" =>
        /\ waiting = NoRequest /\ ~parked
        /\ matches = IF named = <<>> THEN 0 ELSE 1

LEMMA BeginStep ==
    ASSUME ControlTypeOK, BeginInv, OneTypeOption, [ControlNext]_controlVars
    PROVE  (BeginInv /\ OneTypeOption)'
<1>. USE DEF BeginInv, OneTypeOption
<1>0. named \in Seq(SUBSET Monitors) /\ matches \in Nat /\ wire \in {NoRequest, waiting}
  BY DEF ControlTypeOK, StartupTypeOK
<1>1. CASE StartupNext /\ UNCHANGED <<session, cable, waiting, history>>
  <2>0. phase = "options" /\ UNCHANGED <<waiting, parked>>
    BY <1>1 DEF StartupNext, NoCurses, ForceNMEA, ForceType, ExitOption, Open, FailToOpen,
                NextOption, history
  <2>1. CASE ForceType
    <3>1. PICK m \in TypeOptions :
              /\ named' = Append(named, m) /\ matches' = matches + Cardinality(m)
              /\ fallback' \in IF m = {} THEN {None} ELSE m
              /\ phase' = IF matches' = 1 THEN phase ELSE "exited"
      BY <2>1 DEF ForceType
    <3>2. m \in SUBSET Monitors /\ IsFiniteSet(m)
      BY TypeOptionsAssumption, MonitorsAssumption, FS_Subset
    <3>3. Cardinality(m) \in Nat
      BY <3>2, FS_CardinalityType
    <3>4. SUFFICES ASSUME matches' = 1
                   PROVE  (BeginInv /\ OneTypeOption)'
      BY <3>1
    <3>5. named' /= <<>>
      BY <1>0, <3>1, <3>2
    <3>6. CASE named = <<>>
      <4>1. Cardinality(m) = 1
        BY <1>0, <2>0, <3>1, <3>3, <3>4, <3>6
      <4>2. PICK d : m = {d}
        BY <3>2, <4>1, FS_Singleton
      <4>3. named' = <<m>> /\ fallback' = d /\ d \in Monitors
        BY <3>1, <3>2, <3>6, <4>2
      <4>4. /\ DOMAIN named' = {1} /\ named'[1] = {d} /\ 1 = Len(named')
        BY <4>2, <4>3
      <4>5. \E i \in DOMAIN named', e \in Monitors :
               /\ named'[i] = {e}
               /\ \A j \in DOMAIN named' \ {i} : named'[j] = {}
               /\ fallback' = IF i = Len(named') THEN e ELSE None
        BY <4>3, <4>4
      <4>. QED
        BY <2>0, <3>4, <3>5, <4>5
    <3>7. CASE named /= <<>>
      <4>1. Cardinality(m) = 0
        BY <1>0, <2>0, <3>1, <3>3, <3>4, <3>7
      <4>2. m = {}
        BY <3>2, <4>1, FS_EmptySet
      <4>3. PICK i \in DOMAIN named, d \in Monitors :
                /\ named[i] = {d}
                /\ \A j \in DOMAIN named \ {i} : named[j] = {}
        BY <2>0, <3>7
      <4>4. /\ DOMAIN named' = DOMAIN named \cup {Len(named) + 1}
            /\ \A j \in DOMAIN named : named'[j] = named[j]
            /\ named'[Len(named) + 1] = {}
            /\ Len(named') = Len(named) + 1
            /\ DOMAIN named = 1 .. Len(named) /\ Len(named) \in Nat
        BY <1>0, <3>1, <3>2, <4>2
      <4>5. i \in DOMAIN named' /\ named'[i] = {d} /\ i /= Len(named')
        BY <4>3, <4>4
      <4>6. \A j \in DOMAIN named' \ {i} : named'[j] = {}
        BY <4>3, <4>4
      <4>7. fallback' = None
        BY <3>1, <4>2
      <4>8. \E k \in DOMAIN named', e \in Monitors :
               /\ named'[k] = {e}
               /\ \A j \in DOMAIN named' \ {k} : named'[j] = {}
               /\ fallback' = IF k = Len(named') THEN e ELSE None
        BY <4>5, <4>6, <4>7
      <4>. QED
        BY <2>0, <3>4, <3>5, <4>8
    <3>. QED
      BY <3>6, <3>7
  <2>2. CASE NoCurses \/ ForceNMEA
    BY <2>0, <2>2 DEF NoCurses, ForceNMEA, options
  <2>3. CASE ExitOption \/ Open \/ FailToOpen
    BY <2>3 DEF ExitOption, Open, FailToOpen
  <2>. QED
    BY <1>1, <2>1, <2>2, <2>3 DEF StartupNext
<1>2. CASE Ready /\ Command
  BY <1>2, CommandKeeps DEF Ready
<1>3. CASE ModeAsked \/ SpeedAsked \/ ReceiverReads
  BY <1>0, <1>3 DEF ModeAsked, SpeedAsked, ReceiverReads, startupVars
<1>4. CASE Leave \/ Decode \/ Hunt \/ Probe
  BY <1>4 DEF Leave, Decode, Hunt, Probe, Ready, startupVars
<1>5. CASE UNCHANGED controlVars
  BY <1>5 DEF controlVars, startupVars, options, history
<1>. QED
  BY <1>1, <1>2, <1>3, <1>4, <1>5 DEF ControlNext

\* For any monitors and any sequence of options.
THEOREM OneTypeOptionHolds == ControlSpec => [](BeginInv /\ OneTypeOption)
<1>1. ControlInit => BeginInv /\ OneTypeOption
  BY DEF ControlInit, StartupInit, BeginInv, OneTypeOption
<1>. QED
  BY <1>1, BeginStep, ControlTypes, PTL DEF ControlSpec

-----------------------------------------------------------------------------
(* i *)

\* Inside s, between its request and gpsd_set_speed(), gpsd may write as well.
Ordered == phase = "running" /\ ~readonly => ordered \/ waiting.kind = "speed"

LEMMA OrderedStep ==
    ASSUME ControlTypeOK, BeginInv, Ordered, [ControlNext]_controlVars
    PROVE  Ordered'
<1>. USE DEF Ordered
<1>0. NoRequest.kind = "none"
  BY DEF NoRequest
<1>1. CASE UNCHANGED controlVars
  BY <1>1 DEF controlVars, startupVars, history
<1>2. CASE StartupNext /\ UNCHANGED <<session, cable, waiting, history>>
  BY <1>2 DEF StartupNext, NoCurses, ForceNMEA, ForceType, ExitOption, Open, FailToOpen,
              NextOption, history
<1>3. CASE readonly' = TRUE
  BY <1>3
<1>4. CASE UNCHANGED <<phase, readonly, ordered, waiting>>
  BY <1>4
<1>5. CASE Ready /\ Command
  <2>1. CASE ChangeRate \/ SendControl \/ SendRaw \/ ForceDriver
    BY <1>1, <1>3, <1>4, <2>1
       DEF ChangeRate, SendControl, SendRaw, ForceDriver, UserBytes, Complain, startupVars, history
  <2>2. CASE AskSpeed
    <3>1. CASE waiting' = [driver |-> Asked("speed_switcher"), kind |-> "speed", value |-> waiting'.value]
      BY <3>1
    <3>. QED
      BY <1>1, <1>3, <2>2, <3>1 DEF AskSpeed, Complain
  <2>3. ASSUME NEW enabled \in {readonly, TRUE, FALSE}, SetProbing(enabled)
        PROVE  Ordered'
    BY <1>1, <2>3 DEF SetProbing, Complain
  <2>4. ASSUME NEW mode \in {"nmea", "binary"}, AskMode(mode)
        PROVE  Ordered'
    BY <1>1, <1>3, <2>4 DEF AskMode, Complain
  <2>. QED
    BY <1>5, <2>1, <2>2, <2>3, <2>4 DEF Command
<1>6. CASE ModeAsked
  BY <1>0, <1>6 DEF ModeAsked, history
<1>7. CASE SpeedAsked \/ Leave \/ ReceiverReads \/ Decode \/ Hunt \/ Probe
  BY <1>3, <1>4, <1>7 DEF SpeedAsked, Leave, ReceiverReads, Decode, Hunt, Probe, startupVars, history
<1>. QED
  BY <1>1, <1>2, <1>5, <1>6, <1>7 DEF ControlNext

\* Probing is enabled between commands only if the last i ordered it.
THEOREM ProbingOrdered == ControlSpec => []ProbingIsOrdered
<1>1. ControlInit => Ordered
  BY DEF ControlInit, StartupInit, Ordered
<1>2. Ordered => ProbingIsOrdered
  BY DEF Ordered, ProbingIsOrdered, NoRequest
<1>. QED
  BY <1>1, <1>2, OrderedStep, ControlTypes, OneTypeOptionHolds, PTL DEF ControlSpec

-----------------------------------------------------------------------------
(* s *)

\* Where the speeds are while s waits: the request is on the wire at the speed of the
\* receiver, or the receiver has read it and has the speed the port is about to get.
Agreement ==
    agreed =>
        /\ waiting.kind /= "speed" => port = receiver.speed
        /\ waiting.kind = "speed" =>
              /\ waiting.driver = receiver.driver
              /\ IF wire = NoRequest THEN receiver.speed = waiting.value ELSE port = receiver.speed

LEMMA AgreementStep ==
    ASSUME ControlTypeOK, Agreement, [ControlNext]_controlVars
    PROVE  Agreement'
<1>. USE DEF Agreement
<1>0. /\ NoRequest.kind = "none" /\ wire \in {NoRequest, waiting}
      /\ waiting /= NoRequest => waiting \in Requests
      /\ receiver \in [driver : Receivers, speed : Speeds, textual : BOOLEAN]
  BY DEF ControlTypeOK, NoRequest
<1>1. CASE UNCHANGED controlVars
  BY <1>1 DEF controlVars, cable, history
<1>2. CASE StartupNext /\ UNCHANGED <<session, cable, waiting, history>>
  BY <1>2 DEF cable, history
<1>3. CASE Ready /\ Command
  <2>1. CASE ChangeRate \/ ForceDriver
    BY <1>1, <2>1 DEF ChangeRate, ForceDriver, Complain, cable, history
  <2>2. CASE SendControl \/ SendRaw
    BY <1>1, <2>2 DEF SendControl, SendRaw, Complain, UserBytes
  <2>3. CASE AskSpeed
    <3>1. CASE UNCHANGED <<session, cable, waiting, history>>
      BY <3>1 DEF cable, history
    <3>2. CASE /\ \E speed \in Speeds :
                     LET request == [driver |-> Asked("speed_switcher"),
                                     kind |-> "speed", value |-> speed]
                     IN  wire' = request /\ waiting' = request
               /\ agreed' = (agreed /\ Asked("speed_switcher") = receiver.driver)
               /\ UNCHANGED <<port, receiver>>
      <4>1. PICK speed \in Speeds :
                waiting' = [driver |-> Asked("speed_switcher"), kind |-> "speed", value |-> speed]
        BY <3>2
      <4>2. wire' = waiting' /\ UNCHANGED <<port, receiver>>
        BY <3>2
      <4>3. agreed' => agreed /\ Asked("speed_switcher") = receiver.driver
        BY <3>2
      <4>4. waiting'.kind = "speed" /\ waiting' /= NoRequest /\ waiting'.driver = Asked("speed_switcher")
        BY <1>0, <4>1
      <4>5. agreed => port = receiver.speed
        BY <1>0, <1>3 DEF Ready
      <4>. QED
        BY <4>2, <4>3, <4>4, <4>5
    <3>. QED
      BY <1>1, <2>3, <3>1, <3>2 DEF AskSpeed, Complain
  <2>4. ASSUME NEW enabled \in {readonly, TRUE, FALSE}, SetProbing(enabled)
        PROVE  Agreement'
    BY <1>1, <2>4 DEF SetProbing, Complain, cable
  <2>5. ASSUME NEW mode \in {"nmea", "binary"}, AskMode(mode)
        PROVE  Agreement'
    <3>1. CASE waiting' = [driver |-> Asked("mode_switcher"), kind |-> "mode", value |-> mode]
               /\ UNCHANGED <<port, receiver, history>>
      BY <1>0, <1>3, <3>1 DEF Ready, history
    <3>. QED
      BY <1>1, <2>5, <3>1 DEF AskMode, Complain
  <2>. QED
    BY <1>3, <2>1, <2>2, <2>3, <2>4, <2>5 DEF Command
<1>4. CASE ModeAsked
  BY <1>0, <1>4 DEF ModeAsked, cable, history
<1>5. CASE SpeedAsked
  BY <1>0, <1>5 DEF SpeedAsked, history
<1>6. CASE ReceiverReads
  <2>1. wire = waiting /\ wire' = NoRequest /\ wire /= NoRequest /\ UNCHANGED <<waiting, agreed, port>>
    BY <1>0, <1>6 DEF ReceiverReads
  <2>2. CASE waiting.kind = "speed"
    BY <1>0, <1>6, <2>1, <2>2 DEF ReceiverReads
  <2>3. CASE waiting.kind /= "speed"
    <3>1. receiver'.speed = receiver.speed
      BY <1>0, <1>6, <2>1, <2>3, RequestKinds DEF ReceiverReads
    <3>. QED
      BY <2>1, <2>3, <3>1
  <2>. QED
    BY <2>2, <2>3
<1>7. CASE Decode
  BY <1>0, <1>7 DEF Decode, Ready, cable
<1>8. CASE Hunt
  BY <1>0, <1>8 DEF Hunt, Ready, history
<1>9. CASE Leave
  BY <1>9 DEF Leave, cable, history
<1>10. CASE Probe
  BY <1>0, <1>10 DEF Probe
<1>. QED
  BY <1>1, <1>2, <1>3, <1>4, <1>5, <1>6, <1>7, <1>8, <1>9, <1>10 DEF ControlNext

\* For any speeds and drivers: s leaves port and receiver at the same speed.
THEOREM SpeedsStayAgreed == ControlSpec => []SpeedsAgree
<1>1. ControlInit => Agreement
  BY DEF ControlInit, Agreement
<1>2. Agreement => SpeedsAgree
  BY DEF Agreement, SpeedsAgree, NoRequest
<1>. QED
  BY <1>1, <1>2, AgreementStep, ControlTypes, PTL DEF ControlSpec

-----------------------------------------------------------------------------
(* n *)

\* Who is asked of the mode has the method, and while the receiver is parked in NMEA
\* mode its driver is the fallback, or about to become it.
Parking ==
    /\ waiting.kind = "mode" =>
          waiting.driver \in Drivers /\ "mode_switcher" \in Methods[waiting.driver]
    /\ parked =>
          /\ "mode_switcher" \in Methods[receiver.driver]
          /\ waiting.kind = "mode" => waiting.driver = receiver.driver
          /\ \/ fallback = receiver.driver
             \/ /\ waiting.kind = "mode" /\ waiting.value = "nmea"
                /\ wire = NoRequest

\* A parked receiver's driver is asked before that of the session.
LEMMA ParkedIsAsked ==
    ASSUME ControlTypeOK, Parking, Ready, parked
    PROVE  Asked("mode_switcher") = receiver.driver
<1>1. receiver.driver \in Drivers /\ receiver.driver /= None
  BY DriversAssumption, ReceiversAssumption DEF ControlTypeOK
<1>2. waiting.kind /= "mode"
  BY DEF Ready, NoRequest
<1>. QED
  BY <1>1, <1>2 DEF Parking, Asked

LEMMA ParkingStep ==
    ASSUME ControlTypeOK, BeginInv, Parking, [ControlNext]_controlVars
    PROVE  Parking'
<1>. USE DEF Parking
<1>0. /\ NoRequest.kind = "none" /\ wire \in {NoRequest, waiting}
      /\ waiting /= NoRequest => waiting \in Requests
      /\ receiver \in [driver : Receivers, speed : Speeds, textual : BOOLEAN]
  BY DEF ControlTypeOK, NoRequest
<1>1. ASSUME UNCHANGED <<waiting, wire, receiver, fallback>>, parked' => parked
      PROVE  Parking'
  BY <1>1
<1>2. CASE UNCHANGED controlVars
  BY <1>1, <1>2 DEF controlVars, startupVars, cable, history
<1>3. CASE StartupNext /\ UNCHANGED <<session, cable, waiting, history>>
  <2>1. phase = "options"
    BY <1>3 DEF StartupNext, NoCurses, ForceNMEA, ForceType, ExitOption, Open, FailToOpen, NextOption
  <2>2. ~parked /\ waiting = NoRequest
    BY <2>1 DEF BeginInv
  <2>. QED
    BY <1>0, <1>3, <2>2 DEF cable, history
<1>4. CASE Ready /\ Command
  <2>1. CASE ChangeRate \/ ForceDriver
    BY <1>1, <1>2, <2>1 DEF ChangeRate, ForceDriver, Complain, startupVars, cable, history
  <2>2. CASE SendControl \/ SendRaw
    <3>1. CASE UserBytes
      <4>1. receiver'.driver = receiver.driver
        BY <3>1, UserBytesType
      <4>2. parked' => parked
        BY <3>1 DEF UserBytes
      <4>. QED
        BY <3>1, <4>1, <4>2 DEF UserBytes
    <3>. QED
      BY <1>2, <2>2, <3>1 DEF SendControl, SendRaw, Complain
  <2>3. CASE AskSpeed
    <3>1. CASE UNCHANGED <<fallback, cable, waiting, history>>
      BY <1>1, <3>1 DEF cable, history
    <3>2. CASE /\ \E speed \in Speeds :
                     LET request == [driver |-> Asked("speed_switcher"),
                                     kind |-> "speed", value |-> speed]
                     IN  wire' = request /\ waiting' = request
               /\ UNCHANGED <<fallback, receiver, parked>>
      <4>1. waiting'.kind = "speed"
        BY <3>2
      <4>2. parked => fallback = receiver.driver
        BY <1>0, <1>4 DEF Ready
      <4>. QED
        BY <3>2, <4>1, <4>2
    <3>. QED
      BY <1>2, <2>3, <3>1, <3>2 DEF AskSpeed, Complain
  <2>4. ASSUME NEW enabled \in {readonly, TRUE, FALSE}, SetProbing(enabled)
        PROVE  Parking'
    BY <1>1, <1>2, <2>4 DEF SetProbing, Complain, cable
  <2>5. ASSUME NEW mode \in {"nmea", "binary"}, AskMode(mode)
        PROVE  Parking'
    <3>1. CASE /\ CanAsk("mode_switcher")
               /\ waiting' = [driver |-> Asked("mode_switcher"), kind |-> "mode", value |-> mode]
               /\ UNCHANGED <<fallback, receiver, parked>>
      <4>1. waiting'.kind = "mode" /\ waiting'.driver = Asked("mode_switcher")
        BY <3>1
      <4>2. Asked("mode_switcher") \in Drivers /\ "mode_switcher" \in Methods[Asked("mode_switcher")]
        BY <3>1, AskedHasMethod
      <4>3. parked => Asked("mode_switcher") = receiver.driver
        BY <1>4, ParkedIsAsked
      <4>4. parked => fallback = receiver.driver
        BY <1>0, <1>4 DEF Ready
      <4>. QED
        BY <3>1, <4>1, <4>2, <4>3, <4>4
    <3>. QED
      BY <1>2, <2>5, <3>1 DEF AskMode, Complain, history
  <2>. QED
    BY <1>4, <2>1, <2>2, <2>3, <2>4, <2>5 DEF Command
<1>5. CASE ModeAsked
  BY <1>0, <1>5 DEF ModeAsked, cable, history
<1>6. CASE SpeedAsked
  BY <1>0, <1>6 DEF SpeedAsked, history
<1>7. CASE ReceiverReads
  <2>1. wire = waiting /\ wire' = NoRequest /\ wire /= NoRequest /\ UNCHANGED <<waiting, fallback>>
    BY <1>0, <1>7 DEF ReceiverReads, startupVars
  <2>2. CASE UNCHANGED <<receiver, parked>>
    BY <2>1, <2>2
  <2>3. CASE /\ wire.driver = receiver.driver /\ wire.kind = "mode"
             /\ receiver' = [receiver EXCEPT !.textual = (wire.value = "nmea")]
             /\ parked' = (wire.value = "nmea")
    <3>1. receiver'.driver = receiver.driver
      BY <1>0, <2>3
    <3>2. parked' => wire.value = "nmea"
      BY <2>3
    <3>. QED
      BY <2>1, <2>3, <3>1, <3>2
  <2>4. CASE wire.kind /= "mode" /\ UNCHANGED parked /\ receiver' = [receiver EXCEPT !.speed = wire.value]
    <3>1. receiver'.driver = receiver.driver
      BY <1>0, <2>4
    <3>. QED
      BY <2>1, <2>4, <3>1
  <2>. QED
    BY <1>7, <2>2, <2>3, <2>4 DEF ReceiverReads
<1>8. CASE Leave \/ Decode \/ Hunt
  BY <1>1, <1>8 DEF Leave, Decode, Hunt, startupVars, cable, history
<1>9. CASE Probe
  <2>1. receiver'.driver = receiver.driver
    BY <1>0, <1>9 DEF Probe
  <2>2. parked' => parked
    BY <1>9 DEF Probe
  <2>. QED
    BY <1>9, <2>1, <2>2 DEF Probe, startupVars
<1>. QED
  BY <1>2, <1>3, <1>4, <1>5, <1>6, <1>7, <1>8, <1>9 DEF ControlNext

\* Only n begins to wait for a mode, and it asks the driver of a parked receiver.
LEMMA WayBackStep ==
    ASSUME ControlTypeOK, BeginInv, Parking, [ControlNext]_controlVars,
           parked, waiting = NoRequest, waiting' /= NoRequest, waiting'.kind = "mode"
    PROVE  waiting'.driver = receiver.driver
<1>1. CASE Ready /\ Command
  <2>1. CASE ChangeRate \/ ForceDriver \/ SendControl \/ SendRaw
    BY <2>1 DEF ChangeRate, ForceDriver, SendControl, SendRaw, UserBytes, Complain, controlVars
  <2>2. CASE AskSpeed
    <3>1. CASE \E speed \in Speeds :
                  LET request == [driver |-> Asked("speed_switcher"),
                                  kind |-> "speed", value |-> speed]
                  IN  wire' = request /\ waiting' = request
      BY <3>1
    <3>. QED
      BY <2>2, <3>1 DEF AskSpeed, Complain, controlVars
  <2>3. ASSUME NEW enabled \in {readonly, TRUE, FALSE}, SetProbing(enabled)
        PROVE  FALSE
    BY <2>3 DEF SetProbing, Complain, controlVars
  <2>4. ASSUME NEW mode \in {"nmea", "binary"}, AskMode(mode)
        PROVE  waiting'.driver = receiver.driver
    BY <1>1, <2>4, ParkedIsAsked DEF AskMode, Complain, controlVars
  <2>. QED
    BY <1>1, <2>1, <2>2, <2>3, <2>4 DEF Command
<1>. QED
  BY <1>1 DEF ControlNext, controlVars, ModeAsked, SpeedAsked, Leave, ReceiverReads,
              Decode, Hunt, Probe

\* For any drivers, whatever the session's driver and gpsd do meanwhile.
THEOREM WayBackHolds == ControlSpec => WayBack
<1>1. ControlInit => Parking
  BY DEF ControlInit, Parking, NoRequest
<1>2. ControlTypeOK /\ BeginInv /\ Parking /\ [ControlNext]_controlVars =>
          [parked /\ waiting = NoRequest /\ waiting' /= NoRequest /\ waiting'.kind = "mode"
           => waiting'.driver = receiver.driver]_controlVars
  BY WayBackStep
<1>. QED
  BY <1>1, <1>2, ParkingStep, ControlTypes, OneTypeOptionHolds, PTL DEF ControlSpec, WayBack

-----------------------------------------------------------------------------
(* The console *)

\* A step of the console is one of Control, or leaves its variables alone.
LEMMA ConsoleStep == [ConsoleNext]_consoleVars => [ControlNext]_controlVars
<1>. SUFFICES ASSUME [ConsoleNext]_consoleVars
              PROVE  [ControlNext]_controlVars
  OBVIOUS
<1>1. CASE Start
  BY <1>1 DEF Start, ControlNext
<1>2. CASE Key
  <2>1. CASE phase' = phase
    BY <1>2, <2>1 DEF Key, controlVars, startupVars
  <2>2. CASE phase' /= phase
    <3>1. phase' = "exited"
      BY <1>2, <2>2 DEF Key
    <3>2. Leave
      BY <1>2, <3>1 DEF Key, Leave
    <3>. QED
      BY <3>2 DEF ControlNext
  <2>. QED
    BY <2>1, <2>2
<1>3. CASE ReadLine
  BY <1>3 DEF ReadLine
<1>4. CASE Execute
  <2>0. Ready
    BY <1>4 DEF Execute
  <2>1. ASSUME SetProbing(Probing(line))
        PROVE  Command
    <3>1. Probing(line) \in {readonly, TRUE, FALSE}
      <4>1. (~IsZero(Argument(line))) \in {TRUE, FALSE}
        BY DEF IsZero
      <4>. QED
        BY <4>1 DEF Probing
    <3>. QED
      BY <2>1, <3>1 DEF Command
  <2>2. ASSUME AskMode(Mode(line))
        PROVE  Command
    <3>1. Mode(line) \in {"nmea", "binary"}
      BY DEF Mode
    <3>. QED
      BY <2>2, <3>1 DEF Command
  <2>3. Command \/ Leave \/ UNCHANGED controlVars
    BY <1>4, <2>1, <2>2 DEF Execute, Does, Command, Complain
  <2>. QED
    BY <2>0, <2>3 DEF ControlNext
<1>5. CASE Continue \/ Poll
  BY <1>5 DEF Continue, Poll, ControlNext
<1>6. CASE ReceiverReads /\ UNCHANGED editorVars
  BY <1>6 DEF ControlNext
<1>7. CASE Ended \/ UNCHANGED consoleVars
  BY <1>7 DEF Ended, consoleVars
<1>. QED
  BY <1>1, <1>2, <1>3, <1>4, <1>5, <1>6, <1>7 DEF ConsoleNext

\* What is promised of any command at any time is promised of those a user types.
THEOREM ControlPart == ConsoleSpec => ControlSpec
<1>1. ConsoleInit => ControlInit
  BY DEF ConsoleInit
<1>. QED
  BY <1>1, ConsoleStep, PTL DEF ConsoleSpec, ControlSpec

\* The promises of Control, kept at the console.
THEOREM ConsoleSafe ==
    ConsoleSpec => /\ [](OneTypeOption /\ ProbingIsOrdered /\ SpeedsAgree)
                   /\ WayBack
<1>1. BeginInv /\ OneTypeOption => OneTypeOption
  OBVIOUS
<1>. QED
  BY <1>1, ControlPart, OneTypeOptionHolds, ProbingOrdered, SpeedsStayAgreed, WayBackHolds, PTL

-----------------------------------------------------------------------------
(* The line editor *)

\* Beginnings of lines.
LEMMA Beginning ==
    ASSUME NEW s \in Seq(Characters), NEW n \in 0 .. Len(s)
    PROVE  /\ SubSeq(s, 1, n) \in Seq(Characters) /\ Len(SubSeq(s, 1, n)) = n
           /\ \A i \in 1 .. n : SubSeq(s, 1, n)[i] = s[i]
BY SubSeqProperties

LEMMA CopiedType ==
    ASSUME NEW s \in Seq(Characters)
    PROVE  /\ Copied(s) \in Seq(Characters) /\ Len(Copied(s)) < BufSize
           /\ s /= <<>> => Copied(s) /= <<>>
           /\ Len(s) < BufSize => Copied(s) = s
<1>1. BufSize \in Nat /\ BufSize > 1
  BY BufSizeAssumption
<1>2. /\ Min2(Len(s), BufSize - 1) \in 0 .. Len(s) /\ Min2(Len(s), BufSize - 1) < BufSize
      /\ s /= <<>> => Min2(Len(s), BufSize - 1) > 0
      /\ Len(s) < BufSize => Min2(Len(s), BufSize - 1) = Len(s)
  BY <1>1, EmptySeq DEF Min2
<1>3. Copied(s) = SubSeq(s, 1, Min2(Len(s), BufSize - 1))
  BY DEF Copied
<1>4. /\ Copied(s) \in Seq(Characters) /\ Len(Copied(s)) = Min2(Len(s), BufSize - 1)
      /\ \A i \in 1 .. Len(Copied(s)) : Copied(s)[i] = s[i]
  BY <1>2, <1>3, Beginning
<1>5. Len(s) < BufSize => Copied(s) = s
  BY <1>2, <1>4, SeqEqual
<1>. QED
  BY <1>2, <1>4, <1>5

\* What is in input[]: the first keys typed.
Collected(text) == SubSeq(text, 1, Min2(Len(text), BufSize))

LEMMA CollectedType ==
    ASSUME NEW s \in Seq(Characters)
    PROVE  /\ Collected(s) \in Seq(Characters) /\ Len(Collected(s)) = Min2(Len(s), BufSize)
           /\ \A i \in 1 .. Len(Collected(s)) : Collected(s)[i] = s[i]
<1>1. BufSize \in Nat
  BY BufSizeAssumption
<1>2. Min2(Len(s), BufSize) \in 0 .. Len(s)
  BY <1>1 DEF Min2
<1>. QED
  BY <1>2, Beginning DEF Collected

\* Copying what was collected is copying what was typed.
LEMMA CopiedCollected ==
    ASSUME NEW s \in Seq(Characters)
    PROVE  Copied(Collected(s)) = Copied(s)
<1>1. BufSize \in Nat /\ BufSize > 1
  BY BufSizeAssumption
<1>. DEFINE c == Collected(s)
<1>2. /\ c \in Seq(Characters) /\ Len(c) = Min2(Len(s), BufSize)
      /\ \A i \in 1 .. Len(c) : c[i] = s[i]
  BY CollectedType
<1>. HIDE DEF c
<1>3. /\ Min2(Len(c), BufSize - 1) = Min2(Len(s), BufSize - 1)
      /\ Min2(Len(s), BufSize - 1) \in 0 .. Len(s)
      /\ Min2(Len(s), BufSize - 1) \in 0 .. Len(c)
  BY <1>1, <1>2 DEF Min2
<1>4. SubSeq(c, 1, Min2(Len(s), BufSize - 1)) = SubSeq(s, 1, Min2(Len(s), BufSize - 1))
  BY <1>2, <1>3, Beginning, SeqEqual
<1>. QED
  BY <1>3, <1>4 DEF Copied, c

\* What holds between keys and lines: input[] has what was typed, or the line handed
\* over has what was kept of it; nothing is typed before there is a main loop, or
\* without curses before a line is read; and only without curses are keys discarded.
EditorInv ==
    /\ EditorTypeOK
    /\ IF line = NoLine THEN input = Collected(typed) /\ flushed = 0
                        ELSE line = Copied(Kept(typed, flushed)) /\ input = <<>>
    /\ line = NoLine /\ (phase = "options" \/ ~curses) => typed = <<>>
    /\ phase = "options" \/ curses => flushed = 0

LEMMA TypedKey ==
    ASSUME EditorInv, Character
    PROVE  /\ line' = NoLine /\ endedBy' = endedBy
           /\ typed' \in Seq(Characters) /\ input' = Collected(typed')
<1>0. /\ BufSize \in Nat /\ BufSize > 1
      /\ line = NoLine /\ input = Collected(typed) /\ typed \in Seq(Characters)
  BY BufSizeAssumption DEF EditorInv, EditorTypeOK, Character
<1>1. PICK text \in Texts : /\ Len(typed) < Len(text)
                            /\ typed' = Append(typed, text[Len(typed) + 1])
  BY DEF Character
<1>2. text \in Seq(Characters)
  BY TextsAssumption
<1>3. text[Len(typed) + 1] \in Characters
  BY <1>0, <1>1, <1>2
<1>4. typed' \in Seq(Characters) /\ Len(typed') = Len(typed) + 1
  BY <1>0, <1>1, <1>3
<1>5. Last(typed') = typed'[Len(typed')]
  BY DEF Last
<1>6. input' = IF Len(input) < BufSize THEN Append(input, typed'[Len(typed')]) ELSE input
  BY <1>5 DEF Character
<1>7. /\ input \in Seq(Characters) /\ Len(input) = Min2(Len(typed), BufSize)
      /\ \A i \in 1 .. Len(input) : input[i] = typed[i]
  BY <1>0, CollectedType
<1>8. /\ input' \in Seq(Characters) /\ Len(input') = Min2(Len(typed'), BufSize)
  <2>1. CASE Len(input) < BufSize
    BY <1>0, <1>3, <1>4, <1>6, <1>7, <2>1 DEF Min2
  <2>2. CASE Len(input) >= BufSize
    BY <1>0, <1>4, <1>6, <1>7, <2>2 DEF Min2
  <2>. QED
    BY <1>0, <1>7, <2>1, <2>2
<1>9. \A i \in 1 .. Len(input') : input'[i] = typed'[i]
  <2>1. CASE Len(typed) < BufSize
    BY <1>0, <1>1, <1>3, <1>4, <1>6, <1>7, <2>1 DEF Min2
  <2>2. CASE Len(typed) >= BufSize
    BY <1>0, <1>1, <1>3, <1>4, <1>6, <1>7, <2>2 DEF Min2
  <2>. QED
    BY <1>0, <2>1, <2>2
<1>10. input' = Collected(typed')
  <2>1. /\ Collected(typed') \in Seq(Characters) /\ Len(Collected(typed')) = Min2(Len(typed'), BufSize)
        /\ \A i \in 1 .. Len(Collected(typed')) : Collected(typed')[i] = typed'[i]
    BY <1>4, CollectedType
  <2>. QED
    BY <1>8, <1>9, <2>1, SeqEqual
<1>. QED
  BY <1>0, <1>4, <1>10 DEF Character

LEMMA FinishedLine ==
    ASSUME EditorInv, NEW key \in {"return", "^L"}, Finish(key)
    PROVE  /\ typed' = typed /\ input' = <<>> /\ endedBy' \in {"return", "^L"}
           /\ IF typed = <<>> THEN line' = NoLine ELSE line' = Copied(typed) /\ line' /= NoLine
<1>0. /\ BufSize \in Nat /\ BufSize > 1
      /\ line = NoLine /\ input = Collected(typed) /\ typed \in Seq(Characters) /\ endedBy \in {"return", "^L"}
  BY BufSizeAssumption DEF EditorInv, EditorTypeOK, Finish
<1>1. input \in Seq(Characters) /\ (input = <<>> <=> typed = <<>>)
  <2>1. input \in Seq(Characters) /\ Len(input) = Min2(Len(typed), BufSize)
    BY <1>0, CollectedType
  <2>2. Len(input) = 0 <=> Len(typed) = 0
    BY <1>0, <2>1 DEF Min2
  <2>. QED
    BY <1>0, <2>1, <2>2, EmptySeq
<1>2. line' = IF typed = <<>> THEN NoLine ELSE Copied(typed)
  BY <1>0, <1>1, CopiedCollected DEF Finish
<1>3. typed /= <<>> => Copied(typed) /= NoLine
  BY <1>0, CopiedType DEF NoLine
<1>. QED
  BY <1>0, <1>2, <1>3 DEF Finish

\* What is kept of the keys when n of them are flushed: all but those.
LEMMA KeptType ==
    ASSUME NEW s \in Seq(Characters), s /= <<>>, NEW n \in Nat, n + 2 <= Len(s) \/ n = 0
    PROVE  /\ Kept(s, n) \in Seq(Characters) /\ Len(Kept(s, n)) = Len(s) - n
           /\ Kept(s, n) /= <<>>
<1>1. CASE n = 0
  BY <1>1, EmptySeq DEF Kept
<1>2. CASE n /= 0
  <2>1. n + 2 <= Len(s) /\ n + 2 \in 1 .. Len(s) /\ Len(s) \in Nat /\ 1 \in 1 .. Len(s)
    BY <1>2
  <2>2. /\ SubSeq(s, n + 2, Len(s)) \in Seq(Characters)
        /\ Len(SubSeq(s, n + 2, Len(s))) = Len(s) - n - 1
    BY <2>1, SubSeqProperties
  <2>3. <<s[1]>> \in Seq(Characters) /\ Len(<<s[1]>>) = 1
    BY <2>1
  <2>4. /\ <<s[1]>> \o SubSeq(s, n + 2, Len(s)) \in Seq(Characters)
        /\ Len(<<s[1]>> \o SubSeq(s, n + 2, Len(s))) = 1 + (Len(s) - n - 1)
    BY <2>2, <2>3, ConcatProperties
  <2>5. Kept(s, n) = <<s[1]>> \o SubSeq(s, n + 2, Len(s))
    BY <1>2 DEF Kept
  <2>. QED
    BY <2>1, <2>4, <2>5, EmptySeq
<1>. QED
  BY <1>1, <1>2

LEMMA ReadLineWhole ==
    ASSUME EditorInv, PlainLine
    PROVE  /\ typed' \in Seq(Characters) /\ flushed' \in Nat
           /\ line' = Copied(Kept(typed', flushed')) /\ line' /= NoLine
           /\ line' \in Seq(Characters) /\ Len(line') < BufSize
           /\ input' = input /\ endedBy' = "return"
<1>1. PICK text \in Texts \cup {<<Newline>>} :
            /\ text /= <<>> /\ Len(text) + 1 < BufSize
            /\ typed' = Append(text, Newline) /\ flushed' \in 0 .. Len(text) - 1
  BY DEF PlainLine
<1>2. text \in Seq(Characters) /\ Newline \in Characters
  <2>1. Newline \in Characters
    BY DEF Characters
  <2>2. <<Newline>> \in Seq(Characters)
    BY <2>1
  <2>. QED
    BY <2>1, <2>2, TextsAssumption
<1>3. /\ typed' \in Seq(Characters) /\ Len(typed') = Len(text) + 1
      /\ typed' /= <<>> /\ Len(text) \in Nat /\ BufSize \in Nat
  <2>1. /\ Append(text, Newline) \in Seq(Characters)
        /\ Len(Append(text, Newline)) = Len(text) + 1
    BY <1>2, AppendProperties
  <2>2. Len(text) + 1 /= 0 /\ Len(text) \in Nat
    BY <1>2
  <2>. QED
    BY <1>1, <2>1, <2>2, EmptySeq, BufSizeAssumption
<1>4. flushed' \in Nat /\ flushed' + 2 <= Len(typed')
  BY <1>1, <1>3
<1>5. /\ Kept(typed', flushed') \in Seq(Characters)
      /\ Len(Kept(typed', flushed')) = Len(typed') - flushed'
      /\ Kept(typed', flushed') /= <<>>
  BY <1>3, <1>4, KeptType
<1>6. Len(Kept(typed', flushed')) < BufSize
  BY <1>1, <1>3, <1>4, <1>5
<1>7. line' = Kept(typed', flushed') /\ input' = input /\ endedBy' = "return"
  BY DEF PlainLine
<1>. QED
  BY <1>3, <1>4, <1>5, <1>6, <1>7, CopiedType DEF NoLine

\* Nothing collected, nothing typed.
LEMMA NothingCollected == Collected(<<>>) = <<>>
<1>1. <<>> \in Seq(Characters) /\ Len(<<>>) = 0
  OBVIOUS
<1>2. Collected(<<>>) \in Seq(Characters) /\ Len(Collected(<<>>)) = Min2(0, BufSize)
  BY <1>1, CollectedType
<1>3. Min2(0, BufSize) = 0
  BY BufSizeAssumption DEF Min2
<1>. QED
  BY <1>2, <1>3, EmptySeq

LEMMA EditorStep ==
    ASSUME EditorInv, [ConsoleNext]_consoleVars
    PROVE  EditorInv'
<1>0. /\ input \in Seq(Characters) /\ Len(input) <= BufSize /\ line \in Seq(Characters) /\ Len(line) < BufSize
      /\ endedBy \in {"return", "^L"} /\ typed \in Seq(Characters) /\ flushed \in Nat
      /\ BufSize \in Nat /\ BufSize > 1
      /\ <<>> \in Seq(Characters) /\ Len(<<>>) = 0
  BY BufSizeAssumption DEF EditorInv, EditorTypeOK
<1>1. ASSUME UNCHANGED editorVars, UNCHANGED phase, UNCHANGED curses
      PROVE  EditorInv'
  BY <1>1 DEF editorVars, EditorInv, EditorTypeOK, Copied, Collected, Kept
<1>2. CASE Start
  <2>1. phase = "options" /\ UNCHANGED editorVars
    BY <1>2 DEF Start, StartupNext, NoCurses, ForceNMEA, ForceType, ExitOption, Open, FailToOpen, NextOption
  <2>. QED
    BY <2>1 DEF editorVars, EditorInv, EditorTypeOK, Copied, Collected, Kept
<1>3. CASE Key
  <2>0. phase' /= "options" /\ curses' = curses /\ curses /\ line = NoLine /\ flushed = 0
    BY <1>3 DEF Key, Ready, Character, OtherKey, Return, ControlL, Finish, EditorInv
  <2>1. CASE Character
    <3>1. /\ line' = NoLine /\ endedBy' = endedBy /\ flushed' = flushed
          /\ typed' \in Seq(Characters) /\ input' = Collected(typed')
      BY <2>1, TypedKey DEF Character
    <3>2. input' \in Seq(Characters) /\ Len(input') <= BufSize
      <4>1. input' \in Seq(Characters) /\ Len(input') = Min2(Len(typed'), BufSize)
        BY <3>1, CollectedType
      <4>2. Len(typed') \in Nat
        BY <3>1
      <4>. QED
        BY <1>0, <4>1, <4>2 DEF Min2
    <3>3. line' \in Seq(Characters) /\ Len(line') < BufSize
      BY <1>0, <3>1 DEF NoLine
    <3>4. EditorTypeOK'
      BY <1>0, <3>1, <3>2, <3>3 DEF EditorTypeOK
    <3>. QED
      BY <2>0, <3>1, <3>4 DEF EditorInv, Collected
  <2>2. ASSUME NEW key \in {"return", "^L"}, Finish(key)
        PROVE  EditorInv'
    <3>1. /\ typed' = typed /\ input' = <<>> /\ endedBy' \in {"return", "^L"}
          /\ flushed' = flushed
          /\ IF typed = <<>> THEN line' = NoLine ELSE line' = Copied(typed) /\ line' /= NoLine
      BY <2>2, FinishedLine DEF Finish
    <3>2. line' \in Seq(Characters) /\ Len(line') < BufSize
      BY <1>0, <3>1, CopiedType DEF NoLine
    <3>3. EditorTypeOK'
      BY <1>0, <3>1, <3>2 DEF EditorTypeOK
    <3>4. IF line' = NoLine THEN input' = Collected(typed') /\ flushed' = 0
          ELSE line' = Copied(Kept(typed', flushed')) /\ input' = <<>>
      BY <2>0, <3>1, NothingCollected DEF Kept
    <3>. QED
      BY <2>0, <3>1, <3>3, <3>4 DEF EditorInv, Collected, Copied, Kept
  <2>3. CASE OtherKey
    BY <2>0, <2>3 DEF OtherKey, editorVars, EditorInv, EditorTypeOK, Copied, Collected
  <2>. QED
    BY <1>3, <2>1, <2>2, <2>3 DEF Key, Return, ControlL
<1>4. CASE ReadLine
  <2>1. /\ typed' \in Seq(Characters) /\ flushed' \in Nat
        /\ line' = Copied(Kept(typed', flushed')) /\ line' /= NoLine
        /\ line' \in Seq(Characters) /\ Len(line') < BufSize
        /\ input' = input /\ endedBy' = "return"
    BY <1>4, ReadLineWhole DEF ReadLine
  <2>2. line = NoLine /\ ~curses /\ ~curses' /\ phase' /= "options"
    BY <1>4 DEF ReadLine, PlainLine, Ready, controlVars, startupVars, options
  <2>3. input = <<>>
    BY <2>2, NothingCollected DEF EditorInv
  <2>5. EditorTypeOK'
    BY <1>0, <2>1 DEF EditorTypeOK
  <2>. QED
    BY <2>1, <2>2, <2>3, <2>5 DEF EditorInv, Copied, Kept
<1>5. CASE Execute
  <2>1. /\ line /= NoLine /\ line' = NoLine /\ typed' = <<>> /\ flushed' = 0
        /\ input' = input /\ endedBy' = endedBy
    BY <1>5 DEF Execute, Taken
  <2>2. input = <<>>
    BY <2>1 DEF EditorInv
  <2>3. EditorTypeOK'
    BY <1>0, <2>1 DEF EditorTypeOK, NoLine
  <2>4. input' = Collected(typed')
    BY <2>1, <2>2, NothingCollected
  <2>. QED
    BY <2>1, <2>3, <2>4 DEF EditorInv, Collected
<1>6. CASE Continue
  BY <1>1, <1>6 DEF Continue, ModeAsked, SpeedAsked
<1>7. CASE Poll
  <2>1. CASE Leave /\ UNCHANGED editorVars
    <3>1. phase' = "exited" /\ curses' = curses
      BY <2>1 DEF Leave
    <3>. QED
      BY <2>1, <3>1 DEF editorVars, EditorInv, EditorTypeOK, Copied, Collected, Kept
  <2>2. CASE (Decode \/ Hunt \/ Probe) /\ UNCHANGED editorVars
    BY <1>1, <2>2 DEF Decode, Hunt, Probe, startupVars
  <2>. QED
    BY <1>7, <2>1, <2>2 DEF Poll
<1>8. CASE ReceiverReads /\ UNCHANGED editorVars
  BY <1>1, <1>8 DEF ReceiverReads, startupVars
<1>9. CASE Ended \/ UNCHANGED consoleVars
  BY <1>1, <1>9 DEF Ended, consoleVars, controlVars, startupVars
<1>. QED
  BY <1>2, <1>3, <1>4, <1>5, <1>6, <1>7, <1>8, <1>9 DEF ConsoleNext

THEOREM EditorHolds == ConsoleSpec => []EditorInv
<1>1. ConsoleInit => EditorInv
  <2>. SUFFICES ASSUME ConsoleInit
                PROVE  EditorInv
    OBVIOUS
  <2>1. EditorTypeOK
    BY BufSizeAssumption DEF ConsoleInit, EditorInit, EditorTypeOK, NoLine
  <2>. QED
    BY <2>1, NothingCollected DEF ConsoleInit, EditorInit, EditorInv
<1>. QED
  BY <1>1, EditorStep, PTL DEF ConsoleSpec

\* For any texts and any size of the buffer: the line that runs is what was typed, and
\* only without curses less than that, by what was flushed before the prompt (1488).
THEOREM LineTyped == ConsoleSpec => []LineIsTyped
<1>1. EditorInv => LineIsTyped
  BY DEF EditorInv, LineIsTyped
<1>. QED
  BY <1>1, EditorHolds, PTL

\* The types of the whole console.
THEOREM ConsoleTypes == ConsoleSpec => []ConsoleTypeOK
<1>1. ControlTypeOK /\ EditorInv => ConsoleTypeOK
  BY DEF EditorInv, ConsoleTypeOK
<1>. QED
  BY <1>1, ControlPart, ControlTypes, EditorHolds, PTL

-----------------------------------------------------------------------------
(* The argument of i and n *)

\* A digit is none of the white-space characters.
LEMMA CharactersDiffer == Blank \notin {"0", "1"} /\ Newline \notin {"0", "1"}
<1>1. Blank /= "0" /\ Blank /= "1"
  BY Zenon DEF Blank
<1>2. Newline /= "0" /\ Newline /= "1"
  BY Zenon DEF Newline
<1>. QED
  BY <1>1, <1>2

CommandLine(letter, blanks, digit) == <<letter>> \o blanks \o <<digit>>

\* A letter, n - 1 blanks and a digit, and what follows the letter.
IsCommand(text, n, letter, digit) ==
    /\ n \in Nat /\ n >= 1
    /\ Len(text) = n + 1 /\ text[1] = letter /\ text[n + 1] = digit
    /\ \A i \in 2 .. n : text[i] = Blank
    /\ Tail(text) \in Seq({letter, Blank, digit}) /\ Len(Tail(text)) = n
    /\ Tail(text)[n] = digit /\ \A i \in 1 .. n - 1 : Tail(text)[i] = Blank

LEMMA LineOfCommand ==
    ASSUME NEW letter, NEW blanks \in Seq({Blank}), NEW digit
    PROVE  IsCommand(CommandLine(letter, blanks, digit), Len(blanks) + 1, letter, digit)
<1>. DEFINE S == {letter, Blank, digit}
            front == <<letter>> \o blanks
            text == front \o <<digit>>
            n == Len(blanks) + 1
<1>1. /\ <<letter>> \in Seq(S) /\ Len(<<letter>>) = 1 /\ <<letter>>[1] = letter
      /\ <<digit>> \in Seq(S) /\ Len(<<digit>>) = 1 /\ <<digit>>[1] = digit
  OBVIOUS
<1>2. blanks \in Seq(S) /\ Len(blanks) \in Nat /\ \A i \in 1 .. Len(blanks) : blanks[i] = Blank
  BY SeqMonotonic
<1>. HIDE DEF S
<1>3. /\ front \in Seq(S) /\ Len(front) = n
      /\ \A i \in 1 .. n : front[i] = IF i <= 1 THEN <<letter>>[i] ELSE blanks[i - 1]
  BY <1>1, <1>2, ConcatProperties
<1>. HIDE DEF front
<1>4. /\ text \in Seq(S) /\ Len(text) = n + 1
      /\ \A i \in 1 .. n + 1 : text[i] = IF i <= n THEN front[i] ELSE <<digit>>[i - n]
  BY <1>1, <1>3, ConcatProperties
<1>. HIDE DEF text
<1>5. n \in Nat /\ n >= 1
  BY <1>2
<1>6. text[1] = letter /\ text[n + 1] = digit
  <2>1. text[1] = front[1] /\ front[1] = <<letter>>[1] /\ text[n + 1] = <<digit>>[(n + 1) - n] /\ (n + 1) - n = 1
    BY <1>3, <1>4, <1>5
  <2>. QED
    BY <1>1, <2>1
<1>7. ASSUME NEW i \in 2 .. n
      PROVE  text[i] = Blank
  <2>1. text[i] = front[i] /\ front[i] = blanks[i - 1] /\ i - 1 \in 1 .. Len(blanks)
    BY <1>2, <1>3, <1>4, <1>5
  <2>. QED
    BY <1>2, <2>1
<1>8. /\ Tail(text) \in Seq(S) /\ Len(Tail(text)) = n
      /\ \A i \in 1 .. n : Tail(text)[i] = text[i + 1]
  <2>1. text /= <<>>
    BY <1>4, <1>5
  <2>2. Len(Tail(text)) = Len(text) - 1
    BY <1>4, <2>1, HeadTailProperties
  <2>. QED
    BY <1>4, <1>5, <2>1, <2>2, HeadTailProperties
<1>9. ASSUME NEW i \in 1 .. n - 1
      PROVE  Tail(text)[i] = Blank
  <2>1. i \in 1 .. n /\ i + 1 \in 2 .. n
    BY <1>5
  <2>. QED
    BY <1>7, <1>8, <2>1
<1>10. Tail(text)[n] = digit
  BY <1>5, <1>6, <1>8
<1>. QED
  BY <1>4, <1>5, <1>6, <1>7, <1>8, <1>9, <1>10 DEF IsCommand, CommandLine, text, front, S

\* With a digit behind at most two blanks there is an argument: strcspn() stops at
\* the digit, where strnlen() goes on.
LEMMA DigitIsSeen ==
    ASSUME NEW letter, letter \notin {"0", "1"}, NEW blanks \in Seq({Blank}), Len(blanks) <= 2,
           NEW digit \in {"0", "1"}
    PROVE  ~NoArgument(CommandLine(letter, blanks, digit))
<1>. DEFINE text == CommandLine(letter, blanks, digit)
            n == Len(blanks) + 1
            Stops(k) == /\ \A i \in 1 .. k : text[i] \notin {"0", "1"}
                        /\ k < Len(text) => text[k + 1] \in {"0", "1"}
<1>0. IsCommand(text, n, letter, digit) /\ n <= 3
  BY LineOfCommand
<1>. HIDE DEF text, n
<1>1. /\ n \in 1 .. 3 /\ Len(text) = n + 1 /\ text[1] = letter /\ text[n + 1] = digit
      /\ \A i \in 2 .. n : text[i] = Blank
  BY <1>0 DEF IsCommand
<1>2. \A i \in 1 .. n : text[i] \notin {"0", "1"}
  <2>1. \A i \in 1 .. n : i = 1 \/ i \in 2 .. n
    BY <1>1
  <2>. QED
    BY <1>1, <2>1, CharactersDiffer
<1>3. n \in 0 .. Len(text) /\ Stops(n)
  BY <1>1, <1>2
<1>4. \A k \in 0 .. Len(text) : Stops(k) => k = n
  <2>. SUFFICES ASSUME NEW k \in 0 .. Len(text), Stops(k)
                PROVE  k = n
    OBVIOUS
  <2>1. ~(k < n)
    <3>. SUFFICES ASSUME k < n
                  PROVE  FALSE
      OBVIOUS
    <3>1. k + 1 \in 1 .. n /\ k < Len(text)
      BY <1>1
    <3>. QED
      BY <1>2, <3>1
  <2>2. ~(k > n)
    <3>. SUFFICES ASSUME k > n
                  PROVE  FALSE
      OBVIOUS
    <3>1. n + 1 \in 1 .. k
      BY <1>1
    <3>. QED
      BY <1>1, <3>1
  <2>. QED
    BY <1>1, <2>1, <2>2
<1>5. Before01(text) = n
  <2>1. Before01(text) = CHOOSE k \in 0 .. Len(text) : Stops(k)
    BY DEF Before01
  <2>. HIDE DEF Stops
  <2>. QED
    BY <1>3, <1>4, <2>1
<1>6. Min2(Len(text), 4) = n + 1
  BY <1>1 DEF Min2
<1>7. n + 1 /= n
  BY <1>1
<1>8. ~NoArgument(text)
  BY <1>5, <1>6, <1>7 DEF NoArgument
<1>. QED
  BY <1>8 DEF text

\* The argument is the digit: all before it is skipped, and nothing follows.
LEMMA DigitIsArgument ==
    ASSUME NEW letter, NEW blanks \in Seq({Blank}), NEW digit \in {"0", "1"}
    PROVE  Argument(CommandLine(letter, blanks, digit)) = <<digit>>
<1>. DEFINE text == CommandLine(letter, blanks, digit)
            n == Len(blanks) + 1
            rest == Tail(text)
            Skipped(arg) == /\ arg /= <<>> => ~IsSpace(arg[1])
                            /\ \A i \in 1 .. Len(rest) - Len(arg) : IsSpace(rest[i])
<1>0. IsCommand(text, n, letter, digit)
  BY LineOfCommand
<1>. HIDE DEF n, text
<1>1. /\ n \in Nat /\ n >= 1
      /\ rest \in Seq({letter, Blank, digit}) /\ Len(rest) = n /\ rest[n] = digit
      /\ \A i \in 1 .. n - 1 : rest[i] = Blank
  BY <1>0 DEF IsCommand
<1>2. Argument(text) = CHOOSE arg \in Suffixes(rest) : Skipped(arg)
  BY DEF Argument
<1>. HIDE DEF rest
<1>3. IsSpace(Blank) /\ ~IsSpace(digit)
  BY CharactersDiffer DEF IsSpace
<1>4. ASSUME NEW l \in 1 .. n
      PROVE  /\ Len(SubSeq(rest, l, n)) = n - l + 1
             /\ SubSeq(rest, l, n)[1] = rest[l]
  <2>1. \A i \in l .. n : rest[i] \in {letter, Blank, digit}
    BY <1>1
  <2>2. l \in Int /\ n \in Int /\ l <= n /\ 1 \in 1 .. n - l + 1 /\ l + 1 - 1 = l
    BY <1>1
  <2>3. /\ Len(SubSeq(rest, l, n)) = IF l <= n THEN n - l + 1 ELSE 0
        /\ \A i \in 1 .. n - l + 1 : SubSeq(rest, l, n)[i] = rest[l + i - 1]
    BY <2>1, <2>2, SubSeqProperties
  <2>. QED
    BY <2>2, <2>3
<1>5. SubSeq(rest, n, n) = <<digit>>
  <2>1. /\ SubSeq(rest, n, n) \in Seq({letter, Blank, digit})
        /\ Len(SubSeq(rest, n, n)) = 1 /\ SubSeq(rest, n, n)[1] = digit
    <3>1. n \in 1 .. n /\ n - n + 1 = 1 /\ n \in Int /\ \A i \in n .. n : rest[i] \in {letter, Blank, digit}
      BY <1>1
    <3>. QED
      BY <1>1, <1>4, <3>1, SubSeqProperties
  <2>2. <<digit>> \in Seq({letter, Blank, digit}) /\ Len(<<digit>>) = 1 /\ <<digit>>[1] = digit
    OBVIOUS
  <2>3. \A i \in 1 .. 1 : SubSeq(rest, n, n)[i] = <<digit>>[i]
    BY <2>1, <2>2
  <2>. QED
    BY <2>1, <2>2, <2>3, SeqEqual
<1>6. <<digit>> \in Suffixes(rest)
  BY <1>1, <1>5 DEF Suffixes
<1>7. Skipped(<<digit>>)
  <2>1. Len(<<digit>>) = 1 /\ <<digit>>[1] = digit
    OBVIOUS
  <2>. QED
    BY <1>1, <1>3, <2>1
<1>8. ASSUME NEW arg \in Suffixes(rest), Skipped(arg)
      PROVE  arg = <<digit>>
  <2>1. CASE arg = <<>>
    <3>1. Len(arg) = 0 /\ n \in 1 .. Len(rest) - Len(arg)
      BY <1>1, <2>1
    <3>. QED
      BY <1>1, <1>3, <1>8, <3>1
  <2>2. CASE \E l \in 1 .. n : arg = SubSeq(rest, l, n)
    <3>1. PICK l \in 1 .. n : arg = SubSeq(rest, l, n)
      BY <2>2
    <3>2. CASE l = n
      BY <1>5, <3>1, <3>2
    <3>3. CASE l \in 1 .. n - 1
      <4>1. arg[1] = Blank /\ Len(arg) = n - l + 1
        BY <1>1, <1>4, <3>1, <3>3
      <4>2. arg /= <<>>
        BY <1>1, <3>3, <4>1
      <4>. QED
        BY <1>3, <1>8, <4>1, <4>2
    <3>. QED
      BY <1>1, <3>2, <3>3
  <2>. QED
    BY <1>1, <2>1, <2>2 DEF Suffixes
<1>9. Argument(text) = <<digit>>
  <2>. HIDE DEF Skipped
  <2>. QED
    BY <1>2, <1>6, <1>7, <1>8
<1>. QED
  BY <1>9 DEF text

\* atoi() of the digit.
LEMMA DigitIsRead ==
    ASSUME NEW digit \in {"0", "1"}
    PROVE  IsZero(<<digit>>) <=> digit = "0"
<1>1. DOMAIN <<digit>> = {1} /\ <<digit>>[1] = digit
  OBVIOUS
<1>2. CASE digit = "0"
  BY <1>1, <1>2 DEF IsZero, Digits
<1>3. CASE digit = "1"
  <2>1. digit \in Digits \ {"0"} /\ 1 .. 1 - 1 = {}
    BY <1>3 DEF Digits
  <2>2. ~IsZero(<<digit>>)
    BY <1>1, <2>1 DEF IsZero
  <2>. QED
    BY <1>3, <2>2
<1>. QED
  BY <1>2, <1>3

\* The three kinds of blanks that strnlen(line, 4) leaves room for.
LEMMA FewBlanks ==
    ASSUME NEW blanks \in {<<>>, <<Blank>>, <<Blank, Blank>>}
    PROVE  blanks \in Seq({Blank}) /\ Len(blanks) <= 2
<1>1. CASE blanks = <<>>
  BY <1>1
<1>2. CASE blanks = <<Blank>>
  BY <1>2
<1>3. CASE blanks = <<Blank, Blank>>
  BY <1>3
<1>. QED
  BY <1>1, <1>2, <1>3

\* i and n do as the digit says, whatever drivers, fallback and packets there are.
LEMMA DigitStep ==
    ASSUME [ConsoleNext]_consoleVars,
           NEW blanks \in {<<>>, <<Blank>>, <<Blank, Blank>>}, NEW digit \in {"0", "1"},
           line /= NoLine, line' = NoLine, serial, deviceType /= None
    PROVE  /\ line = <<"i">> \o blanks \o <<digit>> => readonly' = (digit = "0")
           /\ line = <<"n">> \o blanks \o <<digit>> /\ waiting' /= NoRequest =>
                 waiting'.value = (IF digit = "0" THEN "nmea" ELSE "binary")
<1>0. blanks \in Seq({Blank}) /\ Len(blanks) <= 2
  BY FewBlanks
<1>1. Execute
  <2>1. line' /= line
    OBVIOUS
  <2>2. ~Key /\ ~ReadLine /\ ~Poll
    BY DEF Key, Character, OtherKey, Return, ControlL, Finish, ReadLine, PlainLine, Poll
  <2>3. ~(UNCHANGED editorVars)
    BY <2>1 DEF editorVars
  <2>. QED
    BY <2>2, <2>3 DEF ConsoleNext, consoleVars, Start, Continue, Ended
<1>2. ASSUME line = <<"i">> \o blanks \o <<digit>>
      PROVE  readonly' = (digit = "0")
  <2>1. line[1] = "i"
    BY <1>0, <1>2, LineOfCommand DEF IsCommand, CommandLine
  <2>2. SetProbing(Probing(line))
    BY <1>1, <2>1 DEF Execute, Does
  <2>3. ~NoArgument(line)
    <3>1. "i" \notin {"0", "1"}
      OBVIOUS
    <3>. QED
      BY <1>0, <1>2, <3>1, DigitIsSeen DEF CommandLine
  <2>4. Argument(line) = <<digit>>
    BY <1>0, <1>2, DigitIsArgument DEF CommandLine
  <2>5. Probing(line) = ~IsZero(<<digit>>)
    BY <2>3, <2>4 DEF Probing
  <2>6. readonly' = ~Probing(line)
    BY <2>2 DEF SetProbing
  <2>7. IsZero(<<digit>>) <=> digit = "0"
    BY DigitIsRead
  <2>8. IsZero(<<digit>>) \in BOOLEAN
    BY DEF IsZero
  <2>. QED
    BY <2>5, <2>6, <2>7, <2>8
<1>3. ASSUME line = <<"n">> \o blanks \o <<digit>>, waiting' /= NoRequest
      PROVE  waiting'.value = (IF digit = "0" THEN "nmea" ELSE "binary")
  <2>1. line[1] = "n"
    BY <1>0, <1>3, LineOfCommand DEF IsCommand, CommandLine
  <2>2. AskMode(Mode(line)) /\ waiting = NoRequest
    BY <1>1, <2>1 DEF Execute, Does, Ready
  <2>3. ~NoArgument(line)
    <3>1. "n" \notin {"0", "1"}
      OBVIOUS
    <3>. QED
      BY <1>0, <1>3, <3>1, DigitIsSeen DEF CommandLine
  <2>4. Argument(line) = <<digit>>
    BY <1>0, <1>3, DigitIsArgument DEF CommandLine
  <2>5. Mode(line) = IF digit = "0" THEN "nmea" ELSE "binary"
    BY <2>3, <2>4, DigitIsRead DEF Mode
  <2>6. waiting'.value = Mode(line)
    BY <1>3, <2>2 DEF AskMode, Complain, controlVars
  <2>. QED
    BY <2>5, <2>6
<1>. QED
  BY <1>2, <1>3

\* For any drivers and at any time.
THEOREM DigitIsObeyed == ConsoleSpec => DigitDecides
<1>1. [ConsoleNext]_consoleVars =>
          [\A blanks \in {<<>>, <<Blank>>, <<Blank, Blank>>}, digit \in {"0", "1"} :
               line /= NoLine /\ line' = NoLine /\ serial /\ deviceType /= None =>
                   /\ line = <<"i">> \o blanks \o <<digit>> => readonly' = (digit = "0")
                   /\ line = <<"n">> \o blanks \o <<digit>> /\ waiting' /= NoRequest =>
                         waiting'.value = (IF digit = "0" THEN "nmea" ELSE "binary")]_consoleVars
  BY DigitStep
<1>. QED
  BY <1>1, PTL DEF ConsoleSpec, DigitDecides

-----------------------------------------------------------------------------
(* The device *)

\* What a step of the device needs to know of the console: the types, and that
\* probing between commands was ordered.
DeviceInv == ControlTypeOK /\ ProbingIsOrdered

\* Executing a line, the device does what its letter orders, or nothing.
LEMMA OrderStep ==
    ASSUME DeviceInv, Execute
    PROVE  Owner!Next
<1>. USE DEF Owner!Idle, Owner!NoOrder, Owner!Execute
<1>0. /\ waiting = NoRequest /\ phase = "running" /\ wire = NoRequest
      /\ line /= <<>> /\ line' = <<>>
      /\ readonly \in BOOLEAN /\ (~readonly => ordered)
  BY DEF Execute, Ready, DeviceInv, ControlTypeOK, StartupTypeOK, ProbingIsOrdered,
         Taken, NoLine
<1>1. ASSUME UNCHANGED <<receiver, wire, ordered>>
      PROVE  Owner!Next
  BY <1>0, <1>1 DEF Owner!Next, Owner!Pass
<1>2. ASSUME Complain
      PROVE  Owner!Next
  BY <1>1, <1>2 DEF Complain, controlVars, cable, history
<1>3. CASE line[1] = "i" /\ SetProbing(Probing(line))
  <2>1. CASE UNCHANGED <<wire, receiver>> /\ ordered' = Probing(line)
    <3>1. Probing(line) \in BOOLEAN
      <4>1. (~IsZero(Argument(line))) \in BOOLEAN
        BY DEF IsZero
      <4>. QED
        BY <1>0, <4>1 DEF Probing
    <3>. QED
      BY <1>0, <1>3, <2>1, <3>1 DEF Owner!Next, Owner!Allow
  <2>. QED
    BY <1>2, <1>3, <2>1 DEF SetProbing, cable
<1>4. CASE line[1] = "n" /\ AskMode(Mode(line))
  <2>1. CASE CanAsk("mode_switcher")
    <3>1. /\ wire' = [driver |-> Asked("mode_switcher"), kind |-> "mode", value |-> Mode(line)]
          /\ UNCHANGED <<receiver, ordered>>
      BY <1>4, <2>1 DEF AskMode, history
    <3>2. Asked("mode_switcher") \in Drivers /\ Mode(line) \in {"nmea", "binary"}
      BY <2>1, AskedHasMethod DEF DeviceInv, Mode
    <3>3. wire' /= NoRequest /\ wire'.kind = "mode"
      BY <3>1, <3>2, RequestKinds
    <3>4. Owner!Ask("n", "mode")
      BY <1>0, <1>4, <3>1, <3>3 DEF Owner!Ask
    <3>. QED
      BY <3>4 DEF Owner!Next
  <2>. QED
    BY <1>2, <1>4, <2>1 DEF AskMode
<1>5. CASE line[1] = "s" /\ AskSpeed
  <2>1. CASE UNCHANGED <<session, cable, waiting, history>>
    BY <1>1, <2>1 DEF cable, history
  <2>2. CASE /\ CanAsk("speed_switcher")
             /\ \E speed \in Speeds :
                   LET request == [driver |-> Asked("speed_switcher"),
                                   kind |-> "speed", value |-> speed]
                   IN  wire' = request /\ waiting' = request
             /\ UNCHANGED <<receiver, ordered>>
    <3>1. PICK speed \in Speeds :
              wire' = [driver |-> Asked("speed_switcher"), kind |-> "speed", value |-> speed]
      BY <2>2
    <3>2. Asked("speed_switcher") \in Drivers
      BY <2>2, AskedHasMethod DEF DeviceInv
    <3>3. wire' /= NoRequest /\ wire'.kind = "speed"
      BY <3>1, <3>2, RequestKinds
    <3>4. Owner!Ask("s", "speed")
      BY <1>0, <1>5, <2>2, <3>3 DEF Owner!Ask
    <3>. QED
      BY <3>4 DEF Owner!Next
  <2>. QED
    BY <1>2, <1>5, <2>1, <2>2 DEF AskSpeed
<1>6. CASE (line[1] = "x" /\ SendControl) \/ (line[1] = "X" /\ SendRaw)
  <2>1. CASE UserBytes /\ (line[1] = "x" \/ (line[1] = "X" /\ ~readonly))
    <3>1. receiver'.driver = receiver.driver /\ UNCHANGED <<wire, ordered>>
      BY <2>1, UserBytesType DEF DeviceInv, UserBytes
    <3>2. line[1] \in IF ordered THEN {"x", "X"} ELSE {"x"}
      BY <1>0, <2>1
    <3>3. Owner!Say
      BY <1>0, <3>1, <3>2 DEF Owner!Say
    <3>. QED
      BY <3>3 DEF Owner!Next
  <2>. QED
    BY <1>2, <1>6, <2>1 DEF SendControl, SendRaw
<1>7. CASE ChangeRate \/ ForceDriver \/ Leave
  BY <1>1, <1>2, <1>7 DEF ChangeRate, ForceDriver, Leave, cable, history
<1>. QED
  BY <1>2, <1>3, <1>4, <1>5, <1>6, <1>7 DEF Execute, Does

\* The receiver reads what is on the wire: it obeys, or the request is lost.
LEMMA HearStep ==
    ASSUME DeviceInv, ReceiverReads, UNCHANGED editorVars
    PROVE  Owner!Next
<1>1. wire /= NoRequest /\ wire' = NoRequest /\ UNCHANGED <<ordered, line>>
  BY DEF ReceiverReads, editorVars
<1>2. receiver' = receiver \/ (wire.driver = receiver.driver /\ receiver' = Owner!Obeyed)
  BY DEF ReceiverReads, Owner!Obeyed
<1>. QED
  BY <1>1, <1>2 DEF Owner!Next, Owner!Hear, Owner!Idle

\* Every step of the console is one of the device, or none of its business.
LEMMA DeviceStep ==
    ASSUME DeviceInv, EditorInv, [ConsoleNext]_consoleVars
    PROVE  [Owner!Next]_Owner!vars
<1>0. receiver \in [driver : Receivers, speed : Speeds, textual : BOOLEAN]
  BY DEF DeviceInv, ControlTypeOK
<1>1. ASSUME UNCHANGED <<receiver, wire, ordered, line>>
      PROVE  [Owner!Next]_Owner!vars
  BY <1>1 DEF Owner!vars
<1>2. CASE Start \/ Continue \/ Ended \/ UNCHANGED consoleVars
  BY <1>1, <1>2 DEF Start, Continue, ModeAsked, SpeedAsked, Ended, consoleVars, controlVars,
                    editorVars, cable, history
<1>3. CASE Key \/ ReadLine
  <2>1. line = <<>> /\ UNCHANGED <<receiver, wire, ordered>>
    BY <1>3 DEF Key, Character, OtherKey, Return, ControlL, Finish, ReadLine, PlainLine,
                NoLine, controlVars, cable, history
  <2>2. CASE line' = <<>>
    BY <1>1, <2>1, <2>2
  <2>3. CASE line' /= <<>>
    BY <2>1, <2>3 DEF Owner!Next, Owner!Type, Owner!NoOrder
  <2>. QED
    BY <2>2, <2>3
<1>4. CASE Execute
  BY <1>4, OrderStep
<1>5. CASE Poll
  <2>1. CASE (Decode \/ Hunt \/ Leave) /\ UNCHANGED editorVars
    BY <1>1, <2>1 DEF Decode, Hunt, Leave, editorVars, cable, history
  <2>2. CASE Probe /\ UNCHANGED editorVars
    <3>1. /\ ordered /\ wire = NoRequest /\ UNCHANGED <<wire, ordered, line>>
      BY <2>2 DEF Probe, Ready, DeviceInv, ControlTypeOK, ProbingIsOrdered, editorVars
    <3>2. PICK textual \in {receiver.textual, FALSE} :
              receiver' = [receiver EXCEPT !.textual = textual]
      BY <2>2 DEF Probe
    <3>3. CASE textual = receiver.textual
      <4>1. receiver' = receiver
        BY <1>0, <3>2, <3>3
      <4>. QED
        BY <1>1, <3>1, <4>1
    <3>4. CASE textual = FALSE
      BY <3>1, <3>2, <3>4 DEF Owner!Next, Owner!Probe, Owner!Idle
    <3>. QED
      BY <3>2, <3>3, <3>4
  <2>. QED
    BY <1>5, <2>1, <2>2 DEF Poll
<1>6. CASE ReceiverReads /\ UNCHANGED editorVars
  BY <1>6, HearStep
<1>. QED
  BY <1>2, <1>3, <1>4, <1>5, <1>6 DEF ConsoleNext

\* For any drivers, methods, speeds, texts and size of the buffer: the receiver does
\* what its owner ordered.
THEOREM DeviceImplemented == ConsoleSpec => ImplementsDevice
<1>1. ConsoleInit => Owner!Init
  BY DEF ConsoleInit, ControlInit, EditorInit, NoLine, Owner!Init, Owner!Idle, Owner!NoOrder
<1>2. DeviceInv /\ EditorInv /\ [ConsoleNext]_consoleVars => [Owner!Next]_Owner!vars
  BY DeviceStep
<1>3. ControlSpec => []DeviceInv
  <2>1. ControlTypeOK /\ ProbingIsOrdered => DeviceInv
    BY DEF DeviceInv
  <2>. QED
    BY <2>1, ControlTypes, ProbingOrdered, PTL
<1>. QED
  BY <1>1, <1>2, <1>3, ControlPart, EditorHolds, PTL DEF ConsoleSpec, ImplementsDevice, Owner!Spec

-----------------------------------------------------------------------------
(* The extent of the overrun *)

\* Keys without which input[] is not full.
LEMMA FullAfter ==
    ASSUME NEW text \in Seq(Characters)
    PROVE  /\ Len(Collected(text)) = BufSize <=> Len(text) >= BufSize
           /\ Len(text) \in Nat /\ BufSize \in Nat /\ BufSize > 1
<1>1. BufSize \in Nat /\ BufSize > 1 /\ Len(text) \in Nat
  BY BufSizeAssumption
<1>2. Len(Collected(text)) = Min2(Len(text), BufSize)
  BY CollectedType
<1>. QED
  BY <1>1, <1>2 DEF Min2

LEMMA OverrunStep ==
    ASSUME EditorInv, Key
    PROVE  Overrun <=> Len(typed') >= BufSize
<1>0. /\ line = NoLine /\ input = Collected(typed) /\ typed \in Seq(Characters)
      /\ Len(<<>>) = 0
  BY DEF Key, Character, OtherKey, Return, ControlL, Finish, EditorInv, EditorTypeOK
<1>1. Len(input) = BufSize <=> Len(typed) >= BufSize
  BY <1>0, FullAfter
<1>2. CASE Character
  <2>1. typed' \in Seq(Characters) /\ input' = Collected(typed')
    BY <1>2, TypedKey
  <2>2. Len(input') = BufSize <=> Len(typed') >= BufSize
    BY <2>1, FullAfter
  <2>3. Len(typed') > Len(typed)
    <3>1. PICK text \in Texts : /\ Len(typed) < Len(text)
                                /\ typed' = Append(typed, text[Len(typed) + 1])
      BY <1>2 DEF Character
    <3>. QED
      BY <1>0, <3>1
  <2>4. Len(typed) \in Nat /\ Len(typed') \in Nat /\ BufSize \in Nat
    BY <1>0, <2>1, FullAfter
  <2>. QED
    BY <1>1, <2>2, <2>3, <2>4 DEF Overrun
<1>3. CASE Return \/ ControlL
  <2>1. typed' = typed /\ input' = <<>>
    BY <1>3 DEF Return, ControlL, Finish
  <2>2. BufSize /= 0
    BY BufSizeAssumption
  <2>. QED
    BY <1>0, <1>1, <2>1, <2>2 DEF Overrun
<1>4. CASE OtherKey
  BY <1>1, <1>4 DEF OtherKey, editorVars, Overrun
<1>. QED
  BY <1>2, <1>3, <1>4 DEF Key

\* Under curses the line that runs is all of what was typed if that fits.
LineIsWhole == line /= NoLine /\ curses /\ Len(typed) < BufSize => line = typed

\* For any texts and any size of the buffers: a key writes or looks behind input[] if
\* and only if BufSize characters or more were typed since the last command, and
\* a shorter line runs uncut (curses_get_command() 577-629, sizeof(input) 80).
THEOREM OverrunExactly ==
    ConsoleSpec => /\ [][Key => (Overrun <=> Len(typed') >= BufSize)]_consoleVars
                   /\ []LineIsWhole
<1>1. EditorInv /\ [ConsoleNext]_consoleVars =>
          [Key => (Overrun <=> Len(typed') >= BufSize)]_consoleVars
  BY OverrunStep
<1>2. EditorInv => LineIsWhole
  <2>. SUFFICES ASSUME EditorInv, line /= NoLine, curses, Len(typed) < BufSize
                PROVE  line = typed
    BY DEF LineIsWhole
  <2>1. typed \in Seq(Characters) /\ flushed = 0 /\ line = Copied(Kept(typed, flushed))
    BY DEF EditorInv, EditorTypeOK
  <2>2. Kept(typed, flushed) = typed
    BY <2>1 DEF Kept
  <2>. QED
    BY <2>1, <2>2, CopiedType
<1>. QED
  BY <1>1, <1>2, EditorHolds, PTL DEF ConsoleSpec
=============================================================================
