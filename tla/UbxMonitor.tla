---------------------------- MODULE UbxMonitor -----------------------------
(***************************************************************************)
(* ubx_update() of monitor_ubx.c: what it makes of the satellites, the     *)
(* coordinates and the time in a message.  A receiver reports satellites   *)
(* in NAV-SVINFO, by one number, or in NAV-SAT, by system and number; the  *)
(* satellite pane shows the first kind of number for both.                 *)
(***************************************************************************)
EXTENDS Bits, Sequences

CONSTANTS
    MAXSKYCHANS,    \* lines of the satellite pane; 16 in the code
    Reports,        \* the lists of satellites a message may hold
    Coordinates,    \* ECEF coordinates, in cm
    Times,          \* times of week of the receiver: GPS time, in ms
    LeapSeconds     \* GPS time less UTC; 18 s since 2017

VARIABLES
    pane,           \* the lines of satwin
    row,            \* coordinate and time of the statement for the last solution
    reported,       \* history: the satellites in the last message about them
    solved          \* history: the last solution, as the receiver meant it

ubxVars == <<pane, row, reported, solved>>

-----------------------------------------------------------------------------
(* The receiver *)

GPS == 0  SBAS == 1  GAL == 2  BD == 3  IMES == 4  QZSS == 5  GLO == 6  IRNSS == 7

\* The satellites a receiver may see (gps.h 2461-2468).  255 is a GLONASS
\* satellite that has not been identified.
Satellites ==
    ({GPS} \X (1..32)) \cup ({SBAS} \X (120..158)) \cup ({GAL} \X (1..36))
    \cup ({BD} \X (1..63)) \cup ({IMES} \X (1..10)) \cup ({QZSS} \X (1..10))
    \cup ({GLO} \X ((1..32) \cup {255})) \cup ({IRNSS} \X (1..11))

\* Those NAV-SVINFO has a number for: it is older than the other satellites of
\* BeiDou and those of NavIC.
SvinfoSatellites ==
    {s \in Satellites : s[1] /= IRNSS /\ (s[1] = BD => s[2] <= 37)}

\* The ranges of NAV-SVINFO numbers: system, first satellite, last, first number.
Ranges == {<<GPS, 1, 32, 1>>, <<BD, 6, 37, 33>>, <<GLO, 1, 32, 65>>, <<SBAS, 120, 158, 120>>,
           <<BD, 1, 5, 159>>, <<IMES, 1, 10, 173>>, <<QZSS, 1, 10, 193>>,
           <<GAL, 1, 36, 211>>, <<GLO, 255, 255, 255>>}

SvinfoNumber(s) ==
    CHOOSE n \in 1..255 :
        \E r \in Ranges : /\ r[1] = s[1] /\ r[2] <= s[2] /\ s[2] <= r[3]
                          /\ n = r[4] + (s[2] - r[2])

Report == [sat : Satellites, used : BOOLEAN, other : BOOLEAN]

ASSUME MAXSKYCHANSAssumption == MAXSKYCHANS \in Nat
ASSUME ReportsAssumption == Reports \subseteq Seq(Report)
ASSUME CoordinatesAssumption == Coordinates \subseteq Signed
ASSUME TimesAssumption == Times \subseteq Nat
ASSUME LeapSecondsAssumption == LeapSeconds \in Nat

Bit(b) == IF b THEN 1 ELSE 0
\* The flags of a satellite: used is bit 0 in NAV-SVINFO, bit 3 in NAV-SAT, and
\* the other of the two bits says something else.
SvinfoFlags(r) == Bit(r.used) + 8 * Bit(r.other)
SatFlags(r) == 8 * Bit(r.used) + Bit(r.other)

-----------------------------------------------------------------------------
(* The program *)

UBX_SAT_USED == 1
IsSet(flags, mask) == (flags \div mask) % 2 = 1
Blank == [prn |-> 0, used |-> FALSE]

\* "Translate sat numbering to the one used in UBX-NAV-SVINFO".
Translate(gnss, prn) ==
    CASE gnss = GAL -> prn + 210
      [] gnss = BD /\ prn <= 5 -> prn + 158
      [] gnss = BD /\ prn >= 6 -> prn + 27
      [] gnss = IMES -> prn + 172
      [] gnss = QZSS -> prn + 192
      [] gnss = GLO /\ prn /= 255 -> prn + 64
      [] OTHER -> prn

SvinfoLine(r) == [prn |-> SvinfoNumber(r.sat),
                  used |-> IsSet(SvinfoFlags(r), UBX_SAT_USED)]
SatLine(r) == [prn |-> Translate(r.sat[1], r.sat[2]),
               used |-> IsSet(SatFlags(r), UBX_SAT_USED * 8)]

\* A line for each satellite, up to the height of the pane; the rest is cleared.
display_nav_svinfo(report) ==
    pane' = [i \in 1..MAXSKYCHANS |-> IF i <= Len(report) THEN SvinfoLine(report[i]) ELSE Blank]

\* Mutation of display_nav_sat: the lines below the last satellite are kept.
display_nav_satKeeps(report) ==
    pane' = [i \in 1..MAXSKYCHANS |-> IF i <= Len(report) THEN SatLine(report[i]) ELSE pane[i]]

display_nav_sat(report) ==
    pane' = [i \in 1..MAXSKYCHANS |-> IF i <= Len(report) THEN SatLine(report[i]) ELSE Blank]

\* Mutation of TimeOfDay: the hour is not reduced to the day.
TimeOfDayRunsOn(tow) ==
    LET tod == tow \div 1000
    IN  [day |-> tod \div 86400, h |-> tod \div 3600,
         m |-> (tod % 3600) \div 60, s |-> tod % 60, cs |-> (tow % 1000) \div 10]

\* The time of week, split for the columns of the row.
TimeOfDay(tow) ==
    LET tod == tow \div 1000
    IN  [day |-> tod \div 86400, h |-> (tod \div 3600) % 24,
         m |-> (tod % 3600) \div 60, s |-> tod % 60, cs |-> (tow % 1000) \div 10]

\* The decoding part of display_nav_sol().  A time counts if the week or the time
\* is valid; without either the row says day 0, 00:00:00.00.
\* epx stands for all the signed words of the message; tow is taken as read.
display_nav_sol(epx, tow, valid) ==
    row' = [epx |-> getles32(epx, 0),
            time |-> TimeOfDay(IF valid.week \/ valid.time THEN tow ELSE 0)]

NavSvinfo ==
    \E report \in Reports :
        /\ \A i \in DOMAIN report : report[i].sat \in SvinfoSatellites
        /\ display_nav_svinfo(report)
        /\ reported' = report
        /\ UNCHANGED <<row, solved>>

NavSat ==
    \E report \in Reports :
        /\ display_nav_sat(report)
        /\ reported' = report
        /\ UNCHANGED <<row, solved>>

NavSol ==
    \E epx \in Coordinates, tow \in Times, valid \in [week : BOOLEAN, time : BOOLEAN] :
        /\ display_nav_sol(Word(epx), tow, valid)
        /\ solved' = [epx |-> epx, tow |-> IF valid.week \/ valid.time THEN tow ELSE 0,
                      timed |-> valid.time]
        /\ UNCHANGED <<pane, reported>>

UbxInit ==
    /\ pane = [i \in 1..MAXSKYCHANS |-> Blank]
    /\ row = [epx |-> 0, time |-> TimeOfDay(0)]
    /\ reported = <<>>
    /\ solved = [epx |-> 0, tow |-> 0, timed |-> FALSE]

\* ubx_update(): one message.
UbxNext == NavSvinfo \/ NavSat \/ NavSol

UbxSpec == UbxInit /\ [][UbxNext]_ubxVars

-----------------------------------------------------------------------------
(* Properties *)

TimeType == [day : Nat, h : 0..23, m : 0..59, s : 0..59, cs : 0..99]

UbxTypeOK ==
    /\ pane \in [1..MAXSKYCHANS -> [prn : 0..255, used : BOOLEAN]]
    /\ row.epx \in Signed /\ row.time \in TimeType
    /\ reported \in Seq(Report)
    /\ solved.epx \in Signed /\ solved.tow \in Nat /\ solved.timed \in BOOLEAN

\* Whichever message reported them, and whatever was shown before, the pane has
\* a line for each satellite of the last report that fits, saying whether it is
\* used and, if NAV-SVINFO has a number for it, that number; and nothing else
\* ("clear potentially stale sat lines", 78 and 140; the two messages differ in
\* numbering and in the bit for used, 75 and 134).
PaneShowsReport ==
    \A i \in 1..MAXSKYCHANS :
        IF i <= Len(reported)
        THEN /\ pane[i].used = reported[i].used
             /\ reported[i].sat \in SvinfoSatellites =>
                   pane[i].prn = SvinfoNumber(reported[i].sat)
        ELSE pane[i] = Blank

\* The row holds the coordinate the receiver sent, whatever its sign and bytes
\* (getles32, bits.h:37), and the receiver's own time to the hundredth of a
\* second: the columns, put together again, are the GPS time of week (221-226,
\* 249-253), which is not UTC.
RowIsSolution ==
    /\ row.epx = solved.epx
    /\ LET t == row.time
       IN  (((t.day * 24 + t.h) * 60 + t.m) * 60 + t.s) * 100 + t.cs = solved.tow \div 10

\* "UTC": "coordinated universal time at the moment of the measurement"
\* (README.md:28 and 45).  If the receiver knew the time, the time of day in the
\* row is that of UTC, which GPS time runs ahead of by the leap seconds.
RowTimeIsUtc ==
    solved.timed =>
        LET t == row.time
        IN  (t.h * 60 + t.m) * 60 + t.s = (solved.tow \div 1000 - LeapSeconds) % 86400
=============================================================================
