-------------------------- MODULE UbxMonitorProofs --------------------------
(***************************************************************************)
(* What ubx_update() shows and stores is what the receiver sent, for every *)
(* size of a byte, height of the pane, report, coordinate and time.        *)
(***************************************************************************)
EXTENDS UbxMonitor, TLAPS

-----------------------------------------------------------------------------
(* Words *)

LEMMA DivMod ==
    ASSUME NEW a \in Int, NEW b \in Nat \ {0}
    PROVE  a = b * (a \div b) + (a % b) /\ a % b \in 0 .. b - 1 /\ a \div b \in Int
  BY SMT

\* A quotient has the range of its dividend, divided.
LEMMA DivRange ==
    ASSUME NEW a \in Int, NEW b \in Nat \ {0}, NEW n \in Int,
           -(n * b) <= a, a < n * b
    PROVE  -n <= a \div b /\ a \div b < n
<1> DEFINE q == a \div b
           r == a % b
<1>1. a = b * q + r /\ r \in 0 .. b - 1 /\ q \in Int
  BY DivMod
<1> HIDE DEF q, r
<1>2. b * q < b * n
  BY <1>1
<1>3. q < n
  BY <1>1, <1>2
<1>4. b * (-n) < b * (q + 1)
  BY <1>1
<1>5. -n < q + 1
  BY <1>1, <1>4
<1> QED BY <1>1, <1>3, <1>5 DEF q

\* A byte read as a signed number is the number it was made of.
LEMMA SignedByte ==
    ASSUME NEW q \in Int, -Half <= q, q < Half
    PROVE  LET byte == q % Base IN q = IF 2 * byte >= Base THEN byte - Base ELSE byte
<1>1. Base = 2 * Half /\ Half \in Nat /\ Base \in Nat \ {0}
  BY BaseAssumption DEF Half
<1>2. q = Base * (q \div Base) + (q % Base) /\ q % Base \in 0 .. Base - 1 /\ q \div Base \in Int
  BY <1>1, DivMod
<1> DEFINE k == q \div Base
           byte == q % Base
<1> HIDE DEF k, byte
<1>3. q = Base * k + byte /\ byte \in 0 .. Base - 1 /\ k \in Int
  BY <1>2 DEF k, byte
<1>4. k < 1
  <2> SUFFICES ASSUME k >= 1 PROVE FALSE
    BY <1>3
  <2>1. Base * k >= Base
    BY <1>1, <1>3
  <2> QED BY <1>1, <1>3, <2>1
<1>5. k > -2
  <2> SUFFICES ASSUME k <= -2 PROVE FALSE
    BY <1>3
  <2>1. Base * k <= Base * (-2)
    BY <1>1, <1>3
  <2> QED BY <1>1, <1>3, <2>1
<1>6. k = 0 \/ k = -1
  BY <1>3, <1>4, <1>5
<1>7. (k = 0 => q = byte) /\ (k = -1 => q = byte - Base)
  BY <1>1, <1>3
<1>8. q = IF 2 * byte >= Base THEN byte - Base ELSE byte
  BY <1>1, <1>3, <1>6, <1>7
<1> QED BY <1>8 DEF byte

\* getles32 (bits.h:37) of the four bytes of an integer is that integer, whatever
\* its sign and for bytes of any even number of values.
THEOREM WordIsRead == \A v \in Signed : getles32(Word(v), 0) = v
<1> SUFFICES ASSUME NEW v \in Signed PROVE getles32(Word(v), 0) = v
  OBVIOUS
<1>1. Base \in Nat \ {0} /\ Half \in Nat
  BY BaseAssumption DEF Half
<1>2. v \in Int /\ -(((Half * Base) * Base) * Base) <= v /\ v < ((Half * Base) * Base) * Base
  BY <1>1 DEF Signed, Cube
<1> DEFINE n1 == (Half * Base) * Base
           n2 == Half * Base
<1>3. n1 \in Int /\ n2 \in Int /\ n1 = n2 * Base
  BY <1>1
<1> DEFINE q1 == v \div Base
<1>4. v = Base * q1 + (v % Base) /\ q1 \in Int /\ v % Base \in Int
  BY <1>1, <1>2, DivMod
<1>5. -n1 <= q1 /\ q1 < n1
  BY <1>1, <1>2, <1>3, DivRange
<1> HIDE DEF q1
<1> DEFINE q2 == q1 \div Base
<1>6. q1 = Base * q2 + (q1 % Base) /\ q2 \in Int /\ q1 % Base \in Int
  <2>1. q1 \in Int
    BY <1>4
  <2> QED BY <1>1, <2>1, DivMod
<1>7. -n2 <= q2 /\ q2 < n2
  BY <1>1, <1>3, <1>4, <1>5, DivRange
<1> HIDE DEF q2
<1> DEFINE q3 == q2 \div Base
<1>8. q2 = Base * q3 + (q2 % Base) /\ q3 \in Int /\ q2 % Base \in Int
  <2>1. q2 \in Int
    BY <1>6
  <2> QED BY <1>1, <2>1, DivMod
<1>9. -Half <= q3 /\ q3 < Half
  <2>1. q2 \in Int
    BY <1>6
  <2> QED BY <1>1, <1>7, <2>1, DivRange
<1> HIDE DEF q3
<1>10. q3 = IF 2 * (q3 % Base) >= Base THEN (q3 % Base) - Base ELSE q3 % Base
  BY <1>8, <1>9, SignedByte
<1>11. /\ Word(v)[0] = v % Base /\ Word(v)[1] = q1 % Base
       /\ Word(v)[2] = q2 % Base /\ Word(v)[3] = q3 % Base
  BY DEF Word, q1, q2, q3
<1>12. getles16(Word(v), 2) = q3 * Base + (q2 % Base)
  BY <1>10, <1>11 DEF getles16, getsb, getub
<1>13. getleu16(Word(v), 0) = (q1 % Base) * Base + (v % Base)
  BY <1>11 DEF getleu16, getub
<1>14. getles16(Word(v), 2) = q2
  BY <1>1, <1>8, <1>12
<1>15. getles32(Word(v), 0) = (q2 * Base) * Base + ((q1 % Base) * Base + (v % Base))
  BY <1>13, <1>14 DEF getles32
<1>16. (q2 * Base) * Base + (q1 % Base) * Base = q1 * Base
  <2>1. (q2 * Base) * Base + (q1 % Base) * Base = (q2 * Base + (q1 % Base)) * Base
    BY <1>1, <1>6
  <2> QED BY <1>1, <1>6, <2>1
<1> QED BY <1>1, <1>4, <1>6, <1>15, <1>16

-----------------------------------------------------------------------------
(* Numbers of satellites *)

\* The satellites of a system.
Known(g, p) ==
    \/ g = GPS /\ p \in 1..32
    \/ g = SBAS /\ p \in 120..158
    \/ g = GAL /\ p \in 1..36
    \/ g = BD /\ p \in 1..37
    \/ g = IMES /\ p \in 1..10
    \/ g = QZSS /\ p \in 1..10
    \/ g = GLO /\ (p \in 1..32 \/ p = 255)

\* Those NAV-SVINFO has no number for.
Newer(g, p) ==
    \/ g = BD /\ p \in 38..63
    \/ g = IRNSS /\ p \in 1..11

LEMMA SatelliteCases ==
    ASSUME NEW s \in Satellites
    PROVE  \E g, p \in Int : s = <<g, p>> /\ (Known(g, p) \/ Newer(g, p))
<1>1. \/ s \in {GPS} \X (1..32) \/ s \in {SBAS} \X (120..158)
      \/ s \in {GAL} \X (1..36) \/ s \in {BD} \X (1..63)
      \/ s \in {IMES} \X (1..10) \/ s \in {QZSS} \X (1..10)
      \/ s \in {GLO} \X ((1..32) \cup {255}) \/ s \in {IRNSS} \X (1..11)
  BY Zenon DEF Satellites
<1>2. /\ {GPS, SBAS, GAL, BD, IMES, QZSS, GLO, IRNSS} \subseteq Int
      /\ \A n \in 1..255 : n \in Int
  BY DEF GPS, SBAS, GAL, BD, IMES, QZSS, GLO, IRNSS
<1> QED BY <1>1, <1>2, SMT DEF Known, Newer

LEMMA SvinfoSatelliteCases ==
    ASSUME NEW s \in SvinfoSatellites
    PROVE  \E g, p \in Int : s = <<g, p>> /\ Known(g, p)
<1>1. s \in Satellites /\ s[1] /= IRNSS /\ (s[1] = BD => s[2] <= 37)
  BY DEF SvinfoSatellites
<1>2. PICK g, p \in Int : s = <<g, p>> /\ (Known(g, p) \/ Newer(g, p))
  BY <1>1, SatelliteCases
<1>3. s[1] = g /\ s[2] = p
  BY <1>2
<1>4. Known(g, p)
  BY <1>1, <1>2, <1>3 DEF Newer
<1> QED BY <1>2, <1>4

Numbered(g, p, n) ==
    \E r \in Ranges : r[1] = g /\ r[2] <= p /\ p <= r[3] /\ n = r[4] + (p - r[2])

\* The numbers of NAV-SVINFO, range by range.
LEMMA NumberCases ==
    ASSUME NEW g \in Int, NEW p \in Int, NEW n \in Int
    PROVE  Numbered(g, p, n)
           <=> \/ g = GPS /\ p \in 1..32 /\ n = p
               \/ g = BD /\ p \in 6..37 /\ n = p + 27
               \/ g = GLO /\ p \in 1..32 /\ n = p + 64
               \/ g = SBAS /\ p \in 120..158 /\ n = p
               \/ g = BD /\ p \in 1..5 /\ n = p + 158
               \/ g = IMES /\ p \in 1..10 /\ n = p + 172
               \/ g = QZSS /\ p \in 1..10 /\ n = p + 192
               \/ g = GAL /\ p \in 1..36 /\ n = p + 210
               \/ g = GLO /\ p = 255 /\ n = p
  BY SMT DEF Numbered, Ranges, GPS, SBAS, GAL, BD, IMES, QZSS, GLO

\* display_nav_sat() gives a satellite the number NAV-SVINFO has for it, if any.
THEOREM TranslateIsSvinfo ==
    \A s \in SvinfoSatellites : Translate(s[1], s[2]) = SvinfoNumber(s) /\ SvinfoNumber(s) \in 1..255
<1> SUFFICES ASSUME NEW s \in SvinfoSatellites
             PROVE  Translate(s[1], s[2]) = SvinfoNumber(s) /\ SvinfoNumber(s) \in 1..255
  OBVIOUS
<1> DEFINE t == Translate(s[1], s[2])
<1>1. PICK g, p \in Int : s = <<g, p>> /\ Known(g, p)
  BY SvinfoSatelliteCases
<1>2. t \in 1..255
  BY <1>1 DEF Known, Translate, GPS, SBAS, GAL, BD, IMES, QZSS, GLO
<1>3. \A n \in 1..255 : Numbered(g, p, n) <=> n = t
  BY <1>1, NumberCases DEF Known, Translate, GPS, SBAS, GAL, BD, IMES, QZSS, GLO
<1>4. SvinfoNumber(s) = CHOOSE n \in 1..255 : Numbered(g, p, n)
  <2>1. s[1] = g /\ s[2] = p
    BY <1>1
  <2> QED BY <2>1, Zenon DEF SvinfoNumber, Numbered
<1> HIDE DEF t
<1>5. SvinfoNumber(s) \in 1..255 /\ Numbered(g, p, SvinfoNumber(s))
  BY <1>2, <1>3, <1>4
<1>6. SvinfoNumber(s) = t
  BY <1>3, <1>5
<1> QED BY <1>5, <1>6 DEF t

\* A number fits its column.
LEMMA TranslateRange ==
    ASSUME NEW s \in Satellites
    PROVE  Translate(s[1], s[2]) \in 0..255
<1>1. PICK g, p \in Int : s = <<g, p>> /\ (Known(g, p) \/ Newer(g, p))
  BY SatelliteCases
<1> QED
  BY <1>1 DEF Known, Newer, Translate, GPS, SBAS, GAL, BD, IMES, QZSS, GLO, IRNSS

-----------------------------------------------------------------------------
(* Lines and columns *)

\* Each message's mask finds the bit that message has for used.
LEMMA UsedIsRead ==
    ASSUME NEW r \in Report
    PROVE  /\ IsSet(SvinfoFlags(r), UBX_SAT_USED) = r.used
           /\ IsSet(SatFlags(r), UBX_SAT_USED * 8) = r.used
<1>1. r.used \in BOOLEAN /\ r.other \in BOOLEAN
  BY DEF Report
<1>2. Bit(r.other) \in {0, 1}
  BY DEF Bit
<1>3. CASE r.used = TRUE
  <2>1. SvinfoFlags(r) = 1 + 8 * Bit(r.other) /\ SatFlags(r) = 8 + Bit(r.other)
    BY <1>2, <1>3 DEF SvinfoFlags, SatFlags, Bit
  <2>2. IsSet(SvinfoFlags(r), 1) /\ IsSet(SatFlags(r), 8)
    BY <1>2, <2>1 DEF IsSet
  <2>3. UBX_SAT_USED = 1 /\ UBX_SAT_USED * 8 = 8
    BY DEF UBX_SAT_USED
  <2>4. IsSet(SvinfoFlags(r), 1) \in BOOLEAN /\ IsSet(SatFlags(r), 8) \in BOOLEAN
    BY DEF IsSet
  <2> QED BY <1>3, <2>2, <2>3, <2>4, Zenon
<1>4. CASE r.used = FALSE
  <2>1. SvinfoFlags(r) = 8 * Bit(r.other) /\ SatFlags(r) = Bit(r.other)
    BY <1>2, <1>4 DEF SvinfoFlags, SatFlags, Bit
  <2>2. ~IsSet(SvinfoFlags(r), 1) /\ ~IsSet(SatFlags(r), 8)
    BY <1>2, <2>1 DEF IsSet
  <2>3. UBX_SAT_USED = 1 /\ UBX_SAT_USED * 8 = 8
    BY DEF UBX_SAT_USED
  <2>4. IsSet(SvinfoFlags(r), 1) \in BOOLEAN /\ IsSet(SatFlags(r), 8) \in BOOLEAN
    BY DEF IsSet
  <2> QED BY <1>4, <2>2, <2>3, <2>4, Zenon
<1> QED BY <1>1, <1>3, <1>4

\* What a line has to say of a satellite.
Says(line, r) ==
    /\ line \in [prn : 0..255, used : BOOLEAN]
    /\ line.used = r.used
    /\ r.sat \in SvinfoSatellites => line.prn = SvinfoNumber(r.sat)

\* A line says the same in both messages.
LEMMA LineIsReport ==
    ASSUME NEW r \in Report
    PROVE  /\ Says(SatLine(r), r)
           /\ r.sat \in SvinfoSatellites => Says(SvinfoLine(r), r)
<1>1. r.sat \in Satellites /\ r.used \in BOOLEAN
  BY DEF Report
<1>2. r.sat \in SvinfoSatellites =>
         Translate(r.sat[1], r.sat[2]) = SvinfoNumber(r.sat) /\ SvinfoNumber(r.sat) \in 0..255
  BY TranslateIsSvinfo
<1>3. Translate(r.sat[1], r.sat[2]) \in 0..255
  BY <1>1, TranslateRange
<1>4. SatLine(r) = [prn |-> Translate(r.sat[1], r.sat[2]), used |-> r.used]
  BY UsedIsRead DEF SatLine
<1>5. SvinfoLine(r) = [prn |-> SvinfoNumber(r.sat), used |-> r.used]
  BY UsedIsRead DEF SvinfoLine
<1> QED BY <1>1, <1>2, <1>3, <1>4, <1>5 DEF Says

\* The columns of the row are in range and, together, are the time.
LEMMA TimeIsSplit ==
    ASSUME NEW tow \in Nat
    PROVE  LET t == TimeOfDay(tow)
           IN  /\ t \in TimeType
               /\ (((t.day * 24 + t.h) * 60 + t.m) * 60 + t.s) * 100 + t.cs = tow \div 10
<1> DEFINE t == TimeOfDay(tow)
<1>1. PICK tod \in Nat : tod = tow \div 1000
  OBVIOUS
<1>2. t = [day |-> tod \div 86400, h |-> (tod \div 3600) % 24, m |-> (tod % 3600) \div 60,
           s |-> tod % 60, cs |-> (tow % 1000) \div 10]
  BY <1>1 DEF TimeOfDay
<1>3. t.cs \in 0..99 /\ tow \div 10 = tod * 100 + t.cs
  BY <1>1, <1>2
<1>4. t.s \in 0..59 /\ tod = (tod \div 60) * 60 + t.s
  BY <1>1, <1>2
<1>5. t.m \in 0..59 /\ tod \div 60 = (tod \div 3600) * 60 + t.m
  BY <1>1, <1>2
<1>6. t.h \in 0..23 /\ tod \div 3600 = (tod \div 86400) * 24 + t.h
  BY <1>1, <1>2
<1>7. t.day \in Nat /\ t.day = tod \div 86400
  BY <1>1, <1>2
<1>8. t \in TimeType
  BY <1>2, <1>3, <1>4, <1>5, <1>6, <1>7 DEF TimeType
<1> HIDE DEF t
<1>9. (((t.day * 24 + t.h) * 60 + t.m) * 60 + t.s) * 100 + t.cs = tow \div 10
  BY <1>1, <1>3, <1>4, <1>5, <1>6, <1>7
<1> QED BY <1>8, <1>9 DEF t

-----------------------------------------------------------------------------
(* Invariants *)

UbxInv == UbxTypeOK /\ PaneShowsReport /\ RowIsSolution

\* What display_nav_svinfo() and display_nav_sat() write shows the report.
LEMMA PaneIsWritten ==
    ASSUME NEW report \in Seq(Report),
           DOMAIN pane' = 1..MAXSKYCHANS, pane' = [i \in DOMAIN pane' |-> pane'[i]],
           \A i \in 1..MAXSKYCHANS :
              IF i <= Len(report) THEN Says(pane'[i], report[i]) ELSE pane'[i] = Blank,
           reported' = report
    PROVE  PaneShowsReport' /\ pane' \in [1..MAXSKYCHANS -> [prn : 0..255, used : BOOLEAN]]
<1>1. PaneShowsReport'
  BY Zenon DEF PaneShowsReport, Says
<1>2. ASSUME NEW i \in 1..MAXSKYCHANS PROVE pane'[i] \in [prn : 0..255, used : BOOLEAN]
  <2>1. CASE i <= Len(report)
    BY <2>1 DEF Says
  <2>2. CASE ~(i <= Len(report))
    <3>1. pane'[i] = Blank
      BY <2>2, Zenon
    <3> QED BY <3>1 DEF Blank
  <2> QED BY <2>1, <2>2
<1> QED BY <1>1, <1>2

LEMMA UbxInitInv == UbxInit => UbxInv
<1> SUFFICES ASSUME UbxInit PROVE UbxInv
  OBVIOUS
<1> USE DEF UbxInit
<1>1. TimeOfDay(0) \in TimeType
  BY TimeIsSplit
<1>2. 0 \in Signed
  BY BaseAssumption DEF Signed, Half, Cube
<1>3. Blank \in [prn : 0..255, used : BOOLEAN]
  BY DEF Blank
<1>4. UbxTypeOK
  BY <1>1, <1>2, <1>3 DEF UbxTypeOK
<1>5. PaneShowsReport
  BY MAXSKYCHANSAssumption DEF PaneShowsReport
<1>6. RowIsSolution
  BY TimeIsSplit DEF RowIsSolution
<1> QED BY <1>4, <1>5, <1>6 DEF UbxInv

LEMMA UbxStepInv == UbxInv /\ [UbxNext]_ubxVars => UbxInv'
<1> SUFFICES ASSUME UbxInv, [UbxNext]_ubxVars PROVE UbxInv'
  OBVIOUS
<1> USE DEF UbxInv
<1>1. CASE NavSvinfo
  <2>1. PICK report \in Reports : display_nav_svinfo(report) /\ reported' = report
                    /\ \A i \in DOMAIN report : report[i].sat \in SvinfoSatellites
    BY <1>1 DEF NavSvinfo
  <2>2. report \in Seq(Report)
    BY ReportsAssumption
  <2>3. DOMAIN pane' = 1..MAXSKYCHANS /\ pane' = [i \in DOMAIN pane' |-> pane'[i]]
    BY <2>1 DEF display_nav_svinfo
  <2>4. ASSUME NEW i \in 1..MAXSKYCHANS
        PROVE  IF i <= Len(report) THEN Says(pane'[i], report[i]) ELSE pane'[i] = Blank
    <3>1. pane'[i] = IF i <= Len(report) THEN SvinfoLine(report[i]) ELSE Blank
      BY <2>1 DEF display_nav_svinfo
    <3>2. i <= Len(report) => i \in DOMAIN report /\ report[i] \in Report
      BY <2>2, MAXSKYCHANSAssumption
    <3>3. i <= Len(report) => Says(SvinfoLine(report[i]), report[i])
      BY <2>1, <3>2, LineIsReport
    <3> QED BY <3>1, <3>3
  <2>5. PaneShowsReport' /\ pane' \in [1..MAXSKYCHANS -> [prn : 0..255, used : BOOLEAN]]
    BY <2>1, <2>2, <2>3, <2>4, PaneIsWritten
  <2>6. UNCHANGED <<row, solved>>
    BY <1>1 DEF NavSvinfo
  <2>7. UbxTypeOK'
    BY <2>1, <2>2, <2>5, <2>6 DEF UbxTypeOK
  <2>8. RowIsSolution'
    BY <2>6 DEF RowIsSolution
  <2> QED BY <2>5, <2>7, <2>8
<1>2. CASE NavSat
  <2>1. PICK report \in Reports : display_nav_sat(report) /\ reported' = report
    BY <1>2 DEF NavSat
  <2>2. report \in Seq(Report)
    BY ReportsAssumption
  <2>3. DOMAIN pane' = 1..MAXSKYCHANS /\ pane' = [i \in DOMAIN pane' |-> pane'[i]]
    BY <2>1 DEF display_nav_sat
  <2>4. ASSUME NEW i \in 1..MAXSKYCHANS
        PROVE  IF i <= Len(report) THEN Says(pane'[i], report[i]) ELSE pane'[i] = Blank
    <3>1. pane'[i] = IF i <= Len(report) THEN SatLine(report[i]) ELSE Blank
      BY <2>1 DEF display_nav_sat
    <3>2. i <= Len(report) => i \in DOMAIN report /\ report[i] \in Report
      BY <2>2, MAXSKYCHANSAssumption
    <3>3. i <= Len(report) => Says(SatLine(report[i]), report[i])
      BY <2>1, <3>2, LineIsReport
    <3> QED BY <3>1, <3>3
  <2>5. PaneShowsReport' /\ pane' \in [1..MAXSKYCHANS -> [prn : 0..255, used : BOOLEAN]]
    BY <2>1, <2>2, <2>3, <2>4, PaneIsWritten
  <2>6. UNCHANGED <<row, solved>>
    BY <1>2 DEF NavSat
  <2>7. UbxTypeOK'
    BY <2>1, <2>2, <2>5, <2>6 DEF UbxTypeOK
  <2>8. RowIsSolution'
    BY <2>6 DEF RowIsSolution
  <2> QED BY <2>5, <2>7, <2>8
<1>3. CASE NavSol
  <2>1. PICK epx \in Coordinates, tow \in Times, valid \in [week : BOOLEAN, time : BOOLEAN] :
            /\ display_nav_sol(Word(epx), tow, valid)
            /\ solved' = [epx |-> epx, tow |-> IF valid.week \/ valid.time THEN tow ELSE 0,
                          timed |-> valid.time]
    BY <1>3 DEF NavSol
  <2>2. PICK t \in Nat : t = IF valid.week \/ valid.time THEN tow ELSE 0
    BY TimesAssumption
  <2>3. epx \in Signed /\ getles32(Word(epx), 0) = epx
    BY CoordinatesAssumption, WordIsRead
  <2>4. /\ row' = [epx |-> epx, time |-> TimeOfDay(t)]
        /\ solved' = [epx |-> epx, tow |-> t, timed |-> valid.time]
    BY <2>1, <2>2, <2>3 DEF display_nav_sol
  <2>5. UNCHANGED <<pane, reported>>
    BY <1>3 DEF NavSol
  <2>6. UbxTypeOK'
    BY <2>3, <2>4, <2>5, TimeIsSplit DEF UbxTypeOK
  <2>7. PaneShowsReport'
    BY <2>5 DEF PaneShowsReport
  <2>8. RowIsSolution'
    BY <2>4, TimeIsSplit DEF RowIsSolution
  <2> QED BY <2>6, <2>7, <2>8
<1>4. CASE UNCHANGED ubxVars
  BY <1>4 DEF ubxVars, UbxTypeOK, PaneShowsReport, RowIsSolution
<1> QED BY <1>1, <1>2, <1>3, <1>4 DEF UbxNext

\* The types of what the program shows and stores.
THEOREM UbxTypeCorrect == UbxSpec => []UbxTypeOK
  BY UbxInitInv, UbxStepInv, PTL DEF UbxSpec, UbxInv

\* The pane shows the last report, whichever message brought it.
THEOREM PaneCorrect == UbxSpec => []PaneShowsReport
  BY UbxInitInv, UbxStepInv, PTL DEF UbxSpec, UbxInv

\* The row holds the coordinate and the GPS time of week the receiver sent.
THEOREM RowCorrect == UbxSpec => []RowIsSolution
  BY UbxInitInv, UbxStepInv, PTL DEF UbxSpec, UbxInv
=============================================================================
