----------------------------- MODULE Collector ------------------------------
(***************************************************************************)
(* The path of a packet from gpsmon_hook() to the database: the panel      *)
(* decides whether the ubx monitor sees it, and if it is a NAV-SOL message *)
(* the monitor records it, before the next packet is looked at.            *)
(***************************************************************************)
EXTENDS Display, Recorder

VARIABLE offered    \* history: NAV-SOL messages that gpsd delivered

collectorVars == <<displayVars, recorderVars, offered>>

-----------------------------------------------------------------------------
\* What a packet may hold for the recorder: only a U-Blox one is a NAV-SOL.
Solutions(type) ==
    {"none"} \cup IF type = "UBX" THEN {"fix", "nofix", "short"} ELSE {}

\* Mutation of Hook: the monitor is consulted before the panel has switched.
HookBeforeSwitch(type, driver, sol) ==
    /\ at = "idle"
    /\ Packet(type, driver)
    /\ IF sol /= "none"
       THEN /\ offered < MaxSolutions /\ offered' = offered + 1
            /\ IF active = "ubx" THEN Receive(sol) ELSE UNCHANGED recorderVars
       ELSE UNCHANGED <<recorderVars, offered>>

\* gpsmon_hook() with a packet that holds sol.
Hook(type, driver, sol) ==
    /\ at = "idle"
    /\ Packet(type, driver)
    /\ IF sol /= "none"
       THEN /\ offered < MaxSolutions /\ offered' = offered + 1
            /\ IF handled'.updated THEN Receive(sol) ELSE UNCHANGED recorderVars
       ELSE UNCHANGED <<recorderVars, offered>>

\* A command or a repaint, between two packets.
Between == at = "idle" /\ UNCHANGED <<recorderVars, offered>>

CollectorInit == DisplayInit /\ RecorderInit /\ offered = 0

CollectorNext ==
    \/ (\E a \in Arrivals : \E sol \in Solutions(a[1]) : Hook(a[1], a[2], sol))
    \/ (\E driver \in Forced : ForceType(driver) /\ Between)
    \/ (Repaint /\ Between)
    \/ ((RecorderStep \/ ServerTurns) /\ UNCHANGED <<displayVars, offered>>)
    \/ (Dead /\ UNCHANGED collectorVars)

CollectorSpec == CollectorInit /\ [][CollectorNext]_collectorVars

-----------------------------------------------------------------------------
\* A NAV-SOL message misses the recorder only on a screen too small for the ubx
\* monitor, or after 't' has taken the panel away: the switch comes before the
\* update in the same hook, so even the first message of a session, and the
\* first after other packets, is recorded (select_packet_monitor() 534-567).
NoSilentLoss ==
    [][offered' - solution' > offered - solution => ~Fits("ubx") \/ forced]_collectorVars
=============================================================================
