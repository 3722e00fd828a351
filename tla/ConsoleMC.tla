----------------------------- MODULE ConsoleMC -----------------------------
(* The drivers, names and lines with which TLC checks Console. *)
EXTENDS Console

\* driver_ubx and driver_json_passthrough have monitors; driver_sirf can do as much
\* as driver_ubx, the generic NMEA driver switches nothing.
MCMonitors == {"ubx", "json"}
MCDrivers == MCMonitors \cup {"sirf", "nmea"}
MCMethods == [d \in MCDrivers |->
    IF d \in {"ubx", "sirf"} THEN MethodNames ELSE IF d = "nmea" THEN {"control_send"} ELSE {}]
MCPacketType == [d \in MCDrivers |->
    CASE d = "ubx" -> 11 [] d = "json" -> JSON_PACKET [] d = "sirf" -> 4 [] d = "nmea" -> NMEA_PACKET]

\* No monitor, one, or both begin with what -t says.
MCTypeOptions == SUBSET MCMonitors
MCFragments == {{}, {"ubx"}, {"sirf"}, MCDrivers}
MCReceivers == {"ubx", "sirf"}
MCSourceTypes == {"SOURCE_USB", "SOURCE_TCP"}

Blanks(n) == [i \in 1 .. n |-> Blank]
\* Arguments of i and n up to the blank that makes a difference, a line one
\* character longer than the buffer, and the other letters.
MCTexts ==
    {<<letter>> \o Blanks(n) \o <<digit>> : letter \in {"i", "n"}, n \in {0, 2, 3}, digit \in {"0", "1"}}
    \cup {<<"i", "2">>, <<"z", "z", "z", "z", "z", "z", "z">>}
    \cup {<<letter>> : letter \in {"c", "s", "t", "x", "X", "q"}}
=============================================================================
