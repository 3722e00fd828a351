--------------------------- MODULE UbxMonitorMC ---------------------------
(* Values for model checking UbxMonitor. *)
EXTENDS UbxMonitor

\* Satellites at both ends of every range of numbers.
MCEnds == <<<<GPS, 1>>, <<GPS, 32>>, <<SBAS, 120>>, <<SBAS, 158>>, <<GAL, 1>>, <<GAL, 36>>,
            <<BD, 1>>, <<BD, 5>>, <<BD, 6>>, <<BD, 37>>, <<IMES, 1>>, <<IMES, 10>>,
            <<QZSS, 1>>, <<QZSS, 10>>, <<GLO, 1>>, <<GLO, 32>>, <<GLO, 255>>>>
MCReport(used, other) ==
    [i \in DOMAIN MCEnds |-> [sat |-> MCEnds[i], used |-> used, other |-> other]]
\* Satellites that NAV-SVINFO has no number for, with those whose number they get.
MCNumberless == <<<<BD, 38>>, <<GLO, 1>>, <<IRNSS, 11>>, <<GPS, 11>>, <<BD, 63>>, <<GLO, 26>>>>
\* All of them, which is one more than the pane can show; as many as it has
\* lines, from the other end; a few; none; with every combination of flags.
MCReports ==
    LET All == {MCReport(u, o) : u, o \in BOOLEAN}
    IN  All \cup {[i \in 1..16 |-> MCReport(i % 2 = 0, i % 3 = 0)[18 - i]]}
            \cup {SubSeq(r, 1, 2) : r \in All} \cup {<<>>}
            \cup {[i \in DOMAIN MCNumberless |->
                      [sat |-> MCNumberless[i], used |-> TRUE, other |-> FALSE]]}

\* Integers whose bytes are at the ends of their ranges, with Base = 4.
MCCoordinates ==
    {-128, -65, -64, -16, -5, -4, -1, 0, 3, 4, 15, 16, 63, 64, 127}
\* Both sides of every second, minute, hour, day and of the week.
MCTimes == {0, 9, 10, 999, 1000, 59999, 60000, 3599999, 3600000, 86399999, 86400000,
            604799999}
=============================================================================
