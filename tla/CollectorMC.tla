---------------------------- MODULE CollectorMC ----------------------------
EXTENDS Collector, TLC
MCScreens == {[rows |-> 20, cols |-> 80], [rows |-> 24, cols |-> 80],
              [rows |-> 19, cols |-> 80], [rows |-> 24, cols |-> 79],
              [rows |-> 1, cols |-> 80]}
MCArrivals == {<<"UBX", "ubx">>, <<"JSON", "json">>, <<"NMEA", "ubx">>,
               <<"OTHER", "ubx">>}
\* Addresses are interchangeable, and every property of the run is a safety one.
MCSymmetry == Permutations(Windows)
=============================================================================
