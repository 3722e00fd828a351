------------------------------ MODULE Startup ------------------------------
(***************************************************************************)
(* main() of gpsmon.c up to its main loop: the options, one at a time, then *)
(* the source is opened.  What is decided here stays in force: which driver *)
(* -t made the fallback, whether the source is a local device, whether a    *)
(* PPS thread runs beside main(), and that probing is off.  The log that -l *)
(* opens is in Gpsmon.                                                     *)
(***************************************************************************)
EXTENDS Integers, Sequences, FiniteSets

CONSTANTS
    Monitors,       \* the drivers in monitor_objects
    TypeOptions,    \* the monitors whose name the argument of a -t may begin
    SourceTypes,    \* what kinds of source may be named
    MaxOptions      \* most options on a command line

None == "NULL"

Devices == {"SOURCE_RS232", "SOURCE_USB", "SOURCE_ACM", "SOURCE_BLUETOOTH",
            "SOURCE_CAN", "SOURCE_PTY", "SOURCE_PIPE"}
Servers == {"SOURCE_TCP", "SOURCE_UDP", "SOURCE_GPSD"}

ASSUME MonitorsAssumption == None \notin Monitors /\ IsFiniteSet(Monitors)
ASSUME TypeOptionsAssumption == TypeOptions \subseteq SUBSET Monitors
ASSUME SourceTypesAssumption == SourceTypes \subseteq Devices \cup Servers
ASSUME MaxOptionsAssumption == MaxOptions \in Nat

VARIABLES
    phase,      \* "options", "running" or "exited"
    given,      \* options read so far
    matches,    \* drivers matched by all -t options together
    fallback,   \* the driver asked before session.device_type, or NULL
    named,      \* history: the monitors that each -t option matched
    nmea,       \* -n was given
    curses,     \* -a was not given, and windows could be made
    serial,     \* the source is a local device
    ppsThread,  \* pps_thread_activate() was called
    watch,      \* what the gpsd server was asked to send
    readonly    \* context.readonly: gpsd must not write to the device

options == <<matches, named, nmea>>
opened == <<serial, ppsThread, watch>>
startupVars == <<phase, given, options, fallback, curses, opened, readonly>>

-----------------------------------------------------------------------------
NextOption == phase = "options" /\ given < MaxOptions /\ given' = given + 1

\* -a
NoCurses ==
    /\ NextOption
    /\ curses' = FALSE
    /\ UNCHANGED <<phase, options, fallback, opened, readonly>>

\* -n
ForceNMEA ==
    /\ NextOption
    /\ nmea' = TRUE
    /\ UNCHANGED <<phase, matches, named, fallback, curses, opened, readonly>>

\* Mutation of ForceType: the matches of each option are counted anew, and only
\* to see whether there are too many.
ForceTypeCountsAnew ==
    /\ NextOption
    /\ \E m \in TypeOptions :
          /\ named' = Append(named, m)
          /\ matches' = Cardinality(m)
          /\ fallback' \in IF m = {} THEN {fallback} ELSE m
          /\ phase' = IF matches' <= 1 THEN phase ELSE "exited"
    /\ UNCHANGED <<nmea, curses, opened, readonly>>

\* -t: matches is not reset, so that a second name that matches is one too many,
\* and a second one that does not match passes, and leaves no fallback.
ForceType ==
    /\ NextOption
    /\ \E m \in TypeOptions :
          /\ named' = Append(named, m)
          /\ matches' = matches + Cardinality(m)
          /\ fallback' \in IF m = {} THEN {None} ELSE m
          /\ phase' = IF matches' = 1 THEN phase ELSE "exited"
    /\ UNCHANGED <<nmea, curses, opened, readonly>>

\* -h, -L, -V, an unknown option, or -l with a file that cannot be written.
ExitOption ==
    /\ NextOption
    /\ phase' = "exited"
    /\ UNCHANGED <<options, fallback, curses, opened, readonly>>

\* Mutation of Open: any local device gets a PPS thread, and so does a server.
OpenAlwaysPPS ==
    /\ phase = "options"
    /\ \E type \in SourceTypes :
          /\ serial' = (type \in Devices)
          /\ ppsThread' = TRUE
          /\ watch' = IF serial' THEN "none" ELSE IF nmea THEN "nmea" ELSE "raw"
    /\ phase' = "running" /\ readonly' = TRUE
    /\ UNCHANGED <<given, options, fallback, curses>>

\* gpsd_source_spec(), gpsd_activate(), and what follows up to the main loop.
Open ==
    /\ phase = "options"
    /\ \E type \in SourceTypes :
          /\ serial' = (type \in Devices)
          /\ ppsThread' = (type \in {"SOURCE_RS232", "SOURCE_USB", "SOURCE_ACM"})
          /\ watch' = IF serial' THEN "none" ELSE IF nmea THEN "nmea" ELSE "raw"
    /\ phase' = "running" /\ readonly' = TRUE
    /\ UNCHANGED <<given, options, fallback, curses>>

\* The source cannot be opened, or the windows cannot be made.
FailToOpen ==
    /\ phase = "options"
    /\ phase' = "exited"
    /\ UNCHANGED <<given, options, fallback, curses, opened, readonly>>

StartupInit ==
    /\ phase = "options" /\ given = 0
    /\ matches = 0 /\ fallback = None /\ named = <<>>
    /\ nmea = FALSE /\ curses = TRUE
    /\ serial = FALSE /\ ppsThread = FALSE /\ watch = "none"
    /\ readonly = FALSE

StartupNext ==
    NoCurses \/ ForceNMEA \/ ForceType \/ ExitOption \/ Open \/ FailToOpen

-----------------------------------------------------------------------------
\* The types, drivers being those that may become the fallback later.
StartupTypeOK(drivers) ==
    /\ phase \in {"options", "running", "exited"} /\ given \in Nat /\ matches \in Nat
    /\ fallback \in drivers \cup {None} /\ named \in Seq(SUBSET Monitors)
    /\ nmea \in BOOLEAN /\ curses \in BOOLEAN /\ serial \in BOOLEAN
    /\ ppsThread \in BOOLEAN /\ readonly \in BOOLEAN
    /\ watch \in {"none", "raw", "nmea"}

\* The command line is accepted only if all its -t options together match one
\* driver, and that is the fallback only if the last of them matched it.
OneTypeOption ==
    phase = "options" =>
        \/ named = <<>> /\ fallback = None
        \/ \E i \in DOMAIN named, d \in Monitors :
              /\ named[i] = {d}
              /\ \A j \in DOMAIN named \ {i} : named[j] = {}
              /\ fallback = IF i = Len(named) THEN d ELSE None
=============================================================================
