------------------------------ MODULE Display ------------------------------
(***************************************************************************)
(* The device panel: switch_type() and select_packet_monitor() of gpsmon.c *)
(* with the initialize and wrap methods of the monitors.  Only main()      *)
(* touches windows, so a handler is one step.  Windows are heap objects: a *)
(* freed one may come back under the same address.                         *)
(***************************************************************************)
EXTENDS Integers, Functions

CONSTANTS
    Windows,        \* addresses ncurses may return for a device or satellite window
    Screens,        \* [rows, cols] of the terminals (LINES, COLS)
    Arrivals,       \* <<type, driver>> of the packets gpsd_multipoll() delivers
    Forced,         \* drivers the user may name in a 't' command
    AllocMayFail    \* TRUE if newwin() and derwin() may return NULL

NULL == "NULL"
Screen == "stdscr"      \* the parent of a window that newwin() made

ASSUME WindowsAssumption == NULL \notin Windows /\ Screen \notin Windows
ASSUME ScreensAssumption == Screens \subseteq [rows : Nat \ {0}, cols : Nat]
\* gpsd switches to the U-Blox driver before it delivers a U-Blox packet.
ASSUME ArrivalsAssumption ==
    /\ Arrivals \subseteq {"UBX", "JSON", "NMEA", "OTHER"} \X STRING
    /\ \A a \in Arrivals : a[1] = "UBX" => a[2] = "ubx"
ASSUME AllocMayFailAssumption == AllocMayFail \in BOOLEAN

VARIABLES
    screen,         \* LINES and COLS, set by initscr()
    parent,         \* live windows, each with the window it was derived from
    active,         \* the monitor shown: "none", "ubx" or "json"
    devicewin,      \* the panel of the active monitor, or NULL
    satwin,         \* the satellite window of the ubx monitor; may dangle
    packetwin,      \* the screen rows of the packet window; {} is NULL
    lastType,       \* last_type of select_packet_monitor()
    switchFailed,   \* select_packet_monitor() has set bailout
    handled,        \* history: the last packet, and whether update() saw it
    forced,         \* history: 't' was used since the packet type last changed
    repainted,      \* history: control-L was used with the ubx monitor
    failed          \* history: newwin() or derwin() has returned NULL

windows == <<parent, active, devicewin, satwin, packetwin, failed>>
displayVars == <<windows, screen, lastType, switchFailed, handled, forced, repainted>>

-----------------------------------------------------------------------------
Monitors == {"ubx", "json"}
MinRows(m) == IF m = "ubx" THEN 19 ELSE 0
MinCols == 80
Fits(m) == screen.rows >= MinRows(m) + 1 /\ screen.cols >= MinCols
Sticky == {"ubx"}

\* The rows of newwin(min_y, min_x, 1, 0): no rows at all ask curses for all those
\* below the first, which the panel of the json monitor then has.
PanelRows(m) == 1 .. IF MinRows(m) = 0 THEN screen.rows - 1 ELSE MinRows(m)

\* delwin(w) frees a live window that nothing is derived from, else does nothing.
Delwin(live, w) ==
    IF w \in DOMAIN live /\ \A c \in DOMAIN live : live[c] /= w
    THEN Restrict(live, DOMAIN live \ {w}) ELSE live

\* newwin() or derwin() returned the address w.
Newwin(live, w, from) == [v \in DOMAIN live \cup {w} |-> IF v = w THEN from ELSE live[v]]

\* Mutation of Closed: the panel is deleted before its monitor has wrapped up.
ClosedBeforeWrap ==
    LET gone == IF active = "none" THEN parent ELSE Delwin(parent, devicewin)
    IN  IF active = "ubx" THEN Delwin(gone, satwin) ELSE gone

\* wrap() of the active monitor, then delwin(devicewin).
Closed ==
    LET wrapped == IF active = "ubx" THEN Delwin(parent, satwin) ELSE parent
    IN  IF active = "none" THEN wrapped ELSE Delwin(wrapped, devicewin)

\* Mutation of PacketRows: the packet window starts on the last row of the panel.
PacketRowsOffByOne(m) == MinRows(m) .. screen.rows - 1
\* Mutation of PacketRows: the layout of the monitor shown before.
PacketRowsOfOld(m) == MinRows(active) + 1 .. screen.rows - 1

\* The rows below the panel of monitor m; none if the panel fills the screen.
PacketRows(m) == MinRows(m) + 1 .. screen.rows - 1

-----------------------------------------------------------------------------
(* switch_type() *)

\* Mutation of OpenPanel: the new monitor is not initialized.
OpenPanelBare(m) ==
    /\ PanelRows(m) /= {}
    /\ active' = m
    /\ \E d \in Windows \ DOMAIN Closed :
          devicewin' = d /\ parent' = Newwin(Closed, d, Screen)
    /\ packetwin' = PacketRows(m)
    /\ UNCHANGED <<satwin, failed>>

\* newwin() of the panel and, for ubx, derwin() of the satellite window.
OpenPanel(m) ==
    /\ PanelRows(m) /= {}
    /\ active' = m
    /\ \E d \in Windows \ DOMAIN Closed :
          LET panel == Newwin(Closed, d, Screen)
          IN  /\ devicewin' = d
              /\ \/ m /= "ubx" /\ parent' = panel /\ UNCHANGED satwin
                 \/ /\ m = "ubx"
                    /\ \E s \in Windows \ DOMAIN panel :
                          satwin' = s /\ parent' = Newwin(panel, s, d)
    /\ \/ packetwin' = PacketRows(m) /\ UNCHANGED failed
       \/ AllocMayFail /\ packetwin = {} /\ packetwin' = {} /\ failed' = TRUE

\* "Internal initialization failure": the new monitor is the active one, the
\* packet window stays as it was.
FailPanel(m) ==
    /\ active' = m
    /\ \/ /\ AllocMayFail \/ PanelRows(m) = {}
          /\ devicewin' = NULL /\ parent' = Closed /\ UNCHANGED satwin
       \/ /\ AllocMayFail
          /\ m = "ubx" /\ satwin' = NULL
          /\ \E d \in Windows \ DOMAIN Closed :
                devicewin' = d /\ parent' = Newwin(Closed, d, Screen)
    /\ failed' = TRUE
    /\ UNCHANGED packetwin

\* switch_type() returning TRUE, which it also does when the screen is too small.
SwitchOK(driver) ==
    /\ driver \in Monitors
    /\ IF Fits(driver) THEN OpenPanel(driver) ELSE UNCHANGED windows

\* switch_type() returning FALSE: a failed panel, or a driver with no monitor.
SwitchFails(driver) ==
    IF driver \in Monitors THEN Fits(driver) /\ FailPanel(driver) ELSE UNCHANGED windows

-----------------------------------------------------------------------------
(* What main() does to the panel *)

\* The driver whose monitor a packet calls for.
Wanted(type, driver) == IF type = "NMEA" /\ driver \in Sticky THEN "nmea" ELSE driver

\* Mutation of Packet: last_type is assigned before it is compared.
PacketAssignsFirst(type, driver) ==
    /\ lastType' = type
    /\ handled' = [type |-> type, updated |-> active = "ubx"]
    /\ UNCHANGED <<windows, screen, switchFailed, forced, repainted>>

\* select_packet_monitor(): switch on a new packet type, then update().
Packet(type, driver) ==
    /\ \/ type = lastType /\ UNCHANGED <<windows, switchFailed, forced>>
       \/ /\ type /= lastType /\ forced' = FALSE
          /\ \/ SwitchOK(Wanted(type, driver)) /\ UNCHANGED switchFailed
             \/ SwitchFails(Wanted(type, driver)) /\ switchFailed' = TRUE
    /\ lastType' = type
    /\ handled' = [type |-> type, updated |-> active' = "ubx"]
    /\ UNCHANGED <<screen, repainted>>

\* The 't' command: it does not tell the main loop of a failed switch.
ForceType(driver) ==
    /\ ~switchFailed
    /\ SwitchOK(driver) \/ SwitchFails(driver)
    /\ forced' = TRUE
    /\ UNCHANGED <<screen, lastType, switchFailed, handled, repainted>>

\* Control-L: the monitor is initialized once more, nothing is wrapped up.
Repaint ==
    /\ ~switchFailed /\ active = "ubx"
    /\ \/ /\ devicewin = NULL \/ AllocMayFail
          /\ satwin' = NULL /\ UNCHANGED parent /\ failed' = TRUE
       \/ /\ devicewin /= NULL
          /\ \E s \in Windows \ DOMAIN parent :
                satwin' = s /\ parent' = Newwin(parent, s, devicewin)
          /\ UNCHANGED failed
    /\ repainted' = TRUE
    /\ UNCHANGED <<screen, active, devicewin, packetwin, lastType, switchFailed,
                   handled, forced>>

DisplayInit ==
    /\ screen \in Screens
    /\ parent = <<>>
    /\ active = "none" /\ devicewin = NULL /\ satwin = NULL
    /\ packetwin = 1 .. screen.rows - 1
    /\ lastType = "BAD" /\ switchFailed = FALSE
    /\ handled = [type |-> "BAD", updated |-> FALSE]
    /\ forced = FALSE /\ repainted = FALSE /\ failed = FALSE

DisplayNext ==
    \/ (\E a \in Arrivals : Packet(a[1], a[2]))
    \/ (\E driver \in Forced : ForceType(driver))
    \/ Repaint

DisplaySpec == DisplayInit /\ [][DisplayNext]_displayVars

-----------------------------------------------------------------------------
(* Properties *)

Live == DOMAIN parent

DisplayTypeOK ==
    /\ screen \in Screens
    /\ Live \subseteq Windows
    /\ \A w \in Live : parent[w] \in Live \cup {Screen}
    /\ active \in {"none"} \cup Monitors
    /\ devicewin \in Windows \cup {NULL} /\ satwin \in Windows \cup {NULL}
    /\ packetwin \subseteq 1 .. screen.rows - 1
    /\ lastType \in {"BAD"} \cup {a[1] : a \in Arrivals}
    /\ handled.type \in {"BAD"} \cup {a[1] : a \in Arrivals}
    /\ {switchFailed, handled.updated, forced, repainted, failed} \subseteq BOOLEAN

\* While the ubx monitor has a panel, the window its update() draws in is a
\* live window inside that panel (or NULL, which curses ignores), whatever
\* switches, repaints and failed allocations came before: satwin is neither
\* cleared by ubx_wrap() (341-345) nor tested by display_nav_sat().
UpdateDrawsInPanel ==
    active = "ubx" /\ devicewin /= NULL =>
        /\ devicewin \in Live /\ parent[devicewin] = Screen
        /\ satwin = NULL \/ (satwin \in Live /\ parent[satwin] = devicewin)

\* Without a repaint no switch leaves a window behind: all that is allocated
\* can still be reached and freed (wrap before delwin, 494-506).
NothingLeaks == repainted \/ Live \subseteq {devicewin, satwin}

\* After every sequence of switches, refused ones included, that no allocation
\* failed in, no row below the first is left to nobody; the panel of the ubx
\* monitor and the packet window do not overlap, and under any other monitor the
\* packet window has all the rows, those that the json panel lies over too
\* (min_y, 497; leftover, 509-524).
PanesCoverScreen ==
    ~failed =>
        LET panel == IF active = "none" THEN {} ELSE PanelRows(active)
        IN  /\ panel \cup packetwin = 1 .. screen.rows - 1
            /\ IF active = "ubx" THEN panel \cap packetwin = {}
               ELSE packetwin = 1 .. screen.rows - 1

\* On a screen that the ubx monitor fits, every U-Blox packet reaches its
\* update(), and so the database, however the packet types alternate and
\* whatever allocation failed - unless a 't' command came after the packet
\* type last changed (last_type, 536-564).
UbxIsHandled ==
    handled.type = "UBX" /\ Fits("ubx") /\ ~forced => handled.updated

\* "wrap: deallocate storage" (gpsmon.h:22), which initialize() allocated: a
\* monitor that is not shown any more holds no window.
WrapDeallocates == active /= "ubx" => \A w \in Live : parent[w] = Screen
=============================================================================
