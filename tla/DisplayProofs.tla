--------------------------- MODULE DisplayProofs ----------------------------
(***************************************************************************)
(* Proofs about Display: the windows of the panel, the division of the     *)
(* screen, and that U-Blox packets reach their monitor.                    *)
(***************************************************************************)
EXTENDS Display, TLAPS

\* Without a repaint, the windows that live are the panel and its satellite window.
OnlyPanelInv ==
    ~repainted => \A w \in Live :
        \/ w = devicewin /\ active /= "none" /\ parent[w] = Screen
        \/ /\ w = satwin /\ satwin /= devicewin
           /\ active = "ubx" /\ parent[w] = devicewin

\* What the packet window covers.
RowsInv ==
    /\ screen \in Screens
    /\ active = "ubx" => screen.rows >= 20
    /\ ~failed => packetwin = IF active = "ubx" THEN PacketRows("ubx")
                              ELSE 1 .. screen.rows - 1

\* The monitor shown is the one the last U-Blox packet called for.
ShownInv == lastType = "UBX" /\ Fits("ubx") /\ ~forced => active = "ubx"

AddressInv ==
    /\ Live \subseteq Windows
    /\ devicewin \in Windows \cup {NULL} /\ satwin \in Windows \cup {NULL}
    /\ active \in {"none"} \cup Monitors

DInv == AddressInv /\ UpdateDrawsInPanel /\ OnlyPanelInv /\ RowsInv /\ ShownInv /\ UbxIsHandled

-----------------------------------------------------------------------------
(* The window operators *)

LEMMA DelwinLive ==
    ASSUME NEW live, NEW w
    PROVE  /\ DOMAIN Delwin(live, w) \subseteq DOMAIN live
           /\ DOMAIN live \subseteq DOMAIN Delwin(live, w) \cup {w}
           /\ \A v \in DOMAIN Delwin(live, w) : Delwin(live, w)[v] = live[v]
           /\ (\A c \in DOMAIN live : live[c] /= w) => w \notin DOMAIN Delwin(live, w)
  BY DEF Delwin, Restrict

\* Closing the panel frees all of it, unless it was repainted.
LEMMA ClosedLive ==
    ASSUME AddressInv
    PROVE  /\ DOMAIN Closed \subseteq Windows
           /\ OnlyPanelInv /\ ~repainted => DOMAIN Closed = {}
<1> DEFINE wrapped == IF active = "ubx" THEN Delwin(parent, satwin) ELSE parent
<1>0. Closed = IF active = "none" THEN wrapped ELSE Delwin(wrapped, devicewin)
  BY DEF Closed
<1>1. /\ DOMAIN wrapped \subseteq DOMAIN parent
      /\ \A v \in DOMAIN wrapped : wrapped[v] = parent[v]
  BY DelwinLive
<1>2. DOMAIN Closed \subseteq DOMAIN wrapped
  <2> HIDE DEF wrapped
  <2> QED BY <1>0, DelwinLive
<1>3. ASSUME OnlyPanelInv, ~repainted PROVE DOMAIN Closed = {}
  <2>1. \A w \in DOMAIN parent : \/ w = devicewin /\ active /= "none" /\ parent[w] = Screen
                                 \/ /\ w = satwin /\ satwin /= devicewin
                                    /\ active = "ubx" /\ parent[w] = devicewin
    BY <1>3 DEF OnlyPanelInv, Live
  <2>2. \A w \in DOMAIN wrapped : w = devicewin /\ parent[w] = Screen /\ active /= "none"
    <3>1. CASE active = "ubx" /\ satwin \in DOMAIN parent /\ satwin /= devicewin
      <4>1. \A c \in DOMAIN parent : parent[c] /= satwin
        BY <2>1, <3>1, WindowsAssumption DEF AddressInv, Live
      <4> QED BY <2>1, <3>1, <4>1, DelwinLive
    <3>2. CASE ~(active = "ubx" /\ satwin \in DOMAIN parent /\ satwin /= devicewin)
      BY <2>1, <3>2, <1>1
    <3> QED BY <3>1, <3>2
  <2>3. \A w \in DOMAIN wrapped : wrapped[w] = Screen
    BY <1>1, <2>2
  <2>4. CASE DOMAIN wrapped = {}
    BY <2>4, <1>2
  <2>5. CASE devicewin \in DOMAIN wrapped
    <3>1. devicewin \in Windows /\ devicewin /= Screen
      BY <2>5, <1>1, WindowsAssumption DEF AddressInv, Live
    <3>2. active /= "none" /\ DOMAIN wrapped = {devicewin}
      BY <2>2, <2>5
    <3> HIDE DEF wrapped
    <3>3. devicewin \notin DOMAIN Delwin(wrapped, devicewin)
      BY <2>3, <3>1, DelwinLive
    <3> QED BY <1>0, <1>2, <3>2, <3>3
  <2> QED BY <2>2, <2>4, <2>5
<1> QED BY <1>1, <1>2, <1>3 DEF AddressInv, Live

-----------------------------------------------------------------------------
LEMMA DInit == DisplayInit => DInv
<1> SUFFICES ASSUME DisplayInit PROVE DInv
  OBVIOUS
<1>1. Live = {} /\ active = "none" /\ devicewin = NULL /\ satwin = NULL
  BY DEF DisplayInit, Live
<1>2. AddressInv /\ UpdateDrawsInPanel /\ OnlyPanelInv
  BY <1>1 DEF AddressInv, UpdateDrawsInPanel, OnlyPanelInv
<1>3. RowsInv
  BY <1>1 DEF DisplayInit, RowsInv
<1>4. ShownInv /\ UbxIsHandled
  BY DEF DisplayInit, ShownInv, UbxIsHandled
<1> QED BY <1>2, <1>3, <1>4 DEF DInv

\* A panel that has just been opened, or half opened, is in order.
LEMMA OpenedPanel ==
    ASSUME DInv, NEW m \in Monitors, Fits(m), OpenPanel(m) \/ FailPanel(m),
           UNCHANGED <<screen, repainted>>
    PROVE  /\ AddressInv' /\ UpdateDrawsInPanel' /\ OnlyPanelInv' /\ RowsInv'
           /\ active' = m
<1>1. /\ DOMAIN Closed \subseteq Windows
      /\ ~repainted => DOMAIN Closed = {}
  BY ClosedLive DEF DInv
<1>2. active' = m /\ m \in Monitors
  BY DEF OpenPanel, FailPanel
<1>3. RowsInv'
  <2>1. screen' \in Screens /\ (m = "ubx" => screen'.rows >= 20)
    BY ScreensAssumption DEF Fits, MinRows, DInv, RowsInv
  <2>2. ~failed' => packetwin' = PacketRows(m) /\ ~failed
    BY DEF OpenPanel, FailPanel
  <2>3. PacketRows(m)' = PacketRows(m) /\ PacketRows("ubx")' = PacketRows("ubx")
    BY DEF PacketRows
  <2>4. m /= "ubx" => PacketRows(m) = 1 .. screen.rows - 1
    BY DEF PacketRows, MinRows
  <2> QED BY <1>2, <2>1, <2>2, <2>3, <2>4 DEF RowsInv
<1>4. CASE devicewin' = NULL /\ parent' = Closed /\ satwin' = satwin
  <2>1. ~repainted => Live' = {}
    BY <1>1, <1>4 DEF Live
  <2>2. AddressInv'
    BY <1>1, <1>2, <1>4 DEF AddressInv, Live, DInv
  <2>3. UpdateDrawsInPanel' /\ OnlyPanelInv'
    BY <1>4, <2>1 DEF UpdateDrawsInPanel, OnlyPanelInv
  <2> QED BY <1>2, <1>3, <2>2, <2>3
<1>5. ASSUME NEW d \in Windows \ DOMAIN Closed, devicewin' = d,
             parent' = Newwin(Closed, d, Screen), m /= "ubx" \/ satwin' = NULL,
             satwin' \in {satwin, NULL}
      PROVE  AddressInv' /\ UpdateDrawsInPanel' /\ OnlyPanelInv'
  <2>1. Live' = DOMAIN Closed \cup {d} /\ parent'[d] = Screen
    BY <1>5 DEF Live, Newwin
  <2> QED BY <1>1, <1>2, <1>5, <2>1
          DEF AddressInv, UpdateDrawsInPanel, OnlyPanelInv, DInv, Monitors, Live
<1>6. ASSUME NEW d \in Windows \ DOMAIN Closed, devicewin' = d, m = "ubx",
             NEW s \in Windows \ DOMAIN Newwin(Closed, d, Screen), satwin' = s,
             parent' = Newwin(Newwin(Closed, d, Screen), s, d)
      PROVE  AddressInv' /\ UpdateDrawsInPanel' /\ OnlyPanelInv'
  <2>1. /\ DOMAIN Newwin(Closed, d, Screen) = DOMAIN Closed \cup {d}
        /\ Newwin(Closed, d, Screen)[d] = Screen
    BY DEF Newwin
  <2>2. /\ Live' = DOMAIN Closed \cup {d, s} /\ s /= d
        /\ parent'[d] = Screen /\ parent'[s] = d
    BY <1>6, <2>1 DEF Live, Newwin
  <2> QED BY <1>1, <1>2, <1>6, <2>2
          DEF AddressInv, UpdateDrawsInPanel, OnlyPanelInv, DInv, Live
<1>7. CASE OpenPanel(m)
  BY <1>2, <1>3, <1>5, <1>6, <1>7 DEF OpenPanel
<1>8. CASE FailPanel(m)
  BY <1>2, <1>3, <1>4, <1>5, <1>8 DEF FailPanel
<1> QED BY <1>7, <1>8

\* switch_type(): the windows stay in order, and unless the screen is too small
\* the monitor shown is the driver's own.
LEMMA Switched ==
    ASSUME DInv, NEW driver, SwitchOK(driver) \/ SwitchFails(driver),
           UNCHANGED <<screen, repainted>>
    PROVE  /\ AddressInv' /\ UpdateDrawsInPanel' /\ OnlyPanelInv' /\ RowsInv'
           /\ driver \in Monitors /\ Fits(driver) => active' = driver
<1>1. CASE driver \in Monitors /\ Fits(driver)
  BY <1>1, OpenedPanel DEF SwitchOK, SwitchFails
<1>2. CASE ~(driver \in Monitors /\ Fits(driver))
  <2>1. UNCHANGED windows
    BY <1>2 DEF SwitchOK, SwitchFails
  <2>2. AddressInv' /\ UpdateDrawsInPanel' /\ OnlyPanelInv' /\ RowsInv'
    BY <2>1 DEF windows, DInv, AddressInv, UpdateDrawsInPanel, OnlyPanelInv, RowsInv,
                Live, PacketRows
  <2> QED BY <1>2, <2>2
<1> QED BY <1>1, <1>2

LEMMA DStep == DInv /\ [DisplayNext]_displayVars => DInv'
<1> SUFFICES ASSUME DInv, [DisplayNext]_displayVars PROVE DInv'
  OBVIOUS
<1>1. ASSUME NEW a \in Arrivals, Packet(a[1], a[2]) PROVE DInv'
  <2>1. screen' = screen /\ repainted' = repainted
    BY <1>1 DEF Packet
  <2>2. CASE a[1] = lastType
    <3>1. UNCHANGED windows /\ forced' = forced /\ lastType' = lastType
      BY <1>1, <2>2 DEF Packet
    <3>2. AddressInv' /\ UpdateDrawsInPanel' /\ OnlyPanelInv' /\ RowsInv' /\ ShownInv'
      BY <2>1, <3>1 DEF windows, DInv, AddressInv, UpdateDrawsInPanel, OnlyPanelInv,
                        RowsInv, ShownInv, Live, PacketRows, Fits
    <3>3. UbxIsHandled'
      BY <1>1, <2>1, <3>2 DEF UbxIsHandled, ShownInv, Packet, Fits
    <3> QED BY <3>2, <3>3 DEF DInv
  <2>3. CASE a[1] /= lastType
    <3> DEFINE driver == Wanted(a[1], a[2])
    <3>1. SwitchOK(driver) \/ SwitchFails(driver)
      BY <1>1, <2>3 DEF Packet
    <3>2. a[1] = "UBX" => driver = "ubx"
      BY ArrivalsAssumption DEF Wanted
    <3>3. /\ AddressInv' /\ UpdateDrawsInPanel' /\ OnlyPanelInv' /\ RowsInv'
          /\ driver \in Monitors /\ Fits(driver) => active' = driver
      <4> HIDE DEF driver
      <4> QED BY <2>1, <3>1, Switched
    <3>4. ShownInv' /\ UbxIsHandled'
      BY <1>1, <2>1, <3>2, <3>3 DEF ShownInv, UbxIsHandled, Packet, Fits, Monitors
    <3> QED BY <3>3, <3>4 DEF DInv
  <2> QED BY <2>2, <2>3
<1>2. ASSUME NEW driver \in Forced, ForceType(driver) PROVE DInv'
  <2>1. AddressInv' /\ UpdateDrawsInPanel' /\ OnlyPanelInv' /\ RowsInv'
    BY <1>2, Switched DEF ForceType
  <2>2. ShownInv' /\ UbxIsHandled'
    BY <1>2 DEF ForceType, ShownInv, UbxIsHandled
  <2> QED BY <2>1, <2>2 DEF DInv
<1>3. CASE Repaint
  <2>1. /\ active = "ubx"
        /\ UNCHANGED <<screen, active, devicewin, packetwin, lastType, handled, forced>>
        /\ repainted' = TRUE
    BY <1>3 DEF Repaint
  <2>2. AddressInv' /\ UpdateDrawsInPanel'
    <3>1. CASE satwin' = NULL /\ parent' = parent
      BY <2>1, <3>1 DEF DInv, AddressInv, UpdateDrawsInPanel, Live
    <3>2. ASSUME NEW s \in Windows \ DOMAIN parent, devicewin /= NULL, satwin' = s,
                 parent' = Newwin(parent, s, devicewin)
          PROVE  AddressInv' /\ UpdateDrawsInPanel'
      <4>1. /\ Live' = Live \cup {s} /\ parent'[s] = devicewin
            /\ \A v \in Live : parent'[v] = parent[v]
        BY <3>2 DEF Live, Newwin
      <4> QED BY <2>1, <3>2, <4>1 DEF DInv, AddressInv, UpdateDrawsInPanel
    <3> QED BY <1>3, <3>1, <3>2 DEF Repaint
  <2>3. OnlyPanelInv' /\ ShownInv' /\ UbxIsHandled'
    BY <2>1 DEF DInv, OnlyPanelInv, ShownInv, UbxIsHandled, Fits
  <2>4. RowsInv'
    <3>1. ~failed' => ~failed
      BY <1>3 DEF Repaint
    <3> QED BY <2>1, <3>1 DEF DInv, RowsInv, PacketRows
  <2> QED BY <2>2, <2>3, <2>4 DEF DInv
<1>4. CASE UNCHANGED displayVars
  BY <1>4 DEF displayVars, windows, DInv, AddressInv, UpdateDrawsInPanel, OnlyPanelInv,
              RowsInv, ShownInv, UbxIsHandled, Live, PacketRows, Fits
<1> QED BY <1>1, <1>2, <1>3, <1>4 DEF DisplayNext

-----------------------------------------------------------------------------
\* UpdateDrawsInPanel: the ubx monitor never draws in a window that was freed
\* or belongs to an older panel, while it has one (ubx_initialize, ubx_wrap).
THEOREM DrawsInPanel == DisplaySpec => []UpdateDrawsInPanel
<1>1. DInv => UpdateDrawsInPanel
  BY DEF DInv
<1> QED BY <1>1, DInit, DStep, PTL DEF DisplaySpec

\* NothingLeaks: without control-L a switch frees all the windows of the panel
\* it replaces (switch_type() 494-506).
THEOREM NoLeak == DisplaySpec => []NothingLeaks
<1>1. DInv => NothingLeaks
  BY DEF DInv, OnlyPanelInv, NothingLeaks
<1> QED BY <1>1, DInit, DStep, PTL DEF DisplaySpec

\* WrapDeallocates holds until control-L is used: of all switches, forced or not,
\* with or without failed allocations, none leaves a window of the ubx monitor
\* behind (wrap, gpsmon.h:22; switch_type() 494-506).
THEOREM OnlyRepaintLeaves == DisplaySpec => [](repainted \/ WrapDeallocates)
<1>1. DInv => repainted \/ WrapDeallocates
  BY DEF DInv, OnlyPanelInv, WrapDeallocates
<1> QED BY <1>1, DInit, DStep, PTL DEF DisplaySpec

\* Two adjacent intervals of rows make one interval.
LEMMA RowsSplit ==
    ASSUME NEW top \in Nat, NEW last \in Nat, top <= last
    PROVE  /\ (1 .. top) \cap (top + 1 .. last) = {}
           /\ (1 .. top) \cup (top + 1 .. last) = 1 .. last
<1>1. ASSUME NEW r PROVE ~(r \in 1 .. top /\ r \in top + 1 .. last)
  OBVIOUS
<1>2. ASSUME NEW r \in 1 .. last PROVE r \in 1 .. top \/ r \in top + 1 .. last
  OBVIOUS
<1>3. ASSUME NEW r, r \in 1 .. top \/ r \in top + 1 .. last PROVE r \in 1 .. last
  BY <1>3
<1> QED BY <1>1, <1>2, <1>3, Zenon

\* PanesCoverScreen: every row below the first belongs to the panel or to the
\* packet window; only the json panel lies over it (switch_type() 497, 509-524).
THEOREM Coverage == DisplaySpec => []PanesCoverScreen
<1>1. DInv => PanesCoverScreen
  <2> DEFINE last == screen.rows - 1
  <2> DEFINE panel == IF active = "none" THEN {} ELSE PanelRows(active)
  <2> SUFFICES ASSUME DInv, ~failed
               PROVE  /\ panel \cup packetwin = 1 .. last
                      /\ IF active = "ubx" THEN panel \cap packetwin = {}
                         ELSE packetwin = 1 .. last
    BY DEF PanesCoverScreen
  <2>1. screen.rows \in Nat \ {0} /\ active \in {"none", "ubx", "json"}
    BY ScreensAssumption DEF DInv, RowsInv, AddressInv, Monitors
  <2>2. CASE active = "ubx"
    <3>1. packetwin = 19 + 1 .. last /\ panel = 1 .. 19
      BY <2>2 DEF DInv, RowsInv, PacketRows, PanelRows, MinRows
    <3>2. last \in Nat /\ 19 <= last /\ 19 \in Nat
      BY <2>1, <2>2 DEF DInv, RowsInv
    <3> HIDE DEF last, panel
    <3>3. (1 .. 19) \cap (19 + 1 .. last) = {} /\ (1 .. 19) \cup (19 + 1 .. last) = 1 .. last
      BY ONLY <3>2, RowsSplit, Zenon
    <3> QED BY <2>2, <3>1, <3>3
  <2>3. CASE active /= "ubx"
    <3>1. packetwin = 1 .. last
      BY <2>3 DEF DInv, RowsInv
    <3>2. panel \subseteq 1 .. last
      BY <2>1, <2>3 DEF PanelRows, MinRows
    <3> QED BY <2>3, <3>1, <3>2
  <2> QED BY <2>2, <2>3
<1> QED BY <1>1, DInit, DStep, PTL DEF DisplaySpec

\* UbxIsHandled: on a screen big enough, whatever the other packets, switches
\* and failures, a U-Blox packet reaches ubx_update() unless 't' intervened.
THEOREM UbxHandled == DisplaySpec => []UbxIsHandled
<1>1. DInv => UbxIsHandled
  BY DEF DInv
<1> QED BY <1>1, DInit, DStep, PTL DEF DisplaySpec
-----------------------------------------------------------------------------
(* Types *)

\* Every window was derived from the screen or from a window that still lives.
Rooted(live) == \A w \in DOMAIN live : live[w] \in DOMAIN live \cup {Screen}

\* delwin() frees no window that another was derived from.
LEMMA RootedDelwin == ASSUME NEW live, NEW w, Rooted(live) PROVE Rooted(Delwin(live, w))
<1>1. CASE w \in DOMAIN live /\ \A c \in DOMAIN live : live[c] /= w
  <2>1. /\ DOMAIN Delwin(live, w) = DOMAIN live \ {w}
        /\ \A v \in DOMAIN Delwin(live, w) : Delwin(live, w)[v] = live[v]
    BY <1>1 DEF Delwin, Restrict
  <2> QED BY <1>1, <2>1 DEF Rooted
<1>2. CASE ~(w \in DOMAIN live /\ \A c \in DOMAIN live : live[c] /= w)
  BY <1>2 DEF Delwin
<1> QED BY <1>1, <1>2

\* newwin() and derwin() derive from the screen or a window that lives.
LEMMA RootedNewwin ==
    ASSUME NEW live, NEW w, NEW from \in DOMAIN live \cup {w, Screen}, Rooted(live), w \notin DOMAIN live
    PROVE  Rooted(Newwin(live, w, from))
  BY DEF Rooted, Newwin

\* Closing a panel leaves no window without the one it was derived from.
LEMMA RootedClosed == Rooted(parent) => Rooted(Closed)
<1> SUFFICES ASSUME Rooted(parent) PROVE Rooted(Closed)
  OBVIOUS
<1> DEFINE wrapped == IF active = "ubx" THEN Delwin(parent, satwin) ELSE parent
<1>1. Rooted(wrapped)
  BY RootedDelwin
<1>2. Closed = IF active = "none" THEN wrapped ELSE Delwin(wrapped, devicewin)
  BY DEF Closed
<1> HIDE DEF wrapped
<1> QED BY <1>1, <1>2, RootedDelwin

Types == {"BAD"} \cup {a[1] : a \in Arrivals}

\* What is remembered of packets, keys and failures.
FlagsInv ==
    /\ lastType \in Types /\ handled.type \in Types /\ handled.updated \in BOOLEAN
    /\ switchFailed \in BOOLEAN /\ forced \in BOOLEAN /\ repainted \in BOOLEAN
    /\ failed \in BOOLEAN

RowsType == packetwin \subseteq 1 .. screen.rows - 1

TInv == DInv /\ Rooted(parent) /\ FlagsInv /\ RowsType

\* switch_type() keeps the windows rooted and the packet window on the screen.
LEMMA SwitchedTypes ==
    ASSUME TInv, NEW driver, SwitchOK(driver) \/ SwitchFails(driver), screen' = screen
    PROVE  Rooted(parent') /\ RowsType' /\ failed' \in BOOLEAN
<1>1. CASE UNCHANGED windows
  BY <1>1 DEF windows, TInv, RowsType, FlagsInv
<1>2. ASSUME driver \in Monitors, OpenPanel(driver) \/ FailPanel(driver)
      PROVE  Rooted(parent') /\ RowsType' /\ failed' \in BOOLEAN
  <2>1. Rooted(Closed)
    BY RootedClosed DEF TInv
  <2>2. \A d \in Windows \ DOMAIN Closed :
          LET panel == Newwin(Closed, d, Screen)
          IN  Rooted(panel) /\ d \in DOMAIN panel
    BY <2>1, RootedNewwin DEF Newwin
  <2>3. \A d \in Windows \ DOMAIN Closed :
          LET panel == Newwin(Closed, d, Screen)
          IN  \A s \in Windows \ DOMAIN panel : Rooted(Newwin(panel, s, d))
    BY <2>2, RootedNewwin
  <2>4. Rooted(parent')
    BY <1>2, <2>1, <2>2, <2>3 DEF OpenPanel, FailPanel
  <2>5. PacketRows(driver) \subseteq 1 .. screen.rows - 1
    BY ScreensAssumption DEF PacketRows, MinRows, TInv, DInv, RowsInv
  <2>6. RowsType' /\ failed' \in BOOLEAN
    BY <1>2, <2>5 DEF OpenPanel, FailPanel, TInv, RowsType, FlagsInv
  <2> QED BY <2>4, <2>6
<1> QED BY <1>1, <1>2 DEF SwitchOK, SwitchFails

LEMMA TInit == DisplayInit => TInv
<1> SUFFICES ASSUME DisplayInit PROVE TInv
  OBVIOUS
<1>1. Rooted(parent)
  BY DEF DisplayInit, Rooted
<1>2. lastType = "BAD" /\ handled.type = "BAD" /\ handled.updated \in BOOLEAN
  BY DEF DisplayInit
<1>3. switchFailed \in BOOLEAN /\ forced \in BOOLEAN /\ repainted \in BOOLEAN /\ failed \in BOOLEAN
  BY DEF DisplayInit
<1>4. RowsType
  BY DEF DisplayInit, RowsType
<1> QED BY <1>1, <1>2, <1>3, <1>4, DInit DEF TInv, FlagsInv, Types

LEMMA TStep == TInv /\ [DisplayNext]_displayVars => TInv'
<1> SUFFICES ASSUME TInv, [DisplayNext]_displayVars PROVE Rooted(parent') /\ FlagsInv' /\ RowsType'
  BY DStep DEF TInv
<1>1. ASSUME NEW a \in Arrivals, Packet(a[1], a[2]) PROVE Rooted(parent') /\ FlagsInv' /\ RowsType'
  <2>1. Rooted(parent') /\ RowsType' /\ failed' \in BOOLEAN
    <3>1. CASE UNCHANGED windows /\ screen' = screen
      BY <3>1 DEF windows, TInv, RowsType, FlagsInv
    <3> QED BY <1>1, <3>1, SwitchedTypes DEF Packet
  <2>2. a[1] \in Types /\ (active' = "ubx") \in BOOLEAN
    BY DEF Types
  <2>3. FlagsInv'
    BY <1>1, <2>1, <2>2 DEF Packet, FlagsInv, TInv
  <2> QED BY <2>1, <2>3
<1>2. ASSUME NEW driver \in Forced, ForceType(driver) PROVE Rooted(parent') /\ FlagsInv' /\ RowsType'
  <2>1. Rooted(parent') /\ RowsType' /\ failed' \in BOOLEAN
    BY <1>2, SwitchedTypes DEF ForceType
  <2> QED BY <1>2, <2>1 DEF ForceType, FlagsInv, TInv
<1>3. CASE Repaint
  <2>1. RowsType' /\ FlagsInv'
    BY <1>3 DEF Repaint, TInv, RowsType, FlagsInv
  <2>2. devicewin /= NULL => devicewin \in DOMAIN parent
    BY <1>3 DEF Repaint, TInv, DInv, UpdateDrawsInPanel, Live
  <2>3. Rooted(parent')
    BY <1>3, <2>2, RootedNewwin DEF Repaint, TInv
  <2> QED BY <2>1, <2>3
<1>4. CASE UNCHANGED displayVars
  BY <1>4 DEF displayVars, windows, TInv, RowsType, FlagsInv
<1> QED BY <1>1, <1>2, <1>3, <1>4 DEF DisplayNext

\* DisplayTypeOK: whatever is opened, closed, refused or repainted, every window's
\* parent is the screen or a live window, and the packet window is on the screen.
THEOREM DisplayTypes == DisplaySpec => []DisplayTypeOK
<1>1. TInv => DisplayTypeOK
  BY DEF TInv, DInv, AddressInv, RowsInv, Rooted, Live, FlagsInv, Types, RowsType, DisplayTypeOK
<1> QED BY <1>1, TInit, TStep, PTL DEF DisplaySpec
=============================================================================
