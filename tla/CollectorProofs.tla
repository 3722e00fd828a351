-------------------------- MODULE CollectorProofs ---------------------------
(***************************************************************************)
(* Proofs about Collector: it is a display and a recorder at once, so all  *)
(* that holds of either holds of the path from the hook to the database.   *)
(***************************************************************************)
EXTENDS Collector, DisplayProofs, RecorderProofs

\* A step of the collector is a step of the display, or leaves it alone.
LEMMA DisplayPart == [CollectorNext]_collectorVars => [DisplayNext]_displayVars
  BY DEF CollectorNext, collectorVars, Hook, Between, DisplayNext

\* A step of the collector is a step of the recorder, or leaves it alone.
LEMMA RecorderPart == [CollectorNext]_collectorVars => [RecorderNext]_recorderVars
<1> SUFFICES ASSUME [CollectorNext]_collectorVars PROVE [RecorderNext]_recorderVars
  OBVIOUS
<1>1. ASSUME NEW a \in Arrivals, NEW sol \in Solutions(a[1]), Hook(a[1], a[2], sol)
      PROVE  [RecorderNext]_recorderVars
  <2>1. sol /= "none" => sol \in {"fix", "nofix", "short"}
    BY DEF Solutions
  <2> QED BY <1>1, <2>1 DEF Hook, RecorderNext
<1> QED BY <1>1 DEF CollectorNext, collectorVars, Between, RecorderNext

\* The collector implements both of its parts: composing them under gpsmon_hook()
\* adds no behaviour to either (select_packet_monitor() and ubx_update()).
THEOREM CollectorParts == CollectorSpec => DisplaySpec /\ RecorderSpec
<1>1. CollectorInit => DisplayInit /\ RecorderInit
  BY DEF CollectorInit
<1> QED BY <1>1, DisplayPart, RecorderPart, PTL
        DEF CollectorSpec, DisplaySpec, RecorderSpec

\* What the panel promises, it promises between the hooks of the composition.
THEOREM CollectorDisplays ==
    CollectorSpec => [](/\ DisplayTypeOK /\ UpdateDrawsInPanel /\ NothingLeaks
                        /\ PanesCoverScreen /\ UbxIsHandled)
  BY CollectorParts, DisplayTypes, DrawsInPanel, NoLeak, Coverage, UbxHandled, PTL

\* What the recorder promises of the messages it is given, it promises of those
\* the panel lets through.
THEOREM CollectorRecords ==
    CollectorSpec => /\ [](/\ RecorderTypeOK /\ RowOrComplaint /\ SessionsAreClosed
                           /\ DiesOnlyOfConnect)
                     /\ ImplementsLedger
  BY CollectorParts, RecorderTypes, NoMessageLostSilently, SessionsClosed, DeathIsOfConnect,
     LedgerImplemented, PTL

\* Counts for the loss of messages.
OfferedInv == offered \in Nat
TypesNat == offered \in Nat /\ solution \in Nat

\* A step that leaves a NAV-SOL message unrecorded is one the panel explains.
LEMMA LossStep ==
    DInv /\ DInv' /\ TypesNat /\ [CollectorNext]_collectorVars =>
        [offered' - solution' > offered - solution => ~Fits("ubx") \/ forced]_collectorVars
<1> SUFFICES ASSUME DInv, DInv', TypesNat, CollectorNext, Fits("ubx"), ~forced
             PROVE  ~(offered' - solution' > offered - solution)
  BY DEF collectorVars
<1> USE DEF TypesNat
<1>1. ASSUME NEW a \in Arrivals, NEW sol \in Solutions(a[1]), Hook(a[1], a[2], sol)
      PROVE  ~(offered' - solution' > offered - solution)
  <2>1. CASE sol = "none"
    BY <1>1, <2>1 DEF Hook, recorderVars
  <2>2. CASE sol /= "none"
    <3>1. a[1] = "UBX"
      BY <2>2 DEF Solutions
    <3>2. Fits("ubx")' /\ ~forced' /\ handled'.type = "UBX"
      BY <1>1, <3>1 DEF Hook, Packet, Fits
    <3>3. handled'.updated
      BY <3>2 DEF DInv, UbxIsHandled
    <3>4. offered' = offered + 1 /\ Receive(sol)
      BY <1>1, <2>2, <3>3 DEF Hook
    <3> QED BY <3>4 DEF Receive
  <2> QED BY <2>1, <2>2
<1>2. CASE \/ \E driver \in Forced : ForceType(driver) /\ Between
           \/ Repaint /\ Between
  BY <1>2 DEF Between, recorderVars
<1>3. CASE (RecorderStep \/ ServerTurns) /\ UNCHANGED <<displayVars, offered>>
  <2>1. solution' = solution /\ offered' = offered
    BY <1>3 DEF RecorderStep, ServerTurns, Connected, NotConnected, Insert, Refused,
                ExecFreed, Reply, Finish
  <2> QED BY <2>1
<1>4. CASE Dead /\ UNCHANGED collectorVars
  BY <1>4 DEF collectorVars, recorderVars
<1> QED BY <1>1, <1>2, <1>3, <1>4 DEF CollectorNext

\* NoSilentLoss: every other NAV-SOL message reaches the recorder.
THEOREM NoLossUnexplained == CollectorSpec => NoSilentLoss
<1>1. CollectorInit => DInv /\ RInv /\ OfferedInv
  BY DInit, RInit DEF CollectorInit, OfferedInv
<1>2. OfferedInv /\ [CollectorNext]_collectorVars => OfferedInv'
  BY DEF OfferedInv, CollectorNext, collectorVars, Hook, Between
<1>3. RInv /\ OfferedInv => TypesNat
  BY MaxSolutionsAssumption DEF OfferedInv, RInv, RecorderTypeOK, TypesNat
<1>4. CollectorSpec => [](DInv /\ TypesNat)
  BY <1>1, <1>2, <1>3, DStep, RStep, DisplayPart, RecorderPart, PTL DEF CollectorSpec
<1>5. DInv /\ DInv' /\ TypesNat /\ [CollectorNext]_collectorVars =>
         [offered' - solution' > offered - solution => ~Fits("ubx") \/ forced]_collectorVars
  BY LossStep
<1> QED BY <1>4, <1>5, PTL DEF CollectorSpec, NoSilentLoss

-----------------------------------------------------------------------------
(* Accounts *)

\* No more messages reach the recorder than gpsd delivers.
AccountInv == TypesNat /\ solution <= offered

LEMMA AccountStep == AccountInv /\ [CollectorNext]_collectorVars => AccountInv'
<1> SUFFICES ASSUME AccountInv, [CollectorNext]_collectorVars PROVE AccountInv'
  OBVIOUS
<1> USE DEF AccountInv, TypesNat
<1>1. CASE UNCHANGED <<solution, offered>>
  BY <1>1
<1>2. ASSUME NEW a \in Arrivals, NEW sol \in Solutions(a[1]), Hook(a[1], a[2], sol)
      PROVE  AccountInv'
  BY <1>2 DEF Hook, Receive, recorderVars
<1>3. CASE RecorderStep \/ ServerTurns
  BY <1>3 DEF RecorderStep, ServerTurns, Connected, NotConnected, Insert, Refused,
              ExecFreed, Reply, Finish, CollectorNext, collectorVars, Hook, Between, Receive,
              recorderVars
<1> QED BY <1>1, <1>2, <1>3 DEF CollectorNext, collectorVars, Between, recorderVars

\* If no difference arises between two counters that agree, they go on agreeing.
LEMMA NoneLost ==
    \A n, s, o \in Nat : s <= o /\ ~(o - s > n - n) => s = o
  OBVIOUS

\* The chain from gpsd to the database: there are not more rows than messages given
\* to the recorder, and not more of those than gpsd delivered; and if the ubx
\* monitor fits the screen and 't' is not used, the recorder gets every single one
\* (gpsmon_hook(), select_packet_monitor(), ubx_update(), display_nav_sol()).
THEOREM EveryMessageCounted ==
    CollectorSpec =>
        /\ [](Len(table) <= solution /\ solution <= offered)
        /\ []~forced => [](Fits("ubx") => solution = offered)
<1> DEFINE All == Fits("ubx") => solution = offered
<1>1. CollectorInit => DInv /\ RInv /\ AccountInv /\ All
  <2> SUFFICES ASSUME CollectorInit PROVE DInv /\ RInv /\ AccountInv /\ All
    OBVIOUS
  <2>1. DInv /\ RInv
    BY DInit, RInit DEF CollectorInit
  <2>2. solution = 0 /\ offered = 0
    BY DEF CollectorInit, RecorderInit
  <2>3. AccountInv
    BY <2>2 DEF AccountInv, TypesNat
  <2> QED BY <2>1, <2>2, <2>3
<1>2. CollectorSpec => [](DInv /\ AccountInv)
  BY <1>1, DStep, DisplayPart, AccountStep, PTL DEF CollectorSpec
<1>3. DInv /\ DInv' /\ AccountInv /\ AccountInv' /\ ~forced /\ All
          /\ [CollectorNext]_collectorVars => All'
  <2> SUFFICES ASSUME DInv, DInv', AccountInv, AccountInv', ~forced, All,
                      [CollectorNext]_collectorVars, Fits("ubx")'
               PROVE  solution' = offered'
    OBVIOUS
  <2>1. screen' = screen
    BY DEF CollectorNext, collectorVars, displayVars, Hook, Packet, ForceType, Repaint
  <2>2. Fits("ubx") /\ solution = offered
    BY <2>1 DEF Fits
  <2>3. CASE UNCHANGED collectorVars
    BY <2>2, <2>3 DEF collectorVars, recorderVars
  <2>4. CASE ~UNCHANGED collectorVars
    <3>1. ~(offered' - solution' > offered - solution)
      BY <2>2, <2>4, LossStep DEF AccountInv
    <3>2. /\ solution \in Nat /\ offered \in Nat /\ solution = offered
          /\ solution' \in Nat /\ offered' \in Nat /\ solution' <= offered'
      BY <2>2 DEF AccountInv, TypesNat
    <3> QED BY <3>1, <3>2, NoneLost
  <2> QED BY <2>3, <2>4
<1>4. CollectorSpec /\ []~forced => []All
  BY <1>1, <1>2, <1>3, PTL DEF CollectorSpec
<1>5. AccountInv /\ RowsInOrder => Len(table) <= solution /\ solution <= offered
  BY DEF AccountInv, RowsInOrder
<1>6. CollectorSpec => [](Len(table) <= solution /\ solution <= offered)
  BY <1>2, <1>5, CollectorParts, RowsOnce, PTL
<1> QED BY <1>4, <1>6, PTL
=============================================================================
