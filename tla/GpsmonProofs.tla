---------------------------- MODULE GpsmonProofs ----------------------------
(***************************************************************************)
(* Theorems about Gpsmon, for any set of lines, any number of packets per  *)
(* poll and any number of messages per driver method.                      *)
(***************************************************************************)
EXTENDS Gpsmon, SequenceTheorems, TLAPS

-----------------------------------------------------------------------------
(* The effects of hooks and commands are sequences of known effects. *)

\* Effects one after the other, as in a handler that makes several calls.
LEMMA ThenType ==
    ASSUME NEW E, NEW S \in SUBSET Seq(E), NEW T \in SUBSET Seq(E)
    PROVE  Then(S, T) \subseteq Seq(E)
<1>1. \A s \in Seq(E), t \in Seq(E) : s \o t \in Seq(E)
  BY ConcatProperties
<1>2. SUFFICES ASSUME NEW x \in Then(S, T) PROVE x \in Seq(E)
  OBVIOUS
<1>3. PICK s \in S, t \in T : x = s \o t
  BY DEF Then
<1>4. s \in Seq(E) /\ t \in Seq(E)
  OBVIOUS
<1> QED BY <1>1, <1>3, <1>4

\* The effects a handler of gpsmon.c is put together from.
LEMMA LiteralType ==
    ASSUME NEW E
    PROVE  /\ Nothing \in SUBSET Seq(E)
           /\ \A e \in E : {<<e>>} \in SUBSET Seq(E)
           /\ \A e \in E, f \in E : Either(e, f) \in SUBSET Seq(E) /\ {<<e, f>>} \in SUBSET Seq(E)
  BY DEF Nothing, Either

\* The messages of a driver method, one after the other (gpsmon_serial_write()).
LEMMA DriverCallType ==
    ASSUME NEW E, "Dump" \in E
    PROVE  DriverCall \in SUBSET Seq(E)
<1>1. ASSUME NEW n \in 0..MaxWrites
      PROVE  [i \in 1..n |-> "Dump"] \in Seq(E)
  <2>1. n \in Nat
    BY MaxWritesAssumption
  <2> QED BY <2>1, SeqDef
<1> QED BY <1>1 DEF DriverCall

\* What a packet makes gpsd and gpsmon_hook() do; it asks nothing, so there is no prompt among it.
PacketEffects == {"Dump", "Resize", "Complain", "Output", "Update", "Fail", "Statwin", "Cmdwin"}

\* Each packet adds a sequence of these (gpsmon_hook()).
LEMMA HookEffectsType == HookEffects \subseteq Seq(PacketEffects)
<1>1. Then(Either("Resize", "Complain"), {<<"Statwin", "Cmdwin">>}) \subseteq Seq(PacketEffects)
  BY LiteralType, ThenType DEF PacketEffects
<1>2. PacketMonitor \subseteq Seq(PacketEffects)
  <2>1. Nothing \cup {<<"Update">>} \subseteq Seq(PacketEffects)
    BY LiteralType DEF PacketEffects
  <2>2. Nothing \cup Then(Either("Resize", "Complain"), {<<"Statwin", "Cmdwin">>})
           \cup {<<"Complain", "Fail">>} \subseteq Seq(PacketEffects)
    BY <1>1, LiteralType DEF PacketEffects
  <2> QED BY <2>1, <2>2, ThenType DEF PacketMonitor
<1>3. Then(PacketMonitor, {<<"Output">>}) \subseteq Seq(PacketEffects)
  BY <1>2, LiteralType, ThenType DEF PacketEffects
<1>4. (IF serial THEN DriverCall ELSE Nothing) \subseteq Seq(PacketEffects)
  BY LiteralType, DriverCallType DEF PacketEffects
<1>5. (IF serial THEN {} ELSE Nothing \cup Either("Complain", "Output"))
        \cup (IF curses THEN Then(PacketMonitor, {<<"Output">>}) ELSE {<<"Output">>})
           \subseteq Seq(PacketEffects)
  BY <1>3, LiteralType DEF PacketEffects
<1> QED BY <1>4, <1>5, ThenType DEF HookEffects

\* They are effects.
LEMMA PacketEffectsType == Seq(PacketEffects) \subseteq Seq(Effects)
<1>1. PacketEffects \subseteq Effects
  BY DEF PacketEffects, Effects, LockEffects
<1> QED BY <1>1, SeqDef

\* The effects of do_command(); none of them draws a monitor.
LineEffects == {"Announce", "Complain", "Dump", "LogToggle", "LogTo", "Statwin", "Cmdwin", "Resize"}

\* Each command adds a sequence of these (do_command()).
LEMMA CommandEffectsIn ==
    ASSUME NEW letter, NEW E, LineEffects \subseteq E
    PROVE  CommandEffects(letter) \subseteq Seq(E)
<1>1. LineEffects \subseteq E
  OBVIOUS
<1>2. ASSUME NEW S \in SUBSET Seq(E)
      PROVE  LowLevel(S) \subseteq Seq(E)
  BY <1>1, LiteralType DEF LowLevel, LineEffects
<1>3. DriverCall \subseteq Seq(E)
  BY <1>1, DriverCallType DEF LineEffects
<1>4. /\ Then(DriverCall, Either("Announce", "Complain")) \subseteq Seq(E)
      /\ Then({<<"Announce">>}, DriverCall) \subseteq Seq(E)
      /\ Nothing \cup Then(Either("Resize", "Complain"), {<<"Cmdwin">>}) \subseteq Seq(E)
      /\ Then(DriverCall, Nothing \cup {<<"Complain">>}) \subseteq Seq(E)
  BY <1>1, <1>3, LiteralType, ThenType DEF LineEffects
<1>5. Then(Then(DriverCall, Either("Announce", "Complain")), {<<"Statwin">>}) \subseteq Seq(E)
  BY <1>1, <1>4, LiteralType, ThenType DEF LineEffects
<1> QED BY <1>1, <1>2, <1>4, <1>5, LiteralType DEF CommandEffects, LineEffects

\* They are effects.
LEMMA CommandEffectsType ==
    ASSUME NEW letter
    PROVE  CommandEffects(letter) \subseteq Seq(Effects)
<1>1. LineEffects \subseteq Effects
  BY DEF LineEffects, Effects, LockEffects
<1> QED BY <1>1, CommandEffectsIn

-----------------------------------------------------------------------------
(* Types *)

\* Tail of a non-empty sequence of effects.
LEMMA TailType ==
    ASSUME NEW s \in Seq(Effects), s /= <<>>
    PROVE  Tail(s) \in Seq(Effects) /\ Head(s) \in Effects
  BY HeadTailProperties

\* The effects that are still to do stay a sequence of effects.
LEMMA TodoType == ControlType /\ [Next]_vars => todo' \in Seq(Effects)
<1> SUFFICES ASSUME ControlType, [Next]_vars PROVE todo' \in Seq(Effects)
  OBVIOUS
<1> USE DEF ControlType
<1>1. CASE UNCHANGED todo
  BY <1>1
<1>2. CASE todo /= <<>> /\ todo' = Tail(todo)
  BY <1>2, TailType
<1>3. CASE AnnounceWindow
  <2>1. <<"LogLine">> \in Seq(Effects) /\ Tail(todo) \in Seq(Effects)
    BY <1>3, TailType DEF AnnounceWindow, InSection, Effects
  <2> QED BY <1>3, <2>1, ConcatProperties DEF AnnounceWindow
<1>4. CASE Packet
  BY <1>4, HookEffectsType, PacketEffectsType DEF Packet
<1>5. CASE PlainKey
  <2>1. <<"Prompt">> \in Seq(Effects) /\ <<>> \in Seq(Effects)
    BY DEF Effects, LockEffects
  <2> QED BY <1>5, <2>1 DEF PlainKey
<1>6. CASE Command
  BY <1>6, CommandEffectsType DEF Command
<1>7. CASE StartRearm
  BY <1>7 DEF StartRearm, Effects, LockEffects
<1>8. CASE SkipEffect \/ Show \/ WritePacket \/ Resize \/ Rearm \/ Logging
           \/ AnnounceLog \/ Fail \/ Update \/ User
  BY <1>2, <1>8 DEF SkipEffect, Show, WritePacket, Resize, Rearm, Logging,
     AnnounceLog, Fail, Update, User, AnswerPrompt, DismissComplaint, Next1, InSection
<1>9. CASE Check \/ Await \/ PollReturns \/ NoKey \/ CursesKey
  BY <1>1, <1>9 DEF Check, Checkpoint, Await, PollReturns, NoKey, CursesKey
<1>10. CASE StopPPS \/ CloseLogFirst \/ RestoreTty \/ Explain \/ CloseLogAgain
  BY <1>1, <1>10 DEF StopPPS, CloseLogFirst, RestoreTty, Explain, CloseLogAgain
<1>11. CASE Acquire \/ PPS \/ Signal \/ Ended \/ UNCHANGED vars
  BY <1>1, <1>11 DEF Acquire, PPS, Pulse, PpsAcquire, PpsReport, Signal, Ended, vars
<1> QED BY <1>3, <1>4, <1>5, <1>6, <1>7, <1>8, <1>9, <1>10, <1>11 DEF Next, MainStep

\* The mode and the windows change only in a resize, the PPS thread only by
\* itself and by the shutdown.
LEMMA ConfigStep == ConfigType /\ [Next]_vars => ConfigType'
<1> SUFFICES ASSUME ConfigType, [Next]_vars PROVE ConfigType'
  OBVIOUS
<1> USE DEF ConfigType, config, thread
<1>1. CASE Resize
  BY <1>1 DEF Resize
<1>2. CASE StopPPS
  BY <1>2 DEF StopPPS
<1>3. CASE PPS
  BY <1>3 DEF PPS, Pulse, PpsAcquire, PpsReport
<1>4. CASE SkipEffect \/ Acquire \/ Show \/ WritePacket \/ Rearm \/ Logging \/ AnnounceWindow
           \/ AnnounceLog \/ Fail \/ Update \/ User
  BY <1>4 DEF SkipEffect, Acquire, Show, WritePacket, Rearm, Logging, AnnounceWindow,
     AnnounceLog, Fail, Update, User, AnswerPrompt, DismissComplaint
<1>5. CASE Check \/ Await \/ Packet \/ PollReturns \/ NoKey \/ CursesKey \/ PlainKey
           \/ Command \/ StartRearm
  BY <1>5 DEF Check, Checkpoint, Await, Packet, PollReturns, NoKey, CursesKey, PlainKey,
     Command, StartRearm
<1>6. CASE CloseLogFirst \/ RestoreTty \/ Explain \/ CloseLogAgain
  BY <1>6 DEF CloseLogFirst, RestoreTty, Explain, CloseLogAgain
<1>7. CASE Signal \/ Ended \/ UNCHANGED vars
  BY <1>7 DEF Signal, Ended, vars
<1> QED BY <1>1, <1>2, <1>3, <1>4, <1>5, <1>6, <1>7 DEF Next, MainStep

\* Every reason written to bailout is one of gpsmon.h's TERM_ codes, and main()
\* goes only to labels of its own.
LEMMA ControlStep == ControlType /\ [Next]_vars => ControlType'
<1> SUFFICES ASSUME ControlType, [Next]_vars PROVE ControlType'
  OBVIOUS
<1>0. todo' \in Seq(Effects)
  BY TodoType
<1> SUFFICES /\ bailout' \in {0} \cup Reasons
             /\ pc' \in {"loop", "await", "awaited", "poll", "polled", "input",
                         "command", "commanded", "rearm", "rearmed", "aborted"}
                        \cup Shutdown
  BY <1>0 DEF ControlType
<1> USE DEF ControlType, shared, Shutdown, Reasons
<1>1. CASE SkipEffect \/ Acquire \/ Show \/ Resize \/ Rearm \/ AnnounceWindow \/ Update \/ User
  BY <1>1 DEF SkipEffect, Acquire, Show, Resize, Rearm, AnnounceWindow, Update, User,
     AnswerPrompt, DismissComplaint
<1>2. CASE WritePacket \/ Logging \/ AnnounceLog
  BY <1>2 DEF WritePacket, Logging, AnnounceLog, FwriteAsserted, UseLog
<1>3. CASE Fail
  BY <1>3 DEF Fail, TERM_DRIVER_SWITCH
<1>4. CASE Check
  BY <1>4 DEF Check, Checkpoint
<1>5. CASE Await
  BY <1>5 DEF Await, TERM_SELECT_FAILED
<1>6. CASE PollReturns
  BY <1>6 DEF PollReturns, TERM_EMPTY_READ, TERM_READ_ERROR, TERM_QUIT
<1>7. CASE Packet \/ NoKey \/ CursesKey \/ PlainKey \/ StartRearm
  BY <1>7 DEF Packet, NoKey, CursesKey, PlainKey, StartRearm
<1>8. CASE Command
  BY <1>8 DEF Command, TERM_QUIT
<1>9. CASE StopPPS \/ CloseLogFirst \/ RestoreTty \/ Explain \/ CloseLogAgain
  BY <1>9 DEF StopPPS, CloseLogFirst, RestoreTty, Explain, CloseLogAgain, CloseLog
<1>10. CASE PPS
  BY <1>10 DEF PPS, Pulse, PpsAcquire, PpsReport, UseLog
<1>11. CASE Signal
  BY <1>11 DEF Signal, TERM_QUIT, TERM_SIGNAL
<1>12. CASE Ended \/ UNCHANGED vars
  BY <1>12 DEF Ended, vars
<1> QED BY <1>1, <1>2, <1>3, <1>4, <1>5, <1>6, <1>7, <1>8, <1>9, <1>10, <1>11, <1>12
        DEF Next, MainStep

\* The lock, the terminal and the log stream.
LEMMA SharedStep == SharedType /\ [Next]_vars => SharedType'
<1> SUFFICES ASSUME SharedType, [Next]_vars PROVE SharedType'
  OBVIOUS
<1> USE DEF SharedType, shared
<1>1. CASE Acquire
  BY <1>1 DEF Acquire
<1>2. CASE Show \/ WritePacket \/ Resize \/ Rearm \/ AnnounceWindow \/ AnswerPrompt
  BY <1>2 DEF Show, WritePacket, Resize, Rearm, AnnounceWindow, AnswerPrompt, Release
<1>3. CASE Logging
  BY <1>3 DEF Logging, Release
<1>4. CASE SkipEffect \/ AnnounceLog \/ Fail \/ Update \/ DismissComplaint
  BY <1>4 DEF SkipEffect, AnnounceLog, Fail, Update, DismissComplaint
<1>5. CASE Check \/ Await \/ Packet \/ PollReturns \/ NoKey \/ CursesKey \/ PlainKey
           \/ Command \/ StartRearm
  BY <1>5 DEF Check, Checkpoint, Await, Packet, PollReturns, NoKey, CursesKey, PlainKey,
     Command, StartRearm
<1>6. CASE StopPPS \/ CloseLogFirst \/ RestoreTty \/ Explain \/ CloseLogAgain
  BY <1>6 DEF StopPPS, CloseLogFirst, RestoreTty, Explain, CloseLogAgain, CloseLog
<1>7. CASE PPS
  BY <1>7 DEF PPS, Pulse, PpsAcquire, PpsReport
<1>8. CASE Signal \/ Ended \/ UNCHANGED vars
  BY <1>8 DEF Signal, Ended, vars
<1> QED BY <1>1, <1>2, <1>3, <1>4, <1>5, <1>6, <1>7, <1>8 DEF Next, MainStep, User

\* What the main loop has read: descriptors, packets and a line.
LEMMA InputStep == InputType /\ [Next]_vars => InputType'
<1> SUFFICES ASSUME InputType, [Next]_vars PROVE InputType'
  OBVIOUS
<1> USE MaxPacketsAssumption DEF InputType, input
<1>1. CASE AnswerPrompt
  BY <1>1 DEF AnswerPrompt
<1>2. CASE CursesKey
  BY <1>2 DEF CursesKey
<1>3. CASE Await
  BY <1>3 DEF Await
<1>4. CASE Packet
  BY <1>4 DEF Packet
<1>5. CASE Command
  BY <1>5 DEF Command
<1>6. CASE SkipEffect \/ Acquire \/ Show \/ WritePacket \/ Resize \/ Rearm \/ Logging
           \/ AnnounceWindow \/ AnnounceLog \/ Fail \/ Update \/ DismissComplaint
  BY <1>6 DEF SkipEffect, Acquire, Show, WritePacket, Resize, Rearm, Logging,
     AnnounceWindow, AnnounceLog, Fail, Update, DismissComplaint
<1>7. CASE Check \/ PollReturns \/ NoKey \/ PlainKey \/ StartRearm
  BY <1>7 DEF Check, Checkpoint, PollReturns, NoKey, PlainKey, StartRearm
<1>8. CASE StopPPS \/ CloseLogFirst \/ RestoreTty \/ Explain \/ CloseLogAgain
  BY <1>8 DEF StopPPS, CloseLogFirst, RestoreTty, Explain, CloseLogAgain
<1>9. CASE PPS \/ Signal \/ Ended \/ UNCHANGED vars
  BY <1>9 DEF PPS, Pulse, PpsAcquire, PpsReport, Signal, Ended, vars
<1> QED BY <1>1, <1>2, <1>3, <1>4, <1>5, <1>6, <1>7, <1>8, <1>9 DEF Next, MainStep, User

\* The program starts in the ranges of TypeOK.
LEMMA TypeInit == Init => TypeOK
<1> SUFFICES ASSUME Init PROVE TypeOK
  OBVIOUS
<1>1. ConfigType
  <2>1. serial \in BOOLEAN /\ curses \in BOOLEAN /\ packetwin \in BOOLEAN
    BY DEF Init
  <2>2. ppsHook \in BOOLEAN /\ pps \in {"none", "idle", "calling", "in"}
    BY DEF Init
  <2> QED BY <2>1, <2>2 DEF ConfigType
<1>2. ControlType
  BY DEF Init, ControlType, Reasons, TERM_CURSES
<1>3. SharedType
  BY DEF Init, SharedType
<1>4. InputType
  <2>1. cmdline \in Lines \cup {NoLine}
    BY DEF Init
  <2>2. ready \subseteq {"device", "stdin"} /\ packets \in 0..MaxPackets
    BY MaxPacketsAssumption DEF Init
  <2> QED BY <2>1, <2>2 DEF InputType
<1> QED BY <1>1, <1>2, <1>3, <1>4 DEF TypeOK

\* No step leaves them.
LEMMA TypeStep == TypeOK /\ [Next]_vars => TypeOK'
  BY ConfigStep, ControlStep, SharedStep, InputStep DEF TypeOK

\* TypeOK: every variable keeps its range through every action of main(), the
\* PPS thread and the signal handler.
THEOREM TypeCorrect == Spec => []TypeOK
  BY TypeInit, TypeStep, PTL DEF Spec

-----------------------------------------------------------------------------
(* The report lock *)

\* A thread is in a lock section exactly when it owns the mutex.
LockInv == /\ lock = "main" <=> section = "in"
           /\ lock = "pps"  <=> pps = "in"

\* The mutex starts free.
LEMMA LockInit == Init => LockInv
  BY DEF Init, LockInv

\* Sections are entered with the mutex and left by releasing it.
LEMMA LockStep == LockInv /\ [Next]_vars => LockInv'
<1> SUFFICES ASSUME LockInv, [Next]_vars PROVE LockInv'
  OBVIOUS
<1> USE DEF LockInv
<1>1. CASE Acquire
  BY <1>1 DEF Acquire, thread
<1>2. CASE Show \/ WritePacket \/ Resize \/ Rearm \/ Logging \/ AnnounceWindow \/ AnswerPrompt
  BY <1>2 DEF Show, WritePacket, Resize, Rearm, Logging, AnnounceWindow, AnswerPrompt,
     InSection, Release, thread
<1>3. CASE SkipEffect \/ AnnounceLog \/ Fail \/ Update \/ DismissComplaint
  BY <1>3 DEF SkipEffect, AnnounceLog, Fail, Update, DismissComplaint, thread, shared
<1>4. CASE Check \/ Await \/ Packet \/ PollReturns \/ NoKey \/ CursesKey \/ PlainKey
           \/ Command \/ StartRearm
  BY <1>4 DEF Check, Checkpoint, Await, Packet, PollReturns, NoKey, CursesKey,
     PlainKey, Command, StartRearm, thread, shared
<1>5. CASE StopPPS \/ CloseLogFirst \/ RestoreTty \/ Explain \/ CloseLogAgain
  BY <1>5 DEF StopPPS, CloseLogFirst, RestoreTty, Explain, CloseLogAgain, thread, shared
<1>6. CASE PPS
  BY <1>6 DEF PPS, Pulse, PpsAcquire, PpsReport, shared
<1>7. CASE Signal \/ Ended \/ UNCHANGED vars
  BY <1>7 DEF Signal, Ended, vars, thread
<1> QED BY <1>1, <1>2, <1>3, <1>4, <1>5, <1>6, <1>7 DEF Next, MainStep, User

\* OneWriter: main() and pps_report() never write together, whatever packets,
\* commands, pulses and signals come, and in whatever order.
THEOREM Exclusive == Spec => []OneWriter
<1>1. LockInv => OneWriter
  BY DEF LockInv, OneWriter
<1> QED BY <1>1, LockInit, LockStep, PTL DEF Spec

-----------------------------------------------------------------------------
(* Stopping *)

\* No action resets bailout.
LEMMA StopStep == bailout /= 0 /\ [Next]_vars => bailout' /= 0
<1> SUFFICES ASSUME bailout /= 0, [Next]_vars PROVE bailout' /= 0
  OBVIOUS
<1> USE DEF shared
<1>1. CASE SkipEffect \/ Acquire \/ Show \/ WritePacket \/ Resize \/ Rearm \/ Logging
           \/ AnnounceWindow \/ AnnounceLog \/ Update \/ User
  BY <1>1 DEF SkipEffect, Acquire, Show, WritePacket, Resize, Rearm, Logging,
     AnnounceWindow, AnnounceLog, Update, User, AnswerPrompt, DismissComplaint
<1>2. CASE Fail
  BY <1>2 DEF Fail, TERM_DRIVER_SWITCH
<1>3. CASE Await
  BY <1>3 DEF Await, TERM_SELECT_FAILED
<1>4. CASE PollReturns
  BY <1>4 DEF PollReturns, TERM_EMPTY_READ, TERM_READ_ERROR, TERM_QUIT
<1>5. CASE Command
  BY <1>5 DEF Command, TERM_QUIT
<1>6. CASE Check \/ Packet \/ NoKey \/ CursesKey \/ PlainKey \/ StartRearm
  BY <1>6 DEF Check, Checkpoint, Packet, NoKey, CursesKey, PlainKey, StartRearm
<1>7. CASE StopPPS \/ CloseLogFirst \/ RestoreTty \/ Explain \/ CloseLogAgain
  BY <1>7 DEF StopPPS, CloseLogFirst, RestoreTty, Explain, CloseLogAgain
<1>8. CASE PPS
  BY <1>8 DEF PPS, Pulse, PpsAcquire, PpsReport
<1>9. CASE Signal
  BY <1>9 DEF Signal, TERM_QUIT, TERM_SIGNAL
<1>10. CASE Ended \/ UNCHANGED vars
  BY <1>10 DEF Ended, vars
<1> QED BY <1>1, <1>2, <1>3, <1>4, <1>5, <1>6, <1>7, <1>8, <1>9, <1>10
        DEF Next, MainStep

\* main() is in its shutdown only after bailout was set.
StoppedInv == pc \in Shutdown => bailout /= 0

\* KnownReason: the explanation switch never takes its default case.
THEOREM ReasonKnown == Spec => []KnownReason
<1>1. Init => StoppedInv
  BY DEF Init, StoppedInv, Shutdown
<1>2. StoppedInv /\ [Next]_vars => StoppedInv'
  <2> SUFFICES ASSUME StoppedInv, [Next]_vars, pc' \in Shutdown, pc \notin Shutdown
               PROVE  bailout' /= 0
    BY StopStep DEF StoppedInv
  <2> USE DEF Shutdown, shared
  <2>1. CASE Check
    BY <2>1 DEF Check, Checkpoint
  <2>2. CASE SkipEffect \/ Acquire \/ Show \/ WritePacket \/ Resize \/ Rearm \/ Logging
             \/ AnnounceWindow \/ AnnounceLog \/ Fail \/ Update \/ User
    BY <2>2 DEF SkipEffect, Acquire, Show, WritePacket, Resize, Rearm, Logging,
       AnnounceWindow, AnnounceLog, Fail, Update, User, AnswerPrompt,
       DismissComplaint, FwriteAsserted, UseLog
  <2>3. CASE Await \/ Packet \/ PollReturns \/ NoKey \/ CursesKey \/ PlainKey
             \/ Command \/ StartRearm
    BY <2>3 DEF Await, Packet, PollReturns, NoKey, CursesKey, PlainKey, Command,
       StartRearm
  <2>4. CASE StopPPS \/ CloseLogFirst \/ RestoreTty \/ Explain \/ CloseLogAgain
    BY <2>4 DEF StopPPS, CloseLogFirst, RestoreTty, Explain, CloseLogAgain, At
  <2>5. CASE PPS \/ Signal \/ Ended \/ UNCHANGED vars
    BY <2>5 DEF PPS, Pulse, PpsAcquire, PpsReport, UseLog, Signal, Ended, vars
  <2> QED BY <2>1, <2>2, <2>3, <2>4, <2>5 DEF Next, MainStep
<1>3. StoppedInv /\ TypeOK => KnownReason
  BY DEF StoppedInv, TypeOK, ControlType, KnownReason
<1> QED BY <1>1, <1>2, <1>3, TypeCorrect, PTL DEF Spec

-----------------------------------------------------------------------------
(* Where effects are pending *)

\* Effects are pending only in a poll, in and after a command and in the
\* return to single-byte input, which has but one.
TodoInv ==
    /\ pc \in {"loop", "await", "awaited", "polled", "input", "rearm"} \cup Shutdown
          => todo = <<>>
    /\ pc = "rearmed" => todo \in {<<>>, <<"Rearm">>}

\* The main loop goes on to its next label only when its effects are done.
LEMMA TodoStep == TypeOK /\ TodoInv /\ [Next]_vars => TodoInv'
<1> SUFFICES ASSUME TypeOK, TodoInv, [Next]_vars PROVE TodoInv'
  OBVIOUS
<1> USE DEF TodoInv, shared, Shutdown
<1>0. <<"Rearm">> /= <<>> /\ Tail(<<"Rearm">>) = <<>> /\ Head(<<"Rearm">>) = "Rearm"
  OBVIOUS
<1>1. CASE pc' = pc /\ todo' = todo
  BY <1>1
<1>2. ASSUME todo /= <<>>, pc' \in {pc, "aborted"}, todo' = Tail(todo)
      PROVE  TodoInv'
  BY <1>0, <1>2
<1>3. CASE SkipEffect \/ Show \/ WritePacket \/ Resize \/ Rearm \/ Logging \/ AnnounceLog
           \/ Fail \/ Update \/ User
  BY <1>2, <1>3 DEF SkipEffect, Show, WritePacket, Resize, Rearm, Logging, AnnounceLog,
     Fail, Update, User, AnswerPrompt, DismissComplaint, Next1, InSection, UseLog,
     FwriteAsserted
<1>4. CASE AnnounceWindow
  BY <1>0, <1>4 DEF AnnounceWindow, InSection
<1>5. CASE Check
  BY <1>5 DEF Check, Checkpoint, At
<1>6. CASE Await \/ Packet \/ PollReturns \/ NoKey \/ CursesKey \/ PlainKey
  BY <1>6 DEF Await, Packet, PollReturns, NoKey, CursesKey, PlainKey, At
<1>7. CASE Command \/ StartRearm
  BY <1>7 DEF Command, StartRearm, At
<1>8. CASE StopPPS \/ CloseLogFirst \/ RestoreTty \/ Explain \/ CloseLogAgain
  BY <1>8 DEF StopPPS, CloseLogFirst, RestoreTty, Explain, CloseLogAgain, CloseLog, At
<1>9. CASE PPS
  BY <1>9 DEF PPS, Pulse, PpsAcquire, PpsReport, UseLog
<1>10. CASE Acquire \/ Signal \/ Ended \/ UNCHANGED vars
  BY <1>1, <1>10 DEF Acquire, Signal, Ended, vars
<1> QED BY <1>3, <1>4, <1>5, <1>6, <1>7, <1>8, <1>9, <1>10 DEF Next, MainStep

-----------------------------------------------------------------------------
(* The end of the process *)

\* logfile never becomes NULL again.
LEMMA LogStays == log /= "none" /\ [Next]_vars => log' /= "none"
<1> SUFFICES ASSUME log /= "none", [Next]_vars PROVE log' /= "none"
  OBVIOUS
<1> USE DEF shared
<1>1. CASE Logging
  BY <1>1 DEF Logging
<1>2. CASE CloseLogFirst \/ CloseLogAgain
  BY <1>2 DEF CloseLogFirst, CloseLogAgain, CloseLog
<1>3. CASE SkipEffect \/ Acquire \/ Show \/ WritePacket \/ Resize \/ Rearm
           \/ AnnounceWindow \/ AnnounceLog \/ Fail \/ Update \/ User
  BY <1>3 DEF SkipEffect, Acquire, Show, WritePacket, Resize, Rearm,
     AnnounceWindow, AnnounceLog, Fail, Update, User, AnswerPrompt, DismissComplaint
<1>4. CASE Check \/ Await \/ Packet \/ PollReturns \/ NoKey \/ CursesKey \/ PlainKey
           \/ Command \/ StartRearm
  BY <1>4 DEF Check, Checkpoint, Await, Packet, PollReturns, NoKey, CursesKey, PlainKey,
     Command, StartRearm
<1>5. CASE StopPPS \/ RestoreTty \/ Explain
  BY <1>5 DEF StopPPS, RestoreTty, Explain
<1>6. CASE PPS \/ Signal \/ Ended \/ UNCHANGED vars
  BY <1>6 DEF PPS, Pulse, PpsAcquire, PpsReport, Signal, Ended, vars
<1> QED BY <1>1, <1>2, <1>3, <1>4, <1>5, <1>6 DEF Next, MainStep

\* All but the drawing of a monitor.
Undrawn == Effects \ {"Update"}

\* Without curses no monitor is drawn: a packet selects none.
PlainInv == ~curses => todo \in Seq(Undrawn)

\* Without curses a packet does not reach select_packet_monitor() (gpsmon_hook()).
LEMMA PlainHook == ~curses => HookEffects \subseteq Seq(Undrawn)
<1> SUFFICES ASSUME ~curses PROVE HookEffects \subseteq Seq(Undrawn)
  OBVIOUS
<1>1. {"Dump", "Complain", "Output"} \subseteq Undrawn
  BY DEF Undrawn, Effects, LockEffects
<1>2. (IF serial THEN DriverCall ELSE Nothing) \subseteq Seq(Undrawn)
  BY <1>1, LiteralType, DriverCallType
<1>3. (IF serial THEN {} ELSE Nothing \cup Either("Complain", "Output")) \cup {<<"Output">>}
           \subseteq Seq(Undrawn)
  BY <1>1, LiteralType
<1> QED BY <1>2, <1>3, ThenType DEF HookEffects

\* No step adds one.
LEMMA PlainStep == PlainInv /\ [Next]_vars => PlainInv'
<1> SUFFICES ASSUME PlainInv, [Next]_vars PROVE PlainInv'
  OBVIOUS
<1> USE DEF PlainInv, config
<1>1. CASE UNCHANGED <<todo, curses>>
  BY <1>1
<1>2. ASSUME todo /= <<>>, todo' = Tail(todo), curses' = curses PROVE PlainInv'
  BY <1>2, HeadTailProperties
<1>3. CASE SkipEffect \/ Show \/ WritePacket \/ Resize \/ Rearm \/ Logging \/ AnnounceLog
           \/ Fail \/ Update \/ User
  BY <1>2, <1>3 DEF SkipEffect, Show, WritePacket, Resize, Rearm, Logging, AnnounceLog, Fail,
     Update, User, AnswerPrompt, DismissComplaint, Next1, InSection
<1>4. CASE AnnounceWindow
  <2>1. ~curses => <<"LogLine">> \in Seq(Undrawn) /\ Tail(todo) \in Seq(Undrawn)
    BY <1>4, HeadTailProperties DEF AnnounceWindow, InSection, Undrawn, Effects
  <2> QED BY <1>4, <2>1, ConcatProperties DEF AnnounceWindow
<1>5. CASE Packet
  BY <1>5, PlainHook DEF Packet
<1>6. CASE PlainKey \/ StartRearm
  <2>1. {<<"Prompt">>, <<>>, <<"Rearm">>} \subseteq Seq(Undrawn)
    BY DEF Undrawn, Effects, LockEffects
  <2> QED BY <1>6, <2>1 DEF PlainKey, StartRearm, At
<1>7. CASE Command
  <2>1. LineEffects \subseteq Undrawn
    BY DEF LineEffects, Undrawn, Effects, LockEffects
  <2> QED BY <1>7, <2>1, CommandEffectsIn DEF Command
<1>8. CASE Check \/ Await \/ PollReturns \/ NoKey \/ CursesKey
  BY <1>1, <1>8 DEF Check, Checkpoint, Await, PollReturns, NoKey, CursesKey
<1>9. CASE StopPPS \/ CloseLogFirst \/ RestoreTty \/ Explain \/ CloseLogAgain
  BY <1>1, <1>9 DEF StopPPS, CloseLogFirst, RestoreTty, Explain, CloseLogAgain
<1>10. CASE Acquire \/ PPS \/ Signal \/ Ended \/ UNCHANGED vars
  BY <1>1, <1>10 DEF Acquire, PPS, Pulse, PpsAcquire, PpsReport, Signal, Ended, vars
<1> QED BY <1>3, <1>4, <1>5, <1>6, <1>7, <1>8, <1>9, <1>10 DEF Next, MainStep

\* A step that ends the process in between uses a log, draws a monitor or reads a
\* key under curses.
LEMMA DeathStep ==
    pc /= "aborted" /\ [Next]_vars /\ pc' = "aborted"
        => log /= "none" \/ curses \/ (todo /= <<>> /\ Head(todo) = "Update")
<1> SUFFICES ASSUME pc /= "aborted", [Next]_vars, pc' = "aborted"
             PROVE  log /= "none" \/ curses \/ (todo /= <<>> /\ Head(todo) = "Update")
  OBVIOUS
<1> USE DEF UseLog
<1>1. CASE WritePacket \/ Logging \/ AnnounceLog \/ PpsReport
  BY <1>1 DEF WritePacket, Logging, AnnounceLog, PpsReport, FwriteAsserted
<1>2. CASE CloseLogFirst \/ CloseLogAgain
  BY <1>2 DEF CloseLogFirst, CloseLogAgain, CloseLog
<1>3. CASE Update \/ CursesKey
  BY <1>3 DEF Update, CursesKey
<1>4. CASE SkipEffect \/ Acquire \/ Show \/ Resize \/ Rearm
           \/ AnnounceWindow \/ Fail \/ User
  BY <1>4 DEF SkipEffect, Acquire, Show, Resize, Rearm,
     AnnounceWindow, Fail, User, AnswerPrompt, DismissComplaint
<1>5. CASE Check \/ Await \/ Packet \/ PollReturns \/ NoKey \/ PlainKey
           \/ Command \/ StartRearm
  BY <1>5 DEF Check, Checkpoint, Await, Packet, PollReturns, NoKey, PlainKey,
     Command, StartRearm
<1>6. CASE StopPPS \/ RestoreTty \/ Explain
  BY <1>6 DEF StopPPS, RestoreTty, Explain
<1>7. CASE Pulse \/ PpsAcquire \/ Signal \/ Ended \/ UNCHANGED vars
  BY <1>7 DEF Pulse, PpsAcquire, Signal, Ended, vars
<1> QED BY <1>1, <1>2, <1>3, <1>4, <1>5, <1>6, <1>7 DEF Next, MainStep, PPS

\* Curses is chosen at the start.
LEMMA ModeStep == [Next]_vars => curses' = curses
<1> SUFFICES ASSUME [Next]_vars PROVE curses' = curses
  OBVIOUS
<1> USE DEF config
<1>1. CASE SkipEffect \/ Acquire \/ Show \/ WritePacket \/ Resize \/ Rearm \/ Logging
           \/ AnnounceWindow \/ AnnounceLog \/ Fail \/ Update \/ User
  BY <1>1 DEF SkipEffect, Acquire, Show, WritePacket, Resize, Rearm, Logging, AnnounceWindow,
     AnnounceLog, Fail, Update, User, AnswerPrompt, DismissComplaint
<1>2. CASE Check \/ Await \/ Packet \/ PollReturns \/ NoKey \/ CursesKey \/ PlainKey
           \/ Command \/ StartRearm
  BY <1>2 DEF Check, Checkpoint, Await, Packet, PollReturns, NoKey, CursesKey, PlainKey,
     Command, StartRearm
<1>3. CASE StopPPS \/ CloseLogFirst \/ RestoreTty \/ Explain \/ CloseLogAgain
  BY <1>3 DEF StopPPS, CloseLogFirst, RestoreTty, Explain, CloseLogAgain
<1>4. CASE PPS \/ Signal \/ Ended \/ UNCHANGED vars
  BY <1>4 DEF PPS, Pulse, PpsAcquire, PpsReport, Signal, Ended, vars
<1> QED BY <1>1, <1>2, <1>3, <1>4 DEF Next, MainStep

\* PlainSessionSurvives: without curses and without a log the process ends through
\* its regular exit, whatever the packets, lines, pulses and signals.
THEOREM PlainSurvives == Spec => []PlainSessionSurvives
<1>1. Init => PlainInv /\ PlainSessionSurvives
  BY DEF Init, PlainInv, PlainSessionSurvives
<1>2. PlainInv /\ PlainSessionSurvives /\ [Next]_vars => PlainInv' /\ PlainSessionSurvives'
  <2> SUFFICES ASSUME PlainInv, PlainSessionSurvives, [Next]_vars, ~curses', log' = "none"
               PROVE  pc' /= "aborted"
    BY PlainStep DEF PlainSessionSurvives
  <2>1. ~curses /\ log = "none" /\ pc /= "aborted"
    BY ModeStep, LogStays DEF PlainSessionSurvives
  <2>2. todo /= <<>> => Head(todo) /= "Update"
    BY <2>1, HeadTailProperties DEF PlainInv, Undrawn
  <2> QED BY <2>1, <2>2, DeathStep
<1> QED BY <1>1, <1>2, PTL DEF Spec

-----------------------------------------------------------------------------
(* The terminal *)

\* Where main() is between reading single bytes and reading them again.
ByteLabels == {"loop", "await", "awaited", "poll", "polled", "input"}

\* Single bytes are read again before the loop comes back to its top.
BytesInv == ~curses => /\ pc \in ByteLabels => tty = "rare"
                       /\ pc = "rearmed" /\ todo = <<>> => tty = "rare"

\* The section that is being executed, and its terminal mode.
SectionInv == section = "in" => /\ todo /= <<>>
                                /\ Head(todo) \in LockEffects /\ ~Idle(Head(todo))
                                /\ Head(todo) = "Prompt" => tty = "cooked"

\* No prompt is pending while packets are worked off.
PollInv == pc = "poll" => todo \in Seq(PacketEffects)

\* The shutdown has restored the terminal.
CookedInv == pc \in {"explain", "closeAgain", "exited"} => tty = "cooked"

TtyInv == BytesInv /\ SectionInv /\ PollInv /\ CookedInv

\* A poll does what its packets ask for, one after the other.
LEMMA PollStep == TypeOK /\ PollInv /\ [Next]_vars => PollInv'
<1> SUFFICES ASSUME PollInv, [Next]_vars, pc' = "poll" PROVE todo' \in Seq(PacketEffects)
  BY DEF PollInv
<1> USE DEF PollInv
<1>1. CASE Packet
  BY <1>1, HookEffectsType DEF Packet
<1>2. ASSUME todo /= <<>>, todo' = Tail(todo), pc = "poll" PROVE todo' \in Seq(PacketEffects)
  BY <1>2, HeadTailProperties
<1>3. CASE SkipEffect \/ Show \/ WritePacket \/ Resize \/ Rearm \/ Logging \/ AnnounceLog
           \/ Fail \/ Update \/ User
  BY <1>2, <1>3 DEF SkipEffect, Show, WritePacket, Resize, Rearm, Logging, AnnounceLog, Fail,
     Update, User, AnswerPrompt, DismissComplaint, Next1, InSection, UseLog, FwriteAsserted
<1>4. CASE AnnounceWindow
  <2>1. pc = "poll" /\ todo /= <<>> /\ Head(todo) = "Announce"
    BY <1>4 DEF AnnounceWindow, InSection
  <2>2. Head(todo) \in PacketEffects
    BY <2>1, HeadTailProperties
  <2> QED BY <2>1, <2>2 DEF PacketEffects
<1>5. CASE Check
  <2>1. todo' = <<>>
    BY <1>5 DEF Check, Checkpoint, At
  <2> QED BY <2>1
<1>6. CASE Await \/ PollReturns \/ NoKey \/ CursesKey \/ PlainKey \/ Command \/ StartRearm
  BY <1>6 DEF Await, PollReturns, NoKey, CursesKey, PlainKey, Command, StartRearm
<1>7. CASE StopPPS \/ CloseLogFirst \/ RestoreTty \/ Explain \/ CloseLogAgain
  BY <1>7 DEF StopPPS, CloseLogFirst, RestoreTty, Explain, CloseLogAgain, CloseLog
<1>8. CASE PPS
  BY <1>8 DEF PPS, Pulse, PpsAcquire, PpsReport, UseLog
<1>9. CASE Acquire \/ Signal \/ Ended \/ UNCHANGED vars
  BY <1>9 DEF Acquire, Signal, Ended, vars
<1> QED BY <1>1, <1>3, <1>4, <1>5, <1>6, <1>7, <1>8, <1>9 DEF Next, MainStep

\* A section ends with the effect it was entered for.
LEMMA SectionStep == SectionInv /\ [Next]_vars => SectionInv'
<1> SUFFICES ASSUME SectionInv, [Next]_vars PROVE SectionInv'
  OBVIOUS
<1> USE DEF SectionInv, shared, config
<1>1. CASE Acquire
  BY <1>1 DEF Acquire, Idle
<1>2. CASE Show \/ WritePacket \/ Resize \/ Rearm \/ Logging \/ AnnounceWindow \/ AnswerPrompt
  BY <1>2 DEF Show, WritePacket, Resize, Rearm, Logging, AnnounceWindow, AnswerPrompt, Release
<1>3. CASE SkipEffect \/ AnnounceLog \/ Fail \/ Update \/ DismissComplaint
  BY <1>3 DEF SkipEffect, AnnounceLog, Fail, Update, DismissComplaint, LockEffects
<1>4. CASE Check \/ Await \/ Packet \/ PollReturns \/ NoKey \/ CursesKey \/ PlainKey
           \/ Command \/ StartRearm
  BY <1>4 DEF Check, Checkpoint, Await, Packet, PollReturns, NoKey, CursesKey, PlainKey,
     Command, StartRearm, At
<1>5. CASE StopPPS \/ CloseLogFirst \/ RestoreTty \/ Explain \/ CloseLogAgain
  BY <1>5 DEF StopPPS, CloseLogFirst, RestoreTty, Explain, CloseLogAgain, At
<1>6. CASE PPS \/ Signal \/ Ended \/ UNCHANGED vars
  BY <1>6 DEF PPS, Pulse, PpsAcquire, PpsReport, Signal, Ended, vars, Idle
<1> QED BY <1>1, <1>2, <1>3, <1>4, <1>5, <1>6 DEF Next, MainStep, User

\* Only the prompt of a command takes the terminal out of single-byte mode, and
\* Rearm brings it back.
LEMMA BytesStep ==
    TypeOK /\ TodoInv /\ PollInv /\ BytesInv /\ [Next]_vars => BytesInv'
<1> SUFFICES ASSUME TypeOK, TodoInv, PollInv, BytesInv, [Next]_vars PROVE BytesInv'
  OBVIOUS
<1> USE DEF BytesInv, ByteLabels, TodoInv, Shutdown, shared, config
<1>0. <<"Rearm">> /= <<>> /\ Tail(<<"Rearm">>) = <<>> /\ Head(<<"Rearm">>) = "Rearm"
  OBVIOUS
<1>1. CASE Acquire
  <2>1. pc = "poll" => Head(todo) /= "Prompt"
    <3>1. pc = "poll" => Head(todo) \in PacketEffects
      BY <1>1, HeadTailProperties DEF Acquire, PollInv
    <3> QED BY <3>1 DEF PacketEffects
  <2> QED BY <1>0, <1>1, <2>1 DEF Acquire
<1>2. CASE Rearm
  BY <1>2 DEF Rearm
<1>3. CASE SkipEffect \/ Show \/ WritePacket \/ Resize \/ Logging \/ AnnounceLog
           \/ Fail \/ Update \/ User
  <2>1. pc = "rearmed" => todo = <<>>
    BY <1>0, <1>3 DEF SkipEffect, Show, WritePacket, Resize, Logging, AnnounceLog, Fail,
       Update, User, AnswerPrompt, DismissComplaint, InSection, Idle
  <2> QED BY <1>3, <2>1 DEF SkipEffect, Show, WritePacket, Resize, Logging, AnnounceLog, Fail,
       Update, User, AnswerPrompt, DismissComplaint, InSection, UseLog, FwriteAsserted
<1>4. CASE AnnounceWindow
  BY <1>0, <1>4 DEF AnnounceWindow, InSection
<1>5. CASE Check
  BY <1>5 DEF Check, Checkpoint, At
<1>6. CASE Await \/ Packet \/ PollReturns \/ NoKey \/ CursesKey \/ PlainKey \/ Command
  BY <1>6 DEF Await, Packet, PollReturns, NoKey, CursesKey, PlainKey, Command, At
<1>7. CASE StartRearm
  BY <1>0, <1>7 DEF StartRearm
<1>8. CASE StopPPS \/ CloseLogFirst \/ RestoreTty \/ Explain \/ CloseLogAgain
  BY <1>8 DEF StopPPS, CloseLogFirst, RestoreTty, Explain, CloseLogAgain, CloseLog
<1>9. CASE PPS
  BY <1>9 DEF PPS, Pulse, PpsAcquire, PpsReport, UseLog
<1>10. CASE Signal \/ Ended \/ UNCHANGED vars
  BY <1>10 DEF Signal, Ended, vars
<1> QED BY <1>1, <1>2, <1>3, <1>4, <1>5, <1>6, <1>7, <1>8, <1>9, <1>10 DEF Next, MainStep

\* Nothing is pending in the shutdown that could change the mode again.
LEMMA CookedStep == TodoInv /\ CookedInv /\ [Next]_vars => CookedInv'
<1> SUFFICES ASSUME TodoInv, CookedInv, [Next]_vars PROVE CookedInv'
  OBVIOUS
<1> USE DEF CookedInv, TodoInv, Shutdown, shared
<1>1. CASE Acquire \/ Rearm
  BY <1>1 DEF Acquire, Rearm, InSection
<1>2. CASE SkipEffect \/ Show \/ WritePacket \/ Resize \/ Logging \/ AnnounceWindow
           \/ AnnounceLog \/ Fail \/ Update \/ User
  BY <1>2 DEF SkipEffect, Show, WritePacket, Resize, Logging, AnnounceWindow, AnnounceLog,
     Fail, Update, User, AnswerPrompt, DismissComplaint, UseLog, FwriteAsserted
<1>3. CASE Check \/ Await \/ Packet \/ PollReturns \/ NoKey \/ CursesKey \/ PlainKey
           \/ Command \/ StartRearm
  BY <1>3 DEF Check, Checkpoint, Await, Packet, PollReturns, NoKey, CursesKey, PlainKey,
     Command, StartRearm, At
<1>4. CASE StopPPS \/ CloseLogFirst \/ RestoreTty \/ Explain \/ CloseLogAgain
  BY <1>4 DEF StopPPS, CloseLogFirst, RestoreTty, Explain, CloseLogAgain, CloseLog, At
<1>5. CASE PPS \/ Signal \/ Ended \/ UNCHANGED vars
  BY <1>5 DEF PPS, Pulse, PpsAcquire, PpsReport, UseLog, Signal, Ended, vars
<1> QED BY <1>1, <1>2, <1>3, <1>4, <1>5 DEF Next, MainStep

\* TerminalMode: bytes are read unbuffered, lines with echo, and the user gets
\* the terminal back.
THEOREM TerminalInMode == Spec => []TerminalMode
<1>1. Init => TodoInv /\ TtyInv
  BY DEF Init, TodoInv, Shutdown, TtyInv, BytesInv, SectionInv, PollInv, CookedInv
<1>2. TypeOK /\ TodoInv /\ TtyInv /\ [Next]_vars => TodoInv' /\ TtyInv'
  BY TodoStep, PollStep, SectionStep, BytesStep, CookedStep DEF TtyInv
<1>3. TtyInv => TerminalMode
  BY DEF TtyInv, BytesInv, ByteLabels, SectionInv, CookedInv, TerminalMode, InSection
<1> QED BY <1>1, <1>2, <1>3, TypeCorrect, PTL DEF Spec

-----------------------------------------------------------------------------
(* The way to the end *)

\* Sequences of at most n effects.
UpTo(n) == {s \in Seq(Effects) : Len(s) <= n}

\* Effects one after the other add up.
LEMMA ThenLength ==
    ASSUME NEW m \in Nat, NEW n \in Nat, NEW S \in SUBSET UpTo(m), NEW T \in SUBSET UpTo(n)
    PROVE  Then(S, T) \subseteq UpTo(m + n)
<1> SUFFICES ASSUME NEW x \in Then(S, T) PROVE x \in UpTo(m + n)
  OBVIOUS
<1>1. PICK s \in S, t \in T : x = s \o t
  BY DEF Then
<1>2. s \in Seq(Effects) /\ t \in Seq(Effects) /\ Len(s) <= m /\ Len(t) <= n
  BY DEF UpTo
<1>3. x \in Seq(Effects) /\ Len(x) = Len(s) + Len(t) /\ Len(s) \in Nat /\ Len(t) \in Nat
  BY <1>1, <1>2, ConcatProperties, LenProperties
<1> QED BY <1>2, <1>3 DEF UpTo

\* The lengths of what a handler is put together from.
LEMMA LiteralLength ==
    /\ \A n \in Nat : Nothing \in SUBSET UpTo(n)
    /\ \A e \in Effects : {<<e>>} \in SUBSET UpTo(1)
    /\ \A e \in Effects, f \in Effects :
          Either(e, f) \in SUBSET UpTo(1) /\ {<<e, f>>} \in SUBSET UpTo(2)
  BY DEF UpTo, Nothing, Either

\* A bound may be raised.
LEMMA UpToMonotone ==
    ASSUME NEW m \in Nat, NEW n \in Nat, m <= n
    PROVE  UpTo(m) \subseteq UpTo(n)
<1> SUFFICES ASSUME NEW s \in UpTo(m) PROVE s \in UpTo(n)
  OBVIOUS
<1>1. Len(s) \in Nat
  BY LenProperties DEF UpTo
<1> QED BY <1>1 DEF UpTo

\* A driver method writes at most MaxWrites messages.
LEMMA DriverCallLength == "Dump" \in Effects => DriverCall \in SUBSET UpTo(MaxWrites)
<1> SUFFICES ASSUME "Dump" \in Effects, NEW n \in 0..MaxWrites
             PROVE  [i \in 1..n |-> "Dump"] \in UpTo(MaxWrites)
  BY DEF DriverCall
<1>1. n \in Nat /\ n <= MaxWrites
  BY MaxWritesAssumption
<1>2. [i \in 1..n |-> "Dump"] \in Seq(Effects)
  BY <1>1, SeqDef
<1>3. Len([i \in 1..n |-> "Dump"]) = n
  BY <1>1
<1> QED BY <1>1, <1>2, <1>3 DEF UpTo

\* The most that is ever pending: the messages of a method and five effects.
MostPending == MaxWrites + 5

\* gpsd's messages apart, gpsmon_hook() does at most five things with one packet.
LEMMA HookLength == HookEffects \subseteq UpTo(MostPending)
<1>0. MaxWrites \in Nat
  BY MaxWritesAssumption
<1>1. PacketEffects \subseteq Effects
  BY DEF PacketEffects, Effects, LockEffects
<1>2. Then(Either("Resize", "Complain"), {<<"Statwin", "Cmdwin">>}) \subseteq UpTo(1 + 2)
  BY <1>1, LiteralLength, ThenLength DEF PacketEffects
<1>3. PacketMonitor \subseteq UpTo(3 + 1)
  <2>1. Nothing \cup {<<"Update">>} \subseteq UpTo(1)
    BY <1>1, LiteralLength DEF PacketEffects
  <2>2. {<<"Complain", "Fail">>} \subseteq UpTo(3)
    BY <1>1, LiteralLength, UpToMonotone DEF PacketEffects
  <2>3. Nothing \cup Then(Either("Resize", "Complain"), {<<"Statwin", "Cmdwin">>})
           \cup {<<"Complain", "Fail">>} \subseteq UpTo(3)
    BY <1>2, <2>2, LiteralLength
  <2> QED BY <2>1, <2>3, ThenLength DEF PacketMonitor
<1>4. Then(PacketMonitor, {<<"Output">>}) \subseteq UpTo(4 + 1)
  BY <1>1, <1>3, LiteralLength, ThenLength DEF PacketEffects
<1>5. (IF curses THEN Then(PacketMonitor, {<<"Output">>}) ELSE {<<"Output">>}) \subseteq UpTo(5)
  BY <1>1, <1>4, LiteralLength, UpToMonotone DEF PacketEffects
<1>6. (IF serial THEN {} ELSE Nothing \cup Either("Complain", "Output")) \subseteq UpTo(1)
  BY <1>1, LiteralLength DEF PacketEffects
<1>7. UpTo(1) \subseteq UpTo(5)
  BY UpToMonotone
<1>8. (IF serial THEN {} ELSE Nothing \cup Either("Complain", "Output"))
        \cup (IF curses THEN Then(PacketMonitor, {<<"Output">>}) ELSE {<<"Output">>}) \subseteq UpTo(5)
  BY <1>5, <1>6, <1>7
<1>9. (IF serial THEN DriverCall ELSE Nothing) \subseteq UpTo(MaxWrites)
  BY <1>0, <1>1, LiteralLength, DriverCallLength DEF PacketEffects
<1> QED BY <1>0, <1>8, <1>9, ThenLength DEF HookEffects, MostPending

\* The messages of a driver method apart, do_command() does at most two things.
LEMMA CommandLength == \A letter : CommandEffects(letter) \subseteq UpTo(MaxWrites + 2)
<1> SUFFICES ASSUME NEW letter PROVE CommandEffects(letter) \subseteq UpTo(MaxWrites + 2)
  OBVIOUS
<1> DEFINE Short == UpTo(MaxWrites + 2)
<1>0. MaxWrites \in Nat
  BY MaxWritesAssumption
<1>1. LineEffects \subseteq Effects
  BY DEF LineEffects, Effects, LockEffects
<1>2. UpTo(1) \subseteq Short /\ UpTo(2) \subseteq Short /\ UpTo(MaxWrites + 1) \subseteq Short
  BY <1>0, UpToMonotone
<1>3. \A e \in Effects : {<<e>>} \subseteq Short
  BY <1>2, LiteralLength
<1>4. ASSUME NEW S \in SUBSET Short PROVE LowLevel(S) \subseteq Short
  BY <1>1, <1>3 DEF LowLevel, LineEffects
<1>5. DriverCall \subseteq UpTo(MaxWrites)
  BY <1>1, DriverCallLength DEF LineEffects
<1>6. /\ Either("Announce", "Complain") \subseteq UpTo(1)
      /\ Either("Resize", "Complain") \subseteq UpTo(1)
      /\ Nothing \cup {<<"Complain">>} \subseteq UpTo(1)
      /\ {<<"Announce">>} \subseteq UpTo(1)
      /\ {<<"Statwin">>} \subseteq UpTo(1)
      /\ {<<"Cmdwin">>} \subseteq UpTo(1)
  BY <1>1, LiteralLength DEF LineEffects
<1>7. /\ Then(DriverCall, Either("Announce", "Complain")) \subseteq UpTo(MaxWrites + 1)
      /\ Then(DriverCall, Nothing \cup {<<"Complain">>}) \subseteq UpTo(MaxWrites + 1)
  BY <1>0, <1>5, <1>6, ThenLength
<1>8. Then({<<"Announce">>}, DriverCall) \subseteq UpTo(1 + MaxWrites)
  BY <1>0, <1>5, <1>6, ThenLength
<1>9. Then(Then(DriverCall, Either("Announce", "Complain")), {<<"Statwin">>})
        \subseteq UpTo((MaxWrites + 1) + 1)
  <2>1. MaxWrites + 1 \in Nat
    BY <1>0
  <2> QED BY <2>1, <1>6, <1>7, ThenLength
<1>10. Then(Either("Resize", "Complain"), {<<"Cmdwin">>}) \subseteq UpTo(1 + 1)
  BY <1>6, ThenLength
<1>11. 1 + MaxWrites = MaxWrites + 1 /\ (MaxWrites + 1) + 1 = MaxWrites + 2 /\ 1 + 1 = 2
  BY <1>0
<1>12. /\ Then(Then(DriverCall, Either("Announce", "Complain")), {<<"Statwin">>}) \subseteq Short
       /\ Then(DriverCall, Either("Announce", "Complain")) \subseteq Short
       /\ Then({<<"Announce">>}, DriverCall) \subseteq Short
       /\ Then(DriverCall, Nothing \cup {<<"Complain">>}) \subseteq Short
  BY <1>2, <1>7, <1>8, <1>9, <1>11
<1>13. Nothing \cup Then(Either("Resize", "Complain"), {<<"Cmdwin">>}) \subseteq Short
  BY <1>0, <1>2, <1>10, <1>11, LiteralLength
<1>14. Either("Resize", "Complain") \subseteq Short /\ {<<"Announce">>} \subseteq Short
  BY <1>2, <1>6
<1> HIDE DEF Short
<1>15. CommandEffects(letter) \subseteq Short
  BY <1>1, <1>3, <1>4, <1>12, <1>13, <1>14 DEF CommandEffects, LineEffects
<1> QED BY <1>15 DEF Short

\* The steps of the packets that a poll may still deliver.
LEMMA PacketSteps ==
    /\ HookSteps \in Nat /\ HookSteps = 3 * MostPending + 1
    /\ \A m \in Nat, n \in Nat : n <= m =>
          /\ HookSteps * (m - n) \in Nat
          /\ HookSteps * (m - n) <= HookSteps * m
          /\ n < m => HookSteps * (m - (n + 1)) = HookSteps * (m - n) - HookSteps
<1>1. HookSteps \in Nat /\ HookSteps = 3 * MostPending + 1
  BY MaxWritesAssumption DEF HookSteps, MostPending
<1>2. ASSUME NEW h \in Nat, NEW m \in Nat, NEW n \in Nat, n <= m
      PROVE  /\ h * (m - n) \in Nat
             /\ h * (m - n) <= h * m
             /\ h * (m - (n + 1)) = h * (m - n) - h
  <2>1. h * (m - n) = h * m - h * n
    BY SMT
  <2>2. h * (m - n) \in Nat /\ h * n \in Nat /\ h * m \in Nat
    BY <1>2, SMT
  <2>3. h * (m - (n + 1)) = h * (m - n) - h
    BY SMT
  <2> QED BY <2>1, <2>2, <2>3
<1> QED BY <1>1, <1>2

\* An effect that is done with takes its steps away, whatever comes after it.
LEMMA EffectDone ==
    ASSUME ControlType, SharedType, todo /= <<>>, todo' = Tail(todo), section' \in {section, "out"}
    PROVE  EffectSteps' < EffectSteps
<1>1. Len(todo) \in Nat /\ Len(todo) > 0 /\ Len(Tail(todo)) = Len(todo) - 1
  BY HeadTailProperties, EmptySeq, LenProperties DEF ControlType
<1> QED BY <1>1 DEF EffectSteps, SharedType

\* The steps of the labels: a poll delivers at most MaxPackets packets.
LEMMA LabelStepsNat == TypeOK => LabelSteps \in Nat
<1> SUFFICES ASSUME TypeOK PROVE LabelSteps \in Nat
  OBVIOUS
<1>1. packets \in Nat /\ MaxPackets \in Nat /\ packets <= MaxPackets
  BY MaxPacketsAssumption DEF TypeOK, InputType
<1>2. HookSteps * (MaxPackets - packets) \in Nat
  BY <1>1, PacketSteps
<1>3. CommandSteps \in Nat
  BY MaxWritesAssumption DEF CommandSteps
<1> QED BY <1>2, <1>3 DEF TypeOK, ControlType, Shutdown, LabelSteps

\* The steps are counted in integers.
StepsAreInt == LabelSteps \in Int /\ EffectSteps \in Int

LEMMA StepsInt == TypeOK => StepsAreInt
<1> SUFFICES ASSUME TypeOK PROVE StepsAreInt
  OBVIOUS
<1>1. LabelSteps \in Nat
  BY LabelStepsNat
<1>2. Len(todo) \in Nat
  BY LenProperties DEF TypeOK, ControlType
<1> QED BY <1>1, <1>2 DEF EffectSteps, StepsAreInt

\* Before a step as after it.
LEMMA StepsIntNext == TypeOK' => StepsAreInt'
  BY StepsInt, PTL

\* They never run below zero: a section has an effect.
LEMMA StepsNat == TypeOK /\ SectionInv => StepsLeft \in Nat
<1> SUFFICES ASSUME TypeOK, SectionInv PROVE StepsLeft \in Nat
  OBVIOUS
<1>1. LabelSteps \in Nat
  BY LabelStepsNat
<1>2. Len(todo) \in Nat /\ (todo /= <<>> => Len(todo) > 0)
  BY LenProperties, EmptySeq DEF TypeOK, ControlType
<1>3. EffectSteps \in Nat
  BY <1>2 DEF EffectSteps, SectionInv
<1> QED BY <1>1, <1>3 DEF StepsLeft


\* What the steps left depend on.
Position == <<pc, todo, section, packets>>

\* Every step of main() takes one of the steps left away, with a stop pending.
LEMMA StepsFewer ==
    ASSUME TypeOK, SectionInv, bailout /= 0, Next
    PROVE  \/ StepsLeft' < StepsLeft
           \/ (PPS \/ Signal) /\ UNCHANGED Position
           \/ UNCHANGED vars
<1> DEFINE l == LabelSteps    l1 == LabelSteps'
           e == EffectSteps   e1 == EffectSteps'
<1> SUFFICES \/ l1 + e1 < l + e
             \/ (PPS \/ Signal) /\ UNCHANGED Position
             \/ UNCHANGED vars
  BY DEF StepsLeft
<1>0. TypeOK'
  BY TypeStep
<1>1. l \in Int /\ e \in Int /\ l1 \in Int /\ e1 \in Int
  BY <1>0, StepsInt, StepsIntNext DEF StepsAreInt
<1> HIDE DEF l, l1, e, e1
<1> USE DEF shared, input
<1>2. packets \in 0..MaxPackets /\ packets' \in 0..MaxPackets /\ MaxPackets \in Nat
  BY <1>0, MaxPacketsAssumption DEF TypeOK, InputType
<1>21. /\ HookSteps * (MaxPackets - packets) \in Nat
       /\ packets' = packets + 1
            => HookSteps * (MaxPackets - packets') = HookSteps * (MaxPackets - packets) - HookSteps
  BY <1>2, PacketSteps
<1>22. CommandSteps \in Nat /\ CommandSteps = 3 * (MaxWrites + 2)
  BY MaxWritesAssumption DEF CommandSteps
<1>3. todo = <<>> => section = "out" /\ e = 0
  <2>1. Len(<<>>) = 0
    BY EmptySeq
  <2> QED BY <2>1 DEF e, e1, EffectSteps, SectionInv, TypeOK, SharedType
<1>4. \A n \in Nat : todo' \in UpTo(n) /\ section' = "out" => e1 <= 3 * n
  <2> SUFFICES ASSUME NEW n \in Nat, todo' \in UpTo(n), section' = "out"
               PROVE  e1 <= 3 * n
    OBVIOUS
  <2>1. Len(todo') \in Nat /\ Len(todo') <= n
    BY LenProperties DEF UpTo
  <2> QED BY <2>1 DEF e, e1, EffectSteps
<1>5. pc' \in {pc, "aborted"} /\ packets' = packets => l1 <= l
  BY <1>2, <1>21, <1>22 DEF l, l1, LabelSteps, TypeOK, ControlType, Shutdown
<1>6. ASSUME todo /= <<>>, todo' = Tail(todo), section' \in {section, "out"},
             pc' \in {pc, "aborted"}, packets' = packets
      PROVE  l1 + e1 < l + e
  <2>1. e1 < e
    BY <1>6, EffectDone DEF e, e1, TypeOK
  <2> QED BY <1>1, <1>5, <1>6, <2>1
<1>7. CASE SkipEffect \/ Show \/ WritePacket \/ Resize \/ Rearm \/ Logging \/ AnnounceLog
           \/ Fail \/ Update \/ User
  BY <1>6, <1>7 DEF SkipEffect, Show, WritePacket, Resize, Rearm, Logging, AnnounceLog, Fail,
     Update, User, AnswerPrompt, DismissComplaint, Next1, InSection, Release, UseLog,
     FwriteAsserted
<1>8. CASE Acquire
  <2>1. e1 < e
    <3>1. Head(todo) /= "LogLine"
      BY <1>8 DEF Acquire, LockEffects
    <3>2. Len(todo) \in Nat
      BY LenProperties DEF TypeOK, ControlType
    <3> QED BY <1>8, <3>1, <3>2 DEF Acquire, e, e1, EffectSteps
  <2> QED BY <1>1, <1>5, <1>8, <2>1 DEF Acquire
<1>9. CASE AnnounceWindow
  <2>1. Len(todo') = Len(todo) /\ todo' /= <<>> /\ Head(todo') = "LogLine" /\ Len(todo) \in Nat
    <3>1. todo \in Seq(Effects) /\ todo /= <<>> /\ todo' = <<"LogLine">> \o Tail(todo)
      BY <1>9 DEF AnnounceWindow, InSection, TypeOK, ControlType
    <3>2. Len(todo) \in Nat \ {0} /\ Tail(todo) \in Seq(Effects) /\ Len(Tail(todo)) = Len(todo) - 1
      BY <3>1, HeadTailProperties, EmptySeq
    <3>3. <<"LogLine">> \in Seq(Effects) /\ Len(<<"LogLine">>) = 1 /\ <<"LogLine">>[1] = "LogLine"
      BY DEF Effects
    <3>4. todo' \in Seq(Effects) /\ Len(todo') = Len(todo) /\ todo'[1] = "LogLine"
      BY <3>1, <3>2, <3>3, ConcatProperties
    <3> QED BY <3>2, <3>4
  <2>2. e1 < e
    BY <1>9, <2>1 DEF AnnounceWindow, InSection, Release, e, e1, EffectSteps
  <2> QED BY <1>1, <1>5, <1>9, <2>2 DEF AnnounceWindow
<1>10. ASSUME todo = <<>>, UNCHANGED <<todo, section>>, l1 < l
       PROVE  l1 + e1 < l + e
  <2>1. e1 = e
    BY <1>10 DEF e, e1, EffectSteps
  <2> QED BY <1>1, <1>10, <2>1
<1>11. CASE Check
  <2>1. todo = <<>> /\ UNCHANGED <<todo, section>> /\ l1 < l
    BY <1>11 DEF Check, Checkpoint, At, l, l1, LabelSteps
  <2> QED BY <1>10, <2>1
<1>12. CASE Await \/ NoKey \/ CursesKey
  <2>1. todo = <<>> /\ UNCHANGED <<todo, section>> /\ l1 < l
    BY <1>12, <1>22 DEF Await, NoKey, CursesKey, At, l, l1, LabelSteps
  <2> QED BY <1>10, <2>1
<1>13. CASE PollReturns
  <2>1. todo = <<>> /\ UNCHANGED <<todo, section>> /\ l1 < l
    BY <1>21, <1>13 DEF PollReturns, At, l, l1, LabelSteps
  <2> QED BY <1>10, <2>1
<1>14. CASE Packet
  <2>1. todo = <<>> /\ todo' \in UpTo(MostPending) /\ section' = section
    BY <1>14, HookLength DEF Packet, At
  <2>2. MostPending \in Nat
    BY MaxWritesAssumption DEF MostPending
  <2>3. e1 <= 3 * MostPending /\ e = 0
    BY <1>3, <1>4, <2>1, <2>2
  <2>4. l1 = l - HookSteps
    BY <1>21, <1>14, PacketSteps DEF Packet, At, l, l1, LabelSteps
  <2> QED BY <1>1, <2>2, <2>3, <2>4, PacketSteps
<1>15. CASE PlainKey \/ StartRearm
  <2>1. {<<>>, <<"Prompt">>, <<"Rearm">>} \subseteq UpTo(1)
    BY LiteralLength DEF Effects, LockEffects, Nothing
  <2>2. todo = <<>> /\ todo' \in UpTo(1) /\ section' = section
    BY <1>15, <2>1 DEF PlainKey, StartRearm, At
  <2>3. e1 <= 3 /\ e = 0
    BY <1>3, <1>4, <2>2
  <2>4. l1 <= l - 4
    BY <1>15, <1>22 DEF PlainKey, StartRearm, At, l, l1, LabelSteps
  <2> QED BY <1>1, <2>3, <2>4
<1>16. CASE Command
  <2>1. MaxWrites + 2 \in Nat
    BY MaxWritesAssumption
  <2>2. todo = <<>> /\ todo' \in UpTo(MaxWrites + 2) /\ section' = section
    BY <1>16, <2>1, CommandLength, LiteralLength DEF Command, At, Nothing
  <2>3. e1 <= 3 * (MaxWrites + 2) /\ e = 0
    BY <1>3, <1>4, <2>1, <2>2
  <2>4. l1 = l - CommandSteps - 1
    BY <1>16, <1>22 DEF Command, At, l, l1, LabelSteps
  <2> QED BY <1>1, <1>22, <2>1, <2>3, <2>4
<1>17. CASE StopPPS \/ CloseLogFirst \/ RestoreTty \/ Explain \/ CloseLogAgain
  <2>1. todo = <<>> /\ UNCHANGED <<todo, section>>
    BY <1>17 DEF StopPPS, CloseLogFirst, RestoreTty, Explain, CloseLogAgain, At
  <2>2. \/ pc = "stopPPS" /\ pc' = "closeLog"
        \/ pc = "closeLog" /\ pc' \in {"restore", "aborted"}
        \/ pc = "restore" /\ pc' = "explain"
        \/ pc = "explain" /\ pc' = "closeAgain"
        \/ pc = "closeAgain" /\ pc' \in {"exited", "aborted"}
    BY <1>17 DEF StopPPS, CloseLogFirst, RestoreTty, Explain, CloseLogAgain, CloseLog, At
  <2>3. l1 < l
    BY <2>2 DEF l, l1, LabelSteps
  <2> QED BY <1>10, <2>1, <2>3
<1>18. CASE PpsReport
  <2>1. CASE pc' = pc
    BY <1>18, <2>1 DEF PpsReport, PPS, Position
  <2>2. CASE pc' = "aborted" /\ pc' /= pc
    <3>1. l1 < l
      BY <1>21, <1>22, <1>18, <2>2 DEF PpsReport, Running, l, l1, LabelSteps,
         TypeOK, ControlType, Shutdown
    <3>2. e1 = e
      BY <1>18 DEF PpsReport, e, e1, EffectSteps
    <3> QED BY <1>1, <3>1, <3>2
  <2> QED BY <1>18, <2>1, <2>2 DEF PpsReport, UseLog
<1>19. CASE Pulse \/ PpsAcquire \/ Signal
  BY <1>19 DEF Pulse, PpsAcquire, Signal, PPS, Position
<1>20. CASE Ended
  BY <1>20 DEF Ended
<1> QED BY <1>7, <1>8, <1>9, <1>11, <1>12, <1>13, <1>14, <1>15, <1>16, <1>17, <1>18, <1>19, <1>20
        DEF Next, MainStep, PPS

\* SectionInv holds in every state: the sections of TerminalInMode.
LEMMA SectionHolds == Spec => [](TypeOK /\ SectionInv)
<1>1. Init => SectionInv
  BY DEF Init, SectionInv
<1> QED BY <1>1, SectionStep, TypeCorrect, PTL DEF Spec

\* StopIsNear: the loop, the packets of a poll, the prompt, the command and the
\* shutdown only bring a stopped main() nearer to its end.
THEOREM StopApproaches == Spec => StopIsNear
<1>1. TypeOK /\ SectionInv /\ [Next]_vars
        => [bailout /= 0 => \/ StepsLeft' < StepsLeft
                            \/ (PPS \/ Signal) /\ UNCHANGED <<pc, todo, section, packets>>]_vars
  BY StepsFewer DEF Position
<1> QED BY <1>1, SectionHolds, PTL DEF Spec, StopIsNear

\* What a handler leaves to do is short, and gets shorter.
LengthInv == todo \in UpTo(MostPending)

\* A packet or a command adds at most MostPending effects, and nothing adds to them.
LEMMA LengthStep == LengthInv /\ [Next]_vars => LengthInv'
<1> SUFFICES ASSUME LengthInv, [Next]_vars PROVE todo' \in UpTo(MostPending)
  BY DEF LengthInv
<1> USE DEF LengthInv
<1>0. todo \in Seq(Effects) /\ Len(todo) \in Nat /\ Len(todo) <= MostPending
  BY LenProperties DEF UpTo
<1>10. MostPending \in Nat
  BY MaxWritesAssumption DEF MostPending
<1>1. CASE UNCHANGED todo
  BY <1>1
<1>2. ASSUME todo /= <<>>, todo' = Tail(todo) PROVE todo' \in UpTo(MostPending)
  BY <1>0, <1>10, <1>2, HeadTailProperties DEF UpTo
<1>3. CASE SkipEffect \/ Show \/ WritePacket \/ Resize \/ Rearm \/ Logging \/ AnnounceLog
           \/ Fail \/ Update \/ User
  BY <1>2, <1>3 DEF SkipEffect, Show, WritePacket, Resize, Rearm, Logging, AnnounceLog, Fail,
     Update, User, AnswerPrompt, DismissComplaint, Next1, InSection
<1>4. CASE AnnounceWindow
  <2>1. todo /= <<>> /\ todo' = <<"LogLine">> \o Tail(todo)
    BY <1>4 DEF AnnounceWindow, InSection
  <2>2. Tail(todo) \in Seq(Effects) /\ Len(Tail(todo)) = Len(todo) - 1
    BY <1>0, <2>1, HeadTailProperties
  <2>3. <<"LogLine">> \in Seq(Effects) /\ Len(<<"LogLine">>) = 1
    BY DEF Effects
  <2>4. todo' \in Seq(Effects) /\ Len(todo') = 1 + Len(Tail(todo))
    BY <2>1, <2>2, <2>3, ConcatProperties
  <2> QED BY <1>0, <1>10, <2>2, <2>4 DEF UpTo
<1>5. CASE Packet
  BY <1>5, HookLength DEF Packet
<1>6. CASE PlainKey \/ Command \/ StartRearm
  <2>1. {<<>>, <<"Prompt">>, <<"Rearm">>} \subseteq UpTo(1)
    BY LiteralLength DEF Effects, LockEffects, Nothing
  <2>2. UpTo(1) \subseteq UpTo(MostPending) /\ UpTo(MaxWrites + 2) \subseteq UpTo(MostPending)
    BY MaxWritesAssumption, UpToMonotone DEF MostPending
  <2> QED BY <1>1, <1>6, <2>1, <2>2, CommandLength DEF PlainKey, Command, StartRearm
<1>7. CASE Check \/ Await \/ PollReturns \/ NoKey \/ CursesKey
  BY <1>1, <1>7 DEF Check, Checkpoint, Await, PollReturns, NoKey, CursesKey
<1>8. CASE StopPPS \/ CloseLogFirst \/ RestoreTty \/ Explain \/ CloseLogAgain
  BY <1>1, <1>8 DEF StopPPS, CloseLogFirst, RestoreTty, Explain, CloseLogAgain
<1>9. CASE Acquire \/ PPS \/ Signal \/ Ended \/ UNCHANGED vars
  BY <1>1, <1>9 DEF Acquire, PPS, Pulse, PpsAcquire, PpsReport, Signal, Ended, vars
<1> QED BY <1>3, <1>4, <1>5, <1>6, <1>7, <1>8, <1>9 DEF Next, MainStep

\* More steps than any state leaves: the label's, and what is pending.
MostSteps == 11 + CommandSteps + HookSteps * MaxPackets + 3 * MostPending

\* The number of steps left is a natural number below a bound that only the
\* packets of one poll and the messages of one driver method determine: with
\* StopIsNear, main() is at its exit after at most that many steps of its own,
\* wherever the request found it.
THEOREM StopBounded == Spec => [](StepsLeft \in 0..MostSteps)
<1>1. TypeOK /\ SectionInv /\ LengthInv => StepsLeft \in 0..MostSteps
  <2> SUFFICES ASSUME TypeOK, SectionInv, LengthInv PROVE StepsLeft \in 0..MostSteps
    OBVIOUS
  <2>1. packets \in Nat /\ MaxPackets \in Nat /\ packets <= MaxPackets
    BY MaxPacketsAssumption DEF TypeOK, InputType
  <2>2. /\ HookSteps * MaxPackets \in Nat /\ HookSteps * (MaxPackets - packets) \in Nat
        /\ HookSteps * (MaxPackets - packets) <= HookSteps * MaxPackets
    BY <2>1, PacketSteps
  <2>3. CommandSteps \in Nat /\ MostPending \in Nat
    BY MaxWritesAssumption DEF CommandSteps, MostPending
  <2>4. LabelSteps \in Int /\ LabelSteps <= 11 + CommandSteps + HookSteps * MaxPackets
    BY <2>2, <2>3 DEF TypeOK, ControlType, Shutdown, LabelSteps
  <2>5. Len(todo) \in Nat /\ Len(todo) <= MostPending
    BY LenProperties DEF LengthInv, UpTo
  <2>6. EffectSteps \in Int /\ EffectSteps <= 3 * MostPending
    BY <2>5, <2>3 DEF EffectSteps
  <2>7. StepsLeft \in Nat
    BY StepsNat
  <2>8. MostSteps \in Nat /\ StepsLeft <= MostSteps
    BY <2>2, <2>4, <2>6, <2>3 DEF StepsLeft, MostSteps
  <2> QED BY <2>7, <2>8
<1>2. Init => LengthInv
  <2>1. MostPending \in Nat
    BY MaxWritesAssumption DEF MostPending
  <2> QED BY <2>1, LiteralLength DEF Init, LengthInv, Nothing
<1> QED BY <1>1, <1>2, LengthStep, SectionHolds, PTL DEF Spec

-----------------------------------------------------------------------------
(* Who closes the log *)

\* All but what the command l does.
Quiet == Effects \ {"LogToggle", "LogTo"}

\* Only the command l is about the log (do_command() 904-925).
LEMMA QuietCommand ==
    ASSUME NEW letter, letter \notin {"l", "L"}
    PROVE  CommandEffects(letter) \subseteq Seq(Quiet)
<1>1. {"Announce", "Complain", "Dump", "Statwin", "Cmdwin", "Resize"} \subseteq Quiet
  BY DEF Quiet, Effects, LockEffects
<1>2. ASSUME NEW S \in SUBSET Seq(Quiet)
      PROVE  LowLevel(S) \subseteq Seq(Quiet)
  BY <1>1, LiteralType DEF LowLevel
<1>3. DriverCall \subseteq Seq(Quiet)
  BY <1>1, DriverCallType
<1>4. /\ Then(DriverCall, Either("Announce", "Complain")) \subseteq Seq(Quiet)
      /\ Then({<<"Announce">>}, DriverCall) \subseteq Seq(Quiet)
      /\ Nothing \cup Then(Either("Resize", "Complain"), {<<"Cmdwin">>}) \subseteq Seq(Quiet)
      /\ Then(DriverCall, Nothing \cup {<<"Complain">>}) \subseteq Seq(Quiet)
  BY <1>1, <1>3, LiteralType, ThenType
<1>5. Then(Then(DriverCall, Either("Announce", "Complain")), {<<"Statwin">>}) \subseteq Seq(Quiet)
  BY <1>1, <1>4, LiteralType, ThenType
<1> QED BY <1>1, <1>2, <1>4, <1>5, LiteralType DEF CommandEffects

\* Without l nothing is pending that closes or opens the log, and the log is
\* closed only by the shutdown.
QuietInv == /\ todo \in Seq(Quiet)
            /\ log = "closed" => pc \in {"restore", "explain", "closeAgain", "exited", "aborted"}

\* No step but the execution of l breaks that.
LEMMA QuietStepKept ==
    ASSUME Lines \cap {"l", "L"} = {}, TypeOK, TodoInv, QuietInv, [Next]_vars
    PROVE  QuietInv'
<1> USE DEF QuietInv, shared, TodoInv, Shutdown
<1>1. CASE UNCHANGED <<todo, log>> /\ pc' \in {pc, "aborted"}
  BY <1>1
<1>2. ASSUME todo /= <<>>, todo' = Tail(todo), log' = log, pc' \in {pc, "aborted"} PROVE QuietInv'
  BY <1>2, HeadTailProperties
<1>3. CASE SkipEffect \/ Show \/ WritePacket \/ Resize \/ Rearm \/ AnnounceLog
           \/ Fail \/ Update \/ User
  BY <1>2, <1>3 DEF SkipEffect, Show, WritePacket, Resize, Rearm, AnnounceLog, Fail,
     Update, User, AnswerPrompt, DismissComplaint, Next1, InSection, UseLog, FwriteAsserted
<1>4. ~Logging
  <2>1. todo /= <<>> => Head(todo) \in Quiet
    BY HeadTailProperties
  <2> QED BY <2>1 DEF Logging, InSection, Quiet
<1>5. CASE AnnounceWindow
  <2>1. <<"LogLine">> \in Seq(Quiet) /\ Tail(todo) \in Seq(Quiet)
    BY <1>5, HeadTailProperties DEF AnnounceWindow, InSection, Quiet, Effects
  <2> QED BY <1>5, <2>1, ConcatProperties DEF AnnounceWindow
<1>6. CASE Packet
  <2>1. PacketEffects \subseteq Quiet
    BY DEF PacketEffects, Quiet, Effects, LockEffects
  <2>2. Seq(PacketEffects) \subseteq Seq(Quiet)
    BY <2>1, SeqDef
  <2> QED BY <1>6, <2>2, HookEffectsType DEF Packet
<1>7. CASE PlainKey \/ StartRearm
  <2>1. {<<"Prompt">>, <<>>, <<"Rearm">>} \subseteq Seq(Quiet)
    BY DEF Quiet, Effects, LockEffects
  <2> QED BY <1>7, <2>1 DEF PlainKey, StartRearm, At
<1>8. CASE Command
  <2>1. cmdline \notin {"l", "L"}
    BY DEF TypeOK, InputType, NoLine
  <2>2. todo' \in Seq(Quiet)
    BY <1>8, <2>1, QuietCommand DEF Command
  <2> QED BY <1>8, <2>2 DEF Command, At
<1>9. CASE Check \/ Await \/ PollReturns \/ NoKey \/ CursesKey
  BY <1>9 DEF Check, Checkpoint, Await, PollReturns, NoKey, CursesKey, At
<1>10. CASE StopPPS \/ CloseLogFirst \/ RestoreTty \/ Explain \/ CloseLogAgain
  BY <1>10 DEF StopPPS, CloseLogFirst, RestoreTty, Explain, CloseLogAgain, CloseLog, At
<1>11. CASE Acquire \/ PPS \/ Signal \/ Ended \/ UNCHANGED vars
  BY <1>1, <1>11 DEF Acquire, PPS, Pulse, PpsAcquire, PpsReport, UseLog, Signal, Ended, vars
<1> QED BY <1>3, <1>4, <1>5, <1>6, <1>7, <1>8, <1>9, <1>10, <1>11 DEF Next, MainStep

\* The packet's log is a stream that can be written, if l is never used: of all
\* that can happen l alone falsifies LogIsWritable, the assertion at 825.
THEOREM OnlyTheCommandClosesIt ==
    ASSUME Lines \cap {"l", "L"} = {}
    PROVE  Spec => []LogIsWritable
<1>1. Init => TodoInv /\ QuietInv
  BY DEF Init, TodoInv, QuietInv, Shutdown
<1>2. TypeOK /\ TodoInv /\ QuietInv /\ [Next]_vars => TodoInv' /\ QuietInv'
  BY TodoStep, QuietStepKept
<1>3. TodoInv /\ QuietInv => LogIsWritable
  BY DEF TodoInv, QuietInv, LogIsWritable, InSection, Running, Shutdown
<1> QED BY <1>1, <1>2, <1>3, TypeCorrect, PTL DEF Spec

-----------------------------------------------------------------------------
(* Who holds main() up *)

\* Outside a section nobody but the PPS thread can own the mutex, and inside one the
\* effect that it was entered for is the next to be executed.
THEOREM NobodyElseHoldsUp == Spec => []OnlyUserHoldsUp
<1>1. TypeOK /\ SectionInv /\ LockInv => OnlyUserHoldsUp
  <2> SUFFICES ASSUME TypeOK, SectionInv, LockInv, Running, ~WaitsForUser, pps /= "in"
               PROVE  CanGo
    BY DEF OnlyUserHoldsUp
  <2>1. CASE todo = <<>> \/ Idle(Head(todo))
    BY <2>1 DEF CanGo
  <2>2. CASE todo /= <<>> /\ ~Idle(Head(todo))
    <3> DEFINE e == Head(todo)
    <3>1. e \in LockEffects \cup {"LogLine", "Complain", "Fail", "Update"}
      BY <2>2, HeadTailProperties DEF TypeOK, ControlType, Effects
    <3>2. section \in {"out", "in"} /\ lock \in {"free", "main", "pps"} /\ curses \in BOOLEAN
      BY DEF TypeOK, SharedType, ConfigType
    <3>3. CASE section = "in"
      BY <2>2, <3>3 DEF SectionInv, WaitsForUser, CanGo
    <3>4. CASE section = "out"
      <4>1. lock = "free"
        BY <3>2, <3>4 DEF LockInv
      <4>2. e = "Complain" => curses
        BY <2>2 DEF Idle
      <4>3. e /= "Complain"
        BY <2>2, <4>2 DEF WaitsForUser
      <4> QED BY <3>1, <3>4, <4>1, <4>3 DEF CanGo
    <3> QED BY <3>2, <3>3, <3>4
  <2> QED BY <2>1, <2>2
<1>2. Spec => []LockInv
  BY LockInit, LockStep, PTL DEF Spec
<1> QED BY <1>1, <1>2, SectionHolds, PTL
=============================================================================
