------------------------ MODULE GpsmonSessionProofs ------------------------
(***************************************************************************)
(* gpsmon implements the abstract session, for any set of lines and any    *)
(* number of packets per poll and of messages per driver method.           *)
(***************************************************************************)
EXTENDS GpsmonSession, GpsmonProofs

-----------------------------------------------------------------------------
(* No second operation *)

\* After an operation was finished in spite of a stop request, main() is on its
\* way to a check and starts no other.
OverrunInv ==
    /\ overrun \in 0..OverrunBound
    /\ overrun /= 0 => /\ bailout /= 0
                       /\ \/ pc \in {"loop", "awaited", "polled", "commanded", "aborted"}
                             \cup Shutdown
                          \/ pc = "rearmed" /\ todo = <<>>

\* Only the last step of an operation counts.
LEMMA CountStep ==
    ASSUME TypeOK, TodoInv, HNext, ~FinishesOperation
    PROVE  overrun' = overrun
  BY DEF HNext

\* The steps that finish an operation.
LEMMA FinishingSteps ==
    ASSUME TypeOK, TodoInv, Next, FinishesOperation
    PROVE  Await \/ PollReturns \/ Command \/ Rearm
<1> USE DEF FinishesOperation, TodoInv, Shutdown, shared
<1>0. Head(<<"Rearm">>) = "Rearm" /\ <<"Rearm">> /= <<>> /\ <<"LogLine">> \o Tail(<<"Rearm">>) /= <<>>
  OBVIOUS
<1>1. ~SkipEffect /\ ~Show /\ ~WritePacket /\ ~Resize /\ ~Logging /\ ~AnnounceLog /\ ~Fail
      /\ ~Update /\ ~User /\ ~AnnounceWindow
  BY <1>0 DEF SkipEffect, Show, WritePacket, Resize, Logging, AnnounceLog, Fail, Update,
     User, AnswerPrompt, DismissComplaint, AnnounceWindow, InSection, Idle, UseLog,
     FwriteAsserted
<1>2. ~Check /\ ~Packet /\ ~NoKey /\ ~CursesKey /\ ~PlainKey /\ ~StartRearm
  BY DEF Check, Checkpoint, Packet, NoKey, CursesKey, PlainKey, StartRearm, At
<1>3. ~StopPPS /\ ~CloseLogFirst /\ ~RestoreTty /\ ~Explain /\ ~CloseLogAgain
  BY DEF StopPPS, CloseLogFirst, RestoreTty, Explain, CloseLogAgain, CloseLog, At
<1>4. ~Acquire /\ ~PPS /\ ~Signal /\ ~Ended
  BY DEF Acquire, PPS, Pulse, PpsAcquire, PpsReport, UseLog, Signal, Ended, vars
<1> QED BY <1>1, <1>2, <1>3, <1>4 DEF Next, MainStep

\* The other steps lead from an overrun only to the checks and the shutdown.
LEMMA OverrunStep ==
    TypeOK /\ TodoInv /\ OverrunInv /\ [HNext]_hvars => OverrunInv'
<1> SUFFICES ASSUME TypeOK, TodoInv, OverrunInv, [HNext]_hvars PROVE OverrunInv'
  OBVIOUS
<1> USE DEF OverrunInv, OverrunBound
<1>1. CASE UNCHANGED hvars
  BY <1>1 DEF hvars, vars
<1>2. CASE HNext /\ FinishesOperation
  <2>1. overrun' \in 0..2 /\ (overrun' /= 0 => bailout /= 0)
    BY <1>2 DEF HNext
  <2>2. bailout /= 0 => bailout' /= 0
    BY <1>2, StopStep DEF HNext
  <2>3. \/ pc' \in {"loop", "awaited", "polled", "commanded"}
        \/ pc' = "rearmed" /\ todo' = <<>>
    BY <1>2, FinishingSteps DEF HNext, FinishesOperation, Rearm, Await, PollReturns, Command
  <2> QED BY <2>1, <2>2, <2>3
<1>3. CASE HNext /\ ~FinishesOperation
  <2>1. overrun' = overrun
    BY <1>3, CountStep
  <2>2. SUFFICES ASSUME overrun /= 0
                 PROVE  \/ pc' \in {"loop", "awaited", "polled", "commanded", "aborted"}
                                    \cup Shutdown
                        \/ pc' = "rearmed" /\ todo' = <<>>
    BY <1>3, <2>1, StopStep DEF HNext
  <2> USE <2>2 DEF TodoInv, Shutdown, shared
  <2>3. CASE SkipEffect \/ Acquire \/ Show \/ WritePacket \/ Resize \/ Rearm \/ Logging
             \/ AnnounceWindow \/ AnnounceLog \/ Fail \/ Update \/ User
    BY <2>3 DEF SkipEffect, Acquire, Show, WritePacket, Resize, Rearm, Logging,
       AnnounceWindow, AnnounceLog, Fail, Update, User, AnswerPrompt,
       DismissComplaint, FwriteAsserted, UseLog, InSection
  <2>4. CASE Check
    BY <2>4 DEF Check, Checkpoint, At
  <2>5. CASE Await \/ Packet \/ PollReturns \/ NoKey \/ CursesKey \/ PlainKey
             \/ Command \/ StartRearm
    BY <2>5 DEF Await, Packet, PollReturns, NoKey, CursesKey, PlainKey, Command,
       StartRearm, At
  <2>6. CASE StopPPS \/ CloseLogFirst \/ RestoreTty \/ Explain \/ CloseLogAgain
    BY <2>6 DEF StopPPS, CloseLogFirst, RestoreTty, Explain, CloseLogAgain, CloseLog, At
  <2>7. CASE PPS \/ Signal \/ Ended
    BY <2>7 DEF PPS, Pulse, PpsAcquire, PpsReport, UseLog, Signal, Ended, vars
  <2> QED BY <1>3, <2>3, <2>4, <2>5, <2>6, <2>7 DEF HNext, Next, MainStep
<1> QED BY <1>1, <1>2, <1>3

-----------------------------------------------------------------------------
(* The refinement *)

\* gpsmon starts as a session does, with no one at the output.
LEMMA SessionInit == HInit => Abstract!Init
  BY DEF HInit, Init, Abstract!Init, Phase, Stop, Writer, Running, Abstract!Nobody,
     TERM_CURSES

IInv == TypeOK /\ LockInv /\ TodoInv /\ OverrunInv

\* A step that is none of the session's business.
LEMMA QuietStep ==
    ASSUME pc \notin {"exited", "aborted"}, pc' \notin {"exited", "aborted"},
           Phase' = Phase, section' = section, pps' = "in" <=> pps = "in",
           overrun' = overrun, bailout' = bailout
    PROVE  UNCHANGED Abstract!vars
  BY DEF Abstract!vars, Writer, Stop, Running

\* A step in which the process dies.
LEMMA CrashStep ==
    ASSUME pc \notin {"exited", "aborted"}, pc' = "aborted",
           overrun' = overrun, bailout' = bailout
    PROVE  Abstract!Crash
<1>1. Phase \in {"running", "closing"} /\ Phase' = "crashed"
  BY DEF Phase
<1>2. Writer' = "nobody"
  BY DEF Writer, Running
<1>3. Stop' = Stop
  BY DEF Stop
<1> QED BY <1>1, <1>2, <1>3 DEF Abstract!Crash, Abstract!Alive, Abstract!Nobody

\* Every step of gpsmon is a step of the session or leaves it as it is.
LEMMA SessionStep ==
    IInv /\ IInv' /\ [HNext]_hvars => [Abstract!Next]_(Abstract!vars)
<1> SUFFICES ASSUME IInv, IInv', [HNext]_hvars
             PROVE  Abstract!Next \/ UNCHANGED Abstract!vars
  OBVIOUS
<1> USE DEF IInv, shared, thread
<1>1. CASE UNCHANGED hvars
  BY <1>1 DEF hvars, vars, Abstract!vars, Phase, Stop, Writer, Running
<1>2. CASE HNext /\ (Await \/ PollReturns \/ Command)
  <2>1. FinishesOperation /\ Running /\ pc' \notin {"exited", "aborted"}
    BY <1>2 DEF Await, PollReturns, Command, At, FinishesOperation, Running
  <2>2. Phase = "running" /\ Phase' = "running"
    BY <1>2 DEF Await, PollReturns, Command, At, Phase
  <2>3. UNCHANGED Writer
    BY <1>2, <2>1 DEF Await, PollReturns, Command, Writer, Running
  <2>4. \/ Stop = "none" /\ Stop' \in {"none", "asked"}
        \/ Stop = "asked" /\ Stop' = "due"
    BY <1>2, <2>1, StopStep DEF HNext, Stop, OverrunInv, OverrunBound,
       Await, PollReturns, Command, At, Shutdown
  <2> QED BY <2>2, <2>3, <2>4 DEF Abstract!Next, Abstract!Operate, Abstract!Work
<1>3. CASE HNext /\ Rearm
  <2>1. Phase = "running" /\ Phase' = "running"
    BY <1>3 DEF Rearm, InSection, Phase, TodoInv, Shutdown, Running
  <2>2. Writer = "main" /\ Writer' = "nobody"
    BY <1>3 DEF Rearm, InSection, Release, Writer, Running, LockInv
  <2>3. CASE FinishesOperation
    <3>1. \/ Stop = "none" /\ Stop' \in {"none", "asked"}
          \/ Stop = "asked" /\ Stop' = "due"
      BY <1>3, <2>3, StopStep DEF HNext, Stop, OverrunInv, OverrunBound,
         FinishesOperation, Rearm, InSection, TodoInv, Shutdown
    <3> QED BY <2>1, <2>2, <3>1 DEF Abstract!Next, Abstract!Leave, Abstract!Work,
            Abstract!Alive, Abstract!Nobody
  <2>4. CASE ~FinishesOperation
    <3>1. UNCHANGED Stop
      BY <1>3, <2>4, CountStep DEF Rearm, Stop
    <3> QED BY <2>1, <2>2, <3>1 DEF Abstract!Next, Abstract!Leave,
            Abstract!Alive, Abstract!Nobody
  <2> QED BY <2>3, <2>4
<1>4. CASE HNext /\ ~FinishesOperation /\ ~Rearm
  <2>1. overrun' = overrun
    BY <1>4, CountStep
  <2>2. CASE pc' = "aborted" /\ pc /= "aborted"
    <3>1. bailout' = bailout /\ Running
      BY <1>4, <2>2 DEF HNext, Next, MainStep, User, PPS, SkipEffect, Acquire, Show,
         WritePacket, Resize, Logging, AnnounceWindow, AnnounceLog, Fail, Update,
         AnswerPrompt, DismissComplaint, Check, Checkpoint, Await, Packet, PollReturns,
         NoKey, CursesKey, PlainKey, Command, StartRearm, StopPPS, CloseLogFirst,
         RestoreTty, Explain, CloseLogAgain, Pulse, PpsAcquire, PpsReport, Signal,
         Ended, vars, Running, At, InSection
    <3> QED BY <2>1, <2>2, <3>1, CrashStep DEF Abstract!Next, Running
  <2>3. CASE Ended
    BY <2>1, <2>3 DEF Ended, vars, Abstract!vars, Phase, Stop, Writer, Running
  <2>4. CASE Check
    <3>1. CASE pc' = "stopPPS"
      <4>1. Phase = "running" /\ Phase' = "closing"
        BY <2>4, <3>1 DEF Check, Checkpoint, At, Phase
      <4>2. Stop' = Stop /\ Stop /= "none"
        BY <2>1, <2>4, <3>1 DEF Check, Checkpoint, Stop
      <4>3. Writer' = Writer
        BY <2>4, <3>1 DEF Check, Checkpoint, At, Writer, Running
      <4> QED BY <4>1, <4>2, <4>3 DEF Abstract!Next, Abstract!CloseDown
    <3>2. CASE pc' /= "stopPPS"
      BY <2>1, <2>4, <3>2, QuietStep DEF Check, Checkpoint, At, Phase
    <3> QED BY <3>1, <3>2
  <2>5. CASE CloseLogAgain /\ pc' = "exited"
    <3>1. Phase = "closing" /\ Phase' = "ended"
      BY <2>5 DEF CloseLogAgain, At, Phase
    <3>2. Writer' = "nobody" /\ Stop' = Stop
      BY <2>1, <2>5 DEF CloseLogAgain, Writer, Running, Stop
    <3> QED BY <3>1, <3>2 DEF Abstract!Next, Abstract!End, Abstract!Nobody
  <2>6. CASE Signal \/ Fail
    <3>1. Running /\ pc' = pc /\ bailout' /= 0
      BY <2>6 DEF Signal, Fail, TERM_QUIT, TERM_SIGNAL, TERM_DRIVER_SWITCH
    <3>2. Phase \in {"running", "closing"} /\ Phase' = Phase
      BY <3>1 DEF Phase, Running
    <3>3. Writer' = Writer
      BY <2>6, <3>1 DEF Signal, Fail, Writer, Running
    <3>4. Stop' = IF Stop = "none" THEN "asked" ELSE Stop
      BY <2>1, <3>1 DEF Stop, OverrunInv
    <3> QED BY <3>2, <3>3, <3>4 DEF Abstract!Next, Abstract!AskStop, Abstract!Alive
  <2>7. CASE Acquire
    BY <2>1, <2>7 DEF Acquire, Running, LockInv, Abstract!Next, Abstract!Enter,
       Abstract!Alive, Abstract!Nobody, Phase, Stop, Writer
  <2>8. CASE PpsAcquire
    BY <2>1, <2>8 DEF PpsAcquire, Running, LockInv, Abstract!Next, Abstract!Enter,
       Abstract!Alive, Abstract!Nobody, Phase, Stop, Writer
  <2>9. CASE PpsReport /\ pc' /= "aborted"
    BY <2>1, <2>9 DEF PpsReport, Running, LockInv, UseLog, Abstract!Next, Abstract!Leave,
       Abstract!Alive, Abstract!Nobody, Phase, Stop, Writer
  <2>10. CASE /\ Show \/ WritePacket \/ Resize \/ Logging \/ AnnounceWindow \/ AnswerPrompt
              /\ pc' /= "aborted"
    <3>1. pc' = pc /\ Running /\ bailout' = bailout
      BY <2>10 DEF Show, WritePacket, Resize, Logging, AnnounceWindow, AnswerPrompt,
         InSection, UseLog, FwriteAsserted
    <3>2. Writer = "main" /\ Writer' = "nobody"
      BY <2>10, <3>1 DEF Show, WritePacket, Resize, Logging, AnnounceWindow,
         AnswerPrompt, InSection, Release, Writer, Running, LockInv
    <3> QED BY <2>1, <3>1, <3>2 DEF Abstract!Next, Abstract!Leave, Abstract!Alive,
            Abstract!Nobody, Phase, Stop, Running
  <2>11. CASE /\ SkipEffect \/ AnnounceLog \/ Update \/ DismissComplaint
              /\ pc' /= "aborted"
    BY <2>1, <2>11, QuietStep DEF SkipEffect, AnnounceLog, Update, DismissComplaint,
       UseLog, Running, Phase
  <2>12. CASE /\ Packet \/ NoKey \/ CursesKey \/ PlainKey \/ StartRearm \/ Pulse
              /\ pc' /= "aborted"
    BY <2>1, <2>12, QuietStep DEF Packet, NoKey, CursesKey, PlainKey, StartRearm, Pulse,
       At, Running, Phase
  <2>13. CASE StopPPS \/ RestoreTty \/ Explain \/ (CloseLogFirst /\ pc' /= "aborted")
    BY <2>1, <2>13, QuietStep DEF StopPPS, RestoreTty, Explain, CloseLogFirst, CloseLog,
       At, Phase
  <2>14. ~(Await \/ PollReturns \/ Command)
    BY <1>4 DEF Await, PollReturns, Command, At, FinishesOperation
  <2>15. CloseLogAgain => pc' \in {"exited", "aborted"}
    BY DEF CloseLogAgain, CloseLog
  <2>16. Running \/ Ended
    BY <1>4 DEF HNext, Next, MainStep, User, PPS, SkipEffect, Acquire, Show,
         WritePacket, Resize, Logging, AnnounceWindow, AnnounceLog, Fail, Update,
         AnswerPrompt, DismissComplaint, Check, Checkpoint, Await, Packet, PollReturns,
         NoKey, CursesKey, PlainKey, Command, StartRearm, StopPPS, CloseLogFirst,
         RestoreTty, Explain, CloseLogAgain, Pulse, PpsAcquire, PpsReport, Signal,
         Ended, vars, Running, At, InSection
  <2> QED BY <1>4, <2>2, <2>3, <2>4, <2>5, <2>6, <2>7, <2>8, <2>9, <2>10, <2>11,
             <2>12, <2>13, <2>14, <2>15, <2>16
          DEF HNext, Next, MainStep, User, PPS, Running
<1>5. HNext /\ FinishesOperation => Await \/ PollReturns \/ Command \/ Rearm
  BY FinishingSteps DEF HNext
<1> QED BY <1>1, <1>2, <1>3, <1>4, <1>5

\* ImplementsSession: whatever packets, commands, signals and pulses come, main()
\* finishes at most one operation after a stop request, closes down only on
\* one, and main() and the PPS thread never write together.
THEOREM SessionImplemented == HSpec => ImplementsSession
<1>1. HInit => IInv
  <2> SUFFICES ASSUME HInit PROVE IInv
    OBVIOUS
  <2>1. TypeOK /\ LockInv
    BY TypeInit, LockInit DEF HInit
  <2>2. TodoInv
    BY DEF HInit, Init, TodoInv
  <2>3. OverrunInv
    BY DEF HInit, OverrunInv, OverrunBound
  <2> QED BY <2>1, <2>2, <2>3 DEF IInv
<1>2. IInv /\ [HNext]_hvars => IInv'
  <2>1. [HNext]_hvars => [Next]_vars
    BY DEF HNext, hvars
  <2> QED BY <2>1, TypeStep, LockStep, TodoStep, OverrunStep DEF IInv
<1> QED BY <1>1, <1>2, SessionInit, SessionStep, PTL
        DEF HSpec, ImplementsSession, Abstract!Spec
=============================================================================
