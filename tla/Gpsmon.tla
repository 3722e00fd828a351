------------------------------- MODULE Gpsmon -------------------------------
(***************************************************************************)
(* The control skeleton of gpsmon: the main loop of main(), the commands   *)
(* it runs, the signal handler, the PPS reporting thread, and what they    *)
(* share: bailout, the report lock, the terminal mode and the log stream.  *)
(*                                                                         *)
(* A call that main() makes on the way (a packet hook, a command, a redraw) *)
(* is a sequence of effects: the lock sections, prompts and unlocked calls *)
(* it performs, in order.  todo holds those still to do; a lock section is *)
(* entered and left in two steps, so the PPS thread and the signal handler *)
(* come in between.                                                        *)
(***************************************************************************)
EXTENDS Naturals, Sequences

CONSTANTS
    Lines,          \* the command lines the user may type
    MaxPackets,     \* most packets one gpsd_multipoll() call delivers
    MaxWrites,      \* most messages one driver method writes to the device
    LogCanFill      \* TRUE if writing an open log may fail (a full disk)

\* The letters do_command() distinguishes; L stands for "l name" and other
\* for a letter it does not know.
Letters == {"c", "i", "l", "L", "n", "q", "s", "t", "x", "X", "other"}

ASSUME LinesAssumption == Lines \subseteq Letters
ASSUME MaxPacketsAssumption == MaxPackets \in Nat
ASSUME MaxWritesAssumption == MaxWrites \in Nat
ASSUME LogCanFillAssumption == LogCanFill \in BOOLEAN

NoLine == "NULL"

TERM_SELECT_FAILED == 1
TERM_DRIVER_SWITCH == 2
\* Mutation of TERM_EMPTY_READ: a code the explanation switch has no case for.
UnlistedCode == 8
TERM_EMPTY_READ    == 3
TERM_READ_ERROR    == 4
TERM_SIGNAL        == 5
TERM_QUIT          == 6
TERM_CURSES        == 7
Reasons == 1..7

VARIABLES
    serial,     \* the source is a local device (else a gpsd server)
    curses,     \* curses_active: set for good by curses_init()
    packetwin,  \* the packet window exists
    bailout,    \* 0, or the reason to leave the main loop
    pc,         \* where main() is, between effects
    todo,       \* the effects main() still has to perform before pc goes on
    section,    \* "in" while main() executes a lock section
    lock,       \* who owns gpsd's reporting mutex
    ppsHook,    \* pps_thread.report_hook is set
    pps,        \* where the PPS thread is
    tty,        \* the terminal mode
    log,        \* logfile: NULL, an open stream, or a stream already closed
    cmdline,    \* the static pointer main() hands to do_command()
    ready,      \* the descriptors gpsd_await_data() found readable
    packets     \* packets delivered by the current gpsd_multipoll()

vars == <<serial, curses, packetwin, bailout, pc, todo, section, lock,
          ppsHook, pps, tty, log, cmdline, ready, packets>>
shared == <<bailout, lock, log>>
config == <<serial, curses>>
thread == <<ppsHook, pps>>
input  == <<cmdline, ready, packets>>

-----------------------------------------------------------------------------
(* Effects *)

\* Effects that run between report_lock() and report_unlock().
LockEffects == {"Output", "Dump", "Announce", "Statwin", "Cmdwin", "Resize",
                "LogToggle", "LogTo", "Prompt", "Rearm"}
Effects == LockEffects \cup {"LogLine", "Complain", "Fail", "Update"}

\* An effect that does nothing in the present mode: windows exist only under
\* curses, and complain() writes to stderr, without waiting, outside curses.
Idle(e) == \/ e = "Dump" /\ ~packetwin
           \/ e \in {"Statwin", "Cmdwin", "Resize", "Complain"} /\ ~curses

\* First one of S, then one of T.
Then(S, T) == {s \o t : s \in S, t \in T}

Nothing == {<<>>}
Either(e, f) == {<<e>>, <<f>>}

\* select_packet_monitor(): switch_type() resizes or complains; unless it
\* fails, the windows are redrawn.  Then the monitor's update().
PacketMonitor ==
    Then(Nothing \cup Then(Either("Resize", "Complain"), {<<"Statwin", "Cmdwin">>})
                 \cup {<<"Complain", "Fail">>},
         Nothing \cup {<<"Update">>})

\* A driver method calls gpsmon_serial_write() for each message it writes; each
\* is dumped in a lock section of its own.
DriverCall == {[i \in 1..n |-> "Dump"] : n \in 0..MaxWrites}

\* gpsd configures a device it may write to before it hands on the packet;
\* then gpsmon_hook(): a TOFF object, an ill-formed TOFF or PPS object, a PPS
\* object, or any other packet.
HookEffects ==
    Then(IF serial THEN DriverCall ELSE Nothing,
         (IF serial THEN {} ELSE Nothing \cup Either("Complain", "Output"))
         \cup (IF curses THEN Then(PacketMonitor, {<<"Output">>}) ELSE {<<"Output">>}))

\* A command for local devices only; complain() when it is not one.
LowLevel(calls) == {<<"Complain">>} \cup IF serial THEN calls ELSE {}

\* do_command(), by its first letter; q ends the loop instead.
CommandEffects(letter) ==
    CASE letter = "c" -> LowLevel(Then(DriverCall, Either("Announce", "Complain")))
      [] letter = "i" -> LowLevel({<<"Announce">>})
      [] letter = "l" -> {<<"LogToggle">>}
      [] letter = "L" -> {<<"LogTo">>}
      [] letter = "n" -> LowLevel(Then({<<"Announce">>}, DriverCall))
      [] letter = "s" -> LowLevel(Then(Then(DriverCall, Either("Announce", "Complain")),
                                       {<<"Statwin">>}))
      [] letter = "t" -> LowLevel(Nothing \cup Then(Either("Resize", "Complain"),
                                                    {<<"Cmdwin">>}))
      [] letter \in {"x", "X"} -> LowLevel(Then(DriverCall, Nothing \cup {<<"Complain">>}))
      [] OTHER -> {<<"Complain">>}

-----------------------------------------------------------------------------
(* The log stream.  Using a closed stream is undefined: the call may seem to *)
(* work or the process may die.                                              *)

UseLog == IF log = "closed" THEN {pc, "aborted"} ELSE {pc}

\* Mutation of FwriteAsserted: logfile is not tested for NULL.
FwriteUntested == {pc, "aborted"}

\* fwrite() in gpsmon_hook(), followed by assert(written_count >= 1).
FwriteAsserted ==
    IF log = "open" /\ LogCanFill THEN {pc, "aborted"} ELSE UseLog

\* fclose(logfile) at the end of main(), going on to label next.
CloseLog(next) ==
    /\ pc' \in IF log = "closed" THEN {next, "aborted"} ELSE {next}
    /\ log' = IF log = "open" THEN "closed" ELSE log

-----------------------------------------------------------------------------
(* main() performing an effect *)

Running == pc \notin {"exited", "aborted"}
At(label) == pc = label /\ todo = <<>>
Next1 == todo' = Tail(todo)

SkipEffect ==
    /\ Running /\ todo /= <<>> /\ Idle(Head(todo))
    /\ Next1
    /\ UNCHANGED <<config, shared, thread, input, packetwin, pc, section, tty>>

\* report_lock().  announce_log() locks only to write to the packet window.
Acquire ==
    /\ Running /\ todo /= <<>> /\ section = "out"
    /\ Head(todo) \in LockEffects /\ ~Idle(Head(todo))
    /\ ~(Head(todo) = "Announce" /\ ~packetwin)
    /\ lock = "free"
    /\ lock' = "main"
    /\ section' = "in"
    /\ tty' = IF Head(todo) = "Prompt" THEN "cooked" ELSE tty
    /\ UNCHANGED <<config, thread, input, packetwin, bailout, log, pc, todo>>

\* The end of a lock section: report_unlock().
Release == lock' = "free" /\ section' = "out"
InSection(effects) ==
    Running /\ section = "in" /\ todo /= <<>> /\ Head(todo) \in effects

Show ==
    /\ InSection({"Dump", "Statwin", "Cmdwin"})
    /\ Release /\ Next1
    /\ UNCHANGED <<config, thread, input, packetwin, bailout, log, pc, tty>>

WritePacket ==
    /\ InSection({"Output"})
    /\ pc' \in FwriteAsserted
    /\ Release /\ Next1
    /\ UNCHANGED <<config, thread, input, packetwin, bailout, log, tty>>

Resize ==
    /\ InSection({"Resize"})
    /\ packetwin' \in BOOLEAN
    /\ Release /\ Next1
    /\ UNCHANGED <<config, thread, input, bailout, log, pc, tty>>

Rearm ==
    /\ InSection({"Rearm"})
    /\ tty' = "rare"
    /\ Release /\ Next1
    /\ UNCHANGED <<config, thread, input, packetwin, bailout, log, pc>>

\* The 'l' command: close an existing log, or else open the one named.
Logging ==
    /\ InSection({"LogToggle", "LogTo"})
    /\ log' \in IF log /= "none" THEN {"closed"}
                ELSE {"none"} \cup IF Head(todo) = "LogTo" THEN {"open"} ELSE {}
    /\ pc' \in UseLog
    /\ Release /\ Next1
    /\ UNCHANGED <<config, thread, input, packetwin, bailout, tty>>

\* announce_log(): the window under the lock, then the log without it.
AnnounceWindow ==
    /\ InSection({"Announce"})
    /\ todo' = <<"LogLine">> \o Tail(todo)
    /\ Release
    /\ UNCHANGED <<config, thread, input, packetwin, bailout, log, pc, tty>>

AnnounceLog ==
    /\ Running /\ todo /= <<>> /\ section = "out"
    /\ \/ Head(todo) = "LogLine"
       \/ Head(todo) = "Announce" /\ ~packetwin
    /\ pc' \in UseLog
    /\ Next1
    /\ UNCHANGED <<config, shared, thread, input, packetwin, section, tty>>

\* select_packet_monitor(): a failed driver switch.
Fail ==
    /\ Running /\ todo /= <<>> /\ Head(todo) = "Fail"
    /\ bailout' = TERM_DRIVER_SWITCH
    /\ Next1
    /\ UNCHANGED <<config, thread, input, packetwin, lock, log, pc, section, tty>>

\* (*active)->update(): draws and, for NAV-SOL, talks to the database.  When the
\* server cannot be reached it goes on with the connection it has freed
\* (RecorderFreed.cfg), which the process may not survive.
Update ==
    /\ Running /\ todo /= <<>> /\ Head(todo) = "Update"
    /\ Next1
    /\ pc' \in {pc, "aborted"}
    /\ UNCHANGED <<config, shared, thread, input, packetwin, section, tty>>

-----------------------------------------------------------------------------
(* The user: nothing makes a person answer *)

\* Mutation of AnswerPrompt: the branch for EOF forgets report_unlock().
AnswerPromptKeepsLock ==
    /\ InSection({"Prompt"})
    /\ \/ cmdline' \in Lines /\ Release
       \/ cmdline' = NoLine /\ section' = "out" /\ UNCHANGED lock
    /\ Next1
    /\ UNCHANGED <<config, thread, ready, packets, packetwin, bailout, log, pc, tty>>

\* fgets() of the rest of the line, with the report lock held; EOF gives NULL.
AnswerPrompt ==
    /\ InSection({"Prompt"})
    /\ cmdline' \in Lines \cup {NoLine}
    /\ Release /\ Next1
    /\ UNCHANGED <<config, thread, ready, packets, packetwin, bailout, log, pc, tty>>

\* wgetch() in monitor_vcomplain() waits for a key.
DismissComplaint ==
    /\ Running /\ todo /= <<>> /\ Head(todo) = "Complain" /\ curses
    /\ Next1
    /\ UNCHANGED <<config, shared, thread, input, packetwin, pc, section, tty>>

-----------------------------------------------------------------------------
(* The main loop *)

\* Whether bailout is set is looked at here, and only here.
Checkpoint(here, next) ==
    /\ At(here)
    /\ pc' = IF bailout /= 0 THEN "stopPPS" ELSE next
    /\ UNCHANGED <<config, shared, thread, input, packetwin, todo, section, tty>>

\* Mutation of Check: no check between the poll and the command.
CheckNotAfterPoll ==
    \/ Checkpoint("loop", "await")
    \/ Checkpoint("awaited", "poll")
    \/ /\ At("polled") /\ pc' = "input"
       /\ UNCHANGED <<config, shared, thread, input, packetwin, todo, section, tty>>
    \/ Checkpoint("commanded", IF curses THEN "rearmed" ELSE "rearm")
    \/ Checkpoint("rearmed", "loop")

Check == \/ Checkpoint("loop", "await")
         \/ Checkpoint("awaited", "poll")
         \/ Checkpoint("polled", "input")
         \/ Checkpoint("commanded", IF curses THEN "rearmed" ELSE "rearm")
         \/ Checkpoint("rearmed", "loop")

Await ==
    /\ At("await")
    /\ packets' = 0
    /\ \/ \* AWAIT_GOT_INPUT, AWAIT_TIMEOUT
          ready' \in SUBSET {"device", "stdin"} /\ pc' = "awaited" /\ UNCHANGED bailout
       \/ \* AWAIT_NOT_READY while the device descriptor is good
          ready' = {} /\ pc' = "loop" /\ UNCHANGED bailout
       \/ \* AWAIT_FAILED, or AWAIT_NOT_READY because the descriptor is bad
          ready' = {} /\ pc' = "awaited" /\ bailout' = TERM_SELECT_FAILED
    /\ UNCHANGED <<config, thread, packetwin, lock, log, cmdline,
                   todo, section, tty>>

\* gpsd_multipoll() calls gpsmon_hook() for each packet it completes.
Packet ==
    /\ At("poll") /\ "device" \in ready /\ packets < MaxPackets
    /\ packets' = packets + 1
    /\ todo' \in HookEffects
    /\ UNCHANGED <<config, shared, thread, cmdline, ready, packetwin,
                   pc, section, tty>>

\* Mutation of PollReturns: DEVICE_EOF leaves the loop without a reason.
PollReturnsLeaves ==
    /\ At("poll")
    /\ pc' \in {"polled", "stopPPS"}
    /\ UNCHANGED <<config, shared, thread, input, packetwin, todo, section, tty>>

PollReturns ==
    /\ At("poll")
    /\ pc' = "polled"
    /\ \/ UNCHANGED bailout
       \/ /\ "device" \in ready
          /\ bailout' \in {TERM_EMPTY_READ, TERM_READ_ERROR, TERM_QUIT}
    /\ UNCHANGED <<config, thread, input, packetwin, lock, log, todo, section, tty>>

NoKey ==
    /\ At("input") /\ "stdin" \notin ready
    /\ pc' = "loop"
    /\ UNCHANGED <<config, shared, thread, input, packetwin, todo, section, tty>>

\* curses_get_command(): one key, which may complete a line.  input[] holds 80
\* characters and they are not counted (LineEditor does): a key too many is
\* written behind it, which the process may not survive.
CursesKey ==
    /\ At("input") /\ "stdin" \in ready /\ curses
    /\ cmdline' \in Lines \cup {NoLine}
    /\ pc' \in {"command", "aborted"}
    /\ UNCHANGED <<config, shared, thread, ready, packets, packetwin, todo,
                   section, tty>>

\* read(0, &inbuf, 1): one byte starts the prompt, none leaves cmdline alone.
PlainKey ==
    /\ At("input") /\ "stdin" \in ready /\ ~curses
    /\ todo' \in {<<"Prompt">>, <<>>}
    /\ pc' = "command"
    /\ UNCHANGED <<config, shared, thread, input, packetwin, section, tty>>

\* if (NULL != cmdline && !do_command(cmdline)) bailout = TERM_QUIT;
Command ==
    /\ At("command")
    /\ pc' = "commanded"
    /\ \/ cmdline = NoLine /\ UNCHANGED <<todo, bailout>>
       \/ cmdline = "q" /\ bailout' = TERM_QUIT /\ UNCHANGED todo
       \/ /\ cmdline \notin {NoLine, "q"}
          /\ todo' \in CommandEffects(cmdline)
          /\ UNCHANGED bailout
    /\ UNCHANGED <<config, thread, cmdline, ready, packets, packetwin, lock,
                   log, section, tty>>

\* Mutation of StartRearm: the terminal is left line-buffered.
StartRearmNot ==
    /\ At("rearm")
    /\ pc' = "rearmed"
    /\ UNCHANGED <<config, shared, thread, input, packetwin, todo, section, tty>>

\* sleep(2), then back to reading single bytes.
StartRearm ==
    /\ At("rearm")
    /\ pc' = "rearmed"
    /\ todo' = <<"Rearm">>
    /\ UNCHANGED <<config, shared, thread, input, packetwin, section, tty>>

-----------------------------------------------------------------------------
(* Shutdown *)

StopPPS ==
    /\ At("stopPPS")
    /\ ppsHook' = (IF serial THEN FALSE ELSE ppsHook)
    /\ pc' = "closeLog"
    /\ UNCHANGED <<config, shared, pps, input, packetwin, todo, section, tty>>

CloseLogFirst ==
    /\ At("closeLog")
    /\ CloseLog("restore")
    /\ UNCHANGED <<config, thread, input, packetwin, bailout, lock, todo,
                   section, tty>>

RestoreTty ==
    /\ At("restore")
    /\ tty' = "cooked"
    /\ pc' = "explain"
    /\ UNCHANGED <<config, shared, thread, input, packetwin, todo, section>>

Explain ==
    /\ At("explain")
    /\ pc' = "closeAgain"
    /\ UNCHANGED <<config, shared, thread, input, packetwin, todo, section, tty>>

CloseLogAgain ==
    /\ At("closeAgain")
    /\ CloseLog("exited")
    /\ UNCHANGED <<config, thread, input, packetwin, bailout, lock, todo,
                   section, tty>>

-----------------------------------------------------------------------------
(* The PPS thread and the signal handler *)

\* A pulse: the thread finds report_hook set and calls pps_report().
Pulse ==
    /\ Running /\ pps = "idle" /\ ppsHook
    /\ pps' = "calling"
    /\ UNCHANGED <<config, shared, ppsHook, input, packetwin, pc, todo, section, tty>>

\* Mutation of PpsAcquire: pps_report() without report_lock().
PpsUnlocked ==
    /\ Running /\ pps = "calling"
    /\ lock' = "pps"
    /\ pps' = "in"
    /\ UNCHANGED <<config, ppsHook, input, packetwin, bailout, log, pc, todo,
                   section, tty>>

PpsAcquire ==
    /\ Running /\ pps = "calling" /\ lock = "free"
    /\ lock' = "pps"
    /\ pps' = "in"
    /\ UNCHANGED <<config, ppsHook, input, packetwin, bailout, log, pc, todo,
                   section, tty>>

\* gpsmon_report(PPSBAR), then report_unlock().
PpsReport ==
    /\ Running /\ pps = "in"
    /\ pc' \in UseLog
    /\ lock' = "free"
    /\ pps' = "idle"
    /\ UNCHANGED <<config, ppsHook, input, packetwin, bailout, log, todo,
                   section, tty>>

\* onsig()
Signal ==
    /\ Running
    /\ bailout' \in {TERM_QUIT, TERM_SIGNAL}
    /\ UNCHANGED <<config, thread, input, packetwin, lock, log, pc, todo,
                   section, tty>>

-----------------------------------------------------------------------------
Init ==
    /\ serial \in BOOLEAN
    /\ curses \in BOOLEAN
    /\ \/ packetwin = curses /\ bailout = 0
       \/ curses /\ packetwin \in BOOLEAN /\ bailout = TERM_CURSES
    /\ pc = "loop" /\ todo = <<>> /\ section = "out" /\ lock = "free"
    /\ ppsHook \in {FALSE, serial}
    /\ pps = IF ppsHook THEN "idle" ELSE "none"
    /\ tty = IF curses THEN "curses" ELSE "rare"
    /\ log \in {"none", "open"}
    /\ cmdline = NoLine /\ ready = {} /\ packets = 0

MainStep ==
    \/ SkipEffect \/ Show \/ WritePacket \/ Resize \/ Rearm \/ Logging
    \/ AnnounceWindow \/ AnnounceLog \/ Fail \/ Update
    \/ Check \/ Await \/ Packet \/ PollReturns \/ NoKey \/ CursesKey
    \/ PlainKey \/ Command \/ StartRearm
    \/ StopPPS \/ CloseLogFirst \/ RestoreTty \/ Explain \/ CloseLogAgain

User == AnswerPrompt \/ DismissComplaint
PPS == Pulse \/ PpsAcquire \/ PpsReport

\* exit() and abort() end every thread.
Ended == ~Running /\ UNCHANGED vars

Next == MainStep \/ Acquire \/ User \/ PPS \/ Signal \/ Ended

\* The program's own steps go on; a thread that waits for the mutex while it
\* is released again and again gets it, main() or the PPS thread; users, pulses and signals are free.
Fairness ==
    /\ WF_vars(MainStep)
    /\ SF_vars(Acquire)
    /\ SF_vars(PpsAcquire)
    /\ WF_vars(PpsReport)

Spec == Init /\ [][Next]_vars /\ Fairness

-----------------------------------------------------------------------------
(* Properties *)

Shutdown == {"stopPPS", "closeLog", "restore", "explain", "closeAgain", "exited"}

ConfigType == /\ serial \in BOOLEAN /\ curses \in BOOLEAN /\ packetwin \in BOOLEAN
              /\ ppsHook \in BOOLEAN /\ pps \in {"none", "idle", "calling", "in"}

ControlType == /\ bailout \in {0} \cup Reasons
               /\ pc \in {"loop", "await", "awaited", "poll", "polled", "input",
                          "command", "commanded", "rearm", "rearmed", "aborted"}
                         \cup Shutdown
               /\ todo \in Seq(Effects)

SharedType == /\ section \in {"out", "in"} /\ lock \in {"free", "main", "pps"}
              /\ tty \in {"rare", "cooked", "curses"}
              /\ log \in {"none", "open", "closed"}

InputType == /\ cmdline \in Lines \cup {NoLine}
             /\ ready \subseteq {"device", "stdin"} /\ packets \in 0..MaxPackets

TypeOK == ConfigType /\ ControlType /\ SharedType /\ InputType

\* main() and pps_report() are never in a lock section together, and the
\* mutex belongs to the one that is (report_lock() 105-115; the comment asks
\* "Lock what? Why? Where?").
OneWriter == /\ ~(section = "in" /\ pps = "in")
             /\ lock = "main" <=> section = "in"
             /\ lock = "pps"  <=> pps = "in"

\* The steps a stopped main() can still take, effects apart: a poll may deliver
\* the packets it has left, a line may still be asked for and executed.
\* A packet: itself, the messages gpsd writes and at most 5 effects of gpsmon_hook().
HookSteps == 1 + 3 * (MaxWrites + 5)
\* The messages of a driver method and at most 2 more effects of do_command().
CommandSteps == 3 * (MaxWrites + 2)
LabelSteps ==
    CASE pc \in {"exited", "aborted"} -> 0
      [] pc = "closeAgain" -> 1
      [] pc = "explain" -> 2
      [] pc = "restore" -> 3
      [] pc = "closeLog" -> 4
      [] pc = "stopPPS" -> 5
      [] pc \in {"loop", "awaited", "polled", "commanded", "rearmed"} -> 6
      [] pc = "await" -> 7
      [] pc = "poll" -> 7 + HookSteps * (MaxPackets - packets)
      [] pc = "rearm" -> 10
      [] pc = "command" -> 7 + CommandSteps
      [] pc = "input" -> 11 + CommandSteps

\* An effect takes at most three steps: the lock, the window, the log.
EffectSteps ==
    3 * Len(todo) - (IF section = "in" THEN 1
                     ELSE IF todo /= <<>> /\ Head(todo) = "LogLine" THEN 2 ELSE 0)

StepsLeft == LabelSteps + EffectSteps

\* Once a stop was requested, every step main() takes brings it nearer to its
\* end, and the PPS thread and further signals do not take it back: wherever the
\* request comes, the number of steps left is bounded by the packets of a poll and
\* the messages a driver method writes (1423-1576, 644-652).  That main()
\* takes these steps is StopEnds.
StopIsNear ==
    [][bailout /= 0 => \/ StepsLeft' < StepsLeft
                       \/ (PPS \/ Signal) /\ UNCHANGED <<pc, todo, section, packets>>]_vars

\* main() leaves its loop only with a reason, so the default case of the
\* explanation switch ("Unknown error, should never happen.", 1563) is dead.
KnownReason == pc \in Shutdown => bailout \in Reasons

\* Without curses, single bytes are read only while the terminal is unbuffered
\* and a line only while it is line-buffered and echoing, on every path through
\* the loop (1481-1515), and whichever way the loop was left the user gets the
\* line-buffered terminal back (1534-1538).
TerminalMode ==
    /\ pc = "input" /\ ~curses => tty = "rare"
    /\ InSection({"Prompt"}) => tty = "cooked"
    /\ pc = "exited" => tty = "cooked"

\* A session without windows and without a log has nothing to die of: it survives
\* every packet, command, pulse and signal to its regular exit (the NULL tests of
\* logfile at 302, 324, 818, 1530 and 1572, and the test of curses_active at 794).
PlainSessionSurvives == ~curses /\ log = "none" => pc /= "aborted"

\* Someone has to press a key or finish a line before main() can go on.
WaitsForUser ==
    /\ Running /\ todo /= <<>>
    /\ \/ section = "in" /\ Head(todo) = "Prompt"
       \/ curses /\ Head(todo) = "Complain"

\* What main() can do without the user: its labels always have a step, an effect
\* has one unless it needs the mutex that another thread owns.
CanGo ==
    \/ todo = <<>>
    \/ Idle(Head(todo))
    \/ section = "in" /\ Head(todo) \in LockEffects \ {"Prompt"}
    \/ section = "out" /\ Head(todo) \in {"LogLine", "Fail", "Update"}
    \/ section = "out" /\ Head(todo) = "Announce" /\ ~packetwin
    \/ section = "out" /\ Head(todo) \in LockEffects /\ lock = "free"

\* main() never stops itself: while it cannot go on, either a question to the user
\* is open or the PPS thread prints its line.  In particular it never waits for
\* the mutex that a section of its own, left on some path, still holds
\* (report_lock() 105, its callers, and the prompt 1483-1500).
OnlyUserHoldsUp == Running => CanGo \/ WaitsForUser \/ pps = "in"

\* If no question is left unanswered for ever, every stop request ends the
\* process: no lock, poll, pulse or sleep can hold it back (main() 1423-1576).
StopEnds == []<>~WaitsForUser => (bailout /= 0 ~> ~Running)

\* A pulse is reported, however often main() takes the mutex and writes, unless the
\* process ends: no path of main() leaves the mutex locked behind it, and the one
\* that may keep it for ever is the open prompt (1487-1499, pps_report() 1118).
PulseIsReported ==
    []<>~WaitsForUser => (pps = "calling" ~> pps = "idle" \/ ~Running)

\* "quit cleanly if we get a signal" (1401), read literally: a signal is
\* enough, whatever the user does.
SignalQuits == bailout = TERM_SIGNAL ~> ~Running

\* assert(written_count >= 1) (825): the packet's log is a stream that can
\* still be written.
LogIsWritable == InSection({"Output"}) => log /= "closed"

=============================================================================
