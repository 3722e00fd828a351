# A verification development for pgubxgpsmon

`src/gpsmon.c` and `src/monitor_ubx.c` are a cut-down `gpsmon` of GPSd.  The
program watches a GNSS receiver, attached locally (`serial`) or behind a gpsd
server, shows its packets on a curses screen or as plain text, executes
one-letter commands, and writes every U-Blox NAV-SOL message to PostgreSQL.  The
modules here model its control and state in TLA+, check them with TLC on small
instances and prove the most important results with TLAPS for all values of the
constants.

`PROJECT.json` lists components, runs, mutants, the source lines every
definition stands for, hazards, findings and theorems.

## 1. Inventory

| part | state | operations | hard because |
|---|---|---|---|
| main loop, `main()` 1423-1576 | `bailout`, `cmdline`, `inbuf`, `rfds` | await, poll, key or prompt, command, re-arm, shutdown | signals at every instruction; several writers of `bailout`; blocking reads |
| signal handler `onsig()` 1129 | `bailout` | set it | asynchronous; overwrites other reasons |
| PPS thread (gpsd) with `pps_report()` 1118 | `report_hook`, reporting mutex | print a bar | runs beside `main()`, is never joined |
| terminal | `cooked`/`rare` mode | prompt, re-arm, restore | a mode switch on each of many paths |
| log `logfile` | NULL, open, closed | `-l`, `l`, writes from hook, report, announcement, shutdown | pointer kept after `fclose()` |
| console line editor `curses_get_command()` 573 | `input[80]`, `line[80]` | a key | limits, backspace, control-L |
| command interpreter `do_command()` 841 | `context.readonly`, `fallback`, device type, log | c i l n q s t x X | which commands leave probing enabled; which driver is asked |
| device panel: `switch_type()` 467, `select_packet_monitor()` 534, monitors | `active`, `devicewin`, `satwin`, `packetwin`, `last_type` | packet, `t`, control-L | parent and child windows, failing allocations, small screens, stale pointers |
| recorder `display_nav_sol()` | `conn`, the table | receive, connect, insert, finish | the server fails at any point; error paths go on |
| decoding: `ubx_update()`, `display_nav_*()`, `bits.h` | lines of `satwin` | accessors, time of week, satellite numbers | width, sign, length fields; two messages that write the same lines |
| time synchronisation: TOFF, PPS, `ntp_latch()` 709-838 | `time_offset`, `pps_thread` | objects, fixes | order of seconds |
| options and start-up 1145-1420 | `serial`, `nocurses`, `fallback`, `source` | getopt loop | counting matches |
| visualization helpers 130-272 | none | formatting | - |
| gpsd library, ncurses, libpq | external | | |

How they interact.  `main()` calls `gpsd_multipoll()`, which calls
`gpsmon_hook()` for every packet; the hook calls `select_packet_monitor()`, and
that the `update()` of the active monitor, which is `ubx_update()` and through it
the recorder: all in one thread, so a slow server or an unanswered complaint
holds up everything.  The PPS thread shares the reporting mutex, standard output
and the log with `main()`; signals share `bailout`.  Commands act on the device
through the driver's methods and on the panel through `switch_type()`.

What makes each part correct:

* main loop: a stop request is not lost, ends the process after at most the
  operation in progress, and has a known reason; writers exclude each other; the
  terminal is in the mode the next read needs, and restored at the end.
* log: written only while it is open.  A session without windows and without a log
  has nothing to die of.
* panel: `update()` draws in a live window inside the panel; nothing leaks;
  panel and packet window share out the screen; every packet type reaches its
  monitor.
* recorder: a message makes at most one row, rows are in order, a message without
  a row had an error printed, sessions are closed, only fixes are recorded.
* the two together: no NAV-SOL message misses the recorder without a reason.
* line editor: the line that runs is the line that was typed.
* device control: gpsd may write to the device between commands only after the user has
  ordered it with i; port and receiver keep one speed; a receiver that was taken to NMEA
  mode can be taken back.
* options: a command line that goes on has one driver type at most.
* decoding: the accessors are the integers the protocol defines; times are in
  range and those of the column they are stored in; a satellite's line shows the
  number that NAV-SVINFO has for it.
* time synchronisation: seconds are latched once, in order; offsets are exact; the
  last pulse has one writer.
* visualization: a packet's text shows its bytes in order, up to the buffer's end,
  whatever the buffer held before.

## 2. Modules

| module | models | EXTENDS / instance |
|---|---|---|
| `Gpsmon` | main loop, signals, PPS thread, lock, terminal, log, the control of every command and hook | |
| `Session` | abstract: run until asked to stop, finish at most one more operation, close down | |
| `GpsmonSession` | `Gpsmon` with a history variable, and the refinement mapping to `Session` | EXTENDS `Gpsmon`, INSTANCE `Session` |
| `GpsmonProofs`, `GpsmonSessionProofs` | theorems | |
| `Display` | windows, monitors, the switch, packet handling | |
| `Recorder` | one message's way into the table, and the server | INSTANCE `Ledger` |
| `Ledger` | abstract: rows in order, none twice | |
| `Collector` | the packet hook: `Display` and `Recorder` composed | EXTENDS both |
| `CollectorMC` | screens, arrivals, symmetry for TLC | EXTENDS `Collector` |
| `DisplayProofs`, `RecorderProofs`, `CollectorProofs` | theorems | |
| `Bits` | the little-endian accessors | |
| `UbxMonitor` | what `ubx_update()` makes of a message | EXTENDS `Bits` |
| `UbxMonitorMC`, `UbxMonitorProofs` | reports and words for TLC; theorems | EXTEND `UbxMonitor` |
| `Startup` | the options one by one, and the opening of the source | |
| `Device` | abstract: what the owner of a receiver may rely on: it changes once for each order, or by raw bytes and probing once i has allowed them | |
| `Control` | the commands c i n s t x X, the receiver, gpsd between commands | EXTENDS `Startup` |
| `LineEditor` | `curses_get_command()`, and the line read without curses | |
| `Console` | the user at the keyboard: `LineEditor` and `Control` composed | EXTENDS both, INSTANCE `Device` |
| `ConsoleMC`, `ConsoleProofs` | drivers, names and lines for TLC; theorems | EXTEND `Console` |
| `Timespec` | normalization and difference of `timespec.h` | |
| `Hexdump` | `cond_hexdump()` | |
| `PacketHook` | the times `gpsmon_hook()` keeps, and what it shows | EXTENDS `Startup`, `Timespec`, `Hexdump` |
| `PacketHookMC`, `PacketHookProofs` | times and packets for TLC; theorems | EXTEND `PacketHook` |

### Gpsmon

`pc` is the place in `main()`; `todo` is the sequence of *effects* the call in
progress still performs.  A call (a packet hook, a command, a redraw) is chosen
as a whole, `HookEffects` and `CommandEffects` listing its possible sequences;
each lock section in it is entered (`Acquire`) and left in two steps, so signals
and the PPS thread come in between.  `bailout`, the mutex `lock`, `tty`, `log` and
`cmdline` are the variables of the program.  `Check` stands for the five tests of
`bailout` (1428, 1452, 1475, 1506, 1517): nothing else looks at it.

A driver method may write any number of messages to the device, and
`gpsmon_serial_write()` (644-655) shows each in a lock section of its own:
`DriverCall` is a sequence of up to `MaxWrites` of them.  They occur in the commands
that call a method, and before the hook of a packet, when gpsd configures the device.

What may kill the process is a choice of the step that does it: using a log stream
that was closed, a failed write to the log (`LogCanFill`), `update()` with a database
connection it has freed (`Recorder` shows when), and a key that overruns `input[]`
(`LineEditor` shows which).  Without curses and without a log none of these is left
(`PlainSessionSurvives`); nothing more is claimed of when the process survives.

Fairness: `main()`'s own steps are weakly fair (`gpsd_await_data()` has a timeout
of two seconds and `sleep(2)` ends, calls of the library and of `update()` are
taken to return); acquiring the mutex is strongly fair, since the PPS thread holds
it for one line of output once per pulse and a released mutex wakes its waiter; for
the same reason the PPS thread gets it in the end, although `main()` takes it
again and again, but spends its time outside, in `gpsd_await_data()`;
`pps_report()` finishes what it began.  The user, pulses and signals have no
fairness: nobody has to press a key.

### Display

Windows are addresses that `newwin()` and `derwin()` hand out and `delwin()` takes
back; an address can come back, so a dangling pointer may point at a live window
again.  As in ncurses, `delwin()` fails for a window others are derived from, and for
one that is not live.  `switch_type()` is one step, since only `main()` touches
windows: `Closed` is what wrap and delwin leave, `OpenPanel` and `FailPanel` what
newwin and initialize make of it.  It returns TRUE when the screen is too small
(`SwitchOK` with nothing changed), FALSE for a failed panel or a driver that has
no monitor.

The json monitor's panel has 0 rows in its `min_y` (78); `newwin(0, 80, 1, 0)` (497)
makes that all rows below the first (`PanelRows`), while the packet window is sized as
if the panel had none: the two lie over each other.  So `PanesCoverScreen` says that
panel and packet window share out the screen for the ubx monitor, and that for the
others the packet window has all rows below the first.  On a screen of one row there is
no room for that panel, and `newwin()` fails (`FailPanel`).  `handled`, `forced`,
`repainted` and `failed` are history variables.

### Recorder

`at` walks through `display_nav_sol()`; the server turns between any two steps.
`conn = "freed"` is the pointer after `PQfinish()`; a call with it is undefined
and may kill the process.  Messages are numbered, so the table shows order and
duplicates.  What the row holds is abstracted to the message's kind.

### Collector

A packet is one step `Hook` of the display, in which `Receive` begins if
`update()` sees a NAV-SOL message; the next packet, command or repaint waits until
`display_nav_sol()` has returned, since it is called inside the hook.

### UbxMonitor

The other half of `display_nav_sol()`, and the satellite pane.  The receiver's side
(which satellites there are, the numbers and flags of NAV-SVINFO and NAV-SAT, the
bytes of a word) is external; the program's side translates numbers, tests flags,
reads words and splits the time.  `pane` and `row` are what the program makes of a
message; `reported` and `solved` remember what the receiver meant, and the
properties compare the two.  gps.h knows BeiDou satellites up to 63 and NavIC,
NAV-SVINFO does not: `Translate` gives BeiDou 38 the number 65 of GLONASS 1, and
leaves NavIC numbers as they are, those of GPS.  The model sends such satellites, and
the properties claim a number only for those NAV-SVINFO has one for.

The time of the row is GPS time of week, split into day and time of day.  `RowIsSolution`
says that it is that time, exactly.  The repository's README calls the column UTC,
which is behind GPS time by the leap seconds (`LeapSeconds`): `RowTimeIsUtc`, refuted
by the run `ubx_utc`.  The test of a message's length (63), and of its count of satellites
against it, are left out.

### Startup

Each option is an action: `getopt_long()` hands them over one at a time.  What -t
finds is the set of monitors whose name its argument begins; `matches` goes on
counting where `fallback` starts anew, as in the code (1175, 1277).  `Open` is all
from `gpsd_source_spec()` to `context.readonly = true` (1388): `serial`, the PPS
thread, which only serial, USB and ACM devices get, and the watch request.

### Control

A request of n or s is *written* by the driver's method, *transmitted* while
`tcdrain()` waits, and *obeyed* by the receiver if it comes at the receiver's speed
and in its language; only then `ModeAsked` or `SpeedAsked` goes on (`fallback`, the
speed of the port, `readonly`).  So n and s are two actions with `ReceiverReads`
between them.  `c`, whose request needs no answer, is one.  Between commands gpsd
decodes packets (`Decode`, which sets the session's driver and the lexer's type),
tries other speeds while it cannot (`Hunt`), and may take the receiver to its
native mode if it is allowed to write (`Probe`): all three are external and free.
The bytes of x and X may do anything to the receiver.  `ordered`, `parked` and
`agreed` are history variables; `ordered` is what the user's last i has asked for.  It is
not what the user was told: `announce_log()` (315-326) writes to the packet window
and to the log, so with -a, or on a screen without packet rows, and without a log
"[probing enabled]" is never seen.

### LineEditor and Console

`input` is the text in `input[]` up to its terminator; at its full length the terminator
is behind the end of the buffer (`Overrun`), and from then on the program may die.
`typed` remembers the printable keys.  Without curses the first key wakes `main()` up,
`tcflush()` (1488) discards what was typed ahead after it, `flushed` of them, and
`fgets()` reads the rest; `Kept` are the keys that are left, and `LineIsTyped` says that
the line consists of these, and under curses of all.  A line is executed in the
iteration after it was finished.  `Console` reads the letter and the arguments of i and
n as the code does: `NoArgument` compares the place of the first 0 or 1 in the whole
line with four characters, `Argument` skips blanks, `IsZero` is `atoi()` compared with
0.

`Device` is the console seen from the receiver: `request` is what is on the wire,
`allowed` what the last i has asked for, `order` the line to be executed, of which only
the first letter counts.  A step of the program that is none of these four's business
(options, most keys, the second half of n and s, packets) is a stutter.  It says with
which letter a request of which kind may go out, that nothing else is sent before the
receiver has read it or lost it, and that x apart bytes come only after an i has enabled
probing: what a user who has a receiver at the other end of the line worries about.

### Timespec, Hexdump and PacketHook

`Ns(ts)` is the number of nanoseconds a timespec stands for, and the measure of the
macros.  A byte is one of five classes, and a character of the dump is named after the
byte it shows, so `DumpIsPrefix` can say that the bytes come in order, the first one
first, each with all its characters, until the buffer is full. `cond_hexdump()` has a
fourth argument, `found`: how long the string is that the buffer holds already.  The
branches for binary packets and for printable bytes write from the start; the one for
spaces appends to the string that is there, and `snprintf()` gets what room it leaves
(`Room`).  `gpsmon_hook()` initializes its buffer. `packet_dump()` (278), which shows
what is sent to the device (`Send`), does not: `SentIsShown` says that this does no harm
to a message that is binary or begins with a printable byte, as NMEA sentences and the
messages of binary protocols do.  `Toff`, `Pps`, `IllFormed` and `Packet` are the four
ways through `gpsmon_hook()`, `Latch` its last lines with what `ntp_latch()` does to
`fix_in` and `time_offset`; `Pulse` is the PPS thread.  `newest` and `writers` are
history variables.

What these modules show that no property claims, since no text says otherwise:

* c, n, s and x leave probing disabled, also if i has enabled it before; the last
  message, if there was one, then still says that it is enabled.  X, which asks for no
  permission itself, is refused by gpsd unless i has enabled probing.
* With three blanks before its digit, or a digit above 1, the argument of i and n is
  ignored and the command toggles, where the comment at 928 has "if argument not
  specified, toggle".  `DigitDecides` exempts these lines.
* At the end of the input (`read()` returns 0, 1485) a session without curses executes
  its last command again, in every iteration (`Gpsmon`'s `PlainKey`).
* `packet_dump()` may show part of what is on the stack in front of a message that
  begins with a space, or in its place.
* A second n without an argument, before the next packet was decoded, asks for the
  same mode again: `lexer.type` is that of the last packet.
* Backspace erases nothing.  The key after the 79th overruns `input[]`.
* Without curses the newline stays in the line, and no driver's name matches the
  argument of t.
* A mode specification of s that is cut short is completed by what older lines
  left in the buffer.
* A fix far in the future is latched, and none before that second after it.
* A second -t whose name matches is refused; one that does not match is accepted, and
  leaves no fallback.  -n has no effect on a local device.
* The text of a packet may end in half a byte, where the buffer is full.

## 3. Runs

| run | question | result |
|---|---|---|
| `gpsmon_main` | safety of the main loop against every interleaving of signals and the PPS thread, who can hold `main()` up, the steps a stop request leaves, and refinement of `Session`; does every stop request end the process, and is every pulse reported (liveness)? | holds; the liveness if no question stays unanswered for ever |
| `collector` | panel, recorder and both together; refinement of `Ledger` | holds |
| `ubx_monitor` | do satellites, coordinates and GPS times come out as the receiver meant them? | holds |
| `console` | who may write to the device, which line runs, do mode and speed of both ends stay together; refinement of `Device` | holds |
| `packet_hook` | which seconds are latched, which offset is shown, who writes the last pulse, what is the text of a packet and of a message sent? | holds |
| `log_assert` | is the stream the assertion at 825 is about writable? | violated: `l` keeps the closed stream |
| `signal` | does a signal make it quit, as 1401 says? | violated: not while a complaint or prompt waits |
| `control_l` | does only return finish a line (gpsmon.c:572, 581)? | violated: control-L executes what is typed |
| `repaint` | does wrap deallocate what initialize allocated (gpsmon.h:22)? | violated: control-L |
| `freed_connection` | is a failed connection checked for (monitor_ubx.c:276)? | violated: it is freed and used |
| `rows_without_fix` | do rows come from positions (README.md:11)? | violated |
| `ubx_utc` | is the time in the column UTC that of UTC (README.md:28, 45)? | violated: it is GPS time |

Bounds.  `gpsmon_main` has every command letter, one packet per poll and methods that
write no, one or two messages: two sections of the same call in a row are what a pulse
or a signal can come between.  What a hook leaves behind (a deleted packet window, a
dead log) meets the packet of the next poll; only a packet behind a failed switch in the
same poll is out of this bound, which the liveness properties make necessary.  The
theorems have no bound on either.  Deaths are choices, so for every behaviour that dies
there is one that does not, and `StopEnds` and `PulseIsReported` hold of that too.
`collector` has four window addresses: two live windows and two more, so that a freed
address may or may not be reused and a repaint may leak one; screens one row or column
too small for the ubx monitor, just large enough (no packet window), and larger; the
four kinds of arrivals that `select_packet_monitor()` tells apart; two messages, which
is what order and duplication need; and a screen of one row.  Window addresses are
interchangeable, and all properties of that run are invariants, action properties or a
refinement without fairness, so the symmetry is sound. `ubx_monitor` has the pane's 16
lines, reports of every length class (none, a few, as many as lines, one more), the
satellites at both ends of every range of numbers, and times on both sides of every
carry.  Its bytes have four values instead of 256, since TLC's integers have 32 bits: a
word then has 256 values, and the theorem `WordIsRead` is for bytes of any even number
of values.

`console` has two options, which is what -t needs to count over; a driver that
can all the commands twice (so that the fallback and the session's driver can be two of
them), one that can nothing, and a generic NMEA driver; two speeds; a buffer of six
characters, one line longer than it, and arguments after none, two and three
blanks.  `packet_hook` has times of both signs with nanoseconds on both sides of a
carry (a second has three of them), seconds 0 to 2, sources with a PPS thread,
without one and of a server, and packets of every class of bytes, longer and
shorter than the buffer; a message that is sent finds everything from an empty string to
a buffer without a terminator.  In both, a step that changes nothing stands for the
keys and objects that the program only answers with a message.

`freed_connection` and `rows_without_fix` switch the check for deadlocks off: a process
that has died of a freed connection takes no step any more, and `RecorderSpec`, unlike
`CollectorSpec`, has none for it.

Every property of a passing run has a mutant, an operator beside the definition it
changes (`... Mutation of ...`), with a plausible bug that violates it.

## 4. What is proved

All proofs are in the `...Proofs` modules; the assumptions are the named ones on the
constants (`LinesAssumption`, `MaxPacketsAssumption`, `WindowsAssumption`,
`ScreensAssumption`, `ArrivalsAssumption`, ...).

* `GpsmonProofs`: type correctness (`TypeCorrect`), by one lemma per part of the
  type invariant and the lemma that effect sequences stay sequences of effects;
  mutual exclusion (`Exclusive`) from `LockInv`, which adds where `main()` is to
  who owns the mutex; `ReasonKnown`, from `StoppedInv`.
  `TerminalInMode` needs most: at which places effects can be pending (`TodoInv`),
  that a section stays the one it was entered for (`SectionInv`), that a poll has
  no prompt among its effects (`PollInv`, from `HookEffectsType`), where single
  bytes are read (`BytesInv`) and that nothing comes after the terminal was restored
  (`CookedInv`).  `PlainSurvives` is from `PlainInv`: without curses no panel is ever
  updated and no key is edited, and `logfile` never becomes NULL again.
  `StopApproaches` and `StopBounded` are the safety half of `StopEnds`: with a stop
  pending, `StepsLeft` falls with every step of `main()`, stays as it is when a
  pulse or a signal comes, and is a natural number of at most `MostSteps`, which
  `MaxPackets` and `MaxWrites` determine: a hook has at most `MaxWrites` + 5 effects, a
  command `MaxWrites` + 2 (`HookLength`, `CommandLength`), each of three steps.  They
  also rest on `SectionInv`.  That the steps are taken is fairness, and left to TLC.
  `NobodyElseHoldsUp` is what lies between the two: whenever `main()` runs it can go on
  (`CanGo`), unless a question to the user is open or the PPS thread prints its line.
  It follows from `LockInv` (outside a section the mutex is free or the thread's) and
  `SectionInv` (inside one the effect that it was entered for is next).  That `CanGo`
  is the enabling condition of `MainStep` and `Acquire` is a matter of ENABLED, which
  the prover cannot treat; TLC has compared the two on the states of `gpsmon_main`.
  `OnlyTheCommandClosesIt` proves what the run `log_assert` refutes for users who
  never type `l`: of all that can happen that command alone is to blame.
* `GpsmonSessionProofs`: `SessionImplemented`.  The inductive invariant adds to the
  type invariant `TodoInv` and how many
  operations can have been finished since `bailout` was set (`OverrunInv`): the
  latter is what the checks between the operations are for, and without it the
  step that finishes an operation does not map to a step of `Session`.
* `DisplayProofs`: `DrawsInPanel`, `NoLeak`, `Coverage`, `UbxHandled` from one
  inductive invariant: the live windows form a tree of depth two under the
  screen (`AddressInv`), the only window derived from the panel is the satellite window
  unless there was a repaint (`OnlyPanelInv`), the packet rows fit the active
  monitor (`RowsInv`), and a packet type that was seen last is shown
  (`ShownInv`).  `DisplayTypes` adds that every window's parent lives (`Rooted`),
  which `delwin()` keeps because it refuses to free a parent.  `OnlyRepaintLeaves`
  says of the leak that the run `repaint` shows that control-L alone causes it.
* `RecorderProofs`: `RecorderTypes`, `SessionsClosed`, `NoMessageLostSilently` and
  `LedgerImplemented`.  The invariant says where a session can be open, what became
  of the message in hand at each place (`FateInv`) and that the numbers in the
  table are below the current one except after its insertion (`LedgerInv`).
  `DeathIsOfConnect`, from `FreedInv`: a freed connection is in use only after
  `PQconnectdb()` has failed for the message in hand, so nothing a server does to an
  open connection leads to the undefined calls that `freed_connection` shows.
  `RowsOnce` puts the ledger to use: it is proved of `Ledger` alone that rows have
  increasing numbers and are not more than the measurements (`LedgerOrder`), and the
  refinement makes that a fact about the table.
* `CollectorProofs`: the composition's steps are steps of its parts, so the
  theorems of the parts carry over: `CollectorParts`, and from it `CollectorDisplays` and
  `CollectorRecords` for all the properties of the run; and `NoLossUnexplained`.
  `EveryMessageCounted` adds up from gpsd to the database: rows, messages recorded and
  messages delivered, the last two equal in a session without t on a screen that
  the monitor fits.
* `UbxMonitorProofs`: `WordIsRead`, from the lemma that the quotients of a number by
  the base stay in range, so that the last one is a signed byte;
  `TranslateIsSvinfo`, by cases on the ranges;
  and from them the three invariants of `ubx_monitor` for every height of the pane
  and all reports, coordinates and times.

* `ConsoleProofs`: for any drivers, methods, speeds, options and lines.  The theorems
  about `Control` hold of any command at any time (`ControlSpec`), and `ControlPart`
  carries them over to what is typed.  `ProbingOrdered` needs that no command waits
  before the source is open (`BeginInv`), and that the port is writable without an order
  only while s waits (`Ordered`); `SpeedsStayAgreed` that, while s waits, either the
  request is still on the wire and port and receiver agree at the old speed, or the
  receiver has obeyed (`Agreement`); `WayBackHolds` that a receiver parked in NMEA mode
  has its own driver as the fallback, or as the driver n is waiting for (`Parking`);
  `OneTypeOptionHolds` is from `BeginInv` (there was at most one match) and `LineTyped`
  from `EditorInv`: `input[]` holds what was typed, up to its end, and under curses
  nothing was flushed. `DigitIsObeyed` goes from the line to the value that is set: in a
  line of a letter, at most two blanks and a digit, `strcspn()` finds the digit where
  `strnlen()` does not end (`DigitIsSeen`), skipping blanks leads to the digit alone
  (`DigitIsArgument`), and `atoi()` reads it (`DigitIsRead`).  With a third blank the
  first lemma fails: both counts are four. `DeviceImplemented` maps every step of the
  console to one of `Device` or a stutter, action by action (`OrderStep` by the letter,
  `HearStep`, `DeviceStep`); it needs that probing between commands was ordered
  (`ProbingIsOrdered`), without which neither X nor gpsd's own probing has a
  counterpart. `OverrunExactly` measures the overrun of `input[]`: a key causes it if
  and only if BufSize characters or more were typed since the last command, and every
  shorter line runs whole.
* `PacketHookProofs`: `SubExact` is a fact about `timespec.h` for any resolution of a
  second; `OffsetExact` and `HookTypes` rest on it.  `OneWriter` is from `WriterInv` (a
  thread runs only for a local device, and objects come only from a server),
  `LatchRight` from `LatchInv`. `HexdumpRight` is about `cond_hexdump()` for a packet
  and a buffer of any length and any content of it: a packet that `Overwrites` the
  buffer has all its room (`WholeRoom`) and is shown as if the buffer were empty.
  `DumpRight` and `SentRight` are what follows for the hook and for `packet_dump()`.  It
  is an induction over the bytes of the packet, in a form the provers can use:
  `NatSetInduction` is about a *set* of numbers instead of an operator, and comes from
  the least element of its complement (`WFMin`).  With it `DumpExists` shows that the
  recursive function `text` exists, and `HexdumpRight` that after n bytes (`Dumped`) the
  text either shows all characters of the first n bytes, in order, or is full;
  `NextByteDumped` is the step.

Only model-checked: `StopEnds` and `PulseIsReported`, since liveness and fairness are
beyond the prover.
Every other property of a passing run is a theorem.  The violated ones are not, of
course; `OnlyTheCommandClosesIt`, `OnlyRepaintLeaves`, `DeathIsOfConnect` and, for the
signal, `NobodyElseHoldsUp` say how far they hold.

## 5. Not modelled

* Formatting of rows, panels, prompts and messages, and the floating-point
  conversion of the coordinates; signal strength, elevation and azimuth of
  satellites (read like the coordinates and shown); NAV-DOP, which is only shown.
* `toff_update()` and `pps_update()`, which nothing calls; the comparisons and
  conversions of `timespec.h` that nothing uses; -D, which chooses messages.
* What lies behind a message in the buffer, if its count of satellites is larger than
  its length has room for; the order of lines in the log, where `announce_log()`
  writes after the lock was released (stdio keeps single lines whole); memory
  that grows without a branch that could be wrong (results of `PQexec()` are never
  cleared); the duration of the database calls; with --nocurses no packet reaches
  a monitor (794) and nothing is recorded: `Collector` begins behind that test.
* Resizing of the terminal, which the program does not handle.
* The gpsd library beyond what `src/` uses of it.  Its headers are here, its code is
  not: `gps.h`, `gpsd.h`, `driver_italk.h`, `packet_states.h` and the like declare
  structures and functions, four fifths of all the lines under `src/`, and have no
  behaviour to model.  Of the code that is here (`gpsmon.c`, `monitor_ubx.c`, the
  macros it uses) the map covers all but includes, formatting and dead functions.

## 6. What could follow

1. A NAV-SVINFO message shorter than its count, with what the lexer leaves behind it.
2. `Control` beside the interleavings of `Gpsmon`: what a signal or a pulse finds
   while n or s waits.  The two share no variable but the end of the program.
3. A history of the complaints in `Recorder`, so that the fate of every message, not
   only of the last one, could be stated.
