----------------------------- MODULE PacketHook -----------------------------
(***************************************************************************)
(* gpsmon_hook(): what a packet does to the times gpsmon keeps (the offset  *)
(* of the clock, the last pulse, the last second latched for the PPS        *)
(* thread) and what it shows.  The switch of the panel is in Display, the   *)
(* report lock and the log in Gpsmon.                                      *)
(***************************************************************************)
EXTENDS Startup, Timespec, Hexdump

CONSTANTS
    Times,          \* the times TOFF and PPS objects may carry
    Seconds,        \* the seconds of fixes; 0 is a fix without a time
    Packets,        \* the bytes of packets
    BufSpace        \* what buf[BUFSIZ] has room for

ASSUME TimesAssumption == Times \subseteq {ts \in Timespecs : Normalized(ts)} /\ Zero \in Times
ASSUME SecondsAssumption == Seconds \subseteq Nat
ASSUME PacketsAssumption == Packets \subseteq Seq(Bytes)
ASSUME BufSpaceAssumption == BufSpace \in Nat \ {0}

VARIABLES
    timeOffset,     \* time_offset.real, as TOFF objects and ntp_latch() set it
    ppsOut,         \* pps_thread.pps_out
    newdata,        \* device->newdata.time.tv_sec
    fixIn,          \* pps_thread.fix_in.real.tv_sec
    offset,         \* history: the PPS offset printed last
    writers,        \* history: who has written pps_out
    newest,         \* history: the latest second a packet has carried
    dump            \* history: the last packet, or message to the device, whether the
                    \* packets were textual, its text and the buffer that has it

hookVars == <<startupVars, timeOffset, ppsOut, newdata, fixIn, offset, writers, newest, dump>>

-----------------------------------------------------------------------------
\* Mutation of Latch: any other second is a new one.
LatchAnyOther ==
    IF newdata' > 0 /\ newdata' /= fixIn
    THEN fixIn' = newdata' /\ timeOffset' = [sec |-> newdata', nsec |-> 0]
    ELSE UNCHANGED <<fixIn, timeOffset>>

\* The last lines of gpsmon_hook(): ntp_latch() hands a new second to the PPS thread
\* and stores it in time_offset.
Latch ==
    IF newdata' > 0 /\ newdata' > fixIn
    THEN fixIn' = newdata' /\ timeOffset' = [sec |-> newdata', nsec |-> 0]
    ELSE UNCHANGED <<fixIn, timeOffset>>

\* A well-formed TOFF object of the server.
Toff ==
    /\ phase = "running" /\ ~serial
    /\ timeOffset' \in Times
    /\ UNCHANGED <<startupVars, ppsOut, newdata, fixIn, offset, writers, newest, dump>>

\* A well-formed PPS object of the server; pps_out is written without its lock.
Pps ==
    /\ phase = "running" /\ ~serial
    /\ ppsOut' \in [real : Times, clock : Times]
    /\ offset' = TS_SUB(ppsOut'.clock, ppsOut'.real)
    /\ writers' = writers \cup {"main"}
    /\ UNCHANGED newdata
    /\ Latch
    /\ UNCHANGED <<startupVars, newest, dump>>

\* An ill-formed object: a complaint.
IllFormed ==
    /\ phase = "running" /\ ~serial
    /\ UNCHANGED hookVars

\* Any other packet.  Before the hook, gpsd stores the time of its fix, if any.
Packet ==
    /\ phase = "running"
    /\ \E bytes \in Packets, textual \in BOOLEAN :
          dump' = [by |-> "hook", bytes |-> bytes, textual |-> textual,
                   text |-> cond_hexdump(bytes, textual, BufSpace, 0)]
    /\ newdata' \in Seconds \cup {newdata}
    /\ newest' = IF newdata' > newest THEN newdata' ELSE newest
    /\ Latch
    /\ UNCHANGED <<startupVars, ppsOut, offset, writers>>

\* packet_dump(): a message goes to the device and is printed, if there is a packet
\* window.  The buffer is not initialized; twice as long as the message, it may hold
\* anything.
Send ==
    /\ phase = "running" /\ serial /\ curses
    /\ \E bytes \in Packets, textual \in BOOLEAN :
          \E found \in 0 .. 2 * Len(bytes) :
              dump' = [by |-> "send", bytes |-> bytes, textual |-> textual,
                       text |-> cond_hexdump(bytes, textual, 2 * Len(bytes), found)]
    /\ UNCHANGED <<startupVars, timeOffset, ppsOut, newdata, fixIn, offset, writers, newest>>

\* The PPS thread of a local device stores a pulse.
Pulse ==
    /\ phase = "running" /\ ppsThread
    /\ ppsOut' \in [real : Times, clock : Times]
    /\ writers' = writers \cup {"thread"}
    /\ UNCHANGED <<startupVars, timeOffset, newdata, fixIn, offset, newest, dump>>

Begin == StartupNext /\ UNCHANGED <<timeOffset, ppsOut, newdata, fixIn, offset, writers, newest, dump>>

Quit == phase = "exited" /\ UNCHANGED hookVars

HookInit ==
    /\ StartupInit
    /\ timeOffset = Zero /\ ppsOut = [real |-> Zero, clock |-> Zero] /\ offset = Zero
    /\ newdata = 0 /\ fixIn = 0 /\ newest = 0
    /\ writers = {} /\ dump = [by |-> "hook", bytes |-> <<>>, textual |-> FALSE, text |-> <<>>]

HookNext == Begin \/ Toff \/ Pps \/ IllFormed \/ Packet \/ Send \/ Pulse \/ Quit

HookSpec == HookInit /\ [][HookNext]_hookVars

-----------------------------------------------------------------------------
Offsets == [real : Times, clock : Times]

HookTypeOK ==
    /\ StartupTypeOK(Monitors)
    /\ timeOffset \in Timespecs /\ ppsOut \in Offsets
    /\ offset \in Timespecs /\ Normalized(offset)
    /\ newdata \in Nat /\ fixIn \in Nat /\ newest \in Nat
    /\ writers \subseteq {"main", "thread"}
    /\ dump.by \in {"hook", "send"}
    /\ dump.bytes \in Packets \cup {<<>>} /\ dump.textual \in BOOLEAN

\* pps_out has one writer: main(), which takes no lock for it, writes only when no
\* PPS thread was started ("In direct mode this would be a bad idea", gpsmon.c:771).
OnePpsWriter == Cardinality(writers) <= 1

\* The offset shown of a PPS object is the exact difference of its two times, and
\* normalized, whichever of them is ahead.
OffsetIsExact ==
    ~serial => Normalized(offset) /\ Ns(offset) = Ns(ppsOut.clock) - Ns(ppsOut.real)

\* The PPS thread has always been given the latest second of all fixes: none is
\* skipped, and none is given again or taken back by a PPS object, an older fix or
\* a fix without a time.
NewestIsLatched == fixIn = newest

\* The text of a packet shows its bytes in order from the first one on, each with all
\* its characters, and stops only where the buffer is full.
DumpIsPrefix ==
    dump.by = "hook" => IsTextOf(dump.text, dump.bytes, dump.textual, BufSpace)

\* A message that is binary, or begins with a printable byte, is shown as it is, whatever
\* packet_dump()'s buffer (278) held before: cond_hexdump() writes over it from the
\* start.  Of one that begins with a space the text may be cut or be what the buffer held.
SentIsShown ==
    LET bytes == dump.bytes
    IN  dump.by = "send" /\ (~Printable(bytes) \/ (bytes /= <<>> /\ bytes[1] = "print"))
        => IsTextOf(dump.text, bytes, dump.textual, 2 * Len(bytes))
=============================================================================
