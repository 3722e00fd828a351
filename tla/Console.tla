------------------------------ MODULE Console ------------------------------
(***************************************************************************)
(* A user at the keyboard: lines are collected by the line editor, or read *)
(* whole without curses, and executed by do_command().  The argument of i   *)
(* and n is read as the code reads it; the others' arguments are what       *)
(* Control makes of them.                                                  *)
(***************************************************************************)
EXTENDS Control, LineEditor

consoleVars == <<controlVars, editorVars>>

-----------------------------------------------------------------------------
(* The argument *)

Blank == " "
IsSpace(c) == c \in {Blank, Newline}
Signs == {"+", "-"}
Digits == {"0", "1", "2", "3", "4", "5", "6", "7", "8", "9"}

\* strcspn(line, "01")
Before01(text) ==
    CHOOSE k \in 0 .. Len(text) :
        /\ \A i \in 1 .. k : text[i] \notin {"0", "1"}
        /\ k < Len(text) => text[k + 1] \in {"0", "1"}

\* Mutation of NoArgument: strnlen(line, 3).
NoArgumentInThree(text) == Before01(text) = Min2(Len(text), 3)

\* The test for a missing argument: strcspn(line, "01") == strnlen(line, 4).
NoArgument(text) == Before01(text) = Min2(Len(text), 4)

\* The argument: arg skips the blanks after the letter.
Argument(text) ==
    LET rest == Tail(text)
    IN  CHOOSE arg \in Suffixes(rest) :
            /\ arg /= <<>> => ~IsSpace(arg[1])
            /\ \A i \in 1 .. Len(rest) - Len(arg) : IsSpace(rest[i])

\* atoi(arg) is zero: whatever digit but 0 there is comes after something that is
\* neither a digit nor a sign in front.
IsZero(arg) ==
    \A i \in DOMAIN arg :
        arg[i] \in Digits \ {"0"} =>
            \E j \in 1 .. i - 1 : arg[j] \notin Digits /\ ~(j = 1 /\ arg[j] \in Signs)

\* i toggles without an argument.
Probing(text) == IF NoArgument(text) THEN readonly ELSE ~IsZero(Argument(text))

\* n toggles without an argument, by the type of the last packet.
Mode(text) ==
    LET binary == IF NoArgument(text) THEN TEXTUAL_PACKET_TYPE(lexerType) ELSE ~IsZero(Argument(text))
    IN  IF binary THEN "binary" ELSE "nmea"

-----------------------------------------------------------------------------
\* l is modelled in Gpsmon; letters nobody knows change nothing.
Does(letter) ==
    \/ letter = "c" /\ ChangeRate
    \/ letter = "i" /\ SetProbing(Probing(line))
    \/ letter = "n" /\ AskMode(Mode(line))
    \/ letter = "s" /\ AskSpeed
    \/ letter = "t" /\ ForceDriver
    \/ letter = "x" /\ SendControl
    \/ letter = "X" /\ SendRaw
    \/ letter = "q" /\ Leave
    \/ letter \notin {"c", "i", "n", "s", "t", "x", "X", "q"} /\ Complain

\* Mutation of Execute: the line is not taken, and executed again.
ExecuteKeepsLine ==
    /\ Ready /\ line /= NoLine
    /\ Does(line[1])
    /\ Taken \/ UNCHANGED editorVars

Execute ==
    /\ Ready /\ line /= NoLine
    /\ Does(line[1])
    /\ Taken

\* What overruns a buffer may go on, or die of it.
Key ==
    /\ Ready /\ curses
    /\ Character \/ OtherKey \/ Return \/ ControlL
    /\ phase' \in IF Overrun THEN {phase, "exited"} ELSE {phase}
    /\ UNCHANGED <<given, options, fallback, curses, opened, readonly,
                   session, cable, waiting, history>>

ReadLine ==
    /\ Ready /\ ~curses
    /\ PlainLine
    /\ UNCHANGED controlVars

Poll == line = NoLine /\ (Decode \/ Hunt \/ Probe \/ Leave) /\ UNCHANGED editorVars

Continue == (ModeAsked \/ SpeedAsked) /\ UNCHANGED editorVars

Start == StartupNext /\ UNCHANGED <<session, cable, waiting, history, editorVars>>

Ended == phase = "exited" /\ UNCHANGED consoleVars

ConsoleInit == ControlInit /\ EditorInit

ConsoleNext ==
    \/ Start \/ Key \/ ReadLine \/ Execute \/ Continue \/ Poll \/ Ended
    \/ ReceiverReads /\ UNCHANGED editorVars

ConsoleSpec == ConsoleInit /\ [][ConsoleNext]_consoleVars

-----------------------------------------------------------------------------
ConsoleTypeOK == ControlTypeOK /\ EditorTypeOK

\* The line that is executed is made of the keys pressed since the one before it, each
\* once and in order, and is cut only where line[] ends (curses_get_command()).  Under
\* curses those are all the printable keys; without, keys are missing that were pressed
\* between the first and the prompt (tcflush(), 1488), and no others.
LineIsTyped ==
    line /= NoLine => line = Copied(Kept(typed, flushed)) /\ (curses => flushed = 0)

\* The digit that follows i or n, after at most two blanks, decides whether probing
\* is enabled and which mode is asked for.
DigitDecides ==
    [][ \A blanks \in {<<>>, <<Blank>>, <<Blank, Blank>>}, digit \in {"0", "1"} :
            line /= NoLine /\ line' = NoLine /\ serial /\ deviceType /= None =>
                /\ line = <<"i">> \o blanks \o <<digit>> => readonly' = (digit = "0")
                /\ line = <<"n">> \o blanks \o <<digit>> /\ waiting' /= NoRequest =>
                      waiting'.value = (IF digit = "0" THEN "nmea" ELSE "binary") ]_consoleVars

Owner == INSTANCE Device WITH request <- wire, allowed <- ordered, order <- line

\* The receiver does what its owner ordered, and nothing else: each line read is
\* executed once, requests go out one at a time, raw bytes and gpsd's own probing only
\* once an i has enabled probing (do_command() 841-1115, main() 1388).
ImplementsDevice == Owner!Spec

\* Only return finishes a line; control-L "is to repaint the screen" (gpsmon.c:581).
FinishedByReturn == line /= NoLine => endedBy = "return"
=============================================================================
