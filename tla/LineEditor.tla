----------------------------- MODULE LineEditor -----------------------------
(***************************************************************************)
(* curses_get_command(): one key at a time is collected in input[]; a       *)
(* finished line is copied to line[] and handed to do_command().            *)
(***************************************************************************)
EXTENDS Naturals, Sequences, SequencesExt

CONSTANTS
    BufSize,        \* sizeof(input) and sizeof(line)
    Texts           \* the lines users have in mind; they bound what is typed

NoLine == <<>>          \* NULL: a line that is handed over is not empty
Newline == "\n"
Characters == STRING \cup {Newline}

ASSUME BufSizeAssumption == BufSize \in Nat \ {0, 1}
ASSUME TextsAssumption == Texts \subseteq Seq(Characters)

VARIABLES
    input,      \* the characters in input[], up to the first NUL or its end
    line,       \* the line handed to do_command(), or NULL
    endedBy,    \* history: the key that finished the line
    typed,      \* history: the printable keys since the last line was executed, and
                \* without curses the return that follows them
    flushed     \* history: how many of them, after the first, tcflush() discarded

editorVars == <<input, line, endedBy, typed, flushed>>

-----------------------------------------------------------------------------
Min2(a, b) == IF a < b THEN a ELSE b

\* strlcpy(line, input, sizeof(line)).
Copied(text) == SubSeq(text, 1, Min2(Len(text), BufSize - 1))

\* input[] was full, or is now: a character, a terminator, or both have been written
\* behind it, or were looked for there.
Overrun == BufSize \in {Len(input), Len(input')}

\* A printable key.
Character ==
    /\ line = NoLine
    /\ \E text \in Texts :
          /\ Len(typed) < Len(text)
          /\ IsPrefix(typed, text)
          /\ typed' = Append(typed, text[Len(typed) + 1])
    /\ input' = IF Len(input) < BufSize THEN Append(input, Last(typed')) ELSE input
    /\ UNCHANGED <<line, endedBy, flushed>>

\* Backspace writes a terminator where there is one; other keys do nothing.
OtherKey ==
    /\ line = NoLine
    /\ UNCHANGED editorVars

\* Mutation of Finish: input[] is not emptied.
FinishKeepsInput(key) ==
    /\ line = NoLine
    /\ line' = IF input = <<>> THEN NoLine ELSE Copied(input)
    /\ endedBy' = IF input = <<>> THEN endedBy ELSE key
    /\ UNCHANGED <<input, typed, flushed>>

\* Mutation of Finish: the line is copied whole.
FinishCopiesAll(key) ==
    /\ line = NoLine
    /\ line' = IF input = <<>> THEN NoLine ELSE input
    /\ endedBy' = IF input = <<>> THEN endedBy ELSE key
    /\ input' = <<>>
    /\ UNCHANGED <<typed, flushed>>

\* The end of curses_get_command(), which control-L runs into as well.  No monitor
\* knows commands of its own: command is NULL or returns COMMAND_UNKNOWN.
Finish(key) ==
    /\ line = NoLine
    /\ line' = IF input = <<>> THEN NoLine ELSE Copied(input)
    /\ endedBy' = IF input = <<>> THEN endedBy ELSE key
    /\ input' = <<>>
    /\ UNCHANGED <<typed, flushed>>

Return == Finish("return")
ControlL == Finish("^L")

\* The first key, and of the others those that were not flushed.
Kept(keys, n) == IF n = 0 THEN keys ELSE <<keys[1]>> \o SubSeq(keys, n + 2, Len(keys))

\* Without curses the first key wakes main() up; tcflush() discards what was typed
\* ahead after it, and fgets() waits for the rest, newline included.  Who has typed
\* the newline ahead has to type it again.  A return may be the first key: it wakes
\* main() too, and no command begins with it.
\* Lines that do not fit, whose rest fgets() leaves for the next command, are not
\* typed.  At the end of the input the last line comes again (Gpsmon): here that is to
\* type it again.
PlainLine ==
    /\ line = NoLine
    /\ \E text \in Texts \cup {<<Newline>>} :
          /\ text /= <<>> /\ Len(text) + 1 < BufSize
          /\ typed' = Append(text, Newline)
          /\ flushed' \in 0 .. Len(text) - 1
    /\ line' = Kept(typed', flushed')
    /\ endedBy' = "return"
    /\ UNCHANGED input

\* do_command() has begun; the pointer is not used again.
Taken == line' = NoLine /\ typed' = <<>> /\ flushed' = 0 /\ UNCHANGED <<input, endedBy>>

EditorInit ==
    input = <<>> /\ line = NoLine /\ endedBy = "return" /\ typed = <<>> /\ flushed = 0

-----------------------------------------------------------------------------
EditorTypeOK ==
    /\ input \in Seq(Characters) /\ Len(input) <= BufSize
    /\ line \in Seq(Characters) /\ Len(line) < BufSize
    /\ endedBy \in {"return", "^L"} /\ typed \in Seq(Characters)
    /\ flushed \in Nat
=============================================================================
