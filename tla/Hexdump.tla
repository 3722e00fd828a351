------------------------------ MODULE Hexdump ------------------------------
(***************************************************************************)
(* cond_hexdump(): a packet as text, the printable bytes as they are and    *)
(* other spaces as \x.., or all bytes in hexadecimal if there is any other. *)
(* A character of the text is named after the byte it shows, <<i, k>> for   *)
(* the k-th character of byte i.                                           *)
(***************************************************************************)
EXTENDS Naturals, Sequences

Bytes == {"print", "nl", "cr", "space", "other"}    \* isprint(), isspace(), neither
Shown(i, width) == [k \in 1 .. width |-> <<i, k>>]

Printable(bytes) == \A i \in DOMAIN bytes : bytes[i] /= "other"

\* A textual packet is shown without its last newline and carriage return.
LineEnd(bytes, i, textual) ==
    /\ textual
    /\ \/ i = Len(bytes) /\ bytes[i] = "nl"
       \/ i = Len(bytes) - 1 /\ bytes[i] = "cr"

\* snprintf() and str_appendf() cut what they append at the end of the buffer.
AppendCut(text, more, size) ==
    LET all == text \o more IN IF Len(all) < size THEN all ELSE SubSeq(all, 1, size - 1)

\* How many characters show byte i.
Width(bytes, i, textual) ==
    IF ~Printable(bytes) THEN 2
    ELSE IF bytes[i] = "print" THEN 1
    ELSE IF LineEnd(bytes, i, textual) THEN 0 ELSE 4

\* What the buffer may hold at the start, up to its first NUL: characters of nobody.
Leftover(found) == Shown(0, found)

\* What byte n may use of the buffer, the terminator included.  snprintf() is given the
\* room behind the string in the buffer: until something has been shown of the
\* packet, behind the leftover.
Room(bytes, textual, size, found, n) ==
    IF /\ Printable(bytes) /\ bytes[n] /= "print"
       /\ \A i \in 1 .. n - 1 : Width(bytes, i, textual) = 0
    THEN size - found ELSE size

\* Nothing is written: none of the packet is to be shown, or there is no room for it.
Untouched(bytes, textual, size, found) ==
    /\ Printable(bytes)
    /\ \/ size = 1
       \/ \A n \in DOMAIN bytes : Width(bytes, n, textual) = 0
       \/ \E n \in DOMAIN bytes : /\ Width(bytes, n, textual) > 0
                                  /\ Room(bytes, textual, size, found, n) = 0

\* Mutation of cond_hexdump: what no longer fits is skipped.
cond_hexdumpSkips(bytes, textual, size, found) ==
    LET text[n \in 0 .. Len(bytes)] ==
            IF n = 0 THEN <<>>
            ELSE LET all == text[n - 1] \o Shown(n, Width(bytes, n, textual))
                 IN  IF Len(all) < size THEN all ELSE text[n - 1]
    IN  text[Len(bytes)]

\* Mutation of cond_hexdump: no branch begins with an empty string.
cond_hexdumpAppends(bytes, textual, size, found) ==
    LET text[n \in 0 .. Len(bytes)] ==
            IF n = 0 THEN Leftover(found)
            ELSE AppendCut(text[n - 1], Shown(n, Width(bytes, n, textual)), size)
    IN  text[Len(bytes)]

\* size is that of the buffer, its terminator included, and found what it holds before.
cond_hexdump(bytes, textual, size, found) ==
    LET text[n \in 0 .. Len(bytes)] ==
            IF n = 0 THEN <<>>
            ELSE AppendCut(text[n - 1], Shown(n, Width(bytes, n, textual)),
                           Room(bytes, textual, size, found, n))
    IN  IF Untouched(bytes, textual, size, found) THEN Leftover(found) ELSE text[Len(bytes)]

-----------------------------------------------------------------------------
\* The number of characters of every byte; byte 0 stands for the beginning.
Widths(bytes, textual) ==
    [i \in 0 .. Len(bytes) |-> IF i = 0 THEN 0 ELSE Width(bytes, i, textual)]

\* Character d comes right after character c.
Follows(c, d, widths) ==
    \/ d = <<c[1], c[2] + 1>>
    \/ /\ c[2] = widths[c[1]] /\ d[1] > c[1] /\ d[2] = 1
       /\ \A i \in c[1] + 1 .. d[1] - 1 : widths[i] = 0

\* The text shows bytes in order, from the first one on and none in part before the last.
InOrder(text, widths) ==
    \A k \in 1 .. Len(text) :
        LET d == text[k]
        IN  /\ d[1] \in DOMAIN widths /\ d[2] \in 1 .. widths[d[1]]
            /\ Follows(IF k = 1 THEN <<0, 0>> ELSE text[k - 1], d, widths)

\* The text shows all characters of the first n bytes.
ShowsAll(text, widths, n) ==
    \A i \in 1 .. n : \A k \in 1 .. widths[i] : \E j \in 1 .. Len(text) : text[j] = <<i, k>>

\* The text is that of the bytes, and stops only where the buffer is full.
IsTextOf(text, bytes, textual, size) ==
    LET widths == Widths(bytes, textual)
    IN  /\ Len(text) < size
        /\ InOrder(text, widths)
        /\ Len(text) < size - 1 => ShowsAll(text, widths, Len(bytes))
=============================================================================
