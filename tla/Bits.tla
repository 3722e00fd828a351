-------------------------------- MODULE Bits --------------------------------
(***************************************************************************)
(* The little-endian accessors of bits.h, on a buffer of bytes that starts *)
(* at 0, and the words a receiver sends.                                   *)
(***************************************************************************)
EXTENDS Integers

CONSTANT Base       \* the number of values of a byte; 256 in the code

ASSUME BaseAssumption == Base \in Nat \ {0} /\ Base % 2 = 0

Byte == 0 .. Base - 1

getub(buf, off) == buf[off]
getsb(buf, off) == IF 2 * buf[off] >= Base THEN buf[off] - Base ELSE buf[off]

\* The halves of a word do not overlap, so | adds them.
getleu16(buf, off) == getub(buf, off + 1) * Base + getub(buf, off)
getles16(buf, off) == getsb(buf, off + 1) * Base + getub(buf, off)

\* Mutation of getles32: the low half is taken as a signed number too.
getles32Signed(buf, off) ==
    (getles16(buf, off + 2) * Base) * Base + getles16(buf, off)

getles32(buf, off) == (getles16(buf, off + 2) * Base) * Base + getleu16(buf, off)

\* The four bytes of an integer, in two's complement if it is negative.
Word(v) ==
    [i \in 0..3 |-> IF i = 0 THEN v % Base
                    ELSE IF i = 1 THEN (v \div Base) % Base
                    ELSE IF i = 2 THEN ((v \div Base) \div Base) % Base
                    ELSE (((v \div Base) \div Base) \div Base) % Base]

\* The integers that fit a word.
Cube == (Base * Base) * Base
Half == Base \div 2
Signed == {v \in Int : -(Half * Cube) <= v /\ v < Half * Cube}
=============================================================================
