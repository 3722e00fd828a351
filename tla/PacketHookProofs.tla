-------------------------- MODULE PacketHookProofs --------------------------
(***************************************************************************)
(* Times: the arithmetic of timespec.h for every length of a second, and    *)
(* what gpsmon_hook() keeps, for all times, fixes and packets; the text of  *)
(* cond_hexdump() for packets and buffers of every length.                 *)
(***************************************************************************)
EXTENDS PacketHook, FiniteSetTheorems, SequenceTheorems, WellFoundedInduction, TLAPS

-----------------------------------------------------------------------------
(* timespec.h *)

\* Borrowing and carrying a second keeps the time.
LEMMA CarryKeepsTime ==
    ASSUME NEW ts \in Timespecs
    PROVE  /\ Borrow(ts) \in Timespecs /\ Ns(Borrow(ts)) = Ns(ts)
           /\ Carry(ts) \in Timespecs /\ Ns(Carry(ts)) = Ns(ts)
<1>1. NS_IN_SEC \in Int
  BY NsAssumption
<1>2. /\ (ts.sec + 1) * NS_IN_SEC = ts.sec * NS_IN_SEC + NS_IN_SEC
      /\ (ts.sec - 1) * NS_IN_SEC = ts.sec * NS_IN_SEC - NS_IN_SEC
      /\ ts.sec * NS_IN_SEC \in Int
  BY <1>1 DEF Timespecs
<1>. QED
  BY <1>1, <1>2 DEF Timespecs, Borrow, Carry, Ns

\* TS_NORM() keeps the time, whatever it is given.
LEMMA NormKeepsTime ==
    ASSUME NEW ts \in Timespecs
    PROVE  TS_NORM(ts) \in Timespecs /\ Ns(TS_NORM(ts)) = Ns(ts)
BY CarryKeepsTime DEF TS_NORM

\* TS_SUB() of two normalized times is normalized ("a one needs to be borrowed or
\* carried" is enough) and exact.
THEOREM SubExact ==
    ASSUME NEW x \in Timespecs, NEW y \in Timespecs, Normalized(x), Normalized(y)
    PROVE  /\ TS_SUB(x, y) \in Timespecs
           /\ Normalized(TS_SUB(x, y))
           /\ Ns(TS_SUB(x, y)) = Ns(x) - Ns(y)
<1>. DEFINE d == [sec |-> x.sec - y.sec, nsec |-> x.nsec - y.nsec]
<1>1. NS_IN_SEC \in Int /\ NS_IN_SEC > 0
  BY NsAssumption
<1>2. d \in Timespecs
  BY DEF Timespecs
<1>3. TS_SUB(x, y) = TS_NORM(d)
  BY DEF TS_SUB
<1>4. Ns(d) = Ns(x) - Ns(y)
  <2>1. /\ x.sec * NS_IN_SEC \in Int /\ y.sec * NS_IN_SEC \in Int
        /\ (x.sec - y.sec) * NS_IN_SEC = x.sec * NS_IN_SEC - y.sec * NS_IN_SEC
    BY <1>1 DEF Timespecs
  <2>. QED
    BY <2>1 DEF Ns, Timespecs
<1>5. Normalized(TS_NORM(d))
  BY <1>1 DEF Timespecs, Normalized, TS_NORM, Borrow, Carry
<1>. QED
  BY <1>2, <1>3, <1>4, <1>5, NormKeepsTime

-----------------------------------------------------------------------------
(* cond_hexdump(): the recursion over the bytes of a packet *)

\* Induction over the numbers, for the members of a set: the theorems of the library
\* are about predicates.
LessThan == {ss \in Nat \X Nat : ss[1] < ss[2]}

LEMMA NatSetInduction ==
    ASSUME NEW S, S \subseteq Nat, 0 \in S, \A n \in S : n + 1 \in S
    PROVE  S = Nat
<1>. DEFINE T == Nat \ S
<1>. SUFFICES ASSUME T /= {}
              PROVE  FALSE
  OBVIOUS
<1>1. IsWellFoundedOn(LessThan, Nat)
  BY NatLessThanWellFounded DEF OpToRel, LessThan
<1>2. \E n \in T : \A m \in T : ~(<<m, n>> \in LessThan)
  <2>1. T \subseteq Nat
    OBVIOUS
  <2>. HIDE DEF T
  <2>. QED
    BY <1>1, <2>1, WFMin
<1>3. PICK n \in T : \A m \in T : ~(<<m, n>> \in LessThan)
  BY <1>2
<1>4. n /= 0 /\ n - 1 \in Nat /\ n \in Nat
  OBVIOUS
<1>5. n - 1 \in T
  BY <1>4
<1>6. <<n - 1, n>> \in LessThan
  BY <1>4 DEF LessThan
<1>. QED
  BY <1>3, <1>5, <1>6

Chars == Nat \X Nat

\* What cond_hexdump() has in its buffer after the first n bytes.
IsDump(text, bytes, textual, size, found, m) ==
    text = [n \in 0 .. m |->
               IF n = 0 THEN <<>>
               ELSE AppendCut(text[n - 1], Shown(n, Width(bytes, n, textual)),
                              Room(bytes, textual, size, found, n))]

\* The recursion of cond_hexdump() defines a function.
LEMMA DumpExists ==
    ASSUME NEW bytes, NEW textual, NEW size, NEW found, NEW m \in Nat
    PROVE  \E text : IsDump(text, bytes, textual, size, found, m)
<1>. DEFINE next(before, n) == AppendCut(before, Shown(n, Width(bytes, n, textual)),
                                         Room(bytes, textual, size, found, n))
            S == {k \in Nat : \E text : IsDump(text, bytes, textual, size, found, k)}
<1>1. 0 \in S
  <2>1. IsDump([n \in 0 .. 0 |-> <<>>], bytes, textual, size, found, 0)
    BY DEF IsDump
  <2>. QED
    BY <2>1
<1>2. ASSUME NEW k \in S
      PROVE  k + 1 \in S
  <2>1. PICK text : IsDump(text, bytes, textual, size, found, k)
    OBVIOUS
  <2>. DEFINE more == [n \in 0 .. k + 1 |-> IF n = k + 1 THEN next(text[k], n) ELSE text[n]]
  <2>. HIDE DEF next
  <2>2. text = [n \in 0 .. k |-> IF n = 0 THEN <<>> ELSE next(text[n - 1], n)]
    BY <2>1 DEF IsDump, next
  <2>3. ASSUME NEW n \in 0 .. k + 1
        PROVE  more[n] = IF n = 0 THEN <<>> ELSE next(more[n - 1], n)
    <3>1. CASE n = k + 1
      BY <3>1
    <3>2. CASE n \in 0 .. k
      BY <2>2, <3>2
    <3>. QED
      BY <3>1, <3>2
  <2>4. more = [n \in 0 .. k + 1 |-> IF n = 0 THEN <<>> ELSE next(more[n - 1], n)]
    BY <2>3
  <2>5. IsDump(more, bytes, textual, size, found, k + 1)
    <3>. HIDE DEF more
    <3>. QED
      BY <2>4 DEF IsDump, next
  <2>. QED
    BY <2>5
<1>. HIDE DEF S
<1>3. S = Nat
  <2>1. S \subseteq Nat
    BY DEF S
  <2>. QED
    BY <1>1, <1>2, <2>1, NatSetInduction
<1>. QED
  BY <1>3 DEF S

\* The function that cond_hexdump() reads its result from.
LEMMA DumpIsFound ==
    ASSUME NEW bytes \in Seq(Bytes), NEW textual, NEW size, NEW found,
           ~Untouched(bytes, textual, size, found)
    PROVE  \E text : /\ IsDump(text, bytes, textual, size, found, Len(bytes))
                     /\ cond_hexdump(bytes, textual, size, found) = text[Len(bytes)]
<1>. DEFINE text == CHOOSE t : IsDump(t, bytes, textual, size, found, Len(bytes))
<1>1. IsDump(text, bytes, textual, size, found, Len(bytes))
  <2>1. Len(bytes) \in Nat
    OBVIOUS
  <2>. QED
    BY <2>1, DumpExists
<1>2. cond_hexdump(bytes, textual, size, found) = text[Len(bytes)]
  BY DEF cond_hexdump, IsDump
<1>. HIDE DEF text
<1>. QED
  BY <1>1, <1>2

\* The number of characters of every byte.
LEMMA WidthsType ==
    ASSUME NEW bytes \in Seq(Bytes), NEW textual
    PROVE  /\ Widths(bytes, textual) \in [0 .. Len(bytes) -> Nat]
           /\ Widths(bytes, textual)[0] = 0
           /\ \A n \in 1 .. Len(bytes) : Widths(bytes, textual)[n] = Width(bytes, n, textual)
<1>1. Len(bytes) \in Nat
  OBVIOUS
<1>2. \A n \in 1 .. Len(bytes) : Width(bytes, n, textual) \in Nat
  BY DEF Width
<1>. QED
  BY <1>1, <1>2 DEF Widths

LastOf(text) == IF Len(text) = 0 THEN <<0, 0>> ELSE text[Len(text)]

\* The last character is the last of its byte, and later bytes have none.
EndsWith(text, widths, n) ==
    LET c == LastOf(text)
    IN  /\ c[2] = widths[c[1]]
        /\ \A i \in c[1] + 1 .. n : widths[i] = 0

\* The text after n bytes.
Dumped(text, widths, size, n) ==
    /\ text \in Seq(Chars) /\ Len(text) < size
    /\ InOrder(text, widths)
    /\ \A k \in 1 .. Len(text) : text[k][1] <= n
    /\ Len(text) < size - 1 => EndsWith(text, widths, n) /\ ShowsAll(text, widths, n)

\* The characters of a byte behind a text.
LEMMA OneMoreByte ==
    ASSUME NEW text \in Seq(Chars), NEW n \in Nat, NEW w \in Nat
    PROVE  /\ text \o Shown(n, w) \in Seq(Chars)
           /\ Len(text \o Shown(n, w)) = Len(text) + w
           /\ \A k \in 1 .. Len(text) : (text \o Shown(n, w))[k] = text[k]
           /\ \A k \in 1 .. w : (text \o Shown(n, w))[Len(text) + k] = <<n, k>>
<1>1. Shown(n, w) \in Seq(Chars) /\ Len(Shown(n, w)) = w
  BY DEF Shown, Chars
<1>2. \A k \in 1 .. w : Shown(n, w)[k] = <<n, k>>
  BY DEF Shown
<1>3. /\ text \o Shown(n, w) \in Seq(Chars)
      /\ Len(text \o Shown(n, w)) = Len(text) + w
      /\ \A k \in 1 .. Len(text) + w :
            (text \o Shown(n, w))[k] = IF k <= Len(text) THEN text[k] ELSE Shown(n, w)[k - Len(text)]
  BY <1>1, ConcatProperties
<1>4. Len(text) \in Nat
  OBVIOUS
<1>5. ASSUME NEW k \in 1 .. w
      PROVE  (text \o Shown(n, w))[Len(text) + k] = <<n, k>>
  <2>1. Len(text) + k \in 1 .. Len(text) + w /\ ~(Len(text) + k <= Len(text)) /\ Len(text) + k - Len(text) = k
    BY <1>4
  <2>. QED
    BY <1>2, <1>3, <2>1
<1>6. ASSUME NEW k \in 1 .. Len(text)
      PROVE  (text \o Shown(n, w))[k] = text[k]
  BY <1>3, <1>4
<1>. QED
  BY <1>3, <1>5, <1>6

\* A whole byte behind a text that is complete.
LEMMA NextByteInOrder ==
    ASSUME NEW m \in Nat, NEW n \in 0 .. m - 1, NEW widths \in [0 .. m -> Nat], widths[0] = 0,
           NEW text \in Seq(Chars), InOrder(text, widths), EndsWith(text, widths, n), ShowsAll(text, widths, n),
           \A k \in 1 .. Len(text) : text[k][1] <= n
    PROVE  LET all == text \o Shown(n + 1, widths[n + 1])
           IN  /\ InOrder(all, widths) /\ EndsWith(all, widths, n + 1) /\ ShowsAll(all, widths, n + 1)
               /\ \A k \in 1 .. Len(all) : all[k][1] <= n + 1
<1>. DEFINE w == widths[n + 1]
            all == text \o Shown(n + 1, w)
<1>0. n \in Nat /\ n + 1 \in Nat /\ n + 1 \in 1 .. m /\ w \in Nat /\ Len(text) \in Nat
  OBVIOUS
<1>1. /\ all \in Seq(Chars) /\ Len(all) = Len(text) + w
      /\ \A k \in 1 .. Len(text) : all[k] = text[k]
      /\ \A k \in 1 .. w : all[Len(text) + k] = <<n + 1, k>>
  <2>. HIDE DEF w
  <2>. QED
    BY <1>0, OneMoreByte
<1>. HIDE DEF all
<1>2. \A k \in 1 .. Len(all) : k \in 1 .. Len(text) \/ k - Len(text) \in 1 .. w
  BY <1>0, <1>1
<1>3. \A k \in 1 .. Len(text) : text[k] \in Chars
  OBVIOUS
<1>4. LastOf(text)[1] \in 0 .. n /\ LastOf(text)[2] \in Nat
  <2>1. CASE Len(text) = 0
    BY <1>0, <2>1 DEF LastOf
  <2>2. CASE Len(text) /= 0
    BY <1>0, <1>3, <2>2 DEF LastOf, Chars
  <2>. QED
    BY <2>1, <2>2
<1>5. InOrder(all, widths)
  <2>. SUFFICES ASSUME NEW k \in 1 .. Len(all)
                PROVE  /\ all[k][1] \in DOMAIN widths /\ all[k][2] \in 1 .. widths[all[k][1]]
                       /\ Follows(IF k = 1 THEN <<0, 0>> ELSE all[k - 1], all[k], widths)
    BY DEF InOrder
  <2>1. CASE k \in 1 .. Len(text)
    <3>1. all[k] = text[k] /\ (k /= 1 => all[k - 1] = text[k - 1])
      <4>1. k /= 1 => k - 1 \in 1 .. Len(text)
        BY <1>0, <2>1
      <4>. QED
        BY <1>1, <2>1, <4>1
    <3>. QED
      BY <2>1, <3>1 DEF InOrder
  <2>2. CASE k = Len(text) + 1
    <3>1. w \in Nat /\ w >= 1 /\ all[k] = <<n + 1, 1>>
      BY <1>0, <1>1, <2>2
    <3>2. (IF k = 1 THEN <<0, 0>> ELSE all[k - 1]) = LastOf(text)
      <4>1. CASE Len(text) = 0
        BY <2>2, <4>1 DEF LastOf
      <4>2. CASE Len(text) /= 0
        <5>1. k /= 1 /\ k - 1 = Len(text) /\ Len(text) \in 1 .. Len(text)
          BY <1>0, <2>2, <4>2
        <5>2. all[k - 1] = text[Len(text)]
          BY <1>1, <5>1
        <5>. QED
          BY <4>2, <5>1, <5>2 DEF LastOf
      <4>. QED
        BY <4>1, <4>2
    <3>3. Follows(LastOf(text), <<n + 1, 1>>, widths)
      <4>1. \A i \in LastOf(text)[1] + 1 .. n : widths[i] = 0
        BY DEF EndsWith
      <4>2. LastOf(text)[2] = widths[LastOf(text)[1]]
        BY DEF EndsWith
      <4>. QED
        BY <1>0, <1>4, <4>1, <4>2 DEF Follows
    <3>4. all[k][1] = n + 1 /\ all[k][2] = 1
      BY <3>1
    <3>5. 1 \in 1 .. widths[n + 1] /\ n + 1 \in DOMAIN widths
      BY <1>0, <3>1
    <3>. QED
      BY <3>1, <3>2, <3>3, <3>4, <3>5
  <2>3. CASE k - Len(text) \in 2 .. w
    <3>1. all[k] = <<n + 1, k - Len(text)>>
      <4>1. k - Len(text) \in 1 .. w /\ Len(text) + (k - Len(text)) = k
        BY <1>0, <2>3
      <4>. QED
        BY <1>1, <4>1
    <3>2. all[k - 1] = <<n + 1, k - 1 - Len(text)>> /\ k /= 1
      <4>1. k - 1 - Len(text) \in 1 .. w /\ Len(text) + (k - 1 - Len(text)) = k - 1 /\ k /= 1
        BY <1>0, <2>3
      <4>. QED
        BY <1>1, <4>1
    <3>3. k - Len(text) = (k - 1 - Len(text)) + 1
      BY <1>0, <2>3
    <3>. QED
      BY <1>0, <2>3, <3>1, <3>2, <3>3 DEF Follows
  <2>. QED
    BY <1>0, <1>2, <2>1, <2>2, <2>3
<1>6. EndsWith(all, widths, n + 1)
  <2>1. CASE w = 0
    <3>1. Len(all) = Len(text) /\ LastOf(all) = LastOf(text)
      BY <1>0, <1>1, <2>1 DEF LastOf
    <3>2. \A i \in LastOf(text)[1] + 1 .. n + 1 : widths[i] = 0
      BY <1>0, <1>4, <2>1 DEF EndsWith
    <3>. QED
      BY <3>1, <3>2 DEF EndsWith
  <2>2. CASE w > 0
    <3>1. w \in 1 .. w /\ Len(all) /= 0
      BY <1>0, <1>1, <2>2
    <3>2. LastOf(all) = <<n + 1, w>>
      BY <1>0, <1>1, <3>1 DEF LastOf
    <3>. QED
      BY <1>0, <3>2 DEF EndsWith
  <2>. QED
    BY <1>0, <2>1, <2>2
<1>7. ShowsAll(all, widths, n + 1)
  <2>. SUFFICES ASSUME NEW i \in 1 .. n + 1, NEW k \in 1 .. widths[i]
                PROVE  \E j \in 1 .. Len(all) : all[j] = <<i, k>>
    BY DEF ShowsAll
  <2>1. CASE i = n + 1
    <3>1. Len(text) + k \in 1 .. Len(all) /\ all[Len(text) + k] = <<i, k>>
      BY <1>0, <1>1, <2>1
    <3>. QED
      BY <3>1
  <2>2. CASE i \in 1 .. n
    <3>1. PICK j \in 1 .. Len(text) : text[j] = <<i, k>>
      BY <2>2 DEF ShowsAll
    <3>2. j \in 1 .. Len(all)
      BY <1>0, <1>1
    <3>3. all[j] = <<i, k>>
      BY <1>1, <3>1
    <3>. QED
      BY <3>2, <3>3
  <2>. QED
    BY <1>0, <2>1, <2>2
<1>8. \A k \in 1 .. Len(all) : all[k][1] <= n + 1
  <2>1. ASSUME NEW k \in 1 .. Len(text)
        PROVE  all[k][1] <= n + 1
    <3>1. all[k] = text[k] /\ text[k][1] <= n /\ text[k][1] \in Nat
      BY <1>1, <1>3 DEF Chars
    <3>. QED
      BY <1>0, <3>1
  <2>2. ASSUME NEW k \in 1 .. Len(all), k - Len(text) \in 1 .. w
        PROVE  all[k][1] <= n + 1
    <3>1. Len(text) + (k - Len(text)) = k
      BY <1>0
    <3>2. all[k] = <<n + 1, k - Len(text)>>
      BY <1>1, <2>2, <3>1
    <3>. QED
      BY <1>0, <3>2
  <2>. QED
    BY <1>2, <2>1, <2>2
<1>. QED
  BY <1>5, <1>6, <1>7, <1>8 DEF all

\* The beginning of a text in order.
LEMMA BeginningInOrder ==
    ASSUME NEW widths, NEW all \in Seq(Chars), InOrder(all, widths), NEW m \in 0 .. Len(all)
    PROVE  LET text == SubSeq(all, 1, m)
           IN  /\ text \in Seq(Chars) /\ Len(text) = m
               /\ \A k \in 1 .. m : text[k] = all[k]
               /\ InOrder(text, widths)
<1>. DEFINE text == SubSeq(all, 1, m)
<1>1. \A k \in 1 .. m : all[k] \in Chars
  OBVIOUS
<1>2. text \in Seq(Chars) /\ Len(text) = m /\ \A k \in 1 .. m : text[k] = all[k]
  BY <1>1, SubSeqProperties
<1>. HIDE DEF text
<1>3. InOrder(text, widths)
  <2>. SUFFICES ASSUME NEW k \in 1 .. m
                PROVE  /\ text[k][1] \in DOMAIN widths /\ text[k][2] \in 1 .. widths[text[k][1]]
                       /\ Follows(IF k = 1 THEN <<0, 0>> ELSE text[k - 1], text[k], widths)
    BY <1>2 DEF InOrder
  <2>1. k \in 1 .. Len(all) /\ text[k] = all[k] /\ (k /= 1 => text[k - 1] = all[k - 1])
    BY <1>2
  <2>. QED
    BY <2>1 DEF InOrder
<1>. QED
  BY <1>2, <1>3 DEF text

\* One turn of the loop of cond_hexdump().
LEMMA NextByteDumped ==
    ASSUME NEW m \in Nat, NEW n \in 0 .. m - 1, NEW widths \in [0 .. m -> Nat], widths[0] = 0,
           NEW size \in Nat \ {0}, NEW text, Dumped(text, widths, size, n)
    PROVE  Dumped(AppendCut(text, Shown(n + 1, widths[n + 1]), size), widths, size, n + 1)
<1>. DEFINE w == widths[n + 1]
            all == text \o Shown(n + 1, w)
            cut == SubSeq(all, 1, size - 1)
<1>0. /\ n \in Nat /\ n + 1 \in Nat /\ n + 1 \in 1 .. m /\ w \in Nat
      /\ text \in Seq(Chars) /\ Len(text) \in Nat /\ Len(text) < size
      /\ InOrder(text, widths) /\ \A k \in 1 .. Len(text) : text[k][1] <= n
  BY DEF Dumped
<1>1. /\ all \in Seq(Chars) /\ Len(all) = Len(text) + w
      /\ \A k \in 1 .. Len(text) : all[k] = text[k]
  <2>. HIDE DEF w
  <2>. QED
    BY <1>0, OneMoreByte
<1>2. AppendCut(text, Shown(n + 1, w), size) = IF Len(all) < size THEN all ELSE cut
  BY DEF AppendCut
<1>3. CASE Len(text) < size - 1
  <2>1. /\ InOrder(all, widths) /\ EndsWith(all, widths, n + 1) /\ ShowsAll(all, widths, n + 1)
        /\ \A k \in 1 .. Len(all) : all[k][1] <= n + 1
    <3>1. EndsWith(text, widths, n) /\ ShowsAll(text, widths, n)
      BY <1>3 DEF Dumped
    <3>. QED
      BY <1>0, <3>1, NextByteInOrder
  <2>. HIDE DEF all
  <2>2. CASE Len(all) < size
    <3>1. Dumped(all, widths, size, n + 1)
      BY <1>1, <2>1, <2>2 DEF Dumped
    <3>. QED
      BY <1>2, <2>2, <3>1
  <2>3. CASE ~(Len(all) < size)
    <3>1. size - 1 \in 0 .. Len(all) /\ Len(all) \in Nat
      BY <1>1, <2>3
    <3>2. /\ cut \in Seq(Chars) /\ Len(cut) = size - 1
          /\ \A k \in 1 .. size - 1 : cut[k] = all[k]
          /\ InOrder(cut, widths)
      BY <1>1, <2>1, <3>1, BeginningInOrder
    <3>. HIDE DEF cut
    <3>3. \A k \in 1 .. Len(cut) : cut[k][1] <= n + 1
      <4>1. ASSUME NEW k \in 1 .. size - 1
            PROVE  cut[k][1] <= n + 1
        <5>1. k \in 1 .. Len(all)
          BY <1>0, <1>1, <3>1
        <5>2. cut[k] = all[k]
          BY <3>2
        <5>. QED
          BY <2>1, <5>1, <5>2
      <4>. QED
        BY <3>2, <4>1
    <3>4. Dumped(cut, widths, size, n + 1)
      BY <3>2, <3>3 DEF Dumped
    <3>. QED
      BY <1>2, <2>3, <3>4
  <2>. QED
    BY <2>2, <2>3
<1>4. CASE Len(text) = size - 1
  <2>1. AppendCut(text, Shown(n + 1, w), size) = text
    <3>1. CASE w = 0
      <4>1. all = text
        BY <1>0, <1>1, <3>1, SeqEqual
      <4>. QED
        BY <1>0, <1>2, <4>1
    <3>2. CASE w > 0
      <4>. HIDE DEF all
      <4>1. ~(Len(all) < size) /\ size - 1 \in 0 .. Len(all)
        BY <1>0, <1>1, <1>4, <3>2
      <4>2. /\ cut \in Seq(Chars) /\ Len(cut) = size - 1 /\ \A k \in 1 .. size - 1 : cut[k] = all[k]
        <5>1. \A k \in 1 .. size - 1 : all[k] \in Chars
          BY <1>1, <4>1
        <5>. QED
          BY <4>1, <5>1, SubSeqProperties
      <4>. HIDE DEF cut
      <4>3. cut = text
        <5>1. Len(cut) = Len(text) /\ \A k \in 1 .. Len(text) : cut[k] = text[k]
          BY <1>0, <1>1, <1>4, <4>2
        <5>. QED
          BY <1>0, <4>2, <5>1, SeqEqual
      <4>. QED
        BY <1>2, <4>1, <4>3
    <3>. QED
      BY <1>0, <3>1, <3>2
  <2>2. Dumped(text, widths, size, n + 1)
    <3>1. \A k \in 1 .. Len(text) : text[k][1] <= n + 1
      <4>1. \A k \in 1 .. Len(text) : text[k] \in Chars
        BY <1>0
      <4>. QED
        BY <1>0, <4>1 DEF Chars
    <3>. QED
      BY <1>0, <1>4, <3>1 DEF Dumped
  <2>. QED
    BY <2>1, <2>2
<1>5. Len(text) < size - 1 \/ Len(text) = size - 1
  BY <1>0
<1>. QED
  BY <1>3, <1>4, <1>5

\* A packet does not depend on what the buffer held if the buffer is initialized (found
\* is 0), if it is shown in hexadecimal, or if it begins with a printable byte.
Overwrites(bytes, size, found) ==
    found = 0 \/ ~Printable(bytes) \/ (bytes /= <<>> /\ bytes[1] = "print" /\ size /= 1)

\* Then all its bytes have the whole buffer, behind those before them.
LEMMA WholeRoom ==
    ASSUME NEW bytes \in Seq(Bytes), NEW textual, NEW size \in Nat \ {0}, NEW found \in Nat,
           Overwrites(bytes, size, found), NEW n \in 1 .. Len(bytes)
    PROVE  Room(bytes, textual, size, found, n) = size
<1>1. CASE found = 0 \/ ~Printable(bytes)
  BY <1>1 DEF Room
<1>2. CASE bytes[1] = "print"
  <2>1. CASE n = 1
    BY <1>2, <2>1 DEF Room
  <2>2. CASE n /= 1
    <3>1. 1 \in 1 .. n - 1 /\ (Printable(bytes) => Width(bytes, 1, textual) = 1)
      BY <1>2, <2>2 DEF Width
    <3>. QED
      BY <3>1 DEF Room
  <2>. QED
    BY <2>1, <2>2
<1>. QED
  BY <1>1, <1>2 DEF Overwrites

\* And if nothing is written the buffer was empty, and the packet is not shown at all.
LEMMA UntouchedEmpty ==
    ASSUME NEW bytes \in Seq(Bytes), NEW textual, NEW size \in Nat \ {0}, NEW found \in Nat,
           Overwrites(bytes, size, found), Untouched(bytes, textual, size, found)
    PROVE  /\ cond_hexdump(bytes, textual, size, found) = <<>>
           /\ size = 1 \/ \A n \in 1 .. Len(bytes) : Width(bytes, n, textual) = 0
<1>0. DOMAIN bytes = 1 .. Len(bytes)
  OBVIOUS
<1>1. size = 1 \/ \A n \in 1 .. Len(bytes) : Width(bytes, n, textual) = 0
  BY <1>0, WholeRoom DEF Untouched
<1>2. found = 0
  <2>. SUFFICES ASSUME found /= 0
                PROVE  FALSE
    OBVIOUS
  <2>1. Printable(bytes) /\ bytes /= <<>> /\ bytes[1] = "print" /\ size /= 1
    BY DEF Overwrites, Untouched
  <2>2. 1 \in 1 .. Len(bytes)
    BY <2>1, EmptySeq
  <2>3. Width(bytes, 1, textual) = 1
    BY <2>1 DEF Width
  <2>. QED
    BY <1>1, <2>1, <2>2, <2>3
<1>3. cond_hexdump(bytes, textual, size, found) = Leftover(0)
  BY <1>2 DEF cond_hexdump
<1>4. Leftover(0) = <<>>
  BY DEF Leftover, Shown
<1>. QED
  BY <1>1, <1>3, <1>4

\* For packets and buffers of every length, whatever the buffer held: a packet that
\* overwrites it is shown in order, each byte with all its characters, until the
\* buffer is full.  gpsmon_hook() initializes its buffer; packet_dump() does not.
THEOREM HexdumpRight ==
    ASSUME NEW bytes \in Seq(Bytes), NEW textual, NEW size \in Nat \ {0}, NEW found \in Nat,
           Overwrites(bytes, size, found)
    PROVE  IsTextOf(cond_hexdump(bytes, textual, size, found), bytes, textual, size)
<1>. DEFINE m == Len(bytes)
            widths == Widths(bytes, textual)
<1>2. /\ m \in Nat /\ widths \in [0 .. m -> Nat] /\ widths[0] = 0
      /\ \A n \in 1 .. m : widths[n] = Width(bytes, n, textual)
  BY WidthsType
<1>. HIDE DEF m, widths
<1>8. CASE Untouched(bytes, textual, size, found)
  <2>1. /\ cond_hexdump(bytes, textual, size, found) = <<>> /\ Len(<<>>) = 0
        /\ size = 1 \/ \A n \in 1 .. m : widths[n] = 0
    BY <1>2, <1>8, UntouchedEmpty DEF m
  <2>2. InOrder(<<>>, widths) /\ (0 < size - 1 => ShowsAll(<<>>, widths, m))
    BY <1>2, <2>1 DEF InOrder, ShowsAll
  <2>. QED
    BY <2>1, <2>2 DEF IsTextOf, m, widths
<1>9. CASE ~Untouched(bytes, textual, size, found)
  <2>1. PICK text : /\ IsDump(text, bytes, textual, size, found, m)
                    /\ cond_hexdump(bytes, textual, size, found) = text[m]
    BY <1>9, DumpIsFound DEF m
  <2>2. \A n \in 1 .. m : Room(bytes, textual, size, found, n) = size
    BY WholeRoom DEF m
  <2>3. /\ text[0] = <<>>
        /\ \A n \in 1 .. m : text[n] = AppendCut(text[n - 1], Shown(n, widths[n]), size)
    BY <1>2, <2>1, <2>2 DEF IsDump
  <2>. DEFINE S == {n \in Nat : n <= m => Dumped(text[n], widths, size, n)}
  <2>4. 0 \in S
    <3>1. <<>> \in Seq(Chars) /\ Len(<<>>) = 0
      OBVIOUS
    <3>2. Dumped(<<>>, widths, size, 0)
      BY <1>2, <3>1 DEF Dumped, InOrder, EndsWith, ShowsAll, LastOf
    <3>. QED
      BY <2>3, <3>2
  <2>5. ASSUME NEW n \in S
        PROVE  n + 1 \in S
    <3>1. CASE n + 1 <= m
      <4>1. n \in 0 .. m - 1 /\ n + 1 \in 1 .. m /\ n \in Nat /\ (n + 1) - 1 = n
        BY <1>2, <3>1
      <4>2. Dumped(text[n], widths, size, n)
        BY <1>2, <4>1
      <4>3. Dumped(AppendCut(text[n], Shown(n + 1, widths[n + 1]), size), widths, size, n + 1)
        BY <1>2, <4>1, <4>2, NextByteDumped
      <4>4. text[n + 1] = AppendCut(text[n], Shown(n + 1, widths[n + 1]), size)
        BY <2>3, <4>1
      <4>. QED
        BY <4>1, <4>3, <4>4
    <3>2. CASE ~(n + 1 <= m)
      BY <3>2
    <3>. QED
      BY <3>1, <3>2
  <2>6. m \in S
    <3>1. S \subseteq Nat
      OBVIOUS
    <3>. HIDE DEF S
    <3>. QED
      BY <1>2, <2>4, <2>5, <3>1, NatSetInduction
  <2>7. Dumped(text[m], widths, size, m)
    BY <1>2, <2>6
  <2>. QED
    BY <2>1, <2>7 DEF Dumped, IsTextOf, m, widths
<1>. QED
  BY <1>8, <1>9

-----------------------------------------------------------------------------
(* Types *)

\* Options and the opening of the source keep their types.
LEMMA StartupTypes ==
    ASSUME NEW D, Monitors \subseteq D, StartupTypeOK(D), StartupNext
    PROVE  StartupTypeOK(D)'
<1>. USE DEF StartupTypeOK, NextOption, options, opened
<1>1. CASE NoCurses
  <2>1. curses' \in BOOLEAN
    BY <1>1 DEF NoCurses
  <2>. QED
    BY <1>1, <2>1 DEF NoCurses
<1>2. CASE ForceNMEA
  BY <1>2 DEF ForceNMEA
<1>3. CASE ForceType
  <2>1. PICK m \in TypeOptions :
            /\ named' = Append(named, m) /\ matches' = matches + Cardinality(m)
            /\ fallback' \in IF m = {} THEN {None} ELSE m
            /\ phase' = IF matches' = 1 THEN phase ELSE "exited"
    BY <1>3 DEF ForceType
  <2>2. m \subseteq Monitors
    BY TypeOptionsAssumption
  <2>3. Cardinality(m) \in Nat
    BY <2>2, MonitorsAssumption, FS_Subset, FS_CardinalityType
  <2>. QED
    BY <1>3, <2>1, <2>2, <2>3 DEF ForceType
<1>4. CASE ExitOption
  BY <1>4 DEF ExitOption
<1>5. CASE Open
  BY <1>5 DEF Open
<1>6. CASE FailToOpen
  BY <1>6 DEF FailToOpen
<1>. QED
  BY <1>1, <1>2, <1>3, <1>4, <1>5, <1>6 DEF StartupNext

\* Types, and with them that both times of the pulse are normalized.
THEOREM HookTypes == HookSpec => []HookTypeOK
<1>1. HookInit => HookTypeOK
  <2>. SUFFICES ASSUME HookInit
                PROVE  HookTypeOK
    OBVIOUS
  <2>1. StartupTypeOK(Monitors)
    <3>1. /\ nmea \in BOOLEAN /\ curses \in BOOLEAN /\ serial \in BOOLEAN
          /\ ppsThread \in BOOLEAN /\ readonly \in BOOLEAN
      BY DEF HookInit, StartupInit
    <3>. QED
      BY <3>1 DEF HookInit, StartupInit, StartupTypeOK
  <2>2. dump.by = "hook" /\ dump.bytes = <<>> /\ dump.textual \in BOOLEAN
    BY DEF HookInit
  <2>. QED
    BY <2>1, <2>2, TimesAssumption DEF HookInit, HookTypeOK, Zero, Timespecs, Offsets
<1>2. HookTypeOK /\ [HookNext]_hookVars => HookTypeOK'
  <2>. SUFFICES ASSUME HookTypeOK, [HookNext]_hookVars
                PROVE  HookTypeOK'
    OBVIOUS
  <2>. USE DEF HookTypeOK
  <2>0. Times \subseteq Timespecs /\ \A ts \in Times : Normalized(ts)
    BY TimesAssumption
  <2>1. CASE Begin
    BY <2>1, StartupTypes DEF Begin
  <2>2. CASE Toff
    BY <2>0, <2>2 DEF Toff, startupVars, options, opened, StartupTypeOK
  <2>3. CASE Pps
    <3>1. /\ TS_SUB(ppsOut'.clock, ppsOut'.real) \in Timespecs
          /\ Normalized(TS_SUB(ppsOut'.clock, ppsOut'.real))
      BY <2>0, <2>3, SubExact DEF Pps, Offsets
    <3>. QED
      BY <2>3, <3>1 DEF Pps, Latch, Timespecs, startupVars, options, opened, StartupTypeOK, Offsets
  <2>4. CASE IllFormed \/ Quit \/ UNCHANGED hookVars
    BY <2>4 DEF IllFormed, Quit, hookVars, startupVars, options, opened, StartupTypeOK
  <2>5. CASE Packet
    BY <2>5, SecondsAssumption
       DEF Packet, Latch, Timespecs, startupVars, options, opened, StartupTypeOK
  <2>6. CASE Pulse
    BY <2>6 DEF Pulse, startupVars, options, opened, StartupTypeOK, Offsets
  <2>7. CASE Send
    BY <2>7 DEF Send, startupVars, options, opened, StartupTypeOK
  <2>. QED
    BY <2>1, <2>2, <2>3, <2>4, <2>5, <2>6, <2>7 DEF HookNext
<1>. QED
  BY <1>1, <1>2, PTL DEF HookSpec

-----------------------------------------------------------------------------
(* The promises of the hook *)

\* Who may write pps_out follows from the source, which does not change once opened.
WriterInv ==
    /\ phase = "options" => writers = {}
    /\ ppsThread => serial
    /\ writers \subseteq IF serial THEN {"thread"} ELSE {"main"}

LEMMA WriterKnown == HookSpec => []WriterInv
<1>1. HookInit => WriterInv
  BY DEF HookInit, StartupInit, WriterInv
<1>2. WriterInv /\ [HookNext]_hookVars => WriterInv'
  <2>. SUFFICES ASSUME WriterInv, [HookNext]_hookVars
                PROVE  WriterInv'
    OBVIOUS
  <2>. USE DEF WriterInv
  <2>1. CASE Begin
    <3>1. CASE Open
      <4>1. writers' = {} /\ phase' = "running"
        BY <2>1, <3>1 DEF Begin, Open
      <4>2. PICK type \in SourceTypes :
                /\ serial' = (type \in Devices)
                /\ ppsThread' = (type \in {"SOURCE_RS232", "SOURCE_USB", "SOURCE_ACM"})
        BY <3>1 DEF Open
      <4>3. {"SOURCE_RS232", "SOURCE_USB", "SOURCE_ACM"} \subseteq Devices
        BY DEF Devices
      <4>. QED
        BY <4>1, <4>2, <4>3
    <3>2. CASE NoCurses \/ ForceNMEA \/ ForceType \/ ExitOption \/ FailToOpen
      BY <2>1, <3>2 DEF Begin, NoCurses, ForceNMEA, ForceType, ExitOption, FailToOpen,
                        NextOption, opened
    <3>. QED
      BY <2>1, <3>1, <3>2 DEF Begin, StartupNext
  <2>2. CASE Toff \/ Pps \/ Packet \/ Send \/ Pulse
    <3>1. phase' = phase /\ ppsThread' = ppsThread /\ serial' = serial
      BY <2>2 DEF Toff, Pps, Packet, Send, Pulse, startupVars, opened
    <3>2. phase = "running"
      BY <2>2 DEF Toff, Pps, Packet, Send, Pulse
    <3>3. writers' \subseteq IF serial THEN {"thread"} ELSE {"main"}
      <4>1. CASE Toff \/ Packet \/ Send
        BY <4>1 DEF Toff, Packet, Send
      <4>2. CASE Pps
        BY <4>2 DEF Pps
      <4>3. CASE Pulse
        BY <4>3 DEF Pulse
      <4>. QED
        BY <2>2, <4>1, <4>2, <4>3
    <3>. QED
      BY <3>1, <3>2, <3>3
  <2>3. CASE IllFormed \/ Quit \/ UNCHANGED hookVars
    <3>1. /\ phase' = phase /\ ppsThread' = ppsThread /\ serial' = serial
          /\ writers' = writers
      BY <2>3 DEF IllFormed, Quit, hookVars, startupVars, opened
    <3>. QED
      BY <3>1
  <2>. QED
    BY <2>1, <2>2, <2>3 DEF HookNext
<1>. QED
  BY <1>1, <1>2, PTL DEF HookSpec

\* Whatever the options, the source and the objects of the server.
THEOREM OneWriter == HookSpec => []OnePpsWriter
<1>1. WriterInv => OnePpsWriter
  <2>. SUFFICES ASSUME WriterInv
                PROVE  Cardinality(writers) <= 1
    BY DEF OnePpsWriter
  <2>1. PICK w : writers \subseteq {w}
    BY DEF WriterInv
  <2>2. IsFiniteSet({w}) /\ Cardinality({w}) = 1
    BY FS_Singleton
  <2>. QED
    BY <2>1, <2>2, FS_Subset
<1>. QED
  BY <1>1, WriterKnown, PTL

\* For all times a server may send.
THEOREM OffsetExact == HookSpec => []OffsetIsExact
<1>. DEFINE Exact == /\ ppsOut \in Offsets
                     /\ phase = "options" => offset = Zero /\ ppsOut = [real |-> Zero, clock |-> Zero]
                     /\ OffsetIsExact
<1>0. Times \subseteq Timespecs /\ Zero \in Times /\ \A ts \in Times : Normalized(ts)
  BY TimesAssumption
<1>1. Normalized(Zero) /\ Ns(Zero) = Ns(Zero) - Ns(Zero)
  BY <1>0, NsAssumption DEF Zero, Ns, Normalized
<1>2. HookInit => Exact
  BY <1>0, <1>1 DEF HookInit, StartupInit, OffsetIsExact, Offsets
<1>3. Exact /\ WriterInv /\ [HookNext]_hookVars => Exact'
  <2>. SUFFICES ASSUME Exact, WriterInv, [HookNext]_hookVars
                PROVE  Exact'
    OBVIOUS
  <2>1. CASE Begin
    BY <1>1, <2>1 DEF Begin, OffsetIsExact, StartupNext, Open, NoCurses, ForceNMEA, ForceType,
                      ExitOption, FailToOpen, NextOption, opened
  <2>2. CASE Pps
    BY <1>0, <2>2, SubExact DEF Pps, Offsets, OffsetIsExact, startupVars
  <2>3. CASE Pulse
    <3>1. serial
      BY <2>3 DEF Pulse, WriterInv
    <3>. QED
      BY <2>3, <3>1 DEF Pulse, Offsets, OffsetIsExact, startupVars, opened
  <2>4. CASE Toff \/ Packet \/ Send \/ IllFormed \/ Quit \/ UNCHANGED hookVars
    BY <2>4 DEF Toff, Packet, Send, IllFormed, Quit, hookVars, startupVars, opened, OffsetIsExact
  <2>. QED
    BY <2>1, <2>2, <2>3, <2>4 DEF HookNext
<1>. QED
  BY <1>2, <1>3, WriterKnown, PTL DEF HookSpec

\* The fix in hand is never later than what has been latched.
LatchInv == NewestIsLatched /\ newdata <= newest

\* However the seconds of fixes come: in any order, twice, or not at all.
THEOREM LatchRight == HookSpec => []NewestIsLatched
<1>1. HookInit => LatchInv
  BY DEF HookInit, LatchInv, NewestIsLatched
<1>2. HookTypeOK /\ LatchInv /\ [HookNext]_hookVars => LatchInv'
  <2>. SUFFICES ASSUME HookTypeOK, LatchInv, [HookNext]_hookVars
                PROVE  LatchInv'
    OBVIOUS
  <2>. USE DEF LatchInv, NewestIsLatched
  <2>0. newdata \in Nat /\ fixIn \in Nat /\ newest \in Nat
    BY DEF HookTypeOK
  <2>1. CASE Packet
    <3>1. newdata' \in Nat
      BY <2>0, <2>1, SecondsAssumption DEF Packet
    <3>2. newest' = IF newdata' > newest THEN newdata' ELSE newest
      BY <2>1 DEF Packet
    <3>3. fixIn' = IF newdata' > 0 /\ newdata' > fixIn THEN newdata' ELSE fixIn
      BY <2>1 DEF Packet, Latch
    <3>. QED
      BY <2>0, <3>1, <3>2, <3>3
  <2>2. CASE Pps
    BY <2>0, <2>2 DEF Pps, Latch
  <2>3. CASE Begin \/ Toff \/ Send \/ Pulse \/ IllFormed \/ Quit \/ UNCHANGED hookVars
    BY <2>3 DEF Begin, Toff, Send, Pulse, IllFormed, Quit, hookVars
  <2>. QED
    BY <2>1, <2>2, <2>3 DEF HookNext
<1>3. LatchInv => NewestIsLatched
  BY DEF LatchInv
<1>. QED
  BY <1>1, <1>2, <1>3, HookTypes, PTL DEF HookSpec

\* For packets of any length and a buffer of any size.
THEOREM DumpRight == HookSpec => []DumpIsPrefix
<1>0. BufSpace \in Nat \ {0} /\ 0 \in Nat /\ Packets \subseteq Seq(Bytes)
  BY BufSpaceAssumption, PacketsAssumption
<1>1. HookInit => DumpIsPrefix
  BY <1>0 DEF HookInit, DumpIsPrefix, IsTextOf, InOrder, ShowsAll
<1>2. DumpIsPrefix /\ [HookNext]_hookVars => DumpIsPrefix'
  <2>. SUFFICES ASSUME DumpIsPrefix, [HookNext]_hookVars
                PROVE  DumpIsPrefix'
    OBVIOUS
  <2>1. CASE Packet
    <3>1. PICK bytes \in Packets, textual \in BOOLEAN :
              dump' = [by |-> "hook", bytes |-> bytes, textual |-> textual,
                       text |-> cond_hexdump(bytes, textual, BufSpace, 0)]
      BY <2>1 DEF Packet
    <3>2. /\ dump'.bytes = bytes /\ dump'.textual = textual
          /\ dump'.text = cond_hexdump(bytes, textual, BufSpace, 0)
      BY <3>1
    <3>3. bytes \in Seq(Bytes)
      BY <1>0
    <3>4. Overwrites(bytes, BufSpace, 0)
      BY DEF Overwrites
    <3>5. IsTextOf(cond_hexdump(bytes, textual, BufSpace, 0), bytes, textual, BufSpace)
      BY <1>0, <3>3, <3>4, HexdumpRight
    <3>. QED
      BY <3>2, <3>5 DEF DumpIsPrefix
  <2>2. CASE Send
    <3>1. dump'.by = "send"
      BY <2>2 DEF Send
    <3>. QED
      BY <3>1 DEF DumpIsPrefix
  <2>3. CASE Begin \/ Toff \/ Pps \/ IllFormed \/ Pulse \/ Quit \/ UNCHANGED hookVars
    <3>1. dump' = dump
      BY <2>3 DEF Begin, Toff, Pps, IllFormed, Pulse, Quit, hookVars
    <3>. QED
      BY <3>1 DEF DumpIsPrefix
  <2>. QED
    BY <2>1, <2>2, <2>3 DEF HookNext
<1>. QED
  BY <1>1, <1>2, PTL DEF HookSpec

\* For messages of any length, and whatever packet_dump()'s buffer held.
THEOREM SentRight == HookSpec => []SentIsShown
<1>0. Packets \subseteq Seq(Bytes)
  BY PacketsAssumption
<1>1. HookInit => SentIsShown
  BY DEF HookInit, SentIsShown
<1>2. SentIsShown /\ [HookNext]_hookVars => SentIsShown'
  <2>. SUFFICES ASSUME SentIsShown, [HookNext]_hookVars
                PROVE  SentIsShown'
    OBVIOUS
  <2>1. CASE Send
    <3>1. PICK bytes \in Packets, textual \in BOOLEAN : \E found \in 0 .. 2 * Len(bytes) :
              dump' = [by |-> "send", bytes |-> bytes, textual |-> textual,
                       text |-> cond_hexdump(bytes, textual, 2 * Len(bytes), found)]
      BY <2>1 DEF Send
    <3>2. PICK found \in 0 .. 2 * Len(bytes) :
              dump' = [by |-> "send", bytes |-> bytes, textual |-> textual,
                       text |-> cond_hexdump(bytes, textual, 2 * Len(bytes), found)]
      BY <3>1
    <3>3. bytes \in Seq(Bytes) /\ Len(bytes) \in Nat
      BY <1>0
    <3>. DEFINE size == 2 * Len(bytes)
                shown == ~Printable(bytes) \/ (bytes /= <<>> /\ bytes[1] = "print")
    <3>4. /\ dump'.bytes = bytes /\ dump'.textual = textual
          /\ dump'.text = cond_hexdump(bytes, textual, size, found)
      BY <3>2
    <3>5. ASSUME shown
          PROVE  IsTextOf(cond_hexdump(bytes, textual, size, found), bytes, textual, size)
      <4>1. bytes /= <<>>
        BY <3>5 DEF Printable
      <4>2. Len(bytes) /= 0
        BY <3>3, <4>1, EmptySeq
      <4>3. size \in Nat \ {0} /\ size /= 1 /\ found \in Nat
        BY <3>3, <4>2
      <4>4. Overwrites(bytes, size, found)
        BY <3>5, <4>3 DEF Overwrites
      <4>. HIDE DEF size, shown
      <4>. QED
        BY <3>3, <4>3, <4>4, HexdumpRight
    <3>. QED
      BY <3>4, <3>5 DEF SentIsShown
  <2>2. CASE Packet
    <3>1. dump'.by = "hook"
      BY <2>2 DEF Packet
    <3>. QED
      BY <3>1 DEF SentIsShown
  <2>3. CASE Begin \/ Toff \/ Pps \/ IllFormed \/ Pulse \/ Quit \/ UNCHANGED hookVars
    <3>1. dump' = dump
      BY <2>3 DEF Begin, Toff, Pps, IllFormed, Pulse, Quit, hookVars
    <3>. QED
      BY <3>1 DEF SentIsShown
  <2>. QED
    BY <2>1, <2>2, <2>3 DEF HookNext
<1>. QED
  BY <1>1, <1>2, PTL DEF HookSpec
=============================================================================
