------------------------------- MODULE Crc32c -------------------------------
(* util/crc32c: Extend takes single bytes up to an aligned address, then four *)
(* interleaved strides of words, then puts the strides together and takes the *)
(* bytes that are left.  Words and bytes are the sets of their one bits, at   *)
(* their real widths; the tables are computed from the polynomial, whose bits *)
(* are those of kByteExtensionTable[128].                                     *)
EXTENDS Integers, Sequences

CONSTANTS Lengths,    \* lengths of the buffers
          Patterns,   \* bytes that stand at one place of a buffer of zeros
          Crcs        \* the crc of what came before

VARIABLES pc,      \* align, load, swaths, words, tail or done
          data,    \* the buffer, of bytes
          addr,    \* where it starts, modulo 4
          init,    \* the crc to extend
          p,       \* bytes read
          l,       \* the running value
          crc      \* the values of the four strides

vars == <<pc, data, addr, init, p, l, crc>>

Word == 0..31

Byte == 0..7

Xor(a, b) == (a \ b) \union (b \ a)

ShiftRight(w, n) == {i - n : i \in {j \in w : j >= n}}

ShiftLeft(w, n) == {i + n : i \in {j \in w : j + n \in Word}}

LowByte(w) == w \intersect Byte

(* 0x82f63b78.                                                                *)
Polynomial == {3, 4, 5, 6, 8, 9, 11, 12, 13, 17, 18, 20, 21, 22, 23, 25, 31}

(* A word after a zero byte has followed it.                                  *)
FollowedByByte[w \in SUBSET Word] ==
    LET bits[k \in 0..8] ==
            IF k = 0 THEN w
            ELSE LET v == bits[k - 1]
                 IN  IF 0 \in v THEN Xor(ShiftRight(v, 1), Polynomial) ELSE ShiftRight(v, 1)
    IN  bits[8]

(* A word after n of them.                                                    *)
Followed(w, n) ==
    LET bytes[i \in 0..n] == IF i = 0 THEN w ELSE FollowedByByte[bytes[i - 1]] IN bytes[n]

kByteExtensionTable == [c \in SUBSET Byte |-> FollowedByByte[c]]

kStrideExtensionTable0 == [c \in SUBSET Byte |-> Followed(ShiftLeft(c, 24), 16)]

kStrideExtensionTable1 == [c \in SUBSET Byte |-> Followed(ShiftLeft(c, 16), 16)]

kStrideExtensionTable2 == [c \in SUBSET Byte |-> Followed(ShiftLeft(c, 8), 16)]

kStrideExtensionTable3 == [c \in SUBSET Byte |-> Followed(c, 16)]

kCRC32Xor == Word

-----------------------------------------------------------------------------
e == Len(data)

(* What lies behind the buffer is anything; here zeros.                       *)
At(q) == IF q < e THEN data[q + 1] ELSE {}

ReadUint32LE(q) == At(q) \union ShiftLeft(At(q + 1), 8)
                         \union ShiftLeft(At(q + 2), 16) \union ShiftLeft(At(q + 3), 24)

STEP1 == /\ l' = Xor(kByteExtensionTable[Xor(LowByte(l), At(p))], ShiftRight(l, 8))
         /\ p' = p + 1

STEP4(w, q) == Xor(ReadUint32LE(q),
               Xor(kStrideExtensionTable3[LowByte(w)],
               Xor(kStrideExtensionTable2[LowByte(ShiftRight(w, 8))],
               Xor(kStrideExtensionTable1[LowByte(ShiftRight(w, 16))],
                   kStrideExtensionTable0[ShiftRight(w, 24)]))))

STEP4W(w, v) ==
    LET bytes[i \in 0..4] ==
            IF i = 0 THEN Xor(w, v)
            ELSE LET u == bytes[i - 1] IN Xor(ShiftRight(u, 8), kByteExtensionTable[LowByte(u)])
    IN  bytes[4]

(* RoundUp<4>, as an offset into the buffer.                                  *)
x == (4 - addr) % 4

Align == /\ pc = "align"
         /\ IF x <= e /\ p # x THEN STEP1 /\ UNCHANGED pc
            ELSE pc' = "load" /\ UNCHANGED <<p, l>>
         /\ UNCHANGED <<data, addr, init, crc>>

LoadSwath == /\ pc = "load"
             /\ IF e - p >= 16
                THEN /\ crc' = [s \in 0..3 |-> IF s = 0 THEN Xor(ReadUint32LE(p), l)
                                               ELSE ReadUint32LE(p + s * 4)]
                     /\ p' = p + 16
                     /\ pc' = "swaths"
                ELSE pc' = "tail" /\ UNCHANGED <<p, crc>>
             /\ UNCHANGED <<data, addr, init, l>>

STEP16 == /\ pc = "swaths"
          /\ IF e - p >= 16
             THEN /\ crc' = [s \in 0..3 |-> STEP4(crc[s], p + s * 4)]
                  /\ p' = p + 16
                  /\ UNCHANGED pc
             ELSE pc' = "words" /\ UNCHANGED <<p, crc>>
          /\ UNCHANGED <<data, addr, init, l>>

(* One word into the oldest stride, which becomes the newest.                 *)
WordStep == /\ pc = "words" /\ e - p >= 4
            /\ crc' = [s \in 0..3 |-> IF s = 3 THEN STEP4(crc[0], p) ELSE crc[s + 1]]
            /\ p' = p + 4
            /\ UNCHANGED <<pc, data, addr, init, l>>

Combine == /\ pc = "words" /\ e - p < 4
           /\ l' = STEP4W(crc[3], STEP4W(crc[2], STEP4W(crc[1], STEP4W(crc[0], {}))))
           /\ pc' = "tail"
           /\ UNCHANGED <<data, addr, init, p, crc>>

TailStep == /\ pc = "tail"
            /\ IF p # e THEN STEP1 /\ UNCHANGED pc
               ELSE /\ l' = Xor(l, kCRC32Xor)
                    /\ pc' = "done" /\ UNCHANGED p
            /\ UNCHANGED <<data, addr, init, crc>>

-----------------------------------------------------------------------------
(* Mask: rotate right by 15 and add kMaskDelta, 0xa282ead8, modulo 2^32.      *)
kMaskDelta == {3, 4, 6, 7, 9, 11, 13, 14, 15, 17, 23, 25, 29, 31}

Add(a, b) ==
    LET carry[i \in 0..32] ==
            IF i = 0 THEN FALSE
            ELSE LET ones == {v \in {"a", "b", "c"} : CASE v = "a" -> i - 1 \in a
                                                        [] v = "b" -> i - 1 \in b
                                                        [] v = "c" -> carry[i - 1]}
                 IN  \E u \in ones : ones \ {u} # {}
    IN  {i \in Word : (i \in Xor(a, b)) # carry[i]}

Negative(a) == Add(Word \ a, {0})

Mask(w) == Add(ShiftRight(w, 15) \union ShiftLeft(w, 17), kMaskDelta)

(* Slip in Unmask: rotated the same way once more.                            *)
UnmaskAgain(w) == LET rot == Add(w, Negative(kMaskDelta))
                  IN  ShiftRight(rot, 15) \union ShiftLeft(rot, 17)

Unmask(w) == LET rot == Add(w, Negative(kMaskDelta))
             IN  ShiftRight(rot, 17) \union ShiftLeft(rot, 15)

-----------------------------------------------------------------------------
(* kTestCRCBuffer and kTestCRCValue of CanAccelerateCRC32C, "TestCRCBuffer"   *)
(* and 0xdcbc59fa.                                                            *)
kTestCRCBuffer == << {2, 4, 6}, {0, 2, 5, 6}, {0, 1, 4, 5, 6}, {2, 4, 5, 6}, {0, 1, 6},
                     {1, 4, 6}, {0, 1, 6}, {1, 6}, {0, 2, 4, 5, 6}, {1, 2, 5, 6}, {1, 2, 5, 6},
                     {0, 2, 5, 6}, {1, 4, 5, 6} >>

kTestCRCValue == {1, 3, 4, 5, 6, 7, 8, 11, 12, 14, 18, 19, 20, 21, 23, 26, 27, 28, 30, 31}

Buffers == {kTestCRCBuffer} \union
           UNION {{[i \in 1..n |-> IF i = k THEN b ELSE {}] : k \in 1..n, b \in Patterns} : n \in Lengths}

Init == /\ pc = "align"
        /\ data \in Buffers /\ addr \in 0..3 /\ init \in Crcs
        /\ p = 0
        /\ l = Xor(init, kCRC32Xor)
        /\ crc = [s \in 0..3 |-> {}]

Next == Align \/ LoadSwath \/ STEP16 \/ WordStep \/ Combine \/ TailStep

Spec == Init /\ [][Next]_vars

-----------------------------------------------------------------------------
(* The crc bit by bit, without tables.                                        *)
Reference(s, from) ==
    LET bytes[i \in 0..Len(s)] ==
            IF i = 0 THEN Xor(from, Word) ELSE FollowedByByte[Xor(bytes[i - 1], s[i])]
    IN  Xor(bytes[Len(s)], Word)

(* crc32c.h, Extend: the crc of A followed by data, whatever the address the  *)
(* data is at: a record written from one buffer is checked in another.        *)
ExtendsCrc == pc = "done" => l = Reference(data, init)

(* No byte behind the buffer is read; the aligned address may lie there.      *)
ReadsInside == p <= e

(* crc32c.cc: the value CanAccelerateCRC32C compares with is that of the      *)
(* portable code, so files move between machines that have the instruction.   *)
KnownValue == (pc = "done" /\ data = kTestCRCBuffer /\ init = {}) => l = kTestCRCValue

(* crc32c.h: "Return the crc whose masked representation is masked_crc", and  *)
(* masking changes the crc.                                                   *)
MaskInvertible == pc = "done" => Unmask(Mask(l)) = l /\ Mask(Unmask(l)) = l /\ Mask(l) # l
=============================================================================
