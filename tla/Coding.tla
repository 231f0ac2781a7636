------------------------------- MODULE Coding -------------------------------
(* util/coding: fixed-width numbers, varints and length-prefixed slices; and  *)
(* base 64, in which the Firebase client writes bytes as text.                *)
(* A byte has GroupBits value bits and one continuation bit; the code's byte  *)
(* has 7 and 1.  Width32 and Width64 stand for the two integer widths.        *)
EXTENDS Integers, Sequences

CONSTANTS GroupBits,   \* 7 in the code
          Width32,     \* 32
          Width64      \* 64

(* The continuation bit, 128 in the code, and the number of byte values.      *)
B == 2^GroupBits

ByteValues == 2 * B

Bytes == 0..ByteValues - 1

(* How many bytes a varint of this width has at most: 5 and 10.               *)
MaxBytes(width) == (width + GroupBits - 1) \div GroupBits

-----------------------------------------------------------------------------
(* EncodeFixed32 and EncodeFixed64: least significant byte first.             *)
FixedBytes(width) == (width + GroupBits) \div (GroupBits + 1)

EncodeFixed(v, width) == [i \in 1..FixedBytes(width) |-> (v \div ByteValues^(i - 1)) % ByteValues]

DecodeFixed(s) ==
    LET sum[i \in 0..Len(s)] == IF i = 0 THEN 0 ELSE sum[i - 1] + s[i] * ByteValues^(i - 1)
    IN  sum[Len(s)]

(* EncodeVarint32: the number of bytes is read off the value's size.          *)
EncodeVarint32(v) ==
    LET n == CHOOSE k \in 1..MaxBytes(Width32) :
                 /\ v < B^k \/ k = MaxBytes(Width32)
                 /\ \A j \in 1..k - 1 : v >= B^j
    IN  [i \in 1..n |-> IF i < n THEN ((v \div B^(i - 1)) % B) + B ELSE v \div B^(i - 1)]

(* EncodeVarint64: the loop.                                                  *)
EncodeVarint64(v) ==
    LET loop[x \in 0..v] == IF x >= B THEN <<(x % B) + B>> \o loop[x \div B] ELSE <<x>>
    IN  loop[v]

VarintLength(v) ==
    LET len[x \in 0..v] == IF x >= B THEN 1 + len[x \div B] ELSE 1
    IN  len[v]

PutLengthPrefixedSlice(s) == EncodeVarint32(Len(s)) \o s

-----------------------------------------------------------------------------
(* The Get routines return the value and the rest of the input, or Fail.      *)
Fail == [ok |-> FALSE]

Got(v, rest) == [ok |-> TRUE, value |-> v, rest |-> rest]

Drop(s, n) == SubSeq(s, n + 1, Len(s))

(* The bytes of a varint at the start of s: the last has no continuation bit. *)
VarintEnds(s, width) == {n \in 1..MaxBytes(width) :
                             /\ n <= Len(s) /\ s[n] < B
                             /\ \A i \in 1..n - 1 : s[i] >= B}

(* GetVarint32Ptr with its fallback, and GetVarint64Ptr.  Bits of the last    *)
(* byte that the shift moves out of the integer are gone.                     *)
GetVarint(s, width) ==
    LET ends == VarintEnds(s, width)
    IN  IF ends = {} THEN Fail
        ELSE LET n == CHOOSE m \in ends : TRUE
                 sum[i \in 0..n] == IF i = 0 THEN 0 ELSE sum[i - 1] + (s[i] % B) * B^(i - 1)
             IN  Got(sum[n] % 2^width, Drop(s, n))

GetVarint32(s) == GetVarint(s, Width32)

GetVarint64(s) == GetVarint(s, Width64)

(* GetLengthPrefixedSlice: not more than there is.                            *)
GetLengthPrefixedSlice(s) ==
    LET len == GetVarint32(s)
    IN  IF len.ok /\ Len(len.rest) >= len.value
        THEN Got(SubSeq(len.rest, 1, len.value), Drop(len.rest, len.value))
        ELSE Fail
-----------------------------------------------------------------------------
(* fbase64.c.  A character is a number: one of the alphabet is its digit, any *)
(* from 64 is none.                                                           *)
Digits == 0..63

Pad64 == 64

Space == 65

(* The answer -1, where others are the bytes or characters written.           *)
Refused == <<-1>>

(* The four digits of three bytes.                                            *)
Quantum(a, b, c) == <<a \div 4, 16 * (a % 4) + b \div 16, 4 * (b % 16) + c \div 64, c % 64>>

(* "Now we worry about padding": zeros are added to what is left.             *)
LastQuantum(s) == CASE Len(s) = 1 -> SubSeq(Quantum(s[1], 0, 0), 1, 2) \o <<Pad64, Pad64>>
                    [] Len(s) = 2 -> SubSeq(Quantum(s[1], s[2], 0), 1, 3) \o <<Pad64>>
                    [] OTHER -> <<>>

(* f_b64_ntop: the text, if each quantum and the final zero fit the target.   *)
f_b64_ntop(src, targsize) ==
    LET whole == Len(src) \div 3
        text[q \in 0..whole] == IF q = 0 THEN <<>>
                                ELSE text[q - 1] \o Quantum(src[3 * q - 2], src[3 * q - 1], src[3 * q])
        all == text[whole] \o LastQuantum(Drop(src, 3 * whole))
    IN  IF Len(all) >= targsize THEN Refused ELSE all

(* One character of f_b64_pton, with the state of the decoder, the bytes that *)
(* are complete, and the bits of the next one.  A target takes the next byte  *)
(* as soon as it has bits: target is the size of it, or nullptr for none.     *)
nullptr == -2

Fits(target, index) == target = nullptr \/ index < target

Decoded(d, ch, target) ==
    LET index == Len(d.bytes)
        next(byte, rest) == [d EXCEPT !.state = (@ + 1) % 4, !.bytes = Append(@, d.bits + byte), !.bits = rest]
    IN  CASE d.state = 0 -> IF Fits(target, index) THEN [d EXCEPT !.state = 1, !.bits = 4 * ch]
                            ELSE [d EXCEPT !.ok = FALSE]
          [] d.state = 1 -> IF Fits(target, index + 1) THEN next(ch \div 16, 16 * (ch % 16))
                            ELSE [d EXCEPT !.ok = FALSE]
          [] d.state = 2 -> IF Fits(target, index + 1) THEN next(ch \div 4, 64 * (ch % 4))
                            ELSE [d EXCEPT !.ok = FALSE]
          [] d.state = 3 -> IF Fits(target, index) THEN next(ch, 0) ELSE [d EXCEPT !.ok = FALSE]

(* What may follow a pad: in state 2 another one; no more but spaces; and the *)
(* bits that are left over are zero, which only a target tells.               *)
Visible(s) == SelectSeq(s, LAMBDA ch : ch # Space)

AfterPad(d, rest, target) == /\ \/ d.state = 2 /\ Visible(rest) = <<Pad64>>
                                \/ d.state = 3 /\ Visible(rest) = <<>>
                             /\ target # nullptr => d.bits = 0

f_b64_pton(src, target) ==
    LET stops == {i \in 1..Len(src) : src[i] = Pad64}
        stop  == CHOOSE i \in stops \union {Len(src) + 1} : \A j \in stops : i <= j
        d[i \in 0..stop - 1] ==
            IF i = 0 THEN [ok |-> TRUE, state |-> 0, bytes |-> <<>>, bits |-> 0]
            ELSE IF src[i] = Space \/ ~d[i - 1].ok THEN d[i - 1]
            ELSE IF src[i] \notin Digits THEN [d[i - 1] EXCEPT !.ok = FALSE]
            ELSE Decoded(d[i - 1], src[i], target)
        end == d[stop - 1]
    IN  IF end.ok /\ (IF stop > Len(src) THEN end.state = 0 ELSE AfterPad(end, Drop(src, stop), target))
        THEN end.bytes ELSE Refused
=============================================================================
