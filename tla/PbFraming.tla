------------------------------ MODULE PbFraming ------------------------------
(* nanopb: several messages in one stream, each with its length before it or  *)
(* a null byte after it, written into a buffer of limited size, and read back *)
(* one after the other; one byte of a message may be damaged on the way.  The *)
(* message has a number of one byte and a fixed-width number; the widths are  *)
(* scaled down: a byte is less than Base, a fixed number has Width bytes.     *)
(* Below, integers of variable length: pb_decode_varint32_eof,                *)
(* pb_decode_varint, pb_encode_varint and what is built on them, scaled down  *)
(* so that all byte sequences can be tried: there a byte has G bits of a      *)
(* number (7 in the code), uint32_t has Half bits (32) and uint64_t Full (64).*)
EXTENDS Integers, Sequences

CONSTANTS Base,         \* values of a byte: 256 in the code
          Width,        \* bytes of a fixed-width number: 4 and 8
          Fixed,        \* fixed-width numbers that occur
          Count,        \* bound: messages
          MaxSize,      \* max_size of the output stream
          G, Half, Full, \* widths in bits
          Small,        \* bits of the smallest integer, int_least8_t
          MaxLength     \* bound: bytes of a number

(* The tags of the two fields; any other byte has an invalid wire type.       *)
NumberTag == 1
FixedTag  == 2
None == -1

Messages == [number : {None, 0, 1}, fixed : {None} \union Fixed]

VARIABLES framing,    \* "delimited" or "null"
          messages,   \* what is to be sent
          wire,       \* the bytes of the stream
          starts,     \* history: where each message that was written begins
          writing,    \* the writer goes on
          damaged,    \* the message that was damaged, 0 if none
          pos,        \* bytes the reader has consumed
          dest,       \* dest_struct
          got,        \* history: the results of the reader's calls
          bytes       \* the input of the varint decoders

vars == <<framing, messages, wire, starts, writing, damaged, pos, dest, got>>

-----------------------------------------------------------------------------
(* Fixed-width numbers, the least significant byte first.                     *)
EncodeFixed(value) == [i \in 1..Width |-> (value \div Base^(i - 1)) % Base]

DecodeFixed(bs) ==
    LET sum[i \in 0..Width] == IF i = 0 THEN 0 ELSE sum[i - 1] + (bs[i] * Base^(i - 1))
    IN  sum[Width]

(* pb_encode: the pieces it hands to pb_write, in order.                      *)
Pieces(m) == (IF m.number = None THEN <<>> ELSE << <<NumberTag>>, <<m.number>> >>)
             \o (IF m.fixed = None THEN <<>> ELSE << <<FixedTag>>, EncodeFixed(m.fixed) >>)

Joined(ps, n) == LET cat[i \in 0..n] == IF i = 0 THEN <<>> ELSE cat[i - 1] \o ps[i] IN cat[n]

(* pb_get_encoded_size: the message is encoded into a stream without a buffer. *)
EncodedSize(m) == Len(Joined(Pieces(m), Len(Pieces(m))))

(* pb_write refuses a piece that does not fit, and the encoder gives up.      *)
Fitting(ps) == CHOOSE n \in 0..Len(ps) :
                   /\ Len(wire) + Len(Joined(ps, n)) <= MaxSize
                   /\ n < Len(ps) => Len(wire) + Len(Joined(ps, n + 1)) > MaxSize

Written(ps) == /\ wire' = wire \o Joined(ps, Fitting(ps))
               /\ writing' = (Fitting(ps) = Len(ps))

Sent == Len(starts)

NextMessage == messages[Sent + 1]

(* pb_encode_delimited: the size first; nothing more if that much is not left. *)
EncodeDelimited ==
    LET size == EncodedSize(NextMessage)
    IN  IF Len(wire) + 1 + size > MaxSize
        THEN wire' = wire \o Joined(<< <<size>> >>, Fitting(<< <<size>> >>)) /\ writing' = FALSE
        ELSE Written(<< <<size>> >> \o Pieces(NextMessage))

Terminator(m) == << <<0>> >>

EncodeNullterminated == Written(Pieces(NextMessage) \o Terminator(NextMessage))

Write == /\ writing /\ got = <<>> /\ damaged = 0 /\ Sent < Count
         /\ IF framing = "null" THEN EncodeNullterminated ELSE EncodeDelimited
         /\ starts' = IF writing' THEN Append(starts, Len(wire)) ELSE starts
         /\ UNCHANGED <<framing, messages, damaged, pos, dest, got>>

(* External: a byte of a message changes, its length does not.                *)
Damage(i, p, b) ==
    /\ framing = "delimited" /\ damaged = 0 /\ got = <<>>
    /\ p \in (starts[i] + 2)..(starts[i] + 1 + EncodedSize(messages[i]))
    /\ b # wire[p]
    /\ wire' = [wire EXCEPT ![p] = b]
    /\ damaged' = i
    /\ UNCHANGED <<framing, messages, starts, writing, pos, dest, got>>

-----------------------------------------------------------------------------
Empty == [number |-> None, fixed |-> None]

Result(ok, at, m) == [ok |-> ok, at |-> at, m |-> m]

(* One field of pb_decode_noinit: a null byte ends the message, a field that  *)
(* does not fit or has an invalid wire type fails.                            *)
DecodeField(p, end, m) ==
    CASE wire[p + 1] = 0 -> Result(TRUE, p + 1, m)
      [] wire[p + 1] = NumberTag /\ p + 2 <= end -> Result(TRUE, p + 2, [m EXCEPT !.number = wire[p + 2]])
      [] wire[p + 1] = FixedTag /\ p + 1 + Width <= end ->
             Result(TRUE, p + 1 + Width,
                    [m EXCEPT !.fixed = DecodeFixed(SubSeq(wire, p + 2, p + 1 + Width))])
      [] OTHER -> Result(FALSE, p + 1, m)

(* pb_decode_noinit on the bytes after at, up to end.                         *)
Decode(at, end, m) ==
    LET loop[k \in 0..(end - at)] ==
            IF k = 0 THEN [r |-> Result(TRUE, at, m), over |-> at = end]
            ELSE IF loop[k - 1].over THEN loop[k - 1]
            ELSE LET p == loop[k - 1].r.at
                     r == DecodeField(p, end, loop[k - 1].r.m)
                 IN  [r |-> r, over |-> ~r.ok \/ wire[p + 1] = 0 \/ r.at = end]
    IN  loop[end - at].r

(* pb_decode clears the structure first, pb_decode_noinit does not.           *)
Initial(init) == IF init THEN Empty ELSE dest

Delivered(r, init) == /\ dest' = r.m
                      /\ got' = Append(got, [ok |-> r.ok, init |-> init, m |-> r.m])
                      /\ UNCHANGED <<framing, messages, wire, starts, writing, damaged>>

(* pb_close_string_substream skips what the message did not use, whether or   *)
(* not it was decoded.                                                        *)
CloseSubstream(r, end) == end

(* pb_make_string_substream: so much is not left.                             *)
TooShort(size) == pos + 1 + size > Len(wire)

(* pb_decode_delimited and pb_decode_delimited_noinit.                        *)
DecodeDelimited(init) ==
    /\ framing = "delimited" /\ pos < Len(wire)
    /\ LET size == wire[pos + 1]
           end  == IF pos + 1 + size > Len(wire) THEN Len(wire) ELSE pos + 1 + size
       IN  IF TooShort(size)
           THEN pos' = Len(wire) /\ Delivered(Result(FALSE, 0, dest), init)
           ELSE \E r \in {Decode(pos + 1, end, Initial(init))} :
                   pos' = CloseSubstream(r, end) /\ Delivered(r, init)

(* pb_decode_nullterminated is pb_decode on the stream itself; after an error *)
(* the reader has lost its place.                                             *)
DecodeNullterminated ==
    /\ framing = "null" /\ pos < Len(wire)
    /\ \E r \in {Decode(pos, Len(wire), Empty)} :
          /\ pos' = IF r.ok THEN r.at ELSE Len(wire)
          /\ Delivered(r, TRUE)

-----------------------------------------------------------------------------
Init == /\ framing \in {"delimited", "null"}
        /\ messages \in [1..Count -> Messages]
        /\ wire = <<>> /\ starts = <<>> /\ writing = TRUE /\ damaged = 0
        /\ pos = 0 /\ dest = Empty /\ got = <<>>

Next == \/ Write
        \/ \E i \in 1..Sent, p \in 1..Len(wire), b \in 0..(Base - 1) : Damage(i, p, b)
        \/ \E init \in BOOLEAN : DecodeDelimited(init)
        \/ DecodeNullterminated

Spec == Init /\ [][Next]_vars

-----------------------------------------------------------------------------
(* A result says what the message says; without initialisation, fields of     *)
(* earlier messages may be left where the message has none.                   *)
Says(result, m) ==
    /\ result.ok
    /\ \A f \in {"number", "fixed"} :
          IF m[f] # None THEN result.m[f] = m[f] ELSE result.init => result.m[f] = None

(* pb_encode_delimited and pb_encode_nullterminated frame the messages so     *)
(* that the reader's n-th call returns the n-th message, numbers that are     *)
(* null and empty messages included, and however many fields were read.       *)
ReadsBack == \A i \in 1..Len(got) : damaged = 0 /\ i <= Sent => Says(got[i], messages[i])

(* pb_decode_delimited: a message that cannot be decoded, or that ends early, *)
(* costs the reader that message and no other.                                *)
DamageContained == damaged # 0 => \A i \in 1..Len(got) : i <= Sent /\ i # damaged => Says(got[i], messages[i])

(* pb_make_string_substream: what the writer could not finish is refused and  *)
(* not taken for a shorter message.                                           *)
OnlyWholeMessages == framing = "delimited" /\ damaged = 0 => \A i \in 1..Len(got) : got[i].ok => i <= Sent
-----------------------------------------------------------------------------
(* As 32 = 4 * 7 + 4 and 64 = 9 * 7 + 1.                                       *)

More == 2^G                \* 0x80, the continuation bit
Low(b) == b % More         \* b & 0x7F
Bytes == 0..(2 * More - 1)

VarintInit == bytes = <<>>

(* Another byte comes, unless the number has ended.                            *)
Receive == /\ Len(bytes) < MaxLength
           /\ (bytes # <<>> => bytes[Len(bytes)] >= More)
           /\ \E b \in Bytes : bytes' = Append(bytes, b)

VarintNext == Receive
VarintSpec == VarintInit /\ [][VarintNext]_bytes
-----------------------------------------------------------------------------
No == [ok |-> FALSE, v |-> 0]
Yes(v) == [ok |-> TRUE, v |-> v]

SignByte(bitpos) == IF bitpos < Full - 1 THEN 2 * More - 1 ELSE 1

(* "The last byte was at bitpos=28, so only bottom 4 bits fit."                *)
LastFits(last) == Low(last) < 2^(Half % G)

(* pb_decode_varint32_eof.  bitpos is where the next byte belongs.             *)
DecodeVarint32(bs) ==
    LET loop[i \in 1..Len(bs)] ==
          LET b == bs[i]
              bitpos == G * (i - 1)
              before == loop[i - 1]
          IN  IF i = 1 THEN Yes(Low(b))
              ELSE IF ~before.ok THEN No
              ELSE IF bitpos >= Half
                   THEN IF Low(b) # 0 /\ (before.v < 2^(Half - 1) \/ b # SignByte(bitpos)) THEN No ELSE before
              ELSE Yes((before.v + (Low(b) * 2^bitpos)) % 2^Half)
        n == Len(bs)
        lastAt == G * (Half \div G)
    IN  IF n = 0 \/ bs[n] >= More THEN No
        ELSE IF n > 1 /\ G * (n - 1) = lastAt /\ ~LastFits(bs[n]) THEN No
        ELSE loop[n]

(* pb_decode_varint.                                                           *)
DecodeVarint(bs) ==
    LET loop[i \in 0..Len(bs)] ==
          IF i = 0 THEN 0 ELSE (loop[i - 1] + (Low(bs[i]) * 2^(G * (i - 1)))) % 2^Full
        n == Len(bs)
    IN  IF n = 0 \/ bs[n] >= More \/ G * (n - 1) >= Full THEN No ELSE Yes(loop[n])

(* pb_encode_varint.                                                           *)
EncodeVarint(value) ==
    LET k == CHOOSE n \in 1..(Full + 1) : value < 2^(G * n) /\ (n = 1 \/ value >= 2^(G * (n - 1)))
    IN  [i \in 1..k |-> Low(value \div 2^(G * (i - 1))) + IF i < k THEN More ELSE 0]

Unsigned(v, w) == v % 2^w
Signed(v, w) == IF v % 2^w >= 2^(w - 1) THEN (v % 2^w) - 2^w ELSE v % 2^w

(* pb_encode_svarint and pb_decode_svarint.                                    *)
ZigZag(v) == IF v < 0 THEN (2^Full - 1) - Unsigned(2 * v, Full) ELSE Unsigned(2 * v, Full)
UnZigZag(u) == IF u % 2 = 1 THEN -(u \div 2) - 1 ELSE u \div 2

(* pb_dec_varint: a field of at most 32 bits takes its sign from bit 31.       *)
DecodeInt(u, w) == LET s == IF w = Full THEN Signed(u, Full) ELSE Signed(u, Half)
                   IN  IF Signed(s, w) = s THEN Yes(s) ELSE No

(* pb_dec_uvarint and pb_dec_svarint.                                          *)
DecodeUInt(u, w) == IF Unsigned(u, w) = u THEN Yes(u) ELSE No
DecodeSInt(u, w) == LET s == UnZigZag(u) IN IF Signed(s, w) = s THEN Yes(s) ELSE No
-----------------------------------------------------------------------------
(* The number that bytes stand for, all of its bits kept.                      *)
Number(bs) == LET sum[i \in 0..Len(bs)] == IF i = 0 THEN 0 ELSE sum[i - 1] + (Low(bs[i]) * 2^(G * (i - 1)))
             IN  sum[Len(bs)]

Complete == bytes # <<>> /\ bytes[Len(bytes)] < More
Minimal == Complete /\ (bytes[Len(bytes)] # 0 \/ Len(bytes) = 1)

(* A number without padding that is accepted as 32 bits is that number, or a   *)
(* negative one of 64 bits whose low bits it has: an overflow is noticed.      *)
Exact32 == LET d == DecodeVarint32(bytes)
           IN  Minimal /\ d.ok => \/ d.v = Number(bytes)
                                  \/ /\ Number(bytes) >= 2^(Full - 1)
                                     /\ Len(bytes) <= (Full \div G) + 1 => d.v = Number(bytes) % 2^Half

(* Whatever can be written is read back: a number as what it is, in 32 bits if *)
(* it fits, with its sign if it is negative, and padding does not matter.      *)
VarintReadsBack == Complete => LET u == DecodeVarint(bytes)
                             w32 == DecodeVarint32(EncodeVarint(u.v))
                         IN  u.ok => /\ DecodeVarint(EncodeVarint(u.v)) = u
                                     /\ u.v < 2^Half => w32 = u
                                     /\ u.v >= 2^Full - 2^(Half - 1) => w32 = Yes(u.v % 2^Half)

(* A field takes a number exactly when it is in its range; a negative number   *)
(* of 32 bits may have been written with 32 or with 64 bits (issue 97).        *)
FieldRange == Complete => LET u == DecodeVarint(bytes) IN u.ok => \A w \in {Small, Half, Full} :
    LET s == Signed(u.v, Full)
        i == DecodeInt(u.v, w)
    IN  /\ DecodeUInt(u.v, w).ok <=> u.v < 2^w
        /\ DecodeSInt(u.v, w).ok <=> UnZigZag(u.v) \in (-(2^(w - 1)))..(2^(w - 1) - 1)
        /\ ZigZag(UnZigZag(u.v)) = u.v
        /\ s \in (-(2^(w - 1)))..(2^(w - 1) - 1) => i = Yes(s)
        /\ u.v < 2^Half /\ w < Full /\ i.ok => i.v = Signed(u.v, Half)
=============================================================================
