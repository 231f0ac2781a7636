------------------------------- MODULE Bloom --------------------------------
(* leveldb, util/bloom.cc: a set of keys as a few bits for each.  A filter is  *)
(* the positions of its one bits, how many bytes they take, and the number of  *)
(* probes in its last byte.  BloomHash is given as a function; its width, the  *)
(* rotation and the least number of bits are parameters.                       *)
EXTENDS Naturals, FiniteSets

CONSTANTS Width,     \* values of a hash, 2^32
          Low,       \* 2^17: the bits that a rotation moves to the top
          MinBits,   \* 64
          ByteBits,  \* 8
          MaxProbes  \* 30

(* bits_per_key * 0.69, rounded down, within 1..30.                            *)
Probes(bits_per_key) ==
    LET k == (bits_per_key * 69) \div 100
    IN  IF k < 1 THEN 1 ELSE IF k > MaxProbes THEN MaxProbes ELSE k

(* Rotate right: the low bits go to the top.                                   *)
Delta(h) == h \div Low + (h % Low) * (Width \div Low)

(* The hash value of probe j, from 0.                                          *)
Probe(h, j) == (h + j * Delta(h)) % Width

Positions(h, k, bits) == {Probe(h, j) % bits : j \in 0..k - 1}

(* For few keys there is a least size.                                         *)
BitsWanted(n, bits_per_key) == IF n * bits_per_key < MinBits THEN MinBits ELSE n * bits_per_key

Bytes(n, bits_per_key) == (BitsWanted(n, bits_per_key) + ByteBits - 1) \div ByteBits

(* The writer uses all bits of its bytes, as the reader will.                  *)
Bits(n, bits_per_key) == Bytes(n, bits_per_key) * ByteBits

CreateFilter(hashes, n, bits_per_key) ==
    LET k == Probes(bits_per_key)
    IN  [bytes |-> Bytes(n, bits_per_key), k |-> k,
         ones |-> UNION {Positions(h, k, Bits(n, bits_per_key)) : h \in hashes}]

(* "Use the encoded k so that we can read filters generated by bloom filters   *)
(* created using different parameters."                                        *)
EncodedProbes(filter, bits_per_key) == filter.k

(* More than 30 probes: reserved for other encodings, "consider it a match".   *)
KeyMayMatch(h, filter, bits_per_key) ==
    LET k == EncodedProbes(filter, bits_per_key)
    IN  k > MaxProbes \/ Positions(h, k, filter.bytes * ByteBits) \subseteq filter.ones
-----------------------------------------------------------------------------
(* Filters of one and two keys with any hash values, written under one policy  *)
(* and read under another, as after a change of the options of a database.     *)

CONSTANT BitsPerKey    \* the policies

VARIABLES hashes, filter, reader

vars == <<hashes, filter, reader>>

Init == hashes = {} /\ filter = CreateFilter({}, 1, 1) /\ reader \in BitsPerKey

Build == /\ hashes = {}
         /\ \E h1 \in 0..Width - 1 : \E h2 \in h1..Width - 1 : \E b \in BitsPerKey :
               hashes' = {h1, h2} /\ filter' = CreateFilter({h1, h2}, 2, b)
         /\ UNCHANGED reader

Next == Build
Spec == Init /\ [][Next]_vars

(* "This method must return true if the key was in the list of keys passed to  *)
(* CreateFilter", whatever policy reads the filter.                            *)
NoFalseNegative == \A h \in hashes : KeyMayMatch(h, filter, reader)

(* A filter of two keys is never useless: it rejects some key, under every     *)
(* policy, also one with a single bit for a key.                               *)
SomeRejected == hashes # {} => \E h \in 0..Width - 1 : ~KeyMayMatch(h, filter, reader)
=============================================================================
