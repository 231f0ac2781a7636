----------------------------- MODULE Comparator -----------------------------
(* leveldb, util/comparator.cc, include/leveldb/slice.h and db/dbformat: the   *)
(* order of keys, and the short keys an index holds in place of real ones.     *)
(* A key is a sequence of bytes, an internal key a user key and a tag.         *)
EXTENDS Naturals, Sequences

CONSTANTS MaxByte,  \* 0xff
          MaxTag    \* kMaxSequenceNumber with kValueTypeForSeek

Shorter(a, b) == IF Len(a) < Len(b) THEN Len(a) ELSE Len(b)

(* Length of the common prefix.                                                *)
DiffIndex(a, b) ==
    LET f[i \in 1..Shorter(a, b) + 1] == IF i <= Shorter(a, b) /\ a[i] = b[i] THEN f[i + 1] ELSE i - 1
    IN  f[1]

(* Slice::compare(b) < 0: memcmp, then the shorter first.                      *)
Less(a, b) == LET i == DiffIndex(a, b) + 1
              IN  IF i <= Shorter(a, b) THEN a[i] < b[i] ELSE Len(a) < Len(b)

Bump(s, i) == Append(SubSeq(s, 1, i - 1), s[i] + 1)

(* Is there a byte between the two?                                            *)
Room(byte, limitByte) == byte < MaxByte /\ byte + 1 < limitByte

FindShortestSeparator(start, limit) ==
    LET i == DiffIndex(start, limit) + 1
    IN  IF i > Shorter(start, limit) \/ ~Room(start[i], limit[i]) THEN start ELSE Bump(start, i)

(* First byte that can be incremented; 0 if all are 0xff.                      *)
FirstSmall(key) == LET f[i \in 1..Len(key) + 1] ==
                          IF i > Len(key) THEN 0 ELSE IF key[i] # MaxByte THEN i ELSE f[i + 1]
                   IN  f[1]

FindShortSuccessor(key) ==
    LET i == FirstSmall(key)
    IN  IF i = 0 \/ key = <<>> THEN key
        ELSE Append(SubSeq(key, 1, i - 1), (key[i] + 1) % (MaxByte + 1))
-----------------------------------------------------------------------------
(* InternalKeyComparator::Compare(a, b) < 0.                                   *)
InternalLess(a, b) == Less(a.user, b.user) \/ (a.user = b.user /\ a.tag > b.tag)

(* "Tack on the earliest possible number to the shortened user key."           *)
EarliestTag(key, user) == [user |-> user, tag |-> MaxTag]

(* Only if the key has become shorter physically, but larger logically.        *)
Shortened(key, user) ==
    IF Len(user) < Len(key.user) /\ Less(key.user, user) THEN EarliestTag(key, user) ELSE key

InternalSeparator(start, limit) == Shortened(start, FindShortestSeparator(start.user, limit.user))
=============================================================================
