----------------------------- MODULE MCSupport ------------------------------
(* What the database in leveldb stands on, its tables, caches, files           *)
(* and encodings, and nanopb, side by side: each is an instance of its module. *)
(* One of them, part, runs; x1 to x18 are its variables.                       *)
EXTENDS Integers, Sequences

CONSTANTS Parts,  \* the components to check
          Nothing \* no handle, no string, no entry: for CBinding

VARIABLES part,   \* the component that runs
          x1, x2, x3, x4, x5, x6, x7, x8, x9,
          x10, x11, x12, x13, x14, x15, x16, x17, x18   \* its variables

all == <<part, x1, x2, x3, x4, x5, x6, x7, x8, x9, x10, x11, x12, x13, x14, x15, x16,
         x17, x18>>

(* The first n of them are in use.                                             *)
Idle(n) ==
    /\ (n < 1 => x1 = 0) /\ (n < 2 => x2 = 0) /\ (n < 3 => x3 = 0)
    /\ (n < 4 => x4 = 0) /\ (n < 5 => x5 = 0) /\ (n < 6 => x6 = 0)
    /\ (n < 7 => x7 = 0) /\ (n < 8 => x8 = 0) /\ (n < 9 => x9 = 0)
    /\ (n < 10 => x10 = 0) /\ (n < 11 => x11 = 0) /\ (n < 12 => x12 = 0)
    /\ (n < 13 => x13 = 0) /\ (n < 14 => x14 = 0) /\ (n < 15 => x15 = 0)
    /\ (n < 16 => x16 = 0) /\ (n < 17 => x17 = 0) /\ (n < 18 => x18 = 0)

Keep(n) ==
    /\ (n < 1 => x1' = x1) /\ (n < 2 => x2' = x2) /\ (n < 3 => x3' = x3)
    /\ (n < 4 => x4' = x4) /\ (n < 5 => x5' = x5) /\ (n < 6 => x6' = x6)
    /\ (n < 7 => x7' = x7) /\ (n < 8 => x8' = x8) /\ (n < 9 => x9' = x9)
    /\ (n < 10 => x10' = x10) /\ (n < 11 => x11' = x11) /\ (n < 12 => x12' = x12)
    /\ (n < 13 => x13' = x13) /\ (n < 14 => x14' = x14) /\ (n < 15 => x15' = x15)
    /\ (n < 16 => x16' = x16) /\ (n < 17 => x17' = x17) /\ (n < 18 => x18' = x18)
-----------------------------------------------------------------------------
(* Keys of tables: the separators in the index differ from them.               *)
SomeKeys == {<<0>>, <<0, 2>>, <<2>>}
AskedKeys == SomeKeys \union {<<1>>, <<0, 1>>}

(* Four blocks; some separators lie between the keys of two blocks.            *)
FourBlocks == <<{1, 2}, {4}, {5, 7}, {8}>>
Separators == <<3, 4, 7, 9>>

(* Two keys share a bucket until the table of the cache has grown.             *)
Hashes == [a |-> 0, b |-> 2, c |-> 1]

(* Message types for nanopb, small ones that have each kind of field, in the   *)
(* form of the tables of the code, with the room that a member has.            *)
Pb == INSTANCE PbFields WITH Types <- <<>>, Top <- "none"

Row(tag, type, rules, allocation) == Pb!PB_FIELD(tag, type, rules, allocation, "none")
Inner(tag, rules, allocation, sub) == Pb!PB_FIELD(tag, "MESSAGE", rules, allocation, sub)
Room(f, size, max) == [f EXCEPT !.size = size, !.max = max]
Bit(tag, rules) == Room(Row(tag, "INT32", rules, "STATIC"), 1, 0)

(* Numbers and arrays in place: packed or not, of fixed count, and extensions. *)
StaticTypes == [M |-> <<Bit(1, "REQUIRED"),
                        Room(Row(2, "INT32", "REPEATED", "STATIC"), 1, 2),
                        Room(Row(3, "FIXED32", "FIXED_COUNT", "STATIC"), 0, 2),
                        Room(Row(4, "BOOL", "FIXED_COUNT", "STATIC"), 1, 1),
                        Room(Row(5, "STRING", "OPTIONAL", "STATIC"), 2, 0),
                        Room(Row(6, "EXTENSION", "SINGULAR", "STATIC"), 0, 0),
                        Pb!Field(7, "fixedbytes", "ext", "static", 1, 0, TRUE, "none")>>]

(* Members in allocated memory, and in a union.                                *)
PointerTypes == [M |-> <<Row(1, "STRING", "ONEOF", "POINTER"),
                         Inner(2, "ONEOF", "POINTER", "S"),
                         Row(3, "STRING", "REPEATED", "POINTER"),
                         Room(Row(4, "INT32", "REPEATED", "POINTER"), 1, 0),
                         Row(5, "STRING", "OPTIONAL", "CALLBACK")>>,
                 S |-> <<Row(1, "STRING", "OPTIONAL", "POINTER"), Bit(2, "OPTIONAL")>>]

(* Messages inside messages, which own memory.                                 *)
NestedTypes == [M |-> <<Room(Inner(1, "REPEATED", "STATIC", "S"), 0, 1),
                        Inner(2, "REPEATED", "POINTER", "S"),
                        Inner(3, "OPTIONAL", "POINTER", "S")>>,
                S |-> <<Row(1, "STRING", "OPTIONAL", "POINTER")>>]

EncodeTypes ==
    [M |-> <<Bit(1, "REQUIRED"), Bit(2, "SINGULAR"), Bit(3, "OPTIONAL"),
             Room(Row(4, "INT32", "REPEATED", "STATIC"), 1, 2),
             Room(Row(5, "FIXED32", "FIXED_COUNT", "STATIC"), 0, 1),
             Room(Row(6, "STRING", "ONEOF", "STATIC"), 1, 0), Bit(7, "ONEOF"),
             Inner(8, "SINGULAR", "STATIC", "S"),
             Row(9, "BYTES", "REPEATED", "POINTER")>>,
     S |-> <<Bit(1, "SINGULAR"), Inner(2, "OPTIONAL", "POINTER", "C"), Bit(3, "ONEOF")>>,
     C |-> <<Room(Row(1, "FIXED_LENGTH_BYTES", "OPTIONAL", "STATIC"), 1, 0),
             Room(Row(2, "INT32", "OPTIONAL", "CALLBACK"), 1, 0)>>]

(* Structures to encode: which member of the union is set, the members, and    *)
(* what the callback answers when it is asked again.                           *)
Some(n, items) == [n |-> n, items |-> items]
None == Some(0, <<>>)
Message(which, f, says) == [which |-> which, f |-> f, says |-> says]

Scripts == {<<1>>, <<1, 2, 1>>, <<1, 1, 0>>}

CMessages(says) == {Message(0, <<Some(b, <<1>>), None>>, says) : b \in {0, 1}}

SMessages(says) ==
    {Message(w, <<Some(0, <<v>>), IF c = {} THEN None ELSE Some(1, <<CHOOSE x \in c : TRUE>>),
                  Some(0, <<0>>)>>, says) :
        w \in {0, 3}, v \in {0, 1}, c \in {{}} \union {{x} : x \in CMessages(says)}}

EncodeMessages ==
    UNION {{Message(o[1], <<Some(1, <<0>>), Some(0, <<v>>), Some(h, <<0>>), Some(n, <<1, 0, 1>>),
                            Some(0, <<1>>), Some(0, <<o[2]>>), Some(0, <<o[2]>>), Some(0, <<s>>),
                            Some(Len(b), b)>>, says) :
           o \in {<<0, 0>>, <<6, 2>>, <<7, 0>>}, v \in {0, 1}, h \in {0, 1}, n \in {2, 3},
           s \in SMessages(says), b \in {<<>>, <<0, 2>>}} : says \in Scripts}

(* What the transport sends: an event of every kind, alone or with another.    *)
Events == [time : {1}, uptime : {2}, zone : {0}, custom : BOOLEAN, coded : BOOLEAN, code : {0},
           network : {"unknown", "none", "mobile", "wifi"}, subtype : {0, 4}, readable : BOOLEAN, bytes : {0, 2}]

Requests ==
    LET client == Pb!ConstructClientInfo(TRUE, FALSE)
        full == CHOOSE e \in Events : e.custom /\ e.coded /\ e.readable /\ e.network = "wifi"
        of(events, memory) == Pb!ConstructLogRequest(3, client, events, memory)
    IN  {Pb!ConstructBatchedLogRequest(<<of(<<e>>, TRUE)>>) : e \in Events}
        \union {Pb!ConstructBatchedLogRequest(rs) :
                   rs \in {<<>>, <<of(<<full, full>>, TRUE), of(<<full>>, FALSE)>>, <<of(<<>>, TRUE)>>}}

(* Every number of the longer width and every short string; every short key.   *)
Inputs == UNION {[1..k -> 0..7] : k \in 0..4}
InternalKeys == [user : UNION {[1..n -> 0..2] : n \in 0..3}, tag : 0..1]

(* For base 64: short strings of bytes; texts of digits with and without low   *)
(* bits, pads, spaces and another character.                                   *)
ByteStrings == UNION {[1..n -> {0, 1, 200, 255}] : n \in 0..4}
Base64Texts == UNION {[1..n -> {0, 16, 63, 64, 65, 66}] : n \in 0..5}

Coder == INSTANCE Coding WITH GroupBits <- 2, Width32 <- 5, Width64 <- 9

Order == INSTANCE Comparator WITH MaxByte <- 2, MaxTag <- 1


Data == INSTANCE Block WITH
    MaxByte <- 1, MaxTag <- 0, MaxLength <- 2, Intervals <- {1, 2, 3},
    MaxKeys <- 3, interval <- x1, builder <- x2, finished_ <- x3, keys <- x4,
    stored <- x5, it <- x6, view <- x7

Tables == INSTANCE Table WITH
    MaxByte <- 2, MaxTag <- 0, kFilterBase <- 2, TableKeys <- SomeKeys,
    LookupKeys <- AskedKeys, BlockSizes <- {1, 2}, MaxKeys <- 3,
    MaxTables <- 1, options <- x1, rep <- x2, added <- x3, file <- x4,
    table <- x5, cache <- x6, last_id_ <- x7, got <- x8

Cached == INSTANCE Table WITH
    MaxByte <- 2, MaxTag <- 0, kFilterBase <- 3, TableKeys <- {<<0>>, <<2>>},
    LookupKeys <- {<<0>>, <<2>>}, BlockSizes <- {1}, MaxKeys <- 2,
    MaxTables <- 2, options <- x1, rep <- x2, added <- x3, file <- x4,
    table <- x5, cache <- x6, last_id_ <- x7, got <- x8

Filter == INSTANCE Bloom WITH
    Width <- 32, Low <- 8, MinBits <- 16, ByteBits <- 4, MaxProbes <- 5,
    BitsPerKey <- {1, 3, 9}, hashes <- x1, filter <- x2, reader <- x3

TwoLevel == INSTANCE TwoLevelIterator WITH
    Blocks <- {1, 2, 3, 4}, KeysOf <- FourBlocks, Separator <- Separators,
    unreadable <- x1, empty <- x2, it <- x3, view <- x4, met <- x5

Lru == INSTANCE LRUCache WITH
    Keys <- {"a", "b", "c"}, Hash <- Hashes, NumShards <- 1, Capacity <- 2,
    MinLength <- 2, Charges <- {1, 2}, MaxEntries <- 3, MaxHeld <- 1,
    Threads <- {}, MaxIterators <- 0, cache <- x1, held <- x2, open <- x3,
    exists <- x4, pc <- x5, iters <- x6

Open == INSTANCE LRUCache WITH
    Keys <- {"a", "b"}, Hash <- [a |-> 0, b |-> 1], NumShards <- 2,
    Capacity <- 2, MinLength <- 1, Charges <- {1}, MaxEntries <- 3,
    MaxHeld <- 2, Threads <- {"t1", "t2"}, MaxIterators <- 1, cache <- x1,
    held <- x2, open <- x3, exists <- x4, pc <- x5, iters <- x6

Writable == INSTANCE WritableFile WITH
    BufferSize <- 2, AppendSizes <- {1, 4}, MaxBytes <- 4, MaxOpens <- 1,
    Writeback <- TRUE, file <- x1, durable <- x2, exists <- x3, dir <- x4,
    durableDir <- x5, is_manifest <- x6, fd <- x7, buf <- x8, call <- x9,
    status <- x10, appended <- x11, expected <- x12, failed <- x13,
    script <- x14, opens <- x15

Manifest == INSTANCE WritableFile WITH
    BufferSize <- 2, AppendSizes <- {1, 3}, MaxBytes <- 3, MaxOpens <- 2,
    Writeback <- FALSE, file <- x1, durable <- x2, exists <- x3, dir <- x4,
    durableDir <- x5, is_manifest <- x6, fd <- x7, buf <- x8, call <- x9,
    status <- x10, appended <- x11, expected <- x12, failed <- x13,
    script <- x14, opens <- x15

Crc == INSTANCE Crc32c WITH
    Lengths <- {1, 21}, Patterns <- {{1, 3, 4, 6}},
    Crcs <- {{}, {0, 5, 17, 31}}, pc <- x1, data <- x2, addr <- x3, init <- x4,
    p <- x5, l <- x6, crc <- x7

Framing == INSTANCE PbFraming WITH
    Base <- 6, Width <- 2, Fixed <- {0, 15}, Count <- 2, MaxSize <- 9,
    G <- 2, Half <- 5, Full <- 9, Small <- 3, MaxLength <- 6,
    framing <- x1, messages <- x2, wire <- x3, starts <- x4, writing <- x5,
    damaged <- x6, pos <- x7, dest <- x8, got <- x9, bytes <- x1

Static == INSTANCE PbDecode WITH
    Types <- StaticTypes, Top <- "M", Values <- {0, 1, 2}, MaxBytes <- 4,
    MaxFailures <- 0, SizeMax <- 3, Width <- 2, stack <- x1, store <- x2,
    input <- x3, status <- x4, failures <- x5

Pointer == INSTANCE PbDecode WITH
    Types <- PointerTypes, Top <- "M", Values <- {0, 2}, MaxBytes <- 4,
    MaxFailures <- 1, SizeMax <- 3, Width <- 2, stack <- x1, store <- x2,
    input <- x3, status <- x4, failures <- x5

Nested == INSTANCE PbDecode WITH
    Types <- NestedTypes, Top <- "M", Values <- {0, 2}, MaxBytes <- 6,
    MaxFailures <- 1, SizeMax <- 3, Width <- 2, stack <- x1, store <- x2,
    input <- x3, status <- x4, failures <- x5

Encode == INSTANCE PbEncode WITH
    Types <- EncodeTypes, Top <- "M", Messages <- EncodeMessages,
    Sizes <- {0, 20}, msg <- x1, max <- x2, call <- x3, r <- x4

(* The messages of Firebase's transport.                                       *)
Answer == INSTANCE PbDecode WITH
    Types <- Pb!ResponseTypes, Top <- "LogResponse", Values <- {0, 2, 4}, MaxBytes <- 6,
    MaxFailures <- 1, SizeMax <- 3, Width <- 2, stack <- x1, store <- x2,
    input <- x3, status <- x4, failures <- x5

Sent == INSTANCE PbEncode WITH
    Types <- Pb!RequestTypes, Top <- "BatchedLogRequest", Messages <- Requests,
    Sizes <- {20, 100}, msg <- x1, max <- x2, call <- x3, r <- x4

(* A client with a database, one with batches, one with the objects that       *)
(* options refer to.                                                           *)
Calls == INSTANCE CBinding WITH
    Keys <- {1}, Values <- {1}, None <- Nothing, Errors <- {"io error"},
    Fields <- {"create_if_missing"}, Handles <- {},
    Batches <- {}, MaxStrings <- 2, MaxBatch <- 0, MaxFilters <- 0, MaxOpen <- 1,
    heap <- x1, errptr <- x2, given <- x3, last <- x4, disk <- x5, db <- x6,
    snapshot <- x7, readoptions <- x8, iterator <- x9, batch <- x10,
    asked <- x11, replayed <- x12, options <- x13, handle <- x14,
    reps <- x15, dst <- x16

BatchCalls == INSTANCE CBinding WITH
    Keys <- {1}, Values <- {1}, None <- Nothing, Errors <- {},
    Fields <- {"create_if_missing"}, Handles <- {},
    Batches <- {"b1", "b2"}, MaxStrings <- 1, MaxBatch <- 2, MaxFilters <- 0, MaxOpen <- 0,
    heap <- x1, errptr <- x2, given <- x3, last <- x4, disk <- x5, db <- x6,
    snapshot <- x7, readoptions <- x8, iterator <- x9, batch <- x10,
    asked <- x11, replayed <- x12, options <- x13, handle <- x14,
    reps <- x15, dst <- x16

ObjectCalls == INSTANCE CBinding WITH
    Keys <- {1}, Values <- {1}, None <- Nothing, Errors <- {},
    Fields <- {"comparator", "filter_policy", "env", "cache", "block_size"},
    Handles <- {"comparator", "filter_policy", "cache", "env", "env2"},
    Batches <- {}, MaxStrings <- 1, MaxBatch <- 0, MaxFilters <- 1, MaxOpen <- 0,
    heap <- x1, errptr <- x2, given <- x3, last <- x4, disk <- x5, db <- x6,
    snapshot <- x7, readoptions <- x8, iterator <- x9, batch <- x10,
    asked <- x11, replayed <- x12, options <- x13, handle <- x14,
    reps <- x15, dst <- x16
-----------------------------------------------------------------------------
MCInit == /\ part \in Parts
          /\ \/ part = "block"    /\ Data!Init /\ Idle(7)
             \/ part = "table"    /\ Tables!Init /\ Idle(8)
             \/ part = "cached"   /\ Cached!Init /\ Idle(8)
             \/ part = "bloom"    /\ Filter!Init /\ Idle(3)
             \/ part = "twolevel" /\ TwoLevel!Init /\ Idle(5)
             \/ part = "cache"    /\ Lru!Init /\ Idle(3)
             \/ part = "tables"   /\ Open!TableInit /\ Idle(6)
             \/ part = "writable" /\ Writable!Init /\ Idle(15)
             \/ part = "manifest" /\ Manifest!Init /\ Idle(15)
             \/ part = "crc"      /\ Crc!Init /\ Idle(7)
             \/ part = "varint"   /\ Framing!VarintInit /\ Idle(1)
             \/ part = "framing"  /\ Framing!Init /\ Idle(9)
             \/ part = "static"   /\ Static!Init /\ Idle(5)
             \/ part = "pointer"  /\ Pointer!Init /\ Idle(5)
             \/ part = "nested"   /\ Nested!Init /\ Idle(5)
             \/ part = "encode"   /\ Encode!Init /\ Idle(4)
             \/ part = "calls"    /\ Calls!Init /\ Idle(16)
             \/ part = "batches"  /\ BatchCalls!Init /\ Idle(16)
             \/ part = "objects"  /\ ObjectCalls!Init /\ Idle(16)
             \/ part = "answer" /\ Answer!Init /\ Idle(5)
             \/ part = "sent" /\ Sent!Init /\ Idle(4)
             \/ part = "base64" /\ Idle(2) /\ ((x1 \in ByteStrings /\ x2 = <<>>)
                                             \/ (x1 = <<>> /\ x2 \in Base64Texts))
             \/ part = "coding" /\ Idle(2) /\ ((x1 \in 0..2^9 - 1 /\ x2 = <<>>) \/ (x1 = 0 /\ x2 \in Inputs))
             \/ part = "comparator" /\ x1 \in InternalKeys /\ x2 \in InternalKeys /\ Idle(2)

Others(n) == Keep(n) /\ UNCHANGED part

MCNext == \/ part = "block"    /\ Data!Next /\ Others(7)
          \/ part = "table"    /\ Tables!Next /\ Others(8)
          \/ part = "cached"   /\ Cached!Next /\ Others(8)
          \/ part = "bloom"    /\ Filter!Next /\ Others(3)
          \/ part = "twolevel" /\ TwoLevel!Next /\ Others(5)
          \/ part = "cache"    /\ Lru!Next /\ Others(3)
          \/ part = "tables"   /\ Open!TableNext /\ Others(6)
          \/ part = "writable" /\ Writable!Next /\ Others(15)
          \/ part = "manifest" /\ Manifest!Next /\ Others(15)
          \/ part = "crc"      /\ Crc!Next /\ Others(7)
          \/ part = "varint"   /\ Framing!VarintNext /\ Others(1)
          \/ part = "framing"  /\ Framing!Next /\ Others(9)
          \/ part = "static"   /\ Static!Next /\ Others(5)
          \/ part = "pointer"  /\ Pointer!Next /\ Others(5)
          \/ part = "nested"   /\ Nested!Next /\ Others(5)
          \/ part = "encode"   /\ Encode!Next /\ Others(4)
          \/ part = "calls"    /\ Calls!Next /\ Others(16)
          \/ part = "batches"  /\ BatchCalls!Next /\ Others(16)
          \/ part = "objects"  /\ ObjectCalls!Next /\ Others(16)
          \/ part = "answer" /\ Answer!Next /\ Others(5)
          \/ part = "sent" /\ Sent!Next /\ Others(4)

MCSpec == MCInit /\ [][MCNext]_all
-----------------------------------------------------------------------------
Tails == {<<>>, <<0>>, <<Coder!B>>}

(* What either varint encoder writes is read back, whatever follows, and what  *)
(* follows is left; the unrolled encoder and the loop write the same bytes, as *)
(* many as VarintLength says.                                                  *)
VarintRoundTrip == LET long == Coder!EncodeVarint64(x1) IN
    /\ \A t \in Tails : Coder!GetVarint64(long \o t) = Coder!Got(x1, t)
    /\ Len(long) = Coder!VarintLength(x1) /\ \A i \in 1..Len(long) : long[i] \in Coder!Bytes
    /\ x1 < 2^5 => /\ Coder!EncodeVarint32(x1) = long
                   /\ \A t \in Tails : Coder!GetVarint32(long \o t) = Coder!Got(x1, t)

(* Of a part of a varint no number is made.                                    *)
CutVarintRefused == LET s == Coder!EncodeVarint64(x1)
                    IN  \A k \in 0..Len(s) - 1 : ~Coder!GetVarint64(SubSeq(s, 1, k)).ok

(* Of any input a part from the front is read, and the number fits its width;  *)
(* slices come back as they went in, and of any input a slice has exactly the  *)
(* length that stands before it.                                               *)
StaysInInput ==
    /\ \A w \in {5, 9} : LET g == Coder!GetVarint(x2, w) IN g.ok =>
          /\ g.value < 2^w
          /\ \E n \in 1..Len(x2) : g.rest = Coder!Drop(x2, n) /\ n <= Coder!MaxBytes(w)
    /\ LET g == Coder!GetLengthPrefixedSlice(x2) IN g.ok => \E n \in 1..Len(x2) :
          /\ Coder!GetVarint32(x2).value = Len(g.value)
          /\ Coder!GetVarint32(x2).rest = Coder!Drop(x2, n)
          /\ x2 = SubSeq(x2, 1, n) \o g.value \o g.rest
    /\ \A t \in Tails : Coder!GetLengthPrefixedSlice(Coder!PutLengthPrefixedSlice(x2) \o t)
                           = Coder!Got(x2, t)
    /\ Coder!DecodeFixed(Coder!EncodeFixed(x1, 9)) = x1

(* Bytes written in base 64 are read back, whatever spaces come between, with  *)
(* or without a target, if their text had room: it needs four characters for   *)
(* three bytes or fewer and one for the zero that ends it.                     *)
Base64RoundTrip == LET text == Coder!f_b64_ntop(x1, 20) IN
    /\ \A n \in 0..10 : Coder!f_b64_ntop(x1, n) = IF 4 * ((Len(x1) + 2) \div 3) < n THEN text
                                                  ELSE Coder!Refused
    /\ \A i \in 0..Len(text), target \in {10, Coder!nullptr} :
          Coder!f_b64_pton(SubSeq(text, 1, i) \o <<Coder!Space>> \o Coder!Drop(text, i), target) = x1

(* What is read into a target stays inside it, is the same for every target    *)
(* that has room, and is a text that the writer writes, spaces aside: no two   *)
(* texts stand for the same bytes.  Counting without a target agrees.          *)
Base64Canonical == LET whole == Coder!f_b64_pton(x2, 10) IN
    /\ whole # Coder!Refused => /\ Coder!Visible(x2) = Coder!f_b64_ntop(whole, 20)
                                /\ Coder!f_b64_pton(x2, Coder!nullptr) = whole
    /\ \A n \in 0..5 : LET got == Coder!f_b64_pton(x2, n) IN
          /\ got # Coder!Refused => got = whole /\ Len(got) <= n
          /\ whole # Coder!Refused /\ Len(whole) < n => got = whole

(* Exactly one of <, > and = holds of two internal keys.                       *)
TotalOrder == LET l == Order!InternalLess(x1, x2)
                  g == Order!InternalLess(x2, x1)
              IN  ~(l /\ g) /\ ((l \/ g) <=> x1 # x2)

(* FindShortestSeparator "changes *start to a short string in [start,limit)",  *)
(* FindShortSuccessor to "a short string >= *key".                             *)
ShortBetween ==
    /\ Order!Less(x1.user, x2.user) =>
          LET s == Order!FindShortestSeparator(x1.user, x2.user)
          IN  ~Order!Less(s, x1.user) /\ Order!Less(s, x2.user) /\ Len(s) <= Len(x1.user)
    /\ LET s == Order!FindShortSuccessor(x1.user)
       IN  ~Order!Less(s, x1.user) /\ Len(s) <= Len(x1.user)

(* The separator of two internal keys lies between them and before all         *)
(* entries of its own user key.                                                *)
InternalBetween == Order!InternalLess(x1, x2) =>
    LET s == Order!InternalSeparator(x1, x2)
    IN  /\ ~Order!InternalLess(s, x1) /\ Order!InternalLess(s, x2)
        /\ s # x1 => \A tag \in 0..1 : ~Order!InternalLess([user |-> s.user, tag |-> tag], s)

(* table/block_builder.cc, table/block.cc, util/comparator.cc, dbformat.cc:    *)
(* whatever the moves and the damage, an iterator of a block that reports no   *)
(* error is at the key that was asked for, and without damage there is none;   *)
(* the separator of two internal keys sends a search for every snapshot to     *)
(* the right block.                                                            *)
BlocksRight ==
    /\ part = "block" => /\ Data!AtRightKey /\ Data!NoFalseAlarm
                         /\ Data!RestartBlock /\ Data!ScanBounded
    /\ part = "comparator" => TotalOrder /\ ShortBetween /\ InternalBetween

(* table/table_builder.cc, table/table.cc, filter_block.cc, bloom.cc and       *)
(* two_level_iterator.cc: a table whose writing failed does not open, one that *)
(* opens finds what was added and no filter hides it, also through a shared    *)
(* cache of blocks, and an iterator over it passes no key in silence.  In      *)
(* util/cache.cc and db/table_cache.cc a value lives as long as someone holds  *)
(* it and no longer, whoever replaced, erased or evicted it meanwhile; the     *)
(* lists, the hash table and the usage agree.                                  *)
TablesRight ==
    /\ part = "table" => /\ Tables!IndexSeparates /\ Tables!OpensOnlyWhole
                         /\ Tables!FilterCovers /\ Tables!OffsetsGrow /\ Tables!GetRight
    /\ part = "cached" => Cached!GetRight
    /\ part = "bloom" => Filter!NoFalseNegative /\ Filter!SomeRejected
    /\ part = "twolevel" => TwoLevel!AtRightKey /\ TwoLevel!ErrorsKept
    /\ part = "cache" => Lru!Counted /\ Lru!Lists /\ Lru!TableRight /\ Lru!Usage
    /\ part = "tables" => Open!TableInUse /\ Open!DeletedClosed /\ Open!AllClosed

(* util/cache.cc: an insertion makes room, and takes it from the entries that  *)
(* were released longest ago, never from one that someone holds.               *)
CachesRight == [][part = "cache" => Lru!InsertMakesRoom /\ Lru!OldestLeave]_all

(* db/c.cc: errors and results are handed over as c.h says, a string has one   *)
(* owner and an object is destroyed once, and what a batch was given is what   *)
(* it replays.                                                                 *)
CallsRight ==
    /\ part = "calls" => /\ Calls!StringsOwned /\ Calls!ErrorsReported /\ Calls!ResultRight
                         /\ Calls!DatabaseOpen /\ Calls!IteratorRight
    /\ part = "batches" => /\ BatchCalls!StringsOwned /\ BatchCalls!BatchReplayed
    /\ part = "objects" => /\ ObjectCalls!StringsOwned /\ ObjectCalls!ObjectsOwned
                           /\ ObjectCalls!FiltersCover

(* util/env_posix.cc, coding.cc, crc32c.cc, fbase64.c, nanopb's varints and    *)
(* framing: bytes reach a file in order and once, a manifest is never durable  *)
(* before the names of the files in it; what is written is read back, whatever *)
(* follows it; what is cut or damaged is refused or contained; strings and     *)
(* objects handed over to C have one owner.                                    *)
CodecsRight ==
    /\ CallsRight
    /\ part = "writable" => Writable!InOrder /\ Writable!Increasing /\ Writable!StringWhole
    /\ part = "manifest" => Manifest!NoDanglingName
    /\ part = "coding" => VarintRoundTrip /\ CutVarintRefused /\ StaysInInput
    /\ part = "base64" => Base64RoundTrip /\ Base64Canonical
    /\ part = "crc" => /\ Crc!ReadsInside /\ Crc!KnownValue /\ Crc!ExtendsCrc
                       /\ Crc!MaskInvertible
    /\ part = "varint" => /\ Framing!Exact32 /\ Framing!VarintReadsBack
                          /\ Framing!FieldRange
    /\ part = "framing" => /\ Framing!ReadsBack /\ Framing!DamageContained
                           /\ Framing!OnlyWholeMessages

(* nanopb, pb_decode.c and pb_encode.c: for every input, an error included,    *)
(* decoding stays within its destinations, frees each block once and loses     *)
(* none; what it accepts is what the input means.  Encoding stays within its   *)
(* buffer, needs as much as the sizing pass said, and is read back; so are the *)
(* messages of Firebase's transport, with whatever an event has.               *)
MessagesRight ==
    /\ part = "static" => /\ Static!WithinBounds /\ Static!RequiredPresent
                          /\ Static!DecodesMeaning
    /\ part = "pointer" => /\ Pointer!NoFault /\ Pointer!NoLeak
                           /\ Pointer!WithinBounds /\ Pointer!DecodesMeaning
    /\ part = "nested" => Nested!NoFault /\ Nested!NoLeak /\ Nested!DecodesMeaning
    /\ part = "encode" => Encode!WithinBuffer /\ Encode!SizeIsExact /\ Encode!RoundTrip
    /\ part = "answer" => Answer!NoFault /\ Answer!NoLeak /\ Answer!DecodesMeaning
    /\ part = "sent" => Sent!WithinBuffer /\ Sent!SizeIsExact /\ Sent!RoundTrip
=============================================================================
