------------------------------ MODULE PbFields ------------------------------
(* nanopb, pb.h and pb_common.c: descriptions of the fields of messages, and   *)
(* the wire format they have.  A tag, a length and a small number each take    *)
(* one byte here; longer varints are in PbFraming.                             *)
EXTENDS Naturals, Sequences, FiniteSets, SequencesExt, FiniteSetsExt

CONSTANTS Types,  \* message types: name -> sequence of fields
          Top     \* the type that is encoded and decoded

(* pb_field_t.  l is the LTYPE ("varint" stands for bool, varint, uvarint and  *)
(* svarint, "fixed" for fixed32 and fixed64), h the HTYPE, a the ATYPE; size   *)
(* is the data_size (the largest number of a varint), max the array_size; has  *)
(* is whether there is a has_ or _count member; sub is the type of a message.  *)
Field(tag, l, h, a, size, max, has, sub) ==
    [tag |-> tag, l |-> l, h |-> h, a |-> a, size |-> size, max |-> max, has |-> has, sub |-> sub]

(* The LTYPE of each type of protocol buffers.                                 *)
PB_LTYPE_MAP ==
    [BOOL |-> "varint", ENUM |-> "varint", UENUM |-> "varint", INT32 |-> "varint", INT64 |-> "varint",
     SINT32 |-> "varint", SINT64 |-> "varint", UINT32 |-> "varint", UINT64 |-> "varint",
     FIXED32 |-> "fixed", FIXED64 |-> "fixed", SFIXED32 |-> "fixed", SFIXED64 |-> "fixed",
     FLOAT |-> "fixed", DOUBLE |-> "fixed", BYTES |-> "bytes", STRING |-> "string",
     MESSAGE |-> "submessage", EXTENSION |-> "extension", FIXED_LENGTH_BYTES |-> "fixedbytes"]

(* PB_REQUIRED_STATIC and its like: fields of which rules there are, and which *)
(* have a has_ or _count member beside them.                                   *)
HtypeOf == [REQUIRED |-> "required", OPTIONAL |-> "optional", SINGULAR |-> "optional",
            REPEATED |-> "repeated", FIXED_COUNT |-> "repeated", ONEOF |-> "oneof"]

AtypeOf == [STATIC |-> "static", POINTER |-> "pointer", CALLBACK |-> "callback"]

HasCount(rules, allocation) == \/ rules = "OPTIONAL" /\ allocation = "STATIC"
                               \/ rules = "REPEATED" /\ allocation # "CALLBACK"

Largest == 9  \* the largest number of a member, here

(* A row of a table of fields; the offsets are those of the structure.         *)
PB_FIELD(tag, type, rules, allocation, sub) ==
    Field(tag, PB_LTYPE_MAP[type], HtypeOf[rules], AtypeOf[allocation], Largest, 0,
          HasCount(rules, allocation), sub)

VARINT == 0
LENGTH == 2
BITS32 == 5
GROUP  == 3  \* not supported
FixedWidth == 2  \* bytes of a fixed number, here

Packable(f) == f.l \in {"varint", "fixed"}

(* pb_encode_tag_for_field.                                                    *)
WireType(f) == CASE f.l = "varint" -> VARINT
                 [] f.l = "fixed" -> BITS32
                 [] OTHER -> LENGTH

TagByte(tag, wt) == 8 * tag + wt

FieldsOf(type) == ToSet(Types[type])

(* pb_field_iter_begin, next and find: a search that wraps around, so that it  *)
(* finds the field wherever the iterator stands.  Extensions are not found.    *)
Find(type, tag) == {f \in FieldsOf(type) : f.tag = tag /\ f.l # "extension" /\ f.h # "ext"}

(* The extension placeholder of a type, and the extensions registered for it.  *)
Placeholder(type) == {f \in FieldsOf(type) : f.l = "extension"}
Extensions(type) == {f \in FieldsOf(type) : f.h = "ext"}

Required(type) == {f.tag : f \in {g \in FieldsOf(type) : g.h = "required"}}

IsFixedCount(f) == f.h = "repeated" /\ f.a = "static" /\ ~f.has

Zeros(n) == [i \in 1..n |-> 0]
-----------------------------------------------------------------------------
(* Tables of fields from the arguments of PB_FIELD in each row.                *)
Tables(rows) ==
    [type \in DOMAIN rows |->
        [i \in DOMAIN rows[type] |-> LET row == rows[type][i]
                                     IN  PB_FIELD(row[1], row[2], row[3], row[4], row[5])]]

(* The messages of Firebase's transport: what is sent, and what is answered.   *)
RequestTypes == Tables(
    [LogEvent |->
        <<<<1, "INT64", "OPTIONAL", "STATIC", "none">>,    \* event_time_ms
          <<6, "BYTES", "OPTIONAL", "POINTER", "none">>,   \* source_extension
          <<11, "INT32", "OPTIONAL", "STATIC", "none">>,   \* event_code
          <<15, "SINT64", "OPTIONAL", "STATIC", "none">>,  \* timezone_offset_seconds
          <<17, "INT64", "OPTIONAL", "STATIC", "none">>,   \* event_uptime_ms
          <<23, "MESSAGE", "OPTIONAL", "STATIC", "NetworkConnectionInfo">>>>,
     NetworkConnectionInfo |->
        <<<<1, "ENUM", "OPTIONAL", "STATIC", "none">>,     \* network_type
          <<2, "UENUM", "OPTIONAL", "STATIC", "none">>>>,  \* mobile_subtype
     IosClientInfo |->
        [i \in 1..7 |-> <<<<3, 4, 5, 6, 7, 8, 11>>[i], "BYTES", "OPTIONAL", "POINTER", "none">>],
     ClientInfo |->
        <<<<1, "UENUM", "OPTIONAL", "STATIC", "none">>,    \* client_type
          <<4, "MESSAGE", "OPTIONAL", "STATIC", "IosClientInfo">>>>,
     BatchedLogRequest |-> <<<<1, "MESSAGE", "REPEATED", "POINTER", "LogRequest">>>>,
     LogRequest |->
        <<<<1, "MESSAGE", "OPTIONAL", "STATIC", "ClientInfo">>,
          <<2, "INT32", "OPTIONAL", "STATIC", "none">>,    \* log_source
          <<3, "MESSAGE", "REPEATED", "POINTER", "LogEvent">>,
          <<4, "INT64", "OPTIONAL", "STATIC", "none">>,    \* request_time_ms
          <<8, "INT64", "OPTIONAL", "STATIC", "none">>,    \* request_uptime_ms
          <<9, "UENUM", "OPTIONAL", "STATIC", "none">>>>]) \* qos_tier

ResponseTypes == Tables(
    [QosTierConfiguration |->
        <<<<2, "UENUM", "OPTIONAL", "STATIC", "none">>,    \* qos_tier
          <<3, "INT32", "OPTIONAL", "STATIC", "none">>>>,  \* log_source
     QosTiersOverride |->
        <<<<1, "MESSAGE", "REPEATED", "POINTER", "QosTierConfiguration">>,
          <<2, "INT64", "OPTIONAL", "STATIC", "none">>>>,  \* qos_tier_fingerprint
     LogResponse |->
        <<<<1, "INT64", "OPTIONAL", "STATIC", "none">>,    \* next_request_wait_millis
          <<3, "MESSAGE", "OPTIONAL", "STATIC", "QosTiersOverride">>>>])

(* gdt_cct_..._init_default: no member is there, and numbers have some value.  *)
InitDefault[type \in DOMAIN RequestTypes] ==
    [which |-> 0, says |-> <<0>>,
     f |-> [tag \in {f.tag : f \in ToSet(RequestTypes[type])} |->
              LET f == CHOOSE g \in ToSet(RequestTypes[type]) : g.tag = tag
              IN  [n |-> 0,
                   items |-> IF f.a = "pointer" THEN <<>>
                             ELSE IF f.l = "submessage" THEN <<InitDefault[f.sub]>> ELSE <<0>>]]]

With(m, tag, items) == [m EXCEPT !.f[tag] = [n |-> Len(items), items |-> items]]

Maybe(there, m, tag, item) == IF there THEN With(m, tag, <<item>>) ELSE m

(* GDTCCTConstructNetworkConnectionInfoData: the subtype is that of a mobile   *)
(* network, and is sent when it is known.                                      *)
ConstructNetworkConnectionInfo(network, subtype) ==
    LET info == InitDefault["NetworkConnectionInfo"]
    IN  IF network = "none" THEN info
        ELSE IF network = "mobile" THEN Maybe(subtype # 0, With(info, 1, <<0>>), 2, subtype)
        ELSE With(info, 1, <<1>>)

(* GDTCCTConstructLogEvent.  The bytes of an event are in a file, which may be *)
(* gone; a code and a network come with an event of its own bytes.             *)
ConstructLogEvent(e) ==
    LET clock == With(With(With(InitDefault["LogEvent"], 1, <<e.time>>), 17, <<e.uptime>>), 15, <<e.zone>>)
        info == Maybe(e.custom /\ e.network # "unknown", clock, 23,
                      ConstructNetworkConnectionInfo(e.network, e.subtype))
    IN  Maybe(e.readable, Maybe(e.custom /\ e.coded, info, 11, e.code), 6, e.bytes)

(* GDTCCTConstructClientInfo: strings, two of which may be missing.            *)
ConstructClientInfo(build, country) ==
    LET texts == {3, 4, 7, 8, 11} \union {t \in {5} : build} \union {t \in {6} : country}
        ios == [InitDefault["IosClientInfo"] EXCEPT !.f =
                   [t \in DOMAIN @ |-> IF t \in texts THEN [n |-> 1, items |-> <<1>>] ELSE @[t]]]
    IN  With(With(InitDefault["ClientInfo"], 1, <<9>>), 4, <<ios>>)

(* GDTCCTConstructLogRequest: a source without events says nothing, and when   *)
(* there is no memory for the events they and the time are left out.           *)
ConstructLogRequest(source, client, events, memory) ==
    LET who == With(With(InitDefault["LogRequest"], 2, <<source>>), 1, <<client>>)
    IN  IF events = <<>> THEN InitDefault["LogRequest"]
        ELSE IF ~memory THEN who
        ELSE With(With(With(who, 3, [i \in DOMAIN events |-> ConstructLogEvent(events[i])]), 4, <<1>>), 8, <<2>>)

(* GDTCCTConstructBatchedLogRequest; without memory the list is empty.         *)
ConstructBatchedLogRequest(requests) == With(InitDefault["BatchedLogRequest"], 1, requests)

-----------------------------------------------------------------------------
(* What a message says: for each field the values in order.                    *)

Stated(type) == {f \in FieldsOf(type) : f.l # "extension" /\ f.a # "callback"}
Empty(type) == [f \in Stated(type) |-> <<>>]

RECURSIVE Parse(_, _, _, _)

(* How many bytes a value takes, of a known type or going by its wire type.    *)
Extent(bs, wt, l) == IF l \in {"varint", "fixed"} \/ (l = "unknown" /\ wt # LENGTH)
                     THEN IF l = "fixed" \/ (l = "unknown" /\ wt = BITS32) THEN FixedWidth ELSE 1
                     ELSE 1 + bs[1]

(* What the bytes say by the rules of protocol buffers: repeated fields are    *)
(* appended, packed or not, of others the last one counts, messages in place   *)
(* are merged, and one member of a union remains.  nanopb's own rules: a zero  *)
(* tag ends a message, messages in allocated memory are replaced, and so is a  *)
(* complete array of fixed length.                                             *)
Parse(bs, type, acc, merging) ==
    IF Len(bs) < 2 \/ bs[1] = 0 THEN acc
    ELSE LET wt == bs[1] % 8
             body == Tail(bs)
             bounded(k) == IF k > Len(body) THEN Len(body) ELSE k
             after(k) == SubSeq(body, k + 1, Len(body))
             fs == {f \in DOMAIN acc : f.tag = bs[1] \div 8}
         IN  IF fs = {} THEN Parse(after(Extent(body, wt, "unknown")), type, acc, merging)
             ELSE LET f == CHOOSE g \in fs : TRUE
                      packed == f.h = "repeated" /\ wt = LENGTH /\ Packable(f)
                      k == IF packed THEN 1 + body[1] ELSE Extent(body, wt, f.l)
                      inner == SubSeq(body, 2, bounded(k))
                      merged == IF f.h \in merging /\ f.a = "static" /\ acc[f] # <<>> THEN acc[f][1] ELSE Empty(f.sub)
                      vals == CASE packed /\ f.l = "varint" -> inner
                                [] packed /\ f.l = "fixed" ->
                                     [i \in 1..(Len(inner) \div FixedWidth) |-> inner[FixedWidth * (i - 1) + 1]]
                                [] f.l = "submessage" -> <<Parse(inner, f.sub, merged, merging)>>
                                [] OTHER -> <<body[1]>>
                      full == IsFixedCount(f) /\ Len(acc[f]) = f.max /\ vals # <<>>
                      cleared == [g \in DOMAIN acc |-> IF f.h = "oneof" /\ g.h = "oneof" THEN <<>> ELSE acc[g]]
                  IN  Parse(after(k), type,
                            [cleared EXCEPT ![f] = IF f.h = "repeated" /\ ~full THEN @ \o vals ELSE vals], merging)
=============================================================================
