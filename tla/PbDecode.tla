------------------------------ MODULE PbDecode ------------------------------
(* nanopb, pb_decode.c, built with PB_ENABLE_MALLOC as nanopb.xcconfig says:   *)
(* decoding of a message into a structure, with fields in place, in allocated  *)
(* memory and given to callbacks.  The bytes are chosen as they are read.  The *)
(* destination is zeroed by the caller, as GDTCCTNanopbHelpers.m does.         *)
EXTENDS PbFields, TLC

CONSTANTS Values,        \* numbers and lengths that occur
          MaxBytes,      \* bound: length of the input
          MaxFailures,   \* bound: allocations that fail
          SizeMax,       \* PB_SIZE_MAX
          Width          \* data_size of a number in an array

VARIABLES stack,    \* one frame for each pb_decode that is active
          store,    \* [mem: address -> structure, heap: live blocks, next, fault]
          input,    \* history: the bytes read
          status,   \* "run", "ok", "failed" or "released"
          failures  \* allocations that failed

vars == <<stack, store, input, status, failures>>

(* A member: how often it occurs (has_ or _count), its items, its block and    *)
(* the capacity of it.                                                         *)
NoMember == [n |-> 0, items |-> <<>>, blk |-> 0, cap |-> 0]
Tags == {f.tag : f \in UNION {FieldsOf(t) : t \in DOMAIN Types}}
Zero == [which |-> 0, f |-> [t \in Tags |-> NoMember]]

(* An address is a path: <<tag, i>> is a message in place, <<0, b>> block b.   *)
At(s, addr) == IF addr \in DOMAIN s.mem THEN s.mem[addr] ELSE Zero
Member(s, addr, f) == At(s, addr).f[f.tag]
Put(s, addr, f, m) == [s EXCEPT !.mem = (addr :> [At(s, addr) EXCEPT !.f[f.tag] = m]) @@ s.mem]
SetWhich(s, addr, tag) == [s EXCEPT !.mem = (addr :> [At(s, addr) EXCEPT !.which = tag]) @@ s.mem]

(* pb_message_set_to_defaults, and memset: what lies at or below an address    *)
(* is empty again; pointers in it are forgotten.                               *)
SetToDefaults(s, addr) ==
    [s EXCEPT !.mem = [x \in {y \in DOMAIN @ : ~IsPrefix(addr, y)} |-> @[x]]]

Frame(type, addr, left, init) ==
    [type |-> type, addr |-> addr, left |-> left, init |-> init, pc |-> "tag", f |-> Field(0, "none", "none", "none", 0, 0, FALSE, "none"),
     wt |-> 0, seen |-> {}, fixed |-> 0]

Init == /\ \E n \in 0..MaxBytes : stack = <<Frame(Top, <<>>, n, TRUE)>>
        /\ store = [mem |-> <<>>, heap |-> {}, next |-> 1, fault |-> FALSE]
        /\ input = <<>> /\ status = "run" /\ failures = 0

-----------------------------------------------------------------------------
(* pb_release.                                                                 *)

Free(s, b) == IF b = 0 THEN s
              ELSE [s EXCEPT !.heap = @ \ {b}, !.fault = @ \/ b \notin s.heap]

(* A released member: the pointer is NULL and there are no entries.            *)
Emptied(m) == NoMember

SubAddress(s, addr, f, i) ==
    IF f.a = "pointer" THEN <<<<0, Member(s, addr, f).blk>>, <<0, i>>>> ELSE Append(addr, <<f.tag, i>>)

(* How many messages a member holds that have to be released.                  *)
Structures(s, addr, f) ==
    LET m == Member(s, addr, f)
        n == IF f.h # "repeated" THEN 1 ELSE IF f.a = "static" /\ ~f.has THEN f.max ELSE m.n
    IN  IF f.a = "pointer" /\ m.blk = 0 THEN 0
        ELSE IF f.a = "static" /\ f.h = "repeated" /\ n > f.max THEN f.max ELSE n

RECURSIVE Release(_, _, _), ReleaseMessages(_, _, _, _), ReleaseField(_, _, _),
          ReleaseFields(_, _, _)

(* pb_release_single_field: first the n messages of the member, then the       *)
(* blocks of its entries and its own.  Reading a structure outside an array is *)
(* a fault.                                                                    *)
ReleaseMessages(s, addr, f, n) ==
    LET sub[i \in 0..n] == IF i = 0 THEN s
                           ELSE Release(sub[i - 1], f.sub, SubAddress(s, addr, f, i))
    IN  IF f.l # "submessage" \/ f.a = "callback" THEN s
        ELSE IF f.a = "static" /\ f.h = "repeated" /\ n > f.max THEN [s EXCEPT !.fault = TRUE]
        ELSE sub[n]

FreeItems(s, items) ==
    LET item[i \in 0..Len(items)] == IF i = 0 THEN s ELSE Free(item[i - 1], items[i].b)
    IN  item[Len(items)]

FreeMember(s, addr, f, m) ==
    IF f.a # "pointer" THEN s
    ELSE Put(Free(IF f.h = "repeated" THEN FreeItems(s, m.items) ELSE s, m.blk), addr, f, Emptied(m))

ReleaseField(s, addr, f) ==
    IF f.h = "oneof" /\ At(s, addr).which # f.tag THEN s
    ELSE LET s1 == ReleaseMessages(s, addr, f, Structures(s, addr, f))
         IN  FreeMember(s1, addr, f, Member(s1, addr, f))

ReleaseFields(s, addr, fs) == IF fs = <<>> THEN s
                              ELSE ReleaseFields(ReleaseField(s, addr, Head(fs)), addr, Tail(fs))

Release(s, type, addr) == ReleaseFields(s, addr, Types[type])

(* Slip: the old member of a union is not released.                            *)
KeepUnionField(s, type, addr, f) == s

(* pb_release_union_field: another member of the union is there.               *)
ReleaseUnionField(s, type, addr, f) ==
    LET old == At(s, addr).which
    IN  IF f.h # "oneof" \/ old \in {0, f.tag} THEN s
        ELSE ReleaseField(s, addr, CHOOSE g \in Find(type, old) : TRUE)

-----------------------------------------------------------------------------
TopFrame == stack[Len(stack)]

(* pb_make_string_substream, pb_skip_string: a length was read, and so much    *)
(* is not left.                                                                *)
TooShort(v) == v > TopFrame.left - 1

Running(pc) == status = "run" /\ TopFrame.pc = pc

(* The active calls fail one by one; pb_decode releases what it decoded.       *)
Unwind(s) ==
    LET u[i \in 0..Len(stack)] ==
          IF i = 0 THEN s
          ELSE LET fr == stack[Len(stack) - i + 1]
               IN  IF fr.init THEN Release(u[i - 1], fr.type, fr.addr) ELSE u[i - 1]
    IN  u[Len(stack)]

Fail(s) == /\ status' = "failed" /\ store' = Unwind(s)
           /\ stack' = <<>> /\ UNCHANGED input

(* The top frame has read some bytes and goes on.                              *)
Proceed(s, bytes, frame) ==
    /\ store' = s /\ input' = input \o bytes /\ status' = status
    /\ stack' = [stack EXCEPT ![Len(stack)] = [frame EXCEPT !.left = @ - Len(bytes)]]

(* A value has been stored.                                                    *)
Stored(s, bytes) == Proceed(s, bytes, [TopFrame EXCEPT !.pc = "tag"])

(* The end of pb_decode_noinit, and pb_close_string_substream.                 *)
EndMessage(bytes) ==
    LET fr == TopFrame
        rest == [i \in 1..(fr.left - Len(bytes)) |-> 0]
        counted == \A f \in Find(fr.type, fr.fixed) : Member(store, fr.addr, f).n = f.max
    IN  IF ~counted \/ ~(Required(fr.type) \subseteq fr.seen) THEN Fail(store)
        ELSE /\ stack' = Front(stack)
             /\ status' = IF Len(stack) = 1 THEN "ok" ELSE "run"
             /\ input' = input \o bytes \o rest
             /\ UNCHANGED store

(* Fixed count arrays are counted in the decoder, one at a time.               *)
FixedCount(fr, f) ==
    [store |-> IF fr.fixed = f.tag THEN store
               ELSE Put(store, fr.addr, f, [Member(store, fr.addr, f) EXCEPT !.n = 0, !.items = <<>>]),
     frame |-> [fr EXCEPT !.fixed = f.tag]]

TagBytes(type) == {0} \union {TagByte(t, wt) : t \in {f.tag : f \in FieldsOf(type)} \union {15},
                                               wt \in {VARINT, LENGTH, BITS32, GROUP}}

Skipped == Field(0, "skip", "none", "none", 0, 0, FALSE, "none")

(* One round of pb_decode_noinit: the tag, and the field it belongs to.        *)
DecodeTag ==
    /\ Running("tag")
    /\ IF TopFrame.left = 0 THEN EndMessage(<<>>)
       ELSE \E b \in TagBytes(TopFrame.type) :
              LET tag == b \div 8
                  fr == [TopFrame EXCEPT !.pc = "value", !.wt = b % 8]
                  known == Find(fr.type, tag)
                  exts == {f \in Extensions(fr.type) : f.tag = tag /\ \E p \in Placeholder(fr.type) : tag >= p.tag}
                  interrupted == \E f \in known, g \in Find(fr.type, fr.fixed) :
                                   IsFixedCount(f) /\ f # g /\ Member(store, fr.addr, g).n # g.max
              IN  IF b = 0 THEN EndMessage(<<b>>)
                  ELSE IF known \union exts = {} THEN Proceed(store, <<b>>, [fr EXCEPT !.f = Skipped])
                  ELSE IF interrupted THEN Fail(store)
                  ELSE \E f \in known \union exts :
                         LET counted == IF IsFixedCount(f) THEN FixedCount(fr, f)
                                        ELSE [store |-> store, frame |-> fr]
                         IN  Proceed(ReleaseUnionField(counted.store, fr.type, fr.addr, f), <<b>>,
                                     [counted.frame EXCEPT !.f = f, !.seen = @ \union
                                        IF f.h = "required" THEN {tag} ELSE {}])
    /\ UNCHANGED failures

Bad == [ok |-> FALSE, bytes |-> <<>>, v |-> 0, began |-> FALSE]
Good(bytes, v) == [ok |-> TRUE, bytes |-> bytes, v |-> v, began |-> TRUE]

(* pb_dec_bytes, pb_dec_string: whether the value fits in place.               *)
Fits(f, n) == f.a = "pointer" \/ n + (IF f.l = "string" THEN 1 ELSE 0) <= f.size

(* pb_dec_varint and its like, pb_dec_fixed32, 64, pb_dec_bytes, pb_dec_string *)
(* and pb_dec_fixed_length_bytes, when so many bytes are left: the values that *)
(* can be read.  began says that memory was allocated before an error.         *)
Decoded(f, left) ==
    CASE f.l = "varint" -> IF left = 0 THEN {Bad}
                           ELSE {IF v <= f.size THEN Good(<<v>>, v) ELSE Bad : v \in Values}
      [] f.l = "fixed"  -> IF left < FixedWidth THEN {Bad}
                           ELSE {Good(<<v>> \o Zeros(FixedWidth - 1), v) : v \in Values}
      [] f.l \in {"bytes", "string"} ->
           IF left = 0 THEN {Bad}
           ELSE {IF ~Fits(f, v) THEN Bad
                 ELSE IF v > left - 1 THEN [Bad EXCEPT !.began = TRUE]
                 ELSE Good(<<v>> \o Zeros(v), v) : v \in Values}
      [] f.l = "fixedbytes" ->
           IF left = 0 THEN {Bad}
           ELSE {IF v = 0 THEN Good(<<v>>, 0)
                 ELSE IF v # f.size \/ v > left - 1 THEN Bad ELSE Good(<<v>> \o Zeros(v), v) : v \in Values}

Item(v, b) == [v |-> v, b |-> b]

(* pb_skip_field.                                                              *)
SkipField ==
    /\ Running("value") /\ TopFrame.f = Skipped
    /\ LET left == TopFrame.left
       IN  CASE TopFrame.wt = VARINT -> IF left = 0 THEN Fail(store)
                                        ELSE \E v \in Values : Stored(store, <<v>>)
             [] TopFrame.wt = BITS32 -> IF left < FixedWidth THEN Fail(store)
                                        ELSE Stored(store, Zeros(FixedWidth))
             [] TopFrame.wt = LENGTH -> IF left = 0 THEN Fail(store)
                                        ELSE \E v \in Values : IF TooShort(v) THEN Fail(store)
                                                               ELSE Stored(store, <<v>> \o Zeros(v))
             [] OTHER -> Fail(store)
    /\ UNCHANGED failures

Current(pred(_)) == Running("value") /\ TopFrame.f # Skipped /\ pred(TopFrame.f)

IsPacked(f) == f.h = "repeated" /\ TopFrame.wt = LENGTH /\ Packable(f)

(* decode_static_field for a single value.                                     *)
DecodeStatic ==
    /\ Current(LAMBDA f : f.a = "static" /\ f.l # "submessage" /\ ~IsPacked(f))
    /\ LET f == TopFrame.f
           addr == TopFrame.addr
           m == Member(store, addr, f)
           s == IF f.h = "oneof" THEN SetWhich(store, addr, f.tag) ELSE store
       IN  IF f.h = "repeated" /\ m.n >= f.max THEN Fail(Put(s, addr, f, [m EXCEPT !.n = @ + 1]))
           ELSE \E o \in Decoded(f, TopFrame.left) :
                  IF ~o.ok THEN Fail(s)
                  ELSE LET new == IF f.h = "repeated"
                                  THEN [m EXCEPT !.n = @ + 1, !.items = Append(@, Item(o.v, 0))]
                                  ELSE [m EXCEPT !.n = 1, !.items = <<Item(o.v, 0)>>]
                       IN  Stored(Put(s, addr, f, new), o.bytes)
    /\ UNCHANGED failures

(* The values of a packed array of so many bytes; a fixed number may be cut.   *)
PackedValues(f, n) == [1..(IF f.l = "fixed" THEN n \div FixedWidth ELSE n) -> Values]
PackedBytes(f, vs) == IF f.l = "fixed" THEN FlattenSeq([i \in DOMAIN vs |-> <<vs[i]>> \o Zeros(FixedWidth - 1)])
                      ELSE vs
Whole(f, n) == f.l = "fixed" => n % FixedWidth = 0

(* allocate_field: realloc of the block of a member.                           *)
Allocate(s, addr, f, cap) ==
    LET m == Member(s, addr, f)
        blk == IF m.blk = 0 THEN s.next ELSE m.blk
        s1 == IF m.blk # 0 THEN s ELSE [s EXCEPT !.heap = @ \union {blk}, !.next = @ + 1]
    IN  Put(s1, addr, f, [m EXCEPT !.blk = blk, !.cap = cap])

MayFail == IF failures < MaxFailures THEN BOOLEAN ELSE {FALSE}
Counted(fails) == failures' = failures + IF fails THEN 1 ELSE 0

(* Room for k more entries: a static array has max, a count ends at SizeMax.   *)
Room(f, m, k) == m.n + k <= IF f.a = "pointer" THEN SizeMax ELSE f.max

(* How many entries the bytes left may hold, rounded up.                       *)
Remaining(left) == ((left - 1) \div Width) + 1

(* The capacity of an allocated array after k entries of w bytes were added to *)
(* it one by one, when it had room for cap and holds n.                        *)
Grown(n, cap, k, w) ==
    LET c[i \in 0..k] ==
          IF i = 0 THEN cap
          ELSE IF n + i <= c[i - 1] THEN c[i - 1]
          ELSE LET remain == Remaining(w * (k - i + 1))
               IN  c[i - 1] + IF remain < SizeMax - c[i - 1] THEN remain ELSE 1
    IN  c[k]

(* The packed array branches of decode_static_field and decode_pointer_field.  *)
(* An array in allocated memory grows by what the bytes left may hold, and has *)
(* grown when a later entry turns out to be bad.                               *)
DecodePacked ==
    /\ Current(LAMBDA f : f.a # "callback" /\ IsPacked(f))
    /\ LET f == TopFrame.f
           addr == TopFrame.addr
           m == Member(store, addr, f)
       IN  \E n \in Values, fails \in (IF f.a = "pointer" THEN MayFail ELSE {FALSE}) :
             /\ Counted(fails)
             /\ IF TooShort(n) THEN Fail(store)
                ELSE \E vs \in PackedValues(f, n) :
                  LET new == [m EXCEPT !.n = @ + Len(vs), !.items = @ \o [i \in DOMAIN vs |-> Item(vs[i], 0)]]
                      cap == Grown(m.n, m.n, Len(vs), IF f.l = "fixed" THEN FixedWidth ELSE 1)
                      s == IF f.a = "pointer" /\ n > 0 /\ m.n < SizeMax THEN Allocate(store, addr, f, cap) ELSE store
                      fine == /\ Room(f, m, Len(vs)) /\ Whole(f, n)
                              /\ \A i \in DOMAIN vs : f.l = "varint" => vs[i] <= f.size
                  IN  IF fails /\ n > 0 THEN Fail(store)
                      ELSE IF ~fine THEN Fail(s)
                      ELSE Stored(Put(s, addr, f, [Member(s, addr, f) EXCEPT !.n = new.n, !.items = new.items]),
                                  <<n>> \o PackedBytes(f, vs))
-----------------------------------------------------------------------------
(* A new block for an entry of an array of strings.                            *)
NewBlock(s) == [s EXCEPT !.heap = @ \union {s.next}, !.next = @ + 1]

IsText(f) == f.l \in {"bytes", "string"}

(* decode_pointer_field for a single number or string, not in an array.  A     *)
(* string is allocated after its length is known, a number before it is read.  *)
DecodePointer ==
    /\ Current(LAMBDA f : f.a = "pointer" /\ f.l # "submessage" /\ f.h # "repeated")
    /\ LET f == TopFrame.f
           addr == TopFrame.addr
           s == IF f.h = "oneof" THEN SetWhich(store, addr, f.tag) ELSE store
           a == Allocate(s, addr, f, 1)
       IN  \E o \in Decoded(f, TopFrame.left), fails \in MayFail :
             /\ Counted(fails)
             /\ IF fails \/ (IsText(f) /\ ~o.began) THEN Fail(s)
                ELSE IF ~o.ok THEN Fail(a)
                ELSE Stored(Put(a, addr, f, [Member(a, addr, f) EXCEPT !.n = 1, !.items = <<Item(o.v, 0)>>]), o.bytes)

(* The same for one entry of an array: the array grows by one, the entry is    *)
(* cleared, then it is decoded.                                                *)
DecodePointerEntry ==
    /\ Current(LAMBDA f : f.a = "pointer" /\ f.l # "submessage" /\ f.h = "repeated" /\ ~IsPacked(f))
    /\ LET f == TopFrame.f
           addr == TopFrame.addr
           m == Member(store, addr, f)
           a == Allocate(store, addr, f, m.n + 1)
           grown == [Member(a, addr, f) EXCEPT !.n = @ + 1]
           with(s, v, b) == Put(s, addr, f, [grown EXCEPT !.items = Append(@, Item(v, b))])
       IN  \E o \in Decoded(f, TopFrame.left), fails \in MayFail, first \in BOOLEAN :
             /\ Counted(fails)
             /\ IF (fails /\ first) \/ m.n >= SizeMax THEN Fail(store)
                ELSE IF ~IsText(f) THEN IF o.ok THEN Stored(with(a, o.v, 0), o.bytes) ELSE Fail(with(a, 0, 0))
                ELSE IF ~o.began \/ fails THEN Fail(with(a, 0, 0))
                ELSE IF o.ok THEN Stored(with(NewBlock(a), o.v, a.next), o.bytes)
                ELSE Fail(with(NewBlock(a), 0, a.next))

(* A message in allocated memory that comes again: release the old one.        *)
ReleaseDuplicate(s, addr, f) ==
    IF f.a = "pointer" /\ f.h # "repeated" /\ Member(s, addr, f).blk # 0 THEN ReleaseField(s, addr, f) ELSE s

(* The entry of the member that a message goes to.                             *)
Entry(f, m) == IF f.h = "repeated" THEN m.n + 1 ELSE 1

(* pb_dec_submessage, after the member was prepared by decode_static_field or  *)
(* decode_pointer_field: a substream for the message, and pb_decode on it.     *)
DecodeSubmessage ==
    /\ Current(LAMBDA f : f.l = "submessage" /\ f.a # "callback")
    /\ LET f == TopFrame.f
           addr == TopFrame.addr
       IN  \E v \in Values, fails \in (IF f.a = "pointer" THEN MayFail ELSE {FALSE}),
              old \in {ReleaseDuplicate(store, addr, f)} :
           \E s1 \in {IF f.h = "oneof" THEN SetWhich(old, addr, f.tag) ELSE old} :
           \E n \in {Entry(f, Member(s1, addr, f))} :
           \E s2 \in {IF f.a = "pointer" THEN Allocate(s1, addr, f, n) ELSE s1} :
           \E s3 \in {Put(s2, addr, f, [Member(s2, addr, f) EXCEPT !.n = n])} :
             LET sub == SubAddress(s3, addr, f, n)
                 s4 == IF f.a = "pointer" \/ f.h = "oneof" THEN SetToDefaults(s3, sub) ELSE s3
             IN  /\ Counted(fails)
                 /\ IF fails THEN Fail(s1)
                    ELSE IF f.h = "repeated" /\ f.a = "static" /\ n > f.max THEN Fail(s3)
                    ELSE IF f.h = "repeated" /\ f.a = "pointer" /\ n > SizeMax THEN Fail(s1)
                    ELSE IF TopFrame.left = 0 \/ TooShort(v) THEN Fail(s4)
                    ELSE /\ store' = IF f.h = "repeated" THEN SetToDefaults(s4, sub) ELSE s4
                         /\ input' = Append(input, v) /\ status' = status
                         /\ stack' = Append([stack EXCEPT ![Len(stack)] =
                                               [@ EXCEPT !.left = @ - 1 - v, !.pc = "tag"]],
                                            Frame(f.sub, sub, v, f.h = "repeated"))

(* decode_callback_field: a string is given as a substream until it is used    *)
(* up, another value is copied first.  The callback may refuse it.             *)
DecodeCallback ==
    /\ Current(LAMBDA f : f.a = "callback")
    /\ LET left == TopFrame.left
       IN  \E v \in Values, refused \in BOOLEAN :
             LET bytes == CASE TopFrame.wt = LENGTH -> <<v>> \o Zeros(v)
                            [] TopFrame.wt = VARINT -> <<v>>
                            [] OTHER -> Zeros(FixedWidth)
                 m == Member(store, TopFrame.addr, TopFrame.f)
             IN  IF Len(bytes) > left \/ refused \/ TopFrame.wt = GROUP THEN Fail(store)
                 ELSE Stored(Put(store, TopFrame.addr, TopFrame.f, [m EXCEPT !.n = 1]), bytes)
    /\ UNCHANGED failures

(* The caller is done with a message it has decoded.                           *)
CallerReleases == /\ status = "ok"
                  /\ store' = Release(store, Top, <<>>) /\ status' = "released"
                  /\ UNCHANGED <<stack, input, failures>>

Next == \/ DecodeTag \/ SkipField \/ DecodeStatic \/ DecodePacked \/ DecodePointer
        \/ DecodePointerEntry \/ DecodeSubmessage \/ DecodeCallback \/ CallerReleases

Spec == Init /\ [][Next]_vars
-----------------------------------------------------------------------------
RECURSIVE Meaning(_, _, _)

(* What the structure says after decoding.                                     *)
Meaning(s, type, addr) ==
    [f \in Stated(type) |->
       LET m == Member(s, addr, f)
           there == IF f.h = "oneof" THEN At(s, addr).which = f.tag ELSE m.n > 0
       IN  IF ~there THEN <<>>
           ELSE IF f.l = "submessage"
                THEN [i \in 1..m.n |-> Meaning(s, f.sub, SubAddress(s, addr, f, i))]
           ELSE [i \in DOMAIN m.items |-> m.items[i].v]]

(* "If pb_decode() returns with an error, the message is already released",    *)
(* and after pb_release nothing is left: no block leaks, whichever allocation  *)
(* or byte was the one that failed.                                            *)
NoLeak == status \in {"failed", "released"} => store.heap = {}

(* Nothing is freed twice and no array is read past its end.                   *)
NoFault == ~store.fault

(* A message that was decoded says what the bytes say.                         *)
DecodesMeaning == status = "ok" => Meaning(store, Top, <<>>) = Parse(input, Top, Empty(Top), {"optional"})

(* Strings and arrays in place keep to their room, and allocated arrays to     *)
(* their blocks.                                                               *)
WithinBounds == \A x \in DOMAIN store.mem : \A type \in DOMAIN Types : \A f \in FieldsOf(type) :
    LET m == store.mem[x].f[f.tag]
    IN  /\ f.a = "pointer" /\ f.h = "repeated" => Len(m.items) <= m.cap
        /\ f.a = "static" /\ f.h = "repeated" => Len(m.items) <= f.max
        /\ f.a = "static" /\ f.l = "string" => \A i \in DOMAIN m.items : m.items[i].v < f.size

(* A message accepted has all its required fields.                             *)
RequiredPresent == status = "ok" => \A f \in {g \in FieldsOf(Top) : g.h = "required"} :
                                      Meaning(store, Top, <<>>)[f] # <<>>
=============================================================================
