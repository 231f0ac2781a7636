------------------------------ MODULE PbEncode ------------------------------
(* nanopb, pb_encode.c: a structure is written to a stream of limited size, or *)
(* only measured.  Messages inside messages are encoded twice: measured, then  *)
(* written.  What a callback writes may differ from one call to the next.      *)
EXTENDS PbFields

CONSTANTS Messages,  \* structures: [which, f: tag -> [n, items], says: what callbacks write]
          Sizes      \* bound: sizes of buffers

VARIABLES msg,   \* the structure
          max,   \* the size of the buffer
          call,  \* the function that was called
          r      \* the stream afterwards

vars == <<msg, max, call, r>>

(* pb_ostream_t.  calls counts the calls of callbacks.                         *)
Stream(sizing, size, calls) ==
    [ok |-> TRUE, sizing |-> sizing, max |-> size, written |-> 0, out |-> <<>>, calls |-> calls]
PB_OSTREAM_SIZING(calls) == Stream(TRUE, 0, calls)

Init == /\ msg \in Messages /\ max \in Sizes
        /\ call = "none" /\ r = Stream(FALSE, max, 0)

Failed(st) == [st EXCEPT !.ok = FALSE]

IsFull(st, k) == st.written + k > st.max

(* pb_write.                                                                   *)
Write(st, bs) ==
    IF ~st.ok THEN st
    ELSE IF bs # <<>> /\ ~st.sizing /\ IsFull(st, Len(bs)) THEN Failed(st)
    ELSE [st EXCEPT !.written = @ + Len(bs), !.out = IF st.sizing THEN @ ELSE @ \o bs]

(* pb_enc_string and pb_enc_bytes: the length that is written.                 *)
TextLength(f, v) == IF f.l = "string" /\ f.a = "static" /\ v > f.size THEN f.size ELSE v

(* PB_ENCODERS but pb_enc_submessage.                                          *)
EncodeValue(st, f, v) ==
    CASE f.l = "varint"     -> Write(st, <<v>>)
      [] f.l = "fixed"      -> Write(st, <<v>> \o Zeros(FixedWidth - 1))
      [] f.l = "fixedbytes" -> Write(st, <<f.size>> \o Zeros(f.size))
      [] f.l = "bytes" /\ f.a = "static" /\ v > f.size -> Failed(st)
      [] OTHER -> Write(Write(st, <<TextLength(f, v)>>), Zeros(TextLength(f, v)))

RECURSIVE IsDefault(_, _), Encode(_, _, _), EncodeField(_, _, _), EncodeFields(_, _, _),
          EncodeItems(_, _, _, _), EncodeSubmessage(_, _, _)

(* pb_check_proto3_default_value: the member need not be written.              *)
IsDefault(f, m) ==
    LET x == m.f[f.tag]
    IN  CASE f.h = "required" -> FALSE
          [] f.h = "repeated" -> IF f.has THEN x.n = 0 ELSE f.a # "static"
          [] f.h = "oneof"    -> m.which = 0
          [] f.h = "optional" /\ f.has -> x.n = 0
          [] f.a = "pointer"  -> x.items = <<>>
          [] f.l = "submessage" -> \A g \in FieldsOf(f.sub) : IsDefault(g, x.items[1])
          [] f.l = "fixedbytes" -> f.size = 0
          [] OTHER -> x.items[1] = 0

PackedSize(f, vs) == Len(vs) * IF f.l = "fixed" THEN FixedWidth ELSE 1

(* encode_array.                                                               *)
EncodeArray(st, f, x) ==
    LET n == IF f.has THEN x.n ELSE f.max
        vs == SubSeq(x.items, 1, n)
        len == Write(Write(st, <<TagByte(f.tag, LENGTH)>>), <<PackedSize(f, vs)>>)
        put[i \in 0..n] == IF i = 0 THEN len ELSE EncodeValue(put[i - 1], f, vs[i])
    IN  IF n = 0 THEN st
        ELSE IF f.a # "pointer" /\ n > f.max THEN Failed(st)
        ELSE IF ~Packable(f) THEN EncodeItems(st, f, vs, 1)
        ELSE IF st.sizing THEN Write(len, Zeros(PackedSize(f, vs)))
        ELSE put[n]

(* A tag and a value, for each item.                                           *)
EncodeItems(st, f, vs, i) ==
    IF i > Len(vs) \/ ~st.ok THEN st
    ELSE LET tagged == Write(st, <<TagByte(f.tag, WireType(f))>>)
         IN  EncodeItems(IF f.l = "submessage" THEN EncodeSubmessage(tagged, f.sub, vs[i])
                         ELSE EncodeValue(tagged, f, vs[i]), f, vs, i + 1)

(* encode_callback_field: the callback writes a number of tagged numbers, as   *)
(* many as it thinks fit this time.                                            *)
EncodeCallback(st, f, m) ==
    LET k == m.says[IF st.calls < Len(m.says) THEN st.calls + 1 ELSE Len(m.says)]
        bs == [i \in 1..(2 * k) |-> IF i % 2 = 1 THEN TagByte(f.tag, VARINT) ELSE 1]
    IN  Write([st EXCEPT !.calls = @ + 1], bs)

(* encode_basic_field, with default_extension_encoder: nothing there checks    *)
(* whether the extension was found but its has_ flag.                          *)
EncodeField(st, f, m) ==
    LET x == m.f[f.tag]
        there == CASE f.a = "pointer" /\ f.h # "oneof" -> x.items # <<>>
                   [] f.h = "oneof"    -> m.which = f.tag
                   [] f.h = "required" -> TRUE
                   [] f.has            -> x.n > 0
                   [] OTHER            -> ~IsDefault(f, m)
    IN  CASE f.a = "callback"   -> EncodeCallback(st, f, m)
          [] f.l = "extension"  -> st
          [] f.h = "repeated"   -> EncodeArray(st, f, x)
          [] f.h = "required" /\ x.items = <<>> -> Failed(st)
          [] OTHER -> IF there THEN EncodeItems(st, f, x.items, 1) ELSE st

EncodeFields(st, fs, m) ==
    IF fs = <<>> \/ ~st.ok THEN st ELSE EncodeFields(EncodeField(st, Head(fs), m), Tail(fs), m)

(* pb_encode: the fields in order.                                             *)
Encode(st, type, m) == EncodeFields(st, Types[type], m)

SizeChanged(sub, size) == sub.written # size

(* pb_encode_submessage.                                                       *)
EncodeSubmessage(st, type, m) ==
    LET sized == Encode(PB_OSTREAM_SIZING(st.calls), type, m)
        size == sized.written
        len == Write([st EXCEPT !.calls = sized.calls], <<size>>)
        sub == Encode(Stream(FALSE, size, len.calls), type, m)
        done == [len EXCEPT !.written = @ + sub.written, !.out = @ \o sub.out, !.calls = sub.calls]
    IN  IF ~st.ok THEN st
        ELSE IF ~sized.ok \/ ~len.ok THEN Failed(len)
        ELSE IF st.sizing THEN Write(len, Zeros(size))
        ELSE IF IsFull(len, size) THEN Failed(len)
        ELSE IF SizeChanged(sub, size) \/ ~sub.ok THEN Failed(done)
        ELSE done
-----------------------------------------------------------------------------
Call(name, stream) == /\ call = "none" /\ call' = name /\ r' = stream
                      /\ UNCHANGED <<msg, max>>

pb_encode == Call("encode", Encode(r, Top, msg))
pb_encode_delimited == Call("delimited", EncodeSubmessage(r, Top, msg))
pb_encode_nullterminated == Call("nullterminated", Write(Encode(r, Top, msg), <<0>>))
pb_get_encoded_size == Call("size", Encode(PB_OSTREAM_SIZING(0), Top, msg))

Next == pb_encode \/ pb_encode_delimited \/ pb_encode_nullterminated \/ pb_get_encoded_size

Spec == Init /\ [][Next]_vars
-----------------------------------------------------------------------------
RECURSIVE Says(_, _)

(* What a structure says, callbacks aside: zeros without a has_ flag are       *)
(* not said, and an array says as much as is counted.                          *)
Says(type, m) ==
    [f \in Stated(type) |->
       LET x == m.f[f.tag]
           said == CASE f.h = "oneof" -> m.which = f.tag
                     [] f.h = "required" -> TRUE
                     [] f.h = "repeated" -> TRUE
                     [] f.has \/ f.a = "pointer" -> x.n > 0
                     [] f.l = "submessage" -> Says(f.sub, x.items[1]) # Empty(f.sub)
                     [] OTHER -> f.l = "fixedbytes" \/ x.items[1] # 0
           items == IF f.h = "repeated" /\ f.has THEN SubSeq(x.items, 1, x.n) ELSE x.items
       IN  IF ~said THEN <<>>
           ELSE [i \in DOMAIN items |-> IF f.l = "submessage" THEN Says(f.sub, items[i])
                                        ELSE IF f.l = "fixedbytes" THEN f.size
                                        ELSE TextLength(f, items[i])]]

Done(name) == call = name /\ r.ok

(* What has been written is counted right, and the buffer is not overrun,      *)
(* even when encoding fails half way or a callback writes more than before.    *)
WithinBuffer == call # "size" => Len(r.out) = r.written /\ r.written <= max

(* Bytes that were written with success say what the structure says; a length  *)
(* that does not fit what a callback wrote the second time would break this.   *)
RoundTrip == /\ Done("encode") => Parse(r.out, Top, Empty(Top), {}) = Says(Top, msg)
             /\ Done("nullterminated") => /\ Parse(r.out, Top, Empty(Top), {}) = Says(Top, msg)
                                          /\ r.out[Len(r.out)] = 0
             /\ Done("delimited") => /\ r.out[1] = Len(r.out) - 1
                                     /\ Parse(Tail(r.out), Top, Empty(Top), {}) = Says(Top, msg)

Steady == \A i \in DOMAIN msg.says : msg.says[i] = msg.says[1]

(* pb_get_encoded_size tells the room a message takes: it is written in a      *)
(* buffer of that size, and in no smaller one.                                 *)
SizeIsExact == Steady /\ Done("size") =>
    \A n \in Sizes : Encode(Stream(FALSE, n, 0), Top, msg).ok <=> r.written <= n
=============================================================================
