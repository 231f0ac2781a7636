----------------------------- MODULE VersionEdit -----------------------------
(* db/version_edit: the records of the MANIFEST.  An edit is filled in by the *)
(* setters, encoded, possibly cut off in the file, and decoded entry by entry *)
(* into a fresh edit; bytes that no edit was encoded to are decoded as well.  *)
EXTENDS Coding, FiniteSets

LOCAL INSTANCE SequencesExt

CONSTANTS NumLevels,    \* config::kNumLevels
          Numbers,      \* file numbers, sizes, sequence numbers
          Names,        \* byte strings: comparator names and internal keys
          Alphabet,     \* the bytes of foreign records
          MaxForeign,   \* bound: length of a foreign record
          MaxCalls      \* bound: setters called

VARIABLES phase,    \* build, decode or done
          edit,     \* the edit that was encoded
          input,    \* the bytes not decoded yet
          origin,   \* whole, cut or foreign
          got,      \* the edit decoded so far
          msg,      \* what is wrong with the input
          calls

vars == <<phase, edit, input, origin, got, msg, calls>>

kComparator     == 1
kLogNumber      == 2
kNextFileNumber == 3
kLastSequence   == 4
kCompactPointer == 5
kDeletedFile    == 6
kNewFile        == 7
kPrevLogNumber  == 9

(* What follows each tag; a comparator or number is set at most once.         *)
Arguments == [tag \in {1, 2, 3, 4, 5, 6, 7, 9} |->
                 CASE tag = kComparator     -> <<"slice">>
                   [] tag = kCompactPointer -> <<"level", "slice">>
                   [] tag = kDeletedFile    -> <<"level", "number">>
                   [] tag = kNewFile        -> <<"level", "number", "number", "slice", "slice">>
                   [] OTHER                 -> <<"number">>]

Scalars == {kComparator, kLogNumber, kPrevLogNumber, kNextFileNumber, kLastSequence}

ScalarOrder == <<kComparator, kLogNumber, kPrevLogNumber, kNextFileNumber, kLastSequence>>

(* VersionEdit::Clear does not touch the compaction pointers.                 *)
Clear(e) == [scalar |-> [tag \in Scalars |-> <<>>], pointers |-> e.pointers,
             deleted |-> {}, added |-> <<>>]

NewEdit == Clear([pointers |-> <<>>])

(* The setters, also what DecodeFrom does with an entry.                      *)
Record(e, tag, a) ==
    CASE tag \in Scalars        -> [e EXCEPT !.scalar[tag] = a]
      [] tag = kCompactPointer  -> [e EXCEPT !.pointers = Append(e.pointers, a)]
      [] tag = kDeletedFile     -> [e EXCEPT !.deleted = e.deleted \union {a}]
      [] tag = kNewFile         -> [e EXCEPT !.added = Append(e.added, a)]

-----------------------------------------------------------------------------
(* EncodeTo.                                                                  *)

Before(a, b) == a[1] < b[1] \/ (a[1] = b[1] /\ a[2] < b[2])

Tagged(tag, s) == [i \in 1..Len(s) |-> [tag |-> tag, args |-> s[i]]]

(* The entries of an edit in the order in which they are written.             *)
Entries(e) ==
    LET set == SelectSeq(ScalarOrder, LAMBDA tag : e.scalar[tag] # <<>>)
    IN  [i \in 1..Len(set) |-> [tag |-> set[i], args |-> e.scalar[set[i]]]]
        \o Tagged(kCompactPointer, e.pointers)
        \o Tagged(kDeletedFile, SetToSortSeq(e.deleted, Before))
        \o Tagged(kNewFile, e.added)

PutArgument(kind, x) == CASE kind = "slice"  -> PutLengthPrefixedSlice(x)
                          [] kind = "level"  -> EncodeVarint32(x)
                          [] kind = "number" -> EncodeVarint64(x)

PutEntry(entry) ==
    LET put[i \in 0..Len(entry.args)] ==
            IF i = 0 THEN EncodeVarint32(entry.tag)
            ELSE put[i - 1] \o PutArgument(Arguments[entry.tag][i], entry.args[i])
    IN  put[Len(entry.args)]

EncodeTo(e) == LET all == Entries(e)
                   put[i \in 0..Len(all)] == IF i = 0 THEN <<>> ELSE put[i - 1] \o PutEntry(all[i])
               IN  put[Len(all)]

-----------------------------------------------------------------------------
(* DecodeFrom.                                                                *)

(* GetLevel: what is not a level is refused.                                  *)
GetLevel(s) == LET v == GetVarint32(s)
               IN  IF v.ok THEN IF v.value < NumLevels THEN v ELSE Fail ELSE Fail

GetArgument(kind, s) == CASE kind = "slice"  -> GetLengthPrefixedSlice(s)
                          [] kind = "level"  -> GetLevel(s)
                          [] kind = "number" -> GetVarint64(s)

(* The arguments of a tag from the front of s.                                *)
GetArguments(tag, s) ==
    LET kinds == Arguments[tag]
        get[i \in 0..Len(kinds)] ==
            IF i = 0 THEN Got(<<>>, s)
            ELSE IF ~get[i - 1].ok THEN Fail
            ELSE LET g == GetArgument(kinds[i], get[i - 1].rest)
                 IN  IF g.ok THEN Got(Append(get[i - 1].value, g.value), g.rest) ELSE Fail
    IN  get[Len(kinds)]

Start(bytes, from) == /\ phase' = "decode"
                      /\ input' = bytes /\ origin' = from
                      /\ got' = Clear(NewEdit)
                      /\ msg' = "none"

(* One round of the loop: a tag and what follows it.                          *)
DecodeEntry ==
    /\ phase = "decode" /\ msg = "none"
    /\ LET t == GetVarint32(input)
       IN  /\ t.ok
           /\ IF t.value \notin DOMAIN Arguments
              THEN msg' = "unknown tag" /\ input' = t.rest /\ UNCHANGED got
              ELSE LET a == GetArguments(t.value, t.rest)
                   IN  IF a.ok THEN /\ input' = a.rest
                                    /\ got' = Record(got, t.value, a.value)
                                    /\ UNCHANGED msg
                       ELSE msg' = "bad entry" /\ UNCHANGED <<input, got>>
    /\ UNCHANGED <<phase, edit, origin, calls>>

(* The end of the loop: bytes that are left are no tag.                       *)
Finish ==
    /\ phase = "decode"
    /\ msg # "none" \/ ~GetVarint32(input).ok
    /\ phase' = "done"
    /\ msg' = IF msg = "none" /\ input # <<>> THEN "invalid tag" ELSE msg
    /\ UNCHANGED <<edit, input, origin, got, calls>>

-----------------------------------------------------------------------------
Init == /\ phase = "build" /\ edit = NewEdit /\ input = <<>> /\ origin = "whole"
        /\ got = NewEdit /\ msg = "none" /\ calls = 0

Call(tag, a) == /\ phase = "build" /\ calls < MaxCalls
                /\ calls' = calls + 1
                /\ edit' = Record(edit, tag, a)
                /\ UNCHANGED <<phase, input, origin, got, msg>>

SetComparatorName == \E s \in Names : Call(kComparator, <<s>>)

SetNumber == \E tag \in Scalars \ {kComparator}, n \in Numbers : Call(tag, <<n>>)

Levels == 0..NumLevels - 1

SetCompactPointer == \E l \in Levels, s \in Names : Call(kCompactPointer, <<l, s>>)

DeleteFile == \E l \in Levels, n \in Numbers : Call(kDeletedFile, <<l, n>>)

AddFile == \E l \in Levels, n \in Numbers, s \in Names, t \in Names :
               Call(kNewFile, <<l, n, n, s, t>>)

Setters == SetComparatorName \/ SetNumber \/ SetCompactPointer \/ DeleteFile \/ AddFile

(* LogAndApply writes the record; Recover reads it.                           *)
WriteAndRead == /\ phase = "build"
                /\ Start(EncodeTo(edit), "whole")
                /\ UNCHANGED <<edit, calls>>

(* External: the file ends within the record.                                 *)
WriteCut == /\ phase = "build"
            /\ \E bytes \in {EncodeTo(edit)} : \E k \in 0..Len(bytes) - 1 :
                   Start(SubSeq(bytes, 1, k), "cut")
            /\ UNCHANGED <<edit, calls>>

(* External: a record of some other origin.                                   *)
ReadForeign == /\ phase = "build" /\ calls = 0
               /\ \E n \in 0..MaxForeign : \E bytes \in [1..n -> Alphabet] : Start(bytes, "foreign")
               /\ UNCHANGED <<edit, calls>>

(* What was decoded is written and read once more.                            *)
WriteAgain == /\ phase = "done" /\ origin = "foreign" /\ msg = "none"
              /\ edit' = got
              /\ Start(EncodeTo(got), "whole")
              /\ UNCHANGED calls

Next == Setters \/ WriteAndRead \/ WriteCut \/ ReadForeign \/ WriteAgain \/ DecodeEntry \/ Finish

Spec == Init /\ [][Next]_vars

-----------------------------------------------------------------------------
(* EncodeTo and DecodeFrom: an edit that is written whole is read as it was,  *)
(* also one that was itself decoded from bytes EncodeTo would not write.      *)
RoundTrip == (phase = "done" /\ origin = "whole") => msg = "none" /\ got = edit

(* A record that is cut off is reported or read as its first entries: nothing *)
(* is read that was not written.                                              *)
CutIsPrefix == (phase = "done" /\ origin = "cut" /\ msg = "none")
                  => IsPrefix(Entries(got), Entries(edit))

(* VersionSet::Builder indexes its levels with what is decoded: whatever the  *)
(* bytes, no level is out of range.                                           *)
LevelsInRange == /\ \A i \in 1..Len(got.pointers) : got.pointers[i][1] < NumLevels
                 /\ \A i \in 1..Len(got.added) : got.added[i][1] < NumLevels
                 /\ \A d \in got.deleted : d[1] < NumLevels

(* DecodeFrom says ok only of bytes it has understood to the last one.        *)
AllUnderstood == (phase = "done" /\ msg = "none") => input = <<>>
=============================================================================
