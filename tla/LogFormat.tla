------------------------------ MODULE LogFormat ------------------------------
(* leveldb, db/log_writer.cc and db/log_reader.cc: the format of logs and      *)
(* MANIFESTs.  A file is a sequence of blocks; a record is split into          *)
(* fragments, each a header and a payload, so that none crosses a block.  The  *)
(* writer can die while it writes, a write can fail half way, and bytes can be *)
(* damaged; the reader must return whole records all the same.                 *)
(*                                                                             *)
(* A byte is the number of the fragment it belongs to, 0 for a zero byte.      *)
EXTENDS Naturals, Sequences, FiniteSets, SequencesExt, FiniteSetsExt

CONSTANTS BlockSize,       \* kBlockSize
          HeaderSize,      \* kHeaderSize
          Lengths,         \* lengths of records
          InitialOffsets,  \* where readers start
          MaxRecords,      \* bound: records added
          MaxCrashes,      \* bound: times the writer dies
          MaxErrors,       \* bound: writes that fail half way
          MaxDamage,       \* bound: fragments damaged
          ReuseLogs        \* whether a writer continues an existing file

VARIABLES file,    \* the bytes
          phys,    \* history: fragments emitted: [type, len, rec, off]
          writer,  \* log::Writer, and the record being added
          acked,   \* history: records for which AddRecord returned OK: [rec, end, clean],
                 \* clean if no write had failed before
          reader,  \* log::Reader
          bad,     \* fragments whose bytes are damaged
          faults   \* crashes, errors and damage so far, whether a tail was zeroed

vars == <<file, phys, writer, acked, reader, bad, faults>>

(* class Writer.                                                               *)
NewWriter(length) == [pc |-> "idle", offset |-> length % BlockSize, rec |-> 0, left |-> 0, begin |-> TRUE]

(* class Reader.  The buffer is file[pos + 1 .. end]; scratch holds the        *)
(* fragments of the record being put together.                                 *)
NewReader(initial) == [pc |-> "read", initial |-> initial, pos |-> 0, end |-> 0, eof |-> FALSE,
                       resyncing |-> initial > 0, infrag |-> FALSE, scratch |-> <<>>,
                       out |-> <<>>, reported |-> FALSE]

Off == [NewReader(0) EXCEPT !.pc = "off"]

Init == /\ file = <<>> /\ phys = <<>> /\ acked = <<>> /\ bad = {}
        /\ writer = NewWriter(0) /\ reader = Off
        /\ faults = [crashes |-> 0, errors |-> 0, damage |-> 0, zeroed |-> FALSE, records |-> 0]

Bytes(b, n) == [i \in 1..n |-> b]

-----------------------------------------------------------------------------
(* The writer.                                                                 *)

BeginRecord == /\ writer.pc = "idle" /\ faults.records < MaxRecords
               /\ \E n \in Lengths : writer' = [writer EXCEPT !.pc = "emit", !.left = n, !.begin = TRUE,
                                                              !.rec = faults.records + 1]
               /\ faults' = [faults EXCEPT !.records = @ + 1]
               /\ UNCHANGED <<file, phys, acked, reader, bad>>

FragmentType(begin, end) == IF begin /\ end THEN "full" ELSE IF begin THEN "first"
                            ELSE IF end THEN "last" ELSE "middle"

(* Bytes to fill when no header fits in the block any more.                    *)
Trailer(offset) == IF BlockSize - offset < HeaderSize THEN BlockSize - offset ELSE 0

(* Room for payload behind a header at an offset in the block.                 *)
Avail(at) == BlockSize - at - HeaderSize

(* One round of AddRecord with EmitPhysicalRecord.  block_offset_ moves on by   *)
(* the whole fragment even if its write failed half way.                       *)
EmitPhysicalRecord ==
    /\ writer.pc = "emit"
    /\ LET fill  == Trailer(writer.offset)
           at    == (writer.offset + fill) % BlockSize
           avail == Avail(at)
           len   == IF writer.left < avail THEN writer.left ELSE avail
           end   == len = writer.left
           frag  == [type |-> FragmentType(writer.begin, end), len |-> len, rec |-> writer.rec,
                     off |-> Len(file) + fill]
           bytes == Bytes(0, fill) \o Bytes(Len(phys) + 1, HeaderSize + len)
           \* what the write leaves behind: all of it, or when it fails a part
           outcomes == {Len(bytes)} \union IF faults.errors < MaxErrors THEN 0..(Len(bytes) - 1) ELSE {}
       IN  /\ phys' = Append(phys, frag)
           /\ \E k \in outcomes :
                LET ok == k = Len(bytes)
                IN  /\ file' = file \o SubSeq(bytes, 1, k)
                    /\ faults' = IF ok THEN faults ELSE [faults EXCEPT !.errors = @ + 1]
                    /\ writer' = [writer EXCEPT !.offset = at + HeaderSize + len,
                                                !.left = @ - len, !.begin = FALSE,
                                                !.pc = IF end \/ ~ok THEN "idle" ELSE @]
                    /\ acked' = IF ok /\ end
                                THEN Append(acked, [rec |-> writer.rec, end |-> Len(file'), clean |-> faults.errors = 0])
                                ELSE acked
    /\ UNCHANGED <<reader, bad>>

Safe == IF acked = <<>> THEN 0 ELSE Last(acked).end

(* The writer dies.  Acknowledged records have been synced; what follows them  *)
(* may be cut anywhere, and a part of it may read as zeros.                    *)
Crash == /\ writer.pc # "down" /\ faults.crashes < MaxCrashes
         /\ \E cut \in Safe..Len(file) : \E z \in {0, Len(file) - cut} :
              /\ file' = SubSeq(file, 1, cut) \o Bytes(0, z)
              /\ faults' = [faults EXCEPT !.crashes = @ + 1, !.zeroed = @ \/ z > 0]
         /\ writer' = [writer EXCEPT !.pc = "down"]
         /\ UNCHANGED <<phys, acked, reader, bad>>

Close == /\ writer.pc = "idle" /\ writer' = [writer EXCEPT !.pc = "down"]
         /\ UNCHANGED <<file, phys, acked, reader, bad, faults>>

(* A later process continues the file (reuse_logs).                            *)
Reopen == /\ ReuseLogs /\ writer.pc = "down" /\ reader.pc = "off" /\ faults.records < MaxRecords
          /\ writer' = NewWriter(Len(file))
          /\ UNCHANGED <<file, phys, acked, reader, bad, faults>>

Damage == /\ writer.pc = "down" /\ reader.pc = "off" /\ faults.damage < MaxDamage
          /\ \E i \in DOMAIN phys \ bad : bad' = bad \union {i}
          /\ faults' = [faults EXCEPT !.damage = @ + 1]
          /\ UNCHANGED <<file, phys, writer, acked, reader>>

-----------------------------------------------------------------------------
(* The reader.                                                                 *)

(* Reader() and SkipToInitialBlock.                                            *)
SkipToInitialBlock ==
    /\ writer.pc = "down" /\ reader.pc = "off"
    /\ \E initial \in InitialOffsets :
         LET in == initial % BlockSize
             block == (initial - in) + IF in > BlockSize - (HeaderSize - 1) THEN BlockSize ELSE 0
         IN  reader' = [NewReader(initial) EXCEPT !.pos = block, !.end = block]
    /\ UNCHANGED <<file, phys, writer, acked, bad, faults>>

(* The next block is read when no header is left in the buffer.                *)
Loaded(r) == IF r.end - r.pos >= HeaderSize \/ r.eof THEN r
             ELSE LET end == Max({r.end, Min({r.end + BlockSize, Len(file)})})
                  IN  [r EXCEPT !.pos = r.end, !.end = end, !.eof = end < r.end + BlockSize]

(* The fragment whose header begins at a place, 0 for zeros or a mixture.      *)
HeaderAt(pos) == LET i == file[pos + 1]
                 IN  IF i # 0 /\ phys[i].off = pos /\ i \notin bad
                        /\ \A j \in 1..HeaderSize : file[pos + j] = i
                     THEN i ELSE 0

ZeroHeader(pos) == \A j \in 1..HeaderSize : file[pos + j] = 0

(* Whether the checksum of the fragment matches.                               *)
ChecksumOK(i) == \A j \in 1..(HeaderSize + phys[i].len) : file[phys[i].off + j] = i

Parsed(r, type, i) == [r |-> r, type |-> type, frag |-> i]

(* ReportDrop.                                                                 *)
Report(r, bytes) == [r EXCEPT !.reported = @ \/ r.pos - bytes >= r.initial]

Cleared(r) == [r EXCEPT !.pos = r.end]

(* Less than a header is left at the end of the file.                          *)
EndOfFile(r) == Parsed(Cleared(r), "eof", 0)

(* A fragment longer than the rest of the buffer: torn when the file ends.     *)
TooLong(r) == IF r.eof THEN EndOfFile(r) ELSE Parsed(Report(Cleared(r), r.end - r.pos), "bad", 0)

(* ReadPhysicalRecord.  A header that cannot be trusted may announce too long  *)
(* a fragment or not.                                                          *)
ReadPhysicalRecord(r0) ==
    LET r == Loaded(r0)
        rest == r.end - r.pos
        i == HeaderAt(r.pos)
        mismatch == Parsed(Report(Cleared(r), rest), "bad", 0)
        past == [r EXCEPT !.pos = @ + HeaderSize + phys[i].len]
    IN  IF rest < HeaderSize THEN {EndOfFile(r)}
        ELSE IF ZeroHeader(r.pos) THEN {Parsed(Cleared(r), "bad", 0)}
        ELSE IF i = 0 THEN {TooLong(r), mismatch}
        ELSE IF HeaderSize + phys[i].len > rest THEN {TooLong(r)}
        ELSE IF ~ChecksumOK(i) THEN {mismatch}
        ELSE IF r.pos < r.initial THEN {Parsed(past, "bad", 0)}
        ELSE {Parsed(past, phys[i].type, i)}

LengthOf(frags) == FoldSet(LAMBDA i, n : phys[frags[i]].len + n, 0, DOMAIN frags)

(* A damaged fragment drops what was put together before.                      *)
DropScratch(r) == [(IF r.infrag THEN Report(r, LengthOf(r.scratch)) ELSE r)
                     EXCEPT !.infrag = FALSE, !.scratch = <<>>]

(* The switch of ReadRecord.  A record returned ends the call, and the next    *)
(* call starts with nothing put together.                                      *)
Collect(r, type, i) ==
    LET partial == IF r.infrag /\ LengthOf(r.scratch) > 0 THEN Report(r, LengthOf(r.scratch)) ELSE r
        orphan  == Report(r, phys[i].len)
    IN  CASE type = "full"  -> [partial EXCEPT !.out = Append(@, <<i>>), !.infrag = FALSE, !.scratch = <<>>]
          [] type = "first" -> [partial EXCEPT !.scratch = <<i>>, !.infrag = TRUE]
          [] type = "middle" -> IF r.infrag THEN [r EXCEPT !.scratch = Append(@, i)] ELSE orphan
          [] type = "last"  -> IF ~r.infrag THEN orphan
                               ELSE [r EXCEPT !.out = Append(@, Append(r.scratch, i)), !.infrag = FALSE,
                                              !.scratch = <<>>]
          [] type = "eof"   -> [r EXCEPT !.pc = "eof"]
          [] type = "bad"   -> DropScratch(r)

Resyncing(r) == r.resyncing

(* One round of ReadRecord's loop.                                             *)
ReadRecord ==
    /\ reader.pc = "read"
    /\ \E p \in ReadPhysicalRecord(reader) :
         IF Resyncing(p.r) /\ p.type \in {"middle", "last"}
         THEN reader' = [p.r EXCEPT !.resyncing = p.type = "middle"]
         ELSE reader' = Collect([p.r EXCEPT !.resyncing = FALSE], p.type, p.frag)
    /\ UNCHANGED <<file, phys, writer, acked, bad, faults>>

Next == \/ BeginRecord \/ EmitPhysicalRecord \/ Crash \/ Close \/ Reopen \/ Damage
        \/ SkipToInitialBlock \/ ReadRecord

Spec == Init /\ [][Next]_vars /\ WF_vars(ReadRecord)
-----------------------------------------------------------------------------
FragmentsOf(rec) == SelectSeq([i \in 1..Len(phys) |-> i], LAMBDA i : phys[i].rec = rec)

Returned == {phys[reader.out[k][1]].rec : k \in DOMAIN reader.out}

(* What ReadRecord returns is always one whole record as it was added, never   *)
(* fragments of two, whatever was torn, zeroed or damaged; and records come in *)
(* the order in which they were added.                                         *)
WholeRecords == /\ \A k \in DOMAIN reader.out :
                     reader.out[k] = FragmentsOf(phys[reader.out[k][1]].rec)
                /\ \A k, l \in DOMAIN reader.out : k < l => reader.out[k][1] < reader.out[l][1]

(* A record for which AddRecord returned OK, before any write has failed, is    *)
(* read again after any crash of the writer, and after any later failure.      *)
(* Nothing is said of one added later: DBImpl::Write goes on with the same log, *)
(* but block_offset_ no longer says where in its block the file ends.          *)
AckedRead == reader.pc = "eof" /\ reader.initial = 0 /\ bad = {} =>
             \A a \in ToSet(acked) : a.clean => a.rec \in Returned

BlockOf(i) == phys[i].off \div BlockSize

(* Damage costs only records with a fragment in the damaged block: the reader  *)
(* is in step again at the next block.                                         *)
DamageContained == reader.pc = "eof" /\ reader.initial = 0 =>
    \A a \in ToSet(acked) :
      a.rec \in Returned \/ \E i \in ToSet(FragmentsOf(a.rec)), b \in bad : BlockOf(i) = BlockOf(b)

(* A writer that died is no corruption: nothing is reported unless bytes were  *)
(* damaged or read as zeros.                                                   *)
NothingReported == reader.reported => bad # {} \/ faults.zeroed

(* A reader that starts at an offset returns exactly the records that begin    *)
(* there or later.                                                             *)
InitialOffset == reader.pc = "eof" /\ bad = {} =>
    {r \in {a.rec : a \in ToSet(acked)} : phys[FragmentsOf(r)[1]].off >= reader.initial}
      \subseteq Returned /\ \A r \in Returned : phys[FragmentsOf(r)[1]].off >= reader.initial

=============================================================================
