------------------------------ MODULE MemTable ------------------------------
(* leveldb, db/write_batch.cc, db/memtable.cc and db/dbformat: batches of      *)
(* updates, their numbers, and the memtable they are read back from at any     *)
(* snapshot.  The memtable is the ordered list of its entries (what the skip   *)
(* list keeps, module SkipList); a batch is its header and its records.        *)
EXTENDS Naturals, Sequences, FiniteSets

CONSTANTS Keys,        \* user keys, numbers in the order of the user comparator
          Values,      \* values a Put stores
          MaxSequence, \* bound: sequence numbers used
          MaxRecords   \* bound: records of a batch

kTypeDeletion == 0
kTypeValue == 1
kValueTypeForSeek == kTypeValue
NotFound == "NotFound"
Absent == "absent"      \* MemTable::Get returned false

PackSequenceAndType(s, t) == s * 256 + t

(* The tag of a LookupKey.                                                     *)
SeekTag(s) == PackSequenceAndType(s, kValueTypeForSeek)

(* InternalKeyComparator::Compare(a, b) < 0: user key up, tag down.            *)
Before(a, b) == a.key < b.key \/ (a.key = b.key /\ a.tag > b.tag)

VARIABLES batches,  \* two batches under construction: [count, records]
          mem,      \* entries of the memtable, in order
          last,     \* LastSequence
          status,   \* of the last InsertInto
          history   \* what the database holds after sequence number n

vars == <<batches, mem, last, status, history>>

EmptyBatch == [count |-> 0, records |-> <<>>]
EmptyDB == [k \in Keys |-> Absent]

Init == /\ batches = <<EmptyBatch, EmptyBatch>> /\ mem = <<>> /\ last = 0
        /\ status = "ok" /\ history = [n \in {0} |-> EmptyDB]

Records == [type : {kTypeValue}, key : Keys, value : Values] \union
           [type : {kTypeDeletion}, key : Keys, value : {NotFound}]

(* WriteBatch::Put and Delete.                                                 *)
Add(b, rec) ==
    /\ Len(batches[b].records) < MaxRecords
    /\ batches' = [batches EXCEPT ![b] = [count |-> @.count + 1, records |-> Append(@.records, rec)]]
    /\ UNCHANGED <<mem, last, status, history>>

(* WriteBatchInternal::Append.                                                 *)
AppendBatch(dst, src) == [count |-> dst.count + src.count, records |-> dst.records \o src.records]

(* BuildBatchGroup: the second batch rides with the first; the second writer   *)
(* gets a new one.                                                             *)
Group == /\ batches[2].records # <<>>
         /\ Len(batches[1].records) + Len(batches[2].records) <= MaxRecords
         /\ batches' = <<AppendBatch(batches[1], batches[2]), EmptyBatch>>
         /\ UNCHANGED <<mem, last, status, history>>

Clear(b) == /\ batches[b] # EmptyBatch /\ batches' = [batches EXCEPT ![b] = EmptyBatch]
            /\ UNCHANGED <<mem, last, status, history>>
-----------------------------------------------------------------------------
(* SkipList::Insert of an entry: in front of the first that is not before it.  *)
InsertEntry(m, e) ==
    LET n == Cardinality({i \in 1..Len(m) : Before(m[i], e)})
    IN  SubSeq(m, 1, n) \o <<e>> \o SubSeq(m, n + 1, Len(m))

(* MemTable::Add.                                                              *)
AddEntry(m, seq, rec) ==
    InsertEntry(m, [key |-> rec.key, tag |-> PackSequenceAndType(seq, rec.type), value |-> rec.value])

(* sequence_++ after every record.                                             *)
Offset(recs, i) == i - 1

(* WriteBatch::Iterate with a MemTableInserter, as far as the records can be   *)
(* parsed: record i gets the sequence number of the batch plus i - 1.          *)
Iterate(m, seq, recs) ==
    LET f[i \in 0..Len(recs)] == IF i = 0 THEN m ELSE AddEntry(f[i - 1], seq + Offset(recs, i), recs[i])
    IN  f[Len(recs)]

(* A record applied to the map from keys to values.                            *)
Apply(db, rec) == [db EXCEPT ![rec.key] = rec.value]

(* SetSequence, InsertInto, SetLastSequence (DBImpl::Write).                   *)
Write == LET b == batches[1]
             n == Len(b.records)
         IN  /\ n > 0 /\ last + n <= MaxSequence
             /\ mem' = Iterate(mem, last + 1, b.records) /\ last' = last + b.count
             /\ status' = IF b.count = n THEN "ok" ELSE "corruption"
             /\ history' = LET f[i \in 0..last + n] ==
                                   IF i <= last THEN history[i] ELSE Apply(f[i - 1], b.records[i - last])
                           IN  f
             /\ batches' = [batches EXCEPT ![1] = EmptyBatch]

(* Iterate returned OK: every record could be parsed, and the count is right.  *)
Sound(found, count, whole) == whole /\ found = count

(* Recovery of a batch from a log that is damaged: only a part of its records  *)
(* can be parsed (a bad tag or length), or the log is cut where a record ends. *)
RecoverDamaged ==
    LET b == batches[1]
        n == Len(b.records)
    IN  /\ n > 0 /\ last + n <= MaxSequence
        /\ \E good \in 0..n - 1, whole \in BOOLEAN :
              LET kept == SubSeq(b.records, 1, good)
              IN  /\ mem' = Iterate(mem, last + 1, kept)
                  /\ status' = IF Sound(good, b.count, whole) THEN "damageMissed" ELSE "corruption"
                  /\ history' = LET f[i \in 0..last + n] ==
                                        IF i <= last THEN history[i]
                                        ELSE IF i - last <= good THEN Apply(f[i - 1], b.records[i - last])
                                        ELSE f[i - 1]
                                IN  f
        /\ last' = last + b.count
        /\ batches' = [batches EXCEPT ![1] = EmptyBatch]

(* MemTable::Get: Seek to the LookupKey, then look at the user key and type.   *)
Get(key, snapshot) ==
    LET target == [key |-> key, tag |-> SeekTag(snapshot)]
        n == Cardinality({i \in 1..Len(mem) : Before(mem[i], target)}) + 1
    IN  IF n > Len(mem) \/ mem[n].key # key THEN Absent
        ELSE IF mem[n].tag % 256 = kTypeValue THEN mem[n].value ELSE NotFound

Next == \/ \E b \in 1..2 : (\E rec \in Records : Add(b, rec)) \/ Clear(b)
        \/ Group \/ Write \/ RecoverDamaged

Spec == Init /\ [][Next]_vars
-----------------------------------------------------------------------------
(* Get at any snapshot returns what the database held after that sequence      *)
(* number: the newest update not above it, also in the middle of a batch and   *)
(* after batches were grouped or lost their end.                               *)
SnapshotRead == \A n \in 0..last, k \in Keys : Get(k, n) = history[n][k]

(* No two entries are the same internal key ("Our data structure does not      *)
(* allow duplicate insertion"), and the list is in order.                      *)
NoDuplicates == \A i, j \in 1..Len(mem) : i < j => Before(mem[i], mem[j])

(* Every update has a number not above LastSequence: the next batch starts     *)
(* after it.                                                                   *)
NumbersUsed == \A i \in 1..Len(mem) : mem[i].tag \div 256 <= last

(* A batch that lost records in the log is reported as corrupt.                *)
DamageReported == status # "damageMissed"
=============================================================================
