----------------------------- MODULE Compaction -----------------------------
(* leveldb: how entries move from the memtable through the levels.  The        *)
(* background thread of db/db_impl.cc turns memtables into tables and merges   *)
(* tables into the next level, with the mutex released while it works; clients *)
(* write, read, hold snapshots and ask for manual compactions meanwhile.       *)
EXTENDS Integers, Sequences, FiniteSets, SequencesExt, FiniteSetsExt, Functions

(* leveldb, db/version_set.cc: a version is a list of table files per level.   *)
(* An internal key is a user key with a sequence number; it is ordered by user *)
(* key and, for one user key, from the newest entry to the oldest.  An entry   *)
(* stands for its own internal key.  Sizes are counted in entries.             *)
CONSTANTS NumLevels,          \* config::kNumLevels
          MaxMemLevel,        \* config::kMaxMemCompactLevel
          L0Trigger,          \* config::kL0_CompactionTrigger
          TargetFileSize,     \* options_->max_file_size
          GrandParentLimit,   \* MaxGrandParentOverlapBytes
          ExpandLimit,        \* ExpandedCompactionByteSizeLimit
          LevelBytes,         \* MaxBytesForLevel(1)
          LevelGrowth         \* the factor from one level to the next

Levels == 0..(NumLevels - 1)

(* InternalKeyComparator::Compare(a, b) < 0                                    *)
Before(a, b) == a.key < b.key \/ (a.key = b.key /\ a.seq > b.seq)

Least(entries)    == CHOOSE e \in entries : \A f \in entries : e = f \/ Before(e, f)
Greatest(entries) == CHOOSE e \in entries : \A f \in entries : e = f \/ Before(f, e)

(* A finite set in the order Lt.                                               *)
Sorted(S, Lt(_, _)) == [i \in 1..Cardinality(S) |->
                          CHOOSE x \in S : Cardinality({y \in S : Lt(y, x)}) = i - 1]

(* struct FileMetaData, with the entries of the table it describes.            *)
FileMetaData(n, entries) == [number |-> n, entries |-> entries,
                             smallest |-> Least(entries), largest |-> Greatest(entries)]

(* No two files of a version share an entry.                                   *)
TotalFileSize(files) == Cardinality(UNION {f.entries : f \in ToSet(files)})

MaxBytesForLevel(level) == LevelBytes * LevelGrowth^(IF level > 1 THEN level - 1 ELSE 0)

(* Binary search for the first file whose largest key is not before k; the     *)
(* result is an index from 1, Len(files) + 1 if there is none.                 *)
FindFile(files, k) ==
    LET search[left \in 0..Len(files), right \in 0..Len(files)] ==
          LET mid == (left + right) \div 2
          IN  IF left >= right THEN right + 1
              ELSE IF Before(files[mid + 1].largest, k) THEN search[mid + 1, right]
              ELSE search[left, mid]
    IN  search[0, Len(files)]

AfterFile(key, f)  == key > f.largest.key
BeforeFile(key, f) == key < f.smallest.key

(* The first internal key a user key can have: kMaxSequenceNumber.             *)
SeekKey(key) == [key |-> key, seq |-> 1000000]

SomeFileOverlapsRange(sorted, files, lo, hi) ==
    IF ~sorted THEN \E f \in ToSet(files) : ~AfterFile(lo, f) /\ ~BeforeFile(hi, f)
    ELSE LET i == FindFile(files, SeekKey(lo))
         IN  i <= Len(files) /\ ~BeforeFile(hi, files[i])

OverlapInLevel(v, level, lo, hi) == SomeFileOverlapsRange(level > 0, v[level], lo, hi)

(* Files of a level that overlap the user keys lo..hi.  In level 0, where they *)
(* may overlap each other, a file found widens the range.                      *)
GetOverlappingInputs(v, level, lo, hi) ==
    LET hit(l, h, f) == f.largest.key >= l /\ f.smallest.key <= h
        widen[n \in 0..Len(v[level])] ==
          IF n = 0 \/ level > 0 THEN <<lo, hi>>
          ELSE LET r == widen[n - 1]
                   found == {f \in ToSet(v[level]) : hit(r[1], r[2], f)}
               IN  <<Min({r[1]} \union {f.smallest.key : f \in found}),
                     Max({r[2]} \union {f.largest.key : f \in found})>>
        range == widen[Len(v[level])]
    IN  SelectSeq(v[level], LAMBDA f : hit(range[1], range[2], f))

(* The level for a new table made of a memtable: as deep as no level down to   *)
(* it overlaps, and as the level after does not overlap too much.              *)
PickLevelForMemTableOutput(v, lo, hi) ==
    LET next(l) == /\ ~OverlapInLevel(v, l + 1, lo, hi)
                   /\ l + 2 < NumLevels =>
                        TotalFileSize(GetOverlappingInputs(v, l + 2, lo, hi)) <= GrandParentLimit
    IN  IF OverlapInLevel(v, 0, lo, hi) THEN 0
        ELSE CHOOSE l \in 0..MaxMemLevel : /\ \A m \in 0..(l - 1) : next(m)
                                           /\ l = MaxMemLevel \/ ~next(l)

-----------------------------------------------------------------------------
(* Reading.                                                                    *)

(* The files Get and ForEachOverlapping look at for a user key at a sequence   *)
(* number, in order, each with its level: all that may hold it in level 0, the *)
(* newest first, then at most one per level.                                   *)
FilesFor(v, key, seq) ==
    LET level0 == SortSeq(SelectSeq(v[0], LAMBDA f : f.smallest.key <= key /\ key <= f.largest.key),
                          LAMBDA f, g : f.number > g.number)
        at(l)  == LET i == FindFile(v[l], [key |-> key, seq |-> seq])
                  IN  IF i <= Len(v[l]) /\ v[l][i].smallest.key <= key
                      THEN <<[level |-> l, file |-> v[l][i]]>> ELSE <<>>
        below[l \in 1..NumLevels] == IF l = NumLevels THEN <<>> ELSE at(l) \o below[l + 1]
    IN  [i \in DOMAIN level0 |-> [level |-> 0, file |-> level0[i]]] \o below[1]

(* SaveValue: the entry of a set that a lookup at seq sees.                     *)
Newest(entries, key, seq) ==
    LET hits == {e \in entries : e.key = key /\ e.seq <= seq}
    IN  IF hits = {} THEN {} ELSE {Least(hits)}

(* Version::Get: the first file that holds the key decides; a Get that has to  *)
(* look at more than one charges the first.                                    *)
FirstHit(fs, key, seq) ==
    Min({Len(fs) + 1} \union {i \in DOMAIN fs : Newest(fs[i].file.entries, key, seq) # {}})

VersionGet(v, key, seq) ==
    UNION {UNION {Newest(fs[i].file.entries, key, seq) : i \in {FirstHit(fs, key, seq)} \intersect DOMAIN fs} :
             fs \in {FilesFor(v, key, seq)}}

SeekFile(v, key, seq) ==
    LET fs == FilesFor(v, key, seq) IN IF Min({Len(fs), FirstHit(fs, key, seq)}) > 1 THEN {fs[1]} ELSE {}

(* The file charged by RecordReadSample.                                       *)
SampleFile(v, key, seq) ==
    LET fs == FilesFor(v, key, seq) IN IF Len(fs) >= 2 THEN {fs[1]} ELSE {}

(* How much of a table lies before an internal key; blocks have one entry.     *)
OffsetInFile(f, k) == IF ~Before(k, f.largest) THEN Cardinality(f.entries)
                      ELSE IF Before(k, f.smallest) THEN 0
                      ELSE Cardinality({e \in f.entries : Before(e, k)})

(* ApproximateOffsetOf: below level 0 the first file after the key is the last *)
(* one it looks at.                                                            *)
ApproximateOffsetOf(v, k) ==
    LET read(l) == {i \in DOMAIN v[l] : l > 0 => \A j \in 1..(i - 1) : ~Before(k, v[l][j].smallest)}
    IN  MapThenSumSet(LAMBDA l : MapThenSumSet(LAMBDA i : OffsetInFile(v[l][i], k), read(l)), Levels)

(* GetApproximateSizes, for one range of user keys.                            *)
GetApproximateSizes(v, start, limit) ==
    Max({ApproximateOffsetOf(v, SeekKey(limit)) - ApproximateOffsetOf(v, SeekKey(start)), 0})

-----------------------------------------------------------------------------
(* VersionSet::Builder: remove files by number, add files by <<level, file>>,  *)
(* keep each level ordered by smallest key and then by number.                 *)
BySmallestKey(f, g) == \/ Before(f.smallest, g.smallest)
                       \/ f.smallest = g.smallest /\ f.number < g.number

SaveTo(v, deleted, added) ==
    [l \in Levels |->
       Sorted({f \in ToSet(v[l]) : <<l, f.number>> \notin deleted}
                \union {a[2] : a \in {x \in added : x[1] = l}}, BySmallestKey)]

(* Finalize: the level with the highest ratio of its size to its limit, and    *)
(* whether that ratio is at least 1.                                           *)
Finalize(v) ==
    LET num(l)  == IF l = 0 THEN Len(v[0]) ELSE TotalFileSize(v[l])
        den(l)  == IF l = 0 THEN L0Trigger ELSE MaxBytesForLevel(l)
        best    == CHOOSE l \in 0..(NumLevels - 2) : \A m \in 0..(NumLevels - 2) :
                     IF m < l THEN num(l) * den(m) > num(m) * den(l)
                     ELSE num(l) * den(m) >= num(m) * den(l)
    IN  [level |-> best, full |-> num(best) >= den(best)]

-----------------------------------------------------------------------------
(* Choosing the inputs of a compaction.                                        *)
GetRange(files) == [smallest |-> Least({f.smallest : f \in ToSet(files)}),
                    largest  |-> Greatest({f.largest : f \in ToSet(files)})]

(* A file of the level that starts with the user key the inputs end with must  *)
(* come along: it holds older entries of that key.                             *)
AddBoundaryInputs(levelFiles, files) ==
    LET next(k) == {f \in ToSet(levelFiles) : Before(k, f.smallest) /\ f.smallest.key = k.key}
        grow[n \in 0..Len(levelFiles)] ==
          IF n = 0 THEN files
          ELSE LET fs == grow[n - 1]
                   more == IF fs = <<>> THEN {} ELSE next(GetRange(fs).largest)
               IN  IF more = {} THEN fs
                   ELSE Append(fs, CHOOSE f \in more :
                                     \A g \in more : f = g \/ Before(f.smallest, g.smallest))
    IN  grow[Len(levelFiles)]

(* SetupOtherInputs: the files of the next level, then more files of this one  *)
(* if that adds none in the next.                                              *)
SetupOtherInputs(v, level, files) ==
    LET over(l, r) == GetOverlappingInputs(v, l, r.smallest.key, r.largest.key)
        in0   == AddBoundaryInputs(v[level], files)
        in1   == over(level + 1, GetRange(in0))
        wide  == AddBoundaryInputs(v[level], over(level, GetRange(in0 \o in1)))
        wide1 == over(level + 1, GetRange(wide))
        grows == /\ in1 # <<>>
                 /\ Len(wide) > Len(in0)
                 /\ TotalFileSize(in1) + TotalFileSize(wide) < ExpandLimit
                 /\ Len(wide1) = Len(in1)
        i0 == IF grows THEN wide ELSE in0
        i1 == IF grows THEN wide1 ELSE in1
    IN  [level |-> level, in0 |-> i0, in1 |-> i1, largest |-> GetRange(i0).largest,
         grandparents |-> IF level + 2 < NumLevels THEN over(level + 2, GetRange(i0 \o i1)) ELSE <<>>]

IsTrivialMove(c) == /\ Len(c.in0) = 1 /\ c.in1 = <<>>
                    /\ TotalFileSize(c.grandparents) <= GrandParentLimit

(* No file below the output level may hold the user key.                       *)
IsBaseLevelForKey(v, level, key) ==
    \A l \in (level + 2)..(NumLevels - 1) : \A f \in ToSet(v[l]) : AfterFile(key, f) \/ BeforeFile(key, f)
-----------------------------------------------------------------------------

CONSTANTS NumKeys,
          MaxSeq,        \* bound: writes
          MemTableSize,  \* options_.write_buffer_size, in entries
          WriteKinds,    \* whether a write is a deletion: a subset of BOOLEAN
          SeekCompactions, \* whether a file can use up its allowed_seeks
          MaxSnapshots,  \* bound: snapshots held at one time
          MaxManual,     \* bound: calls of CompactRange
          OneClient      \* TRUE: nobody writes while a CompactRange is in progress

Keys == 1..NumKeys

VARIABLES writes,          \* history: every write, in sequence order
          mem, imm,        \* memtables
          files,           \* versions_->current()
          snapshots,       \* snapshots_
          nextFile,        \* next_file_number_
          compactPointer,  \* compact_pointer_, a set of at most one key per level
          seekFile,        \* current()->file_to_compact_, a set of at most one
          job,             \* the compaction in progress, a set of at most one
          manual,          \* the CompactRange in progress, a set of at most one
          manuals,         \* calls of CompactRange
          bgError          \* !bg_error_.ok()

vars == <<writes, mem, imm, files, snapshots, nextFile, compactPointer, seekFile, job, manual,
          manuals, bgError>>

lastSeq == Len(writes)

TheCall == CHOOSE m \in manual : TRUE

Init == /\ writes = <<>>
        /\ mem = {} /\ imm = {}
        /\ files = [l \in Levels |-> <<>>]
        /\ snapshots = <<>>
        /\ nextFile = 1
        /\ compactPointer = [l \in Levels |-> {}]
        /\ seekFile = {} /\ job = {} /\ manual = {} /\ manuals = 0
        /\ bgError = FALSE

-----------------------------------------------------------------------------
(* The clients.                                                                *)

Write(k, del) == /\ lastSeq < MaxSeq
                 /\ Cardinality(mem) < MemTableSize
                 /\ ~bgError
                 /\ OneClient => manual = {}
                 /\ writes' = Append(writes, [key |-> k, seq |-> lastSeq + 1, del |-> del])
                 /\ mem' = mem \union {Last(writes')}
                 /\ UNCHANGED <<imm, files, snapshots, nextFile, compactPointer, seekFile, job,
                                manual, manuals, bgError>>

(* MakeRoomForWrite finds the memtable full.                                   *)
SwitchMemTable == /\ mem # {} /\ imm = {}
                  /\ ~bgError
                  /\ imm' = mem /\ mem' = {}
                  /\ UNCHANGED <<writes, files, snapshots, nextFile, compactPointer, seekFile, job,
                                 manual, manuals, bgError>>

(* Slip: the snapshot is taken one sequence number too late.                   *)
GetLaterSnapshot == /\ Len(snapshots) < MaxSnapshots
                    /\ snapshots' = Append(snapshots, lastSeq + 1)
                    /\ UNCHANGED <<writes, mem, imm, files, nextFile, compactPointer, seekFile, job,
                                   manual, manuals, bgError>>

(* SnapshotList::New and Delete.                                               *)
GetSnapshot == /\ Len(snapshots) < MaxSnapshots
               /\ snapshots' = Append(snapshots, lastSeq)
               /\ UNCHANGED <<writes, mem, imm, files, nextFile, compactPointer, seekFile, job,
                              manual, manuals, bgError>>

ReleaseSnapshot(i) == /\ snapshots' = RemoveAt(snapshots, i)
                      /\ UNCHANGED <<writes, mem, imm, files, nextFile, compactPointer, seekFile,
                                     job, manual, manuals, bgError>>

Readable == ToSet(snapshots) \union {lastSeq}

(* The value of the entry found, if any: its sequence number, 0 for a deleted  *)
(* or unknown key.                                                             *)
Value(hit) == IF \E e \in hit : ~e.del THEN (CHOOSE e \in hit : TRUE).seq ELSE 0

(* DBImpl::Get: the memtables, then the version.                               *)
Lookup(k, s) == IF Newest(mem, k, s) # {} THEN Value(Newest(mem, k, s))
                ELSE IF Newest(imm, k, s) # {} THEN Value(Newest(imm, k, s))
                ELSE Value(VersionGet(files, k, s))

(* UpdateStats: a file that many reads had to look at in vain is compacted     *)
(* when its allowed_seeks are used up, which is left open here.                *)
UpdateStats(charged) == /\ SeekCompactions
                        /\ charged # {} /\ seekFile = {}
                        /\ seekFile' = charged

Get(k, s) == /\ Newest(mem, k, s) = {} /\ Newest(imm, k, s) = {}
             /\ UpdateStats(SeekFile(files, k, s))
             /\ UNCHANGED <<writes, mem, imm, files, snapshots, nextFile, compactPointer, job, manual,
                            manuals, bgError>>

(* An iterator samples the internal keys it reads.                             *)
RecordReadSample(e) == /\ UpdateStats(SampleFile(files, e.key, e.seq))
                       /\ UNCHANGED <<writes, mem, imm, files, snapshots, nextFile, compactPointer,
                                      job, manual, manuals, bgError>>

(* DBImpl::CompactRange: find the last level that overlaps the range, switch   *)
(* the memtable, and once it is a table compact the levels above, one at a     *)
(* time, each until nothing of the range is left.                              *)
CompactRange(lo, hi) ==
    /\ manuals < MaxManual /\ manual = {}
    /\ imm = {} /\ ~bgError
    /\ manuals' = manuals + 1
    /\ LET over == {l \in 1..(NumLevels - 1) : OverlapInLevel(files, l, lo, hi)}
       IN  manual' = {[level |-> 0, top |-> Max({1} \union over), lo |-> lo, begin |-> lo, hi |-> hi,
                       waits |-> TRUE]}
    /\ imm' = mem /\ mem' = {}
    /\ UNCHANGED <<writes, files, snapshots, nextFile, compactPointer, seekFile, job, bgError>>

(* TEST_CompactMemTable has returned: ask for the first level.                 *)
FlushDone == /\ \E m \in manual : m.waits /\ imm = {}
             /\ manual' = {[TheCall EXCEPT !.waits = FALSE]}
             /\ UNCHANGED <<writes, mem, imm, files, snapshots, nextFile, compactPointer, seekFile,
                            job, manuals, bgError>>

Manual == \E m \in manual : ~m.waits

(* What is left of the call when the present level is done.                    *)
NextLevel(m) == IF m.level + 1 < m.top THEN {[m EXCEPT !.level = @ + 1, !.begin = m.lo]} ELSE {}

(* After a background error the call returns at once.                          *)
CompactRangeGivesUp == /\ manual # {} /\ bgError
                       /\ manual' = {}
                       /\ UNCHANGED <<writes, mem, imm, files, snapshots, nextFile, compactPointer,
                                      seekFile, job, manuals, bgError>>

-----------------------------------------------------------------------------
(* The background thread.                                                      *)

(* LogAndApply installs a version; the file charged by reads belonged to the   *)
(* old one.                                                                    *)
LogAndApply(deleted, added) == /\ files' = SaveTo(files, deleted, added)
                               /\ seekFile' = {}

(* CompactMemTable, also in the middle of a compaction.                        *)
CompactMemTable ==
    /\ imm # {} /\ ~bgError
    /\ LET table == FileMetaData(nextFile, imm)
           level == PickLevelForMemTableOutput(files, table.smallest.key, table.largest.key)
       IN  LogAndApply({}, {<<level, table>>})
    /\ nextFile' = nextFile + 1
    /\ imm' = {}
    /\ UNCHANGED <<writes, mem, snapshots, compactPointer, job, manual, manuals, bgError>>

(* Slip: snapshots are overlooked.                                             *)
LatestSequence == lastSeq

(* No reader needs what an entry up to this sequence number hides.             *)
SmallestSnapshot == IF snapshots = <<>> THEN lastSeq ELSE Head(snapshots)

(* Begin the compaction c, or move its only file down at once.                 *)
Begin(c, isManual) ==
    /\ compactPointer' = [compactPointer EXCEPT ![c.level] = {c.largest}]
    /\ IF ~isManual /\ IsTrivialMove(c)
       THEN /\ LogAndApply({<<c.level, c.in0[1].number>>}, {<<c.level + 1, c.in0[1]>>})
            /\ UNCHANGED job
       ELSE /\ job' = {[c |-> c, base |-> files, snapshot |-> SmallestSnapshot, manual |-> isManual]}
            /\ UNCHANGED <<files, seekFile>>

CanWork == job = {} /\ imm = {} /\ ~bgError

(* The first file after compact_pointer_, or the first of all.                 *)
FirstAfterPointer(l) ==
    LET after == {i \in DOMAIN files[l] : \A p \in compactPointer[l] : Before(p, files[l][i].largest)}
    IN  files[l][IF after = {} THEN 1 ELSE Min(after)]

(* PickCompaction, for a level that is too large or a file read too often.     *)
PickCompaction ==
    /\ CanWork /\ ~Manual
    /\ Finalize(files).full \/ seekFile # {}
    /\ LET seek  == CHOOSE s \in seekFile : TRUE
           level == IF Finalize(files).full THEN Finalize(files).level ELSE seek.level
           file  == IF Finalize(files).full THEN FirstAfterPointer(level) ELSE seek.file
           picked == IF level = 0 THEN GetOverlappingInputs(files, 0, file.smallest.key, file.largest.key)
                     ELSE <<file>>
       IN  level + 1 < NumLevels /\ \E c \in {SetupOtherInputs(files, level, picked)} : Begin(c, FALSE)
    /\ UNCHANGED <<writes, mem, imm, snapshots, nextFile, manual, manuals, bgError>>

(* The inputs of a manual compaction: from level 1 on no more than needed to   *)
(* reach the size of one file.                                                 *)
RangeInputs(m) ==
    LET inputs == GetOverlappingInputs(files, m.level, m.begin, m.hi)
        enough == {i \in DOMAIN inputs : TotalFileSize(SubSeq(inputs, 1, i)) >= TargetFileSize}
    IN  IF m.level = 0 \/ enough = {} THEN inputs ELSE SubSeq(inputs, 1, Min(enough))

ManualCompaction ==
    /\ CanWork /\ Manual
    /\ LET inputs == RangeInputs(TheCall)
       IN  IF inputs = <<>>
           THEN /\ manual' = NextLevel(TheCall)
                /\ UNCHANGED <<files, seekFile, compactPointer, job>>
           ELSE /\ \E c \in {SetupOtherInputs(files, TheCall.level, inputs)} : Begin(c, TRUE)
                /\ UNCHANGED manual
    /\ UNCHANGED <<writes, mem, imm, snapshots, nextFile, manuals, bgError>>

(* The two rules of DoCompactionWork for an entry no reader can see.           *)
Drops(j, e, lastSeqForKey) ==
    \/ lastSeqForKey <= j.snapshot
    \/ e.del /\ e.seq <= j.snapshot /\ IsBaseLevelForKey(j.base, j.c.level, e.key)

(* DoCompactionWork: the loop over the merged inputs.  An output is closed     *)
(* when it is large enough or overlaps too much of the level after next.       *)
Outputs(j) ==
    LET entries == Sorted(UNION {f.entries : f \in ToSet(j.c.in0 \o j.c.in1)}, Before)
        gps == j.c.grandparents
        ShouldStopBefore(w, e) ==
          LET passed == {i \in (w.gp + 1)..Len(gps) : \A h \in (w.gp + 1)..i : Before(gps[h].largest, e)}
              bytes  == w.overlapped + IF w.seen THEN TotalFileSize([i \in 1..Cardinality(passed) |-> gps[w.gp + i]])
                                                 ELSE 0
          IN  [gp |-> w.gp + Cardinality(passed), stop |-> bytes > GrandParentLimit,
               bytes |-> IF bytes > GrandParentLimit THEN 0 ELSE bytes]
        step(w, e) ==
          LET st    == ShouldStopBefore(w, e)
              close == st.stop /\ w.open # {}
              first == w.entry = {} \/ \E x \in w.entry : x.key # e.key
              last  == IF first THEN SeekKey(0).seq ELSE (CHOOSE x \in w.entry : TRUE).seq
              open  == (IF close THEN {} ELSE w.open) \union (IF Drops(j, e, last) THEN {} ELSE {e})
              full  == ~Drops(j, e, last) /\ Cardinality(open) >= TargetFileSize
          IN  [gp |-> st.gp, overlapped |-> st.bytes, seen |-> TRUE, entry |-> {e},
               done |-> w.done \o (IF close THEN <<w.open>> ELSE <<>>) \o (IF full THEN <<open>> ELSE <<>>),
               open |-> IF full THEN {} ELSE open]
        loop[i \in 0..Len(entries)] ==
          IF i = 0 THEN [gp |-> 0, overlapped |-> 0, seen |-> FALSE, entry |-> {}, done |-> <<>>, open |-> {}]
          ELSE step(loop[i - 1], entries[i])
        end == loop[Len(entries)]
    IN  end.done \o (IF end.open # {} THEN <<end.open>> ELSE <<>>)

(* InstallCompactionResults, and what BackgroundCompaction does after a manual *)
(* compaction: go on with the rest of the range.                               *)
FinishCompaction ==
    /\ job # {} /\ ~bgError
    /\ \E j \in job : \E outs \in {Outputs(j)} :
       LET inputs == {<<j.c.level, f.number>> : f \in ToSet(j.c.in0)}
                       \union {<<j.c.level + 1, f.number>> : f \in ToSet(j.c.in1)}
       IN  /\ LogAndApply(inputs, {<<j.c.level + 1, FileMetaData(nextFile + i - 1, outs[i])>> : i \in DOMAIN outs})
           /\ nextFile' = nextFile + Len(outs)
           /\ manual' = IF j.manual THEN {[TheCall EXCEPT !.begin = Last(j.c.in0).largest.key]} ELSE manual
    /\ job' = {}
    /\ UNCHANGED <<writes, mem, imm, snapshots, compactPointer, manuals, bgError>>

(* A file operation fails: the outputs are forgotten, bg_error_ is set.        *)
CompactionFails == /\ job # {} \/ imm # {}
                   /\ ~bgError
                   /\ bgError' = TRUE
                   /\ job' = {}
                   /\ UNCHANGED <<writes, mem, imm, files, snapshots, nextFile, compactPointer, seekFile,
                                  manual, manuals>>

-----------------------------------------------------------------------------
Background == CompactMemTable \/ PickCompaction \/ ManualCompaction \/ FinishCompaction

Next == \/ \E k \in Keys, del \in WriteKinds : Write(k, del)
        \/ SwitchMemTable \/ GetSnapshot
        \/ \E i \in DOMAIN snapshots : ReleaseSnapshot(i)
        \/ \E k \in Keys, s \in Readable : Get(k, s)
        \/ \E e \in ToSet(writes) : RecordReadSample(e)
        \/ \E lo, hi \in Keys : lo <= hi /\ CompactRange(lo, hi)
        \/ FlushDone \/ CompactRangeGivesUp
        \/ Background \/ CompactionFails

Spec == Init /\ [][Next]_vars

-----------------------------------------------------------------------------
FilesAt == UNION {{<<l, f>> : f \in ToSet(files[l])} : l \in Levels}

(* From level 1 on the files of a level are in order and do not overlap, so    *)
(* the binary search finds the one file that can hold a key.                   *)
LevelsDisjoint == \A l \in 1..(NumLevels - 1) : \A i \in 2..Len(files[l]) :
                     Before(files[l][i - 1].largest, files[l][i].smallest)

(* What the value of a key at a sequence number has to be.                     *)
Expected(k, s) == Value(Newest(ToSet(writes), k, s))

(* A read at the latest or at a held snapshot's sequence number returns what   *)
(* was written last before it, wherever flushes and compactions have moved it. *)
ReadsCorrect == \A k \in Keys, s \in Readable : Lookup(k, s) = Expected(k, s)

(* An iterator, which merges all entries, shows the same as Get.               *)
IteratorsCorrect ==
    LET all == mem \union imm \union UNION {x[2].entries : x \in FilesAt}
    IN  \A k \in Keys, s \in Readable : Value(Newest(all, k, s)) = Expected(k, s)

(* The size of a range is that of the entries in it, in whatever tables of     *)
(* whatever level they are: what a search leaves out is never in the range.    *)
SizesCorrect == \A lo, hi \in Keys \union {NumKeys + 1} :
    GetApproximateSizes(files, lo, hi) =
        Cardinality({e \in UNION {x[2].entries : x \in FilesAt} : lo <= e.key /\ e.key < hi})

(* Entries never hop over each other: for one key what is nearer to the        *)
(* memtable is newer, which lets Get stop at the first hit.                    *)
NewerAbove ==
    /\ \A e \in mem, f \in imm : e.key = f.key => e.seq > f.seq
    /\ \A e \in mem \union imm, x \in FilesAt : \A f \in x[2].entries : e.key = f.key => e.seq > f.seq
    /\ \A x, y \in FilesAt :
         (x[1] < y[1] \/ (x[1] = 0 /\ y[1] = 0 /\ x[2].number > y[2].number)) =>
            \A e \in x[2].entries, f \in y[2].entries : e.key = f.key => e.seq > f.seq

(* The database shows its clients nothing but a map with snapshots: flushes    *)
(* and compactions are invisible.                                              *)
Store == INSTANCE SnapshotStore WITH
            view <- [s \in Readable |-> [k \in Keys |-> Lookup(k, s)]]

IsSnapshotStore == Store!Spec
=============================================================================
