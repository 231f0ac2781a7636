------------------------------ MODULE MCCore --------------------------------
(* The components whose promises are safety alone, side by side: the database  *)
(* in leveldb and the connection of the Firebase client.  Compaction, with the *)
(* abstract store it implements, is extended; each of the others is an         *)
(* instance of its module.  One of them, part, runs; x1 to x25 are its         *)
(* variables, and everything else stands still.                                *)
EXTENDS Compaction, TLAPS

CONSTANT Parts    \* the components to check

VARIABLES part,   \* the component that runs
          x1, x2, x3, x4, x5, x6, x7, x8, x9,
          x10, x11, x12, x13, x14, x15, x16, x17, x18, x19, x20, x21, x22, x23, x24, x25   \* its variables

all == <<part, vars, x1, x2, x3, x4, x5, x6, x7, x8, x9, x10, x11, x12, x13, x14, x15,
         x16, x17, x18, x19, x20, x21, x22, x23, x24, x25>>

(* The first n of them are in use.                                             *)
Idle(n) ==
    /\ (n < 1 => x1 = 0) /\ (n < 2 => x2 = 0) /\ (n < 3 => x3 = 0)
    /\ (n < 4 => x4 = 0) /\ (n < 5 => x5 = 0) /\ (n < 6 => x6 = 0)
    /\ (n < 7 => x7 = 0) /\ (n < 8 => x8 = 0) /\ (n < 9 => x9 = 0)
    /\ (n < 10 => x10 = 0) /\ (n < 11 => x11 = 0) /\ (n < 12 => x12 = 0)
    /\ (n < 13 => x13 = 0) /\ (n < 14 => x14 = 0) /\ (n < 15 => x15 = 0)
    /\ (n < 16 => x16 = 0) /\ (n < 17 => x17 = 0) /\ (n < 18 => x18 = 0)
    /\ (n < 19 => x19 = 0) /\ (n < 20 => x20 = 0) /\ (n < 21 => x21 = 0)
    /\ (n < 22 => x22 = 0) /\ (n < 23 => x23 = 0) /\ (n < 24 => x24 = 0)
    /\ (n < 25 => x25 = 0)

Keep(n) ==
    /\ (n < 1 => x1' = x1) /\ (n < 2 => x2' = x2) /\ (n < 3 => x3' = x3)
    /\ (n < 4 => x4' = x4) /\ (n < 5 => x5' = x5) /\ (n < 6 => x6' = x6)
    /\ (n < 7 => x7' = x7) /\ (n < 8 => x8' = x8) /\ (n < 9 => x9' = x9)
    /\ (n < 10 => x10' = x10) /\ (n < 11 => x11' = x11) /\ (n < 12 => x12' = x12)
    /\ (n < 13 => x13' = x13) /\ (n < 14 => x14' = x14) /\ (n < 15 => x15' = x15)
    /\ (n < 16 => x16' = x16) /\ (n < 17 => x17' = x17) /\ (n < 18 => x18' = x18)
    /\ (n < 19 => x19' = x19) /\ (n < 20 => x20' = x20) /\ (n < 21 => x21' = x21)
    /\ (n < 22 => x22' = x22) /\ (n < 23 => x23' = x23) /\ (n < 24 => x24' = x24)
    /\ (n < 25 => x25' = x25)
-----------------------------------------------------------------------------
(* Where a repair may die.                                                     *)
Deaths == {"convert", "archive log", "scan", "copy", "archive manifests", "install",
           "current"}

(* The files two levels below a compaction.                                    *)
Parents == << [low |-> 1, high |-> 3, size |-> 1], [low |-> 4, high |-> 5, size |-> 2],
              [low |-> 7, high |-> 7, size |-> 1], [low |-> 8, high |-> 8, size |-> 1] >>

Queue == INSTANCE WriteQueueProofs WITH
    Threads <- {"t1", "t2"}, NoThread <- "none", MaxCalls <- 1,
    MaxUpdates <- 2, MaxFailures <- 1, BufferSize <- 0, SmallGroup <- 1,
    LargeGroup <- 2, L0Compact <- 1, L0Slowdown <- 1, L0Stop <- 2,
    writers <- x1, call <- x2, calls <- x3, group <- x4, mem <- x5, imm <- x6,
    hasImm <- x7, tables <- x8, log <- x9, oldLog <- x10, lastSeq <- x11,
    l0 <- x12, bg <- x13, manual <- x14, bgError <- x15, closing <- x16,
    failures <- x17, acked <- x18

Files == INSTANCE DBFiles WITH
    MaxWrites <- 2, MaxCrashes <- 2, MaxCompactions <- 1, MaxErrors <- 1,
    PowerFails <- TRUE, SafeCreation <- TRUE, ReuseLogs <- FALSE, logs <- x1,
    tables <- x2, partial <- x3, manifests <- x4, current <- x5, db <- x6,
    flush <- x7, comp <- x8, garbage <- x9, pinned <- x10, written <- x11,
    must <- x12, counts <- x13, torn <- x14

Tables == INSTANCE DBFiles WITH
    MaxWrites <- 3, MaxCrashes <- 1, MaxCompactions <- 1, MaxErrors <- 1,
    PowerFails <- FALSE, SafeCreation <- TRUE, ReuseLogs <- FALSE, logs <- x1,
    tables <- x2, partial <- x3, manifests <- x4, current <- x5, db <- x6,
    flush <- x7, comp <- x8, garbage <- x9, pinned <- x10, written <- x11,
    must <- x12, counts <- x13, torn <- x14

Reuse == INSTANCE DBFiles WITH
    MaxWrites <- 2, MaxCrashes <- 2, MaxCompactions <- 0, MaxErrors <- 1,
    PowerFails <- FALSE, SafeCreation <- TRUE, ReuseLogs <- TRUE, logs <- x1,
    tables <- x2, partial <- x3, manifests <- x4, current <- x5, db <- x6,
    flush <- x7, comp <- x8, garbage <- x9, pinned <- x10, written <- x11,
    must <- x12, counts <- x13, torn <- x14

Log == INSTANCE LogFormat WITH
    BlockSize <- 8, HeaderSize <- 3, Lengths <- {0, 2, 7},
    InitialOffsets <- {0}, MaxRecords <- 3, MaxCrashes <- 1, MaxErrors <- 0,
    MaxDamage <- 1, ReuseLogs <- FALSE, file <- x1, phys <- x2, writer <- x3,
    acked <- x4, reader <- x5, bad <- x6, faults <- x7

(* A write that fails half way, and a writer that goes on or dies.             *)
Failing == INSTANCE LogFormat WITH
    BlockSize <- 8, HeaderSize <- 3, Lengths <- {0, 2, 7},
    InitialOffsets <- {0}, MaxRecords <- 3, MaxCrashes <- 1, MaxErrors <- 1,
    MaxDamage <- 0, ReuseLogs <- FALSE, file <- x1, phys <- x2, writer <- x3,
    acked <- x4, reader <- x5, bad <- x6, faults <- x7

Offset == INSTANCE LogFormat WITH
    BlockSize <- 8, HeaderSize <- 3, Lengths <- {0, 2, 7},
    InitialOffsets <- {0, 1, 3, 5, 6, 8, 11, 16, 17}, MaxRecords <- 3,
    MaxCrashes <- 0, MaxErrors <- 0, MaxDamage <- 0, ReuseLogs <- TRUE,
    file <- x1, phys <- x2, writer <- x3, acked <- x4, reader <- x5, bad <- x6,
    faults <- x7

Repairer == INSTANCE Repair WITH
    Updates <- 2, MaxCrashes <- 1, CrashAt <- Deaths, Faults <- {},
    Transient <- FALSE, Garbles <- FALSE, damaged <- x1, tables <- x2, logs
    <- x3, garbled <- x4, lost <- x5, disk <- x6, pc <- x7,
    next_file_number_ <- x8, logs_ <- x9, table_numbers_ <- x10, tables_ <-
    x11, copying <- x12, descriptor <- x13, crashes <- x14

Faulty == INSTANCE Repair WITH
    Updates <- 2, MaxCrashes <- 1, CrashAt <- Deaths \union {"finish"},
    Faults <- {"convert", "finish"}, Transient <- FALSE, Garbles <- FALSE,
    damaged <- x1, tables <- x2, logs <- x3, garbled <- x4, lost <- x5,
    disk <- x6, pc <- x7, next_file_number_ <- x8, logs_ <- x9,
    table_numbers_ <- x10, tables_ <- x11, copying <- x12, descriptor <- x13,
    crashes <- x14

ByHand == INSTANCE Compaction WITH
    NumLevels <- 4, MaxMemLevel <- 2, L0Trigger <- 2, TargetFileSize <- 1,
    GrandParentLimit <- 1, ExpandLimit <- 4, LevelBytes <- 2, LevelGrowth <- 1,
    NumKeys <- 2, MaxSeq <- 2, MemTableSize <- 2, WriteKinds <- {TRUE, FALSE},
    SeekCompactions <- TRUE, MaxSnapshots <- 1, MaxManual <- 1,
    OneClient <- TRUE, writes <- x1, mem <- x2, imm <- x3, files <- x4,
    snapshots <- x5, nextFile <- x6, compactPointer <- x7, seekFile <- x8,
    job <- x9, manual <- x10, manuals <- x11, bgError <- x12

Level0 == INSTANCE Compaction WITH
    NumLevels <- 3, MaxMemLevel <- 0, L0Trigger <- 3, TargetFileSize <- 1,
    GrandParentLimit <- 1, ExpandLimit <- 4, LevelBytes <- 2, LevelGrowth <- 1,
    NumKeys <- 3, MaxSeq <- 4, MemTableSize <- 2, WriteKinds <- {FALSE},
    SeekCompactions <- TRUE, MaxSnapshots <- 0, MaxManual <- 0,
    OneClient <- TRUE, writes <- x1, mem <- x2, imm <- x3, files <- x4,
    snapshots <- x5, nextFile <- x6, compactPointer <- x7, seekFile <- x8,
    job <- x9, manual <- x10, manuals <- x11, bgError <- x12

Output == INSTANCE CompactionOutput WITH
    Keys <- {2, 5, 8}, Grandparents <- Parents, MaxOverlap <- 1,
    MaxOutputSize <- 3, MaxFaults <- 1, input <- x1, files <- x2,
    unreadable <- x3, level <- x4, stop <- x5, outputs <- x6, builder <- x7,
    kept <- x8, pc <- x9, status <- x10, pending <- x11, installed <- x12,
    faults <- x13

Pins == INSTANCE PinnedStateProofs WITH
    Readers <- {"r1", "r2"}, MaxMems <- 2, MaxVersions <- 3, MaxMetas <- 2,
    MaxCleanups <- 3, heap <- x1, mem <- x2, imm <- x3, current <- x4,
    reader <- x5, bg <- x6, error <- x7, closed <- x8

Memory == INSTANCE MemTable WITH
    Keys <- {1, 2}, Values <- {"x"}, MaxSequence <- 2, MaxRecords <- 2,
    batches <- x1, mem <- x2, last <- x3, status <- x4, history <- x5

List == INSTANCE SkipList WITH
    Keys <- {1, 2}, MaxHeight <- 2, MaxSearches <- 2, log <- x1, w <- x2,
    unlocked <- x3, r <- x4

Iter == INSTANCE DBIter WITH
    Children <- {1, 2}, Users <- {1, 2, 3}, Updates <- 3, Damage <- 0,
    history <- x1, source <- x2, damaged <- x3, sequence_ <- x4, it <- x5,
    view <- x6

Damaged == INSTANCE DBIter WITH
    Children <- {1, 2}, Users <- {1, 2}, Updates <- 2, Damage <- 1,
    history <- x1, source <- x2, damaged <- x3, sequence_ <- x4, it <- x5,
    view <- x6

Edits == INSTANCE VersionEdit WITH
    GroupBits <- 4, Width32 <- 9, Width64 <- 14, NumLevels <- 2,
    Numbers <- {0, 300}, Names <- {<<3>>, <<17, 2>>},
    Alphabet <- {0, 1, 2, 5, 7, 18}, MaxForeign <- 5, MaxCalls <- 1,
    phase <- x1, edit <- x2, input <- x3, origin <- x4, got <- x5, msg <- x6,
    calls <- x7

Connection == INSTANCE PersistentConnectionProofs WITH
    Queries <- {"q"}, MaxPuts <- 0, MaxOps <- 1, MaxListens <- 1,
    MaxFaults <- 1, MaxCalls <- 2, Refused <- {}, Tokens <- TRUE, state <- x1,
    interrupts <- x2, retry <- x3, fetches <- x4, attempt <- x5, force <- x6,
    token <- x7, realtime <- x8, wire <- x9, puts <- x10, putCounter <- x11,
    listens <- x12, listenNo <- x13, unacked <- x14, putsToAck <- x15,
    opQueue <- x16, opNo <- x17, reports <- x18, opReports <- x19,
    applied <- x20, issued <- x21, revoked <- x22, refused <- x23,
    faults <- x24, calls <- x25

Writes == INSTANCE PersistentConnectionProofs WITH
    Queries <- {"q"}, MaxPuts <- 2, MaxOps <- 0, MaxListens <- 1,
    MaxFaults <- 2, MaxCalls <- 1, Refused <- {}, Tokens <- FALSE, state <- x1,
    interrupts <- x2, retry <- x3, fetches <- x4, attempt <- x5, force <- x6,
    token <- x7, realtime <- x8, wire <- x9, puts <- x10, putCounter <- x11,
    listens <- x12, listenNo <- x13, unacked <- x14, putsToAck <- x15,
    opQueue <- x16, opNo <- x17, reports <- x18, opReports <- x19,
    applied <- x20, issued <- x21, revoked <- x22, refused <- x23,
    faults <- x24, calls <- x25
-----------------------------------------------------------------------------
MCInit == /\ part \in Parts
          /\ Init
          /\ \/ part = "compaction" /\ Idle(0)
             \/ part = "queue"    /\ Queue!Init /\ Idle(18)
             \/ part = "files"    /\ Files!Init /\ Idle(14)
             \/ part = "tables"   /\ Tables!Init /\ Idle(14)
             \/ part = "reuse"    /\ Reuse!Init /\ Idle(14)
             \/ part = "log"      /\ Log!Init /\ Idle(7)
             \/ part = "failing"  /\ Failing!Init /\ Idle(7)
             \/ part = "offset"   /\ Offset!Init /\ Idle(7)
             \/ part = "repair"   /\ Repairer!Init /\ Idle(14)
             \/ part = "faulty"   /\ Faulty!Init /\ Idle(14)
             \/ part = "manual"   /\ ByHand!Init /\ Idle(12)
             \/ part = "level0"   /\ Level0!Init /\ Idle(12)
             \/ part = "output"   /\ Output!Init /\ Idle(13)
             \/ part = "pins"     /\ Pins!Init /\ Idle(8)
             \/ part = "memtable" /\ Memory!Init /\ Idle(5)
             \/ part = "skiplist" /\ List!Init /\ Idle(4)
             \/ part = "iterator" /\ Iter!Init /\ Idle(6)
             \/ part = "damaged"  /\ Damaged!Init /\ Idle(6)
             \/ part = "edit"     /\ Edits!Init /\ Idle(7)
             \/ part = "link"     /\ Connection!Init /\ Idle(25)
             \/ part = "writes"   /\ Writes!Init /\ Idle(25)

Others(n) == Keep(n) /\ UNCHANGED <<part, vars>>

MCNext == \/ part = "compaction" /\ Next /\ Keep(0) /\ UNCHANGED part
          \/ part = "queue"    /\ Queue!Next /\ Others(18)
          \/ part = "files"    /\ Files!Next /\ Others(14)
          \/ part = "tables"   /\ Tables!Next /\ Others(14)
          \/ part = "reuse"    /\ Reuse!Next /\ Others(14)
          \/ part = "log"      /\ Log!Next /\ Others(7)
          \/ part = "failing"  /\ Failing!Next /\ Others(7)
          \/ part = "offset"   /\ Offset!Next /\ Others(7)
          \/ part = "repair"   /\ Repairer!Next /\ Others(14)
          \/ part = "faulty"   /\ Faulty!Next /\ Others(14)
          \/ part = "manual"   /\ ByHand!Next /\ Others(12)
          \/ part = "level0"   /\ Level0!Next /\ Others(12)
          \/ part = "output"   /\ Output!Next /\ Others(13)
          \/ part = "pins"     /\ Pins!Next /\ Others(8)
          \/ part = "memtable" /\ Memory!Next /\ Others(5)
          \/ part = "skiplist" /\ List!Next /\ Others(4)
          \/ part = "iterator" /\ Iter!Next /\ Others(6)
          \/ part = "damaged"  /\ Damaged!Next /\ Others(6)
          \/ part = "edit"     /\ Edits!Next /\ Others(7)
          \/ part = "link"     /\ Connection!Next /\ Others(25)
          \/ part = "writes"   /\ Writes!Next /\ Others(25)

MCSpec == MCInit /\ [][MCNext]_all
-----------------------------------------------------------------------------
(* db_impl.cc, DBImpl::Write: threads that write at the same time form groups, *)
(* and a failing log, a full memtable and a closing database come between.     *)
(* The numbers of two batches never meet, a batch is all there or not at all,  *)
(* what readers can see is in a log or a table, and a synced batch is durable. *)
WritesKept == part = "queue" =>
    /\ Queue!SequencesUnique /\ Queue!AckedAtomic
    /\ Queue!WriteAhead /\ Queue!SyncedDurable

(* version_set.cc, db_impl.cc: whatever the processes and the power do, and    *)
(* whichever MANIFEST write fails, also inside a compaction that goes on, a    *)
(* database that opens again has what it promised, gives no sequence number    *)
(* out twice and needs no file that was deleted; it calls itself corrupt only  *)
(* where a record follows a piece of one that could not be written.            *)
CrashLosesNothing ==
    /\ part = "files" => /\ Files!LiveFilesExist /\ Files!NothingLost
                         /\ Files!OpensUnlessTorn /\ Files!SequenceNumbersUnique
    /\ part = "tables" => /\ Tables!LiveFilesExist /\ Tables!NothingLost
                          /\ Tables!OpensUnlessTorn /\ Tables!SequenceNumbersUnique
    /\ part = "reuse" => Reuse!NothingLost /\ Reuse!OpensUnlessTorn

(* db_impl.cc, version_set.cc: while tables are merged, moved and dropped,     *)
(* a level below the first has no two tables for one key, newer entries are    *)
(* never below older ones, Get and iterators of every live snapshot see the    *)
(* newest entry of their time, and the sizes of ranges of keys are estimated   *)
(* from the tables that are there.                                             *)
ReadsNewest ==
    /\ part = "compaction" => /\ LevelsDisjoint /\ IteratorsCorrect
                              /\ NewerAbove /\ ReadsCorrect /\ SizesCorrect
    /\ part = "manual" => /\ ByHand!LevelsDisjoint /\ ByHand!IteratorsCorrect
                          /\ ByHand!NewerAbove /\ ByHand!ReadsCorrect
                          /\ ByHand!SizesCorrect
    /\ part = "level0" => Level0!NewerAbove /\ Level0!ReadsCorrect /\ Level0!SizesCorrect

(* db_impl.cc, DoCompactionWork, version_edit.cc, log_writer.cc, log_reader.cc:*)
(* the outputs of a compaction are cut where they should be, hold every entry  *)
(* that is kept, and are installed whole or not at all, also when a file fails;*)
(* what the manifest says of them is read back as it was written, and a cut    *)
(* record never passes for another one; a log gives back whole records, those  *)
(* that were acknowledged until a write failed among them, skips no more than  *)
(* the damage, and reports only damage.                                        *)
FilesReadBack ==
    /\ part = "output" => /\ Output!OutputsSorted /\ Output!OverlapBounded
                          /\ Output!InstalledComplete /\ Output!NothingPending
    /\ part = "edit" => /\ Edits!RoundTrip /\ Edits!CutIsPrefix
                        /\ Edits!LevelsInRange /\ Edits!AllUnderstood
    /\ part = "log" => /\ Log!WholeRecords /\ Log!AckedRead
                       /\ Log!DamageContained /\ Log!NothingReported
    /\ part = "failing" => Failing!WholeRecords /\ Failing!AckedRead
    /\ part = "offset" => Offset!WholeRecords /\ Offset!InitialOffset

(* db_impl.cc, version_set.cc: memtables, versions and file records that a     *)
(* reader or an iterator has pinned live until it lets go, and nothing that    *)
(* nobody has pinned stays; every registered clean-up runs once.               *)
PinsHold == part = "pins" => /\ Pins!PinnedAlive /\ Pins!Collected
                             /\ Pins!NeverBelowZero /\ Pins!CleanupsRun

(* repair.cc: a repair that is done, after any number of attempts that died,   *)
(* has all that was readable, gives out no number in use and no sequence       *)
(* number below one it kept; an attempt that fails destroys nothing.           *)
RepairKeeps ==
    /\ part = "repair" => /\ Repairer!EverythingRecovered /\ Repairer!NothingDestroyed
                          /\ Repairer!LastSequenceCovers /\ Repairer!NumbersUnused
    /\ part = "faulty" => /\ Faulty!NothingDestroyed
                          /\ Faulty!LastSequenceCovers /\ Faulty!NumbersUnused

(* memtable.cc, skiplist.h, db_iter.cc, merger.cc: a reader without locks      *)
(* never follows a pointer to a node that is not there yet and misses no node  *)
(* that was there when it began; in whatever direction it is moved, an         *)
(* iterator is at the entry that its snapshot shows, and damage is reported.   *)
IteratorsRight ==
    /\ part = "memtable" => /\ Memory!SnapshotRead /\ Memory!DamageReported
                            /\ Memory!NumbersUsed /\ Memory!NoDuplicates
    /\ part = "skiplist" => /\ List!LevelsNested /\ List!NoUninitialised
                            /\ List!ForwardRight /\ List!ContainsRight /\ List!BackwardRight
    /\ part = "iterator" => /\ Iter!PositionInvariant /\ Iter!AtRightEntry
                            /\ Iter!ChildrenInStep
    /\ part = "damaged" => Damaged!PositionInvariant /\ Damaged!AtRightEntry

(* FPersistentConnection: through lost connections, purges and late answers no *)
(* write is forgotten, none completes twice, and none comes back after it was  *)
(* reported as canceled.                                                       *)
WritesSettled == part = "writes" => /\ Writes!NoWriteForgotten /\ Writes!CompletesOnce
                                    /\ Writes!PurgedStaysPurged

(* restoreState sends again in the order of the writes: the server is not left *)
(* with an older write than one that was reported as done, and the write of a  *)
(* transaction is applied at most once.                                        *)
WriteOrder == part = "writes" => Writes!LastWriteWins /\ Writes!TransactionsAppliedOnce

(* Whatever the order of timers, token answers, interruptions and lost sockets,*)
(* there is one connection at most, none while there is a reason to stay       *)
(* offline, and unackedListensCount counts the listens without an answer.      *)
OneLink == part = "link" => /\ Connection!OneConnection /\ Connection!InterruptedMeansOffline
                            /\ Connection!CountsListens
-----------------------------------------------------------------------------
(* Proofs: the invariants of a component hold of the parts that are instances  *)
(* of it, whatever the other parts do.  First the write path of leveldb:       *)
QueuePart == part = "queue" => Queue!WriteInv

(* Two batches' worth of updates, and threads that are not "none".             *)
LEMMA QueueConstants == Queue!ConstantsOK
BY DEF Queue!ConstantsOK

(* The invariant of the write path holds while the part "queue" runs.          *)
LEMMA QueuePartHolds == MCSpec => []QueuePart
<1>1. MCInit => QueuePart
  BY QueueConstants, Queue!InitInv DEF MCInit, QueuePart
<1>2. QueuePart /\ [MCNext]_all => QueuePart'
  <2> SUFFICES ASSUME QueuePart, [MCNext]_all, part' = "queue"
               PROVE  Queue!WriteInv'
    BY DEF QueuePart
  <2>1. part = "queue" /\ [Queue!Next]_Queue!vars
    BY DEF MCNext, Others, all, Queue!vars
  <2> QED
    BY <2>1, Queue!WriteStep DEF QueuePart
<1> QED
  BY <1>1, <1>2, PTL DEF MCSpec

(* DBImpl::Write in the run of this module: no number is given twice, a batch  *)
(* is all there or not at all, the log is ahead of the memtable, and a synced  *)
(* batch is durable, however many steps the threads and the background take.   *)
THEOREM WritesStayKept == MCSpec => []WritesKept
<1>1. QueuePart => WritesKept
  BY Queue!WriteMeans DEF QueuePart, WritesKept
<1> QED
  BY <1>1, QueuePartHolds, PTL

(* The invariant of PinnedStateProofs holds of the part "pins" likewise.       *)
PinsPart == part = "pins" => Pins!PinInv

(* Two readers, and at least one memtable and one version.                     *)
LEMMA PinsConstants == Pins!ConstantsOK
<1>1. Pins!IsFiniteSet({"r1"} \union {"r2"})
  BY Pins!FS_Singleton, Pins!FS_Union
<1>2. {"r1", "r2"} = {"r1"} \union {"r2"}
  OBVIOUS
<1> QED
  BY <1>1, <1>2 DEF Pins!ConstantsOK

(* The reference counts are right while the part "pins" runs.                  *)
LEMMA PinsPartHolds == MCSpec => []PinsPart
<1>1. MCInit => PinsPart
  BY PinsConstants, Pins!InitInv DEF MCInit, PinsPart
<1>2. PinsPart /\ [MCNext]_all => PinsPart'
  <2> SUFFICES ASSUME PinsPart, [MCNext]_all, part' = "pins"
               PROVE  Pins!PinInv'
    BY DEF PinsPart
  <2>1. part = "pins" /\ [Pins!Next]_Pins!vars
    BY DEF MCNext, Others, all, Pins!vars
  <2> QED
    BY <2>1, Pins!StepInv DEF PinsPart
<1> QED
  BY <1>1, <1>2, PTL DEF MCSpec

(* Get, iterators and compactions in the run of this module: what is pinned    *)
(* lives until it is let go of, the rest is deleted, and clean-ups run once.   *)
THEOREM PinsStayHeld == MCSpec => []PinsHold
<1>1. PinsPart => PinsHold
  BY Pins!PinMeans DEF PinsPart, PinsHold
<1> QED
  BY <1>1, PinsPartHolds, PTL

(* The invariant of the link holds of the part "link", and with that of the    *)
(* writes of the part "writes".                                                *)
LinkPart == part = "link" => Connection!LinkInv

WritesPart == part = "writes" => Writes!LinkInv /\ Writes!OrderInv

(* The query of these instances is one.                                       *)
LEMMA OneQuery == Connection!IsFiniteSet({"q"}) /\ Writes!IsFiniteSet({"q"})
  BY Connection!FS_Singleton, Writes!FS_Singleton

(* The invariant of the link holds while the part "link" runs.                *)
LEMMA LinkPartHolds == MCSpec => []LinkPart
<1>1. MCInit => LinkPart
  BY Connection!LinkInvInit DEF MCInit, LinkPart
<1>2. LinkPart /\ [MCNext]_all => LinkPart'
  <2> SUFFICES ASSUME LinkPart, [MCNext]_all, part' = "link"
               PROVE  Connection!LinkInv'
    BY DEF LinkPart
  <2>1. part = "link" /\ [Connection!Next]_Connection!vars
    BY DEF MCNext, Others, all, Connection!vars, Connection!linkVars,
           Connection!putVars, Connection!listenVars, Connection!opVars, Connection!serverVars
  <2> QED
    BY <2>1, OneQuery, Connection!LinkInvStep DEF LinkPart
<1> QED
  BY <1>1, <1>2, PTL DEF MCSpec

(* The invariants of the writes hold while the part "writes" runs.            *)
LEMMA WritesPartHolds == MCSpec => []WritesPart
<1>1. MCInit => WritesPart
  BY Writes!LinkInvInit, Writes!OrderInit DEF MCInit, WritesPart
<1>2. WritesPart /\ [MCNext]_all => WritesPart'
  <2> SUFFICES ASSUME WritesPart, [MCNext]_all, part' = "writes"
               PROVE  Writes!LinkInv' /\ Writes!OrderInv'
    BY DEF WritesPart
  <2>1. part = "writes" /\ [Writes!Next]_Writes!vars
    BY DEF MCNext, Others, all, Writes!vars, Writes!linkVars,
           Writes!putVars, Writes!listenVars, Writes!opVars, Writes!serverVars
  <2>2. Writes!LinkInv /\ Writes!OrderInv
    BY <2>1 DEF WritesPart
  <2> QED
    BY <2>1, <2>2, OneQuery, Writes!LinkInvStep, Writes!OrderStep
<1> QED
  BY <1>1, <1>2, PTL DEF MCSpec

(* FPersistentConnection never has two connections, has none while there is a *)
(* reason to stay offline, and counts the listens without an answer.          *)
THEOREM LinkStaysOne == MCSpec => []OneLink
<1>1. LinkPart => OneLink
  BY Connection!LinkMeans DEF LinkPart, OneLink
<1> QED
  BY <1>1, LinkPartHolds, PTL

(* FPersistentConnection forgets no write, completes none twice and does not  *)
(* send again what it has reported as canceled.                               *)
THEOREM WritesStaySettled == MCSpec => []WritesSettled
<1>1. WritesPart => WritesSettled
  BY Writes!OrderMeans DEF WritesPart, WritesSettled
<1> QED
  BY <1>1, WritesPartHolds, PTL

(* restoreState keeps the order of the writes, and cancelSentTransactions     *)
(* keeps the write of a transaction from being applied again.                 *)
THEOREM WritesStayOrdered == MCSpec => []WriteOrder
<1>1. WritesPart => WriteOrder
  BY Writes!OrderMeans DEF WritesPart, WriteOrder
<1> QED
  BY <1>1, WritesPartHolds, PTL

(* The invariants of Repair hold of the parts "repair" and "faulty".           *)
RepairPart == part = "repair" => Repairer!CompleteInv

FaultyPart == part = "faulty" => Faulty!AttemptInv

(* The instances are what the theorems of Repair ask for: one death, copies    *)
(* can be created and, in the part "repair", nothing fails.                    *)
LEMMA RepairConstants == Repairer!AttemptOK /\ Repairer!CleanRepair /\ Faulty!AttemptOK
  BY DEF Repairer!AttemptOK, Repairer!ConstantsOK, Repairer!CleanRepair, Repairer!OneDeath, Deaths,
         Faulty!AttemptOK, Faulty!ConstantsOK, Faulty!OneDeath

(* Nothing is lost while the part "repair" runs.                               *)
LEMMA RepairPartHolds == MCSpec => []RepairPart
<1>1. MCInit => RepairPart
  BY RepairConstants, Repairer!Complete DEF MCInit, RepairPart
<1>2. RepairPart /\ [MCNext]_all => RepairPart'
  <2> SUFFICES ASSUME RepairPart, [MCNext]_all, part' = "repair"
               PROVE  Repairer!CompleteInv'
    BY DEF RepairPart
  <2>1. part = "repair" /\ [Repairer!Next]_Repairer!vars
    BY DEF MCNext, Others, all, Repairer!vars, Repairer!files, Repairer!repairer
  <2> QED
    BY <2>1, RepairConstants, Repairer!Complete DEF RepairPart
<1> QED
  BY <1>1, <1>2, PTL DEF MCSpec

(* Nor while the part "faulty" runs.                                           *)
LEMMA FaultyPartHolds == MCSpec => []FaultyPart
<1>1. MCInit => FaultyPart
  BY RepairConstants, Faulty!Attempt DEF MCInit, FaultyPart
<1>2. FaultyPart /\ [MCNext]_all => FaultyPart'
  <2> SUFFICES ASSUME FaultyPart, [MCNext]_all, part' = "faulty"
               PROVE  Faulty!AttemptInv'
    BY DEF FaultyPart
  <2>1. part = "faulty" /\ [Faulty!Next]_Faulty!vars
    BY DEF MCNext, Others, all, Faulty!vars, Faulty!files, Faulty!repairer
  <2> QED
    BY <2>1, RepairConstants, Faulty!Attempt DEF FaultyPart
<1> QED
  BY <1>1, <1>2, PTL DEF MCSpec

(* RepairDB in the run of this module: an attempt destroys nothing, whatever   *)
(* fails and whenever it dies, the numbers it leaves behind are right, and a   *)
(* repair in which nothing fails recovers everything.                          *)
THEOREM RepairStaysKeeping == MCSpec => []RepairKeeps
<1>1. RepairPart /\ FaultyPart => RepairKeeps
  BY RepairConstants, Repairer!Complete, Faulty!Attempt DEF RepairPart, FaultyPart, RepairKeeps
<1> QED
  BY <1>1, RepairPartHolds, FaultyPartHolds, PTL

(* The invariants of DBFiles hold of the parts "files", "tables" and "reuse".  *)
FilesPart == part = "files" => Files!SafeInv

TablesPart == part = "tables" => Tables!SafeInv

ReusePart == part = "reuse" => Reuse!SafeInv

(* In these instances the power fails where the database exists and logs are   *)
(* not continued, or not at all.                                               *)
LEMMA FilesConstants == Files!ConstantsOK /\ Tables!ConstantsOK /\ Reuse!ConstantsOK
BY DEF Files!ConstantsOK, Tables!ConstantsOK, Reuse!ConstantsOK

(* Disk and memory agree while the part "files" runs.                          *)
LEMMA FilesPartHolds == MCSpec => []FilesPart
<1>1. MCInit => FilesPart
  BY Files!SafeInit DEF MCInit, FilesPart
<1>2. FilesPart /\ [MCNext]_all => FilesPart'
  <2> SUFFICES ASSUME FilesPart, [MCNext]_all, part' = "files"
               PROVE  Files!SafeInv'
    BY DEF FilesPart
  <2>1. part = "files" /\ [Files!Next]_Files!vars
    BY DEF MCNext, Others, all, Files!vars
  <2> QED
    BY <2>1, FilesConstants, Files!SafeNext DEF FilesPart
<1> QED
  BY <1>1, <1>2, PTL DEF MCSpec

(* Nor does the part "tables" lose a file.                                     *)
LEMMA TablesPartHolds == MCSpec => []TablesPart
<1>1. MCInit => TablesPart
  BY Tables!SafeInit DEF MCInit, TablesPart
<1>2. TablesPart /\ [MCNext]_all => TablesPart'
  <2> SUFFICES ASSUME TablesPart, [MCNext]_all, part' = "tables"
               PROVE  Tables!SafeInv'
    BY DEF TablesPart
  <2>1. part = "tables" /\ [Tables!Next]_Tables!vars
    BY DEF MCNext, Others, all, Tables!vars
  <2> QED
    BY <2>1, FilesConstants, Tables!SafeNext DEF TablesPart
<1> QED
  BY <1>1, <1>2, PTL DEF MCSpec

(* The same where logs and MANIFEST are continued.                             *)
LEMMA ReusePartHolds == MCSpec => []ReusePart
<1>1. MCInit => ReusePart
  BY Reuse!SafeInit DEF MCInit, ReusePart
<1>2. ReusePart /\ [MCNext]_all => ReusePart'
  <2> SUFFICES ASSUME ReusePart, [MCNext]_all, part' = "reuse"
               PROVE  Reuse!SafeInv'
    BY DEF ReusePart
  <2>1. part = "reuse" /\ [Reuse!Next]_Reuse!vars
    BY DEF MCNext, Others, all, Reuse!vars
  <2> QED
    BY <2>1, FilesConstants, Reuse!SafeNext DEF ReusePart
<1> QED
  BY <1>1, <1>2, PTL DEF MCSpec

(* Opening, writing, compacting and deleting files in the run of this module:  *)
(* no number of deaths of the process, nor the loss of what was not synced,    *)
(* nor a MANIFEST write that fails costs an acknowledged write; a database can *)
(* be opened again unless a piece of a record is inside its MANIFEST.          *)
THEOREM CrashesLoseNothing == MCSpec => []CrashLosesNothing
<1>1. FilesPart /\ TablesPart /\ ReusePart => CrashLosesNothing
  BY Files!FilesRightNow, Tables!FilesRightNow, Reuse!FilesRightNow
  DEF FilesPart, TablesPart, ReusePart, CrashLosesNothing, Files!SafeInv, Tables!SafeInv, Reuse!SafeInv
<1> QED
  BY <1>1, FilesPartHolds, TablesPartHolds, ReusePartHolds, PTL
=============================================================================
