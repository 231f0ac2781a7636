------------------------------- MODULE Repair -------------------------------
(* leveldb, db/repair.cc: a database without a usable descriptor is rebuilt    *)
(* from its log and table files.  An entry is the sequence number of an        *)
(* update; one that was garbled in a log is read as another, larger number.    *)
(* The process may die between any two steps and repair is then run again.     *)
EXTENDS Naturals, FiniteSets, Functions, WellFoundedInduction, TLAPS

CONSTANTS Updates,    \* bound: updates in the database
          MaxCrashes, \* bound: deaths of the process
          CrashAt,    \* the steps before which it may die
          Faults,     \* calls that may fail, of "convert", "create" and "finish"
          Transient,  \* TRUE: a read that failed may succeed when tried again
          Garbles     \* TRUE: a log record may be garbled

Entries == 1..Updates
OldTables == {3, 4}
OldLog == 5
Garbled(e) == e + Updates

VARIABLES damaged,   \* entries of tables that cannot be read
          tables,    \* table files: number -> [entries, whole]; whole: it was finished
          logs,      \* log files: number -> entries
          garbled,   \* entries of logs that are garbled
          lost,      \* the directory "lost": name -> entries
          disk,      \* [manifest, tmp, current]: what of the descriptor is there
          pc,        \* the next step
          next_file_number_, logs_, table_numbers_, tables_,
          copying,   \* RepairTable: the table copied, its TableInfo, the number of the copy
          descriptor,
          crashes

files == <<damaged, tables, logs, garbled, lost, disk>>
repairer == <<next_file_number_, logs_, table_numbers_, tables_, copying>>
vars == <<files, pc, repairer, descriptor, crashes>>

Largest(S) == IF S = {} THEN 0 ELSE CHOOSE e \in S : \A f \in S : e >= f
Unfinished == [entries |-> {}, whole |-> FALSE]
NoCopy == [number |-> 0, max_sequence |-> 0, copy |-> 0]
NoDescriptor == [files |-> {}, next |-> 0, last_sequence |-> 0]

(* Any updates may be in any table: the output of a compaction has a larger    *)
(* number than tables with newer updates.  The log has the latest updates.     *)
Init == /\ \E place \in [Entries -> OldTables \union {OldLog}] : \E bad \in SUBSET Entries :
              /\ \A e, f \in Entries : (place[e] = OldLog /\ e < f) => place[f] = OldLog
              /\ \A e \in bad : place[e] # OldLog
              /\ damaged = bad
              /\ tables = [t \in OldTables |-> [entries |-> {e \in Entries : place[e] = t}, whole |-> TRUE]]
              /\ logs = [l \in {OldLog} |-> {e \in Entries : place[e] = OldLog}]
        /\ garbled \in IF Garbles THEN SUBSET logs[OldLog] ELSE {{}}
        /\ lost = <<>> /\ disk = [manifest |-> "old", tmp |-> FALSE, current |-> "old"]
        /\ pc = "find" /\ next_file_number_ = 1 /\ logs_ = {} /\ table_numbers_ = {} /\ tables_ = {}
        /\ copying = NoCopy /\ descriptor = NoDescriptor /\ crashes = 0

Without(f, x) == Restrict(f, DOMAIN f \ {x})
With(f, x, v) == [y \in DOMAIN f \union {x} |-> IF y = x THEN v ELSE f[y]]

(* 1 + the largest number of a file that is not a manifest.                    *)
NextNumber == Largest(DOMAIN tables \union DOMAIN logs) + 1

FindFiles == /\ pc = "find" /\ pc' = "convert"
             /\ next_file_number_' = NextNumber
             /\ logs_' = DOMAIN logs /\ table_numbers_' = DOMAIN tables
             /\ UNCHANGED <<files, tables_, copying, descriptor, crashes>>

(* What the log reader returns; it is told not to verify checksums.            *)
RecordsOf(l) == (logs[l] \ garbled) \union {Garbled(e) : e \in logs[l] \intersect garbled}

(* ConvertLogToTable; BuildTable leaves no file when it fails or is empty.     *)
ConvertLogToTable(l) ==
    /\ pc = "convert" /\ l \in logs_ /\ pc' = "archive log"
    /\ \E ok \in IF "convert" \in Faults THEN BOOLEAN ELSE {TRUE} :
          IF ok /\ RecordsOf(l) # {}
          THEN /\ tables' = With(tables, next_file_number_, [entries |-> RecordsOf(l), whole |-> TRUE])
               /\ table_numbers_' = table_numbers_ \union {next_file_number_}
          ELSE UNCHANGED <<tables, table_numbers_>>
    /\ next_file_number_' = next_file_number_ + 1
    /\ copying' = [NoCopy EXCEPT !.number = l]
    /\ UNCHANGED <<damaged, logs, garbled, lost, disk, logs_, tables_, descriptor, crashes>>

Archive(kind, number, entries) == lost' = With(lost, <<kind, number>>, entries)

ArchiveLog ==
    /\ pc = "archive log" /\ pc' = "convert"
    /\ LET l == copying.number IN /\ Archive("log", l, logs[l]) /\ logs' = Without(logs, l) /\ logs_' = logs_ \ {l}
    /\ copying' = NoCopy
    /\ UNCHANGED <<damaged, tables, garbled, disk, next_file_number_, table_numbers_, tables_, descriptor, crashes>>

Converted == /\ pc = "convert" /\ logs_ = {} /\ pc' = "scan"
             /\ UNCHANGED <<files, repairer, descriptor, crashes>>

Readable(t) == IF tables[t].whole THEN tables[t].entries \ damaged ELSE {}
Sound(t) == tables[t].whole /\ tables[t].entries \intersect damaged = {}

MaxSequence(S) == Largest(S)

(* ScanTable: an error anywhere in the table sends it to RepairTable.          *)
ScanTable(t) ==
    /\ pc = "scan" /\ t \in table_numbers_ /\ table_numbers_' = table_numbers_ \ {t}
    /\ LET info == [number |-> t, max_sequence |-> MaxSequence(Readable(t)), copy |-> 0]
       IN  IF Sound(t)
           THEN /\ tables_' = tables_ \union {info}
                /\ UNCHANGED <<pc, copying, next_file_number_>>
           ELSE /\ copying' = [info EXCEPT !.copy = next_file_number_]
                /\ next_file_number_' = next_file_number_ + 1
                /\ pc' = "copy" /\ UNCHANGED tables_
    /\ UNCHANGED <<files, logs_, descriptor, crashes>>

(* RepairTable, when no file can be created for the copy.                      *)
CreateFails == /\ pc = "copy" /\ "create" \in Faults
               /\ pc' = "scan" /\ copying' = NoCopy
               /\ UNCHANGED <<files, next_file_number_, logs_, table_numbers_, tables_, descriptor, crashes>>

(* A copy is begun of what can be read now.                                    *)
Copied(t, again) == [entries |-> Readable(t) \union again, whole |-> FALSE]

(* Slip: the source stays where the copy will be renamed to.                   *)
CopyOnly(again) == /\ tables' = With(tables, copying.copy, Copied(copying.number, again))
                   /\ UNCHANGED lost

CopyAndArchive(again) ==
    /\ tables' = With(Without(tables, copying.number), copying.copy, Copied(copying.number, again))
    /\ Archive("table", copying.number, tables[copying.number].entries)

CopyTable == /\ pc = "copy" /\ pc' = "finish"
             /\ \E again \in SUBSET (IF Transient THEN tables[copying.number].entries \ Readable(copying.number) ELSE {}) :
                    CopyAndArchive(again)
             /\ UNCHANGED <<damaged, logs, garbled, disk, repairer, descriptor, crashes>>

(* Finish, Close or the renaming fails: the copy is deleted.  Without an entry *)
(* it is abandoned, and the empty file stays.                                  *)
FinishFails ==
    /\ pc = "finish" /\ pc' = "scan" /\ copying' = NoCopy
    /\ \/ /\ "finish" \in Faults /\ tables' = Without(tables, copying.copy)
       \/ /\ tables[copying.copy].entries = {} /\ UNCHANGED tables
    /\ UNCHANGED <<damaged, logs, garbled, lost, disk, next_file_number_, logs_, table_numbers_, tables_, descriptor, crashes>>

(* The finished copy takes the name of the table, and the TableInfo of the     *)
(* first scan.                                                                 *)
RenameCopy ==
    /\ pc = "finish" /\ pc' = "scan" /\ tables[copying.copy].entries # {}
    /\ tables' = With(Without(tables, copying.copy), copying.number, [tables[copying.copy] EXCEPT !.whole = TRUE])
    /\ damaged' = damaged \ tables[copying.copy].entries
    /\ tables_' = tables_ \union {[copying EXCEPT !.copy = 0]}
    /\ copying' = NoCopy
    /\ UNCHANGED <<logs, garbled, lost, disk, next_file_number_, logs_, table_numbers_, descriptor, crashes>>

NextFile == next_file_number_

(* WriteDescriptor: the edit goes to a temporary file,                         *)
WriteTemp == /\ pc = "scan" /\ table_numbers_ = {} /\ pc' = "archive manifests"
             /\ descriptor' = [files |-> {t.number : t \in tables_}, next |-> NextFile,
                               last_sequence |-> Largest({t.max_sequence : t \in tables_})]
             /\ disk' = [disk EXCEPT !.tmp = TRUE]
             /\ UNCHANGED <<damaged, tables, logs, garbled, lost, repairer, crashes>>

(* the old manifests are archived,                                             *)
ArchiveManifests == /\ pc = "archive manifests" /\ pc' = "install"
                    /\ disk' = [disk EXCEPT !.manifest = "none"]
                    /\ UNCHANGED <<damaged, tables, logs, garbled, lost, repairer, descriptor, crashes>>

(* the temporary file becomes the manifest, and CURRENT names it.              *)
Install == /\ pc = "install" /\ pc' = "current"
           /\ disk' = [disk EXCEPT !.manifest = "new", !.tmp = FALSE]
           /\ UNCHANGED <<damaged, tables, logs, garbled, lost, repairer, descriptor, crashes>>

SetCurrentFile == /\ pc = "current" /\ pc' = "done"
                  /\ disk' = [disk EXCEPT !.current = "new"]
                  /\ UNCHANGED <<damaged, tables, logs, garbled, lost, repairer, descriptor, crashes>>

(* The database is opened: DBImpl::DeleteObsoleteFiles deletes every table     *)
(* that the descriptor does not list.                                          *)
OpenDatabase == /\ pc = "done" /\ pc' = "open"
                /\ tables' = Restrict(tables, descriptor.files)
                /\ UNCHANGED <<damaged, logs, garbled, lost, disk, repairer, descriptor, crashes>>

(* The process dies; the table it was writing may be there, unfinished.        *)
Crash == /\ pc \in CrashAt /\ crashes < MaxCrashes /\ crashes' = crashes + 1
         /\ pc' = "find" /\ next_file_number_' = 1 /\ logs_' = {} /\ table_numbers_' = {} /\ tables_' = {}
         /\ tables' \in IF pc = "finish" THEN {With(tables, copying.copy, Unfinished)}
                        ELSE IF pc = "copy" THEN {tables, With(tables, copying.copy, Unfinished)}
                        ELSE IF pc = "convert" /\ logs_ # {} THEN {tables, With(tables, next_file_number_, Unfinished)}
                        ELSE {tables}
         /\ copying' = NoCopy
         /\ UNCHANGED <<damaged, logs, garbled, lost, disk, descriptor>>

Next == \/ FindFiles \/ Converted \/ ArchiveLog \/ CreateFails \/ CopyTable \/ FinishFails \/ RenameCopy
        \/ WriteTemp \/ ArchiveManifests \/ Install \/ SetCurrentFile \/ OpenDatabase \/ Crash
        \/ \E l \in logs_ : ConvertLogToTable(l)
        \/ \E t \in table_numbers_ : ScanTable(t)

Spec == Init /\ [][Next]_vars
-----------------------------------------------------------------------------
Kept == (UNION {tables[t].entries : t \in DOMAIN tables}) \union (UNION {logs[l] : l \in DOMAIN logs})
            \union (UNION {lost[n] : n \in DOMAIN lost})

(* Repair destroys nothing, whatever fails and whenever it dies, and neither   *)
(* does opening the database afterwards: every update is in a file of the      *)
(* database or in "lost".                                                      *)
NothingDestroyed == Entries \subseteq Kept

Recovered == UNION {tables[t].entries : t \in descriptor.files}

(* Every update that can be read is in the repaired database: a table is       *)
(* replaced by its copy, logs by tables, whenever the process dies.            *)
EverythingRecovered == pc = "done" => Entries \ damaged \subseteq Recovered

(* No new file takes the number of one that is there: "next-file-number is     *)
(* set to 1 + largest file number we found", also after files were made here.  *)
NumbersUnused == pc = "done" => \A t \in DOMAIN tables : t < descriptor.next

(* "last-sequence-number is set to largest sequence# found across all tables". *)
LastSequenceCovers == pc = "done" => \A e \in Recovered : e <= descriptor.last_sequence
-----------------------------------------------------------------------------
(* Proofs.  What every repair keeps to is RepairInv: it needs nothing but      *)
(* that the number of updates is one.                                          *)
ConstantsOK == Updates \in Nat

Readings == 1..(Updates + Updates)

Info == [number : Nat, max_sequence : 0..(Updates + Updates), copy : Nat]

(* The numbers of the tables that were scanned.                                *)
Listed == {info.number : info \in tables_}

Converting == {"convert", "archive log"}
Scanned == {"archive manifests", "install", "current", "done", "open"}

TableFile == [entries : SUBSET Readings, whole : BOOLEAN]

FilesTyped ==
    /\ damaged \subseteq Entries /\ garbled \subseteq Entries
    /\ DOMAIN tables \subseteq Nat \ {0} /\ \A t \in DOMAIN tables : tables[t] \in TableFile
    /\ DOMAIN logs \subseteq Nat \ {0} /\ \A l \in DOMAIN logs : logs[l] \subseteq Entries

RunTyped ==
    /\ pc \in {"find", "scan", "copy", "finish"} \union Converting \union Scanned
    /\ next_file_number_ \in Nat \ {0} /\ copying \in Info /\ tables_ \subseteq Info
    /\ descriptor \in [files : SUBSET Nat, next : Nat, last_sequence : 0..(Updates + Updates)]
    /\ crashes \in Nat

TypeOK == FilesTyped /\ RunTyped

(* There is a largest number of a file.                                        *)
Bounded == \E b \in Nat : \A k \in DOMAIN tables \union DOMAIN logs : k <= b

(* Numbers from next_file_number_ on are not in use.                           *)
Fresh == /\ pc = "find" => logs_ = {} /\ table_numbers_ = {} /\ tables_ = {}
         /\ pc # "find" => \A k \in DOMAIN tables \union DOMAIN logs : k < next_file_number_

(* The logs that were found and not archived are those that are there.         *)
LogsListed == /\ pc # "find" => logs_ = DOMAIN logs
              /\ pc \notin Converting => logs_ = {}
              /\ pc = "archive log" => copying.number \in logs_

(* The tables to scan, the ones scanned, and the one that is copied differ.    *)
TablesListed ==
    /\ table_numbers_ \subseteq DOMAIN tables /\ Listed \subseteq DOMAIN tables
    /\ table_numbers_ \intersect Listed = {}
    /\ pc = "copy" => /\ copying.number \in DOMAIN tables
                      /\ copying.number \notin table_numbers_ \union Listed
                      /\ copying.copy \notin DOMAIN tables
    /\ pc = "finish" => /\ copying.copy \in DOMAIN tables
                        /\ copying.copy \notin table_numbers_ \union Listed
                        /\ copying.number \notin DOMAIN tables
    /\ pc \in {"copy", "finish"} => /\ copying.copy < next_file_number_
                                    /\ 0 < copying.number /\ copying.number < copying.copy

(* The descriptor is about what was scanned.                                   *)
Described == pc \in Scanned =>
    /\ table_numbers_ = {}
    /\ descriptor.files = Listed /\ descriptor.next = next_file_number_
    /\ descriptor.last_sequence = Largest({t.max_sequence : t \in tables_})

RepairInv == TypeOK /\ Bounded /\ Fresh /\ LogsListed /\ TablesListed /\ Described

(* A set of bounded numbers that is not empty has a largest: the least bound.  *)
LEMMA LargestIs ==
    ASSUME NEW b \in Nat, NEW S \in SUBSET (0..b), S # {}
    PROVE  Largest(S) \in S /\ \A e \in S : e <= Largest(S)
<1> DEFINE Bounds == {n \in Nat : \A e \in S : e <= n}
           Less == OpToRel(<, Nat)
<1>1. b \in Bounds
  OBVIOUS
<1>2. PICK n \in Bounds : \A m \in Bounds : ~(<<m, n>> \in Less)
  <2>1. Bounds \subseteq Nat /\ Bounds # {}
    BY <1>1
  <2>2. IsWellFoundedOn(Less, Nat)
    BY NatLessThanWellFounded
  <2> HIDE DEF Bounds, Less
  <2> QED
    BY <2>1, <2>2, WFMin
<1>3. \A m \in Bounds : n <= m
  <2>1. Less = {ss \in Nat \X Nat : ss[1] < ss[2]}
    BY DEF OpToRel
  <2>2. \A m \in Nat : m < n => <<m, n>> \in Less
    BY <2>1
  <2>3. n \in Nat
    OBVIOUS
  <2> SUFFICES ASSUME NEW m \in Bounds PROVE n <= m
    OBVIOUS
  <2>4. m \in Nat
    OBVIOUS
  <2>5. <<m, n>> \notin Less
    BY <1>2
  <2> HIDE DEF Bounds, Less
  <2>6. ~(m < n)
    BY <2>2, <2>4, <2>5
  <2> QED
    BY <2>3, <2>4, <2>6
<1> HIDE DEF Less
<1>5. n \in Nat /\ \A e \in S : e \in Nat /\ e <= n
  BY <1>2
<1>4. n \in S
  <2> SUFFICES ASSUME n \notin S PROVE FALSE
    OBVIOUS
  <2>1. n # 0
    <3>1. PICK e \in S : TRUE
      OBVIOUS
    <3> QED
      BY <3>1, <1>5
  <2>2. n - 1 \in Bounds
    BY <2>1, <1>5
  <2> QED
    BY <1>3, <2>2
<1>6. \E e \in S : \A f \in S : e >= f
  BY <1>5, <1>4
<1> QED
  BY <1>6, <1>5 DEF Largest

(* The largest number of a set that may be empty.                              *)
LEMMA LargestBounds ==
    ASSUME NEW b \in Nat, NEW S \in SUBSET (0..b)
    PROVE  Largest(S) \in 0..b /\ \A e \in S : e <= Largest(S)
<1>1. CASE S = {}
  BY <1>1 DEF Largest
<1>2. CASE S # {}
  BY <1>2, LargestIs
<1> QED
  BY <1>1, <1>2

(* FindFiles finds a number above those of the files.                          *)
LEMMA NextNumberFresh ==
    ASSUME TypeOK, Bounded
    PROVE  NextNumber \in Nat \ {0} /\ \A k \in DOMAIN tables \union DOMAIN logs : k < NextNumber
<1> DEFINE D == DOMAIN tables \union DOMAIN logs
<1>1. PICK b \in Nat : \A k \in D : k <= b
  BY DEF Bounded
<1>2. D \in SUBSET (0..b)
  BY <1>1 DEF TypeOK, FilesTyped
<1>3. Largest(D) \in 0..b /\ \A k \in D : k <= Largest(D)
  BY <1>2, LargestBounds
<1> QED
  BY <1>2, <1>3 DEF NextNumber

(* What can be read of a table, and its largest sequence number.               *)
LEMMA ReadableIs ==
    ASSUME ConstantsOK, TypeOK, NEW t \in DOMAIN tables
    PROVE  /\ Readable(t) \subseteq tables[t].entries /\ Readable(t) \subseteq Readings
           /\ MaxSequence(Readable(t)) \in 0..(Updates + Updates)
           /\ \A e \in Readable(t) : e <= MaxSequence(Readable(t))
           /\ Sound(t) => tables[t].entries = Readable(t)
<1>1. Readable(t) \subseteq tables[t].entries /\ Readable(t) \subseteq Readings
  BY DEF Readable, TypeOK, FilesTyped, TableFile
<1>2. Readable(t) \in SUBSET (0..(Updates + Updates)) /\ Updates + Updates \in Nat
  BY <1>1 DEF Readings, ConstantsOK
<1>3. Sound(t) => tables[t].entries = Readable(t)
  BY DEF Sound, Readable
<1> HIDE DEF Readable
<1> QED
  BY <1>1, <1>2, <1>3, LargestBounds DEF MaxSequence

(* What conversion reads of a log is a sequence number of a table.             *)
LEMMA RecordsTyped ==
    ASSUME ConstantsOK, NEW l \in DOMAIN logs, logs[l] \subseteq Entries
    PROVE  RecordsOf(l) \subseteq Readings
<1>1. \A e \in Entries : e \in Readings /\ Garbled(e) \in Readings
  BY DEF ConstantsOK, Entries, Readings, Garbled
<1> QED
  BY <1>1 DEF RecordsOf

(* No table is being copied, and an unfinished file is a file.                 *)
LEMMA NothingTyped ==
    ASSUME ConstantsOK
    PROVE  NoCopy \in Info /\ Unfinished \in TableFile
  BY DEF ConstantsOK, NoCopy, Info, Unfinished, TableFile

(* The steps of WriteDescriptor.                                               *)
DescriptorSteps == WriteTemp \/ ArchiveManifests \/ Install \/ SetCurrentFile

(* The database as it was found: nothing is done yet.                          *)
LEMMA InitInv == ConstantsOK /\ Init => RepairInv
<1> SUFFICES ASSUME ConstantsOK, Init PROVE RepairInv
  OBVIOUS
<1>1. /\ DOMAIN tables = {3, 4} /\ DOMAIN logs = {5} /\ damaged \subseteq Entries
      /\ \A t \in DOMAIN tables : tables[t].entries \subseteq Entries /\ tables[t] \in [entries : SUBSET Entries, whole : BOOLEAN]
      /\ \A l \in DOMAIN logs : logs[l] \subseteq Entries
  BY DEF Init, OldTables, OldLog
<1>2. Entries \subseteq Readings
  BY DEF Entries, Readings, ConstantsOK
<1>3. garbled \subseteq Entries
  BY <1>1 DEF Init, OldLog
<1>4. FilesTyped
  BY <1>1, <1>2, <1>3 DEF FilesTyped, TableFile
<1>5. RunTyped
  <2>1. NoDescriptor \in [files : SUBSET Nat, next : Nat, last_sequence : 0..(Updates + Updates)]
    BY DEF NoDescriptor, ConstantsOK
  <2> QED
    BY <2>1, NothingTyped DEF Init, RunTyped
<1>6. Bounded
  <2>1. 5 \in Nat /\ \A k \in DOMAIN tables \union DOMAIN logs : k <= 5
    BY <1>1
  <2> QED
    BY <2>1 DEF Bounded
<1>7. Fresh /\ LogsListed /\ TablesListed /\ Described
  BY DEF Init, Fresh, LogsListed, TablesListed, Described, Converting, Scanned, Listed
<1> QED
  BY <1>4, <1>5, <1>6, <1>7 DEF RepairInv, TypeOK

(* Files keep their types.                                                     *)
LEMMA FilesStep ==
    ASSUME ConstantsOK, RepairInv, Next
    PROVE  FilesTyped'
<1>1. FilesTyped /\ RunTyped
  BY DEF RepairInv, TypeOK
<1>2. CASE UNCHANGED files
  BY <1>1, <1>2 DEF FilesTyped, files
<1>3. CASE \E l \in logs_ : ConvertLogToTable(l)
  <2> PICK l \in logs_ : ConvertLogToTable(l)
    BY <1>3
  <2>1. l \in DOMAIN logs /\ next_file_number_ \in Nat \ {0}
    BY <1>1 DEF ConvertLogToTable, RepairInv, LogsListed, RunTyped
  <2>2. [entries |-> RecordsOf(l), whole |-> TRUE] \in TableFile
    BY <1>1, <2>1, RecordsTyped DEF TableFile, FilesTyped
  <2>a. tables' \in {tables, With(tables, next_file_number_, [entries |-> RecordsOf(l), whole |-> TRUE])}
    BY DEF ConvertLogToTable
  <2>3. DOMAIN tables' \subseteq Nat \ {0} /\ \A t \in DOMAIN tables' : tables'[t] \in TableFile
    BY <1>1, <2>1, <2>2, <2>a DEF With, FilesTyped
  <2> QED
    BY <1>1, <2>3 DEF ConvertLogToTable, FilesTyped
<1>4. CASE ArchiveLog
  BY <1>1, <1>4 DEF ArchiveLog, Without, Restrict, FilesTyped
<1>5. CASE CopyTable
  <2>1. copying.number \in DOMAIN tables /\ copying.copy \in Nat \ {0}
    BY <1>1, <1>5 DEF CopyTable, RepairInv, TablesListed, RunTyped, Info
  <2>2. PICK again \in SUBSET tables[copying.number].entries : CopyAndArchive(again)
    BY <1>5 DEF CopyTable
  <2>3. Copied(copying.number, again) \in TableFile
    BY <1>1, <2>1, <2>2, ReadableIs DEF Copied, RepairInv, FilesTyped, TableFile
  <2> QED
    BY <1>1, <1>5, <2>1, <2>2, <2>3 DEF CopyTable, CopyAndArchive, With, Without, Restrict, FilesTyped
<1>6. CASE FinishFails
  BY <1>1, <1>6 DEF FinishFails, Without, Restrict, FilesTyped
<1>7. CASE RenameCopy
  <2>1. copying.copy \in DOMAIN tables /\ copying.number \in Nat
    BY <1>1, <1>7 DEF RenameCopy, RepairInv, TablesListed, RunTyped, Info
  <2>2. [tables[copying.copy] EXCEPT !.whole = TRUE] \in TableFile
    BY <1>1, <2>1 DEF FilesTyped, TableFile
  <2>3. copying.number # 0
    BY <1>1, <1>7 DEF RenameCopy, RepairInv, TablesListed, RunTyped, Info
  <2> QED
    BY <1>1, <1>7, <2>1, <2>2, <2>3 DEF RenameCopy, With, Without, Restrict, FilesTyped
<1>8. CASE OpenDatabase
  <2>1. descriptor.files \subseteq DOMAIN tables
    BY <1>8 DEF OpenDatabase, RepairInv, Described, TablesListed, Scanned
  <2> QED
    BY <1>1, <1>8, <2>1 DEF OpenDatabase, Restrict, FilesTyped
<1>9. CASE Crash
  <2>1. pc \in {"copy", "finish"} => copying.copy \in Nat \ {0}
    BY <1>1 DEF Info, RepairInv, TablesListed, RunTyped
  <2>2. tables' = tables \/ \E c \in Nat \ {0} : tables' = With(tables, c, Unfinished)
    BY <1>1, <1>9, <2>1 DEF Crash, RunTyped
  <2>3. DOMAIN tables' \subseteq Nat \ {0} /\ \A t \in DOMAIN tables' : tables'[t] \in TableFile
    BY <1>1, <2>2, NothingTyped DEF With, FilesTyped
  <2> QED
    BY <1>1, <1>9, <2>3 DEF Crash, FilesTyped
<1>10. CASE WriteTemp \/ ArchiveManifests \/ Install \/ SetCurrentFile
  BY <1>1, <1>10 DEF WriteTemp, ArchiveManifests, Install, SetCurrentFile, FilesTyped
<1> QED
  BY <1>2, <1>3, <1>4, <1>5, <1>6, <1>7, <1>8, <1>9, <1>10
  DEF Next, FindFiles, Converted, ScanTable, CreateFails

(* So do the repairer's own variables.                                         *)
LEMMA RunStep ==
    ASSUME ConstantsOK, RepairInv, Next
    PROVE  RunTyped'
<1>1. FilesTyped /\ RunTyped
  BY DEF RepairInv, TypeOK
<1> USE DEF repairer, Converting, Scanned
<1>2. CASE FindFiles
  BY <1>1, <1>2, NextNumberFresh DEF FindFiles, RepairInv, RunTyped
<1>3. CASE \E l \in logs_ : ConvertLogToTable(l)
  <2> PICK l \in logs_ : ConvertLogToTable(l)
    BY <1>3
  <2>1. l \in Nat
    BY <1>1 DEF ConvertLogToTable, RepairInv, LogsListed, FilesTyped
  <2>2. copying' \in Info
    BY <2>1, NothingTyped DEF ConvertLogToTable, Info
  <2>3. /\ pc' = "archive log" /\ next_file_number_' = next_file_number_ + 1
        /\ UNCHANGED <<tables_, descriptor, crashes>>
    BY DEF ConvertLogToTable
  <2>a. next_file_number_ \in Nat /\ tables_ \subseteq Info
    BY <1>1 DEF RunTyped
  <2>b. next_file_number_' = next_file_number_ + 1 /\ tables_' = tables_
    BY <2>3
  <2>4. next_file_number_' \in Nat \ {0} /\ tables_' \subseteq Info
    BY <2>a, <2>b
  <2> QED
    BY <1>1, <2>2, <2>3, <2>4 DEF RunTyped
<1>4. CASE \E t \in table_numbers_ : ScanTable(t)
  <2> PICK t \in table_numbers_ : ScanTable(t)
    BY <1>4
  <2>1. t \in DOMAIN tables /\ t \in Nat
    BY <1>1 DEF RepairInv, TablesListed, FilesTyped
  <2> DEFINE info == [number |-> t, max_sequence |-> MaxSequence(Readable(t)), copy |-> 0]
  <2>2. MaxSequence(Readable(t)) \in 0..(Updates + Updates)
    BY <2>1, ReadableIs DEF RepairInv
  <2>3. info \in Info /\ (next_file_number_ \in Nat => [info EXCEPT !.copy = next_file_number_] \in Info)
    BY <2>1, <2>2 DEF Info
  <2>4. /\ \/ tables_' = tables_ \union {info} /\ UNCHANGED <<pc, copying, next_file_number_>>
           \/ /\ copying' = [info EXCEPT !.copy = next_file_number_] /\ pc' = "copy"
              /\ next_file_number_' = next_file_number_ + 1 /\ tables_' = tables_
        /\ UNCHANGED <<descriptor, crashes>>
    BY DEF ScanTable
  <2> HIDE DEF info
  <2>5. next_file_number_ \in Nat \ {0} /\ tables_ \subseteq Info /\ copying \in Info
    BY <1>1 DEF RunTyped
  <2>6. tables_' \subseteq Info /\ copying' \in Info /\ next_file_number_' \in Nat \ {0}
    BY <2>3, <2>4, <2>5
  <2>7. pc' \in {pc, "copy"} /\ UNCHANGED <<descriptor, crashes>>
    BY <2>4
  <2> QED
    BY <1>1, <2>6, <2>7 DEF RunTyped
<1>5. CASE RenameCopy
  <2>1. [copying EXCEPT !.copy = 0] \in Info
    BY <1>1 DEF Info, RunTyped
  <2> QED
    BY <1>1, <1>5, <2>1, NothingTyped DEF RenameCopy, RunTyped
<1>6. CASE WriteTemp
  <2>1. {t.number : t \in tables_} \subseteq Nat
    BY <1>1 DEF Info, RunTyped
  <2>2. {t.max_sequence : t \in tables_} \in SUBSET (0..(Updates + Updates)) /\ Updates + Updates \in Nat
    <3>1. \A t \in tables_ : t.max_sequence \in 0..(Updates + Updates)
      BY <1>1 DEF Info, RunTyped
    <3> QED
      BY <3>1 DEF ConstantsOK
  <2>3. Largest({t.max_sequence : t \in tables_}) \in 0..(Updates + Updates)
    BY <2>2, LargestBounds
  <2> QED
    BY <1>1, <1>6, <2>1, <2>3 DEF WriteTemp, NextFile, RunTyped
<1>7. CASE Crash
  <2>1. /\ crashes' = crashes + 1 /\ pc' = "find" /\ next_file_number_' = 1 /\ tables_' = {}
        /\ copying' = NoCopy /\ descriptor' = descriptor
    BY <1>7 DEF Crash
  <2>2. NoCopy \in Info
    BY NothingTyped
  <2>a. crashes \in Nat
    BY <1>1 DEF RunTyped
  <2>3. crashes' \in Nat /\ next_file_number_' \in Nat \ {0} /\ tables_' \subseteq Info /\ copying' \in Info
    BY <2>a, <2>1, <2>2
  <2> QED
    BY <1>1, <2>1, <2>3 DEF RunTyped
<1>8. CASE ArchiveLog \/ CreateFails \/ FinishFails
  BY <1>1, <1>8, NothingTyped DEF ArchiveLog, CreateFails, FinishFails, RunTyped
<1>9. CASE Converted \/ CopyTable \/ ArchiveManifests \/ Install \/ SetCurrentFile \/ OpenDatabase
  BY <1>1, <1>9 DEF Converted, CopyTable, ArchiveManifests, Install, SetCurrentFile, OpenDatabase, RunTyped
<1> QED
  BY <1>2, <1>3, <1>4, <1>5, <1>6, <1>7, <1>8, <1>9 DEF Next

(* At most one number is new among the files.                                  *)
LEMMA BoundedStep ==
    ASSUME ConstantsOK, RepairInv, Next
    PROVE  Bounded'
<1>1. FilesTyped /\ RunTyped /\ next_file_number_ \in Nat /\ copying.number \in Nat /\ copying.copy \in Nat
  BY DEF RepairInv, TypeOK, RunTyped, Info
<1>2. \E c \in Nat : DOMAIN tables' \union DOMAIN logs' \subseteq DOMAIN tables \union DOMAIN logs \union {c}
  <2>1. CASE UNCHANGED <<tables, logs>>
    BY <2>1, <1>1
  <2>2. CASE \E l \in logs_ : ConvertLogToTable(l)
    BY <2>2, <1>1 DEF ConvertLogToTable, With
  <2>3. CASE ArchiveLog
    BY <2>3, <1>1 DEF ArchiveLog, Without, Restrict
  <2>4. CASE CopyTable
    BY <2>4, <1>1 DEF CopyTable, CopyAndArchive, With, Without, Restrict
  <2>5. CASE FinishFails
    BY <2>5, <1>1 DEF FinishFails, Without, Restrict
  <2>6. CASE RenameCopy
    BY <2>6, <1>1 DEF RenameCopy, With, Without, Restrict
  <2>7. CASE OpenDatabase
    <3>1. descriptor.files \subseteq DOMAIN tables
      BY <2>7 DEF OpenDatabase, RepairInv, Described, TablesListed, Scanned
    <3> QED
      BY <2>7, <3>1, <1>1 DEF OpenDatabase, Restrict
  <2>8. CASE Crash
    BY <2>8, <1>1 DEF Crash, With
  <2> QED
    BY <2>1, <2>2, <2>3, <2>4, <2>5, <2>6, <2>7, <2>8
    DEF Next, FindFiles, Converted, ScanTable, CreateFails, WriteTemp, ArchiveManifests, Install,
        SetCurrentFile, files
<1>3. PICK c \in Nat : DOMAIN tables' \union DOMAIN logs' \subseteq DOMAIN tables \union DOMAIN logs \union {c}
  BY <1>2
<1>4. PICK b \in Nat : \A k \in DOMAIN tables \union DOMAIN logs : k <= b
  BY DEF RepairInv, Bounded
<1>5. \A k \in DOMAIN tables \union DOMAIN logs : k \in Nat
  BY <1>1 DEF FilesTyped
<1>6. \A k \in DOMAIN tables' \union DOMAIN logs' : k <= b + c
  BY <1>3, <1>4, <1>5
<1> QED
  BY <1>6 DEF Bounded

(* A number that is given to a new file is below next_file_number_ from then on. *)
LEMMA FreshStep ==
    ASSUME ConstantsOK, RepairInv, Next
    PROVE  Fresh'
<1>1. /\ FilesTyped /\ RunTyped /\ Fresh /\ TablesListed
      /\ next_file_number_ \in Nat /\ copying.number \in Nat /\ copying.copy \in Nat
  BY DEF RepairInv, TypeOK, RunTyped, Info
<1>2. \A k \in DOMAIN tables \union DOMAIN logs : k \in Nat
  BY <1>1 DEF FilesTyped
<1>3. CASE FindFiles
  <2>1. \A k \in DOMAIN tables \union DOMAIN logs : k < NextNumber
    BY NextNumberFresh DEF RepairInv
  <2> QED
    BY <1>3, <2>1 DEF FindFiles, Fresh, files
<1>4. CASE Crash
  BY <1>4 DEF Crash, Fresh
<1>5. CASE \E l \in logs_ : ConvertLogToTable(l)
  <2>1. /\ pc = "convert" /\ pc' = "archive log" /\ next_file_number_' = next_file_number_ + 1 /\ logs' = logs
        /\ DOMAIN tables' \subseteq DOMAIN tables \union {next_file_number_}
    BY <1>5 DEF ConvertLogToTable, With
  <2>2. \A k \in DOMAIN tables \union DOMAIN logs : k < next_file_number_
    BY <1>1, <2>1 DEF Fresh
  <2>3. \A k \in DOMAIN tables' \union DOMAIN logs' : k < next_file_number_ + 1
    <3>1. /\ next_file_number_ < next_file_number_ + 1
          /\ \A k \in DOMAIN tables \union DOMAIN logs : k < next_file_number_ + 1
      BY <1>1, <1>2, <2>2
    <3> QED
      BY <2>1, <3>1
  <2> QED
    BY <2>1, <2>3 DEF Fresh
<1>6. CASE \E t \in table_numbers_ : ScanTable(t)
  <2>1. /\ pc = "scan" /\ pc' \in {"scan", "copy"} /\ UNCHANGED <<tables, logs>>
        /\ next_file_number_' \in {next_file_number_, next_file_number_ + 1}
    BY <1>6 DEF ScanTable, files
  <2>2. \A k \in DOMAIN tables \union DOMAIN logs : k < next_file_number_
    BY <1>1, <2>1 DEF Fresh
  <2>3. \A k \in DOMAIN tables \union DOMAIN logs : k < next_file_number_ + 1
    BY <1>1, <1>2, <2>2
  <2> QED
    BY <2>1, <2>2, <2>3 DEF Fresh
<1>7. CASE CopyTable
  <2>1. /\ pc = "copy" /\ pc' = "finish" /\ next_file_number_' = next_file_number_ /\ logs' = logs
        /\ DOMAIN tables' \subseteq DOMAIN tables \union {copying.copy}
    BY <1>7 DEF CopyTable, CopyAndArchive, With, Without, Restrict, repairer
  <2>2. copying.copy < next_file_number_
    BY <1>1, <2>1 DEF TablesListed
  <2> QED
    BY <1>1, <2>1, <2>2 DEF Fresh
<1>8. CASE RenameCopy
  <2>1. /\ pc = "finish" /\ pc' = "scan" /\ next_file_number_' = next_file_number_ /\ logs' = logs
        /\ DOMAIN tables' \subseteq DOMAIN tables \union {copying.number}
    BY <1>8 DEF RenameCopy, With, Without, Restrict
  <2>2. copying.copy < next_file_number_ /\ copying.number < copying.copy
    BY <1>1, <2>1 DEF TablesListed
  <2>3. copying.number < next_file_number_
    BY <1>1, <2>2
  <2> QED
    BY <1>1, <2>1, <2>3 DEF Fresh
<1>9. CASE ArchiveLog
  BY <1>1, <1>9 DEF ArchiveLog, Without, Restrict, Fresh
<1>10. CASE FinishFails
  BY <1>1, <1>10 DEF FinishFails, Without, Restrict, Fresh
<1>11. CASE OpenDatabase
  <2>1. descriptor.files \subseteq DOMAIN tables
    BY <1>11 DEF OpenDatabase, RepairInv, Described, TablesListed, Scanned
  <2> QED
    BY <1>1, <1>11, <2>1 DEF OpenDatabase, Restrict, repairer, Fresh
<1>12. CASE Converted \/ CreateFails
  BY <1>1, <1>12 DEF Converted, CreateFails, files, repairer, Fresh
<1>13. CASE DescriptorSteps
  BY <1>1, <1>13 DEF DescriptorSteps, WriteTemp, ArchiveManifests, Install, SetCurrentFile, repairer, Fresh
<1> QED
  BY <1>3, <1>4, <1>5, <1>6, <1>7, <1>8, <1>9, <1>10, <1>11, <1>12, <1>13 DEF Next, DescriptorSteps

(* The list of logs follows the directory.                                     *)
LEMMA LogsListedStep ==
    ASSUME RepairInv, Next
    PROVE  LogsListed'
<1>1. LogsListed
  BY DEF RepairInv
<1> USE DEF LogsListed, Converting
<1>2. CASE \E l \in logs_ : ConvertLogToTable(l)
  <2> PICK l \in logs_ : ConvertLogToTable(l)
    BY <1>2
  <2>1. /\ pc = "convert" /\ pc' = "archive log" /\ UNCHANGED <<logs, logs_>>
        /\ copying'.number = l
    BY DEF ConvertLogToTable, NoCopy
  <2> QED
    BY <1>1, <2>1
<1>3. CASE \E t \in table_numbers_ : ScanTable(t)
  <2>1. pc = "scan" /\ pc' \in {"scan", "copy"} /\ UNCHANGED <<logs, logs_>>
    BY <1>3 DEF ScanTable, files
  <2> QED
    BY <1>1, <2>1
<1>4. CASE Crash
  BY <1>1, <1>4 DEF Crash
<1>5. CASE ArchiveLog
  BY <1>1, <1>5 DEF ArchiveLog, Without, Restrict
<1>6. CASE FindFiles \/ Converted
  BY <1>1, <1>6 DEF FindFiles, Converted, files, repairer
<1>7. CASE CreateFails \/ CopyTable \/ FinishFails \/ RenameCopy \/ OpenDatabase
  BY <1>1, <1>7 DEF CreateFails, CopyTable, FinishFails, RenameCopy, OpenDatabase, files, repairer
<1>8. CASE DescriptorSteps
  BY <1>1, <1>8 DEF DescriptorSteps, WriteTemp, ArchiveManifests, Install, SetCurrentFile, repairer
<1> QED
  BY <1>2, <1>3, <1>4, <1>5, <1>6, <1>7, <1>8 DEF Next, DescriptorSteps

(* The three kinds of tables stay apart: a table leaves one list when it       *)
(* enters another, and copies have numbers of their own.                       *)
LEMMA TablesListedStep ==
    ASSUME ConstantsOK, RepairInv, Next
    PROVE  TablesListed'
<1>1. /\ TablesListed /\ Fresh
      /\ next_file_number_ \in Nat /\ copying.number \in Nat /\ copying.copy \in Nat
  BY DEF RepairInv, TypeOK, RunTyped, Info
<1>2. DOMAIN tables \subseteq Nat \ {0}
  BY DEF RepairInv, TypeOK, FilesTyped
<1>3. CASE FindFiles
  BY <1>1, <1>3 DEF FindFiles, files, Fresh, TablesListed, Listed
<1>4. CASE Crash
  BY <1>4 DEF Crash, TablesListed, Listed
<1>5. CASE \E l \in logs_ : ConvertLogToTable(l)
  <2>1. /\ pc = "convert" /\ pc' = "archive log" /\ tables_' = tables_
        /\ \/ UNCHANGED <<tables, table_numbers_>>
           \/ /\ DOMAIN tables' = DOMAIN tables \union {next_file_number_}
              /\ table_numbers_' = table_numbers_ \union {next_file_number_}
    BY <1>5 DEF ConvertLogToTable, With
  <2>2. next_file_number_ \notin DOMAIN tables
    <3>1. \A k \in DOMAIN tables : k < next_file_number_
      BY <1>1, <2>1 DEF Fresh
    <3> QED
      BY <1>1, <3>1
  <2> QED
    BY <1>1, <2>1, <2>2 DEF TablesListed, Listed
<1>6. CASE \E t \in table_numbers_ : ScanTable(t)
  <2> PICK t \in table_numbers_ : ScanTable(t)
    BY <1>6
  <2>1. t \in DOMAIN tables /\ t \notin Listed /\ pc = "scan" /\ tables' = tables
    BY <1>1 DEF ScanTable, TablesListed, files
  <2>2. table_numbers_' = table_numbers_ \ {t}
    BY DEF ScanTable
  <2>3. \A k \in DOMAIN tables : k < next_file_number_
    BY <1>1, <2>1 DEF Fresh
  <2>4. CASE Sound(t)
    <3>1. Listed' = Listed \union {t} /\ pc' = "scan"
      <4>1. PICK info : info.number = t /\ tables_' = tables_ \union {info}
        BY <2>4 DEF ScanTable
      <4> QED
        BY <2>1, <2>4, <4>1 DEF ScanTable, Listed
    <3> QED
      BY <1>1, <2>1, <2>2, <3>1 DEF TablesListed
  <2>5. CASE ~Sound(t)
    <3>1. /\ copying'.number = t /\ copying'.copy = next_file_number_
          /\ next_file_number_' = next_file_number_ + 1
          /\ pc' = "copy" /\ Listed' = Listed
      BY <2>5 DEF ScanTable, Listed
    <3>2. t < next_file_number_ /\ 0 < t /\ next_file_number_ < next_file_number_ + 1
      BY <1>1, <1>2, <2>1, <2>3
    <3>3. next_file_number_ \notin DOMAIN tables
      BY <1>1, <2>3
    <3> QED
      BY <1>1, <2>1, <2>2, <3>1, <3>2, <3>3 DEF TablesListed
  <2> QED
    BY <2>4, <2>5
<1>7. CASE CopyTable
  <2>1. /\ pc = "copy" /\ pc' = "finish" /\ UNCHANGED <<table_numbers_, tables_, copying, next_file_number_>>
        /\ DOMAIN tables' = (DOMAIN tables \ {copying.number}) \union {copying.copy}
    BY <1>7 DEF CopyTable, CopyAndArchive, With, Without, Restrict, repairer
  <2> QED
    BY <1>1, <2>1 DEF TablesListed, Listed, repairer
<1>8. CASE RenameCopy
  <2>1. /\ pc = "finish" /\ pc' = "scan" /\ table_numbers_' = table_numbers_
        /\ DOMAIN tables' = (DOMAIN tables \ {copying.copy}) \union {copying.number}
    BY <1>8 DEF RenameCopy, With, Without, Restrict
  <2>2. Listed' = Listed \union {copying.number}
    <3>1. copying \in Info
      BY DEF RepairInv, TypeOK, RunTyped
    <3>2. PICK info : info.number = copying.number /\ tables_' = tables_ \union {info}
      BY <1>8, <3>1 DEF RenameCopy, Info
    <3> QED
      BY <3>2 DEF Listed
  <2> QED
    BY <1>1, <2>1, <2>2 DEF TablesListed
<1>9. CASE FinishFails
  <2>1. /\ pc = "finish" /\ pc' = "scan" /\ UNCHANGED <<table_numbers_, tables_>>
        /\ DOMAIN tables \ {copying.copy} \subseteq DOMAIN tables'
    BY <1>9 DEF FinishFails, Without, Restrict
  <2> QED
    BY <1>1, <2>1 DEF TablesListed, Listed
<1>10. CASE OpenDatabase
  <2>1. DOMAIN tables' = Listed /\ table_numbers_ = {}
    BY <1>10 DEF OpenDatabase, Restrict, RepairInv, Described, Scanned
  <2> QED
    BY <1>1, <1>10, <2>1 DEF OpenDatabase, TablesListed, Listed, repairer
<1>11. CASE ArchiveLog
  BY <1>1, <1>11 DEF ArchiveLog, TablesListed, Listed
<1>12. CASE Converted \/ CreateFails
  BY <1>1, <1>12 DEF Converted, CreateFails, files, repairer, TablesListed, Listed
<1>13. CASE DescriptorSteps
  BY <1>1, <1>13 DEF DescriptorSteps, WriteTemp, ArchiveManifests, Install, SetCurrentFile, repairer,
     TablesListed, Listed
<1> QED
  BY <1>3, <1>4, <1>5, <1>6, <1>7, <1>8, <1>9, <1>10, <1>11, <1>12, <1>13 DEF Next, DescriptorSteps

(* Nothing is scanned or numbered while and after the descriptor is written.   *)
LEMMA DescribedStep ==
    ASSUME RepairInv, Next
    PROVE  Described'
<1>1. Described
  BY DEF RepairInv
<1> USE DEF Scanned
<1>2. CASE WriteTemp
  BY <1>2 DEF WriteTemp, Described, Listed, NextFile, repairer
<1>3. CASE ArchiveManifests \/ Install \/ SetCurrentFile \/ OpenDatabase
  BY <1>1, <1>3 DEF ArchiveManifests, Install, SetCurrentFile, OpenDatabase, Described, Listed, repairer
<1>4. CASE \E l \in logs_ : ConvertLogToTable(l)
  <2>1. pc' = "archive log"
    BY <1>4 DEF ConvertLogToTable
  <2> QED
    BY <2>1 DEF Described
<1>5. CASE \E t \in table_numbers_ : ScanTable(t)
  <2>1. pc' \in {"scan", "copy"}
    BY <1>5 DEF ScanTable
  <2> QED
    BY <2>1 DEF Described
<1>6. CASE FindFiles \/ ArchiveLog \/ Converted \/ CreateFails \/ CopyTable \/ FinishFails \/ RenameCopy \/ Crash
  <2>1. pc' \in {"convert", "scan", "finish", "find"}
    BY <1>6 DEF FindFiles, ArchiveLog, Converted, CreateFails, CopyTable, FinishFails, RenameCopy, Crash
  <2> QED
    BY <2>1 DEF Described
<1> QED
  BY <1>2, <1>3, <1>4, <1>5, <1>6 DEF Next

(* The invariant of every repair.                                              *)
LEMMA RepairStep ==
    ASSUME ConstantsOK, RepairInv, [Next]_vars
    PROVE  RepairInv'
<1>1. CASE UNCHANGED vars
  BY <1>1 DEF vars, files, repairer, RepairInv, TypeOK, FilesTyped, RunTyped, Bounded, Fresh, LogsListed,
     TablesListed, Described, Listed
<1>2. CASE Next
  BY <1>2, FilesStep, RunStep, BoundedStep, FreshStep, LogsListedStep, TablesListedStep, DescribedStep
  DEF RepairInv, TypeOK
<1> QED
  BY <1>1, <1>2

(* The descriptor has the next number of the repair, which is above the files. *)
LEMMA RepairMeans == RepairInv => NumbersUnused
  BY DEF RepairInv, Fresh, Described, Scanned, NumbersUnused

(* RepairDB: the next file number of the descriptor is larger than that of     *)
(* every file that is there, in any number of attempts, whatever fails.        *)
THEOREM NumbersStayUnused ==
    ASSUME ConstantsOK
    PROVE  Spec => []NumbersUnused
<1>1. Init => RepairInv
  BY InitInv
<1>2. RepairInv /\ [Next]_vars => RepairInv'
  BY RepairStep
<1> QED
  BY <1>1, <1>2, RepairMeans, PTL DEF Spec
-----------------------------------------------------------------------------
(* The largest sequence number: what is in a table that was scanned is covered *)
(* by the TableInfo of its first scan, also when the table is replaced by a    *)
(* copy of what could be read.                                                 *)
Covers ==
    /\ \A info \in tables_ : \A e \in tables[info.number].entries : e <= info.max_sequence
    /\ pc = "copy" => \A e \in Readable(copying.number) : e <= copying.max_sequence
    /\ pc = "finish" => \A e \in tables[copying.copy].entries : e <= copying.max_sequence

(* A scanned table stays as it is until the repair is over.                    *)
LEMMA ListedKept ==
    ASSUME RepairInv, Next, pc' # "find"
    PROVE  \A t \in Listed : t \in DOMAIN tables /\ t \in DOMAIN tables' /\ tables'[t] = tables[t]
<1>1. TablesListed /\ Fresh
  BY DEF RepairInv
<1>2. Listed \subseteq DOMAIN tables
  BY <1>1 DEF TablesListed
<1>3. CASE tables' = tables
  BY <1>2, <1>3
<1>4. CASE \E l \in logs_ : ConvertLogToTable(l)
  <2>1. next_file_number_ \notin DOMAIN tables
    <3>1. \A k \in DOMAIN tables : k < next_file_number_
      BY <1>1, <1>4 DEF ConvertLogToTable, Fresh
    <3>2. next_file_number_ \in Nat
      BY DEF RepairInv, TypeOK, RunTyped
    <3> QED
      BY <3>1, <3>2
  <2>2. tables' = tables \/ \E v : tables' = With(tables, next_file_number_, v)
    BY <1>4 DEF ConvertLogToTable
  <2> QED
    BY <1>2, <2>1, <2>2 DEF With
<1>5. CASE CopyTable
  <2>1. PICK again : CopyAndArchive(again)
    BY <1>5 DEF CopyTable
  <2>2. copying.number \notin Listed /\ copying.copy \notin Listed
    BY <1>1, <1>5 DEF CopyTable, TablesListed
  <2> QED
    BY <1>2, <2>1, <2>2 DEF CopyAndArchive, With, Without, Restrict
<1>6. CASE FinishFails \/ RenameCopy
  <2>1. copying.number \notin Listed /\ copying.copy \notin Listed
    BY <1>1, <1>6 DEF FinishFails, RenameCopy, TablesListed
  <2> QED
    BY <1>2, <1>6, <2>1 DEF FinishFails, RenameCopy, With, Without, Restrict
<1>7. CASE OpenDatabase
  <2>1. descriptor.files = Listed
    BY <1>7 DEF OpenDatabase, RepairInv, Described, Scanned
  <2> QED
    BY <1>2, <1>7, <2>1 DEF OpenDatabase, Restrict
<1> QED
  BY <1>3, <1>4, <1>5, <1>6, <1>7
  DEF Next, FindFiles, Converted, ArchiveLog, ScanTable, CreateFails, WriteTemp, ArchiveManifests, Install,
      SetCurrentFile, Crash, files

(* A TableInfo has the largest number of its table, also of the renamed copy:  *)
(* without second readings a copy has no more than the first scan read.        *)
LEMMA CoversStep ==
    ASSUME ~Transient, ConstantsOK, RepairInv, Covers, [Next]_vars
    PROVE  Covers'
<1>1. CASE UNCHANGED vars
  BY <1>1 DEF vars, files, repairer, Covers, Readable
<1>2. CASE pc' = "find" /\ Next
  <2>1. Crash
    BY <1>2 DEF Next, FindFiles, ConvertLogToTable, ArchiveLog, Converted, ScanTable, CreateFails, CopyTable,
       FinishFails, RenameCopy, WriteTemp, ArchiveManifests, Install, SetCurrentFile, OpenDatabase
  <2> QED
    BY <2>1 DEF Crash, Covers
<1> SUFFICES ASSUME Next, pc' # "find" PROVE Covers'
  BY <1>1, <1>2
<1>3. \A info \in tables_ : \A e \in tables'[info.number].entries : e <= info.max_sequence
  <2>1. \A info \in tables_ : info.number \in Listed
    BY DEF Listed
  <2> QED
    BY <2>1, ListedKept DEF Covers
<1>4. CASE \E t \in table_numbers_ : ScanTable(t)
  <2> PICK t \in table_numbers_ : ScanTable(t)
    BY <1>4
  <2>1. t \in DOMAIN tables /\ tables' = tables /\ damaged' = damaged
    BY DEF RepairInv, TablesListed, ScanTable, files
  <2> DEFINE info == [number |-> t, max_sequence |-> MaxSequence(Readable(t)), copy |-> 0]
  <2>2. /\ \A e \in Readable(t) : e <= MaxSequence(Readable(t))
        /\ Sound(t) => tables[t].entries = Readable(t)
    BY <2>1, ReadableIs DEF RepairInv
  <2>3. CASE Sound(t)
    <3>1. tables_' = tables_ \union {info} /\ pc' = "scan"
      BY <2>3 DEF ScanTable
    <3>2. \A e \in tables'[info.number].entries : e <= info.max_sequence
      BY <2>1, <2>2, <2>3
    <3> QED
      BY <1>3, <3>1, <3>2 DEF Covers
  <2>4. CASE ~Sound(t)
    <3>1. tables_' = tables_ /\ pc' = "copy" /\ copying'.number = t /\ copying'.max_sequence = info.max_sequence
      BY <2>4 DEF ScanTable
    <3>2. Readable(t)' = Readable(t)
      BY <2>1 DEF Readable
    <3> QED
      BY <1>3, <2>2, <3>1, <3>2 DEF Covers, Readable
  <2> QED
    BY <2>3, <2>4
<1>5. CASE CopyTable
  <2>1. tables'[copying.copy].entries = Readable(copying.number)
    BY <1>5 DEF CopyTable, CopyAndArchive, With, Copied
  <2>2. pc = "copy" /\ pc' = "finish" /\ UNCHANGED <<tables_, copying>>
    BY <1>5 DEF CopyTable, repairer
  <2> QED
    BY <1>3, <2>1, <2>2 DEF Covers
<1>6. CASE RenameCopy
  <2>1. copying \in Info /\ tables[copying.copy] \in TableFile
    BY <1>6 DEF RenameCopy, RepairInv, TypeOK, FilesTyped, RunTyped, TablesListed
  <2>2. tables'[copying.number].entries = tables[copying.copy].entries
    BY <1>6, <2>1 DEF RenameCopy, With, TableFile
  <2>3. pc = "finish" /\ pc' = "scan"
    BY <1>6 DEF RenameCopy
  <2> DEFINE info == [copying EXCEPT !.copy = 0]
  <2>4. /\ tables_' = tables_ \union {info}
        /\ info.number = copying.number /\ info.max_sequence = copying.max_sequence
    <3>1. info.number = copying.number /\ info.max_sequence = copying.max_sequence
      BY <2>1 DEF Info
    <3> QED
      BY <1>6, <3>1 DEF RenameCopy
  <2> HIDE DEF info
  <2> QED
    BY <1>3, <2>2, <2>3, <2>4 DEF Covers
<1>7. CASE \E l \in logs_ : ConvertLogToTable(l)
  <2>1. pc' = "archive log" /\ tables_' = tables_
    BY <1>7 DEF ConvertLogToTable
  <2> QED
    BY <1>3, <2>1 DEF Covers
<1>8. CASE FindFiles \/ ArchiveLog \/ Converted \/ CreateFails \/ FinishFails
  <2>1. pc' \in {"convert", "scan"} /\ tables_' = tables_
    BY <1>8 DEF FindFiles, ArchiveLog, Converted, CreateFails, FinishFails, repairer
  <2> QED
    BY <1>3, <2>1 DEF Covers
<1>9. CASE DescriptorSteps \/ OpenDatabase
  <2>1. pc' \in Scanned /\ tables_' = tables_
    BY <1>9 DEF DescriptorSteps, WriteTemp, ArchiveManifests, Install, SetCurrentFile, OpenDatabase, repairer, Scanned
  <2> QED
    BY <1>3, <2>1 DEF Covers, Scanned
<1>10. ~Crash
  BY DEF Crash
<1> QED
  BY <1>4, <1>5, <1>6, <1>7, <1>8, <1>9, <1>10 DEF Next, DescriptorSteps

(* Nothing was scanned when the repair begins.                                 *)
LEMMA CoversInit == Init => Covers
  BY DEF Init, Covers

(* The descriptor has the largest number of the TableInfos.                    *)
LEMMA CoversMeans ==
    ASSUME ConstantsOK
    PROVE  RepairInv /\ Covers => LastSequenceCovers
<1> SUFFICES ASSUME RepairInv, Covers, pc = "done", NEW e \in Recovered
             PROVE  e <= descriptor.last_sequence
  BY DEF LastSequenceCovers
<1>1. PICK info \in tables_ : e \in tables[info.number].entries
  BY DEF Recovered, RepairInv, Described, Scanned, Listed
<1>2. e <= info.max_sequence /\ e \in Nat /\ info.max_sequence \in Nat
  <2>1. info.number \in DOMAIN tables
    BY DEF RepairInv, TablesListed, Listed
  <2>2. e \in Readings
    BY <1>1, <2>1 DEF RepairInv, TypeOK, FilesTyped, TableFile
  <2>3. info \in Info
    BY DEF RepairInv, TypeOK, RunTyped
  <2> QED
    BY <1>1, <2>2, <2>3 DEF Covers, Readings, Info, ConstantsOK
<1>3. {t.max_sequence : t \in tables_} \in SUBSET (0..(Updates + Updates)) /\ Updates + Updates \in Nat
  <2>1. \A t \in tables_ : t.max_sequence \in 0..(Updates + Updates)
    BY DEF Info, RepairInv, TypeOK, RunTyped
  <2> QED
    BY <2>1 DEF ConstantsOK
<1>4. /\ info.max_sequence <= Largest({t.max_sequence : t \in tables_})
      /\ Largest({t.max_sequence : t \in tables_}) \in 0..(Updates + Updates)
  BY <1>3, LargestBounds
<1>5. descriptor.last_sequence = Largest({t.max_sequence : t \in tables_})
  BY DEF RepairInv, Described, Scanned
<1> QED
  BY <1>2, <1>3, <1>4, <1>5

(* RepairDB: the last sequence number of the descriptor is not below that of   *)
(* any entry of the repaired database, in any number of attempts and whatever  *)
(* fails, as long as an entry that could not be read in the first scan of a    *)
(* table is not read while it is copied.                                       *)
THEOREM SequenceStaysCovered ==
    ASSUME ConstantsOK, ~Transient
    PROVE  Spec => []LastSequenceCovers
<1>1. Init => RepairInv /\ Covers
  BY InitInv, CoversInit
<1>2. RepairInv /\ Covers /\ [Next]_vars => RepairInv' /\ Covers'
  BY RepairStep, CoversStep
<1> QED
  BY <1>1, <1>2, CoversMeans, PTL DEF Spec
-----------------------------------------------------------------------------
(* What a repair does with tables: each is to be scanned, or was, or is being  *)
(* copied, or has nothing in it.  (If a copy cannot be created, the table is   *)
(* none of these.)                                                             *)
Accounted == pc # "find" => \A t \in DOMAIN tables :
    \/ t \in table_numbers_ \union Listed
    \/ pc = "copy" /\ t = copying.number
    \/ pc = "finish" /\ t = copying.copy
    \/ tables[t].entries = {}

(* No step drops a table from the lists that has something in it.              *)
LEMMA AccountedStep ==
    ASSUME "create" \notin Faults, RepairInv, Accounted, [Next]_vars
    PROVE  Accounted'
<1>1. CASE UNCHANGED vars
  BY <1>1 DEF vars, files, repairer, Accounted, Listed
<1>2. CASE FindFiles
  BY <1>2 DEF FindFiles, files, Accounted
<1>3. CASE \E l \in logs_ : ConvertLogToTable(l)
  <2>1. /\ pc = "convert" /\ pc' = "archive log" /\ tables_' = tables_
        /\ \/ UNCHANGED <<tables, table_numbers_>>
           \/ /\ DOMAIN tables' = DOMAIN tables \union {next_file_number_}
              /\ \A t \in DOMAIN tables \ {next_file_number_} : tables'[t] = tables[t]
              /\ table_numbers_' = table_numbers_ \union {next_file_number_}
    BY <1>3 DEF ConvertLogToTable, With
  <2> QED
    BY <2>1 DEF Accounted, Listed
<1>4. CASE \E t \in table_numbers_ : ScanTable(t)
  <2> PICK t \in table_numbers_ : ScanTable(t)
    BY <1>4
  <2>1. pc = "scan" /\ tables' = tables /\ table_numbers_' = table_numbers_ \ {t}
    BY DEF ScanTable, files
  <2>2. CASE Sound(t)
    <3>1. PICK info : info.number = t /\ tables_' = tables_ \union {info}
      BY <2>2 DEF ScanTable
    <3>2. Listed' = Listed \union {t}
      BY <3>1 DEF Listed
    <3> QED
      BY <2>1, <3>2 DEF Accounted
  <2>3. CASE ~Sound(t)
    <3>1. copying'.number = t /\ pc' = "copy" /\ Listed' = Listed
      BY <2>3 DEF ScanTable, Listed
    <3> QED
      BY <2>1, <3>1 DEF Accounted
  <2> QED
    BY <2>2, <2>3
<1>5. CASE CopyTable
  <2>1. /\ pc = "copy" /\ pc' = "finish" /\ UNCHANGED <<table_numbers_, tables_, copying>>
        /\ DOMAIN tables' = (DOMAIN tables \ {copying.number}) \union {copying.copy}
        /\ \A t \in DOMAIN tables \ {copying.number, copying.copy} : tables'[t] = tables[t]
    BY <1>5 DEF CopyTable, CopyAndArchive, With, Without, Restrict, repairer
  <2> QED
    BY <2>1 DEF Accounted, Listed
<1>6. CASE FinishFails
  <2>1. /\ pc = "finish" /\ pc' = "scan" /\ UNCHANGED <<table_numbers_, tables_>>
        /\ \/ /\ DOMAIN tables' = DOMAIN tables \ {copying.copy}
              /\ \A t \in DOMAIN tables' : tables'[t] = tables[t]
           \/ tables' = tables /\ tables[copying.copy].entries = {}
    BY <1>6 DEF FinishFails, Without, Restrict
  <2> QED
    BY <2>1 DEF Accounted, Listed
<1>7. CASE RenameCopy
  <2>1. /\ pc = "finish" /\ pc' = "scan" /\ table_numbers_' = table_numbers_
        /\ DOMAIN tables' = (DOMAIN tables \ {copying.copy}) \union {copying.number}
        /\ \A t \in DOMAIN tables \ {copying.number, copying.copy} : tables'[t] = tables[t]
    BY <1>7 DEF RenameCopy, With, Without, Restrict
  <2>2. copying \in Info
    BY DEF RepairInv, TypeOK, RunTyped
  <2>3. PICK info : info.number = copying.number /\ tables_' = tables_ \union {info}
    BY <1>7, <2>2 DEF RenameCopy, Info
  <2>4. Listed' = Listed \union {copying.number}
    BY <2>3 DEF Listed
  <2> QED
    BY <2>1, <2>4 DEF Accounted
<1>8. CASE OpenDatabase
  <2>1. DOMAIN tables' = Listed /\ tables_' = tables_
    BY <1>8 DEF OpenDatabase, Restrict, RepairInv, Described, Scanned, repairer
  <2> QED
    BY <2>1 DEF Accounted, Listed
<1>9. CASE Crash
  BY <1>9 DEF Crash, Accounted
<1>10. CASE ArchiveLog \/ Converted
  BY <1>10 DEF ArchiveLog, Converted, files, repairer, Accounted, Listed
<1>11. CASE DescriptorSteps
  BY <1>11 DEF DescriptorSteps, WriteTemp, ArchiveManifests, Install, SetCurrentFile, repairer, Accounted, Listed
<1> QED
  BY <1>1, <1>2, <1>3, <1>4, <1>5, <1>6, <1>7, <1>8, <1>9, <1>10, <1>11 DEF Next, CreateFails, DescriptorSteps

(* Everything that can be read is in a table, in the copy of one, or in a log  *)
(* that is not yet converted.                                                  *)
Recoverable == \A e \in Entries \ damaged :
    \/ \E t \in DOMAIN tables : e \in Readable(t)
    \/ pc = "finish" /\ e \in tables[copying.copy].entries
    \/ \E l \in DOMAIN logs : e \in logs[l] /\ ~(pc = "archive log" /\ l = copying.number)

CopySound == pc = "finish" => tables[copying.copy].entries \intersect damaged = {}

RecoveryInv == Accounted /\ Recoverable /\ CopySound /\ garbled = {}

(* A repair in which nothing fails, of a database whose logs are read as they  *)
(* were written, and no death between the archiving of a table and the         *)
(* renaming of its copy.                                                       *)
CleanRepair == Faults = {} /\ ~Garbles /\ ~Transient /\ "finish" \notin CrashAt

(* All that is readable is in the files that are found.                        *)
LEMMA RecoveryInit == CleanRepair /\ Init => RecoveryInv
<1> SUFFICES ASSUME CleanRepair, Init PROVE RecoveryInv
  OBVIOUS
<1>1. garbled = {} /\ pc = "find"
  BY DEF Init, CleanRepair
<1>2. Recoverable
  BY DEF Init, Recoverable, Readable, OldTables, OldLog
<1> QED
  BY <1>1, <1>2 DEF RecoveryInv, Accounted, CopySound

(* Without luck in a second reading, nothing that was damaged is in a copy.    *)
LEMMA CopySoundStep ==
    ASSUME CleanRepair, RepairInv, RecoveryInv, Next
    PROVE  CopySound' /\ damaged' = damaged /\ garbled' = {}
<1>1. damaged' = damaged
  BY DEF Next, FindFiles, ConvertLogToTable, ArchiveLog, Converted, ScanTable, CreateFails, CopyTable, FinishFails,
     RenameCopy, WriteTemp, ArchiveManifests, Install, SetCurrentFile, OpenDatabase, Crash, files,
     RecoveryInv, CopySound
<1>2. garbled' = {}
  BY DEF Next, FindFiles, ConvertLogToTable, ArchiveLog, Converted, ScanTable, CreateFails, CopyTable, FinishFails,
     RenameCopy, WriteTemp, ArchiveManifests, Install, SetCurrentFile, OpenDatabase, Crash, files, RecoveryInv
<1>3. CASE CopyTable
  <2>1. tables'[copying'.copy].entries = Readable(copying.number)
    BY <1>3 DEF CopyTable, CopyAndArchive, With, Copied, CleanRepair, repairer
  <2> QED
    BY <1>1, <1>2, <2>1 DEF CopySound, Readable
<1>4. CASE ~CopyTable
  <2>1. pc' # "finish"
    BY <1>4 DEF Next, FindFiles, ConvertLogToTable, ArchiveLog, Converted, ScanTable, CreateFails, FinishFails,
       RenameCopy, WriteTemp, ArchiveManifests, Install, SetCurrentFile, OpenDatabase, Crash
  <2> QED
    BY <1>1, <1>2, <2>1 DEF CopySound
<1> QED
  BY <1>3, <1>4

(* What can be read moves from a log to a table and from a table to its copy,  *)
(* and is always in one of them.                                               *)
LEMMA RecoverableStep ==
    ASSUME CleanRepair, ConstantsOK, RepairInv, RecoveryInv, Next
    PROVE  Recoverable'
<1>1. damaged' = damaged /\ garbled = {} /\ Recoverable
  BY CopySoundStep DEF RecoveryInv
<1> SUFFICES ASSUME NEW e \in Entries \ damaged
             PROVE  \/ \E t \in DOMAIN tables' : e \in Readable(t)'
                    \/ pc' = "finish" /\ e \in tables'[copying'.copy].entries
                    \/ \E l \in DOMAIN logs' : e \in logs'[l] /\ ~(pc' = "archive log" /\ l = copying'.number)
  BY <1>1 DEF Recoverable
<1> DEFINE InTable(t) == t \in DOMAIN tables /\ e \in Readable(t)
           InCopy == pc = "finish" /\ e \in tables[copying.copy].entries
           InLog(l) == l \in DOMAIN logs /\ e \in logs[l] /\ ~(pc = "archive log" /\ l = copying.number)
           Kept1(t) == t \in DOMAIN tables' /\ tables'[t] = tables[t]
<1>2. (\E t : InTable(t)) \/ InCopy \/ \E l : InLog(l)
  BY <1>1 DEF Recoverable
<1>3. \A t : Kept1(t) /\ InTable(t) => t \in DOMAIN tables' /\ e \in Readable(t)'
  BY <1>1 DEF Readable
<1>4. \A t \in DOMAIN tables' : tables'[t].whole /\ e \in tables'[t].entries => e \in Readable(t)'
  BY <1>1 DEF Readable
<1>5. CASE \E l \in logs_ : ConvertLogToTable(l)
  <2> PICK l \in logs_ : ConvertLogToTable(l)
    BY <1>5
  <2>1. pc = "convert" /\ pc' = "archive log" /\ copying'.number = l /\ logs' = logs
    BY DEF ConvertLogToTable, NoCopy
  <2>2. next_file_number_ \notin DOMAIN tables
    <3>1. next_file_number_ \in Nat /\ \A k \in DOMAIN tables : k < next_file_number_
      BY <2>1 DEF RepairInv, Fresh, TypeOK, RunTyped
    <3> QED
      BY <3>1
  <2>3. RecordsOf(l) = logs[l]
    BY <1>1 DEF RecordsOf
  <2>4. IF logs[l] # {} THEN tables' = With(tables, next_file_number_, [entries |-> logs[l], whole |-> TRUE])
        ELSE tables' = tables
    BY <2>3 DEF ConvertLogToTable, CleanRepair
  <2>5. \A t : InTable(t) => Kept1(t)
    BY <2>2, <2>4 DEF With
  <2>6. InLog(l) => /\ next_file_number_ \in DOMAIN tables' /\ tables'[next_file_number_].whole
                    /\ e \in tables'[next_file_number_].entries
    <3>1. InLog(l) => tables' = With(tables, next_file_number_, [entries |-> logs[l], whole |-> TRUE])
      BY <2>4
    <3>2. InLog(l) => /\ next_file_number_ \in DOMAIN tables'
                      /\ tables'[next_file_number_] = [entries |-> logs[l], whole |-> TRUE]
      BY <3>1 DEF With
    <3> DEFINE table == [entries |-> logs[l], whole |-> TRUE]
    <3>3. table.whole /\ table.entries = logs[l]
      OBVIOUS
    <3>4. InLog(l) => e \in logs[l]
      OBVIOUS
    <3>5. InLog(l) => next_file_number_ \in DOMAIN tables' /\ tables'[next_file_number_] = table
      BY <3>2
    <3> HIDE DEF table
    <3> QED
      BY <3>3, <3>4, <3>5
  <2>7. \A k : InLog(k) /\ k # l => k \in DOMAIN logs' /\ e \in logs'[k] /\ k # copying'.number
    BY <2>1
  <2> QED
    BY <1>2, <1>3, <1>4, <2>1, <2>5, <2>6, <2>7
<1>6. CASE ArchiveLog
  <2>1. pc = "archive log" /\ pc' = "convert" /\ tables' = tables
    BY <1>6 DEF ArchiveLog
  <2>2. \A l : InLog(l) => l \in DOMAIN logs' /\ logs'[l] = logs[l]
    BY <1>6, <2>1 DEF ArchiveLog, Without, Restrict
  <2> QED
    BY <1>2, <1>3, <2>1, <2>2
<1>7. CASE CopyTable
  <2>1. pc = "copy" /\ pc' = "finish" /\ UNCHANGED <<copying, logs>>
    BY <1>7 DEF CopyTable, repairer
  <2>2. copying.copy \notin DOMAIN tables
    BY <2>1 DEF RepairInv, TablesListed
  <2>3. \A t : InTable(t) /\ t # copying.number => Kept1(t)
    BY <1>7, <2>2 DEF CopyTable, CopyAndArchive, With, Without, Restrict
  <2>4. tables'[copying.copy].entries = Readable(copying.number)
    BY <1>7 DEF CopyTable, CopyAndArchive, With, Copied, CleanRepair
  <2> QED
    BY <1>2, <1>3, <2>1, <2>3, <2>4
<1>8. CASE FinishFails
  <2>1. /\ pc = "finish" /\ pc' = "scan" /\ UNCHANGED <<tables, logs>>
        /\ tables[copying.copy].entries = {}
    BY <1>8 DEF FinishFails, CleanRepair
  <2> QED
    BY <1>2, <1>3, <2>1
<1>9. CASE RenameCopy
  <2>1. pc = "finish" /\ pc' = "scan" /\ logs' = logs
    BY <1>9 DEF RenameCopy
  <2>2. copying.copy \in DOMAIN tables /\ copying.number \notin DOMAIN tables /\ tables[copying.copy] \in TableFile
    BY <2>1 DEF RepairInv, TablesListed, TypeOK, FilesTyped
  <2>3. \A t : InTable(t) /\ t # copying.copy => Kept1(t)
    BY <1>9, <2>2 DEF RenameCopy, With, Without, Restrict
  <2>4. /\ copying.number \in DOMAIN tables' /\ tables'[copying.number].whole
        /\ tables'[copying.number].entries = tables[copying.copy].entries
    BY <1>9, <2>2 DEF RenameCopy, With, TableFile
  <2>5. InTable(copying.copy) => e \in tables[copying.copy].entries
    BY DEF Readable
  <2> QED
    BY <1>2, <1>3, <1>4, <2>1, <2>3, <2>4, <2>5
<1>10. CASE OpenDatabase
  <2>1. pc = "done" /\ pc' = "open" /\ logs' = logs /\ tables' = Restrict(tables, Listed) /\ table_numbers_ = {}
    BY <1>10 DEF OpenDatabase, RepairInv, Described, Scanned
  <2>2. \A t : InTable(t) => t \in Listed
    BY <2>1 DEF RecoveryInv, Accounted, Readable
  <2>3. \A t : InTable(t) => Kept1(t)
    BY <2>1, <2>2 DEF Restrict
  <2> QED
    BY <1>2, <1>3, <2>1, <2>3
<1>11. CASE Crash
  <2>1. pc # "finish" /\ pc' = "find" /\ logs' = logs
    BY <1>11 DEF Crash, CleanRepair
  <2>2. tables' = tables \/ \E c : c \notin DOMAIN tables /\ tables' = With(tables, c, Unfinished)
    <3>1. pc = "copy" => copying.copy \notin DOMAIN tables
      BY DEF RepairInv, TablesListed
    <3>2. pc = "convert" => next_file_number_ \notin DOMAIN tables
      <4>1. next_file_number_ \in Nat /\ (pc = "convert" => \A k \in DOMAIN tables : k < next_file_number_)
        BY DEF RepairInv, Fresh, TypeOK, RunTyped
      <4> QED
        BY <4>1
    <3> QED
      BY <1>11, <2>1, <3>1, <3>2 DEF Crash
  <2>3. \A t : InTable(t) => Kept1(t)
    BY <2>2 DEF With
  <2> QED
    BY <1>2, <1>3, <2>1, <2>3
<1>12. CASE /\ pc # "finish" /\ pc' # "archive log" /\ UNCHANGED <<tables, logs>>
  BY <1>2, <1>3, <1>12
<1> QED
  BY <1>5, <1>6, <1>7, <1>8, <1>9, <1>10, <1>11, <1>12
  DEF Next, FindFiles, Converted, ScanTable, CreateFails, WriteTemp, ArchiveManifests, Install, SetCurrentFile, files

(* The parts of RecoveryInv are kept together.                                 *)
LEMMA RecoveryStep ==
    ASSUME CleanRepair, ConstantsOK, RepairInv, RecoveryInv, [Next]_vars
    PROVE  RecoveryInv'
<1>1. CASE UNCHANGED vars
  BY <1>1 DEF vars, files, repairer, RecoveryInv, Accounted, Recoverable, CopySound, Readable, Listed
<1>2. CASE Next
  BY <1>2, AccountedStep, CopySoundStep, RecoverableStep DEF RecoveryInv, CleanRepair
<1> QED
  BY <1>1, <1>2

(* In the end there is no log left, and every table with entries is listed.    *)
LEMMA RecoveryMeans == RepairInv /\ RecoveryInv => EverythingRecovered
<1> SUFFICES ASSUME RepairInv, RecoveryInv, pc = "done", NEW e \in Entries \ damaged
             PROVE  e \in Recovered
  BY DEF EverythingRecovered
<1>1. DOMAIN logs = {}
  BY DEF RepairInv, LogsListed, Converting
<1>2. PICK t \in DOMAIN tables : e \in Readable(t)
  BY <1>1 DEF RecoveryInv, Recoverable
<1>3. e \in tables[t].entries
  BY <1>2 DEF Readable
<1>4. t \in descriptor.files
  BY <1>3 DEF RepairInv, Described, Scanned, RecoveryInv, Accounted
<1> QED
  BY <1>3, <1>4 DEF Recovered

(* RepairDB: however often the process dies and repair is begun again, in the  *)
(* end every update that can be read is in the repaired database, if no file   *)
(* operation fails, logs are read as they were written, and the process does   *)
(* not die between the archiving of a table and the renaming of its copy.      *)
THEOREM AllIsRecovered ==
    ASSUME ConstantsOK, CleanRepair
    PROVE  Spec => []EverythingRecovered
<1>1. Init => RepairInv /\ RecoveryInv
  BY InitInv, RecoveryInit
<1>2. RepairInv /\ RecoveryInv /\ [Next]_vars => RepairInv' /\ RecoveryInv'
  BY RepairStep, RecoveryStep
<1> QED
  BY <1>1, <1>2, RecoveryMeans, PTL DEF Spec
-----------------------------------------------------------------------------
(* What a repair destroys.  Files are removed in four places: a log and a      *)
(* table when they are archived, a copy when it fails, and tables that the     *)
(* descriptor does not list when the database is opened.                       *)

(* What is to be converted is not damaged and not yet archived.                *)
LogsUnhurt == \A l \in DOMAIN logs : logs[l] \intersect damaged = {} /\ <<"log", l>> \notin DOMAIN lost

(* While a copy is made, its table is in "lost".                               *)
CopyArchived == pc = "finish" => /\ <<"table", copying.number>> \in DOMAIN lost
                                 /\ tables[copying.copy].entries \subseteq lost[<<"table", copying.number>>]

Archived(t) == <<"table", t>> \in DOMAIN lost

(* No table is archived under a name that is in "lost" already: a table whose  *)
(* number is there is the copy, which is sound.  In the first attempt there    *)
(* are no other tables with such a number; in the second, after a death, this  *)
(* holds of those it found.  A third could find a copy of the second that was  *)
(* given the number of a table that the first archived.                        *)
ArchivedOnce ==
    /\ \A t \in table_numbers_ : Archived(t) => Sound(t)
    /\ pc = "copy" => ~Archived(copying.number)
    /\ pc = "find" => \A t \in DOMAIN tables : Archived(t) => Sound(t)
    /\ crashes = 0 => \A t \in Nat : Archived(t) =>
          /\ pc # "find" /\ t < next_file_number_
          /\ t \in DOMAIN tables => Sound(t)
          /\ pc \in {"copy", "finish"} => t # copying.copy

KeepingInv == Accounted /\ LogsUnhurt /\ CopyArchived /\ ArchivedOnce /\ crashes <= MaxCrashes

(* At most one death, and every copy of a table can be created.                *)
OneDeath == MaxCrashes \in {0, 1} /\ "create" \notin Faults

(* An entry is safe if it is in a table, in a log or in "lost".                *)
Safe(e) == \/ \E t \in DOMAIN tables : e \in tables[t].entries
           \/ \E l \in DOMAIN logs : e \in logs[l]
           \/ \E n \in DOMAIN lost : e \in lost[n]

(* Nothing is destroyed if every entry is safe.                                *)
LEMMA SafeIs == NothingDestroyed <=> \A e \in Entries : Safe(e)
<1>1. \A e : e \in UNION {tables[t].entries : t \in DOMAIN tables} <=> \E t \in DOMAIN tables : e \in tables[t].entries
  OBVIOUS
<1>2. \A e : e \in UNION {logs[l] : l \in DOMAIN logs} <=> \E l \in DOMAIN logs : e \in logs[l]
  OBVIOUS
<1>3. \A e : e \in UNION {lost[n] : n \in DOMAIN lost} <=> \E n \in DOMAIN lost : e \in lost[n]
  OBVIOUS
<1>4. \A e : e \in Kept <=> \/ e \in UNION {tables[t].entries : t \in DOMAIN tables}
                         \/ e \in UNION {logs[l] : l \in DOMAIN logs}
                         \/ e \in UNION {lost[n] : n \in DOMAIN lost}
  BY DEF Kept
<1>5. \A e : e \in Kept <=> Safe(e)
  BY ZenonT(30), <1>1, <1>2, <1>3, <1>4 DEF Safe
<1> QED
  BY <1>5 DEF NothingDestroyed

(* A database as it was found has all its entries, and nothing in "lost".      *)
LEMMA KeepingInit == OneDeath /\ Init => KeepingInv /\ NothingDestroyed
<1> SUFFICES ASSUME OneDeath, Init PROVE KeepingInv /\ NothingDestroyed
  OBVIOUS
<1>1. DOMAIN lost = {} /\ pc = "find" /\ table_numbers_ = {} /\ crashes = 0
  BY DEF Init
<1>2. \A l \in DOMAIN logs : logs[l] \intersect damaged = {}
  BY DEF Init, OldLog
<1>3. NothingDestroyed
  <2>1. \A e \in Entries : Safe(e)
    BY DEF Init, Safe, OldTables, OldLog
  <2> QED
    BY <2>1, SafeIs
<1> QED
  BY <1>1, <1>2, <1>3 DEF KeepingInv, Accounted, LogsUnhurt, CopyArchived, ArchivedOnce, Archived, OneDeath

(* A log is archived once: it is not in the directory afterwards.              *)
LEMMA LogsUnhurtStep ==
    ASSUME RepairInv, LogsUnhurt, Next
    PROVE  LogsUnhurt'
<1>1. damaged' \subseteq damaged
  BY DEF Next, FindFiles, ConvertLogToTable, ArchiveLog, Converted, ScanTable, CreateFails, CopyTable, FinishFails,
     RenameCopy, WriteTemp, ArchiveManifests, Install, SetCurrentFile, OpenDatabase, Crash, files
<1>2. CASE ArchiveLog
  <2>1. /\ DOMAIN logs' = DOMAIN logs \ {copying.number} /\ \A l \in DOMAIN logs' : logs'[l] = logs[l]
        /\ DOMAIN lost' = DOMAIN lost \union {<<"log", copying.number>>}
    BY <1>2 DEF ArchiveLog, Archive, With, Without, Restrict
  <2> QED
    BY <1>1, <2>1 DEF LogsUnhurt
<1>3. CASE CopyTable
  <2>1. logs' = logs /\ DOMAIN lost' = DOMAIN lost \union {<<"table", copying.number>>}
    BY <1>3 DEF CopyTable, CopyAndArchive, Archive, With
  <2> QED
    BY <1>1, <2>1 DEF LogsUnhurt
<1>4. CASE UNCHANGED <<logs, lost>>
  BY <1>1, <1>4 DEF LogsUnhurt
<1> QED
  BY <1>2, <1>3, <1>4
  DEF Next, FindFiles, ConvertLogToTable, Converted, ScanTable, CreateFails, FinishFails,
     RenameCopy, WriteTemp, ArchiveManifests, Install, SetCurrentFile, OpenDatabase, Crash, files

(* The table goes to "lost" in the step that begins to fill its copy.          *)
LEMMA CopyArchivedStep ==
    ASSUME RepairInv, Next
    PROVE  CopyArchived'
<1>1. CASE CopyTable
  <2>1. PICK again \in SUBSET tables[copying.number].entries : CopyAndArchive(again)
    BY <1>1 DEF CopyTable
  <2>2. Readable(copying.number) \subseteq tables[copying.number].entries
    BY DEF Readable
  <2>3. tables'[copying.copy].entries \subseteq tables[copying.number].entries
    BY <2>1, <2>2 DEF CopyAndArchive, With, Copied
  <2>4. /\ <<"table", copying.number>> \in DOMAIN lost'
        /\ lost'[<<"table", copying.number>>] = tables[copying.number].entries
    BY <2>1 DEF CopyAndArchive, Archive, With
  <2>5. copying' = copying
    BY <1>1 DEF CopyTable, repairer
  <2> QED
    BY <2>3, <2>4, <2>5 DEF CopyArchived
<1>2. CASE ~CopyTable
  <2>1. pc' # "finish"
    BY <1>2 DEF Next, FindFiles, ConvertLogToTable, ArchiveLog, Converted, ScanTable, CreateFails, FinishFails,
       RenameCopy, WriteTemp, ArchiveManifests, Install, SetCurrentFile, OpenDatabase, Crash
  <2> QED
    BY <2>1 DEF CopyArchived
<1> QED
  BY <1>1, <1>2

(* Every entry stays where it is or goes to "lost".                            *)
LEMMA NothingDestroyedStep ==
    ASSUME OneDeath, ConstantsOK, RepairInv, KeepingInv, NothingDestroyed, Next
    PROVE  NothingDestroyed'
<1>1. \A e \in Entries : Safe(e)
  BY SafeIs
<1> SUFFICES ASSUME NEW e, Safe(e) PROVE Safe(e)'
  <2>1. \A e \in Entries' : Safe(e)'
    BY <1>1 DEF Entries
  <2>2. NothingDestroyed' <=> (\A e \in Entries : Safe(e))'
    BY SafeIs, PTL
  <2> QED
    BY <2>1, <2>2
<1> USE DEF Safe
<1>5. CASE \E l \in logs_ : ConvertLogToTable(l)
  <2>1. pc = "convert" /\ UNCHANGED <<logs, lost>>
    BY <1>5 DEF ConvertLogToTable
  <2>2. next_file_number_ \notin DOMAIN tables
    <3>1. next_file_number_ \in Nat /\ \A k \in DOMAIN tables : k < next_file_number_
      BY <2>1 DEF RepairInv, Fresh, TypeOK, RunTyped
    <3> QED
      BY <3>1
  <2>3. tables' = tables \/ \E v : tables' = With(tables, next_file_number_, v)
    BY <1>5 DEF ConvertLogToTable
  <2>4. \A t \in DOMAIN tables : t \in DOMAIN tables' /\ tables'[t] = tables[t]
    BY <2>2, <2>3 DEF With
  <2> QED
    BY <2>1, <2>4
<1>6. CASE ArchiveLog
  <2>1. pc = "archive log" /\ copying.number \in DOMAIN logs
    BY <1>6 DEF ArchiveLog, RepairInv, LogsListed
  <2>2. <<"log", copying.number>> \notin DOMAIN lost
    BY <2>1 DEF KeepingInv, LogsUnhurt
  <2>3. /\ tables' = tables /\ logs' = Without(logs, copying.number)
        /\ lost' = With(lost, <<"log", copying.number>>, logs[copying.number])
    BY <1>6 DEF ArchiveLog, Archive
  <2>4. \A l \in DOMAIN logs \ {copying.number} : l \in DOMAIN logs' /\ logs'[l] = logs[l]
    BY <2>3 DEF Without, Restrict
  <2>5. /\ \A n \in DOMAIN lost : n \in DOMAIN lost' /\ lost'[n] = lost[n]
        /\ <<"log", copying.number>> \in DOMAIN lost' /\ lost'[<<"log", copying.number>>] = logs[copying.number]
    BY <2>2, <2>3 DEF With
  <2> QED
    BY <2>3, <2>4, <2>5
<1>7. CASE CopyTable
  <2>1. pc = "copy" /\ logs' = logs
    BY <1>7 DEF CopyTable
  <2>2. <<"table", copying.number>> \notin DOMAIN lost /\ copying.copy \notin DOMAIN tables
    BY <2>1 DEF KeepingInv, ArchivedOnce, Archived, RepairInv, TablesListed
  <2>3. PICK v : /\ tables' = With(Without(tables, copying.number), copying.copy, v)
                 /\ lost' = With(lost, <<"table", copying.number>>, tables[copying.number].entries)
    BY <1>7 DEF CopyTable, CopyAndArchive, Archive
  <2>4. \A t \in DOMAIN tables \ {copying.number} : t \in DOMAIN tables' /\ tables'[t] = tables[t]
    BY <2>2, <2>3 DEF With, Without, Restrict
  <2>5. /\ \A n \in DOMAIN lost : n \in DOMAIN lost' /\ lost'[n] = lost[n]
        /\ <<"table", copying.number>> \in DOMAIN lost'
        /\ lost'[<<"table", copying.number>>] = tables[copying.number].entries
    BY <2>2, <2>3 DEF With
  <2> QED
    BY <2>1, <2>4, <2>5
<1>8. CASE FinishFails
  <2>1. pc = "finish" /\ UNCHANGED <<logs, lost>>
    BY <1>8 DEF FinishFails
  <2>2. \A t \in DOMAIN tables \ {copying.copy} : t \in DOMAIN tables' /\ tables'[t] = tables[t]
    BY <1>8 DEF FinishFails, Without, Restrict
  <2>3. e \in tables[copying.copy].entries => \E n \in DOMAIN lost : e \in lost[n]
    BY <2>1 DEF KeepingInv, CopyArchived
  <2> QED
    BY <2>1, <2>2, <2>3
<1>9. CASE RenameCopy
  <2>1. pc = "finish" /\ UNCHANGED <<logs, lost>>
    BY <1>9 DEF RenameCopy
  <2>2. copying.copy \in DOMAIN tables /\ copying.number \notin DOMAIN tables
    BY <2>1 DEF RepairInv, TablesListed
  <2>3. \A t \in DOMAIN tables \ {copying.copy} : t \in DOMAIN tables' /\ tables'[t] = tables[t]
    BY <1>9, <2>2 DEF RenameCopy, With, Without, Restrict
  <2>4. e \in tables[copying.copy].entries => \E n \in DOMAIN lost : e \in lost[n]
    BY <2>1 DEF KeepingInv, CopyArchived
  <2> QED
    BY <2>1, <2>3, <2>4
<1>10. CASE OpenDatabase
  <2>1. pc = "done" /\ UNCHANGED <<logs, lost>> /\ tables' = Restrict(tables, Listed) /\ table_numbers_ = {}
    BY <1>10 DEF OpenDatabase, RepairInv, Described, Scanned
  <2>2. \A t \in DOMAIN tables : t \in Listed \/ tables[t].entries = {}
    BY <2>1 DEF KeepingInv, Accounted
  <2>3. \A t \in Listed : t \in DOMAIN tables' /\ tables'[t] = tables[t]
    BY <2>1 DEF Restrict
  <2> QED
    BY <2>1, <2>2, <2>3
<1>11. CASE Crash
  <2>1. UNCHANGED <<logs, lost>>
    BY <1>11 DEF Crash
  <2>2. CASE pc = "finish"
    <3>1. \A t \in DOMAIN tables \ {copying.copy} : t \in DOMAIN tables' /\ tables'[t] = tables[t]
      BY <1>11, <2>2 DEF Crash, With
    <3>2. e \in tables[copying.copy].entries => \E n \in DOMAIN lost : e \in lost[n]
      BY <2>2 DEF KeepingInv, CopyArchived
    <3> QED
      BY <2>1, <3>1, <3>2
  <2>3. CASE pc # "finish"
    <3>1. pc = "copy" => copying.copy \notin DOMAIN tables
      BY DEF RepairInv, TablesListed
    <3>2. pc = "convert" => next_file_number_ \notin DOMAIN tables
      <4>1. next_file_number_ \in Nat /\ (pc = "convert" => \A k \in DOMAIN tables : k < next_file_number_)
        BY DEF RepairInv, Fresh, TypeOK, RunTyped
      <4> QED
        BY <4>1
    <3>3. tables' = tables \/ \E c : c \notin DOMAIN tables /\ tables' = With(tables, c, Unfinished)
      BY <1>11, <2>3, <3>1, <3>2 DEF Crash
    <3>4. \A t \in DOMAIN tables : t \in DOMAIN tables' /\ tables'[t] = tables[t]
      BY <3>3 DEF With
    <3> QED
      BY <2>1, <3>4
  <2> QED
    BY <2>2, <2>3
<1>12. CASE UNCHANGED <<tables, logs, lost>>
  BY <1>12
<1> QED
  BY <1>5, <1>6, <1>7, <1>8, <1>9, <1>10, <1>11, <1>12
  DEF Next, FindFiles, Converted, ScanTable, CreateFails, WriteTemp, ArchiveManifests, Install, SetCurrentFile, files

(* A sound table that is left alone stays sound.                               *)
LEMMA SoundStays ==
    ASSUME damaged' \subseteq damaged, NEW t, tables'[t] = tables[t], Sound(t)
    PROVE  Sound(t)'
  BY DEF Sound

(* A table that was archived is scanned again only as its finished copy, which *)
(* is sound and is not archived; a death begins the second attempt.            *)
LEMMA ArchivedOnceStep ==
    ASSUME OneDeath, ConstantsOK, RepairInv, KeepingInv, Next
    PROVE  ArchivedOnce' /\ crashes' <= MaxCrashes
<1>1. /\ TablesListed /\ Fresh /\ ArchivedOnce /\ LogsUnhurt
      /\ next_file_number_ \in Nat /\ copying.number \in Nat /\ copying.copy \in Nat /\ crashes \in Nat
  BY DEF RepairInv, TypeOK, RunTyped, Info, KeepingInv
<1>2. damaged' \subseteq damaged /\ damaged \subseteq Entries /\ DOMAIN tables \subseteq Nat
  <2>1. damaged' \subseteq damaged
    BY DEF Next, FindFiles, ConvertLogToTable, ArchiveLog, Converted, ScanTable, CreateFails, CopyTable, FinishFails,
       RenameCopy, WriteTemp, ArchiveManifests, Install, SetCurrentFile, OpenDatabase, Crash, files
  <2> QED
    BY <2>1 DEF RepairInv, TypeOK, FilesTyped
<1>3. \A t : tables'[t] = tables[t] /\ Sound(t) => Sound(t)'
  BY <1>2, SoundStays
<1>4. CASE Crash
  <2>1. /\ crashes < MaxCrashes /\ crashes' = crashes + 1 /\ lost' = lost /\ pc' = "find"
        /\ table_numbers_' = {}
    BY <1>4 DEF Crash
  <2>2. crashes = 0 /\ crashes' = 1 /\ crashes' <= MaxCrashes
    BY <1>1, <2>1 DEF OneDeath
  <2>3. \A t \in Nat : Archived(t) => /\ t \in DOMAIN tables => Sound(t)
                                      /\ t # next_file_number_
                                      /\ pc \in {"copy", "finish"} => t # copying.copy
    BY <1>1, <2>2 DEF ArchivedOnce
  <2>4. \/ tables' = tables
        \/ pc \in {"copy", "finish"} /\ tables' = With(tables, copying.copy, Unfinished)
        \/ tables' = With(tables, next_file_number_, Unfinished)
    BY <1>4 DEF Crash
  <2>5. \A t \in DOMAIN tables' : Archived(t) => t \in DOMAIN tables /\ tables'[t] = tables[t] /\ Sound(t)
    BY <1>1, <1>2, <2>3, <2>4 DEF With
  <2>6. \A t \in DOMAIN tables' : Archived(t)' => Sound(t)'
    BY <1>3, <2>1, <2>5 DEF Archived
  <2> QED
    BY <2>1, <2>2, <2>6 DEF ArchivedOnce
<1> SUFFICES ASSUME ~Crash PROVE ArchivedOnce' /\ crashes' <= MaxCrashes
  BY <1>4
<1>5. crashes' = crashes /\ crashes' <= MaxCrashes
  BY DEF KeepingInv, Next, FindFiles, ConvertLogToTable, ArchiveLog, Converted, ScanTable, CreateFails, CopyTable,
     FinishFails, RenameCopy, WriteTemp, ArchiveManifests, Install, SetCurrentFile, OpenDatabase
<1>6. CASE FindFiles
  <2>1. pc = "find" /\ pc' = "convert" /\ table_numbers_' = DOMAIN tables /\ UNCHANGED <<tables, lost>>
    BY <1>6 DEF FindFiles, files
  <2>2. \A t \in table_numbers_' : Archived(t) => Sound(t)
    BY <1>1, <2>1 DEF ArchivedOnce
  <2>3. crashes = 0 => \A t \in Nat : ~Archived(t)
    BY <1>1, <2>1 DEF ArchivedOnce
  <2>4. \A t \in table_numbers_' : Archived(t)' => Sound(t)'
    BY <1>3, <2>1, <2>2 DEF Archived
  <2>5. crashes = 0 => \A t \in Nat : ~Archived(t)'
    BY <2>1, <2>3 DEF Archived
  <2> QED
    BY <1>5, <2>1, <2>4, <2>5 DEF ArchivedOnce
<1>7. CASE \E l \in logs_ : ConvertLogToTable(l)
  <2> PICK l \in logs_ : ConvertLogToTable(l)
    BY <1>7
  <2> DEFINE n == next_file_number_
  <2>1. pc = "convert" /\ pc' = "archive log" /\ lost' = lost /\ n' = n + 1 /\ damaged' = damaged
    BY DEF ConvertLogToTable
  <2>2. l \in DOMAIN logs /\ \A k \in DOMAIN tables : k < n
    BY <1>1, <2>1 DEF RepairInv, LogsListed, Fresh
  <2>3. RecordsOf(l) \intersect damaged = {}
    <3>1. \A e \in Entries : Garbled(e) \notin Entries
      BY DEF Garbled, Entries, ConstantsOK
    <3>2. logs[l] \intersect damaged = {} /\ logs[l] \subseteq Entries
      BY <1>1, <2>2 DEF LogsUnhurt, RepairInv, TypeOK, FilesTyped
    <3> QED
      BY <1>2, <3>1, <3>2 DEF RecordsOf
  <2>4. \/ UNCHANGED <<tables, table_numbers_>>
        \/ /\ tables' = With(tables, n, [entries |-> RecordsOf(l), whole |-> TRUE])
           /\ table_numbers_' = table_numbers_ \union {n}
    BY DEF ConvertLogToTable
  <2>5. \A t \in DOMAIN tables : tables'[t] = tables[t]
    BY <1>1, <2>2, <2>4 DEF With
  <2>6. \A t \in DOMAIN tables' : t \in DOMAIN tables \/ t = n
    BY <2>4 DEF With
  <2>7. \A t \in table_numbers_' : Archived(t) => Sound(t)'
    <3>1. \A t \in table_numbers_ : Archived(t) => Sound(t)'
      BY <1>1, <1>3, <2>5 DEF ArchivedOnce, TablesListed
    <3>2. \A t \in table_numbers_' : t \in table_numbers_ \/ Sound(t)'
      <4> SUFFICES ASSUME NEW t \in table_numbers_', t \notin table_numbers_
                   PROVE  tables'[t].whole /\ tables'[t].entries \intersect damaged' = {}
        BY DEF Sound
      <4>1. t = n /\ tables' = With(tables, n, [entries |-> RecordsOf(l), whole |-> TRUE])
        BY <2>4
      <4>2. tables'[t] = [entries |-> RecordsOf(l), whole |-> TRUE]
        BY <4>1 DEF With
      <4> DEFINE v == [entries |-> RecordsOf(l), whole |-> TRUE]
      <4>3. v.whole /\ v.entries = RecordsOf(l)
        OBVIOUS
      <4>4. tables'[t] = v
        BY <4>2
      <4> HIDE DEF v
      <4>5. tables'[t].whole /\ tables'[t].entries = RecordsOf(l)
        BY <4>3, <4>4, Zenon
      <4>6. damaged' = damaged
        BY <2>1
      <4> QED
        BY <2>3, <4>5, <4>6, Zenon
    <3> QED
      BY <3>1, <3>2
  <2>8. crashes = 0 => \A t \in Nat : Archived(t) => t < n + 1 /\ (t \in DOMAIN tables' => Sound(t)')
    <3> SUFFICES ASSUME crashes = 0, NEW t \in Nat, Archived(t)
                 PROVE  t < n + 1 /\ (t \in DOMAIN tables' => Sound(t)')
      OBVIOUS
    <3>1. t < n /\ (t \in DOMAIN tables => Sound(t))
      BY <1>1 DEF ArchivedOnce
    <3>2. t < n + 1 /\ t # n
      BY <1>1, <3>1
    <3> QED
      BY <1>3, <2>5, <2>6, <3>1, <3>2
  <2>9. \A t : Archived(t)' <=> Archived(t)
    BY <2>1 DEF Archived
  <2> QED
    BY <1>5, <2>1, <2>7, <2>8, <2>9 DEF ArchivedOnce
<1>8. CASE \E t \in table_numbers_ : ScanTable(t)
  <2> PICK t \in table_numbers_ : ScanTable(t)
    BY <1>8
  <2>1. /\ pc = "scan" /\ UNCHANGED <<tables, lost>> /\ table_numbers_' \subseteq table_numbers_
        /\ \/ pc' = "scan" /\ next_file_number_' = next_file_number_
           \/ /\ pc' = "copy" /\ next_file_number_' = next_file_number_ + 1
              /\ copying'.number = t /\ copying'.copy = next_file_number_ /\ ~Sound(t)
    BY DEF ScanTable, files
  <2>2. \A k : Archived(k)' <=> Archived(k)
    BY <2>1 DEF Archived
  <2>3. \A k : Sound(k) => Sound(k)'
    BY <1>3, <2>1
  <2>4. \A k \in table_numbers_' : Archived(k) => Sound(k)'
    BY <1>1, <2>1, <2>3 DEF ArchivedOnce
  <2>5. ~Sound(t) => ~Archived(t)
    BY <1>1 DEF ArchivedOnce
  <2>6. crashes = 0 => \A k \in Nat : Archived(k) =>
           k < next_file_number_ /\ k < next_file_number_' /\ k # next_file_number_ /\ (k \in DOMAIN tables => Sound(k)')
    <3> SUFFICES ASSUME crashes = 0, NEW k \in Nat, Archived(k)
                 PROVE  /\ k < next_file_number_ /\ k < next_file_number_' /\ k # next_file_number_
                        /\ k \in DOMAIN tables => Sound(k)'
      OBVIOUS
    <3>1. k < next_file_number_ /\ (k \in DOMAIN tables => Sound(k))
      BY <1>1 DEF ArchivedOnce
    <3>2. k < next_file_number_ + 1 /\ k # next_file_number_
      BY <1>1, <3>1
    <3>3. k < next_file_number_'
      BY <2>1, <3>1, <3>2
    <3> QED
      BY <2>3, <3>1, <3>2, <3>3
  <2> QED
    BY <1>5, <2>1, <2>2, <2>4, <2>5, <2>6 DEF ArchivedOnce
<1>9. CASE CopyTable
  <2>1. PICK v : /\ tables' = With(Without(tables, copying.number), copying.copy, v)
                 /\ lost' = With(lost, <<"table", copying.number>>, tables[copying.number].entries)
    BY <1>9 DEF CopyTable, CopyAndArchive, Archive
  <2>2. pc = "copy" /\ pc' = "finish" /\ UNCHANGED <<table_numbers_, copying, next_file_number_>>
    BY <1>9 DEF CopyTable, repairer
  <2>3. /\ copying.number \notin table_numbers_ /\ copying.copy \notin DOMAIN tables
        /\ copying.copy < next_file_number_ /\ copying.number < copying.copy
    BY <1>1, <2>2 DEF TablesListed
  <2>4. copying.number # copying.copy /\ copying.number < next_file_number_
    BY <1>1, <2>3
  <2>5. DOMAIN tables' = (DOMAIN tables \ {copying.number}) \union {copying.copy}
    BY <2>1 DEF With, Without, Restrict
  <2>6. \A t \in DOMAIN tables \ {copying.number} : tables'[t] = tables[t]
    BY <2>1, <2>3 DEF With, Without, Restrict
  <2>7. \A t : Archived(t)' <=> Archived(t) \/ t = copying.number
    BY <2>1 DEF Archived, With
  <2>8. \A t \in table_numbers_ : t \in DOMAIN tables /\ t # copying.number
    BY <1>1, <2>3 DEF TablesListed
  <2>9. \A t \in table_numbers_' : Archived(t)' => Sound(t)'
    BY <1>1, <1>3, <2>2, <2>6, <2>7, <2>8 DEF ArchivedOnce
  <2>10. crashes = 0 => \A t \in Nat : Archived(t)' =>
            t < next_file_number_ /\ (t \in DOMAIN tables' => Sound(t)') /\ t # copying.copy
    <3> SUFFICES ASSUME crashes = 0, NEW t \in Nat, Archived(t)'
                 PROVE  t < next_file_number_ /\ (t \in DOMAIN tables' => Sound(t)') /\ t # copying.copy
      OBVIOUS
    <3>1. CASE t = copying.number
      BY <2>4, <2>5, <3>1
    <3>2. CASE t # copying.number
      <4>1. t < next_file_number_ /\ (t \in DOMAIN tables => Sound(t)) /\ t # copying.copy
        BY <1>1, <2>2, <2>7, <3>2 DEF ArchivedOnce
      <4> QED
        BY <1>3, <2>5, <2>6, <3>2, <4>1
    <3> QED
      BY <3>1, <3>2
  <2> QED
    BY <1>5, <2>2, <2>9, <2>10 DEF ArchivedOnce
<1>10. CASE RenameCopy
  <2>1. /\ pc = "finish" /\ pc' = "scan" /\ UNCHANGED <<lost, table_numbers_, next_file_number_>>
        /\ tables' = With(Without(tables, copying.copy), copying.number, [tables[copying.copy] EXCEPT !.whole = TRUE])
        /\ damaged' = damaged \ tables[copying.copy].entries
    BY <1>10 DEF RenameCopy
  <2>2. /\ copying.copy \in DOMAIN tables /\ copying.copy \notin table_numbers_
        /\ copying.number \notin DOMAIN tables /\ tables[copying.copy] \in TableFile
    BY <2>1, <1>1 DEF TablesListed, RepairInv, TypeOK, FilesTyped
  <2>3. \A t : t = copying.number => Sound(t)'
    <3>1. tables'[copying.number] = [tables[copying.copy] EXCEPT !.whole = TRUE]
      BY <2>1 DEF With
    <3>2. tables'[copying.number].whole /\ tables'[copying.number].entries = tables[copying.copy].entries
      BY <2>2, <3>1 DEF TableFile
    <3> QED
      BY <2>1, <3>2 DEF Sound
  <2>4. /\ DOMAIN tables' = (DOMAIN tables \ {copying.copy}) \union {copying.number}
        /\ \A t \in DOMAIN tables \ {copying.copy} : tables'[t] = tables[t]
    BY <2>1, <2>2 DEF With, Without, Restrict
  <2>5. \A t : Archived(t)' <=> Archived(t)
    BY <2>1 DEF Archived
  <2>6. \A t \in table_numbers_' : Archived(t)' => Sound(t)'
    <3>1. \A t \in table_numbers_ : t \in DOMAIN tables \ {copying.copy}
      BY <1>1, <2>2 DEF TablesListed
    <3> QED
      BY <1>1, <1>3, <2>1, <2>4, <2>5, <3>1 DEF ArchivedOnce
  <2>7. crashes = 0 => \A t \in Nat : Archived(t)' => t < next_file_number_ /\ (t \in DOMAIN tables' => Sound(t)')
    <3>1. crashes = 0 => \A t \in Nat : Archived(t) => t < next_file_number_ /\ (t \in DOMAIN tables => Sound(t))
      BY <1>1 DEF ArchivedOnce
    <3>2. \A t \in DOMAIN tables' : t = copying.number \/ t \in DOMAIN tables \ {copying.copy}
      BY <2>4
    <3> QED
      BY <1>3, <2>3, <2>4, <2>5, <3>1, <3>2
  <2> QED
    BY <1>5, <2>1, <2>6, <2>7 DEF ArchivedOnce
<1>11. CASE FinishFails
  <2>1. /\ pc = "finish" /\ pc' = "scan" /\ UNCHANGED <<lost, table_numbers_, next_file_number_, damaged>>
        /\ DOMAIN tables' \subseteq DOMAIN tables
        /\ \A t \in DOMAIN tables \ {copying.copy} : tables'[t] = tables[t]
    BY <1>11 DEF FinishFails, Without, Restrict
  <2>2. \A t : Archived(t)' <=> Archived(t)
    BY <2>1 DEF Archived
  <2>3. \A t \in table_numbers_' : Archived(t)' => Sound(t)'
    <3>1. \A t \in table_numbers_ : t \in DOMAIN tables \ {copying.copy}
      BY <1>1, <2>1 DEF TablesListed
    <3> QED
      BY <1>1, <1>3, <2>1, <2>2, <3>1 DEF ArchivedOnce
  <2>4. crashes = 0 => \A t \in Nat : Archived(t)' => t < next_file_number_ /\ (t \in DOMAIN tables' => Sound(t)')
    <3>1. crashes = 0 => \A t \in Nat : Archived(t) =>
             t < next_file_number_ /\ (t \in DOMAIN tables => Sound(t)) /\ t # copying.copy
      BY <1>1, <2>1 DEF ArchivedOnce
    <3> QED
      BY <1>3, <2>1, <2>2, <3>1
  <2> QED
    BY <1>5, <2>1, <2>3, <2>4 DEF ArchivedOnce
<1>12. CASE ArchiveLog \/ Converted \/ DescriptorSteps \/ OpenDatabase
  <2>1. /\ pc # "find" /\ pc' \notin {"find", "copy", "finish"} /\ UNCHANGED <<table_numbers_, next_file_number_>>
        /\ DOMAIN lost' \subseteq DOMAIN lost \union {<<"log", copying.number>>}
    BY <1>12 DEF ArchiveLog, Archive, With, Converted, DescriptorSteps, WriteTemp, ArchiveManifests, Install,
       SetCurrentFile, OpenDatabase, files, repairer
  <2>2. DOMAIN tables' \subseteq DOMAIN tables /\ \A t \in DOMAIN tables' : tables'[t] = tables[t]
    <3>1. CASE OpenDatabase
      <4>1. descriptor.files \subseteq DOMAIN tables
        BY <3>1 DEF OpenDatabase, RepairInv, Described, TablesListed, Scanned
      <4> QED
        BY <3>1, <4>1 DEF OpenDatabase, Restrict
    <3>2. CASE tables' = tables
      BY <3>2
    <3> QED
      BY <1>12, <3>1, <3>2 DEF ArchiveLog, Converted, DescriptorSteps, WriteTemp, ArchiveManifests, Install,
         SetCurrentFile, files
  <2>3. \A t : Archived(t)' => Archived(t)
    BY <2>1 DEF Archived
  <2>4. \A t \in table_numbers_' : Archived(t)' => Sound(t)'
    <3>1. \A t \in table_numbers_' : t \in DOMAIN tables'
      <4>1. CASE OpenDatabase
        BY <2>1, <4>1 DEF OpenDatabase, RepairInv, Described, Scanned
      <4>2. CASE tables' = tables
        BY <1>1, <2>1, <4>2 DEF TablesListed
      <4> QED
        BY <1>12, <4>1, <4>2 DEF ArchiveLog, Converted, DescriptorSteps, WriteTemp, ArchiveManifests, Install,
           SetCurrentFile, files
    <3> QED
      BY <1>1, <1>3, <2>1, <2>2, <2>3, <3>1 DEF ArchivedOnce
  <2>5. crashes = 0 => \A t \in Nat : Archived(t)' => t < next_file_number_ /\ (t \in DOMAIN tables' => Sound(t)')
    <3>1. crashes = 0 => \A t \in Nat : Archived(t) => t < next_file_number_ /\ (t \in DOMAIN tables => Sound(t))
      BY <1>1 DEF ArchivedOnce
    <3> QED
      BY <1>3, <2>2, <2>3, <3>1
  <2> QED
    BY <1>5, <2>1, <2>4, <2>5 DEF ArchivedOnce
<1> QED
  BY <1>6, <1>7, <1>8, <1>9, <1>10, <1>11, <1>12 DEF Next, CreateFails, DescriptorSteps, OneDeath

(* The parts of KeepingInv are kept together with NothingDestroyed.            *)
LEMMA KeepingStep ==
    ASSUME OneDeath, ConstantsOK, RepairInv, KeepingInv, NothingDestroyed, [Next]_vars
    PROVE  KeepingInv' /\ NothingDestroyed'
<1>1. CASE UNCHANGED vars
  BY <1>1 DEF vars, files, repairer, KeepingInv, Accounted, LogsUnhurt, CopyArchived, ArchivedOnce, Archived, Sound,
     NothingDestroyed, Kept, Listed
<1>2. CASE Next
  BY <1>2, AccountedStep, LogsUnhurtStep, CopyArchivedStep, ArchivedOnceStep, NothingDestroyedStep
  DEF KeepingInv, OneDeath
<1> QED
  BY <1>1, <1>2

(* RepairDB: a repair that dies once, at whatever step, and is begun again,    *)
(* whichever conversions, writes or renamings fail in it, destroys nothing,    *)
(* and neither does opening the database afterwards.                           *)
THEOREM NothingIsDestroyed ==
    ASSUME ConstantsOK, OneDeath
    PROVE  Spec => []NothingDestroyed
<1>1. Init => RepairInv /\ KeepingInv /\ NothingDestroyed
  BY InitInv, KeepingInit
<1>2. RepairInv /\ KeepingInv /\ NothingDestroyed /\ [Next]_vars
         => RepairInv' /\ KeepingInv' /\ NothingDestroyed'
  BY RepairStep, KeepingStep
<1> QED
  BY <1>1, <1>2, PTL DEF Spec
-----------------------------------------------------------------------------
(* All of it together.  AttemptInv is of a repair that may fail anywhere but   *)
(* in the creation of a copy and dies once at most; CompleteInv of one in      *)
(* which nothing fails.                                                        *)
AttemptInv == RepairInv /\ Covers /\ KeepingInv /\ NothingDestroyed

CompleteInv == AttemptInv /\ RecoveryInv

AttemptOK == ConstantsOK /\ OneDeath /\ ~Transient

(* A repair that may fail begins with everything there, and every step, also   *)
(* one that fails, keeps it.                                                   *)
LEMMA Attempt ==
    ASSUME AttemptOK
    PROVE  /\ Init => AttemptInv
           /\ AttemptInv /\ [Next]_vars => AttemptInv'
           /\ AttemptInv => NothingDestroyed /\ LastSequenceCovers /\ NumbersUnused
<1>1. Init => AttemptInv
  BY InitInv, CoversInit, KeepingInit DEF AttemptOK, AttemptInv
<1>2. AttemptInv /\ [Next]_vars => AttemptInv'
  BY RepairStep, CoversStep, KeepingStep DEF AttemptOK, AttemptInv
<1>3. AttemptInv => NothingDestroyed /\ LastSequenceCovers /\ NumbersUnused
  BY RepairMeans, CoversMeans DEF AttemptOK, AttemptInv
<1> QED
  BY <1>1, <1>2, <1>3

(* A repair in which nothing fails also recovers everything.                   *)
LEMMA Complete ==
    ASSUME AttemptOK, CleanRepair
    PROVE  /\ Init => CompleteInv
           /\ CompleteInv /\ [Next]_vars => CompleteInv'
           /\ CompleteInv => /\ EverythingRecovered /\ NothingDestroyed
                             /\ LastSequenceCovers /\ NumbersUnused
<1>1. Init => CompleteInv
  BY Attempt, RecoveryInit DEF CompleteInv
<1>2. CompleteInv /\ [Next]_vars => CompleteInv'
  BY Attempt, RecoveryStep DEF AttemptOK, AttemptInv, CompleteInv
<1>3. CompleteInv => /\ EverythingRecovered /\ NothingDestroyed /\ LastSequenceCovers /\ NumbersUnused
  BY Attempt, RecoveryMeans DEF AttemptInv, CompleteInv
<1> QED
  BY <1>1, <1>2, <1>3
=============================================================================
