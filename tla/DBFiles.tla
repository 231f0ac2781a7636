------------------------------- MODULE DBFiles -------------------------------
(* leveldb, db/db_impl.cc and db/version_set.cc: the files of a database.      *)
(* Writes go to a log file; memtables and compactions become table files; a    *)
(* MANIFEST logs which tables make up the database and CURRENT names the       *)
(* MANIFEST.  The process can be killed and the power can fail between any two *)
(* file operations, after which DB::Open recovers.  An entry <<w, s>> is the   *)
(* w-th write with sequence number s.                                          *)
EXTENDS Naturals, Sequences, FiniteSets, FiniteSetsExt, FiniteSetTheorems, SequenceTheorems,
        WellFoundedInduction, TLAPS

CONSTANTS MaxWrites,      \* bound: writes
          MaxCrashes,     \* bound: times the process dies
          MaxCompactions, \* bound: compactions of tables
          MaxErrors,      \* bound: MANIFEST writes that fail
          PowerFails,     \* whether the power can fail, or only the process be killed
          SafeCreation,   \* FALSE: the power can also fail while a database is created
          ReuseLogs       \* options_.reuse_logs

VARIABLES logs,       \* log files: number -> [recs, synced]
          tables,     \* complete and synced table files: number -> set of entries
          partial,    \* table files begun but not finished
          manifests,  \* MANIFEST files: number -> [recs, synced]
          torn,       \* pieces of records in them: <<MANIFEST, records before it>>
          current,    \* the MANIFEST that CURRENT names, 0 if there is no CURRENT
          db,         \* what the process has in memory
          flush,      \* the memtable compaction in progress, a set of at most one
          comp,       \* the table compaction in progress, a set of at most one
          garbage,    \* files DeleteObsoleteFiles is deleting: <<type, number>>
          pinned,     \* tables of older versions that a reader still uses
          written,    \* history: writes made
          must,       \* history: entries that may not be lost
          counts      \* crashes, compactions and errors so far

vars == <<logs, tables, partial, manifests, torn, current, db, flush, comp, garbage, pinned,
          written, must, counts>>
disk == <<logs, tables, partial, manifests, torn, current>>

-----------------------------------------------------------------------------
(* A closed database, and the fields of DBImpl and VersionSet.                 *)
Closed == [pc |-> "closed", mem |-> {}, imm |-> {}, log |-> 0, live |-> {}, logNumber |-> 0,
           next |-> 2, manifest |-> 0, descriptor |-> FALSE, last |-> 0, todo |-> {},
           add |-> {}, save |-> FALSE, bgError |-> FALSE]

NewFile(recs) == [recs |-> recs, synced |-> 0]

With(files, n, file) == [m \in DOMAIN files \union {n} |-> IF m = n THEN file ELSE files[m]]

Without(files, n) == [m \in DOMAIN files \ {n} |-> files[m]]

(* class VersionEdit; log, next and last are 0 when not set.                   *)
Edit(add, del, log, next, last) == [add |-> add, del |-> del, log |-> log, next |-> next, last |-> last]

Entries(recs) == {recs[i] : i \in DOMAIN recs}

(* The last number that is set.                                                *)
LastSet(numbers) ==
    LET with == {i \in DOMAIN numbers : numbers[i] # 0}
    IN  IF with = {} THEN 0 ELSE numbers[Max(with)]

(* Builder::Apply and SaveTo over the records of a MANIFEST: a table that was  *)
(* added and not deleted since.                                                *)
LiveAfter(edits) ==
    {n \in UNION {edits[i].add : i \in DOMAIN edits} :
        \E i \in DOMAIN edits : /\ n \in edits[i].add
                               /\ \A j \in DOMAIN edits : j > i => n \notin edits[j].del}

(* VersionSet::Recover: what the records of a MANIFEST say.                    *)
View(edits) == [live |-> LiveAfter(edits),
                log  |-> LastSet([i \in DOMAIN edits |-> edits[i].log]),
                next |-> LastSet([i \in DOMAIN edits |-> edits[i].next]),
                last |-> LastSet([i \in DOMAIN edits |-> edits[i].last])]

Init == /\ logs = <<>> /\ tables = <<>> /\ partial = {} /\ manifests = <<>>
        /\ torn = {} /\ current = 0
        /\ db = Closed
        /\ flush = {} /\ comp = {} /\ garbage = {} /\ pinned = {}
        /\ written = 0 /\ must = {}
        /\ counts = [crashes |-> 0, compactions |-> 0, errors |-> 0]

-----------------------------------------------------------------------------
(* DB::Open.                                                                   *)

(* NewDB: a MANIFEST that is closed but not synced, then CURRENT.              *)
NewDB == /\ db.pc = "closed" /\ current = 0
         /\ manifests' = With(manifests, 1, NewFile(<<Edit({}, {}, 0, 2, 0)>>))
         /\ db' = [Closed EXCEPT !.pc = "created"]
         /\ UNCHANGED <<logs, tables, partial, torn, current, flush, comp, garbage, pinned, written,
                        must, counts>>

NewDBCurrent == /\ db.pc = "created"
                /\ current' = 1
                /\ db' = Closed
                /\ UNCHANGED <<logs, tables, partial, manifests, torn, flush, comp, garbage, pinned,
                               written, must, counts>>

MarkFileNumberUsed(next, n) == IF next <= n THEN n + 1 ELSE next

(* The MANIFEST can be read to its end: a piece of a record that another one   *)
(* follows is a corruption; at the end it is taken for a crash of the writer.  *)
Readable == \A t \in torn : t[1] = current => Len(manifests[current].recs) <= t[2]

(* DBImpl::Recover: the logs at or after the MANIFEST's log number.            *)
LogsToReplay(logNumber) == {n \in DOMAIN logs : n >= logNumber}

(* VersionSet::Recover and the first half of DBImpl::Recover: read the         *)
(* MANIFEST, check that its tables exist, list the logs to replay.  A MANIFEST *)
(* that cannot be read or has no numbers is corrupt.  The MANIFEST may be      *)
(* continued (ReuseManifest), otherwise a new one will be written.             *)
Recover ==
    /\ db.pc = "closed" /\ current # 0
    /\ LET v == View(manifests[current].recs)
           found == LogsToReplay(v.log)
       IN  IF ~Readable \/ v.next = 0 \/ ~(v.live \subseteq DOMAIN tables)
           THEN db' = [Closed EXCEPT !.pc = "corrupt"]
           ELSE db' = [Closed EXCEPT
                         !.pc = "logs", !.live = v.live, !.logNumber = v.log,
                         !.manifest = IF ReuseLogs THEN current ELSE v.next,
                         !.descriptor = ReuseLogs, !.save = ~ReuseLogs,
                         !.next = v.next + 1, !.last = v.last, !.todo = found]
    /\ UNCHANGED <<disk, flush, comp, garbage, pinned, written, must, counts>>

(* RecoverLogFile: the records become a table in level 0, or the last log and  *)
(* its memtable are kept in use.  Then the number of the log is marked as used.*)
RecoverLogFile ==
    /\ db.pc = "logs" /\ db.todo # {}
    /\ LET n == Min(db.todo)
           recs == Entries(logs[n].recs)
           reuse == ReuseLogs /\ db.todo = {n}
           last == Max({db.last} \union {e[2] : e \in recs})
       IN  IF reuse THEN /\ db' = [db EXCEPT !.todo = {}, !.mem = recs, !.log = n, !.last = last,
                                             !.next = MarkFileNumberUsed(@, n)]
                         /\ UNCHANGED <<tables, partial>>
           ELSE IF recs = {}
                THEN /\ db' = [db EXCEPT !.todo = @ \ {n}, !.next = MarkFileNumberUsed(@, n)]
                     /\ UNCHANGED <<tables, partial>>
           ELSE /\ tables' = With(tables, db.next, recs)
                /\ partial' = partial \ {db.next}
                /\ db' = [db EXCEPT !.todo = @ \ {n}, !.next = MarkFileNumberUsed(@ + 1, n),
                                    !.add = @ \union {db.next}, !.save = TRUE, !.last = last]
    /\ UNCHANGED <<logs, manifests, torn, current, flush, comp, garbage, pinned, written, must, counts>>

(* A new log, unless the last one is kept.                                     *)
OpenLog == /\ db.pc = "logs" /\ db.todo = {}
           /\ IF db.log # 0 THEN db' = [db EXCEPT !.pc = "edit"] /\ UNCHANGED logs
              ELSE /\ logs' = With(logs, db.next, NewFile(<<>>))
                   /\ db' = [db EXCEPT !.pc = "edit", !.log = db.next, !.next = @ + 1]
           /\ UNCHANGED <<tables, partial, manifests, torn, current, flush, comp, garbage, pinned,
                          written, must, counts>>

OpenEdit == Edit(db.add, {}, db.log, db.next, db.last)

(* LogAndApply, the first of this process: a new MANIFEST begins with a        *)
(* snapshot of the version.                                                    *)
OpenAppend == /\ db.pc = "edit" /\ db.save
              /\ LET old == IF db.descriptor THEN manifests[db.manifest]
                            ELSE NewFile(<<Edit(db.live, {}, 0, 0, 0)>>)
                 IN  manifests' = With(manifests, db.manifest, [old EXCEPT !.recs = Append(@, OpenEdit)])
              /\ db' = [db EXCEPT !.pc = "sync"]
              /\ UNCHANGED <<logs, tables, partial, torn, current, flush, comp, garbage, pinned,
                             written, must, counts>>

SyncFile(files, n) == [files EXCEPT ![n].synced = Len(files[n].recs)]

OpenSync == /\ db.pc = "sync"
            /\ manifests' = SyncFile(manifests, db.manifest)
            /\ db' = [db EXCEPT !.pc = "current"]
            /\ UNCHANGED <<logs, tables, partial, torn, current, flush, comp, garbage, pinned,
                           written, must, counts>>

(* SetCurrentFile: a temporary file, synced, renamed to CURRENT.  Then the     *)
(* version is installed.                                                       *)
SetCurrentFile == /\ db.pc = "current"
                  /\ current' = db.manifest
                  /\ db' = [db EXCEPT !.pc = "gc", !.live = @ \union db.add, !.add = {},
                                      !.logNumber = db.log, !.descriptor = TRUE]
                  /\ UNCHANGED <<logs, tables, partial, manifests, torn, flush, comp, garbage, pinned,
                                 written, must, counts>>

(* The MANIFEST and the log are both kept: there is nothing to save.           *)
NothingToSave == /\ db.pc = "edit" /\ ~db.save
                 /\ db' = [db EXCEPT !.pc = "gc"]
                 /\ UNCHANGED <<disk, flush, comp, garbage, pinned, written, must, counts>>

-----------------------------------------------------------------------------
(* DeleteObsoleteFiles.                                                        *)

(* The files no version, no pending output and no later recovery needs, when   *)
(* the process has d in memory.                                                *)
Obsolete(d, outputs) ==
    {<<"log", n>> : n \in {m \in DOMAIN logs : m < d.logNumber}}
      \union {<<"manifest", n>> : n \in {m \in DOMAIN manifests : m < d.manifest}}
      \union {<<"table", n>> : n \in (DOMAIN tables \union partial) \ (d.live \union pinned \union outputs)}

DeleteFile == /\ \E g \in garbage :
                   /\ logs' = IF g[1] = "log" THEN Without(logs, g[2]) ELSE logs
                   /\ manifests' = IF g[1] = "manifest" THEN Without(manifests, g[2]) ELSE manifests
                   /\ tables' = IF g[1] = "table" THEN Without(tables, g[2]) ELSE tables
                   /\ partial' = IF g[1] = "table" THEN partial \ {g[2]} ELSE partial
                   /\ garbage' = garbage \ {g}
              /\ torn' = {t \in torn : t[1] \in DOMAIN manifests'}
              /\ UNCHANGED <<current, db, flush, comp, pinned, written, must, counts>>

OpenDone == /\ db.pc = "gc"
            /\ garbage' = Obsolete(db, {})
            /\ db' = [db EXCEPT !.pc = "open"]
            /\ UNCHANGED <<disk, flush, comp, pinned, written, must, counts>>

(* The mutex is held while files are deleted.                                  *)
Running == db.pc = "open" /\ garbage = {}

-----------------------------------------------------------------------------
(* Write, as WriteQueue models it: a record, possibly synced, then the         *)
(* memtable.                                                                   *)
Write(sync) ==
    /\ Running /\ ~db.bgError /\ written < MaxWrites
    /\ LET e == <<written + 1, db.last + 1>>
           log == [logs[db.log] EXCEPT !.recs = Append(@, e)]
       IN  /\ logs' = With(logs, db.log, IF sync THEN [log EXCEPT !.synced = Len(log.recs)] ELSE log)
           /\ db' = [db EXCEPT !.mem = @ \union {e}, !.last = @ + 1]
           /\ must' = must \union {[e |-> e, sync |-> sync]}
    /\ written' = written + 1
    /\ UNCHANGED <<tables, partial, manifests, torn, current, flush, comp, garbage, pinned, counts>>

(* Slip: a second memtable is retired before the first is in a table.          *)
SwitchTooEarly == /\ Running /\ ~db.bgError
                  /\ db.mem # {}
                  /\ logs' = With(logs, db.next, NewFile(<<>>))
                  /\ db' = [db EXCEPT !.imm = db.mem, !.mem = {}, !.log = db.next, !.next = @ + 1]
                  /\ UNCHANGED <<tables, partial, manifests, torn, current, flush, comp, garbage,
                                 pinned, written, must, counts>>

(* MakeRoomForWrite switches to a new memtable and log.                        *)
SwitchMemTable == /\ Running /\ ~db.bgError
                  /\ db.mem # {} /\ db.imm = {}
                  /\ logs' = With(logs, db.next, NewFile(<<>>))
                  /\ db' = [db EXCEPT !.imm = db.mem, !.mem = {}, !.log = db.next, !.next = @ + 1]
                  /\ UNCHANGED <<tables, partial, manifests, torn, current, flush, comp, garbage,
                                 pinned, written, must, counts>>

-----------------------------------------------------------------------------
(* The background thread.  A job has an output table: "build" while the file   *)
(* is being written, "built" when it is complete and synced, "logged" when its *)
(* edit is in the MANIFEST.                                                    *)

(* CompactMemTable: by BackgroundCall, which does nothing after an error, or   *)
(* between two keys of DoCompactionWork, whatever bg_error_ is, when some      *)
(* outputs of the compaction may be finished and others not.                   *)
BeginFlush == /\ Running /\ db.imm # {} /\ flush = {}
              /\ comp = {} => ~db.bgError
              /\ \A c \in comp : c.pc \in {"build", "built"}
              /\ flush' = {[pc |-> "build", out |-> db.next, del |-> {}, data |-> db.imm]}
              /\ partial' = partial \union {db.next}
              /\ db' = [db EXCEPT !.next = @ + 1]
              /\ UNCHANGED <<logs, tables, manifests, torn, current, comp, garbage, pinned, written,
                             must, counts>>

(* Two tables are merged into one.                                             *)
BeginCompaction ==
    /\ Running /\ ~db.bgError /\ db.imm = {} /\ comp = {} /\ flush = {}
    /\ counts.compactions < MaxCompactions
    /\ \E ins \in SUBSET db.live :
         /\ Cardinality(ins) = 2
         /\ comp' = {[pc |-> "build", out |-> db.next, del |-> ins, data |-> UNION {tables[n] : n \in ins}]}
    /\ partial' = partial \union {db.next}
    /\ db' = [db EXCEPT !.next = @ + 1]
    /\ counts' = [counts EXCEPT !.compactions = @ + 1]
    /\ UNCHANGED <<logs, tables, manifests, torn, current, flush, garbage, pinned, written, must>>

(* BuildTable or FinishCompactionOutputFile: complete, synced, usable.         *)
Built(j) == /\ j.pc = "build" /\ j.out \in partial
            /\ tables' = With(tables, j.out, j.data)
            /\ partial' = partial \ {j.out}
            /\ UNCHANGED <<logs, manifests, torn, current, db, garbage, pinned, written, must, counts>>

(* The edit of a job.  That of a memtable compaction says that earlier logs    *)
(* are no longer needed.                                                       *)
JobEdit(j) == Edit({j.out}, j.del, IF j.del = {} THEN db.log ELSE db.logNumber, db.next, db.last)

Logged(j) ==
    /\ j.pc = "built"
    /\ manifests' = [manifests EXCEPT ![db.manifest].recs = Append(@, JobEdit(j))]
    /\ UNCHANGED <<logs, tables, partial, torn, current, db, garbage, pinned, written, must, counts>>

(* The record is synced; AppendVersion, the memtable is dropped, and           *)
(* DeleteObsoleteFiles looks for what is left over, but not after an error.    *)
Install(j, others) ==
    LET edit == JobEdit(j)
        next == [db EXCEPT !.live = (@ \ j.del) \union {j.out}, !.logNumber = edit.log,
                           !.imm = IF j.del = {} THEN {} ELSE @]
    IN  /\ j.pc = "logged"
        /\ manifests' = SyncFile(manifests, db.manifest)
        /\ db' = next
        /\ garbage' = IF db.bgError THEN {} ELSE Obsolete(next, others)
        /\ UNCHANGED <<logs, tables, partial, torn, current, pinned, written, must, counts>>

(* The MANIFEST write fails and leaves nothing or a piece of the record, or    *)
(* the record is there but could not be synced.  The version is not installed. *)
(* RecordBackgroundError stops writes and garbage collection, but not a        *)
(* compaction that has begun.                                                  *)
LogAndApplyFails(j) ==
    /\ counts.errors < MaxErrors
    /\ \/ j.pc \in {"built", "logged"} /\ UNCHANGED torn
       \/ j.pc = "built" /\ torn' = torn \union {<<db.manifest, Len(manifests[db.manifest].recs)>>}
    /\ counts' = [counts EXCEPT !.errors = @ + 1]
    /\ db' = [db EXCEPT !.bgError = TRUE]
    /\ UNCHANGED <<logs, tables, partial, manifests, current, garbage, pinned, written, must>>

FlushStep == /\ Running
             /\ \E j \in flush : \/ Built(j) /\ flush' = {[j EXCEPT !.pc = "built"]}
                                 \/ Logged(j) /\ flush' = {[j EXCEPT !.pc = "logged"]}
                                 \/ Install(j, {c.out : c \in comp}) /\ flush' = {}
                                 \/ LogAndApplyFails(j) /\ flush' = {}
             /\ UNCHANGED comp

(* DoCompactionWork and InstallCompactionResults do not look at bg_error_.     *)
CompactionStep == /\ Running /\ flush = {}
                  /\ \E j \in comp : \/ Built(j) /\ comp' = {[j EXCEPT !.pc = "built"]}
                                     \/ Logged(j) /\ comp' = {[j EXCEPT !.pc = "logged"]}
                                     \/ Install(j, {}) /\ comp' = {}
                                     \/ LogAndApplyFails(j) /\ comp' = {}
                  /\ UNCHANGED flush

(* A reader takes and drops a reference to the current version; its files are  *)
(* kept until then (Version::Ref, Unref).                                      *)
Pin == /\ Running /\ pinned = {} /\ db.live # {}
       /\ pinned' = db.live
       /\ UNCHANGED <<disk, db, flush, comp, garbage, written, must, counts>>

Unpin == /\ Running /\ pinned # {}
         /\ pinned' = {}
         /\ UNCHANGED <<disk, db, flush, comp, garbage, written, must, counts>>

-----------------------------------------------------------------------------
MaxRecords(files) == Max({0} \union {Len(files[n].recs) : n \in DOMAIN files})

(* The process dies.  When the power fails too, a log or MANIFEST keeps some   *)
(* of what was not synced, from the start; creation, renaming and deletion of  *)
(* files are taken to be durable.                                              *)
Survivors(files) ==
    LET cuts == {k \in [DOMAIN files -> 0..MaxRecords(files)] :
                   \A n \in DOMAIN files : files[n].synced <= k[n] /\ k[n] <= Len(files[n].recs)}
    IN  {[n \in DOMAIN files |-> [recs |-> SubSeq(files[n].recs, 1, k[n]), synced |-> k[n]]] : k \in cuts}

Creating == current = 0 \/ (current = 1 /\ manifests[1].synced = 0)

Dies == /\ counts.crashes < MaxCrashes
        /\ counts' = [counts EXCEPT !.crashes = @ + 1]
        /\ db' = Closed
        /\ flush' = {} /\ comp' = {} /\ garbage' = {} /\ pinned' = {}
        /\ UNCHANGED <<tables, partial, current, written>>

Killed == /\ db.pc # "closed"
          /\ Dies
          /\ UNCHANGED <<logs, manifests, torn, must>>

PowerFailure == /\ PowerFails
                /\ SafeCreation => ~Creating
                /\ Dies
                /\ logs' \in Survivors(logs)
                /\ manifests' \in Survivors(manifests)
                /\ torn' \in {left \in SUBSET torn :
                                \A t \in torn : LET n == Len(manifests'[t[1]].recs)
                                               IN  IF t \in left THEN t[2] <= n ELSE n <= t[2]}
                /\ must' = {m \in must : m.sync}

Open == \/ NewDB \/ NewDBCurrent \/ Recover \/ RecoverLogFile \/ OpenLog \/ OpenAppend \/ OpenSync
        \/ SetCurrentFile \/ NothingToSave \/ OpenDone

Next == \/ Open \/ DeleteFile
        \/ \E s \in BOOLEAN : Write(s)
        \/ SwitchMemTable \/ BeginFlush \/ BeginCompaction \/ FlushStep \/ CompactionStep
        \/ Pin \/ Unpin
        \/ Killed \/ PowerFailure

Spec == Init /\ [][Next]_vars

FairSpec == Spec /\ WF_vars(Open)
-----------------------------------------------------------------------------
(* Contents of an open database.                                               *)
Contents == db.mem \union db.imm \union UNION {tables[n] : n \in db.live}

(* No table that the current version or a reader's version uses is deleted,    *)
(* nor one that a compaction has finished and is about to install.             *)
LiveFilesExist == db.pc = "open" => db.live \union pinned \subseteq DOMAIN tables

(* Every write that was acknowledged is there after the database has been      *)
(* opened again: all of them when the process was killed, the synced ones when *)
(* the power failed.                                                           *)
NothingLost == db.pc = "open" => {m.e : m \in must} \subseteq Contents

(* A recovered write is whole and its sequence number is its own: none is      *)
(* given out twice, and readers' sequence numbers cover all entries.           *)
SequenceNumbersUnique == db.pc = "open" =>
    /\ \A e, f \in Contents : e[2] = f[2] => e = f
    /\ \A e \in Contents : e[2] <= db.last

(* A database leveldb has created can be opened again, whenever the process    *)
(* died: CURRENT names a MANIFEST that is complete and whose tables exist,     *)
(* unless a record follows a piece of one that could not be written.           *)
OpensUnlessTorn == db.pc = "corrupt" => ~Readable

-----------------------------------------------------------------------------
(* Proofs.  What a recovery finds depends on where the MANIFEST ends, which a  *)
(* power failure may change: Views has what each of its possible ends says.    *)

Entry == Nat \X Nat

EditType == [add : SUBSET Nat, del : SUBSET Nat, log : Nat, next : Nat, last : Nat]

ViewType == [live : SUBSET Nat, log : Nat, next : Nat, last : Nat]

(* The view after one more record.                                             *)
NextView(v, e) == [live |-> (v.live \ e.del) \union e.add,
                   log  |-> IF e.log # 0 THEN e.log ELSE v.log,
                   next |-> IF e.next # 0 THEN e.next ELSE v.next,
                   last |-> IF e.last # 0 THEN e.last ELSE v.last]

(* What a record adds to the tables.                                           *)
LEMMA LiveAppend ==
    ASSUME NEW edits \in Seq(EditType), NEW e \in EditType
    PROVE  LiveAfter(Append(edits, e)) = (LiveAfter(edits) \ e.del) \union e.add
<1> DEFINE n == Len(edits)
           more == Append(edits, e)
<1>1. /\ n \in Nat /\ DOMAIN edits = 1..n /\ DOMAIN more = 1..(n + 1)
      /\ more[n + 1] = e /\ \A i \in 1..n : more[i] = edits[i]
  BY DEF EditType
<1> HIDE DEF n, more
<1>2. ASSUME NEW t \in LiveAfter(more) PROVE t \in (LiveAfter(edits) \ e.del) \union e.add
  <2>1. PICK i \in DOMAIN more : t \in more[i].add /\ \A j \in DOMAIN more : j > i => t \notin more[j].del
    BY <1>2 DEF LiveAfter
  <2>2. CASE i = n + 1
    BY <2>1, <2>2, <1>1
  <2>3. CASE i \in 1..n
    <3>1. t \notin e.del
      BY <2>1, <2>3, <1>1
    <3>2. i \in DOMAIN edits /\ t \in edits[i].add /\ \A j \in DOMAIN edits : j > i => t \notin edits[j].del
      BY <2>1, <2>3, <1>1
    <3> QED
      BY <3>1, <3>2 DEF LiveAfter
  <2> QED
    BY <2>2, <2>3, <1>1
<1>3. ASSUME NEW t \in e.add PROVE t \in LiveAfter(more)
  <2>1. n + 1 \in DOMAIN more /\ t \in more[n + 1].add /\ \A j \in DOMAIN more : ~(j > n + 1)
    BY <1>1, <1>3
  <2> QED
    BY <2>1 DEF LiveAfter
<1>4. ASSUME NEW t \in LiveAfter(edits) \ e.del PROVE t \in LiveAfter(more)
  <2>1. PICK i \in DOMAIN edits : t \in edits[i].add /\ \A j \in DOMAIN edits : j > i => t \notin edits[j].del
    BY <1>4 DEF LiveAfter
  <2>2. i \in DOMAIN more /\ t \in more[i].add /\ \A j \in DOMAIN more : j > i => t \notin more[j].del
    BY <2>1, <1>1, <1>4
  <2> QED
    BY <2>2 DEF LiveAfter
<1> QED
  BY <1>2, <1>3, <1>4 DEF more

(* A set of bounded numbers that is not empty has a largest: the least bound.  *)
LEMMA MaxIs ==
    ASSUME NEW b \in Nat, NEW S \in SUBSET (0..b), S # {}
    PROVE  Max(S) \in S /\ \A e \in S : e <= Max(S)
<1> DEFINE Bounds == {n \in Nat : \A e \in S : e <= n}
           Less == OpToRel(<, Nat)
<1>1. b \in Bounds
  OBVIOUS
<1>2. PICK n \in Bounds : \A m \in Bounds : ~(<<m, n>> \in Less)
  <2>1. Bounds \subseteq Nat /\ Bounds # {}
    BY <1>1
  <2>2. IsWellFoundedOn(Less, Nat)
    BY NatLessThanWellFounded
  <2> HIDE DEF Bounds, Less
  <2> QED
    BY <2>1, <2>2, WFMin
<1>3. \A m \in Bounds : n <= m
  <2>1. Less = {ss \in Nat \X Nat : ss[1] < ss[2]}
    BY DEF OpToRel
  <2>2. \A m \in Nat : m < n => <<m, n>> \in Less
    BY <2>1
  <2>3. n \in Nat
    OBVIOUS
  <2> SUFFICES ASSUME NEW m \in Bounds PROVE n <= m
    OBVIOUS
  <2>4. m \in Nat
    OBVIOUS
  <2>5. <<m, n>> \notin Less
    BY <1>2
  <2> HIDE DEF Bounds, Less
  <2>6. ~(m < n)
    BY <2>2, <2>4, <2>5
  <2> QED
    BY <2>3, <2>4, <2>6
<1> HIDE DEF Less
<1>5. n \in Nat /\ \A e \in S : e \in Nat /\ e <= n
  BY <1>2
<1>4. n \in S
  <2> SUFFICES ASSUME n \notin S PROVE FALSE
    OBVIOUS
  <2>1. n # 0
    <3>1. PICK e \in S : TRUE
      OBVIOUS
    <3> QED
      BY <3>1, <1>5
  <2>2. n - 1 \in Bounds
    BY <2>1, <1>5
  <2> QED
    BY <1>3, <2>2
<1>6. \E e \in S : \A f \in S : e >= f
  BY <1>5, <1>4
<1> QED
  BY <1>6, <1>5 DEF Max


(* A number that is set later is the last one.                                 *)
LEMMA LastSetAppend ==
    ASSUME NEW n \in Nat, NEW f \in [1..n -> Nat], NEW g \in [1..(n + 1) -> Nat],
           \A i \in 1..n : g[i] = f[i]
    PROVE  LastSet(f) \in Nat /\ LastSet(g) = IF g[n + 1] # 0 THEN g[n + 1] ELSE LastSet(f)
<1> DEFINE A == {i \in DOMAIN f : f[i] # 0}
           B == {i \in DOMAIN g : g[i] # 0}
<1>1. A \in SUBSET (0..n) /\ B \in SUBSET (0..(n + 1)) /\ n + 1 \in Nat
  OBVIOUS
<1>2. A # {} => Max(A) \in A
  BY <1>1, MaxIs
<1>3. B # {} => Max(B) \in B /\ \A e \in B : e <= Max(B)
  BY <1>1, MaxIs
<1>4. LastSet(f) = (IF A = {} THEN 0 ELSE f[Max(A)]) /\ LastSet(g) = IF B = {} THEN 0 ELSE g[Max(B)]
  BY DEF LastSet
<1>5. CASE g[n + 1] # 0
  <2>1. n + 1 \in B
    BY <1>5
  <2>2. Max(B) = n + 1
    BY <2>1, <1>1, <1>3
  <2> QED
    BY <2>1, <2>2, <1>2, <1>4, <1>5
<1>6. CASE g[n + 1] = 0
  <2>1. A = B
    BY <1>6
  <2>2. A # {} => Max(A) \in 1..n
    BY <1>2
  <2>3. LastSet(g) = IF A = {} THEN 0 ELSE g[Max(A)]
    BY <2>1, <1>4
  <2> HIDE DEF A, B
  <2>4. LastSet(g) = LastSet(f) /\ LastSet(f) \in Nat
    BY <2>2, <2>3, <1>4
  <2> QED
    BY <2>4, <1>6
<1> QED
  BY <1>5, <1>6

(* The view after no record, and after one more.                               *)
LEMMA ViewAppend ==
    ASSUME NEW edits \in Seq(EditType), NEW e \in EditType
    PROVE  View(edits) \in ViewType /\ View(Append(edits, e)) = NextView(View(edits), e)
<1> DEFINE n == Len(edits)
           more == Append(edits, e)
<1>0. \A i \in 1..n : edits[i] \in EditType
  OBVIOUS
<1>1. /\ n \in Nat /\ DOMAIN edits = 1..n /\ DOMAIN more = 1..(n + 1)
      /\ more[n + 1] = e /\ \A i \in 1..n : more[i] = edits[i] /\ edits[i] \in EditType
  BY <1>0
<1>2. LiveAfter(edits) \subseteq Nat
  BY <1>1 DEF LiveAfter, EditType
<1> HIDE DEF n, more
<1>3. View(edits).log \in Nat /\ View(more).log = IF e.log # 0 THEN e.log ELSE View(edits).log
  <2> DEFINE f == [i \in DOMAIN edits |-> edits[i].log]
             g == [i \in DOMAIN more |-> more[i].log]
  <2>1. f \in [1..n -> Nat] /\ g \in [1..(n + 1) -> Nat] /\ g[n + 1] = e.log /\ \A i \in 1..n : g[i] = f[i]
    BY <1>1 DEF EditType
  <2>2. View(edits).log = LastSet(f) /\ View(more).log = LastSet(g)
    BY DEF View
  <2> HIDE DEF f, g
  <2> QED
    BY <2>1, <2>2, <1>1, LastSetAppend
<1>4. View(edits).next \in Nat /\ View(more).next = IF e.next # 0 THEN e.next ELSE View(edits).next
  <2> DEFINE f == [i \in DOMAIN edits |-> edits[i].next]
             g == [i \in DOMAIN more |-> more[i].next]
  <2>1. f \in [1..n -> Nat] /\ g \in [1..(n + 1) -> Nat] /\ g[n + 1] = e.next /\ \A i \in 1..n : g[i] = f[i]
    BY <1>1 DEF EditType
  <2>2. View(edits).next = LastSet(f) /\ View(more).next = LastSet(g)
    BY DEF View
  <2> HIDE DEF f, g
  <2> QED
    BY <2>1, <2>2, <1>1, LastSetAppend
<1>5. View(edits).last \in Nat /\ View(more).last = IF e.last # 0 THEN e.last ELSE View(edits).last
  <2> DEFINE f == [i \in DOMAIN edits |-> edits[i].last]
             g == [i \in DOMAIN more |-> more[i].last]
  <2>1. f \in [1..n -> Nat] /\ g \in [1..(n + 1) -> Nat] /\ g[n + 1] = e.last /\ \A i \in 1..n : g[i] = f[i]
    BY <1>1 DEF EditType
  <2>2. View(edits).last = LastSet(f) /\ View(more).last = LastSet(g)
    BY DEF View
  <2> HIDE DEF f, g
  <2> QED
    BY <2>1, <2>2, <1>1, LastSetAppend
<1>6. View(more).live = (View(edits).live \ e.del) \union e.add
  BY LiveAppend DEF View, more
<1>7. /\ View(edits) = [live |-> View(edits).live, log |-> View(edits).log, next |-> View(edits).next, last |-> View(edits).last]
      /\ View(more) = [live |-> View(more).live, log |-> View(more).log, next |-> View(more).next, last |-> View(more).last]
      /\ View(edits).live \subseteq Nat
  BY <1>2 DEF View
<1> QED
  BY <1>3, <1>4, <1>5, <1>6, <1>7 DEF NextView, ViewType, more

(* A new database has a MANIFEST of one record, any other begins with two.     *)
LEMMA ViewNew ==
    /\ View(<<Edit({}, {}, 0, 2, 0)>>) = [live |-> {}, log |-> 0, next |-> 2, last |-> 0]
    /\ \A live \in SUBSET Nat, e \in EditType : e.del = {} =>
          View(Append(<<Edit(live, {}, 0, 0, 0)>>, e))
             = [live |-> live \union e.add, log |-> e.log, next |-> e.next, last |-> e.last]
<1>1. View(<<>>) = [live |-> {}, log |-> 0, next |-> 0, last |-> 0]
  BY DEF View, LiveAfter, LastSet
<1>2. \A e \in EditType : View(<<e>>) = NextView([live |-> {}, log |-> 0, next |-> 0, last |-> 0], e)
  <2> SUFFICES ASSUME NEW e \in EditType
               PROVE  View(<<e>>) = NextView([live |-> {}, log |-> 0, next |-> 0, last |-> 0], e)
    OBVIOUS
  <2>1. <<>> \in Seq(EditType) /\ Append(<<>>, e) = <<e>>
    OBVIOUS
  <2> QED
    BY <2>1, <1>1, ViewAppend
<1>3. Edit({}, {}, 0, 2, 0) \in EditType
  BY DEF Edit, EditType
<1>4. ASSUME NEW live \in SUBSET Nat, NEW e \in EditType, e.del = {}
      PROVE  View(Append(<<Edit(live, {}, 0, 0, 0)>>, e))
               = [live |-> live \union e.add, log |-> e.log, next |-> e.next, last |-> e.last]
  <2> DEFINE s == Edit(live, {}, 0, 0, 0)
  <2>1. s \in EditType
    BY DEF Edit, EditType
  <2>2. View(<<s>>) = [live |-> live, log |-> 0, next |-> 0, last |-> 0]
    BY <2>1, <1>2 DEF Edit, NextView
  <2> HIDE DEF s
  <2>3. <<s>> \in Seq(EditType)
    BY <2>1
  <2>4. View(Append(<<s>>, e)) = NextView(View(<<s>>), e)
    BY <2>3, ViewAppend
  <2> QED
    BY <2>2, <2>4, <1>4 DEF NextView, EditType, s
<1> QED
  BY <1>2, <1>3, <1>4 DEF Edit, NextView

-----------------------------------------------------------------------------
(* The inductive invariant.                                                    *)

(* The power fails only where the database exists and logs are not continued:  *)
(* what is claimed of a power failure is claimed for these.                    *)
ConstantsOK == /\ PowerFails \in BOOLEAN /\ ReuseLogs \in BOOLEAN
               /\ PowerFails => SafeCreation /\ ~ReuseLogs

(* What the whole MANIFEST says; where it may end when the process dies, and   *)
(* what it says then.                                                          *)
Whole == View(manifests[current].recs)

Ends == IF PowerFails /\ ~Creating
        THEN manifests[current].synced..Len(manifests[current].recs)
        ELSE {Len(manifests[current].recs)}

Views == {View(SubSeq(manifests[current].recs, 1, k)) : k \in Ends}

(* The entries of tables, and those of the logs that a recovery replays.       *)
TableEntries(set) == UNION {tables[n] : n \in set}

Records(set) == UNION {Entries(logs[n].recs) : n \in set}

LogEntries(from) == Records(LogsToReplay(from))

Store(live, from) == TableEntries(live) \union LogEntries(from)

(* An entry that may not be lost is in a log, where a power failure leaves it. *)
InLog(m, n) == \E i \in DOMAIN logs[n].recs : /\ logs[n].recs[i] = m.e
                                              /\ PowerFails /\ m.sync => i <= logs[n].synced

Unique(entries) == \A e, f \in entries : e[2] = f[2] => e = f

UpTo(entries, last) == \A e \in entries : e[2] <= last

FilesTyped(files, Rec) ==
    \A n \in DOMAIN files : /\ n \in Nat /\ files[n] \in [recs : Seq(Rec), synced : Nat]
                            /\ files[n].synced <= Len(files[n].recs)

Phases == {"closed", "created", "logs", "edit", "sync", "current", "gc", "open", "corrupt"}

DbType == [pc : Phases, mem : SUBSET Entry, imm : SUBSET Entry, log : Nat, live : SUBSET Nat,
           logNumber : Nat, next : Nat \ {0}, manifest : Nat, descriptor : BOOLEAN, last : Nat,
           todo : SUBSET Nat, add : SUBSET Nat, save : BOOLEAN, bgError : BOOLEAN]

JobType == [pc : {"build", "built", "logged"}, out : Nat, del : SUBSET Nat, data : SUBSET Entry]

TypeOK == /\ FilesTyped(logs, Entry) /\ 0 \notin DOMAIN logs
          /\ FilesTyped(manifests, EditType)
          /\ \A n \in DOMAIN tables : n \in Nat /\ tables[n] \in SUBSET Entry
          /\ current \in Nat /\ written \in Nat /\ db \in DbType
          /\ flush \in SUBSET JobType /\ \A i, j \in flush : i = j
          /\ comp \in SUBSET JobType /\ \A i, j \in comp : i = j
          /\ pinned \in SUBSET Nat
          /\ must \in SUBSET [e : Entry, sync : BOOLEAN]

(* Numbers of files and of entries are bounded, so there is a largest one.     *)
Bounded == \E b \in Nat : \A n \in DOMAIN logs : n <= b /\ UpTo(Entries(logs[n].recs), b)

(* A view recovers a database: numbers it will give out are unused, its tables *)
(* exist, nothing that must be there is missing, and no sequence number would  *)
(* be given out twice.                                                         *)
Numbered(v) == /\ current < v.next /\ v.log < v.next /\ v.next <= Whole.next
               /\ \A n \in v.live : n < v.next

Saved(v) == /\ v.live \subseteq DOMAIN tables
            /\ \A m \in must : \/ m.e \in TableEntries(v.live)
                               \/ \E n \in LogsToReplay(v.log) : InLog(m, n)

Counted(v) == Unique(Store(v.live, v.log)) /\ UpTo(TableEntries(v.live), v.last)

ManifestInv == current # 0 => /\ current \in DOMAIN manifests
                              /\ \A v \in Views : Numbered(v) /\ Saved(v) /\ Counted(v)

(* Before there is a database.                                                 *)
NewInv == /\ current = 0 => must = {} /\ DOMAIN logs = {} /\ db.pc \in {"closed", "created"}
          /\ db.pc = "created" => /\ current = 0 /\ 1 \in DOMAIN manifests
                                  /\ manifests[1] = NewFile(<<Edit({}, {}, 0, 2, 0)>>)

Opening == db.pc \in {"logs", "edit", "sync", "current"}

Ready == db.pc \in {"gc", "open"}

(* The numbers a process has in memory.                                        *)
MemoryInv == Opening \/ Ready =>
    /\ current # 0
    /\ \A n \in DOMAIN logs \ db.todo : n < db.next
    /\ Whole.next <= db.next /\ Whole.last <= db.last
    /\ db.log < db.next /\ db.logNumber < db.next /\ db.manifest < db.next
    /\ db.log = 0 => db.mem = {}
    /\ db.log # 0 => /\ db.log \in DOMAIN logs /\ db.logNumber <= db.log
                     /\ db.mem \subseteq Entries(logs[db.log].recs)
    /\ \A n \in db.live \union db.add : n < db.next /\ n \in DOMAIN tables
    /\ UpTo(TableEntries(db.live \union db.add) \union db.mem, db.last)

NoJobs == flush = {} /\ comp = {} /\ garbage = {} /\ pinned = {} /\ db.imm = {} /\ ~db.bgError

(* While a database is being opened, everything in its logs is in a table of   *)
(* the edit, in the memtable or in a log still to be read.                     *)
OpeningInv == Opening =>
    /\ NoJobs
    /\ db.todo \subseteq LogsToReplay(db.logNumber)
    /\ db.todo # {} => db.pc = "logs" /\ db.log = 0
    /\ db.pc # "logs" => db.log # 0
    /\ db.mem # {} => ReuseLogs
    /\ LogEntries(db.logNumber) \union {m.e : m \in must}
          \subseteq TableEntries(db.live \union db.add) \union db.mem
                      \union Records(db.todo)
    /\ Unique(Store(db.live \union db.add, db.logNumber))
    /\ ~db.save => db.add = {} /\ db.descriptor
    /\ db.descriptor = ReuseLogs

(* The MANIFEST that is being written.                                         *)
DescriptorInv == Opening =>
    /\ db.descriptor => current = db.manifest
    /\ ~db.descriptor => current < db.manifest
    /\ db.descriptor /\ db.pc \in {"logs", "edit"} =>
          Whole.live = db.live /\ Whole.log = db.logNumber
    /\ db.pc \in {"sync", "current"} =>
          IF db.descriptor THEN Whole.live = db.live \union db.add /\ Whole.log = db.log
          ELSE /\ db.manifest \in DOMAIN manifests
               /\ manifests[db.manifest].recs = Append(<<Edit(db.live, {}, 0, 0, 0)>>, OpenEdit)
    /\ db.pc = "current" => manifests[db.manifest].synced = Len(manifests[db.manifest].recs)

(* The tables and the log number when the edit of a job is in the MANIFEST.    *)
AfterLive(j) == (db.live \ j.del) \union {j.out}

AfterLog(j) == IF j.del = {} THEN db.log ELSE db.logNumber

LoggedJobs == {j \in flush \union comp : j.pc = "logged"}

(* An open database: where the entries are, and what the MANIFEST says.        *)
ReadyInv == Ready =>
    /\ current = db.manifest /\ db.log # 0 /\ db.todo = {} /\ db.add = {}
    /\ db.pc = "gc" => NoJobs
    /\ \A m \in must : \/ m.e \in TableEntries(db.live)
                       \/ m.e \in db.mem /\ InLog(m, db.log)
                       \/ m.e \in db.imm /\ \E n \in LogsToReplay(db.logNumber) : InLog(m, n)
    /\ db.imm \subseteq LogEntries(db.logNumber)
    /\ Unique(Store(db.live, db.logNumber)) /\ UpTo(Store(db.live, db.logNumber), db.last)
    /\ pinned \subseteq DOMAIN tables /\ \A n \in pinned : n < db.next

(* The MANIFEST of an open database says what is in memory, or what the job    *)
(* whose edit was written last will make of it.                                *)
InStep == Ready /\ ~db.bgError =>
    /\ \A v \in Views : \/ v.live = db.live /\ v.log = db.logNumber
                        \/ \E j \in LoggedJobs : v.live = AfterLive(j) /\ v.log = AfterLog(j)
    /\ LoggedJobs = {} => Whole.live = db.live /\ Whole.log = db.logNumber
    /\ \A j \in LoggedJobs : Whole.live = AfterLive(j) /\ Whole.log = AfterLog(j)

(* After an error records of the MANIFEST may be of jobs that failed.  The     *)
(* tables it names have the entries of the live ones and, if the memtable was  *)
(* to become one of them, those of the memtable; a table still to be written   *)
(* is not among them.                                                          *)
ErrorInv == Ready /\ db.bgError =>
    /\ \A v \in Views, j \in flush \union comp : j.pc # "logged" => j.out \notin v.live
    /\ TableEntries(db.live) \subseteq TableEntries(Whole.live)
    /\ TableEntries(Whole.live) \subseteq TableEntries(db.live) \union db.imm
    /\ \A j \in LoggedJobs : j.out \in Whole.live

(* The jobs of the background thread.                                          *)
JobInv ==
    /\ flush \union comp \union pinned # {} => db.pc = "open"
    /\ \A j \in flush \union comp :
          /\ j.out \notin db.live \union pinned /\ j.out < db.next
          /\ j.pc # "build" => j.out \in DOMAIN tables /\ tables[j.out] = j.data
    /\ \A j \in flush : j.del = {} /\ j.data = db.imm /\ db.imm # {}
    /\ \A j \in comp : j.del # {} /\ j.del \subseteq db.live /\ j.data = TableEntries(j.del)
    /\ \A i \in flush, j \in comp : i.out # j.out /\ j.pc # "logged"

(* What is being deleted is not needed.                                        *)
GarbageInv == garbage # {} =>
    /\ db.pc = "open" /\ ~db.bgError /\ LoggedJobs = {} /\ flush = {}
    /\ \A g \in garbage : \/ g[1] = "log" /\ g[2] < db.logNumber
                          \/ g[1] = "manifest" /\ g[2] < db.manifest
                          \/ g[1] = "table" /\ g[2] \notin db.live \union pinned \union {j.out : j \in comp}

DiskInv == TypeOK /\ Bounded /\ ManifestInv /\ NewInv

ProcessInv == /\ MemoryInv /\ OpeningInv /\ DescriptorInv /\ ReadyInv /\ InStep /\ ErrorInv
              /\ JobInv /\ GarbageInv

FilesInv == DiskInv /\ ProcessInv

-----------------------------------------------------------------------------
(* How the views change.                                                       *)

(* The views are views, and the whole MANIFEST is one of them.                 *)
LEMMA ViewsTyped ==
    ASSUME TypeOK, current \in DOMAIN manifests
    PROVE  /\ manifests[current].recs \in Seq(EditType) /\ Whole \in ViewType
           /\ Whole \in Views /\ Views \in SUBSET ViewType
<1> DEFINE recs == manifests[current].recs
           synced == manifests[current].synced
<1>1. recs \in Seq(EditType) /\ synced \in Nat /\ synced <= Len(recs) /\ Len(recs) \in Nat
  BY DEF TypeOK, FilesTyped
<1> HIDE DEF recs, synced
<1>2. \A k \in 0..Len(recs) : SubSeq(recs, 1, k) \in Seq(EditType)
  BY <1>1
<1>3. Ends \subseteq 0..Len(recs) /\ Len(recs) \in Ends
  BY <1>1 DEF Ends, recs, synced
<1>4. SubSeq(recs, 1, Len(recs)) = recs
  BY <1>1
<1>5. \A s \in Seq(EditType) : View(s) \in ViewType
  <2>1. Edit({}, {}, 0, 2, 0) \in EditType
    BY DEF Edit, EditType
  <2> QED
    BY <2>1, ViewAppend
<1>6. Views = {View(SubSeq(recs, 1, k)) : k \in Ends} /\ Whole = View(recs)
  BY DEF Views, Whole, recs
<1> QED
  BY <1>1, <1>2, <1>3, <1>4, <1>5, <1>6 DEF recs

(* A MANIFEST that does not change.                                            *)
LEMMA ViewsKept ==
    ASSUME current' = current, manifests'[current] = manifests[current]
    PROVE  Views' = Views /\ Whole' = Whole
<1>1. Creating' <=> Creating
  BY DEF Creating
<1>2. Ends' = Ends
  BY <1>1 DEF Ends
<1> QED
  BY <1>2 DEF Views, Whole

(* A record is added.                                                          *)
LEMMA ViewsGrow ==
    ASSUME TypeOK, current \in DOMAIN manifests, NEW e \in EditType, current' = current,
           manifests'[current] = [manifests[current] EXCEPT !.recs = Append(@, e)]
    PROVE  Whole' = NextView(Whole, e) /\ Views' \subseteq Views \union {Whole'}
<1> DEFINE recs == manifests[current].recs
           synced == manifests[current].synced
           n == Len(recs)
           more == Append(recs, e)
<1>1. /\ manifests[current] \in [recs : Seq(EditType), synced : Nat]
      /\ recs \in Seq(EditType) /\ synced \in Nat /\ synced <= n /\ n \in Nat
  BY DEF TypeOK, FilesTyped
<1>2. manifests'[current].recs = more /\ manifests'[current].synced = synced
  BY <1>1
<1>3. Creating' <=> Creating
  BY <1>2 DEF Creating
<1> HIDE DEF recs, synced, n, more
<1>4. /\ Len(more) = n + 1 /\ more \in Seq(EditType) /\ SubSeq(more, 1, n + 1) = more
      /\ \A k \in 0..n : SubSeq(more, 1, k) = SubSeq(recs, 1, k)
  <2>1. Len(more) = n + 1 /\ more \in Seq(EditType)
    BY <1>1 DEF more, n
  <2>2. ASSUME NEW k \in 0..n PROVE SubSeq(more, 1, k) = SubSeq(recs, 1, k)
    BY <1>1, <2>1 DEF more, n
  <2> QED
    BY <2>1, <2>2, <1>1
<1>5. Ends' \subseteq Ends \union {n + 1} /\ Ends \subseteq 0..n
  BY <1>1, <1>2, <1>3, <1>4 DEF Ends, recs, synced, n
<1>6. \A k \in Ends' : k \in Ends \/ k = n + 1
  BY <1>5
<1>7. Whole' = View(more) /\ Views' = {View(SubSeq(more, 1, k)) : k \in Ends'}
  BY <1>2 DEF Views, Whole
<1>8. Views = {View(SubSeq(recs, 1, k)) : k \in Ends} /\ Whole = View(recs)
  BY DEF Views, Whole, recs
<1>9. View(more) = NextView(View(recs), e)
  BY <1>1, ViewAppend DEF more
<1> QED
  BY <1>4, <1>5, <1>6, <1>7, <1>8, <1>9

(* All of it is synced.                                                        *)
LEMMA ViewsSynced ==
    ASSUME TypeOK', current' \in DOMAIN manifests',
           manifests'[current'].synced = Len(manifests'[current'].recs)
    PROVE  Views' = {Whole'}
<1> DEFINE recs == manifests'[current'].recs
<1>1. recs \in Seq(EditType) /\ Len(recs) \in Nat
  BY DEF TypeOK, FilesTyped
<1>2. Ends' = {Len(recs)}
  BY <1>1 DEF Ends
<1>3. SubSeq(recs, 1, Len(recs)) = recs
  BY <1>1
<1>4. Views' = {View(SubSeq(recs, 1, k)) : k \in Ends'} /\ Whole' = View(recs)
  BY DEF Views, Whole
<1> HIDE DEF recs
<1> QED
  BY <1>2, <1>3, <1>4

(* What a power failure leaves of a file.                                      *)
LEMMA SurvivorsAre ==
    ASSUME NEW files, NEW Rec, FilesTyped(files, Rec), NEW new \in Survivors(files)
    PROVE  /\ DOMAIN new = DOMAIN files /\ FilesTyped(new, Rec)
           /\ \A n \in DOMAIN files :
                 \E k \in files[n].synced..Len(files[n].recs) :
                    new[n] = [recs |-> SubSeq(files[n].recs, 1, k), synced |-> k]
<1>1. PICK k \in [DOMAIN files -> 0..MaxRecords(files)] :
          /\ \A n \in DOMAIN files : files[n].synced <= k[n] /\ k[n] <= Len(files[n].recs)
          /\ new = [n \in DOMAIN files |-> [recs |-> SubSeq(files[n].recs, 1, k[n]), synced |-> k[n]]]
  BY DEF Survivors
<1>2. \A n \in DOMAIN files : k[n] \in Int
  <2> DEFINE M == MaxRecords(files)
  <2> HIDE DEF M
  <2>1. k \in [DOMAIN files -> 0..M]
    BY DEF M
  <2> QED
    BY <2>1
<1>3. DOMAIN new = DOMAIN files
  BY <1>1
<1>4. ASSUME NEW n \in DOMAIN files
      PROVE  /\ k[n] \in files[n].synced..Len(files[n].recs)
             /\ new[n] = [recs |-> SubSeq(files[n].recs, 1, k[n]), synced |-> k[n]]
             /\ new[n] \in [recs : Seq(Rec), synced : Nat] /\ new[n].synced <= Len(new[n].recs)
  <2>1. /\ files[n].recs \in Seq(Rec) /\ files[n].synced \in Nat /\ Len(files[n].recs) \in Nat
        /\ files[n].synced <= k[n] /\ k[n] <= Len(files[n].recs) /\ k[n] \in Int
    BY <1>1, <1>2 DEF FilesTyped
  <2>2. SubSeq(files[n].recs, 1, k[n]) \in Seq(Rec) /\ Len(SubSeq(files[n].recs, 1, k[n])) = k[n]
    BY <2>1
  <2>3. new[n] = [recs |-> SubSeq(files[n].recs, 1, k[n]), synced |-> k[n]]
    BY <1>1
  <2> QED
    BY <2>1, <2>2, <2>3
<1>5. \A n \in DOMAIN files : n \in Nat
  BY DEF FilesTyped
<1> QED
  BY <1>3, <1>4, <1>5 DEF FilesTyped

(* After a power failure the MANIFEST says one of the things it might.         *)
LEMMA ViewsCut ==
    ASSUME TypeOK, PowerFails, ~Creating, current \in DOMAIN manifests,
           manifests' \in Survivors(manifests), current' = current
    PROVE  Whole' \in Views /\ Views' = {Whole'} /\ current \in DOMAIN manifests'
<1> DEFINE recs == manifests[current].recs
<1>0. FilesTyped(manifests, EditType)
  BY DEF TypeOK
<1>1. /\ FilesTyped(manifests', EditType) /\ current \in DOMAIN manifests'
      /\ \E k \in manifests[current].synced..Len(recs) :
            manifests'[current] = [recs |-> SubSeq(recs, 1, k), synced |-> k]
  <2>1. /\ DOMAIN manifests' = DOMAIN manifests /\ FilesTyped(manifests', EditType)
        /\ \A n \in DOMAIN manifests :
              \E k \in manifests[n].synced..Len(manifests[n].recs) :
                 manifests'[n] = [recs |-> SubSeq(manifests[n].recs, 1, k), synced |-> k]
    BY <1>0, SurvivorsAre, Zenon
  <2> QED
    BY <2>1, Zenon
<1>2. PICK k \in manifests[current].synced..Len(recs) :
            manifests'[current] = [recs |-> SubSeq(recs, 1, k), synced |-> k]
  BY <1>1
<1>3. recs \in Seq(EditType) /\ manifests[current].synced \in Nat /\ Len(recs) \in Nat
  BY DEF TypeOK, FilesTyped
<1>4. Whole' = View(SubSeq(recs, 1, k)) /\ k \in Ends
  BY <1>2 DEF Whole, Ends
<1>5. Whole' \in Views
  BY <1>4 DEF Views
<1> HIDE DEF recs
<1>6. /\ SubSeq(recs, 1, k) \in Seq(EditType) /\ Len(SubSeq(recs, 1, k)) = k
      /\ SubSeq(SubSeq(recs, 1, k), 1, k) = SubSeq(recs, 1, k)
  BY <1>2, <1>3
<1>7. Ends' = {k}
  BY <1>2, <1>3, <1>6 DEF Ends
<1>8. Views' = {View(SubSeq(manifests'[current'].recs, 1, i)) : i \in Ends'}
  BY DEF Views
<1>9. manifests'[current'].recs = SubSeq(recs, 1, k)
  BY <1>2
<1>10. Views' = {View(SubSeq(manifests'[current'].recs, 1, k))}
  BY <1>7, <1>8
<1> QED
  BY <1>1, <1>4, <1>5, <1>6, <1>9, <1>10

(* A view keeps its promise while its tables and logs stay.                    *)
LEMMA SavedKept ==
    ASSUME TypeOK, NEW v \in ViewType, Saved(v), must' = must,
           \A n \in v.live : n \in DOMAIN tables' /\ tables'[n] = tables[n],
           \A n \in LogsToReplay(v.log) : n \in DOMAIN logs' /\ logs'[n] = logs[n]
    PROVE  Saved(v)'
<1>1. TableEntries(v.live)' = TableEntries(v.live)
  BY DEF TableEntries
<1>2. \A n \in LogsToReplay(v.log) : n \in LogsToReplay(v.log)'
  BY DEF LogsToReplay
<1>3. \A m \in must, n \in LogsToReplay(v.log) : InLog(m, n) => InLog(m, n)'
  BY DEF InLog
<1> QED
  BY <1>1, <1>2, <1>3 DEF Saved

(* Entries keep their own numbers while tables stay and logs at most begin.    *)
LEMMA CountedKept ==
    ASSUME TypeOK, NEW v \in ViewType, Counted(v),
           \A n \in v.live : n \in DOMAIN tables' /\ tables'[n] = tables[n],
           \A n \in DOMAIN logs' : \/ n \in DOMAIN logs /\ logs'[n] = logs[n]
                                   \/ logs'[n].recs = <<>>
    PROVE  Counted(v)'
<1>1. TableEntries(v.live)' = TableEntries(v.live)
  BY DEF TableEntries
<1>2. LogEntries(v.log)' \subseteq LogEntries(v.log)
  BY DEF LogEntries, Records, LogsToReplay, Entries
<1>3. Store(v.live, v.log)' \subseteq Store(v.live, v.log)
  BY <1>1, <1>2 DEF Store
<1> QED
  BY <1>1, <1>3 DEF Counted, Unique, UpTo

(* A step that leaves alone what the views need, and the MANIFEST.             *)
LEMMA ManifestKept ==
    ASSUME TypeOK, ManifestInv, current' = current, must' = must,
           current # 0 => current \in DOMAIN manifests' /\ manifests'[current] = manifests[current],
           current # 0 => \A v \in Views : \A n \in v.live : n \in DOMAIN tables' /\ tables'[n] = tables[n],
           current # 0 => \A v \in Views : \A n \in LogsToReplay(v.log) : n \in DOMAIN logs' /\ logs'[n] = logs[n],
           current # 0 => \A n \in DOMAIN logs' : \/ n \in DOMAIN logs /\ logs'[n] = logs[n]
                                                  \/ logs'[n].recs = <<>>
    PROVE  ManifestInv'
<1> SUFFICES ASSUME current # 0 PROVE ManifestInv'
  BY DEF ManifestInv
<1>1. Views' = Views /\ Whole' = Whole
  BY ViewsKept
<1>2. Views \in SUBSET ViewType
  BY ViewsTyped DEF ManifestInv
<1>3. ASSUME NEW v \in Views PROVE Numbered(v)' /\ Saved(v)' /\ Counted(v)'
  <2>1. Numbered(v)'
    BY <1>1 DEF ManifestInv, Numbered
  <2>2. Saved(v)' /\ Counted(v)'
    BY <1>2, SavedKept, CountedKept DEF ManifestInv
  <2> QED
    BY <2>1, <2>2
<1> QED
  BY <1>1, <1>3 DEF ManifestInv

(* A step that changes the MANIFEST only: what it may say now is something it  *)
(* might have said before, or a promise that is kept as well.                  *)
LEMMA ManifestMoves ==
    ASSUME ManifestInv, logs' = logs, tables' = tables, must' = must,
           current # 0, current' \in DOMAIN manifests',
           \A v \in Views' : Numbered(v)' /\ (v \in Views \/ (Saved(v) /\ Counted(v)))
    PROVE  ManifestInv'
<1>1. \A v : Saved(v)' <=> Saved(v)
  BY DEF Saved, TableEntries, LogsToReplay, InLog
<1>2. \A v : Counted(v)' <=> Counted(v)
  BY DEF Counted, Store, TableEntries, LogEntries, Records, LogsToReplay
<1>3. \A v \in Views' : Numbered(v)' /\ Saved(v) /\ Counted(v)
  BY DEF ManifestInv
<1> QED
  BY <1>1, <1>2, <1>3 DEF ManifestInv

(* A file that is added.                                                       *)
LEMMA WithTyped ==
    ASSUME NEW files, NEW Rec, FilesTyped(files, Rec), NEW n \in Nat,
           NEW f \in [recs : Seq(Rec), synced : Nat], f.synced <= Len(f.recs)
    PROVE  FilesTyped(With(files, n, f), Rec)
<1> DEFINE g == With(files, n, f)
<1>1. /\ DOMAIN g = DOMAIN files \union {n} /\ g[n] = f
      /\ \A m \in DOMAIN files : m # n => g[m] = files[m]
  BY DEF With
<1> HIDE DEF g
<1>2. ASSUME NEW m \in DOMAIN g
      PROVE  /\ m \in Nat /\ g[m] \in [recs : Seq(Rec), synced : Nat]
             /\ g[m].synced <= Len(g[m].recs)
  <2>1. CASE m = n
    BY <1>1, <2>1
  <2>2. CASE m # n
    BY <1>1, <2>2 DEF FilesTyped
  <2> QED
    BY <2>1, <2>2
<1> QED
  BY <1>2 DEF FilesTyped, g

(* A closed database.                                                          *)
LEMMA ClosedTyped == Closed \in DbType
BY DEF Closed, DbType, Phases

(* Without a process there is nothing in memory to be wrong.                   *)
LEMMA ClosedHolds ==
    ASSUME db'.pc \in {"closed", "created", "corrupt"}, flush' = {}, comp' = {}, garbage' = {}, pinned' = {}
    PROVE  ProcessInv'
BY DEF ProcessInv, MemoryInv, OpeningInv, DescriptorInv, ReadyInv, InStep, ErrorInv, JobInv, GarbageInv,
       Opening, Ready, LoggedJobs

(* Before the first DB::Open there is no file.                                 *)
LEMMA InitHolds == Init => FilesInv
<1> SUFFICES ASSUME Init PROVE FilesInv
  OBVIOUS
<1>1. TypeOK
  BY DEF Init, TypeOK, FilesTyped, Closed, DbType, Phases
<1>2. Bounded /\ ManifestInv /\ NewInv
  BY DEF Init, Bounded, ManifestInv, NewInv, Closed
<1>3. ProcessInv
  BY DEF Init, Closed, ProcessInv, MemoryInv, OpeningInv, DescriptorInv, ReadyInv, InStep, ErrorInv, JobInv,
     GarbageInv, Opening, Ready, LoggedJobs
<1> QED
  BY <1>1, <1>2, <1>3 DEF FilesInv, DiskInv

(* NewDB writes a MANIFEST that nothing names yet.                             *)
LEMMA NewDBHolds ==
    ASSUME FilesInv, NewDB
    PROVE  FilesInv'
<1> DEFINE first == NewFile(<<Edit({}, {}, 0, 2, 0)>>)
<1>1. first \in [recs : Seq(EditType), synced : Nat] /\ first.synced <= Len(first.recs)
  <2>1. Edit({}, {}, 0, 2, 0) \in EditType
    BY DEF Edit, EditType
  <2> QED
    BY <2>1 DEF NewFile
<1> HIDE DEF first
<1>2. manifests' = With(manifests, 1, first) /\ db' = [Closed EXCEPT !.pc = "created"]
  BY DEF NewDB, first
<1>3. TypeOK /\ Bounded /\ NewInv /\ current = 0
  BY DEF NewDB, FilesInv, DiskInv
<1>4. db' \in DbType /\ db'.pc = "created"
  BY <1>2, ClosedTyped DEF DbType, Phases
<1>5. FilesTyped(manifests', EditType)
  BY <1>1, <1>2, <1>3, WithTyped DEF TypeOK
<1>6. TypeOK'
  BY <1>3, <1>4, <1>5 DEF NewDB, TypeOK
<1>7. Bounded'
  BY <1>3 DEF NewDB, Bounded
<1>8. ManifestInv'
  BY <1>3 DEF NewDB, ManifestInv
<1>9. NewInv'
  <2>1. 1 \in DOMAIN manifests' /\ manifests'[1] = first
    BY <1>2 DEF With
  <2> QED
    BY <2>1, <1>3, <1>4 DEF NewDB, NewInv, first
<1>10. flush' = {} /\ comp' = {} /\ garbage' = {} /\ pinned' = {}
  BY DEF NewDB, FilesInv, ProcessInv, JobInv, GarbageInv
<1>11. ProcessInv'
  BY <1>4, <1>10, ClosedHolds
<1> QED
  BY <1>6, <1>7, <1>8, <1>9, <1>11 DEF FilesInv, DiskInv

(* CURRENT names the first MANIFEST: there is a database, and it is empty.     *)
LEMMA NewDBCurrentHolds ==
    ASSUME FilesInv, NewDBCurrent
    PROVE  FilesInv'
<1>1. /\ TypeOK /\ Bounded /\ NewInv /\ current' = 1 /\ db' = Closed /\ manifests' = manifests
      /\ tables' = tables /\ logs' = logs /\ must' = must
  BY DEF NewDBCurrent, FilesInv, DiskInv
<1>2. /\ 1 \in DOMAIN manifests /\ manifests[1] = NewFile(<<Edit({}, {}, 0, 2, 0)>>)
      /\ must = {} /\ DOMAIN logs = {}
  BY <1>1 DEF NewDBCurrent, NewInv
<1>3. TypeOK'
  BY <1>1 DEF NewDBCurrent, TypeOK, Closed, DbType, Phases
<1>4. Bounded'
  BY <1>1 DEF Bounded
<1>5. Ends' = {1} /\ manifests'[current'].recs = <<Edit({}, {}, 0, 2, 0)>>
  BY <1>1, <1>2 DEF Ends, Creating, NewFile
<1>6. Whole' = [live |-> {}, log |-> 0, next |-> 2, last |-> 0]
  BY <1>5, ViewNew DEF Whole
<1>7. Views' = {Whole'}
  <2> DEFINE r == <<Edit({}, {}, 0, 2, 0)>>
  <2>1. SubSeq(r, 1, 1) = r
    <3>1. Edit({}, {}, 0, 2, 0) \in EditType
      BY DEF Edit, EditType
    <3>2. r \in Seq(EditType) /\ Len(r) = 1
      BY <3>1
    <3> HIDE DEF r
    <3> QED
      BY <3>2
  <2> HIDE DEF r
  <2>2. Views' = {View(SubSeq(r, 1, 1))}
    BY <1>5 DEF Views, r
  <2> QED
    BY <2>1, <2>2, <1>5 DEF Whole, r
<1>8. ManifestInv'
  <2>1. Numbered(Whole)' /\ Saved(Whole)' /\ Counted(Whole)'
    BY <1>1, <1>2, <1>6 DEF Numbered, Saved, Counted, Store, TableEntries, LogEntries, Records, LogsToReplay,
       Unique, UpTo
  <2> QED
    BY <2>1, <1>1, <1>2, <1>7 DEF ManifestInv
<1>9. NewInv' /\ db'.pc = "closed"
  BY <1>1 DEF NewInv, Closed
<1>10. flush' = {} /\ comp' = {} /\ garbage' = {} /\ pinned' = {}
  BY DEF NewDBCurrent, FilesInv, ProcessInv, JobInv, GarbageInv
<1>11. ProcessInv'
  BY <1>9, <1>10, ClosedHolds
<1> QED
  BY <1>3, <1>4, <1>8, <1>9, <1>11 DEF FilesInv, DiskInv

(* A step that leaves the disk alone.                                          *)
LEMMA DiskSame ==
    ASSUME TypeOK, ManifestInv, logs' = logs, tables' = tables, manifests' = manifests,
           current' = current, must' = must
    PROVE  ManifestInv'
<1> SUFFICES ASSUME current # 0 PROVE ManifestInv'
  BY DEF ManifestInv
<1>1. current \in DOMAIN manifests /\ \A v \in Views : v.live \subseteq DOMAIN tables
  BY DEF ManifestInv, Saved
<1>2. \A v \in Views : \A n \in LogsToReplay(v.log) : n \in DOMAIN logs
  BY DEF LogsToReplay
<1> QED
  BY <1>1, <1>2, ManifestKept

(* A killed process leaves the disk as it is.                                  *)
LEMMA KilledHolds ==
    ASSUME FilesInv, Killed
    PROVE  FilesInv'
<1>1. /\ TypeOK /\ Bounded /\ ManifestInv /\ NewInv
      /\ logs' = logs /\ tables' = tables /\ manifests' = manifests /\ current' = current /\ must' = must
      /\ db' = Closed /\ flush' = {} /\ comp' = {} /\ garbage' = {} /\ pinned' = {} /\ written' = written
  BY DEF Killed, Dies, FilesInv, DiskInv
<1>2. TypeOK' /\ Bounded'
  BY <1>1 DEF TypeOK, Bounded, Closed, DbType, Phases
<1>3. ManifestInv'
  BY <1>1, DiskSame
<1>4. NewInv' /\ db'.pc = "closed"
  BY <1>1 DEF NewInv, Closed
<1>5. ProcessInv'
  BY <1>1, <1>4, ClosedHolds
<1> QED
  BY <1>2, <1>3, <1>4, <1>5 DEF FilesInv, DiskInv

(* A power failure leaves a beginning of each log and of the MANIFEST: the     *)
(* MANIFEST says one of its views, and each view finds what was synced.        *)
LEMMA PowerFailureHolds ==
    ASSUME ConstantsOK, FilesInv, PowerFailure
    PROVE  FilesInv'
<1>1. /\ TypeOK /\ Bounded /\ ManifestInv /\ NewInv /\ PowerFails /\ SafeCreation /\ ~Creating
      /\ logs' \in Survivors(logs) /\ tables' = tables /\ manifests' \in Survivors(manifests)
      /\ current' = current /\ must' = {m \in must : m.sync} /\ written' = written
      /\ db' = Closed /\ flush' = {} /\ comp' = {} /\ garbage' = {} /\ pinned' = {}
  BY DEF PowerFailure, Dies, FilesInv, DiskInv, ConstantsOK
<1>2. current # 0 /\ current \in DOMAIN manifests
  BY <1>1 DEF Creating, ManifestInv
<1>3. /\ DOMAIN logs' = DOMAIN logs /\ FilesTyped(logs', Entry) /\ FilesTyped(manifests', EditType)
      /\ \A n \in DOMAIN logs : \E k \in logs[n].synced..Len(logs[n].recs) :
            logs'[n] = [recs |-> SubSeq(logs[n].recs, 1, k), synced |-> k]
  BY <1>1, SurvivorsAre DEF TypeOK
<1>4. \A n \in DOMAIN logs : /\ \A i \in DOMAIN logs'[n].recs : i \in DOMAIN logs[n].recs /\ logs'[n].recs[i] = logs[n].recs[i]
                             /\ \A i \in DOMAIN logs[n].recs : i <= logs[n].synced =>
                                   /\ i \in DOMAIN logs'[n].recs /\ logs'[n].recs[i] = logs[n].recs[i]
                                   /\ i <= logs'[n].synced
  <2> SUFFICES ASSUME NEW n \in DOMAIN logs
               PROVE  /\ \A i \in DOMAIN logs'[n].recs : i \in DOMAIN logs[n].recs /\ logs'[n].recs[i] = logs[n].recs[i]
                      /\ \A i \in DOMAIN logs[n].recs : i <= logs[n].synced =>
                            /\ i \in DOMAIN logs'[n].recs /\ logs'[n].recs[i] = logs[n].recs[i]
                            /\ i <= logs'[n].synced
    OBVIOUS
  <2>1. PICK k \in logs[n].synced..Len(logs[n].recs) :
            logs'[n] = [recs |-> SubSeq(logs[n].recs, 1, k), synced |-> k]
    BY <1>3
  <2>2. logs[n].recs \in Seq(Entry) /\ logs[n].synced \in Nat
    BY <1>1 DEF TypeOK, FilesTyped
  <2> QED
    BY <2>1, <2>2
<1>5. TypeOK'
  BY <1>1, <1>3 DEF TypeOK, Closed, DbType, Phases
<1>6. \A n \in DOMAIN logs : Entries(logs'[n].recs) \subseteq Entries(logs[n].recs)
  BY <1>4 DEF Entries
<1>7. Bounded'
  BY <1>1, <1>3, <1>6 DEF Bounded, UpTo
<1>8. Whole' \in Views /\ Views' = {Whole'} /\ current \in DOMAIN manifests'
  BY <1>1, <1>2, ViewsCut
<1>9. Views \in SUBSET ViewType
  BY <1>1, <1>2, ViewsTyped
<1>10. ASSUME NEW v \in Views, v = Whole' PROVE Numbered(v)' /\ Saved(v)' /\ Counted(v)'
  <2>1. v \in ViewType /\ Numbered(v) /\ Saved(v) /\ Counted(v)
    BY <1>1, <1>2, <1>9 DEF ManifestInv
  <2>2. Numbered(v)'
    BY <2>1, <1>1, <1>10 DEF Numbered, ViewType
  <2>3. TableEntries(v.live)' = TableEntries(v.live)
    BY <1>1 DEF TableEntries
  <2>4. LogEntries(v.log)' \subseteq LogEntries(v.log)
    BY <1>3, <1>6 DEF LogEntries, Records, LogsToReplay
  <2>5. Counted(v)'
    BY <2>1, <2>3, <2>4 DEF Counted, Store, Unique, UpTo
  <2>6. ASSUME NEW m \in must', NEW n \in LogsToReplay(v.log), InLog(m, n)
        PROVE  n \in LogsToReplay(v.log)' /\ InLog(m, n)'
    BY <2>6, <1>1, <1>3, <1>4 DEF LogsToReplay, InLog
  <2>7. Saved(v)'
    BY <2>1, <2>3, <2>6, <1>1 DEF Saved
  <2> QED
    BY <2>2, <2>5, <2>7
<1>11. ManifestInv'
  BY <1>1, <1>8, <1>10 DEF ManifestInv
<1>12. NewInv' /\ db'.pc = "closed"
  BY <1>1, <1>2 DEF NewInv, Closed
<1>13. ProcessInv'
  BY <1>1, <1>12, ClosedHolds
<1> QED
  BY <1>5, <1>7, <1>11, <1>12, <1>13 DEF FilesInv, DiskInv

-----------------------------------------------------------------------------
(* Opening a database.                                                         *)

(* The largest of a number and a bounded set is above them all.                *)
LEMMA MaxAbove ==
    ASSUME NEW b \in Nat, NEW x \in Nat, NEW S \in SUBSET (0..b)
    PROVE  Max({x} \union S) \in Nat /\ x <= Max({x} \union S) /\ \A s \in S : s <= Max({x} \union S)
<1> DEFINE T == {x} \union S
<1>1. T \in SUBSET (0..(b + x)) /\ T # {} /\ b + x \in Nat
  OBVIOUS
<1>2. x \in T /\ \A s \in S : s \in T
  OBVIOUS
<1> HIDE DEF T
<1>3. Max(T) \in T /\ \A e \in T : e <= Max(T)
  BY <1>1, MaxIs
<1>4. Max(T) \in 0..(b + x)
  BY <1>1, <1>3
<1>5. x <= Max(T) /\ \A s \in S : s <= Max(T)
  BY <1>2, <1>3
<1>6. Max(T) \in Nat
  BY <1>1, <1>4
<1> QED
  BY <1>5, <1>6 DEF T

(* A number that is marked as used is not given out again.                     *)
LEMMA MarkIs ==
    ASSUME NEW next \in Nat \ {0}, NEW n \in Nat
    PROVE  /\ MarkFileNumberUsed(next, n) \in Nat \ {0}
           /\ next <= MarkFileNumberUsed(next, n) /\ n < MarkFileNumberUsed(next, n)
BY DEF MarkFileNumberUsed

(* The last sequence number after the records of a log.                        *)
LEMMA LastIs ==
    ASSUME TypeOK, Bounded, NEW n \in DOMAIN logs, NEW last \in Nat
    PROVE  LET after == Max({last} \union {e[2] : e \in Entries(logs[n].recs)})
           IN  after \in Nat /\ last <= after /\ UpTo(Entries(logs[n].recs), after)
<1>1. PICK b \in Nat : UpTo(Entries(logs[n].recs), b)
  BY DEF Bounded
<1> DEFINE S == {e[2] : e \in Entries(logs[n].recs)}
<1>2. Entries(logs[n].recs) \subseteq Entry
  BY DEF TypeOK, FilesTyped, Entries
<1>3. S \in SUBSET (0..b)
  BY <1>1, <1>2 DEF UpTo, Entry
<1>4. \A e \in Entries(logs[n].recs) : e[2] \in S
  OBVIOUS
<1> HIDE DEF S
<1>5. /\ Max({last} \union S) \in Nat /\ last <= Max({last} \union S)
      /\ \A s \in S : s <= Max({last} \union S)
  BY <1>3, MaxAbove
<1> QED
  BY <1>4, <1>5 DEF UpTo, S

(* The least of a set that is not empty is in it.                              *)
LEMMA MinIs ==
    ASSUME NEW S \in SUBSET Nat, S # {}
    PROVE  Min(S) \in S
<1> DEFINE Less == OpToRel(<, Nat)
<1>1. PICK n \in S : \A m \in S : ~(<<m, n>> \in Less)
  <2>1. IsWellFoundedOn(Less, Nat)
    BY NatLessThanWellFounded
  <2> HIDE DEF Less
  <2> QED
    BY <2>1, WFMin
<1>2. \A m \in S : n <= m
  <2>1. Less = {ss \in Nat \X Nat : ss[1] < ss[2]}
    BY DEF OpToRel
  <2>2. \A m \in Nat : m < n => <<m, n>> \in Less
    BY <2>1
  <2>3. n \in Nat
    OBVIOUS
  <2> SUFFICES ASSUME NEW m \in S PROVE n <= m
    OBVIOUS
  <2>4. m \in Nat
    OBVIOUS
  <2>5. <<m, n>> \notin Less
    BY <1>1
  <2> HIDE DEF Less
  <2>6. ~(m < n)
    BY <2>2, <2>4, <2>5
  <2> QED
    BY <2>3, <2>4, <2>6
<1> QED
  BY <1>2 DEF Min

(* What a recovery may rely on.                                                *)
LEMMA WholeIs ==
    ASSUME DiskInv, current # 0
    PROVE  /\ Whole \in ViewType /\ Numbered(Whole) /\ Saved(Whole) /\ Counted(Whole)
           /\ current \in DOMAIN manifests /\ Views \in SUBSET ViewType /\ Whole \in Views
BY ViewsTyped DEF DiskInv, ManifestInv

(* Nothing of an opening is in the way of anything else.                       *)
LEMMA OpeningHolds ==
    ASSUME NoJobs', Opening', MemoryInv', OpeningInv', DescriptorInv'
    PROVE  ProcessInv'
BY DEF ProcessInv, NoJobs, Opening, Ready, ReadyInv, InStep, ErrorInv, JobInv, GarbageInv

(* A process that finds a corrupt MANIFEST has nothing in memory.              *)
LEMMA CorruptHolds ==
    ASSUME FilesInv, Recover, db' = [Closed EXCEPT !.pc = "corrupt"]
    PROVE  FilesInv'
<1>1. /\ db.pc = "closed" /\ current # 0 /\ TypeOK /\ Bounded /\ ManifestInv /\ NewInv /\ JobInv /\ GarbageInv
      /\ logs' = logs /\ tables' = tables /\ manifests' = manifests /\ current' = current /\ must' = must
      /\ flush' = flush /\ comp' = comp /\ garbage' = garbage /\ pinned' = pinned /\ written' = written
  BY DEF Recover, disk, FilesInv, DiskInv, ProcessInv
<1>2. db' \in DbType /\ db'.pc = "corrupt"
  BY ClosedTyped DEF Closed, DbType, Phases
<1>3. TypeOK' /\ Bounded'
  BY <1>1, <1>2 DEF TypeOK, Bounded
<1>4. ManifestInv'
  BY <1>1, DiskSame
<1>5. NewInv'
  BY <1>1, <1>2 DEF NewInv
<1>6. flush' = {} /\ comp' = {} /\ garbage' = {} /\ pinned' = {}
  BY <1>1 DEF JobInv, GarbageInv
<1>7. ProcessInv'
  BY <1>2, <1>6, ClosedHolds
<1> QED
  BY <1>3, <1>4, <1>5, <1>7 DEF FilesInv, DiskInv

(* Recover reads what the whole MANIFEST says.                                 *)
LEMMA RecoverHolds ==
    ASSUME ConstantsOK, FilesInv, Recover
    PROVE  FilesInv'
<1> DEFINE v == Whole
           found == LogsToReplay(v.log)
           next == v.next + 1
<1>17. CASE db' = [Closed EXCEPT !.pc = "corrupt"]
  BY <1>17, CorruptHolds
<1> SUFFICES ASSUME db' # [Closed EXCEPT !.pc = "corrupt"] PROVE FilesInv'
  BY <1>17
<1>1. /\ db.pc = "closed" /\ current # 0 /\ DiskInv /\ ProcessInv /\ TypeOK /\ Bounded
      /\ logs' = logs /\ tables' = tables /\ manifests' = manifests /\ current' = current /\ must' = must
      /\ flush' = flush /\ comp' = comp /\ garbage' = garbage /\ pinned' = pinned /\ written' = written
  BY DEF Recover, disk, FilesInv, DiskInv
<1>2. /\ v \in ViewType /\ Numbered(v) /\ Saved(v) /\ Counted(v)
  BY <1>1, WholeIs
<1>3. v.next # 0 /\ v.live \subseteq DOMAIN tables /\ current \in Nat
  BY <1>1, <1>2 DEF Numbered, Saved, TypeOK, ViewType
<1>4. db' = [Closed EXCEPT !.pc = "logs", !.live = v.live, !.logNumber = v.log,
                           !.manifest = IF ReuseLogs THEN current ELSE v.next,
                           !.descriptor = ReuseLogs, !.save = ~ReuseLogs,
                           !.next = next, !.last = v.last, !.todo = found]
  BY <1>3 DEF Recover, Whole
<1>5. found \in SUBSET DOMAIN logs /\ found \in SUBSET Nat
  BY <1>1 DEF LogsToReplay, TypeOK, FilesTyped
<1>6. next \in Nat /\ v.next < next
  BY <1>2 DEF ViewType
<1> HIDE DEF v, found, next
<1>7. /\ db'.pc = "logs" /\ db'.live = v.live /\ db'.logNumber = v.log /\ db'.descriptor = ReuseLogs
      /\ db'.manifest = (IF ReuseLogs THEN current ELSE v.next)
      /\ db'.save = ~ReuseLogs /\ db'.next = next /\ db'.last = v.last /\ db'.todo = found
      /\ db'.mem = {} /\ db'.imm = {} /\ db'.log = 0 /\ db'.add = {} /\ db'.bgError = FALSE
  BY <1>4 DEF Closed, next
<1>16. db' \in DbType
  <2>1. v.live \in SUBSET Nat /\ v.log \in Nat /\ v.next \in Nat /\ v.last \in Nat /\ next \in Nat \ {0}
    BY <1>2, <1>6 DEF ViewType, next
  <2>2. db' = [pc |-> "logs", mem |-> {}, imm |-> {}, log |-> 0, live |-> v.live, logNumber |-> v.log,
               next |-> next, manifest |-> IF ReuseLogs THEN current ELSE v.next,
               descriptor |-> ReuseLogs, last |-> v.last, todo |-> found,
               add |-> {}, save |-> ~ReuseLogs, bgError |-> FALSE]
    BY <1>4 DEF Closed, next
  <2>3. /\ (IF ReuseLogs THEN current ELSE v.next) \in Nat /\ ReuseLogs \in BOOLEAN /\ (~ReuseLogs) \in BOOLEAN
        /\ "logs" \in Phases /\ {} \in SUBSET Entry /\ {} \in SUBSET Nat
    BY <2>1, <1>3 DEF Phases, ConstantsOK
  <2> QED
    BY <2>1, <2>2, <2>3, <1>5 DEF DbType
<1>8. TypeOK' /\ Bounded'
  BY <1>1, <1>16 DEF TypeOK, Bounded
<1>9. ManifestInv'
  BY <1>1, DiskSame DEF DiskInv
<1>10. NewInv'
  BY <1>1, <1>7 DEF NewInv, DiskInv
<1>11. Whole' = v
  BY <1>1 DEF Whole, v
<1>12. NoJobs' /\ Opening'
  BY <1>1, <1>7 DEF NoJobs, Opening, ProcessInv, JobInv, GarbageInv
<1>13. MemoryInv'
  <2>1. \A n \in DOMAIN logs \ found : n < next
    BY <1>1, <1>2, <1>6 DEF LogsToReplay, Numbered, ViewType, TypeOK, FilesTyped, found, next
  <2>2. UpTo(TableEntries(db.live \union db.add) \union db.mem, db.last)'
    BY <1>1, <1>2, <1>7 DEF UpTo, TableEntries, Counted
  <2>3. \A n \in v.live : n < next /\ n \in DOMAIN tables
    BY <1>2, <1>3, <1>6 DEF Numbered, ViewType, next
  <2>4. current < next /\ v.log < next /\ v.next < next /\ v.last <= v.last
    BY <1>2, <1>3, <1>6 DEF Numbered, ViewType, next
  <2>5. Whole'.next <= db'.next /\ Whole'.last <= db'.last /\ db'.log < db'.next
    BY <2>4, <1>2, <1>6, <1>7, <1>11 DEF ViewType, next
  <2>6. db'.logNumber < db'.next /\ db'.manifest < db'.next /\ db'.mem = {} /\ db'.log = 0
    BY <2>4, <1>7
  <2>7. \A n \in (db.live \union db.add)' : n < db'.next /\ n \in DOMAIN tables'
    BY <2>3, <1>1, <1>7
  <2>8. current' # 0 /\ \A n \in DOMAIN logs' \ db'.todo : n < db'.next
    BY <2>1, <1>1, <1>7
  <2> QED
    BY <2>2, <2>5, <2>6, <2>7, <2>8 DEF MemoryInv
<1>14. OpeningInv'
  <2>1. (LogEntries(db.logNumber) \union {m.e : m \in must})' \subseteq
           TableEntries(v.live) \union Records(found)
    BY <1>1, <1>2, <1>7 DEF LogEntries, Records, LogsToReplay, Saved, InLog, Entries, found
  <2>2. TableEntries(db.live \union db.add)' = TableEntries(v.live)
    BY <1>1, <1>7 DEF TableEntries
  <2>3. Records(db.todo)' = Records(found)
    BY <1>1, <1>7 DEF Records
  <2>4. Unique(Store(db.live \union db.add, db.logNumber))'
    BY <1>1, <1>2, <1>7 DEF Unique, Store, TableEntries, LogEntries, Records, LogsToReplay, Counted
  <2>5. db'.todo \subseteq LogsToReplay(db.logNumber)'
    BY <1>1, <1>7 DEF LogsToReplay, found
  <2> QED
    BY <2>1, <2>2, <2>3, <2>4, <2>5, <1>7, <1>12 DEF OpeningInv
<1>15. DescriptorInv'
  BY <1>1, <1>2, <1>7, <1>11 DEF DescriptorInv, Numbered
<1> QED
  BY <1>8, <1>9, <1>10, <1>12, <1>13, <1>14, <1>15, OpeningHolds DEF FilesInv, DiskInv

(* A table that is added to a set of tables.                                   *)
Added(g, t, n, data, set) ==
    /\ UNION {g[m] : m \in set} = UNION {t[m] : m \in set}
    /\ UNION {g[m] : m \in set \union {n}} = (UNION {t[m] : m \in set}) \union data
    /\ \A m \in set : m \in DOMAIN g /\ g[m] = t[m]
    /\ DOMAIN g = DOMAIN t \union {n} /\ g[n] = data
    /\ \A m \in DOMAIN t : m # n => g[m] = t[m]

(* A table that is added to others.                                            *)
LEMMA WithEntries ==
    ASSUME NEW t, NEW n, NEW data, NEW set, set \subseteq DOMAIN t, n \notin set
    PROVE  Added(With(t, n, data), t, n, data, set)
<1> DEFINE g == With(t, n, data)
<1>1. /\ \A m \in set : m \in DOMAIN g /\ g[m] = t[m]
      /\ DOMAIN g = DOMAIN t \union {n} /\ g[n] = data
      /\ \A m \in DOMAIN t : m # n => g[m] = t[m]
  BY DEF With
<1> HIDE DEF g
<1>2. UNION {g[m] : m \in set} = UNION {t[m] : m \in set}
  BY <1>1
<1>3. UNION {g[m] : m \in set \union {n}} = (UNION {t[m] : m \in set}) \union data
  <2>1. ASSUME NEW e \in UNION {g[m] : m \in set \union {n}} PROVE e \in (UNION {t[m] : m \in set}) \union data
    <3>1. PICK m \in set \union {n} : e \in g[m]
      BY <2>1
    <3>2. CASE m \in set
      <4>1. g[m] = t[m]
        BY <3>2, <1>1
      <4> QED
        BY <3>1, <3>2, <4>1
    <3>3. CASE m = n
      BY <3>1, <3>3, <1>1
    <3> QED
      BY <3>2, <3>3
  <2>2. ASSUME NEW e \in (UNION {t[m] : m \in set}) \union data PROVE e \in UNION {g[m] : m \in set \union {n}}
    <3>1. CASE e \in data
      <4>1. g[n] = data /\ n \in set \union {n}
        BY <1>1
      <4> QED
        BY <3>1, <4>1
    <3>2. CASE e \in UNION {t[m] : m \in set}
      BY <3>2, <1>2
    <3> QED
      BY <2>2, <3>1, <3>2
  <2> QED
    BY <2>1, <2>2
<1> QED
  BY <1>1, <1>2, <1>3 DEF Added, g

(* What an opening relies on.                                                  *)
LEMMA OpeningIs ==
    ASSUME FilesInv, Opening
    PROVE  /\ TypeOK /\ Bounded /\ ManifestInv /\ NewInv /\ MemoryInv /\ OpeningInv /\ DescriptorInv
           /\ current # 0 /\ current \in DOMAIN manifests /\ db \in DbType /\ NoJobs
           /\ Whole \in ViewType /\ Whole \in Views /\ Views \in SUBSET ViewType
           /\ \A v \in Views : v.next <= db.next /\ \A n \in v.live : n \in Nat /\ n < db.next /\ n \in DOMAIN tables
<1>1. /\ TypeOK /\ Bounded /\ ManifestInv /\ NewInv /\ MemoryInv /\ OpeningInv /\ DescriptorInv /\ DiskInv
      /\ current # 0 /\ db \in DbType /\ NoJobs
  BY DEF FilesInv, DiskInv, ProcessInv, MemoryInv, OpeningInv, TypeOK
<1>2. /\ current \in DOMAIN manifests /\ Whole \in ViewType /\ Whole \in Views /\ Views \in SUBSET ViewType
  BY <1>1, WholeIs
<1>3. \A v \in Views : Numbered(v) /\ v.live \subseteq DOMAIN tables
  BY <1>1 DEF ManifestInv, Saved
<1>4. Whole.next <= db.next /\ db.next \in Nat /\ Whole.next \in Nat
  BY <1>1, <1>2 DEF MemoryInv, DbType, ViewType
<1>5. ASSUME NEW v \in Views
      PROVE  v.next <= db.next /\ \A n \in v.live : n \in Nat /\ n < db.next /\ n \in DOMAIN tables
  <2>1. v \in ViewType /\ v.next <= Whole.next /\ \A n \in v.live : n < v.next
    BY <1>2, <1>3 DEF Numbered
  <2> QED
    BY <2>1, <1>3, <1>4 DEF ViewType
<1> QED
  BY <1>1, <1>2, <1>5

(* The entries of a log are in a table of the edit, or stay in the log that is *)
(* continued, before the log leaves todo.                                      *)
LEMMA RecoverLogFileHolds ==
    ASSUME ConstantsOK, FilesInv, RecoverLogFile
    PROVE  FilesInv'
<1> DEFINE n == Min(db.todo)
           recs == Entries(logs[n].recs)
           last == Max({db.last} \union {e[2] : e \in recs})
           set == db.live \union db.add
           used == MarkFileNumberUsed(db.next, n)
           after == MarkFileNumberUsed(db.next + 1, n)
<1>1. /\ db.pc = "logs" /\ Opening /\ db.todo # {}
      /\ logs' = logs /\ manifests' = manifests /\ current' = current /\ must' = must
      /\ flush' = flush /\ comp' = comp /\ garbage' = garbage /\ pinned' = pinned /\ written' = written
  BY DEF RecoverLogFile, Opening
<1>2. /\ TypeOK /\ Bounded /\ ManifestInv /\ NewInv /\ MemoryInv /\ OpeningInv /\ DescriptorInv
      /\ current # 0 /\ current \in DOMAIN manifests /\ db \in DbType /\ NoJobs
      /\ \A v \in Views : v.next <= db.next /\ \A i \in v.live : i \in Nat /\ i < db.next /\ i \in DOMAIN tables
  BY <1>1, OpeningIs
<1>3. /\ db.todo \in SUBSET Nat /\ db.todo \subseteq LogsToReplay(db.logNumber) /\ db.log = 0 /\ db.mem = {}
      /\ db.imm = {} /\ ~db.bgError /\ db.next \in Nat \ {0} /\ db.last \in Nat /\ db.logNumber \in Nat
      /\ set \in SUBSET Nat /\ set \subseteq DOMAIN tables /\ db.next \notin set
  BY <1>1, <1>2 DEF OpeningInv, MemoryInv, DbType, NoJobs
<1>4. /\ n \in db.todo /\ n \in Nat /\ n \in DOMAIN logs /\ db.logNumber <= n
      /\ n \in LogsToReplay(db.logNumber)
  <2>1. n \in db.todo
    BY <1>1, <1>3, MinIs
  <2> HIDE DEF n
  <2> QED
    BY <2>1, <1>1, <1>2, <1>3 DEF LogsToReplay
<1>5. recs \in SUBSET Entry /\ recs \subseteq LogEntries(db.logNumber)
  <2> HIDE DEF n
  <2>1. logs[n].recs \in Seq(Entry)
    BY <1>2, <1>4 DEF TypeOK, FilesTyped
  <2> QED
    BY <1>4, <2>1 DEF Entries, LogEntries, Records
<1>6. last \in Nat /\ db.last <= last /\ UpTo(recs, last)
  BY <1>2, <1>3, <1>4, LastIs
<1>7. Records(db.todo) = Records(db.todo \ {n}) \union recs
  BY <1>4 DEF Records
<1>8. Whole' = Whole
  BY <1>1 DEF Whole
<1>9. \/ db' = [db EXCEPT !.todo = {}, !.mem = recs, !.log = n, !.last = last, !.next = used]
            /\ tables' = tables /\ ReuseLogs /\ db.todo = {n}
      \/ db' = [db EXCEPT !.todo = @ \ {n}, !.next = used] /\ tables' = tables /\ recs = {}
      \/ db' = [db EXCEPT !.todo = @ \ {n}, !.next = after, !.add = @ \union {db.next},
                          !.save = TRUE, !.last = last] /\ tables' = With(tables, db.next, recs)
  BY DEF RecoverLogFile
<1>21. /\ used \in Nat \ {0} /\ db.next <= used /\ n < used
       /\ after \in Nat \ {0} /\ db.next < after /\ n < after
  <2> HIDE DEF n
  <2>1. db.next \in Nat \ {0} /\ db.next + 1 \in Nat \ {0} /\ n \in Nat
    BY <1>3, <1>4
  <2> HIDE DEF used, after
  <2>2. used \in Nat \ {0} /\ db.next <= used /\ n < used
    BY <2>1, MarkIs DEF used
  <2>3. after \in Nat \ {0} /\ db.next + 1 <= after /\ n < after
    BY <2>1, MarkIs DEF after
  <2> QED
    BY <2>1, <2>2, <2>3
<1> HIDE DEF n, recs, last, set, used, after
<1>22. \A m \in DOMAIN logs : m \in Nat /\ (m \in db.todo \/ m < db.next)
  BY <1>1, <1>2 DEF MemoryInv, TypeOK, FilesTyped
<1>10. Opening' /\ NoJobs' /\ db'.pc = "logs"
  BY <1>1, <1>2, <1>9 DEF Opening, NoJobs, DbType
<1>11. NewInv'
  BY <1>1, <1>2, <1>10 DEF NewInv
<1>12. UpTo(TableEntries(set), db.last)
  BY <1>1, <1>2 DEF MemoryInv, UpTo, set
<1>13. db'.logNumber = db.logNumber
  BY <1>2, <1>9 DEF DbType
<1>14. LogEntries(db.logNumber)' = LogEntries(db.logNumber) /\ LogsToReplay(db.logNumber)' = LogsToReplay(db.logNumber)
  BY <1>1, <1>13 DEF LogEntries, LogsToReplay, Records
<1>15. DescriptorInv'
  <2>1. /\ db'.descriptor = db.descriptor /\ db'.manifest = db.manifest
        /\ db'.live = db.live /\ db'.logNumber = db.logNumber
    BY <1>2, <1>9 DEF DbType
  <2>2. db.pc = "logs" /\ Opening /\ db'.pc = "logs" /\ current' = current /\ DescriptorInv
    BY <1>1, <1>2, <1>10
  <2> QED
    BY <2>1, <2>2, <1>8 DEF DescriptorInv
<1>16. LogEntries(db.logNumber) \union {m.e : m \in must} \subseteq
          TableEntries(set) \union Records(db.todo \ {n}) \union recs
  BY <1>2, <1>1, <1>3, <1>7 DEF OpeningInv, set
<1>17. Unique(TableEntries(set) \union LogEntries(db.logNumber))
  BY <1>1, <1>2 DEF OpeningInv, Store, set
<1>18. ASSUME db' = [db EXCEPT !.todo = {}, !.mem = recs, !.log = n, !.last = last, !.next = used],
              tables' = tables, ReuseLogs, db.todo = {n}
       PROVE  FilesInv'
  <2>1. /\ db'.todo = {} /\ db'.mem = recs /\ db'.log = n /\ db'.last = last /\ db'.next = used
        /\ db'.live = db.live /\ db'.add = db.add /\ db'.manifest = db.manifest /\ db'.save = db.save
        /\ db'.descriptor = db.descriptor
    BY <1>2, <1>18 DEF DbType
  <2>2. db' \in DbType
    BY <1>2, <1>4, <1>5, <1>6, <1>18, <1>21 DEF DbType
  <2>3. TypeOK' /\ Bounded'
    BY <1>1, <1>2, <1>18, <2>2 DEF TypeOK, Bounded
  <2>4. ManifestInv'
    BY <1>1, <1>2, <1>18, DiskSame
  <2>5. TableEntries(db.live \union db.add)' = TableEntries(set)
    BY <2>1, <1>18 DEF TableEntries, set
  <2>6. MemoryInv'
    <3>1. UpTo(TableEntries(set) \union recs, last)
      <4>1. TableEntries(set) \subseteq Entry
        BY <1>2, <1>3 DEF TypeOK, TableEntries
      <4> QED
        BY <4>1, <1>3, <1>6, <1>12 DEF UpTo, Entry
    <3>2. Whole.last <= last
      BY <1>2, <1>3, <1>6, <1>1, OpeningIs DEF MemoryInv, ViewType
    <3>3. \A m \in (db.live \union db.add)' : m < db'.next /\ m \in DOMAIN tables'
      BY <1>1, <1>2, <1>3, <1>18, <1>21, <2>1 DEF MemoryInv, DbType
    <3>4. /\ \A m \in DOMAIN logs : m < used
          /\ Whole.next <= used /\ db.logNumber < used /\ db.manifest < used
      BY <1>1, <1>2, <1>3, <1>18, <1>21, <1>22, OpeningIs DEF MemoryInv, DbType, ViewType
    <3>5. recs = Entries(logs'[n].recs) /\ n \in DOMAIN logs' /\ n # 0
      BY <1>1, <1>2, <1>4 DEF recs, TypeOK
    <3>6. UpTo(TableEntries(db.live \union db.add) \union db.mem, db.last)'
      BY <2>1, <2>5, <3>1 DEF UpTo
    <3> QED
      BY <1>1, <1>2, <1>4, <1>8, <1>13, <1>21, <2>1, <3>2, <3>3, <3>4, <3>5, <3>6 DEF MemoryInv
  <2>7. OpeningInv'
    <3>1. Records(db.todo \ {n}) = {} /\ Records(db.todo)' = {}
      BY <1>18, <2>1 DEF Records
    <3>2. LogEntries(db.logNumber)' \subseteq TableEntries(set) \union recs
      BY <1>13, <1>14, <1>16, <3>1
    <3>3. {m.e : m \in must}' \subseteq TableEntries(set) \union recs
      BY <1>1, <1>16, <3>1
    <3>4. Unique(Store(db.live \union db.add, db.logNumber))'
      BY <1>13, <1>14, <1>17, <2>5 DEF Store
    <3>5. ~db.save => db.add = {} /\ db.descriptor
      BY <1>1, <1>2 DEF OpeningInv
    <3>6. db.descriptor = ReuseLogs
      BY <1>1, <1>2 DEF OpeningInv
    <3> QED
      BY <1>10, <1>18, <2>1, <2>5, <3>1, <3>2, <3>3, <3>4, <3>5, <3>6 DEF OpeningInv
  <2> QED
    BY <1>10, <1>11, <1>15, <2>3, <2>4, <2>6, <2>7, OpeningHolds DEF FilesInv, DiskInv
<1>19. ASSUME db' = [db EXCEPT !.todo = @ \ {n}, !.next = used], tables' = tables, recs = {}
       PROVE  FilesInv'
  <2>1. /\ db'.todo = db.todo \ {n} /\ db'.mem = db.mem /\ db'.log = db.log /\ db'.last = db.last
        /\ db'.next = used /\ db'.live = db.live /\ db'.add = db.add /\ db'.manifest = db.manifest
        /\ db'.save = db.save /\ db'.descriptor = db.descriptor /\ db'.pc = db.pc
    BY <1>2, <1>19 DEF DbType
  <2>2. db' \in DbType
    BY <1>2, <1>19, <1>21 DEF DbType
  <2>3. TypeOK' /\ Bounded'
    BY <1>1, <1>2, <1>19, <2>2 DEF TypeOK, Bounded
  <2>4. ManifestInv'
    BY <1>1, <1>2, <1>19, DiskSame
  <2>5. TableEntries(db.live \union db.add)' = TableEntries(set)
    BY <2>1, <1>19 DEF TableEntries, set
  <2>6. MemoryInv'
    <3>1. /\ \A m \in DOMAIN logs \ db'.todo : m < used
          /\ Whole.next <= used /\ db.logNumber < used /\ db.manifest < used
      BY <1>1, <1>2, <1>3, <1>21, <1>22, <2>1, OpeningIs DEF MemoryInv, DbType, ViewType
    <3>2. \A m \in (db.live \union db.add)' : m < used /\ m \in DOMAIN tables'
      BY <1>1, <1>2, <1>3, <1>19, <1>21, <2>1 DEF MemoryInv, DbType
    <3>3. UpTo(TableEntries(db.live \union db.add) \union db.mem, db.last)'
      BY <1>3, <1>12, <2>1, <2>5 DEF UpTo
    <3>4. current' # 0 /\ Whole'.last <= db'.last /\ db'.log = 0 /\ db'.mem = {} /\ 0 < used
      BY <1>1, <1>2, <1>3, <1>8, <1>21, <2>1 DEF MemoryInv
    <3> QED
      BY <1>1, <1>8, <1>13, <2>1, <3>1, <3>2, <3>3, <3>4 DEF MemoryInv
  <2>7. OpeningInv'
    <3>1. Records(db.todo)' = Records(db.todo \ {n})
      BY <1>1, <2>1 DEF Records
    <3> QED
      BY <1>1, <1>2, <1>3, <1>10, <1>14, <1>16, <1>17, <1>19, <2>1, <2>5, <3>1 DEF OpeningInv, Store, Opening
  <2> QED
    BY <1>10, <1>11, <1>15, <2>3, <2>4, <2>6, <2>7, OpeningHolds DEF FilesInv, DiskInv
<1>20. ASSUME db' = [db EXCEPT !.todo = @ \ {n}, !.next = after, !.add = @ \union {db.next},
                               !.save = TRUE, !.last = last],
              tables' = With(tables, db.next, recs)
       PROVE  FilesInv'
  <2>1. /\ db'.todo = db.todo \ {n} /\ db'.mem = {} /\ db'.log = 0 /\ db'.last = last
        /\ db'.next = after /\ db'.live = db.live /\ db'.add = db.add \union {db.next}
        /\ db'.manifest = db.manifest /\ db'.save = TRUE /\ db'.descriptor = db.descriptor /\ db'.pc = db.pc
    BY <1>2, <1>3, <1>20 DEF DbType
  <2>2. db' \in DbType
    <3>1. db.todo \ {n} \in SUBSET Nat /\ TRUE \in BOOLEAN /\ db.add \union {db.next} \in SUBSET Nat
      BY <1>2, <1>3 DEF DbType
    <3> DEFINE todo == db.todo \ {n}
               add == db.add \union {db.next}
    <3> HIDE DEF todo, add
    <3>2. db' = [db EXCEPT !.todo = todo, !.next = after, !.add = add, !.save = TRUE, !.last = last]
      BY <1>20 DEF todo, add
    <3>3. todo \in SUBSET Nat /\ add \in SUBSET Nat
      BY <3>1 DEF todo, add
    <3> QED
      BY <1>2, <1>6, <1>21, <3>2, <3>3 DEF DbType
  <2>3. /\ UNION {tables'[m] : m \in set \union {db.next}} = TableEntries(set) \union recs
        /\ DOMAIN tables' = DOMAIN tables \union {db.next} /\ tables'[db.next] = recs
        /\ \A m \in DOMAIN tables : m # db.next => tables'[m] = tables[m]
    <3> DEFINE t == With(tables, db.next, recs)
    <3>1. set \subseteq DOMAIN tables /\ db.next \notin set
      BY <1>3
    <3>2. Added(t, tables, db.next, recs, set)
      BY <3>1, WithEntries, Zenon
    <3>3. tables' = t
      BY <1>20
    <3> HIDE DEF t
    <3> QED
      BY <3>2, <3>3 DEF Added, TableEntries
  <2>4. \A m \in DOMAIN tables' : m \in Nat /\ tables'[m] \in SUBSET Entry
    BY <1>2, <1>3, <1>5, <2>3 DEF TypeOK
  <2>5. TypeOK' /\ Bounded'
    BY <1>1, <1>2, <2>2, <2>4 DEF TypeOK, Bounded
  <2>6. ManifestInv'
    <3>1. \A v \in Views : \A m \in v.live : m \in DOMAIN tables' /\ tables'[m] = tables[m]
      BY <1>2, <1>3, <2>3
    <3>2. \A v \in Views : \A m \in LogsToReplay(v.log) : m \in DOMAIN logs
      BY DEF LogsToReplay
    <3> QED
      BY <1>1, <1>2, <3>1, <3>2, ManifestKept
  <2>7. TableEntries(db.live \union db.add)' = TableEntries(set) \union recs
    <3>1. (db.live \union db.add)' = set \union {db.next}
      BY <2>1 DEF set
    <3> QED
      BY <3>1, <2>3 DEF TableEntries
  <2>8. MemoryInv'
    <3>1. UpTo(TableEntries(set) \union recs, last)
      <4>1. TableEntries(set) \subseteq Entry
        BY <1>2, <1>3 DEF TypeOK, TableEntries
      <4> QED
        BY <4>1, <1>3, <1>6, <1>12 DEF UpTo, Entry
    <3>2. Whole.last <= last /\ Whole.next <= after
      BY <1>2, <1>3, <1>6, <1>1, <1>21, OpeningIs DEF MemoryInv, ViewType
    <3>3. \A m \in DOMAIN logs \ db'.todo : m < after
      BY <1>3, <1>21, <1>22, <2>1
    <3>4. \A m \in (db.live \union db.add)' : m < after /\ m \in DOMAIN tables'
      BY <1>1, <1>2, <1>3, <1>21, <2>1, <2>3 DEF MemoryInv, DbType, set
    <3>5. db.log < after /\ db.logNumber < after /\ db.manifest < after
      BY <1>1, <1>2, <1>3, <1>21 DEF MemoryInv, DbType
    <3> QED
      BY <1>1, <1>2, <1>3, <1>8, <1>13, <2>1, <2>7, <3>1, <3>2, <3>3, <3>4, <3>5 DEF MemoryInv
  <2>9. OpeningInv'
    <3>1. Records(db.todo)' = Records(db.todo \ {n})
      BY <1>1, <2>1 DEF Records
    <3>2. Unique(Store(db.live \union db.add, db.logNumber))'
      BY <1>5, <1>14, <1>17, <2>7 DEF Store, Unique
    <3> QED
      BY <1>1, <1>2, <1>3, <1>10, <1>14, <1>16, <2>1, <2>7, <3>1, <3>2 DEF OpeningInv, Opening
  <2> QED
    BY <1>10, <1>11, <1>15, <2>5, <2>6, <2>8, <2>9, OpeningHolds DEF FilesInv, DiskInv
<1> QED
  BY <1>9, <1>18, <1>19, <1>20

(* A new log file.                                                             *)
LEMMA NewLog ==
    ASSUME TypeOK, Bounded, \A n \in DOMAIN logs : n < db.next, logs' = With(logs, db.next, NewFile(<<>>))
    PROVE  /\ FilesTyped(logs', Entry) /\ 0 \notin DOMAIN logs' /\ Bounded'
           /\ DOMAIN logs' = DOMAIN logs \union {db.next} /\ logs'[db.next] = [recs |-> <<>>, synced |-> 0]
           /\ \A n \in DOMAIN logs : n \in DOMAIN logs' /\ logs'[n] = logs[n] /\ n # db.next
           /\ Entries(logs'[db.next].recs) = {}
           /\ \A from \in Nat : UNION {Entries(logs'[n].recs) : n \in {m \in DOMAIN logs' : m >= from}} = LogEntries(from)
<1> DEFINE f == NewFile(<<>>)
           next == db.next
<1>1. /\ FilesTyped(logs, Entry) /\ 0 \notin DOMAIN logs /\ next \in Nat /\ next # 0
      /\ f = [recs |-> <<>>, synced |-> 0] /\ f \in [recs : Seq(Entry), synced : Nat] /\ f.synced <= Len(f.recs)
  BY DEF TypeOK, DbType, NewFile
<1>2. \A n \in DOMAIN logs : n \in Nat /\ n < next /\ n # next
  BY <1>1 DEF FilesTyped
<1> HIDE DEF f, next
<1>3. logs' = With(logs, next, f)
  BY DEF f, next
<1>4. FilesTyped(logs', Entry)
  <2>1. /\ FilesTyped(logs, Entry) /\ next \in Nat
        /\ f \in [recs : Seq(Entry), synced : Nat] /\ f.synced <= Len(f.recs)
    BY <1>1
  <2>2. FilesTyped(With(logs, next, f), Entry)
    BY <2>1, WithTyped, Zenon
  <2> QED
    BY <2>2, <1>3
<1>5. /\ DOMAIN logs' = DOMAIN logs \union {next} /\ logs'[next] = f
      /\ \A n \in DOMAIN logs : n \in DOMAIN logs' /\ logs'[n] = logs[n] /\ n # next
  BY <1>2, <1>3 DEF With
<1>6. Entries(logs'[next].recs) = {}
  BY <1>1, <1>5 DEF Entries
<1>7. Bounded'
  <2>1. PICK b \in Nat : \A n \in DOMAIN logs : n <= b /\ UpTo(Entries(logs[n].recs), b)
    BY DEF Bounded
  <2>2. \A n \in DOMAIN logs : Entries(logs[n].recs) \subseteq Entry
    BY <1>1 DEF FilesTyped, Entries
  <2>3. b + next \in Nat /\ next <= b + next /\ b <= b + next
    BY <1>1, <2>1
  <2>4. ASSUME NEW n \in DOMAIN logs' PROVE n <= b + next /\ UpTo(Entries(logs'[n].recs), b + next)
    <3>1. CASE n = next
      BY <2>3, <3>1, <1>6 DEF UpTo
    <3>2. CASE n \in DOMAIN logs
      <4>1. n <= b /\ UpTo(Entries(logs[n].recs), b) /\ logs'[n] = logs[n] /\ n \in Nat
        BY <3>2, <2>1, <1>2, <1>5
      <4>2. \A e \in Entries(logs[n].recs) : e[2] \in Nat /\ e[2] <= b
        BY <3>2, <2>2, <4>1 DEF UpTo, Entry
      <4>3. \A e \in Entries(logs[n].recs) : e[2] <= b + next
        BY <4>2, <2>1, <1>1
      <4> QED
        BY <4>1, <4>3, <2>1, <1>1 DEF UpTo
    <3> QED
      BY <3>1, <3>2, <1>5
  <2> QED
    BY <2>3, <2>4 DEF Bounded
<1>8. ASSUME NEW from \in Nat
      PROVE  UNION {Entries(logs'[n].recs) : n \in {m \in DOMAIN logs' : m >= from}} = LogEntries(from)
  <2>1. ASSUME NEW e, NEW n \in DOMAIN logs', n >= from, e \in Entries(logs'[n].recs)
        PROVE  e \in LogEntries(from)
    BY <2>1, <1>5, <1>6 DEF LogEntries, Records, LogsToReplay
  <2>2. ASSUME NEW e, NEW n \in DOMAIN logs, n >= from, e \in Entries(logs[n].recs)
        PROVE  e \in UNION {Entries(logs'[i].recs) : i \in {m \in DOMAIN logs' : m >= from}}
    BY <2>2, <1>5
  <2> QED
    BY <2>1, <2>2 DEF LogEntries, Records, LogsToReplay
<1> QED
  BY <1>1, <1>4, <1>5, <1>6, <1>7, <1>8 DEF next

(* A new log has a number that no file has.                                    *)
LEMMA OpenLogHolds ==
    ASSUME ConstantsOK, FilesInv, OpenLog
    PROVE  FilesInv'
<1> DEFINE set == db.live \union db.add
<1>1. /\ db.pc = "logs" /\ Opening /\ db.todo = {} /\ tables' = tables
      /\ manifests' = manifests /\ current' = current /\ must' = must
      /\ flush' = flush /\ comp' = comp /\ garbage' = garbage /\ pinned' = pinned /\ written' = written
  BY DEF OpenLog, Opening
<1>2. /\ TypeOK /\ Bounded /\ ManifestInv /\ NewInv /\ MemoryInv /\ OpeningInv /\ DescriptorInv
      /\ current # 0 /\ current \in DOMAIN manifests /\ db \in DbType /\ NoJobs
  BY <1>1, OpeningIs
<1>3. /\ \/ db' = [db EXCEPT !.pc = "edit"]
         \/ db' = [db EXCEPT !.pc = "edit", !.log = db.next, !.next = @ + 1]
      /\ db'.pc = "edit" /\ db'.live = db.live /\ db'.add = db.add /\ db'.mem = db.mem /\ db'.todo = {}
      /\ db'.logNumber = db.logNumber /\ db'.last = db.last /\ db'.manifest = db.manifest
      /\ db'.save = db.save /\ db'.descriptor = db.descriptor /\ db'.imm = db.imm /\ db'.bgError = db.bgError
  <2>1. db' = [db EXCEPT !.pc = "edit"] \/ db' = [db EXCEPT !.pc = "edit", !.log = db.next, !.next = @ + 1]
    BY DEF OpenLog
  <2>2. DOMAIN db = {"pc", "mem", "imm", "log", "live", "logNumber", "next", "manifest", "descriptor", "last",
                     "todo", "add", "save", "bgError"}
    BY <1>2 DEF DbType
  <2>3. CASE db' = [db EXCEPT !.pc = "edit"]
    BY <2>2, <2>3, <1>1
  <2>4. CASE db' = [db EXCEPT !.pc = "edit", !.log = db.next, !.next = @ + 1]
    BY <2>2, <2>4, <1>1
  <2> QED
    BY <2>1, <2>3, <2>4
<1>4. db' \in DbType
  <2>1. db.next + 1 \in Nat \ {0} /\ db.next \in Nat /\ "edit" \in Phases
    BY <1>2 DEF DbType, Phases
  <2>2. db' = [db EXCEPT !.pc = "edit"] => db' \in DbType
    BY <1>2, <2>1 DEF DbType
  <2>3. db' = [db EXCEPT !.pc = "edit", !.log = db.next, !.next = @ + 1] => db' \in DbType
    BY <1>2, <2>1 DEF DbType
  <2> QED
    BY <1>3, <2>2, <2>3
<1>5. Opening' /\ NoJobs' /\ NewInv'
  BY <1>1, <1>2, <1>3 DEF Opening, NoJobs, NewInv
<1>6. Whole' = Whole
  BY <1>1 DEF Whole
<1>7. DescriptorInv'
  BY <1>1, <1>2, <1>3, <1>6 DEF DescriptorInv, Opening
<1>8. TableEntries(db.live \union db.add)' = TableEntries(set)
  BY <1>1, <1>3 DEF TableEntries
<1> HIDE DEF set
<1>9. LogEntries(db.logNumber) \union {m.e : m \in must} \subseteq TableEntries(set) \union db.mem
  <2>1. Records(db.todo) = {}
    BY <1>1 DEF Records
  <2> QED
    BY <2>1, <1>1, <1>2 DEF OpeningInv, set
<1>10. /\ Unique(TableEntries(set) \union LogEntries(db.logNumber))
       /\ db.mem # {} => ReuseLogs
       /\ ~db.save => db.add = {} /\ db.descriptor
       /\ db.descriptor = ReuseLogs
  BY <1>1, <1>2 DEF OpeningInv, Store, set
<1>11. ASSUME FilesTyped(logs', Entry), 0 \notin DOMAIN logs', Bounded',
              \A n \in DOMAIN logs : n \in DOMAIN logs' /\ logs'[n] = logs[n],
              \A n \in DOMAIN logs' : (n \in DOMAIN logs /\ logs'[n] = logs[n]) \/ logs'[n].recs = <<>>,
              LogEntries(db.logNumber)' = LogEntries(db.logNumber), db'.log # 0, MemoryInv'
       PROVE  FilesInv'
  <2>1. TypeOK'
    BY <1>1, <1>2, <1>4, <1>11 DEF TypeOK
  <2>2. ManifestInv'
    <3>1. \A v \in Views : v.live \subseteq DOMAIN tables /\ LogsToReplay(v.log) \subseteq DOMAIN logs
      BY <1>2 DEF ManifestInv, Saved, LogsToReplay
    <3> QED
      BY <1>1, <1>2, <1>11, <3>1, ManifestKept
  <2>3. OpeningInv'
    <3>1. Unique(Store(db.live \union db.add, db.logNumber))'
      BY <1>8, <1>10, <1>11 DEF Store
    <3>2. db'.todo = {} /\ db'.pc = "edit" /\ db'.mem = db.mem /\ must' = must
      BY <1>1, <1>3
    <3>3. (LogEntries(db.logNumber) \union {m.e : m \in must})' \subseteq TableEntries(set) \union db.mem
      BY <1>9, <1>11, <3>2
    <3> QED
      BY <1>3, <1>5, <1>8, <1>10, <1>11, <3>1, <3>2, <3>3 DEF OpeningInv
  <2> QED
    BY <1>5, <1>7, <1>11, <2>1, <2>2, <2>3, OpeningHolds DEF FilesInv, DiskInv
<1>12. CASE db.log # 0
  <2>1. logs' = logs /\ db'.log = db.log /\ db'.next = db.next
    BY <1>1, <1>2, <1>12 DEF OpenLog, DbType
  <2>2. MemoryInv'
    BY <1>1, <1>2, <1>3, <1>6, <1>8, <2>1 DEF MemoryInv, set
  <2>3. LogEntries(db.logNumber)' = LogEntries(db.logNumber)
    BY <1>3, <2>1 DEF LogEntries, Records, LogsToReplay
  <2>4. FilesTyped(logs', Entry) /\ 0 \notin DOMAIN logs' /\ Bounded'
    BY <1>2, <2>1 DEF TypeOK, Bounded
  <2> QED
    BY <1>11, <1>12, <2>1, <2>2, <2>3, <2>4
<1>13. CASE db.log = 0
  <2>1. logs' = With(logs, db.next, NewFile(<<>>)) /\ db'.log = db.next /\ db'.next = db.next + 1
    BY <1>1, <1>2, <1>13 DEF OpenLog, DbType
  <2>2. /\ \A n \in DOMAIN logs : n < db.next
        /\ Whole.next <= db.next /\ Whole.last <= db.last /\ db.mem = {}
        /\ db.logNumber < db.next /\ db.manifest < db.next
        /\ \A n \in set : n < db.next /\ n \in DOMAIN tables
        /\ UpTo(TableEntries(set) \union db.mem, db.last)
    BY <1>1, <1>2, <1>13 DEF MemoryInv, set
  <2>3. /\ FilesTyped(logs', Entry) /\ 0 \notin DOMAIN logs' /\ Bounded'
        /\ DOMAIN logs' = DOMAIN logs \union {db.next} /\ logs'[db.next] = [recs |-> <<>>, synced |-> 0]
        /\ \A n \in DOMAIN logs : n \in DOMAIN logs' /\ logs'[n] = logs[n] /\ n # db.next
        /\ \A from \in Nat : UNION {Entries(logs'[n].recs) : n \in {m \in DOMAIN logs' : m >= from}} = LogEntries(from)
    BY <1>2, <2>1, <2>2, NewLog
  <2>4. LogEntries(db.logNumber)' = LogEntries(db.logNumber)
    <3>1. db'.logNumber = db.logNumber /\ db.logNumber \in Nat
      BY <1>2, <1>3 DEF DbType
    <3>2. LogEntries(db.logNumber)' = UNION {Entries(logs'[n].recs) : n \in {m \in DOMAIN logs' : m >= db.logNumber}}
      BY <3>1 DEF LogEntries, Records, LogsToReplay
    <3> QED
      BY <2>3, <3>1, <3>2
  <2>5. MemoryInv'
    <3>1. db.next \in Nat /\ Whole.next \in Nat /\ db.next # 0 /\ db.logNumber \in Nat /\ db.manifest \in Nat
      BY <1>1, <1>2, OpeningIs DEF DbType, ViewType
    <3>2. \A n \in DOMAIN logs' : n < db.next + 1
      BY <2>2, <2>3, <3>1 DEF FilesTyped
    <3>3. \A n \in set : n < db.next + 1
      BY <1>2, <2>2, <3>1 DEF TypeOK
    <3>4. (db.live \union db.add)' = set
      BY <1>3 DEF set
    <3>5. UpTo(TableEntries(db.live \union db.add) \union db.mem, db.last)'
      BY <1>3, <1>8, <2>2 DEF UpTo
    <3>6. /\ Whole.next <= db.next + 1 /\ db.next < db.next + 1 /\ db.logNumber < db.next + 1
          /\ db.manifest < db.next + 1 /\ db.logNumber <= db.next
      BY <2>2, <3>1
    <3> QED
      BY <1>1, <1>2, <1>3, <1>6, <2>1, <2>2, <2>3, <3>1, <3>2, <3>3, <3>4, <3>5, <3>6 DEF MemoryInv
  <2> QED
    BY <1>2, <1>11, <2>1, <2>3, <2>4, <2>5 DEF DbType
<1> QED
  BY <1>12, <1>13

(* What the edit of an opening makes of the database.                          *)
Opened == [live |-> db.live \union db.add, log |-> db.log, next |-> db.next, last |-> db.last]

(* What the edit of an opening database will make of the view.                 *)
LEMMA OpenedIs ==
    ASSUME ConstantsOK, FilesInv, Opening, db.pc # "logs"
    PROVE  /\ Opened \in ViewType /\ Saved(Opened) /\ Counted(Opened)
           /\ OpenEdit \in EditType /\ OpenEdit.del = {} /\ OpenEdit.add = db.add /\ OpenEdit.log = db.log
           /\ OpenEdit.next = db.next /\ OpenEdit.last = db.last
           /\ db.log # 0 /\ db.next # 0 /\ db.todo = {}
           /\ \A m \in must : m.e \in TableEntries(Opened.live) \/ m.e \in db.mem
           /\ \A m \in must : m.e \in db.mem => InLog(m, db.log)
           /\ LogEntries(db.logNumber) \subseteq TableEntries(Opened.live) \union db.mem
           /\ LogEntries(db.log) \subseteq LogEntries(db.logNumber)
<1> DEFINE set == db.live \union db.add
<1>1. /\ TypeOK /\ MemoryInv /\ OpeningInv /\ db \in DbType
  BY OpeningIs
<1>2. db.log # 0 /\ db.todo = {} /\ db.log \in DOMAIN logs /\ db.logNumber <= db.log
      /\ db.log \in Nat /\ db.logNumber \in Nat /\ db.next \in Nat \ {0} /\ db.last \in Nat
      /\ db.live \in SUBSET Nat /\ db.add \in SUBSET Nat
  BY <1>1 DEF OpeningInv, MemoryInv, DbType
<1>3. /\ Opened \in ViewType /\ Opened.live = set /\ Opened.log = db.log /\ Opened.last = db.last
      /\ OpenEdit \in EditType /\ OpenEdit.del = {} /\ OpenEdit.add = db.add /\ OpenEdit.log = db.log
      /\ OpenEdit.next = db.next /\ OpenEdit.last = db.last
  BY <1>2 DEF Opened, ViewType, OpenEdit, Edit, EditType
<1>4. /\ set \subseteq DOMAIN tables /\ UpTo(TableEntries(set) \union db.mem, db.last)
      /\ db.mem \subseteq Entries(logs[db.log].recs)
  BY <1>1, <1>2 DEF MemoryInv
<1>5. db.mem # {} => ~PowerFails
  BY <1>1 DEF OpeningInv, ConstantsOK
<1>6. LogEntries(db.logNumber) \union {m.e : m \in must} \subseteq TableEntries(set) \union db.mem
  BY <1>1, <1>2 DEF OpeningInv, Records
<1>7. Unique(TableEntries(set) \union LogEntries(db.logNumber))
  BY <1>1 DEF OpeningInv, Store
<1>8. LogEntries(db.log) \subseteq LogEntries(db.logNumber)
  <2>1. \A n \in DOMAIN logs : n \in Nat
    BY <1>1 DEF TypeOK, FilesTyped
  <2> QED
    BY <2>1, <1>2 DEF LogEntries, Records, LogsToReplay
<1>9. \A m \in must : m.e \in db.mem => InLog(m, db.log)
  BY <1>4, <1>5 DEF InLog, Entries
<1>10. db.log \in LogsToReplay(db.log)
  BY <1>2 DEF LogsToReplay
<1> HIDE DEF set
<1>11. \A m \in must : m.e \in TableEntries(set) \/ m.e \in db.mem
  BY <1>6
<1>12. Saved(Opened)
  BY <1>3, <1>4, <1>9, <1>10, <1>11 DEF Saved
<1>13. Counted(Opened)
  BY <1>3, <1>4, <1>7, <1>8 DEF Counted, Store, Unique, UpTo
<1> QED
  BY <1>2, <1>3, <1>6, <1>8, <1>9, <1>11, <1>12, <1>13

(* The edit is in the old MANIFEST, or in a new one that nothing names yet.    *)
LEMMA OpenAppendHolds ==
    ASSUME ConstantsOK, FilesInv, OpenAppend
    PROVE  FilesInv'
<1> DEFINE old == IF db.descriptor THEN manifests[db.manifest] ELSE NewFile(<<Edit(db.live, {}, 0, 0, 0)>>)
           new == [old EXCEPT !.recs = Append(@, OpenEdit)]
<1>1. /\ db.pc = "edit" /\ db.save /\ Opening /\ logs' = logs /\ tables' = tables
      /\ manifests' = With(manifests, db.manifest, new) /\ db' = [db EXCEPT !.pc = "sync"]
      /\ current' = current /\ must' = must
      /\ flush' = flush /\ comp' = comp /\ garbage' = garbage /\ pinned' = pinned /\ written' = written
  BY DEF OpenAppend, Opening
<1>2. /\ TypeOK /\ Bounded /\ ManifestInv /\ NewInv /\ MemoryInv /\ OpeningInv /\ DescriptorInv
      /\ current # 0 /\ current \in DOMAIN manifests /\ db \in DbType /\ NoJobs /\ Whole \in ViewType
      /\ \A v \in Views : v.next <= db.next
  BY <1>1, OpeningIs
<1>3. /\ Opened \in ViewType /\ Saved(Opened) /\ Counted(Opened)
      /\ OpenEdit \in EditType /\ OpenEdit.del = {} /\ OpenEdit.add = db.add /\ OpenEdit.log = db.log
      /\ OpenEdit.next = db.next /\ OpenEdit.last = db.last /\ db.log # 0 /\ db.next # 0
  BY <1>1, OpenedIs
<1>4. /\ db'.pc = "sync" /\ db'.live = db.live /\ db'.add = db.add /\ db'.mem = db.mem /\ db'.todo = db.todo
      /\ db'.logNumber = db.logNumber /\ db'.last = db.last /\ db'.manifest = db.manifest
      /\ db'.save = db.save /\ db'.descriptor = db.descriptor /\ db'.imm = db.imm /\ db'.bgError = db.bgError
      /\ db'.next = db.next /\ db'.log = db.log
  BY <1>1, <1>2 DEF DbType
<1>5. db' \in DbType /\ db.manifest \in Nat /\ db.live \in SUBSET Nat
  BY <1>1, <1>2 DEF DbType, Phases
<1>6. db.descriptor => db.manifest = current
  BY <1>1, <1>2 DEF DescriptorInv
<1>7. old \in [recs : Seq(EditType), synced : Nat] /\ old.synced <= Len(old.recs)
  <2>1. Edit(db.live, {}, 0, 0, 0) \in EditType
    BY <1>5 DEF Edit, EditType
  <2>2. CASE db.descriptor
    BY <2>2, <1>2, <1>6 DEF TypeOK, FilesTyped
  <2>3. CASE ~db.descriptor
    BY <2>1, <2>3 DEF NewFile
  <2> QED
    BY <2>2, <2>3
<1> HIDE DEF old
<1>8. /\ new \in [recs : Seq(EditType), synced : Nat] /\ new.synced <= Len(new.recs)
      /\ new.recs = Append(old.recs, OpenEdit)
  <2> DEFINE s == old.recs
             k == old.synced
             r == Append(s, OpenEdit)
  <2>1. s \in Seq(EditType) /\ k \in Nat /\ k <= Len(s)
    BY <1>7
  <2>2. r \in Seq(EditType) /\ Len(r) = Len(s) + 1 /\ Len(s) \in Nat
    BY <1>3, <2>1
  <2>3. new = [recs |-> r, synced |-> k]
    BY <1>7
  <2> HIDE DEF s, k, r, new
  <2>4. new \in [recs : Seq(EditType), synced : Nat] /\ new.synced <= Len(new.recs) /\ new.recs = r
    BY <2>1, <2>2, <2>3
  <2> QED
    BY <2>4 DEF r, s
<1> HIDE DEF new
<1>9. FilesTyped(manifests', EditType)
  <2>1. FilesTyped(manifests, EditType) /\ db.manifest \in Nat
    BY <1>2, <1>5 DEF TypeOK
  <2>2. FilesTyped(With(manifests, db.manifest, new), EditType)
    BY <2>1, <1>8, WithTyped
  <2> QED
    BY <2>2, <1>1
<1>10. /\ db.manifest \in DOMAIN manifests' /\ manifests'[db.manifest] = new
       /\ current \in DOMAIN manifests'
       /\ current # db.manifest => manifests'[current] = manifests[current]
  BY <1>1, <1>2 DEF With
<1>11. TypeOK' /\ Bounded'
  BY <1>1, <1>2, <1>5, <1>9 DEF TypeOK, Bounded
<1>12. Opening' /\ NoJobs' /\ NewInv'
  BY <1>1, <1>2, <1>4 DEF Opening, NoJobs, NewInv
<1>13. /\ TableEntries(db.live \union db.add)' = TableEntries(db.live \union db.add)
       /\ LogEntries(db.logNumber)' = LogEntries(db.logNumber)
       /\ Records(db.todo)' = Records(db.todo)
       /\ LogsToReplay(db.logNumber)' = LogsToReplay(db.logNumber)
  BY <1>1, <1>4 DEF TableEntries, LogEntries, Records, LogsToReplay
<1>14. OpeningInv'
  <2>1. Unique(Store(db.live \union db.add, db.logNumber))'
    BY <1>1, <1>2, <1>13 DEF OpeningInv, Store
  <2>2. /\ db.log # 0 /\ db.todo = {}
        /\ db.mem # {} => ReuseLogs
        /\ LogEntries(db.logNumber) \union {m.e : m \in must}
              \subseteq TableEntries(db.live \union db.add) \union db.mem \union Records(db.todo)
        /\ ~db.save => db.add = {} /\ db.descriptor
        /\ db.descriptor = ReuseLogs
    BY <1>1, <1>2, <1>3 DEF OpeningInv
  <2> QED
    BY <1>1, <1>4, <1>12, <1>13, <2>1, <2>2 DEF OpeningInv
<1>15. ASSUME ManifestInv', Whole'.next <= db.next, Whole'.last <= db.last, DescriptorInv'
       PROVE  FilesInv'
  <2>1. MemoryInv'
    <3>1. UpTo(TableEntries(db.live \union db.add) \union db.mem, db.last)'
      BY <1>1, <1>2, <1>4, <1>13 DEF MemoryInv
    <3> QED
      BY <1>1, <1>2, <1>4, <1>13, <1>15, <3>1 DEF MemoryInv
  <2> QED
    BY <1>11, <1>12, <1>14, <1>15, <2>1, OpeningHolds DEF FilesInv, DiskInv
<1>16. OpenEdit' = OpenEdit
  BY <1>4 DEF OpenEdit, Edit
<1>17. CASE db.descriptor
  <2>1. current = db.manifest /\ new = [manifests[current] EXCEPT !.recs = Append(@, OpenEdit)]
    BY <1>6, <1>17 DEF new, old
  <2>2. Whole' = NextView(Whole, OpenEdit) /\ Views' \subseteq Views \union {Whole'}
    BY <1>1, <1>2, <1>3, <1>10, <2>1, ViewsGrow
  <2>3. Whole' = Opened
    <3>1. Whole.live = db.live /\ Whole.last <= db.last /\ Whole.last \in Nat /\ db.last \in Nat
      BY <1>1, <1>2, <1>17 DEF DescriptorInv, MemoryInv, ViewType, DbType
    <3>2. (IF db.last # 0 THEN db.last ELSE Whole.last) = db.last
      BY <3>1
    <3> QED
      BY <1>3, <2>2, <3>1, <3>2 DEF NextView, Opened
  <2>4. \A v \in Views' : Numbered(v)' /\ (v \in Views \/ (Saved(v) /\ Counted(v)))
    <3>1. Opened.next = db.next /\ Opened.log = db.log /\ Opened.live = db.live \union db.add
      BY DEF Opened
    <3>2. current < db.next /\ db.log < db.next /\ db.next <= db.next /\ \A n \in db.live \union db.add : n < db.next
      BY <1>1, <1>2, <2>1 DEF MemoryInv, DbType
    <3>3. Numbered(Opened)'
      BY <1>1, <2>3, <3>1, <3>2 DEF Numbered, Opened
    <3>4. ASSUME NEW v \in Views PROVE Numbered(v)'
      <4>1. Numbered(v) /\ v.next <= db.next
        BY <1>2 DEF ManifestInv
      <4>2. current < v.next /\ v.log < v.next /\ (\A n \in v.live : n < v.next) /\ v.next <= Whole'.next
        BY <4>1, <2>3, <3>1 DEF Numbered
      <4> QED
        BY <4>2, <1>1 DEF Numbered
    <3>5. ASSUME NEW v \in Views' PROVE Numbered(v)' /\ (v \in Views \/ (Saved(v) /\ Counted(v)))
      <4>1. v \in Views \/ v = Whole'
        BY <2>2
      <4>2. CASE v \in Views
        BY <4>2, <3>4
      <4>3. CASE v = Whole'
        <5>1. Numbered(Whole)'
          BY <2>3, <3>1, <3>2, <1>1 DEF Numbered
        <5> QED
          BY <4>3, <5>1, <1>3, <2>3 DEF Numbered
      <4> QED
        BY <4>1, <4>2, <4>3
    <3> QED
      BY <3>5
  <2>5. ManifestInv'
    BY <1>1, <1>2, <1>10, <2>4, ManifestMoves
  <2>6. DescriptorInv'
    BY <1>1, <1>4, <1>6, <2>1, <2>3, <1>17 DEF DescriptorInv, Opened
  <2>7. Whole'.next <= db.next /\ Whole'.last <= db.last
    BY <1>2, <2>3 DEF Opened, DbType
  <2> QED
    BY <1>15, <2>5, <2>6, <2>7
<1>18. CASE ~db.descriptor
  <2>1. current < db.manifest /\ current \in Nat
    BY <1>1, <1>2, <1>18 DEF DescriptorInv, TypeOK
  <2>2. manifests'[current] = manifests[current]
    BY <2>1, <1>5, <1>10
  <2>3. Whole' = Whole
    BY <1>1, <2>2 DEF Whole
  <2>4. ManifestInv'
    <3>1. \A v \in Views : v.live \subseteq DOMAIN tables /\ LogsToReplay(v.log) \subseteq DOMAIN logs
      BY <1>2 DEF ManifestInv, Saved, LogsToReplay
    <3> QED
      BY <1>1, <1>2, <1>10, <2>2, <3>1, ManifestKept
  <2>5. new.recs = Append(<<Edit(db.live, {}, 0, 0, 0)>>, OpenEdit)
    BY <1>8, <1>18 DEF old, NewFile
  <2>6. DescriptorInv'
    BY <1>1, <1>4, <1>10, <1>16, <1>18, <2>1, <2>5 DEF DescriptorInv
  <2>7. Whole'.next <= db.next /\ Whole'.last <= db.last
    BY <1>1, <1>2, <2>3 DEF MemoryInv
  <2> QED
    BY <1>15, <2>4, <2>6, <2>7
<1> QED
  BY <1>17, <1>18

(* A file that is synced.                                                      *)
LEMMA SyncTyped ==
    ASSUME NEW files, NEW Rec, FilesTyped(files, Rec), NEW n \in DOMAIN files
    PROVE  /\ DOMAIN SyncFile(files, n) = DOMAIN files /\ FilesTyped(SyncFile(files, n), Rec)
           /\ \A m \in DOMAIN files : SyncFile(files, n)[m].recs = files[m].recs
           /\ \A m \in DOMAIN files : m # n => SyncFile(files, n)[m] = files[m]
           /\ SyncFile(files, n)[n].synced = Len(SyncFile(files, n)[n].recs)
<1> DEFINE new == SyncFile(files, n)
           f == [files[n] EXCEPT !.synced = Len(files[n].recs)]
<1>1. \A m \in DOMAIN files : /\ m \in Nat /\ files[m] \in [recs : Seq(Rec), synced : Nat]
                               /\ files[m].synced <= Len(files[m].recs)
  BY DEF FilesTyped
<1>2. /\ f \in [recs : Seq(Rec), synced : Nat] /\ f.recs = files[n].recs /\ f.synced = Len(f.recs)
      /\ f.synced <= Len(f.recs)
  BY <1>1
<1> HIDE DEF f
<1>3. DOMAIN new = DOMAIN files /\ new[n] = f /\ \A m \in DOMAIN files : m # n => new[m] = files[m]
  BY DEF SyncFile, f
<1> HIDE DEF new
<1>4. FilesTyped(new, Rec)
  BY <1>1, <1>2, <1>3 DEF FilesTyped
<1> QED
  BY <1>2, <1>3, <1>4 DEF new

(* The MANIFEST is synced before CURRENT names it.                             *)
LEMMA OpenSyncHolds ==
    ASSUME ConstantsOK, FilesInv, OpenSync
    PROVE  FilesInv'
<1>1. /\ db.pc = "sync" /\ Opening /\ logs' = logs /\ tables' = tables
      /\ manifests' = SyncFile(manifests, db.manifest) /\ db' = [db EXCEPT !.pc = "current"]
      /\ current' = current /\ must' = must
      /\ flush' = flush /\ comp' = comp /\ garbage' = garbage /\ pinned' = pinned /\ written' = written
  BY DEF OpenSync, Opening
<1>2. /\ TypeOK /\ Bounded /\ ManifestInv /\ NewInv /\ MemoryInv /\ OpeningInv /\ DescriptorInv
      /\ current # 0 /\ current \in DOMAIN manifests /\ db \in DbType /\ NoJobs /\ Whole \in ViewType
      /\ Whole \in Views
  BY <1>1, OpeningIs
<1>3. /\ db'.pc = "current" /\ db'.live = db.live /\ db'.add = db.add /\ db'.mem = db.mem /\ db'.todo = db.todo
      /\ db'.logNumber = db.logNumber /\ db'.last = db.last /\ db'.manifest = db.manifest
      /\ db'.save = db.save /\ db'.descriptor = db.descriptor /\ db'.imm = db.imm /\ db'.bgError = db.bgError
      /\ db'.next = db.next /\ db'.log = db.log
  BY <1>1, <1>2 DEF DbType
<1>4. db' \in DbType
  BY <1>1, <1>2 DEF DbType, Phases
<1>5. /\ db.manifest \in DOMAIN manifests
      /\ db.descriptor => db.manifest = current
      /\ ~db.descriptor => current < db.manifest
  BY <1>1, <1>2 DEF DescriptorInv
<1>6. /\ DOMAIN manifests' = DOMAIN manifests
      /\ \A n \in DOMAIN manifests : manifests'[n].recs = manifests[n].recs
      /\ \A n \in DOMAIN manifests : n # db.manifest => manifests'[n] = manifests[n]
      /\ manifests'[db.manifest].synced = Len(manifests'[db.manifest].recs)
      /\ FilesTyped(manifests', EditType)
  <2> DEFINE new == SyncFile(manifests, db.manifest)
  <2>1. FilesTyped(manifests, EditType) /\ db.manifest \in DOMAIN manifests
    BY <1>2, <1>5 DEF TypeOK
  <2>2. /\ DOMAIN new = DOMAIN manifests /\ FilesTyped(new, EditType)
        /\ \A m \in DOMAIN manifests : new[m].recs = manifests[m].recs
        /\ \A m \in DOMAIN manifests : m # db.manifest => new[m] = manifests[m]
        /\ new[db.manifest].synced = Len(new[db.manifest].recs)
    BY <2>1, SyncTyped, Zenon
  <2>3. manifests' = new
    BY <1>1
  <2> HIDE DEF new
  <2> QED
    BY <2>2, <2>3
<1>7. TypeOK' /\ Bounded'
  BY <1>1, <1>2, <1>4, <1>6 DEF TypeOK, Bounded
<1>8. Opening' /\ NoJobs' /\ NewInv'
  BY <1>1, <1>2, <1>3 DEF Opening, NoJobs, NewInv
<1>9. Whole' = Whole
  BY <1>1, <1>2, <1>6 DEF Whole
<1>10. /\ TableEntries(db.live \union db.add)' = TableEntries(db.live \union db.add)
       /\ LogEntries(db.logNumber)' = LogEntries(db.logNumber)
       /\ Records(db.todo)' = Records(db.todo)
       /\ LogsToReplay(db.logNumber)' = LogsToReplay(db.logNumber)
  BY <1>1, <1>3 DEF TableEntries, LogEntries, Records, LogsToReplay
<1>11. OpeningInv'
  <2>1. Unique(Store(db.live \union db.add, db.logNumber))'
    BY <1>1, <1>2, <1>10 DEF OpeningInv, Store
  <2>2. /\ db.log # 0 /\ db.todo = {}
        /\ db.mem # {} => ReuseLogs
        /\ LogEntries(db.logNumber) \union {m.e : m \in must}
              \subseteq TableEntries(db.live \union db.add) \union db.mem \union Records(db.todo)
        /\ ~db.save => db.add = {} /\ db.descriptor
        /\ db.descriptor = ReuseLogs
    BY <1>1, <1>2 DEF OpeningInv
  <2> QED
    BY <1>1, <1>3, <1>8, <1>10, <2>1, <2>2 DEF OpeningInv
<1>12. MemoryInv'
  <2>1. UpTo(TableEntries(db.live \union db.add) \union db.mem, db.last)'
    BY <1>1, <1>2, <1>3, <1>10 DEF MemoryInv
  <2> QED
    BY <1>1, <1>2, <1>3, <1>9, <2>1 DEF MemoryInv
<1>13. DescriptorInv'
  <2>1. OpenEdit' = OpenEdit
    BY <1>3 DEF OpenEdit, Edit
  <2> QED
    BY <1>1, <1>2, <1>3, <1>5, <1>6, <1>9, <2>1 DEF DescriptorInv
<1>14. ManifestInv'
  <2>1. CASE db.descriptor
    <3>1. Views' = {Whole'}
      BY <1>1, <1>2, <1>5, <1>6, <1>7, <2>1, ViewsSynced
    <3>2. \A v \in Views' : v \in Views /\ Numbered(v)'
      BY <1>1, <1>2, <1>9, <3>1 DEF ManifestInv, Numbered
    <3> QED
      BY <1>1, <1>2, <1>6, <3>2, ManifestMoves
  <2>2. CASE ~db.descriptor
    <3>1. manifests'[current] = manifests[current] /\ current \in DOMAIN manifests'
      BY <1>2, <1>5, <1>6, <2>2 DEF TypeOK, DbType
    <3>2. \A v \in Views : v.live \subseteq DOMAIN tables /\ LogsToReplay(v.log) \subseteq DOMAIN logs
      BY <1>2 DEF ManifestInv, Saved, LogsToReplay
    <3> QED
      BY <1>1, <1>2, <3>1, <3>2, ManifestKept
  <2> QED
    BY <2>1, <2>2
<1> QED
  BY <1>7, <1>8, <1>11, <1>12, <1>13, <1>14, OpeningHolds DEF FilesInv, DiskInv

(* Nothing of an opening is left when the database is open.                    *)
LEMMA ReadyHolds ==
    ASSUME Ready', MemoryInv', ReadyInv', InStep', ErrorInv', JobInv', GarbageInv'
    PROVE  ProcessInv'
BY DEF ProcessInv, Opening, Ready, OpeningInv, DescriptorInv

(* From the renaming of CURRENT on, the new MANIFEST is the one that counts.   *)
LEMMA SetCurrentFileHolds ==
    ASSUME ConstantsOK, FilesInv, SetCurrentFile
    PROVE  FilesInv'
<1> DEFINE set == db.live \union db.add
<1>1. /\ db.pc = "current" /\ Opening /\ logs' = logs /\ tables' = tables /\ manifests' = manifests
      /\ db' = [db EXCEPT !.pc = "gc", !.live = @ \union db.add, !.add = {}, !.logNumber = db.log,
                          !.descriptor = TRUE]
      /\ current' = db.manifest /\ must' = must
      /\ flush' = flush /\ comp' = comp /\ garbage' = garbage /\ pinned' = pinned /\ written' = written
  BY DEF SetCurrentFile, Opening
<1>2. /\ TypeOK /\ Bounded /\ ManifestInv /\ NewInv /\ MemoryInv /\ OpeningInv /\ DescriptorInv
      /\ current # 0 /\ current \in DOMAIN manifests /\ db \in DbType /\ NoJobs /\ Whole \in ViewType
      /\ Whole \in Views /\ \A v \in Views : v.next <= db.next
  BY <1>1, OpeningIs
<1>3. /\ Opened \in ViewType /\ Saved(Opened) /\ Counted(Opened) /\ OpenEdit \in EditType
      /\ OpenEdit.del = {} /\ OpenEdit.add = db.add /\ OpenEdit.log = db.log /\ OpenEdit.next = db.next
      /\ OpenEdit.last = db.last /\ db.log # 0 /\ db.next # 0 /\ db.todo = {}
      /\ \A m \in must : m.e \in TableEntries(Opened.live) \/ m.e \in db.mem
      /\ \A m \in must : m.e \in db.mem => InLog(m, db.log)
      /\ LogEntries(db.logNumber) \subseteq TableEntries(Opened.live) \union db.mem
      /\ LogEntries(db.log) \subseteq LogEntries(db.logNumber)
  BY <1>1, OpenedIs
<1>4. Opened = [live |-> set, log |-> db.log, next |-> db.next, last |-> db.last]
  BY DEF Opened
<1> HIDE DEF set
<1>5. /\ db'.pc = "gc" /\ db'.live = set /\ db'.add = {} /\ db'.mem = db.mem /\ db'.todo = {}
      /\ db'.logNumber = db.log /\ db'.last = db.last /\ db'.manifest = db.manifest
      /\ db'.imm = db.imm /\ db'.bgError = db.bgError /\ db'.next = db.next /\ db'.log = db.log
  BY <1>1, <1>2, <1>3 DEF DbType, set
<1>6. db' \in DbType
  <2>1. set \in SUBSET Nat /\ {} \in SUBSET Nat /\ db.log \in Nat /\ TRUE \in BOOLEAN /\ "gc" \in Phases
    BY <1>2 DEF DbType, Phases, set
  <2>2. db' = [db EXCEPT !.pc = "gc", !.live = set, !.add = {}, !.logNumber = db.log, !.descriptor = TRUE]
    BY <1>1 DEF set
  <2> QED
    BY <1>2, <2>1, <2>2 DEF DbType
<1>7. /\ db.manifest \in DOMAIN manifests /\ db.manifest # 0 /\ db.manifest \in Nat
      /\ manifests[db.manifest].synced = Len(manifests[db.manifest].recs)
      /\ db.descriptor => db.manifest = current /\ Whole.live = set /\ Whole.log = db.log
      /\ ~db.descriptor => manifests[db.manifest].recs = Append(<<Edit(db.live, {}, 0, 0, 0)>>, OpenEdit)
  BY <1>1, <1>2 DEF DescriptorInv, DbType, TypeOK, set
<1>8. TypeOK' /\ Bounded'
  BY <1>1, <1>2, <1>6, <1>7 DEF TypeOK, Bounded
<1>9. NewInv' /\ Ready'
  BY <1>5, <1>1, <1>7 DEF NewInv, Ready
<1>10. Views' = {Whole'}
  BY <1>1, <1>7, <1>8, ViewsSynced
<1>11. /\ current # 0 /\ db.log < db.next /\ db.manifest < db.next /\ Whole.next <= db.next /\ Whole.last <= db.last
       /\ \A n \in DOMAIN logs : n < db.next
       /\ \A n \in set : n < db.next /\ n \in DOMAIN tables
       /\ UpTo(TableEntries(set) \union db.mem, db.last)
       /\ db.log \in DOMAIN logs /\ db.mem \subseteq Entries(logs[db.log].recs)
  BY <1>1, <1>2, <1>3 DEF MemoryInv, set
<1>12. /\ Whole'.live = set /\ Whole'.log = db.log /\ Whole'.next <= db.next /\ Whole'.last <= db.last
       /\ Numbered(Whole)' /\ (Whole' \in Views \/ (Saved(Whole') /\ Counted(Whole')))
  <2>1. CASE db.descriptor
    <3>1. current' = current /\ Whole' = Whole
      BY <1>1, <1>7, <2>1 DEF Whole
    <3>2. Numbered(Whole)
      BY <1>2 DEF ManifestInv
    <3> QED
      BY <1>2, <1>7, <1>11, <2>1, <3>1, <3>2 DEF Numbered
  <2>2. CASE ~db.descriptor
    <3>1. Whole' = View(Append(<<Edit(db.live, {}, 0, 0, 0)>>, OpenEdit))
      BY <1>1, <1>7, <2>2 DEF Whole
    <3>2. db.live \in SUBSET Nat
      BY <1>2 DEF DbType
    <3>3. Whole' = [live |-> db.live \union OpenEdit.add, log |-> OpenEdit.log, next |-> OpenEdit.next,
                    last |-> OpenEdit.last]
      BY <1>3, <3>1, <3>2, ViewNew
    <3>4. Whole' = Opened
      BY <1>3, <1>4, <3>3 DEF set
    <3>5. Numbered(Whole)'
      <4>1. db.next <= db.next /\ db.last <= db.last
        BY <1>2 DEF DbType
      <4> QED
        BY <1>1, <1>4, <1>11, <3>4, <4>1 DEF Numbered
    <3>6. db.next <= db.next /\ db.last <= db.last
      BY <1>2 DEF DbType
    <3> QED
      BY <1>3, <1>4, <3>4, <3>5, <3>6
  <2> QED
    BY <2>1, <2>2
<1>13. ManifestInv'
  <2>1. \A v \in Views' : Numbered(v)' /\ (v \in Views \/ (Saved(v) /\ Counted(v)))
    BY <1>10, <1>12 DEF Numbered
  <2> QED
    BY <1>1, <1>2, <1>7, <2>1, ManifestMoves
<1>14. TableEntries(db.live \union db.add)' = TableEntries(set) /\ TableEntries(db.live)' = TableEntries(set)
  BY <1>1, <1>5 DEF TableEntries
<1>15. LogEntries(db.logNumber)' = LogEntries(db.log)
  BY <1>1, <1>5 DEF LogEntries, Records, LogsToReplay
<1>16. MemoryInv'
  <2>1. UpTo(TableEntries(db.live \union db.add) \union db.mem, db.last)'
    BY <1>5, <1>11, <1>14
  <2>2. db.log <= db.log
    BY <1>2 DEF DbType
  <2> QED
    BY <1>1, <1>3, <1>5, <1>7, <1>11, <1>12, <2>1, <2>2 DEF MemoryInv
<1>17. NoJobs'
  BY <1>1, <1>2, <1>5 DEF NoJobs
<1>18. ReadyInv'
  <2>1. \A m \in must : m.e \in TableEntries(set) \/ (m.e \in db.mem /\ InLog(m, db.log))
    BY <1>3, <1>4
  <2>2. \A m \in must' : \/ m.e \in TableEntries(db.live)'
                         \/ m.e \in db'.mem /\ InLog(m, db.log)'
    BY <2>1, <1>1, <1>5, <1>14 DEF InLog
  <2>3. Unique(Store(db.live, db.logNumber))' /\ UpTo(Store(db.live, db.logNumber), db.last)'
    <3>1. Store(db.live, db.logNumber)' = TableEntries(set) \union LogEntries(db.log)
      BY <1>14, <1>15 DEF Store
    <3>2. Unique(TableEntries(set) \union LogEntries(db.log))
      BY <1>3, <1>4 DEF Counted, Store
    <3>3. UpTo(TableEntries(set) \union LogEntries(db.log), db.last)
      BY <1>3, <1>4, <1>11 DEF UpTo
    <3> QED
      BY <1>5, <3>1, <3>2, <3>3 DEF Unique, UpTo
  <2> QED
    BY <1>1, <1>3, <1>5, <1>17, <2>2, <2>3 DEF ReadyInv, NoJobs
<1>19. InStep'
  <2>1. LoggedJobs' = {}
    BY <1>17 DEF NoJobs, LoggedJobs
  <2> QED
    BY <1>5, <1>10, <1>12, <2>1 DEF InStep
<1>20. JobInv' /\ GarbageInv' /\ ErrorInv'
  BY <1>17 DEF NoJobs, JobInv, GarbageInv, ErrorInv
<1> QED
  BY <1>8, <1>9, <1>13, <1>16, <1>18, <1>19, <1>20, ReadyHolds DEF FilesInv, DiskInv

(* Without power failures all of the MANIFEST is there.                        *)
LEMMA ViewsAll ==
    ASSUME TypeOK, current \in DOMAIN manifests, ~PowerFails
    PROVE  Views = {Whole}
<1> DEFINE recs == manifests[current].recs
<1>1. recs \in Seq(EditType) /\ Len(recs) \in Nat
  BY DEF TypeOK, FilesTyped
<1>2. Ends = {Len(recs)}
  BY DEF Ends
<1>3. Views = {View(SubSeq(recs, 1, k)) : k \in Ends} /\ Whole = View(recs)
  BY DEF Views, Whole
<1> HIDE DEF recs
<1>4. SubSeq(recs, 1, Len(recs)) = recs
  BY <1>1
<1> QED
  BY <1>2, <1>3, <1>4

(* With the MANIFEST and the log continued, the MANIFEST already says all.     *)
LEMMA NothingToSaveHolds ==
    ASSUME ConstantsOK, FilesInv, NothingToSave
    PROVE  FilesInv'
<1> DEFINE set == db.live \union db.add
<1>1. /\ db.pc = "edit" /\ ~db.save /\ Opening /\ logs' = logs /\ tables' = tables /\ manifests' = manifests
      /\ db' = [db EXCEPT !.pc = "gc"] /\ current' = current /\ must' = must
      /\ flush' = flush /\ comp' = comp /\ garbage' = garbage /\ pinned' = pinned /\ written' = written
  BY DEF NothingToSave, Opening, disk
<1>2. /\ TypeOK /\ Bounded /\ ManifestInv /\ NewInv /\ MemoryInv /\ OpeningInv /\ DescriptorInv
      /\ current # 0 /\ current \in DOMAIN manifests /\ db \in DbType /\ NoJobs
  BY <1>1, OpeningIs
<1>3. /\ db.log # 0 /\ db.todo = {} /\ Opened.live = set
      /\ \A m \in must : m.e \in TableEntries(Opened.live) \/ m.e \in db.mem
      /\ \A m \in must : m.e \in db.mem => InLog(m, db.log)
      /\ LogEntries(db.logNumber) \subseteq TableEntries(Opened.live) \union db.mem
  BY <1>1, OpenedIs DEF Opened
<1>4. /\ db.add = {} /\ db.descriptor /\ ~PowerFails /\ set = db.live
      /\ Unique(Store(db.live \union db.add, db.logNumber))
  BY <1>1, <1>2 DEF OpeningInv, ConstantsOK
<1>5. Whole.live = db.live /\ Whole.log = db.logNumber /\ current = db.manifest
  BY <1>1, <1>2, <1>4 DEF DescriptorInv
<1>6. Views' = Views /\ Whole' = Whole /\ Views = {Whole}
  BY <1>1, <1>2, <1>4, ViewsKept, ViewsAll
<1> HIDE DEF set
<1>7. /\ db'.pc = "gc" /\ db'.live = db.live /\ db'.add = {} /\ db'.mem = db.mem /\ db'.todo = {}
      /\ db'.logNumber = db.logNumber /\ db'.last = db.last /\ db'.manifest = db.manifest
      /\ db'.imm = db.imm /\ db'.bgError = db.bgError /\ db'.next = db.next /\ db'.log = db.log
  BY <1>1, <1>2, <1>3, <1>4 DEF DbType
<1>8. db' \in DbType
  BY <1>1, <1>2 DEF DbType, Phases
<1>9. TypeOK' /\ Bounded'
  BY <1>1, <1>2, <1>8 DEF TypeOK, Bounded
<1>10. NewInv' /\ Ready' /\ NoJobs'
  BY <1>1, <1>2, <1>7 DEF NewInv, Ready, NoJobs
<1>11. ManifestInv'
  BY <1>1, <1>2, DiskSame
<1>12. /\ TableEntries(db.live)' = TableEntries(db.live)
       /\ TableEntries(db.live \union db.add)' = TableEntries(db.live \union db.add)
       /\ LogEntries(db.logNumber)' = LogEntries(db.logNumber)
  BY <1>1, <1>4, <1>7 DEF TableEntries, LogEntries, Records, LogsToReplay
<1>13. MemoryInv'
  <2>1. UpTo(TableEntries(db.live \union db.add) \union db.mem, db.last)'
    BY <1>1, <1>2, <1>7, <1>12 DEF MemoryInv
  <2> QED
    BY <1>1, <1>2, <1>4, <1>6, <1>7, <2>1 DEF MemoryInv
<1>14. ReadyInv'
  <2>1. \A m \in must' : \/ m.e \in TableEntries(db.live)'
                         \/ m.e \in db'.mem /\ InLog(m, db.log)'
    BY <1>1, <1>3, <1>4, <1>7, <1>12 DEF InLog
  <2>2. Store(db.live, db.logNumber)' = TableEntries(db.live) \union LogEntries(db.logNumber)
    BY <1>12 DEF Store
  <2>3. Unique(TableEntries(db.live) \union LogEntries(db.logNumber))
    BY <1>4 DEF Store
  <2>4. UpTo(TableEntries(db.live) \union LogEntries(db.logNumber), db.last)
    <3>1. UpTo(TableEntries(db.live \union db.add) \union db.mem, db.last)
      BY <1>1, <1>2 DEF MemoryInv
    <3>2. TableEntries(db.live) \union LogEntries(db.logNumber) \subseteq TableEntries(db.live) \union db.mem
      BY <1>3, <1>4
    <3> QED
      BY <3>1, <3>2, <1>4 DEF UpTo
  <2>5. Unique(Store(db.live, db.logNumber))' /\ UpTo(Store(db.live, db.logNumber), db.last)'
    BY <1>7, <2>2, <2>3, <2>4 DEF Unique, UpTo
  <2> QED
    BY <1>1, <1>3, <1>5, <1>7, <1>10, <2>1, <2>5 DEF ReadyInv, NoJobs
<1>15. InStep'
  <2>1. LoggedJobs' = {}
    BY <1>10 DEF NoJobs, LoggedJobs
  <2> QED
    BY <1>5, <1>6, <1>7, <2>1 DEF InStep
<1>16. JobInv' /\ GarbageInv' /\ ErrorInv'
  BY <1>10 DEF NoJobs, JobInv, GarbageInv, ErrorInv
<1> QED
  BY <1>9, <1>10, <1>11, <1>13, <1>14, <1>15, <1>16, ReadyHolds DEF FilesInv, DiskInv

-----------------------------------------------------------------------------
(* An open database.                                                           *)

(* What an open database relies on.                                            *)
LEMMA ReadyIs ==
    ASSUME FilesInv, Ready
    PROVE  /\ TypeOK /\ Bounded /\ ManifestInv /\ NewInv /\ MemoryInv /\ ReadyInv /\ InStep /\ ErrorInv
           /\ JobInv /\ GarbageInv
           /\ current # 0 /\ current \in DOMAIN manifests /\ current = db.manifest /\ db \in DbType
           /\ Whole \in ViewType /\ Whole \in Views /\ Views \in SUBSET ViewType
           /\ \A v \in Views : Numbered(v) /\ v.next <= db.next /\ v.live \subseteq DOMAIN tables
           /\ db.log # 0 /\ db.todo = {} /\ db.add = {} /\ db.log \in DOMAIN logs /\ db.logNumber <= db.log
           /\ db.log \in Nat /\ db.logNumber \in Nat /\ db.next \in Nat \ {0} /\ db.last \in Nat /\ db.manifest \in Nat
           /\ \A n \in DOMAIN logs : n \in Nat /\ n < db.next
           /\ \A n \in db.live : n \in Nat /\ n < db.next /\ n \in DOMAIN tables
           /\ db.logNumber < db.next /\ db.log < db.next /\ db.manifest < db.next
<1>1. /\ TypeOK /\ Bounded /\ ManifestInv /\ NewInv /\ MemoryInv /\ ReadyInv /\ InStep /\ ErrorInv
      /\ JobInv /\ GarbageInv /\ DiskInv /\ current # 0 /\ current = db.manifest /\ db \in DbType
  BY DEF FilesInv, DiskInv, ProcessInv, ReadyInv, MemoryInv, TypeOK
<1>2. current \in DOMAIN manifests /\ Whole \in ViewType /\ Whole \in Views /\ Views \in SUBSET ViewType
  BY <1>1, WholeIs
<1>3. /\ db.log # 0 /\ db.todo = {} /\ db.add = {} /\ db.log \in DOMAIN logs /\ db.logNumber <= db.log
      /\ db.log \in Nat /\ db.logNumber \in Nat /\ db.next \in Nat \ {0} /\ db.last \in Nat /\ db.manifest \in Nat
      /\ \A n \in DOMAIN logs : n \in Nat /\ n < db.next
      /\ db.logNumber < db.next /\ db.log < db.next /\ db.manifest < db.next
      /\ Whole.next <= db.next
  BY <1>1 DEF ReadyInv, MemoryInv, DbType, TypeOK, FilesTyped
<1>4. \A n \in db.live : n \in Nat /\ n < db.next /\ n \in DOMAIN tables
  BY <1>1 DEF MemoryInv, DbType
<1>5. ASSUME NEW v \in Views PROVE Numbered(v) /\ v.next <= db.next /\ v.live \subseteq DOMAIN tables
  <2>1. Numbered(v) /\ Saved(v) /\ v \in ViewType /\ Whole.next \in Nat
    BY <1>1, <1>2 DEF ManifestInv, ViewType
  <2> QED
    BY <2>1, <1>3 DEF Numbered, Saved, ViewType
<1> QED
  BY <1>1, <1>2, <1>3, <1>4, <1>5

(* The edit of a job whose output is complete loses nothing.                   *)
LEMMA Covered ==
    ASSUME FilesInv, Ready, NEW j \in flush \union comp, j.pc # "build"
    PROVE  /\ AfterLive(j) \in SUBSET Nat /\ AfterLive(j) \subseteq DOMAIN tables
           /\ \A n \in AfterLive(j) : n < db.next
           /\ AfterLog(j) \in Nat /\ db.logNumber <= AfterLog(j) /\ AfterLog(j) <= db.log /\ AfterLog(j) < db.next
           /\ Store(AfterLive(j), AfterLog(j)) \subseteq Store(db.live, db.logNumber)
           /\ TableEntries(db.live) \subseteq TableEntries(AfterLive(j))
           /\ TableEntries(AfterLive(j)) \subseteq TableEntries(db.live) \union db.imm
           /\ \A m \in must : \/ m.e \in TableEntries(AfterLive(j))
                              \/ m.e \in db.mem /\ InLog(m, db.log)
                              \/ /\ j.del # {} /\ m.e \in db.imm
                                 /\ \E n \in LogsToReplay(db.logNumber) : InLog(m, n)
<1>1. /\ TypeOK /\ MemoryInv /\ ReadyInv /\ JobInv /\ db \in DbType
      /\ db.log \in Nat /\ db.logNumber \in Nat /\ db.logNumber <= db.log /\ db.next \in Nat
      /\ db.logNumber < db.next /\ db.log < db.next /\ db.log \in DOMAIN logs
      /\ \A n \in DOMAIN logs : n \in Nat
      /\ \A n \in db.live : n \in Nat /\ n < db.next /\ n \in DOMAIN tables
  BY ReadyIs
<1>2. /\ j.out \in Nat /\ j.out < db.next /\ j.out \in DOMAIN tables /\ tables[j.out] = j.data
      /\ j \in flush => j.del = {} /\ j.data = db.imm
      /\ j \in comp => j.del # {} /\ j.del \subseteq db.live /\ j.data = TableEntries(j.del)
  BY <1>1 DEF JobInv, TypeOK, JobType
<1>3. AfterLog(j) \in Nat /\ db.logNumber <= AfterLog(j) /\ AfterLog(j) <= db.log /\ AfterLog(j) < db.next
  BY <1>1 DEF AfterLog
<1>4. AfterLive(j) \in SUBSET Nat /\ AfterLive(j) \subseteq DOMAIN tables /\ \A n \in AfterLive(j) : n < db.next
  BY <1>1, <1>2 DEF AfterLive
<1>5. LogEntries(AfterLog(j)) \subseteq LogEntries(db.logNumber)
  BY <1>1, <1>3 DEF LogEntries, Records, LogsToReplay
<1>6. db.imm \subseteq LogEntries(db.logNumber)
  BY <1>1 DEF ReadyInv
<1>7. ASSUME NEW e \in TableEntries(AfterLive(j)) PROVE e \in TableEntries(db.live) \union db.imm
  <2>1. PICK n \in AfterLive(j) : e \in tables[n]
    BY <1>7 DEF TableEntries
  <2>2. CASE n \in db.live
    BY <2>1, <2>2 DEF TableEntries
  <2>3. CASE n = j.out
    <3>1. e \in j.data
      BY <2>1, <2>3, <1>2
    <3>2. CASE j \in flush
      BY <3>1, <3>2, <1>2
    <3>3. CASE j \in comp
      BY <3>1, <3>3, <1>2 DEF TableEntries
    <3> QED
      BY <3>2, <3>3
  <2> QED
    BY <2>2, <2>3 DEF AfterLive
<1>8. ASSUME NEW e \in TableEntries(db.live) PROVE e \in TableEntries(AfterLive(j))
  <2>1. PICK n \in db.live : e \in tables[n]
    BY <1>8 DEF TableEntries
  <2>2. CASE n \in AfterLive(j)
    BY <2>1, <2>2 DEF TableEntries
  <2>3. CASE n \in j.del
    <3>1. e \in tables[j.out] /\ j.out \in AfterLive(j)
      BY <2>1, <2>3, <1>2 DEF TableEntries, AfterLive
    <3> QED
      BY <3>1 DEF TableEntries
  <2> QED
    BY <2>1, <2>2, <2>3 DEF AfterLive
<1>9. \A m \in must : \/ m.e \in TableEntries(db.live)
                      \/ m.e \in db.mem /\ InLog(m, db.log)
                      \/ m.e \in db.imm /\ \E n \in LogsToReplay(db.logNumber) : InLog(m, n)
  BY <1>1 DEF ReadyInv
<1>10. j \in flush => db.imm \subseteq TableEntries(AfterLive(j))
  BY <1>2 DEF TableEntries, AfterLive
<1>11. j \notin flush => j.del # {}
  BY <1>2
<1> QED
  BY <1>3, <1>4, <1>5, <1>6, <1>7, <1>8, <1>9, <1>10, <1>11 DEF Store

(* A step of an open database that leaves what is on disk alone.               *)
LEMMA ReadyKept ==
    ASSUME FilesInv, Ready, Ready', TypeOK', logs' = logs, tables' = tables, manifests' = manifests,
           current' = current, must' = must, pinned' \subseteq DOMAIN tables, \A n \in pinned' : n < db.next,
           db'.live = db.live, db'.mem = db.mem, db'.imm = db.imm, db'.log = db.log,
           db'.logNumber = db.logNumber, db'.manifest = db.manifest, db'.todo = db.todo, db'.add = db.add,
           db'.last = db.last, db'.next = db.next \/ db'.next = db.next + 1,
           db'.pc = "gc" => NoJobs', db'.bgError \/ (~db.bgError /\ LoggedJobs' = LoggedJobs),
           ErrorInv', JobInv', GarbageInv'
    PROVE  FilesInv'
<1>1. /\ TypeOK /\ Bounded /\ ManifestInv /\ NewInv /\ MemoryInv /\ ReadyInv /\ InStep
      /\ current # 0 /\ current \in DOMAIN manifests /\ current = db.manifest /\ db \in DbType
      /\ Whole \in ViewType /\ db.log \in Nat /\ db.logNumber \in Nat /\ db.next \in Nat \ {0} /\ db.manifest \in Nat
      /\ \A n \in DOMAIN logs : n \in Nat /\ n < db.next
      /\ \A n \in db.live : n \in Nat /\ n < db.next /\ n \in DOMAIN tables
      /\ db.logNumber < db.next /\ db.log < db.next /\ db.manifest < db.next /\ db.add = {} /\ db.log # 0
  BY ReadyIs
<1>2. ManifestInv' /\ Bounded'
  BY <1>1, DiskSame DEF Bounded
<1>3. NewInv'
  BY <1>1 DEF NewInv, Ready
<1>4. Views' = Views /\ Whole' = Whole
  BY ViewsKept
<1>5. /\ TableEntries(db.live)' = TableEntries(db.live)
      /\ TableEntries(db.live \union db.add)' = TableEntries(db.live \union db.add)
      /\ LogEntries(db.logNumber)' = LogEntries(db.logNumber)
      /\ LogsToReplay(db.logNumber)' = LogsToReplay(db.logNumber)
  BY DEF TableEntries, LogEntries, Records, LogsToReplay
<1>6. MemoryInv'
  <2>1. /\ db.next <= db'.next /\ db.logNumber < db'.next /\ db.log < db'.next /\ db.manifest < db'.next
        /\ \A n \in DOMAIN logs : n < db'.next
        /\ \A n \in db.live : n < db'.next
    BY <1>1
  <2>2. Whole.next <= db.next /\ Whole.last <= db.last /\ Whole.next <= db'.next
    <3>1. Whole.next <= db.next /\ Whole.last <= db.last
      BY <1>1 DEF MemoryInv
    <3> QED
      BY <3>1, <1>1 DEF ViewType
  <2>3. UpTo(TableEntries(db.live \union db.add) \union db.mem, db.last)'
    BY <1>1, <1>5 DEF MemoryInv
  <2>4. db.log \in DOMAIN logs /\ db.logNumber <= db.log /\ db.mem \subseteq Entries(logs[db.log].recs)
    BY <1>1 DEF MemoryInv
  <2> QED
    BY <1>1, <1>4, <2>1, <2>2, <2>3, <2>4 DEF MemoryInv
<1>7. ReadyInv'
  <2>1. \A m \in must : \/ m.e \in TableEntries(db.live)
                        \/ m.e \in db.mem /\ InLog(m, db.log)
                        \/ m.e \in db.imm /\ \E n \in LogsToReplay(db.logNumber) : InLog(m, n)
    BY <1>1 DEF ReadyInv
  <2>2. \A m, n : InLog(m, n)' <=> InLog(m, n)
    BY DEF InLog
  <2>3. \A m \in must' : \/ m.e \in TableEntries(db.live)'
                         \/ m.e \in db'.mem /\ InLog(m, db.log)'
                         \/ m.e \in db'.imm /\ \E n \in LogsToReplay(db.logNumber)' : InLog(m, n)'
    <3>1. \A m : InLog(m, db.log)' <=> InLog(m, db.log)
      BY DEF InLog
    <3> QED
      BY <2>1, <2>2, <3>1, <1>5
  <2>4. Store(db.live, db.logNumber)' = Store(db.live, db.logNumber)
    BY <1>5 DEF Store
  <2>5. Unique(Store(db.live, db.logNumber))' /\ UpTo(Store(db.live, db.logNumber), db.last)'
    BY <1>1, <2>4 DEF ReadyInv, Unique, UpTo
  <2>6. \A n \in pinned' : n < db'.next
    <3>1. \A n \in pinned' : n \in Nat
      BY DEF TypeOK
    <3> QED
      BY <1>1, <3>1
  <2> QED
    BY <1>1, <1>5, <2>3, <2>5, <2>6 DEF ReadyInv
<1>8. InStep'
  <2>1. \A j : AfterLive(j)' = AfterLive(j) /\ AfterLog(j)' = AfterLog(j)
    BY DEF AfterLive, AfterLog
  <2> QED
    BY <1>1, <1>4, <2>1 DEF InStep
<1> QED
  BY <1>2, <1>3, <1>6, <1>7, <1>8, ReadyHolds DEF FilesInv, DiskInv

(* Nor do steps of the process alone change what a MANIFEST says after an      *)
(* error; a job that begins has a new output.                                  *)
LEMMA ErrorKept ==
    ASSUME FilesInv, Ready, db.bgError, tables' = tables, manifests' = manifests, current' = current,
           db'.live = db.live, db'.imm = db.imm,
           \A j \in flush' \union comp' : j \in flush \union comp \/ (j.pc # "logged" /\ j.out = db.next)
    PROVE  ErrorInv'
<1>1. /\ ErrorInv /\ current \in DOMAIN manifests /\ Views \in SUBSET ViewType /\ db.next \in Nat
      /\ \A v \in Views : Numbered(v) /\ v.next <= db.next
  BY ReadyIs
<1>2. Views' = Views /\ Whole' = Whole
  BY ViewsKept
<1>3. /\ TableEntries(db.live)' = TableEntries(db.live)
      /\ TableEntries(Whole.live)' = TableEntries(Whole.live)
  BY <1>2 DEF TableEntries
<1>4. \A v \in Views : db.next \notin v.live
  BY <1>1 DEF Numbered, ViewType
<1>5. LoggedJobs' \subseteq LoggedJobs
  BY DEF LoggedJobs
<1>6. \A v \in Views', j \in flush' \union comp' : j.pc # "logged" => j.out \notin v.live
  BY <1>1, <1>2, <1>4 DEF ErrorInv
<1> QED
  BY <1>1, <1>2, <1>3, <1>5, <1>6 DEF ErrorInv

(* Without a job whose edit is in the MANIFEST, the tables it names have what  *)
(* the live ones have, and no output of a job is among them.                   *)
LEMMA WholeHas ==
    ASSUME FilesInv, Ready, LoggedJobs = {}
    PROVE  /\ TableEntries(db.live) \subseteq TableEntries(Whole.live)
           /\ TableEntries(Whole.live) \subseteq TableEntries(db.live) \union db.imm
           /\ \A v \in Views, j \in flush \union comp : j.out \notin v.live
<1>1. InStep /\ ErrorInv /\ JobInv
  BY ReadyIs
<1>2. CASE db.bgError
  BY <1>1, <1>2 DEF ErrorInv, LoggedJobs
<1>3. CASE ~db.bgError
  BY <1>1, <1>3 DEF InStep, JobInv
<1> QED
  BY <1>2, <1>3

(* The files that are obsolete after opening are not needed.                   *)
LEMMA OpenDoneHolds ==
    ASSUME ConstantsOK, FilesInv, OpenDone
    PROVE  FilesInv'
<1>1. /\ db.pc = "gc" /\ Ready /\ logs' = logs /\ tables' = tables /\ manifests' = manifests
      /\ db' = [db EXCEPT !.pc = "open"] /\ current' = current /\ must' = must /\ garbage' = Obsolete(db, {})
      /\ flush' = flush /\ comp' = comp /\ pinned' = pinned /\ written' = written
  BY DEF OpenDone, Ready, disk
<1>2. TypeOK /\ ReadyInv /\ db \in DbType /\ NoJobs
  BY <1>1, ReadyIs DEF ReadyInv
<1>3. /\ db'.pc = "open" /\ db'.live = db.live /\ db'.add = db.add /\ db'.mem = db.mem /\ db'.todo = db.todo
      /\ db'.logNumber = db.logNumber /\ db'.last = db.last /\ db'.manifest = db.manifest
      /\ db'.imm = db.imm /\ db'.bgError = FALSE /\ db'.next = db.next /\ db'.log = db.log /\ ~db.bgError
  BY <1>1, <1>2 DEF DbType, NoJobs
<1>4. db' \in DbType
  BY <1>1, <1>2 DEF DbType, Phases
<1>5. TypeOK'
  BY <1>1, <1>2, <1>4 DEF TypeOK
<1>6. Ready' /\ LoggedJobs' = LoggedJobs /\ flush' = {} /\ comp' = {} /\ pinned' = {} /\ LoggedJobs' = {}
  BY <1>1, <1>2, <1>3 DEF Ready, NoJobs, LoggedJobs
<1>7. JobInv'
  BY <1>6 DEF JobInv
<1>8. GarbageInv' /\ ErrorInv'
  BY <1>1, <1>3, <1>6 DEF GarbageInv, ErrorInv, Obsolete
<1> QED
  BY <1>1, <1>3, <1>5, <1>6, <1>7, <1>8, ReadyKept

(* A memtable compaction takes a number that no file has.                      *)
LEMMA BeginFlushHolds ==
    ASSUME ConstantsOK, FilesInv, BeginFlush
    PROVE  FilesInv'
<1> DEFINE j == [pc |-> "build", out |-> db.next, del |-> {}, data |-> db.imm]
<1>1. /\ db.pc = "open" /\ Ready /\ garbage = {} /\ db.imm # {} /\ flush = {}
      /\ \A c \in comp : c.pc \in {"build", "built"}
      /\ logs' = logs /\ tables' = tables /\ manifests' = manifests
      /\ db' = [db EXCEPT !.next = @ + 1] /\ current' = current /\ must' = must /\ garbage' = garbage
      /\ flush' = {j} /\ comp' = comp /\ pinned' = pinned /\ written' = written
  BY DEF BeginFlush, Running, Ready
<1>2. /\ TypeOK /\ ReadyInv /\ JobInv /\ db \in DbType /\ db.next \in Nat \ {0}
      /\ \A n \in db.live : n \in Nat /\ n < db.next
  BY <1>1, ReadyIs
<1>3. /\ db'.pc = "open" /\ db'.live = db.live /\ db'.add = db.add /\ db'.mem = db.mem /\ db'.todo = db.todo
      /\ db'.logNumber = db.logNumber /\ db'.last = db.last /\ db'.manifest = db.manifest
      /\ db'.imm = db.imm /\ db'.bgError = db.bgError /\ db'.next = db.next + 1 /\ db'.log = db.log
  BY <1>1, <1>2 DEF DbType
<1>4. db' \in DbType
  BY <1>1, <1>2 DEF DbType
<1>5. j \in JobType /\ j.pc = "build" /\ j.out = db.next /\ j.del = {} /\ j.data = db.imm
  BY <1>2 DEF JobType, DbType
<1> HIDE DEF j
<1>6. TypeOK'
  BY <1>1, <1>2, <1>4, <1>5 DEF TypeOK
<1>7. Ready' /\ LoggedJobs' = LoggedJobs
  BY <1>1, <1>3, <1>5 DEF Ready, LoggedJobs
<1>8. pinned \subseteq DOMAIN tables /\ \A n \in pinned : n \in Nat /\ n < db.next
  BY <1>2, <1>1 DEF ReadyInv, TypeOK
<1>9. \A c \in comp : /\ c.out \in Nat /\ c.out < db.next /\ c.out \notin db.live \union pinned
                      /\ c.pc # "build" => c.out \in DOMAIN tables /\ tables[c.out] = c.data
                      /\ c.del # {} /\ c.del \subseteq db.live /\ c.data = TableEntries(c.del)
  BY <1>2 DEF JobInv, TypeOK, JobType
<1>10. JobInv'
  <2>1. \A c : TableEntries(c.del)' = TableEntries(c.del)
    BY <1>1 DEF TableEntries
  <2>2. db.next < db.next + 1 /\ \A c \in comp : c.out < db.next + 1 /\ c.out # db.next
    BY <1>2, <1>9
  <2>3. db.next \notin db.live \union pinned
    BY <1>2, <1>8
  <2> QED
    BY <1>1, <1>3, <1>5, <1>9, <2>1, <2>2, <2>3 DEF JobInv
<1>11. GarbageInv'
  BY <1>1 DEF GarbageInv
<1>12. ErrorInv'
  <2>1. CASE db.bgError
    BY <1>1, <1>3, <1>5, <2>1, ErrorKept
  <2>2. CASE ~db.bgError
    BY <1>3, <2>2 DEF ErrorInv
  <2> QED
    BY <2>1, <2>2
<1>13. db'.bgError \/ (~db.bgError /\ LoggedJobs' = LoggedJobs)
  BY <1>3, <1>7
<1> QED
  BY <1>1, <1>3, <1>6, <1>7, <1>8, <1>10, <1>11, <1>12, <1>13, ReadyKept

(* A compaction takes its inputs from the current version.                     *)
LEMMA BeginCompactionHolds ==
    ASSUME ConstantsOK, FilesInv, BeginCompaction
    PROVE  FilesInv'
<1>1. /\ db.pc = "open" /\ Ready /\ garbage = {} /\ ~db.bgError /\ db.imm = {} /\ flush = {} /\ comp = {}
      /\ logs' = logs /\ tables' = tables /\ manifests' = manifests
      /\ db' = [db EXCEPT !.next = @ + 1] /\ current' = current /\ must' = must /\ garbage' = garbage
      /\ flush' = flush /\ pinned' = pinned /\ written' = written
  BY DEF BeginCompaction, Running, Ready
<1>2. PICK ins \in SUBSET db.live :
         /\ Cardinality(ins) = 2
         /\ comp' = {[pc |-> "build", out |-> db.next, del |-> ins, data |-> UNION {tables[n] : n \in ins}]}
  BY DEF BeginCompaction
<1>3. ins # {}
  BY <1>2, FS_EmptySet
<1>3a. PICK j : /\ comp' = {j}
                /\ j = [pc |-> "build", out |-> db.next, del |-> ins, data |-> TableEntries(ins)]
  BY <1>2 DEF TableEntries
<1>4. /\ TypeOK /\ ReadyInv /\ JobInv /\ db \in DbType /\ db.next \in Nat \ {0}
      /\ \A n \in db.live : n \in Nat /\ n < db.next /\ n \in DOMAIN tables
  BY <1>1, ReadyIs
<1>5. /\ db'.pc = "open" /\ db'.live = db.live /\ db'.add = db.add /\ db'.mem = db.mem /\ db'.todo = db.todo
      /\ db'.logNumber = db.logNumber /\ db'.last = db.last /\ db'.manifest = db.manifest
      /\ db'.imm = db.imm /\ db'.bgError = FALSE /\ db'.next = db.next + 1 /\ db'.log = db.log
  BY <1>1, <1>4 DEF DbType
<1>6. db' \in DbType
  BY <1>1, <1>4 DEF DbType
<1>7. TableEntries(ins) \in SUBSET Entry /\ ins \in SUBSET Nat
  BY <1>4 DEF TableEntries, TypeOK
<1>8. j \in JobType /\ j.pc = "build" /\ j.out = db.next /\ j.del = ins /\ j.data = TableEntries(ins)
  BY <1>4, <1>7, <1>3a DEF JobType
<1>9. TypeOK'
  BY <1>1, <1>3a, <1>4, <1>6, <1>8 DEF TypeOK
<1>10. Ready' /\ LoggedJobs' = LoggedJobs
  BY <1>1, <1>3a, <1>5, <1>8 DEF Ready, LoggedJobs
<1>11. pinned \subseteq DOMAIN tables /\ \A n \in pinned : n \in Nat /\ n < db.next
  BY <1>4, <1>1 DEF ReadyInv, TypeOK
<1>12. JobInv'
  <2>1. TableEntries(j.del)' = TableEntries(ins)
    BY <1>1, <1>8 DEF TableEntries
  <2>2. db.next < db.next + 1 /\ db.next \notin db.live \union pinned
    BY <1>4, <1>11
  <2> QED
    BY <1>1, <1>3, <1>3a, <1>5, <1>8, <2>1, <2>2 DEF JobInv
<1>13. GarbageInv' /\ ErrorInv'
  BY <1>1, <1>5 DEF GarbageInv, ErrorInv
<1> QED
  BY <1>1, <1>5, <1>9, <1>10, <1>11, <1>12, <1>13, ReadyKept

(* A reader takes the current version, or lets an older one go.                *)
LEMMA PinHolds ==
    ASSUME ConstantsOK, FilesInv, Pin \/ Unpin
    PROVE  FilesInv'
<1>1. /\ db.pc = "open" /\ Ready /\ Ready' /\ garbage = {} /\ pinned' \in {{}, db.live}
      /\ logs' = logs /\ tables' = tables /\ manifests' = manifests /\ db' = db /\ current' = current
      /\ must' = must /\ garbage' = garbage /\ flush' = flush /\ comp' = comp /\ written' = written
  BY DEF Pin, Unpin, Running, Ready, disk
<1>2. /\ TypeOK /\ ReadyInv /\ JobInv /\ db \in DbType /\ db.next \in Nat \ {0}
      /\ \A n \in db.live : n \in Nat /\ n < db.next /\ n \in DOMAIN tables
  BY <1>1, ReadyIs
<1>3. TypeOK'
  BY <1>1, <1>2 DEF TypeOK
<1>4. pinned' \subseteq DOMAIN tables /\ \A n \in pinned' : n < db.next
  BY <1>1, <1>2
<1>5. LoggedJobs' = LoggedJobs
  BY <1>1 DEF LoggedJobs
<1>6. JobInv'
  <2>1. \A c : TableEntries(c.del)' = TableEntries(c.del)
    BY <1>1 DEF TableEntries
  <2> QED
    BY <1>1, <1>2, <2>1 DEF JobInv
<1>7. GarbageInv'
  BY <1>1 DEF GarbageInv
<1>8. ErrorInv'
  <2>1. CASE db.bgError
    BY <1>1, <2>1, ErrorKept
  <2>2. CASE ~db.bgError
    BY <1>1, <2>2 DEF ErrorInv
  <2> QED
    BY <2>1, <2>2
<1> QED
  BY <1>1, <1>3, <1>4, <1>5, <1>6, <1>7, <1>8, ReadyKept

-----------------------------------------------------------------------------
(* The background thread.                                                      *)

(* A job goes on, or it ends.                                                  *)
GoesOn(j, k) == \/ j \in flush /\ flush' = {k} /\ comp' = comp
                \/ j \in comp /\ flush = {} /\ comp' = {k} /\ flush' = flush

Ended(j) == \/ j \in flush /\ flush' = {} /\ comp' = comp
            \/ j \in comp /\ flush = {} /\ comp' = {} /\ flush' = flush

(* What is known of a job.                                                     *)
LEMMA JobIs ==
    ASSUME FilesInv, Running, NEW j \in flush \union comp
    PROVE  /\ Ready /\ db.pc = "open" /\ garbage = {} /\ j \in JobType
           /\ j.out \in Nat /\ j.out \notin db.live \union pinned /\ j.out < db.next
           /\ j.pc # "build" => j.out \in DOMAIN tables /\ tables[j.out] = j.data
           /\ j \in flush => /\ flush = {j} /\ j.del = {} /\ j.data = db.imm
                             /\ \A c \in comp : c.out # j.out /\ c.pc # "logged"
           /\ j \in comp => j.del # {} /\ j.del \subseteq db.live /\ j.data = TableEntries(j.del) /\ comp = {j}
<1>1. Ready /\ db.pc = "open" /\ garbage = {}
  BY DEF Running, Ready
<1>2. TypeOK /\ JobInv
  BY <1>1, ReadyIs
<1>3. j \in JobType /\ (j \in flush => flush = {j}) /\ (j \in comp => comp = {j})
  BY <1>2 DEF TypeOK
<1> QED
  BY <1>1, <1>2, <1>3 DEF JobInv, JobType

(* A finished table is in no version yet.                                      *)
LEMMA BuiltHolds ==
    ASSUME FilesInv, Running, NEW j \in flush \union comp, NEW k, k = [j EXCEPT !.pc = "built"],
           Built(j), GoesOn(j, k)
    PROVE  FilesInv'
<1>1. /\ j.pc = "build" /\ tables' = With(tables, j.out, j.data)
      /\ logs' = logs /\ manifests' = manifests /\ current' = current /\ db' = db /\ garbage' = garbage
      /\ pinned' = pinned /\ written' = written /\ must' = must
  BY DEF Built
<1>2. /\ Ready /\ Ready' /\ db.pc = "open" /\ garbage = {} /\ j \in JobType /\ j.out \in Nat
      /\ j.out \notin db.live \union pinned /\ j.out < db.next
      /\ j \in flush => /\ flush = {j} /\ j.del = {} /\ j.data = db.imm
                        /\ \A c \in comp : c.out # j.out /\ c.pc # "logged"
      /\ j \in comp => j.del # {} /\ j.del \subseteq db.live /\ j.data = TableEntries(j.del) /\ comp = {j}
  BY <1>1, JobIs DEF Ready
<1>3. /\ TypeOK /\ Bounded /\ ManifestInv /\ NewInv /\ MemoryInv /\ ReadyInv /\ InStep /\ ErrorInv /\ JobInv
      /\ current # 0 /\ current \in DOMAIN manifests /\ db \in DbType /\ db.add = {}
      /\ \A n \in db.live : n \in DOMAIN tables
      /\ Whole \in Views /\ \A v \in Views : v.live \subseteq DOMAIN tables
  BY <1>2, ReadyIs
<1>4. /\ k \in JobType /\ k.pc = "built" /\ k.out = j.out /\ k.del = j.del /\ k.data = j.data
  BY <1>2 DEF JobType
<1>5. /\ DOMAIN tables' = DOMAIN tables \union {j.out} /\ tables'[j.out] = j.data
      /\ \A n \in DOMAIN tables : n # j.out => tables'[n] = tables[n]
  BY <1>1 DEF With
<1>6. LoggedJobs = {} /\ LoggedJobs' = {}
  BY <1>1, <1>2, <1>4 DEF LoggedJobs, GoesOn
<1>7. j.data \in SUBSET Entry
  BY <1>2 DEF JobType
<1>8. TypeOK'
  <2>1. flush' \in SUBSET JobType /\ \A i, m \in flush' : i = m
    BY <1>3, <1>4 DEF TypeOK, GoesOn
  <2>2. comp' \in SUBSET JobType /\ \A i, m \in comp' : i = m
    BY <1>3, <1>4 DEF TypeOK, GoesOn
  <2>3. \A n \in DOMAIN tables' : n \in Nat /\ tables'[n] \in SUBSET Entry
    BY <1>2, <1>3, <1>5, <1>7 DEF TypeOK
  <2> QED
    BY <1>1, <1>3, <2>1, <2>2, <2>3 DEF TypeOK
<1>9. /\ \A v \in Views, c \in flush \union comp : c.out \notin v.live
      /\ TableEntries(db.live) \subseteq TableEntries(Whole.live)
      /\ TableEntries(Whole.live) \subseteq TableEntries(db.live) \union db.imm
  BY <1>2, <1>6, WholeHas
<1>10. ManifestInv'
  <2>1. \A v \in Views : \A n \in v.live : n \in DOMAIN tables' /\ tables'[n] = tables[n]
    BY <1>2, <1>3, <1>5, <1>9
  <2>2. \A v \in Views : \A n \in LogsToReplay(v.log) : n \in DOMAIN logs
    BY DEF LogsToReplay
  <2> QED
    BY <1>1, <1>3, <2>1, <2>2, ManifestKept
<1>11. Bounded' /\ NewInv'
  BY <1>1, <1>3 DEF Bounded, NewInv
<1>12. /\ Views' = Views /\ Whole' = Whole
  BY <1>1, ViewsKept
<1>13. \A set \in SUBSET db.live : TableEntries(set)' = TableEntries(set)
  BY <1>2, <1>3, <1>5 DEF TableEntries
<1>14. /\ TableEntries(db.live)' = TableEntries(db.live)
       /\ TableEntries(db.live \union db.add)' = TableEntries(db.live \union db.add)
  <2>1. \A n \in db.live : tables'[n] = tables[n]
    BY <1>2, <1>3, <1>5
  <2> QED
    BY <1>1, <1>3, <2>1 DEF TableEntries
<1>15. MemoryInv'
  BY <1>1, <1>2, <1>3, <1>5, <1>12, <1>14 DEF MemoryInv
<1>16. /\ LogEntries(db.logNumber)' = LogEntries(db.logNumber) /\ LogsToReplay(db.logNumber)' = LogsToReplay(db.logNumber)
       /\ \A m, n : InLog(m, n)' <=> InLog(m, n)
       /\ \A m : InLog(m, db.log)' <=> InLog(m, db.log)
  BY <1>1 DEF LogEntries, Records, LogsToReplay, InLog
<1>17. ReadyInv'
  <2>1. Store(db.live, db.logNumber)' = Store(db.live, db.logNumber)
    BY <1>14, <1>16 DEF Store
  <2>2. Unique(Store(db.live, db.logNumber))' /\ UpTo(Store(db.live, db.logNumber), db.last)'
    BY <1>1, <1>2, <1>3, <2>1 DEF ReadyInv, Unique, UpTo
  <2>3. \A m \in must' : \/ m.e \in TableEntries(db.live)'
                         \/ m.e \in db'.mem /\ InLog(m, db.log)'
                         \/ m.e \in db'.imm /\ \E n \in LogsToReplay(db.logNumber)' : InLog(m, n)'
    BY <1>1, <1>2, <1>3, <1>14, <1>16 DEF ReadyInv
  <2>4. pinned \subseteq DOMAIN tables /\ (\A n \in pinned : n < db.next) /\ db.imm \subseteq LogEntries(db.logNumber)
    BY <1>2, <1>3 DEF ReadyInv
  <2>5. current = db.manifest /\ db.log # 0 /\ db.todo = {} /\ db.add = {}
    BY <1>2, <1>3 DEF ReadyInv
  <2> QED
    BY <1>1, <1>2, <1>5, <1>16, <2>2, <2>3, <2>4, <2>5 DEF ReadyInv
<1>18. InStep' /\ ErrorInv'
  <2>1. ASSUME ~db.bgError
        PROVE  /\ \A v \in Views : v.live = db.live /\ v.log = db.logNumber
               /\ Whole.live = db.live /\ Whole.log = db.logNumber
    BY <1>2, <1>3, <1>6, <2>1 DEF InStep
  <2>2. InStep'
    BY <1>1, <1>6, <1>12, <2>1 DEF InStep
  <2>3. TableEntries(Whole.live)' = TableEntries(Whole.live)
    <3>1. \A n \in Whole.live : tables'[n] = tables[n]
      BY <1>3, <1>5, <1>9
    <3> QED
      BY <1>12, <3>1 DEF TableEntries
  <2>4. \A c \in flush' \union comp' : \E b \in flush \union comp : c.out = b.out
    BY <1>4 DEF GoesOn
  <2> QED
    BY <1>1, <1>6, <1>9, <1>12, <1>14, <2>2, <2>3, <2>4 DEF ErrorInv
<1>19. JobInv'
  <2>1. \A c \in comp : /\ c.out \notin db.live \union pinned /\ c.out < db.next
                        /\ c.pc # "build" => c.out \in DOMAIN tables /\ tables[c.out] = c.data
                        /\ c.del # {} /\ c.del \subseteq db.live /\ c.data = TableEntries(c.del)
                        /\ TableEntries(c.del)' = TableEntries(c.del)
    BY <1>3, <1>13 DEF JobInv
  <2>2. CASE j \in flush
    <3>1. flush' = {k} /\ comp' = comp /\ k.del = {} /\ k.data = db.imm /\ db.imm # {}
      BY <1>2, <1>3, <1>4, <2>2 DEF GoesOn, JobInv, TypeOK
    <3>2. \A c \in comp : c.pc # "build" => c.out \in DOMAIN tables' /\ tables'[c.out] = c.data
      BY <1>2, <1>5, <2>1, <2>2
    <3>3. \A c \in comp : /\ c.out \notin db.live \union pinned /\ c.out < db.next /\ c.out # k.out
                          /\ c.pc # "logged" /\ c.del # {} /\ c.del \subseteq db.live
                          /\ c.data = TableEntries(c.del)'
      BY <1>2, <1>4, <2>1, <2>2
    <3>4. /\ k.out \notin db.live \union pinned /\ k.out < db.next /\ k.out \in DOMAIN tables'
          /\ tables'[k.out] = k.data
      BY <1>2, <1>4, <1>5
    <3> QED
      BY <1>1, <1>2, <3>1, <3>2, <3>3, <3>4 DEF JobInv
  <2>3. CASE j \in comp /\ j \notin flush
    <3>1. flush' = {} /\ comp' = {k}
      BY <2>3 DEF GoesOn
    <3>2. TableEntries(k.del)' = j.data /\ k.del # {} /\ k.del \subseteq db.live
      BY <1>2, <1>4, <2>1, <2>3
    <3> QED
      BY <1>1, <1>2, <1>4, <1>5, <3>1, <3>2 DEF JobInv
  <2> QED
    BY <2>2, <2>3
<1>20. GarbageInv'
  BY <1>1, <1>2 DEF GarbageInv
<1> QED
  BY <1>2, <1>8, <1>10, <1>11, <1>15, <1>17, <1>18, <1>19, <1>20, ReadyHolds DEF FilesInv, DiskInv

(* The edit of a job is a promise that is kept already.                        *)
LEMMA LoggedHolds ==
    ASSUME FilesInv, Running, NEW j \in flush \union comp, NEW k, k = [j EXCEPT !.pc = "logged"],
           Logged(j), GoesOn(j, k)
    PROVE  FilesInv'
<1> DEFINE e == JobEdit(j)
<1>1. /\ j.pc = "built" /\ manifests' = [manifests EXCEPT ![db.manifest].recs = Append(@, e)]
      /\ logs' = logs /\ tables' = tables /\ current' = current /\ db' = db /\ garbage' = garbage
      /\ pinned' = pinned /\ written' = written /\ must' = must
  BY DEF Logged
<1>2. /\ Ready /\ Ready' /\ db.pc = "open" /\ garbage = {} /\ j \in JobType /\ j.out \in Nat
      /\ j.out \notin db.live \union pinned /\ j.out < db.next
      /\ j.out \in DOMAIN tables /\ tables[j.out] = j.data
      /\ j \in flush => /\ flush = {j} /\ j.del = {} /\ j.data = db.imm
                        /\ \A c \in comp : c.out # j.out /\ c.pc # "logged"
      /\ j \in comp => j.del # {} /\ j.del \subseteq db.live /\ j.data = TableEntries(j.del) /\ comp = {j}
  BY <1>1, JobIs DEF Ready
<1>3. /\ TypeOK /\ Bounded /\ ManifestInv /\ NewInv /\ MemoryInv /\ ReadyInv /\ InStep /\ ErrorInv /\ JobInv
      /\ current # 0 /\ current \in DOMAIN manifests /\ current = db.manifest /\ db \in DbType /\ db.add = {}
      /\ db.log # 0 /\ db.log \in Nat /\ db.logNumber \in Nat /\ db.next \in Nat \ {0} /\ db.last \in Nat
      /\ db.log \in DOMAIN logs /\ db.logNumber <= db.log /\ db.manifest < db.next /\ db.manifest \in Nat
      /\ Whole \in ViewType /\ Whole \in Views /\ Views \in SUBSET ViewType
      /\ \A v \in Views : Numbered(v) /\ v.next <= db.next /\ v.live \subseteq DOMAIN tables
  BY <1>2, ReadyIs
<1>4. /\ k \in JobType /\ k.pc = "logged" /\ k.out = j.out /\ k.del = j.del /\ k.data = j.data
  BY <1>2 DEF JobType
<1>5. LoggedJobs = {} /\ LoggedJobs' = {k}
  BY <1>1, <1>2, <1>4 DEF LoggedJobs, GoesOn
<1>6. AfterLive(k)' = AfterLive(j) /\ AfterLog(k)' = AfterLog(j)
  BY <1>1, <1>4 DEF AfterLive, AfterLog
<1>7. /\ AfterLive(j) \in SUBSET Nat /\ AfterLive(j) \subseteq DOMAIN tables
      /\ \A n \in AfterLive(j) : n < db.next
      /\ AfterLog(j) \in Nat /\ db.logNumber <= AfterLog(j) /\ AfterLog(j) <= db.log /\ AfterLog(j) < db.next
      /\ Store(AfterLive(j), AfterLog(j)) \subseteq Store(db.live, db.logNumber)
      /\ \A m \in must : \/ m.e \in TableEntries(AfterLive(j))
                         \/ m.e \in db.mem /\ InLog(m, db.log)
                         \/ /\ j.del # {} /\ m.e \in db.imm
                            /\ \E n \in LogsToReplay(db.logNumber) : InLog(m, n)
  BY <1>1, <1>2, Covered
<1>8. /\ e \in EditType /\ e.add = {j.out} /\ e.del = j.del /\ e.log = AfterLog(j)
      /\ e.next = db.next /\ e.last = db.last
  BY <1>2, <1>3, <1>7 DEF JobEdit, Edit, EditType, AfterLog, JobType
<1> HIDE DEF e
<1>9. /\ manifests'[current] = [manifests[current] EXCEPT !.recs = Append(@, e)]
      /\ DOMAIN manifests' = DOMAIN manifests
      /\ \A n \in DOMAIN manifests : n # current => manifests'[n] = manifests[n]
  BY <1>1, <1>3
<1>10. FilesTyped(manifests', EditType)
  <2> DEFINE f == manifests[current]
             g == manifests'[current]
             r == Append(f.recs, e)
  <2>1. f.recs \in Seq(EditType) /\ f.synced \in Nat /\ f.synced <= Len(f.recs) /\ f \in [recs : Seq(EditType), synced : Nat]
    BY <1>3 DEF TypeOK, FilesTyped
  <2>2. r \in Seq(EditType) /\ Len(r) = Len(f.recs) + 1 /\ Len(f.recs) \in Nat
    BY <1>8, <2>1
  <2>3. g = [recs |-> r, synced |-> f.synced]
    BY <1>9, <2>1
  <2> HIDE DEF r, f, g
  <2>4. g \in [recs : Seq(EditType), synced : Nat] /\ g.synced <= Len(g.recs)
    BY <2>1, <2>2, <2>3
  <2>5. \A n \in DOMAIN manifests : n # current => /\ n \in Nat
                                                  /\ manifests'[n] \in [recs : Seq(EditType), synced : Nat]
                                                  /\ manifests'[n].synced <= Len(manifests'[n].recs)
    BY <1>3, <1>9 DEF TypeOK, FilesTyped
  <2> QED
    BY <1>3, <1>9, <2>4, <2>5 DEF FilesTyped, TypeOK, g
<1>11. TypeOK'
  <2>1. flush' \in SUBSET JobType /\ \A i, m \in flush' : i = m
    BY <1>3, <1>4 DEF TypeOK, GoesOn
  <2>2. comp' \in SUBSET JobType /\ \A i, m \in comp' : i = m
    BY <1>3, <1>4 DEF TypeOK, GoesOn
  <2> QED
    BY <1>1, <1>3, <1>10, <2>1, <2>2 DEF TypeOK
<1>12. Whole' = NextView(Whole, e) /\ Views' \subseteq Views \union {Whole'}
  BY <1>1, <1>3, <1>8, <1>9, ViewsGrow
<1>13. /\ \A v \in Views, c \in flush \union comp : c.out \notin v.live
       /\ TableEntries(db.live) \subseteq TableEntries(Whole.live)
       /\ TableEntries(Whole.live) \subseteq TableEntries(db.live) \union db.imm
       /\ ~db.bgError => /\ \A v \in Views : v.live = db.live /\ v.log = db.logNumber
                         /\ Whole.live = db.live /\ Whole.log = db.logNumber
  BY <1>2, <1>3, <1>5, WholeHas DEF InStep
<1>14. /\ Whole'.live = (Whole.live \ j.del) \union {j.out}
       /\ Whole'.log = (IF AfterLog(j) # 0 THEN AfterLog(j) ELSE Whole.log)
       /\ Whole'.next = db.next /\ Whole'.last = db.last
  <2>1. Whole'.live = (Whole.live \ j.del) \union {j.out} /\ Whole'.next = db.next
    BY <1>3, <1>8, <1>12 DEF NextView
  <2>2. Whole'.log = (IF AfterLog(j) # 0 THEN AfterLog(j) ELSE Whole.log)
    BY <1>8, <1>12 DEF NextView
  <2>3. Whole.last <= db.last /\ Whole.last \in Nat
    BY <1>2, <1>3 DEF MemoryInv, ViewType
  <2>4. Whole'.last = db.last
    BY <1>3, <1>8, <1>12, <2>3 DEF NextView
  <2> QED
    BY <2>1, <2>2, <2>4
<1>25. /\ Whole'.live \subseteq DOMAIN tables /\ \A n \in Whole'.live : n < db.next
       /\ Whole'.log \in Nat /\ Whole'.log < db.next
       /\ db.logNumber <= Whole'.log \/ (AfterLog(j) = 0 /\ db.logNumber = 0)
  <2>1. \A n \in Whole.live : n \in Nat /\ n < db.next
    BY <1>3 DEF Numbered, ViewType
  <2>2. Whole.log \in Nat /\ Whole.log < db.next
    BY <1>3 DEF Numbered, ViewType
  <2> QED
    BY <1>2, <1>3, <1>7, <1>14, <2>1, <2>2
<1>26. j.data \subseteq TableEntries(db.live) \union db.imm
  BY <1>2 DEF TableEntries
<1>27. TableEntries(Whole'.live) \subseteq TableEntries(db.live) \union db.imm
  <2> SUFFICES ASSUME NEW t \in TableEntries(Whole'.live) PROVE t \in TableEntries(db.live) \union db.imm
    OBVIOUS
  <2>1. PICK n \in Whole'.live : t \in tables[n]
    BY DEF TableEntries
  <2>2. CASE n = j.out
    BY <1>2, <1>26, <2>1, <2>2
  <2>3. CASE n \in Whole.live
    BY <1>13, <2>1, <2>3 DEF TableEntries
  <2> QED
    BY <1>14, <2>1, <2>2, <2>3
<1>28. TableEntries(Whole.live) \subseteq TableEntries(Whole'.live)
  <2> SUFFICES ASSUME NEW t \in TableEntries(Whole.live) PROVE t \in TableEntries(Whole'.live)
    OBVIOUS
  <2>1. PICK n \in Whole.live : t \in tables[n]
    BY DEF TableEntries
  <2>2. CASE n \in j.del
    <3>1. t \in tables[j.out]
      BY <1>2, <2>1, <2>2 DEF TableEntries
    <3> QED
      BY <1>14, <3>1 DEF TableEntries
  <2>3. CASE n \notin j.del
    BY <1>14, <2>1, <2>3 DEF TableEntries
  <2> QED
    BY <2>2, <2>3
<1>29. j \in flush => db.imm \subseteq TableEntries(Whole'.live)
  BY <1>2, <1>14 DEF TableEntries
<1>15. Saved(Whole')
  <2>1. CASE AfterLog(j) = 0
    <3>1. Whole'.log = Whole.log /\ Saved(Whole)
      BY <1>3, <1>14, <2>1 DEF ManifestInv
    <3> QED
      BY <1>25, <1>28, <3>1 DEF Saved
  <2>2. CASE AfterLog(j) # 0
    <3>1. Whole'.log = AfterLog(j)
      BY <1>14, <2>2
    <3>2. db.log \in LogsToReplay(AfterLog(j))
      BY <1>3, <1>7 DEF LogsToReplay
    <3>3. j.del # {} => AfterLog(j) = db.logNumber
      BY DEF AfterLog
    <3>4. \A m \in must : \/ m.e \in TableEntries(db.live)
                          \/ m.e \in db.mem /\ InLog(m, db.log)
                          \/ m.e \in db.imm /\ \E n \in LogsToReplay(db.logNumber) : InLog(m, n)
      BY <1>2, <1>3 DEF ReadyInv
    <3>5. j.del = {} => db.imm \subseteq TableEntries(Whole'.live)
      BY <1>2, <1>29
    <3> QED
      BY <1>13, <1>25, <1>28, <3>1, <3>2, <3>3, <3>4, <3>5 DEF Saved
  <2> QED
    BY <2>1, <2>2
<1>16. Counted(Whole')
  <2>1. Unique(Store(db.live, db.logNumber)) /\ UpTo(Store(db.live, db.logNumber), db.last)
    BY <1>2, <1>3 DEF ReadyInv
  <2>2. TableEntries(Whole'.live) \subseteq Store(db.live, db.logNumber)
    BY <1>2, <1>3, <1>27 DEF ReadyInv, Store
  <2>3. LogEntries(Whole'.log) \subseteq Store(db.live, db.logNumber)
    <3>1. db.logNumber <= Whole'.log
      BY <1>3, <1>25
    <3>2. LogsToReplay(Whole'.log) \subseteq LogsToReplay(db.logNumber)
      BY <1>3, <1>25, <3>1 DEF LogsToReplay, TypeOK, FilesTyped
    <3> QED
      BY <3>2 DEF LogEntries, Records, Store
  <2>4. Store(Whole'.live, Whole'.log) \subseteq Store(db.live, db.logNumber)
    BY <2>2, <2>3 DEF Store
  <2> QED
    BY <1>14, <2>1, <2>2, <2>4 DEF Counted, Unique, UpTo
<1>17. ManifestInv'
  <2>1. Numbered(Whole)'
    <3>1. db.next <= db.next /\ current < db.next
      BY <1>3
    <3> QED
      BY <1>1, <1>14, <1>25, <3>1 DEF Numbered
  <2>2. ASSUME NEW v \in Views PROVE Numbered(v)'
    BY <1>1, <1>3, <1>14 DEF Numbered
  <2>3. ASSUME NEW v \in Views' PROVE Numbered(v)' /\ (v \in Views \/ (Saved(v) /\ Counted(v)))
    <3>1. CASE v \in Views
      BY <2>2, <3>1
    <3>2. CASE v = Whole'
      BY <1>15, <1>16, <2>1, <3>2 DEF Numbered
    <3> QED
      BY <1>12, <3>1, <3>2
  <2> QED
    BY <1>1, <1>3, <1>9, <2>3, ManifestMoves
<1>18. Bounded' /\ NewInv'
  BY <1>1, <1>2, <1>3 DEF Bounded, NewInv
<1>19. /\ TableEntries(db.live)' = TableEntries(db.live)
       /\ TableEntries(db.live \union db.add)' = TableEntries(db.live \union db.add)
       /\ LogEntries(db.logNumber)' = LogEntries(db.logNumber)
       /\ LogsToReplay(db.logNumber)' = LogsToReplay(db.logNumber)
       /\ \A m, n : InLog(m, n)' <=> InLog(m, n)
       /\ \A m : InLog(m, db.log)' <=> InLog(m, db.log)
       /\ \A c : TableEntries(c.del)' = TableEntries(c.del)
  BY <1>1 DEF TableEntries, LogEntries, Records, LogsToReplay, InLog
<1>20. MemoryInv'
  <2>1. Whole'.next <= db.next /\ Whole'.last <= db.last
    BY <1>3, <1>14
  <2>2. UpTo(TableEntries(db.live \union db.add) \union db.mem, db.last)'
    BY <1>1, <1>2, <1>3, <1>19 DEF MemoryInv
  <2> QED
    BY <1>1, <1>2, <1>3, <2>1, <2>2 DEF MemoryInv
<1>21. ReadyInv'
  <2>1. Store(db.live, db.logNumber)' = Store(db.live, db.logNumber)
    BY <1>19 DEF Store
  <2>2. Unique(Store(db.live, db.logNumber))' /\ UpTo(Store(db.live, db.logNumber), db.last)'
    BY <1>1, <1>2, <1>3, <2>1 DEF ReadyInv, Unique, UpTo
  <2>3. \A m \in must' : \/ m.e \in TableEntries(db.live)'
                         \/ m.e \in db'.mem /\ InLog(m, db.log)'
                         \/ m.e \in db'.imm /\ \E n \in LogsToReplay(db.logNumber)' : InLog(m, n)'
    BY <1>1, <1>2, <1>3, <1>19 DEF ReadyInv
  <2>4. pinned \subseteq DOMAIN tables /\ (\A n \in pinned : n < db.next) /\ db.imm \subseteq LogEntries(db.logNumber)
    BY <1>2, <1>3 DEF ReadyInv
  <2> QED
    BY <1>1, <1>2, <1>3, <1>19, <2>2, <2>3, <2>4 DEF ReadyInv
<1>22. InStep'
  <2> SUFFICES ASSUME ~db.bgError PROVE InStep'
    BY <1>1 DEF InStep
  <2>1. Whole'.live = AfterLive(j) /\ Whole'.log = AfterLog(j)
    BY <1>3, <1>7, <1>13, <1>14 DEF AfterLive
  <2>2. \A v \in Views' : \/ v.live = db.live /\ v.log = db.logNumber
                          \/ v.live = AfterLive(j) /\ v.log = AfterLog(j)
    BY <1>12, <1>13, <2>1
  <2> QED
    BY <1>1, <1>5, <1>6, <2>1, <2>2 DEF InStep
<1>30. ErrorInv'
  <2>1. \A v \in Views', c \in flush' \union comp' : c.pc # "logged" => c.out \notin v.live
    <3> SUFFICES ASSUME NEW v \in Views', NEW c \in flush' \union comp', c.pc # "logged"
                 PROVE  c.out \notin v.live
      OBVIOUS
    <3>1. j \in flush /\ c \in comp /\ c.out # j.out
      BY <1>2, <1>4 DEF GoesOn
    <3>2. c.out \notin Whole.live /\ \A w \in Views : c.out \notin w.live
      BY <1>3, <1>13, <3>1
    <3>3. c.out \notin Whole'.live
      BY <1>14, <3>1, <3>2
    <3> QED
      BY <1>12, <3>2, <3>3
  <2>2. /\ TableEntries(db.live)' = TableEntries(db.live)
        /\ TableEntries(Whole.live)' = TableEntries(Whole'.live)
    BY <1>1 DEF TableEntries
  <2>3. k.out \in Whole'.live
    BY <1>4, <1>14
  <2> QED
    BY <1>1, <1>5, <1>13, <1>27, <1>28, <2>1, <2>2, <2>3 DEF ErrorInv
<1>23. JobInv'
  <2>1. \A c \in comp : /\ c.out \notin db.live \union pinned /\ c.out < db.next
                        /\ c.pc # "build" => c.out \in DOMAIN tables /\ tables[c.out] = c.data
                        /\ c.del # {} /\ c.del \subseteq db.live /\ c.data = TableEntries(c.del)'
    BY <1>3, <1>19 DEF JobInv
  <2>2. CASE j \in flush
    <3>1. flush' = {k} /\ comp' = comp /\ k.del = {} /\ k.data = db.imm /\ db.imm # {}
      BY <1>2, <1>3, <1>4, <2>2 DEF GoesOn, JobInv, TypeOK
    <3>2. \A c \in comp : c.out # k.out /\ c.pc # "logged"
      BY <1>2, <1>4, <2>2
    <3> QED
      BY <1>1, <1>2, <1>4, <2>1, <3>1, <3>2 DEF JobInv
  <2>3. CASE j \in comp /\ j \notin flush
    <3>1. flush' = {} /\ comp' = {k}
      BY <2>3 DEF GoesOn
    <3>2. k.data = TableEntries(k.del)' /\ k.del # {} /\ k.del \subseteq db.live
      BY <1>2, <1>4, <1>19, <2>3
    <3> QED
      BY <1>1, <1>2, <1>4, <3>1, <3>2 DEF JobInv
  <2> QED
    BY <2>2, <2>3
<1>24. GarbageInv'
  BY <1>1, <1>2 DEF GarbageInv
<1> QED
  BY <1>2, <1>11, <1>17, <1>18, <1>20, <1>21, <1>22, <1>23, <1>24, <1>30, ReadyHolds DEF FilesInv, DiskInv

(* After a failed MANIFEST write the record may be there or not; either way a  *)
(* view is right, and nothing is deleted any more.                             *)
LEMMA LogAndApplyFailsHolds ==
    ASSUME FilesInv, Running, NEW j \in flush \union comp, LogAndApplyFails(j), Ended(j)
    PROVE  FilesInv'
<1>1. /\ logs' = logs /\ tables' = tables /\ manifests' = manifests /\ current' = current
      /\ db' = [db EXCEPT !.bgError = TRUE] /\ garbage' = garbage
      /\ pinned' = pinned /\ written' = written /\ must' = must
  BY DEF LogAndApplyFails
<1>2. Ready /\ db.pc = "open" /\ garbage = {}
  BY JobIs
<1>3. /\ TypeOK /\ ReadyInv /\ InStep /\ JobInv /\ db \in DbType
  BY <1>2, ReadyIs
<1>4. /\ db'.pc = "open" /\ db'.live = db.live /\ db'.add = db.add /\ db'.mem = db.mem /\ db'.todo = db.todo
      /\ db'.logNumber = db.logNumber /\ db'.last = db.last /\ db'.manifest = db.manifest
      /\ db'.imm = db.imm /\ db'.bgError = TRUE /\ db'.next = db.next /\ db'.log = db.log
  BY <1>1, <1>2, <1>3 DEF DbType
<1>5. db' \in DbType
  BY <1>1, <1>3 DEF DbType
<1>6. flush' = {} /\ comp' \subseteq comp
  BY DEF Ended
<1>7. TypeOK'
  BY <1>1, <1>3, <1>5, <1>6 DEF TypeOK
<1>8. JobInv'
  <2>1. \A c : TableEntries(c.del)' = TableEntries(c.del)
    BY <1>1 DEF TableEntries
  <2> QED
    BY <1>1, <1>3, <1>4, <1>6, <2>1 DEF JobInv
<1>9. GarbageInv' /\ Ready' /\ pinned \subseteq DOMAIN tables /\ \A n \in pinned : n < db.next
  BY <1>1, <1>2, <1>3, <1>4 DEF GarbageInv, Ready, ReadyInv
<1>10. flush' \union comp' \subseteq flush \union comp /\ LoggedJobs' \subseteq LoggedJobs
  BY <1>6 DEF LoggedJobs
<1>11. ErrorInv'
  <2>1. CASE db.bgError
    BY <1>1, <1>2, <1>4, <1>10, <2>1, ErrorKept
  <2>2. CASE LoggedJobs = {}
    <3>1. /\ TableEntries(db.live) \subseteq TableEntries(Whole.live)
          /\ TableEntries(Whole.live) \subseteq TableEntries(db.live) \union db.imm
          /\ \A v \in Views, c \in flush \union comp : c.out \notin v.live
      BY <1>2, <2>2, WholeHas
    <3>2. Views' = Views /\ Whole' = Whole
      BY <1>1, ViewsKept
    <3>3. /\ TableEntries(db.live)' = TableEntries(db.live)
          /\ TableEntries(Whole.live)' = TableEntries(Whole.live)
      BY <1>1, <1>4, <3>2 DEF TableEntries
    <3> QED
      BY <1>4, <1>10, <2>2, <3>1, <3>2, <3>3 DEF ErrorInv
  <2>3. CASE ~db.bgError /\ LoggedJobs # {}
    <3>1. j \in LoggedJobs /\ LoggedJobs = {j} /\ j.pc = "logged" /\ LoggedJobs' = {}
      BY <1>3, <2>3 DEF LoggedJobs, JobInv, TypeOK, Ended
    <3>2. /\ TableEntries(db.live) \subseteq TableEntries(AfterLive(j))
          /\ TableEntries(AfterLive(j)) \subseteq TableEntries(db.live) \union db.imm
      BY <1>2, <3>1, Covered
    <3>3. /\ \A v \in Views : v.live = db.live \/ v.live = AfterLive(j)
          /\ Whole.live = AfterLive(j)
      BY <1>2, <1>3, <2>3, <3>1 DEF InStep
    <3>4. \A c \in flush' \union comp' : c.out \notin db.live /\ c.out # j.out
      BY <1>3 DEF Ended, JobInv, TypeOK
    <3>5. Views' = Views /\ Whole' = Whole
      BY <1>1, ViewsKept
    <3>6. /\ TableEntries(db.live)' = TableEntries(db.live)
          /\ TableEntries(Whole.live)' = TableEntries(AfterLive(j))
      BY <1>1, <1>4, <3>3, <3>5 DEF TableEntries
    <3>7. \A v \in Views', c \in flush' \union comp' : c.out \notin v.live
      BY <3>3, <3>4, <3>5 DEF AfterLive
    <3> QED
      BY <1>4, <3>1, <3>2, <3>6, <3>7 DEF ErrorInv
  <2> QED
    BY <2>1, <2>2, <2>3
<1> QED
  BY <1>1, <1>2, <1>4, <1>7, <1>8, <1>9, <1>11, ReadyKept

(* The version is installed: what the MANIFEST says is now in memory.          *)
LEMMA InstallHolds ==
    ASSUME FilesInv, Running, NEW j \in flush \union comp, NEW others,
           j \in flush => others = {c.out : c \in comp},
           Install(j, others), Ended(j)
    PROVE  FilesInv'
<1> DEFINE live == AfterLive(j)
           log == AfterLog(j)
<1>1. /\ j.pc = "logged" /\ manifests' = SyncFile(manifests, db.manifest)
      /\ logs' = logs /\ tables' = tables /\ current' = current
      /\ pinned' = pinned /\ written' = written /\ must' = must
      /\ db' = [db EXCEPT !.live = live, !.logNumber = log, !.imm = IF j.del = {} THEN {} ELSE @]
      /\ garbage' = IF db.bgError THEN {} ELSE Obsolete(db', others)
  BY DEF Install, JobEdit, Edit, AfterLive, AfterLog
<1>2. /\ Ready /\ db.pc = "open" /\ garbage = {} /\ j \in JobType /\ j.out \in Nat
      /\ j.out \notin db.live \union pinned /\ j.out < db.next
      /\ j.out \in DOMAIN tables /\ tables[j.out] = j.data
      /\ j \in flush => /\ flush = {j} /\ j.del = {} /\ j.data = db.imm
                        /\ \A c \in comp : c.out # j.out /\ c.pc # "logged"
      /\ j \in comp => j.del # {} /\ j.del \subseteq db.live /\ j.data = TableEntries(j.del) /\ comp = {j}
  BY <1>1, JobIs
<1>3. /\ TypeOK /\ Bounded /\ ManifestInv /\ NewInv /\ MemoryInv /\ ReadyInv /\ InStep /\ ErrorInv /\ JobInv
      /\ current # 0 /\ current \in DOMAIN manifests /\ current = db.manifest /\ db \in DbType /\ db.add = {}
      /\ db.log # 0 /\ db.log \in Nat /\ db.logNumber \in Nat /\ db.next \in Nat \ {0} /\ db.last \in Nat
      /\ db.log \in DOMAIN logs /\ db.logNumber <= db.log /\ db.manifest < db.next /\ db.manifest \in Nat
      /\ Whole \in ViewType /\ Whole \in Views /\ db.todo = {} /\ Numbered(Whole)
      /\ \A n \in DOMAIN logs : n \in Nat /\ n < db.next
      /\ db.log < db.next
  BY <1>2, ReadyIs
<1>4. /\ live \in SUBSET Nat /\ live \subseteq DOMAIN tables
      /\ \A n \in live : n < db.next
      /\ log \in Nat /\ db.logNumber <= log /\ log <= db.log /\ log < db.next
      /\ Store(live, log) \subseteq Store(db.live, db.logNumber)
      /\ TableEntries(db.live) \subseteq TableEntries(live)
      /\ j \in flush => db.imm \subseteq TableEntries(live)
      /\ \A m \in must : \/ m.e \in TableEntries(live)
                         \/ m.e \in db.mem /\ InLog(m, db.log)
                         \/ /\ j.del # {} /\ m.e \in db.imm
                            /\ \E n \in LogsToReplay(db.logNumber) : InLog(m, n)
  BY <1>1, <1>2, Covered DEF AfterLive, TableEntries
<1>5. /\ j.del = {} => log = db.log
      /\ j.del # {} => log = db.logNumber
      /\ live = (db.live \ j.del) \union {j.out}
  BY DEF AfterLog, AfterLive
<1> HIDE DEF live, log
<1>6. /\ db'.pc = "open" /\ db'.live = live /\ db'.add = {} /\ db'.mem = db.mem /\ db'.todo = {}
      /\ db'.logNumber = log /\ db'.last = db.last /\ db'.manifest = db.manifest
      /\ db'.imm = (IF j.del = {} THEN {} ELSE db.imm) /\ db'.bgError = db.bgError
      /\ db'.next = db.next /\ db'.log = db.log
  BY <1>1, <1>2, <1>3 DEF DbType
<1>7. db' \in DbType
  <2> DEFINE imm == IF j.del = {} THEN {} ELSE db.imm
  <2>1. imm \in SUBSET Entry
    BY <1>3 DEF DbType
  <2>2. db' = [db EXCEPT !.live = live, !.logNumber = log, !.imm = imm]
    BY <1>1
  <2> HIDE DEF imm
  <2> QED
    BY <1>3, <1>4, <2>1, <2>2 DEF DbType
<1>8. /\ DOMAIN manifests' = DOMAIN manifests /\ FilesTyped(manifests', EditType)
      /\ manifests'[current].recs = manifests[current].recs
      /\ manifests'[current].synced = Len(manifests'[current].recs)
  <2> DEFINE new == SyncFile(manifests, db.manifest)
  <2>1. FilesTyped(manifests, EditType) /\ db.manifest \in DOMAIN manifests
    BY <1>3 DEF TypeOK
  <2>2. /\ DOMAIN new = DOMAIN manifests /\ FilesTyped(new, EditType)
        /\ \A m \in DOMAIN manifests : new[m].recs = manifests[m].recs
        /\ \A m \in DOMAIN manifests : m # db.manifest => new[m] = manifests[m]
        /\ new[db.manifest].synced = Len(new[db.manifest].recs)
    BY <2>1, SyncTyped, Zenon
  <2>3. manifests' = new
    BY <1>1
  <2> HIDE DEF new
  <2> QED
    BY <1>3, <2>2, <2>3
<1>9. flush' = {} /\ comp' \subseteq comp /\ (j \in flush => comp' = comp) /\ (j \notin flush => comp' = {})
  BY DEF Ended
<1>10. TypeOK'
  BY <1>1, <1>3, <1>7, <1>8, <1>9 DEF TypeOK
<1>11. Whole' = Whole
  BY <1>1, <1>8 DEF Whole
<1>12. ~db.bgError => Whole.live = live /\ Whole.log = log
  <2>1. j \in LoggedJobs
    BY <1>1 DEF LoggedJobs
  <2> QED
    BY <1>2, <1>3, <2>1 DEF InStep, live, log
<1>13. Views' = {Whole'}
  BY <1>1, <1>3, <1>8, <1>10, ViewsSynced
<1>14. ManifestInv'
  <2>1. \A v \in Views' : v \in Views /\ Numbered(v)'
    BY <1>1, <1>3, <1>11, <1>13 DEF Numbered
  <2> QED
    BY <1>1, <1>3, <1>8, <2>1, ManifestMoves
<1>15. Bounded' /\ NewInv' /\ Ready'
  BY <1>1, <1>2, <1>3, <1>6 DEF Bounded, NewInv, Ready
<1>16. /\ TableEntries(db.live)' = TableEntries(live)
       /\ TableEntries(db.live \union db.add)' = TableEntries(live)
       /\ LogEntries(db.logNumber)' = LogEntries(log)
       /\ LogsToReplay(db.logNumber)' = LogsToReplay(log)
       /\ \A m, n : InLog(m, n)' <=> InLog(m, n)
       /\ \A m : InLog(m, db.log)' <=> InLog(m, db.log)
       /\ \A c : TableEntries(c.del)' = TableEntries(c.del)
  BY <1>1, <1>6 DEF TableEntries, LogEntries, Records, LogsToReplay, InLog
<1>17. Unique(Store(live, log)) /\ UpTo(Store(live, log), db.last) /\ TableEntries(live) \subseteq Store(live, log)
  <2>1. Unique(Store(db.live, db.logNumber)) /\ UpTo(Store(db.live, db.logNumber), db.last)
    BY <1>2, <1>3 DEF ReadyInv
  <2> QED
    BY <1>4, <2>1 DEF Unique, UpTo, Store
<1>18. MemoryInv'
  <2>1. UpTo(TableEntries(db.live \union db.add) \union db.mem, db.last) /\ Whole.next <= db.next /\ Whole.last <= db.last
    BY <1>2, <1>3 DEF MemoryInv
  <2>2. UpTo(TableEntries(db.live \union db.add) \union db.mem, db.last)'
    BY <1>6, <1>16, <1>17, <2>1 DEF UpTo
  <2>3. db.mem \subseteq Entries(logs[db.log].recs)
    BY <1>2, <1>3 DEF MemoryInv
  <2> QED
    BY <1>1, <1>3, <1>4, <1>6, <1>11, <2>1, <2>2, <2>3 DEF MemoryInv
<1>19. ReadyInv'
  <2>1. Store(db.live, db.logNumber)' = Store(live, log)
    BY <1>16 DEF Store
  <2>2. Unique(Store(db.live, db.logNumber))' /\ UpTo(Store(db.live, db.logNumber), db.last)'
    BY <1>6, <1>17, <2>1 DEF Unique, UpTo
  <2>3. \A m \in must' : \/ m.e \in TableEntries(db.live)'
                         \/ m.e \in db'.mem /\ InLog(m, db.log)'
                         \/ m.e \in db'.imm /\ \E n \in LogsToReplay(db.logNumber)' : InLog(m, n)'
    <3> SUFFICES ASSUME NEW m \in must
                 PROVE  \/ m.e \in TableEntries(live)
                        \/ m.e \in db.mem /\ InLog(m, db.log)
                        \/ m.e \in db'.imm /\ \E n \in LogsToReplay(log) : InLog(m, n)
      BY <1>1, <1>6, <1>16
    <3> QED
      BY <1>4, <1>5, <1>6
  <2>4. /\ pinned \subseteq DOMAIN tables /\ (\A n \in pinned : n < db.next)
        /\ db.imm \subseteq LogEntries(db.logNumber)
    BY <1>2, <1>3 DEF ReadyInv
  <2>5. db'.imm \subseteq LogEntries(log)
    BY <1>5, <1>6, <2>4
  <2> QED
    BY <1>1, <1>3, <1>6, <1>16, <2>2, <2>3, <2>4, <2>5 DEF ReadyInv
<1>20. LoggedJobs' = {}
  BY <1>2, <1>9 DEF LoggedJobs
<1>21. InStep'
  BY <1>6, <1>11, <1>12, <1>13, <1>20 DEF InStep
<1>24. ErrorInv'
  <2> SUFFICES ASSUME db.bgError PROVE ErrorInv'
    BY <1>6 DEF ErrorInv
  <2>1. /\ \A c \in flush \union comp : c.pc # "logged" => c.out \notin Whole.live
        /\ TableEntries(db.live) \subseteq TableEntries(Whole.live)
        /\ TableEntries(Whole.live) \subseteq TableEntries(db.live) \union db.imm
        /\ j.out \in Whole.live
    BY <1>1, <1>2, <1>3 DEF ErrorInv, LoggedJobs
  <2>2. \A v \in Views', c \in flush' \union comp' : c.pc # "logged" => c.out \notin v.live
    BY <1>9, <1>11, <1>13, <2>1
  <2>3. TableEntries(live) \subseteq TableEntries(Whole.live)
    <3> SUFFICES ASSUME NEW t \in TableEntries(live) PROVE t \in TableEntries(Whole.live)
      OBVIOUS
    <3>1. PICK n \in live : t \in tables[n]
      BY DEF TableEntries
    <3>2. CASE n = j.out
      BY <2>1, <3>1, <3>2 DEF TableEntries
    <3>3. CASE n \in db.live
      BY <2>1, <3>1, <3>3 DEF TableEntries
    <3> QED
      BY <1>5, <3>1, <3>2, <3>3
  <2>4. TableEntries(Whole.live) \subseteq TableEntries(live) \union db'.imm
    <3>1. j.del = {} => j \in flush
      BY <1>2
    <3> QED
      BY <1>4, <1>6, <2>1, <3>1
  <2>5. TableEntries(Whole.live)' = TableEntries(Whole.live) /\ TableEntries(db.live)' = TableEntries(live)
    BY <1>1, <1>11, <1>16 DEF TableEntries
  <2> QED
    BY <1>20, <2>2, <2>3, <2>4, <2>5 DEF ErrorInv
<1>22. JobInv'
  <2>1. \A c \in comp : /\ c.out \notin db.live \union pinned /\ c.out < db.next
                        /\ c.pc # "build" => c.out \in DOMAIN tables /\ tables[c.out] = c.data
                        /\ c.del # {} /\ c.del \subseteq db.live /\ c.data = TableEntries(c.del)'
    BY <1>3, <1>16 DEF JobInv
  <2>2. \A c \in comp' : /\ c.out \notin live \union pinned
                         /\ c.del \subseteq live
    BY <1>2, <1>5, <1>9, <2>1
  <2> QED
    BY <1>1, <1>6, <1>9, <2>1, <2>2 DEF JobInv
<1>23. GarbageInv'
  <2> SUFFICES ASSUME ~db.bgError PROVE GarbageInv'
    BY <1>1 DEF GarbageInv
  <2>1. \A g \in garbage' : \/ g[1] = "log" /\ g[2] < log
                            \/ g[1] = "manifest" /\ g[2] < db.manifest
                            \/ g[1] = "table" /\ g[2] \notin live \union pinned \union others
    BY <1>1, <1>6 DEF Obsolete
  <2>2. {c.out : c \in comp'} \subseteq others
    BY <1>9
  <2> QED
    BY <1>1, <1>6, <1>9, <1>20, <2>1, <2>2 DEF GarbageInv
<1> QED
  BY <1>10, <1>14, <1>15, <1>18, <1>19, <1>21, <1>22, <1>23, <1>24, ReadyHolds DEF FilesInv, DiskInv

(* The steps of a memtable compaction.                                         *)
LEMMA FlushStepHolds ==
    ASSUME FilesInv, FlushStep
    PROVE  FilesInv'
<1>1. PICK j \in flush : \/ Built(j) /\ flush' = {[j EXCEPT !.pc = "built"]}
                         \/ Logged(j) /\ flush' = {[j EXCEPT !.pc = "logged"]}
                         \/ Install(j, {c.out : c \in comp}) /\ flush' = {}
                         \/ LogAndApplyFails(j) /\ flush' = {}
  BY DEF FlushStep
<1>2. Running /\ comp' = comp
  BY DEF FlushStep
<1>4. CASE Built(j) /\ flush' = {[j EXCEPT !.pc = "built"]}
  BY <1>2, <1>4, BuiltHolds DEF GoesOn
<1>5. CASE Logged(j) /\ flush' = {[j EXCEPT !.pc = "logged"]}
  BY <1>2, <1>5, LoggedHolds DEF GoesOn
<1>6. CASE Install(j, {c.out : c \in comp}) /\ flush' = {}
  <2>1. PICK others : others = {c.out : c \in comp}
    OBVIOUS
  <2> QED
    BY <1>2, <1>6, <2>1, InstallHolds DEF Ended
<1>7. CASE LogAndApplyFails(j) /\ flush' = {}
  BY <1>2, <1>7, LogAndApplyFailsHolds DEF Ended
<1> QED
  BY <1>1, <1>4, <1>5, <1>6, <1>7

(* The steps of a table compaction.                                            *)
LEMMA CompactionStepHolds ==
    ASSUME FilesInv, CompactionStep
    PROVE  FilesInv'
<1>1. PICK j \in comp : \/ Built(j) /\ comp' = {[j EXCEPT !.pc = "built"]}
                        \/ Logged(j) /\ comp' = {[j EXCEPT !.pc = "logged"]}
                        \/ Install(j, {}) /\ comp' = {}
                        \/ LogAndApplyFails(j) /\ comp' = {}
  BY DEF CompactionStep
<1>2. Running /\ flush = {} /\ flush' = flush
  BY DEF CompactionStep
<1>3. CASE Built(j) /\ comp' = {[j EXCEPT !.pc = "built"]}
  BY <1>2, <1>3, BuiltHolds DEF GoesOn
<1>4. CASE Logged(j) /\ comp' = {[j EXCEPT !.pc = "logged"]}
  BY <1>2, <1>4, LoggedHolds DEF GoesOn
<1>5. CASE Install(j, {}) /\ comp' = {}
  BY <1>2, <1>5, InstallHolds DEF Ended
<1>6. CASE LogAndApplyFails(j) /\ comp' = {}
  BY <1>2, <1>6, LogAndApplyFailsHolds DEF Ended
<1> QED
  BY <1>1, <1>3, <1>4, <1>5, <1>6

-----------------------------------------------------------------------------
(* Deletions and writes.                                                       *)

(* What is deleted is a log before the log number, an older MANIFEST, or a     *)
(* table in no version.                                                        *)
LEMMA DeleteFileHolds ==
    ASSUME FilesInv, DeleteFile
    PROVE  FilesInv'
<1>1. PICK g \in garbage :
         /\ logs' = IF g[1] = "log" THEN Without(logs, g[2]) ELSE logs
         /\ manifests' = IF g[1] = "manifest" THEN Without(manifests, g[2]) ELSE manifests
         /\ tables' = IF g[1] = "table" THEN Without(tables, g[2]) ELSE tables
         /\ garbage' = garbage \ {g}
  BY DEF DeleteFile
<1>2. /\ current' = current /\ db' = db /\ flush' = flush /\ comp' = comp /\ pinned' = pinned
      /\ written' = written /\ must' = must
  BY DEF DeleteFile
<1>3. GarbageInv
  BY DEF FilesInv, ProcessInv
<1>4. /\ db.pc = "open" /\ ~db.bgError /\ LoggedJobs = {} /\ flush = {} /\ Ready /\ Ready'
      /\ \A h \in garbage : \/ h[1] = "log" /\ h[2] < db.logNumber
                            \/ h[1] = "manifest" /\ h[2] < db.manifest
                            \/ h[1] = "table" /\ h[2] \notin db.live \union pinned \union {j.out : j \in comp}
  BY <1>1, <1>2, <1>3 DEF GarbageInv, Ready
<1>5. /\ TypeOK /\ Bounded /\ ManifestInv /\ NewInv /\ MemoryInv /\ ReadyInv /\ InStep /\ JobInv
      /\ current # 0 /\ current \in DOMAIN manifests /\ current = db.manifest /\ db \in DbType /\ db.add = {}
      /\ db.log # 0 /\ db.log \in Nat /\ db.logNumber \in Nat /\ db.manifest \in Nat
      /\ db.log \in DOMAIN logs /\ db.logNumber <= db.log
      /\ \A n \in DOMAIN logs : n \in Nat /\ n < db.next
      /\ \A n \in db.live : n \in Nat /\ n < db.next /\ n \in DOMAIN tables
  BY <1>4, ReadyIs
<1>6. /\ DOMAIN logs' \subseteq DOMAIN logs /\ \A n \in DOMAIN logs' : logs'[n] = logs[n]
      /\ \A n \in DOMAIN logs : n >= db.logNumber => n \in DOMAIN logs'
  <2>1. CASE g[1] = "log"
    <3>1. g[2] < db.logNumber
      BY <1>4, <2>1
    <3>2. \A n \in DOMAIN logs : n >= db.logNumber => n # g[2]
      BY <1>5, <3>1
    <3> QED
      BY <1>1, <2>1, <3>2 DEF Without
  <2>2. CASE g[1] # "log"
    BY <1>1, <2>2
  <2> QED
    BY <2>1, <2>2
<1>7. /\ DOMAIN manifests' \subseteq DOMAIN manifests /\ \A n \in DOMAIN manifests' : manifests'[n] = manifests[n]
      /\ current \in DOMAIN manifests'
  <2>1. CASE g[1] = "manifest"
    <3>1. g[2] # current
      BY <1>4, <1>5, <2>1
    <3> QED
      BY <1>1, <1>5, <2>1, <3>1 DEF Without
  <2>2. CASE g[1] # "manifest"
    BY <1>1, <1>5, <2>2
  <2> QED
    BY <2>1, <2>2
<1>8. /\ DOMAIN tables' \subseteq DOMAIN tables /\ \A n \in DOMAIN tables' : tables'[n] = tables[n]
      /\ \A n \in DOMAIN tables : n \in db.live \union pinned \union {j.out : j \in comp} => n \in DOMAIN tables'
  <2>1. CASE g[1] = "table"
    <3>1. g[2] \notin db.live \union pinned \union {j.out : j \in comp}
      BY <1>4, <2>1
    <3> QED
      BY <1>1, <2>1, <3>1 DEF Without
  <2>2. CASE g[1] # "table"
    BY <1>1, <2>2
  <2> QED
    BY <2>1, <2>2
<1>9. TypeOK'
  BY <1>2, <1>5, <1>6, <1>7, <1>8 DEF TypeOK, FilesTyped
<1>10. Bounded'
  BY <1>5, <1>6 DEF Bounded
<1>11. NewInv'
  BY <1>2, <1>4, <1>5 DEF NewInv
<1>12. \A v \in Views : v.live = db.live /\ v.log = db.logNumber
  BY <1>4, <1>5 DEF InStep
<1>13. ManifestInv'
  <2>1. manifests'[current] = manifests[current]
    BY <1>7
  <2>2. \A v \in Views : \A n \in v.live : n \in DOMAIN tables' /\ tables'[n] = tables[n]
    BY <1>5, <1>8, <1>12
  <2>3. \A v \in Views : \A n \in LogsToReplay(v.log) : n \in DOMAIN logs' /\ logs'[n] = logs[n]
    BY <1>6, <1>12 DEF LogsToReplay
  <2>4. \A n \in DOMAIN logs' : n \in DOMAIN logs /\ logs'[n] = logs[n]
    BY <1>6
  <2> QED
    BY <1>2, <1>5, <1>7, <2>1, <2>2, <2>3, <2>4, ManifestKept
<1>14. /\ TableEntries(db.live)' = TableEntries(db.live)
       /\ TableEntries(db.live \union db.add)' = TableEntries(db.live \union db.add)
       /\ \A set \in SUBSET db.live : TableEntries(set)' = TableEntries(set)
  <2>1. \A n \in db.live : tables'[n] = tables[n]
    BY <1>5, <1>8
  <2> QED
    BY <1>2, <1>5, <2>1 DEF TableEntries
<1>15. /\ LogEntries(db.logNumber)' = LogEntries(db.logNumber)
       /\ LogsToReplay(db.logNumber)' = LogsToReplay(db.logNumber)
       /\ \A m, n : n \in LogsToReplay(db.logNumber) => (InLog(m, n)' <=> InLog(m, n))
       /\ \A m : InLog(m, db.log)' <=> InLog(m, db.log)
       /\ logs'[db.log] = logs[db.log] /\ db.log \in DOMAIN logs'
  <2>1. LogsToReplay(db.logNumber)' = LogsToReplay(db.logNumber)
    BY <1>2, <1>6 DEF LogsToReplay
  <2>2. \A n \in LogsToReplay(db.logNumber) : logs'[n] = logs[n]
    BY <1>6 DEF LogsToReplay
  <2>3. logs'[db.log] = logs[db.log] /\ db.log \in DOMAIN logs'
    BY <1>5, <1>6
  <2>4. LogEntries(db.logNumber)' = LogEntries(db.logNumber)
    BY <2>1, <2>2 DEF LogEntries, Records
  <2> QED
    BY <1>2, <2>1, <2>2, <2>3, <2>4 DEF InLog
<1>16. Whole' = Whole /\ Views' = Views
  BY <1>2, <1>7, ViewsKept
<1>17. MemoryInv'
  <2>1. UpTo(TableEntries(db.live \union db.add) \union db.mem, db.last)'
    BY <1>2, <1>4, <1>5, <1>14 DEF MemoryInv
  <2> QED
    BY <1>2, <1>4, <1>5, <1>6, <1>8, <1>15, <1>16, <2>1 DEF MemoryInv
<1>18. ReadyInv'
  <2>1. Store(db.live, db.logNumber)' = Store(db.live, db.logNumber)
    BY <1>14, <1>15 DEF Store
  <2>2. Unique(Store(db.live, db.logNumber))' /\ UpTo(Store(db.live, db.logNumber), db.last)'
    BY <1>2, <1>4, <1>5, <2>1 DEF ReadyInv, Unique, UpTo
  <2>3. \A m \in must' : \/ m.e \in TableEntries(db.live)'
                         \/ m.e \in db'.mem /\ InLog(m, db.log)'
                         \/ m.e \in db'.imm /\ \E n \in LogsToReplay(db.logNumber)' : InLog(m, n)'
    BY <1>2, <1>4, <1>5, <1>14, <1>15 DEF ReadyInv
  <2>4. /\ pinned \subseteq DOMAIN tables' /\ (\A n \in pinned : n < db.next)
        /\ db.imm \subseteq LogEntries(db.logNumber) /\ db.todo = {}
    BY <1>4, <1>5, <1>8 DEF ReadyInv
  <2> QED
    BY <1>2, <1>4, <1>5, <1>15, <2>2, <2>3, <2>4 DEF ReadyInv
<1>19. InStep'
  <2>1. LoggedJobs' = {} /\ Whole.live = db.live /\ Whole.log = db.logNumber
    BY <1>2, <1>4, <1>5 DEF LoggedJobs, InStep
  <2> QED
    BY <1>2, <1>12, <1>16, <2>1 DEF InStep
<1>20. JobInv'
  <2>1. \A c \in comp : c.pc # "build" => c.out \in DOMAIN tables' /\ tables'[c.out] = c.data
    BY <1>5, <1>8 DEF JobInv
  <2>2. \A c \in comp : c.data = TableEntries(c.del)'
    BY <1>5, <1>14 DEF JobInv
  <2> QED
    BY <1>2, <1>4, <1>5, <2>1, <2>2 DEF JobInv
<1>21. GarbageInv' /\ ErrorInv'
  <2>1. LoggedJobs' = {}
    BY <1>2, <1>4 DEF LoggedJobs
  <2> QED
    BY <1>1, <1>2, <1>4, <2>1 DEF GarbageInv, ErrorInv
<1> QED
  BY <1>4, <1>9, <1>10, <1>11, <1>13, <1>17, <1>18, <1>19, <1>20, <1>21, ReadyHolds DEF FilesInv, DiskInv

(* Whatever a MANIFEST says, it says of the entries of this process.           *)
LEMMA Within ==
    ASSUME FilesInv, Ready, ~db.bgError, NEW v \in Views
    PROVE  v.log \in Nat /\ v.log <= db.log /\ Store(v.live, v.log) \subseteq Store(db.live, db.logNumber)
<1>1. /\ InStep /\ db.logNumber <= db.log /\ db.logNumber \in Nat
  BY ReadyIs
<1>2. CASE v.live = db.live /\ v.log = db.logNumber
  BY <1>1, <1>2
<1>3. ASSUME NEW j \in LoggedJobs, v.live = AfterLive(j), v.log = AfterLog(j)
      PROVE  v.log \in Nat /\ v.log <= db.log /\ Store(v.live, v.log) \subseteq Store(db.live, db.logNumber)
  <2>1. j \in flush \union comp /\ j.pc # "build"
    BY DEF LoggedJobs
  <2>2. /\ AfterLog(j) \in Nat /\ AfterLog(j) <= db.log
        /\ Store(AfterLive(j), AfterLog(j)) \subseteq Store(db.live, db.logNumber)
    BY <2>1, Covered
  <2> QED
    BY <1>3, <2>2
<1> QED
  BY <1>1, <1>2, <1>3 DEF InStep

(* An entry with the next sequence number.                                     *)
LEMMA OneMore ==
    ASSUME NEW S \in SUBSET Entry, NEW last \in Nat, NEW e \in Entry, e[2] = last + 1,
           Unique(S), UpTo(S, last), NEW T, T \subseteq S \union {e}
    PROVE  Unique(T) /\ UpTo(T, last + 1)
<1>1. \A f \in S : f[2] \in Nat /\ f[2] <= last /\ f[2] # last + 1
  BY DEF UpTo, Entry
<1>2. Unique(T)
  BY <1>1 DEF Unique
<1>3. UpTo(T, last + 1)
  BY <1>1 DEF UpTo
<1> QED
  BY <1>2, <1>3

(* A record at the end of the log.                                             *)
LEMMA WriteLog ==
    ASSUME TypeOK, NEW n \in DOMAIN logs, NEW e \in Entry, NEW sync \in BOOLEAN,
           LET log == [logs[n] EXCEPT !.recs = Append(@, e)]
           IN  logs' = With(logs, n, IF sync THEN [log EXCEPT !.synced = Len(log.recs)] ELSE log)
    PROVE  /\ FilesTyped(logs', Entry) /\ DOMAIN logs' = DOMAIN logs
           /\ \A i \in DOMAIN logs : i # n => logs'[i] = logs[i]
           /\ Entries(logs'[n].recs) = Entries(logs[n].recs) \union {e}
           /\ \A m : \A i \in DOMAIN logs : InLog(m, i) => InLog(m, i)'
           /\ \A m : m.e = e /\ m.sync = sync => InLog(m, n)'
<1> DEFINE r == logs[n].recs
           s == logs[n].synced
           more == Append(r, e)
           k == IF sync THEN Len(more) ELSE s
<1>1. r \in Seq(Entry) /\ s \in Nat /\ s <= Len(r) /\ Len(r) \in Nat /\ logs[n] \in [recs : Seq(Entry), synced : Nat]
  BY DEF TypeOK, FilesTyped
<1>2. /\ more \in Seq(Entry) /\ Len(more) = Len(r) + 1 /\ more[Len(r) + 1] = e
      /\ DOMAIN r = 1..Len(r) /\ DOMAIN more = 1..(Len(r) + 1)
      /\ \A i \in 1..Len(r) : more[i] = r[i]
  BY <1>1
<1>3. logs' = With(logs, n, [recs |-> more, synced |-> k])
  <2> DEFINE log == [logs[n] EXCEPT !.recs = Append(@, e)]
  <2>1. logs' = With(logs, n, IF sync THEN [log EXCEPT !.synced = Len(log.recs)] ELSE log)
    OBVIOUS
  <2>2. log = [recs |-> more, synced |-> s]
    <3>1. \A f \in [recs : Seq(Entry), synced : Nat] :
             [f EXCEPT !.recs = Append(@, e)] = [recs |-> Append(f.recs, e), synced |-> f.synced]
      OBVIOUS
    <3> QED
      BY <1>1, <3>1
  <2> HIDE DEF log, more
  <2>3. (IF sync THEN [log EXCEPT !.synced = Len(log.recs)] ELSE log) = [recs |-> more, synced |-> k]
    BY <2>2
  <2> QED
    BY <2>1, <2>3, Zenon
<1>4. k \in Nat /\ k <= Len(more) /\ s <= k /\ (sync => k = Len(r) + 1)
  BY <1>1, <1>2
<1> HIDE DEF more, k, r, s
<1>5. /\ DOMAIN logs' = DOMAIN logs /\ logs'[n] = [recs |-> more, synced |-> k]
      /\ \A i \in DOMAIN logs : i # n => logs'[i] = logs[i]
  BY <1>3 DEF With
<1>6. FilesTyped(logs', Entry)
  <2>1. \A i \in DOMAIN logs : i # n => /\ i \in Nat /\ logs'[i] \in [recs : Seq(Entry), synced : Nat]
                                        /\ logs'[i].synced <= Len(logs'[i].recs)
    BY <1>5 DEF TypeOK, FilesTyped
  <2>2. n \in Nat /\ logs'[n] \in [recs : Seq(Entry), synced : Nat] /\ logs'[n].synced <= Len(logs'[n].recs)
    <3>1. n \in Nat
      BY DEF TypeOK, FilesTyped
    <3>2. [recs |-> more, synced |-> k] \in [recs : Seq(Entry), synced : Nat]
      BY <1>2, <1>4
    <3> QED
      BY <3>1, <3>2, <1>4, <1>5
  <2> QED
    BY <1>5, <2>1, <2>2 DEF FilesTyped
<1>7. Entries(logs'[n].recs) = Entries(logs[n].recs) \union {e}
  <2>1. Entries(more) = Entries(r) \union {e}
    <3>1. \A i \in DOMAIN more : more[i] \in Entries(r) \union {e}
      BY <1>1, <1>2 DEF Entries
    <3>2. \A i \in DOMAIN r : i \in DOMAIN more /\ more[i] = r[i]
      BY <1>1, <1>2
    <3>3. Len(r) + 1 \in DOMAIN more
      BY <1>1, <1>2
    <3> QED
      BY <1>2, <3>1, <3>2, <3>3 DEF Entries
  <2> QED
    BY <1>5, <2>1 DEF r
<1>8. ASSUME NEW i \in DOMAIN logs, NEW m, InLog(m, i) PROVE InLog(m, i)'
  <2>1. CASE i # n
    BY <1>5, <1>8, <2>1 DEF InLog
  <2>2. CASE i = n
    <3>1. PICK x \in DOMAIN r : r[x] = m.e /\ (PowerFails /\ m.sync => x <= s)
      BY <1>8, <2>2 DEF InLog, r, s
    <3>2. x \in DOMAIN more /\ more[x] = m.e /\ (PowerFails /\ m.sync => x <= k)
      BY <1>1, <1>2, <1>4, <3>1
    <3> QED
      BY <1>5, <2>2, <3>2 DEF InLog
  <2> QED
    BY <2>1, <2>2
<1>9. ASSUME NEW m, m.e = e, m.sync = sync PROVE InLog(m, n)'
  <2>1. Len(r) + 1 \in DOMAIN more /\ more[Len(r) + 1] = m.e /\ (m.sync => Len(r) + 1 <= k)
    BY <1>1, <1>2, <1>4, <1>9
  <2> QED
    BY <1>5, <2>1 DEF InLog
<1> QED
  BY <1>5, <1>6, <1>7, <1>8, <1>9

(* A write is in the log before it is in the memtable, and synced there when   *)
(* it is a synced write.                                                       *)
LEMMA WriteHolds ==
    ASSUME FilesInv, NEW sync \in BOOLEAN, Write(sync)
    PROVE  FilesInv'
<1>1. /\ db.pc = "open" /\ Ready /\ garbage = {} /\ ~db.bgError
      /\ tables' = tables /\ manifests' = manifests /\ current' = current /\ garbage' = garbage
      /\ flush' = flush /\ comp' = comp /\ pinned' = pinned /\ written' = written + 1
  BY DEF Write, Running, Ready
<1>2. PICK e : e = <<written + 1, db.last + 1>>
  OBVIOUS
<1>3. LET log == [logs[db.log] EXCEPT !.recs = Append(@, e)]
      IN  /\ logs' = With(logs, db.log, IF sync THEN [log EXCEPT !.synced = Len(log.recs)] ELSE log)
          /\ db' = [db EXCEPT !.mem = @ \union {e}, !.last = @ + 1]
          /\ must' = must \union {[e |-> e, sync |-> sync]}
  BY <1>2 DEF Write
<1>4. PICK log : log = db.log
  OBVIOUS
<1>5. /\ TypeOK /\ Bounded /\ ManifestInv /\ NewInv /\ MemoryInv /\ ReadyInv /\ InStep /\ JobInv
      /\ current # 0 /\ current \in DOMAIN manifests /\ current = db.manifest /\ db \in DbType /\ db.add = {}
      /\ db.log # 0 /\ db.log \in Nat /\ db.logNumber \in Nat /\ db.manifest \in Nat /\ db.last \in Nat
      /\ log \in DOMAIN logs /\ db.logNumber <= log /\ db.todo = {}
      /\ \A n \in DOMAIN logs : n \in Nat /\ n < db.next
      /\ \A n \in db.live : n \in Nat /\ n < db.next /\ n \in DOMAIN tables
      /\ Views \in SUBSET ViewType /\ Whole \in ViewType
  BY <1>1, <1>4, ReadyIs
<1>6. e \in Entry /\ e[2] = db.last + 1 /\ written + 1 \in Nat /\ db.last + 1 \in Nat
  BY <1>2, <1>5 DEF TypeOK, Entry
<1>7. PICK new : new = [e |-> e, sync |-> sync]
  OBVIOUS
<1>8. new \in [e : Entry, sync : BOOLEAN] /\ new.e = e /\ new.sync = sync /\ must' = must \union {new}
  BY <1>3, <1>6, <1>7
<1>9. /\ FilesTyped(logs', Entry) /\ DOMAIN logs' = DOMAIN logs
      /\ \A i \in DOMAIN logs : i # log => logs'[i] = logs[i]
      /\ Entries(logs'[log].recs) = Entries(logs[log].recs) \union {e}
      /\ \A m : \A i \in DOMAIN logs : InLog(m, i) => InLog(m, i)'
      /\ \A m : m.e = e /\ m.sync = sync => InLog(m, log)'
  <2>1. /\ TypeOK /\ log \in DOMAIN logs /\ e \in Entry /\ sync \in BOOLEAN
        /\ LET file == [logs[log] EXCEPT !.recs = Append(@, e)]
           IN  logs' = With(logs, log, IF sync THEN [file EXCEPT !.synced = Len(file.recs)] ELSE file)
    BY <1>3, <1>4, <1>5, <1>6
  <2> QED
    BY <2>1, WriteLog
<1>10. /\ db'.pc = "open" /\ db'.live = db.live /\ db'.add = {} /\ db'.mem = db.mem \union {e} /\ db'.todo = {}
       /\ db'.logNumber = db.logNumber /\ db'.last = db.last + 1 /\ db'.manifest = db.manifest
       /\ db'.imm = db.imm /\ db'.bgError = db.bgError /\ db'.next = db.next /\ db'.log = log
  BY <1>1, <1>3, <1>4, <1>5 DEF DbType
<1>11. db' \in DbType
  <2> DEFINE mem == db.mem \union {e}
             last == db.last + 1
  <2>1. mem \in SUBSET Entry /\ last \in Nat
    BY <1>5, <1>6 DEF DbType
  <2>2. db' = [db EXCEPT !.mem = mem, !.last = last]
    BY <1>3
  <2> HIDE DEF mem, last
  <2> QED
    BY <1>5, <2>1, <2>2 DEF DbType
<1>12. TypeOK'
  BY <1>1, <1>5, <1>6, <1>8, <1>9, <1>11 DEF TypeOK
<1>13. Bounded'
  <2>1. PICK b \in Nat : \A n \in DOMAIN logs : n <= b /\ UpTo(Entries(logs[n].recs), b)
    BY <1>5 DEF Bounded
  <2>2. \A n \in DOMAIN logs : Entries(logs[n].recs) \subseteq Entry
    BY <1>5 DEF TypeOK, FilesTyped, Entries
  <2>3. PICK c \in Nat : b <= c /\ db.last + 1 <= c
    <3>1. b + (db.last + 1) \in Nat /\ b <= b + (db.last + 1) /\ db.last + 1 <= b + (db.last + 1)
      BY <1>6
    <3> QED
      BY <3>1
  <2>4. ASSUME NEW n \in DOMAIN logs PROVE n <= c /\ UpTo(Entries(logs'[n].recs), c)
    <3>1. \A x \in Entries(logs[n].recs) : x[2] \in Nat /\ x[2] <= b
      BY <2>1, <2>2 DEF UpTo, Entry
    <3>2. n <= b /\ n \in Nat
      BY <2>1, <1>5
    <3>3. Entries(logs'[n].recs) \subseteq Entries(logs[n].recs) \union {e}
      BY <1>9
    <3>4. \A x \in Entries(logs'[n].recs) : x[2] <= c
      BY <1>6, <2>3, <3>1, <3>3
    <3> QED
      BY <2>3, <3>2, <3>4 DEF UpTo
  <2> QED
    BY <1>9, <2>4 DEF Bounded
<1>14. NewInv' /\ Ready'
  BY <1>1, <1>5, <1>10 DEF NewInv, Ready
<1>15. Views' = Views /\ Whole' = Whole
  BY <1>1, ViewsKept
<1>16. \A x : LogEntries(x)' \subseteq LogEntries(x) \union {e} /\ LogEntries(x) \subseteq LogEntries(x)'
  <2>1. \A n \in DOMAIN logs : /\ Entries(logs'[n].recs) \subseteq Entries(logs[n].recs) \union {e}
                               /\ Entries(logs[n].recs) \subseteq Entries(logs'[n].recs)
    BY <1>9
  <2> QED
    BY <1>9, <2>1 DEF LogEntries, Records, LogsToReplay
<1>17. PICK from : from = db.logNumber
  OBVIOUS
<1>18. LogEntries(db.logNumber) = LogEntries(from) /\ LogEntries(db.logNumber)' = LogEntries(from)'
       /\ LogsToReplay(db.logNumber) = LogsToReplay(from) /\ LogsToReplay(db.logNumber)' = LogsToReplay(from)
  BY <1>9, <1>10, <1>17 DEF LogEntries, Records, LogsToReplay
<1>19. /\ TableEntries(db.live)' = TableEntries(db.live)
       /\ TableEntries(db.live \union db.add)' = TableEntries(db.live \union db.add)
       /\ \A set : TableEntries(set)' = TableEntries(set)
  BY <1>1, <1>5, <1>10 DEF TableEntries
<1>20. Store(db.live, db.logNumber) \in SUBSET Entry
  <2>1. \A n \in DOMAIN logs : Entries(logs[n].recs) \subseteq Entry
    BY <1>5 DEF TypeOK, FilesTyped, Entries
  <2> QED
    BY <1>5, <2>1 DEF Store, TableEntries, LogEntries, Records, LogsToReplay, TypeOK
<1>21. Unique(Store(db.live, db.logNumber)) /\ UpTo(Store(db.live, db.logNumber), db.last)
  BY <1>1, <1>5 DEF ReadyInv
<1>22. \A T : T \subseteq Store(db.live, db.logNumber) \union {e} => Unique(T) /\ UpTo(T, db.last + 1)
  <2> SUFFICES ASSUME NEW T, T \subseteq Store(db.live, db.logNumber) \union {e}
               PROVE  Unique(T) /\ UpTo(T, db.last + 1)
    OBVIOUS
  <2>1. PICK S \in SUBSET Entry : S = Store(db.live, db.logNumber)
    BY <1>20
  <2> QED
    BY <1>5, <1>6, <1>21, <2>1, OneMore
<1>23. ManifestInv'
  <2>1. ASSUME NEW v \in Views PROVE Numbered(v)' /\ Saved(v)' /\ Counted(v)'
    <3>1. v \in ViewType /\ Numbered(v) /\ Saved(v) /\ Counted(v)
      BY <1>5 DEF ManifestInv
    <3>2. v.log \in Nat /\ v.log <= log /\ Store(v.live, v.log) \subseteq Store(db.live, db.logNumber)
      BY <1>1, <1>4, Within
    <3>3. Numbered(v)'
      BY <1>1, <1>15, <3>1 DEF Numbered
    <3>4. LogsToReplay(v.log)' = LogsToReplay(v.log) /\ log \in LogsToReplay(v.log)
      BY <1>5, <1>9, <3>2 DEF LogsToReplay
    <3>5. Saved(v)'
      <4>1. \A m \in must : \/ m.e \in TableEntries(v.live)
                            \/ \E n \in LogsToReplay(v.log) : InLog(m, n)'
        BY <1>9, <3>1 DEF Saved, LogsToReplay
      <4>2. \E n \in LogsToReplay(v.log) : InLog(new, n)'
        BY <1>8, <1>9, <3>4
      <4>3. v.live \subseteq DOMAIN tables
        BY <3>1 DEF Saved
      <4>4. \A m \in must' : \/ m.e \in TableEntries(v.live)'
                             \/ \E n \in LogsToReplay(v.log)' : InLog(m, n)'
        BY <1>8, <1>19, <3>4, <4>1, <4>2
      <4> QED
        BY <1>1, <4>3, <4>4 DEF Saved
    <3>6. Counted(v)'
      <4>1. Store(v.live, v.log)' \subseteq Store(db.live, db.logNumber) \union {e}
        BY <1>16, <1>19, <3>2 DEF Store
      <4>2. Unique(Store(v.live, v.log)')
        BY <1>22, <4>1
      <4>3. UpTo(TableEntries(v.live), v.last)' /\ Unique(Store(v.live, v.log))'
        BY <1>19, <3>1, <4>2 DEF Counted, UpTo, Unique
      <4> QED
        BY <4>3 DEF Counted
    <3> QED
      BY <3>3, <3>5, <3>6
  <2> QED
    BY <1>1, <1>5, <1>15, <2>1 DEF ManifestInv
<1>24. MemoryInv'
  <2>1. /\ Whole.next <= db.next /\ Whole.last <= db.last /\ db.mem \subseteq Entries(logs[db.log].recs)
        /\ UpTo(TableEntries(db.live \union db.add) \union db.mem, db.last)
        /\ db.log < db.next /\ db.logNumber < db.next /\ db.manifest < db.next
    BY <1>1, <1>5 DEF MemoryInv
  <2>2. Whole.last <= db.last + 1
    BY <1>5, <2>1 DEF ViewType
  <2>3. UpTo(TableEntries(db.live \union db.add) \union db.mem, db.last)'
    <3>1. TableEntries(db.live) \subseteq Store(db.live, db.logNumber) /\ db.mem \subseteq Store(db.live, db.logNumber)
      <4>1. Entries(logs[db.log].recs) \subseteq LogEntries(db.logNumber)
        BY <1>4, <1>5 DEF LogEntries, Records, LogsToReplay
      <4> QED
        BY <2>1, <4>1 DEF Store
    <3>2. UpTo(TableEntries(db.live \union db.add) \union (db.mem \union {e}), db.last + 1)
      BY <1>5, <1>22, <3>1
    <3> QED
      BY <1>10, <1>19, <3>2 DEF UpTo
  <2>4. db'.mem \subseteq Entries(logs'[log].recs)
    BY <1>4, <1>9, <1>10, <2>1
  <2> QED
    BY <1>1, <1>4, <1>5, <1>9, <1>10, <1>15, <2>1, <2>2, <2>3, <2>4 DEF MemoryInv
<1>25. ReadyInv'
  <2>1. \A m \in must : \/ m.e \in TableEntries(db.live)
                        \/ m.e \in db.mem /\ InLog(m, db.log)
                        \/ m.e \in db.imm /\ \E n \in LogsToReplay(db.logNumber) : InLog(m, n)
    BY <1>1, <1>5 DEF ReadyInv
  <2>2. \A m \in must : \/ m.e \in TableEntries(db.live)
                        \/ m.e \in db'.mem /\ InLog(m, log)'
                        \/ m.e \in db.imm /\ \E n \in LogsToReplay(from) : InLog(m, n)'
    <3>1. \A m : InLog(m, db.log) => InLog(m, log)'
      BY <1>4, <1>5, <1>9 DEF InLog
    <3>2. \A m : \A n \in LogsToReplay(from) : InLog(m, n) => InLog(m, n)'
      BY <1>9 DEF LogsToReplay
    <3> QED
      BY <1>10, <1>18, <2>1, <3>1, <3>2
  <2>3. new.e \in db'.mem /\ InLog(new, log)'
    BY <1>8, <1>9, <1>10
  <2>4. \A m : InLog(m, log)' => InLog(m, db.log)'
    BY <1>10 DEF InLog
  <2>5. \A m \in must' : \/ m.e \in TableEntries(db.live)'
                         \/ m.e \in db'.mem /\ InLog(m, db.log)'
                         \/ m.e \in db'.imm /\ \E n \in LogsToReplay(db.logNumber)' : InLog(m, n)'
    BY <1>8, <1>10, <1>18, <1>19, <2>2, <2>3, <2>4
  <2>6. Store(db.live, db.logNumber)' \subseteq Store(db.live, db.logNumber) \union {e}
    BY <1>16, <1>18, <1>19 DEF Store
  <2>7. Unique(Store(db.live, db.logNumber))' /\ UpTo(Store(db.live, db.logNumber), db.last)'
    <3>1. Unique(Store(db.live, db.logNumber)') /\ UpTo(Store(db.live, db.logNumber)', db.last + 1)
      BY <1>22, <2>6
    <3> QED
      BY <1>10, <3>1 DEF Unique, UpTo
  <2>8. /\ pinned \subseteq DOMAIN tables /\ (\A n \in pinned : n < db.next)
        /\ db.imm \subseteq LogEntries(db.logNumber)
    BY <1>1, <1>5 DEF ReadyInv
  <2>9. db'.imm \subseteq LogEntries(db.logNumber)'
    BY <1>10, <1>16, <1>18, <2>8
  <2> QED
    BY <1>1, <1>4, <1>5, <1>10, <2>5, <2>7, <2>8, <2>9 DEF ReadyInv
<1>26. InStep'
  <2>1. LoggedJobs' = LoggedJobs
    BY <1>1 DEF LoggedJobs
  <2>2. \A j : AfterLive(j)' = AfterLive(j) /\ AfterLog(j)' = AfterLog(j)
    BY <1>4, <1>10 DEF AfterLive, AfterLog
  <2> QED
    BY <1>1, <1>5, <1>10, <1>15, <2>1, <2>2 DEF InStep
<1>27. JobInv'
  BY <1>1, <1>5, <1>10, <1>19 DEF JobInv
<1>28. GarbageInv' /\ ErrorInv'
  BY <1>1, <1>10 DEF GarbageInv, ErrorInv
<1> QED
  BY <1>12, <1>13, <1>14, <1>23, <1>24, <1>25, <1>26, <1>27, <1>28, ReadyHolds DEF FilesInv, DiskInv

(* The memtable that is full becomes the immutable one; its log stays.         *)
LEMMA SwitchMemTableHolds ==
    ASSUME FilesInv, SwitchMemTable
    PROVE  FilesInv'
<1>1. /\ db.pc = "open" /\ Ready /\ garbage = {} /\ ~db.bgError /\ db.imm = {}
      /\ logs' = With(logs, db.next, NewFile(<<>>))
      /\ db' = [db EXCEPT !.imm = db.mem, !.mem = {}, !.log = db.next, !.next = @ + 1]
      /\ tables' = tables /\ manifests' = manifests /\ current' = current /\ garbage' = garbage
      /\ flush' = flush /\ comp' = comp /\ pinned' = pinned /\ written' = written /\ must' = must
  BY DEF SwitchMemTable, Running, Ready
<1>2. /\ TypeOK /\ Bounded /\ ManifestInv /\ NewInv /\ MemoryInv /\ ReadyInv /\ InStep /\ JobInv
      /\ current # 0 /\ current \in DOMAIN manifests /\ current = db.manifest /\ db \in DbType /\ db.add = {}
      /\ db.log # 0 /\ db.log \in Nat /\ db.logNumber \in Nat /\ db.manifest \in Nat /\ db.next \in Nat \ {0}
      /\ db.log \in DOMAIN logs /\ db.logNumber <= db.log /\ db.todo = {}
      /\ \A n \in DOMAIN logs : n \in Nat /\ n < db.next
      /\ \A n \in db.live : n \in Nat /\ n < db.next /\ n \in DOMAIN tables
      /\ Whole \in ViewType /\ \A v \in Views : v.live \subseteq DOMAIN tables
      /\ db.logNumber < db.next /\ db.log < db.next /\ db.manifest < db.next
  BY <1>1, ReadyIs
<1>3. /\ db'.pc = "open" /\ db'.live = db.live /\ db'.add = {} /\ db'.mem = {} /\ db'.todo = {}
      /\ db'.logNumber = db.logNumber /\ db'.last = db.last /\ db'.manifest = db.manifest
      /\ db'.imm = db.mem /\ db'.bgError = db.bgError /\ db'.next = db.next + 1 /\ db'.log = db.next
  BY <1>1, <1>2 DEF DbType
<1>4. db' \in DbType
  <2> DEFINE next == db.next + 1
  <2>1. next \in Nat \ {0} /\ db.next \in Nat
    BY <1>2
  <2>2. db' = [db EXCEPT !.imm = db.mem, !.mem = {}, !.log = db.next, !.next = next]
    BY <1>1
  <2> HIDE DEF next
  <2> QED
    BY <1>2, <2>1, <2>2 DEF DbType
<1>5. /\ FilesTyped(logs', Entry) /\ 0 \notin DOMAIN logs' /\ Bounded'
      /\ DOMAIN logs' = DOMAIN logs \union {db.next} /\ logs'[db.next] = [recs |-> <<>>, synced |-> 0]
      /\ \A n \in DOMAIN logs : n \in DOMAIN logs' /\ logs'[n] = logs[n] /\ n # db.next
      /\ \A from \in Nat : UNION {Entries(logs'[n].recs) : n \in {m \in DOMAIN logs' : m >= from}} = LogEntries(from)
  BY <1>1, <1>2, NewLog
<1>6. TypeOK'
  BY <1>1, <1>2, <1>4, <1>5 DEF TypeOK
<1>7. NewInv' /\ Ready'
  BY <1>1, <1>2, <1>3 DEF NewInv, Ready
<1>8. Views' = Views /\ Whole' = Whole
  BY <1>1, ViewsKept
<1>9. ManifestInv'
  <2>1. \A v \in Views : LogsToReplay(v.log) \subseteq DOMAIN logs
    BY DEF LogsToReplay
  <2> QED
    BY <1>1, <1>2, <1>5, <2>1, ManifestKept
<1>10. LogEntries(db.logNumber)' = LogEntries(db.logNumber)
  <2>1. LogEntries(db.logNumber)' = UNION {Entries(logs'[n].recs) : n \in {m \in DOMAIN logs' : m >= db.logNumber}}
    BY <1>3 DEF LogEntries, Records, LogsToReplay
  <2> QED
    BY <1>2, <1>5, <2>1
<1>11. /\ TableEntries(db.live)' = TableEntries(db.live)
       /\ TableEntries(db.live \union db.add)' = TableEntries(db.live)
       /\ \A c : TableEntries(c.del)' = TableEntries(c.del)
  BY <1>1, <1>3 DEF TableEntries
<1>12. /\ Whole.next <= db.next /\ Whole.last <= db.last /\ db.mem \subseteq Entries(logs[db.log].recs)
       /\ UpTo(TableEntries(db.live \union db.add) \union db.mem, db.last)
  BY <1>1, <1>2 DEF MemoryInv
<1>13. MemoryInv'
  <2>1. /\ Whole.next <= db.next + 1 /\ db.next < db.next + 1 /\ db.logNumber < db.next + 1
        /\ db.manifest < db.next + 1 /\ db.logNumber <= db.next
        /\ \A n \in DOMAIN logs' : n < db.next + 1
        /\ \A n \in db.live : n < db.next + 1 /\ n \in DOMAIN tables
    BY <1>2, <1>5, <1>12 DEF ViewType
  <2>2. UpTo(TableEntries(db.live \union db.add) \union db.mem, db.last)'
    BY <1>2, <1>3, <1>11, <1>12 DEF UpTo
  <2> QED
    BY <1>1, <1>2, <1>3, <1>5, <1>8, <1>12, <2>1, <2>2 DEF MemoryInv
<1>14. ReadyInv'
  <2>1. \A m \in must : \/ m.e \in TableEntries(db.live)
                        \/ m.e \in db.mem /\ InLog(m, db.log)
    BY <1>1, <1>2 DEF ReadyInv
  <2>2. db.log \in LogsToReplay(db.logNumber)'
    BY <1>2, <1>3, <1>5 DEF LogsToReplay
  <2>3. \A m : InLog(m, db.log) => \E n \in LogsToReplay(db.logNumber)' : InLog(m, n)'
    <3>1. PICK log : log = db.log
      OBVIOUS
    <3>2. \A m : InLog(m, db.log) => InLog(m, log)'
      BY <1>2, <1>5, <3>1 DEF InLog
    <3> QED
      BY <2>2, <3>1, <3>2
  <2>4. \A m \in must' : \/ m.e \in TableEntries(db.live)'
                         \/ m.e \in db'.imm /\ \E n \in LogsToReplay(db.logNumber)' : InLog(m, n)'
    BY <1>1, <1>3, <1>11, <2>1, <2>3
  <2>5. Store(db.live, db.logNumber)' = Store(db.live, db.logNumber)
    BY <1>10, <1>11 DEF Store
  <2>6. Unique(Store(db.live, db.logNumber))' /\ UpTo(Store(db.live, db.logNumber), db.last)'
    BY <1>1, <1>2, <1>3, <2>5 DEF ReadyInv, Unique, UpTo
  <2>7. db.mem \subseteq LogEntries(db.logNumber)
    BY <1>2, <1>12 DEF LogEntries, Records, LogsToReplay
  <2>8. pinned \subseteq DOMAIN tables /\ \A n \in pinned : n \in Nat /\ n < db.next + 1
    BY <1>1, <1>2 DEF ReadyInv, TypeOK
  <2> QED
    BY <1>1, <1>2, <1>3, <1>10, <2>4, <2>6, <2>7, <2>8 DEF ReadyInv
<1>15. flush = {} /\ \A c \in comp : c.del # {}
  BY <1>1, <1>2 DEF JobInv
<1>16. InStep'
  <2>1. LoggedJobs' = LoggedJobs /\ LoggedJobs \subseteq comp
    BY <1>1, <1>15 DEF LoggedJobs
  <2>2. \A j \in comp : AfterLive(j)' = AfterLive(j) /\ AfterLog(j)' = AfterLog(j)
    BY <1>3, <1>15 DEF AfterLive, AfterLog
  <2> QED
    BY <1>1, <1>2, <1>3, <1>8, <2>1, <2>2 DEF InStep
<1>17. JobInv'
  <2>1. \A c \in comp : /\ c.out \notin db.live \union pinned /\ c.out < db.next /\ c.out \in Nat
                        /\ c.pc # "build" => c.out \in DOMAIN tables /\ tables[c.out] = c.data
                        /\ c.del # {} /\ c.del \subseteq db.live /\ c.data = TableEntries(c.del)'
    BY <1>2, <1>11 DEF JobInv, TypeOK, JobType
  <2>2. \A c \in comp : c.out < db.next + 1
    BY <1>2, <2>1
  <2> QED
    BY <1>1, <1>3, <1>15, <2>1, <2>2 DEF JobInv
<1>18. GarbageInv' /\ ErrorInv'
  BY <1>1, <1>3 DEF GarbageInv, ErrorInv
<1> QED
  BY <1>5, <1>6, <1>7, <1>9, <1>13, <1>14, <1>16, <1>17, <1>18, ReadyHolds DEF FilesInv, DiskInv

-----------------------------------------------------------------------------
(* Every step keeps the invariant.                                             *)

(* Nothing happens.                                                            *)
LEMMA StutterHolds ==
    ASSUME FilesInv, UNCHANGED vars
    PROVE  FilesInv'
<1>1. /\ logs' = logs /\ tables' = tables /\ manifests' = manifests /\ current' = current /\ db' = db
      /\ flush' = flush /\ comp' = comp /\ garbage' = garbage /\ pinned' = pinned /\ written' = written
      /\ must' = must /\ DiskInv /\ ProcessInv
  BY DEF vars, FilesInv
<1>2. TypeOK' /\ Bounded' /\ NewInv'
  BY <1>1 DEF DiskInv, TypeOK, Bounded, NewInv
<1>3. ManifestInv'
  BY <1>1, DiskSame DEF DiskInv
<1>4. Whole' = Whole /\ Views' = Views
  BY <1>1, ViewsKept
<1>5. /\ Opening' = Opening /\ Ready' = Ready /\ LoggedJobs' = LoggedJobs /\ NoJobs' = NoJobs
      /\ \A set : TableEntries(set)' = TableEntries(set)
      /\ \A set : Records(set)' = Records(set)
      /\ \A m, n : InLog(m, n)' = InLog(m, n)
      /\ \A j : AfterLive(j)' = AfterLive(j) /\ AfterLog(j)' = AfterLog(j)
  BY <1>1 DEF Opening, Ready, LoggedJobs, NoJobs, TableEntries, Records, InLog, AfterLive, AfterLog
<1>6. /\ TableEntries(db.live)' = TableEntries(db.live)
      /\ TableEntries(db.live \union db.add)' = TableEntries(db.live \union db.add)
      /\ LogsToReplay(db.logNumber)' = LogsToReplay(db.logNumber)
      /\ LogEntries(db.logNumber)' = LogEntries(db.logNumber)
      /\ Records(db.todo)' = Records(db.todo)
      /\ Store(db.live, db.logNumber)' = Store(db.live, db.logNumber)
      /\ Store(db.live \union db.add, db.logNumber)' = Store(db.live \union db.add, db.logNumber)
  BY <1>1 DEF TableEntries, LogsToReplay, LogEntries, Records, Store
<1>7. MemoryInv'
  BY <1>1, <1>4, <1>5, <1>6 DEF ProcessInv, MemoryInv, UpTo
<1>8. OpeningInv'
  <2>1. Unique(Store(db.live \union db.add, db.logNumber))' <=> Unique(Store(db.live \union db.add, db.logNumber))
    BY <1>6 DEF Unique
  <2>2. OpeningInv
    BY <1>1 DEF ProcessInv
  <2>3. CASE Opening
    BY <1>1, <1>5, <1>6, <2>1, <2>2, <2>3 DEF OpeningInv
  <2> QED
    BY <1>5, <2>3 DEF OpeningInv
<1>9. DescriptorInv'
  BY <1>1, <1>4, <1>5 DEF ProcessInv, DescriptorInv, OpenEdit
<1>10. ReadyInv'
  BY <1>1, <1>5, <1>6 DEF ProcessInv, ReadyInv, InLog, Unique, UpTo
<1>11. InStep' /\ ErrorInv'
  BY <1>1, <1>4, <1>5, <1>6 DEF ProcessInv, InStep, ErrorInv, TableEntries
<1>12. JobInv' /\ GarbageInv'
  BY <1>1, <1>5 DEF ProcessInv, JobInv, GarbageInv
<1> QED
  BY <1>2, <1>3, <1>7, <1>8, <1>9, <1>10, <1>11, <1>12 DEF FilesInv, DiskInv, ProcessInv

(* No step breaks the invariant.                                               *)
LEMMA NextHolds ==
    ASSUME ConstantsOK, FilesInv, [Next]_vars
    PROVE  FilesInv'
<1>1. CASE NewDB
  BY <1>1, NewDBHolds
<1>2. CASE NewDBCurrent
  BY <1>2, NewDBCurrentHolds
<1>3. CASE Recover
  BY <1>3, RecoverHolds
<1>4. CASE RecoverLogFile
  BY <1>4, RecoverLogFileHolds
<1>5. CASE OpenLog
  BY <1>5, OpenLogHolds
<1>6. CASE OpenAppend
  BY <1>6, OpenAppendHolds
<1>7. CASE OpenSync
  BY <1>7, OpenSyncHolds
<1>8. CASE SetCurrentFile
  BY <1>8, SetCurrentFileHolds
<1>9. CASE NothingToSave
  BY <1>9, NothingToSaveHolds
<1>10. CASE OpenDone
  BY <1>10, OpenDoneHolds
<1>11. CASE DeleteFile
  BY <1>11, DeleteFileHolds
<1>12. ASSUME NEW s \in BOOLEAN, Write(s) PROVE FilesInv'
  BY <1>12, WriteHolds
<1>13. CASE SwitchMemTable
  BY <1>13, SwitchMemTableHolds
<1>14. CASE BeginFlush
  BY <1>14, BeginFlushHolds
<1>15. CASE BeginCompaction
  BY <1>15, BeginCompactionHolds
<1>16. CASE FlushStep
  BY <1>16, FlushStepHolds
<1>17. CASE CompactionStep
  BY <1>17, CompactionStepHolds
<1>18. CASE Pin \/ Unpin
  BY <1>18, PinHolds
<1>19. CASE Killed
  BY <1>19, KilledHolds
<1>20. CASE PowerFailure
  BY <1>20, PowerFailureHolds
<1>21. CASE UNCHANGED vars
  BY <1>21, StutterHolds
<1> QED
  BY <1>1, <1>2, <1>3, <1>4, <1>5, <1>6, <1>7, <1>8, <1>9, <1>10, <1>11, <1>12, <1>13, <1>14, <1>15,
     <1>16, <1>17, <1>18, <1>19, <1>20, <1>21 DEF Next, Open

(* Recover finds a MANIFEST corrupt only if a piece of a record is inside it.  *)
LEMMA OpensHolds ==
    ASSUME FilesInv, OpensUnlessTorn, [Next]_vars
    PROVE  OpensUnlessTorn'
<1>1. db \in DbType /\ (garbage # {} => db.pc = "open")
  BY DEF FilesInv, DiskInv, TypeOK, ProcessInv, GarbageInv
<1>2. CASE Recover
  <2>1. current # 0 /\ UNCHANGED <<manifests, torn, current>>
    BY <1>2 DEF Recover, disk
  <2>2. Whole.next # 0 /\ Whole.live \subseteq DOMAIN tables
    BY <2>1, WholeIs DEF FilesInv, Numbered, Saved, ViewType, DiskInv, TypeOK
  <2>3. CASE Readable
    <3>1. db'.pc = "logs"
      BY <1>2, <2>2, <2>3 DEF Recover, Whole, Closed
    <3> QED
      BY <3>1 DEF OpensUnlessTorn
  <2>4. CASE ~Readable
    BY <2>1, <2>4 DEF OpensUnlessTorn, Readable
  <2> QED
    BY <2>3, <2>4
<1>3. CASE NewDB \/ NewDBCurrent \/ RecoverLogFile \/ OpenLog \/ OpenAppend \/ OpenSync
            \/ SetCurrentFile \/ NothingToSave \/ OpenDone
  <2> SUFFICES db'.pc # "corrupt"
    BY DEF OpensUnlessTorn
  <2>1. CASE NewDB \/ NewDBCurrent
    BY <2>1 DEF NewDB, NewDBCurrent, Closed
  <2>2. CASE RecoverLogFile
    BY <1>1, <2>2 DEF RecoverLogFile, DbType
  <2>3. CASE OpenLog \/ OpenAppend \/ OpenSync
    BY <1>1, <2>3 DEF OpenLog, OpenAppend, OpenSync, DbType
  <2>4. CASE SetCurrentFile \/ NothingToSave \/ OpenDone
    BY <1>1, <2>4 DEF SetCurrentFile, NothingToSave, OpenDone, DbType
  <2> QED
    BY <1>3, <2>1, <2>2, <2>3, <2>4
<1>4. CASE \/ \E s \in BOOLEAN : Write(s)
           \/ SwitchMemTable \/ BeginFlush \/ BeginCompaction \/ FlushStep \/ CompactionStep \/ Pin \/ Unpin
  <2>1. db'.pc = "open"
    BY <1>1, <1>4 DEF Write, SwitchMemTable, BeginFlush, BeginCompaction, FlushStep, CompactionStep, Pin, Unpin,
       Running, Built, Logged, Install, LogAndApplyFails, DbType
  <2> QED
    BY <2>1 DEF OpensUnlessTorn
<1>5. CASE DeleteFile
  <2>1. db' = db /\ db.pc = "open"
    BY <1>1, <1>5 DEF DeleteFile
  <2> QED
    BY <2>1 DEF OpensUnlessTorn
<1>6. CASE Killed \/ PowerFailure
  BY <1>6 DEF Killed, PowerFailure, Dies, Closed, OpensUnlessTorn
<1>7. CASE UNCHANGED vars
  BY <1>7 DEF vars, OpensUnlessTorn, Readable
<1> QED
  BY <1>2, <1>3, <1>4, <1>5, <1>6, <1>7 DEF Next, Open

(* The files and what a process has in memory agree, and opening finds so.     *)
SafeInv == FilesInv /\ OpensUnlessTorn

(* It holds at first, and no step breaks it.                                   *)
LEMMA SafeInit == Init => SafeInv
BY InitHolds DEF SafeInv, OpensUnlessTorn, Init, Closed

LEMMA SafeNext ==
    ASSUME ConstantsOK, SafeInv, [Next]_vars
    PROVE  SafeInv'
BY NextHolds, OpensHolds DEF SafeInv

(* What FilesInv says of an open database.                                     *)
LEMMA FilesRightNow ==
    ASSUME FilesInv
    PROVE  LiveFilesExist /\ NothingLost /\ SequenceNumbersUnique
<1>2. ASSUME db.pc = "open"
      PROVE  LiveFilesExist /\ NothingLost /\ SequenceNumbersUnique
  <2>1. Ready
    BY <1>2 DEF Ready
  <2>2. /\ MemoryInv /\ ReadyInv /\ db.log # 0 /\ db.log \in DOMAIN logs /\ db.logNumber <= db.log /\ db.add = {}
    BY <2>1, ReadyIs
  <2>3. LiveFilesExist
    BY <2>1, <2>2 DEF MemoryInv, ReadyInv, LiveFilesExist
  <2>4. Contents = (db.mem \union db.imm) \union TableEntries(db.live)
    BY DEF Contents, TableEntries
  <2>5. NothingLost
    BY <2>1, <2>2, <2>4 DEF ReadyInv, NothingLost
  <2>6. Contents \subseteq Store(db.live, db.logNumber)
    <3>1. db.mem \subseteq LogEntries(db.logNumber)
      BY <2>1, <2>2 DEF MemoryInv, LogEntries, Records, LogsToReplay
    <3>2. db.imm \subseteq LogEntries(db.logNumber)
      BY <2>1, <2>2 DEF ReadyInv
    <3> QED
      BY <2>4, <3>1, <3>2 DEF Store
  <2>7. SequenceNumbersUnique
    BY <2>1, <2>2, <2>6 DEF ReadyInv, Unique, UpTo, SequenceNumbersUnique
  <2> QED
    BY <2>3, <2>5, <2>7
<1> QED
  BY <1>2 DEF LiveFilesExist, NothingLost, SequenceNumbersUnique

(* What is on disk and what a process has in memory agree, whenever a process  *)
(* dies and whatever a power failure leaves of the MANIFEST and the logs.      *)
THEOREM FilesStay ==
    ASSUME ConstantsOK
    PROVE  Spec => []SafeInv
<1>1. Init => SafeInv
  BY SafeInit
<1>2. SafeInv /\ [Next]_vars => SafeInv'
  BY SafeNext
<1> QED
  BY <1>1, <1>2, PTL DEF Spec

(* DeleteObsoleteFiles never takes a table that the current version, a reader  *)
(* or a compaction about to install it needs.                                  *)
THEOREM LiveFilesStay ==
    ASSUME ConstantsOK
    PROVE  Spec => []LiveFilesExist
<1>1. SafeInv => LiveFilesExist
  BY FilesRightNow DEF SafeInv
<1> QED
  BY <1>1, FilesStay, PTL

(* A write that was acknowledged is found again after any number of deaths of  *)
(* the process: the synced ones also when the power failed.                    *)
THEOREM WritesLast ==
    ASSUME ConstantsOK
    PROVE  Spec => []NothingLost
<1>1. SafeInv => NothingLost
  BY FilesRightNow DEF SafeInv
<1> QED
  BY <1>1, FilesStay, PTL

(* Recovery sets last_sequence so that no sequence number is given out twice.  *)
THEOREM SequenceNumbersStayUnique ==
    ASSUME ConstantsOK
    PROVE  Spec => []SequenceNumbersUnique
<1>1. SafeInv => SequenceNumbersUnique
  BY FilesRightNow DEF SafeInv
<1> QED
  BY <1>1, FilesStay, PTL

(* VersionSet::Recover never finds a MANIFEST without numbers or with tables   *)
(* that do not exist, and one that cannot be read only after a failed write.   *)
THEOREM OpensAgain ==
    ASSUME ConstantsOK
    PROVE  Spec => []OpensUnlessTorn
<1>1. SafeInv => OpensUnlessTorn
  BY DEF SafeInv
<1> QED
  BY <1>1, FilesStay, PTL
=============================================================================
