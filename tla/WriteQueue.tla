----------------------------- MODULE WriteQueue -----------------------------
(* leveldb, db/db_impl.cc: the write path and the background thread.  Client  *)
(* threads queue in writers_; the one at the front logs and applies a group   *)
(* of batches with the mutex released, while the background thread moves full *)
(* memtables into table files.  An action is what one thread does between two *)
(* releases of mutex_.  A thread that waits on a condition variable goes on   *)
(* only when it was signalled.                                                *)
EXTENDS Naturals, Sequences, FiniteSets, SequencesExt

CONSTANTS Threads,
          NoThread,
          MaxCalls,      \* bound: calls each thread makes
          MaxUpdates,    \* bound: updates in a batch
          MaxFailures,   \* bound: file operations that fail
          BufferSize,    \* options_.write_buffer_size, in updates
          SmallGroup,    \* 128 << 10, in updates
          LargeGroup,    \* 1 << 20, in updates
          L0Compact,     \* config::kL0_CompactionTrigger
          L0Slowdown,    \* config::kL0_SlowdownWritesTrigger
          L0Stop         \* config::kL0_StopWritesTrigger

VARIABLES writers,    \* writers_: the queue of threads inside Write
          call,       \* per thread, the Write or CompactRange in progress
          calls,      \* per thread, calls made so far
          group,      \* the threads whose batches the front writer is applying
          mem, imm,   \* memtables: sets of <<sequence number, batch>>
          hasImm,     \* imm_ != nullptr
          tables,     \* entries in table files
          log,        \* records of the current log file
          oldLog,     \* records of the log behind imm_
          lastSeq,    \* versions_->LastSequence()
          l0,         \* versions_->NumLevelFiles(0)
          bg,         \* the background thread
          manual,     \* manual_compaction_: the thread that asked for one
          bgError,    \* !bg_error_.ok()
          closing,    \* shutting_down_
          failures,   \* file operations that have failed
          acked       \* history: batches for which Write has returned, and how

vars == <<writers, call, calls, group, mem, imm, hasImm, tables, log, oldLog, lastSeq,
          l0, bg, manual, bgError, closing, failures, acked>>
data == <<mem, imm, hasImm, tables, log, oldLog, lastSeq, l0>>

-----------------------------------------------------------------------------
(* struct Writer, and the locals of MakeRoomForWrite.  A null batch has no    *)
(* updates to apply; it is written as count 0.                                *)
Idle == [pc |-> "idle", count |-> 0, null |-> TRUE, sync |-> FALSE,
         done |-> FALSE, ok |-> TRUE, delay |-> FALSE, woken |-> FALSE]

Batch(t, n) == <<t, n>>

Busy == {t \in Threads : call[t].pc # "idle"}

Fails == failures < MaxFailures /\ failures' = failures + 1

(* MaybeScheduleCompaction, as the next state of the background thread when   *)
(* imm_, manual_compaction_ and the version are as given.                     *)
Scheduled(b, has, man, files, err) ==
    IF b # "none" \/ closing # "open" \/ err THEN b
    ELSE IF ~has /\ man = NoThread /\ files < L0Compact THEN b
    ELSE "scheduled"

(* background_work_finished_signal_.SignalAll()                               *)
SignalAll(c) == [t \in Threads |-> IF c[t].pc \in {"bgwait", "manual", "flush"}
                                   THEN [c[t] EXCEPT !.woken = TRUE] ELSE c[t]]

(* RecordBackgroundError, which signals when it is the first error.           *)
RecordBackgroundError(c) == IF bgError THEN c ELSE SignalAll(c)

(* The return of Write.  Only TEST_CompactMemTable passes a null batch; after  *)
(* a successful Write it goes on to wait for imm_.                            *)
Returned(t, ok) == IF call[t].count = 0 /\ ok
                   THEN [Idle EXCEPT !.pc = "flush", !.woken = TRUE] ELSE Idle

(* The end of Write: leave the queue with everyone up to the last writer of   *)
(* the group, tell them, and wake the new front.                              *)
PopWriters(c, members, ok) ==
    LET rest == SubSeq(writers, Len(members) + 1, Len(writers))
        left == [t \in Threads |->
                   IF t = Head(members) THEN Returned(t, ok)
                   ELSE IF t \in ToSet(members)
                        THEN [c[t] EXCEPT !.done = TRUE, !.ok = ok, !.woken = TRUE]
                   ELSE IF rest # <<>> /\ t = Head(rest) THEN [c[t] EXCEPT !.woken = TRUE]
                   ELSE c[t]]
    IN  /\ writers' = rest
        /\ call' = left

(* What Write returned for batch t of thread t.                               *)
Ack(t, ok) == acked' = acked \union {[batch |-> Batch(t, calls[t]), ok |-> ok,
                                      count |-> call[t].count, sync |-> call[t].sync]}

-----------------------------------------------------------------------------
Init == /\ writers = <<>>
        /\ call = [t \in Threads |-> Idle]
        /\ calls = [t \in Threads |-> 0]
        /\ group = <<>>
        /\ mem = {} /\ imm = {} /\ hasImm = FALSE /\ tables = {}
        /\ log = <<>> /\ oldLog = <<>>
        /\ lastSeq = 0
        /\ l0 = 0
        /\ bg = "none"
        /\ manual = NoThread
        /\ bgError = FALSE
        /\ closing = "open"
        /\ failures = 0
        /\ acked = {}

(* Write, up to the first wait or to MakeRoomForWrite.                        *)
Write(t) == /\ closing = "open"
            /\ call[t].pc = "idle"
            /\ calls[t] < MaxCalls
            /\ calls' = [calls EXCEPT ![t] = @ + 1]
            /\ writers' = Append(writers, t)
            /\ \E n \in 0..MaxUpdates, s \in BOOLEAN :
                 call' = [call EXCEPT ![t] =
                            [Idle EXCEPT !.pc = IF writers = <<>> THEN "room" ELSE "wait",
                                         !.count = n, !.null = (n = 0), !.sync = s,
                                         !.delay = (n # 0)]]
            /\ UNCHANGED <<group, data, bg, manual, bgError, closing, failures, acked>>

(* A queued writer wakes up: its batch was written by another thread, or it   *)
(* is at the front, or it waits again.                                        *)
WriterWakes(t) ==
    /\ call[t].pc = "wait"
    /\ call[t].woken
    /\ \/ /\ call[t].done
          /\ Ack(t, call[t].ok)
          /\ call' = [call EXCEPT ![t] = Returned(t, call[t].ok)]
       \/ /\ ~call[t].done /\ Head(writers) = t
          /\ call' = [call EXCEPT ![t].pc = "room"]
          /\ UNCHANGED acked
    /\ UNCHANGED <<writers, calls, group, data, bg, manual, bgError, closing, failures>>

-----------------------------------------------------------------------------
(* MakeRoomForWrite, one branch of its loop at a time.                        *)

AtFront(t) == call[t].pc = "room"

(* A null batch forces a switch; afterwards force is false.                   *)
ForceSwitch(t) == call[t].null

RoomError(t) == /\ AtFront(t)
                /\ bgError
                /\ PopWriters(call, <<t>>, FALSE)
                /\ Ack(t, FALSE)
                /\ UNCHANGED <<calls, group, data, bg, manual, bgError, closing, failures>>

(* A write is delayed once when level 0 is close to its limit.                *)
RoomDelay(t) == /\ AtFront(t)
                /\ ~bgError
                /\ call[t].delay /\ l0 >= L0Slowdown
                /\ call' = [call EXCEPT ![t].delay = FALSE]
                /\ UNCHANGED <<writers, calls, group, data, bg, manual, bgError, closing,
                               failures, acked>>

PastDelay(t) == AtFront(t) /\ ~bgError /\ ~(call[t].delay /\ l0 >= L0Slowdown)

HasRoom(t) == ~ForceSwitch(t) /\ Cardinality(mem) <= BufferSize

(* The updates of the first n writers of a queue: which writer's, which one.   *)
Updates(queue, n) ==
    {u \in (1..n) \X (1..MaxUpdates) : u[2] <= call[queue[u[1]]].count}

(* The size a group with writer t at its front may have.                       *)
MaxSize(t) == IF call[t].count <= SmallGroup THEN call[t].count + SmallGroup ELSE LargeGroup

(* Slip: a sync write may be added to the group of a writer that will not     *)
(* sync.                                                                      *)
GroupIgnoringSync(t) ==
    LET Joins(i) == i = 1 \/ Cardinality(Updates(writers, i)) <= MaxSize(t)
    IN  SubSeq(writers, 1, Cardinality({i \in 1..Len(writers) : \A j \in 1..i : Joins(j)}))

(* BuildBatchGroup: the writers from the front of the queue whose batches are *)
(* applied together.  The total size is bounded, and a write that must be     *)
(* synced never joins one that need not be.                                   *)
BuildBatchGroup(t) ==
    LET Joins(i) == \/ i = 1
                    \/ /\ call[writers[i]].sync => call[t].sync
                       /\ call[writers[i]].null \/ Cardinality(Updates(writers, i)) <= MaxSize(t)
    IN  SubSeq(writers, 1, Cardinality({i \in 1..Len(writers) : \A j \in 1..i : Joins(j)}))

(* There is room: take the group; the mutex is released to write the log.     *)
RoomFound(t) == /\ PastDelay(t)
                /\ HasRoom(t)
                /\ IF call[t].count = 0
                   THEN /\ PopWriters(call, <<t>>, TRUE)
                        /\ Ack(t, TRUE)
                        /\ UNCHANGED group
                   ELSE /\ group' = BuildBatchGroup(t)
                        /\ call' = [call EXCEPT ![t].pc = "log"]
                        /\ UNCHANGED <<writers, acked>>
                /\ UNCHANGED <<calls, data, bg, manual, bgError, closing, failures>>

(* The memtable is full, but imm_ or level 0 is too.                          *)
RoomWait(t) == /\ PastDelay(t)
               /\ ~HasRoom(t)
               /\ hasImm \/ l0 >= L0Stop
               /\ call' = [call EXCEPT ![t].pc = "bgwait", ![t].woken = FALSE]
               /\ UNCHANGED <<writers, calls, group, data, bg, manual, bgError, closing,
                              failures, acked>>

RoomWakes(t) == /\ call[t].pc = "bgwait"
                /\ call[t].woken
                /\ call' = [call EXCEPT ![t].pc = "room", ![t].woken = FALSE]
                /\ UNCHANGED <<writers, calls, group, data, bg, manual, bgError, closing,
                               failures, acked>>

CanSwitch(t) == PastDelay(t) /\ ~HasRoom(t) /\ ~hasImm /\ l0 < L0Stop

(* Switch to a new memtable and log, and have the old one compacted.          *)
SwitchMemTable(t) == /\ CanSwitch(t)
                     /\ mem' = {} /\ imm' = mem /\ hasImm' = TRUE
                     /\ log' = <<>> /\ oldLog' = log
                     /\ bg' = Scheduled(bg, TRUE, manual, l0, bgError)
                     /\ call' = [call EXCEPT ![t].null = FALSE]
                     /\ UNCHANGED <<writers, calls, group, tables, lastSeq, l0, manual,
                                    bgError, closing, failures, acked>>

(* The new log file cannot be created: this write fails, later ones may not.  *)
SwitchFails(t) == /\ CanSwitch(t)
                  /\ Fails
                  /\ PopWriters(call, <<t>>, FALSE)
                  /\ Ack(t, FALSE)
                  /\ UNCHANGED <<calls, group, data, bg, manual, bgError, closing>>
-----------------------------------------------------------------------------
(* The updates of the group, numbered from lastSeq + 1 in queue order.        *)
GroupCount == Cardinality(Updates(group, Len(group)))

GroupEntries ==
    {<<lastSeq + Cardinality(Updates(group, u[1] - 1)) + u[2],
       Batch(group[u[1]], calls[group[u[1]]])>> : u \in Updates(group, Len(group))}

Leader(t) == group # <<>> /\ Head(group) = t

(* log_->AddRecord of the group.                                              *)
AddRecord(t) == /\ call[t].pc = "log"
                /\ Leader(t)
                /\ \/ /\ log' = Append(log, [entries |-> GroupEntries, synced |-> FALSE])
                      /\ call' = [call EXCEPT ![t].pc = IF call[t].sync THEN "sync" ELSE "insert"]
                      /\ UNCHANGED failures
                   \/ /\ Fails
                      /\ call' = [call EXCEPT ![t].pc = "commit", ![t].ok = FALSE]
                      /\ UNCHANGED log
                /\ UNCHANGED <<writers, calls, group, mem, imm, hasImm, tables, oldLog, lastSeq,
                               l0, bg, manual, bgError, closing, acked>>

(* logfile_->Sync() makes every record of this log durable.  When it fails    *)
(* the record may or may not be there later: see bgError.                     *)
SyncLog(t) == /\ call[t].pc = "sync"
              /\ \/ /\ log' = [i \in DOMAIN log |-> [log[i] EXCEPT !.synced = TRUE]]
                    /\ call' = [call EXCEPT ![t].pc = "insert"]
                    /\ UNCHANGED failures
                 \/ /\ Fails
                    /\ call' = [call EXCEPT ![t].pc = "syncerror", ![t].ok = FALSE]
                    /\ UNCHANGED log
              /\ UNCHANGED <<writers, calls, group, mem, imm, hasImm, tables, oldLog, lastSeq,
                             l0, bg, manual, bgError, closing, acked>>

(* WriteBatchInternal::InsertInto(updates, mem_)                              *)
InsertInto(t) == /\ call[t].pc = "insert"
                 /\ mem' = mem \union GroupEntries
                 /\ call' = [call EXCEPT ![t].pc = "commit"]
                 /\ UNCHANGED <<writers, calls, group, imm, hasImm, tables, log, oldLog,
                                lastSeq, l0, bg, manual, bgError, closing, failures, acked>>

(* Slip: the new front of the queue is not woken.                             *)
CommitSilently(t) ==
    /\ call[t].pc \in {"commit", "syncerror"}
    /\ lastSeq' = lastSeq + GroupCount
    /\ bgError' = (bgError \/ call[t].pc = "syncerror")
    /\ writers' = SubSeq(writers, Len(group) + 1, Len(writers))
    /\ call' = [u \in Threads |-> IF u = t THEN Idle
                                  ELSE IF u \in ToSet(group)
                                       THEN [call[u] EXCEPT !.done = TRUE, !.ok = call[t].ok,
                                                            !.woken = TRUE]
                                  ELSE call[u]]
    /\ group' = <<>>
    /\ Ack(t, call[t].ok)
    /\ UNCHANGED <<calls, mem, imm, hasImm, tables, log, oldLog, l0, bg, manual, closing, failures>>

(* The mutex is taken again: the sequence numbers are used up whether or not  *)
(* the write succeeded, and the group leaves the queue.                       *)
Commit(t) == /\ call[t].pc \in {"commit", "syncerror"}
             /\ lastSeq' = lastSeq + GroupCount
             /\ bgError' = (bgError \/ call[t].pc = "syncerror")
             /\ PopWriters(IF call[t].pc = "syncerror" THEN RecordBackgroundError(call) ELSE call,
                           group, call[t].ok)
             /\ group' = <<>>
             /\ Ack(t, call[t].ok)
             /\ UNCHANGED <<calls, mem, imm, hasImm, tables, log, oldLog, l0, bg, manual,
                            closing, failures>>

-----------------------------------------------------------------------------
(* TEST_CompactRange: ask for a manual compaction and wait until it is done.  *)
CompactRange(t) == /\ closing = "open"
                   /\ call[t].pc = "idle"
                   /\ calls[t] < MaxCalls
                   /\ calls' = [calls EXCEPT ![t] = @ + 1]
                   /\ call' = [call EXCEPT ![t] = [Idle EXCEPT !.pc = "manual", !.woken = TRUE]]
                   /\ UNCHANGED <<writers, group, data, bg, manual, bgError, closing, failures, acked>>

(* One turn of its loop, and the return from it.                              *)
CompactRangeTurn(t) ==
    /\ call[t].pc = "manual"
    /\ call[t].woken
    /\ IF call[t].done \/ bgError \/ closing # "open"
       THEN /\ call' = [call EXCEPT ![t] = Idle]
            /\ manual' = IF manual = t THEN NoThread ELSE manual
            /\ UNCHANGED bg
       ELSE IF manual = NoThread
       THEN /\ manual' = t
            /\ bg' = Scheduled(bg, hasImm, t, l0, bgError)
            /\ UNCHANGED call
       ELSE /\ call' = [call EXCEPT ![t].woken = FALSE]
            /\ UNCHANGED <<manual, bg>>
    /\ UNCHANGED <<writers, calls, group, data, bgError, closing, failures, acked>>

(* The loop of TEST_CompactMemTable.                                          *)
FlushTurn(t) == /\ call[t].pc = "flush"
                /\ call[t].woken
                /\ call' = [call EXCEPT ![t] = IF hasImm /\ ~bgError
                                               THEN [@ EXCEPT !.woken = FALSE] ELSE Idle]
                /\ UNCHANGED <<writers, calls, group, data, bg, manual, bgError, closing,
                               failures, acked>>

-----------------------------------------------------------------------------
(* BackgroundCall takes the mutex and BackgroundCompaction chooses the work.  *)
BackgroundCall == /\ bg = "scheduled"
                  /\ bg' = IF closing # "open" \/ bgError THEN "done"
                           ELSE IF hasImm THEN "imm"
                           ELSE IF manual # NoThread THEN "manual"
                           ELSE "level0"
                  /\ UNCHANGED <<writers, call, calls, group, data, manual, bgError, closing,
                                 failures, acked>>

(* CompactMemTable: WriteLevel0Table with the mutex released, LogAndApply,    *)
(* and then imm_ and its log are dropped; or the error is recorded.  It also  *)
(* runs inside a longer compaction, which then signals at once.               *)
CompactMemTable ==
    /\ bg = "imm" \/ (bg \in {"level0", "manual"} /\ hasImm)
    /\ \/ /\ closing = "open"
          /\ tables' = tables \union imm
          /\ l0' = l0 + 1
          /\ hasImm' = FALSE /\ imm' = {} /\ oldLog' = <<>>
          /\ call' = IF bg = "imm" THEN call ELSE SignalAll(call)
          /\ UNCHANGED <<bgError, failures>>
       \/ /\ Fails \/ (closing # "open" /\ UNCHANGED failures)
          /\ bgError' = TRUE
          /\ call' = SignalAll(call)
          /\ UNCHANGED <<tables, l0, hasImm, imm, oldLog>>
    /\ bg' = IF bg = "imm" THEN "done" ELSE bg
    /\ UNCHANGED <<writers, calls, group, mem, log, lastSeq, manual, closing, acked>>

(* PickCompaction or versions_->CompactRange, DoCompactionWork, the install.  *)
(* A manual compaction is done when nothing was left to compact; otherwise    *)
(* its owner asks again for the rest of the range.                            *)
CompactFiles == /\ bg \in {"level0", "manual"}
                /\ bg = "manual" => manual # NoThread
                /\ \/ /\ closing = "open" \/ l0 = 0
                      /\ l0' = 0
                      /\ call' = IF bg = "manual" THEN [call EXCEPT ![manual].done = (l0 = 0)]
                                 ELSE call
                      /\ UNCHANGED <<bgError, failures>>
                   \/ /\ l0 # 0
                      /\ Fails \/ (closing # "open" /\ UNCHANGED failures)
                      /\ bgError' = TRUE
                      /\ call' = RecordBackgroundError(IF bg = "manual"
                                    THEN [call EXCEPT ![manual].done = TRUE] ELSE call)
                      /\ UNCHANGED l0
                /\ manual' = IF bg = "manual" THEN NoThread ELSE manual
                /\ bg' = "done"
                /\ UNCHANGED <<writers, calls, group, mem, imm, hasImm, tables, log, oldLog,
                               lastSeq, closing, acked>>

(* The thread that asked for the manual compaction has given up meanwhile and *)
(* manual_compaction_ is null: m->done is a null dereference, which ends the  *)
(* process; what other threads then still do in the model means nothing.      *)
CompactFilesTraps == /\ bg = "manual"
                     /\ manual = NoThread
                     /\ bg' = "trap"
                     /\ UNCHANGED <<writers, call, calls, group, data, manual, bgError, closing,
                                    failures, acked>>

(* The end of BackgroundCall.                                                 *)
BackgroundDone == /\ bg = "done"
                  /\ bg' = Scheduled("none", hasImm, manual, l0, bgError)
                  /\ call' = SignalAll(call)
                  /\ UNCHANGED <<writers, calls, group, data, manual, bgError, closing,
                                 failures, acked>>

(* ~DBImpl, which the client calls when it uses the database no longer.       *)
Close == /\ closing = "open"
         /\ Busy = {}
         /\ closing' = "closing"
         /\ UNCHANGED <<writers, call, calls, group, data, bg, manual, bgError, failures, acked>>

CloseEnds == /\ closing = "closing"
             /\ bg = "none"
             /\ closing' = "closed"
             /\ UNCHANGED <<writers, call, calls, group, data, bg, manual, bgError, failures, acked>>

-----------------------------------------------------------------------------
WriterStep(t) == \/ WriterWakes(t) \/ RoomError(t) \/ RoomDelay(t) \/ RoomFound(t)
                 \/ RoomWait(t) \/ RoomWakes(t) \/ SwitchMemTable(t) \/ SwitchFails(t)
                 \/ AddRecord(t) \/ SyncLog(t) \/ InsertInto(t) \/ Commit(t)
                 \/ CompactRangeTurn(t) \/ FlushTurn(t)

Background == BackgroundCall \/ CompactMemTable \/ CompactFiles
              \/ CompactFilesTraps \/ BackgroundDone

Next == \/ \E t \in Threads : Write(t) \/ CompactRange(t) \/ WriterStep(t)
        \/ Background
        \/ Close \/ CloseEnds

Spec == Init /\ [][Next]_vars

(* A thread that can run is scheduled; nobody has to call Write or to close   *)
(* the database.                                                              *)
FairSpec == /\ Spec
            /\ \A t \in Threads : WF_vars(WriterStep(t))
            /\ WF_vars(Background)
            /\ WF_vars(CloseEnds)

-----------------------------------------------------------------------------
Stored == mem \union imm \union tables

LogEntries(records) == UNION {r.entries : r \in ToSet(records)}

(* No sequence number is given to two updates, in the memtables and tables or *)
(* in the logs, although a write can fail after its record was written.       *)
SequencesUnique ==
    \A e, f \in Stored \union LogEntries(log) \union LogEntries(oldLog) : e[1] = f[1] => e = f

(* A batch for which Write returned OK is readable as a whole: all its        *)
(* updates are in a memtable or table, at sequence numbers readers may use.   *)
(* A batch that failed is not readable at all.                                *)
AckedAtomic ==
    \A a \in acked :
      LET mine == {e \in Stored : e[2] = a.batch}
      IN  /\ Cardinality(mine) = IF a.ok THEN a.count ELSE 0
          /\ \A e \in mine : e[1] <= lastSeq

(* Write-ahead: what a memtable holds is in the log that recovery will read.  *)
WriteAhead == mem \subseteq LogEntries(log) /\ (hasImm => imm \subseteq LogEntries(oldLog))

(* A sync write that returned OK is in a table or in the synced part of a     *)
(* log, whichever thread wrote it.                                            *)
SyncedDurable ==
    \A a \in acked : a.ok /\ a.sync =>
        \A e \in Stored : e[2] = a.batch =>
            \/ e \in tables
            \/ \E r \in ToSet(log) \union ToSet(oldLog) : r.synced /\ e \in r.entries

(* A call of Write or CompactRange is in progress; the destructor waits.      *)
InCall(t) == call[t].pc # "idle" /\ bg # "trap"
Closing == closing = "closing" /\ bg # "trap"
=============================================================================
