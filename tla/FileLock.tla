------------------------------ MODULE FileLock ------------------------------
(* leveldb, util/env_posix.cc: PosixEnv::LockFile and UnlockFile of the LOCK   *)
(* file of a database.  The kernel's record lock (fcntl F_SETLK) belongs to a  *)
(* process, and is dropped when the process closes any descriptor of the file; *)
(* PosixLockTable keeps the threads of one process apart.                      *)
EXTENDS Naturals

CONSTANTS Processes, Threads,
          ProcessOf     \* thread -> process; none is called "nobody"

Nobody == "nobody"

VARIABLES locked_files, \* processes whose PosixLockTable has the file
          kernel,       \* process that owns the record lock
          pc,           \* thread -> where it is
          alive,        \* processes that run
          dropped       \* history: processes that lost the record lock while a
                        \* thread of theirs held the database

vars == <<locked_files, kernel, pc, alive, dropped>>

Init == /\ locked_files = {} /\ kernel = Nobody /\ dropped = {}
        /\ pc = [t \in Threads |-> "idle"] /\ alive = Processes

Holders == {t \in Threads : pc[t] = "held"}

Go(t, from, to) == /\ ProcessOf[t] \in alive /\ pc[t] = from
                   /\ pc' = [pc EXCEPT ![t] = to] /\ UNCHANGED alive

GivesUp(p) == kernel' = IF kernel = p THEN Nobody ELSE kernel

(* ::close(fd): the kernel forgets the process's record lock on the file, also *)
(* one that another thread got through another descriptor.                     *)
CloseDrops(t) ==
    /\ GivesUp(ProcessOf[t])
    /\ dropped' = IF kernel = ProcessOf[t] /\ \E u \in Holders : ProcessOf[u] = ProcessOf[t]
                  THEN dropped \union {ProcessOf[t]} ELSE dropped

(* LockOrUnlock(fd, true): nobody waits for the lock.                          *)
Free(t) == kernel \in {Nobody, ProcessOf[t]}

(* LockFile opens the file.                                                    *)
OpenLock(t) == Go(t, "idle", "opened") /\ UNCHANGED <<locked_files, kernel, dropped>>

(* PosixLockTable::Insert succeeds.                                            *)
Insert(t) == /\ ProcessOf[t] \notin locked_files
             /\ Go(t, "opened", "inserted") /\ locked_files' = locked_files \union {ProcessOf[t]}
             /\ UNCHANGED <<kernel, dropped>>

(* "already held by process": the descriptor is closed.                        *)
AlreadyHeld(t) == /\ ProcessOf[t] \in locked_files
                  /\ Go(t, "opened", "idle") /\ CloseDrops(t)
                  /\ UNCHANGED locked_files

LockKernel(t) == /\ Free(t) /\ Go(t, "inserted", "held") /\ kernel' = ProcessOf[t]
                 /\ UNCHANGED <<locked_files, dropped>>

(* Another process has the lock: close, then Remove.                           *)
LockRefused(t) == /\ ~Free(t) /\ Go(t, "inserted", "refused") /\ CloseDrops(t)
                  /\ UNCHANGED locked_files

RemoveRefused(t) == /\ Go(t, "refused", "idle") /\ locked_files' = locked_files \ {ProcessOf[t]}
                    /\ UNCHANGED <<kernel, dropped>>

(* UnlockFile: LockOrUnlock(fd, false), Remove, close.                         *)
UnlockKernel(t) == /\ Go(t, "held", "unlocked") /\ GivesUp(ProcessOf[t])
                   /\ dropped' = dropped \ {ProcessOf[t]} /\ UNCHANGED locked_files

RemoveLock(t) == /\ Go(t, "unlocked", "closing") /\ locked_files' = locked_files \ {ProcessOf[t]}
                 /\ UNCHANGED <<kernel, dropped>>

CloseLock(t) == /\ Go(t, "closing", "idle") /\ CloseDrops(t)
                /\ UNCHANGED locked_files

(* The process exits or is killed: the kernel drops its locks.                 *)
Exit(p) == /\ p \in alive /\ alive' = alive \ {p}
           /\ GivesUp(p)
           /\ locked_files' = locked_files \ {p} /\ dropped' = dropped \ {p}
           /\ pc' = [t \in Threads |-> IF ProcessOf[t] = p THEN "idle" ELSE pc[t]]

Restart(p) == /\ p \notin alive /\ alive' = alive \union {p}
              /\ UNCHANGED <<locked_files, kernel, pc, dropped>>

LockFile(t) == \/ OpenLock(t) \/ Insert(t) \/ AlreadyHeld(t)
               \/ LockKernel(t) \/ LockRefused(t) \/ RemoveRefused(t)

UnlockFile(t) == UnlockKernel(t) \/ RemoveLock(t) \/ CloseLock(t)

Next == \/ \E t \in Threads : LockFile(t) \/ UnlockFile(t)
        \/ \E p \in Processes : Exit(p) \/ Restart(p)

(* A call that began goes on; whether a holder unlocks is its own affair.      *)
GoesOn(t) == pc[t] # "idle" /\ (LockFile(t) \/ RemoveLock(t) \/ CloseLock(t))

Fairness == \A t \in Threads : WF_vars(GoesOn(t))

Spec == Init /\ [][Next]_vars /\ Fairness
-----------------------------------------------------------------------------
(* At most one thread of a process holds the lock, whatever the kernel does    *)
(* with the record lock of the process.                                        *)
OneHolderInProcess == \A t, u \in Holders : ProcessOf[t] = ProcessOf[u] => t = u

(* env.h, LockFile: "prevent concurrent access to the same db by multiple      *)
(* processes."  At most one thread of all processes holds the lock.            *)
OneHolder == \A t, u \in Holders : t = u

(* The same, as far as it holds where several threads of a process call        *)
(* LockFile: of two processes that have the database open, one has closed      *)
(* another descriptor of the LOCK file since.                                  *)
OneHolderUnlessDropped ==
    \A t, u \in Holders : t = u \/ ProcessOf[t] \in dropped \/ ProcessOf[u] \in dropped

(* A call of LockFile or UnlockFile is in progress.                            *)
InCall(t) == pc[t] \notin {"idle", "held"}
=============================================================================
