-------------------------- MODULE RandomAccessFiles -------------------------
(* leveldb, util/env_posix.cc: table files opened for reading by several       *)
(* threads.  A file is mapped while the mmap limiter allows it, else keeps a   *)
(* descriptor while the descriptor limiter allows it, else is opened for every *)
(* read.  A Limiter is an atomic counter that an Acquire which finds nothing   *)
(* left takes below zero and then puts back.                                   *)
EXTENDS Integers, FiniteSetTheorems

CONSTANTS Threads, MaxMmaps, MaxOpenFiles,
          MaxFiles   \* bound: files open at a time

VARIABLES allowed, \* limiter -> acquires_allowed_
          pc,      \* thread -> where it is
          files,   \* kind -> number of open files of that kind
          fds      \* thread -> descriptors it has open for a moment

vars == <<allowed, pc, files, fds>>

Limiters == {"mmap", "fd"}
Limit == [mmap |-> MaxMmaps, fd |-> MaxOpenFiles]
Kinds == {"mmap", "fd", "none"}   \* mapped, permanent descriptor, neither

Init == /\ allowed = Limit /\ pc = [t \in Threads |-> "idle"]
        /\ files = [k \in Kinds |-> 0] /\ fds = [t \in Threads |-> 0]

Freeing == [mmap |-> "freeMmap", fd |-> "freeFd"]

Go(t, from, to) == pc[t] = from /\ pc' = [pc EXCEPT ![t] = to]
Opened == files["mmap"] + files["fd"] + files["none"] + Cardinality({t \in Threads : pc[t] # "idle"})

(* Slip: the last one is granted twice.                                        *)
GrantedAtZero(old) == old >= 0

(* Limiter::Acquire: was there one before the fetch_sub?                       *)
Granted(old) == old > 0

FetchAdd(l, n) == allowed' = [allowed EXCEPT ![l] = @ + n]

(* NewRandomAccessFile: ::open succeeds (else nothing has happened).           *)
OpenFile(t) == /\ Opened < MaxFiles /\ Go(t, "idle", "mmap") /\ fds' = [fds EXCEPT ![t] = @ + 1]
               /\ UNCHANGED <<allowed, files>>

(* Acquire, first half: fetch_sub, and a look at the old value.                *)
FetchSub(t, l, yes, no) == /\ Go(t, l, IF Granted(allowed[l]) THEN yes ELSE no)
                           /\ FetchAdd(l, -1) /\ UNCHANGED <<files, fds>>

AcquireMmap(t) == FetchSub(t, "mmap", "map", "noMmap")
AcquireFd(t) == FetchSub(t, "fd", "keep", "noFd")

(* Acquire, second half: put it back.                                          *)
PutBack(l) == FetchAdd(l, 1)

NoMmap(t) == Go(t, "noMmap", "fd") /\ PutBack("mmap") /\ UNCHANGED <<files, fds>>
NoFd(t) == Go(t, "noFd", "drop") /\ PutBack("fd") /\ UNCHANGED <<files, fds>>

(* GetFileSize and ::mmap succeed; the descriptor is not needed any more.      *)
MapFile(t) == /\ Go(t, "map", "idle") /\ files' = [files EXCEPT !["mmap"] = @ + 1]
              /\ fds' = [fds EXCEPT ![t] = @ - 1] /\ UNCHANGED allowed

(* One of them fails: the descriptor is closed, then the region given back.    *)
MapFails(t) == /\ Go(t, "map", "release") /\ fds' = [fds EXCEPT ![t] = @ - 1]
               /\ UNCHANGED <<allowed, files>>

ReleaseMap(t) == Go(t, "release", "idle") /\ PutBack("mmap") /\ UNCHANGED <<files, fds>>

(* PosixRandomAccessFile keeps the descriptor, or closes it.                   *)
KeepFd(t) == /\ Go(t, "keep", "idle") /\ files' = [files EXCEPT !["fd"] = @ + 1]
             /\ fds' = [fds EXCEPT ![t] = @ - 1] /\ UNCHANGED allowed

DropFd(t) == /\ Go(t, "drop", "idle") /\ files' = [files EXCEPT !["none"] = @ + 1]
             /\ fds' = [fds EXCEPT ![t] = @ - 1] /\ UNCHANGED allowed

(* Read of a file without a descriptor: open, pread, close.                    *)
ReadOpens(t) == /\ files["none"] > 0 /\ Go(t, "idle", "read") /\ fds' = [fds EXCEPT ![t] = @ + 1]
                /\ UNCHANGED <<allowed, files>>
ReadCloses(t) == Go(t, "read", "idle") /\ fds' = [fds EXCEPT ![t] = @ - 1] /\ UNCHANGED <<allowed, files>>

(* The destructors: unmap or close, ...                                        *)
CloseFile(t, k) == /\ files[k] > 0 /\ files' = [files EXCEPT ![k] = @ - 1]
                   /\ Go(t, "idle", IF k = "none" THEN "idle" ELSE Freeing[k])
                   /\ UNCHANGED <<allowed, fds>>

(* ... then Limiter::Release.                                                  *)
Release(t, l) == Go(t, Freeing[l], "idle") /\ PutBack(l) /\ UNCHANGED <<files, fds>>

Next == \E t \in Threads :
           \/ OpenFile(t) \/ AcquireMmap(t) \/ NoMmap(t) \/ AcquireFd(t) \/ NoFd(t)
           \/ MapFile(t) \/ MapFails(t) \/ ReleaseMap(t) \/ KeepFd(t) \/ DropFd(t)
           \/ ReadOpens(t) \/ ReadCloses(t)
           \/ \E k \in Kinds : CloseFile(t, k)
           \/ \E l \in Limiters : Release(t, l)

Spec == Init /\ [][Next]_vars
-----------------------------------------------------------------------------
(* Acquires of a limiter that were granted and not given back.                 *)
Granters == [mmap |-> {"map", "release", "freeMmap"}, fd |-> {"keep", "freeFd"}]
InUse(l) == files[l] + Cardinality({t \in Threads : pc[t] \in Granters[l]})

(* However the two halves of Acquire interleave with Release, no more regions  *)
(* are mapped and no more descriptors kept than the limiters allow.            *)
WithinLimit == \A l \in Limiters : InUse(l) <= Limit[l]

(* When no thread is inside a call the counters are exact again: no failed     *)
(* Acquire or failed mmap has used up a part of the limit for good.            *)
CountersRestored == (\A t \in Threads : pc[t] = "idle")
                       => \A l \in Limiters : allowed[l] = Limit[l] - files[l]

(* Beside the descriptors that are kept, which the limit bounds, each thread   *)
(* has at most one open, so that MaxOpenFiles really bounds them.              *)
DescriptorsBounded == files["fd"] <= MaxOpenFiles /\ \A t \in Threads : fds[t] \in 0..1
=============================================================================
