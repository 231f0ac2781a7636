---------------------------- MODULE WritableFile ----------------------------
(* leveldb, util/env_posix.cc (PosixWritableFile) and util/env.cc              *)
(* (DoWriteStringToFile): a file written through a buffer, by one thread.      *)
(* Bytes are numbered in the order they are appended; byte n of a manifest     *)
(* names table file n, which was created before.  ::write may write less than  *)
(* it is asked for, every system call may fail, the machine may crash.         *)
EXTENDS Naturals, Sequences, FiniteSets

CONSTANTS BufferSize,   \* kWritableFileBufferSize
          AppendSizes,  \* sizes of the appended slices
          MaxBytes,     \* bound: bytes ever appended
          MaxOpens,     \* bound: times the file is opened
          Writeback     \* does the kernel write dirty pages on its own?

VARIABLES file,        \* bytes the kernel holds for the file
          durable,     \* how many of them are on the medium
          exists,      \* the directory has the name
          dir,         \* table files created in the directory
          durableDir,  \* those whose directory entry is on the medium
          is_manifest, \* IsManifest(filename)
          fd,          \* is fd_ open?
          buf,         \* buf_[0, pos_ - 1]
          call,        \* what the method that is running has left to do
          status,      \* of the last call
          appended,    \* number of bytes appended since the beginning
          expected,    \* bytes the file should have once all is flushed
          failed,      \* has a call on this object failed?
          script,      \* where DoWriteStringToFile is
          opens        \* times the file was opened

vars == <<file, durable, exists, dir, durableDir, is_manifest, fd, buf, call, status,
          appended, expected, failed, script, opens>>
disk == <<exists, dir, durableDir, is_manifest>>
user == <<appended, expected, script, opens>>

Idle == [at |-> "idle", data |-> <<>>, rest |-> <<>>, then |-> "none"]

NoScript == [at |-> "none", sync |-> FALSE]

(* The base name of the file may begin with MANIFEST or not.                   *)
IsManifest == BOOLEAN

Init == /\ file = <<>> /\ durable = 0 /\ exists = FALSE
        /\ dir = {} /\ durableDir = {} /\ is_manifest \in IsManifest
        /\ fd = FALSE /\ buf = <<>> /\ call = Idle /\ status = "ok"
        /\ appended = 0 /\ expected = <<>> /\ failed = FALSE
        /\ script = NoScript /\ opens = 0

FirstBytes(s, n) == SubSeq(s, 1, n)
AllBut(s, n) == SubSeq(s, n + 1, Len(s))
Smaller(a, b) == IF a < b THEN a ELSE b

Return(ok) == /\ call' = Idle /\ status' = IF ok THEN "ok" ELSE "error"
              /\ failed' = (failed \/ ~ok)

(* WriteUnbuffered(data), and what follows it.                                 *)
StartWrite(data, then, rest) ==
    call' = [at |-> "write", data |-> data, rest |-> rest, then |-> then]

(* NewWritableFile (O_TRUNC).                                                  *)
NewWritableFile == /\ ~fd /\ call = Idle /\ opens < MaxOpens
                   /\ fd' = TRUE /\ exists' = TRUE /\ opens' = opens + 1
                   /\ file' = <<>> /\ durable' = 0 /\ expected' = <<>>
                   /\ buf' = <<>> /\ failed' = FALSE /\ status' = "ok"
                   /\ UNCHANGED <<dir, durableDir, is_manifest, call, appended>>

(* NewAppendableFile (O_APPEND): the object writes after what the file has.    *)
NewAppendableFile == /\ ~fd /\ call = Idle /\ opens < MaxOpens
                     /\ fd' = TRUE /\ exists' = TRUE /\ opens' = opens + 1
                     /\ expected' = file /\ buf' = <<>> /\ failed' = FALSE /\ status' = "ok"
                     /\ UNCHANGED <<file, durable, dir, durableDir, is_manifest, call, appended>>

(* A table file is created in the same directory.                              *)
NewTable == /\ Cardinality(dir) < MaxBytes /\ dir' = dir \union {Cardinality(dir) + 1}
            /\ UNCHANGED <<file, durable, exists, durableDir, is_manifest, fd, buf, call,
                           status, failed, user>>

(* Append: fill the buffer; if that is not enough, flush it and then buffer or *)
(* write the rest.                                                             *)
AppendData(n) ==
    LET data == [i \in 1..n |-> appended + i]
        copy_size == Smaller(n, BufferSize - Len(buf))
    IN  /\ call = Idle /\ fd /\ appended + n <= MaxBytes
        /\ is_manifest => {data[i] : i \in 1..n} \subseteq dir
        /\ appended' = appended + n /\ expected' = expected \o data
        /\ buf' = buf \o FirstBytes(data, copy_size)
        /\ IF copy_size = n THEN Return(TRUE)
           ELSE StartWrite(buf', "append", AllBut(data, copy_size)) /\ UNCHANGED <<status, failed>>
        /\ UNCHANGED <<file, durable, fd, opens, disk>>

Flush == /\ call = Idle /\ fd /\ StartWrite(buf, "flush", <<>>)
         /\ UNCHANGED <<file, durable, fd, buf, status, failed, disk>>

(* Close, and the destructor of an object that was not closed.                 *)
Close == /\ call = Idle /\ fd /\ StartWrite(buf, "close", <<>>)
         /\ UNCHANGED <<file, durable, fd, buf, status, failed, disk>>

(* Slip: the directory is not synced first.                                    *)
SyncFileOnly == /\ call = Idle /\ fd /\ StartWrite(buf, "sync", <<>>)
                /\ UNCHANGED <<file, durable, fd, buf, status, failed, disk>>

(* Sync: SyncDirIfManifest, FlushBuffer, SyncFd.                               *)
Sync == /\ call = Idle /\ fd
        /\ IF is_manifest THEN call' = [Idle EXCEPT !.at = "syncdir"]
           ELSE StartWrite(buf, "sync", <<>>)
        /\ UNCHANGED <<file, durable, fd, buf, status, failed, disk>>

SyncDirIfManifest == /\ call.at = "syncdir"
                     /\ \/ /\ durableDir' = dir /\ StartWrite(buf, "sync", <<>>)
                           /\ UNCHANGED <<status, failed>>
                        \/ Return(FALSE) /\ UNCHANGED durableDir
                     /\ UNCHANGED <<file, durable, fd, buf, exists, dir, is_manifest, user>>

(* What is left after ::write wrote k bytes.                                   *)
Advance(k) == AllBut(call.data, k)

(* ::write writes some of the bytes (an EINTR writes none and is retried).     *)
WriteUnbuffered == /\ call.at = "write"
                   /\ \E k \in 1..Len(call.data) :
                         /\ file' = file \o FirstBytes(call.data, k)
                         /\ call' = [call EXCEPT !.data = Advance(k)]
                   /\ UNCHANGED <<durable, fd, buf, status, failed, disk, user>>

(* An error: the bytes are gone, FlushBuffer resets pos_ all the same; Close   *)
(* goes on to close the descriptor.                                            *)
WriteFails == /\ call.at = "write" /\ call.data # <<>> /\ buf' = <<>>
              /\ IF call.then = "close"
                 THEN /\ call' = [Idle EXCEPT !.at = "closefd"]
                      /\ status' = "error" /\ failed' = TRUE
                 ELSE Return(FALSE)
              /\ UNCHANGED <<file, durable, fd, disk, user>>

(* All is written: pos_ = 0, and the method goes on.                           *)
FlushBuffer ==
    /\ call.at = "write" /\ call.data = <<>>
    /\ CASE call.then = "append" /\ Len(call.rest) < BufferSize ->
                buf' = call.rest /\ Return(TRUE)
         [] call.then = "append" /\ Len(call.rest) >= BufferSize ->
                buf' = <<>> /\ StartWrite(call.rest, "direct", <<>>) /\ UNCHANGED <<status, failed>>
         [] call.then = "sync" ->
                buf' = <<>> /\ call' = [Idle EXCEPT !.at = "syncfd"] /\ UNCHANGED <<status, failed>>
         [] call.then = "close" ->
                buf' = <<>> /\ call' = [Idle EXCEPT !.at = "closefd"] /\ status' = "ok" /\ UNCHANGED failed
         [] OTHER -> buf' = <<>> /\ Return(TRUE)
    /\ UNCHANGED <<file, durable, fd, disk, user>>

(* F_FULLFSYNC, or fsync where the file system does not know it.               *)
SyncFd == /\ call.at = "syncfd"
          /\ \/ durable' = Len(file) /\ Return(TRUE)
             \/ Return(FALSE) /\ UNCHANGED durable
          /\ UNCHANGED <<file, fd, buf, disk, user>>

CloseFd == /\ call.at = "closefd" /\ fd' = FALSE
           /\ \/ Return(status = "ok")
              \/ Return(FALSE)
           /\ UNCHANGED <<file, durable, buf, disk, user>>

(* The methods, called by the owner of the file.                               *)
Methods == /\ script.at = "none" /\ UNCHANGED script
           /\ \/ NewWritableFile \/ NewAppendableFile
              \/ \E n \in AppendSizes : AppendData(n)
              \/ (Flush \/ Sync \/ Close) /\ UNCHANGED <<appended, expected, opens>>

Calls == SyncDirIfManifest \/ WriteUnbuffered \/ WriteFails \/ FlushBuffer \/ SyncFd \/ CloseFd

(* DoWriteStringToFile: new file, Append, Sync if asked for, Close, and the    *)
(* file deleted if one of them failed.                                         *)
At(step) == script' = [script EXCEPT !.at = step]

StringBegin == /\ script.at = "none" /\ NewWritableFile
               /\ \E should_sync \in BOOLEAN : script' = [at |-> "append", sync |-> should_sync]

StringAppend == /\ script.at = "append" /\ \E n \in AppendSizes : AppendData(n)
                /\ At(IF script.sync THEN "sync" ELSE "close")

StringSync == /\ script.at = "sync" /\ status = "ok" /\ Sync /\ At("close")
              /\ UNCHANGED <<appended, expected, opens>>

(* Close; or, after an error, the destructor.                                  *)
StringClose == /\ Close
               /\ \/ script.at = "close" /\ status = "ok" /\ At("end")
                  \/ script.at \in {"sync", "close"} /\ status = "error" /\ At("delete")
               /\ UNCHANGED <<appended, expected, opens>>

StringEnd == /\ script.at = "end" /\ call = Idle
             /\ At(IF status = "ok" THEN "done" ELSE "delete")
             /\ UNCHANGED <<file, durable, fd, buf, call, status, failed, disk, appended, expected, opens>>

StringDelete == /\ script.at = "delete" /\ call = Idle
                /\ \/ exists' = FALSE /\ file' = <<>> /\ durable' = 0 /\ At("refused")
                   \/ UNCHANGED <<exists, file, durable>> /\ At("left")
                /\ UNCHANGED <<fd, buf, call, status, failed, dir, durableDir, is_manifest,
                               appended, expected, opens>>

StringReturn == /\ script.at \in {"done", "refused", "left"} /\ At("none")
                /\ UNCHANGED <<file, durable, fd, buf, call, status, failed, disk, appended, expected, opens>>

DoWriteStringToFile == \/ StringBegin \/ StringAppend \/ StringSync \/ StringClose
                       \/ StringEnd \/ StringDelete \/ StringReturn

(* Power failure: what is not on the medium is lost, with the process.         *)
Crash == /\ opens > 0 /\ file' = FirstBytes(file, durable) /\ dir' = durableDir
         /\ fd' = FALSE /\ buf' = <<>> /\ call' = Idle /\ status' = "ok" /\ script' = NoScript
         /\ UNCHANGED <<durable, exists, durableDir, is_manifest, appended, expected, failed, opens>>

(* The kernel writes dirty pages of the file at a time of its own.             *)
KernelWriteback == /\ Writeback /\ durable < Len(file) /\ durable' \in durable + 1..Len(file)
                   /\ UNCHANGED <<file, fd, buf, call, status, failed, disk, user>>

Next == Methods \/ NewTable \/ Calls \/ DoWriteStringToFile \/ Crash \/ KernelWriteback

Spec == Init /\ [][Next]_vars
-----------------------------------------------------------------------------
(* Bytes that are still on their way to the kernel, in order.                  *)
Pending == IF call.at = "write" THEN call.data \o call.rest ELSE buf

(* While no call has failed, what the kernel has and what Append,              *)
(* FlushBuffer and WriteUnbuffered still hold are the bytes that were          *)
(* appended, each once and in order, whatever the short writes.                *)
InOrder == fd /\ ~failed => file \o Pending = expected

(* Failed or not, the file never holds a byte twice or before an earlier one:  *)
(* a failed FlushBuffer empties the buffer, so a later flush does not write    *)
(* the part again that reached the kernel.                                     *)
Increasing == \A i, j \in 1..Len(file) : i < j => file[i] < file[j]

(* WriteStringToFile returned OK: the name holds all of the string, on the     *)
(* medium if the Sync variant was called; it returned an error: the name is    *)
(* gone, unless it could not be deleted either.                                *)
StringWhole == /\ script.at = "done" => exists /\ file = expected /\ (script.sync => durable = Len(file))
               /\ script.at = "refused" => ~exists

(* The manifest on the medium names only table files whose directory entries   *)
(* are on the medium too, so that a crash leaves no dangling name.             *)
NoDanglingName == is_manifest => \A i \in 1..durable : file[i] \in durableDir
=============================================================================
