-------------------------- MODULE CompactionOutput --------------------------
(* DBImpl::DoCompactionWork in detail: the input iterator over the tables of  *)
(* two levels, the output files and when they are closed, and what is left of *)
(* them when a file operation fails, an input cannot be read or the database  *)
(* is closed.  Which entries are dropped is Compaction's subject: here any.   *)
(* Keys are numbers; a file is the ascending sequence of its keys.            *)
EXTENDS Integers, Sequences, FiniteSets

CONSTANTS Keys,             \* internal keys
          Grandparents,     \* files of level + 2, disjoint, in order: low, high, size
          MaxOverlap,       \* MaxGrandParentOverlapBytes
          MaxOutputSize,    \* MaxOutputFileSize, in entries
          MaxFaults         \* bound: failing file operations

VARIABLES input,      \* the children of the merging iterator, and whether one failed
          files,      \* inputs_: the files of the two levels
          unreadable, \* external: the input files that cannot be read
          level,      \* level_ of the compaction
          stop,       \* grandparent_index_, seen_key_, overlapped_bytes_
          outputs,    \* compact->outputs
          builder,    \* compact->builder # nullptr
          kept,       \* history: the entries not dropped, in order
          pc,         \* loop, add, end, cleanup or over
          status,     \* "ok" or an error
          pending,    \* pending_outputs_
          installed,  \* LogAndApply was called for the outputs
          faults

vars == <<input, files, unreadable, level, stop, outputs, builder, kept, pc, status, pending,
          installed, faults>>

-----------------------------------------------------------------------------
(* The input.  A child is a sequence of files that are read one after the     *)
(* other: a LevelFileNumIterator below a two-level iterator; index is its     *)
(* index_, pos the place in the file.                                         *)

Readable(f) == IF f \in unreadable THEN <<>> ELSE f

(* Valid: on an entry, or beyond the last file.                               *)
ChildValid(c) == c.index <= Len(c.files)

ChildKey(c) == c.files[c.index][c.pos]

(* The two-level iterator skips files that yield nothing, for whatever reason. *)
FirstFrom(fs, i) ==
    LET good == {k \in i..Len(fs) : Readable(fs[k]) # <<>>}
    IN  [files |-> fs, pos |-> 1,
         index |-> IF good = {} THEN Len(fs) + 1 ELSE CHOOSE k \in good : \A j \in good : k <= j]

ChildNext(c) == IF c.pos < Len(c.files[c.index]) THEN [c EXCEPT !.pos = c.pos + 1]
                ELSE FirstFrom(c.files, c.index + 1)

(* A failed file is noticed when the iterator passes it.                      *)
ChildFailed(c) == \E k \in 1..Len(c.files) : k < c.index /\ c.files[k] \in unreadable

(* MakeInputIterator: the files of level 0 overlap, so each is a child.       *)
MakeInputIterator(l, fs) ==
    (IF l = 0 THEN [i \in 1..Len(fs[1]) |-> FirstFrom(<<fs[1][i]>>, 1)]
     ELSE <<FirstFrom(fs[1], 1)>>) \o <<FirstFrom(fs[2], 1)>>

Valid == \E i \in 1..Len(input) : ChildValid(input[i])

(* The merging iterator is on the smallest key.                               *)
Current == CHOOSE i \in 1..Len(input) :
               /\ ChildValid(input[i])
               /\ \A j \in 1..Len(input) : ChildValid(input[j]) => ChildKey(input[i]) <= ChildKey(input[j])

Key == ChildKey(input[Current])

InputStatus == IF \E i \in 1..Len(input) : ChildFailed(input[i]) THEN "input error" ELSE "ok"

-----------------------------------------------------------------------------
(* ShouldStopBefore.  The grandparents passed by key count once a first key   *)
(* was seen.                                                                  *)
Passed(key) == {i \in stop.index..Len(Grandparents) : key > Grandparents[i].high}

Size(set) == LET sum[n \in 0..Len(Grandparents)] ==
                     IF n = 0 THEN 0
                     ELSE sum[n - 1] + (IF n \in set THEN Grandparents[n].size ELSE 0)
             IN  sum[Len(Grandparents)]

Count(key) == [index |-> stop.index + Cardinality(Passed(key)), seen |-> TRUE,
               overlapped |-> stop.overlapped + (IF stop.seen THEN Size(Passed(key)) ELSE 0)]

TooMuchOverlap(counted) == counted.overlapped > MaxOverlap

-----------------------------------------------------------------------------
(* Output files.                                                              *)

Fault(error) == faults < MaxFaults /\ faults' = faults + 1 /\ status' = error

(* OpenCompactionOutputFile: the number is pending and the output is listed   *)
(* before the file is created.                                                *)
OpenOutput == LET number == Len(outputs) + 1
              IN  pending' = pending \union {number}

LastOutput == outputs[Len(outputs)]

(* FinishCompactionOutputFile: the builder is gone in any case; the input,    *)
(* the sync, the close or the verification can fail.                          *)
FinishOutput ==
    /\ builder' = FALSE
    /\ \/ status' = InputStatus /\ UNCHANGED faults
       \/ InputStatus = "ok" /\ Fault("write error")

(* One round of the loop, up to the decision about the entry; a new output is *)
(* begun if the old one overlaps too much.                                    *)
Round ==
    /\ pc = "loop" /\ status = "ok" /\ Valid
    /\ \E counted \in {Count(Key)} :
          /\ stop' = IF TooMuchOverlap(counted) THEN [counted EXCEPT !.overlapped = 0] ELSE counted
          /\ IF TooMuchOverlap(counted) /\ builder THEN FinishOutput
             ELSE UNCHANGED <<builder, status, faults>>
    /\ pc' = IF status' = "ok" THEN "add" ELSE "end"
    /\ UNCHANGED <<input, files, unreadable, level, outputs, kept, pending, installed>>

Advance == input' = [input EXCEPT ![Current] = ChildNext(input[Current])]

(* The entry is dropped.                                                      *)
DropEntry == /\ pc = "add"
             /\ Advance /\ pc' = "loop"
             /\ UNCHANGED <<files, unreadable, level, stop, outputs, builder, kept, status, pending,
                            installed, faults>>

(* The entry needs an output, which cannot be opened.                         *)
OpenFails == /\ pc = "add" /\ ~builder
             /\ Fault("open error")
             /\ OpenOutput
             /\ outputs' = Append(outputs, <<>>)
             /\ pc' = "end"
             /\ UNCHANGED <<input, files, unreadable, level, stop, builder, kept, installed>>

(* The entry is added; a file that is big enough is closed.                   *)
AddEntry == /\ pc = "add"
            /\ IF builder THEN UNCHANGED pending ELSE OpenOutput
            /\ outputs' = IF builder
                          THEN [outputs EXCEPT ![Len(outputs)] = Append(LastOutput, Key)]
                          ELSE Append(outputs, <<Key>>)
            /\ kept' = Append(kept, Key)
            /\ IF Len(outputs'[Len(outputs')]) >= MaxOutputSize THEN FinishOutput
               ELSE builder' = TRUE /\ UNCHANGED <<status, faults>>
            /\ IF status' = "ok" THEN Advance /\ pc' = "loop" ELSE pc' = "end" /\ UNCHANGED input
            /\ UNCHANGED <<files, unreadable, level, stop, installed>>

(* The database is being closed.                                              *)
ShutDown == /\ pc = "loop" /\ faults < MaxFaults
            /\ faults' = faults + 1
            /\ status' = "shutting down" /\ pc' = "end"
            /\ UNCHANGED <<input, files, unreadable, level, stop, outputs, builder, kept, pending, installed>>

(* There is no entry left: the last output is finished.                       *)
LastFinish == /\ pc = "loop" /\ ~Valid /\ builder
              /\ FinishOutput
              /\ pc' = "end"
              /\ UNCHANGED <<input, files, unreadable, level, stop, outputs, kept, pending, installed>>

NoMore == /\ pc = "loop" /\ ~Valid /\ ~builder
          /\ pc' = "end"
          /\ UNCHANGED <<input, files, unreadable, level, stop, outputs, builder, kept, status, pending,
                         installed, faults>>

(* Slip in DoCompactionWork: the input's status is not asked for at the end.  *)
FinalStatusUnread == status

(* The status after the loop.                                                 *)
FinalStatus == IF status = "ok" THEN InputStatus ELSE status

(* InstallCompactionResults.                                                  *)
Install == /\ pc = "end"
           /\ status' = FinalStatus
           /\ installed' = (FinalStatus = "ok")
           /\ pc' = "cleanup"
           /\ UNCHANGED <<input, files, unreadable, level, stop, outputs, builder, kept, pending, faults>>

(* The numbers CleanupCompaction takes out of pending_outputs_.               *)
CleanedNumbers == 1..Len(outputs)

(* CleanupCompaction: an open output is abandoned.                            *)
CleanupCompaction == /\ pc = "cleanup"
                     /\ pending' = pending \ CleanedNumbers
                     /\ builder' = FALSE
                     /\ pc' = "over"
                     /\ UNCHANGED <<input, files, unreadable, level, stop, outputs, kept, status,
                                    installed, faults>>

-----------------------------------------------------------------------------
Sorted(set) == [i \in 1..Cardinality(set) |->
                   CHOOSE k \in set : Cardinality({j \in set : j < k}) = i - 1]

Ordered(a, b) == \A x \in a, y \in b : x < y

(* Any two files of the level and two of the next; only in level 0 may the    *)
(* ranges of two files overlap.                                               *)
Init == /\ \E place \in [Keys -> {"a1", "a2", "b1", "b2", "no"}] :
              LET Of(f) == {k \in Keys : place[k] = f}
              IN  /\ Of("a1") # {} /\ Ordered(Of("b1"), Of("b2"))
                  /\ Of("b1") = {} => Of("b2") = {}
                  /\ files = << IF Of("a2") = {} THEN <<Sorted(Of("a1"))>>
                                ELSE <<Sorted(Of("a1")), Sorted(Of("a2"))>>,
                                IF Of("b1") = {} THEN <<>>
                                ELSE IF Of("b2") = {} THEN <<Sorted(Of("b1"))>>
                                ELSE <<Sorted(Of("b1")), Sorted(Of("b2"))>> >>
                  /\ level \in {l \in 0..1 : l = 0 \/ Ordered(Of("a1"), Of("a2"))}
                  /\ unreadable \in {{}} \union {{Sorted(Of(f))} : f \in {"a2", "b1"}}
        /\ input = MakeInputIterator(level, files)
        /\ stop = [index |-> 1, seen |-> FALSE, overlapped |-> 0]
        /\ outputs = <<>> /\ builder = FALSE /\ kept = <<>>
        /\ pc = "loop" /\ status = "ok"
        /\ pending = {} /\ installed = FALSE /\ faults = 0

Next == \/ Round \/ DropEntry \/ OpenFails \/ AddEntry \/ ShutDown \/ LastFinish \/ NoMore
        \/ Install \/ CleanupCompaction

Spec == Init /\ [][Next]_vars

-----------------------------------------------------------------------------
All(seqs) == LET cat[n \in 0..Len(seqs)] == IF n = 0 THEN <<>> ELSE cat[n - 1] \o seqs[n]
             IN  cat[Len(seqs)]

Overlapping(ks) == {i \in 1..Len(Grandparents) : /\ Grandparents[i].low <= ks[Len(ks)]
                                                 /\ Grandparents[i].high >= ks[1]}

LargestGrandparent == CHOOSE n \in {Grandparents[i].size : i \in 1..Len(Grandparents)} :
                          \A i \in 1..Len(Grandparents) : Grandparents[i].size <= n

(* version_set.cc: "Maximum bytes of overlaps in grandparent (i.e., level+2)  *)
(* before we stop building a single file": a later compaction of one output   *)
(* meets at most that much, and the one file that went over the limit.        *)
OverlapBounded == \A n \in 1..Len(outputs) : outputs[n] # <<>> =>
                     Size(Overlapping(outputs[n])) <= MaxOverlap + LargestGrandparent

(* The outputs are the entries of a level: in order, and without overlap.     *)
OutputsSorted == LET ks == All(outputs) IN \A i \in 2..Len(ks) : ks[i - 1] < ks[i]

Input(key) == \E w \in 1..2 : \E i \in 1..Len(files[w]) :
                \E k \in 1..Len(files[w][i]) : files[w][i][k] = key

(* DoCompactionWork: the inputs are deleted only if every entry of them was   *)
(* read, and what was to be kept is in the outputs: an input that ends early  *)
(* because a table cannot be read is not taken for its end.                   *)
InstalledComplete == installed => /\ All(outputs) = kept
                                  /\ \A w \in 1..2 : \A i \in 1..Len(files[w]) : files[w][i] \notin unreadable
                                  /\ \A i \in 1..Len(kept) : Input(kept[i])

(* CleanupCompaction: no number stays in pending_outputs_, or the file of a   *)
(* failed compaction would never be deleted.                                  *)
NothingPending == pc = "over" => pending = {}
=============================================================================
