------------------------------- MODULE Block --------------------------------
(* leveldb, table/block_builder.cc and table/block.cc: a block of sorted keys, *)
(* each stored as what it does not share with the one before, except at the    *)
(* restart points.  Offsets count entries instead of bytes, and entries and    *)
(* restart points are numbered from 1; values travel with their entry and are  *)
(* left out.                                                                   *)
EXTENDS Comparator, FiniteSets

(* What a BlockBuilder holds: entries and restart points so far, the entries   *)
(* since the last restart point, and the key before.                           *)
NewBlockBuilder == [entries |-> <<>>, restarts |-> <<1>>, counter |-> 0, last_key |-> <<>>]

Reset(block) == NewBlockBuilder

(* Bytes the key has in common with the key before; none at a restart point.   *)
Shared(block, interval, key) ==
    IF block.counter < interval THEN DiffIndex(block.last_key, key) ELSE 0

Counter(block, interval) == IF block.counter < interval THEN block.counter + 1 ELSE 1

AddEntry(block, interval, key) ==
    LET shared == Shared(block, interval, key)
    IN  [entries |-> Append(block.entries,
                            [shared |-> shared, delta |-> SubSeq(key, shared + 1, Len(key)), bad |-> FALSE]),
         restarts |-> IF block.counter < interval THEN block.restarts
                      ELSE Append(block.restarts, Len(block.entries) + 1),
         counter |-> Counter(block, interval),
         last_key |-> SubSeq(block.last_key, 1, shared) \o SubSeq(key, shared + 1, Len(key))]

(* The stored block: "whole" unless its size does not fit its restart array.   *)
FinishBlock(block) == [entries |-> block.entries, restarts |-> block.restarts, whole |-> TRUE]
-----------------------------------------------------------------------------
(* Block::Iter.  next is NextEntryOffset, restart_index the restart block of   *)
(* the current entry.                                                          *)
End(b) == Len(b.entries) + 1
NumRestarts(b) == Len(b.restarts)
NoRestart(b) == NumRestarts(b) + 1

NewIterator(b) == [current |-> End(b), restart_index |-> NoRestart(b), key |-> <<>>, next |-> 0,
                   status |-> IF b.whole THEN "ok" ELSE "corruption"]

ValidIter(b, i) == i.current < End(b)

Nowhere(b, i) == [i EXCEPT !.current = End(b), !.restart_index = NoRestart(b)]

CorruptionError(b, i) == [NewIterator(b) EXCEPT !.status = "corruption"]

SeekToRestartPoint(b, i, index) == [i EXCEPT !.key = <<>>, !.restart_index = index, !.next = b.restarts[index]]

(* The restart block at falls in; a restart point still counts to the one      *)
(* before it.                                                                  *)
RestartIndex(b, at, index) ==
    LET behind == {n \in index..NumRestarts(b) : n = index \/ b.restarts[n] < at}
    IN  CHOOSE n \in behind : \A m \in behind : n >= m

(* DecodeEntry and ParseNextKey; it returns whether the result is valid.       *)
ParseNextKey(b, i) ==
    LET at == i.next
        e == b.entries[at]
    IN  IF at >= End(b) THEN Nowhere(b, i)
        ELSE IF e.bad \/ Len(i.key) < e.shared THEN CorruptionError(b, i)
        ELSE [i EXCEPT !.current = at, !.next = at + 1, !.key = SubSeq(i.key, 1, e.shared) \o e.delta,
                       !.restart_index = RestartIndex(b, at, i.restart_index)]

(* Parses on until the current entry ends at the given offset.                 *)
RECURSIVE ScanTo(_, _, _)
ScanTo(b, i, offset) ==
    LET p == ParseNextKey(b, i) IN IF ValidIter(b, p) /\ p.next < offset THEN ScanTo(b, p, offset) ELSE p

RECURSIVE ScanForKey(_, _, _)
ScanForKey(b, i, target) ==
    LET p == ParseNextKey(b, i) IN IF ValidIter(b, p) /\ Less(p.key, target) THEN ScanForKey(b, p, target) ELSE p

IterNext(b, i) == ParseNextKey(b, i)

(* Slip: a restart point at the entry itself will do.                          *)
AtOrBefore(b, i) == {n \in 1..i.restart_index : b.restarts[n] <= i.current}

(* Restart points before the current entry.                                    *)
RestartsBefore(b, i) == {n \in 1..i.restart_index : b.restarts[n] < i.current}

IterPrev(b, i) ==
    LET before == RestartsBefore(b, i)
    IN  IF before = {} THEN Nowhere(b, i)
        ELSE ScanTo(b, SeekToRestartPoint(b, i, CHOOSE n \in before : \A m \in before : n >= m), i.current)

IterSeekToFirst(b, i) == ParseNextKey(b, SeekToRestartPoint(b, i, 1))
IterSeekToLast(b, i) == ScanTo(b, SeekToRestartPoint(b, i, NumRestarts(b)), End(b))

(* "Key at mid is smaller than target."                                        *)
GoLeft(b, mid, target) == Less(b.entries[b.restarts[mid]].delta, target)

(* The binary search over the restart points; 0 if an entry does not decode.   *)
RECURSIVE LastRestartBefore(_, _, _, _)
LastRestartBefore(b, left, right, target) ==
    LET mid == (left + right + 1) \div 2
        e == b.entries[b.restarts[mid]]
    IN  IF left >= right THEN left
        ELSE IF e.bad \/ e.shared # 0 THEN 0
        ELSE IF GoLeft(b, mid, target) THEN LastRestartBefore(b, mid, right, target)
        ELSE LastRestartBefore(b, left, mid - 1, target)

IterSeek(b, i, target) ==
    LET left == LastRestartBefore(b, 1, NumRestarts(b), target)
    IN  IF left = 0 THEN CorruptionError(b, i)
        ELSE ScanForKey(b, SeekToRestartPoint(b, i, left), target)
-----------------------------------------------------------------------------
(* Builds blocks of every set of short keys, one after the other with the same *)
(* builder, and moves an iterator over each in every way.                      *)

CONSTANTS MaxLength,   \* bound: bytes of a key
          Intervals,   \* values of block_restart_interval
          MaxKeys      \* bound: keys of a block

Keys == UNION {[1..n -> 0..MaxByte] : n \in 0..MaxLength}

VARIABLES interval, builder, finished_,
          keys,     \* the keys added, in order
          stored,   \* the block last finished
          it,       \* an iterator over it
          view      \* the index of the key it should be at, 0 if none

vars == <<interval, builder, finished_, keys, stored, it, view>>

NoBlock == FinishBlock(NewBlockBuilder)

Init == /\ interval \in Intervals /\ builder = NewBlockBuilder /\ keys = <<>>
        /\ finished_ = FALSE /\ stored = NoBlock /\ it = NewIterator(NoBlock) /\ view = 0

AddKey(key) == /\ ~finished_ /\ Len(keys) < MaxKeys
               /\ keys # <<>> => Less(keys[Len(keys)], key)
               /\ builder' = AddEntry(builder, interval, key)
               /\ keys' = Append(keys, key)
               /\ UNCHANGED <<interval, finished_, stored, it, view>>

(* The block is stored; on the disk one entry, or its end, may go bad.         *)
Finish == /\ ~finished_ /\ finished_' = TRUE
          /\ \E n \in 0..Len(keys) + 1 :
                stored' = [FinishBlock(builder) EXCEPT
                             !.whole = n # Len(keys) + 1,
                             !.entries = [m \in DOMAIN @ |-> [@[m] EXCEPT !.bad = m = n]]]
          /\ it' = NewIterator(stored') /\ view' = 0
          /\ UNCHANGED <<interval, builder, keys>>

Again == /\ finished_ /\ finished_' = FALSE /\ builder' = Reset(builder)
         /\ keys' = <<>> /\ stored' = NoBlock /\ it' = NewIterator(NoBlock) /\ view' = 0 /\ UNCHANGED interval

Move(i, index) == /\ it' = i /\ view' = index
                  /\ UNCHANGED <<interval, builder, finished_, keys, stored>>

Readable == finished_ /\ stored.whole
At(i) == IF ValidIter(stored, i) THEN i.current ELSE 0

(* The first key at or past the target.                                        *)
AtOrPast(target) == LET past == {n \in DOMAIN keys : ~Less(keys[n], target)}
                    IN  IF past = {} THEN 0 ELSE CHOOSE n \in past : \A m \in past : n <= m

SeekKey(target) == Readable /\ Move(IterSeek(stored, it, target), AtOrPast(target))
SeekToFirst == Readable /\ Move(IterSeekToFirst(stored, it), IF keys = <<>> THEN 0 ELSE 1)
SeekToLast == Readable /\ Move(IterSeekToLast(stored, it), Len(keys))
StepNext == Readable /\ At(it) # 0 /\ Move(IterNext(stored, it), IF view = Len(keys) THEN 0 ELSE view + 1)
StepPrev == Readable /\ At(it) # 0 /\ Move(IterPrev(stored, it), view - 1)

Next == \/ \E key \in Keys : AddKey(key) \/ SeekKey(key)
        \/ Finish \/ Again \/ SeekToFirst \/ SeekToLast \/ StepNext \/ StepPrev

Spec == Init /\ [][Next]_vars

(* Whatever the moves, an iterator that reports no error is at the key the     *)
(* move asked for, and shows that key in full.                                 *)
AtRightKey == (finished_ /\ it.status = "ok") =>
                 /\ At(it) = view
                 /\ view # 0 => it.key = keys[view]

(* Without damage there is no error, also in the second block of a builder.    *)
NoFalseAlarm == (Readable /\ \A n \in DOMAIN stored.entries : ~stored.entries[n].bad) => it.status = "ok"

(* A valid iterator knows a restart point it can scan from and the next one is *)
(* not behind it: Prev finds the nearest restart point before the entry.       *)
RestartBlock == ValidIter(stored, it) =>
    /\ it.restart_index \in 1..NumRestarts(stored)
    /\ stored.restarts[it.restart_index] <= it.current
    /\ it.restart_index < NumRestarts(stored) => stored.restarts[it.restart_index + 1] >= it.current

(* Between two restart points there are never more entries than the interval:  *)
(* what a Seek scans is bounded.                                               *)
ScanBounded == \A n \in DOMAIN builder.restarts :
    LET end == IF n = Len(builder.restarts) THEN Len(builder.entries) + 1 ELSE builder.restarts[n + 1]
    IN  end - builder.restarts[n] <= interval
=============================================================================
