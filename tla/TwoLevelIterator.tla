-------------------------- MODULE TwoLevelIterator --------------------------
(* leveldb, table/two_level_iterator.cc: an index of blocks and the block the  *)
(* iterator is in.  A block is a set of keys, which are numbers; it may be     *)
(* empty, or unreadable, when block_function returns an iterator that has      *)
(* nothing but an error.                                                       *)
EXTENDS Integers

CONSTANTS Blocks,   \* 1..n
          KeysOf,   \* the keys the file was built with, per block
          Separator \* index key of a block: not before its keys, before those of the next

Least(S) == IF S = {} THEN 0 ELSE CHOOSE e \in S : \A f \in S : e <= f
Greatest(S) == IF S = {} THEN 0 ELSE CHOOSE e \in S : \A f \in S : e >= f

AllKeys == UNION {KeysOf[b] : b \in Blocks}

VARIABLES unreadable, \* blocks that cannot be read
          empty,      \* blocks without keys
          it,         \* index_iter_, data_iter_ (block and position), status_
          view,       \* key the iterator should be at, 0 if none
          met         \* was an unreadable block met?

vars == <<unreadable, empty, it, view, met>>

NoBlock == 0
NewTwoLevelIterator == [index |-> NoBlock, data |-> NoBlock, at |-> 0, status |-> "ok"]

Init == /\ unreadable \in SUBSET Blocks /\ empty \in SUBSET (Blocks \ unreadable)
        /\ it = NewTwoLevelIterator /\ view = 0 /\ met = FALSE

(* Keys block_function gives for a handle.                                     *)
Read(b) == IF b \in unreadable \union empty THEN {} ELSE KeysOf[b]

(* status() of the data iterator.                                              *)
DataStatus(i) == IF i.data \in unreadable THEN "error" ELSE "ok"

(* SetDataIterator, with SaveError of the one that is replaced.                *)
SetDataIterator(i, b) ==
    [i EXCEPT !.data = b, !.at = 0, !.status = IF @ = "ok" THEN DataStatus(i) ELSE @]

(* InitDataBlock: the block of the index entry, unless it is the one we have.  *)
InitDataBlock(i) == IF i.index = NoBlock THEN SetDataIterator(i, NoBlock)
                    ELSE IF i.data = i.index THEN i
                    ELSE SetDataIterator(i, i.index)

Open(i, b) == InitDataBlock([i EXCEPT !.index = b])
ToFirst(i) == [i EXCEPT !.at = Least(Read(i.data))]
ToLast(i) == [i EXCEPT !.at = Greatest(Read(i.data))]
IndexNext(b) == Least({c \in Blocks : c > b})
IndexPrev(b) == Greatest({c \in Blocks : c < b})

DataFirst(i) == IF i.data = NoBlock THEN i ELSE ToFirst(i)
DataLast(i) == IF i.data = NoBlock THEN i ELSE ToLast(i)

RECURSIVE SkipEmptyDataBlocksForward(_)
SkipEmptyDataBlocksForward(i) ==
    IF i.data # NoBlock /\ i.at # 0 THEN i
    ELSE IF i.index = NoBlock THEN SetDataIterator(i, NoBlock)
    ELSE SkipEmptyDataBlocksForward(DataFirst(Open(i, IndexNext(i.index))))

RECURSIVE SkipEmptyDataBlocksBackward(_)
SkipEmptyDataBlocksBackward(i) ==
    IF i.data # NoBlock /\ i.at # 0 THEN i
    ELSE IF i.index = NoBlock THEN SetDataIterator(i, NoBlock)
    ELSE SkipEmptyDataBlocksBackward(DataLast(Open(i, IndexPrev(i.index))))

Skip(i) == SkipEmptyDataBlocksForward(i)

Readable == UNION {Read(b) : b \in Blocks}

(* An unreadable block was entered on the way.                                 *)
Touched(i) == i.status = "error" \/ DataStatus(i) = "error"

Move(i, key, bad) == /\ it' = i /\ view' = key /\ met' = (met \/ bad)
                     /\ UNCHANGED <<unreadable, empty>>

(* Unreadable blocks between two positions of the index.                       *)
BadBetween(a, b) == \E c \in unreadable : a <= c /\ c <= b
LastBlock == Greatest(Blocks)
BlockOf(key, none) == IF key = 0 THEN none ELSE CHOOSE b \in Blocks : key \in KeysOf[b]

SeekBlock(target) == Least({b \in Blocks : Separator[b] >= target})

Seek(target) ==
    LET b == SeekBlock(target)
        i == Open(it, b)
        key == Least({k \in Readable : k >= target})
    IN  Move(Skip(IF i.data = NoBlock THEN i ELSE [i EXCEPT !.at = Least({k \in Read(i.data) : k >= target})]),
             key, b # NoBlock /\ BadBetween(b, BlockOf(key, LastBlock)))

SeekToFirst == LET key == Least(Readable)
               IN  Move(Skip(DataFirst(Open(it, Least(Blocks)))), key, BadBetween(1, BlockOf(key, LastBlock)))

SeekToLast == LET key == Greatest(Readable)
              IN  Move(SkipEmptyDataBlocksBackward(DataLast(Open(it, Greatest(Blocks)))), key,
                       BadBetween(BlockOf(key, 1), LastBlock))

IterNext == /\ view # 0
            /\ LET key == Least({k \in Readable : k > view})
               IN  Move(Skip([it EXCEPT !.at = Least({k \in Read(it.data) : k > it.at})]), key,
                        BadBetween(BlockOf(view, 1), BlockOf(key, LastBlock)))

IterPrev == /\ view # 0
            /\ LET key == Greatest({k \in Readable : k < view})
               IN  Move(SkipEmptyDataBlocksBackward([it EXCEPT !.at = Greatest({k \in Read(it.data) : k < it.at})]),
                        key, BadBetween(BlockOf(key, 1), BlockOf(view, 1)))

Next == \/ SeekToFirst \/ SeekToLast \/ IterNext \/ IterPrev
        \/ \E target \in 1..Greatest(AllKeys) + 1 : Seek(target)

Spec == Init /\ [][Next]_vars
-----------------------------------------------------------------------------
(* Whatever blocks are empty or unreadable, the iterator is at the key of the  *)
(* readable blocks that it should be at.                                       *)
AtRightKey == IF view = 0 THEN it.data = NoBlock \/ it.at = 0 ELSE it.data # NoBlock /\ it.at = view

(* status() is an error if, and only if, an unreadable block was met on the    *)
(* way: a scan never looks complete when it left out a block, and a block that *)
(* was not needed is not reported.                                             *)
ErrorsKept == Touched(it) <=> met
=============================================================================
