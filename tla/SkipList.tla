------------------------------ MODULE SkipList ------------------------------
(* leveldb, db/skiplist.h: the list of a memtable, which one writer extends    *)
(* while readers walk it without a lock.                                       *)
(* Memory is the log of the writer's stores.  A reader has seen the stores up  *)
(* to its floor; a load may return the newest of those to its location or any  *)
(* later one, and an acquire load raises the floor to the store it returns     *)
(* (release/acquire with a single writer).  A reader that takes the database's *)
(* mutex has seen all that the writer had stored when it last released it.     *)
(* Readers do not affect one another, so there is one.                         *)
EXTENDS Naturals, Sequences

CONSTANTS Keys,       \* positive numbers; a node is named by its key
          MaxHeight,  \* kMaxHeight
          MaxSearches \* bound: searches the reader makes

Head_ == 0            \* head_
Nil == 1000           \* nullptr, which sorts after all keys

VARIABLES log,      \* stores of the writer, oldest first
          w,        \* the writer's Insert
          unlocked, \* length of the log when the writer last released the mutex
          r         \* the reader's search and its iterator

vars == <<log, w, unlocked, r>>

Levels == 1..MaxHeight
Next_(n, l) == <<n, l>>         \* next_[l - 1] of node n
max_height_ == <<Head_, 0>>
Store(loc, v) == [loc |-> loc, val |-> v]

(* The iterator's constructor: no node, so not Valid().                        *)
NewIterator == [at |-> "done", op |-> "none", target |-> Head_, node |-> Nil, x |-> Head_, level |-> 0,
                floor |-> MaxHeight + 1, must |-> {}, found |-> FALSE, searches |-> 0]
Valid == r.node # Nil

(* The constructor: all links of head_ are null, max_height_ is 1.             *)
Init == /\ log = [l \in Levels |-> Store(Next_(Head_, l), Nil)] \o <<Store(max_height_, 1)>>
        /\ w = [at |-> "idle", key |-> 0, height |-> 0, level |-> 0, prev |-> <<>>]
        /\ unlocked = MaxHeight + 1
        /\ r = NewIterator

StoresTo(loc) == {i \in 1..Len(log) : log[i].loc = loc}
Newest(S) == CHOOSE i \in S : \A j \in S : j <= i
Value(loc) == log[Newest(StoresTo(loc))].val    \* what the writer reads

(* "null n is considered infinite"                                             *)
KeyIsAfterNode(key, n) == n # Nil /\ n < key
-----------------------------------------------------------------------------
(* FindGreaterOrEqual(key, prev), by the writer: the last node before key at   *)
(* every level, lowest level first.                                            *)
FindPrev(key) ==
    LET f[x \in Keys \union {Head_}, level \in Levels] ==
            LET next == Value(Next_(x, level))
            IN  IF KeyIsAfterNode(key, next) THEN f[next, level]
                ELSE IF level = 1 THEN <<x>> ELSE Append(f[x, level - 1], x)
    IN  f[Head_, Value(max_height_)]

(* RandomHeight: any height up to kMaxHeight.                                  *)
RandomHeight == Levels

(* prev, with head_ for the levels the list has not had before.                *)
PrevUpTo(height, prev) == [l \in 1..height |-> IF l <= Len(prev) THEN prev[l] ELSE Head_]

(* max_height_.store, relaxed.                                                 *)
RaiseMaxHeight(height) == IF height > Value(max_height_) THEN Append(log, Store(max_height_, height)) ELSE log

(* NewNode: its links are not initialised, so memory has no store to them.     *)
NewNode(key, height, prev) == [at |-> "own", key |-> key, height |-> height, level |-> 1, prev |-> prev]

Insert(key) ==
    /\ w.at = "idle" /\ StoresTo(Next_(key, 1)) = {}
    /\ \E height \in RandomHeight : /\ w' = NewNode(key, height, PrevUpTo(height, FindPrev(key)))
                                    /\ log' = RaiseMaxHeight(height)
    /\ UNCHANGED <<unlocked, r>>

(* The i-th level the node is linked at.                                       *)
LinkLevel(i) == i

(* x->NoBarrier_SetNext(i, prev[i]->NoBarrier_Next(i))                         *)
SetOwn == LET l == LinkLevel(w.level)
          IN  /\ w.at = "own" /\ w' = [w EXCEPT !.at = "publish"]
              /\ log' = Append(log, Store(Next_(w.key, l), Value(Next_(w.prev[l], l))))
              /\ UNCHANGED <<unlocked, r>>

(* prev[i]->SetNext(i, x)                                                      *)
Publish == LET l == LinkLevel(w.level)
           IN  /\ w.at = "publish"
               /\ log' = Append(log, Store(Next_(w.prev[l], l), w.key))
               /\ w' = [w EXCEPT !.at = IF w.level = w.height THEN "linked" ELSE "own",
                                 !.level = w.level + 1]
               /\ UNCHANGED <<unlocked, r>>

(* Insert has returned; DBImpl::Write takes the mutex and releases it.         *)
Unlock == /\ w.at = "linked" /\ unlocked' = Len(log)
          /\ w' = [w EXCEPT !.at = "idle", !.prev = <<>>] /\ UNCHANGED <<log, r>>
-----------------------------------------------------------------------------
(* Stores a load of the reader may return; 0 is the uninitialised memory.      *)
Visible(loc) == LET old == {i \in StoresTo(loc) : i <= r.floor}
                IN  (StoresTo(loc) \ old) \union {IF old = {} THEN 0 ELSE Newest(old)}

(* Slip: a relaxed load.                                                       *)
Unordered(i) == r.floor

(* What the reader has seen after an acquire load of store i.                  *)
Acquire(i) == IF i > r.floor THEN i ELSE r.floor

(* Keys the reader has seen linked.                                            *)
Linked(floor) == {log[i].val : i \in {j \in 1..floor : log[j].loc[2] = 1}} \ {Nil}

(* DBImpl::Get and NewIterator take the mutex before they read.                *)
LockMutex == /\ r.at = "done" /\ r.floor < unlocked /\ r' = [r EXCEPT !.floor = unlocked]
             /\ UNCHANGED <<log, w, unlocked>>

(* GetMaxHeight, relaxed: any height the reader may still see.                 *)
GetMaxHeight == {log[i].val : i \in Visible(max_height_)}

Begin(op, target, x, levels) ==
    /\ r.at = "done" /\ r.searches < MaxSearches
    /\ \E level \in levels :
          r' = [r EXCEPT !.at = "walk", !.op = op, !.target = target, !.x = x, !.level = level,
                         !.must = Linked(r.floor), !.searches = @ + 1]
    /\ UNCHANGED <<log, w, unlocked>>

Seek(target) == Begin("seek", target, Head_, GetMaxHeight)
Contains(key) == Begin("contains", key, Head_, GetMaxHeight)
SeekToFirst == Begin("first", Head_, Head_, {1})
SeekToLast == Begin("last", Nil, Head_, GetMaxHeight)
IterNext == Valid /\ Begin("next", r.node, r.node, {1})
IterPrev == Valid /\ Begin("prev", r.node, Head_, GetMaxHeight)
-----------------------------------------------------------------------------
(* "Switch to next list"                                                       *)
LowerLevel(l) == l - 1

(* One turn of a search loop, at a node s.x whose link leads to n: on to n,    *)
(* down a level, or the end of the search at result.                           *)
Turn(s, goOn, n, result) == IF goOn THEN [s EXCEPT !.x = n]
                            ELSE IF s.level > 1 THEN [s EXCEPT !.level = LowerLevel(@)]
                            ELSE result

Done(s, node) == [s EXCEPT !.at = "done", !.node = node]
NotHead(n) == IF n = Head_ THEN Nil ELSE n

(* Seek takes the node as it is; Contains compares its key.                    *)
ContainsEnd(s, n) == [s EXCEPT !.at = "done", !.found = (n # Nil /\ n = s.target)]
FindGreaterOrEqual(s, n) ==
    Turn(s, KeyIsAfterNode(s.target, n), n, IF s.op = "contains" THEN ContainsEnd(s, n) ELSE Done(s, n))

(* Prev and SeekToLast have no node if the search ends at head_.               *)
FindLessThan(s, n) == Turn(s, n # Nil /\ n < s.target, n, Done(s, NotHead(s.x)))
FindLast(s, n) == Turn(s, n # Nil, n, Done(s, NotHead(s.x)))

(* The load of a link and what the reader's operation does with it.            *)
Load == /\ r.at = "walk"
        /\ \E i \in Visible(Next_(r.x, r.level)) :
              IF i = 0 THEN r' = [r EXCEPT !.at = "uninitialised"]
              ELSE LET n == log[i].val
                       s == [r EXCEPT !.floor = Acquire(i)]
                   IN  r' = CASE r.op \in {"seek", "contains"} -> FindGreaterOrEqual(s, n)
                              [] r.op = "prev" -> FindLessThan(s, n)
                              [] r.op = "last" -> FindLast(s, n)
                              [] OTHER -> Done(s, n)
        /\ UNCHANGED <<log, w, unlocked>>

Next == \/ \E key \in Keys : Insert(key)
        \/ SetOwn \/ Publish \/ Unlock
        \/ \E target \in Keys : Seek(target) \/ Contains(target)
        \/ LockMutex \/ SeekToFirst \/ SeekToLast \/ IterNext \/ IterPrev \/ Load

Spec == Init /\ [][Next]_vars /\ WF_vars(Load)
-----------------------------------------------------------------------------
(* The nodes of a level, as the writer sees them.                              *)
Level(l) == {k \in Keys : \E n \in Keys \union {Head_} : StoresTo(Next_(n, l)) # {} /\ Value(Next_(n, l)) = k}

(* After every single store of Insert, each level is in order and is a part of *)
(* the level below it, with no node but the new one missing.                   *)
LevelsNested ==
    /\ \A l \in Levels \ {1} : Level(l) \subseteq Level(l - 1)
    /\ \A l \in Levels, n \in Keys : StoresTo(Next_(n, l)) # {} => Value(Next_(n, l)) > n
    /\ w.at = "idle" => \A k \in Keys : StoresTo(Next_(k, 1)) # {} => k \in Level(1)

(* A reader never follows a link of a node that was not initialised: the       *)
(* release store that publishes a node and the acquire load that finds it      *)
(* order them, and max_height_ needs no order.                                 *)
NoUninitialised == r.at # "uninitialised"

(* Seek, SeekToFirst and Next end on a node in the right place that misses no  *)
(* key the reader had seen linked before it began, whatever is inserted        *)
(* meanwhile.                                                                  *)
ForwardRight == r.at = "done" /\ r.op \in {"seek", "first", "next"} =>
    /\ r.node >= r.target /\ (r.op = "next" => r.node > r.target)
    /\ \A k \in r.must : (k < r.target) \/ (r.op = "next" /\ k = r.target) \/ k >= r.node

(* Contains finds every key the reader had seen linked before it began, and    *)
(* only keys that were linked.                                                 *)
ContainsRight == r.at = "done" /\ r.op = "contains" =>
    (r.target \in r.must => r.found) /\ (r.found => r.target \in Linked(Len(log)))

(* Prev and SeekToLast likewise, before the target.                           *)
BackwardRight == r.at = "done" /\ r.op \in {"prev", "last"} =>
    LET n == IF r.node = Nil THEN Head_ ELSE r.node
    IN  n < r.target /\ \A k \in r.must : k <= n \/ k >= r.target

=============================================================================
