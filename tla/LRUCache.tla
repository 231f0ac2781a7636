------------------------------ MODULE LRUCache ------------------------------
(* leveldb, util/cache.cc: the cache of blocks and of open tables.  Each       *)
(* method of a shard runs under the mutex of the shard.  In the second half,   *)
(* db/table_cache.cc: open tables, kept in such a cache and shared by reading  *)
(* threads.  A thread looks, opens the file if the table is not there, and     *)
(* puts it in the cache; others may do the same in between.                    *)
EXTENDS Naturals, Sequences, FiniteSets, SequencesExt, FiniteSetsExt

CONSTANTS Keys,       \* keys of entries
          Hash,       \* the hash of a key
          NumShards,  \* kNumShards
          Capacity,   \* of the whole cache
          MinLength,  \* buckets of an empty table (4)
          Charges,    \* charges of entries
          MaxEntries, \* bound: entries made
          MaxHeld,    \* bound: handles of one entry a client holds
          Threads,     \* readers and the compaction
          MaxIterators \* bound: iterators a thread opens

VARIABLES cache,  \* shards
          held,   \* entry -> number of handles out
          open,   \* whether the cache exists
          exists, \* table files of the database
          pc,     \* thread -> what it does, with which file and entry
          iters   \* thread -> entries of the iterators it has open

vars == <<cache, held, open, exists, pc, iters>>

Shards == 0..(NumShards - 1)

(* Shard takes the high bits of a hash, a bucket the low ones.                 *)
Shard(k) == (Hash[k] \div 2) % NumShards

(* ShardedLRUCache's constructor.                                              *)
PerShard == (Capacity + (NumShards - 1)) \div NumShards

(* LRUHandle.  Entries are numbered over all shards as they are made.          *)
Handle(k, charge) == [key |-> k, charge |-> charge, inCache |-> FALSE, refs |-> 1, freed |-> 0]

(* LRUCache and HandleTable: h the entries, lru oldest first, inUse in no      *)
(* order, buckets the chains of the hash table.                                *)
EmptyShard == [h |-> <<>>, lru |-> <<>>, inUse |-> {}, usage |-> 0, elems |-> 0,
               buckets |-> [b \in 0..(MinLength - 1) |-> <<>>]]

Init == /\ cache = [s \in Shards |-> EmptyShard]
        /\ held = <<>>
        /\ open = TRUE
-----------------------------------------------------------------------------
(* HandleTable.                                                                *)

Length(c) == Cardinality(DOMAIN c.buckets)
Bucket(c, k) == Hash[k] % Length(c)

(* FindPointer: the place of a key in its chain; 0 if it is not there.         *)
FindPointer(c, k) == LET chain == c.buckets[Bucket(c, k)]
                         there == {i \in DOMAIN chain : c.h[chain[i]].key = k}
                     IN  IF there = {} THEN 0 ELSE Min(there)

(* The entry of a key; 0 for none.                                             *)
TableLookup(c, k) == LET i == FindPointer(c, k)
                     IN  IF i = 0 THEN 0 ELSE c.buckets[Bucket(c, k)][i]

NewBucket(c, e, n) == Hash[c.h[e].key] % n

(* Resize: twice as many buckets until there are as many as entries; every     *)
(* entry goes to the front of its new chain.                                   *)
Resize(c) ==
    LET n == CHOOSE m \in {MinLength * (2^k) : k \in 0..MaxEntries} :
               m >= c.elems /\ (m = MinLength \/ m \div 2 < c.elems)
        order == FlattenSeq([b \in 1..Length(c) |-> c.buckets[b - 1]])
    IN  [c EXCEPT !.buckets = [b \in 0..(n - 1) |->
            Reverse(SelectSeq(order, LAMBDA e : NewBucket(c, e, n) = b))]]

(* Insert: takes the place of an entry with the same key, which is returned.   *)
TableInsert(c, e) ==
    LET k == c.h[e].key
        i == FindPointer(c, k)
        b == Bucket(c, k)
        c1 == [c EXCEPT !.elems = @ + 1, !.buckets[b] = Append(@, e)]
    IN  IF i # 0 THEN [c EXCEPT !.buckets[b][i] = e]
        ELSE IF c1.elems > Length(c) THEN Resize(c1) ELSE c1

TableRemove(c, k) ==
    LET i == FindPointer(c, k)
    IN  IF i = 0 THEN c
        ELSE [c EXCEPT !.elems = @ - 1, !.buckets[Bucket(c, k)] = RemoveAt(@, i)]
-----------------------------------------------------------------------------
(* LRUCache.                                                                   *)

(* LRU_Remove: from the list the entry is in.                                  *)
LRU_Remove(c, e) == [c EXCEPT !.lru = SelectSeq(@, LAMBDA x : x # e), !.inUse = @ \ {e}]

Ref(c, e) ==
    LET c1 == IF c.h[e].refs = 1 /\ c.h[e].inCache
              THEN [LRU_Remove(c, e) EXCEPT !.inUse = @ \union {e}] ELSE c
    IN  [c1 EXCEPT !.h[e].refs = @ + 1]

(* Unref: without references an entry is given to its deleter and freed; with  *)
(* only the cache's it becomes the newest that may be evicted.                 *)
Unref(c, e) ==
    LET c1 == [c EXCEPT !.h[e].refs = @ - 1]
    IN  IF c1.h[e].refs = 0 THEN [c1 EXCEPT !.h[e].freed = @ + 1]
        ELSE IF c1.h[e].inCache /\ c1.h[e].refs = 1
             THEN [LRU_Remove(c1, e) EXCEPT !.lru = Append(@, e)]
        ELSE c1

(* FinishErase: the entry has been taken from the table.                       *)
FinishErase(c, e) ==
    IF e = 0 THEN c
    ELSE Unref([LRU_Remove(c, e) EXCEPT !.h[e].inCache = FALSE, !.usage = @ - c.h[e].charge], e)

EraseKey(c, k) == FinishErase(TableRemove(c, k), TableLookup(c, k))

(* Slip: the newest entry is evicted.                                          *)
Newest(c) == c.lru[Len(c.lru)]

Oldest(c) == c.lru[1]

RECURSIVE EvictWhile(_, _)

(* The loop of Insert and, with a limit of 0, that of Prune.                   *)
EvictWhile(c, limit) ==
    IF c.lru # <<>> /\ (limit = 0 \/ c.usage > limit)
    THEN EvictWhile(EraseKey(c, c.h[Oldest(c)].key), limit) ELSE c

(* Insert: the handle e is new.  Without capacity nothing is kept.             *)
InsertIn(c, e, k, charge) ==
    LET c1 == [c EXCEPT !.h = (e :> Handle(k, charge)) @@ @]
        c2 == [c1 EXCEPT !.h[e].refs = @ + 1, !.h[e].inCache = TRUE,
                         !.inUse = @ \union {e}, !.usage = @ + charge]
        c3 == FinishErase(TableInsert(c2, e), TableLookup(c2, k))
    IN  IF PerShard = 0 THEN c1 ELSE EvictWhile(c3, PerShard)
-----------------------------------------------------------------------------
NewEntry == Cardinality(DOMAIN held) + 1
HeldNow(e) == IF e \in DOMAIN held THEN held[e] ELSE 0
CountHandle(e, n) == held' = (e :> HeldNow(e) + n) @@ held

Insert(k, charge) ==
    /\ open /\ NewEntry <= MaxEntries
    /\ cache' = [cache EXCEPT ![Shard(k)] = InsertIn(@, NewEntry, k, charge)]
    /\ CountHandle(NewEntry, 1) /\ UNCHANGED open

Lookup(k) ==
    /\ open
    /\ LET e == TableLookup(cache[Shard(k)], k)
       IN  /\ e # 0 => held[e] < MaxHeld
           /\ cache' = IF e = 0 THEN cache ELSE [cache EXCEPT ![Shard(k)] = Ref(@, e)]
           /\ IF e = 0 THEN UNCHANGED held ELSE CountHandle(e, 1)
    /\ UNCHANGED open

Release(e) ==
    /\ open /\ held[e] > 0
    /\ \E s \in Shards : e \in DOMAIN cache[s].h /\ cache' = [cache EXCEPT ![s] = Unref(@, e)]
    /\ CountHandle(e, 0 - 1) /\ UNCHANGED open

Erase(k) == /\ open /\ cache' = [cache EXCEPT ![Shard(k)] = EraseKey(@, k)]
            /\ UNCHANGED <<held, open>>

Prune == /\ open /\ cache' = [s \in Shards |-> EvictWhile(cache[s], 0)]
         /\ UNCHANGED <<held, open>>

(* The destructor; the caller has given back all handles.                      *)
RECURSIVE UnrefAll(_, _)

UnrefAll(c, es) == IF es = <<>> THEN c ELSE UnrefAll(Unref([c EXCEPT !.h[Head(es)].inCache = FALSE], Head(es)), Tail(es))

Destroy == /\ open /\ \A e \in DOMAIN held : held[e] = 0
           /\ cache' = [s \in Shards |-> UnrefAll(cache[s], cache[s].lru)]
           /\ open' = FALSE /\ UNCHANGED held

cacheVars == <<cache, held, open>>

Next == \/ \E k \in Keys, charge \in Charges : Insert(k, charge)
        \/ \E k \in Keys : Lookup(k) \/ Erase(k)
        \/ \E e \in DOMAIN held : Release(e)
        \/ Prune \/ Destroy

Spec == Init /\ [][Next]_cacheVars
-----------------------------------------------------------------------------
Entries(s) == DOMAIN cache[s].h

(* An entry counts the handles that are out and the cache's own reference, is  *)
(* given to its deleter once, and that exactly when none is left: nobody holds *)
(* a value that was deleted, and no value is kept that nobody can reach.       *)
Counted == \A s \in Shards : \A e \in Entries(s) :
    LET x == cache[s].h[e]
    IN  /\ x.refs = held[e] + IF x.inCache /\ open THEN 1 ELSE 0
        /\ x.freed = IF x.refs = 0 THEN 1 ELSE 0

(* "All items in the cache are in one list or the other, and never both":      *)
(* unreferenced ones in the LRU list, ones in use in the other.                *)
Lists == open => \A s \in Shards : LET c == cache[s] IN
    /\ ToSet(c.lru) = {e \in Entries(s) : c.h[e].inCache /\ c.h[e].refs = 1}
    /\ c.inUse = {e \in Entries(s) : c.h[e].inCache /\ c.h[e].refs > 1}
    /\ IsInjective(c.lru)

(* The hash table finds the entries in the cache and no other, also after it   *)
(* has grown: for each key the one inserted last, if it is still there.        *)
TableRight == open => \A s \in Shards : LET c == cache[s] IN
    /\ \A e \in Entries(s) : c.h[e].inCache <=> TableLookup(c, c.h[e].key) = e
    /\ c.elems = Cardinality({e \in Entries(s) : c.h[e].inCache})

(* The usage is the sum of the charges of what is in the cache, however        *)
(* entries left it: evicted, erased, or replaced by one of the same key.       *)
Usage == open => \A s \in Shards : LET c == cache[s] IN
    c.usage = MapThenSumSet(LAMBDA e : c.h[e].charge, {e \in Entries(s) : c.h[e].inCache})

(* Insert leaves the usage within the capacity unless everything is in use.    *)
InsertMakesRoom == DOMAIN held' # DOMAIN held =>
    \A s \in Shards : cache'[s] # cache[s] /\ cache'[s].usage > PerShard => cache'[s].lru = <<>>

(* Insert evicts the entries that were released longest ago: whatever stays in *)
(* the LRU list was behind all that left, but for the entry that is replaced.  *)
OldestLeave == DOMAIN held' # DOMAIN held =>
    \A s \in Shards : LET new == Max(DOMAIN held')
                          before == SelectSeq(cache[s].lru, LAMBDA e :
                                      new \in DOMAIN cache'[s].h => cache[s].h[e].key # cache'[s].h[new].key)
                      IN  IsSuffix(cache'[s].lru, before)
-----------------------------------------------------------------------------
(* TableCache.                                                                 *)

Idle == [at |-> "idle", file |-> "none", entry |-> 0, goal |-> "none"]

TableInit == /\ Init /\ exists = Keys
             /\ pc = [t \in Threads |-> Idle]
             /\ iters = [t \in Threads |-> {}]

Go(t, at, file, entry, goal) ==
    pc' = [pc EXCEPT ![t] = [at |-> at, file |-> file, entry |-> entry, goal |-> goal]]

(* FindTable: Lookup.                                                          *)
FindTable(t, f, goal) ==
    /\ pc[t].at = "idle" /\ f \in exists
    /\ goal = "iterator" => Cardinality(iters[t]) < MaxIterators
    /\ Lookup(f)
    /\ LET e == TableLookup(cache[Shard(f)], f)
       IN  Go(t, IF e = 0 THEN "open" ELSE "found", f, e, goal)
    /\ UNCHANGED <<exists, iters>>

(* The file cannot be opened, or is not a table: nothing is cached.            *)
OpenFails(t) == /\ pc[t].at = "open" /\ pc' = [pc EXCEPT ![t] = Idle]
                /\ UNCHANGED <<cache, held, open, exists, iters>>

(* The file and the table are open; they are put in the cache.                 *)
InsertTable(t) ==
    /\ pc[t].at = "open"
    /\ Insert(pc[t].file, 1)
    /\ Go(t, "found", pc[t].file, NewEntry, pc[t].goal)
    /\ UNCHANGED <<exists, iters>>

(* Get: InternalGet on the table, then Release.                                *)
Get(t) == /\ pc[t].at = "found" /\ pc[t].goal = "get"
          /\ Release(pc[t].entry) /\ pc' = [pc EXCEPT ![t] = Idle]
          /\ UNCHANGED <<exists, iters>>

(* NewIterator: the handle goes to the cleanup of the iterator.                *)
NewIterator(t) == /\ pc[t].at = "found" /\ pc[t].goal = "iterator"
                  /\ iters' = [iters EXCEPT ![t] = @ \union {pc[t].entry}]
                  /\ pc' = [pc EXCEPT ![t] = Idle]
                  /\ UNCHANGED <<cache, held, open, exists>>

(* UnrefEntry, when an iterator is deleted.                                    *)
UnrefEntry(t, e) == /\ e \in iters[t] /\ Release(e)
                    /\ iters' = [iters EXCEPT ![t] = @ \ {e}]
                    /\ UNCHANGED <<exists, pc>>

(* The file of an entry.                                                       *)
FileOf(e) == LET s == CHOOSE s \in Shards : e \in DOMAIN cache[s].h IN cache[s].h[e].key

(* Files that are read belong to a version that is referenced, and are not     *)
(* deleted (DBImpl::DeleteObsoleteFiles).                                      *)
InVersion(f) == \E t \in Threads : pc[t].file = f \/ \E e \in iters[t] : FileOf(e) = f

(* Evict, then the file is deleted.                                            *)
Evict(f) == /\ f \in exists /\ ~InVersion(f)
            /\ Erase(f) /\ exists' = exists \ {f}
            /\ UNCHANGED <<pc, iters>>

(* ~TableCache, when the database is closed.                                   *)
CloseCache == /\ \A t \in Threads : pc[t] = Idle /\ iters[t] = {}
              /\ Destroy /\ UNCHANGED <<exists, pc, iters>>

TableNext == \/ \E t \in Threads, f \in Keys, goal \in {"get", "iterator"} : FindTable(t, f, goal)
             \/ \E t \in Threads : OpenFails(t) \/ InsertTable(t) \/ Get(t) \/ NewIterator(t)
             \/ \E t \in Threads : \E e \in iters[t] : UnrefEntry(t, e)
             \/ \E f \in Keys : Evict(f)
             \/ CloseCache

TableSpec == TableInit /\ [][TableNext]_vars
-----------------------------------------------------------------------------
Freed(e) == \E s \in Shards : e \in DOMAIN cache[s].h /\ cache[s].h[e].freed > 0

(* A table that a Get is about to read, or that an iterator reads, is open,    *)
(* also when another thread has opened the same file and taken its place.      *)
TableInUse == \A t \in Threads : /\ pc[t].at = "found" => ~Freed(pc[t].entry)
                                 /\ \A e \in iters[t] : ~Freed(e)

(* A deleted file is not kept open by the cache: its space is given back.      *)
DeletedClosed == \A s \in Shards : \A e \in DOMAIN cache[s].h :
                   cache[s].h[e].key \notin exists => cache[s].h[e].freed = 1

(* Once everyone is done and the database is closed, every table that was ever *)
(* opened has been closed exactly once.                                        *)
AllClosed == ~open => \A s \in Shards : \A e \in DOMAIN cache[s].h : cache[s].h[e].freed = 1
=============================================================================
