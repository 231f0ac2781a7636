----------------------------- MODULE PinnedState -----------------------------
(* Reference counts of DBImpl: a reader takes references to the memtables and *)
(* to the current version under the mutex, reads without it and drops them    *)
(* under it, while writers switch memtables and the background thread         *)
(* replaces versions.  A version counts its holders, a file's metadata the    *)
(* versions (and the builder) it is part of.  Critical sections are atomic.   *)
EXTENDS Integers, Sequences, FiniteSets

CONSTANTS Readers,
          MaxMems, MaxVersions, MaxMetas,   \* bounds: objects created
          MaxCleanups                       \* bound: functions registered with one iterator

Mems     == 1..MaxMems
Versions == 1..MaxVersions
Metas    == 1..MaxMetas
None     == 0

VARIABLES heap,      \* the counts, the files of the versions, what was created and deleted
          mem, imm,  \* mem_, imm_
          current,   \* current_ of the version set
          reader,    \* what each reader holds
          bg,        \* the background thread, its compaction and the version it builds
          error,     \* bg_error_ is set
          closed     \* ~DBImpl has run

vars == <<heap, mem, imm, current, reader, bg, error, closed>>

-----------------------------------------------------------------------------
RefMem(h, m) == IF m = None THEN h ELSE [h EXCEPT !.mrefs[m] = @ + 1]

UnrefMem(h, m) ==
    IF m = None THEN h
    ELSE [h EXCEPT !.mrefs[m] = @ - 1,
                   !.dead.mems = IF h.mrefs[m] <= 1 THEN @ \union {m} ELSE @]

RefVersion(h, v) == [h EXCEPT !.vrefs[v] = @ + 1]

(* One reference to each of the files is dropped.                             *)
DropFiles(h, fs) ==
    [h EXCEPT !.frefs = [f \in Metas |-> IF f \in fs THEN @[f] - 1 ELSE @[f]],
              !.dead.metas = @ \union {f \in fs : h.frefs[f] <= 1}]

(* Version::~Version                                                          *)
DeleteVersion(h, v) == DropFiles([h EXCEPT !.dead.versions = @ \union {v}], h.files[v])

UnrefVersion(h, v) ==
    LET g == [h EXCEPT !.vrefs[v] = @ - 1] IN IF g.vrefs[v] = 0 THEN DeleteVersion(g, v) ELSE g

-----------------------------------------------------------------------------
(* VersionSet::Builder                                                        *)

Fresh(n) == n + 1

(* Apply: the builder holds the first reference to the files it adds.         *)
Apply(h, added) == [h EXCEPT !.frefs = [f \in Metas |-> IF f \in added THEN 1 ELSE @[f]],
                             !.created.metas = @ + Cardinality(added)]

(* SaveTo and MaybeAddFile: every file of the new version gets a reference.   *)
SaveTo(h, v, base, deleted, added) ==
    LET fs == (h.files[base] \union added) \ deleted
    IN  [h EXCEPT !.files[v] = fs,
                  !.frefs = [f \in Metas |-> IF f \in fs THEN @[f] + 1 ELSE @[f]],
                  !.created.versions = v]

(* ~Builder                                                                   *)
DeleteBuilder(h, base, added) == UnrefVersion(DropFiles(h, added), base)

(* The first part of LogAndApply, before the mutex is released.               *)
BuildVersion(h, v, deleted, added) ==
    DeleteBuilder(SaveTo(Apply(RefVersion(h, current), added), v, current, deleted, added),
                  current, added)

(* AppendVersion: the old version loses the reference of the set.             *)
AppendVersion(h, v) == RefVersion(UnrefVersion(h, current), v)

-----------------------------------------------------------------------------
(* Readers.                                                                   *)

NoPins == [mem |-> None, imm |-> None, version |-> None]
Idle   == [kind |-> "none", pins |-> NoPins, children |-> FALSE, cleanups |-> <<>>, ran |-> <<>>,
           registered |-> {}]

(* Slip in NewInternalIterator and Get: the immutable memtable is not pinned. *)
PinWithoutImm(h, p) == RefVersion(RefMem(h, p.mem), p.version)

Pin(h, p) == RefVersion(RefMem(RefMem(h, p.mem), p.imm), p.version)

Unpin(h, p) == UnrefVersion(UnrefMem(UnrefMem(h, p.mem), p.imm), p.version)

AllPins == [mem |-> mem, imm |-> imm, version |-> current]

Quiet == UNCHANGED <<mem, imm, current, bg, error, closed>>

(* Get, up to the point where the mutex is released, and from there on.       *)
GetBegins(r) == /\ reader[r].kind = "none" /\ ~closed
                /\ heap' = Pin(heap, AllPins)
                /\ reader' = [reader EXCEPT ![r] = [Idle EXCEPT !.kind = "get", !.pins = AllPins]]
                /\ Quiet

GetEnds(r) == /\ reader[r].kind = "get"
              /\ heap' = Unpin(heap, reader[r].pins)
              /\ reader' = [reader EXCEPT ![r] = Idle]
              /\ Quiet

(* GetApproximateSizes holds the version only.                                *)
SizesBegins(r) == /\ reader[r].kind = "none" /\ ~closed
                  /\ heap' = RefVersion(heap, current)
                  /\ reader' = [reader EXCEPT ![r] = [Idle EXCEPT !.kind = "sizes", !.pins.version = current]]
                  /\ Quiet

SizesEnds(r) == /\ reader[r].kind = "sizes"
                /\ heap' = UnrefVersion(heap, reader[r].pins.version)
                /\ reader' = [reader EXCEPT ![r] = Idle]
                /\ Quiet

(* Iterator::RegisterCleanup: the head is part of the iterator, a new node    *)
(* comes right after it.                                                      *)
RegisterCleanup(list, c) == IF list = <<>> THEN <<c>> ELSE <<Head(list), c>> \o Tail(list)

(* NewInternalIterator: the children read the memtables and the tables.       *)
NewInternalIterator(r) ==
    /\ reader[r].kind = "none" /\ ~closed
    /\ heap' = Pin(heap, AllPins)
    /\ reader' = [reader EXCEPT ![r] = [Idle EXCEPT !.kind = "iterator", !.pins = AllPins, !.children = TRUE,
                                                    !.cleanups = RegisterCleanup(<<>>, 0),
                                                    !.registered = {0}]]
    /\ Quiet

(* "Clients are allowed to register function/arg1/arg2 triples"               *)
RegisterClient(r) ==
    /\ reader[r].kind = "iterator" /\ Len(reader[r].cleanups) < MaxCleanups
    /\ LET c == Len(reader[r].cleanups)
       IN  reader' = [reader EXCEPT ![r].cleanups = RegisterCleanup(@, c), ![r].registered = @ \union {c}]
    /\ UNCHANGED heap /\ Quiet

(* The destructor of the merging iterator deletes the children first.         *)
DeleteChildren(r) == /\ reader[r].kind = "iterator"
                     /\ reader' = [reader EXCEPT ![r].kind = "deleting", ![r].children = FALSE]
                     /\ UNCHANGED heap /\ Quiet

(* ~Iterator: the next function of the list; 0 is CleanupIteratorState.       *)
RunCleanup(r) ==
    /\ reader[r].kind = "deleting" /\ reader[r].cleanups # <<>>
    /\ LET c == Head(reader[r].cleanups)
       IN  /\ heap' = IF c = 0 THEN Unpin(heap, reader[r].pins) ELSE heap
           /\ reader' = [reader EXCEPT ![r].cleanups = Tail(@), ![r].ran = Append(@, c),
                                       ![r].pins = IF c = 0 THEN NoPins ELSE @]
    /\ Quiet

DeletedIterator(r) == /\ reader[r].kind = "deleting" /\ reader[r].cleanups = <<>>
                      /\ reader' = [reader EXCEPT ![r] = Idle]
                      /\ UNCHANGED heap /\ Quiet

-----------------------------------------------------------------------------
(* MakeRoomForWrite: the memtable becomes the immutable one.                  *)
SwitchMemTable == /\ imm = None /\ ~closed /\ ~error /\ heap.created.mems < MaxMems
                  /\ LET m == Fresh(heap.created.mems)
                     IN  /\ heap' = RefMem([heap EXCEPT !.created.mems = m], m)
                         /\ mem' = m
                  /\ imm' = mem
                  /\ UNCHANGED <<current, reader, bg, error, closed>>

-----------------------------------------------------------------------------
(* The background thread.  input is input_version_ of its compaction, inputs  *)
(* the files of it; base and version are local to CompactMemTable and         *)
(* LogAndApply.                                                               *)

BgIdle == [pc |-> "idle", input |-> None, inputs |-> {}, base |-> None, version |-> None, moved |-> FALSE]

(* Where CompactMemTable returns to: DoCompactionWork calls it too.           *)
Back(b) == IF b.input = None THEN "idle" ELSE "work"

(* CompactMemTable: the table is written without the mutex.                   *)
MemTableBegins == /\ imm # None
                  /\ bg.pc = "work" \/ (bg.pc = "idle" /\ ~error /\ ~closed)
                  /\ heap' = RefVersion(heap, current)
                  /\ bg' = [bg EXCEPT !.pc = "table", !.base = current]
                  /\ UNCHANGED <<mem, imm, current, reader, error, closed>>

(* WriteLevel0Table returns; an empty table is not added.                     *)
MemTableBuilt ==
    /\ bg.pc = "table"
    /\ \E added \in {{}, {Fresh(heap.created.metas)}} :
          /\ added \subseteq Metas /\ heap.created.versions < MaxVersions
          /\ LET v == Fresh(heap.created.versions)
             IN  /\ heap' = BuildVersion(UnrefVersion(heap, bg.base), v, {}, added)
                 /\ bg' = [bg EXCEPT !.pc = "memlog", !.base = None, !.version = v]
    /\ UNCHANGED <<mem, imm, current, reader, error, closed>>

MemTableFails == /\ bg.pc = "table"
                 /\ heap' = UnrefVersion(heap, bg.base)
                 /\ bg' = [bg EXCEPT !.pc = Back(bg), !.base = None]
                 /\ error' = TRUE
                 /\ UNCHANGED <<mem, imm, current, reader, closed>>

(* The manifest is written: the new version is installed and the memtable     *)
(* given up, or the version is deleted.                                       *)
MemTableLogged == /\ bg.pc = "memlog"
                  /\ heap' = UnrefMem(AppendVersion(heap, bg.version), imm)
                  /\ current' = bg.version /\ imm' = None
                  /\ bg' = [bg EXCEPT !.pc = Back(bg), !.version = None]
                  /\ UNCHANGED <<mem, reader, error, closed>>

MemTableNotLogged == /\ bg.pc = "memlog"
                     /\ heap' = DeleteVersion(heap, bg.version)
                     /\ bg' = [bg EXCEPT !.pc = Back(bg), !.version = None]
                     /\ error' = TRUE
                     /\ UNCHANGED <<mem, imm, current, reader, closed>>

(* PickCompaction or CompactRange takes a reference to the current version.   *)
PickCompaction == /\ bg.pc = "idle" /\ imm = None /\ ~error /\ ~closed
                  /\ \E inputs \in SUBSET heap.files[current] \ {{}} :
                        bg' = [BgIdle EXCEPT !.pc = "work", !.input = current, !.inputs = inputs]
                  /\ heap' = RefVersion(heap, current)
                  /\ UNCHANGED <<mem, imm, current, reader, error, closed>>

(* A trivial move replaces the metadata of one file; the mutex is not         *)
(* released before LogAndApply.                                               *)
TrivialMove ==
    /\ bg.pc = "idle" /\ imm = None /\ ~error /\ ~closed
    /\ heap.created.versions < MaxVersions /\ heap.created.metas < MaxMetas
    /\ \E f \in heap.files[current] :
          LET v == Fresh(heap.created.versions)
          IN  /\ heap' = BuildVersion(RefVersion(heap, current), v, {f}, {Fresh(heap.created.metas)})
              /\ bg' = [pc |-> "log", input |-> current, inputs |-> {f}, base |-> None, version |-> v,
                        moved |-> TRUE]
    /\ UNCHANGED <<mem, imm, current, reader, error, closed>>

(* DoCompactionWork has its outputs: at most one here.                        *)
CompactionBuilt ==
    /\ bg.pc = "work" /\ heap.created.versions < MaxVersions
    /\ \E added \in {{}, {Fresh(heap.created.metas)}} :
          /\ added \subseteq Metas
          /\ LET v == Fresh(heap.created.versions)
             IN  /\ heap' = BuildVersion(heap, v, bg.inputs, added)
                 /\ bg' = [bg EXCEPT !.pc = "log", !.version = v]
    /\ UNCHANGED <<mem, imm, current, reader, error, closed>>

CompactionFails == /\ bg.pc = "work"
                   /\ bg' = [bg EXCEPT !.pc = "release"]
                   /\ error' = TRUE
                   /\ UNCHANGED <<heap, mem, imm, current, reader, closed>>

CompactionLogged == /\ bg.pc = "log"
                    /\ heap' = AppendVersion(heap, bg.version)
                    /\ current' = bg.version
                    /\ bg' = [bg EXCEPT !.pc = "release", !.version = None]
                    /\ UNCHANGED <<mem, imm, reader, error, closed>>

CompactionNotLogged == /\ bg.pc = "log"
                       /\ heap' = DeleteVersion(heap, bg.version)
                       /\ bg' = [bg EXCEPT !.pc = "release", !.version = None]
                       /\ error' = TRUE
                       /\ UNCHANGED <<mem, imm, current, reader, closed>>

(* Compaction::ReleaseInputs; the trivial move does without it.               *)
ReleaseInputs(h, b) == IF b.moved THEN [heap |-> h, input |-> b.input]
                       ELSE [heap |-> UnrefVersion(h, b.input), input |-> None]

(* The end of BackgroundCompaction: ReleaseInputs and ~Compaction.            *)
DeleteCompaction == /\ bg.pc = "release"
                    /\ \E released \in {ReleaseInputs(heap, bg)} :
                          heap' = IF released.input = None THEN released.heap
                                  ELSE UnrefVersion(released.heap, released.input)
                    /\ bg' = BgIdle
                    /\ UNCHANGED <<mem, imm, current, reader, error, closed>>

(* ~DBImpl waits for the background thread; "the returned iterator should be  *)
(* deleted before this db is deleted".                                        *)
Close == /\ ~closed /\ bg.pc = "idle" /\ \A r \in Readers : reader[r].kind = "none"
         /\ heap' = UnrefMem(UnrefMem(UnrefVersion(heap, current), mem), imm)
         /\ mem' = None /\ imm' = None /\ current' = None /\ closed' = TRUE
         /\ UNCHANGED <<reader, bg, error>>

-----------------------------------------------------------------------------
(* An open database: one memtable, one version with no files.                 *)
Init == /\ heap = [mrefs |-> [m \in Mems |-> IF m = 1 THEN 1 ELSE 0],
                   vrefs |-> [v \in Versions |-> IF v = 1 THEN 1 ELSE 0],
                   frefs |-> [f \in Metas |-> 0],
                   files |-> [v \in Versions |-> {}],
                   created |-> [mems |-> 1, versions |-> 1, metas |-> 0],
                   dead |-> [mems |-> {}, versions |-> {}, metas |-> {}]]
        /\ mem = 1 /\ imm = None /\ current = 1
        /\ reader = [r \in Readers |-> Idle]
        /\ bg = BgIdle /\ error = FALSE /\ closed = FALSE

Next == \/ \E r \in Readers : \/ GetBegins(r) \/ GetEnds(r) \/ SizesBegins(r) \/ SizesEnds(r)
                              \/ NewInternalIterator(r) \/ RegisterClient(r) \/ DeleteChildren(r)
                              \/ RunCleanup(r) \/ DeletedIterator(r)
        \/ SwitchMemTable
        \/ MemTableBegins \/ MemTableBuilt \/ MemTableFails \/ MemTableLogged \/ MemTableNotLogged
        \/ PickCompaction \/ TrivialMove \/ CompactionBuilt \/ CompactionFails
        \/ CompactionLogged \/ CompactionNotLogged \/ DeleteCompaction
        \/ Close

Spec == Init /\ [][Next]_vars

-----------------------------------------------------------------------------
Pinned(field) == {reader[r].pins[field] : r \in Readers}

HeldVersions == (Pinned("version") \union {current, bg.input, bg.base, bg.version}) \ {None}
HeldMems     == (Pinned("mem") \union Pinned("imm") \union {mem, imm}) \ {None}
HeldMetas    == UNION {heap.files[v] : v \in HeldVersions}

(* Get, NewInternalIterator, GetApproximateSizes, CompactMemTable and         *)
(* DoCompactionWork read without the mutex: no memtable, version or file      *)
(* metadata they can reach is deleted meanwhile by a writer that switches     *)
(* memtables or a thread that installs a version; the inputs a trivial move   *)
(* logs after LogAndApply are alive too.                                      *)
PinnedAlive == /\ HeldMems \intersect heap.dead.mems = {}
               /\ HeldVersions \intersect heap.dead.versions = {}
               /\ (HeldMetas \union bg.inputs) \intersect heap.dead.metas = {}

(* What nobody holds has been deleted, in particular after a failed           *)
(* LogAndApply: an old version that stayed in the list would keep its files   *)
(* on disk for ever (AddLiveFiles), and ~VersionSet asserts that the list is  *)
(* empty.                                                                     *)
Collected == /\ (1..heap.created.mems) \ heap.dead.mems \subseteq HeldMems
             /\ (1..heap.created.versions) \ heap.dead.versions \subseteq HeldVersions
             /\ (1..heap.created.metas) \ heap.dead.metas \subseteq HeldMetas

(* The assertions of Unref and ~Version: no reference is dropped twice.       *)
NeverBelowZero == /\ \A m \in Mems : heap.mrefs[m] >= 0
                  /\ \A v \in Versions : heap.vrefs[v] >= 0
                  /\ \A f \in Metas : heap.frefs[f] >= 0

(* iterator.h: the functions registered "will be invoked when this iterator   *)
(* is destroyed": each of them, once, the first one first.                    *)
CleanupsRun == \A r \in Readers : LET t == reader[r] IN
                  t.kind = "deleting" /\ t.cleanups = <<>> =>
                      /\ {t.ran[i] : i \in 1..Len(t.ran)} = t.registered
                      /\ Len(t.ran) = Cardinality(t.registered)
                      /\ t.ran[1] = 0
=============================================================================
