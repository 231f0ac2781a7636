# iOS Applicant Form: a TLA+ verification project

The program is an iPad form. An applicant fills in four text fields and fifteen
skill scores (0 to 50). Each edit is validated, kept in a Core Data store, and
sent to a Firebase Realtime Database under the id of the form. *Submit* sends the
form once more, deletes it locally and starts a blank one.

The repository contains the application and, vendored under `Pods`, the sources
of the Firebase client it stands on: the database client itself
(`FirebaseDatabase`), the key-value store that client is built with
(`leveldb-library`), and the protocol buffer library of Firebase's transport
(`nanopb`). All four are modelled.

Paths below are relative to `src/iOS Applicant Form/iOS Applicant Form/` or,
for the vendored parts, to `src/iOS Applicant Form/Pods/`.

## 1. The system

### Parts, state and operations

| part | source | state | operations |
|---|---|---|---|
| persistence | `Service/CoreDataService.swift`, `Form+CoreDataProperties.swift` | the sqlite file, the managed object context, the loaded `form` | `load`, `makeNewBlankForm`, `delete`, `saveContext`; `updateFrom`, `setForm`, `insertForm` (no callers) |
| form view model | `ViewModel/FormViewModel.swift` | `model` (the managed object), 19 published properties, its subscriptions | property observers, `cellDidChange`, `setFielInfo`, `configureOutputs`, `updateRemote`, `submit` |
| row view models | `ViewModel/CellViewModel.swift`, `Model/CellModel.swift`, `enum/FormCellType.swift` | `value` of the row, its subscriptions | `makeBinding`, `textDidChange`, `validateValue`, `cellFor` |
| cells | `View/FieldTableViewCell.swift`, `View/LabelAndFieldTableViewCell.swift` | the text of the field, the row it shows, the publisher `didChange`, a subscription to the row's `$value` | the IBActions `editingDidBegin`, `editingChanged`, `editingDidEnd` |
| form screen | `Controller/FormViewController*.swift` | the view model, the rows read from `Resources/form.plist` | `viewDidLoad`, the table data source, `submitButtonTouchUpAction` |
| Firebase writer | `Service/FirebaseService.swift` | a reference to the database | `update`; `load` (no callers) |
| life cycle | `AppDelegate.swift`, `SceneDelegate.swift` | a container of its own | launch, background save |
| Firebase repo | `FirebaseDatabase/Firebase/Database/Core/FRepo.m`, `FWriteTree.m` | pending writes, transaction queue, what the listener was told | sets, transactions with reruns and aborts, purge, answers and pushed data |
| Firebase connection | `.../Core/FPersistentConnection.m`, `Utilities/FIRRetryHelper.m`, `Realtime/FConnection.m` | connection state, interrupt reasons, token fetches, outstanding writes, listens and onDisconnect operations | connect, authenticate, retry, resend, acknowledge, cancel, purge |
| leveldb write path | `leveldb-library/db/db_impl.cc` | the writers' queue, memtables, log, background state | `Write` with group commit, `MakeRoomForWrite`, background scheduling, `CompactRange`, close |
| leveldb compaction | `db/version_set.cc`, `db_impl.cc` | versions (levels of tables), snapshots, compaction pointers | flush, choice of inputs, merge and dropping, trivial moves, seek and manual compactions, `Get`, `GetApproximateSizes` |
| leveldb recovery | `db_impl.cc`, `version_set.cc`, `filename.cc`, `builder.cc` | logs, tables, MANIFESTs, CURRENT | open, log replay, installing versions, deleting obsolete files |
| leveldb repair | `db/repair.cc` | a database without descriptor | `RepairDB` |
| leveldb logs, edits, codings, checksums | `db/log_*.cc`, `version_edit.cc`, `util/coding.cc`, `util/crc32c.cc` | bytes of files | encoders and decoders |
| leveldb memory | `db/skiplist.h`, `memtable.cc`, `write_batch.cc` | the lock-free list, batches | insert, search, iterate |
| leveldb functions for C | `db/c.cc` | handles, and the strings and objects the caller has to free | open, read, write, iterate, snapshot, free |
| leveldb tables | `table/*.cc`, `util/bloom.cc`, `util/cache.cc`, `db/table_cache.cc` | blocks, filters, open tables, caches | build, open, look up, iterate, evict |
| leveldb iterators | `db/db_iter.cc`, `table/merger.cc`, `table/two_level_iterator.cc` | positions and directions | `Seek`, `Next`, `Prev`, ... |
| leveldb environment | `util/env_posix.cc` | buffers, record locks, limiters, the background thread | `Append`, `Flush`, `Sync`, `LockFile`, `Schedule` |
| nanopb | `nanopb/pb_decode.c`, `pb_encode.c`, `pb_common.c` | streams, destination structures, allocated memory | decode, encode, measure, release |
| transport messages | `GoogleDataTransportCCTSupport/.../GDTCCTNanopbHelpers.m`, `cct.nanopb.c` | the tables of fields of requests and answers | put a request together from events, encode it; decode an answer |
| base 64 | `FirebaseDatabase/.../SocketRocket/fbase64.c` | none | encode, decode |

`View/ButtonTableViewCell.swift` is used by no row of the plist and
`Model/FormDataModel.swift` by no code. The test targets are empty templates.

### How the parts interact

    text field --editingDidEnd--> cell.didChange --(main queue)--> row.value
       ^                                                              |
       | $value (label cells, once edited)          row.didChange (main queue)
       +------------- row.value <--- published property <--- FormViewModel
                                                              |         |
                                                  saveContext v         v updateRemote
                                                        sqlite file   FirebaseService
                                                                        |
                                        FRepo --puts--> FPersistentConnection --> server

    client threads --Write--> writers_ queue --> log, memtable --(background
    thread)--> tables, MANIFEST, CURRENT --> files of env_posix

Everything in the application runs on the main thread. There are no data races,
but every hop of a text is a Combine subscription with
`receive(on: DispatchQueue.main)`: the value is put on the main queue, and other
user events (more typing, scrolling, Submit) are handled before it arrives. A
row subscribes to a cell each time that cell is edited, and the view model to a
row each time a text arrives there. Nothing ever cancels these subscriptions, and
cells are reused by the table for other rows. The Firebase client has one serial
queue of its own, on which requests, answers, timers and token callbacks arrive
in any order. leveldb has real threads, one mutex, condition variables, and
code that runs with the mutex released.

### What is hard

* An edit takes two queued hops. Submit, scrolling and further edits come
  between them, and the second hop reads the row's value only when it is served.
* Subscriptions accumulate: one edit is delivered many times, to rows that no
  longer show the cell too.
* A submit makes two durable writes (delete all forms, insert a blank one) and
  one remote write. The process can die between any two, and `load` must recover.
* `try?` turns a failed fetch into "no form".
* Writes that were sent but not answered are sent again on the next connection,
  when the server may have applied them.
* One leveldb writer logs and applies for a whole group with the mutex released,
  and gives its own result to all of them.
* Entries are dropped by compactions while snapshots are being taken and
  released; files are deleted while readers use them.
* The process or the machine dies between any two file operations, and a write to
  a log or a MANIFEST fails half way while the program goes on.

`PROJECT.json` lists the hazards at their lines and the properties aimed at each.

## 2. Modules

| modules | model |
|---|---|
| `FormStore` | abstract: one draft, what is typed and what is durable, atomic submit |
| `CoreDataService` | the persistence layer, step by step, with crashes and failing fetches; refines `FormStore` until a fetch throws |
| `FormEditing` | cells, rows, form view model, main queue, submit, relaunch |
| `FormProofs` | the theorems of these two |
| `FormDelivery` | form view model, store and remote copy composed: a kill between any two steps of a sink or a submit, lost connections, background saves; its theorems are in `MCRemote` |
| `PersistentConnection`, `PersistentConnectionProofs` | `FPersistentConnection` with its `FConnection` and retry helper |
| `RepoTransactions` | `FRepo` and `FWriteTree` at one location |
| `WriteQueue`, `WriteQueueProofs` | `DBImpl::Write`, group commit, background thread, manual compaction, close |
| `SnapshotStore` | abstract: a map with snapshots |
| `Compaction` | memtables, levels and compactions, estimated sizes; refines `SnapshotStore` |
| `CompactionOutput`, `VersionEdit` | the files a compaction writes; the records of the MANIFEST |
| `DBFiles`, `LogFormat`, `Repair` | creation, recovery and deletion of files; the format of logs; `RepairDB` (theorems are at the end of `DBFiles` and of `Repair`) |
| `PinnedState`, `PinnedStateProofs` | reference counts of memtables, versions and files |
| `SkipList`, `MemTable` | the memtable |
| `DBIter`, `TwoLevelIterator` | iterators of users and over tables |
| `Block`, `Table`, `Bloom`, `Comparator` | blocks, tables with filters, the order of keys |
| `LRUCache` | the cache of blocks, and that of open tables on it |
| `WritableFile`, `RandomAccessFiles`, `FileLock`, `BackgroundWork` | `env_posix.cc` |
| `Coding`, `Crc32c` | encodings (base 64 with them), checksums |
| `CBinding` | the functions for C: who owns which string and handle |
| `PbFields`, `PbDecode`, `PbEncode`, `PbFraming` | nanopb, and the messages of Firebase's transport |
| `MCForm`, `MCCore`, `MCRemote`, `MCSupport` | suites: `FormEditing` and `CoreDataService`, and instances of the modules above, for the model checker. The parts of `MCCore` promise safety alone, and the theorems that lift a component's invariant to a suite are there; the parts of `MCRemote` have liveness, and the proofs about the POSIX environment are there |

An operator introduced as "a slip in ..." directly before a definition is a
plausible wrong version of it. No specification uses one. They show that a
property can fail: with the slip in place of the definition TLC finds a
violation.

### `CoreDataService`

`disk` and `context` map each form id to the fields of its object, taken together
as one value, or to `Absent`. `form` is the loaded object, and `pc` says where the
main thread is: the process is `down`, in `load`, in `blank` (about to call
`makeNewBlankForm`), or `idle`. One action is the code up to and including one
durable write, so that `Crash` can come between any two writes.

| action | code |
|---|---|
| `Launch` | `CoreDataService.init` and the call of `load` by `FormViewModel.init` |
| `LoadForm`, `LoadNothing` | the two branches of `load`. The fetch is unsorted, so `forms.first!` is any object |
| `MakeNewBlankForm` | `makeNewBlankForm` with its save; both callers then call `load` |
| `Edit` | the property observers of the view model assign attributes of the object |
| `SaveContext` | `saveContext` |
| `Delete`, `DeleteFails` | the two branches of `delete`, the first up to its `saveContext` |
| `OtherServiceLoad` | `load` in the service of a throw-away view model whose fetch throws |
| `Crash` | the system kills the process, or a `fatalError` |

A UUID is modelled by a counter: ids are never generated twice. `submitted` is a
history variable.

### `FormEditing`

Texts are abstracted to what `Int(_)` and the digit filter tell apart: a decimal
numeral is its number, and the others are the empty text, digits that `Int`
cannot read, and a text without digits. `queue` is the main queue, with one block
for each delivery of a text to a row ("text") or of a row's announcement to the
view model ("form"). `sinks` is, for each cell, the sequence of rows subscribed to
it, and `formSinks` counts the view model's subscriptions to each row. `bound`,
`text` and `watch` are the row a cell shows, the text it shows, and the row whose
`$value` drives it. `typed` and `since` are history variables.

| action | code |
|---|---|
| `EditingDidBegin`, `Field/LabelEditingChanged`, `Field/LabelEditingDidEnd` | the IBActions of the two cells, with everything they call synchronously |
| `CellFor` | the table reuses a cell for a row that scrolls in |
| `TextSink`, `TextSinkTraps` | the sink in `CellViewModel.textDidChange`, and its forced unwrap failing |
| `FormSink` | the sink in `FormViewModel.cellDidChange`: `setFielInfo`, `saveContext`, `updateRemote` |
| `Submit` | `submitButtonTouchUpAction`: `submit`, then `reloadData` |
| `Relaunch` | kill and restart, or restart after a trap; the form comes back from the store |

Two points depend on things outside this repository and are nondeterministic in
the model: whether `reloadData` ends the editing of a focused cell, and which cell
each visible row gets then; and whether the observer of `model` runs for the
assignment in `init`, which decides whether a launch sends the form. The
persistence layer appears as `saved` and `formNo`, with the promise of
`FormStore`: that `CoreDataService` keeps it, as long as fetches succeed, is what the refinement shows.

### `FormDelivery`

The three copies of a form: the object (`model`), the store and what the server
has (`remote`), compared by the number of the last edit. `pc` is the step of the
sink (`setFielInfo`, `saveContext`, `updateRemote`) or of the submit (`submit`,
`delete`, `makeNewBlankForm`, `reload`) that the main thread is at. `Kill` can come
between any two. `outbox` is what the Firebase client has not had answered.
`onDisconnect` and `restoreState` lose the connection and send everything again.
`OtherViewModel` is the throw-away view model that rows and cells make.
`sceneDidEnterBackground` saves the application delegate's own container, which
holds no form. `cut` is a history variable: the forms with a write under way when
the process was killed.

### `PersistentConnection` and `RepoTransactions`

`FPersistentConnection` runs on one serial queue, so a handler is one action; they
keep the names of the methods (`tryScheduleReconnect`, `onReady`, `restoreState`,
`purgeOutstandingWrites`, ...). `RetryFires`, `TokenFetched` and `TokenFailed` are
the callbacks of the timer and of the token provider, `onDataMessage` is any answer
of the server, and `ConnectionLost`, `onKill`, `onAuthRevoked` are what can come
from the socket at any time. `wire` holds the requests of the current connection
until they are answered. The server is external: it takes writes in order, answers
them in order, and answers a listen whenever it can.

`RepoTransactions` is one location of `FRepo`. Its handlers are chains of calls
(`ackWrite`, `rerunTransactions`, `sendAllReadyTransactions`, ...), each an operator
from one state of the record `repo` to the next; an action runs a whole chain. It
uses an abstraction of the connection: up or down. Three history variables
in `repo` name the situations in which the code goes wrong, so that the rest can be
stated without exception for everything else. `overtaken`: the transactions that were
waiting for their answer when a second abort cleared the queue they are in. `broken`: a
write was taken back that is not there; the assertion of `removeWriteId`, or the
index it guards, ends the process, so nothing happens after it. `withheld`: a purge has
found answers that were held back for a listen. The violation runs `block_not_called`
and `purge_twice` show that both situations occur, and what follows.

### The database

* `WriteQueue`: an action is what a thread does between two releases of `mutex_`.
  `group` is the batch group of the front writer, `mem`, `imm`, `log`, `oldLog` and
  `tables` say where each entry is. A thread that waits on a condition variable goes
  on only after a signal (`woken`), so that a lost wakeup is a deadlock.
* `Compaction`: a version is a list of table files for each level; a table is its set
  of entries with its smallest and largest key. `PickCompaction`,
  `AddBoundaryInputs`, `SetupOtherInputs`, `Drops`, `Outputs` and `VersionGet` are
  translations of the methods of those names. `IsSnapshotStore` instantiates
  `SnapshotStore` with the visible value of each key now and at each snapshot.
  `SizesCorrect` is about `ApproximateOffsetOf` and `GetApproximateSizes`.
* `CompactionOutput` cuts outputs, with unreadable inputs and failing files;
  `VersionEdit` builds, encodes, cuts and decodes the records of the MANIFEST.
* `DBFiles`: log, table, MANIFEST and CURRENT files with what of them is synced.
  `Open` is a sequence of one action for each file operation, `flush` and `comp` are
  jobs that run beside it, `Killed` and `PowerFailure` keep all or any synced prefix.
  A MANIFEST write can fail (`LogAndApplyFails`): nothing of the record is there, or a
  piece of it (`torn`), or all but unsynced. `bgError` then stops writes, new
  jobs and the deletion of files, but a compaction that has begun goes on, flushes the
  memtable again if there is one, and installs its results, as in `DoCompactionWork`.
  `must` holds the acknowledged writes that may not be lost.
* `LogFormat`: a byte is the number of the fragment it belongs to. An append can fail
  half way, after which the writer's block offset is ahead of the file. `Damage` and
  `Crash` hit the file; the reader is the code of `ReadPhysicalRecord` and
  `ReadRecord` with its resynchronisation.
* `Repair`: `RepairDB` step by step, with a death before each step of `CrashAt`.
* `PinnedState`: `heap` holds the reference counts of memtables, versions and file
  records, what was created and what was deleted. Readers pin the current memtables
  and version, writers switch memtables, the background thread builds, logs and
  installs versions or gives them up.
* `SkipList`: memory is the log of the writer's stores, of which a reader may have
  seen any prefix that release and acquire allow. `MemTable`: batches and their
  sequence numbers. `DBIter`: the user's iterator over a merging iterator, both directions.
* `Block`, `Table`, `Bloom`, `TwoLevelIterator`, `Comparator`, `LRUCache`: the read
  path, each at the size at which its cases occur. `LRUCache` has the shards, the hash
  table and, on top, the methods of `TableCache`.
* `CBinding`: `heap` is what `malloc` gave out, `errptr` and `given` are what the
  client was handed and has to free; each function of `db/c.cc` is an action.
* `WritableFile`, `RandomAccessFiles`, `FileLock`, `BackgroundWork`: the classes of
  `env_posix.cc` of these names, over system calls that can fail or do less than
  they were asked for. `dropped` in `FileLock` is a history variable: the processes whose
  record lock went while a thread of theirs held the database.

### The suites

Most modules are components of their own. A suite instantiates several, or extends
them (`MCForm`); `part`
is chosen in the initial state and never changes, `x1`, `x2`, ... are the variables
of the component that runs, `Idle` and `Keep` hold the others still. One behaviour
is thus a behaviour of one component, and a property `part = "queue" => ...` is
that component's property. `Parts` in the `.cfg` lists the components. Where
components really share state they are composed in one module instead
(`FormDelivery`, `Compaction`, `DBFiles`, `WriteQueue`).

## 3. What the model checker shows

| run | question | result |
|---|---|---|
| `application` (`MCForm`) | editing, when every row has its own cell; the store, with crashes anywhere and up to two fetches that throw, in `load`, `delete` or a throw-away service | committed texts reach the store, the queue drains; the service implements `FormStore` until a fetch throws, there is one extra form per failure at most, the loaded form exists, submitted forms stay gone, `load` ends (93 607 states) |
| `duplicate_form` | "Load first unique Form" | **violated**: one failed fetch leaves two forms |
| `editing_reuse` | fewer cells than rows, texts that are not numerals | ranges, agreement of the copies and freezing still hold (527 652 states) |
| `cell_reuse` | does a committed text reach only its row? | **violated** |
| `late_text` | is the form after a submit blank? | **violated** |
| `second_edit` | does a cell keep what is typed? | **violated** |
| `remote` (`MCRemote`) | kills, lost connections and retries between the form, the Firebase client and the server; transactions; locks, limits and the background thread of `env_posix.cc`; calls that wait for each other | nothing acknowledged or submitted is lost, writes are answered, transactions complete once and none is lost, unless two aborts overtake it; a lock has one holder, unless a second thread of its process has dropped it; items of work run once and in order, every call returns (102 494 states) |
| `core` (`MCCore`) | the database: concurrency, crashes, failures, damage; the connection: lost, interrupted, answered late | acknowledged writes survive, reads are those of a map with snapshots, references are balanced, estimated sizes are those of the tables, repair and iterators are right; there is one connection, and writes are ordered and complete once (781 701 states) |
| `support` (`MCSupport`) | what the database stands on, and nanopb | what is written is read back, what is cut or damaged is refused, memory, handles and files are used rightly (363 856 states) |
| `lock_lost` (`MCRemote`) | do two processes ever have the same database open? | **violated**, with two threads per process |
| `block_not_called` (`MCRemote`) | is the completion block of every transaction called? | **violated**, by two sets and a stale answer or a lost connection |
| `purge_twice` (`MCRemote`) | is a write taken back once? | **violated**, by a purge while answers are held back |

### Bounds

* `application`, the store: six ids allow five submits in one behaviour; every
  interruption point occurs in the first. Four contents tell typed, saved and blank
  fields apart. Two failures, so that the second meets a store that the first left with
  two forms.
* `application`, editing: one row of each kind, as rows do not interact when they do not share
  cells; two forms, for a submit with work under way; five user events, which are
  two complete edits of a cell and one more. This gives two sinks on a cell and on
  a row, so that duplicated deliveries interleave with a submit and a relaunch.
* `editing_reuse`: two skill rows share one cell; the two field rows have two
  cells, which `reloadData` may exchange. Four events are two edits.
* `remote`: two forms, of which one is submitted; two faults, so that the
  connection is lost while the writes of a lost one are being sent again. `FRepo` is
  checked in three instances: `Repo`, two transactions with two tries each, one set and one
  lost connection; `Sets`, one transaction, two sets and one lost connection, so that
  a second abort meets what the first has marked; `Purge`, one transaction, one
  set, one purge, one lost connection and another client that writes. In the first two the
  update block aborts on the value that its own increment leaves after the set, in the
  third on what the other client writes. Two transactions together with two sets
  or with a purge are not checked. Three threads with one lock or four items of work; two processes of two
  threads each for the table of locks; one mapping and one descriptor for three readers,
  so that the limit is reached; two threads with a call each for the write path.
* `core`: two keys, three updates and a snapshot are enough for an entry to
  be hidden, dropped and still needed by the snapshot; level 0 files overlap from
  the second on. Two deaths of the process, so that recovery itself is interrupted, and one MANIFEST
  write that fails; in `tables` one death, one failure, and a compaction that goes on after
  a nested flush has failed. One append to a log that fails at any byte.
  Records of up to 7 bytes in blocks of 8 with headers of 3 cross one and two block
  boundaries and leave trailers of every length. Two readers, two memtables,
  three versions. For the link, one query and one onDisconnect operation with two
  calls of the application and one fault; for the writes, two writes (a transaction
  and a set) with two faults and a purge.
* `support`: scaled-down widths at which every byte sequence is tried; blocks of
  one to three keys with all restart intervals; capacities of one and two.
* Counters are capped in the guards of the actions that raise them; each bound is
  a constant with "bound" in its comment.

Deadlock is checked in every run but two: the parts of `core` and `support` are
behaviours with an end (a file that is written, a message that is decoded). In
`remote`, `MayStop` allows every part but the delivery of forms to end; that its
calls return is what `CallsReturn` and `WritesAnswered` are for.

### Fairness

* `CoreDataService`: weak fairness of the steps inside `load` and
  `makeNewBlankForm`. The methods are straight-line code on one thread. Nothing
  obliges the user to edit or submit, and nothing makes crashes stop. `LoadEnds`
  therefore ends in "loaded or dead". Failures of fetches are finite.
* `FormEditing`: weak fairness of `Deliver`: the main run loop serves its queue.
* `MCRemote`: as `part` never changes, one conjunct serves several components.
  `Turn1` to `Turn4` are weakly fair: the main thread, the retry timer and the token
  provider go on, the server takes and answers requests, a thread in a call and
  the background thread take their steps. A user who edits, goes offline or
  purges, and every fault, are not fair; faults are finite. `WorkerWakes` is
  strongly fair: the background thread asks for its mutex until it is granted, while
  other threads take and release it.

## 4. What is proved

The theorems hold for every value of the constants that satisfies the
assumptions: the `ASSUME`s of the modules, and `ConstantsOK` where a theorem
names it (bounds are natural numbers, sets of threads and readers are finite,
"none" is not one of them). TLC found each inductive invariant to hold on the
instance of a run before it was proved.

**`FormProofs`: the store.** `ServiceTypeCorrect`, `StoreBounded`, `LoadedFormAlive` and
`SubmittedStaysGone` follow from one inductive invariant, `ServiceInv`. The
properties are not inductive alone:

* `LoadedFormExists` needs `Aligned` (file and context hold the same *set* of
  forms at every step; only field values may differ);
* `SubmittedGone` needs `Generated` (all forms and all submitted ids are below
  `nextId`) so that a new id is not a submitted one, and `NotLoaded`;
* `FormsBounded` needs `Room`: when `makeNewBlankForm` is about to run, the store
  has at most as many forms as there were failures, since `load` gets there only
  from an empty store or by a failure.

`ImplementsDraft` proves `ServiceSpec => KeepsDraft`: every step up to the first fetch
that throws is one of `FormStore`, or none. The mapping takes an empty file for the *next* blank form.
The first save of `delete` is thus the abstract submit, and `makeNewBlankForm`,
now or at the next launch, a stutter. The lemma `UndisturbedStep` says that until then
the only form in the store is the newest.

**`FormProofs`: editing.** `TypeCorrect`, `ScoresStayInRange`, `StaysInStep` and
`QuietSubmitIsBlank` follow from `EditInv`:

* `ValidatedValues`: the value of a skill row has been through `validateValue` or
  was read from the form. `ScoresInRange` needs this because the form sink reads
  the row again, not the queued text;
* `RowsAgree` and `CopiesAgree`: the two halves of `InStep`, for rows with no
  announcement queued and for the stored and sent copies;
* `QuietQueue`: as long as the form is quiet nothing is queued, so nothing can
  reach it.

`CommittedReachesStore` proves `EditReachesStore` from `StoreInv`, under the
assumption `CellsStay` that no cell is handed to another row while the process
lives. The run `cell_reuse` shows that without it the property is false. Its parts:
a committed text is the last one queued for its row or was taken in (`OnItsWay`); a
cell delivers to the row it shows only (`OwnSinks`); and a score cell nobody typed
in shows what its row has (`Untouched`), since the end of an edit commits whatever
is shown. `SubmittedStaysFrozen` is the action property that an update goes to the
current form only. It is proved from typing alone, action by action.

**`MCRemote`: the delivery of forms.** Here are the theorems of `FormDelivery`: `TypeCorrect`, `NeverAhead`, `EditsDurable`, `AnswersHold` and
`CopiesComplete` follow from `DeliveryInv`. What the four properties say of quiet
states has to be known in the middle of a sink, a submit or a resend too:
`Places` compares object and store at each step of the main thread, `Ordered` says
that writes of one form stand in the order of its edits, `NotBehind` that none is
older than the last answered, `Reached` that the server has what it has applied on
this connection. `Covered` carries `CopiedUnlessCut` through a lost connection: a
version is at the server with nothing older to come, or a write of it is still to be
answered.

**`PersistentConnectionProofs`.** `LinkSafe` (one connection, offline when there is a
reason, counted listens) follows from `LinkInv`, and `WritesSettle` and
`WritesInOrder` from `LinkInv` with `OrderInv`. One connection needs to know what
an old token fetch can still do (`LatestFetch`) and that the first authentication is
ahead of everything on the wire (`AuthFirst`). `Settled`: a write is outstanding,
held back or reported, and only one of these. `WireInOrder`: what is on the wire is
outstanding and in order, which a purge, a late answer and a resend all touch.
`AppliedOnce`: a transaction the server has applied is never sent again.
`NewerToCome`: everything still to be sent is newer than everything answered; this
is why a resend cannot leave the server with an older write. The steps of the link
are first reduced to eight effects on the writes, and the order is proved of these.

**`WriteQueueProofs`.** `WritesAreKept` follows from `WriteInv`. Its control half:
`writers_` holds each unanswered writer once and only the first is past its wait
(`QueueInv`), the group is the front of the queue and its leader syncs if a member
must (`GroupInv`), errors come from failures (`OkInv`). Its data half: a number above
`LastSequence` is one of the group's (`NumbersInv`), a queued writer's entries
were put there by the leader that is about to commit (`FreshInv`), the group is in
one log record before the memtable is changed (`LeaderInv`), and what a woken writer
*will* return is already true (`DoneInv`).

**`PinnedStateProofs`.** `HeldStaysAlive`, `UnheldIsDeleted`, `NoReferenceTwice` and
`CleanupsAllRun` follow from `PinInv`. The properties speak of deletion only and are
far from inductive: whether a drop deletes depends on the count, so the invariant is
that counts *are* numbers of holders. `MemCount` and `VersionCount` count the fields
of the database, of the background thread and of the readers that name an object;
`CountInv` says that the count kept in the heap is this number, that a file counts
the living versions it is part of, that an object is dead exactly when its number is
zero, and that a version between `LogAndApply`'s two halves, which nobody
references, is the one exception. `ReaderInv` relates what a reader pins to where it
is in `Get` or in the destructor of its iterator, `BgInv` the same for the background
thread, and `InputsInv` keeps the inputs of a trivial move, whose old record is
dropped before it is logged, in a version that is pinned. The operators of the heap
(`RefVersion`, `UnrefVersion`, `SaveTo`, `DeleteVersion`, ...) have a lemma each.

**`Repair`.** Four theorems, each under the circumstances in which it is true.

* `NumbersStayUnused` needs only that the number of updates is one: it holds in
  any number of attempts that died, whatever fails. It follows from `RepairInv`.
  `Fresh` says that from `FindFiles` on every file is below `next_file_number_`;
  `TablesListed` that the tables still to scan, those scanned, and the one that is
  copied are different files, and that the copy has a number of its own;
  `Described` that the descriptor is about the tables that were scanned. `LargestIs`
  shows that a bounded set has a largest number, from the least upper bound.
* `SequenceStaysCovered` adds `Covers`: a `TableInfo` has the largest number of its
  table also when the table was replaced by a copy, because a copy has no more than the
  first scan could read. That is the assumption `~Transient`.
* `AllIsRecovered` assumes `CleanRepair`: nothing fails, no record of a log is
  garbled, and no attempt dies between the archiving of a table and the renaming of
  its copy. Attempts may die anywhere else, any number of times. `Recoverable`: what
  can be read is in a table, in a copy, or in a log that is not converted yet.
  `Accounted`: a table that holds something is on a list, so the descriptor names it.
* `NothingIsDestroyed` assumes `OneDeath`: one death at most, at any step, and copies
  can be created; any conversion, write or renaming may fail. The hard part is
  `ArchivedOnce`. A table that is archived under a name that is in `lost/` already
  would overwrite what is there, so a table with such a number has to be the finished
  copy, which is sound and is never archived again. Both halves of the assumption
  are needed: with two deaths and operations that fail between them, or with a copy
  that cannot be created, the model checker finds the property violated.

**`DBFiles`.** `WritesLast` (no acknowledged write is lost, `NothingLost`),
`LiveFilesStay`, `SequenceNumbersStayUnique` and `OpensAgain` (the database is found
corrupt only where a record follows a piece of one whose write had failed,
`OpensUnlessTorn`) follow from `SafeInv`, which is `FilesInv` with
`OpensUnlessTorn`. `FilesInv` is inductive through every file operation, the failure
of any MANIFEST write, the death of the process between any two steps, and power
failures. What a reader
will find in the MANIFEST depends on where it ends, so the invariant speaks of all its
possible ends: `Views` is what each beginning of the MANIFEST that may be left after a
crash says (which tables live, which logs to replay, the next file number and the last
sequence number). It is in two halves.

* `DiskInv` is about files alone and so survives a crash. `ManifestInv` says of *each*
  view that it is `Numbered` (files it has or will make have numbers below its next
  one), `Saved` (what must not be lost is in its tables or in the logs from its log
  number on, synced if it was promised for a power failure) and `Counted` (no two
  entries share a number, and those of its tables are not above the number it will
  continue from). `NewInv` is the database that is
  being created, when CURRENT names nothing yet.
* `ProcessInv` relates the process to these files: `MemoryInv` and `ReadyInv` say
  where the entries of the memtables are logged, `InStep` that each view says what is in
  memory or what a job that has logged its edit is about to make of it, `OpeningInv` and `DescriptorInv` follow recovery
  step by step (with the descriptor reused or a new one written), `JobInv` gives each
  flush and compaction a file number of its own and inputs that live, `ErrorInv` says
  that after an error, when the MANIFEST may have edits of jobs that failed, the tables it
  names have the same entries as the live ones, but for those of the memtable that was to
  become a table, and `GarbageInv`
  keeps what a view or a job still needs out of the list of obsolete files.

Deleting an obsolete file is the hard step: a view that is not the latest could still
name it. It is safe because files are deleted only after the last edit was synced, and
never after an error, so that earlier views are no longer possible ends. After an error a compaction that goes on logs its edit after one that failed, and syncs
both; `ErrorInv` is what keeps `Saved` true then (`ViewsCut`, `ViewsGrow` and the lemmas after
them say how the views change). Least and greatest numbers of a set come from well-founded
induction on a set, not from the operator's definition (`MinIs`, `MaxIs`).
The theorems assume `ConstantsOK`: where power fails, the database is created
safely (`SafeCreation`) and logs are not reused. These are the instances the run checks
(`files`, `tables`, and `reuse`, where the process dies but the power does not fail);
nothing is claimed of the others.

**`MCRemote`: the POSIX environment.** `FilesStayRight` is the invariant `FilesRight`
of the run, for any set of threads, processes and any limits (`EnvAssumption`). Each
component has an invariant of its own. `LockInv`: with one thread per process, who believes
to hold the kernel's lock has it. With several that is false (run `lock_lost`), and what
is proved is that one thread of each process believes so, and two processes only if one
of them has dropped its record lock. `TableInv`: who believes to hold the lock has it or is
of such a process, and of the threads of one process only one is between `Insert` and
`Remove`, which is what the table is for, as the kernel does not keep threads of one
process apart. `LimitInv`: the counter of a limiter is the limit less the objects that
hold a place, the threads that were granted one, and those whose `Acquire` has failed but
not put back what it took, counted over all threads (`LimitMoves` relates a step to the counts of the places it leaves and enters).
`WorkInv`: the items done, the one being done and the queue are together the numbers of
the items in their order, and a worker that waits has an empty queue.

**`MCCore`.** `WritesStayKept`, `PinsStayHeld`, `LinkStaysOne`, `WritesStaySettled`,
`WritesStayOrdered`, `RepairStaysKeeping` and `CrashesLoseNothing` carry the invariants
above to the instances the run checks, next to all other parts.

### Only model-checked

* Liveness (`LoadEnds`, `QueueDrains`, `SubmittedDelivered`, `WritesAnswered`,
  `CallsReturn`): the prover has no rules for fairness and `ENABLED` here.
* `TransactionsSettle` and `EventsInSync`: the handlers of `FRepo` fold over queues
  of transactions; what a fold computes for every queue is an induction over data,
  which the provers cannot instantiate.
* `ReadsNewest` (with the estimated sizes) and `IsSnapshotStore` rest on the recursive choices of inputs and
  outputs of compactions, in the same way.
* `BlocksRight`, `TablesRight`, `CachesRight`, `CodecsRight`, `MessagesRight`: encoders,
  decoders, searches and caches are recursive functions over their data, and several
  of the modules (`Block`, `LRUCache`, `PbDecode`, `PbEncode`, `PbFields`, `Table`,
  `TwoLevelIterator`) declare `RECURSIVE` operators.
* `FilesReadBack`: the same holds of the readers of logs, of compaction outputs and of
  version edits.
* `IteratorsRight`: not attempted. What the user's iterator skips is a recursion over
  the entries below it; the skip list and the memtable could be proved, see the plan.
* The violation runs are counterexamples.

## 5. Where the code and its documents disagree

1. **A text lands in another row** (`ViewModel/CellViewModel.swift:57`, run
   `cell_reuse`). A reused cell keeps the sinks of its earlier rows, so a commit
   in one row is stored in the earlier row as well.
2. **A form after Submit is not blank** (`ViewModel/FormViewModel.swift:150`, run
   `late_text`). A field that is still being edited, or a text still queued, is
   stored in the new form and is missing from the submitted one.
3. **A score cannot be edited twice in its cell**
   (`View/LabelAndFieldTableViewCell.swift:74`, run `second_edit`). After the
   first commit the cell follows the row, and the next keystroke is overwritten.
4. **A failed fetch duplicates the form** (`Service/CoreDataService.swift:80`, run
   `duplicate_form`).
5. **Two processes hold one database** (`util/env_posix.cc:627`, run `lock_lost`).
   `LockFile` opens the file before it looks into the table of its process. When the
   lock is "already held by process", it closes that descriptor, and POSIX drops the
   record lock of the whole process. `env.h:142` says the lock prevents "concurrent access
   to the same db by multiple processes".
6. **A completion block is never called** (`Core/FRepo.m:1449`, run
   `block_not_called`). `lastSent` counts the transactions this abort has marked, not
   those an earlier one had. A second set therefore clears a queue whose transaction is
   still waiting; if the answer is stale or the connection is lost, nothing leads to it
   any more. `FIRDatabaseReference.h:762` promises the block "whether it was successful
   or not".
7. **A purge takes a write back twice** (`Core/FRepo.m:508`, run `purge_twice`). All
   writes are removed from the sync tree first; the connection then gives the answers it
   held back, and these remove their writes again, against the assertion in
   `Core/FWriteTree.m:147`.

Two observations are in the models without a run of their own. `Int(value)!`
(`ViewModel/CellViewModel.swift:64`) stops the process for digits that `Int` cannot read;
this is the action `TextSinkTraps`, which occurs in `editing_reuse`. After an append to
a log that failed half way (`db/log_writer.cc:106`), the writer's offset is ahead of the
file, and `DBImpl::Write` records a background error for a failed `Sync` only
(`db_impl.cc:1227`): later records are acknowledged but may lie where the reader does not
look. `AckedRead` of `LogFormat` claims only the records that were added before.

## 6. Abstractions, assumptions, and what is not modelled

The application:

* `updateFrom`, `setForm` and `insertForm` of the Core Data service and
  `FirebaseService.load` have no callers. Keyboard insets, the button cell,
  `FormDataModel`, view set-up, styling and the layout of the plist are left out.
* Errors of `save()` and of opening the store end in `fatalError` and are covered by
  `Crash`. `FormDelivery` lets fetches succeed; those that fail are in
  `CoreDataService`. There a fetch sees the object that the service of a throw-away
  view model has saved, which is in the same file but another container. Its server takes every write, and the guard of `updateRemote`
  against an empty id is always true, since every form has an id.

The Firebase client:

* Retry delays are any delay. A closed `FConnection` is released and delivers
  nothing. What the server does with requests of a connection that is lost, it has
  done before the loss. Its verdict on a write (`Refused`) does not change.
  Requests without a callback (unlisten, unauth, statistics) are left out.
* `RepoTransactions` has one location: overlapping paths, merges, writes with local
  events off and restoring writes from disk are left out.

leveldb:

* Critical sections are atomic where the code holds the mutex throughout.
* Switches name circumstances a run includes or leaves out. `core` leaves out a
  power failure while the database is being *created* (`SafeCreation`), writes while a
  `CompactRange` is in progress (`OneClient`), reads in a repair that fail once and
  succeed when repeated (`Transient`), and garbled log records in a repair
  (`Garbles`): nothing is claimed for these.
* In `DBFiles` a file is its records with the number that is synced; directory
  entries are in `WritableFile`. A record after a torn one makes the MANIFEST corrupt;
  that the offset of the writer has moved too is counted in this. The `LogAndApply` of
  `DB::Open` itself does not fail, and versions have no levels, which are in `Compaction`.
  A log number of 0 in an edit counts as none, as only the edit of a new database has it.
  In `WriteQueue` and `DBFiles` a log is a sequence of records, each readable: what a
  failed append does to those after it is the subject of `LogFormat`, so the promises of both about acknowledged writes hold for logs whose
  appends have not failed half way. `LogFormat` takes an acknowledged record for one
  that was flushed. Readers verify checksums, as the database's do.
* Closing any descriptor drops a process's record lock (POSIX); the lock table of
  `FileLock` is what keeps threads of one process apart.
* `SkipList` has one reader, as readers write nothing, and a single-writer
  release/acquire memory. `DBIter`: damaged keys keep their user part; read sampling
  moves no iterator. `Block`: offsets count entries, a restart count damaged to zero
  is left out. `Table`: no compression (no Snappy in this build), `ChangeOptions` has no
  caller. `Bloom`: any hash function, at scaled widths. `LRUCache`: `Evict` is
  called for files of which no version has a reference. `Repair`: the smallest and
  largest keys of tables are left out. `NothingDestroyed` is checked and proved for one death
  and for faults of conversion and of `finish` only, and is not claimed beyond that: a
  table that is archived twice, because a second death lets its number be copied again,
  overwrites its first archive in `lost/`, and a table whose copy cannot be created is left
  out of the descriptor, so that the next open deletes it.
* `CompactionOutput` drops any entries; which ones is `Compaction`'s subject.
  `VersionEdit::Clear` keeps the compaction pointers, as in the code. `Coding` has
  scaled widths and bases, `Crc32c` the real ones. `WritableFile`: whether
  the kernel writes back on its own is a constant of the instance.
* `SizesCorrect`: a table counts entries, as if each had a block of its own.
* `CBinding` takes the database for a map that may answer with an error. Its client keeps
  to the conventions of `c.h`. `leveldb_compact_range` and `leveldb_approximate_sizes`
  only hand their arguments on and are left out.
* `DestroyDB`, wrappers of system calls without state, debug strings, the characters of
  file names, the representation of a `Status`, the logger, the arena's pieces of memory
  and the histogram of benchmarks are not modelled.

nanopb:

* Destinations are zeroed by the caller, as `GDTCCTNanopbHelpers.m` does. Tags,
  lengths and small numbers take one byte in `PbDecode` and `PbEncode`; longer ones
  are in `PbFraming`, at scaled widths. A message inside a union's message in place
  that has allocated members is not instantiated. `PbFraming`: a null-terminated
  message that is cut where a field ends is accepted, as in the code.

The other pods (analytics, measurement, installations) are not modelled. Of the web
socket library only its base 64 is, and of the log transport only its messages.

## 7. Plan

Done: all modules of section 2, their runs, and the proofs of section 4.

What could follow. Eight modules hold proofs; a further component's theorems would be
put into one of these, as those of the store and of editing share `FormProofs`.

1. The steps of `Compaction` that do not choose inputs (writes, snapshots, memtables)
   as steps or stutters of `SnapshotStore`.
2. `SkipList` for any number of keys: the part of `IteratorsRight` whose invariant
   (each level is a sublist of the level below, and what a reader has seen is a list)
   needs no recursion over data.
3. `RepoTransactions` with folds replaced by functions on the queue, as a first step
   to `TransactionsSettle`.
