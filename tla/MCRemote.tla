------------------------------ MODULE MCRemote ------------------------------
(* The delivery of forms to the server, what it stands on in the Firebase      *)
(* client, and the threads of leveldb that wait for each other, side by side.  *)
(* FormDelivery is extended; each of the others is an instance of its module.  *)
(* One of them, part, runs; x1 to x25 are its variables, and everything else   *)
(* stands still.                                                               *)
EXTENDS FormDelivery, FiniteSetTheorems, SequenceTheorems, TLAPS

CONSTANTS Parts,     \* the components to check
          Threads,   \* in "lock" each is a process of its own
          Processes, \* that have a thread in each of their slots, in "threads"
          Slots,
          MaxMmaps, MaxOpenFiles, MaxFiles, MaxWork

(* The limits are numbers, and no thread or process is called like nobody or   *)
(* like the background thread.                                                 *)
ASSUME EnvAssumption == /\ MaxMmaps \in Nat /\ MaxOpenFiles \in Nat
                        /\ IsFiniteSet(Threads)
                        /\ "nobody" \notin Threads /\ "background" \notin Threads
                        /\ "nobody" \notin Processes

VARIABLES part,   \* the component that runs
          x1, x2, x3, x4, x5, x6, x7, x8, x9,
          x10, x11, x12, x13, x14, x15, x16, x17, x18, x19, x20, x21, x22, x23, x24, x25   \* its variables

all == <<part, vars, x1, x2, x3, x4, x5, x6, x7, x8, x9, x10, x11, x12, x13, x14, x15,
         x16, x17, x18, x19, x20, x21, x22, x23, x24, x25>>

(* The first n of them are in use.                                             *)
Idle(n) ==
    /\ (n < 1 => x1 = 0) /\ (n < 2 => x2 = 0) /\ (n < 3 => x3 = 0)
    /\ (n < 4 => x4 = 0) /\ (n < 5 => x5 = 0) /\ (n < 6 => x6 = 0)
    /\ (n < 7 => x7 = 0) /\ (n < 8 => x8 = 0) /\ (n < 9 => x9 = 0)
    /\ (n < 10 => x10 = 0) /\ (n < 11 => x11 = 0) /\ (n < 12 => x12 = 0)
    /\ (n < 13 => x13 = 0) /\ (n < 14 => x14 = 0) /\ (n < 15 => x15 = 0)
    /\ (n < 16 => x16 = 0) /\ (n < 17 => x17 = 0) /\ (n < 18 => x18 = 0)
    /\ (n < 19 => x19 = 0) /\ (n < 20 => x20 = 0) /\ (n < 21 => x21 = 0)
    /\ (n < 22 => x22 = 0) /\ (n < 23 => x23 = 0) /\ (n < 24 => x24 = 0)
    /\ (n < 25 => x25 = 0)

Keep(n) ==
    /\ (n < 1 => x1' = x1) /\ (n < 2 => x2' = x2) /\ (n < 3 => x3' = x3)
    /\ (n < 4 => x4' = x4) /\ (n < 5 => x5' = x5) /\ (n < 6 => x6' = x6)
    /\ (n < 7 => x7' = x7) /\ (n < 8 => x8' = x8) /\ (n < 9 => x9' = x9)
    /\ (n < 10 => x10' = x10) /\ (n < 11 => x11' = x11) /\ (n < 12 => x12' = x12)
    /\ (n < 13 => x13' = x13) /\ (n < 14 => x14' = x14) /\ (n < 15 => x15' = x15)
    /\ (n < 16 => x16' = x16) /\ (n < 17 => x17' = x17) /\ (n < 18 => x18' = x18)
    /\ (n < 19 => x19' = x19) /\ (n < 20 => x20' = x20) /\ (n < 21 => x21' = x21)
    /\ (n < 22 => x22' = x22) /\ (n < 23 => x23' = x23) /\ (n < 24 => x24' = x24)
    /\ (n < 25 => x25' = x25)
-----------------------------------------------------------------------------
Progress == INSTANCE PersistentConnection WITH
    Queries <- {}, MaxPuts <- 2, MaxOps <- 0, MaxListens <- 0, MaxFaults <- 1,
    MaxCalls <- 1, Refused <- {2}, Tokens <- TRUE, state <- x1,
    interrupts <- x2, retry <- x3, fetches <- x4, attempt <- x5, force <- x6,
    token <- x7, realtime <- x8, wire <- x9, puts <- x10, putCounter <- x11,
    listens <- x12, listenNo <- x13, unacked <- x14, putsToAck <- x15,
    opQueue <- x16, opNo <- x17, reports <- x18, opReports <- x19,
    applied <- x20, issued <- x21, revoked <- x22, refused <- x23,
    faults <- x24, calls <- x25

(* Two transactions and a set; an update block may abort at once or in a rerun.*)
Repo == INSTANCE RepoTransactions WITH
    Txs <- {"t1", "t2"}, SetValues <- {10}, Foreign <- {}, Abort <- {11},
    MaxRetries <- 2, MaxDrops <- 1, MaxPurges <- 0, repo <- x1, down <- x2,
    remote <- x3, watched <- x4, applied <- x5, left <- x6, drops <- x7,
    purges <- x8

(* A transaction and two sets.                                                 *)
Sets == INSTANCE RepoTransactions WITH
    Txs <- {"t1"}, SetValues <- {10, 20}, Foreign <- {}, Abort <- {11},
    MaxRetries <- 2, MaxDrops <- 1, MaxPurges <- 0, repo <- x1, down <- x2,
    remote <- x3, watched <- x4, applied <- x5, left <- x6, drops <- x7,
    purges <- x8

(* A transaction, a set, a purge and another client that writes.               *)
Purge == INSTANCE RepoTransactions WITH
    Txs <- {"t1"}, SetValues <- {10}, Foreign <- {5}, Abort <- {5},
    MaxRetries <- 2, MaxDrops <- 1, MaxPurges <- 1, repo <- x1, down <- x2,
    remote <- x3, watched <- x4, applied <- x5, left <- x6, drops <- x7,
    purges <- x8

Lock == INSTANCE FileLock WITH
    Processes <- Threads, ProcessOf <- [t \in Threads |-> t],
    locked_files <- x1, kernel <- x2, pc <- x3, alive <- x4, dropped <- x5

Locks == INSTANCE FileLock WITH
    Threads <- Processes \X Slots, ProcessOf <- [t \in Processes \X Slots |-> t[1]],
    locked_files <- x1, kernel <- x2, pc <- x3, alive <- x4, dropped <- x5

Limits == INSTANCE RandomAccessFiles WITH
    allowed <- x1, pc <- x2, files <- x3, fds <- x4

Work == INSTANCE BackgroundWork WITH
    mutex <- x1, started <- x2, queue <- x3, pc <- x4, worker <- x5,
    running <- x6, scheduled <- x7, ran <- x8

Calls == INSTANCE WriteQueue WITH
    Threads <- {"t1", "t2"}, NoThread <- "none", MaxCalls <- 1,
    MaxUpdates <- 1, MaxFailures <- 1, BufferSize <- 0, SmallGroup <- 1,
    LargeGroup <- 2, L0Compact <- 1, L0Slowdown <- 1, L0Stop <- 2,
    writers <- x1, call <- x2, calls <- x3, group <- x4, mem <- x5, imm <- x6,
    hasImm <- x7, tables <- x8, log <- x9, oldLog <- x10, lastSeq <- x11,
    l0 <- x12, bg <- x13, manual <- x14, bgError <- x15, closing <- x16,
    failures <- x17, acked <- x18
-----------------------------------------------------------------------------
MCInit == /\ part \in Parts
          /\ Init
          /\ \/ part = "delivery" /\ Idle(0)
             \/ part = "progress"     /\ Progress!Init /\ Idle(25)
             \/ part = "transactions" /\ Repo!Init /\ Idle(8)
             \/ part = "sets"         /\ Sets!Init /\ Idle(8)
             \/ part = "purge"        /\ Purge!Init /\ Idle(8)
             \/ part = "lock"         /\ Lock!Init /\ Idle(5)
             \/ part = "threads"      /\ Locks!Init /\ Idle(5)
             \/ part = "limits"       /\ Limits!Init /\ Idle(4)
             \/ part = "work"         /\ Work!Init /\ Idle(8)
             \/ part = "calls"        /\ Calls!Init /\ Idle(18)

Others(n) == Keep(n) /\ UNCHANGED <<part, vars>>

(* The delivery of forms never comes to a halt; the others may.                *)
MayStop == part # "delivery" /\ UNCHANGED all

MCNext == \/ part = "delivery" /\ Next /\ Keep(0) /\ UNCHANGED part
          \/ part = "progress"     /\ Progress!Next /\ Others(25)
          \/ part = "transactions" /\ Repo!Next /\ Others(8)
          \/ part = "sets"         /\ Sets!Next /\ Others(8)
          \/ part = "purge"        /\ Purge!Next /\ Others(8)
          \/ part = "lock"         /\ Lock!Next /\ Others(5)
          \/ part = "threads"      /\ Locks!Next /\ Others(5)
          \/ part = "limits"       /\ Limits!Next /\ Others(4)
          \/ part = "work"         /\ Work!Next /\ Others(8)
          \/ part = "calls"        /\ Calls!Next /\ Others(18)
          \/ MayStop

(* Fairness, as part never changes, for all of them together: the main thread  *)
(* and calls that began go on, connections are made, timers fire, the server   *)
(* and the background threads work, answers arrive.                            *)
Turn1 == \/ part = "delivery" /\ MainThread /\ Keep(0) /\ UNCHANGED part
         \/ part = "progress" /\ Progress!Link /\ Others(25)
         \/ part = "calls" /\ Calls!WriterStep("t1") /\ Others(18)
         \/ part = "lock" /\ Lock!GoesOn("t1") /\ Others(5)
         \/ part = "work" /\ Work!GoesOn("t1") /\ Others(8)

Turn2 == \/ part = "delivery" /\ restoreState /\ Keep(0) /\ UNCHANGED part
         \/ part = "progress" /\ Progress!ServerTakes /\ Others(25)
         \/ part = "calls" /\ Calls!WriterStep("t2") /\ Others(18)
         \/ part = "lock" /\ Lock!GoesOn("t2") /\ Others(5)
         \/ part = "work" /\ Work!GoesOn("t2") /\ Others(8)

Turn3 == \/ part = "delivery" /\ ServerApplies /\ Keep(0) /\ UNCHANGED part
         \/ part = "progress" /\ Progress!onDataMessage /\ Others(25)
         \/ part = "calls" /\ Calls!Background /\ Others(18)
         \/ part = "lock" /\ Lock!GoesOn("t3") /\ Others(5)
         \/ part = "work" /\ Work!GoesOn("t3") /\ Others(8)

Turn4 == \/ part = "delivery" /\ Acknowledged /\ Keep(0) /\ UNCHANGED part
         \/ part = "calls" /\ Calls!CloseEnds /\ Others(18)
         \/ part = "work" /\ Work!WorkerGoesOn /\ Others(8)

(* The mutex is granted to the background thread that keeps asking for it.     *)
WorkerWakes == part = "work" /\ Work!WorkerLock /\ Others(8)

MCFairness == /\ WF_all(Turn1) /\ WF_all(Turn2) /\ WF_all(Turn3) /\ WF_all(Turn4)
              /\ SF_all(WorkerWakes)

MCSpec == MCInit /\ [][MCNext]_all /\ MCFairness
-----------------------------------------------------------------------------
(* FRepo: no transaction is lost between its reruns, sets, purges and lost     *)
(* connections, unless two aborts overtake it; each completes once and is      *)
(* applied once when it is reported as committed; no write is taken back       *)
(* twice, but by a purge that meets answers held back.                         *)
TransactionsSettle ==
    /\ part = "transactions" => /\ Repo!WritesTakenBackOnce /\ Repo!NoLostTransaction
                                /\ Repo!CommittedOnce /\ Repo!QuietMeansComplete
    /\ part = "sets" => /\ Sets!WritesTakenBackOnce /\ Sets!NoLostTransaction
                        /\ Sets!CommittedOnce /\ Sets!QuietMeansComplete
    /\ part = "purge" => /\ Purge!WritesTakenBackOnce /\ Purge!NoLostTransaction
                         /\ Purge!CommittedOnce /\ Purge!QuietMeansComplete

(* FRepo, FWriteTree: with nothing under way the client sees what the server   *)
(* has; no pending write hides it for ever, also after two sets or a purge,    *)
(* but the one of a transaction that was overtaken.                            *)
EventsInSync == /\ part = "transactions" => Repo!InSync /\ Repo!NoPhantomWrites
                /\ part = "sets" => Sets!InSync /\ Sets!NoPhantomWrites
                /\ part = "purge" => Purge!InSync /\ Purge!NoPhantomWrites

(* FIRDatabaseReference.h, runTransactionBlock: the completion block of every  *)
(* transaction is called.  Two sets while it is sent, then a stale answer or   *)
(* a lost connection, and it is not (FRepo.m, abortTransactionsAtNode).        *)
EveryBlockCalled == part = "sets" => Sets!EveryBlockCalled

(* FWriteTree.m, the assertion of removeWriteId.  A purge takes all writes and *)
(* then lets answers that were held back take them again.                      *)
WriteIdsExist == part = "purge" => Purge!WriteIdsExist

(* util/env_posix.cc: one process at a time has the lock of a database, where  *)
(* each has one thread that calls LockFile; where several do, one thread of a  *)
(* process has it, and two processes only if one has lost the record lock by   *)
(* closing another descriptor; the limits on open files hold and are given     *)
(* back; scheduled work is run once, in order, and the background thread does  *)
(* not sleep on it.                                                            *)
FilesRight ==
    /\ part = "lock" => Lock!OneHolder
    /\ part = "threads" => Locks!OneHolderInProcess /\ Locks!OneHolderUnlessDropped
    /\ part = "limits" => /\ Limits!WithinLimit /\ Limits!CountersRestored
                          /\ Limits!DescriptorsBounded
    /\ part = "work" => Work!OnceInOrder /\ Work!NoLostWakeup

(* env.h, LockFile: no two processes have the same database open.  A second    *)
(* thread of the holder's process that calls LockFile closes its descriptor,   *)
(* the kernel drops the lock of the process, and another process gets it.      *)
LockExcludes == part = "threads" => Locks!OneHolder

(* FPersistentConnection: once online again, with a server that answers, every *)
(* outstanding write is answered, unless the server has shut the client out.   *)
WritesAnswered == \A i \in 1..2 :
    (part = "progress" /\ i \in Progress!Outstanding)
        ~> (part = "progress" => i \notin Progress!Outstanding \/ "server_kill" \in x2)

(* A thread that is in a call, a destructor that waits, work that is queued.   *)
Waiting(k) ==
    \/ part = "calls" /\ IF k = 3 THEN Calls!Closing ELSE Calls!InCall(<<"t1", "t2">>[k])
    \/ part = "lock" /\ Lock!InCall(<<"t1", "t2", "t3">>[k])
    \/ part = "work" /\ Work!Due(k + 1) /\ ~Work!Done(k + 1)

(* db_impl.cc and env_posix.cc: every Write, CompactRange and LockFile returns,*)
(* the destructor returns, and scheduled work is done: no wakeup is lost       *)
(* between the writers, the background thread and those who wait for it.       *)
CallsReturn == \A k \in 1..3 : Waiting(k) ~> ~Waiting(k)
-----------------------------------------------------------------------------
(* Proofs: the safety properties above, for any bounds.                       *)

(* Where the main thread is says how the object and the store compare.  The   *)
(* form in the store is always the newest.                                    *)
Places == /\ store # NoForm => store.id = lastId
          /\ running /\ pc \in {"idle", "send", "delete"} => model = store
          /\ pc = "save" => store.id = model.id /\ store.v <= model.v
          /\ pc = "reload" => store # NoForm
          /\ ~running => pc = "idle"

(* Nobody knows of a form that is still to be made.                           *)
Unborn == \A i \in Ids : i > lastId =>
              /\ remote[i] = Never /\ acked[i] = Never
              /\ served[i] = Never /\ submitted[i] = Never
              /\ \A k \in 1..Len(outbox) : outbox[k].id # i

(* Writes of one form stand in the order of its edits, none is older than the *)
(* last one answered, and the server has those it has applied, or newer.      *)
Ordered == \A j, k \in 1..Len(outbox) :
               (j <= k /\ outbox[j].id = outbox[k].id) => outbox[j].v <= outbox[k].v
NotBehind == \A k \in 1..Len(outbox) : acked[outbox[k].id] <= outbox[k].v
Reached == \A k \in 1..Len(outbox) : k <= applied => outbox[k].v <= remote[outbox[k].id]

SubmittedDurable == store # NoForm => submitted[store.id] <= store.v

(* A version of a form is safe when the server has it and gets nothing older, *)
(* or when a write of it is still to be answered.                             *)
ToCome(i) == \E k \in 1..Len(outbox) : /\ outbox[k].id = i
                                        /\ served[i] <= outbox[k].v
                                        /\ submitted[i] <= outbox[k].v
Settled(i) == /\ \A k \in 1..Len(outbox) : outbox[k].id # i
              /\ served[i] <= remote[i] /\ submitted[i] <= remote[i]
Covered == \A i \in Ids \ cut : ToCome(i) \/ Settled(i)

DeliveryInv == /\ TypeOK /\ Places /\ Unborn /\ Ordered /\ NotBehind /\ Reached
               /\ RemoteNotAhead /\ ServedEditsDurable /\ SubmittedDurable
               /\ AcknowledgedStays /\ Covered

-----------------------------------------------------------------------------
(* What Append and Tail do to a sequence of writes.                           *)
LEMMA AppendFacts ==
    ASSUME NEW s \in Seq(Forms), NEW f \in Forms
    PROVE  /\ Append(s, f) \in Seq(Forms)
           /\ Len(Append(s, f)) = Len(s) + 1
           /\ \A k \in 1..Len(s) : Append(s, f)[k] = s[k]
           /\ Append(s, f)[Len(s) + 1] = f
  OBVIOUS

(* The answered write leaves; the others move up.                             *)
LEMMA TailFacts ==
    ASSUME NEW s \in Seq(Forms), Len(s) > 0
    PROVE  /\ Tail(s) \in Seq(Forms)
           /\ Len(Tail(s)) = Len(s) - 1
           /\ \A k \in 1..Len(Tail(s)) : Tail(s)[k] = s[k + 1] /\ k + 1 \in 1..Len(s)
           /\ Head(s) = s[1]
           /\ 1 \in 1..Len(s)
  OBVIOUS

(* Every write is a form, and the lengths are numbers.                        *)
LEMMA WriteFacts ==
    ASSUME TypeOK
    PROVE  /\ Len(outbox) \in Nat
           /\ DOMAIN outbox = 1..Len(outbox)
           /\ \A k \in 1..Len(outbox) : /\ outbox[k] \in Forms
                                        /\ outbox[k].id \in Ids
                                        /\ outbox[k].v \in Int
  <1>1. outbox \in Seq(Forms)
    BY DEF TypeOK
  <1>2. \A k \in 1..Len(outbox) : outbox[k] \in Forms
    BY <1>1
  <1> QED
    BY <1>1, <1>2 DEF Forms, Versions

(* Sending the form in the store keeps the order of the writes, and covers    *)
(* the form again.                                                            *)
LEMMA Sending ==
    ASSUME TypeOK, Ordered, NotBehind, Reached, AcknowledgedStays, Covered,
           NEW f \in Forms,
           update(f), UNCHANGED <<remote, acked>>,
           remote[f.id] <= f.v,
           \A k \in 1..Len(outbox) : outbox[k].id = f.id => outbox[k].v <= f.v,
           \A i \in Ids : i # f.id => served'[i] = served[i] /\ submitted'[i] = submitted[i],
           served'[f.id] <= f.v, submitted'[f.id] <= f.v
    PROVE  /\ outbox' \in Seq(Forms) /\ applied' \in Nat /\ applied' <= Len(outbox')
           /\ online' = online /\ cut' \subseteq Ids
           /\ Ordered' /\ NotBehind' /\ Reached' /\ Covered'
  <1>1. /\ outbox' \in Seq(Forms)
        /\ Len(outbox') = Len(outbox) + 1
        /\ \A k \in 1..Len(outbox) : outbox'[k] = outbox[k]
        /\ outbox'[Len(outbox) + 1] = f
    BY AppendFacts DEF update, TypeOK
  <1>2. \A k \in 1..Len(outbox') : k \in 1..Len(outbox) \/ k = Len(outbox) + 1
    BY <1>1, WriteFacts
  <1>3. f.id \in Ids /\ f.v \in Int
    BY DEF Forms, Versions
  <1>4. applied' \in Nat /\ applied' <= Len(outbox') /\ applied' <= Len(outbox)
    BY <1>1, WriteFacts DEF update, TypeOK
  <1>5. Ordered'
    BY <1>1, <1>2, <1>3, WriteFacts DEF Ordered
  <1>6. acked[f.id] <= f.v
    <2>1. /\ acked[f.id] \in Versions \union {Never}
          /\ remote[f.id] \in Versions \union {Never}
      BY <1>3 DEF TypeOK
    <2>2. acked[f.id] \in Int /\ remote[f.id] \in Int
      BY <2>1 DEF Versions, Never
    <2>3. acked[f.id] <= remote[f.id]
      BY <1>3, <2>2 DEF AcknowledgedStays
    <2> QED
      BY <1>3, <2>2, <2>3
  <1>7. NotBehind'
    BY <1>1, <1>2, <1>6 DEF NotBehind
  <1>8. Reached'
    BY <1>1, <1>2, <1>4, WriteFacts DEF Reached, update
  <1>9. Covered'
    <2>1. SUFFICES ASSUME NEW i \in Ids, i \notin cut'
                   PROVE  (ToCome(i) \/ Settled(i))'
      BY DEF Covered
    <2>2. CASE i = f.id
      <3>1. Len(outbox) + 1 \in 1..Len(outbox')
        BY <1>1, WriteFacts
      <3> QED
        BY <1>1, <2>2, <3>1 DEF ToCome
    <2>3. CASE i # f.id
      <3>1. i \notin cut
        BY <2>1, <2>3 DEF update
      <3>2. ToCome(i) \/ Settled(i)
        BY <3>1 DEF Covered
      <3>3. CASE ToCome(i)
        <4>1. PICK k \in 1..Len(outbox) : /\ outbox[k].id = i
                                          /\ served[i] <= outbox[k].v
                                          /\ submitted[i] <= outbox[k].v
          BY <3>3 DEF ToCome
        <4>2. k \in 1..Len(outbox') /\ outbox'[k] = outbox[k]
          BY <1>1, <4>1, WriteFacts
        <4> QED
          BY <2>3, <4>1, <4>2 DEF ToCome
      <3>4. CASE Settled(i)
        BY <1>1, <1>2, <2>3, <3>4 DEF Settled
      <3> QED
        BY <3>2, <3>3, <3>4
    <2> QED
      BY <2>2, <2>3
  <1> QED
    BY <1>1, <1>4, <1>5, <1>7, <1>8, <1>9 DEF update, TypeOK

(* What a step that leaves the writes, the server and the histories alone     *)
(* keeps.                                                                     *)
LEMMA Untouched ==
    ASSUME Ordered, NotBehind, Reached, AcknowledgedStays, Covered,
           UNCHANGED <<outbox, applied, remote, history>>
    PROVE  Ordered' /\ NotBehind' /\ Reached' /\ AcknowledgedStays' /\ Covered'
  BY DEF Ordered, NotBehind, Reached, AcknowledgedStays, Covered, ToCome, Settled, history

(* An edit raises the version of the object only.                             *)
LEMMA SetFielInfoStep ==
    ASSUME DeliveryInv, setFielInfo
    PROVE  DeliveryInv'
  <1> USE DEF DeliveryInv
  <1>1. Ordered' /\ NotBehind' /\ Reached' /\ AcknowledgedStays' /\ Covered'
    BY Untouched DEF setFielInfo, link
  <1>2. TypeOK'
    <2>1. model' \in Forms
      BY BoundsAssumption DEF setFielInfo, TypeOK, Forms, Versions
    <2> QED
      BY <2>1 DEF setFielInfo, TypeOK, AtStep, link, history
  <1>3. Places'
    BY DEF setFielInfo, Places, TypeOK, AtStep, Forms, Versions, Ids, Blank, NoForm
  <1>4. Unborn'
    BY DEF setFielInfo, Unborn, TypeOK, Ids, link, history, local
  <1>5. RemoteNotAhead'
    BY DEF setFielInfo, RemoteNotAhead, link, local
  <1>6. ServedEditsDurable' /\ SubmittedDurable'
    BY DEF setFielInfo, ServedEditsDurable, SubmittedDurable, history, local
  <1> QED
    BY <1>1, <1>2, <1>3, <1>4, <1>5, <1>6

(* Saving raises the version in the store.                                    *)
LEMMA SaveContextStep ==
    ASSUME DeliveryInv, saveContext
    PROVE  DeliveryInv'
  <1> USE DEF DeliveryInv
  <1>1. Ordered' /\ NotBehind' /\ Reached' /\ AcknowledgedStays' /\ Covered'
    BY Untouched DEF saveContext, link
  <1>2. TypeOK'
    BY DEF saveContext, TypeOK, link, history, local
  <1>3. Places'
    BY DEF saveContext, Places, TypeOK, AtStep, Forms, Versions, Ids, Blank, NoForm
  <1>4. Unborn'
    BY DEF saveContext, Unborn, TypeOK, Ids, link, history, local
  <1>5. /\ store'.id = store.id /\ store # NoForm /\ store.id \in Ids
        /\ store.v <= store'.v /\ store.v \in Int /\ store'.v \in Int
    BY DEF saveContext, Places, AtStep, TypeOK, Forms, Versions, Ids, NoForm
  <1>6. RemoteNotAhead'
    <2>1. remote' = remote /\ outbox' = outbox /\ remote[store.id] \in Int
      BY <1>5 DEF saveContext, link, TypeOK, Versions, Never
    <2>2. \A k \in DOMAIN outbox : outbox[k].v \in Int
      BY WriteFacts
    <2> QED
      BY <1>5, <2>1, <2>2 DEF RemoteNotAhead
  <1>7. ServedEditsDurable' /\ SubmittedDurable'
    BY <1>5 DEF saveContext, ServedEditsDurable, SubmittedDurable, TypeOK, Versions, Never, history
  <1> QED
    BY <1>1, <1>2, <1>3, <1>4, <1>6, <1>7

(* Deleting leaves no form to be ahead of.                                    *)
LEMMA DeleteStep ==
    ASSUME DeliveryInv, delete
    PROVE  DeliveryInv'
  <1> USE DEF DeliveryInv
  <1>1. Ordered' /\ NotBehind' /\ Reached' /\ AcknowledgedStays' /\ Covered'
    BY Untouched DEF delete, link
  <1>2. TypeOK'
    BY DEF delete, TypeOK, link, history, local
  <1>3. Places'
    BY DEF delete, Places, TypeOK, AtStep, Forms, Versions, Ids, Blank, NoForm
  <1>4. Unborn'
    BY DEF delete, Unborn, TypeOK, Ids, link, history, local
  <1>5. RemoteNotAhead'
    BY DEF delete, RemoteNotAhead, link, local
  <1>6. ServedEditsDurable' /\ SubmittedDurable'
    BY DEF delete, ServedEditsDurable, SubmittedDurable, history, local
  <1> QED
    BY <1>1, <1>2, <1>3, <1>4, <1>5, <1>6

(* Nobody knows of the new form yet.                                          *)
LEMMA MakeNewBlankFormStep ==
    ASSUME DeliveryInv, makeNewBlankForm
    PROVE  DeliveryInv'
  <1> USE DEF DeliveryInv
  <1>1. Ordered' /\ NotBehind' /\ Reached' /\ AcknowledgedStays' /\ Covered'
    BY Untouched DEF makeNewBlankForm, link
  <1>2. TypeOK'
    BY BoundsAssumption DEF makeNewBlankForm, TypeOK, Forms, Versions, Ids, Blank, link, history
  <1>3. Places'
    BY DEF makeNewBlankForm, Places, TypeOK, AtStep, Forms, Versions, Ids, Blank, NoForm
  <1>4. Unborn'
    BY DEF makeNewBlankForm, Unborn, TypeOK, Ids, link, history, local
  <1>5. store'.id \in Ids /\ store'.id > lastId /\ store'.v = 0
    BY BoundsAssumption DEF makeNewBlankForm, TypeOK, Ids, Blank
  <1>6. RemoteNotAhead'
    BY <1>5, WriteFacts DEF makeNewBlankForm, RemoteNotAhead, Unborn, TypeOK, Never, link
  <1>7. ServedEditsDurable' /\ SubmittedDurable'
    BY <1>5 DEF makeNewBlankForm, ServedEditsDurable, SubmittedDurable, Unborn, Never, history
  <1> QED
    BY <1>1, <1>2, <1>3, <1>4, <1>6, <1>7

(* The change to the background touches no copy.                              *)
LEMMA SceneDidEnterBackgroundStep ==
    ASSUME DeliveryInv, sceneDidEnterBackground
    PROVE  DeliveryInv'
  <1> USE DEF DeliveryInv
  <1>1. Ordered' /\ NotBehind' /\ Reached' /\ AcknowledgedStays' /\ Covered'
    BY Untouched DEF sceneDidEnterBackground, link
  <1>2. TypeOK'
    BY DEF sceneDidEnterBackground, TypeOK, link, history, local
  <1>3. Places'
    BY DEF sceneDidEnterBackground, Places, local
  <1>4. Unborn'
    BY DEF sceneDidEnterBackground, Unborn, TypeOK, Ids, link, history, local
  <1>5. RemoteNotAhead'
    BY DEF sceneDidEnterBackground, RemoteNotAhead, link, local
  <1>6. ServedEditsDurable' /\ SubmittedDurable'
    BY DEF sceneDidEnterBackground, ServedEditsDurable, SubmittedDurable, history, local
  <1> QED
    BY <1>1, <1>2, <1>3, <1>4, <1>5, <1>6

(* Nor does the change back.                                                  *)
LEMMA SceneWillEnterForegroundStep ==
    ASSUME DeliveryInv, sceneWillEnterForeground
    PROVE  DeliveryInv'
  <1> USE DEF DeliveryInv
  <1>1. Ordered' /\ NotBehind' /\ Reached' /\ AcknowledgedStays' /\ Covered'
    BY Untouched DEF sceneWillEnterForeground, link
  <1>2. TypeOK'
    BY DEF sceneWillEnterForeground, TypeOK, link, history, local
  <1>3. Places'
    BY DEF sceneWillEnterForeground, Places, local
  <1>4. Unborn'
    BY DEF sceneWillEnterForeground, Unborn, TypeOK, Ids, link, history, local
  <1>5. RemoteNotAhead'
    BY DEF sceneWillEnterForeground, RemoteNotAhead, link, local
  <1>6. ServedEditsDurable' /\ SubmittedDurable'
    BY DEF sceneWillEnterForeground, ServedEditsDurable, SubmittedDurable, history, local
  <1> QED
    BY <1>1, <1>2, <1>3, <1>4, <1>5, <1>6

-----------------------------------------------------------------------------
(* Steps that send: what is sent is always the form in the store.             *)

(* What sending needs to know of the form in the store.                       *)
LEMMA StoreFacts ==
    ASSUME DeliveryInv, store # NoForm
    PROVE  /\ store \in Forms /\ store.id \in Ids /\ store.id = lastId /\ store.v \in Int
           /\ remote[store.id] <= store.v
           /\ \A k \in 1..Len(outbox) : outbox[k].id = store.id => outbox[k].v <= store.v
           /\ served[store.id] <= store.v
           /\ submitted[store.id] <= store.v
  <1> USE DEF DeliveryInv
  <1>1. store \in Forms
    BY DEF TypeOK
  <1>2. DOMAIN outbox = 1..Len(outbox)
    BY WriteFacts
  <1> QED
    BY <1>1, <1>2 DEF RemoteNotAhead, ServedEditsDurable, SubmittedDurable, Places, Forms, Versions

(* After the form in the store was sent, nothing sent is ahead of the store,  *)
(* and forms still to be made are still unknown.                              *)
LEMMA SentStore ==
    ASSUME DeliveryInv, store # NoForm, update(store),
           UNCHANGED <<store, lastId, remote, acked>>,
           \A i \in Ids : i # store.id => served'[i] = served[i] /\ submitted'[i] = submitted[i],
           served'[store.id] <= store.v, submitted'[store.id] <= store.v
    PROVE  /\ outbox' \in Seq(Forms) /\ applied' \in Nat /\ applied' <= Len(outbox')
           /\ online' = online /\ cut' \subseteq Ids
           /\ Ordered' /\ NotBehind' /\ Reached' /\ Covered'
           /\ Unborn' /\ RemoteNotAhead' /\ AcknowledgedStays'
           /\ ServedEditsDurable' /\ SubmittedDurable'
  <1> USE DEF DeliveryInv
  <1>1. /\ outbox' \in Seq(Forms) /\ applied' \in Nat /\ applied' <= Len(outbox')
        /\ online' = online /\ cut' \subseteq Ids
        /\ Ordered' /\ NotBehind' /\ Reached' /\ Covered'
    BY StoreFacts, Sending
  <1>2. /\ Len(outbox') = Len(outbox) + 1
        /\ \A k \in 1..Len(outbox) : outbox'[k] = outbox[k]
        /\ outbox'[Len(outbox) + 1] = store
    BY StoreFacts, AppendFacts DEF update, TypeOK
  <1>3. \A k \in 1..Len(outbox') : k \in 1..Len(outbox) \/ k = Len(outbox) + 1
    BY <1>2, WriteFacts
  <1>4. Unborn'
    <2>1. SUFFICES ASSUME NEW i \in Ids, i > lastId
                   PROVE  /\ remote[i] = Never /\ acked[i] = Never
                          /\ served'[i] = Never /\ submitted'[i] = Never
                          /\ \A k \in 1..Len(outbox') : outbox'[k].id # i
      BY DEF Unborn
    <2>2. i # store.id
      BY <2>1, StoreFacts DEF TypeOK, Ids
    <2>3. /\ remote[i] = Never /\ acked[i] = Never
          /\ served[i] = Never /\ submitted[i] = Never
          /\ \A k \in 1..Len(outbox) : outbox[k].id # i
      BY <2>1 DEF Unborn
    <2> QED
      BY <1>2, <1>3, <2>2, <2>3
  <1>5. RemoteNotAhead'
    <2>1. DOMAIN outbox' = 1..Len(outbox')
      BY <1>1
    <2>2. \A k \in 1..Len(outbox') : outbox'[k].id = store.id => outbox'[k].v <= store.v
      BY <1>2, <1>3, StoreFacts
    <2> QED
      BY <2>1, <2>2, StoreFacts DEF RemoteNotAhead
  <1>6. AcknowledgedStays' /\ ServedEditsDurable' /\ SubmittedDurable'
    BY DEF AcknowledgedStays, ServedEditsDurable, SubmittedDurable
  <1> QED
    BY <1>1, <1>4, <1>5, <1>6

(* The end of a sink: the edit is served and sent.                            *)
LEMMA UpdateRemoteStep ==
    ASSUME DeliveryInv, updateRemote
    PROVE  DeliveryInv'
  <1> USE DEF DeliveryInv
  <1>1. model = store /\ store # NoForm
    BY DEF updateRemote, AtStep, Places, TypeOK, Forms, Ids, NoForm
  <1>2. /\ \A i \in Ids : i # store.id => served'[i] = served[i] /\ submitted'[i] = submitted[i]
        /\ served'[store.id] <= store.v /\ submitted'[store.id] <= store.v
    BY <1>1, StoreFacts DEF updateRemote, TypeOK
  <1>3. /\ outbox' \in Seq(Forms) /\ applied' \in Nat /\ applied' <= Len(outbox')
        /\ online' = online /\ cut' \subseteq Ids
        /\ Ordered' /\ NotBehind' /\ Reached' /\ Covered'
        /\ Unborn' /\ RemoteNotAhead' /\ AcknowledgedStays'
        /\ ServedEditsDurable' /\ SubmittedDurable'
    BY <1>1, <1>2, SentStore DEF updateRemote, local
  <1>4. served' \in [Ids -> Versions \union {Never}]
    BY DEF updateRemote, TypeOK, Forms
  <1>5. TypeOK'
    BY <1>3, <1>4 DEF updateRemote, TypeOK, local
  <1>6. Places'
    BY <1>1 DEF updateRemote, Places, AtStep, local
  <1> QED
    BY <1>3, <1>5, <1>6

(* The first step of a submit.                                                *)
LEMMA SubmitStep ==
    ASSUME DeliveryInv, submit
    PROVE  DeliveryInv'
  <1> USE DEF DeliveryInv
  <1>1. model = store /\ store # NoForm
    BY DEF submit, AtStep, Places, TypeOK, Forms, Ids, NoForm
  <1>2. /\ \A i \in Ids : i # store.id => served'[i] = served[i] /\ submitted'[i] = submitted[i]
        /\ served'[store.id] <= store.v /\ submitted'[store.id] <= store.v
    BY <1>1, StoreFacts DEF submit, TypeOK
  <1>3. /\ outbox' \in Seq(Forms) /\ applied' \in Nat /\ applied' <= Len(outbox')
        /\ online' = online /\ cut' \subseteq Ids
        /\ Ordered' /\ NotBehind' /\ Reached' /\ Covered'
        /\ Unborn' /\ RemoteNotAhead' /\ AcknowledgedStays'
        /\ ServedEditsDurable' /\ SubmittedDurable'
    BY <1>1, <1>2, SentStore DEF submit, local
  <1>4. submitted' \in [Ids -> Versions \union {Never}]
    BY DEF submit, TypeOK, Forms
  <1>5. TypeOK'
    BY <1>3, <1>4 DEF submit, TypeOK, local
  <1>6. Places'
    BY <1>1 DEF submit, Places, AtStep, local
  <1> QED
    BY <1>3, <1>5, <1>6

(* The end of a submit: the blank form is loaded and sent.                    *)
LEMMA ReloadStep ==
    ASSUME DeliveryInv, reload
    PROVE  DeliveryInv'
  <1> USE DEF DeliveryInv
  <1>1. store # NoForm
    BY DEF reload, AtStep, Places
  <1>2. /\ outbox' \in Seq(Forms) /\ applied' \in Nat /\ applied' <= Len(outbox')
        /\ online' = online /\ cut' \subseteq Ids
        /\ Ordered' /\ NotBehind' /\ Reached' /\ Covered'
        /\ Unborn' /\ RemoteNotAhead' /\ AcknowledgedStays'
        /\ ServedEditsDurable' /\ SubmittedDurable'
    BY <1>1, StoreFacts, SentStore DEF reload
  <1>3. TypeOK'
    BY <1>1, <1>2, StoreFacts DEF reload, TypeOK
  <1>4. Places'
    BY <1>1 DEF reload, Places, AtStep
  <1> QED
    BY <1>2, <1>3, <1>4

(* Another view model sends what it has loaded from the store.                *)
LEMMA OtherViewModelStep ==
    ASSUME DeliveryInv, OtherViewModel
    PROVE  DeliveryInv'
  <1> USE DEF DeliveryInv
  <1>1. store # NoForm
    BY DEF OtherViewModel, AtStep, Places, TypeOK, Forms, Ids, NoForm
  <1>2. /\ outbox' \in Seq(Forms) /\ applied' \in Nat /\ applied' <= Len(outbox')
        /\ online' = online /\ cut' \subseteq Ids
        /\ Ordered' /\ NotBehind' /\ Reached' /\ Covered'
        /\ Unborn' /\ RemoteNotAhead' /\ AcknowledgedStays'
        /\ ServedEditsDurable' /\ SubmittedDurable'
    BY <1>1, StoreFacts, SentStore DEF OtherViewModel, local
  <1>3. TypeOK'
    BY <1>2 DEF OtherViewModel, TypeOK, app, local
  <1>4. Places'
    BY DEF OtherViewModel, Places, app, local
  <1> QED
    BY <1>2, <1>3, <1>4

-----------------------------------------------------------------------------
(* A kill empties the outbox.  The forms with a write in it are cut; of the   *)
(* others the server has everything.                                          *)
LEMMA KillStep ==
    ASSUME DeliveryInv, Kill
    PROVE  DeliveryInv'
  <1> USE DEF DeliveryInv
  <1>1. outbox' = <<>> /\ Len(outbox') = 0 /\ DOMAIN outbox' = {}
    BY DEF Kill
  <1>2. Owed \subseteq Ids
    BY WriteFacts DEF Owed, TypeOK, Forms
  <1>3. TypeOK'
    <2>1. cut' \subseteq Ids /\ faults' \in Nat
      BY <1>2 DEF Kill, Fault, TypeOK
    <2>2. outbox' \in Seq(Forms) /\ applied' \in Nat /\ applied' <= Len(outbox')
      BY <1>1 DEF Kill
    <2> QED
      BY <2>1, <2>2 DEF Kill, TypeOK, local
  <1>4. Places'
    BY DEF Kill, Places, local
  <1>5. Unborn'
    BY <1>1 DEF Kill, Unborn, local
  <1>6. Ordered' /\ NotBehind' /\ Reached'
    BY <1>1 DEF Ordered, NotBehind, Reached
  <1>7. RemoteNotAhead' /\ ServedEditsDurable' /\ SubmittedDurable' /\ AcknowledgedStays'
    BY <1>1 DEF Kill, RemoteNotAhead, ServedEditsDurable, SubmittedDurable, AcknowledgedStays, local
  <1>8. Covered'
    <2>1. SUFFICES ASSUME NEW i \in Ids, i \notin cut'
                   PROVE  Settled(i)'
      BY DEF Covered
    <2>2. i \notin cut /\ \A k \in 1..Len(outbox) : outbox[k].id # i
      BY <2>1, WriteFacts DEF Kill, Owed
    <2>3. Settled(i)
      BY <2>2 DEF Covered, ToCome
    <2> QED
      BY <1>1, <2>3 DEF Settled, Kill
  <1> QED
    BY <1>3, <1>4, <1>5, <1>6, <1>7, <1>8

(* A launch loads the form in the store or makes a new one, and sends it or   *)
(* does not.                                                                  *)
LEMMA LaunchStep ==
    ASSUME DeliveryInv, Launch
    PROVE  DeliveryInv'
  <1> USE DEF DeliveryInv
  <1>1. /\ store' \in Forms /\ store'.id \in Ids /\ store'.v \in Int /\ store' # NoForm
        /\ lastId' \in Ids /\ store'.id = lastId' /\ lastId <= lastId'
    BY BoundsAssumption DEF Launch, Places, TypeOK, Forms, Versions, Ids, Blank, NoForm
  <1>2. /\ remote[store'.id] <= store'.v
        /\ \A k \in 1..Len(outbox) : outbox[k].id = store'.id => outbox[k].v <= store'.v
        /\ served[store'.id] <= store'.v /\ submitted[store'.id] <= store'.v
    <2>1. CASE store # NoForm
      BY <2>1, StoreFacts DEF Launch
    <2>2. CASE store = NoForm
      <3>1. store'.id > lastId /\ store'.v = 0
        BY <2>2, <1>1 DEF Launch, Blank, TypeOK, Ids
      <3> QED
        BY <3>1, <1>1 DEF Unborn, Never
    <2> QED
      BY <2>1, <2>2
  <1>3. Places'
    BY <1>1 DEF Launch, Places
  <1>4. remote' = remote /\ acked' = acked /\ served' = served /\ submitted' = submitted
    BY DEF Launch
  <1>5. AcknowledgedStays' /\ ServedEditsDurable' /\ SubmittedDurable'
    BY <1>2, <1>4 DEF AcknowledgedStays, ServedEditsDurable, SubmittedDurable
  <1>6. CASE UNCHANGED <<link, cut>>
    <2>1. Ordered' /\ NotBehind' /\ Reached' /\ Covered'
      BY <1>4, <1>6, Untouched DEF link, history
    <2>2. TypeOK'
      BY <1>1, <1>6 DEF Launch, TypeOK, link
    <2>3. Unborn'
      BY <1>1, <1>4, <1>6 DEF Unborn, TypeOK, Ids, link
    <2>4. RemoteNotAhead'
      BY <1>2, <1>4, <1>6, WriteFacts DEF RemoteNotAhead, link
    <2> QED
      BY <1>3, <1>5, <2>1, <2>2, <2>3, <2>4
  <1>7. CASE update(store')
    <2>1. /\ outbox' \in Seq(Forms) /\ applied' \in Nat /\ applied' <= Len(outbox')
          /\ online' = online /\ cut' \subseteq Ids
          /\ Ordered' /\ NotBehind' /\ Reached' /\ Covered'
      <3> DEFINE f == store'
      <3> HIDE DEF f
      <3>1. /\ f \in Forms /\ update(f) /\ remote[f.id] <= f.v
            /\ \A k \in 1..Len(outbox) : outbox[k].id = f.id => outbox[k].v <= f.v
            /\ \A i \in Ids : i # f.id => served'[i] = served[i] /\ submitted'[i] = submitted[i]
            /\ served'[f.id] <= f.v /\ submitted'[f.id] <= f.v
        BY <1>1, <1>2, <1>4, <1>7 DEF f
      <3> QED
        BY <1>4, <3>1, Sending
    <2>2. /\ Len(outbox') = Len(outbox) + 1
          /\ \A k \in 1..Len(outbox) : outbox'[k] = outbox[k]
          /\ outbox'[Len(outbox) + 1] = store'
      BY <1>1, <1>7, AppendFacts DEF update, TypeOK
    <2>3. \A k \in 1..Len(outbox') : k \in 1..Len(outbox) \/ k = Len(outbox) + 1
      BY <2>2, WriteFacts
    <2>4. TypeOK'
      BY <1>1, <2>1 DEF Launch, TypeOK
    <2>5. Unborn'
      BY <1>1, <1>4, <2>2, <2>3 DEF Unborn, TypeOK, Ids
    <2>6. RemoteNotAhead'
      <3>1. DOMAIN outbox' = 1..Len(outbox')
        BY <2>1
      <3>2. \A k \in 1..Len(outbox') : outbox'[k].id = store'.id => outbox'[k].v <= store'.v
        BY <1>1, <1>2, <2>2, <2>3
      <3> QED
        BY <1>2, <1>4, <3>1, <3>2 DEF RemoteNotAhead
    <2> QED
      BY <1>3, <1>5, <2>1, <2>4, <2>5, <2>6
  <1> QED
    BY <1>6, <1>7 DEF Launch

(* A new connection changes neither the writes nor their order.               *)
LEMMA RestoreStateStep ==
    ASSUME DeliveryInv, restoreState
    PROVE  DeliveryInv'
  <1> USE DEF DeliveryInv
  <1>1. Ordered' /\ NotBehind' /\ Reached' /\ AcknowledgedStays' /\ Covered'
    BY Untouched DEF restoreState, RestoreOrder
  <1>2. TypeOK' /\ Places' /\ Unborn'
    BY DEF restoreState, RestoreOrder, TypeOK, Places, Unborn, app, local, history
  <1>3. RemoteNotAhead' /\ ServedEditsDurable' /\ SubmittedDurable'
    BY DEF restoreState, RestoreOrder, RemoteNotAhead, ServedEditsDurable, SubmittedDurable, local, history
  <1> QED
    BY <1>1, <1>2, <1>3

(* A lost connection makes every write one that is still to be applied.       *)
LEMMA OnDisconnectStep ==
    ASSUME DeliveryInv, onDisconnect
    PROVE  DeliveryInv'
  <1> USE DEF DeliveryInv
  <1>1. TypeOK'
    <2>1. outbox' = outbox /\ applied' \in Nat /\ applied' <= Len(outbox') /\ faults' \in Nat
      BY WriteFacts DEF onDisconnect, Fault, TypeOK
    <2> QED
      BY <2>1 DEF onDisconnect, TypeOK, app, local, history
  <1>2. Places' /\ Unborn'
    BY DEF onDisconnect, Places, Unborn, app, local, history
  <1>3. Reached'
    BY DEF onDisconnect, Reached
  <1>4. Ordered' /\ NotBehind' /\ AcknowledgedStays' /\ Covered'
    BY DEF onDisconnect, Ordered, NotBehind, AcknowledgedStays, Covered, ToCome, Settled, history
  <1>5. RemoteNotAhead' /\ ServedEditsDurable' /\ SubmittedDurable'
    BY DEF onDisconnect, RemoteNotAhead, ServedEditsDurable, SubmittedDurable, local, history
  <1> QED
    BY <1>1, <1>2, <1>3, <1>4, <1>5

(* The server applies a write: nothing older than what it has answered for,   *)
(* and nothing the store does not have.                                       *)
LEMMA ServerAppliesStep ==
    ASSUME DeliveryInv, ServerApplies
    PROVE  DeliveryInv'
  <1> USE DEF DeliveryInv
  <1> DEFINE n == applied + 1
             w == outbox[n]
  <1>1. n \in 1..Len(outbox) /\ applied \in Nat
    BY WriteFacts DEF ServerApplies, TypeOK
  <1>2. w \in Forms /\ w.id \in Ids /\ w.v \in Int /\ w.v \in Versions
    BY <1>1, WriteFacts DEF Forms
  <1>3. /\ outbox' = outbox /\ applied' = n
        /\ remote' = [remote EXCEPT ![w.id] = w.v]
        /\ UNCHANGED <<local, history>>
    BY DEF ServerApplies
  <1> HIDE DEF w
  <1>4. /\ remote'[w.id] = w.v
        /\ \A i \in Ids : i # w.id => remote'[i] = remote[i]
    BY <1>2, <1>3 DEF TypeOK
  <1>5. TypeOK'
    <2>1. remote' \in [Ids -> Versions \union {Never}]
      BY <1>2, <1>3 DEF TypeOK
    <2>2. applied' \in Nat /\ applied' <= Len(outbox')
      BY <1>1, <1>3, WriteFacts
    <2> QED
      BY <1>3, <2>1, <2>2 DEF ServerApplies, TypeOK, app, local, history
  <1>6. Places'
    BY DEF ServerApplies, Places, app, local
  <1>7. Unborn'
    <2>1. \A i \in Ids : i > lastId => i # w.id
      BY <1>1 DEF Unborn, w
    <2> QED
      BY <1>3, <1>4, <2>1 DEF Unborn, local, history
  <1>8. Ordered' /\ NotBehind'
    BY <1>3 DEF Ordered, NotBehind, history
  <1>9. Reached'
    <2>1. SUFFICES ASSUME NEW k \in 1..Len(outbox), k <= n
                   PROVE  outbox[k].v <= remote'[outbox[k].id]
      BY <1>3 DEF Reached
    <2>2. CASE outbox[k].id = w.id
      BY <1>1, <1>4, <2>1, <2>2 DEF Ordered, w
    <2>3. CASE outbox[k].id # w.id
      <3>1. k <= applied
        BY <1>1, <2>1, <2>3 DEF w
      <3> QED
        BY <1>4, <2>3, <3>1, WriteFacts DEF Reached
    <2> QED
      BY <2>2, <2>3
  <1>10. RemoteNotAhead'
    <2>1. store # NoForm => remote'[store.id] <= store.v
      <3>1. SUFFICES ASSUME store # NoForm PROVE remote'[store.id] <= store.v
        OBVIOUS
      <3>2. CASE w.id = store.id
        BY <1>1, <1>4, <3>1, <3>2, StoreFacts DEF w
      <3>3. CASE w.id # store.id
        BY <1>4, <3>1, <3>3, StoreFacts
      <3> QED
        BY <3>2, <3>3
    <2> QED
      BY <1>3, <2>1 DEF RemoteNotAhead, local
  <1>11. ServedEditsDurable' /\ SubmittedDurable'
    BY <1>3 DEF ServedEditsDurable, SubmittedDurable, local, history
  <1>12. AcknowledgedStays'
    <2>1. acked[w.id] <= w.v /\ acked[w.id] \in Int
      BY <1>1, <1>2 DEF NotBehind, w, TypeOK, Versions, Never
    <2> QED
      BY <1>2, <1>3, <1>4, <2>1 DEF AcknowledgedStays, history
  <1>13. Covered'
    <2>1. SUFFICES ASSUME NEW i \in Ids, i \notin cut
                   PROVE  (ToCome(i) \/ Settled(i))'
      BY <1>3 DEF Covered, history
    <2>2. CASE ToCome(i)
      BY <1>3, <2>2 DEF ToCome, history
    <2>3. CASE Settled(i)
      <3>1. i # w.id
        BY <1>1, <2>3 DEF Settled, w
      <3> QED
        BY <1>3, <1>4, <2>3, <3>1 DEF Settled, history
    <2> QED
      BY <2>1, <2>2, <2>3 DEF Covered
  <1> QED
    BY <1>5, <1>6, <1>7, <1>8, <1>9, <1>10, <1>11, <1>12, <1>13

(* An answer: the server has the write, and those behind it are not older.    *)
LEMMA AcknowledgedStep ==
    ASSUME DeliveryInv, Acknowledged
    PROVE  DeliveryInv'
  <1> USE DEF DeliveryInv
  <1> DEFINE w == outbox[1]
  <1>1. Len(outbox) > 0 /\ applied >= 1 /\ applied \in Nat
    BY WriteFacts DEF Acknowledged, TypeOK
  <1>2. /\ outbox' \in Seq(Forms)
        /\ Len(outbox') = Len(outbox) - 1
        /\ \A k \in 1..Len(outbox') : outbox'[k] = outbox[k + 1] /\ k + 1 \in 1..Len(outbox)
        /\ Head(outbox) = w
        /\ 1 \in 1..Len(outbox)
    BY <1>1, TailFacts DEF Acknowledged, TypeOK
  <1>3. w.id \in Ids /\ w.v \in Int /\ w.v \in Versions
    BY <1>2, WriteFacts DEF Forms
  <1>4. /\ acked' = [acked EXCEPT ![w.id] = w.v]
        /\ applied' = applied - 1
        /\ UNCHANGED <<local, remote, served, submitted, cut>>
    BY <1>2 DEF Acknowledged
  <1>5. w.v <= remote[w.id]
    BY <1>1, <1>2 DEF Reached
  <1> HIDE DEF w
  <1>6. /\ acked'[w.id] = w.v
        /\ \A i \in Ids : i # w.id => acked'[i] = acked[i]
    BY <1>3, <1>4 DEF TypeOK
  <1>7. TypeOK'
    <2>1. acked' \in [Ids -> Versions \union {Never}]
      BY <1>3, <1>4 DEF TypeOK
    <2>2. applied' \in Nat /\ applied' <= Len(outbox')
      BY <1>1, <1>2, <1>4, WriteFacts DEF TypeOK
    <2> QED
      BY <1>2, <2>1, <2>2 DEF Acknowledged, TypeOK, app, local
  <1>8. Places'
    BY DEF Acknowledged, Places, app, local
  <1>9. Unborn'
    <2>1. \A i \in Ids : i > lastId => i # w.id
      BY <1>2 DEF Unborn, w
    <2> QED
      BY <1>2, <1>4, <1>6, <2>1 DEF Unborn, local
  <1>10. Ordered'
    <2>1. SUFFICES ASSUME NEW j \in 1..Len(outbox'), NEW k \in 1..Len(outbox'),
                          j <= k, outbox'[j].id = outbox'[k].id
                   PROVE  outbox'[j].v <= outbox'[k].v
      BY DEF Ordered
    <2>2. /\ outbox'[j] = outbox[j + 1] /\ outbox'[k] = outbox[k + 1] /\ j + 1 <= k + 1
          /\ j + 1 \in 1..Len(outbox) /\ k + 1 \in 1..Len(outbox)
      BY <1>2, <2>1
    <2> QED
      BY <2>1, <2>2 DEF Ordered
  <1>11. NotBehind'
    <2>1. SUFFICES ASSUME NEW k \in 1..Len(outbox')
                   PROVE  acked'[outbox'[k].id] <= outbox'[k].v
      BY DEF NotBehind
    <2>2. outbox'[k] = outbox[k + 1] /\ k + 1 \in 1..Len(outbox) /\ outbox[k + 1].id \in Ids
      BY <1>2, <2>1, WriteFacts
    <2>3. CASE outbox[k + 1].id = w.id
      <3>1. w.v <= outbox[k + 1].v
        BY <1>2, <2>1, <2>2, <2>3 DEF Ordered, w
      <3> QED
        BY <1>6, <2>2, <2>3, <3>1
    <2>4. CASE outbox[k + 1].id # w.id
      BY <1>6, <2>2, <2>4 DEF NotBehind
    <2> QED
      BY <2>3, <2>4
  <1>12. Reached'
    <2>1. SUFFICES ASSUME NEW k \in 1..Len(outbox'), k <= applied'
                   PROVE  outbox'[k].v <= remote[outbox'[k].id]
      BY <1>4 DEF Reached
    <2>2. outbox'[k] = outbox[k + 1] /\ k + 1 \in 1..Len(outbox) /\ k + 1 <= applied
      BY <1>1, <1>2, <1>4, <2>1
    <2> QED
      BY <2>2 DEF Reached
  <1>13. RemoteNotAhead'
    <2>1. DOMAIN outbox' = 1..Len(outbox')
      BY <1>2
    <2>2. store # NoForm =>
              \A k \in 1..Len(outbox') : outbox'[k].id = store.id => outbox'[k].v <= store.v
      BY <1>2, StoreFacts
    <2> QED
      BY <1>4, <2>1, <2>2 DEF RemoteNotAhead, local
  <1>14. ServedEditsDurable' /\ SubmittedDurable'
    BY <1>4 DEF ServedEditsDurable, SubmittedDurable, local
  <1>15. AcknowledgedStays'
    BY <1>3, <1>4, <1>5, <1>6 DEF AcknowledgedStays, TypeOK, Versions, Never
  <1>16. Covered'
    <2>1. SUFFICES ASSUME NEW i \in Ids, i \notin cut
                   PROVE  (ToCome(i) \/ Settled(i))'
      BY <1>4 DEF Covered
    <2>2. CASE Settled(i)
      BY <1>2, <1>4, <2>2 DEF Settled
    <2>3. CASE ToCome(i)
      <3>1. PICK k \in 1..Len(outbox) : /\ outbox[k].id = i
                                        /\ served[i] <= outbox[k].v
                                        /\ submitted[i] <= outbox[k].v
        BY <2>3 DEF ToCome
      <3>2. CASE \E j \in 1..Len(outbox') : outbox'[j].id = i
        <4>1. PICK j \in 1..Len(outbox') : outbox'[j].id = i
          BY <3>2
        <4>2. CASE k > 1
          <5>1. k - 1 \in 1..Len(outbox') /\ outbox'[k - 1] = outbox[k]
            BY <1>2, <3>1, <4>2, WriteFacts
          <5> QED
            BY <1>4, <3>1, <5>1 DEF ToCome
        <4>3. CASE k = 1
          <5>1. /\ outbox'[j] = outbox[j + 1] /\ j + 1 \in 1..Len(outbox)
                /\ outbox[1].v <= outbox[j + 1].v
            BY <1>2, <3>1, <4>1, <4>3 DEF Ordered
          <5>2. served[i] <= outbox'[j].v /\ submitted[i] <= outbox'[j].v
            BY <3>1, <4>3, <5>1, WriteFacts, <2>1 DEF TypeOK, Versions, Never
          <5> QED
            BY <1>4, <4>1, <5>2 DEF ToCome
        <4> QED
          BY <3>1, <4>2, <4>3
      <3>3. CASE ~ \E j \in 1..Len(outbox') : outbox'[j].id = i
        <4>1. k = 1
          <5>1. SUFFICES ASSUME k > 1 PROVE FALSE
            BY <3>1, WriteFacts
          <5>2. k - 1 \in 1..Len(outbox') /\ outbox'[k - 1] = outbox[k]
            BY <1>2, <3>1, <5>1, WriteFacts
          <5> QED
            BY <3>1, <3>3, <5>2
        <4>2. served[i] <= remote[i] /\ submitted[i] <= remote[i]
          BY <1>3, <1>5, <2>1, <3>1, <4>1 DEF w, TypeOK, Versions, Never
        <4> QED
          BY <1>4, <3>3, <4>2 DEF Settled
      <3> QED
        BY <3>2, <3>3
    <2> QED
      BY <2>1, <2>2, <2>3 DEF Covered
  <1> QED
    BY <1>7, <1>8, <1>9, <1>10, <1>11, <1>12, <1>13, <1>14, <1>15, <1>16

-----------------------------------------------------------------------------
(* The first launch.                                                          *)
LEMMA Initial == Init => DeliveryInv
  <1> SUFFICES ASSUME Init PROVE DeliveryInv
    OBVIOUS
  <1>1. Len(outbox) = 0 /\ outbox \in Seq(Forms) /\ DOMAIN outbox = {}
    BY DEF Init
  <1>2. TypeOK
    <2>1. 1 \in Ids /\ model \in Forms /\ store \in Forms
      BY BoundsAssumption DEF Init, Forms, Versions, Ids, Blank
    <2>2. applied \in Nat /\ applied <= Len(outbox) /\ faults \in Nat /\ cut \subseteq Ids
      BY <1>1 DEF Init
    <2> QED
      BY <1>1, <2>1, <2>2 DEF Init, TypeOK
  <1>3. Places
    BY DEF Init, Places, Blank, NoForm
  <1>4. Unborn /\ Ordered /\ NotBehind /\ Reached
    BY <1>1 DEF Init, Unborn, Ordered, NotBehind, Reached
  <1>5. RemoteNotAhead /\ ServedEditsDurable /\ SubmittedDurable /\ AcknowledgedStays
    BY <1>1, BoundsAssumption DEF Init, RemoteNotAhead, ServedEditsDurable, SubmittedDurable,
       AcknowledgedStays, Ids, Blank, NoForm, Never
  <1>6. Covered
    BY <1>1 DEF Init, Covered, Settled, Never
  <1> QED
    BY <1>2, <1>3, <1>4, <1>5, <1>6 DEF DeliveryInv

(* Every step keeps the invariant.                                            *)
LEMMA Inductive == DeliveryInv /\ [Next]_vars => DeliveryInv'
  <1> SUFFICES ASSUME DeliveryInv, [Next]_vars PROVE DeliveryInv'
    OBVIOUS
  <1>1. CASE UNCHANGED vars
    <2>1. UNCHANGED <<running, foreground, pc, model, store, lastId, online, outbox, applied,
                      remote, faults, served, acked, submitted, cut>>
      BY <1>1 DEF vars, app, local, link, history
    <2> QED
      BY <2>1 DEF DeliveryInv, TypeOK, Places, Unborn, Ordered, NotBehind, Reached,
         RemoteNotAhead, ServedEditsDurable, SubmittedDurable, AcknowledgedStays,
         Covered, ToCome, Settled
  <1>2. CASE Next
    BY <1>2, SetFielInfoStep, SaveContextStep, UpdateRemoteStep, SubmitStep, DeleteStep,
       MakeNewBlankFormStep, ReloadStep, OtherViewModelStep, SceneDidEnterBackgroundStep,
       SceneWillEnterForegroundStep, KillStep, LaunchStep, RestoreStateStep,
       OnDisconnectStep, ServerAppliesStep, AcknowledgedStep
       DEF Next, MainThread, Firebase
  <1> QED
    BY <1>1, <1>2

(* DeliveryInv holds in every reachable state.                                *)
LEMMA Invariant == Spec => []DeliveryInv
  BY Initial, Inductive, PTL DEF Spec

(* All variables keep their types.                                            *)
THEOREM TypeCorrect == Spec => []TypeOK
  <1>1. DeliveryInv => TypeOK
    BY DEF DeliveryInv
  <1> QED
    BY <1>1, Invariant, PTL

(* Neither the server nor a write on its way is ahead of the store, so a kill *)
(* at any point leaves a store that has all the server has of its form.       *)
THEOREM NeverAhead == Spec => []RemoteNotAhead
  <1>1. DeliveryInv => RemoteNotAhead
    BY DEF DeliveryInv
  <1> QED
    BY <1>1, Invariant, PTL

(* No kill, launch or change to the background loses an edit whose sink has   *)
(* ended.                                                                     *)
THEOREM EditsDurable == Spec => []ServedEditsDurable
  <1>1. DeliveryInv => ServedEditsDurable
    BY DEF DeliveryInv
  <1> QED
    BY <1>1, Invariant, PTL

(* Sending again over a new connection undoes nothing that was answered.      *)
THEOREM AnswersHold == Spec => []AcknowledgedStays
  <1>1. DeliveryInv => AcknowledgedStays
    BY DEF DeliveryInv
  <1> QED
    BY <1>1, Invariant, PTL

(* With nothing outstanding the server has all served edits and submitted     *)
(* forms, except those a kill has cut.                                        *)
THEOREM CopiesComplete == Spec => []CopiedUnlessCut
  <1>1. DeliveryInv => CopiedUnlessCut
    <2>1. SUFFICES ASSUME DeliveryInv, outbox = <<>>, NEW i \in Ids \ cut
                   PROVE  remote[i] >= served[i] /\ remote[i] >= submitted[i]
      BY DEF CopiedUnlessCut
    <2>2. Len(outbox) = 0
      BY <2>1
    <2>3. Settled(i)
      BY <2>1, <2>2 DEF DeliveryInv, Covered, ToCome
    <2> QED
      BY <2>1, <2>3 DEF Settled, DeliveryInv, TypeOK, Versions, Never
  <1> QED
    BY <1>1, Invariant, PTL
-----------------------------------------------------------------------------
(* The proof of FilesRight: an invariant for each of the four components.      *)

(* In "lock" the kernel's lock belongs to whoever believes to have it.         *)
LockPcs == {"idle", "opened", "inserted", "held", "refused", "unlocked", "closing"}
LockInv == /\ x3 \in [Threads -> LockPcs]
           /\ \A t \in Threads : x3[t] = "held" => x2 = t

(* Every step of a thread or a process keeps the kernel's lock with its        *)
(* holder: only a free lock is taken, and a closed descriptor drops the lock   *)
(* of the own process only.                                                    *)
LEMMA LockStep ==
    ASSUME LockInv, [Lock!Next]_Lock!vars
    PROVE  LockInv'
<1> USE DEF LockInv
<1>1. CASE UNCHANGED Lock!vars
  BY <1>1 DEF Lock!vars
<1>2. ASSUME NEW t \in Threads, Lock!LockFile(t) \/ Lock!UnlockFile(t)
      PROVE  LockInv'
  <2>1. CASE Lock!OpenLock(t)
    BY <2>1 DEF Lock!OpenLock, Lock!Go, LockPcs
  <2>2. CASE Lock!Insert(t)
    BY <2>2 DEF Lock!Insert, Lock!Go, LockPcs
  <2>3. CASE Lock!AlreadyHeld(t)
    BY <2>3 DEF Lock!AlreadyHeld, Lock!Go, Lock!CloseDrops, Lock!GivesUp, LockPcs
  <2>4. CASE Lock!LockKernel(t)
    BY <2>4, EnvAssumption DEF Lock!LockKernel, Lock!Go, Lock!Free, Lock!Nobody, LockPcs
  <2>5. CASE Lock!LockRefused(t)
    BY <2>5 DEF Lock!LockRefused, Lock!Go, Lock!CloseDrops, Lock!GivesUp, LockPcs
  <2>6. CASE Lock!RemoveRefused(t)
    BY <2>6 DEF Lock!RemoveRefused, Lock!Go, LockPcs
  <2>7. CASE Lock!UnlockKernel(t)
    BY <2>7 DEF Lock!UnlockKernel, Lock!Go, Lock!GivesUp, LockPcs
  <2>8. CASE Lock!RemoveLock(t)
    BY <2>8 DEF Lock!RemoveLock, Lock!Go, LockPcs
  <2>9. CASE Lock!CloseLock(t)
    BY <2>9 DEF Lock!CloseLock, Lock!Go, Lock!CloseDrops, Lock!GivesUp, LockPcs
  <2> QED
    BY <1>2, <2>1, <2>2, <2>3, <2>4, <2>5, <2>6, <2>7, <2>8, <2>9 DEF Lock!LockFile, Lock!UnlockFile
<1>3. ASSUME NEW p \in Threads, Lock!Exit(p) \/ Lock!Restart(p)
      PROVE  LockInv'
  <2>1. CASE Lock!Exit(p)
    BY <2>1 DEF Lock!Exit, Lock!GivesUp, LockPcs
  <2>2. CASE Lock!Restart(p)
    BY <2>2 DEF Lock!Restart
  <2> QED
    BY <1>3, <2>1, <2>2
<1> QED
  BY <1>1, <1>2, <1>3 DEF Lock!Next

(* In "threads" the table of a process keeps its threads apart from Insert to  *)
(* Remove, whatever becomes of the kernel's lock; a holder has the kernel's    *)
(* lock unless its process has dropped it.                                     *)
Owners == Processes \X Slots
InTable == {t \in Owners : x3[t] \in {"inserted", "refused", "held", "unlocked"}}
TableInv == /\ x3 \in [Owners -> LockPcs]
            /\ \A t \in InTable : t[1] \in x1
            /\ \A t, u \in InTable : t[1] = u[1] => t = u
            /\ \A t \in Owners : x3[t] = "held" => x2 = t[1] \/ t[1] \in x5

(* Nobody enters the table while a thread of the process is in it.             *)
LEMMA TableStep ==
    ASSUME TableInv, [Locks!Next]_Locks!vars
    PROVE  TableInv'
<1> USE DEF TableInv, InTable
<1>1. CASE UNCHANGED Locks!vars
  BY <1>1 DEF Locks!vars
<1>2. ASSUME NEW t \in Owners, Locks!LockFile(t) \/ Locks!UnlockFile(t)
      PROVE  TableInv'
  <2>0. [o \in Owners |-> o[1]][t] = t[1]
    OBVIOUS
  <2> USE <2>0, EnvAssumption DEF Locks!Go, LockPcs, Owners
  <2>a. ASSUME Locks!CloseDrops(t), x3[t] # "held",
               x3' = [x3 EXCEPT ![t] = "idle"] \/ x3' = [x3 EXCEPT ![t] = "refused"]
        PROVE  \A u \in Owners : x3'[u] = "held" => x2' = u[1] \/ u[1] \in x5'
    <3> SUFFICES ASSUME NEW u \in Owners, x3'[u] = "held"
                 PROVE  x2' = u[1] \/ u[1] \in x5'
      OBVIOUS
    <3>1. x3[u] = "held" /\ u # t
      BY <2>a
    <3>2. u \in Locks!Holders /\ [o \in Owners |-> o[1]][u] = u[1]
      BY <3>1 DEF Locks!Holders
    <3>3. CASE u[1] \in x5
      BY <2>a, <3>3 DEF Locks!CloseDrops
    <3>4. CASE x2 = u[1] /\ u[1] # t[1]
      BY <2>a, <3>4 DEF Locks!CloseDrops, Locks!GivesUp
    <3>5. CASE x2 = u[1] /\ u[1] = t[1]
      BY <2>a, <3>2, <3>5 DEF Locks!CloseDrops
    <3> QED
      BY <3>1, <3>3, <3>4, <3>5
  <2>1. CASE Locks!OpenLock(t)
    BY <2>1 DEF Locks!OpenLock
  <2>2. CASE Locks!Insert(t)
    BY <2>2 DEF Locks!Insert
  <2>3. CASE Locks!AlreadyHeld(t)
    BY <2>3, <2>a DEF Locks!AlreadyHeld
  <2>4. CASE Locks!LockKernel(t)
    BY <2>4 DEF Locks!LockKernel, Locks!Free, Locks!Nobody
  <2>5. CASE Locks!LockRefused(t)
    BY <2>5, <2>a DEF Locks!LockRefused
  <2>6. CASE Locks!RemoveRefused(t)
    BY <2>6 DEF Locks!RemoveRefused
  <2>7. CASE Locks!UnlockKernel(t)
    BY <2>7 DEF Locks!UnlockKernel, Locks!GivesUp
  <2>8. CASE Locks!RemoveLock(t)
    BY <2>8 DEF Locks!RemoveLock
  <2>9. CASE Locks!CloseLock(t)
    BY <2>9, <2>a DEF Locks!CloseLock
  <2> QED
    BY <1>2, <2>1, <2>2, <2>3, <2>4, <2>5, <2>6, <2>7, <2>8, <2>9 DEF Locks!LockFile, Locks!UnlockFile
<1>3. ASSUME NEW p \in Processes, Locks!Exit(p) \/ Locks!Restart(p)
      PROVE  TableInv'
  <2>1. CASE Locks!Exit(p)
    <3>1. \A t \in Owners : x3'[t] = IF t[1] = p THEN "idle" ELSE x3[t]
      BY <2>1 DEF Locks!Exit, Owners
    <3>2. x1' = x1 \ {p} /\ x3' \in [Owners -> LockPcs]
      BY <2>1 DEF Locks!Exit, Owners, LockPcs
    <3>3. x2' = (IF x2 = p THEN "nobody" ELSE x2) /\ x5' = x5 \ {p}
      BY <2>1 DEF Locks!Exit, Locks!GivesUp, Locks!Nobody
    <3> QED
      BY <3>1, <3>2, <3>3 DEF LockPcs
  <2>2. CASE Locks!Restart(p)
    BY <2>2 DEF Locks!Restart
  <2> QED
    BY <1>3, <2>1, <2>2
<1> QED
  BY <1>1, <1>2, <1>3 DEF Locks!Next, Owners

(* In "work" the mutex is with the thread that is inside Schedule or looks at  *)
(* the queue; a worker that waits has seen an empty queue and is woken before  *)
(* the next item is in it.                                                     *)
Numbers(n) == [i \in 1..n |-> i]
WorkTypes == /\ x2 \in BOOLEAN /\ x3 \in Seq(Nat \ {0})
             /\ x4 \in [Threads -> {"idle", "start", "signal", "queue", "unlock"}]
             /\ x5 \in {"none", "awake", "look", "waiting", "busy"}
             /\ x6 \in Nat /\ x7 \in Nat /\ x8 \in Seq(Nat)
WorkWakes == /\ ~x2 => x5 = "none"
             /\ x5 = "look" => x1 = "background"
             /\ \A t \in Threads : x4[t] # "idle" => x1 = t
             /\ x5 = "waiting" => x3 = <<>>
             /\ \A t \in Threads : x4[t] = "queue" => x5 # "waiting"
WorkOrder == /\ x5 = "busy" <=> x6 # 0
             /\ Work!OnceInOrder
WorkInv == WorkTypes /\ WorkWakes /\ WorkOrder

(* The item that is queued gets the next number.                               *)
LEMMA NumbersGrow ==
    ASSUME NEW n \in Nat
    PROVE  Append(Numbers(n), n + 1) = Numbers(n + 1)
<1>1. Numbers(n) \in Seq(Nat) /\ Len(Numbers(n)) = n
  BY DEF Numbers
<1>2. Numbers(n + 1) \in Seq(Nat) /\ Len(Numbers(n + 1)) = n + 1
  BY DEF Numbers
<1>3. /\ Append(Numbers(n), n + 1) \in Seq(Nat)
      /\ Len(Append(Numbers(n), n + 1)) = n + 1
      /\ \A i \in 1..n : Append(Numbers(n), n + 1)[i] = i
      /\ Append(Numbers(n), n + 1)[n + 1] = n + 1
  BY <1>1 DEF Numbers
<1>4. \A i \in 1..n + 1 : Append(Numbers(n), n + 1)[i] = Numbers(n + 1)[i]
  BY <1>3 DEF Numbers
<1> QED
  BY <1>2, <1>3, <1>4, SeqEqual

(* Queueing, taking and finishing an item moves the marks between ran, the     *)
(* item in hand and the queue, or appends one at the end.                      *)
LEMMA Regroup ==
    ASSUME NEW r \in Seq(Nat), NEW q \in Seq(Nat), NEW e \in Nat
    PROVE  /\ r \o Append(q, e) = Append(r \o q, e)
           /\ q # <<>> => (r \o <<Head(q)>>) \o Tail(q) = r \o q
           /\ Append(r, e) = r \o <<e>>
           /\ r \o <<>> = r
<1>1. r \o q \in Seq(Nat) /\ <<e>> \in Seq(Nat)
  BY ConcatProperties
<1>2. r \o Append(q, e) = Append(r \o q, e)
  <2>1. Append(q, e) = q \o <<e>> /\ Append(r \o q, e) = (r \o q) \o <<e>>
    BY <1>1, AppendIsConcat
  <2> QED
    BY <1>1, <2>1, ConcatAssociative
<1>3. ASSUME q # <<>>
      PROVE  (r \o <<Head(q)>>) \o Tail(q) = r \o q
  <2>1. Head(q) \in Nat /\ Tail(q) \in Seq(Nat) /\ <<Head(q)>> \in Seq(Nat)
    BY <1>3, HeadTailProperties
  <2>2. <<Head(q)>> \o Tail(q) = q
    <3>1. Len(q) \in Nat /\ Len(q) > 0 /\ Len(Tail(q)) = Len(q) - 1 /\ q[1] = Head(q)
          /\ \A i \in 1..Len(Tail(q)) : Tail(q)[i] = q[i + 1]
      BY <1>3
    <3>2. /\ <<Head(q)>> \o Tail(q) \in Seq(Nat)
          /\ Len(<<Head(q)>> \o Tail(q)) = Len(q)
          /\ \A i \in 1..Len(q) : (<<Head(q)>> \o Tail(q))[i] = IF i = 1 THEN Head(q) ELSE Tail(q)[i - 1]
      BY <2>1, <3>1, ConcatProperties
    <3>3. \A i \in 1..Len(q) : (<<Head(q)>> \o Tail(q))[i] = q[i]
      BY <3>1, <3>2
    <3> QED
      BY <3>2, <3>3, SeqEqual
  <2> QED
    BY <2>1, <2>2, ConcatAssociative
<1>4. Append(r, e) = r \o <<e>> /\ r \o <<>> = r
  BY AppendIsConcat, ConcatEmptySeq
<1> QED
  BY <1>2, <1>3, <1>4

(* What is queued next extends the numbers, wherever the items before it are.  *)
LEMMA NextNumber ==
    ASSUME NEW r \in Seq(Nat), NEW q \in Seq(Nat), NEW n \in Nat, r \o q = Numbers(n)
    PROVE  r \o Append(q, n + 1) = Numbers(n + 1)
<1>1. r \o Append(q, n + 1) = Append(r \o q, n + 1)
  BY Regroup
<1> QED
  BY <1>1, NumbersGrow

(* Every step of Schedule and of BackgroundThreadMain keeps what is in order   *)
(* in order, and wakes the worker in time.                                     *)
LEMMA WorkStep ==
    ASSUME WorkInv, [Work!Next]_Work!vars
    PROVE  WorkInv'
<1> USE DEF WorkInv, WorkTypes, WorkWakes, WorkOrder, Work!OnceInOrder, Work!InHand, Work!NoItem
<1>1. CASE UNCHANGED Work!vars
  BY <1>1 DEF Work!vars, Work!work
<1>2. ASSUME NEW t \in Threads, Work!Schedule(t)
      PROVE  WorkInv'
  <2> USE EnvAssumption DEF Work!Go, Work!Nobody, Work!work
  <2>1. CASE Work!Lock(t)
    <3>1. /\ x1 = "nobody" /\ x1' = t /\ x4' = [x4 EXCEPT ![t] = "start"]
          /\ UNCHANGED <<x2, x3, x5, x6, x7, x8>>
      BY <2>1 DEF Work!Lock
    <3>2. WorkTypes' /\ WorkWakes'
      BY <3>1
    <3> QED
      BY <3>1, <3>2
  <2>2. CASE Work!StartOnce(t)
    BY <2>2 DEF Work!StartOnce
  <2>3. CASE Work!SignalEmpty(t)
    BY <2>3 DEF Work!SignalEmpty, Work!MayWait
  <2>4. CASE Work!Emplace(t)
    <3>1. WorkTypes' /\ WorkWakes'
      BY <2>4 DEF Work!Emplace
    <3>2. Work!InHand \in Seq(Nat) /\ x3 \in Seq(Nat) /\ x8 \in Seq(Nat)
      OBVIOUS
    <3>3. x8 \o Work!InHand \in Seq(Nat)
      BY <3>2, ConcatProperties
    <3>4. (x8 \o Work!InHand) \o x3 = Numbers(x7)
      BY DEF Numbers
    <3>5. (x8 \o Work!InHand) \o Append(x3, x7 + 1) = Numbers(x7 + 1)
      <4> HIDE DEF WorkInv, WorkTypes, WorkWakes, WorkOrder, Work!OnceInOrder, Work!InHand
      <4>1. x7 \in Nat
        BY DEF WorkInv, WorkTypes
      <4> QED
        BY <3>2, <3>3, <3>4, <4>1, NextNumber
    <3>6. x8' = x8 /\ x6' = x6 /\ x5' = x5 /\ x3' = Append(x3, x7 + 1) /\ x7' = x7 + 1
      BY <2>4 DEF Work!Emplace
    <3>7. Work!OnceInOrder'
      BY <3>5, <3>6 DEF Numbers
    <3> QED
      BY <3>1, <3>6, <3>7
  <2>5. CASE Work!Unlock(t)
    BY <2>5 DEF Work!Unlock
  <2> QED
    BY <1>2, <2>1, <2>2, <2>3, <2>4, <2>5 DEF Work!Schedule
<1>3. CASE Work!WorkerLock
  BY <1>3, EnvAssumption DEF Work!WorkerLock, Work!Nobody, Work!work
<1>4. CASE Work!Wait
  BY <1>4, EnvAssumption DEF Work!Wait, Work!Nobody, Work!work
<1>5. CASE Work!Take
  <2>1. Head(x3) \in Nat \ {0} /\ Tail(x3) \in Seq(Nat \ {0}) /\ x3 \in Seq(Nat) /\ x3 # <<>>
    BY <1>5 DEF Work!Take
  <2>2. WorkTypes' /\ WorkWakes'
    BY <1>5, <2>1, EnvAssumption DEF Work!Take, Work!PopFront, Work!Nobody
  <2>3. x6 = 0 /\ x6' = Head(x3) /\ x6' # 0 /\ x3' = Tail(x3) /\ x8' = x8 /\ x7' = x7 /\ x5' = "busy"
    BY <1>5, <2>1 DEF Work!Take, Work!PopFront
  <2>4. (x8 \o <<Head(x3)>>) \o Tail(x3) = x8 \o x3
    BY <2>1, Regroup
  <2>5. (x8 \o <<>>) \o x3 = x8 \o x3
    BY Regroup, <2>1
  <2> QED
    BY <2>2, <2>3, <2>4, <2>5
<1>6. CASE Work!Finish
  <2>1. WorkTypes' /\ WorkWakes'
    BY <1>6 DEF Work!Finish
  <2>2. x6 # 0 /\ x6' = 0 /\ x8' = Append(x8, x6) /\ x3' = x3 /\ x7' = x7 /\ x5' = "awake"
    BY <1>6 DEF Work!Finish
  <2>3. x8' = x8 \o <<x6>> /\ x8' \o <<>> = x8'
    BY <2>1, <2>2, Regroup
  <2> QED
    BY <2>1, <2>2, <2>3
<1>7. CASE Work!SpuriousWake
  BY <1>7 DEF Work!SpuriousWake, Work!work
<1> QED
  BY <1>1, <1>2, <1>3, <1>4, <1>5, <1>6, <1>7 DEF Work!Next, Work!BackgroundThreadMain

(* In "limits" a counter is the limit less the files that hold a part of it,   *)
(* the threads that were granted one and those whose Acquire has failed but    *)
(* not yet put back what it took; granted is only what was left.               *)
LimitPcs == {"idle", "mmap", "map", "noMmap", "fd", "keep", "noFd", "drop", "release",
             "read", "freeMmap", "freeFd"}
HasFd == {"mmap", "map", "noMmap", "fd", "keep", "noFd", "drop", "read"}
Weight(place, W) == IF place \in W THEN 1 ELSE 0
CountIn(f, W) == Limits!Cardinality({t \in Threads : f[t] \in W})
Mapping == CountIn(x2, {"map", "release", "freeMmap"})
NotMapping == CountIn(x2, {"noMmap"})
Keeping == CountIn(x2, {"keep", "freeFd"})
NotKeeping == CountIn(x2, {"noFd"})
LimitTypes == /\ x1 \in [{"mmap", "fd"} -> Int]
              /\ x2 \in [Threads -> LimitPcs]
              /\ x3 \in [{"mmap", "fd", "none"} -> Nat]
              /\ x4 \in [Threads -> 0..1]
              /\ \A t \in Threads : x4[t] = IF x2[t] \in HasFd THEN 1 ELSE 0
LimitCounts == /\ x1["mmap"] = MaxMmaps - x3["mmap"] - Mapping - NotMapping
               /\ x1["fd"] = MaxOpenFiles - x3["fd"] - Keeping - NotKeeping
               /\ x3["mmap"] + Mapping <= MaxMmaps
               /\ x3["fd"] + Keeping <= MaxOpenFiles
LimitInv == LimitTypes /\ LimitCounts

(* A thread that moves leaves the set of the place it was at, and enters that  *)
(* of the place it goes to.                                                    *)
LEMMA CountMoves ==
    ASSUME NEW f \in [Threads -> LimitPcs], NEW t \in Threads, NEW to \in LimitPcs, NEW W
    PROVE  /\ CountIn(f, W) \in Nat
           /\ CountIn([f EXCEPT ![t] = to], W)
                 = CountIn(f, W) - Weight(f[t], W) + Weight(to, W)
<1> DEFINE g == [f EXCEPT ![t] = to]
           Rest == {u \in Threads : f[u] \in W} \ {t}
<1>1. Limits!IsFiniteSet(Threads)
  BY EnvAssumption DEF Limits!IsFiniteSet, IsFiniteSet
<1>2. Limits!IsFiniteSet(Rest) /\ Limits!Cardinality(Rest) \in Nat /\ t \notin Rest
  BY <1>1, Limits!FS_Subset, Limits!FS_CardinalityType
<1>3. /\ Limits!Cardinality(Rest \union {t}) = Limits!Cardinality(Rest) + 1
  BY <1>2, Limits!FS_AddElement
<1>4. {u \in Threads : f[u] \in W} = IF f[t] \in W THEN Rest \union {t} ELSE Rest
  OBVIOUS
<1>5. {u \in Threads : g[u] \in W} = IF to \in W THEN Rest \union {t} ELSE Rest
  OBVIOUS
<1> HIDE DEF Rest, g
<1>6. CountIn(f, W) = Limits!Cardinality(Rest) + Weight(f[t], W)
  BY <1>2, <1>3, <1>4 DEF CountIn, Weight
<1>7. CountIn(g, W) = Limits!Cardinality(Rest) + Weight(to, W)
  <2>1. CountIn(g, W) = Limits!Cardinality({u \in Threads : g[u] \in W})
    BY DEF CountIn
  <2>2. CASE to \in W
    BY <1>3, <1>5, <2>1, <2>2 DEF Weight
  <2>3. CASE to \notin W
    <3>1. CountIn(g, W) = Limits!Cardinality(Rest)
      BY <1>5, <2>1, <2>3
    <3> QED
      BY <1>2, <2>3, <3>1 DEF Weight
  <2> QED
    BY <2>2, <2>3
<1>8. CountIn(f, W) \in Nat /\ CountIn(g, W) = CountIn(f, W) - Weight(f[t], W) + Weight(to, W)
  BY <1>2, <1>6, <1>7 DEF Weight
<1> QED
  BY <1>8 DEF g

(* The same for the four sets of the invariant.                                *)
Change(from, to) ==
    /\ Mapping' = Mapping - Weight(from, {"map", "release", "freeMmap"})
                          + Weight(to, {"map", "release", "freeMmap"})
    /\ NotMapping' = NotMapping - Weight(from, {"noMmap"}) + Weight(to, {"noMmap"})
    /\ Keeping' = Keeping - Weight(from, {"keep", "freeFd"}) + Weight(to, {"keep", "freeFd"})
    /\ NotKeeping' = NotKeeping - Weight(from, {"noFd"}) + Weight(to, {"noFd"})

(* A thread that moves from one place to another changes only what it holds.  *)
LEMMA LimitMoves ==
    ASSUME LimitTypes, NEW t \in Threads, NEW from, NEW to \in LimitPcs,
           x2[t] = from, x2' = [x2 EXCEPT ![t] = to]
    PROVE  Change(from, to)
<1>1. x2 \in [Threads -> LimitPcs]
  BY DEF LimitTypes
<1>2. \A W : /\ CountIn(x2, W) \in Nat
             /\ CountIn(x2', W) = CountIn(x2, W) - Weight(x2[t], W) + Weight(to, W)
  <2>1. ASSUME NEW W
        PROVE  /\ CountIn(x2, W) \in Nat
               /\ CountIn([x2 EXCEPT ![t] = to], W) = CountIn(x2, W) - Weight(x2[t], W) + Weight(to, W)
    BY <1>1, CountMoves
  <2> QED
    BY <2>1
<1>3. /\ Mapping' = CountIn(x2', {"map", "release", "freeMmap"})
      /\ NotMapping' = CountIn(x2', {"noMmap"})
      /\ Keeping' = CountIn(x2', {"keep", "freeFd"})
      /\ NotKeeping' = CountIn(x2', {"noFd"})
  BY DEF Mapping, NotMapping, Keeping, NotKeeping, CountIn
<1>4. /\ Mapping = CountIn(x2, {"map", "release", "freeMmap"})
      /\ NotMapping = CountIn(x2, {"noMmap"})
      /\ Keeping = CountIn(x2, {"keep", "freeFd"})
      /\ NotKeeping = CountIn(x2, {"noFd"})
  BY DEF Mapping, NotMapping, Keeping, NotKeeping
<1> QED
  BY <1>2, <1>3, <1>4 DEF Change

(* However the halves of Acquire, the openings and the closings interleave,    *)
(* the counts agree.                                                           *)
LEMMA LimitStep ==
    ASSUME LimitInv, [Limits!Next]_Limits!vars
    PROVE  LimitInv'
<1> USE DEF LimitInv
<1>1. CASE UNCHANGED Limits!vars
  BY <1>1 DEF Limits!vars, LimitTypes, LimitCounts, Mapping, NotMapping, Keeping, NotKeeping, CountIn
<1>2. ASSUME NEW t \in Threads,
             \/ Limits!OpenFile(t) \/ Limits!AcquireMmap(t) \/ Limits!NoMmap(t)
             \/ Limits!AcquireFd(t) \/ Limits!NoFd(t) \/ Limits!MapFile(t) \/ Limits!MapFails(t)
             \/ Limits!ReleaseMap(t) \/ Limits!KeepFd(t) \/ Limits!DropFd(t)
             \/ Limits!ReadOpens(t) \/ Limits!ReadCloses(t)
             \/ (\E k \in Limits!Kinds : Limits!CloseFile(t, k))
             \/ (\E l \in Limits!Limiters : Limits!Release(t, l))
      PROVE  LimitInv'
  <2>0. /\ Mapping \in Nat /\ NotMapping \in Nat /\ Keeping \in Nat /\ NotKeeping \in Nat
        /\ MaxMmaps \in Nat /\ MaxOpenFiles \in Nat
    BY EnvAssumption, CountMoves DEF Mapping, NotMapping, Keeping, NotKeeping, LimitTypes
  <2> USE DEF Limits!Go, Limits!FetchAdd, Limits!PutBack, Limits!FetchSub, Limits!Granted,
              Limits!Freeing, Limits!Limiters, Limits!Kinds
  <2>1. CASE Limits!OpenFile(t)
    <3>1. x2[t] = "idle" /\ x2' = [x2 EXCEPT ![t] = "mmap"]
      BY <2>1 DEF Limits!OpenFile
    <3>2. LimitTypes'
      BY <2>1, <3>1 DEF Limits!OpenFile, LimitTypes, LimitPcs, HasFd
    <3>3. Change("idle", "mmap")
      BY <3>1, LimitMoves DEF LimitPcs
    <3>4. LimitCounts'
      BY <2>1, <2>0, <3>2, <3>3 DEF Limits!OpenFile, LimitTypes, LimitCounts, Change, Weight
    <3> QED
      BY <3>2, <3>4
  <2>2. CASE Limits!AcquireMmap(t)
    <3>1. x2[t] = "mmap" /\ x2' = [x2 EXCEPT ![t] = IF x1["mmap"] > 0 THEN "map" ELSE "noMmap"]
      BY <2>2 DEF Limits!AcquireMmap
    <3>2. LimitTypes'
      BY <2>2, <3>1 DEF Limits!AcquireMmap, LimitTypes, LimitPcs, HasFd
    <3>3. CASE x1["mmap"] > 0
      <4>1. x2[t] = "mmap" /\ x2' = [x2 EXCEPT ![t] = "map"]
        BY <3>1, <3>3
      <4>2. Change("mmap", "map")
        BY <4>1, LimitMoves DEF LimitPcs
      <4>3. LimitCounts'
        BY <2>2, <2>0, <3>2, <3>3, <4>2 DEF Limits!AcquireMmap, LimitTypes, LimitCounts, Change, Weight
      <4> QED
        BY <3>2, <4>3
    <3>4. CASE ~(x1["mmap"] > 0)
      <4>1. x2[t] = "mmap" /\ x2' = [x2 EXCEPT ![t] = "noMmap"]
        BY <3>1, <3>4
      <4>2. Change("mmap", "noMmap")
        BY <4>1, LimitMoves DEF LimitPcs
      <4>3. LimitCounts'
        BY <2>2, <2>0, <3>2, <3>4, <4>2 DEF Limits!AcquireMmap, LimitTypes, LimitCounts, Change, Weight
      <4> QED
        BY <3>2, <4>3
    <3> QED
      BY <3>3, <3>4
  <2>3. CASE Limits!NoMmap(t)
    <3>1. x2[t] = "noMmap" /\ x2' = [x2 EXCEPT ![t] = "fd"]
      BY <2>3 DEF Limits!NoMmap
    <3>2. LimitTypes'
      BY <2>3, <3>1 DEF Limits!NoMmap, LimitTypes, LimitPcs, HasFd
    <3>3. Change("noMmap", "fd")
      BY <3>1, LimitMoves DEF LimitPcs
    <3>4. LimitCounts'
      BY <2>3, <2>0, <3>2, <3>3 DEF Limits!NoMmap, LimitTypes, LimitCounts, Change, Weight
    <3> QED
      BY <3>2, <3>4
  <2>4. CASE Limits!AcquireFd(t)
    <3>1. x2[t] = "fd" /\ x2' = [x2 EXCEPT ![t] = IF x1["fd"] > 0 THEN "keep" ELSE "noFd"]
      BY <2>4 DEF Limits!AcquireFd
    <3>2. LimitTypes'
      BY <2>4, <3>1 DEF Limits!AcquireFd, LimitTypes, LimitPcs, HasFd
    <3>3. CASE x1["fd"] > 0
      <4>1. x2[t] = "fd" /\ x2' = [x2 EXCEPT ![t] = "keep"]
        BY <3>1, <3>3
      <4>2. Change("fd", "keep")
        BY <4>1, LimitMoves DEF LimitPcs
      <4>3. LimitCounts'
        BY <2>4, <2>0, <3>2, <3>3, <4>2 DEF Limits!AcquireFd, LimitTypes, LimitCounts, Change, Weight
      <4> QED
        BY <3>2, <4>3
    <3>4. CASE ~(x1["fd"] > 0)
      <4>1. x2[t] = "fd" /\ x2' = [x2 EXCEPT ![t] = "noFd"]
        BY <3>1, <3>4
      <4>2. Change("fd", "noFd")
        BY <4>1, LimitMoves DEF LimitPcs
      <4>3. LimitCounts'
        BY <2>4, <2>0, <3>2, <3>4, <4>2 DEF Limits!AcquireFd, LimitTypes, LimitCounts, Change, Weight
      <4> QED
        BY <3>2, <4>3
    <3> QED
      BY <3>3, <3>4
  <2>5. CASE Limits!NoFd(t)
    <3>1. x2[t] = "noFd" /\ x2' = [x2 EXCEPT ![t] = "drop"]
      BY <2>5 DEF Limits!NoFd
    <3>2. LimitTypes'
      BY <2>5, <3>1 DEF Limits!NoFd, LimitTypes, LimitPcs, HasFd
    <3>3. Change("noFd", "drop")
      BY <3>1, LimitMoves DEF LimitPcs
    <3>4. LimitCounts'
      BY <2>5, <2>0, <3>2, <3>3 DEF Limits!NoFd, LimitTypes, LimitCounts, Change, Weight
    <3> QED
      BY <3>2, <3>4
  <2>6. CASE Limits!MapFile(t)
    <3>1. x2[t] = "map" /\ x2' = [x2 EXCEPT ![t] = "idle"]
      BY <2>6 DEF Limits!MapFile
    <3>2. LimitTypes'
      BY <2>6, <3>1 DEF Limits!MapFile, LimitTypes, LimitPcs, HasFd
    <3>3. Change("map", "idle")
      BY <3>1, LimitMoves DEF LimitPcs
    <3>4. LimitCounts'
      BY <2>6, <2>0, <3>2, <3>3 DEF Limits!MapFile, LimitTypes, LimitCounts, Change, Weight
    <3> QED
      BY <3>2, <3>4
  <2>7. CASE Limits!MapFails(t)
    <3>1. x2[t] = "map" /\ x2' = [x2 EXCEPT ![t] = "release"]
      BY <2>7 DEF Limits!MapFails
    <3>2. LimitTypes'
      BY <2>7, <3>1 DEF Limits!MapFails, LimitTypes, LimitPcs, HasFd
    <3>3. Change("map", "release")
      BY <3>1, LimitMoves DEF LimitPcs
    <3>4. LimitCounts'
      BY <2>7, <2>0, <3>2, <3>3 DEF Limits!MapFails, LimitTypes, LimitCounts, Change, Weight
    <3> QED
      BY <3>2, <3>4
  <2>8. CASE Limits!ReleaseMap(t)
    <3>1. x2[t] = "release" /\ x2' = [x2 EXCEPT ![t] = "idle"]
      BY <2>8 DEF Limits!ReleaseMap
    <3>2. LimitTypes'
      BY <2>8, <3>1 DEF Limits!ReleaseMap, LimitTypes, LimitPcs, HasFd
    <3>3. Change("release", "idle")
      BY <3>1, LimitMoves DEF LimitPcs
    <3>4. LimitCounts'
      BY <2>8, <2>0, <3>2, <3>3 DEF Limits!ReleaseMap, LimitTypes, LimitCounts, Change, Weight
    <3> QED
      BY <3>2, <3>4
  <2>9. CASE Limits!KeepFd(t)
    <3>1. x2[t] = "keep" /\ x2' = [x2 EXCEPT ![t] = "idle"]
      BY <2>9 DEF Limits!KeepFd
    <3>2. LimitTypes'
      BY <2>9, <3>1 DEF Limits!KeepFd, LimitTypes, LimitPcs, HasFd
    <3>3. Change("keep", "idle")
      BY <3>1, LimitMoves DEF LimitPcs
    <3>4. LimitCounts'
      BY <2>9, <2>0, <3>2, <3>3 DEF Limits!KeepFd, LimitTypes, LimitCounts, Change, Weight
    <3> QED
      BY <3>2, <3>4
  <2>10. CASE Limits!DropFd(t)
    <3>1. x2[t] = "drop" /\ x2' = [x2 EXCEPT ![t] = "idle"]
      BY <2>10 DEF Limits!DropFd
    <3>2. LimitTypes'
      BY <2>10, <3>1 DEF Limits!DropFd, LimitTypes, LimitPcs, HasFd
    <3>3. Change("drop", "idle")
      BY <3>1, LimitMoves DEF LimitPcs
    <3>4. LimitCounts'
      BY <2>10, <2>0, <3>2, <3>3 DEF Limits!DropFd, LimitTypes, LimitCounts, Change, Weight
    <3> QED
      BY <3>2, <3>4
  <2>11. CASE Limits!ReadOpens(t)
    <3>1. x2[t] = "idle" /\ x2' = [x2 EXCEPT ![t] = "read"]
      BY <2>11 DEF Limits!ReadOpens
    <3>2. LimitTypes'
      BY <2>11, <3>1 DEF Limits!ReadOpens, LimitTypes, LimitPcs, HasFd
    <3>3. Change("idle", "read")
      BY <3>1, LimitMoves DEF LimitPcs
    <3>4. LimitCounts'
      BY <2>11, <2>0, <3>2, <3>3 DEF Limits!ReadOpens, LimitTypes, LimitCounts, Change, Weight
    <3> QED
      BY <3>2, <3>4
  <2>12. CASE Limits!ReadCloses(t)
    <3>1. x2[t] = "read" /\ x2' = [x2 EXCEPT ![t] = "idle"]
      BY <2>12 DEF Limits!ReadCloses
    <3>2. LimitTypes'
      BY <2>12, <3>1 DEF Limits!ReadCloses, LimitTypes, LimitPcs, HasFd
    <3>3. Change("read", "idle")
      BY <3>1, LimitMoves DEF LimitPcs
    <3>4. LimitCounts'
      BY <2>12, <2>0, <3>2, <3>3 DEF Limits!ReadCloses, LimitTypes, LimitCounts, Change, Weight
    <3> QED
      BY <3>2, <3>4
  <2>13. CASE Limits!CloseFile(t, "mmap")
    <3>1. x2[t] = "idle" /\ x2' = [x2 EXCEPT ![t] = "freeMmap"]
      BY <2>13 DEF Limits!CloseFile
    <3>2. LimitTypes'
      BY <2>13, <3>1 DEF Limits!CloseFile, LimitTypes, LimitPcs, HasFd
    <3>3. Change("idle", "freeMmap")
      BY <3>1, LimitMoves DEF LimitPcs
    <3>4. LimitCounts'
      BY <2>13, <2>0, <3>2, <3>3 DEF Limits!CloseFile, LimitTypes, LimitCounts, Change, Weight
    <3> QED
      BY <3>2, <3>4
  <2>14. CASE Limits!CloseFile(t, "fd")
    <3>1. x2[t] = "idle" /\ x2' = [x2 EXCEPT ![t] = "freeFd"]
      BY <2>14 DEF Limits!CloseFile
    <3>2. LimitTypes'
      BY <2>14, <3>1 DEF Limits!CloseFile, LimitTypes, LimitPcs, HasFd
    <3>3. Change("idle", "freeFd")
      BY <3>1, LimitMoves DEF LimitPcs
    <3>4. LimitCounts'
      BY <2>14, <2>0, <3>2, <3>3 DEF Limits!CloseFile, LimitTypes, LimitCounts, Change, Weight
    <3> QED
      BY <3>2, <3>4
  <2>15. CASE Limits!CloseFile(t, "none")
    <3>1. x2[t] = "idle" /\ x2' = [x2 EXCEPT ![t] = "idle"]
      BY <2>15 DEF Limits!CloseFile
    <3>2. LimitTypes'
      BY <2>15, <3>1 DEF Limits!CloseFile, LimitTypes, LimitPcs, HasFd
    <3>3. Change("idle", "idle")
      BY <3>1, LimitMoves DEF LimitPcs
    <3>4. LimitCounts'
      BY <2>15, <2>0, <3>2, <3>3 DEF Limits!CloseFile, LimitTypes, LimitCounts, Change, Weight
    <3> QED
      BY <3>2, <3>4
  <2>16. CASE Limits!Release(t, "mmap")
    <3>1. x2[t] = "freeMmap" /\ x2' = [x2 EXCEPT ![t] = "idle"]
      BY <2>16 DEF Limits!Release
    <3>2. LimitTypes'
      BY <2>16, <3>1 DEF Limits!Release, LimitTypes, LimitPcs, HasFd
    <3>3. Change("freeMmap", "idle")
      BY <3>1, LimitMoves DEF LimitPcs
    <3>4. LimitCounts'
      BY <2>16, <2>0, <3>2, <3>3 DEF Limits!Release, LimitTypes, LimitCounts, Change, Weight
    <3> QED
      BY <3>2, <3>4
  <2>17. CASE Limits!Release(t, "fd")
    <3>1. x2[t] = "freeFd" /\ x2' = [x2 EXCEPT ![t] = "idle"]
      BY <2>17 DEF Limits!Release
    <3>2. LimitTypes'
      BY <2>17, <3>1 DEF Limits!Release, LimitTypes, LimitPcs, HasFd
    <3>3. Change("freeFd", "idle")
      BY <3>1, LimitMoves DEF LimitPcs
    <3>4. LimitCounts'
      BY <2>17, <2>0, <3>2, <3>3 DEF Limits!Release, LimitTypes, LimitCounts, Change, Weight
    <3> QED
      BY <3>2, <3>4
  <2> QED
    BY <1>2, <2>1, <2>2, <2>3, <2>4, <2>5, <2>6, <2>7, <2>8, <2>9, <2>10, <2>11, <2>12, <2>13, <2>14, <2>15, <2>16, <2>17
<1> QED
  BY <1>1, <1>2 DEF Limits!Next

(* The invariants say what FilesRight says.                                    *)
LEMMA LimitMeans ==
    ASSUME LimitInv
    PROVE  Limits!WithinLimit /\ Limits!CountersRestored /\ Limits!DescriptorsBounded
<1> USE DEF LimitInv, LimitTypes, LimitCounts
<1>1. Mapping \in Nat /\ NotMapping \in Nat /\ Keeping \in Nat /\ NotKeeping \in Nat
  <2>1. Limits!IsFiniteSet(Threads)
    BY EnvAssumption DEF Limits!IsFiniteSet, IsFiniteSet
  <2>2. \A W : CountIn(x2, W) \in Nat
    <3>1. \A W : Limits!IsFiniteSet({t \in Threads : x2[t] \in W})
      BY <2>1, Limits!FS_Subset
    <3> QED
      BY <3>1, Limits!FS_CardinalityType DEF CountIn
  <2> QED
    BY <2>2 DEF Mapping, NotMapping, Keeping, NotKeeping
<1>2. Limits!InUse("mmap") = x3["mmap"] + Mapping /\ Limits!InUse("fd") = x3["fd"] + Keeping
  BY DEF Limits!InUse, Limits!Granters, Mapping, Keeping, CountIn
<1>3. Limits!WithinLimit
  BY <1>1, <1>2 DEF Limits!WithinLimit, Limits!Limiters, Limits!Limit
<1>4. ASSUME \A t \in Threads : x2[t] = "idle"
      PROVE  \A l \in Limits!Limiters : x1[l] = Limits!Limit[l] - x3[l]
  <2>1. \A W : "idle" \notin W => CountIn(x2, W) = 0
    <3>1. ASSUME NEW W, "idle" \notin W
          PROVE  CountIn(x2, W) = 0
      <4>1. {t \in Threads : x2[t] \in W} = {}
        BY <1>4, <3>1
      <4> QED
        BY <4>1, Limits!FS_EmptySet DEF CountIn
    <3> QED
      BY <3>1
  <2>2. Mapping = 0 /\ NotMapping = 0 /\ Keeping = 0 /\ NotKeeping = 0
    BY <2>1 DEF Mapping, NotMapping, Keeping, NotKeeping
  <2> QED
    BY <2>2, EnvAssumption DEF Limits!Limiters, Limits!Limit
<1>5. Limits!CountersRestored
  BY <1>4 DEF Limits!CountersRestored
<1>6. Limits!DescriptorsBounded
  BY <1>1, EnvAssumption DEF Limits!DescriptorsBounded
<1> QED
  BY <1>3, <1>5, <1>6

(* They hold at first.                                                         *)
LEMMA FilesInit ==
    ASSUME MCInit
    PROVE  /\ part = "lock" => LockInv
           /\ part = "threads" => TableInv
           /\ part = "limits" => LimitInv
           /\ part = "work" => WorkInv
<1>1. part = "lock" => LockInv
  BY DEF MCInit, Lock!Init, LockInv, LockPcs
<1>2. part = "threads" => TableInv
  BY DEF MCInit, Locks!Init, TableInv, InTable, Owners, LockPcs
<1>3. ASSUME part = "limits" PROVE LimitInv
  <2>1. Limits!Init
    BY <1>3 DEF MCInit
  <2>2. \A W : "idle" \notin W => CountIn(x2, W) = 0
    <3>1. ASSUME NEW W, "idle" \notin W
          PROVE  CountIn(x2, W) = 0
      <4>1. {t \in Threads : x2[t] \in W} = {}
        BY <2>1, <3>1 DEF Limits!Init
      <4> QED
        BY <4>1, Limits!FS_EmptySet DEF CountIn
    <3> QED
      BY <3>1
  <2>3. Mapping = 0 /\ NotMapping = 0 /\ Keeping = 0 /\ NotKeeping = 0
    BY <2>2 DEF Mapping, NotMapping, Keeping, NotKeeping
  <2>4. LimitTypes
    BY <2>1, EnvAssumption DEF Limits!Init, Limits!Limit, Limits!Kinds, LimitTypes, LimitPcs, HasFd
  <2>5. LimitCounts
    BY <2>1, <2>3, EnvAssumption DEF Limits!Init, Limits!Limit, Limits!Kinds, LimitCounts
  <2> QED
    BY <2>4, <2>5 DEF LimitInv
<1>4. ASSUME part = "work" PROVE WorkInv
  <2>1. Work!Init
    BY <1>4 DEF MCInit
  <2>2. WorkTypes
    <3>1. <<>> \in Seq(Nat \ {0}) /\ <<>> \in Seq(Nat)
      OBVIOUS
    <3>2. x4 \in [Threads -> {"idle", "start", "signal", "queue", "unlock"}]
      BY <2>1 DEF Work!Init
    <3> QED
      BY <2>1, <3>1, <3>2 DEF Work!Init, Work!NoItem, WorkTypes
  <2>3. WorkWakes
    BY <2>1 DEF Work!Init, WorkWakes
  <2>4. <<>> \o <<>> \o <<>> = [i \in 1..0 |-> i]
    OBVIOUS
  <2> QED
    BY <2>1, <2>2, <2>3, <2>4 DEF Work!Init, Work!NoItem, Work!OnceInOrder, Work!InHand, WorkInv, WorkOrder
<1> QED
  BY <1>1, <1>2, <1>3, <1>4

(* util/env_posix.cc: for any processes of one thread the database has one     *)
(* holder; for any processes of several threads each has at most one, and two  *)
(* processes only if one has dropped its record lock by closing another        *)
(* descriptor; for any limits, these hold and are given back, and work is run  *)
(* once, in order, without a lost wakeup.                                      *)
THEOREM FilesStayRight == MCSpec => []FilesRight
<1> DEFINE FilesInv == /\ part = "lock" => LockInv
                       /\ part = "threads" => TableInv
                       /\ part = "limits" => LimitInv
                       /\ part = "work" => WorkInv
<1>1. MCInit => FilesInv
  BY FilesInit
<1>2. FilesInv /\ [MCNext]_all => FilesInv'
  <2> SUFFICES ASSUME FilesInv, [MCNext]_all
               PROVE  FilesInv'
    OBVIOUS
  <2>1. part' = part
    BY DEF MCNext, Others, MayStop, all
  <2>2. CASE part = "lock"
    <3>1. [Lock!Next]_Lock!vars
      BY <2>2 DEF MCNext, Others, MayStop, all, Lock!vars
    <3> QED
      BY <2>1, <2>2, <3>1, LockStep
  <2>3. CASE part = "threads"
    <3>1. [Locks!Next]_Locks!vars
      BY <2>3 DEF MCNext, Others, MayStop, all, Locks!vars
    <3> QED
      BY <2>1, <2>3, <3>1, TableStep
  <2>4. CASE part = "limits"
    <3>1. [Limits!Next]_Limits!vars
      BY <2>4 DEF MCNext, Others, MayStop, all, Limits!vars
    <3> QED
      BY <2>1, <2>4, <3>1, LimitStep
  <2>5. CASE part = "work"
    <3>1. [Work!Next]_Work!vars
      BY <2>5 DEF MCNext, Others, MayStop, all, Work!vars, Work!work
    <3> QED
      BY <2>1, <2>5, <3>1, WorkStep
  <2> QED
    BY <2>1, <2>2, <2>3, <2>4, <2>5
<1>3. FilesInv => FilesRight
  <2>1. part = "lock" /\ LockInv => Lock!OneHolder
    BY DEF LockInv, Lock!OneHolder, Lock!Holders
  <2>2. part = "threads" /\ TableInv => Locks!OneHolderInProcess /\ Locks!OneHolderUnlessDropped
    <3>1. \A t \in Owners : [o \in Owners |-> o[1]][t] = t[1]
      OBVIOUS
    <3> QED
      BY <3>1 DEF TableInv, InTable, Owners, Locks!OneHolderInProcess, Locks!OneHolderUnlessDropped,
                  Locks!Holders
  <2>3. part = "work" /\ WorkInv => Work!OnceInOrder /\ Work!NoLostWakeup
    BY DEF WorkInv, WorkWakes, WorkOrder, Work!NoLostWakeup
  <2> QED
    BY <2>1, <2>2, <2>3, LimitMeans DEF FilesRight
<1> QED
  BY <1>1, <1>2, <1>3, PTL DEF MCSpec
=============================================================================
