-------------------------- MODULE WriteQueueProofs --------------------------
(* The write path of leveldb keeps what Write acknowledged: proofs about      *)
(* WriteQueue for any number of threads, calls, updates and failures.         *)
EXTENDS WriteQueue, SequenceTheorems, FiniteSetTheorems, TLAPS

(* What follows needs of the constants.                                       *)
ConstantsOK == MaxUpdates \in Nat /\ NoThread \notin Threads

-----------------------------------------------------------------------------
(* Types.                                                                     *)

Applying == {"log", "sync", "insert", "commit", "syncerror"}
Leading == {"room", "bgwait"} \union Applying

Call == [pc : {"idle", "wait", "manual", "flush"} \union Leading, count : 0..MaxUpdates,
         null : BOOLEAN, sync : BOOLEAN, done : BOOLEAN, ok : BOOLEAN, delay : BOOLEAN,
         woken : BOOLEAN]

Entry == Nat \X (Threads \X Nat)

LogRecord == [entries : SUBSET Entry, synced : BOOLEAN]

TypeOK == /\ ConstantsOK
          /\ writers \in Seq(Threads)
          /\ group \in Seq(Threads)
          /\ call \in [Threads -> Call]
          /\ calls \in [Threads -> Nat]
          /\ mem \subseteq Entry /\ imm \subseteq Entry /\ tables \subseteq Entry
          /\ hasImm \in BOOLEAN
          /\ log \in Seq(LogRecord) /\ oldLog \in Seq(LogRecord)
          /\ lastSeq \in Nat
          /\ manual \in Threads \union {NoThread}
          /\ acked \subseteq [batch : Threads \X Nat, ok : BOOLEAN, count : 0..MaxUpdates,
                              sync : BOOLEAN]

-----------------------------------------------------------------------------
(* The inductive invariant.                                                   *)

(* Outside Write; and in writers_.                                            *)
Outside(t) == call[t].pc \in {"idle", "manual", "flush"}
InQueue(t) == call[t].pc \in Leading \/ (call[t].pc = "wait" /\ ~call[t].done)

(* writers_ holds each thread inside Write that has no answer yet once, and   *)
(* only the first is past its wait.                                           *)
QueueInv ==
    /\ \A i, j \in 1..Len(writers) : writers[i] = writers[j] => i = j
    /\ \A i \in 1..Len(writers) : InQueue(writers[i])
    /\ \A t \in Threads : InQueue(t) => \E i \in 1..Len(writers) : writers[i] = t
    /\ \A t \in Threads : call[t].pc \in Leading => writers # <<>> /\ writers[1] = t

(* The leader applies the group, which is the front of the queue; a write     *)
(* that must be synced has a leader that syncs.                               *)
GroupInv ==
    /\ \A t \in Threads : call[t].pc \in Applying => group # <<>>
    /\ group # <<>> => /\ Len(group) <= Len(writers)
                       /\ \A i \in 1..Len(group) : group[i] = writers[i]
                       /\ call[group[1]].pc \in Applying
                       /\ \A i \in 1..Len(group) :
                            call[group[i]].sync => call[group[1]].sync

(* A write is answered with an error only when something failed.              *)
OkInv ==
    \A t \in Threads :
      /\ InQueue(t) /\ call[t].pc \notin {"commit", "syncerror"} => call[t].ok
      /\ call[t].pc = "syncerror" => ~call[t].ok

(* manual_compaction_ belongs to a thread that waits for it, and an absent    *)
(* imm_ holds nothing.                                                        *)
ManualInv == manual # NoThread => call[manual].pc = "manual"
ImmInv == ~hasImm => imm = {}

All == Stored \union LogEntries(log) \union LogEntries(oldLog)

(* A number above LastSequence is one of the group's, once it is logged; and  *)
(* no batch is stored before it is written.                                   *)
NumbersInv ==
    \A e \in All : /\ e[2][2] <= calls[e[2][1]]
                   /\ \/ e[1] <= lastSeq
                      \/ /\ group # <<>> /\ call[group[1]].pc # "log"
                         /\ e \in GroupEntries

(* What is stored of a batch whose writer is in the queue was put there by    *)
(* the leader, which is about to take the mutex again.                        *)
FreshInv ==
    \A e \in Stored : \A t \in Threads :
      InQueue(t) /\ e[2] = Batch(t, calls[t]) =>
        /\ group # <<>> /\ call[group[1]].pc = "commit" /\ call[group[1]].ok
        /\ e \in GroupEntries

(* The group is in one record of the log from AddRecord on, which is synced   *)
(* before the memtable is changed if a writer asked for that; and then it is  *)
(* in the memtable.                                                           *)
LeaderInv ==
    group # <<>> =>
      LET leader == call[group[1]]
          applied == leader.pc = "commit" /\ leader.ok
      IN  /\ leader.pc \in {"sync", "insert"} \/ applied =>
               \E r \in ToSet(log) :
                  GroupEntries \subseteq r.entries /\ (leader.sync /\ leader.pc # "sync" => r.synced)
          /\ applied => GroupEntries \subseteq mem

(* Found again after a crash, in the table or in the log of its memtable.     *)
Durable(e) == \/ e \in tables
              \/ e \in imm /\ \E r \in ToSet(oldLog) : r.synced /\ e \in r.entries
              \/ e \in mem /\ \E r \in ToSet(log) : r.synced /\ e \in r.entries

(* The answer to batch b is true.                                             *)
Kept(b, answer) ==
    /\ Cardinality({e \in Stored : e[2] = b}) = IF answer.ok THEN answer.count ELSE 0
    /\ \A e \in Stored : e[2] = b => /\ e[1] <= lastSeq
                                     /\ answer.ok /\ answer.sync => Durable(e)

(* So are the answers given, and those that a woken writer will give.         *)
AckedInv ==
    \A a \in acked :
      /\ a.batch[2] <= calls[a.batch[1]]
      /\ ~Outside(a.batch[1]) => a.batch[2] < calls[a.batch[1]]
      /\ Kept(a.batch, a)

DoneInv ==
    \A t \in Threads :
      call[t].pc = "wait" /\ call[t].done => Kept(Batch(t, calls[t]), call[t])

ControlInv == TypeOK /\ QueueInv /\ GroupInv /\ OkInv /\ ManualInv /\ ImmInv

DataInv == /\ NumbersInv /\ SequencesUnique /\ FreshInv /\ LeaderInv /\ WriteAhead
           /\ AckedInv /\ DoneInv

WriteInv == ControlInv /\ DataInv

-----------------------------------------------------------------------------
(* The numbers of a group.                                                    *)

(* The updates of one writer.                                                 *)
LEMMA WriterUpdates ==
    ASSUME NEW i, NEW n \in Nat
    PROVE  IsFiniteSet({i} \X (1..n)) /\ Cardinality({i} \X (1..n)) = n
<1>1. IsFiniteSet({i}) /\ Cardinality({i}) = 1
  BY FS_Singleton
<1>2. IsFiniteSet(1..n) /\ Cardinality(1..n) = n
  <2>1. n \in Int /\ 1 \in Int
    OBVIOUS
  <2> QED
    BY <2>1, FS_Interval
<1>3. /\ IsFiniteSet({i} \X (1..n))
      /\ Cardinality({i} \X (1..n)) = Cardinality({i}) * Cardinality(1..n)
  BY <1>1, <1>2, FS_Product
<1> QED
  BY <1>1, <1>2, <1>3

(* There are finitely many updates.                                           *)
LEMMA UpdatesFinite ==
    ASSUME MaxUpdates \in Nat, NEW q, NEW m \in Nat
    PROVE  IsFiniteSet(Updates(q, m)) /\ Cardinality(Updates(q, m)) \in Nat
<1>1. IsFiniteSet(1..m) /\ IsFiniteSet(1..MaxUpdates)
  <2>1. m \in Int /\ MaxUpdates \in Int /\ 1 \in Int
    OBVIOUS
  <2> QED
    BY <2>1, FS_Interval
<1>2. IsFiniteSet((1..m) \X (1..MaxUpdates))
  BY <1>1, FS_Product
<1>3. Updates(q, m) \in SUBSET ((1..m) \X (1..MaxUpdates))
  BY DEF Updates
<1>4. IsFiniteSet(Updates(q, m))
  BY <1>2, <1>3, FS_Subset
<1> QED
  BY <1>4, FS_CardinalityType

(* The numbers of a writer follow those of the writers before it.             *)
LEMMA UpdatesGrow ==
    ASSUME TypeOK, NEW q \in Seq(Threads), NEW n \in 1..Len(q)
    PROVE  /\ Cardinality(Updates(q, n)) \in Nat
           /\ Cardinality(Updates(q, n - 1)) \in Nat
           /\ call[q[n]].count \in 0..MaxUpdates
           /\ Cardinality(Updates(q, n)) = Cardinality(Updates(q, n - 1)) + call[q[n]].count
<1>0. MaxUpdates \in Nat
  BY DEF TypeOK, ConstantsOK
<1> DEFINE own == {n} \X (1..call[q[n]].count)
<1>1. q[n] \in Threads /\ call[q[n]].count \in 0..MaxUpdates
  BY DEF TypeOK, Call
<1>2. call[q[n]].count \in Nat /\ n \in Nat /\ n - 1 \in Nat
  BY <1>1, <1>0
<1>3. IsFiniteSet(own) /\ Cardinality(own) = call[q[n]].count
  BY <1>2, WriterUpdates
<1>4. Updates(q, n) = Updates(q, n - 1) \union own
  <2>1. \A u : u \in Updates(q, n) <=> u \in Updates(q, n - 1) \/ u \in own
    BY <1>1, <1>2, <1>0 DEF Updates
  <2> QED
    BY <2>1
<1>5. Updates(q, n - 1) \intersect own = {}
  BY DEF Updates
<1>6. Cardinality(Updates(q, n - 1) \intersect own) = 0
  BY <1>5, FS_EmptySet
<1>7. /\ IsFiniteSet(Updates(q, n - 1)) /\ Cardinality(Updates(q, n - 1)) \in Nat
      /\ Cardinality(Updates(q, n)) \in Nat
  BY <1>0, <1>2, UpdatesFinite
<1> HIDE DEF own
<1>8. Cardinality(Updates(q, n - 1) \union own) =
        Cardinality(Updates(q, n - 1)) + Cardinality(own) - Cardinality(Updates(q, n - 1) \intersect own)
  BY <1>3, <1>7, FS_Union
<1> QED
  BY <1>1, <1>3, <1>4, <1>6, <1>7, <1>8

(* More writers, more updates.                                                *)
LEMMA UpdatesMonotone ==
    ASSUME TypeOK, NEW q \in Seq(Threads), NEW m \in Nat, NEW n \in Nat, m <= n, n <= Len(q)
    PROVE  /\ Cardinality(Updates(q, m)) \in Nat /\ Cardinality(Updates(q, n)) \in Nat
           /\ Cardinality(Updates(q, m)) <= Cardinality(Updates(q, n))
<1>1. /\ IsFiniteSet(Updates(q, n)) /\ Cardinality(Updates(q, n)) \in Nat
      /\ Cardinality(Updates(q, m)) \in Nat
  BY UpdatesFinite DEF TypeOK, ConstantsOK
<1>2. Updates(q, m) \in SUBSET Updates(q, n)
  BY DEF Updates
<1> QED
  BY <1>1, <1>2, FS_Subset

(* The entry of update k of the group's writer i.                             *)
GroupEntry(i, k) ==
    <<lastSeq + Cardinality(Updates(group, i - 1)) + k, Batch(group[i], calls[group[i]])>>

(* Every entry of the group is one of these.                                  *)
LEMMA GroupMembers ==
    ASSUME TypeOK
    PROVE  /\ \A e \in GroupEntries : \E i \in 1..Len(group), k \in 1..MaxUpdates :
                k \in 1..call[group[i]].count /\ e = GroupEntry(i, k)
           /\ \A i \in 1..Len(group) : \A k \in 1..call[group[i]].count :
                GroupEntry(i, k) \in GroupEntries
<1>0. MaxUpdates \in Nat
  BY DEF TypeOK, ConstantsOK
<1>1. \A i \in 1..Len(group) : group[i] \in Threads /\ call[group[i]].count \in 0..MaxUpdates
  BY DEF TypeOK, Call
<1>2. ASSUME NEW e \in GroupEntries
      PROVE  \E i \in 1..Len(group), k \in 1..MaxUpdates :
               k \in 1..call[group[i]].count /\ e = GroupEntry(i, k)
  <2>1. PICK u \in Updates(group, Len(group)) :
           e = <<lastSeq + Cardinality(Updates(group, u[1] - 1)) + u[2],
                 Batch(group[u[1]], calls[group[u[1]]])>>
    BY <1>2 DEF GroupEntries
  <2>2. /\ u[1] \in 1..Len(group) /\ u[2] \in 1..MaxUpdates
        /\ u[2] \in 1..call[group[u[1]]].count
    BY <1>1, <1>0 DEF Updates
  <2> QED
    BY <2>1, <2>2 DEF GroupEntry
<1>3. ASSUME NEW i \in 1..Len(group), NEW k \in 1..call[group[i]].count
      PROVE  GroupEntry(i, k) \in GroupEntries
  <2>1. <<i, k>> \in Updates(group, Len(group))
    BY <1>1, <1>0 DEF Updates
  <2>2. \E u \in Updates(group, Len(group)) :
          GroupEntry(i, k) = <<lastSeq + Cardinality(Updates(group, u[1] - 1)) + u[2],
                               Batch(group[u[1]], calls[group[u[1]]])>>
    <3>1. <<i, k>>[1] = i /\ <<i, k>>[2] = k
      OBVIOUS
    <3> WITNESS <<i, k>> \in Updates(group, Len(group))
    <3> QED
      BY <3>1 DEF GroupEntry
  <2> QED
    BY <2>2 DEF GroupEntries
<1> QED
  BY <1>2, <1>3

(* The numbers of a group come after LastSequence, and GroupCount of them     *)
(* are used up.                                                               *)
LEMMA GroupNumbers ==
    ASSUME TypeOK
    PROVE  /\ GroupCount \in Nat
           /\ \A e \in GroupEntries : /\ e \in Entry
                                      /\ lastSeq < e[1] /\ e[1] <= lastSeq + GroupCount
<1>0. MaxUpdates \in Nat
  BY DEF TypeOK, ConstantsOK
<1> USE DEF GroupEntry
<1>1. GroupCount \in Nat
  BY <1>0, UpdatesFinite DEF GroupCount, TypeOK
<1>2. ASSUME NEW e \in GroupEntries
      PROVE  e \in Entry /\ lastSeq < e[1] /\ e[1] <= lastSeq + GroupCount
  <2>1. PICK i \in 1..Len(group), k \in 1..MaxUpdates :
           k \in 1..call[group[i]].count /\ e = GroupEntry(i, k)
    BY GroupMembers
  <2>2. /\ Cardinality(Updates(group, i - 1)) \in Nat /\ call[group[i]].count \in 0..MaxUpdates
        /\ Cardinality(Updates(group, i)) = Cardinality(Updates(group, i - 1)) + call[group[i]].count
    BY UpdatesGrow DEF TypeOK
  <2>3. Cardinality(Updates(group, i)) <= GroupCount
    BY UpdatesMonotone DEF TypeOK, GroupCount
  <2>4. group[i] \in Threads /\ calls[group[i]] \in Nat /\ lastSeq \in Nat
    BY DEF TypeOK
  <2>5. k \in Nat /\ 1 <= k /\ k <= call[group[i]].count /\ call[group[i]].count \in Nat
    BY <2>1, <2>2, <1>0
  <2>6. /\ e = <<lastSeq + Cardinality(Updates(group, i - 1)) + k, <<group[i], calls[group[i]]>> >>
        /\ e[1] = lastSeq + Cardinality(Updates(group, i - 1)) + k
    BY <2>1 DEF Batch
  <2>7. lastSeq < e[1] /\ e[1] <= lastSeq + GroupCount
    BY <1>1, <2>2, <2>3, <2>4, <2>5, <2>6
  <2>8. e \in Entry
    BY <2>2, <2>4, <2>5, <2>6 DEF Entry
  <2> QED
    BY <2>7, <2>8
<1> QED
  BY <1>1, <1>2

(* Two writers, or two updates of one, never share a number.                  *)
LEMMA GroupUnique ==
    ASSUME TypeOK
    PROVE  /\ \A e, f \in GroupEntries : e[1] = f[1] => e = f
           /\ \A i \in 1..Len(group) : \A k, l \in 1..call[group[i]].count :
                GroupEntry(i, k) = GroupEntry(i, l) => k = l
<1>0. MaxUpdates \in Nat
  BY DEF TypeOK, ConstantsOK
<1> DEFINE base == [i \in 1..Len(group) |-> Cardinality(Updates(group, i - 1))]
<1>1. \A i \in 1..Len(group) : /\ base[i] \in Nat /\ call[group[i]].count \in 0..MaxUpdates
                              /\ Cardinality(Updates(group, i)) = base[i] + call[group[i]].count
  BY UpdatesGrow DEF TypeOK
<1>2. \A i, j \in 1..Len(group) : i < j => Cardinality(Updates(group, i)) <= base[j]
  BY UpdatesMonotone DEF TypeOK
<1>3. lastSeq \in Nat
  BY DEF TypeOK
<1> HIDE DEF base
<1>a. ASSUME NEW i, NEW j, NEW k \in Nat, NEW l \in Nat, base[i] \in Nat, base[j] \in Nat,
             call[group[i]].count \in Nat, call[group[j]].count \in Nat,
             1 <= k, k <= call[group[i]].count, 1 <= l, l <= call[group[j]].count,
             lastSeq + base[i] + k = lastSeq + base[j] + l
      PROVE  /\ ~(base[i] + call[group[i]].count <= base[j])
             /\ ~(base[j] + call[group[j]].count <= base[i])
             /\ base[i] = base[j] => k = l
  BY <1>3, <1>a
<1>4. ASSUME NEW i \in 1..Len(group), NEW j \in 1..Len(group),
             NEW k \in 1..call[group[i]].count, NEW l \in 1..call[group[j]].count,
             lastSeq + base[i] + k = lastSeq + base[j] + l
      PROVE  i = j /\ k = l
  <2>1. /\ base[i] \in Nat /\ base[j] \in Nat
        /\ call[group[i]].count \in Nat /\ call[group[j]].count \in Nat
        /\ k \in Nat /\ l \in Nat /\ 1 <= k /\ 1 <= l
        /\ k <= call[group[i]].count /\ l <= call[group[j]].count
    BY <1>1, <1>0
  <2>2. /\ ~(base[i] + call[group[i]].count <= base[j])
        /\ ~(base[j] + call[group[j]].count <= base[i])
        /\ base[i] = base[j] => k = l
    BY <1>4, <1>a, <2>1
  <2>3. ~(i < j) /\ ~(j < i)
    BY <1>1, <1>2, <2>2
  <2>4. i = j
    BY <2>3
  <2> QED
    BY <2>2, <2>4
<1>5. ASSUME NEW e \in GroupEntries, NEW f \in GroupEntries, e[1] = f[1]
      PROVE  e = f
  <2>1. PICK i \in 1..Len(group), k \in 1..MaxUpdates :
           k \in 1..call[group[i]].count /\ e = GroupEntry(i, k)
    BY GroupMembers
  <2>2. PICK j \in 1..Len(group), l \in 1..MaxUpdates :
           l \in 1..call[group[j]].count /\ f = GroupEntry(j, l)
    BY GroupMembers
  <2>3. lastSeq + base[i] + k = lastSeq + base[j] + l
    BY <1>5, <2>1, <2>2 DEF GroupEntry, base
  <2> QED
    BY <1>4, <2>1, <2>2, <2>3
<1>6. ASSUME NEW i \in 1..Len(group), NEW k \in 1..call[group[i]].count,
             NEW l \in 1..call[group[i]].count, GroupEntry(i, k) = GroupEntry(i, l)
      PROVE  k = l
  BY <1>4, <1>6 DEF GroupEntry, base
<1> QED
  BY <1>5, <1>6

(* A writer of the group has as many entries in it as it has updates.         *)
LEMMA GroupShare ==
    ASSUME TypeOK, \A i, j \in 1..Len(group) : group[i] = group[j] => i = j,
           NEW i \in 1..Len(group)
    PROVE  Cardinality({e \in GroupEntries : e[2] = Batch(group[i], calls[group[i]])})
             = call[group[i]].count
<1> DEFINE n == call[group[i]].count
           share == {e \in GroupEntries : e[2] = Batch(group[i], calls[group[i]])}
           f == [k \in 1..n |-> GroupEntry(i, k)]
<1>1. n \in Nat
  BY DEF TypeOK, ConstantsOK, Call
<1>2. \A k \in 1..n : f[k] \in share
  BY GroupMembers DEF GroupEntry
<1>3. \A k, l \in 1..n : f[k] = f[l] => k = l
  BY GroupUnique
<1>4. \A e \in share : \E k \in 1..n : f[k] = e
  <2> SUFFICES ASSUME NEW e \in share
               PROVE  \E k \in 1..n : f[k] = e
    OBVIOUS
  <2>1. PICK j \in 1..Len(group), k \in 1..MaxUpdates :
           k \in 1..call[group[j]].count /\ e = GroupEntry(j, k)
    BY GroupMembers
  <2>2. group[j] = group[i]
    BY <2>1 DEF GroupEntry, Batch
  <2>3. j = i
    BY <2>2
  <2> QED
    BY <2>1, <2>3
<1> HIDE DEF share, n
<1>5. f \in Bijection(1..n, share)
  <2>1. f \in [1..n -> share]
    BY <1>2
  <2> HIDE DEF f
  <2> QED
    BY <1>3, <1>4, <2>1 DEF Bijection, Injection, Surjection, IsInjective
<1>6. ExistsBijection(1..n, share)
  BY <1>5 DEF ExistsBijection
<1>7. Cardinality(share) = n
  BY <1>1, <1>6, FS_CountingElements
<1> QED
  BY <1>7 DEF share, n

-----------------------------------------------------------------------------
(* The group and the queue.                                                   *)

(* BuildBatchGroup takes writers from the front, the front writer among them, *)
(* and a write that must be synced only with a leader that syncs.             *)
LEMMA BatchGroup ==
    ASSUME TypeOK, NEW t \in Threads, writers # <<>>, writers[1] = t
    PROVE  LET g == BuildBatchGroup(t) IN
             /\ g \in Seq(Threads) /\ g # <<>> /\ Len(g) <= Len(writers)
             /\ \A i \in 1..Len(g) : g[i] = writers[i]
             /\ \A i \in 1..Len(g) : call[g[i]].sync => call[g[1]].sync
<1> DEFINE Joins(i) == \/ i = 1
                       \/ /\ call[writers[i]].sync => call[t].sync
                          /\ call[writers[i]].null \/ Cardinality(Updates(writers, i)) <= MaxSize(t)
           S == {i \in 1..Len(writers) : \A j \in 1..i : Joins(j)}
           g == SubSeq(writers, 1, Cardinality(S))
<1>1. BuildBatchGroup(t) = g
  BY DEF BuildBatchGroup
<1>2. writers \in Seq(Threads) /\ Len(writers) \in Nat /\ Len(writers) >= 1
  BY EmptySeq, LenProperties DEF TypeOK
<1>3. IsFiniteSet(1..Len(writers)) /\ Cardinality(1..Len(writers)) = Len(writers)
  <2>1. Len(writers) \in Int /\ 1 \in Int
    BY <1>2
  <2> QED
    BY <1>2, <2>1, FS_Interval
<1>4. S \in SUBSET (1..Len(writers))
  OBVIOUS
<1>5. IsFiniteSet(S) /\ Cardinality(S) \in Nat /\ Cardinality(S) <= Len(writers)
  BY <1>3, <1>4, FS_Subset, FS_CardinalityType
<1>6. 1 \in S
  BY <1>2
<1>7. ASSUME NEW i \in 1..Cardinality(S)
      PROVE  Joins(i)
  <2> SUFFICES ASSUME ~Joins(i)
               PROVE  FALSE
    OBVIOUS
  <2> HIDE DEF Joins
  <2>1. i \in Int /\ i - 1 \in Int /\ 1 \in Int /\ i >= 1
    BY <1>5
  <2>2. S \in SUBSET (1..(i - 1))
    BY <2>1
  <2>3. IsFiniteSet(1..(i - 1)) /\ Cardinality(1..(i - 1)) = i - 1
    <3>1. IsFiniteSet(1..(i - 1)) /\ Cardinality(1..(i - 1)) = IF 1 > i - 1 THEN 0 ELSE (i - 1) - 1 + 1
      BY <2>1, FS_Interval
    <3> QED
      BY <2>1, <3>1
  <2>4. Cardinality(S) <= i - 1
    BY <2>2, <2>3, FS_Subset
  <2> QED
    BY <1>5, <2>1, <2>4
<1>8. Cardinality(S) >= 1
  <2>1. S # {}
    BY <1>6
  <2>2. Cardinality(S) # 0
    BY <1>5, <2>1, FS_EmptySet
  <2> QED
    BY <1>5, <2>2
<1>9. \A i \in 1..Cardinality(S) : writers[i] \in Threads
  BY <1>2, <1>5
<1> HIDE DEF S
<1>10. Cardinality(S) \in Int /\ 1 \in Int
  BY <1>5
<1>11. /\ g \in Seq(Threads) /\ Len(g) = Cardinality(S)
       /\ \A i \in 1..Cardinality(S) : g[i] = writers[i]
  <2>1. /\ g \in Seq(Threads)
        /\ Len(g) = IF 1 <= Cardinality(S) THEN Cardinality(S) - 1 + 1 ELSE 0
        /\ \A i \in 1..(Cardinality(S) - 1 + 1) : g[i] = writers[1 + i - 1]
    BY <1>9, <1>10, SubSeqProperties
  <2> HIDE DEF g
  <2> QED
    BY <1>5, <1>8, <2>1
<1>12. \A i \in 1..Len(g) : call[g[i]].sync => call[g[1]].sync
  BY <1>7, <1>8, <1>11
<1> HIDE DEF g
<1>13. g # <<>> /\ Len(g) <= Len(writers)
  BY <1>5, <1>8, <1>11
<1> QED
  BY <1>1, <1>11, <1>12, <1>13

(* A thread that has left Write, or waits for imm_ to be compacted.           *)
LEMMA IdleCall ==
    ASSUME MaxUpdates \in Nat
    PROVE  Idle \in Call /\ [Idle EXCEPT !.pc = "flush", !.woken = TRUE] \in Call
<1>1. 0 \in 0..MaxUpdates
  OBVIOUS
<1>2. Idle \in Call
  BY <1>1 DEF Idle, Call
<1>3. [Idle EXCEPT !.pc = "flush", !.woken = TRUE] \in Call
  BY <1>2 DEF Call
<1> QED
  BY <1>2, <1>3

(* The queue and the calls after that.                                        *)
QueuePopped(c, members, ok) ==
    /\ writers' \in Seq(Threads) /\ call' \in [Threads -> Call]
    /\ Len(members) \in Nat /\ Len(members) >= 1 /\ members[1] \in Threads
    /\ Len(writers) \in Nat
    /\ Len(writers') = Len(writers) - Len(members)
    /\ \A i \in 1..Len(writers') : writers'[i] = writers[i + Len(members)]
    /\ call'[members[1]] = Returned(members[1], ok)
    /\ \A i \in 1..Len(members) : members[i] # members[1] =>
         call'[members[i]] = [c[members[i]] EXCEPT !.done = TRUE, !.ok = ok, !.woken = TRUE]
    /\ \A t \in Threads : t \notin ToSet(members) =>
         \/ call'[t] = c[t]
         \/ call'[t] = [c[t] EXCEPT !.woken = TRUE]

(* What leaving the queue does to it and to the calls.                        *)
LEMMA Popped ==
    ASSUME TypeOK, NEW c \in [Threads -> Call], NEW members \in Seq(Threads), NEW ok \in BOOLEAN,
           members # <<>>, Len(members) <= Len(writers), PopWriters(c, members, ok)
    PROVE  QueuePopped(c, members, ok)
<1>1. /\ Len(members) \in Nat /\ Len(members) >= 1 /\ Len(writers) \in Nat
      /\ Head(members) = members[1] /\ members[1] \in Threads
      /\ \A i \in 1..Len(members) : members[i] \in Threads
  BY EmptySeq, LenProperties DEF TypeOK
<1>2. ToSet(members) = {members[i] : i \in 1..Len(members)}
  BY DEF ToSet
<1> DEFINE rest == SubSeq(writers, Len(members) + 1, Len(writers))
<1>3. writers' = rest
  BY DEF PopWriters
<1>4. /\ rest \in Seq(Threads) /\ Len(rest) = Len(writers) - Len(members)
      /\ \A i \in 1..Len(rest) : rest[i] = writers[i + Len(members)]
  <2>1. /\ Len(members) + 1 \in Int /\ Len(writers) \in Int
        /\ \A i \in Len(members) + 1 .. Len(writers) : writers[i] \in Threads
    BY <1>1 DEF TypeOK
  <2>2. /\ rest \in Seq(Threads)
        /\ Len(rest) = IF Len(members) + 1 <= Len(writers)
                       THEN Len(writers) - (Len(members) + 1) + 1 ELSE 0
        /\ \A i \in 1..(Len(writers) - (Len(members) + 1) + 1) :
             rest[i] = writers[(Len(members) + 1) + i - 1]
    BY <2>1, SubSeqProperties
  <2> HIDE DEF rest
  <2> QED
    BY <1>1, <2>2
<1>5. call' = [t \in Threads |->
                 IF t = Head(members) THEN Returned(t, ok)
                 ELSE IF t \in ToSet(members)
                      THEN [c[t] EXCEPT !.done = TRUE, !.ok = ok, !.woken = TRUE]
                 ELSE IF rest # <<>> /\ t = Head(rest) THEN [c[t] EXCEPT !.woken = TRUE]
                 ELSE c[t]]
  BY DEF PopWriters
<1>6. \A t \in Threads : Returned(t, ok) \in Call
  BY IdleCall DEF Returned, TypeOK, ConstantsOK
<1> HIDE DEF rest
<1>7. call' \in [Threads -> Call]
  <2>1. \A t \in Threads : c[t] \in Call
    OBVIOUS
  <2>2. \A t \in Threads : /\ [c[t] EXCEPT !.done = TRUE, !.ok = ok, !.woken = TRUE] \in Call
                           /\ [c[t] EXCEPT !.woken = TRUE] \in Call
    BY <2>1 DEF Call
  <2> QED
    BY <1>5, <1>6, <2>1, <2>2
<1>8. call'[members[1]] = Returned(members[1], ok)
  BY <1>1, <1>5
<1>9. \A i \in 1..Len(members) : members[i] # members[1] =>
        call'[members[i]] = [c[members[i]] EXCEPT !.done = TRUE, !.ok = ok, !.woken = TRUE]
  BY <1>1, <1>2, <1>5
<1>10. \A t \in Threads : t \notin ToSet(members) =>
         \/ call'[t] = c[t]
         \/ call'[t] = [c[t] EXCEPT !.woken = TRUE]
  <2>1. Head(members) \in ToSet(members)
    BY <1>1, <1>2
  <2> QED
    BY <1>5, <2>1
<1> QED
  BY <1>1, <1>3, <1>4, <1>7, <1>8, <1>9, <1>10 DEF QueuePopped

(* A signal only wakes threads.                                               *)
LEMMA Signalled ==
    ASSUME NEW c \in [Threads -> Call]
    PROVE  /\ SignalAll(c) \in [Threads -> Call] /\ RecordBackgroundError(c) \in [Threads -> Call]
           /\ \A t \in Threads :
                /\ SignalAll(c)[t] \in {c[t], [c[t] EXCEPT !.woken = TRUE]}
                /\ RecordBackgroundError(c)[t] \in {c[t], [c[t] EXCEPT !.woken = TRUE]}
<1>1. \A t \in Threads : c[t] \in Call /\ [c[t] EXCEPT !.woken = TRUE] \in Call
  BY DEF Call
<1>2. /\ SignalAll(c) \in [Threads -> Call]
      /\ \A t \in Threads : SignalAll(c)[t] \in {c[t], [c[t] EXCEPT !.woken = TRUE]}
  BY <1>1 DEF SignalAll
<1> QED
  BY <1>1, <1>2 DEF RecordBackgroundError

(* The front writer is the first of the queue.                                *)
LEMMA AtHead ==
    ASSUME ControlInv, NEW t \in Threads, call[t].pc \in Leading
    PROVE  /\ writers # <<>> /\ writers[1] = t /\ Head(writers) = t
           /\ Len(writers) \in Nat /\ Len(writers) >= 1
           /\ group # <<>> => /\ group[1] = t /\ Head(group) = t
                              /\ Len(group) \in Nat /\ Len(group) >= 1
<1>1. writers # <<>> /\ writers[1] = t
  BY DEF ControlInv, QueueInv
<1>2. Head(writers) = t /\ Len(writers) \in Nat /\ Len(writers) >= 1
  BY <1>1, EmptySeq, LenProperties DEF ControlInv, TypeOK
<1>3. group # <<>> => Len(group) \in Nat /\ Len(group) >= 1 /\ Head(group) = group[1]
  BY EmptySeq, LenProperties DEF ControlInv, TypeOK
<1>4. group # <<>> => group[1] = writers[1]
  BY <1>3 DEF ControlInv, GroupInv
<1> QED
  BY <1>1, <1>2, <1>3, <1>4

(* One thread as a sequence.                                                  *)
LEMMA Single ==
    ASSUME NEW t \in Threads
    PROVE  <<t>> \in Seq(Threads) /\ <<t>> # <<>> /\ Len(<<t>>) = 1 /\ <<t>>[1] = t
OBVIOUS

(* A call of one thread goes on.                                              *)
LEMMA GoesOn ==
    ASSUME MaxUpdates \in Nat, call \in [Threads -> Call], NEW t \in Threads
    PROVE  /\ call[t] \in Call
           /\ [call EXCEPT ![t] = Idle] \in [Threads -> Call]
           /\ \A p \in {"idle", "wait", "manual", "flush"} \union Leading :
                [call EXCEPT ![t].pc = p] \in [Threads -> Call]
           /\ \A p \in {"idle", "wait", "manual", "flush"} \union Leading : \A b \in BOOLEAN :
                [call EXCEPT ![t].pc = p, ![t].ok = b] \in [Threads -> Call]
           /\ \A p \in {"idle", "wait", "manual", "flush"} \union Leading : \A b \in BOOLEAN :
                [call EXCEPT ![t].pc = p, ![t].woken = b] \in [Threads -> Call]
           /\ \A b \in BOOLEAN : [call EXCEPT ![t].woken = b] \in [Threads -> Call]
           /\ \A b \in BOOLEAN : [call EXCEPT ![t].delay = b] \in [Threads -> Call]
           /\ \A b \in BOOLEAN : [call EXCEPT ![t].null = b] \in [Threads -> Call]
           /\ \A b \in BOOLEAN : [call EXCEPT ![t].done = b] \in [Threads -> Call]
<1>1. \A r \in Call : [call EXCEPT ![t] = r] \in [Threads -> Call]
  OBVIOUS
<1>2. call[t] \in Call /\ Idle \in Call
  BY IdleCall
<1>3. \A p \in {"idle", "wait", "manual", "flush"} \union Leading :
        [call[t] EXCEPT !.pc = p] \in Call
  BY <1>2 DEF Call
<1>4. \A p \in {"idle", "wait", "manual", "flush"} \union Leading : \A b \in BOOLEAN :
        [call[t] EXCEPT !.pc = p, !.ok = b] \in Call
  BY <1>2 DEF Call
<1>5. \A p \in {"idle", "wait", "manual", "flush"} \union Leading : \A b \in BOOLEAN :
        [call[t] EXCEPT !.pc = p, !.woken = b] \in Call
  BY <1>2 DEF Call
<1>6. \A b \in BOOLEAN : /\ [call[t] EXCEPT !.woken = b] \in Call
                         /\ [call[t] EXCEPT !.delay = b] \in Call
  BY <1>2 DEF Call
<1>7. \A b \in BOOLEAN : /\ [call[t] EXCEPT !.null = b] \in Call
                         /\ [call[t] EXCEPT !.done = b] \in Call
  BY <1>2 DEF Call
<1> QED
  BY <1>1, <1>2, <1>3, <1>4, <1>5, <1>6, <1>7

(* Steps keep the types.                                                      *)
LEMMA TypeStep == ControlInv /\ [Next]_vars => TypeOK'
<1> SUFFICES ASSUME ControlInv, [Next]_vars
             PROVE  TypeOK'
  OBVIOUS
<1> USE DEF data
<1>1. TypeOK /\ MaxUpdates \in Nat
  BY DEF ControlInv, TypeOK, ConstantsOK
<1>2. ASSUME NEW t \in Threads, Write(t)
      PROVE  TypeOK'
  <2>1. writers' \in Seq(Threads)
    BY <1>1, <1>2, AppendProperties DEF Write, TypeOK
  <2>2. PICK n \in 0..MaxUpdates, s \in BOOLEAN :
           call' = [call EXCEPT ![t] = [Idle EXCEPT !.pc = IF writers = <<>> THEN "room" ELSE "wait",
                                         !.count = n, !.null = (n = 0), !.sync = s,
                                         !.delay = (n # 0)]]
    BY <1>2 DEF Write
  <2>3. call' \in [Threads -> Call]
    BY <1>1, <2>2, IdleCall DEF TypeOK, Call, Leading
  <2>4. calls' \in [Threads -> Nat]
    BY <1>1, <1>2 DEF Write, TypeOK
  <2> QED
    BY <1>1, <1>2, <2>1, <2>3, <2>4 DEF Write, TypeOK
<1>3. ASSUME NEW t \in Threads, CompactRange(t)
      PROVE  TypeOK'
  <2>1. call' \in [Threads -> Call] /\ calls' \in [Threads -> Nat]
    <3>1. [Idle EXCEPT !.pc = "manual", !.woken = TRUE] \in Call
      BY <1>1, IdleCall DEF Call
    <3> QED
      BY <1>1, <1>3, <3>1 DEF CompactRange, TypeOK
  <2> QED
    BY <1>1, <1>3, <2>1 DEF CompactRange, TypeOK
<1>a. ASSUME NEW t \in Threads, NEW b \in BOOLEAN, Ack(t, b)
      PROVE  acked' \subseteq [batch : Threads \X Nat, ok : BOOLEAN, count : 0..MaxUpdates,
                               sync : BOOLEAN]
  BY <1>1, <1>a DEF Ack, Batch, TypeOK, Call
<1>b. ASSUME NEW t \in Threads, NEW b \in BOOLEAN, PopWriters(call, <<t>>, b),
             call[t].pc = "room"
      PROVE  writers' \in Seq(Threads) /\ call' \in [Threads -> Call]
  <2>1. writers # <<>> /\ Len(writers) >= 1
    BY <1>b, AtHead DEF Leading
  <2> QED
    BY <1>1, <1>b, <2>1, Popped, Single DEF TypeOK, QueuePopped
<1>4. ASSUME NEW t \in Threads, WriterWakes(t)
      PROVE  TypeOK'
  <2>1. call' \in [Threads -> Call]
    <3>1. Returned(t, call[t].ok) \in Call
      BY <1>1, IdleCall DEF Returned
    <3>2. call[t].done => call' = [call EXCEPT ![t] = Returned(t, call[t].ok)]
      BY <1>4 DEF WriterWakes
    <3>3. ~call[t].done => call' = [call EXCEPT ![t].pc = "room"]
      BY <1>4 DEF WriterWakes
    <3>4. [call EXCEPT ![t].pc = "room"] \in [Threads -> Call]
      BY <1>1, GoesOn DEF TypeOK, Leading
    <3> QED
      BY <1>1, <3>1, <3>2, <3>3, <3>4 DEF TypeOK
  <2>2. call[t].ok \in BOOLEAN
    BY <1>1 DEF TypeOK, Call
  <2>3. acked' \subseteq [batch : Threads \X Nat, ok : BOOLEAN, count : 0..MaxUpdates,
                          sync : BOOLEAN]
    BY <1>1, <1>4, <1>a, <2>2 DEF WriterWakes, TypeOK
  <2> QED
    BY <1>1, <1>4, <2>1, <2>3 DEF WriterWakes, TypeOK
<1>5. ASSUME NEW t \in Threads, RoomError(t) \/ SwitchFails(t)
      PROVE  TypeOK'
  <2>1. PopWriters(call, <<t>>, FALSE) /\ Ack(t, FALSE) /\ call[t].pc = "room"
    BY <1>5 DEF RoomError, SwitchFails, CanSwitch, PastDelay, AtFront
  <2>2. UNCHANGED <<calls, group, data, manual>>
    BY <1>5 DEF RoomError, SwitchFails
  <2> QED
    BY <1>1, <1>a, <1>b, <2>1, <2>2 DEF TypeOK
<1>6. ASSUME NEW t \in Threads, RoomDelay(t) \/ RoomWait(t) \/ RoomWakes(t) \/ FlushTurn(t)
      PROVE  TypeOK'
  <2>1. call' \in [Threads -> Call]
    <3>1. /\ [call EXCEPT ![t].delay = FALSE] \in [Threads -> Call]
          /\ [call EXCEPT ![t].pc = "bgwait", ![t].woken = FALSE] \in [Threads -> Call]
          /\ [call EXCEPT ![t].pc = "room", ![t].woken = FALSE] \in [Threads -> Call]
          /\ [call EXCEPT ![t].woken = FALSE] \in [Threads -> Call]
          /\ [call EXCEPT ![t] = Idle] \in [Threads -> Call]
      BY <1>1, GoesOn DEF TypeOK, Leading
    <3>2. \/ call' = [call EXCEPT ![t].delay = FALSE]
          \/ call' = [call EXCEPT ![t].pc = "bgwait", ![t].woken = FALSE]
          \/ call' = [call EXCEPT ![t].pc = "room", ![t].woken = FALSE]
          \/ call' = [call EXCEPT ![t].woken = FALSE]
          \/ call' = [call EXCEPT ![t] = Idle]
      BY <1>6 DEF RoomDelay, RoomWait, RoomWakes, FlushTurn
    <3> QED
      BY <3>1, <3>2
  <2> QED
    BY <1>1, <1>6, <2>1 DEF RoomDelay, RoomWait, RoomWakes, FlushTurn, TypeOK
<1>7. ASSUME NEW t \in Threads, RoomFound(t)
      PROVE  TypeOK'
  <2>1. call[t].pc = "room" /\ writers # <<>> /\ writers[1] = t
    BY <1>7, AtHead DEF RoomFound, PastDelay, AtFront, Leading
  <2>2. UNCHANGED <<calls, data, manual>>
    BY <1>7 DEF RoomFound
  <2>3. CASE call[t].count = 0
    BY <1>1, <1>7, <1>a, <1>b, <2>1, <2>2, <2>3 DEF RoomFound, TypeOK
  <2>4. CASE call[t].count # 0
    <3>1. group' \in Seq(Threads)
      BY <1>1, <1>7, <2>1, <2>4, BatchGroup DEF RoomFound
    <3>2. call' \in [Threads -> Call] /\ UNCHANGED <<writers, acked>>
      <4>1. [call EXCEPT ![t].pc = "log"] \in [Threads -> Call]
        BY <1>1, GoesOn DEF TypeOK, Leading, Applying
      <4> QED
        BY <1>7, <2>4, <4>1 DEF RoomFound
    <3> QED
      BY <1>1, <2>2, <3>1, <3>2 DEF TypeOK
  <2> QED
    BY <2>3, <2>4
<1>8. ASSUME NEW t \in Threads, SwitchMemTable(t)
      PROVE  TypeOK'
  <2>1. call' \in [Threads -> Call]
    BY <1>1, <1>8, GoesOn DEF SwitchMemTable, TypeOK
  <2> QED
    BY <1>1, <1>8, <2>1 DEF SwitchMemTable, TypeOK
<1>9. ASSUME NEW t \in Threads, AddRecord(t)
      PROVE  TypeOK'
  <2>1. call' \in [Threads -> Call]
    <3>1. /\ [call EXCEPT ![t].pc = "sync"] \in [Threads -> Call]
          /\ [call EXCEPT ![t].pc = "insert"] \in [Threads -> Call]
          /\ [call EXCEPT ![t].pc = "commit", ![t].ok = FALSE] \in [Threads -> Call]
      BY <1>1, GoesOn DEF TypeOK, Leading, Applying
    <3>2. \/ call' = [call EXCEPT ![t].pc = "sync"] \/ call' = [call EXCEPT ![t].pc = "insert"]
          \/ call' = [call EXCEPT ![t].pc = "commit", ![t].ok = FALSE]
      BY <1>9 DEF AddRecord
    <3> QED
      BY <3>1, <3>2
  <2>2. [entries |-> GroupEntries, synced |-> FALSE] \in LogRecord
    BY <1>1, GroupNumbers DEF LogRecord
  <2>3. log' \in Seq(LogRecord)
    <3>1. Append(log, [entries |-> GroupEntries, synced |-> FALSE]) \in Seq(LogRecord)
      BY <1>1, <2>2, AppendProperties DEF TypeOK
    <3> QED
      BY <1>1, <1>9, <3>1 DEF AddRecord, TypeOK
  <2> QED
    BY <1>1, <1>9, <2>1, <2>3 DEF AddRecord, TypeOK
<1>10. ASSUME NEW t \in Threads, SyncLog(t)
       PROVE  TypeOK'
  <2>1. call' \in [Threads -> Call]
    <3>1. /\ [call EXCEPT ![t].pc = "insert"] \in [Threads -> Call]
          /\ [call EXCEPT ![t].pc = "syncerror", ![t].ok = FALSE] \in [Threads -> Call]
      BY <1>1, GoesOn DEF TypeOK, Leading, Applying
    <3> QED
      BY <1>10, <3>1 DEF SyncLog
  <2>2. \A i \in 1..Len(log) : [log[i] EXCEPT !.synced = TRUE] \in LogRecord
    <3>1. \A i \in 1..Len(log) : log[i] \in LogRecord
      BY <1>1 DEF TypeOK
    <3> QED
      BY <3>1 DEF LogRecord
  <2>3. [i \in DOMAIN log |-> [log[i] EXCEPT !.synced = TRUE]] \in Seq(LogRecord)
    <3>1. DOMAIN log = 1..Len(log) /\ Len(log) \in Nat
      BY <1>1, LenProperties DEF TypeOK
    <3> QED
      BY <2>2, <3>1, IsASeq
  <2>4. log' \in Seq(LogRecord)
    BY <1>1, <1>10, <2>3 DEF SyncLog, TypeOK
  <2> QED
    BY <1>1, <1>10, <2>1, <2>4 DEF SyncLog, TypeOK
<1>11. ASSUME NEW t \in Threads, InsertInto(t)
       PROVE  TypeOK'
  <2>1. call' \in [Threads -> Call]
    BY <1>1, <1>11, GoesOn DEF InsertInto, TypeOK, Leading, Applying
  <2>2. mem' \subseteq Entry
    BY <1>1, <1>11, GroupNumbers DEF InsertInto, TypeOK
  <2> QED
    BY <1>1, <1>11, <2>1, <2>2 DEF InsertInto, TypeOK
<1>12. ASSUME NEW t \in Threads, Commit(t)
       PROVE  TypeOK'
  <2>1. group # <<>> /\ Len(group) <= Len(writers)
    BY <1>12 DEF Commit, ControlInv, GroupInv, Applying
  <2>2. call[t].ok \in BOOLEAN
    BY <1>1 DEF TypeOK, Call
  <2>3. PICK c \in [Threads -> Call] : PopWriters(c, group, call[t].ok)
    BY <1>1, <1>12, Signalled DEF Commit, TypeOK
  <2>4. writers' \in Seq(Threads) /\ call' \in [Threads -> Call]
    BY <1>1, <2>1, <2>2, <2>3, Popped DEF TypeOK, QueuePopped
  <2>5. lastSeq' \in Nat
    BY <1>1, <1>12, GroupNumbers DEF Commit, TypeOK
  <2>6. group' \in Seq(Threads)
    BY <1>12 DEF Commit
  <2> QED
    BY <1>1, <1>12, <1>a, <2>2, <2>4, <2>5, <2>6 DEF Commit, TypeOK
<1>13. ASSUME NEW t \in Threads, CompactRangeTurn(t)
       PROVE  TypeOK'
  <2>1. call' \in [Threads -> Call] /\ manual' \in Threads \union {NoThread}
    <3>1. /\ [call EXCEPT ![t] = Idle] \in [Threads -> Call] /\ call \in [Threads -> Call]
          /\ [call EXCEPT ![t].woken = FALSE] \in [Threads -> Call]
          /\ manual \in Threads \union {NoThread}
      BY <1>1, GoesOn DEF TypeOK
    <3>2. \/ call' = [call EXCEPT ![t] = Idle] \/ call' = call
          \/ call' = [call EXCEPT ![t].woken = FALSE]
      BY <1>13 DEF CompactRangeTurn
    <3>3. manual' \in {NoThread, t, manual}
      BY <1>13 DEF CompactRangeTurn
    <3> QED
      BY <3>1, <3>2, <3>3
  <2> QED
    BY <1>1, <1>13, <2>1 DEF CompactRangeTurn, TypeOK
<1>14. ASSUME CompactMemTable
       PROVE  TypeOK'
  <2>1. call' \in [Threads -> Call]
    BY <1>1, <1>14, Signalled DEF CompactMemTable, TypeOK
  <2>2. /\ tables' \subseteq Entry /\ imm' \subseteq Entry /\ hasImm' \in BOOLEAN
        /\ oldLog' \in Seq(LogRecord)
    BY <1>1, <1>14, EmptySeq DEF CompactMemTable, TypeOK
  <2> QED
    BY <1>1, <1>14, <2>1, <2>2 DEF CompactMemTable, TypeOK
<1>15. ASSUME CompactFiles
       PROVE  TypeOK'
  <2>1. \A b \in BOOLEAN : bg = "manual" => [call EXCEPT ![manual].done = b] \in [Threads -> Call]
    BY <1>1, <1>15, GoesOn DEF CompactFiles, TypeOK
  <2>2. call' \in [Threads -> Call]
    <3>1. call \in [Threads -> Call] /\ RecordBackgroundError(call) \in [Threads -> Call]
      BY <1>1, Signalled DEF TypeOK
    <3>2. bg = "manual" => RecordBackgroundError([call EXCEPT ![manual].done = TRUE]) \in [Threads -> Call]
      BY <2>1, Signalled
    <3>3. \/ bg # "manual" /\ call' \in {call, RecordBackgroundError(call)}
          \/ bg = "manual" /\ \/ \E b \in BOOLEAN : call' = [call EXCEPT ![manual].done = b]
                              \/ call' = RecordBackgroundError([call EXCEPT ![manual].done = TRUE])
      BY <1>15 DEF CompactFiles
    <3> QED
      BY <2>1, <3>1, <3>2, <3>3
  <2> QED
    BY <1>1, <1>15, <2>2 DEF CompactFiles, TypeOK
<1>16. ASSUME BackgroundCall \/ CompactFilesTraps \/ Close \/ CloseEnds \/ UNCHANGED vars
       PROVE  TypeOK'
  BY <1>1, <1>16 DEF BackgroundCall, CompactFilesTraps, Close, CloseEnds, vars, TypeOK
<1>17. ASSUME BackgroundDone
       PROVE  TypeOK'
  BY <1>1, <1>17, Signalled DEF BackgroundDone, TypeOK
<1> QED
  BY <1>2, <1>3, <1>4, <1>5, <1>6, <1>7, <1>8, <1>9, <1>10, <1>11, <1>12, <1>13, <1>14, <1>15,
     <1>16, <1>17 DEF Next, WriterStep, Background

-----------------------------------------------------------------------------
(* The control invariant is inductive.                                        *)

(* A thread whose call is where it was, up to its being woken or its waiting  *)
(* for room.                                                                  *)
SameCall(t) == /\ \/ call'[t].pc = call[t].pc
                  \/ call'[t].pc \in {"room", "bgwait"} /\ call[t].pc \in {"room", "bgwait"}
               /\ call'[t].count = call[t].count
               /\ call'[t].sync = call[t].sync /\ call'[t].ok = call[t].ok
               /\ call'[t].done = call[t].done

(* A step that leaves the queue and the group alone, as far as they are       *)
(* concerned.                                                                 *)
LEMMA QueueFrame ==
    ASSUME ControlInv, UNCHANGED <<writers, group>>,
           \A t \in Threads : /\ InQueue(t)' <=> InQueue(t)
                              /\ call'[t].pc \in Leading =>
                                   call[t].pc \in Leading \/ (writers # <<>> /\ writers[1] = t)
                              /\ call'[t].pc \in Applying <=> call[t].pc \in Applying
                              /\ InQueue(t) => call'[t].sync = call[t].sync
    PROVE  QueueInv' /\ GroupInv'
<1>1. writers \in Seq(Threads) /\ group \in Seq(Threads)
  BY DEF ControlInv, TypeOK
<1>2. QueueInv /\ GroupInv
  BY DEF ControlInv
<1>3. \A i \in 1..Len(writers) : writers[i] \in Threads /\ InQueue(writers[i])
  BY <1>1, <1>2 DEF QueueInv
<1>4. QueueInv'
  <2>1. \A i \in 1..Len(writers) : InQueue(writers[i])'
    BY <1>3
  <2>2. \A t \in Threads : call'[t].pc \in Leading => writers # <<>> /\ writers[1] = t
    BY <1>2 DEF QueueInv
  <2> QED
    BY <1>2, <2>1, <2>2 DEF QueueInv
<1>5. GroupInv'
  <2>1. \A t \in Threads : call'[t].pc \in Applying => group' # <<>>
    BY <1>2 DEF GroupInv
  <2>2. ASSUME group # <<>>
        PROVE  /\ Len(group) <= Len(writers)
               /\ \A i \in 1..Len(group) : group[i] = writers[i]
               /\ call'[group[1]].pc \in Applying
               /\ \A i \in 1..Len(group) : call'[group[i]].sync => call'[group[1]].sync
    <3>1. /\ Len(group) <= Len(writers) /\ \A i \in 1..Len(group) : group[i] = writers[i]
          /\ call[group[1]].pc \in Applying
          /\ \A i \in 1..Len(group) : call[group[i]].sync => call[group[1]].sync
      BY <1>2, <2>2 DEF GroupInv
    <3>2. Len(group) \in Nat /\ Len(group) >= 1 /\ Len(writers) \in Nat
      BY <1>1, <2>2, EmptySeq, LenProperties
    <3>3. \A i \in 1..Len(group) : group[i] \in Threads /\ InQueue(group[i])
      BY <1>3, <3>1, <3>2
    <3> QED
      BY <3>1, <3>2, <3>3
  <2> QED
    BY <2>1, <2>2 DEF GroupInv
<1> QED
  BY <1>4, <1>5

(* The writers that leave the queue have their answer; nobody else's call     *)
(* changes.                                                                   *)
Departed(members, ok) ==
    /\ Len(members) \in Nat /\ Len(members) >= 1 /\ members[1] \in Threads
    /\ Len(writers) \in Nat
    /\ Len(writers') = Len(writers) - Len(members)
    /\ \A i \in 1..Len(writers') : writers'[i] = writers[i + Len(members)]
    /\ call'[members[1]] = Returned(members[1], ok)
    /\ \A i \in 1..Len(members) : members[i] # members[1] =>
         /\ call'[members[i]].pc = "wait" /\ call'[members[i]].done
         /\ call'[members[i]].ok = ok
         /\ call'[members[i]].count = call[members[i]].count
         /\ call'[members[i]].sync = call[members[i]].sync
    /\ \A t \in Threads : (\A i \in 1..Len(members) : members[i] # t) => SameCall(t)

(* These are writers from the front of the queue.                             *)
FromFront(members) == /\ members \in Seq(Threads) /\ members # <<>>
                      /\ Len(members) <= Len(writers)
                      /\ \A i \in 1..Len(members) : members[i] = writers[i]
                      /\ call[members[1]].pc \in Leading

(* The calls c differ from those now by wake-ups.                             *)
OnlyWoken(c) == /\ c \in [Threads -> Call]
                /\ \A t \in Threads : c[t] \in {call[t], [call[t] EXCEPT !.woken = TRUE]}

(* So it is when PopWriters is done.                                          *)
LEMMA Leave ==
    ASSUME ControlInv, NEW c, OnlyWoken(c), NEW members, FromFront(members), NEW ok \in BOOLEAN,
           PopWriters(c, members, ok)
    PROVE  Departed(members, ok)
<1>1. TypeOK /\ QueueInv
  BY DEF ControlInv
<1>2. QueuePopped(c, members, ok)
  BY <1>1, Popped DEF OnlyWoken, FromFront
<1>3. ASSUME NEW i \in 1..Len(members), members[i] # members[1]
      PROVE  /\ call'[members[i]].pc = "wait" /\ call'[members[i]].done
             /\ call'[members[i]].ok = ok
             /\ call'[members[i]].count = call[members[i]].count
             /\ call'[members[i]].sync = call[members[i]].sync
  <2>0. Len(members) \in Nat /\ Len(members) >= 1 /\ Len(writers) \in Nat /\ Len(members) <= Len(writers)
    BY <1>2 DEF QueuePopped, FromFront
  <2>1. members[i] \in Threads /\ members[i] = writers[i] /\ members[1] = writers[1] /\ i \in 1..Len(writers)
    BY <2>0 DEF FromFront
  <2>2. InQueue(members[i]) /\ call[members[i]].pc \notin Leading
    BY <1>1, <1>3, <2>1 DEF QueueInv
  <2>3. call[members[i]].pc = "wait"
    BY <2>2 DEF InQueue
  <2>4. c[members[i]] \in Call /\ call[members[i]] \in Call
    BY <1>1, <2>1 DEF TypeOK, OnlyWoken
  <2>5. c[members[i]] \in {call[members[i]], [call[members[i]] EXCEPT !.woken = TRUE]}
    BY <2>1 DEF OnlyWoken
  <2>6. /\ c[members[i]].pc = "wait" /\ c[members[i]].count = call[members[i]].count
        /\ c[members[i]].sync = call[members[i]].sync
    BY <2>3, <2>4, <2>5 DEF Call
  <2>7. call'[members[i]] = [c[members[i]] EXCEPT !.done = TRUE, !.ok = ok, !.woken = TRUE]
    BY <1>2, <1>3 DEF QueuePopped
  <2> QED
    BY <2>4, <2>6, <2>7 DEF Call
<1>4. ASSUME NEW t \in Threads, \A i \in 1..Len(members) : members[i] # t
      PROVE  SameCall(t)
  <2>1. t \notin ToSet(members)
    BY <1>4 DEF ToSet, FromFront
  <2>2. c[t] \in Call /\ call[t] \in Call /\ c[t] \in {call[t], [call[t] EXCEPT !.woken = TRUE]}
    BY <1>1 DEF TypeOK, OnlyWoken
  <2>3. call'[t] = c[t] \/ call'[t] = [c[t] EXCEPT !.woken = TRUE]
    BY <1>2, <2>1 DEF QueuePopped
  <2> QED
    BY <2>2, <2>3 DEF Call, SameCall
<1> QED
  BY <1>2, <1>3, <1>4 DEF Departed, QueuePopped

(* The queue is one without them.                                             *)
LEMMA LeaveControl ==
    ASSUME ControlInv, NEW members, FromFront(members), NEW ok \in BOOLEAN,
           Departed(members, ok), group' = <<>>, UNCHANGED manual
    PROVE  QueueInv' /\ GroupInv' /\ OkInv' /\ ManualInv'
<1> DEFINE n == Len(members)
           Member(t) == \E i \in 1..n : members[i] = t
<1>1. TypeOK /\ QueueInv /\ GroupInv /\ OkInv /\ ManualInv
  BY DEF ControlInv
<1>2. /\ n \in Nat /\ n >= 1 /\ members[1] \in Threads
      /\ n <= Len(writers) /\ Len(writers') = Len(writers) - n
      /\ \A i \in 1..Len(writers') : writers'[i] = writers[i + n]
      /\ \A i \in 1..n : members[i] = writers[i]
      /\ call'[members[1]] = Returned(members[1], ok)
      /\ \A i \in 1..n : members[i] # members[1] =>
           call'[members[i]].pc = "wait" /\ call'[members[i]].done
      /\ \A t \in Threads : (\A i \in 1..n : members[i] # t) => SameCall(t)
  BY DEF Departed, FromFront
<1>3. call'[members[1]].pc \in {"idle", "flush"} /\ Len(writers) \in Nat
  BY <1>1, <1>2 DEF Outside, Returned, Idle, Departed
<1>4. \A t \in Threads : Member(t) => ~InQueue(t)' /\ call'[t].pc \notin Leading
  BY <1>2, <1>3 DEF InQueue, Leading, Applying
<1>5. \A t \in Threads : ~Member(t) => SameCall(t)
  BY <1>2
<1>6. \A t \in Threads : ~Member(t) => (InQueue(t)' <=> InQueue(t))
  BY <1>5 DEF SameCall, InQueue, Leading
<1>7. \A t \in Threads : ~Member(t) => call[t].pc \notin Leading
  BY <1>1, <1>2 DEF QueueInv
<1>8. \A i \in 1..Len(writers) : writers[i] \in Threads /\ (Member(writers[i]) <=> i \in 1..n)
  <2>1. ASSUME NEW i \in 1..Len(writers), NEW j \in 1..n, members[j] = writers[i]
        PROVE  i = j
    <3>1. j \in 1..Len(writers) /\ writers[j] = writers[i]
      BY <1>2, <1>3, <2>1
    <3> QED
      BY <1>1, <3>1 DEF QueueInv
  <2>2. \A i \in 1..Len(writers) : writers[i] \in Threads
    BY <1>1 DEF TypeOK
  <2>3. \A i \in 1..n : members[i] = writers[i]
    BY <1>2
  <2> HIDE DEF n
  <2>4. \A i \in 1..Len(writers) : Member(writers[i]) => i \in 1..n
    BY <2>1
  <2>5. \A i \in 1..Len(writers) : i \in 1..n => Member(writers[i])
    BY <2>3
  <2> QED
    BY <2>2, <2>4, <2>5
<1> HIDE DEF n, Member
<1>9. \A i \in 1..Len(writers') : /\ i + n \in 1..Len(writers) /\ writers'[i] = writers[i + n]
                                  /\ writers'[i] \in Threads /\ ~Member(writers'[i])
  <2>1. \A i \in 1..Len(writers') : i + n \in 1..Len(writers) /\ i + n \notin 1..n
    BY <1>2, <1>3
  <2> QED
    BY <1>2, <1>8, <2>1
<1>10. QueueInv'
  <2>1. \A i, j \in 1..Len(writers') : writers'[i] = writers'[j] => i = j
    <3> SUFFICES ASSUME NEW i \in 1..Len(writers'), NEW j \in 1..Len(writers'),
                        writers'[i] = writers'[j]
                 PROVE  i = j
      OBVIOUS
    <3>1. i + n \in 1..Len(writers) /\ j + n \in 1..Len(writers) /\ writers[i + n] = writers[j + n]
      BY <1>9
    <3>2. i + n = j + n
      BY <1>1, <3>1 DEF QueueInv
    <3> QED
      BY <1>2, <3>2
  <2>2. \A i \in 1..Len(writers') : \/ call'[writers'[i]].pc \in Leading
                                    \/ call'[writers'[i]].pc = "wait" /\ ~call'[writers'[i]].done
    <3>1. \A i \in 1..Len(writers') : InQueue(writers'[i])
      BY <1>1, <1>9 DEF QueueInv
    <3>2. \A i \in 1..Len(writers') : SameCall(writers'[i])
      BY <1>5, <1>9
    <3> QED
      BY <3>1, <3>2 DEF SameCall, InQueue, Leading
  <2>3. ASSUME NEW t \in Threads, InQueue(t)'
        PROVE  \E i \in 1..Len(writers') : writers'[i] = t
    <3>1. ~Member(t) /\ InQueue(t)
      BY <1>4, <1>6, <2>3
    <3>2. PICK j \in 1..Len(writers) : writers[j] = t
      BY <1>1, <3>1 DEF QueueInv
    <3>3. j \notin 1..n
      BY <1>8, <3>1, <3>2
    <3>4. j - n \in 1..Len(writers') /\ (j - n) + n = j
      BY <1>2, <1>3, <3>3
    <3> QED
      BY <1>9, <3>2, <3>4
  <2>4. \A t \in Threads : call'[t].pc \notin Leading
    BY <1>4, <1>5, <1>7 DEF SameCall, Leading
  <2> QED
    BY <2>1, <2>2, <2>3, <2>4 DEF QueueInv, InQueue
<1>11. GroupInv'
  BY <1>4, <1>5, <1>7 DEF SameCall, GroupInv, Leading, Applying
<1>12. OkInv'
  <2>1. \A t \in Threads : Member(t) => ~InQueue(t)' /\ call'[t].pc # "syncerror"
    BY <1>4 DEF Leading, Applying
  <2>2. \A t \in Threads : ~Member(t) => /\ InQueue(t)' <=> InQueue(t)
                                         /\ call'[t].ok = call[t].ok
                                         /\ \/ call'[t].pc = call[t].pc
                                            \/ /\ call'[t].pc \notin {"commit", "syncerror"}
                                               /\ call[t].pc \notin {"commit", "syncerror"}
    BY <1>5, <1>6 DEF SameCall
  <2> QED
    BY <1>1, <2>1, <2>2 DEF OkInv
<1>13. ManualInv'
  <2> SUFFICES ASSUME manual # NoThread
               PROVE  call'[manual].pc = "manual"
    BY DEF ManualInv
  <2>1. manual \in Threads /\ call[manual].pc = "manual"
    BY <1>1 DEF TypeOK, ManualInv
  <2>2. ~Member(manual)
    <3> SUFFICES ASSUME NEW i \in 1..n, members[i] = manual
                 PROVE  FALSE
      BY DEF Member
    <3>1. i \in 1..Len(writers) /\ writers[i] = manual
      BY <1>2, <1>3 DEF n
    <3>2. InQueue(manual)
      BY <1>1, <3>1 DEF QueueInv
    <3> QED
      BY <2>1, <3>2 DEF InQueue, Leading, Applying
  <2> QED
    BY <1>5, <2>1, <2>2 DEF SameCall
<1> QED
  BY <1>10, <1>11, <1>12, <1>13

(* A step that changes no call but those outside writers_, and the wake-ups.  *)
LEMMA ControlFrame ==
    ASSUME ControlInv, UNCHANGED <<writers, group>>,
           \A t \in Threads : \/ SameCall(t)
                              \/ ~InQueue(t) /\ call'[t].pc \in {"idle", "manual", "flush"}
    PROVE  QueueInv' /\ GroupInv' /\ OkInv'
<1>1. \A t \in Threads : /\ InQueue(t)' <=> InQueue(t)
                         /\ call'[t].pc \in Leading => call[t].pc \in Leading
                         /\ call'[t].pc \in Applying <=> call[t].pc \in Applying
                         /\ InQueue(t) => call'[t].sync = call[t].sync
  BY DEF SameCall, InQueue, Leading, Applying
<1>2. QueueInv' /\ GroupInv'
  BY <1>1, QueueFrame
<1>3. \A t \in Threads :
        /\ call'[t].pc = "syncerror" => call[t].pc = "syncerror" /\ call'[t].ok = call[t].ok
        /\ InQueue(t)' => /\ InQueue(t) /\ call'[t].ok = call[t].ok
                          /\ call'[t].pc \notin {"commit", "syncerror"} =>
                               call[t].pc \notin {"commit", "syncerror"}
  BY DEF SameCall, InQueue, Leading, Applying
<1>4. OkInv'
  BY <1>3 DEF OkInv, ControlInv
<1> QED
  BY <1>2, <1>4

(* Background work and calls outside writers_ are such steps.                 *)
QuietStep ==
    \/ \E t \in Threads : \/ CompactRange(t) \/ CompactRangeTurn(t) \/ FlushTurn(t)
                          \/ RoomDelay(t) \/ RoomWait(t) \/ RoomWakes(t) \/ SwitchMemTable(t)
    \/ Background \/ Close \/ CloseEnds \/ UNCHANGED vars

(* What they do to the calls.                                                 *)
LEMMA QuietCalls ==
    ASSUME ControlInv, QuietStep
    PROVE  /\ UNCHANGED <<writers, group, acked, lastSeq>>
           /\ \A t \in Threads :
                \/ SameCall(t) /\ calls'[t] = calls[t]
                \/ /\ call[t].pc \in {"idle", "manual", "flush"}
                   /\ call'[t].pc \in {"idle", "manual", "flush"}
                   /\ calls'[t] \in {calls[t], calls[t] + 1}
           /\ ManualInv' /\ ImmInv'
<1> USE DEF data
<1>1. TypeOK /\ ManualInv /\ ImmInv
  BY DEF ControlInv
<1>2. /\ call \in [Threads -> Call] /\ calls \in [Threads -> Nat]
      /\ MaxUpdates \in Nat
  BY <1>1 DEF TypeOK, ConstantsOK
<1>3. \A c \in [Threads -> Call] :
        /\ \A t \in Threads : SignalAll(c)[t] \in {c[t], [c[t] EXCEPT !.woken = TRUE]}
        /\ \A t \in Threads : RecordBackgroundError(c)[t] \in {c[t], [c[t] EXCEPT !.woken = TRUE]}
  BY Signalled
<1>a. ASSUME call' \in {call, SignalAll(call), RecordBackgroundError(call)}
      PROVE  \A t \in Threads : SameCall(t)
  <2>1. \A t \in Threads : call[t] \in Call /\ call'[t] \in {call[t], [call[t] EXCEPT !.woken = TRUE]}
    BY <1>2, <1>3, <1>a
  <2> QED
    BY <2>1 DEF SameCall, Call
<1>b. ASSUME \A t \in Threads : SameCall(t), UNCHANGED manual
      PROVE  ManualInv'
  BY <1>1, <1>b DEF ManualInv, SameCall, TypeOK
<1>4. ASSUME NEW t \in Threads, CompactRange(t)
      PROVE  /\ UNCHANGED <<writers, group, acked, lastSeq>>
             /\ \A u \in Threads :
                  \/ SameCall(u) /\ calls'[u] = calls[u]
                  \/ /\ call[u].pc \in {"idle", "manual", "flush"}
                     /\ call'[u].pc \in {"idle", "manual", "flush"}
                     /\ calls'[u] \in {calls[u], calls[u] + 1}
             /\ ManualInv' /\ ImmInv'
  <2>1. /\ call[t].pc = "idle" /\ call' = [call EXCEPT ![t] = [Idle EXCEPT !.pc = "manual", !.woken = TRUE]]
        /\ calls' = [calls EXCEPT ![t] = @ + 1]
        /\ UNCHANGED <<writers, group, data, bg, manual, bgError, closing, failures, acked>>
    BY <1>4 DEF CompactRange
  <2>2. call'[t].pc = "manual" /\ calls'[t] = calls[t] + 1
    BY <1>2, <2>1 DEF Idle
  <2>3. \A u \in Threads : u # t => call'[u] = call[u] /\ calls'[u] = calls[u]
    BY <1>2, <2>1
  <2>4. ManualInv'
    BY <1>1, <2>1, <2>2, <2>3 DEF ManualInv, TypeOK
  <2> QED
    BY <1>1, <2>1, <2>2, <2>3, <2>4 DEF SameCall, ImmInv
<1>5. ASSUME NEW t \in Threads, CompactRangeTurn(t) \/ FlushTurn(t)
      PROVE  /\ UNCHANGED <<writers, group, acked, lastSeq, calls, imm, hasImm>>
             /\ \A u \in Threads :
                  \/ SameCall(u)
                  \/ /\ call[u].pc \in {"idle", "manual", "flush"}
                     /\ call'[u].pc \in {"idle", "manual", "flush"}
             /\ ManualInv'
  <2>1. /\ call[t].pc \in {"manual", "flush"}
        /\ \/ call' = [call EXCEPT ![t] = Idle] /\ manual' \in {manual, NoThread}
              /\ (manual = t => manual' = NoThread \/ call[t].pc = "flush")
           \/ call' = call /\ manual' \in {manual, t} /\ call[t].pc = "manual"
           \/ call' = [call EXCEPT ![t].woken = FALSE] /\ manual' = manual
        /\ UNCHANGED <<writers, group, acked, lastSeq, calls, imm, hasImm>>
    BY <1>5 DEF CompactRangeTurn, FlushTurn
  <2>2. \A u \in Threads : u # t => call'[u] = call[u]
    BY <1>2, <2>1
  <2>3. call'[t].pc \in {"idle", call[t].pc}
    BY <1>2, <2>1 DEF Idle, Call
  <2>4. call' = [call EXCEPT ![t] = Idle] \/ call'[t].pc = call[t].pc
    BY <1>2, <2>1 DEF Call
  <2>5. ManualInv'
    <3> SUFFICES ASSUME manual' # NoThread
                 PROVE  call'[manual'].pc = "manual"
      BY DEF ManualInv
    <3>1. manual' = t \/ (manual' = manual /\ manual \in Threads /\ call[manual].pc = "manual")
      BY <1>1, <2>1 DEF ManualInv, TypeOK
    <3>2. CASE manual' = t
      <4>1. manual = t => call[t].pc = "manual"
        BY <1>1 DEF ManualInv, TypeOK, ConstantsOK
      <4>2. call[t].pc = "manual" /\ (call' = call \/ call' = [call EXCEPT ![t].woken = FALSE])
        BY <2>1, <3>2, <4>1
      <4> QED
        BY <1>2, <3>2, <4>2 DEF Call
    <3>3. CASE manual' # t
      BY <2>2, <3>1, <3>3
    <3> QED
      BY <3>2, <3>3
  <2> QED
    BY <2>1, <2>2, <2>3, <2>5 DEF SameCall
<1>6. ASSUME NEW t \in Threads, RoomDelay(t) \/ RoomWait(t) \/ RoomWakes(t) \/ SwitchMemTable(t)
      PROVE  /\ UNCHANGED <<writers, group, acked, lastSeq, calls, manual>>
             /\ \A u \in Threads : SameCall(u)
  <2>1. /\ UNCHANGED <<writers, group, acked, lastSeq, calls, manual>>
        /\ \/ call' = [call EXCEPT ![t].delay = FALSE]
           \/ call[t].pc = "room" /\ call' = [call EXCEPT ![t].pc = "bgwait", ![t].woken = FALSE]
           \/ call[t].pc = "bgwait" /\ call' = [call EXCEPT ![t].pc = "room", ![t].woken = FALSE]
           \/ call' = [call EXCEPT ![t].null = FALSE]
    BY <1>6 DEF RoomDelay, RoomWait, RoomWakes, SwitchMemTable, PastDelay, AtFront, CanSwitch
  <2>2. \A u \in Threads : u # t => call'[u] = call[u]
    BY <1>2, <2>1
  <2>3. call[t] \in Call
    BY <1>2
  <2>4. \/ call'[t] = [call[t] EXCEPT !.delay = FALSE]
        \/ call[t].pc = "room" /\ call'[t] = [call[t] EXCEPT !.pc = "bgwait", !.woken = FALSE]
        \/ call[t].pc = "bgwait" /\ call'[t] = [call[t] EXCEPT !.pc = "room", !.woken = FALSE]
        \/ call'[t] = [call[t] EXCEPT !.null = FALSE]
    BY <1>2, <2>1
  <2>5. SameCall(t)
    BY <2>3, <2>4 DEF SameCall, Call
  <2> QED
    BY <2>1, <2>2, <2>5 DEF SameCall
<1>7. ASSUME NEW t \in Threads, RoomDelay(t) \/ RoomWait(t) \/ RoomWakes(t) \/ SwitchMemTable(t)
      PROVE  ImmInv'
  BY <1>1, <1>7 DEF RoomDelay, RoomWait, RoomWakes, SwitchMemTable, ImmInv
<1>8. ASSUME BackgroundCall \/ CompactFilesTraps \/ BackgroundDone \/ Close \/ CloseEnds \/ UNCHANGED vars
      PROVE  /\ UNCHANGED <<writers, group, acked, lastSeq, calls, manual, imm, hasImm>>
             /\ call' \in {call, SignalAll(call)}
  BY <1>8 DEF BackgroundCall, CompactFilesTraps, BackgroundDone, Close, CloseEnds, vars
<1>9. ASSUME CompactMemTable
      PROVE  /\ UNCHANGED <<writers, group, acked, lastSeq, calls, manual>>
             /\ call' \in {call, SignalAll(call)} /\ ImmInv'
  BY <1>1, <1>9 DEF CompactMemTable, ImmInv
<1>10. ASSUME CompactFiles
       PROVE  /\ UNCHANGED <<writers, group, acked, lastSeq, calls, imm, hasImm>>
              /\ \A u \in Threads :
                   \/ SameCall(u)
                   \/ /\ call[u].pc \in {"idle", "manual", "flush"}
                      /\ call'[u].pc \in {"idle", "manual", "flush"}
              /\ ManualInv'
  <2>1. UNCHANGED <<writers, group, acked, lastSeq, calls, imm, hasImm>>
    BY <1>10 DEF CompactFiles
  <2>2. CASE bg # "manual"
    <3>1. call' \in {call, RecordBackgroundError(call)} /\ manual' = manual
      BY <1>10, <2>2 DEF CompactFiles
    <3> QED
      BY <1>a, <1>b, <2>1, <3>1
  <2>3. CASE bg = "manual"
    <3>1. manual \in Threads /\ call[manual].pc = "manual" /\ manual' = NoThread
      BY <1>1, <1>10, <2>3 DEF CompactFiles, TypeOK, ManualInv
    <3>2. PICK b \in BOOLEAN :
            call' \in {[call EXCEPT ![manual].done = b],
                       RecordBackgroundError([call EXCEPT ![manual].done = b])}
      BY <1>10, <2>3 DEF CompactFiles
    <3>3. [call EXCEPT ![manual].done = b] \in [Threads -> Call]
      BY <1>2, <3>1, GoesOn
    <3>4. \A u \in Threads :
            call'[u] \in {[call EXCEPT ![manual].done = b][u],
                          [[call EXCEPT ![manual].done = b][u] EXCEPT !.woken = TRUE]}
      BY <1>3, <3>2, <3>3
    <3>5. \A u \in Threads : u # manual => call'[u] \in {call[u], [call[u] EXCEPT !.woken = TRUE]}
      BY <1>2, <3>1, <3>4
    <3>6. call'[manual].pc = "manual"
      BY <1>2, <3>1, <3>4 DEF Call
    <3>7. \A u \in Threads : u # manual => SameCall(u)
      BY <1>2, <3>5 DEF SameCall, Call
    <3> QED
      BY <2>1, <3>1, <3>6, <3>7 DEF ManualInv
  <2> QED
    BY <2>2, <2>3
<1> QED
  BY <1>1, <1>4, <1>5, <1>6, <1>7, <1>8, <1>9, <1>10, <1>a, <1>b
     DEF QuietStep, Background, ImmInv

(* The leader changes what it does with its group.                            *)
LEMMA LeaderMoves ==
    ASSUME ControlInv, NEW t \in Threads, call[t].pc \in Applying, UNCHANGED <<writers, group, manual>>,
           call'[t].pc \in Applying, call'[t].sync = call[t].sync,
           call'[t].ok \/ call'[t].pc = "commit" \/ (call'[t].pc = "syncerror" /\ ~call'[t].ok),
           call'[t].pc = "syncerror" => ~call'[t].ok,
           \A u \in Threads : u # t => call'[u] = call[u]
    PROVE  QueueInv' /\ GroupInv' /\ OkInv' /\ ManualInv'
<1>1. \A u \in Threads : /\ InQueue(u)' <=> InQueue(u)
                         /\ call'[u].pc \in Leading => call[u].pc \in Leading
                         /\ call'[u].pc \in Applying <=> call[u].pc \in Applying
                         /\ InQueue(u) => call'[u].sync = call[u].sync
  BY DEF InQueue, Leading
<1>2. QueueInv' /\ GroupInv'
  BY <1>1, QueueFrame
<1>3. OkInv'
  BY DEF ControlInv, OkInv, InQueue, Leading, Applying
<1>4. ManualInv'
  BY DEF ControlInv, TypeOK, ManualInv, Applying
<1> QED
  BY <1>2, <1>3, <1>4

(* A thread calls Write.                                                      *)
LEMMA WriteControl ==
    ASSUME ControlInv, NEW t \in Threads, Write(t)
    PROVE  QueueInv' /\ GroupInv' /\ OkInv' /\ ManualInv' /\ ImmInv'
<1>1. TypeOK /\ QueueInv /\ GroupInv /\ OkInv /\ ManualInv /\ ImmInv
  BY DEF ControlInv
<1>2. /\ call[t].pc = "idle" /\ writers' = Append(writers, t)
      /\ UNCHANGED <<group, manual, imm, hasImm>>
      /\ \A u \in Threads : u # t => call'[u] = call[u]
  BY <1>1 DEF Write, TypeOK, data
<1>3. /\ call'[t].pc = (IF writers = <<>> THEN "room" ELSE "wait")
      /\ ~call'[t].done /\ call'[t].ok
  BY <1>1 DEF Write, TypeOK, Idle
<1>4. writers \in Seq(Threads) /\ group \in Seq(Threads) /\ Len(writers) \in Nat
  BY <1>1, LenProperties DEF TypeOK
<1>5. /\ writers' \in Seq(Threads) /\ Len(writers') = Len(writers) + 1
      /\ \A i \in 1..Len(writers) : writers'[i] = writers[i]
      /\ writers'[Len(writers) + 1] = t
  BY <1>2, <1>4, AppendProperties
<1>6. \A i \in 1..Len(writers) : writers[i] \in Threads /\ writers[i] # t
  BY <1>1, <1>2, <1>4 DEF QueueInv, InQueue, Leading, Applying
<1>7. writers = <<>> <=> Len(writers) = 0
  BY <1>4, EmptySeq
<1>8. QueueInv'
  <2>1. \A i, j \in 1..Len(writers') : writers'[i] = writers'[j] => i = j
    <3>1. \A i \in 1..Len(writers') : i \in 1..Len(writers) \/ i = Len(writers) + 1
      BY <1>4, <1>5
    <3>2. \A i, j \in 1..Len(writers) : writers[i] = writers[j] => i = j
      BY <1>1 DEF QueueInv
    <3> QED
      BY <1>5, <1>6, <3>1, <3>2
  <2>2. \A i \in 1..Len(writers') : \/ call'[writers'[i]].pc \in Leading
                                    \/ call'[writers'[i]].pc = "wait" /\ ~call'[writers'[i]].done
    <3>1. \A i \in 1..Len(writers') : i \in 1..Len(writers) \/ i = Len(writers) + 1
      BY <1>4, <1>5
    <3>2. call'[t].pc \in Leading \/ (call'[t].pc = "wait" /\ ~call'[t].done)
      BY <1>3 DEF Leading
    <3>3. \A i \in 1..Len(writers) : \/ call'[writers[i]].pc \in Leading
                                     \/ call'[writers[i]].pc = "wait" /\ ~call'[writers[i]].done
      <4>1. \A i \in 1..Len(writers) : InQueue(writers[i])
        BY <1>1 DEF QueueInv
      <4>2. \A i \in 1..Len(writers) : call'[writers[i]] = call[writers[i]]
        BY <1>2, <1>6
      <4> QED
        BY <4>1, <4>2 DEF InQueue
    <3> QED
      BY <1>5, <3>1, <3>2, <3>3
  <2>3. ASSUME NEW u \in Threads, InQueue(u)'
        PROVE  \E i \in 1..Len(writers') : writers'[i] = u
    <3>1. CASE u = t
      <4>1. Len(writers) + 1 \in 1..Len(writers')
        BY <1>4, <1>5
      <4> QED
        BY <1>5, <3>1, <4>1
    <3>2. CASE u # t
      <4>1. PICK i \in 1..Len(writers) : writers[i] = u
        BY <1>1, <1>2, <2>3, <3>2 DEF QueueInv, InQueue
      <4>2. i \in 1..Len(writers')
        BY <1>4, <1>5
      <4> QED
        BY <1>5, <4>1, <4>2
    <3> QED
      BY <3>1, <3>2
  <2>4. ASSUME NEW u \in Threads, call'[u].pc \in Leading
        PROVE  writers' # <<>> /\ writers'[1] = u
    <3>1. writers' # <<>>
      BY <1>4, <1>5, EmptySeq
    <3>2. CASE u = t
      BY <1>3, <1>5, <1>7, <2>4, <3>1, <3>2 DEF Leading, Applying
    <3>3. CASE u # t
      <4>1. writers # <<>> /\ writers[1] = u
        BY <1>1, <1>2, <2>4, <3>3 DEF QueueInv
      <4>2. 1 \in 1..Len(writers)
        BY <1>4, <1>7, <4>1
      <4> QED
        BY <1>5, <3>1, <4>1, <4>2
    <3> QED
      BY <3>2, <3>3
  <2> QED
    BY <2>1, <2>2, <2>3, <2>4 DEF QueueInv, InQueue
<1>9. GroupInv'
  <2>1. \A u \in Threads : call'[u].pc \in Applying => group # <<>>
    BY <1>1, <1>2, <1>3 DEF GroupInv, Applying
  <2>2. ASSUME group # <<>>
        PROVE  /\ Len(group) <= Len(writers')
               /\ \A i \in 1..Len(group) : group[i] = writers'[i]
               /\ call'[group[1]].pc \in Applying
               /\ \A i \in 1..Len(group) : call'[group[i]].sync => call'[group[1]].sync
    <3>1. /\ Len(group) <= Len(writers) /\ \A i \in 1..Len(group) : group[i] = writers[i]
          /\ call[group[1]].pc \in Applying
          /\ \A i \in 1..Len(group) : call[group[i]].sync => call[group[1]].sync
      BY <1>1, <2>2 DEF GroupInv
    <3>2. Len(group) \in Nat /\ Len(group) >= 1
      BY <1>4, <2>2, EmptySeq, LenProperties
    <3>3. \A i \in 1..Len(group) : i \in 1..Len(writers)
      BY <1>4, <3>1, <3>2
    <3>4. \A i \in 1..Len(group) : group[i] \in Threads /\ call'[group[i]] = call[group[i]]
      BY <1>2, <1>6, <3>1, <3>3
    <3>5. \A i \in 1..Len(group) : group[i] = writers'[i]
      BY <1>5, <3>1, <3>3
    <3>6. Len(group) <= Len(writers')
      BY <1>4, <1>5, <3>1, <3>2
    <3>7. call'[group[1]] = call[group[1]]
      BY <3>2, <3>4
    <3> QED
      BY <3>1, <3>4, <3>5, <3>6, <3>7
  <2> QED
    BY <1>2, <2>1, <2>2 DEF GroupInv
<1>10. OkInv'
  BY <1>1, <1>2, <1>3 DEF OkInv, InQueue
<1>11. ManualInv' /\ ImmInv'
  BY <1>1, <1>2 DEF ManualInv, ImmInv, TypeOK
<1> QED
  BY <1>8, <1>9, <1>10, <1>11

(* Where a thread with room finds itself.                                     *)
LEMMA AtRoom ==
    ASSUME ControlInv, NEW t \in Threads, call[t].pc = "room"
    PROVE  /\ group = <<>> /\ FromFront(<<t>>) /\ writers # <<>> /\ writers[1] = t
           /\ OnlyWoken(call)
<1>1. writers # <<>> /\ writers[1] = t /\ Len(writers) >= 1 /\ Len(writers) \in Nat
  BY AtHead DEF Leading
<1>2. group = <<>>
  <2> SUFFICES ASSUME group # <<>>
               PROVE  FALSE
    OBVIOUS
  <2>1. call[group[1]].pc \in Applying
    BY DEF ControlInv, GroupInv
  <2>2. group[1] = t
    BY AtHead DEF Leading
  <2> QED
    BY <2>1, <2>2 DEF Applying
<1>3. FromFront(<<t>>)
  BY <1>1, Single DEF FromFront, Leading
<1>4. OnlyWoken(call)
  BY DEF OnlyWoken, ControlInv, TypeOK
<1> QED
  BY <1>1, <1>2, <1>3, <1>4

(* A thread leaves the queue with an error, or with nothing to write.         *)
LEMMA FailControl ==
    ASSUME ControlInv, NEW t \in Threads, NEW ok \in BOOLEAN, call[t].pc = "room",
           PopWriters(call, <<t>>, ok), UNCHANGED <<group, data, manual>>
    PROVE  QueueInv' /\ GroupInv' /\ OkInv' /\ ManualInv' /\ ImmInv'
<1>1. group' = <<>> /\ FromFront(<<t>>) /\ OnlyWoken(call)
  BY AtRoom
<1>2. Departed(<<t>>, ok)
  BY <1>1, Leave
<1>3. QueueInv' /\ GroupInv' /\ OkInv' /\ ManualInv'
  BY <1>1, <1>2, LeaveControl
<1> QED
  BY <1>3 DEF ControlInv, ImmInv, data

(* A group commits.                                                           *)
LEMMA CommitLeaves ==
    ASSUME ControlInv, NEW t \in Threads, Commit(t)
    PROVE  FromFront(group) /\ Departed(group, call[t].ok) /\ call[t].ok \in BOOLEAN
           /\ group # <<>> /\ group[1] = t
<1>1. TypeOK /\ GroupInv
  BY DEF ControlInv
<1>2. call[t].pc \in {"commit", "syncerror"} /\ call[t].pc \in Applying /\ call[t].pc \in Leading
  BY DEF Commit, Applying, Leading
<1>3. group # <<>> /\ group[1] = t
  BY <1>1, <1>2, AtHead DEF GroupInv
<1>4. FromFront(group)
  BY <1>1, <1>2, <1>3 DEF FromFront, GroupInv, TypeOK
<1>5. call[t].ok \in BOOLEAN
  BY <1>1 DEF TypeOK, Call
<1>6. OnlyWoken(call) /\ OnlyWoken(RecordBackgroundError(call))
  BY <1>1, Signalled DEF OnlyWoken, TypeOK
<1>7. \/ PopWriters(call, group, call[t].ok)
      \/ PopWriters(RecordBackgroundError(call), group, call[t].ok)
  BY DEF Commit
<1>8. Departed(group, call[t].ok)
  BY <1>4, <1>5, <1>6, <1>7, Leave
<1> QED
  BY <1>3, <1>4, <1>5, <1>8

(* Steps keep the control invariant.                                          *)
LEMMA ControlStep == ControlInv /\ [Next]_vars => ControlInv'
<1> SUFFICES ASSUME ControlInv, [Next]_vars
             PROVE  QueueInv' /\ GroupInv' /\ OkInv' /\ ManualInv' /\ ImmInv'
  BY TypeStep DEF ControlInv
<1> USE DEF data
<1>1. TypeOK /\ QueueInv /\ GroupInv /\ OkInv /\ ManualInv /\ ImmInv
  BY DEF ControlInv
<1>2. call \in [Threads -> Call]
  BY <1>1 DEF TypeOK
<1>3. ASSUME QuietStep
      PROVE  QueueInv' /\ GroupInv' /\ OkInv' /\ ManualInv' /\ ImmInv'
  <2>1. \A t \in Threads : \/ SameCall(t)
                           \/ ~InQueue(t) /\ call'[t].pc \in {"idle", "manual", "flush"}
    BY <1>3, QuietCalls DEF InQueue, Leading, Applying
  <2> QED
    BY <1>3, <2>1, QuietCalls, ControlFrame
<1>4. ASSUME NEW t \in Threads, Write(t)
      PROVE  QueueInv' /\ GroupInv' /\ OkInv' /\ ManualInv' /\ ImmInv'
  BY <1>4, WriteControl
<1>5. ASSUME NEW t \in Threads, WriterWakes(t)
      PROVE  QueueInv' /\ GroupInv' /\ OkInv' /\ ManualInv' /\ ImmInv'
  <2>1. /\ UNCHANGED <<writers, group, manual, imm, hasImm>> /\ call[t].pc = "wait"
        /\ \A u \in Threads : u # t => call'[u] = call[u]
    BY <1>2, <1>5 DEF WriterWakes
  <2>2. ImmInv' /\ ManualInv'
    BY <1>1, <2>1 DEF ImmInv, ManualInv, TypeOK
  <2>3. CASE call[t].done
    <3>1. call'[t].pc \in {"idle", "flush"}
      <4>1. Returned(t, call[t].ok).pc \in {"idle", "flush"}
        BY DEF Returned, Idle
      <4>2. call' = [call EXCEPT ![t] = Returned(t, call[t].ok)]
        BY <1>5, <2>3 DEF WriterWakes
      <4> QED
        BY <1>2, <4>1, <4>2
    <3>2. ~InQueue(t)
      BY <2>1, <2>3 DEF InQueue, Leading, Applying
    <3>3. \A u \in Threads : \/ SameCall(u)
                             \/ ~InQueue(u) /\ call'[u].pc \in {"idle", "manual", "flush"}
      BY <2>1, <3>1, <3>2 DEF SameCall
    <3> QED
      BY <2>1, <2>2, <3>3, ControlFrame
  <2>4. CASE ~call[t].done
    <3>1. Head(writers) = t /\ call' = [call EXCEPT ![t].pc = "room"]
      BY <1>5, <2>4 DEF WriterWakes
    <3>2. /\ call'[t].pc = "room" /\ call'[t].sync = call[t].sync
          /\ call'[t].ok = call[t].ok /\ call'[t].done = call[t].done
      BY <1>2, <3>1 DEF Call
    <3>3. InQueue(t) /\ writers # <<>> /\ writers[1] = t
      <4>1. InQueue(t)
        BY <2>1, <2>4 DEF InQueue
      <4>2. writers # <<>>
        BY <1>1, <4>1, EmptySeq DEF QueueInv, TypeOK
      <4> QED
        BY <3>1, <4>1, <4>2
    <3>4. \A u \in Threads : /\ InQueue(u)' <=> InQueue(u)
                             /\ call'[u].pc \in Leading =>
                                  call[u].pc \in Leading \/ (writers # <<>> /\ writers[1] = u)
                             /\ call'[u].pc \in Applying <=> call[u].pc \in Applying
                             /\ InQueue(u) => call'[u].sync = call[u].sync
      BY <2>1, <2>4, <3>2, <3>3 DEF InQueue, Leading, Applying
    <3>5. QueueInv' /\ GroupInv'
      BY <2>1, <3>4, QueueFrame
    <3>6. OkInv'
      BY <1>1, <2>1, <3>2, <3>3 DEF OkInv, InQueue
    <3> QED
      BY <2>2, <3>5, <3>6
  <2> QED
    BY <2>3, <2>4
<1>6. ASSUME NEW t \in Threads, RoomError(t) \/ SwitchFails(t)
      PROVE  QueueInv' /\ GroupInv' /\ OkInv' /\ ManualInv' /\ ImmInv'
  <2>1. /\ call[t].pc = "room" /\ PopWriters(call, <<t>>, FALSE)
        /\ UNCHANGED <<group, data, manual>>
    BY <1>6 DEF RoomError, SwitchFails, CanSwitch, PastDelay, AtFront
  <2> QED
    BY <2>1, FailControl
<1>7. ASSUME NEW t \in Threads, RoomFound(t)
      PROVE  QueueInv' /\ GroupInv' /\ OkInv' /\ ManualInv' /\ ImmInv'
  <2>1. call[t].pc = "room" /\ UNCHANGED <<data, manual>>
    BY <1>7 DEF RoomFound, PastDelay, AtFront
  <2>2. CASE call[t].count = 0
    <3>1. PopWriters(call, <<t>>, TRUE) /\ UNCHANGED group
      BY <1>7, <2>2 DEF RoomFound
    <3> QED
      BY <2>1, <3>1, FailControl
  <2>3. CASE call[t].count # 0
    <3>1. /\ group' = BuildBatchGroup(t) /\ call' = [call EXCEPT ![t].pc = "log"]
          /\ UNCHANGED writers
      BY <1>7, <2>3 DEF RoomFound
    <3>2. writers # <<>> /\ writers[1] = t /\ group = <<>>
      BY <2>1, AtRoom
    <3>3. /\ group' \in Seq(Threads) /\ group' # <<>> /\ Len(group') <= Len(writers)
          /\ \A i \in 1..Len(group') : group'[i] = writers[i]
          /\ \A i \in 1..Len(group') : call[group'[i]].sync => call[group'[1]].sync
      BY <1>1, <3>1, <3>2, BatchGroup
    <3>4. \A u \in Threads : u # t => call'[u] = call[u]
      BY <1>2, <3>1
    <3>5. /\ call'[t].pc = "log" /\ call'[t].sync = call[t].sync
          /\ call'[t].ok = call[t].ok /\ call'[t].done = call[t].done
      BY <1>2, <3>1 DEF Call
    <3>6. \A u \in Threads : /\ InQueue(u)' <=> InQueue(u)
                             /\ call'[u].pc \in Leading <=> call[u].pc \in Leading
                             /\ call'[u].sync = call[u].sync /\ call'[u].ok = call[u].ok
      BY <2>1, <3>4, <3>5 DEF InQueue, Leading, Applying
    <3>7. QueueInv'
      <4>1. \A i \in 1..Len(writers) : writers[i] \in Threads
        BY <1>1 DEF TypeOK
      <4>2. \A i \in 1..Len(writers) : InQueue(writers[i])'
        BY <1>1, <3>1, <3>6, <4>1 DEF QueueInv
      <4> QED
        BY <1>1, <3>1, <3>6, <4>2 DEF QueueInv
    <3>8. GroupInv'
      <4>1. Len(group') \in Nat /\ Len(group') >= 1
        BY <3>3, EmptySeq, LenProperties
      <4>2. \A i \in 1..Len(group') : group'[i] \in Threads
        BY <3>3
      <4>3. group'[1] = t /\ \A i \in 1..Len(group') : call'[group'[i]].sync => call'[group'[1]].sync
        BY <3>2, <3>3, <3>6, <4>1, <4>2
      <4> QED
        BY <3>1, <3>3, <3>5, <4>3 DEF GroupInv, Applying
    <3>9. OkInv'
      <4>1. \A u \in Threads : /\ call'[u].pc = "syncerror" => call[u].pc = "syncerror"
                               /\ InQueue(u)' /\ call'[u].pc \notin {"commit", "syncerror"} =>
                                    InQueue(u) /\ call[u].pc \notin {"commit", "syncerror"}
        BY <2>1, <3>4, <3>5, <3>6
      <4> QED
        BY <1>1, <3>6, <4>1 DEF OkInv
    <3>10. ManualInv' /\ ImmInv'
      BY <1>1, <2>1, <3>4 DEF ManualInv, ImmInv, TypeOK
    <3> QED
      BY <3>7, <3>8, <3>9, <3>10
  <2> QED
    BY <2>2, <2>3
<1>8. ASSUME NEW t \in Threads, AddRecord(t) \/ SyncLog(t) \/ InsertInto(t)
      PROVE  QueueInv' /\ GroupInv' /\ OkInv' /\ ManualInv' /\ ImmInv'
  <2>1. /\ call[t].pc \in {"log", "sync", "insert"}
        /\ UNCHANGED <<writers, group, manual, imm, hasImm>>
        /\ \/ \E p \in {"sync", "insert", "commit"} : call' = [call EXCEPT ![t].pc = p]
           \/ \E p \in {"commit", "syncerror"} : call' = [call EXCEPT ![t].pc = p, ![t].ok = FALSE]
    BY <1>8 DEF AddRecord, SyncLog, InsertInto
  <2>2. call[t].ok
    BY <1>1, <2>1 DEF OkInv, InQueue, Leading, Applying
  <2>3. \A u \in Threads : u # t => call'[u] = call[u]
    BY <1>2, <2>1
  <2>4. /\ call'[t].pc \in Applying /\ call[t].pc \in Applying /\ call'[t].sync = call[t].sync
        /\ call'[t].ok \/ call'[t].pc = "commit" \/ (call'[t].pc = "syncerror" /\ ~call'[t].ok)
        /\ call'[t].pc = "syncerror" => ~call'[t].ok
    BY <1>2, <2>1, <2>2 DEF Call, Applying
  <2>5. QueueInv' /\ GroupInv' /\ OkInv' /\ ManualInv'
    BY <2>1, <2>3, <2>4, LeaderMoves
  <2> QED
    BY <1>1, <2>1, <2>5 DEF ImmInv
<1>9. ASSUME NEW t \in Threads, Commit(t)
      PROVE  QueueInv' /\ GroupInv' /\ OkInv' /\ ManualInv' /\ ImmInv'
  <2>1. group' = <<>> /\ UNCHANGED <<manual, imm, hasImm>>
    BY <1>9 DEF Commit
  <2>2. QueueInv' /\ GroupInv' /\ OkInv' /\ ManualInv'
    BY <1>9, <2>1, CommitLeaves, LeaveControl
  <2> QED
    BY <1>1, <2>1, <2>2 DEF ImmInv
<1> QED
  BY <1>3, <1>4, <1>5, <1>6, <1>7, <1>8, <1>9 DEF Next, WriterStep, QuietStep

-----------------------------------------------------------------------------
(* The data invariant is inductive.                                           *)

(* The entries of the group stay the same while its writers wait.             *)
LEMMA GroupFrame ==
    ASSUME ControlInv, UNCHANGED <<group, lastSeq>>,
           \A i \in 1..Len(group) : /\ call'[group[i]].count = call[group[i]].count
                                    /\ calls'[group[i]] = calls[group[i]]
    PROVE  GroupEntries' = GroupEntries
<1>1. Len(group) \in Nat
  BY LenProperties DEF ControlInv, TypeOK
<1>2. \A n \in 0..Len(group) : Updates(group, n)' = Updates(group, n)
  <2> SUFFICES ASSUME NEW n \in 0..Len(group)
               PROVE  Updates(group, n)' = Updates(group, n)
    OBVIOUS
  <2>1. \A u \in (1..n) \X (1..MaxUpdates) : u[1] \in 1..Len(group)
    BY <1>1
  <2>2. \A u \in (1..n) \X (1..MaxUpdates) :
          call'[group[u[1]]].count = call[group[u[1]]].count
    BY <2>1
  <2> QED
    BY <2>2 DEF Updates
<1>3. \A u \in Updates(group, Len(group)) : u[1] \in 1..Len(group)
  BY <1>1 DEF Updates
<1>4. \A u \in Updates(group, Len(group)) : u[1] - 1 \in 0..Len(group)
  BY <1>1, <1>3
<1>5. Updates(group, Len(group))' = Updates(group, Len(group))
  BY <1>1, <1>2
<1> DEFINE Mine(u) == <<lastSeq + Cardinality(Updates(group, u[1] - 1)) + u[2],
                        Batch(group[u[1]], calls[group[u[1]]])>>
<1>6. \A u \in Updates(group, Len(group)) : Mine(u)' = Mine(u)
  <2> SUFFICES ASSUME NEW u \in Updates(group, Len(group))
               PROVE  Mine(u)' = Mine(u)
    OBVIOUS
  <2>1. Updates(group, u[1] - 1)' = Updates(group, u[1] - 1)
    BY <1>2, <1>4
  <2>2. calls'[group[u[1]]] = calls[group[u[1]]]
    BY <1>3
  <2> QED
    BY <2>1, <2>2 DEF Batch
<1>7. GroupEntries' = {Mine(u)' : u \in Updates(group, Len(group))'}
  BY DEF GroupEntries
<1>8. GroupEntries = {Mine(u) : u \in Updates(group, Len(group))}
  BY DEF GroupEntries
<1> HIDE DEF Mine
<1> QED
  BY <1>5, <1>6, <1>7, <1>8

(* Kept, in the next state.                                                   *)
KeptNext(b, answer) ==
    /\ Cardinality({e \in Stored' : e[2] = b}) = IF answer.ok THEN answer.count ELSE 0
    /\ \A e \in Stored' : e[2] = b => /\ e[1] <= lastSeq'
                                      /\ answer.ok /\ answer.sync => Durable(e)'

(* An answer stays true while nothing of its batch is added or taken away.    *)
LEMMA KeptFrame ==
    ASSUME ControlInv, lastSeq' \in Nat, lastSeq <= lastSeq',
           NEW b, NEW answer, NEW new, new.ok = answer.ok, new.count = answer.count,
           new.sync = answer.sync, Kept(b, answer),
           \A e : e[2] = b => (e \in Stored' <=> e \in Stored),
           \A e \in Stored : Durable(e) => Durable(e)'
    PROVE  KeptNext(b, new)
<1>1. {e \in Stored' : e[2] = b} = {e \in Stored : e[2] = b}
  OBVIOUS
<1>2. \A e \in Stored : e[1] \in Nat
  BY DEF ControlInv, TypeOK, Stored, Entry
<1>3. lastSeq \in Nat
  BY DEF ControlInv, TypeOK
<1>4. ASSUME NEW e \in Stored', e[2] = b
      PROVE  /\ e[1] <= lastSeq'
             /\ new.ok /\ new.sync => Durable(e)'
  <2>1. e \in Stored
    BY <1>4
  <2>2. e[1] <= lastSeq /\ (answer.ok /\ answer.sync => Durable(e))
    BY <1>4, <2>1 DEF Kept
  <2> QED
    BY <1>2, <1>3, <2>1, <2>2
<1>5. Cardinality({e \in Stored' : e[2] = b}) = IF new.ok THEN new.count ELSE 0
  BY <1>1 DEF Kept
<1> QED
  BY <1>4, <1>5 DEF KeptNext

(* What a step does to a thread that it gives no answer.                      *)
Moves(t) ==
    /\ calls'[t] \in Nat /\ calls[t] <= calls'[t]
    /\ InQueue(t)' => (InQueue(t) /\ calls'[t] = calls[t]) \/ calls[t] < calls'[t]
    /\ ~Outside(t)' => ~Outside(t) \/ calls[t] < calls'[t]

(* It was told before the step, if it is told after it.                       *)
ToldBefore(t) ==
    call'[t].pc = "wait" /\ call'[t].done =>
      /\ call[t].pc = "wait" /\ call[t].done /\ calls'[t] = calls[t]
      /\ call'[t].ok = call[t].ok /\ call'[t].count = call[t].count
      /\ call'[t].sync = call[t].sync

(* The answers given stay true; those that a step adds are to be checked.     *)
LEMMA AnswersFrame ==
    ASSUME ControlInv, ControlInv', AckedInv, DoneInv, lastSeq <= lastSeq',
           Stored \subseteq Stored',
           \A e \in Stored' : e \in Stored \/ \E t \in Threads : InQueue(t) /\ e[2] = Batch(t, calls[t]),
           \A e \in Stored : Durable(e) => Durable(e)',
           \A t \in Threads : Moves(t),
           \A a \in acked' : a \in acked \/ \E t \in Threads : /\ a.batch = Batch(t, calls'[t])
                                                               /\ Outside(t)'
                                                               /\ KeptNext(a.batch, a),
           \A t \in Threads : call'[t].pc = "wait" /\ call'[t].done =>
                                ToldBefore(t) \/ KeptNext(Batch(t, calls'[t]), call'[t])
    PROVE  AckedInv' /\ DoneInv'
<1>1. lastSeq' \in Nat
  BY DEF ControlInv, TypeOK
<1>2. \A t \in Threads : calls[t] \in Nat /\ calls'[t] \in Nat
  BY DEF ControlInv, TypeOK
<1>3. ASSUME NEW a \in acked'
      PROVE  /\ a.batch[2] <= calls'[a.batch[1]]
             /\ ~Outside(a.batch[1])' => a.batch[2] < calls'[a.batch[1]]
             /\ KeptNext(a.batch, a)
  <2>1. CASE a \in acked
    <3>1. a.batch[1] \in Threads /\ a.batch[2] \in Nat /\ a.batch = <<a.batch[1], a.batch[2]>>
      <4>1. a \in [batch : Threads \X Nat, ok : BOOLEAN, count : 0..MaxUpdates, sync : BOOLEAN]
        BY <2>1 DEF ControlInv, TypeOK
      <4>2. a.batch \in Threads \X Nat
        BY <4>1
      <4> QED
        BY <4>2
    <3>2. /\ a.batch[2] <= calls[a.batch[1]]
          /\ ~Outside(a.batch[1]) => a.batch[2] < calls[a.batch[1]]
          /\ Kept(a.batch, a)
      BY <2>1 DEF AckedInv
    <3>3. Moves(a.batch[1])
      BY <3>1
    <3>4. /\ a.batch[2] <= calls'[a.batch[1]]
          /\ ~Outside(a.batch[1])' => a.batch[2] < calls'[a.batch[1]]
      BY <1>2, <3>1, <3>2, <3>3 DEF Moves
    <3>5. \A t \in Threads : InQueue(t) => ~Outside(t)
      BY DEF InQueue, Outside, Leading, Applying
    <3>6. \A t \in Threads : InQueue(t) => a.batch # Batch(t, calls[t])
      BY <1>2, <3>1, <3>2, <3>5 DEF Batch
    <3>7. \A e : e[2] = a.batch => (e \in Stored' <=> e \in Stored)
      BY <3>6
    <3>8. KeptNext(a.batch, a)
      BY <1>1, <3>2, <3>7, KeptFrame
    <3> QED
      BY <3>4, <3>8
  <2>2. CASE \E t \in Threads : a.batch = Batch(t, calls'[t]) /\ Outside(t)' /\ KeptNext(a.batch, a)
    <3>1. PICK t \in Threads : a.batch = <<t, calls'[t]>> /\ Outside(t)' /\ KeptNext(a.batch, a)
      BY <2>2 DEF Batch
    <3>2. a.batch[1] = t /\ a.batch[2] = calls'[t] /\ Outside(a.batch[1])'
      BY <3>1
    <3> QED
      BY <1>2, <3>1, <3>2
  <2> QED
    BY <2>1, <2>2
<1>4. ASSUME NEW t \in Threads, call'[t].pc = "wait", call'[t].done
      PROVE  KeptNext(Batch(t, calls'[t]), call'[t])
  <2>1. CASE ToldBefore(t)
    <3>1. /\ call[t].pc = "wait" /\ call[t].done /\ calls'[t] = calls[t]
          /\ call'[t].ok = call[t].ok /\ call'[t].count = call[t].count
          /\ call'[t].sync = call[t].sync
      BY <1>4, <2>1 DEF ToldBefore
    <3>2. Kept(Batch(t, calls[t]), call[t])
      BY <3>1 DEF DoneInv
    <3>3. ~InQueue(t)
      BY <3>1 DEF InQueue, Leading, Applying
    <3>4. \A u \in Threads : InQueue(u) => Batch(u, calls[u]) # Batch(t, calls[t])
      BY <3>3 DEF Batch
    <3>5. \A e : e[2] = Batch(t, calls[t]) => (e \in Stored' <=> e \in Stored)
      BY <3>4
    <3>6. KeptNext(Batch(t, calls[t]), call'[t])
      BY <1>1, <3>1, <3>2, <3>5, KeptFrame
    <3> QED
      BY <3>1, <3>6
  <2> QED
    BY <1>4, <2>1
<1>5. AckedInv'
  BY <1>3 DEF AckedInv, Kept, KeptNext
<1>6. DoneInv'
  BY <1>4 DEF DoneInv, Kept, KeptNext
<1> QED
  BY <1>5, <1>6

(* A step that puts nothing new anywhere, as far as numbers are concerned.    *)
LEMMA NumbersFrame ==
    ASSUME NumbersInv, UNCHANGED lastSeq, All' \subseteq All,
           \A e \in All : e[2][1] \in Threads,
           \A t \in Threads : calls'[t] \in Nat /\ calls[t] \in Nat /\ calls[t] <= calls'[t],
           \A e \in All : e[2][2] \in Nat,
           group # <<>> => /\ UNCHANGED group /\ GroupEntries' = GroupEntries
                           /\ call[group[1]].pc # "log" => call'[group[1]].pc # "log"
    PROVE  NumbersInv'
<1> SUFFICES ASSUME NEW e \in All'
             PROVE  /\ e[2][2] <= calls'[e[2][1]]
                    /\ \/ e[1] <= lastSeq'
                       \/ /\ group' # <<>> /\ call'[group'[1]].pc # "log"
                          /\ e \in GroupEntries'
  BY DEF NumbersInv
<1>1. e \in All /\ e[2][1] \in Threads /\ e[2][2] \in Nat
  OBVIOUS
<1>2. /\ e[2][2] <= calls[e[2][1]]
      /\ e[1] <= lastSeq \/ (group # <<>> /\ call[group[1]].pc # "log" /\ e \in GroupEntries)
  BY <1>1 DEF NumbersInv
<1>3. e[2][2] <= calls'[e[2][1]]
  BY <1>1, <1>2
<1> QED
  BY <1>2, <1>3

(* The entries kept anywhere have numbers and batches.                        *)
LEMMA AllEntries ==
    ASSUME TypeOK
    PROVE  /\ All \subseteq Entry /\ Stored \subseteq All
           /\ \A e \in All : e[1] \in Nat /\ e[2][1] \in Threads /\ e[2][2] \in Nat
<1>1. \A r \in ToSet(log) \union ToSet(oldLog) : r.entries \subseteq Entry
  <2>1. /\ \A r \in ToSet(log) : \E i \in 1..Len(log) : r = log[i]
        /\ \A r \in ToSet(oldLog) : \E i \in 1..Len(oldLog) : r = oldLog[i]
    BY DEF ToSet, TypeOK
  <2>2. /\ \A i \in 1..Len(log) : log[i] \in LogRecord
        /\ \A i \in 1..Len(oldLog) : oldLog[i] \in LogRecord
    BY DEF TypeOK
  <2>3. \A r \in ToSet(log) \union ToSet(oldLog) : r \in LogRecord
    BY <2>1, <2>2
  <2> QED
    BY <2>3 DEF LogRecord
<1>2. LogEntries(log) \subseteq Entry /\ LogEntries(oldLog) \subseteq Entry
  BY <1>1 DEF LogEntries
<1>3. All \subseteq Entry /\ Stored \subseteq All
  BY <1>2 DEF All, Stored, TypeOK
<1>4. \A e \in Entry : e[1] \in Nat /\ e[2][1] \in Threads /\ e[2][2] \in Nat
  BY DEF Entry
<1> QED
  BY <1>3, <1>4

(* A step that stores nothing leaves the batches in the queue unstored.       *)
LEMMA FreshFrame ==
    ASSUME ControlInv, NumbersInv, FreshInv, Stored' \subseteq Stored,
           \A t \in Threads : Moves(t),
           group # <<>> /\ call[group[1]].pc = "commit" /\ call[group[1]].ok =>
             /\ UNCHANGED group /\ GroupEntries' = GroupEntries
             /\ call'[group[1]].pc = "commit" /\ call'[group[1]].ok
    PROVE  FreshInv'
<1> SUFFICES ASSUME NEW e \in Stored', NEW t \in Threads, InQueue(t)', e[2] = Batch(t, calls'[t])
             PROVE  /\ group' # <<>> /\ call'[group'[1]].pc = "commit" /\ call'[group'[1]].ok
                    /\ e \in GroupEntries'
  BY DEF FreshInv
<1>1. e \in Stored /\ e \in All /\ calls[t] \in Nat /\ Moves(t)
  BY AllEntries DEF ControlInv, TypeOK
<1>2. e[2][1] = t /\ e[2][2] = calls'[t] /\ e[2][2] <= calls[e[2][1]]
  BY <1>1 DEF Batch, NumbersInv
<1>3. InQueue(t) /\ calls'[t] = calls[t]
  BY <1>1, <1>2 DEF Moves
<1>4. /\ group # <<>> /\ call[group[1]].pc = "commit" /\ call[group[1]].ok
      /\ e \in GroupEntries
  BY <1>1, <1>3 DEF FreshInv
<1> QED
  BY <1>4

(* No number is used twice while nothing is added.                            *)
LEMMA UniqueFrame ==
    ASSUME SequencesUnique, All' \subseteq All
    PROVE  SequencesUnique'
BY DEF SequencesUnique, All

(* The group that is being applied, if there is one, goes on unchanged.       *)
GroupStays ==
    /\ UNCHANGED <<group, lastSeq>>
    /\ \A i \in 1..Len(group) : /\ call'[group[i]].count = call[group[i]].count
                                /\ calls'[group[i]] = calls[group[i]]
    /\ group # <<>> => /\ UNCHANGED <<mem, log>>
                       /\ call'[group[1]].pc = call[group[1]].pc
                       /\ call'[group[1]].ok = call[group[1]].ok
                       /\ call'[group[1]].sync = call[group[1]].sync

(* Steps that move entries at most, and answer at most those who wait.        *)
LEMMA DataFrame ==
    ASSUME ControlInv, ControlInv', DataInv, GroupStays, Stored' = Stored, All' \subseteq All,
           WriteAhead', \A e \in Stored : Durable(e) => Durable(e)',
           \A t \in Threads : Moves(t) /\ ToldBefore(t),
           \A a \in acked' : a \in acked \/ \E t \in Threads : /\ a.batch = Batch(t, calls'[t])
                                                               /\ Outside(t)'
                                                               /\ KeptNext(a.batch, a)
    PROVE  DataInv'
<1>1. /\ NumbersInv /\ SequencesUnique /\ FreshInv /\ LeaderInv /\ AckedInv /\ DoneInv
      /\ UNCHANGED <<group, lastSeq>>
  BY DEF DataInv, GroupStays
<1>2. GroupEntries' = GroupEntries
  BY GroupFrame DEF GroupStays
<1>3. /\ \A e \in All : e[2][1] \in Threads /\ e[2][2] \in Nat
      /\ \A t \in Threads : calls'[t] \in Nat /\ calls[t] \in Nat /\ calls[t] <= calls'[t]
  BY AllEntries DEF ControlInv, TypeOK, Moves
<1>4. group # <<>> => /\ call'[group[1]].pc = call[group[1]].pc
                      /\ call'[group[1]].ok = call[group[1]].ok
                      /\ call'[group[1]].sync = call[group[1]].sync
                      /\ UNCHANGED <<mem, log>>
  BY DEF GroupStays
<1>5. NumbersInv'
  BY <1>1, <1>2, <1>3, <1>4, NumbersFrame
<1>6. SequencesUnique'
  BY <1>1, UniqueFrame
<1>7. FreshInv'
  BY <1>1, <1>2, <1>4, FreshFrame
<1>8. LeaderInv'
  BY <1>1, <1>2, <1>4 DEF LeaderInv
<1>9. AckedInv' /\ DoneInv'
  <2>1. lastSeq <= lastSeq'
    BY <1>1 DEF ControlInv, TypeOK
  <2> QED
    BY <1>1, <2>1, AnswersFrame
<1> QED
  BY <1>5, <1>6, <1>7, <1>8, <1>9 DEF DataInv

(* The writers of the group are in the queue, each once.                      *)
LEMMA GroupInQueue ==
    ASSUME ControlInv
    PROVE  /\ Len(group) \in Nat
           /\ \A i \in 1..Len(group) : group[i] \in Threads /\ InQueue(group[i])
           /\ \A i, j \in 1..Len(group) : group[i] = group[j] => i = j
<1>1. TypeOK /\ QueueInv /\ GroupInv
  BY DEF ControlInv
<1>2. Len(group) \in Nat /\ Len(writers) \in Nat /\ (group = <<>> => Len(group) = 0)
  BY <1>1, LenProperties, EmptySeq DEF TypeOK
<1>3. \A i \in 1..Len(group) : i \in 1..Len(writers) /\ group[i] = writers[i]
  <2>1. group # <<>> => Len(group) <= Len(writers)
    BY <1>1 DEF GroupInv
  <2>2. \A i \in 1..Len(group) : group # <<>> /\ i \in 1..Len(writers)
    BY <1>2, <2>1
  <2> QED
    BY <1>1, <2>2 DEF GroupInv
<1>4. \A i \in 1..Len(group) : group[i] \in Threads
  BY <1>1 DEF TypeOK
<1>5. \A i \in 1..Len(group) : InQueue(group[i])
  BY <1>1, <1>3 DEF QueueInv
<1>6. \A i, j \in 1..Len(group) : group[i] = group[j] => i = j
  BY <1>1, <1>3 DEF QueueInv
<1> QED
  BY <1>2, <1>4, <1>5, <1>6

(* What quiet steps do to the entries: a memtable becomes imm_ with its log,  *)
(* or imm_ becomes a table.                                                   *)
LEMMA QuietStored ==
    ASSUME ControlInv, WriteAhead, QuietStep
    PROVE  /\ Stored' = Stored /\ All' \subseteq All /\ WriteAhead'
           /\ \A e \in Stored : Durable(e) => Durable(e)'
           /\ group # <<>> => UNCHANGED <<mem, log>>
<1> DEFINE Same == UNCHANGED <<mem, imm, hasImm, tables, log, oldLog>>
           Switched == /\ group = <<>> /\ imm = {} /\ mem' = {} /\ imm' = mem /\ log' = <<>>
                       /\ oldLog' = log /\ UNCHANGED tables
           Compacted == /\ tables' = tables \union imm /\ imm' = {} /\ ~hasImm' /\ oldLog' = <<>>
                        /\ UNCHANGED <<mem, log>>
<1>1. Same \/ Switched \/ Compacted
  <2>1. ASSUME NEW t \in Threads, SwitchMemTable(t)
        PROVE  Switched
    <3>1. call[t].pc = "room" /\ ~hasImm
      BY <2>1 DEF SwitchMemTable, CanSwitch, PastDelay, AtFront
    <3>2. group = <<>> /\ imm = {}
      BY <3>1, AtRoom DEF ControlInv, ImmInv
    <3> QED
      BY <2>1, <3>2 DEF SwitchMemTable
  <2>2. ASSUME CompactMemTable
        PROVE  Same \/ Compacted
    BY <2>2 DEF CompactMemTable
  <2>3. ASSUME NEW t \in Threads, \/ CompactRange(t) \/ CompactRangeTurn(t) \/ FlushTurn(t)
                                  \/ RoomDelay(t) \/ RoomWait(t) \/ RoomWakes(t)
        PROVE  Same
    BY <2>3 DEF CompactRange, CompactRangeTurn, FlushTurn, RoomDelay, RoomWait, RoomWakes, data
  <2>4. ASSUME \/ BackgroundCall \/ CompactFiles \/ CompactFilesTraps \/ BackgroundDone
               \/ Close \/ CloseEnds \/ UNCHANGED vars
        PROVE  Same
    BY <2>4 DEF BackgroundCall, CompactFiles, CompactFilesTraps, BackgroundDone, Close,
                CloseEnds, vars, data
  <2> QED
    BY <2>1, <2>2, <2>3, <2>4 DEF QuietStep, Background
<1>2. LogEntries(<<>>) = {} /\ ToSet(<<>>) = {}
  BY DEF LogEntries, ToSet
<1>3. CASE Same
  BY <1>3 DEF Stored, All, WriteAhead, Durable, LogEntries
<1>4. CASE Switched
  <2>1. /\ Stored' = Stored /\ All' \subseteq All /\ group = <<>>
    BY <1>2, <1>4 DEF Stored, All, LogEntries
  <2>2. WriteAhead'
    BY <1>4 DEF WriteAhead, LogEntries
  <2>3. \A e \in Stored : Durable(e) => Durable(e)'
    BY <1>4 DEF Stored, Durable
  <2> QED
    BY <2>1, <2>2, <2>3
<1>5. CASE Compacted
  <2>1. /\ Stored' = Stored /\ All' \subseteq All /\ UNCHANGED <<mem, log>>
    BY <1>2, <1>5 DEF Stored, All, LogEntries
  <2>2. WriteAhead'
    BY <1>5 DEF WriteAhead, LogEntries
  <2>3. \A e \in Stored : Durable(e) => Durable(e)'
    BY <1>5 DEF Stored, Durable
  <2> QED
    BY <2>1, <2>2, <2>3
<1> QED
  BY <1>1, <1>3, <1>4, <1>5

(* Background work keeps every answer.                                        *)
LEMMA QuietData ==
    ASSUME ControlInv, ControlInv', DataInv, QuietStep
    PROVE  DataInv'
<1>1. /\ UNCHANGED <<writers, group, acked, lastSeq>>
      /\ \A t \in Threads :
           \/ SameCall(t) /\ calls'[t] = calls[t]
           \/ /\ call[t].pc \in {"idle", "manual", "flush"}
              /\ call'[t].pc \in {"idle", "manual", "flush"}
              /\ calls'[t] \in {calls[t], calls[t] + 1}
  BY QuietCalls
<1>2. /\ Stored' = Stored /\ All' \subseteq All /\ WriteAhead'
      /\ \A e \in Stored : Durable(e) => Durable(e)'
      /\ group # <<>> => UNCHANGED <<mem, log>>
  BY QuietStored DEF DataInv
<1>3. \A t \in Threads : calls[t] \in Nat /\ calls'[t] \in Nat
  BY DEF ControlInv, TypeOK
<1>4. \A t \in Threads : Moves(t) /\ ToldBefore(t)
  <2> SUFFICES ASSUME NEW t \in Threads
               PROVE  Moves(t) /\ ToldBefore(t)
    OBVIOUS
  <2>1. CASE SameCall(t) /\ calls'[t] = calls[t]
    <3>1. /\ InQueue(t)' <=> InQueue(t)
          /\ Outside(t)' <=> Outside(t)
      BY <2>1 DEF SameCall, InQueue, Outside, Leading
    <3> QED
      BY <1>3, <2>1, <3>1 DEF Moves, ToldBefore, SameCall
  <2>2. CASE /\ call[t].pc \in {"idle", "manual", "flush"}
             /\ call'[t].pc \in {"idle", "manual", "flush"}
             /\ calls'[t] \in {calls[t], calls[t] + 1}
    <3>1. Outside(t)' /\ ~InQueue(t)' /\ call'[t].pc # "wait"
      BY <2>2 DEF Outside, InQueue, Leading, Applying
    <3>2. calls'[t] \in Nat /\ calls[t] <= calls'[t]
      BY <1>3, <2>2
    <3> QED
      BY <3>1, <3>2 DEF Moves, ToldBefore
  <2> QED
    BY <1>1, <2>1, <2>2
<1>5. GroupStays
  <2>1. \A i \in 1..Len(group) : /\ group[i] \in Threads /\ InQueue(group[i])
                                 /\ SameCall(group[i]) /\ calls'[group[i]] = calls[group[i]]
    <3>1. \A i \in 1..Len(group) : group[i] \in Threads /\ InQueue(group[i])
      BY GroupInQueue
    <3>2. \A t \in Threads : InQueue(t) => SameCall(t) /\ calls'[t] = calls[t]
      BY <1>1 DEF InQueue, Leading, Applying
    <3> QED
      BY <3>1, <3>2
  <2>2. group # <<>> => 1 \in 1..Len(group) /\ call[group[1]].pc \in Applying
    BY EmptySeq, LenProperties DEF ControlInv, TypeOK, GroupInv
  <2>3. group # <<>> => call'[group[1]].pc = call[group[1]].pc
    BY <2>1, <2>2 DEF SameCall, Applying
  <2> QED
    BY <1>1, <1>2, <2>1, <2>2, <2>3 DEF GroupStays, SameCall
<1>6. \A a \in acked' : a \in acked
  BY <1>1
<1> QED
  BY <1>2, <1>4, <1>5, <1>6, DataFrame

(* No entry is touched.                                                       *)
LEMMA SameData ==
    ASSUME UNCHANGED data, WriteAhead
    PROVE  /\ Stored' = Stored /\ All' \subseteq All /\ WriteAhead' /\ UNCHANGED <<lastSeq, mem, log>>
           /\ \A e \in Stored : Durable(e) => Durable(e)'
BY DEF data, Stored, All, WriteAhead, Durable, LogEntries

(* The rest of the calls in such a step.                                      *)
LEMMA SameMoves ==
    ASSUME ControlInv, ControlInv', NEW t \in Threads, SameCall(t), calls'[t] = calls[t]
    PROVE  Moves(t) /\ ToldBefore(t)
<1>1. /\ InQueue(t)' <=> InQueue(t)
      /\ Outside(t)' <=> Outside(t)
  BY DEF SameCall, InQueue, Outside, Leading
<1>2. calls[t] \in Nat
  BY DEF ControlInv, TypeOK
<1> QED
  BY <1>1, <1>2 DEF Moves, ToldBefore, SameCall

(* A thread calls Write, and nothing is answered.                             *)
LEMMA WriteData ==
    ASSUME ControlInv, ControlInv', DataInv, NEW t \in Threads, Write(t)
    PROVE  DataInv'
<1>1. /\ call[t].pc = "idle" /\ UNCHANGED <<group, data, acked>>
      /\ \A u \in Threads : u # t => call'[u] = call[u] /\ calls'[u] = calls[u]
      /\ calls'[t] = calls[t] + 1 /\ calls[t] \in Nat
  BY DEF Write, ControlInv, TypeOK
<1>2. ~call'[t].done
  BY DEF Write, ControlInv, TypeOK, Idle
<1>3. /\ Stored' = Stored /\ All' \subseteq All /\ WriteAhead' /\ UNCHANGED <<lastSeq, mem, log>>
      /\ \A e \in Stored : Durable(e) => Durable(e)'
  BY <1>1, SameData DEF DataInv
<1>4. \A u \in Threads : Moves(u) /\ ToldBefore(u)
  <2>1. \A u \in Threads : u # t => Moves(u) /\ ToldBefore(u)
    BY <1>1, SameMoves DEF SameCall
  <2>2. Moves(t) /\ ToldBefore(t)
    BY <1>1, <1>2 DEF Moves, ToldBefore
  <2> QED
    BY <2>1, <2>2
<1>5. GroupStays
  <2>1. \A i \in 1..Len(group) : group[i] \in Threads /\ group[i] # t
    BY <1>1, GroupInQueue DEF InQueue, Leading, Applying
  <2>2. group # <<>> => 1 \in 1..Len(group)
    BY EmptySeq, LenProperties DEF ControlInv, TypeOK
  <2> QED
    BY <1>1, <1>3, <2>1, <2>2 DEF GroupStays
<1> QED
  BY <1>1, <1>3, <1>4, <1>5, DataFrame

(* A woken writer returns what it was told, or finds itself at the front.     *)
LEMMA WakesData ==
    ASSUME ControlInv, ControlInv', DataInv, NEW t \in Threads, WriterWakes(t)
    PROVE  DataInv'
<1>1. /\ call[t].pc = "wait" /\ UNCHANGED <<writers, calls, group, data>>
      /\ \A u \in Threads : u # t => call'[u] = call[u]
      /\ call[t] \in Call /\ calls[t] \in Nat
  BY DEF WriterWakes, ControlInv, TypeOK
<1>2. /\ Stored' = Stored /\ All' \subseteq All /\ WriteAhead' /\ UNCHANGED <<lastSeq, mem, log>>
      /\ \A e \in Stored : Durable(e) => Durable(e)'
  BY <1>1, SameData DEF DataInv
<1>3. \A u \in Threads : u # t => Moves(u) /\ ToldBefore(u)
  BY <1>1, SameMoves DEF SameCall
<1>4. group # <<>> => group[1] # t /\ group[1] \in Threads
  <2>1. group # <<>> => call[group[1]].pc \in Applying /\ 1 \in 1..Len(group)
    BY EmptySeq, LenProperties DEF ControlInv, GroupInv, TypeOK
  <2> QED
    BY <1>1, <2>1, GroupInQueue DEF Applying
<1>5. CASE call[t].done
  <2>1. call'[t] = Returned(t, call[t].ok) /\ Ack(t, call[t].ok)
    BY <1>5 DEF WriterWakes, ControlInv, TypeOK
  <2>2. call'[t].pc \in {"idle", "flush"}
    BY <2>1 DEF Returned, Idle
  <2>3. Outside(t)' /\ ~InQueue(t)' /\ call'[t].pc # "wait"
    BY <2>2 DEF Outside, InQueue, Leading, Applying
  <2>4. Moves(t) /\ ToldBefore(t)
    BY <1>1, <2>3 DEF Moves, ToldBefore
  <2>5. GroupStays
    <3>1. \A i \in 1..Len(group) : group[i] \in Threads /\ group[i] # t
      BY <1>1, <1>5, GroupInQueue DEF InQueue, Leading, Applying
    <3> QED
      BY <1>1, <1>2, <1>4, <3>1 DEF GroupStays
  <2>6. ASSUME NEW a \in acked'
        PROVE  a \in acked \/ \E u \in Threads : /\ a.batch = Batch(u, calls'[u])
                                                 /\ Outside(u)'
                                                 /\ KeptNext(a.batch, a)
    <3>1. CASE a \in acked
      BY <3>1
    <3>2. CASE a = [batch |-> Batch(t, calls[t]), ok |-> call[t].ok,
                    count |-> call[t].count, sync |-> call[t].sync]
      <4>1. Kept(Batch(t, calls[t]), call[t])
        BY <1>1, <1>5 DEF DataInv, DoneInv
      <4>2. /\ a.batch = Batch(t, calls[t]) /\ a.ok = call[t].ok
            /\ a.count = call[t].count /\ a.sync = call[t].sync
        BY <3>2
      <4>3. lastSeq \in Nat /\ lastSeq <= lastSeq'
        BY <1>2 DEF ControlInv, TypeOK
      <4>4. KeptNext(Batch(t, calls[t]), a)
        BY <1>2, <4>1, <4>2, <4>3, KeptFrame
      <4> QED
        BY <1>1, <2>3, <4>2, <4>4
    <3> QED
      BY <2>1, <3>1, <3>2 DEF Ack
  <2> QED
    BY <1>2, <1>3, <2>4, <2>5, <2>6, DataFrame
<1>6. CASE ~call[t].done
  <2>1. /\ UNCHANGED acked /\ call'[t].pc = "room" /\ call'[t].count = call[t].count
        /\ call'[t].sync = call[t].sync /\ call'[t].done = call[t].done
    <3>1. UNCHANGED acked /\ call' = [call EXCEPT ![t].pc = "room"]
      BY <1>6 DEF WriterWakes
    <3>2. call \in [Threads -> Call]
      BY DEF ControlInv, TypeOK
    <3> QED
      BY <1>1, <3>1, <3>2 DEF Call
  <2>2. Moves(t) /\ ToldBefore(t)
    BY <1>1, <1>6, <2>1 DEF Moves, ToldBefore, InQueue, Outside
  <2>3. GroupStays
    <3>1. \A u \in Threads : call'[u].count = call[u].count
      BY <1>1, <2>1
    <3> QED
      BY <1>1, <1>2, <1>4, <3>1, GroupInQueue DEF GroupStays
  <2> QED
    BY <1>2, <1>3, <2>1, <2>2, <2>3, DataFrame
<1> QED
  BY <1>5, <1>6

(* A writer leaves MakeRoomForWrite with an error, or has nothing to write.   *)
LEMMA FailData ==
    ASSUME ControlInv, ControlInv', DataInv, NEW t \in Threads, NEW ok \in BOOLEAN,
           call[t].pc = "room", ok => call[t].count = 0,
           PopWriters(call, <<t>>, ok), Ack(t, ok), UNCHANGED <<calls, group, data>>
    PROVE  DataInv'
<1>1. group = <<>> /\ FromFront(<<t>>) /\ OnlyWoken(call)
  BY AtRoom
<1>2. Departed(<<t>>, ok)
  BY <1>1, Leave
<1>3. /\ call'[t] = Returned(t, ok)
      /\ \A u \in Threads : u # t => SameCall(u)
  BY <1>2, Single DEF Departed
<1>4. call'[t].pc \in {"idle", "flush"} /\ calls[t] \in Nat
  BY <1>3 DEF Returned, Idle, ControlInv, TypeOK
<1>5. Outside(t)' /\ ~InQueue(t)' /\ call'[t].pc # "wait"
  BY <1>4 DEF Outside, InQueue, Leading, Applying
<1>6. /\ Stored' = Stored /\ All' \subseteq All /\ WriteAhead' /\ UNCHANGED <<lastSeq, mem, log>>
      /\ \A e \in Stored : Durable(e) => Durable(e)'
  BY SameData DEF DataInv
<1>7. \A u \in Threads : Moves(u) /\ ToldBefore(u)
  <2>1. \A u \in Threads : u # t => Moves(u) /\ ToldBefore(u)
    BY <1>3, SameMoves
  <2>2. Moves(t) /\ ToldBefore(t)
    BY <1>4, <1>5 DEF Moves, ToldBefore
  <2> QED
    BY <2>1, <2>2
<1>8. GroupStays
  <2>1. Len(group) = 0
    BY <1>1
  <2> QED
    BY <1>1, <1>6, <2>1 DEF GroupStays
<1>9. ASSUME NEW a \in acked'
      PROVE  a \in acked \/ \E u \in Threads : /\ a.batch = Batch(u, calls'[u])
                                               /\ Outside(u)'
                                               /\ KeptNext(a.batch, a)
  <2>1. CASE a \in acked
    BY <2>1
  <2>2. CASE a = [batch |-> Batch(t, calls[t]), ok |-> ok,
                  count |-> call[t].count, sync |-> call[t].sync]
    <3>1. InQueue(t)
      BY DEF InQueue, Leading
    <3>2. \A e \in Stored' : e[2] # Batch(t, calls[t])
      BY <1>1, <1>6, <3>1 DEF DataInv, FreshInv
    <3>3. Cardinality({e \in Stored' : e[2] = Batch(t, calls[t])}) = 0
      <4>1. {e \in Stored' : e[2] = Batch(t, calls[t])} = {}
        BY <3>2
      <4> QED
        BY <4>1, FS_EmptySet
    <3>4. a.batch = Batch(t, calls[t]) /\ (IF a.ok THEN a.count ELSE 0) = 0
      BY <2>2
    <3>5. KeptNext(Batch(t, calls[t]), a)
      BY <3>2, <3>3, <3>4 DEF KeptNext
    <3> QED
      BY <1>5, <3>4, <3>5
  <2> QED
    BY <2>1, <2>2 DEF Ack
<1> QED
  BY <1>6, <1>7, <1>8, <1>9, DataFrame

(* The front writer goes on, and nobody is answered.                          *)
LEMMA FrontMoves ==
    ASSUME ControlInv, NEW t \in Threads, call[t].pc \in Leading, call'[t].pc \in Leading,
           UNCHANGED calls, \A u \in Threads : u # t => call'[u] = call[u]
    PROVE  \A u \in Threads : Moves(u) /\ ToldBefore(u)
<1>1. \A u \in Threads : calls[u] \in Nat
  BY DEF ControlInv, TypeOK
<1>2. /\ InQueue(t) /\ ~Outside(t) /\ call'[t].pc # "wait"
      /\ \A u \in Threads : u # t => InQueue(u)' = InQueue(u) /\ Outside(u)' = Outside(u)
  BY DEF InQueue, Outside, Leading, Applying
<1> QED
  BY <1>1, <1>2 DEF Moves, ToldBefore

(* The group is taken from the queue.                                         *)
LEMMA FoundData ==
    ASSUME ControlInv, ControlInv', DataInv, NEW t \in Threads, RoomFound(t), call[t].count # 0
    PROVE  DataInv'
<1>1. /\ call[t].pc = "room" /\ call' = [call EXCEPT ![t].pc = "log"]
      /\ group' = BuildBatchGroup(t) /\ UNCHANGED <<calls, data, acked, writers>>
  BY DEF RoomFound, PastDelay, AtFront
<1>2. /\ call'[t].pc = "log" /\ \A u \in Threads : u # t => call'[u] = call[u]
      /\ group = <<>> /\ call[t] \in Call
  <2>1. call \in [Threads -> Call]
    BY DEF ControlInv, TypeOK
  <2>2. call'[t].pc = "log" /\ call[t] \in Call /\ \A u \in Threads : u # t => call'[u] = call[u]
    BY <1>1, <2>1 DEF Call
  <2> QED
    BY <1>1, <2>2, AtRoom
<1>3. /\ NumbersInv /\ SequencesUnique /\ FreshInv /\ AckedInv /\ DoneInv
      /\ Stored' = Stored /\ All' \subseteq All /\ WriteAhead' /\ UNCHANGED <<lastSeq, mem, log>>
      /\ \A e \in Stored : Durable(e) => Durable(e)'
  BY <1>1, SameData DEF DataInv
<1>4. \A u \in Threads : Moves(u) /\ ToldBefore(u)
  BY <1>1, <1>2, FrontMoves DEF Leading, Applying
<1>5. NumbersInv' /\ SequencesUnique'
  <2>1. \A e \in All : e[2][1] \in Threads /\ e[2][2] \in Nat
    BY AllEntries DEF ControlInv
  <2>2. \A u \in Threads : calls'[u] \in Nat /\ calls[u] \in Nat /\ calls[u] <= calls'[u]
    BY <1>4 DEF Moves, ControlInv, TypeOK
  <2> QED
    BY <1>2, <1>3, <2>1, <2>2, NumbersFrame, UniqueFrame
<1>6. FreshInv'
  BY <1>2, <1>3, <1>4, FreshFrame
<1>7. LeaderInv'
  <2>1. group' # <<>> /\ group'[1] = t
    <3>1. writers # <<>> /\ writers[1] = t
      BY <1>1, AtRoom
    <3>2. /\ group' \in Seq(Threads) /\ group' # <<>> /\ \A i \in 1..Len(group') : group'[i] = writers[i]
      BY <1>1, <3>1, BatchGroup DEF ControlInv
    <3>3. 1 \in 1..Len(group')
      BY <3>2, EmptySeq, LenProperties
    <3> QED
      BY <3>1, <3>2, <3>3
  <2> QED
    BY <1>2, <2>1 DEF LeaderInv
<1>8. AckedInv' /\ DoneInv'
  <2>1. lastSeq <= lastSeq'
    BY <1>3 DEF ControlInv, TypeOK
  <2> QED
    BY <1>1, <1>3, <1>4, <2>1, AnswersFrame
<1> QED
  BY <1>3, <1>5, <1>6, <1>7, <1>8 DEF DataInv

(* The leader of the group, in a step of its own.                             *)
LeaderStep(t) == /\ call[t].pc \in Applying /\ call'[t].pc \in Applying
                 /\ call'[t].count = call[t].count /\ call'[t].sync = call[t].sync
                 /\ \A u \in Threads : u # t => call'[u] = call[u]
                 /\ UNCHANGED <<writers, calls, group, lastSeq, acked>>

(* It changes nobody's numbers.                                               *)
LEMMA LeaderFrame ==
    ASSUME ControlInv, ControlInv', NEW t \in Threads, LeaderStep(t)
    PROVE  /\ group # <<>> /\ group[1] = t /\ GroupEntries' = GroupEntries
           /\ \A u \in Threads : Moves(u) /\ ToldBefore(u)
<1>1. group # <<>> /\ group[1] = t
  BY AtHead DEF LeaderStep, Leading, ControlInv, GroupInv
<1>2. \A u \in Threads : Moves(u) /\ ToldBefore(u)
  BY FrontMoves DEF LeaderStep, Leading
<1>3. GroupEntries' = GroupEntries
  BY GroupFrame, GroupInQueue DEF LeaderStep
<1> QED
  BY <1>1, <1>2, <1>3

(* A failure on the way, or the sync: no entry is added.                      *)
LEMMA SyncData ==
    ASSUME ControlInv, ControlInv', DataInv, NEW t \in Threads, LeaderStep(t),
           call[t].pc \in {"log", "sync"}, LeaderInv', WriteAhead', LogEntries(log)' = LogEntries(log),
           UNCHANGED <<mem, imm, hasImm, tables, oldLog>>, call[t].pc = "sync" => call'[t].pc # "log",
           \A e \in Stored : Durable(e) => Durable(e)'
    PROVE  DataInv'
<1>1. /\ group # <<>> /\ group[1] = t /\ GroupEntries' = GroupEntries
      /\ \A u \in Threads : Moves(u) /\ ToldBefore(u)
      /\ UNCHANGED <<group, lastSeq, calls, acked>>
  BY LeaderFrame DEF LeaderStep
<1>2. /\ NumbersInv /\ SequencesUnique /\ FreshInv /\ AckedInv /\ DoneInv
      /\ Stored' = Stored /\ All' \subseteq All
  BY DEF DataInv, Stored, All, LogEntries
<1>3. NumbersInv' /\ SequencesUnique'
  <2>1. \A e \in All : e[2][1] \in Threads /\ e[2][2] \in Nat
    BY AllEntries DEF ControlInv
  <2>2. \A u \in Threads : calls'[u] \in Nat /\ calls[u] \in Nat /\ calls[u] <= calls'[u]
    BY <1>1 DEF Moves, ControlInv, TypeOK
  <2> QED
    BY <1>1, <1>2, <2>1, <2>2, NumbersFrame, UniqueFrame
<1>4. FreshInv'
  BY <1>1, <1>2, FreshFrame
<1>5. AckedInv' /\ DoneInv'
  <2>1. lastSeq <= lastSeq'
    BY <1>1 DEF ControlInv, TypeOK
  <2> QED
    BY <1>1, <1>2, <2>1, AnswersFrame
<1> QED
  BY <1>3, <1>4, <1>5 DEF DataInv

(* Every entry of the group belongs to the batch of one of its writers.       *)
LEMMA GroupBatches ==
    ASSUME ControlInv
    PROVE  \A e \in GroupEntries : \E i \in 1..Len(group) :
             e[2] = Batch(group[i], calls[group[i]]) /\ e[2] = <<group[i], calls[group[i]]>>
<1> SUFFICES ASSUME NEW e \in GroupEntries
             PROVE  \E i \in 1..Len(group) :
                      e[2] = Batch(group[i], calls[group[i]]) /\ e[2] = <<group[i], calls[group[i]]>>
  OBVIOUS
<1>1. PICK i \in 1..Len(group), k \in 1..MaxUpdates :
         k \in 1..call[group[i]].count /\ e = GroupEntry(i, k)
  BY GroupMembers DEF ControlInv
<1> QED
  BY <1>1 DEF GroupEntry, Batch

(* A record more in the log.                                                  *)
LEMMA LogGrows ==
    ASSUME TypeOK, NEW rec \in LogRecord, log' = Append(log, rec)
    PROVE  /\ ToSet(log') = ToSet(log) \union {rec}
           /\ LogEntries(log') = LogEntries(log) \union rec.entries
<1>1. log \in Seq(LogRecord) /\ Len(log) \in Nat
  BY LenProperties DEF TypeOK
<1>2. /\ Len(log') = Len(log) + 1 /\ log'[Len(log) + 1] = rec
      /\ \A i \in 1..Len(log) : log'[i] = log[i]
      /\ log' \in Seq(LogRecord)
  BY <1>1, AppendProperties
<1>3. DOMAIN log = 1..Len(log) /\ DOMAIN log' = 1..Len(log')
  BY <1>1, <1>2
<1>4. ToSet(log') = ToSet(log) \union {rec}
  <2>1. \A i \in 1..Len(log') : i \in 1..Len(log) \/ i = Len(log) + 1
    BY <1>1, <1>2
  <2>2. \A i \in 1..Len(log) : i \in 1..Len(log')
    BY <1>1, <1>2
  <2>3. Len(log) + 1 \in 1..Len(log')
    BY <1>1, <1>2
  <2> QED
    BY <1>2, <1>3, <2>1, <2>2, <2>3 DEF ToSet
<1> QED
  BY <1>4 DEF LogEntries

(* The log is synced.                                                         *)
LEMMA LogSynced ==
    ASSUME TypeOK, log' = [i \in DOMAIN log |-> [log[i] EXCEPT !.synced = TRUE]]
    PROVE  /\ \A r \in ToSet(log) : \E s \in ToSet(log') : s.synced /\ s.entries = r.entries
           /\ LogEntries(log') = LogEntries(log)
<1>1. log \in Seq(LogRecord)
  BY DEF TypeOK
<1>2. /\ DOMAIN log' = DOMAIN log
      /\ \A i \in DOMAIN log : log'[i].synced /\ log'[i].entries = log[i].entries
  <2>1. \A i \in DOMAIN log : log[i] \in LogRecord
    BY <1>1
  <2>2. DOMAIN log' = DOMAIN log
    OBVIOUS
  <2>3. \A i \in DOMAIN log : log'[i] = [log[i] EXCEPT !.synced = TRUE]
    OBVIOUS
  <2> QED
    BY <2>1, <2>2, <2>3 DEF LogRecord
<1>3. \A r \in ToSet(log) : \E s \in ToSet(log') : s.synced /\ s.entries = r.entries
  BY <1>2 DEF ToSet
<1>4. \A s \in ToSet(log') : \E r \in ToSet(log) : s.entries = r.entries
  BY <1>2 DEF ToSet
<1>5. \A e : e \in LogEntries(log') <=> e \in LogEntries(log)
  <2>1. \A e : e \in LogEntries(log') <=> \E r \in ToSet(log') : e \in r.entries
    BY DEF LogEntries
  <2>2. \A e : e \in LogEntries(log) <=> \E r \in ToSet(log) : e \in r.entries
    BY DEF LogEntries
  <2> QED
    BY <1>3, <1>4, <2>1, <2>2
<1>6. LogEntries(log') = LogEntries(log)
  BY <1>5
<1> QED
  BY <1>3, <1>6

(* The leader's call after a step of its own.                                 *)
LEMMA LeaderChanges ==
    ASSUME ControlInv, NEW t \in Threads, call[t].pc \in Applying,
           NEW p \in Applying, call' = [call EXCEPT ![t].pc = p]
                               \/ call' = [call EXCEPT ![t].pc = p, ![t].ok = FALSE],
           UNCHANGED <<writers, calls, group, lastSeq, acked>>
    PROVE  LeaderStep(t) /\ call'[t].pc = p
<1>1. call \in [Threads -> Call] /\ call[t] \in Call
  BY DEF ControlInv, TypeOK
<1>2. \A u \in Threads : u # t => call'[u] = call[u]
  BY <1>1
<1>3. call'[t].pc = p /\ call'[t].count = call[t].count /\ call'[t].sync = call[t].sync
  BY <1>1 DEF Call
<1> QED
  BY <1>2, <1>3 DEF LeaderStep

(* The group is logged.                                                       *)
LEMMA AddData ==
    ASSUME ControlInv, ControlInv', DataInv, NEW t \in Threads, AddRecord(t)
    PROVE  DataInv'
<1>1. /\ call[t].pc = "log" /\ call[t].pc \in Applying
      /\ UNCHANGED <<writers, calls, group, lastSeq, acked, mem, imm, hasImm, tables, oldLog>>
  BY DEF AddRecord, Applying
<1>2. /\ TypeOK /\ NumbersInv /\ SequencesUnique /\ FreshInv /\ LeaderInv /\ WriteAhead
      /\ AckedInv /\ DoneInv
  BY DEF ControlInv, DataInv
<1>3. CASE log' = Append(log, [entries |-> GroupEntries, synced |-> FALSE])
           /\ call' = [call EXCEPT ![t].pc = IF call[t].sync THEN "sync" ELSE "insert"]
  <2> DEFINE rec == [entries |-> GroupEntries, synced |-> FALSE]
  <2>1. LeaderStep(t) /\ call'[t].pc = IF call[t].sync THEN "sync" ELSE "insert"
    BY <1>1, <1>3, LeaderChanges DEF Applying
  <2>2. /\ group # <<>> /\ group[1] = t /\ GroupEntries' = GroupEntries
        /\ \A u \in Threads : Moves(u) /\ ToldBefore(u)
    BY <2>1, LeaderFrame
  <2>3. rec \in LogRecord
    BY <1>2, GroupNumbers DEF LogRecord
  <2>4. /\ ToSet(log') = ToSet(log) \union {rec}
        /\ LogEntries(log') = LogEntries(log) \union GroupEntries
    BY <1>2, <1>3, <2>3, LogGrows
  <2>5. Stored' = Stored /\ All' = All \union GroupEntries
    BY <1>1, <2>4 DEF Stored, All, LogEntries
  <2>6. \A e \in All : e[1] <= lastSeq /\ e[1] \in Nat /\ e[2][2] <= calls[e[2][1]]
    BY <1>1, <1>2, <2>2, AllEntries DEF NumbersInv
  <2>7. NumbersInv'
    <3>1. ASSUME NEW e \in GroupEntries
          PROVE  e[2][2] <= calls[e[2][1]]
      <4>1. PICK i \in 1..Len(group) : e[2] = <<group[i], calls[group[i]]>>
        BY GroupBatches
      <4>2. calls[group[i]] \in Nat /\ e[2][1] = group[i] /\ e[2][2] = calls[group[i]]
        BY <1>2, <4>1 DEF TypeOK
      <4> QED
        BY <4>2
    <3>2. call'[group[1]].pc # "log"
      BY <2>1, <2>2
    <3> QED
      BY <1>1, <2>2, <2>5, <2>6, <3>1, <3>2 DEF NumbersInv
  <2>8. SequencesUnique'
    <3> SUFFICES ASSUME NEW e \in All', NEW f \in All', e[1] = f[1]
                 PROVE  e = f
      BY DEF SequencesUnique, All
    <3>1. lastSeq \in Nat /\ \A g \in GroupEntries : lastSeq < g[1] /\ g[1] \in Nat
      BY <1>2, GroupNumbers DEF TypeOK, Entry
    <3>2. CASE e \in All /\ f \in All
      BY <1>2, <3>2 DEF SequencesUnique, All
    <3>3. CASE e \in GroupEntries /\ f \in GroupEntries
      BY <1>2, <3>3, GroupUnique
    <3>4. ~(e \in All /\ f \in GroupEntries) /\ ~(f \in All /\ e \in GroupEntries)
      BY <2>6, <3>1
    <3> QED
      BY <2>5, <3>2, <3>3, <3>4
  <2>9. FreshInv'
    BY <1>1, <1>2, <2>2, <2>5, FreshFrame
  <2>10. LeaderInv'
    <3>1. /\ rec \in ToSet(log') /\ GroupEntries' \subseteq rec.entries
          /\ ~(call'[t].sync /\ call'[t].pc # "sync") /\ call'[t].pc # "commit"
      BY <2>1, <2>2, <2>4 DEF LeaderStep
    <3> QED
      BY <1>1, <2>2, <3>1 DEF LeaderInv
  <2>11. WriteAhead'
    BY <1>1, <1>2, <2>4 DEF WriteAhead, LogEntries
  <2>12. AckedInv' /\ DoneInv'
    <3>1. \A e \in Stored : Durable(e) => Durable(e)'
      BY <1>1, <2>4 DEF Durable
    <3>2. lastSeq <= lastSeq'
      BY <1>1, <1>2 DEF TypeOK
    <3> QED
      BY <1>1, <1>2, <2>2, <2>5, <3>1, <3>2, AnswersFrame
  <2> QED
    BY <2>7, <2>8, <2>9, <2>10, <2>11, <2>12 DEF DataInv
<1>4. CASE UNCHANGED log /\ call' = [call EXCEPT ![t].pc = "commit", ![t].ok = FALSE]
  <2>1. LeaderStep(t) /\ call'[t].pc = "commit"
    BY <1>1, <1>4, LeaderChanges DEF Applying
  <2>2. group # <<>> /\ group[1] = t
    BY <2>1, LeaderFrame
  <2>3. ~call'[t].ok
    BY <1>2, <1>4 DEF TypeOK, Call
  <2>4. LeaderInv'
    BY <1>1, <2>1, <2>2, <2>3 DEF LeaderInv
  <2>5. /\ WriteAhead' /\ LogEntries(log)' = LogEntries(log)
        /\ \A e \in Stored : Durable(e) => Durable(e)'
    BY <1>1, <1>2, <1>4 DEF WriteAhead, LogEntries, Durable
  <2> QED
    BY <1>1, <2>1, <2>4, <2>5, SyncData
<1> QED
  BY <1>3, <1>4 DEF AddRecord

(* The log is synced, or that fails.                                          *)
LEMMA SyncLogData ==
    ASSUME ControlInv, ControlInv', DataInv, NEW t \in Threads, SyncLog(t)
    PROVE  DataInv'
<1>1. /\ call[t].pc = "sync" /\ call[t].pc \in Applying
      /\ UNCHANGED <<writers, calls, group, lastSeq, acked, mem, imm, hasImm, tables, oldLog>>
  BY DEF SyncLog, Applying
<1>2. TypeOK /\ LeaderInv /\ WriteAhead
  BY DEF ControlInv, DataInv
<1>3. CASE log' = [i \in DOMAIN log |-> [log[i] EXCEPT !.synced = TRUE]]
           /\ call' = [call EXCEPT ![t].pc = "insert"]
  <2>1. LeaderStep(t) /\ call'[t].pc = "insert"
    BY <1>1, <1>3, LeaderChanges DEF Applying
  <2>2. group # <<>> /\ group[1] = t /\ GroupEntries' = GroupEntries
    BY <2>1, LeaderFrame
  <2>3. /\ \A r \in ToSet(log) : \E s \in ToSet(log') : s.synced /\ s.entries = r.entries
        /\ LogEntries(log') = LogEntries(log)
    BY <1>2, <1>3, LogSynced
  <2>4. \E s \in ToSet(log') : s.synced /\ GroupEntries \subseteq s.entries
    BY <1>1, <1>2, <2>2, <2>3 DEF LeaderInv
  <2>5. LeaderInv'
    BY <1>1, <2>1, <2>2, <2>4 DEF LeaderInv
  <2>6. /\ WriteAhead' /\ LogEntries(log)' = LogEntries(log)
    BY <1>1, <1>2, <2>3 DEF WriteAhead, LogEntries
  <2>7. \A e \in Stored : Durable(e) => Durable(e)'
    BY <1>1, <2>3 DEF Durable
  <2> QED
    BY <1>1, <2>1, <2>5, <2>6, <2>7, SyncData
<1>4. CASE UNCHANGED log /\ call' = [call EXCEPT ![t].pc = "syncerror", ![t].ok = FALSE]
  <2>1. LeaderStep(t) /\ call'[t].pc = "syncerror"
    BY <1>1, <1>4, LeaderChanges DEF Applying
  <2>2. group # <<>> /\ group[1] = t
    BY <2>1, LeaderFrame
  <2>3. LeaderInv'
    BY <1>1, <2>1, <2>2 DEF LeaderInv
  <2>4. /\ WriteAhead' /\ LogEntries(log)' = LogEntries(log)
        /\ \A e \in Stored : Durable(e) => Durable(e)'
    BY <1>1, <1>2, <1>4 DEF WriteAhead, LogEntries, Durable
  <2> QED
    BY <1>1, <2>1, <2>3, <2>4, SyncData
<1> QED
  BY <1>3, <1>4 DEF SyncLog

(* The group goes into the memtable.                                          *)
LEMMA InsertData ==
    ASSUME ControlInv, ControlInv', DataInv, NEW t \in Threads, InsertInto(t)
    PROVE  DataInv'
<1>1. /\ call[t].pc = "insert" /\ call[t].pc \in Applying /\ mem' = mem \union GroupEntries
      /\ UNCHANGED <<writers, calls, group, lastSeq, acked, imm, hasImm, tables, log, oldLog>>
  BY DEF InsertInto, Applying
<1>2. /\ TypeOK /\ NumbersInv /\ SequencesUnique /\ FreshInv /\ LeaderInv /\ WriteAhead
      /\ AckedInv /\ DoneInv
  BY DEF ControlInv, DataInv
<1>3. LeaderStep(t) /\ call'[t].pc = "commit"
  <2>1. call' = [call EXCEPT ![t].pc = "commit"]
    BY DEF InsertInto
  <2> QED
    BY <1>1, <2>1, LeaderChanges DEF Applying
<1>4. /\ group # <<>> /\ group[1] = t /\ GroupEntries' = GroupEntries
      /\ \A u \in Threads : Moves(u) /\ ToldBefore(u)
  BY <1>3, LeaderFrame
<1>5. call'[t].ok
  <2>1. call[t].ok
    BY <1>1 DEF ControlInv, OkInv, InQueue, Leading
  <2> QED
    BY <1>2, <2>1 DEF InsertInto, TypeOK, Call
<1>6. PICK r \in ToSet(log) : GroupEntries \subseteq r.entries /\ (call[t].sync => r.synced)
  BY <1>1, <1>2, <1>4 DEF LeaderInv
<1>7. GroupEntries \subseteq LogEntries(log)
  BY <1>6 DEF LogEntries
<1>8. Stored' = Stored \union GroupEntries /\ All' \subseteq All
  BY <1>1, <1>7 DEF Stored, All, LogEntries
<1>9. NumbersInv' /\ SequencesUnique'
  <2>1. \A e \in All : e[2][1] \in Threads /\ e[2][2] \in Nat
    BY <1>2, AllEntries
  <2>2. \A u \in Threads : calls'[u] \in Nat /\ calls[u] \in Nat /\ calls[u] <= calls'[u]
    BY <1>2, <1>4 DEF Moves, TypeOK
  <2>3. call'[group[1]].pc # "log"
    BY <1>3, <1>4
  <2> QED
    BY <1>1, <1>2, <1>4, <1>8, <2>1, <2>2, <2>3, NumbersFrame, UniqueFrame
<1>10. FreshInv'
  <2> SUFFICES ASSUME NEW e \in Stored', NEW u \in Threads, InQueue(u)', e[2] = Batch(u, calls'[u])
               PROVE  e \in GroupEntries
    BY <1>1, <1>3, <1>4, <1>5 DEF FreshInv
  <2>1. CASE e \in Stored
    <3>1. InQueue(u) /\ calls'[u] = calls[u]
      BY <1>1, <1>3, <1>4 DEF LeaderStep, InQueue, Leading
    <3> QED
      BY <1>1, <1>2, <1>4, <2>1, <3>1 DEF FreshInv
  <2> QED
    BY <1>8, <2>1
<1>11. LeaderInv'
  <2>1. /\ r \in ToSet(log') /\ GroupEntries' \subseteq r.entries /\ (call'[t].sync => r.synced)
        /\ GroupEntries' \subseteq mem'
    BY <1>1, <1>3, <1>4, <1>6 DEF LeaderStep
  <2> QED
    BY <1>1, <1>4, <2>1 DEF LeaderInv
<1>12. WriteAhead'
  BY <1>1, <1>2, <1>7 DEF WriteAhead, LogEntries
<1>13. AckedInv' /\ DoneInv'
  <2>1. \A e \in Stored : Durable(e) => Durable(e)'
    BY <1>1 DEF Durable
  <2>2. \A e \in Stored' : e \in Stored \/ \E u \in Threads : InQueue(u) /\ e[2] = Batch(u, calls[u])
    BY <1>8, GroupBatches, GroupInQueue
  <2>3. lastSeq <= lastSeq'
    BY <1>1, <1>2 DEF TypeOK
  <2> QED
    BY <1>1, <1>2, <1>4, <1>8, <2>1, <2>2, <2>3, AnswersFrame
<1> QED
  BY <1>9, <1>10, <1>11, <1>12, <1>13 DEF DataInv

(* The mutex is taken again: what the writers of the group are told is true.  *)
LEMMA CommitData ==
    ASSUME ControlInv, ControlInv', DataInv, NEW t \in Threads, Commit(t)
    PROVE  DataInv'
<1>1. /\ call[t].pc \in {"commit", "syncerror"} /\ lastSeq' = lastSeq + GroupCount
      /\ group' = <<>> /\ Ack(t, call[t].ok)
      /\ UNCHANGED <<calls, mem, imm, hasImm, tables, log, oldLog>>
  BY DEF Commit
<1>2. /\ TypeOK /\ OkInv /\ NumbersInv /\ SequencesUnique /\ FreshInv /\ LeaderInv /\ WriteAhead
      /\ AckedInv /\ DoneInv
  BY DEF ControlInv, DataInv
<1>3. Departed(group, call[t].ok) /\ group # <<>> /\ group[1] = t /\ call[t].ok \in BOOLEAN
  BY CommitLeaves
<1>4. /\ Len(group) \in Nat
      /\ \A i \in 1..Len(group) : group[i] \in Threads /\ InQueue(group[i])
      /\ \A i, j \in 1..Len(group) : group[i] = group[j] => i = j
  BY GroupInQueue
<1>5. Len(group) >= 1
  BY <1>3 DEF Departed
<1>6. /\ Stored' = Stored /\ All' = All /\ WriteAhead'
      /\ \A e \in Stored : Durable(e) => Durable(e)'
  BY <1>1, <1>2 DEF Stored, All, LogEntries, WriteAhead, Durable
<1>7. /\ GroupCount \in Nat /\ lastSeq \in Nat /\ lastSeq' \in Nat
      /\ \A e \in GroupEntries : e[1] <= lastSeq'
  BY <1>1, <1>2, GroupNumbers DEF TypeOK
<1>8. lastSeq <= lastSeq'
  BY <1>1, <1>7
<1>9. \A e \in All : e[1] \in Nat /\ e[1] <= lastSeq'
  BY <1>2, <1>7, <1>8, AllEntries DEF NumbersInv
<1>10. \A u \in Threads : \/ \E i \in 1..Len(group) : group[i] = u
                          \/ SameCall(u) /\ \A i \in 1..Len(group) : group[i] # u
  BY <1>3 DEF Departed
<1>11. /\ call'[t].pc \in {"idle", "flush"}
       /\ \A i \in 1..Len(group) : i # 1 =>
            /\ call'[group[i]].pc = "wait" /\ call'[group[i]].ok = call[t].ok
            /\ call'[group[i]].count = call[group[i]].count
            /\ call'[group[i]].sync = call[group[i]].sync
            /\ call'[group[i]].done
  <2>1. call'[t].pc \in {"idle", "flush"}
    <3>1. call'[t] = Returned(t, call[t].ok)
      BY <1>3 DEF Departed
    <3> QED
      BY <3>1 DEF Returned, Idle
  <2>2. \A i \in 1..Len(group) : i # 1 => group[i] # group[1]
    BY <1>4, <1>5
  <2> QED
    BY <1>3, <2>1, <2>2 DEF Departed
<1>12. ASSUME NEW u \in Threads, NEW i \in 1..Len(group), group[i] = u
       PROVE  ~InQueue(u)' /\ ~Outside(u)
  <2>1. InQueue(u)
    BY <1>4, <1>12
  <2>2. ~Outside(u)
    BY <2>1 DEF InQueue, Outside, Leading, Applying
  <2>3. call'[u].pc \in {"idle", "flush"} \/ (call'[u].pc = "wait" /\ call'[u].done)
    BY <1>3, <1>11, <1>12
  <2> QED
    BY <2>2, <2>3 DEF InQueue, Leading, Applying
<1>13. \A u \in Threads : Moves(u)
  <2> SUFFICES ASSUME NEW u \in Threads
               PROVE  Moves(u)
    OBVIOUS
  <2>1. SameCall(u) => Moves(u)
    BY <1>1, SameMoves
  <2>2. ASSUME NEW i \in 1..Len(group), group[i] = u
        PROVE  Moves(u)
    <3>1. ~InQueue(u)' /\ ~Outside(u)
      BY <1>12, <2>2
    <3>2. calls[u] \in Nat /\ calls'[u] = calls[u]
      BY <1>1, <1>2 DEF TypeOK
    <3> QED
      BY <3>1, <3>2 DEF Moves
  <2> QED
    BY <1>10, <2>1, <2>2
<1>14. ASSUME NEW i \in 1..Len(group), NEW answer, answer.ok = call[t].ok,
              answer.count = call[group[i]].count, answer.sync = call[group[i]].sync
       PROVE  KeptNext(Batch(group[i], calls[group[i]]), answer)
  <2> DEFINE b == Batch(group[i], calls[group[i]])
             mine == {e \in Stored' : e[2] = b}
  <2>1. \A e \in mine : /\ e \in Stored /\ e \in All /\ e \in GroupEntries
                        /\ call[t].pc = "commit" /\ call[t].ok
    BY <1>2, <1>3, <1>4, <1>6, AllEntries DEF FreshInv
  <2>2. CASE call[t].ok
    <3>1. call[t].pc = "commit"
      BY <1>1, <1>2, <2>2 DEF OkInv
    <3>2. PICK r \in ToSet(log) : GroupEntries \subseteq r.entries /\ (call[t].sync => r.synced)
      BY <1>2, <1>3, <2>2, <3>1 DEF LeaderInv
    <3>3. GroupEntries \subseteq mem /\ GroupEntries \subseteq Stored
      BY <1>2, <1>3, <2>2, <3>1 DEF LeaderInv, Stored
    <3>4. mine = {e \in GroupEntries : e[2] = Batch(group[i], calls[group[i]])}
      BY <1>6, <2>1, <3>3
    <3>5. Cardinality(mine) = call[group[i]].count
      BY <1>2, <1>4, <3>4, GroupShare
    <3>6. answer.sync => r.synced
      BY <1>3, <1>14, <3>2 DEF ControlInv, GroupInv
    <3>7. \A e \in mine : e[1] <= lastSeq' /\ (answer.sync => Durable(e)')
      <4>1. \A e \in mine : e \in mem /\ e \in r.entries /\ e \in Stored /\ e[1] <= lastSeq'
        BY <1>7, <2>1, <3>2, <3>3
      <4>2. \A e \in mine : answer.sync => Durable(e)
        BY <3>6, <4>1 DEF Durable
      <4> QED
        BY <1>6, <4>1, <4>2
    <3> QED
      BY <1>14, <2>2, <3>5, <3>7 DEF KeptNext
  <2>3. CASE ~call[t].ok
    <3>1. mine = {}
      BY <2>1, <2>3
    <3>2. Cardinality(mine) = 0
      BY <3>1, FS_EmptySet
    <3> QED
      BY <1>14, <2>3, <3>1, <3>2 DEF KeptNext
  <2> QED
    BY <2>2, <2>3
<1>15. NumbersInv'
  BY <1>1, <1>2, <1>6, <1>9 DEF NumbersInv
<1>16. SequencesUnique'
  BY <1>2, <1>6, UniqueFrame
<1>17. FreshInv'
  <2> SUFFICES ASSUME NEW e \in Stored', NEW u \in Threads, InQueue(u)', e[2] = Batch(u, calls'[u])
               PROVE  FALSE
    BY DEF FreshInv
  <2>1. SameCall(u) /\ \A i \in 1..Len(group) : group[i] # u
    BY <1>10, <1>12
  <2>2. InQueue(u) /\ calls'[u] = calls[u]
    BY <1>1, <2>1 DEF SameCall, InQueue, Leading
  <2>3. e \in GroupEntries
    BY <1>2, <1>6, <2>2 DEF FreshInv
  <2>4. PICK i \in 1..Len(group) : e[2] = <<group[i], calls[group[i]]>>
    BY <2>3, GroupBatches
  <2> QED
    BY <2>1, <2>4 DEF Batch
<1>18. LeaderInv'
  BY <1>1 DEF LeaderInv
<1>19. AckedInv' /\ DoneInv'
  <2>1. \A u \in Threads : call'[u].pc = "wait" /\ call'[u].done =>
                             ToldBefore(u) \/ KeptNext(Batch(u, calls'[u]), call'[u])
    <3>1. \A u \in Threads : SameCall(u) => ToldBefore(u)
      BY <1>1, SameMoves
    <3>2. \A i \in 1..Len(group) :
            i # 1 => KeptNext(Batch(group[i], calls'[group[i]]), call'[group[i]])
      BY <1>1, <1>11, <1>14
    <3>3. call'[group[1]].pc # "wait"
      BY <1>3, <1>11
    <3> QED
      BY <1>10, <3>1, <3>2, <3>3
  <2>2. ASSUME NEW a \in acked'
        PROVE  a \in acked \/ \E u \in Threads : /\ a.batch = Batch(u, calls'[u])
                                                 /\ Outside(u)'
                                                 /\ KeptNext(a.batch, a)
    <3>1. CASE a \in acked
      BY <3>1
    <3>2. CASE a = [batch |-> Batch(t, calls[t]), ok |-> call[t].ok,
                    count |-> call[t].count, sync |-> call[t].sync]
      <4>1. 1 \in 1..Len(group)
        BY <1>4, <1>5
      <4>2. KeptNext(Batch(t, calls[t]), a)
        BY <1>3, <1>14, <3>2, <4>1
      <4>3. Outside(t)'
        BY <1>11 DEF Outside
      <4> QED
        BY <1>1, <3>2, <4>2, <4>3
    <3> QED
      BY <1>1, <3>1, <3>2 DEF Ack
  <2> QED
    BY <1>2, <1>6, <1>8, <1>13, <2>1, <2>2, AnswersFrame
<1> QED
  BY <1>6, <1>15, <1>16, <1>17, <1>18, <1>19 DEF DataInv

-----------------------------------------------------------------------------
(* What holds of every behaviour.                                             *)

(* Nothing has been written yet.                                              *)
LEMMA InitInv == ConstantsOK /\ Init => WriteInv
<1> SUFFICES ASSUME ConstantsOK, Init
             PROVE  WriteInv
  OBVIOUS
<1>1. /\ Stored = {} /\ LogEntries(log) = {} /\ LogEntries(oldLog) = {} /\ All = {}
  BY DEF Init, Stored, LogEntries, ToSet, All
<1>2. /\ \A t \in Threads : call[t] = Idle /\ call[t].pc = "idle" /\ ~call[t].done /\ calls[t] = 0
      /\ Len(writers) = 0 /\ writers = <<>> /\ group = <<>>
  BY DEF Init, Idle
<1>3. TypeOK
  <2>1. MaxUpdates \in Nat /\ Idle \in Call
    BY IdleCall DEF ConstantsOK
  <2>2. call \in [Threads -> Call] /\ calls \in [Threads -> Nat]
    BY <2>1 DEF Init
  <2>3. /\ writers \in Seq(Threads) /\ group \in Seq(Threads)
        /\ log \in Seq(LogRecord) /\ oldLog \in Seq(LogRecord)
    BY DEF Init
  <2> QED
    BY <2>2, <2>3 DEF Init, TypeOK
<1>4. QueueInv /\ GroupInv
  BY <1>2 DEF QueueInv, GroupInv, InQueue, Leading, Applying
<1>5. OkInv /\ ManualInv /\ ImmInv
  BY <1>2 DEF Init, OkInv, ManualInv, ImmInv, InQueue, Leading, Applying
<1>6. NumbersInv /\ SequencesUnique /\ FreshInv /\ WriteAhead
  BY <1>1 DEF Init, NumbersInv, SequencesUnique, FreshInv, WriteAhead
<1>7. LeaderInv /\ AckedInv /\ DoneInv
  BY <1>2 DEF Init, LeaderInv, AckedInv, DoneInv
<1> QED
  BY <1>3, <1>4, <1>5, <1>6, <1>7 DEF WriteInv, ControlInv, DataInv

(* Every step keeps all of it.                                                *)
LEMMA WriteStep == WriteInv /\ [Next]_vars => WriteInv'
<1> SUFFICES ASSUME WriteInv, [Next]_vars
             PROVE  WriteInv'
  OBVIOUS
<1>1. ControlInv /\ DataInv /\ ControlInv'
  BY ControlStep DEF WriteInv
<1>2. ASSUME NEW t \in Threads, RoomError(t) \/ SwitchFails(t)
      PROVE  DataInv'
  <2>1. /\ call[t].pc = "room" /\ PopWriters(call, <<t>>, FALSE) /\ Ack(t, FALSE)
        /\ UNCHANGED <<calls, group, data>>
    BY <1>2 DEF RoomError, SwitchFails, CanSwitch, PastDelay, AtFront
  <2> QED
    BY <1>1, <2>1, FailData
<1>3. ASSUME NEW t \in Threads, RoomFound(t)
      PROVE  DataInv'
  <2>1. CASE call[t].count = 0
    <3>1. /\ call[t].pc = "room" /\ PopWriters(call, <<t>>, TRUE) /\ Ack(t, TRUE)
          /\ UNCHANGED <<calls, group, data>>
      BY <1>3, <2>1 DEF RoomFound, PastDelay, AtFront
    <3> QED
      BY <1>1, <2>1, <3>1, FailData
  <2> QED
    BY <1>1, <1>3, <2>1, FoundData
<1>4. DataInv'
  BY <1>1, <1>2, <1>3, QuietData, WriteData, WakesData, AddData, SyncLogData, InsertData, CommitData
     DEF Next, WriterStep, QuietStep
<1> QED
  BY <1>1, <1>4 DEF WriteInv

(* The invariant of the write path, for any number of threads, updates in a   *)
(* batch, calls and failures.                                                 *)
THEOREM WriteInvariant ==
    ASSUME MaxUpdates \in Nat, NoThread \notin Threads
    PROVE  Spec => []WriteInv
<1>1. Init => WriteInv
  BY InitInv DEF ConstantsOK
<1>2. WriteInv /\ [Next]_vars => WriteInv'
  BY WriteStep
<1> QED
  BY <1>1, <1>2, PTL DEF Spec

(* What the invariant says about the answers of Write.                        *)
LEMMA WriteMeans == WriteInv => SequencesUnique /\ AckedAtomic /\ WriteAhead /\ SyncedDurable
<1> SUFFICES ASSUME WriteInv
             PROVE  AckedAtomic /\ SyncedDurable
  BY DEF WriteInv, DataInv
<1>1. \A a \in acked : Kept(a.batch, a)
  BY DEF WriteInv, DataInv, AckedInv
<1>2. AckedAtomic
  BY <1>1 DEF AckedAtomic, Kept
<1>3. SyncedDurable
  BY <1>1 DEF SyncedDurable, Kept, Durable
<1> QED
  BY <1>2, <1>3

(* DBImpl::Write keeps its word: a batch it returned OK for can be read as a  *)
(* whole, under numbers of its own that readers may use, and one it failed    *)
(* not at all; what a memtable holds is in the log behind it; and a write     *)
(* that asked to be synced is where a crash does not reach it.                *)
THEOREM WritesAreKept ==
    ASSUME MaxUpdates \in Nat, NoThread \notin Threads
    PROVE  Spec => [](SequencesUnique /\ AckedAtomic /\ WriteAhead /\ SyncedDurable)
BY WriteMeans, WriteInvariant, PTL
=============================================================================
