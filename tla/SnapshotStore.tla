---------------------------- MODULE SnapshotStore ----------------------------
(* What a leveldb database promises its readers (include/leveldb/db.h): a map  *)
(* from keys to values, and snapshots of it that do not change.  A value is    *)
(* named by the sequence number of the write that stored it, 0 stands for "not *)
(* found".                                                                     *)
EXTENDS Naturals, Sequences, SequencesExt

CONSTANTS Keys

VARIABLES view,        \* what the readable sequence numbers show
          lastSeq,     \* the latest of them
          snapshots    \* the ones held by clients

Init == /\ view = [s \in {0} |-> [k \in Keys |-> 0]]
        /\ lastSeq = 0
        /\ snapshots = <<>>

(* Put stores a new value, Delete stores "not found".                          *)
Write(k, v) == /\ lastSeq' = lastSeq + 1
               /\ v \in {0, lastSeq'}
               /\ UNCHANGED snapshots
               /\ view'[lastSeq'][k] = v
               /\ view' = [s \in ToSet(snapshots) \union {lastSeq'} |->
                             IF s = lastSeq' THEN [view[lastSeq] EXCEPT ![k] = v] ELSE view[s]]

GetSnapshot == /\ snapshots' = Append(snapshots, lastSeq)
               /\ UNCHANGED <<view, lastSeq>>

ReleaseSnapshot(i) == /\ snapshots' = RemoveAt(snapshots, i)
                      /\ view' = [s \in ToSet(snapshots') \union {lastSeq} |-> view[s]]
                      /\ UNCHANGED lastSeq

Next == \/ \E k \in Keys, v \in {0, lastSeq + 1} : Write(k, v)
        \/ GetSnapshot
        \/ \E i \in DOMAIN snapshots : ReleaseSnapshot(i)

Spec == Init /\ [][Next]_<<view, lastSeq, snapshots>>
=============================================================================
