-------------------------- MODULE RepoTransactions --------------------------
(* FRepo above the connection: what the application has written but the       *)
(* server has not acknowledged (FWriteTree), and the transactions it runs.    *)
(* One location, whose values are numbers; a transaction adds one to the      *)
(* value it finds.  The client's side is the record repo: each handler is a   *)
(* chain of operators from record to record, as the code is a chain of calls. *)
(* The connection is that of PersistentConnection, up or down; the server is  *)
(* external: it works off requests in order, except that a listen takes as    *)
(* long as it takes, and sends data changed by a request before the answer.   *)
EXTENDS Integers, Sequences, FiniteSets

LOCAL INSTANCE SequencesExt

CONSTANTS Txs,          \* the transactions the application starts
          SetValues,    \* the values it sets, each once
          Foreign,      \* what another client writes
          Abort,        \* values on which the update block returns abort
          MaxRetries,   \* kFTransactionMaxRetries, 25 in the code
          MaxDrops,     \* bound: lost connections
          MaxPurges     \* bound: purgeOutstandingWrites

VARIABLES repo,      \* the client
          down,      \* external: what the server has sent, oldest first
          remote,    \* external: the value at the server
          watched,   \* external: the server has a listen of this client
          applied,   \* history: the transactions of each write the server applied
          left,      \* values still to be set here and written by others
          drops, purges

vars == <<repo, down, remote, watched, applied, left, drops, purges>>

NoTx == [status |-> "none", tries |-> 0, write |-> 0, value |-> 0, why |-> "none"]

NoValue == -1

(* The parts of repo: link, whether the connection is up; cache, the server's *)
(* value as far as known; listen, whether the location is listened to, and    *)
(* watchers, the registrations that want it; unacked, toAck: see              *)
(* PersistentConnection; writes, nextId: the write tree; txs, queue: the      *)
(* transactions and those at the location, in order; puts: outstanding        *)
(* writes; up: requests on the wire; reports: completions, per transaction;   *)
(* broken: an exception has ended the process.  History, for the properties:  *)
(* overtaken, the transactions that a second abort found waiting for the      *)
(* answer and dropped from the queue; withheld, a purge found answers that    *)
(* were held back for a listen.                                               *)
FreshRepo == [link |-> TRUE, cache |-> NoValue, listen |-> FALSE, watchers |-> {}, unacked |-> 0,
              toAck |-> <<>>, writes |-> <<>>, nextId |-> 1, txs |-> [t \in Txs |-> NoTx],
              queue |-> <<>>, puts |-> <<>>, putNo |-> 0, up |-> <<>>,
              reports |-> [t \in Txs |-> <<>>], broken |-> FALSE,
              overtaken |-> {}, withheld |-> FALSE]

Init == /\ repo = FreshRepo
        /\ down = <<>>
        /\ remote = 0
        /\ watched = FALSE
        /\ applied = <<>>
        /\ left = [set |-> SetValues, foreign |-> Foreign]
        /\ drops = 0
        /\ purges = 0

-----------------------------------------------------------------------------
(* The write tree and what can be seen through it.                            *)

Ids(s) == {s[k].id : k \in 1..Len(s)}

addOverwrite(r, v) == [r EXCEPT !.writes = Append(r.writes, [id |-> r.nextId, value |-> v]),
                                !.nextId = r.nextId + 1]

(* removeWriteId asserts that the write is there; without assertions the next *)
(* line, allWrites[NSNotFound], raises NSRangeException.                      *)
removeWriteId(r, id) ==
    IF id \in Ids(r.writes)
    THEN [r EXCEPT !.writes = SelectSeq(r.writes, LAMBDA w : w.id # id)]
    ELSE [r EXCEPT !.broken = TRUE]

(* latestStateAtPath: the newest write that is not excluded, else the cache,  *)
(* else the empty node.                                                       *)
latestState(r, exclude) ==
    LET seen == SelectSeq(r.writes, LAMBDA w : w.id \notin exclude)
    IN  IF seen # <<>> THEN seen[Len(seen)].value
        ELSE IF r.cache = NoValue THEN 0 ELSE r.cache

WritesOf(r, txs) == {r.txs[txs[k]].write : k \in 1..Len(txs)}

(* FPersistentConnection.putInternal.                                         *)
putData(r, hash, v, write, txs) ==
    LET p == [no |-> r.putNo + 1, hash |-> hash, value |-> v, write |-> write, txs |-> txs,
              sent |-> r.link, kind |-> "put"]
    IN  [r EXCEPT !.putNo = p.no, !.puts = Append(r.puts, p),
                  !.up = IF r.link THEN Append(r.up, p) ELSE r.up]

Report(r, t, what) == [r EXCEPT !.reports[t] = Append(r.reports[t], what)]

-----------------------------------------------------------------------------
(* Transactions.                                                              *)

(* sendTransactionQueue: one write for all, on the condition that the server  *)
(* still has what the first of them was computed from.                        *)
sendTransactionQueue(r) ==
    LET q == r.queue
        marked == [r EXCEPT !.txs = [t \in Txs |->
                      IF \E k \in 1..Len(q) : q[k] = t
                      THEN [r.txs[t] EXCEPT !.status = "sent", !.tries = r.txs[t].tries + 1]
                      ELSE r.txs[t]]]
    IN  putData(marked, latestState(r, WritesOf(r, q)), r.txs[q[Len(q)]].value, 0, q)

(* sendAllReadyTransactions: send if all of the queue have run.               *)
sendAllReadyTransactions(r) ==
    IF r.queue # <<>> /\ \A k \in 1..Len(r.queue) : r.txs[r.queue[k]].status = "run"
    THEN sendTransactionQueue(r) ELSE r

pruneCompleted(r) == [r EXCEPT !.queue =
                         SelectSeq(r.queue, LAMBDA t : r.txs[t].status # "completed")]

(* The transaction ends without its effect; its unwatcher is called.          *)
Aborted(r, t, why) == Report([r EXCEPT !.txs[t].status = "completed", !.txs[t].why = why], t, "aborted")

(* transaction.update: the block of the application.                          *)
Succeeds(v) == v \notin Abort

(* A rerun gets a write of its own before the old one is taken back.          *)
rerunOne(r, t, v) == LET new == addOverwrite(r, v + 1)
                     IN  removeWriteId([new EXCEPT !.txs[t].write = r.nextId,
                                                   !.txs[t].value = v + 1], r.txs[t].write)

(* One round of the loop of rerunTransactionQueue.                            *)
RerunStep(r, t, exclude) ==
    LET x == r.txs[t]
        v == latestState(r, exclude)
    IN  IF x.status = "needsAbort"
        THEN Aborted(IF x.why = "canceled" THEN r ELSE removeWriteId(r, x.write), t, x.why)
        ELSE IF x.status # "run" THEN r
        ELSE IF x.tries >= MaxRetries THEN Aborted(removeWriteId(r, x.write), t, "maxretry")
        ELSE IF Succeeds(v) THEN rerunOne(r, t, v)
        ELSE Aborted(removeWriteId(r, x.write), t, "none")

(* A write that was made anew is not excluded any more.                       *)
RerunLoop(r, q, exclude) ==
    LET Round(at, t) ==
            LET after == RerunStep(at.repo, t, at.exclude)
                old == at.repo.txs[t].write
            IN  [repo |-> after,
                 exclude |-> IF after.txs[t].write = old THEN at.exclude ELSE at.exclude \ {old}]
    IN  FoldLeft(Round, [repo |-> r, exclude |-> exclude], q).repo

(* rerunTransactionsForPath and rerunTransactionQueue.                        *)
rerunTransactions(r) ==
    IF r.queue = <<>> THEN r
    ELSE sendAllReadyTransactions(pruneCompleted(
             RerunLoop(r, r.queue, WritesOf(r, r.queue))))

(* The loop of abortTransactionsAtNode.                                       *)
AbortLoop(r, error) ==
    LET Round(at, t) ==
            IF at.txs[t].status = "sentNeedsAbort" THEN at
            ELSE IF at.txs[t].status = "sent"
            THEN [at EXCEPT !.txs[t].status = "sentNeedsAbort", !.txs[t].why = error]
            ELSE Aborted(IF error = "set" THEN removeWriteId(at, at.txs[t].write) ELSE at, t, error)
    IN  FoldLeft(Round, r, r.queue)

(* Slip in abortTransactionsAtNode: the queue is cleared in any case.         *)
AbortForgetsSent(r, error) == [AbortLoop(r, error) EXCEPT !.queue = <<>>]

(* abortTransactionsAtNode: what is sent waits for its answer; how many are   *)
(* kept is counted by those marked in this call (lastSent), so that a second  *)
(* abort drops what the first one left in the queue.                          *)
abortTransactions(r, error) ==
    LET At(status) == {k \in 1..Len(r.queue) : r.txs[r.queue[k]].status = status}
        marked == Cardinality(At("sent"))
        dropped == {r.queue[k] : k \in {j \in At("sentNeedsAbort") : j > marked}}
    IN  [AbortLoop(r, error) EXCEPT !.queue = SubSeq(r.queue, 1, marked),
                                    !.overtaken = r.overtaken \union dropped]

(* Each of them ends with its effect.                                         *)
Commit(r, q) ==
    LET CommitOne(at, t) == Report(removeWriteId([at EXCEPT !.txs[t].status = "completed"],
                                                 at.txs[t].write), t, "committed")
    IN  FoldLeft(CommitOne, r, q)

SetAll(r, q, F(_)) == [r EXCEPT !.txs = [t \in Txs |-> IF \E k \in 1..Len(q) : q[k] = t
                                                     THEN F(r.txs[t]) ELSE r.txs[t]]]

(* The answer to the write of transactions q, in sendTransactionQueue.        *)
TransactionsDone(r, q, status) ==
    rerunTransactions(
        IF status = "ok" THEN sendAllReadyTransactions(pruneCompleted(Commit(r, q)))
        ELSE IF status = "datastale"
        THEN SetAll(r, q, LAMBDA x : [x EXCEPT !.status =
                                        IF x.status = "sentNeedsAbort" THEN "needsAbort" ELSE "run"])
        ELSE SetAll(r, q, LAMBDA x : [x EXCEPT !.status = "needsAbort", !.why = status]))

(* ackWrite: the write of a set is taken back unless a purge did so; if this  *)
(* can be seen, transactions run again.                                       *)
ackWrite(r, id, status) ==
    IF status = "canceled" THEN r
    ELSE LET after == removeWriteId(r, id)
         IN  IF latestState(after, {}) # latestState(r, {}) THEN rerunTransactions(after) ELSE after

(* The completion block of an outstanding put.                                *)
PutDone(r, p, status) == IF p.txs = <<>> THEN ackWrite(r, p.write, status)
                         ELSE TransactionsDone(r, p.txs, status)

ackPuts(r) == LET AckOne(at, answer) == PutDone(at, answer.put, answer.status)
              IN  FoldLeft(AckOne, [r EXCEPT !.toAck = <<>>], r.toAck)

-----------------------------------------------------------------------------
(* addEventRegistration, where it is the first at the location: listen.       *)
Watch(r, t) == LET sent == [kind |-> "listen"]
               IN  IF r.listen THEN [r EXCEPT !.watchers = r.watchers \union {t}]
                   ELSE [r EXCEPT !.watchers = {t}, !.listen = TRUE,
                                  !.unacked = IF r.link THEN r.unacked + 1 ELSE r.unacked,
                                  !.up = IF r.link THEN Append(r.up, sent) ELSE r.up]

Unbroken(r) == ~r.broken

(* startTransactionOnPath: the first run is on what can be seen now.          *)
startTransaction(old, t) ==
    LET r == Watch(old, t)
        v == latestState(r, {})
        new == addOverwrite(r, v + 1)
    IN  IF Succeeds(v)
        THEN sendAllReadyTransactions(
                 [new EXCEPT !.txs[t] = [status |-> "run", tries |-> 0, write |-> r.nextId,
                                         value |-> v + 1, why |-> "none"],
                             !.queue = Append(r.queue, t)])
        ELSE Aborted(r, t, "none")

(* runTransactionBlock of FIRDatabaseReference, with a completion block.      *)
runTransactionBlock(t) ==
    /\ Unbroken(repo)
    /\ repo.txs[t].status = "none"
    /\ repo' = startTransaction(repo, t)
    /\ UNCHANGED <<down, remote, watched, applied, left, drops, purges>>

(* The unwatcher removes the observer in a block of its own; after the last   *)
(* one the location is not listened to and its data are dropped.              *)
Unwatch(t) == /\ Unbroken(repo)
              /\ t \in repo.watchers /\ repo.txs[t].status = "completed"
              /\ LET rest == repo.watchers \ {t}
                 IN  repo' = IF rest # {} THEN [repo EXCEPT !.watchers = rest]
                             ELSE [repo EXCEPT !.watchers = {}, !.listen = FALSE, !.cache = NoValue,
                                               !.up = IF repo.link
                                                      THEN Append(repo.up, [kind |-> "unlisten"])
                                                      ELSE repo.up]
              /\ UNCHANGED <<down, remote, watched, applied, left, drops, purges>>

(* set: record the write, send it, then abort the transactions in its way.    *)
set(r, v) == rerunTransactions(abortTransactions(
                 putData(addOverwrite(r, v), NoValue, v, r.nextId, <<>>), "set"))

(* setValue and removeValue of FIRDatabaseReference.                          *)
setValue(v) == /\ Unbroken(repo)
               /\ v \in left.set
               /\ left' = [left EXCEPT !.set = left.set \ {v}]
               /\ repo' = set(repo, v)
               /\ UNCHANGED <<down, remote, watched, applied, drops, purges>>

CancelAll(r, puts) == LET CancelOne(at, p) == PutDone(at, p, "canceled")
                      IN  FoldLeft(CancelOne, r, puts)

(* purgeOutstandingWrites of FRepo, then of the connection.                   *)
purgeOutstandingWrites ==
    /\ Unbroken(repo)
    /\ purges < MaxPurges /\ purges' = purges + 1
    /\ LET purged == [repo EXCEPT !.writes = <<>>,
                                   !.withheld = repo.withheld \/ repo.toAck # <<>>]
           acked == ackPuts(abortTransactions(purged, "canceled"))
       IN  repo' = [CancelAll(acked, acked.puts) EXCEPT !.puts = <<>>]
    /\ UNCHANGED <<down, remote, watched, applied, left, drops>>

-----------------------------------------------------------------------------
(* The connection.                                                            *)

(* onDisconnect: cancelSentTransactions.                                      *)
cancelSent(r) ==
    LET Lost(p) == p.txs # <<>> /\ p.sent
        Disconnect(at, p) == TransactionsDone(at, p.txs, "disconnect")
    IN  FoldLeft(Disconnect, [r EXCEPT !.puts = SelectSeq(r.puts, LAMBDA p : ~Lost(p))],
                 SelectSeq(r.puts, Lost))

onDisconnect == /\ Unbroken(repo)
                /\ repo.link /\ drops < MaxDrops /\ drops' = drops + 1
                /\ repo' = cancelSent([repo EXCEPT !.link = FALSE, !.unacked = 0, !.up = <<>>])
                /\ down' = <<>> /\ watched' = FALSE
                /\ UNCHANGED <<remote, applied, left, purges>>

(* restoreState: the listen, then the outstanding writes in their order.      *)
Reconnect == /\ Unbroken(repo)
             /\ ~repo.link
             /\ repo' = [repo EXCEPT !.link = TRUE,
                             !.unacked = IF repo.listen THEN 1 ELSE 0,
                             !.puts = [k \in 1..Len(repo.puts) |-> [repo.puts[k] EXCEPT !.sent = TRUE]],
                             !.up = (IF repo.listen THEN <<[kind |-> "listen"]>> ELSE <<>>) \o
                                    [k \in 1..Len(repo.puts) |-> [repo.puts[k] EXCEPT !.sent = TRUE]]]
             /\ UNCHANGED <<down, remote, watched, applied, left, drops, purges>>

(* Slip in onDataUpdate: data hidden by a pending write are not kept.         *)
IgnoreHidden(r, v) == IF r.writes # <<>> THEN r ELSE rerunTransactions([r EXCEPT !.cache = v])

(* onDataUpdate: the cache takes the data; if this can be seen, transactions  *)
(* run again.                                                                 *)
onDataUpdate(r, v) ==
    LET after == [r EXCEPT !.cache = v]
    IN  IF r.cache = NoValue \/ latestState(after, {}) # latestState(r, {})
        THEN rerunTransactions(after) ELSE after

onDataMessage ==
    /\ Unbroken(repo)
    /\ down # <<>>
    /\ down' = Tail(down)
    /\ LET m == Head(down)
       IN  repo' = CASE m.kind = "data" -> IF repo.listen THEN onDataUpdate(repo, m.value) ELSE repo
                     [] m.kind = "listen" ->
                          LET r == [repo EXCEPT !.unacked = repo.unacked - 1]
                          IN  IF r.unacked = 0 THEN ackPuts(r) ELSE r
                     [] m.kind = "put" ->
                          IF \A k \in 1..Len(repo.puts) : repo.puts[k].no # m.put.no THEN repo
                          ELSE LET r == [repo EXCEPT !.puts =
                                           SelectSeq(repo.puts, LAMBDA p : p.no # m.put.no)]
                               IN  IF r.unacked = 0 THEN PutDone(r, m.put, m.status)
                                   ELSE [r EXCEPT !.toAck = Append(r.toAck,
                                                     [put |-> m.put, status |-> m.status])]
    /\ UNCHANGED <<remote, watched, applied, left, drops, purges>>

-----------------------------------------------------------------------------
(* External: the server.  A transaction's write is applied if the value is    *)
(* the one it was computed from.                                              *)
TakePut(k) ==
    LET p == repo.up[k]
        ok == p.hash = NoValue \/ p.hash = remote
        status == IF ok THEN "ok" ELSE "datastale"
    IN  /\ p.kind = "put" /\ \A j \in 1..k - 1 : repo.up[j].kind = "listen"
        /\ remote' = IF ok THEN p.value ELSE remote
        /\ applied' = IF ok THEN Append(applied, p.txs) ELSE applied
        /\ down' = down \o (IF watched /\ remote' # remote
                            THEN <<[kind |-> "data", value |-> remote']>> ELSE <<>>)
                        \o <<[kind |-> "put", put |-> p, status |-> status]>>
        /\ UNCHANGED watched

TakeListen(k) ==
    /\ repo.up[k].kind = "listen"
    /\ \A j \in 1..k - 1 : repo.up[j].kind = "listen"
    /\ watched' = TRUE
    /\ down' = down \o <<[kind |-> "data", value |-> remote], [kind |-> "listen"]>>
    /\ UNCHANGED <<remote, applied>>

TakeUnlisten(k) == /\ repo.up[k].kind = "unlisten" /\ k = 1
                   /\ watched' = FALSE
                   /\ UNCHANGED <<down, remote, applied>>

ServerTakes ==
    \E k \in 1..Len(repo.up) :
        /\ TakePut(k) \/ TakeListen(k) \/ TakeUnlisten(k)
        /\ repo' = [repo EXCEPT !.up = SubSeq(repo.up, 1, k - 1) \o SubSeq(repo.up, k + 1, Len(repo.up))]
        /\ UNCHANGED <<left, drops, purges>>

(* External: another client writes.                                           *)
OthersWrite == \E v \in left.foreign :
    /\ left' = [left EXCEPT !.foreign = left.foreign \ {v}]
    /\ remote' = v
    /\ down' = IF watched THEN Append(down, [kind |-> "data", value |-> v]) ELSE down
    /\ UNCHANGED <<repo, watched, applied, drops, purges>>

Next == \/ \E t \in Txs : runTransactionBlock(t) \/ Unwatch(t)
        \/ \E v \in SetValues : setValue(v)
        \/ purgeOutstandingWrites \/ onDisconnect \/ Reconnect \/ onDataMessage
        \/ ServerTakes \/ OthersWrite

Spec == Init /\ [][Next]_vars

-----------------------------------------------------------------------------
(* FWriteTree.removeWriteId: "called with nonexistent writeId" never happens: *)
(* no write is taken back twice, by an answer, a rerun, an abort or a purge.  *)
WriteIdsExist == ~repo.broken

(* The same, but for a purge that finds answers held back for a listen: these *)
(* answer writes that removeAllWrites has just taken.                         *)
WritesTakenBackOnce == repo.broken => repo.withheld

(* abortTransactionsAtNode: a transaction that was started has completed or   *)
(* is where the answer to its write will find it, unless two aborts met it    *)
(* while it waited for that answer.                                           *)
NoLostTransaction == \A t \in Txs :
    \/ repo.txs[t].status \in {"none", "completed"}
    \/ \E k \in 1..Len(repo.queue) : repo.queue[k] = t
    \/ t \in repo.overtaken

(* The value the application sees is not changed by a write that nobody will  *)
(* ever take back: each pending write is that of a put that is not answered,  *)
(* of a transaction in the queue, or of one that was overtaken.               *)
NoPhantomWrites == \A k \in 1..Len(repo.writes) :
    \/ \E j \in 1..Len(repo.puts) : repo.puts[j].write = repo.writes[k].id
    \/ \E j \in 1..Len(repo.toAck) : repo.toAck[j].put.write = repo.writes[k].id
    \/ repo.writes[k].id \in WritesOf(repo, repo.queue)
    \/ \E t \in repo.overtaken : repo.txs[t].write = repo.writes[k].id

(* FIRDatabaseReference.h, runTransactionBlock: the completion block of a     *)
(* transaction is called once, and "committed" only if the server has applied *)
(* it, exactly once; it is applied at most once in any case.                  *)
CommittedOnce == \A t \in Txs :
    LET times == Cardinality({n \in 1..Len(applied) : \E k \in 1..Len(applied[n]) : applied[n][k] = t})
    IN  /\ Len(repo.reports[t]) <= 1
        /\ times <= 1
        /\ repo.reports[t] = <<"committed">> => times = 1

(* With nothing under way the client sees what the server has, but for the    *)
(* write of a transaction that was overtaken.                                 *)
InSync ==
    (repo.link /\ watched /\ repo.listen /\ repo.up = <<>> /\ down = <<>> /\ repo.toAck = <<>>)
        => /\ repo.cache = remote
           /\ repo.overtaken = {} => repo.writes = <<>>

(* No request and no message is under way.                                    *)
Quiet == repo.link /\ repo.up = <<>> /\ down = <<>>

(* A transaction waits for nothing but the server: when nothing is under way, *)
(* every transaction that was started has completed, unless it was overtaken. *)
QuietMeansComplete == Quiet =>
    \A t \in Txs : repo.txs[t].status \in {"none", "completed"} \/ t \in repo.overtaken

(* FIRDatabaseReference.h, runTransactionBlock: "This block will be triggered *)
(* once the transaction is complete, whether it was successful or not."       *)
EveryBlockCalled == Quiet => \A t \in Txs : repo.txs[t].status # "none" => repo.reports[t] # <<>>
=============================================================================
