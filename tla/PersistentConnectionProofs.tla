---------------------- MODULE PersistentConnectionProofs ----------------------
(* What holds of the link to the server for any number of writes, operations, *)
(* listens, calls and faults, whatever the rules of the server refuse: there  *)
(* is one connection, no write is lost or comes back, and the server applies  *)
(* them in order.                                                             *)
EXTENDS PersistentConnection, SequenceTheorems, FiniteSetTheorems, TLAPS

(* The inductive invariant.                                                   *)

Requests == [kind : {"auth", "listen", "put", "op"}, id : Nat,
             more : BOOLEAN \union Queries \union {""}, status : {"sent", "ok", "fail"}]

Answers == [put : Nat, status : {"ok", "fail", "disconnect", "canceled"}]

(* What the client keeps, what is on the wire, what the server keeps.         *)
ClientData == /\ putCounter \in 0..MaxPuts /\ Outstanding \subseteq 1..putCounter
              /\ \A p \in Outstanding : puts[p] \in Put
              /\ listens \in [Queries -> Nat] /\ listenNo \in Nat
              /\ opQueue \in Seq(Nat) /\ opNo \in Nat
              /\ putsToAck \in Seq(Answers) /\ reports \in Seq(Answers)

WireData == /\ wire \in Seq(Requests)
            /\ \A i \in 1..Len(wire) :
                  /\ wire[i].kind \in {"auth", "put"} => wire[i].more \in BOOLEAN
                  /\ wire[i].kind = "listen" => wire[i].more \in Queries

ServerData == /\ issued \in Nat /\ revoked \in 0..issued /\ refused \in 0..revoked
              /\ token \in 0..issued
              /\ applied \in Seq([put : Nat, hash : BOOLEAN])

(* The states of the link by themselves.                                      *)
States == /\ state \in {"Disconnected", "GettingToken", "Connecting", "Authenticating", "Connected"}
          /\ interrupts \subseteq Reasons
          /\ retry \in {"none", "plain", "force"}
          /\ realtime \in {"none", "connecting", "connected"}
          /\ attempt \in Nat /\ DOMAIN fetches \subseteq 1..attempt

(* A fetch that is the latest attempt has not opened a connection yet.        *)
LatestFetch == attempt \in DOMAIN fetches => state \in {"Disconnected", "GettingToken"}

(* An auth request carries a token that was issued, and fails if it is stale. *)
AuthRequests == \A i \in 1..Len(wire) : wire[i].kind = "auth" =>
                   wire[i].id \in 1..issued /\ (wire[i].status = "fail" => wire[i].id <= revoked)

IsPut(w, i) == w[i].kind = "put"

(* The first auth request of a connection is ahead of everything else, and is *)
(* answered before a write is sent.                                           *)
AuthFirst == /\ \A i \in 1..Len(wire) : wire[i].kind = "auth" /\ wire[i].more =>
                   i = 1 /\ state = "Authenticating"
             /\ state = "Authenticating" =>
                   wire # <<>> /\ wire[1].kind = "auth" /\ wire[1].more

LinkStates == States /\ OneConnection /\ InterruptedMeansOffline /\ LatestFetch

LinkInv == /\ LinkStates /\ ClientData /\ WireData /\ ServerData
           /\ CountsListens /\ AuthRequests /\ AuthFirst

Ids(s) == {s[k].put : k \in 1..Len(s)}

Once(s) == \A k, l \in 1..Len(s) : s[k].put = s[l].put => k = l

(* Every write is outstanding, held back or reported, and only one of these.  *)
Settled == /\ Once(reports) /\ Once(putsToAck)
           /\ Ids(reports) \intersect Ids(putsToAck) = {}
           /\ Ids(reports) \intersect Outstanding = {}
           /\ Ids(putsToAck) \intersect Outstanding = {}
           /\ Ids(reports) \union Ids(putsToAck) \union Outstanding = 1..putCounter

(* What is on the wire: the writes in their order, the requests the server    *)
(* has taken ahead of the others, and while connected everything outstanding. *)
WireInOrder ==
    /\ \A i, j \in 1..Len(wire) : i < j =>
          /\ IsPut(wire, i) /\ IsPut(wire, j) => wire[i].id < wire[j].id
          /\ wire[j].status # "sent" => wire[i].status # "sent"
    /\ \A i \in 1..Len(wire) : IsPut(wire, i) =>
          /\ state = "Connected" /\ wire[i].id \in 1..putCounter
          /\ wire[i].id \in Outstanding => /\ puts[wire[i].id].sent
                                           /\ puts[wire[i].id].hash = wire[i].more
    /\ state = "Connected" =>
          \A p \in Outstanding : \E i \in 1..Len(wire) : IsPut(wire, i) /\ wire[i].id = p
    /\ state # "Connected" => \A p \in Outstanding : puts[p].hash => ~puts[p].sent

(* A transaction the server has applied is not sent again.                    *)
AppliedOnce ==
    /\ TransactionsAppliedOnce
    /\ \A m \in 1..Len(applied) :
          /\ applied[m].put \in 1..putCounter
          /\ applied[m].put \in Outstanding =>
                /\ puts[applied[m].put].hash = applied[m].hash
                /\ applied[m].hash => puts[applied[m].put].sent
          /\ \A i \in 1..Len(wire) : IsPut(wire, i) /\ wire[i].id = applied[m].put =>
                /\ wire[i].more = applied[m].hash
                /\ applied[m].hash => wire[i].status # "sent"

(* The write p was answered with ok.                                          *)
Committed(p) == \/ \E k \in 1..Len(reports) : reports[k].put = p /\ reports[k].status = "ok"
                \/ \E k \in 1..Len(putsToAck) : putsToAck[k].put = p /\ putsToAck[k].status = "ok"

(* The last write the server applied is as new as p.                          *)
Reached(p) == applied # <<>> /\ p <= applied[Len(applied)].put

(* What is still to be sent is newer than what was answered.                  *)
NewerToCome ==
    /\ \A p \in 1..putCounter : Committed(p) =>
          /\ Reached(p)
          /\ \A q \in Outstanding : p < q
          /\ \A i \in 1..Len(wire) : IsPut(wire, i) => p < wire[i].id
    /\ \A i \in 1..Len(wire) : IsPut(wire, i) /\ wire[i].status = "ok" => Reached(wire[i].id)

OrderInv == Settled /\ WireInOrder /\ AppliedOnce /\ NewerToCome

-----------------------------------------------------------------------------
(* Proofs.                                                                    *)

(* An empty sequence has no positions.                                        *)
LEMMA EmptyWire == Len(<<>>) = 0 /\ 1..0 = {}
  OBVIOUS

(* What the calls that close a connection leave behind.                       *)
LEMMA Closes ==
    ASSUME LinkStates, NEW b, onDisconnect(b), realtime # "none",
           interrupts' \subseteq Reasons, UNCHANGED <<fetches, attempt>>
    PROVE  LinkStates'
  BY DEF LinkStates, States, OneConnection, InterruptedMeansOffline, LatestFetch,
         onDisconnect, tryScheduleReconnect, Block, connected

(* Every step keeps the states of the link consistent.                        *)
LEMMA LinkStatesStep ==
    ASSUME LinkStates, Next
    PROVE  LinkStates'
<1> USE DEF LinkStates
<1>1. CASE Link
  <2>1. CASE open
    BY <2>1 DEF open, resumeForReason, tryScheduleReconnect, Block, States, OneConnection,
                InterruptedMeansOffline, LatestFetch, connected
  <2>2. CASE goOnline
    BY <2>2 DEF goOnline, resumeForReason, tryScheduleReconnect, Block, States, OneConnection,
                InterruptedMeansOffline, LatestFetch, connected
  <2>3. CASE RetryFires
    BY <2>3 DEF RetryFires, States, OneConnection, InterruptedMeansOffline, LatestFetch, connected
  <2>4. CASE onReady
    BY <2>4 DEF onReady, restoreState, States, OneConnection, InterruptedMeansOffline,
                LatestFetch, connected
  <2>5. ASSUME NEW n \in DOMAIN fetches, TokenFetched(n) PROVE LinkStates'
    BY <2>5 DEF TokenFetched, IsLatest, Without, States, OneConnection, InterruptedMeansOffline,
                LatestFetch, connected
  <2> QED
    BY <1>1, <2>1, <2>2, <2>3, <2>4, <2>5 DEF Link
<1>2. CASE Failures
  <2>1. CASE ConnectionLost
    BY <2>1, Closes DEF ConnectionLost, States
  <2>2. CASE onKill
    <3>1. /\ interrupts' \subseteq Reasons /\ onDisconnect(force) /\ UNCHANGED <<fetches, attempt>>
          /\ realtime # "none"
      BY <2>2 DEF onKill, interruptForReason, States, Reasons
    <3> QED
      BY <3>1, Closes
  <2>3. CASE TokenExpires
    BY <2>3 DEF TokenExpires, linkVars, States, OneConnection, InterruptedMeansOffline,
                LatestFetch, connected
  <2>4. CASE onAuthRevoked
    BY <2>4, Closes DEF onAuthRevoked, States, OneConnection, connected
  <2>5. ASSUME NEW n \in DOMAIN fetches, TokenFailed(n) PROVE LinkStates'
    BY <2>5 DEF TokenFailed, IsLatest, Without, tryScheduleReconnect, Block, States,
                OneConnection, InterruptedMeansOffline, LatestFetch, connected
  <2>6. ASSUME NEW q \in Queries, onListenRevoked(q) PROVE LinkStates'
    BY <2>6 DEF onListenRevoked, linkVars, States, OneConnection, InterruptedMeansOffline,
                LatestFetch, connected
  <2> QED
    BY <1>2, <2>1, <2>2, <2>3, <2>4, <2>5, <2>6 DEF Failures
<1>3. CASE Calls
  <2>1. CASE goOffline
    <3>1. interrupts' \subseteq Reasons /\ UNCHANGED <<fetches, attempt>>
      BY <2>1 DEF goOffline, interruptForReason, States, Reasons
    <3>2. CASE realtime # "none"
      BY <2>1, <3>1, <3>2, Closes DEF goOffline, interruptForReason
    <3>3. CASE realtime = "none"
      BY <2>1, <3>1, <3>3 DEF goOffline, interruptForReason, States, OneConnection,
                              InterruptedMeansOffline, LatestFetch, connected
    <3> QED
      BY <3>2, <3>3
  <2>2. CASE NetworkReachable
    BY <2>2 DEF NetworkReachable, tryScheduleReconnect, Block, States, OneConnection,
                InterruptedMeansOffline, LatestFetch, connected
  <2>3. CASE refreshAuthToken
    BY <2>3 DEF refreshAuthToken, States, OneConnection, InterruptedMeansOffline,
                LatestFetch, connected
  <2>4. CASE purgeOutstandingWrites
    BY <2>4 DEF purgeOutstandingWrites, linkVars, States, OneConnection, InterruptedMeansOffline,
                LatestFetch, connected
  <2>5. CASE onDisconnectSetValue
    BY <2>5 DEF onDisconnectSetValue, onDisconnectOperation, canSendWrites, linkVars, States,
                OneConnection, InterruptedMeansOffline, LatestFetch, connected
  <2>6. ASSUME NEW h \in BOOLEAN, putInternal(h) PROVE LinkStates'
    BY <2>6 DEF putInternal, canSendWrites, linkVars, States, OneConnection,
                InterruptedMeansOffline, LatestFetch, connected
  <2>7. ASSUME NEW q \in Queries, listen(q) \/ unlisten(q) PROVE LinkStates'
    BY <2>7 DEF listen, unlisten, linkVars, States, OneConnection, InterruptedMeansOffline,
                LatestFetch, connected
  <2> QED
    BY <1>3, <2>1, <2>2, <2>3, <2>4, <2>5, <2>6, <2>7 DEF Calls
<1>4. CASE ServerTakes
  <2>1. connected /\ UNCHANGED linkVars
    BY <1>4, EmptyWire DEF ServerTakes, OneConnection
  <2> QED
    BY <2>1 DEF linkVars, States, OneConnection, InterruptedMeansOffline, LatestFetch, connected
<1>5. CASE onDataMessage
  <2>1. PICK i \in 1..Len(wire) : /\ Answerable(i)
                                  /\ \/ AuthAnswered(i) \/ PutAnswered(i)
                                     \/ ListenAnswered(i) \/ OpAnswered(i)
    BY <1>5 DEF onDataMessage
  <2>2. connected
    BY <2>1, EmptyWire DEF OneConnection
  <2>3. CASE AuthAnswered(i) /\ wire[i].status = "fail"
    BY <2>2, <2>3, Closes DEF AuthAnswered, States, OneConnection, connected
  <2>4. CASE AuthAnswered(i) /\ wire[i].status # "fail"
    BY <2>2, <2>4 DEF AuthAnswered, States, OneConnection, InterruptedMeansOffline,
                      LatestFetch, connected
  <2>5. CASE PutAnswered(i) \/ ListenAnswered(i) \/ OpAnswered(i)
    BY <2>2, <2>5 DEF PutAnswered, ListenAnswered, OpAnswered, linkVars, States, OneConnection,
                      InterruptedMeansOffline, LatestFetch, connected
  <2> QED
    BY <2>1, <2>3, <2>4, <2>5
<1> QED
  BY <1>1, <1>2, <1>3, <1>4, <1>5 DEF Next

(* ascending lists the elements of a finite set of numbers, each once.        *)
LEMMA AscendingIs ==
    ASSUME NEW n \in Nat, NEW S \in SUBSET (1..n)
    PROVE  /\ IsFiniteSet(S) /\ Cardinality(S) \in Nat
           /\ DOMAIN ascending(S) = 1..Cardinality(S)
           /\ \A k \in 1..Cardinality(S) : ascending(S)[k] \in S
           /\ \A j, k \in 1..Cardinality(S) : j < k => ascending(S)[j] < ascending(S)[k]
           /\ \A x \in S : \E k \in 1..Cardinality(S) : ascending(S)[k] = x
<1> DEFINE c == Cardinality(S)
           rank == [x \in S |-> Cardinality(UpTo(S, x))]
<1>0. \A x \in S : x \in Int
  OBVIOUS
<1>1. IsFiniteSet(S) /\ c \in Nat
  <2>1. IsFiniteSet(1..n)
    BY FS_Interval
  <2>2. IsFiniteSet(S)
    BY <2>1, FS_Subset
  <2> QED
    BY <2>2, FS_CardinalityType
<1>2. ASSUME NEW x \in S
      PROVE  /\ IsFiniteSet(UpTo(S, x)) /\ Cardinality(UpTo(S, x)) \in 1..c
  <2>1. UpTo(S, x) \in SUBSET S /\ x \in UpTo(S, x)
    BY DEF UpTo
  <2>2. IsFiniteSet(UpTo(S, x)) /\ Cardinality(UpTo(S, x)) <= c
    BY <1>1, <2>1, FS_Subset
  <2>3. Cardinality(UpTo(S, x)) \in Nat /\ Cardinality(UpTo(S, x)) # 0
    BY <2>1, <2>2, FS_CardinalityType, FS_EmptySet
  <2> QED
    BY <1>1, <2>2, <2>3
<1>3. ASSUME NEW x \in S, NEW y \in S, x < y
      PROVE  Cardinality(UpTo(S, x)) < Cardinality(UpTo(S, y))
  <2>0. x \in Int /\ y \in Int /\ y <= y /\ ~(y <= x) /\ \A z \in S : z <= x => z <= y
    BY <1>0, <1>3
  <2>1. UpTo(S, x) \in SUBSET UpTo(S, y) /\ y \in UpTo(S, y) /\ y \notin UpTo(S, x)
    BY <2>0, Zenon DEF UpTo
  <2>2. /\ Cardinality(UpTo(S, x)) <= Cardinality(UpTo(S, y))
        /\ Cardinality(UpTo(S, x)) # Cardinality(UpTo(S, y))
    BY <1>2, <2>1, FS_Subset
  <2> QED
    BY <1>1, <1>2, <2>2
<1>4. \A x, y \in S : Cardinality(UpTo(S, x)) = Cardinality(UpTo(S, y)) => x = y
  <2> SUFFICES ASSUME NEW x \in S, NEW y \in S, x # y
               PROVE  Cardinality(UpTo(S, x)) # Cardinality(UpTo(S, y))
    OBVIOUS
  <2>1. x < y \/ y < x
    OBVIOUS
  <2> QED
    BY <1>1, <1>2, <1>3, <2>1
<1>5. rank \in Injection(S, 1..c)
  BY <1>2, <1>4 DEF Injection, IsInjective
<1>6. rank \in Surjection(S, 1..c)
  <2>1. IsFiniteSet(1..c) /\ Cardinality(1..c) = c
    BY <1>1, FS_Interval
  <2> QED
    BY <1>5, <2>1, FS_Injection
<1>7. \A k \in 1..c : \E x \in S : Cardinality(UpTo(S, x)) = k
  BY <1>6 DEF Surjection
<1>8. \A k \in 1..c : ascending(S)[k] \in S /\ Cardinality(UpTo(S, ascending(S)[k])) = k
  <2> TAKE k \in 1..c
  <2>1. ascending(S)[k] = CHOOSE x \in S : Cardinality(UpTo(S, x)) = k
    BY DEF ascending
  <2> QED
    BY <1>7, <2>1
<1>9. \A j, k \in 1..c : j < k => ascending(S)[j] < ascending(S)[k]
  <2> SUFFICES ASSUME NEW j \in 1..c, NEW k \in 1..c, j < k,
                      ~(ascending(S)[j] < ascending(S)[k])
               PROVE  FALSE
    OBVIOUS
  <2>1. ascending(S)[j] \in S /\ ascending(S)[k] \in S
    BY <1>8
  <2>2. ascending(S)[k] < ascending(S)[j] \/ ascending(S)[k] = ascending(S)[j]
    <3> DEFINE a == ascending(S)[j]
               b == ascending(S)[k]
    <3>1. a \in Int /\ b \in Int
      BY <1>0, <2>1
    <3> HIDE DEF a, b
    <3>2. a < b \/ b < a \/ b = a
      BY <3>1
    <3> QED
      BY <3>2 DEF a, b
  <2>3. k < j \/ k = j
    <3>1. CASE ascending(S)[k] < ascending(S)[j]
      BY <1>3, <1>8, <2>1, <3>1
    <3>2. CASE ascending(S)[k] = ascending(S)[j]
      <4>1. Cardinality(UpTo(S, ascending(S)[k])) = k /\ Cardinality(UpTo(S, ascending(S)[j])) = j
        BY <1>8
      <4> QED
        BY <3>2, <4>1
    <3> QED
      BY <2>2, <3>1, <3>2
  <2> QED
    BY <2>3
<1>10. \A x \in S : \E k \in 1..c : ascending(S)[k] = x
  BY <1>2, <1>4, <1>8
<1>11. DOMAIN ascending(S) = 1..c
  BY DEF ascending
<1> QED
  BY <1>1, <1>8, <1>9, <1>10, <1>11

-----------------------------------------------------------------------------
(* The three ways in which the wire changes: a request is added at its end,   *)
(* taken out when it is answered, or marked by the server; and restoreState.  *)

(* A request that is sent goes behind those on the wire.                      *)
LEMMA SentIs ==
    ASSUME NEW w \in Seq(Requests), NEW r \in Requests
    PROVE  /\ Append(w, r) \in Seq(Requests)
           /\ Len(w) \in Nat /\ Len(Append(w, r)) = Len(w) + 1
           /\ Append(w, r)[Len(w) + 1] = r
           /\ \A j \in 1..Len(w) : Append(w, r)[j] = w[j]
  BY AppendProperties, LenProperties

(* An answered request leaves the wire; those behind it move up.              *)
LEMMA AnsweredIs ==
    ASSUME wire \in Seq(Requests), NEW i \in 1..Len(wire)
    PROVE  /\ Answered(i) \in Seq(Requests)
           /\ Len(wire) \in Nat /\ Len(Answered(i)) = Len(wire) - 1
           /\ \A j \in 1..(Len(wire) - 1) : Answered(i)[j] = wire[IF j < i THEN j ELSE j + 1]
<1> DEFINE a == SubSeq(wire, 1, i - 1)
           b == SubSeq(wire, i + 1, Len(wire))
<1>1. Len(wire) \in Nat /\ \A j \in 1..Len(wire) : wire[j] \in Requests
  BY LenProperties, ElementOfSeq
<1>2. /\ a \in Seq(Requests) /\ Len(a) = i - 1
      /\ \A j \in 1..(i - 1) : a[j] = wire[j]
  <2>1. \A j \in 1..(i - 1) : wire[j] \in Requests
    BY <1>1
  <2> QED
    BY <1>1, <2>1, SubSeqProperties
<1>3. /\ b \in Seq(Requests) /\ Len(b) = Len(wire) - i
      /\ \A j \in 1..(Len(wire) - i) : b[j] = wire[i + j]
  <2>1. \A j \in (i + 1)..Len(wire) : wire[j] \in Requests
    BY <1>1
  <2> QED
    BY <1>1, <2>1, SubSeqProperties
<1> HIDE DEF a, b
<1>4. /\ a \o b \in Seq(Requests) /\ Len(a \o b) = Len(a) + Len(b)
      /\ \A j \in 1..(Len(a) + Len(b)) :
            (a \o b)[j] = IF j <= Len(a) THEN a[j] ELSE b[j - Len(a)]
  BY <1>2, <1>3, ConcatProperties
<1>5. \A j \in 1..(Len(wire) - 1) : (a \o b)[j] = wire[IF j < i THEN j ELSE j + 1]
  <2> TAKE j \in 1..(Len(wire) - 1)
  <2>1. CASE j < i
    BY <1>1, <1>2, <1>3, <1>4, <2>1
  <2>2. CASE j >= i
    <3>1. (a \o b)[j] = b[j - (i - 1)] /\ j - (i - 1) \in 1..(Len(wire) - i)
      BY <1>1, <1>2, <1>3, <1>4, <2>2
    <3> QED
      BY <1>1, <1>3, <2>2, <3>1
  <2>3. j < i \/ j >= i
    BY <1>1
  <2> QED
    BY <2>1, <2>2, <2>3
<1>6. Len(a) + Len(b) = Len(wire) - 1
  BY <1>1, <1>2, <1>3
<1>7. Answered(i) = a \o b
  BY DEF Answered, a, b
<1> QED
  BY <1>1, <1>4, <1>5, <1>6, <1>7

(* The server marks the request it has worked off, and no other.              *)
LEMMA TakenIs ==
    ASSUME wire \in Seq(Requests), NEW i \in 1..Len(wire), NEW s \in {"ok", "fail"},
           wire' = [wire EXCEPT ![i].status = s]
    PROVE  /\ wire' \in Seq(Requests) /\ Len(wire') = Len(wire) /\ Len(wire) \in Nat
           /\ \A j \in 1..Len(wire) :
                 /\ wire'[j].kind = wire[j].kind /\ wire'[j].id = wire[j].id
                 /\ wire'[j].more = wire[j].more
                 /\ wire'[j].status = IF j = i THEN s ELSE wire[j].status
<1>1. Len(wire) \in Nat /\ \A j \in 1..Len(wire) : wire[j] \in Requests
  BY LenProperties, ElementOfSeq
<1> DEFINE e == [wire[i] EXCEPT !.status = s]
<1>2. e \in Requests /\ e.kind = wire[i].kind /\ e.id = wire[i].id /\ e.more = wire[i].more
      /\ e.status = s
  BY <1>1 DEF Requests
<1>3. wire' = [wire EXCEPT ![i] = e]
  OBVIOUS
<1> HIDE DEF e
<1>4. /\ wire' \in Seq(Requests) /\ Len(wire') = Len(wire)
      /\ \A j \in 1..Len(wire) : wire'[j] = IF j = i THEN e ELSE wire[j]
  BY <1>2, <1>3, ExceptSeq
<1> QED
  BY <1>1, <1>2, <1>4

(* w is what restoreState makes of the wire before: n listens, the p writes   *)
(* that are outstanding in their order, and the queued operations.            *)
Restored(before, w, n, p) ==
    LET a == Len(before)
    IN  /\ w \in Seq(Requests) /\ Len(w) = a + n + p + Len(opQueue)
        /\ \A j \in 1..a : w[j] = before[j]
        /\ \A j \in (a + 1)..(a + n) : /\ w[j].kind = "listen" /\ w[j].status = "sent"
                                       /\ w[j].more \in Queries
        /\ \A j \in (a + n + 1)..(a + n + p) :
              /\ w[j].kind = "put" /\ w[j].status = "sent"
              /\ w[j].id = ascending(Outstanding)[j - a - n]
              /\ w[j].more = puts[w[j].id].hash
        /\ \A j \in (a + n + p + 1)..Len(w) : w[j].kind = "op" /\ w[j].status = "sent"

(* A request has the parts it was made from.                                  *)
LEMMA RequestIs ==
    ASSUME NEW r, NEW k \in {"auth", "listen", "put", "op"}, NEW x \in Nat,
           NEW m \in BOOLEAN \union Queries \union {""}, r = Request(k, x, m)
    PROVE  /\ r \in Requests
           /\ r.kind = k /\ r.id = x /\ r.more = m /\ r.status = "sent"
  BY DEF Request, Requests

(* restoreState sends listens, then the writes in ascending order, then the   *)
(* operations, each of them once.                                             *)
LEMMA RestoredIs ==
    ASSUME IsFiniteSet(Queries), MaxPuts \in Nat, ClientData,
           NEW before \in Seq(Requests), restoreState(before)
    PROVE  /\ Cardinality(ActiveListens) \in Nat /\ Cardinality(Outstanding) \in Nat
           /\ Restored(before, wire', Cardinality(ActiveListens), Cardinality(Outstanding))
<1> DEFINE n == Cardinality(ActiveListens)
           p == Cardinality(Outstanding)
           asc == ascending(Outstanding)
           a == Len(before)
           o == Len(opQueue)
<1>1. n \in Nat
  <2>1. IsFiniteSet(ActiveListens)
    BY FS_Subset DEF ActiveListens
  <2> QED
    BY <2>1, FS_CardinalityType
<1>2. /\ p \in Nat /\ DOMAIN asc = 1..p /\ \A k \in 1..p : asc[k] \in Outstanding
  <2>1. putCounter \in Nat /\ Outstanding \in SUBSET (1..putCounter)
    BY DEF ClientData
  <2> QED
    BY <2>1, AscendingIs
<1>3. PICK order \in Orders(ActiveListens) :
           wire' = before \o listenRequests(order) \o PutRequests(asc) \o OpRequests
  BY DEF restoreState, RestoreOrder
<1> DEFINE ls == listenRequests(order)
           ps == PutRequests(asc)
           os == OpRequests
<1>4. order \in [1..n -> Queries] /\ \A k \in 1..n : listens[order[k]] \in Nat
  BY DEF Orders, ActiveListens, ClientData
<1>5. order \in Seq(Queries) /\ Len(order) = n
  BY <1>1, <1>4, SeqDef, LenProperties
<1>6. /\ ls \in Seq(Requests) /\ Len(ls) = n
      /\ \A k \in 1..n : ls[k].kind = "listen" /\ ls[k].status = "sent" /\ ls[k].more \in Queries
  <2>1. ls = [k \in 1..n |-> Request("listen", listens[order[k]], order[k])]
    BY <1>5 DEF listenRequests
  <2>2. ASSUME NEW k \in 1..n
        PROVE  /\ ls[k] \in Requests /\ ls[k].kind = "listen"
               /\ ls[k].status = "sent" /\ ls[k].more \in Queries
    <3> DEFINE x == listens[order[k]]
               q == order[k]
               r == ls[k]
    <3>1. r = Request("listen", x, q)
      BY <2>1
    <3>2. x \in Nat /\ q \in Queries
      BY <1>4
    <3> HIDE DEF ls, x, q, r
    <3>3. r \in Requests /\ r.kind = "listen" /\ r.status = "sent" /\ r.more = q
      BY <3>1, <3>2 DEF Request, Requests
    <3> QED
      BY <3>2, <3>3 DEF r
  <2> HIDE DEF ls
  <2>3. ls \in [1..n -> Requests]
    BY <2>1, <2>2
  <2>4. ls \in Seq(Requests)
    BY <1>1, <2>3, SeqDef
  <2>5. Len(ls) = n
    BY <1>1, <2>3, <2>4, LenProperties
  <2> QED
    BY <2>2, <2>4, <2>5
<1>7. asc \in Seq(Nat) /\ Len(asc) = p /\ \A k \in 1..p : asc[k] \in Nat /\ puts[asc[k]] \in Put
  <2>1. ASSUME NEW k \in 1..p PROVE asc[k] \in Nat /\ puts[asc[k]] \in Put
    <3>1. asc[k] \in Outstanding
      BY <1>2
    <3>2. \A x \in Outstanding : x \in Nat /\ puts[x] \in Put
      BY DEF ClientData
    <3> QED
      BY <3>1, <3>2
  <2>2. asc = [k \in 1..p |-> asc[k]]
    BY DEF ascending
  <2> HIDE DEF asc, p
  <2>3. asc \in [1..p -> Nat]
    BY <2>1, <2>2
  <2>4. asc \in Seq(Nat)
    BY <1>2, <2>3, SeqDef
  <2>5. Len(asc) = p
    BY <1>2, <2>3, <2>4, LenProperties
  <2> QED
    BY <2>1, <2>4, <2>5
<1>8. /\ ps \in Seq(Requests) /\ Len(ps) = p
      /\ \A k \in 1..p : /\ ps[k].kind = "put" /\ ps[k].status = "sent" /\ ps[k].id = asc[k]
                         /\ ps[k].more = puts[asc[k]].hash
  <2>1. ps = [k \in 1..p |-> Request("put", asc[k], puts[asc[k]].hash)]
    BY <1>7 DEF PutRequests
  <2>2. \A k \in 1..p : asc[k] \in Nat /\ puts[asc[k]].hash \in BOOLEAN
    BY <1>7 DEF Put
  <2> HIDE DEF asc, p, ps
  <2>3. ASSUME NEW k \in 1..p
        PROVE  /\ ps[k] \in Requests /\ ps[k].kind = "put" /\ ps[k].status = "sent"
               /\ ps[k].id = asc[k] /\ ps[k].more = puts[asc[k]].hash
    <3> DEFINE x == asc[k]
               h == puts[asc[k]].hash
               r == ps[k]
    <3>1. r = Request("put", x, h)
      BY <2>1
    <3>2. x \in Nat /\ h \in BOOLEAN
      BY <2>2
    <3> HIDE DEF x, h, r
    <3>3. /\ r \in Requests /\ r.kind = "put" /\ r.status = "sent"
          /\ r.id = x /\ r.more = h
      BY <3>1, <3>2 DEF Request, Requests
    <3> QED
      BY <3>3 DEF x, h, r
  <2>4. ps \in [1..p -> Requests]
    BY <2>1, <2>3
  <2>5. ps \in Seq(Requests)
    BY <1>2, <2>4, SeqDef
  <2>6. Len(ps) = p
    BY <1>2, <2>4, <2>5, LenProperties
  <2> QED
    BY <2>3, <2>5, <2>6
<1>9. /\ os \in Seq(Requests) /\ Len(os) = o /\ o \in Nat
      /\ \A k \in 1..o : os[k].kind = "op" /\ os[k].status = "sent"
  <2>1. o \in Nat /\ \A k \in 1..o : opQueue[k] \in Nat
    BY LenProperties, ElementOfSeq DEF ClientData
  <2>2. os = [k \in 1..o |-> Request("op", opQueue[k], "")]
    BY DEF OpRequests
  <2> HIDE DEF os, o
  <2>3. ASSUME NEW k \in 1..o
        PROVE  os[k] \in Requests /\ os[k].kind = "op" /\ os[k].status = "sent"
    <3> DEFINE x == opQueue[k]
               r == os[k]
    <3>1. r = Request("op", x, "") /\ x \in Nat
      BY <2>1, <2>2
    <3> HIDE DEF x, r
    <3>2. r \in Requests /\ r.kind = "op" /\ r.status = "sent"
      BY <3>1, RequestIs
    <3> QED
      BY <3>2 DEF r
  <2>4. os \in [1..o -> Requests]
    BY <2>2, <2>3
  <2>5. os \in Seq(Requests)
    BY <2>1, <2>4, SeqDef
  <2>6. Len(os) = o
    BY <2>1, <2>4, <2>5, LenProperties
  <2> QED
    BY <2>1, <2>3, <2>5, <2>6
<1> HIDE DEF ls, ps, os, n, p, o, asc
<1> HIDE DEF a
<1>10. /\ a \in Nat /\ before \o ls \in Seq(Requests) /\ Len(before \o ls) = a + n
       /\ \A j \in 1..(a + n) : (before \o ls)[j] = IF j <= a THEN before[j] ELSE ls[j - a]
  BY <1>6, ConcatProperties, LenProperties DEF a
<1> DEFINE y == before \o ls
<1> HIDE DEF y
<1>11. /\ y \o ps \in Seq(Requests) /\ Len(y \o ps) = a + n + p
       /\ \A j \in 1..(a + n + p) : (y \o ps)[j] = IF j <= a + n THEN y[j] ELSE ps[j - (a + n)]
  <2>1. y \in Seq(Requests) /\ Len(y) = a + n
    BY <1>10 DEF y
  <2> QED
    BY <1>8, <2>1, ConcatProperties
<1> DEFINE x == y \o ps
<1> HIDE DEF x
<1>12. /\ x \o os \in Seq(Requests) /\ Len(x \o os) = a + n + p + o
       /\ \A j \in 1..(a + n + p + o) : (x \o os)[j] =
             IF j <= a + n + p THEN x[j] ELSE os[j - (a + n + p)]
  <2>1. x \in Seq(Requests) /\ Len(x) = a + n + p
    BY <1>11 DEF x
  <2>2. os \in Seq(Requests) /\ Len(os) = o
    BY <1>9
  <2> QED
    <3>1. /\ x \o os \in Seq(Requests) /\ Len(x \o os) = Len(x) + Len(os)
          /\ \A j \in 1..(Len(x) + Len(os)) : (x \o os)[j] =
                IF j <= Len(x) THEN x[j] ELSE os[j - Len(x)]
      BY <2>1, <2>2, ConcatProperties
    <3> QED
      BY <2>1, <2>2, <3>1
<1>13. wire' = x \o os
  BY <1>3 DEF x, y, ls, ps, os
<1>a. a \in Nat /\ n \in Nat /\ p \in Nat /\ o \in Nat
  BY <1>1, <1>2, <1>9, <1>10
<1>b. \A j \in 1..(a + n + p + o) :
          wire'[j] = IF j <= a + n + p THEN x[j] ELSE os[j - (a + n + p)]
  BY <1>12, <1>13
<1>c. \A j \in 1..(a + n + p) : x[j] = IF j <= a + n THEN y[j] ELSE ps[j - (a + n)]
  BY <1>11 DEF x
<1>d. \A j \in 1..(a + n) : y[j] = IF j <= a THEN before[j] ELSE ls[j - a]
  BY <1>10 DEF y
<1> HIDE DEF x, y
<1>14. \A j \in 1..a : wire'[j] = before[j]
  BY <1>a, <1>b, <1>c, <1>d
<1>15. \A j \in (a + 1)..(a + n) : wire'[j] = ls[j - a] /\ j - a \in 1..n
  BY <1>a, <1>b, <1>c, <1>d
<1>16. \A j \in (a + n + 1)..(a + n + p) : wire'[j] = ps[j - a - n] /\ j - a - n \in 1..p
  <2> TAKE j \in (a + n + 1)..(a + n + p)
  <2>1. /\ j \in 1..(a + n + p) /\ j \in 1..(a + n + p + o) /\ j <= a + n + p
        /\ ~(j <= a + n) /\ j - a - n \in 1..p /\ j - (a + n) = j - a - n
    BY <1>a
  <2> QED
    BY <2>1, <1>b, <1>c
<1>17. \A j \in (a + n + p + 1)..(a + n + p + o) : wire'[j] = os[j - (a + n + p)]
                                                 /\ j - (a + n + p) \in 1..o
  BY <1>a, <1>b
<1>18. Restored(before, wire', n, p)
  <2>1. wire' \in Seq(Requests) /\ Len(wire') = a + n + p + o
    BY <1>12, <1>13
  <2>2. \A j \in (a + 1)..(a + n) : /\ wire'[j].kind = "listen" /\ wire'[j].status = "sent"
                                    /\ wire'[j].more \in Queries
    BY <1>6, <1>15
  <2>3. \A j \in (a + n + 1)..(a + n + p) :
           /\ wire'[j].kind = "put" /\ wire'[j].status = "sent"
           /\ wire'[j].id = asc[j - a - n]
           /\ wire'[j].more = puts[wire'[j].id].hash
    <3> TAKE j \in (a + n + 1)..(a + n + p)
    <3>1. wire'[j] = ps[j - a - n] /\ j - a - n \in 1..p
      BY <1>16
    <3> QED
      BY <1>8, <3>1
  <2>4. \A j \in (a + n + p + 1)..(a + n + p + o) : wire'[j].kind = "op" /\ wire'[j].status = "sent"
    BY <1>9, <1>17
  <2> QED
    BY <2>1, <1>14, <2>2, <2>3, <2>4 DEF Restored, a, o, asc
<1> QED
  BY <1>1, <1>2, <1>18 DEF n, p

-----------------------------------------------------------------------------
(* Reports.                                                                   *)

(* A set of writes is reported one after the other, each once.                *)
LEMMA ReportedIs ==
    ASSUME NEW n \in Nat, NEW S \in SUBSET (1..n), NEW status \in {"disconnect", "canceled"}
    PROVE  /\ Reported(status, S) \in Seq(Answers)
           /\ Once(Reported(status, S)) /\ Ids(Reported(status, S)) = S
           /\ \A k \in 1..Len(Reported(status, S)) : Reported(status, S)[k].status = status
<1> DEFINE r == Reported(status, S)
           c == Cardinality(S)
<1>1. /\ c \in Nat /\ \A k \in 1..c : ascending(S)[k] \in S
      /\ \A j, k \in 1..c : j < k => ascending(S)[j] < ascending(S)[k]
      /\ \A x \in S : \E k \in 1..c : ascending(S)[k] = x
  BY AscendingIs
<1>2. \A k \in 1..c : ascending(S)[k] \in Nat
  <2>1. \A x \in S : x \in Nat
    OBVIOUS
  <2> HIDE DEF c
  <2> QED
    BY <1>1, <2>1
<1>3. r = [k \in 1..c |-> [put |-> ascending(S)[k], status |-> status]]
  BY DEF Reported
<1>4. r \in [1..c -> Answers]
  BY <1>2, <1>3 DEF Answers
<1>5. r \in Seq(Answers)
  BY <1>1, <1>4, SeqDef
<1>6. Len(r) = c
  BY <1>1, <1>4, <1>5, LenProperties
<1>7. \A k \in 1..c : r[k].put = ascending(S)[k] /\ r[k].status = status
  BY <1>3
<1> HIDE DEF r, c
<1>8. Once(r)
  <2> SUFFICES ASSUME NEW k \in 1..c, NEW l \in 1..c, r[k].put = r[l].put PROVE k = l
    BY <1>6 DEF Once
  <2>1. ascending(S)[k] = ascending(S)[l]
    BY <1>7
  <2>2. ~(k < l) /\ ~(l < k)
    BY <1>1, <1>2, <2>1
  <2> QED
    BY <1>1, <2>2
<1>9. Ids(r) = S
  <2>1. \A x \in Ids(r) : x \in S
    BY <1>1, <1>6, <1>7 DEF Ids
  <2>2. ASSUME NEW x \in S PROVE x \in Ids(r)
    <3> PICK k \in 1..c : ascending(S)[k] = x
      BY <1>1
    <3> QED
      BY <1>6, <1>7 DEF Ids
  <2> QED
    BY <2>1, <2>2
<1> QED
  BY <1>5, <1>6, <1>7, <1>8, <1>9 DEF r

(* The answers held back are reported as they are.                            *)
LEMMA HeldIs ==
    ASSUME putsToAck \in Seq(Answers)
    PROVE  Held = putsToAck
<1>1. Len(putsToAck) \in Nat /\ putsToAck \in [1..Len(putsToAck) -> Answers]
  BY LenProperties
<1> QED
  BY <1>1 DEF Held

(* Reports are put behind reports.                                            *)
LEMMA AnswersConcat ==
    ASSUME NEW s \in Seq(Answers), NEW t \in Seq(Answers)
    PROVE  s \o t \in Seq(Answers)
  BY ConcatProperties

-----------------------------------------------------------------------------
(* What the client keeps.                                                     *)

(* Closing the connection keeps what the client has, types included.          *)
LEMMA CloseKeepsData ==
    ASSUME MaxPuts \in Nat, ClientData, NEW b, onDisconnect(b),
           UNCHANGED <<putCounter, putsToAck, listens, listenNo, opQueue, opNo>>
    PROVE  ClientData'
<1>1. putCounter \in Nat /\ SentTransactions \in SUBSET (1..putCounter)
  <2>1. putCounter \in Nat /\ Outstanding \subseteq 1..putCounter
    BY DEF ClientData
  <2>2. SentTransactions \subseteq Outstanding
    BY DEF SentTransactions
  <2> QED
    BY <2>1, <2>2
<1>2. Reported("disconnect", SentTransactions) \in Seq(Answers)
  BY <1>1, ReportedIs
<1>3. reports' \in Seq(Answers)
  BY <1>2, AnswersConcat DEF onDisconnect, ClientData
<1>4. /\ Outstanding' = Outstanding \ SentTransactions
      /\ \A p \in Outstanding' : puts'[p] = puts[p]
  BY DEF onDisconnect, Outstanding, Only
<1> QED
  BY <1>3, <1>4 DEF ClientData

(* What does not change keeps its type.                                       *)
LEMMA SameData ==
    ASSUME ClientData, UNCHANGED <<puts, putCounter, putsToAck, reports, listens, listenNo,
                                   opQueue, opNo>>
    PROVE  ClientData'
  BY DEF ClientData, Outstanding

(* restoreState marks writes as sent and empties the queue of operations.     *)
LEMMA RestoreKeepsData ==
    ASSUME ClientData, NEW before, restoreState(before),
           UNCHANGED <<putCounter, putsToAck, reports, listens, listenNo, opNo>>
    PROVE  ClientData'
<1>1. /\ Outstanding' = Outstanding
      /\ \A p \in Outstanding : puts'[p] = [puts[p] EXCEPT !.sent = TRUE]
  BY DEF restoreState, Outstanding
<1>2. \A p \in Outstanding : puts'[p] \in Put
  BY <1>1 DEF ClientData, Put
<1>3. opQueue' \in Seq(Nat)
  BY EmptySeq DEF restoreState
<1> QED
  BY <1>1, <1>2, <1>3 DEF ClientData

(* Every step keeps the types of the data of the client.                      *)
LEMMA ClientDataStep ==
    ASSUME MaxPuts \in Nat, LinkStates, ClientData, WireData, Next
    PROVE  ClientData'
<1>1. CASE Link
  <2>1. CASE open \/ goOnline \/ RetryFires \/ \E n \in DOMAIN fetches : TokenFetched(n)
    BY <2>1, SameData DEF open, goOnline, resumeForReason, RetryFires, TokenFetched, putVars,
                          listenVars, opVars
  <2>2. CASE onReady
    <3>1. CASE token = 0
      BY <2>2, <3>1, RestoreKeepsData DEF onReady
    <3>2. CASE token # 0
      BY <2>2, <3>2, SameData DEF onReady
    <3> QED
      BY <3>1, <3>2
  <2> QED
    BY <1>1, <2>1, <2>2 DEF Link
<1>2. CASE Failures
  <2>1. CASE ConnectionLost \/ onKill \/ onAuthRevoked
    BY <2>1, CloseKeepsData DEF ConnectionLost, onKill, interruptForReason, onAuthRevoked, opVars
  <2>2. CASE TokenExpires \/ \E n \in DOMAIN fetches : TokenFailed(n)
    BY <2>2, SameData DEF TokenExpires, TokenFailed, putVars, listenVars, opVars
  <2>3. ASSUME NEW q \in Queries, onListenRevoked(q) PROVE ClientData'
    BY <2>3 DEF onListenRevoked, putVars, opVars, ClientData, Outstanding
  <2> QED
    BY <1>2, <2>1, <2>2, <2>3 DEF Failures
<1>3. CASE Calls
  <2>1. CASE goOffline
    <3>1. CASE realtime # "none"
      BY <2>1, <3>1, CloseKeepsData DEF goOffline, interruptForReason, opVars
    <3>2. CASE realtime = "none"
      BY <2>1, <3>2, SameData DEF goOffline, interruptForReason, opVars
    <3> QED
      BY <3>1, <3>2
  <2>2. CASE NetworkReachable \/ refreshAuthToken
    BY <2>2, SameData DEF NetworkReachable, refreshAuthToken, putVars, listenVars, opVars
  <2>3. CASE purgeOutstandingWrites
    <3>1. putCounter \in Nat /\ Outstanding \in SUBSET (1..putCounter)
      BY DEF ClientData
    <3>2. /\ Reported("canceled", Outstanding) \in Seq(Answers)
          /\ Held \in Seq(Answers) /\ reports \in Seq(Answers)
      <4>1. Reported("canceled", Outstanding) \in Seq(Answers)
        BY <3>1, ReportedIs
      <4> QED
        BY <4>1, HeldIs DEF ClientData
    <3>3. reports' \in Seq(Answers)
      BY <2>3, <3>2, AnswersConcat DEF purgeOutstandingWrites
    <3>4. Outstanding' = {}
      BY <2>3 DEF purgeOutstandingWrites, Outstanding
    <3> QED
      BY <2>3, <3>3, <3>4, EmptySeq DEF purgeOutstandingWrites, ClientData, listenVars
  <2>4. CASE onDisconnectSetValue
    <3>1. opQueue' \in Seq(Nat) /\ opNo' \in Nat
      <4>1. opQueue \in Seq(Nat) /\ opNo \in Nat /\ opNo + 1 \in Nat
        BY DEF ClientData
      <4>2. Append(opQueue, opNo + 1) \in Seq(Nat)
        BY <4>1, AppendProperties
      <4> QED
        BY <2>4, <4>1, <4>2 DEF onDisconnectSetValue, onDisconnectOperation
    <3>2. UNCHANGED <<puts, putCounter, putsToAck, reports, listens, listenNo>>
      BY <2>4 DEF onDisconnectSetValue, onDisconnectOperation, putVars, listenVars
    <3> QED
      BY <3>1, <3>2 DEF ClientData, Outstanding
  <2>5. ASSUME NEW h \in BOOLEAN, putInternal(h) PROVE ClientData'
    <3>1. /\ putCounter' = putCounter + 1 /\ putCounter < MaxPuts
          /\ Outstanding' = Outstanding \union {putCounter + 1}
          /\ \A p \in Outstanding' : p # putCounter + 1 => puts'[p] = puts[p]
          /\ puts'[putCounter + 1] = [hash |-> h, sent |-> canSendWrites]
          /\ UNCHANGED <<putsToAck, reports, listens, listenNo, opQueue, opNo>>
      BY <2>5 DEF putInternal, Outstanding, listenVars, opVars
    <3>2. puts'[putCounter + 1] \in Put
      BY <3>1 DEF Put, canSendWrites
    <3> QED
      BY <3>1, <3>2 DEF ClientData
  <2>6. ASSUME NEW q \in Queries, listen(q) \/ unlisten(q) PROVE ClientData'
    <3>1. listens' \in [Queries -> Nat] /\ listenNo' \in Nat
      <4>1. listens \in [Queries -> Nat] /\ listenNo \in Nat /\ listenNo + 1 \in Nat
        BY DEF ClientData
      <4>2. CASE listen(q)
        BY <4>1, <4>2 DEF listen
      <4>3. CASE unlisten(q)
        BY <4>1, <4>3 DEF unlisten
      <4> QED
        BY <2>6, <4>2, <4>3
    <3>2. UNCHANGED <<puts, putCounter, putsToAck, reports, opQueue, opNo>>
      BY <2>6 DEF listen, unlisten, putVars, opVars
    <3> QED
      BY <3>1, <3>2 DEF ClientData, Outstanding
  <2> QED
    BY <1>3, <2>1, <2>2, <2>3, <2>4, <2>5, <2>6 DEF Calls
<1>4. CASE ServerTakes
  BY <1>4, SameData DEF ServerTakes, putVars, listenVars, opVars
<1>5. CASE onDataMessage
  <2>1. PICK i \in 1..Len(wire) : /\ Answerable(i)
                                  /\ \/ AuthAnswered(i) \/ PutAnswered(i)
                                     \/ ListenAnswered(i) \/ OpAnswered(i)
    BY <1>5 DEF onDataMessage
  <2>2. wire[i] \in Requests
    BY ElementOfSeq DEF WireData
  <2>3. CASE AuthAnswered(i)
    <3>1. CASE wire[i].status = "fail"
      BY <2>3, <3>1, CloseKeepsData DEF AuthAnswered
    <3>2. CASE wire[i].status # "fail" /\ wire[i].more
      BY <2>3, <3>2, RestoreKeepsData DEF AuthAnswered
    <3>3. CASE wire[i].status # "fail" /\ ~wire[i].more
      BY <2>3, <3>3, SameData DEF AuthAnswered
    <3> QED
      BY <3>1, <3>2, <3>3
  <2>4. CASE PutAnswered(i)
    <3> DEFINE r == [put |-> wire[i].id, status |-> wire[i].status]
    <3>1. CASE ~IsCurrentPut(wire[i].id)
      BY <2>4, <3>1, SameData DEF PutAnswered, listenVars, opVars
    <3>2. CASE IsCurrentPut(wire[i].id)
      <4>1. r \in Answers
        BY <2>1, <2>2, <2>4 DEF Answers, Requests, Answerable
      <4> HIDE DEF r
      <4>2. /\ reports' \in {reports, Append(reports, r)}
            /\ putsToAck' \in {putsToAck, Append(putsToAck, r)}
            /\ puts' = Only(Outstanding \ {wire[i].id})
            /\ UNCHANGED <<putCounter, listens, listenNo, opQueue, opNo>>
        BY <2>4, <3>2 DEF PutAnswered, listenVars, opVars, r
      <4>3. reports' \in Seq(Answers) /\ putsToAck' \in Seq(Answers)
        <5>1. reports \in Seq(Answers) /\ putsToAck \in Seq(Answers)
          BY DEF ClientData
        <5>2. Append(reports, r) \in Seq(Answers) /\ Append(putsToAck, r) \in Seq(Answers)
          BY <4>1, <5>1, AppendProperties
        <5> QED
          BY <4>2, <5>1, <5>2
      <4>4. /\ Outstanding' = Outstanding \ {wire[i].id}
            /\ \A p \in Outstanding' : puts'[p] = puts[p]
        BY <4>2 DEF Outstanding, Only
      <4> QED
        BY <4>2, <4>3, <4>4 DEF ClientData
    <3> QED
      BY <3>1, <3>2
  <2>5. CASE ListenAnswered(i)
    <3>1. reports' \in Seq(Answers) /\ putsToAck' \in Seq(Answers)
      BY <2>5, HeldIs, AnswersConcat, EmptySeq DEF ListenAnswered, ClientData
    <3>2. listens' \in [Queries -> Nat]
      BY <2>5 DEF ListenAnswered, ClientData
    <3> QED
      BY <2>5, <3>1, <3>2 DEF ListenAnswered, ClientData, Outstanding, opVars
  <2>6. CASE OpAnswered(i)
    BY <2>6, SameData DEF OpAnswered, putVars, listenVars
  <2> QED
    BY <2>1, <2>3, <2>4, <2>5, <2>6
<1> QED
  BY <1>1, <1>2, <1>3, <1>4, <1>5 DEF Next

-----------------------------------------------------------------------------
(* How many listens are on the wire.                                          *)

(* The listens on a wire can be counted.                                      *)
LEMMA ListeningFinite ==
    ASSUME NEW w \in Seq(Requests)
    PROVE  /\ IsFiniteSet(Listening(w)) /\ Cardinality(Listening(w)) \in Nat
           /\ Len(w) \in Nat
<1>1. Len(w) \in Nat
  BY LenProperties
<1>2. IsFiniteSet(1..Len(w)) /\ Listening(w) \in SUBSET (1..Len(w))
  BY <1>1, FS_Interval DEF Listening
<1>3. IsFiniteSet(Listening(w))
  BY <1>2, FS_Subset
<1> QED
  BY <1>1, <1>3, FS_CardinalityType

(* Sending adds one to the listens on the wire if it is a listen.             *)
LEMMA CountSent ==
    ASSUME NEW w \in Seq(Requests), NEW r \in Requests
    PROVE  Cardinality(Listening(Append(w, r))) =
             IF r.kind = "listen" THEN Cardinality(Listening(w)) + 1 ELSE Cardinality(Listening(w))
<1> DEFINE l == Len(w) + 1
           v == Append(w, r)
<1>1. /\ v \in Seq(Requests) /\ Len(w) \in Nat /\ Len(v) = l /\ v[l] = r
      /\ \A j \in 1..Len(w) : v[j] = w[j]
  BY SentIs
<1> HIDE DEF v
<1>2. l \notin Listening(w)
  BY <1>1 DEF Listening
<1>3. Listening(v) = IF r.kind = "listen" THEN Listening(w) \union {l} ELSE Listening(w)
  <2>1. 1..l = (1..Len(w)) \union {l}
    BY <1>1
  <2> QED
    BY <1>1, <2>1 DEF Listening
<1>4. IsFiniteSet(Listening(w))
  BY ListeningFinite
<1>5. Cardinality(Listening(w) \union {l}) = Cardinality(Listening(w)) + 1
  BY <1>2, <1>4, FS_AddElement
<1> QED
  BY <1>3, <1>5 DEF v

(* An answer takes one from the listens on the wire if it is to a listen.     *)
LEMMA CountAnswered ==
    ASSUME wire \in Seq(Requests), NEW i \in 1..Len(wire)
    PROVE  Cardinality(Listening(Answered(i))) =
             IF wire[i].kind = "listen" THEN Cardinality(Listening(wire)) - 1
             ELSE Cardinality(Listening(wire))
<1> DEFINE v == Answered(i)
           S == Listening(wire) \ {i}
           T == Listening(v)
           f == [j \in S |-> IF j < i THEN j ELSE j - 1]
<1>1. /\ v \in Seq(Requests) /\ Len(wire) \in Nat /\ Len(v) = Len(wire) - 1
      /\ \A j \in 1..(Len(wire) - 1) : v[j] = wire[IF j < i THEN j ELSE j + 1]
  BY AnsweredIs
<1> HIDE DEF v
<1>2. \A j \in S : j \in 1..Len(wire) /\ j # i /\ wire[j].kind = "listen"
  BY DEF Listening
<1>3. \A j \in S : f[j] \in T
  <2> TAKE j \in S
  <2>1. CASE j < i
    <3>1. f[j] = j /\ j \in 1..(Len(wire) - 1)
      BY <1>1, <1>2, <2>1
    <3> QED
      BY <1>1, <1>2, <2>1, <3>1 DEF Listening
  <2>2. CASE ~(j < i)
    <3>1. f[j] = j - 1 /\ j - 1 \in 1..(Len(wire) - 1) /\ ~(j - 1 < i)
      BY <1>1, <1>2, <2>2
    <3>2. v[j - 1] = wire[j]
      BY <1>1, <1>2, <3>1
    <3> QED
      BY <1>1, <1>2, <3>1, <3>2 DEF Listening
  <2> QED
    BY <2>1, <2>2
<1>4. \A j, k \in S : f[j] = f[k] => j = k
  <2> SUFFICES ASSUME NEW j \in S, NEW k \in S, f[j] = f[k] PROVE j = k
    OBVIOUS
  <2>1. j \in Int /\ k \in Int /\ j # i /\ k # i /\ i \in Int
    BY <1>1, <1>2
  <2>2. (IF j < i THEN j ELSE j - 1) = (IF k < i THEN k ELSE k - 1)
    OBVIOUS
  <2> QED
    BY <2>1, <2>2
<1>5. \A t \in T : \E j \in S : f[j] = t
  <2> TAKE t \in T
  <2>1. t \in 1..(Len(wire) - 1) /\ v[t].kind = "listen"
    BY <1>1 DEF Listening
  <2>2. CASE t < i
    <3>1. t \in S
      BY <1>1, <2>1, <2>2 DEF Listening
    <3> QED
      BY <2>2, <3>1
  <2>3. CASE ~(t < i)
    <3>1. t + 1 \in S /\ ~(t + 1 < i) /\ (t + 1) - 1 = t
      BY <1>1, <2>1, <2>3 DEF Listening
    <3>2. f[t + 1] = t
      BY <3>1
    <3> QED
      BY <3>1, <3>2
  <2> QED
    BY <2>2, <2>3
<1>6. f \in Bijection(S, T)
  <2> HIDE DEF S, T
  <2>1. f \in [S -> T]
    BY <1>3
  <2> HIDE DEF f
  <2> QED
    BY <1>4, <1>5, <2>1 DEF Bijection, Injection, Surjection, IsInjective
<1>7. IsFiniteSet(Listening(wire)) /\ Cardinality(Listening(wire)) \in Nat
  BY ListeningFinite
<1>8. /\ IsFiniteSet(S)
      /\ Cardinality(S) = IF i \in Listening(wire) THEN Cardinality(Listening(wire)) - 1
                          ELSE Cardinality(Listening(wire))
  BY <1>7, FS_RemoveElement
<1>9. Cardinality(T) = Cardinality(S)
  <2> HIDE DEF S, T, f
  <2>1. ExistsBijection(S, T)
    BY <1>6 DEF ExistsBijection
  <2> QED
    BY <1>8, <2>1, FS_Bijection
<1>10. i \in Listening(wire) <=> wire[i].kind = "listen"
  BY DEF Listening
<1> QED
  BY <1>8, <1>9, <1>10 DEF v

(* restoreState adds one for every active listen.                             *)
LEMMA CountRestored ==
    ASSUME NEW before \in Seq(Requests), NEW w, NEW n \in Nat, NEW p \in Nat,
           opQueue \in Seq(Nat), Restored(before, w, n, p)
    PROVE  Cardinality(Listening(w)) = Cardinality(Listening(before)) + n
<1> DEFINE a == Len(before)
           L == Listening(before)
           I == (a + 1)..(a + n)
<1>1. IsFiniteSet(L) /\ Cardinality(L) \in Nat /\ a \in Nat
  BY ListeningFinite
<1>2. IsFiniteSet(I) /\ Cardinality(I) = n
  <2>1. a + 1 \in Int /\ a + n \in Int /\ (a + 1 > a + n <=> n = 0) /\ (a + n) - (a + 1) + 1 = n
    BY <1>1
  <2> HIDE DEF a
  <2> QED
    BY <2>1, FS_Interval
<1>3. L \intersect I = {}
  BY <1>1 DEF Listening
<1>4. Listening(w) = L \union I
  <2>1. Len(opQueue) \in Nat /\ Len(w) = a + n + p + Len(opQueue)
    BY LenProperties DEF Restored
  <2>2. ASSUME NEW j \in 1..Len(w) PROVE w[j].kind = "listen" <=> j \in L \union I
    <3>1. CASE j \in 1..a
      BY <1>1, <3>1 DEF Restored, Listening
    <3>2. CASE j \in I
      BY <1>1, <3>2 DEF Restored, Listening
    <3>3. CASE j \in (a + n + 1)..(a + n + p)
      BY <1>1, <3>3 DEF Restored, Listening
    <3>4. CASE j \in (a + n + p + 1)..Len(w)
      BY <1>1, <3>4 DEF Restored, Listening
    <3> QED
      BY <1>1, <2>1, <3>1, <3>2, <3>3, <3>4
  <2>3. L \union I \subseteq 1..Len(w)
    BY <1>1, <2>1 DEF Listening
  <2> HIDE DEF L, I
  <2> QED
    BY <2>2, <2>3 DEF Listening
<1>5. Cardinality(L \union I) = Cardinality(L) + Cardinality(I) - Cardinality(L \intersect I)
  BY <1>1, <1>2, FS_Union
<1>6. Cardinality(L \intersect I) = 0
  BY <1>3, FS_EmptySet
<1>7. Cardinality(Listening(w)) = Cardinality(L) + n - 0
  BY <1>2, <1>4, <1>5, <1>6
<1> QED
  BY <1>1, <1>7

(* There are no listens on an empty wire.                                     *)
LEMMA CountNone == Cardinality(Listening(<<>>)) = 0
<1>1. Listening(<<>>) = {}
  BY EmptyWire DEF Listening
<1> QED
  BY <1>1, FS_EmptySet

-----------------------------------------------------------------------------
(* What is on the wire.                                                       *)

WireInv == WireData /\ CountsListens /\ AuthRequests /\ AuthFirst

(* The wire is not touched.                                                   *)
LEMMA SameWire ==
    ASSUME WireInv, ServerData, UNCHANGED <<wire, unacked>>,
           issued' \in Nat, issued <= issued', revoked' \in Nat, revoked <= revoked',
           state' = state \/ (state # "Authenticating" /\ state' # "Authenticating")
    PROVE  WireInv'
<1>1. \A i \in 1..Len(wire) : wire[i].id \in Nat
  <2> TAKE i \in 1..Len(wire)
  <2>1. wire[i] \in Requests
    BY ElementOfSeq DEF WireInv, WireData
  <2> QED
    BY <2>1 DEF Requests
<1>2. AuthRequests'
  BY <1>1 DEF WireInv, AuthRequests, ServerData
<1> QED
  BY <1>2 DEF WireInv, WireData, CountsListens, AuthFirst

(* The connection is closed.                                                  *)
LEMMA ClearedWire ==
    ASSUME wire' = <<>>, unacked' = 0, state' # "Authenticating"
    PROVE  WireInv'
  BY EmptyWire, EmptySeq, CountNone DEF WireInv, WireData, CountsListens, AuthRequests, AuthFirst

(* A request is sent; the first auth request of a connection is another case. *)
LEMMA SentWire ==
    ASSUME WireInv, NEW r \in Requests, wire' = Append(wire, r), r.status = "sent",
           r.kind \in {"auth", "put"} => r.more \in BOOLEAN,
           r.kind = "listen" => r.more \in Queries,
           r.kind = "auth" => r.id \in 1..issued,
           r.kind = "auth" /\ r.more => wire = <<>> /\ state' = "Authenticating",
           ~(r.kind = "auth" /\ r.more) => state' = state,
           unacked' = IF r.kind = "listen" THEN unacked + 1 ELSE unacked,
           UNCHANGED <<issued, revoked>>
    PROVE  WireInv'
<1>1. /\ wire \in Seq(Requests) /\ wire' \in Seq(Requests)
      /\ Len(wire) \in Nat /\ Len(wire') = Len(wire) + 1 /\ wire'[Len(wire) + 1] = r
      /\ \A j \in 1..Len(wire) : wire'[j] = wire[j]
  BY SentIs DEF WireInv, WireData
<1>2. \A j \in 1..Len(wire') : j \in 1..Len(wire) \/ j = Len(wire) + 1
  BY <1>1
<1>3. WireData'
  BY <1>1, <1>2 DEF WireInv, WireData
<1>4. CountsListens'
  BY <1>1, CountSent DEF WireInv, CountsListens
<1>5. AuthRequests'
  BY <1>1, <1>2 DEF WireInv, AuthRequests
<1>6. AuthFirst'
  <2>1. wire' # <<>>
    BY <1>1, EmptyWire
  <2>2. CASE r.kind = "auth" /\ r.more
    <3>1. Len(wire) = 0
      BY <2>2, EmptyWire
    <3> QED
      BY <1>1, <1>2, <2>1, <2>2, <3>1 DEF AuthFirst
  <2>3. CASE ~(r.kind = "auth" /\ r.more)
    <3>1. state = "Authenticating" => 1 \in 1..Len(wire)
      BY <1>1, EmptySeq DEF WireInv, AuthFirst
    <3> QED
      BY <1>1, <1>2, <2>1, <2>3, <3>1 DEF WireInv, AuthFirst
  <2> QED
    BY <2>2, <2>3
<1> QED
  BY <1>3, <1>4, <1>5, <1>6 DEF WireInv

(* The server takes a request.                                                *)
LEMMA TakenWire ==
    ASSUME WireInv, NEW i \in 1..Len(wire), NEW s \in {"ok", "fail"},
           wire' = [wire EXCEPT ![i].status = s],
           (wire[i].kind = "auth" /\ s = "fail") => wire[i].id <= revoked,
           UNCHANGED <<state, unacked, issued, revoked>>
    PROVE  WireInv'
<1>1. /\ wire' \in Seq(Requests) /\ Len(wire') = Len(wire) /\ Len(wire) \in Nat
      /\ \A j \in 1..Len(wire) :
            /\ wire'[j].kind = wire[j].kind /\ wire'[j].id = wire[j].id
            /\ wire'[j].more = wire[j].more
            /\ wire'[j].status = IF j = i THEN s ELSE wire[j].status
  BY TakenIs DEF WireInv, WireData
<1>2. WireData'
  BY <1>1 DEF WireInv, WireData
<1>3. CountsListens'
  <2>1. Listening(wire') = Listening(wire)
    BY <1>1 DEF Listening
  <2> QED
    BY <2>1 DEF WireInv, CountsListens
<1>4. AuthRequests'
  BY <1>1 DEF WireInv, AuthRequests
<1>5. AuthFirst'
  <2>1. state = "Authenticating" => 1 \in 1..Len(wire) /\ wire' # <<>>
    BY <1>1, EmptySeq, EmptyWire DEF WireInv, WireData, AuthFirst
  <2> QED
    BY <1>1, <2>1 DEF WireInv, AuthFirst
<1> QED
  BY <1>2, <1>3, <1>4, <1>5 DEF WireInv

(* An answer other than to the first auth request; that one is always next.   *)
LEMMA OnlyFirstAuth ==
    ASSUME WireInv, state = "Authenticating", NEW i \in 1..Len(wire), Answerable(i)
    PROVE  wire[i].kind = "auth" /\ wire[i].more /\ i = 1
<1>1. wire[1].kind = "auth" /\ wire[1].more
  BY DEF WireInv, AuthFirst
<1>2. i = 1 \/ 1 \in 1..(i - 1)
  OBVIOUS
<1> QED
  BY <1>1, <1>2 DEF Answerable

(* An answer keeps the invariant of the wire if it is counted.                *)
LEMMA AnsweredWire ==
    ASSUME WireInv, NEW i \in 1..Len(wire), Answerable(i),
           ~(wire[i].kind = "auth" /\ wire[i].more), wire' = Answered(i),
           unacked' = IF wire[i].kind = "listen" THEN unacked - 1 ELSE unacked,
           state' # "Authenticating", UNCHANGED <<issued, revoked>>
    PROVE  WireInv'
<1>0. state # "Authenticating"
  BY OnlyFirstAuth
<1>1. /\ wire \in Seq(Requests) /\ wire' \in Seq(Requests)
      /\ Len(wire) \in Nat /\ Len(wire') = Len(wire) - 1
      /\ \A j \in 1..(Len(wire) - 1) : wire'[j] = wire[IF j < i THEN j ELSE j + 1]
  BY AnsweredIs DEF WireInv, WireData
<1>2. \A j \in 1..Len(wire') : \E k \in 1..Len(wire) : wire'[j] = wire[k]
  <2> TAKE j \in 1..Len(wire')
  <2>1. (IF j < i THEN j ELSE j + 1) \in 1..Len(wire)
    BY <1>1
  <2> QED
    BY <1>1, <2>1
<1>3. WireData'
  BY <1>1, <1>2 DEF WireInv, WireData
<1>4. CountsListens'
  BY <1>1, CountAnswered DEF WireInv, CountsListens
<1>5. AuthRequests'
  BY <1>2 DEF WireInv, AuthRequests
<1>6. AuthFirst'
  BY <1>0, <1>2 DEF WireInv, AuthFirst
<1> QED
  BY <1>3, <1>4, <1>5, <1>6 DEF WireInv

(* Listens, writes and operations are sent again.                             *)
LEMMA RestoredWire ==
    ASSUME IsFiniteSet(Queries), MaxPuts \in Nat, ClientData,
           NEW before \in Seq(Requests), restoreState(before),
           \A i \in 1..Len(before) : /\ before[i].kind = "put" => before[i].more \in BOOLEAN
                                     /\ before[i].kind = "listen" => before[i].more \in Queries
                                     /\ before[i].kind = "auth" =>
                                           /\ before[i].more = FALSE /\ before[i].id \in 1..issued
                                           /\ before[i].status = "fail" => before[i].id <= revoked,
           unacked = Cardinality(Listening(before)),
           state' = "Connected", UNCHANGED <<issued, revoked>>
    PROVE  WireInv'
<1> DEFINE n == Cardinality(ActiveListens)
           p == Cardinality(Outstanding)
           a == Len(before)
           o == Len(opQueue)
<1>1. n \in Nat /\ p \in Nat /\ Restored(before, wire', n, p)
  BY RestoredIs
<1>2. opQueue \in Seq(Nat) /\ o \in Nat /\ a \in Nat
  BY LenProperties DEF ClientData
<1>3. /\ putCounter \in Nat /\ Outstanding \in SUBSET (1..putCounter)
      /\ \A x \in Outstanding : puts[x].hash \in BOOLEAN
  BY DEF ClientData, Put
<1>4. \A k \in 1..p : ascending(Outstanding)[k] \in Outstanding
  BY <1>3, AscendingIs
<1>5. unacked' = unacked + n
  BY DEF restoreState
<1> HIDE DEF n, p
<1>6. CountsListens'
  BY <1>1, <1>2, <1>5, CountRestored DEF CountsListens
<1>7. ASSUME NEW j \in 1..Len(wire')
      PROVE  \/ j \in 1..a /\ wire'[j] = before[j]
             \/ wire'[j].kind = "listen" /\ wire'[j].more \in Queries
             \/ wire'[j].kind = "put" /\ wire'[j].more \in BOOLEAN
             \/ wire'[j].kind = "op"
  <2>1. Len(wire') = a + n + p + o
    BY <1>1 DEF Restored
  <2>2. CASE j \in 1..a
    BY <1>1, <2>2 DEF Restored
  <2>3. CASE j \in (a + 1)..(a + n)
    BY <1>1, <2>3 DEF Restored
  <2>4. CASE j \in (a + n + 1)..(a + n + p)
    <3>1. j - a - n \in 1..p
      BY <1>1, <1>2, <2>4
    <3>2. /\ wire'[j].kind = "put" /\ wire'[j].id = ascending(Outstanding)[j - a - n]
          /\ wire'[j].more = puts[wire'[j].id].hash
      BY <1>1, <2>4 DEF Restored
    <3> QED
      BY <1>3, <1>4, <3>1, <3>2
  <2>5. CASE j \in (a + n + p + 1)..Len(wire')
    BY <1>1, <2>5 DEF Restored
  <2> QED
    BY <1>1, <1>2, <2>1, <2>2, <2>3, <2>4, <2>5
<1>8. WireData'
  BY <1>1, <1>7 DEF WireData, Restored
<1>9. AuthRequests'
  BY <1>7 DEF AuthRequests
<1>10. AuthFirst'
  BY <1>7 DEF AuthFirst
<1> QED
  BY <1>6, <1>8, <1>9, <1>10 DEF WireInv

(* What the server keeps.                                                     *)
LEMMA ServerDataStep ==
    ASSUME MaxPuts \in Nat, LinkStates, ClientData, WireInv, ServerData, Next
    PROVE  ServerData'
<1> USE DEF ServerData
<1>1. CASE Link
  <2>1. ASSUME NEW n \in DOMAIN fetches, TokenFetched(n) PROVE ServerData'
    <3>1. issued' \in Nat /\ issued' >= issued
      BY <2>1 DEF TokenFetched
    <3>2. token' \in {token, issued'} /\ UNCHANGED <<applied, revoked, refused>>
      BY <2>1 DEF TokenFetched
    <3> QED
      BY <3>1, <3>2
  <2>2. CASE open \/ goOnline \/ RetryFires \/ onReady
    BY <2>2 DEF open, goOnline, resumeForReason, RetryFires, onReady, serverVars
  <2> QED
    BY <1>1, <2>1, <2>2 DEF Link
<1>2. CASE Failures
  <2>1. CASE ConnectionLost \/ onKill
    BY <2>1 DEF ConnectionLost, onKill, serverVars
  <2>2. CASE TokenExpires
    BY <2>2 DEF TokenExpires, linkVars
  <2>3. CASE onAuthRevoked
    BY <2>3 DEF onAuthRevoked
  <2>4. CASE \/ \E n \in DOMAIN fetches : TokenFailed(n)
             \/ \E q \in Queries : onListenRevoked(q)
    BY <2>4 DEF TokenFailed, onListenRevoked, linkVars, serverVars
  <2> QED
    BY <1>2, <2>1, <2>2, <2>3, <2>4 DEF Failures
<1>3. CASE Calls
  <2>1. CASE refreshAuthToken
    BY <2>1 DEF refreshAuthToken, serverVars
  <2>2. CASE \/ goOffline \/ NetworkReachable \/ purgeOutstandingWrites \/ onDisconnectSetValue
             \/ \E h \in BOOLEAN : putInternal(h)
             \/ \E q \in Queries : listen(q) \/ unlisten(q)
    BY <2>2 DEF goOffline, NetworkReachable, purgeOutstandingWrites, onDisconnectSetValue,
                onDisconnectOperation, putInternal, listen, unlisten, linkVars, serverVars
  <2> QED
    BY <1>3, <2>1, <2>2 DEF Calls
<1>4. CASE ServerTakes
  <2>1. PICK i \in 1..Len(wire) : \E s \in {"ok", "fail"} :
           applied' = IF wire[i].kind = "put" /\ s = "ok"
                      THEN Append(applied, [put |-> wire[i].id, hash |-> wire[i].more])
                      ELSE applied
    BY <1>4 DEF ServerTakes
  <2>2. wire[i] \in Requests /\ (wire[i].kind = "put" => wire[i].more \in BOOLEAN)
    BY ElementOfSeq DEF WireInv, WireData
  <2> DEFINE e == [put |-> wire[i].id, hash |-> wire[i].more]
  <2>3. wire[i].kind = "put" => e \in [put : Nat, hash : BOOLEAN]
    BY <2>2 DEF Requests
  <2> HIDE DEF e
  <2>4. applied' = applied \/ (wire[i].kind = "put" /\ applied' = Append(applied, e))
    BY <2>1 DEF e
  <2>5. applied' \in Seq([put : Nat, hash : BOOLEAN])
    <3>1. CASE applied' = applied
      BY <3>1
    <3>2. CASE wire[i].kind = "put" /\ applied' = Append(applied, e)
      BY <2>3, <3>2, AppendProperties
    <3> QED
      BY <2>4, <3>1, <3>2
  <2>6. UNCHANGED <<issued, revoked, refused, token>>
    BY <1>4 DEF ServerTakes, linkVars
  <2> QED
    BY <2>5, <2>6
<1>5. CASE onDataMessage
  <2>1. PICK i \in 1..Len(wire) : /\ Answerable(i)
                                  /\ \/ AuthAnswered(i) \/ PutAnswered(i)
                                     \/ ListenAnswered(i) \/ OpAnswered(i)
    BY <1>5 DEF onDataMessage
  <2>2. CASE AuthAnswered(i)
    <3>1. wire[i].status = "fail" => wire[i].id \in 0..revoked
      BY <2>2 DEF AuthAnswered, WireInv, AuthRequests
    <3>2. /\ UNCHANGED <<applied, issued, revoked>>
          /\ IF wire[i].status = "fail" THEN token' = 0 /\ refused' = wire[i].id
             ELSE UNCHANGED <<token, refused>>
      BY <2>2 DEF AuthAnswered
    <3> QED
      BY <3>1, <3>2
  <2>3. CASE PutAnswered(i) \/ ListenAnswered(i) \/ OpAnswered(i)
    BY <2>3 DEF PutAnswered, ListenAnswered, OpAnswered, linkVars, serverVars
  <2> QED
    BY <2>1, <2>2, <2>3
<1> QED
  BY <1>1, <1>2, <1>3, <1>4, <1>5 DEF Next

(* Every step keeps the invariant of the wire.                                *)
LEMMA WireInvStep ==
    ASSUME IsFiniteSet(Queries), MaxPuts \in Nat, LinkStates, ClientData, WireInv, ServerData, Next
    PROVE  WireInv'
<1>a. wire \in Seq(Requests)
  BY DEF WireInv, WireData
<1>1. CASE Link
  <2>1. CASE open \/ goOnline
    BY <2>1, SameWire DEF open, goOnline, resumeForReason, listenVars, serverVars, ServerData
  <2>2. CASE RetryFires
    BY <2>2, SameWire DEF RetryFires, listenVars, serverVars, ServerData, LinkStates, OneConnection
  <2>3. ASSUME NEW n \in DOMAIN fetches, TokenFetched(n) PROVE WireInv'
    <3>1. issued' \in Nat /\ issued' >= issued
      BY <2>3 DEF TokenFetched, ServerData
    <3>2. UNCHANGED <<wire, unacked, revoked>> /\ (state' = state \/ (state = "GettingToken" /\ state' = "Connecting"))
      BY <2>3 DEF TokenFetched, listenVars
    <3> QED
      BY <3>1, <3>2, SameWire DEF ServerData
  <2>4. CASE onReady
    <3>1. wire = <<>> /\ unacked = Cardinality(Listening(wire))
      BY <2>4 DEF onReady, LinkStates, OneConnection, connected, WireInv, CountsListens
    <3>2. CASE token = 0
      BY <1>a, <2>4, <3>1, <3>2, EmptyWire, RestoredWire DEF onReady, serverVars
    <3>3. CASE token # 0
      <4> DEFINE r == Request("auth", token, TRUE)
      <4>1. /\ r \in Requests /\ r.kind = "auth" /\ r.id = token /\ r.more = TRUE
            /\ r.status = "sent" /\ token \in 1..issued
        BY <3>3 DEF Request, Requests, ServerData
      <4>2. /\ wire' = Append(wire, r) /\ state' = "Authenticating"
            /\ UNCHANGED <<unacked, issued, revoked>>
        BY <2>4, <3>3 DEF onReady, serverVars
      <4> HIDE DEF r
      <4> QED
        BY <3>1, <4>1, <4>2, SentWire
    <3> QED
      BY <3>2, <3>3
  <2> QED
    BY <1>1, <2>1, <2>2, <2>3, <2>4 DEF Link
<1>2. CASE Failures
  <2>1. CASE ConnectionLost \/ onKill \/ onAuthRevoked
    BY <2>1, ClearedWire DEF ConnectionLost, onKill, interruptForReason, onAuthRevoked, onDisconnect
  <2>2. CASE TokenExpires
    BY <2>2, SameWire DEF TokenExpires, linkVars, listenVars, ServerData
  <2>3. ASSUME NEW n \in DOMAIN fetches, TokenFailed(n) PROVE WireInv'
    <3>1. state' = state \/ (state # "Authenticating" /\ state' = "Disconnected")
      BY <2>3 DEF TokenFailed, IsLatest, LinkStates, LatestFetch
    <3> QED
      BY <2>3, <3>1, SameWire DEF TokenFailed, listenVars, serverVars, ServerData
  <2>4. ASSUME NEW q \in Queries, onListenRevoked(q) PROVE WireInv'
    BY <2>4, SameWire DEF onListenRevoked, linkVars, serverVars, ServerData
  <2> QED
    BY <1>2, <2>1, <2>2, <2>3, <2>4 DEF Failures
<1>3. CASE Calls
  <2>1. CASE goOffline
    <3>1. CASE realtime # "none"
      BY <2>1, <3>1, ClearedWire DEF goOffline, interruptForReason, onDisconnect
    <3>2. CASE realtime = "none"
      BY <2>1, <3>2, SameWire DEF goOffline, interruptForReason, listenVars, serverVars,
                                  ServerData, LinkStates, OneConnection
    <3> QED
      BY <3>1, <3>2
  <2>2. CASE NetworkReachable \/ purgeOutstandingWrites
    BY <2>2, SameWire DEF NetworkReachable, purgeOutstandingWrites, linkVars, listenVars,
                          serverVars, ServerData
  <2>3. CASE refreshAuthToken
    <3>1. PICK t \in {0, issued} : wire' = IF connected /\ t # 0
                                          THEN Append(wire, Request("auth", t, FALSE)) ELSE wire
      BY <2>3 DEF refreshAuthToken
    <3>2. UNCHANGED <<state, unacked, issued, revoked>>
      BY <2>3 DEF refreshAuthToken, listenVars, serverVars
    <3>3. CASE connected /\ t # 0
      <4> DEFINE r == Request("auth", t, FALSE)
      <4>1. /\ r \in Requests /\ r.kind = "auth" /\ r.id = t /\ r.more = FALSE
            /\ r.status = "sent" /\ t \in 1..issued
        BY <3>3 DEF Request, Requests, ServerData
      <4>2. wire' = Append(wire, r)
        BY <3>1, <3>3
      <4> HIDE DEF r
      <4> QED
        BY <3>2, <4>1, <4>2, SentWire
    <3>4. CASE ~(connected /\ t # 0)
      <4>1. UNCHANGED wire
        BY <3>1, <3>4
      <4>2. issued \in Nat /\ revoked \in Nat
        BY DEF ServerData
      <4> QED
        BY <3>2, <4>1, <4>2, SameWire
    <3> QED
      BY <3>3, <3>4
  <2>4. CASE onDisconnectSetValue
    <3>1. UNCHANGED <<state, unacked, issued, revoked>>
      BY <2>4 DEF onDisconnectSetValue, onDisconnectOperation, linkVars, listenVars, serverVars
    <3>2. CASE canSendWrites
      <4> DEFINE r == Request("op", opNo + 1, "")
      <4>1. r \in Requests /\ r.kind = "op" /\ r.status = "sent"
        BY DEF Request, Requests, ClientData
      <4>2. wire' = Append(wire, r)
        BY <2>4, <3>2 DEF onDisconnectSetValue, onDisconnectOperation
      <4> HIDE DEF r
      <4> QED
        BY <3>1, <4>1, <4>2, SentWire
    <3>3. CASE ~canSendWrites
      <4>1. UNCHANGED wire
        BY <2>4, <3>3 DEF onDisconnectSetValue, onDisconnectOperation
      <4> QED
        BY <3>1, <4>1, SameWire DEF ServerData
    <3> QED
      BY <3>2, <3>3
  <2>5. ASSUME NEW h \in BOOLEAN, putInternal(h) PROVE WireInv'
    <3>1. UNCHANGED <<state, unacked, issued, revoked>>
      BY <2>5 DEF putInternal, linkVars, listenVars, serverVars
    <3>2. CASE canSendWrites
      <4> DEFINE x == putCounter + 1
                 r == Request("put", x, h)
      <4>0. x \in Nat
        BY DEF ClientData
      <4> HIDE DEF x
      <4>1. r \in Requests /\ r.kind = "put" /\ r.more = h /\ r.status = "sent"
        BY <4>0 DEF Request, Requests
      <4>2. wire' = Append(wire, r)
        BY <2>5, <3>2 DEF putInternal, x
      <4> HIDE DEF r
      <4> QED
        BY <3>1, <4>1, <4>2, SentWire
    <3>3. CASE ~canSendWrites
      <4>1. UNCHANGED wire
        BY <2>5, <3>3 DEF putInternal
      <4> QED
        BY <3>1, <4>1, SameWire DEF ServerData
    <3> QED
      BY <3>2, <3>3
  <2>6. ASSUME NEW q \in Queries, listen(q) PROVE WireInv'
    <3>1. UNCHANGED <<state, issued, revoked>>
      BY <2>6 DEF listen, linkVars, serverVars
    <3>2. CASE connected
      <4> DEFINE x == listenNo + 1
                 r == Request("listen", x, q)
      <4>0. x \in Nat
        BY DEF ClientData
      <4> HIDE DEF x
      <4>1. r \in Requests /\ r.kind = "listen" /\ r.more = q /\ r.status = "sent"
        BY <4>0 DEF Request, Requests
      <4>2. wire' = Append(wire, r) /\ unacked' = unacked + 1
        BY <2>6, <3>2 DEF listen, x
      <4> HIDE DEF r
      <4> QED
        BY <3>1, <4>1, <4>2, SentWire
    <3>3. CASE ~connected
      <4>1. UNCHANGED <<wire, unacked>>
        BY <2>6, <3>3 DEF listen
      <4> QED
        BY <3>1, <4>1, SameWire DEF ServerData
    <3> QED
      BY <3>2, <3>3
  <2>7. ASSUME NEW q \in Queries, unlisten(q) PROVE WireInv'
    BY <2>7, SameWire DEF unlisten, linkVars, serverVars, ServerData
  <2> QED
    BY <1>3, <2>1, <2>2, <2>3, <2>4, <2>5, <2>6, <2>7 DEF Calls
<1>4. CASE ServerTakes
  <2>1. PICK i \in 1..Len(wire), s \in {"ok", "fail"} :
           /\ wire[i].kind = "auth" => s = IF wire[i].id > revoked THEN "ok" ELSE "fail"
           /\ wire' = [wire EXCEPT ![i].status = s]
    BY <1>4 DEF ServerTakes
  <2>2. UNCHANGED <<state, unacked, issued, revoked>>
    BY <1>4 DEF ServerTakes, linkVars, listenVars
  <2>3. wire[i].kind = "auth" /\ s = "fail" => wire[i].id <= revoked
    BY <2>1 DEF WireInv, AuthRequests, ServerData
  <2> QED
    BY <2>1, <2>2, <2>3, TakenWire
<1>5. CASE onDataMessage
  <2>1. PICK i \in 1..Len(wire) : /\ Answerable(i)
                                  /\ \/ AuthAnswered(i) \/ PutAnswered(i)
                                     \/ ListenAnswered(i) \/ OpAnswered(i)
    BY <1>5 DEF onDataMessage
  <2>2. CASE AuthAnswered(i) /\ wire[i].status = "fail"
    BY <2>2, ClearedWire DEF AuthAnswered, onDisconnect
  <2>3. CASE AuthAnswered(i) /\ wire[i].status # "fail" /\ ~wire[i].more
    BY <2>1, <2>3, AnsweredWire DEF AuthAnswered
  <2>4. CASE AuthAnswered(i) /\ wire[i].status # "fail" /\ wire[i].more
    <3>1. wire[i].kind = "auth" /\ i = 1 /\ restoreState(Answered(i)) /\ state' = "Connected"
          /\ UNCHANGED <<issued, revoked>>
      BY <2>4 DEF AuthAnswered, WireInv, AuthFirst
    <3>2. /\ Answered(i) \in Seq(Requests) /\ Len(wire) \in Nat
          /\ Len(Answered(i)) = Len(wire) - 1
          /\ \A j \in 1..(Len(wire) - 1) : Answered(i)[j] = wire[j + 1] /\ j + 1 \in 1..Len(wire)
      BY <1>a, <3>1, AnsweredIs
    <3>3. \A j \in 2..Len(wire) : /\ wire[j].kind \in {"auth", "put"} => wire[j].more \in BOOLEAN
                                  /\ wire[j].kind = "listen" => wire[j].more \in Queries
                                  /\ wire[j].kind = "auth" =>
                                        /\ ~wire[j].more /\ wire[j].id \in 1..issued
                                        /\ wire[j].status = "fail" => wire[j].id <= revoked
      BY <3>2 DEF WireInv, WireData, AuthFirst, AuthRequests
    <3>4. unacked = Cardinality(Listening(Answered(i)))
      BY <1>a, <3>1, CountAnswered DEF WireInv, CountsListens
    <3>5. \A j \in 1..Len(Answered(i)) :
             /\ Answered(i)[j].kind = "put" => Answered(i)[j].more \in BOOLEAN
             /\ Answered(i)[j].kind = "listen" => Answered(i)[j].more \in Queries
             /\ Answered(i)[j].kind = "auth" =>
                   /\ Answered(i)[j].more = FALSE /\ Answered(i)[j].id \in 1..issued
                   /\ Answered(i)[j].status = "fail" => Answered(i)[j].id <= revoked
      <4> TAKE j \in 1..Len(Answered(i))
      <4>1. j + 1 \in 2..Len(wire) /\ Answered(i)[j] = wire[j + 1]
        BY <3>2
      <4> QED
        BY <3>3, <4>1
    <3> QED
      BY <3>1, <3>2, <3>4, <3>5, RestoredWire
  <2>5. CASE PutAnswered(i) \/ OpAnswered(i)
    <3>1. state # "Authenticating"
      BY <2>1, <2>5, OnlyFirstAuth DEF PutAnswered, OpAnswered
    <3> QED
      BY <2>1, <2>5, <3>1, AnsweredWire DEF PutAnswered, OpAnswered, linkVars, listenVars, serverVars
  <2>6. CASE ListenAnswered(i)
    <3>1. state # "Authenticating"
      BY <2>1, <2>6, OnlyFirstAuth DEF ListenAnswered
    <3> QED
      BY <2>1, <2>6, <3>1, AnsweredWire DEF ListenAnswered, CountDown, linkVars, serverVars
  <2> QED
    BY <2>1, <2>2, <2>3, <2>4, <2>5, <2>6
<1> QED
  BY <1>1, <1>2, <1>3, <1>4, <1>5 DEF Next

(* Before the connection is opened.                                           *)
LEMMA LinkInvInit ==
    ASSUME Init, MaxPuts \in Nat
    PROVE  LinkInv
<1>1. Listening(<<>>) = {} /\ <<>> \in Seq(Requests) /\ <<>> \in Seq(Nat) /\ <<>> \in Seq(Answers)
      /\ <<>> \in Seq([put : Nat, hash : BOOLEAN])
  BY EmptyWire DEF Listening
<1>2. Cardinality(Listening(<<>>)) = 0
  BY <1>1, FS_EmptySet
<1>3. DOMAIN <<>> = {}
  OBVIOUS
<1>4. LinkStates
  BY <1>3 DEF Init, LinkStates, States, OneConnection, InterruptedMeansOffline, LatestFetch,
              connected, Reasons
<1>5. ClientData
  BY <1>1, <1>3 DEF Init, ClientData, Outstanding
<1>6. ServerData
  BY <1>1 DEF Init, ServerData
<1>7. WireInv
  BY <1>1, <1>2, EmptyWire DEF Init, WireInv, WireData, CountsListens, AuthRequests, AuthFirst
<1> QED
  BY <1>4, <1>5, <1>6, <1>7 DEF LinkInv, WireInv

(* Every step of the link keeps its invariant.                                *)
LEMMA LinkInvStep ==
    ASSUME MaxPuts \in Nat, IsFiniteSet(Queries), LinkInv, [Next]_vars
    PROVE  LinkInv'
<1>1. CASE Next
  <2>1. LinkStates /\ ClientData /\ WireInv /\ ServerData
    BY DEF LinkInv, WireInv
  <2>2. LinkStates' /\ ServerData'
    BY <1>1, <2>1, LinkStatesStep, ServerDataStep
  <2>3. WireInv'
    BY <1>1, <2>1, WireInvStep
  <2>4. ClientData'
    BY <1>1, <2>1, ClientDataStep DEF WireInv
  <2> QED
    BY <2>2, <2>3, <2>4 DEF LinkInv, WireInv
<1>2. CASE UNCHANGED vars
  BY <1>2 DEF vars, linkVars, putVars, listenVars, opVars, serverVars, LinkInv, LinkStates, States,
              OneConnection, InterruptedMeansOffline, LatestFetch, connected, ClientData,
              Outstanding, WireData, ServerData, CountsListens, AuthRequests, AuthFirst
<1> QED
  BY <1>1, <1>2

(* The invariant of the link holds whatever the bounds, the queries and the   *)
(* faults: no order of timers, token answers, notices and lost sockets leaves *)
(* the states it describes.                                                   *)
THEOREM LinkInvariant ==
    ASSUME MaxPuts \in Nat, IsFiniteSet(Queries)
    PROVE  Spec => []LinkInv
<1>1. Init => LinkInv
  BY LinkInvInit
<1>2. LinkInv /\ [Next]_vars => LinkInv'
  BY LinkInvStep
<1> QED
  BY <1>1, <1>2, PTL DEF Spec

-----------------------------------------------------------------------------
(* What the steps of the link do to the writes: eight effects.                *)

(* Nothing, but perhaps a request of another kind is sent.                    *)
Aside == /\ UNCHANGED <<puts, putCounter, putsToAck, reports, applied>>
         /\ (state' = "Connected") <=> (state = "Connected")
         /\ \/ wire' = wire
            \/ \E r \in Requests : r.kind # "put" /\ r.status = "sent" /\ wire' = Append(wire, r)

(* The connection is closed.                                                  *)
Cut == /\ state' = "Disconnected" /\ wire' = <<>>
       /\ puts' = Only(Outstanding \ SentTransactions)
       /\ reports' = reports \o Reported("disconnect", SentTransactions)
       /\ UNCHANGED <<putCounter, putsToAck, applied>>

(* Everything outstanding is sent, after what is left of the handshake.       *)
Resent == /\ state # "Connected" /\ state' = "Connected"
          /\ \E before \in Seq(Requests) :
                /\ restoreState(before)
                /\ before = <<>> \/ (wire # <<>> /\ before = Answered(1))
          /\ UNCHANGED <<putCounter, putsToAck, reports, applied>>

Written == /\ \E h \in BOOLEAN : putInternal(h)
           /\ UNCHANGED <<state, putsToAck, reports, applied>>

Purged == purgeOutstandingWrites /\ UNCHANGED <<state, wire, putCounter, applied>>

Taken == ServerTakes /\ UNCHANGED <<state, puts, putCounter, putsToAck, reports>>

OtherAnswered == /\ \E i \in 1..Len(wire) :
                       Answerable(i) /\ wire[i].kind # "put" /\ wire' = Answered(i)
                 /\ \/ UNCHANGED <<reports, putsToAck>>
                    \/ reports' = reports \o putsToAck /\ putsToAck' = <<>>
                 /\ UNCHANGED <<state, puts, putCounter, applied>>

WriteAnswered == /\ \E i \in 1..Len(wire) : Answerable(i) /\ PutAnswered(i)
                 /\ UNCHANGED <<state, putCounter, applied>>

Effects == \/ Aside \/ Cut \/ Resent \/ Written
           \/ Purged \/ Taken \/ OtherAnswered \/ WriteAnswered

(* Every step has one of them.                                                *)
LEMMA EveryStep ==
    ASSUME LinkInv, Next
    PROVE  Effects
<1> USE DEF Effects
<1>a. LinkStates /\ WireInv /\ ClientData
  BY DEF LinkInv, WireInv
<1>b. wire \in Seq(Requests)
  BY DEF LinkInv, WireData
<1>1. CASE Link
  <2>1. CASE open \/ goOnline
    BY <2>1 DEF Aside, open, goOnline, resumeForReason, putVars, serverVars
  <2>2. CASE RetryFires
    BY <1>a, <2>2 DEF Aside, RetryFires, putVars, serverVars, LinkStates, OneConnection
  <2>3. ASSUME NEW n \in DOMAIN fetches, TokenFetched(n) PROVE Aside
    BY <2>3 DEF Aside, TokenFetched, putVars
  <2>4. CASE onReady /\ token = 0
    <3>1. wire = <<>> /\ state # "Connected"
      BY <1>a, <2>4 DEF onReady, LinkStates, OneConnection, connected
    <3>2. Resent
      BY <1>b, <2>4, <3>1 DEF Resent, onReady, serverVars
    <3> QED
      BY <3>2
  <2>5. CASE onReady /\ token # 0
    <3> DEFINE r == Request("auth", token, TRUE)
    <3>1. r \in Requests /\ r.kind = "auth" /\ r.status = "sent"
      BY DEF Request, Requests, LinkInv, ServerData
    <3>2. wire' = Append(wire, r) /\ state # "Connected" /\ state' = "Authenticating"
          /\ UNCHANGED <<puts, putCounter, putsToAck, reports, applied>>
      BY <1>a, <2>5 DEF onReady, serverVars, LinkStates, OneConnection, connected
    <3> HIDE DEF r
    <3> QED
      BY <3>1, <3>2 DEF Aside
  <2> QED
    BY <1>1, <2>1, <2>2, <2>3, <2>4, <2>5 DEF Link
<1>2. CASE Failures
  <2>1. CASE ConnectionLost \/ onKill \/ onAuthRevoked
    BY <2>1 DEF Cut, ConnectionLost, onKill, interruptForReason, onAuthRevoked, onDisconnect,
                serverVars
  <2>2. CASE TokenExpires \/ \E q \in Queries : onListenRevoked(q)
    BY <2>2 DEF Aside, TokenExpires, onListenRevoked, linkVars, putVars, serverVars
  <2>3. ASSUME NEW n \in DOMAIN fetches, TokenFailed(n) PROVE Aside
    BY <1>a, <2>3 DEF Aside, TokenFailed, IsLatest, putVars, serverVars, LinkStates, LatestFetch
  <2> QED
    BY <1>2, <2>1, <2>2, <2>3 DEF Failures
<1>3. CASE Calls
  <2>1. CASE goOffline
    <3>1. CASE realtime # "none"
      BY <2>1, <3>1 DEF Cut, goOffline, interruptForReason, onDisconnect, serverVars
    <3>2. CASE realtime = "none"
      BY <1>a, <2>1, <3>2 DEF Aside, goOffline, interruptForReason, serverVars, LinkStates,
                              OneConnection
    <3> QED
      BY <3>1, <3>2
  <2>2. CASE NetworkReachable
    BY <2>2 DEF Aside, NetworkReachable, putVars, serverVars
  <2>3. CASE refreshAuthToken
    <3>1. PICK t \in {0, issued} : wire' = IF connected /\ t # 0
                                          THEN Append(wire, Request("auth", t, FALSE)) ELSE wire
      BY <2>3 DEF refreshAuthToken
    <3> DEFINE r == Request("auth", t, FALSE)
    <3>2. r \in Requests /\ r.kind = "auth" /\ r.status = "sent"
      BY DEF Request, Requests, LinkInv, ServerData
    <3>3. wire' = wire \/ wire' = Append(wire, r)
      BY <3>1
    <3> HIDE DEF r
    <3>4. UNCHANGED <<state, puts, putCounter, putsToAck, reports, applied>>
      BY <2>3 DEF refreshAuthToken, putVars, serverVars
    <3> QED
      BY <3>2, <3>3, <3>4 DEF Aside
  <2>4. CASE purgeOutstandingWrites
    BY <2>4 DEF Purged, purgeOutstandingWrites, linkVars, serverVars
  <2>5. CASE onDisconnectSetValue
    <3> DEFINE r == Request("op", opNo + 1, "")
    <3>1. r \in Requests /\ r.kind = "op" /\ r.status = "sent"
      BY <1>a DEF Request, Requests, ClientData
    <3>2. wire' = wire \/ wire' = Append(wire, r)
      BY <2>5 DEF onDisconnectSetValue, onDisconnectOperation
    <3> HIDE DEF r
    <3>3. UNCHANGED <<state, puts, putCounter, putsToAck, reports, applied>>
      BY <2>5 DEF onDisconnectSetValue, onDisconnectOperation, linkVars, putVars, serverVars
    <3> QED
      BY <3>1, <3>2, <3>3 DEF Aside
  <2>6. ASSUME NEW h \in BOOLEAN, putInternal(h) PROVE Written
    BY <2>6 DEF Written, putInternal, linkVars, serverVars
  <2>7. ASSUME NEW q \in Queries, listen(q) PROVE Aside
    <3> DEFINE x == listenNo + 1
               r == Request("listen", x, q)
    <3>0. x \in Nat
      BY <1>a DEF ClientData
    <3>1. wire' = wire \/ wire' = Append(wire, r)
      BY <2>7 DEF listen
    <3> HIDE DEF x
    <3>2. r \in Requests /\ r.kind = "listen" /\ r.status = "sent"
      BY <3>0 DEF Request, Requests
    <3> HIDE DEF r
    <3>3. UNCHANGED <<state, puts, putCounter, putsToAck, reports, applied>>
      BY <2>7 DEF listen, linkVars, putVars, serverVars
    <3> QED
      BY <3>1, <3>2, <3>3 DEF Aside
  <2>8. ASSUME NEW q \in Queries, unlisten(q) PROVE Aside
    BY <2>8 DEF Aside, unlisten, linkVars, putVars, serverVars
  <2> QED
    BY <1>3, <2>1, <2>2, <2>3, <2>4, <2>5, <2>6, <2>7, <2>8 DEF Calls
<1>4. CASE ServerTakes
  BY <1>4 DEF Taken, ServerTakes, linkVars, putVars
<1>5. CASE onDataMessage
  <2>1. PICK i \in 1..Len(wire) : /\ Answerable(i)
                                  /\ \/ AuthAnswered(i) \/ PutAnswered(i)
                                     \/ ListenAnswered(i) \/ OpAnswered(i)
    BY <1>5 DEF onDataMessage
  <2>2. CASE AuthAnswered(i) /\ wire[i].status = "fail"
    BY <2>2 DEF Cut, AuthAnswered, onDisconnect
  <2>3. CASE AuthAnswered(i) /\ wire[i].status # "fail" /\ wire[i].more
    <3>1. i = 1 /\ state = "Authenticating" /\ wire # <<>>
      BY <1>a, <2>3, EmptyWire DEF AuthAnswered, WireInv, AuthFirst
    <3>2. Answered(1) \in Seq(Requests)
      BY <1>b, <3>1, AnsweredIs
    <3> QED
      BY <2>3, <3>1, <3>2 DEF Resent, AuthAnswered
  <2>4. CASE AuthAnswered(i) /\ wire[i].status # "fail" /\ ~wire[i].more
    <3>1. state = "Connected"
      BY <1>a, <2>1, <2>4, OnlyFirstAuth, EmptyWire DEF LinkStates, OneConnection, connected
    <3> QED
      BY <2>1, <2>4, <3>1 DEF OtherAnswered, AuthAnswered
  <2>5. CASE PutAnswered(i)
    BY <2>1, <2>5 DEF WriteAnswered, PutAnswered, linkVars, serverVars
  <2>6. CASE ListenAnswered(i)
    <3>1. Held = putsToAck
      BY <1>a, HeldIs DEF ClientData
    <3> QED
      BY <2>1, <2>6, <3>1 DEF OtherAnswered, ListenAnswered, linkVars, serverVars
  <2>7. CASE OpAnswered(i)
    BY <2>1, <2>7 DEF OtherAnswered, OpAnswered, linkVars, putVars, serverVars
  <2> QED
    BY <2>1, <2>2, <2>3, <2>4, <2>5, <2>6, <2>7
<1> QED
  BY <1>1, <1>2, <1>3, <1>4, <1>5 DEF Next

-----------------------------------------------------------------------------
(* Every write is settled once.                                               *)

(* Sequences of answers one after the other.                                  *)
LEMMA JoinedIs ==
    ASSUME NEW s \in Seq(Answers), NEW t \in Seq(Answers), Once(s), Once(t),
           Ids(s) \intersect Ids(t) = {}
    PROVE  Once(s \o t) /\ Ids(s \o t) = Ids(s) \union Ids(t)
<1> DEFINE u == s \o t
<1>1. /\ Len(s) \in Nat /\ Len(t) \in Nat /\ Len(u) = Len(s) + Len(t)
      /\ \A k \in 1..Len(s) : u[k] = s[k]
      /\ \A k \in 1..Len(t) : u[Len(s) + k] = t[k]
  BY ConcatProperties, LenProperties
<1> HIDE DEF u
<1>2. \A k \in 1..Len(u) : \/ k \in 1..Len(s)
                           \/ k - Len(s) \in 1..Len(t) /\ k = Len(s) + (k - Len(s))
  BY <1>1
<1>3. \A k \in 1..Len(u) : \/ k \in 1..Len(s) /\ u[k].put = s[k].put /\ u[k].put \in Ids(s)
                           \/ /\ k - Len(s) \in 1..Len(t)
                              /\ u[k].put = t[k - Len(s)].put /\ u[k].put \in Ids(t)
  <2> TAKE k \in 1..Len(u)
  <2>1. CASE k \in 1..Len(s)
    BY <1>1, <2>1 DEF Ids
  <2>2. CASE k - Len(s) \in 1..Len(t) /\ k = Len(s) + (k - Len(s))
    <3> DEFINE m == k - Len(s)
    <3>1. m \in 1..Len(t) /\ u[k] = u[Len(s) + m]
      BY <2>2
    <3> HIDE DEF m
    <3>2. u[k] = t[m] /\ t[m].put \in Ids(t)
      BY <1>1, <3>1 DEF Ids
    <3> QED
      BY <3>1, <3>2 DEF m
  <2> QED
    BY <1>2, <2>1, <2>2
<1>4. Once(u)
  <2> SUFFICES ASSUME NEW k \in 1..Len(u), NEW l \in 1..Len(u), u[k].put = u[l].put
               PROVE  k = l
    BY DEF Once
  <2>1. CASE k \in 1..Len(s) /\ l \in 1..Len(s)
    BY <1>1, <2>1 DEF Once
  <2>2. CASE k \notin 1..Len(s) /\ l \notin 1..Len(s)
    <3>1. /\ k - Len(s) \in 1..Len(t) /\ l - Len(s) \in 1..Len(t)
          /\ t[k - Len(s)].put = t[l - Len(s)].put
      BY <1>3, <2>2
    <3>2. k - Len(s) = l - Len(s)
      BY <3>1 DEF Once
    <3> QED
      BY <1>1, <3>2
  <2>3. \A m \in 1..Len(s) : u[m].put \in Ids(s)
    BY <1>1 DEF Ids
  <2>4. \A m \in 1..Len(u) : m \notin 1..Len(s) => u[m].put \in Ids(t)
    BY <1>3
  <2>5. CASE k \in 1..Len(s) /\ l \notin 1..Len(s)
    BY <2>3, <2>4, <2>5
  <2>6. CASE k \notin 1..Len(s) /\ l \in 1..Len(s)
    BY <2>3, <2>4, <2>6
  <2> QED
    BY <2>1, <2>2, <2>5, <2>6
<1>5. Ids(u) \subseteq Ids(s) \union Ids(t)
  BY <1>3 DEF Ids
<1>6. Ids(s) \subseteq Ids(u)
  <2>1. \A k \in 1..Len(s) : k \in 1..Len(u)
    BY <1>1
  <2> QED
    BY <1>1, <2>1 DEF Ids
<1>7. Ids(t) \subseteq Ids(u)
  <2>1. \A k \in 1..Len(t) : Len(s) + k \in 1..Len(u)
    BY <1>1
  <2> QED
    BY <1>1, <2>1 DEF Ids
<1> QED
  BY <1>4, <1>5, <1>6, <1>7 DEF u

(* One more answer.                                                           *)
LEMMA AddedIs ==
    ASSUME NEW s \in Seq(Answers), NEW r \in Answers, Once(s), r.put \notin Ids(s)
    PROVE  Once(Append(s, r)) /\ Ids(Append(s, r)) = Ids(s) \union {r.put}
<1> DEFINE u == Append(s, r)
<1>1. /\ Len(s) \in Nat /\ Len(u) = Len(s) + 1 /\ u[Len(s) + 1] = r
      /\ \A k \in 1..Len(s) : u[k] = s[k]
  BY AppendProperties, LenProperties
<1> HIDE DEF u
<1>2. \A k \in 1..Len(u) : k \in 1..Len(s) \/ k = Len(s) + 1
  BY <1>1
<1>3. \A k \in 1..Len(s) : u[k].put \in Ids(s) /\ k \in 1..Len(u)
  BY <1>1 DEF Ids
<1>4. Once(u)
  BY <1>1, <1>2, <1>3 DEF Once
<1>5. Ids(u) = Ids(s) \union {r.put}
  <2>1. Len(s) + 1 \in 1..Len(u)
    BY <1>1
  <2>2. Ids(u) \subseteq Ids(s) \union {r.put}
    BY <1>1, <1>2, <1>3 DEF Ids
  <2>3. r.put \in Ids(u)
    BY <1>1, <2>1 DEF Ids
  <2>4. Ids(s) \subseteq Ids(u)
    BY <1>1, <1>3 DEF Ids
  <2> QED
    BY <2>2, <2>3, <2>4
<1> QED
  BY <1>4, <1>5 DEF u

(* Without answers there are no writes in them.                               *)
LEMMA NoAnswers == Once(<<>>) /\ Ids(<<>>) = {}
  BY EmptyWire DEF Once, Ids

(* A write that is settled stays settled, the others stay open.               *)
LEMMA SettledStep ==
    ASSUME MaxPuts \in Nat, IsFiniteSet(Queries), LinkInv, Settled, Effects
    PROVE  Settled'
<1>a. /\ reports \in Seq(Answers) /\ putsToAck \in Seq(Answers) /\ putCounter \in Nat
      /\ Outstanding \in SUBSET (1..putCounter) /\ SentTransactions \in SUBSET (1..putCounter)
  <2>1. /\ reports \in Seq(Answers) /\ putsToAck \in Seq(Answers)
        /\ putCounter \in 0..MaxPuts /\ Outstanding \subseteq 1..putCounter
    BY DEF LinkInv, ClientData
  <2>2. SentTransactions \subseteq Outstanding
    BY DEF SentTransactions
  <2> QED
    BY <2>1, <2>2
<1>1. CASE Aside \/ Taken
  BY <1>1 DEF Aside, Taken, Settled, Outstanding
<1>2. CASE Cut
  <2> DEFINE t == Reported("disconnect", SentTransactions)
  <2>1. t \in Seq(Answers) /\ Once(t) /\ Ids(t) = SentTransactions
    BY <1>a, ReportedIs
  <2>2. /\ Outstanding' = Outstanding \ SentTransactions /\ reports' = reports \o t
        /\ SentTransactions \subseteq Outstanding /\ UNCHANGED <<putsToAck, putCounter>>
    BY <1>2 DEF Cut, Outstanding, Only, SentTransactions
  <2> HIDE DEF t
  <2>3. Once(reports') /\ Ids(reports') = Ids(reports) \union SentTransactions
    BY <1>a, <2>1, <2>2, JoinedIs DEF Settled
  <2> QED
    BY <2>2, <2>3 DEF Settled
<1>3. CASE Resent
  <2>1. Outstanding' = Outstanding /\ UNCHANGED <<putCounter, putsToAck, reports>>
    BY <1>3 DEF Resent, restoreState, Outstanding
  <2> QED
    BY <2>1 DEF Settled
<1>4. CASE Written
  <2>1. /\ Outstanding' = Outstanding \union {putCounter + 1} /\ putCounter' = putCounter + 1
        /\ UNCHANGED <<putsToAck, reports>>
    BY <1>4 DEF Written, putInternal, Outstanding
  <2>2. putCounter + 1 \notin 1..putCounter /\ 1..(putCounter + 1) = 1..putCounter \union {putCounter + 1}
    BY <1>a
  <2> QED
    BY <2>1, <2>2 DEF Settled
<1>5. CASE Purged
  <2> DEFINE t == Reported("canceled", Outstanding)
  <2>1. t \in Seq(Answers) /\ Once(t) /\ Ids(t) = Outstanding
    BY <1>a, ReportedIs
  <2>2. /\ Outstanding' = {} /\ reports' = reports \o putsToAck \o t
        /\ putsToAck' = <<>> /\ UNCHANGED putCounter
    BY <1>5, <1>a, HeldIs DEF Purged, purgeOutstandingWrites, Outstanding
  <2> DEFINE s == reports \o putsToAck
  <2> HIDE DEF t
  <2>3. s \in Seq(Answers) /\ Once(s) /\ Ids(s) = Ids(reports) \union Ids(putsToAck)
    BY <1>a, JoinedIs, AnswersConcat DEF Settled
  <2>a. reports' = s \o t
    BY <2>2
  <2> HIDE DEF s
  <2>4. Once(reports') /\ Ids(reports') = Ids(reports) \union Ids(putsToAck) \union Outstanding
    <3>1. Ids(s) \intersect Ids(t) = {}
      BY <2>1, <2>3 DEF Settled
    <3>2. Once(s \o t) /\ Ids(s \o t) = Ids(s) \union Ids(t)
      BY <2>1, <2>3, <3>1, JoinedIs
    <3> QED
      BY <2>1, <2>3, <2>a, <3>2
  <2> QED
    BY <2>2, <2>4, NoAnswers DEF Settled
<1>6. CASE OtherAnswered
  <2>1. CASE UNCHANGED <<reports, putsToAck>>
    BY <1>6, <2>1 DEF OtherAnswered, Settled, Outstanding
  <2>2. CASE reports' = reports \o putsToAck /\ putsToAck' = <<>>
    <3>1. Once(reports') /\ Ids(reports') = Ids(reports) \union Ids(putsToAck)
      BY <1>a, <2>2, JoinedIs DEF Settled
    <3>2. Outstanding' = Outstanding /\ UNCHANGED putCounter
      BY <1>6 DEF OtherAnswered, Outstanding
    <3> QED
      BY <2>2, <3>1, <3>2, NoAnswers DEF Settled
  <2> QED
    BY <1>6, <2>1, <2>2 DEF OtherAnswered
<1>7. CASE WriteAnswered
  <2>1. PICK i \in 1..Len(wire) : Answerable(i) /\ PutAnswered(i)
    BY <1>7 DEF WriteAnswered
  <2> DEFINE r == [put |-> wire[i].id, status |-> wire[i].status]
  <2>2. CASE ~IsCurrentPut(wire[i].id)
    BY <2>1, <2>2 DEF PutAnswered, Settled, Outstanding
  <2>3. CASE IsCurrentPut(wire[i].id)
    <3>1. r \in Answers /\ r.put \in Outstanding /\ r.put = wire[i].id
      <4>1. wire[i] \in Requests
        BY ElementOfSeq DEF LinkInv, WireData
      <4> QED
        BY <2>1, <2>3, <4>1 DEF Answers, Requests, Answerable, IsCurrentPut
    <3>2. /\ Outstanding' = Outstanding \ {wire[i].id} /\ UNCHANGED putCounter
          /\ \/ reports' = Append(reports, r) /\ putsToAck' = putsToAck
             \/ putsToAck' = Append(putsToAck, r) /\ reports' = reports
      BY <2>1, <2>3 DEF PutAnswered, Outstanding, Only
    <3> HIDE DEF r
    <3>3. r.put \notin Ids(reports) /\ r.put \notin Ids(putsToAck)
      BY <3>1 DEF Settled
    <3>4. CASE reports' = Append(reports, r) /\ putsToAck' = putsToAck
      <4>1. Once(reports') /\ Ids(reports') = Ids(reports) \union {r.put}
        BY <1>a, <3>1, <3>3, <3>4, AddedIs DEF Settled
      <4> QED
        BY <3>1, <3>2, <3>3, <3>4, <4>1 DEF Settled
    <3>5. CASE putsToAck' = Append(putsToAck, r) /\ reports' = reports
      <4>1. Once(putsToAck') /\ Ids(putsToAck') = Ids(putsToAck) \union {r.put}
        BY <1>a, <3>1, <3>3, <3>5, AddedIs DEF Settled
      <4> QED
        BY <3>1, <3>2, <3>3, <3>5, <4>1 DEF Settled
    <3> QED
      BY <3>2, <3>4, <3>5
  <2> QED
    BY <2>2, <2>3
<1> QED
  BY <1>1, <1>2, <1>3, <1>4, <1>5, <1>6, <1>7 DEF Effects

-----------------------------------------------------------------------------
(* What is on the wire.                                                       *)

(* Where the request was that is at j once that at i is answered.             *)
Before(i, j) == IF j < i THEN j ELSE j + 1

(* What is left when the request at i is answered, in its old order.          *)
LEMMA LeftIs ==
    ASSUME wire \in Seq(Requests), NEW i \in 1..Len(wire), wire' = Answered(i)
    PROVE  /\ wire' \in Seq(Requests) /\ Len(wire) \in Nat /\ Len(wire') = Len(wire) - 1
           /\ \A j \in 1..Len(wire') : /\ wire'[j] = wire[Before(i, j)]
                                       /\ Before(i, j) \in 1..Len(wire) /\ Before(i, j) # i
           /\ \A j, k \in 1..Len(wire') : j < k => Before(i, j) < Before(i, k)
           /\ \A k \in 1..Len(wire) : k # i => \E j \in 1..Len(wire') : Before(i, j) = k
<1>1. /\ wire' \in Seq(Requests) /\ Len(wire) \in Nat /\ Len(wire') = Len(wire) - 1
      /\ \A j \in 1..(Len(wire) - 1) : wire'[j] = wire[IF j < i THEN j ELSE j + 1]
  BY AnsweredIs
<1>2. \A k \in 1..Len(wire) : k # i => \E j \in 1..Len(wire') : Before(i, j) = k
  <2> SUFFICES ASSUME NEW k \in 1..Len(wire), k # i
               PROVE  \E j \in 1..Len(wire') : Before(i, j) = k
    OBVIOUS
  <2>1. CASE k < i
    BY <1>1, <2>1 DEF Before
  <2>2. CASE k > i
    <3>1. k - 1 \in 1..Len(wire') /\ Before(i, k - 1) = k
      BY <1>1, <2>2 DEF Before
    <3> QED
      BY <3>1
  <2> QED
    BY <1>1, <2>1, <2>2
<1> QED
  BY <1>1, <1>2 DEF Before

(* What is on the wire after everything outstanding was sent again.           *)
LEMMA ResentIs ==
    ASSUME MaxPuts \in Nat, IsFiniteSet(Queries), LinkInv, WireInOrder, Resent
    PROVE  /\ wire' \in Seq(Requests)
           /\ \A i, j \in 1..Len(wire') : i < j =>
                 /\ IsPut(wire', i) /\ IsPut(wire', j) => wire'[i].id < wire'[j].id
                 /\ wire'[j].status # "sent" => wire'[i].status # "sent"
           /\ \A i \in 1..Len(wire') : IsPut(wire', i) =>
                 /\ wire'[i].id \in Outstanding /\ wire'[i].more = puts[wire'[i].id].hash
                 /\ wire'[i].status = "sent"
           /\ \A x \in Outstanding : \E i \in 1..Len(wire') : IsPut(wire', i) /\ wire'[i].id = x
           /\ Outstanding' = Outstanding
           /\ \A x \in Outstanding : puts'[x].sent /\ puts'[x].hash = puts[x].hash
<1> DEFINE n == Cardinality(ActiveListens)
           p == Cardinality(Outstanding)
           o == Len(opQueue)
<1>1. PICK before \in Seq(Requests) :
         /\ restoreState(before)
         /\ before = <<>> \/ (wire # <<>> /\ before = Answered(1))
  BY DEF Resent
<1> DEFINE a == Len(before)
<1>2. /\ ClientData /\ wire \in Seq(Requests) /\ Len(wire) \in Nat
      /\ putCounter \in Nat /\ Outstanding \in SUBSET (1..putCounter)
      /\ opQueue \in Seq(Nat) /\ o \in Nat /\ a \in Nat
  BY LenProperties DEF LinkInv, ClientData, WireData
<1>3. n \in Nat /\ p \in Nat /\ Restored(before, wire', n, p)
  BY <1>1, <1>2, RestoredIs
<1>4. /\ \A k \in 1..p : ascending(Outstanding)[k] \in Outstanding
      /\ \A j, k \in 1..p : j < k => ascending(Outstanding)[j] < ascending(Outstanding)[k]
      /\ \A x \in Outstanding : \E k \in 1..p : ascending(Outstanding)[k] = x
  BY <1>2, AscendingIs
<1>5. /\ \A i \in 1..a : before[i].kind # "put"
      /\ \A i, j \in 1..a : i < j => (before[j].status # "sent" => before[i].status # "sent")
  <2>1. CASE before = <<>>
    BY <2>1, EmptyWire
  <2>2. CASE wire # <<>> /\ before = Answered(1)
    <3>1. 1 \in 1..Len(wire)
      BY <1>2, <2>2, EmptySeq
    <3>2. a = Len(wire) - 1 /\ \A j \in 1..(Len(wire) - 1) : before[j] = wire[j + 1]
      BY <1>2, <2>2, <3>1, AnsweredIs
    <3>3. \A i \in 1..Len(wire) : ~IsPut(wire, i)
      BY DEF WireInOrder, Resent
    <3>4. \A i, j \in 1..Len(wire) :
             i < j => (wire[j].status # "sent" => wire[i].status # "sent")
      BY DEF WireInOrder
    <3>5. \A i \in 1..a : i + 1 \in 1..Len(wire) /\ before[i] = wire[i + 1]
      BY <1>2, <3>2
    <3> HIDE DEF a
    <3>6. \A i, j \in 1..a : i < j => i + 1 < j + 1
      BY <1>2
    <3> QED
      BY <3>3, <3>4, <3>5, <3>6 DEF IsPut
  <2> QED
    BY <1>1, <2>1, <2>2
<1> HIDE DEF n, p, o, a
<1>6. /\ Len(wire') = a + n + p + o
      /\ \A j \in 1..a : wire'[j] = before[j]
      /\ \A j \in (a + 1)..(a + n) : wire'[j].kind = "listen" /\ wire'[j].status = "sent"
      /\ \A j \in (a + n + 1)..(a + n + p) :
            /\ wire'[j].kind = "put" /\ wire'[j].status = "sent"
            /\ wire'[j].id = ascending(Outstanding)[j - a - n]
            /\ wire'[j].more = puts[wire'[j].id].hash
      /\ \A j \in (a + n + p + 1)..Len(wire') : wire'[j].kind = "op" /\ wire'[j].status = "sent"
  BY <1>3 DEF Restored, a, o
<1>7. ASSUME NEW j \in 1..Len(wire')
      PROVE  \/ j \in 1..a /\ wire'[j] = before[j] /\ ~IsPut(wire', j)
             \/ /\ j \in (a + n + 1)..(a + n + p) /\ j - a - n \in 1..p /\ wire'[j].status = "sent"
                /\ wire'[j].id = ascending(Outstanding)[j - a - n]
                /\ wire'[j].more = puts[wire'[j].id].hash
             \/ j > a /\ ~IsPut(wire', j) /\ wire'[j].status = "sent"
  <2>1. CASE j \in 1..a
    BY <1>5, <1>6, <2>1 DEF IsPut
  <2>2. CASE j \in (a + 1)..(a + n)
    BY <1>2, <1>6, <2>2 DEF IsPut
  <2>3. CASE j \in (a + n + 1)..(a + n + p)
    BY <1>2, <1>3, <1>6, <2>3
  <2>4. CASE j \in (a + n + p + 1)..Len(wire')
    BY <1>2, <1>3, <1>6, <2>4 DEF IsPut
  <2> QED
    BY <1>2, <1>3, <1>6, <2>1, <2>2, <2>3, <2>4
<1>8. \A i, j \in 1..Len(wire') : i < j =>
         /\ IsPut(wire', i) /\ IsPut(wire', j) => wire'[i].id < wire'[j].id
         /\ wire'[j].status # "sent" => wire'[i].status # "sent"
  <2> SUFFICES ASSUME NEW i \in 1..Len(wire'), NEW j \in 1..Len(wire'), i < j
               PROVE  /\ IsPut(wire', i) /\ IsPut(wire', j) => wire'[i].id < wire'[j].id
                      /\ wire'[j].status # "sent" => wire'[i].status # "sent"
    OBVIOUS
  <2>1. IsPut(wire', i) /\ IsPut(wire', j) => wire'[i].id < wire'[j].id
    <3> SUFFICES ASSUME IsPut(wire', i), IsPut(wire', j) PROVE wire'[i].id < wire'[j].id
      OBVIOUS
    <3>1. /\ i - a - n \in 1..p /\ wire'[i].id = ascending(Outstanding)[i - a - n]
          /\ j - a - n \in 1..p /\ wire'[j].id = ascending(Outstanding)[j - a - n]
      BY <1>7
    <3>2. i - a - n < j - a - n
      BY <1>2, <1>3
    <3> QED
      BY <1>4, <3>1, <3>2
  <2>2. wire'[j].status # "sent" => wire'[i].status # "sent"
    <3> SUFFICES ASSUME wire'[j].status # "sent" PROVE wire'[i].status # "sent"
      OBVIOUS
    <3>1. j \in 1..a /\ wire'[j] = before[j]
      BY <1>7
    <3>2. i \in 1..a /\ wire'[i] = before[i]
      BY <1>2, <1>6, <3>1
    <3> QED
      BY <1>5, <3>1, <3>2
  <2> QED
    BY <2>1, <2>2
<1>9. \A i \in 1..Len(wire') : IsPut(wire', i) =>
         /\ wire'[i].id \in Outstanding /\ wire'[i].more = puts[wire'[i].id].hash
         /\ wire'[i].status = "sent"
  BY <1>4, <1>7
<1>10. \A x \in Outstanding : \E i \in 1..Len(wire') : IsPut(wire', i) /\ wire'[i].id = x
  <2> TAKE x \in Outstanding
  <2>1. PICK k \in 1..p : ascending(Outstanding)[k] = x
    BY <1>4
  <2> DEFINE i == a + n + k
  <2>2. i \in (a + n + 1)..(a + n + p) /\ i \in 1..Len(wire') /\ i - a - n = k
    BY <1>2, <1>3, <1>6
  <2> HIDE DEF i
  <2>3. IsPut(wire', i) /\ wire'[i].id = x
    BY <1>6, <2>1, <2>2 DEF IsPut
  <2> QED
    BY <2>2, <2>3
<1>11. /\ Outstanding' = Outstanding
       /\ \A x \in Outstanding : puts'[x].sent /\ puts'[x].hash = puts[x].hash
  <2>1. puts' = [x \in Outstanding |-> [puts[x] EXCEPT !.sent = TRUE]]
    BY <1>1 DEF restoreState
  <2>2. \A x \in Outstanding : puts[x] \in Put
    BY <1>2 DEF ClientData
  <2> QED
    BY <2>1, <2>2 DEF Outstanding, Put
<1> QED
  BY <1>3, <1>8, <1>9, <1>10, <1>11 DEF Restored

(* A write that is sent is the newest.                                        *)
LEMMA WrittenIs ==
    ASSUME LinkInv, Written
    PROVE  /\ putCounter \in Nat /\ putCounter' = putCounter + 1
           /\ Outstanding' = Outstanding \union {putCounter + 1}
           /\ \A x \in Outstanding : puts'[x] = puts[x]
           /\ puts'[putCounter + 1].sent = (state = "Connected")
           /\ state' = state /\ reports' = reports /\ putsToAck' = putsToAck /\ applied' = applied
           /\ wire \in Seq(Requests)
           /\ IF state = "Connected"
              THEN \E r \in Requests : /\ wire' = Append(wire, r) /\ r.kind = "put"
                                       /\ r.id = putCounter + 1 /\ r.status = "sent"
                                       /\ r.more = puts'[putCounter + 1].hash
              ELSE wire' = wire
<1>1. PICK h \in BOOLEAN : putInternal(h)
  BY DEF Written
<1>2. /\ putCounter \in Nat /\ Outstanding \subseteq 1..putCounter /\ wire \in Seq(Requests)
  BY DEF LinkInv, ClientData, WireData
<1>3. /\ Outstanding' = Outstanding \union {putCounter + 1} /\ putCounter' = putCounter + 1
      /\ \A x \in Outstanding : puts'[x] = puts[x]
      /\ puts'[putCounter + 1] = [hash |-> h, sent |-> canSendWrites]
  <2>1. \A x \in Outstanding : x # putCounter + 1
    BY <1>2
  <2>2. /\ puts' = [i \in Outstanding \union {putCounter + 1} |->
                       IF i = putCounter + 1 THEN [hash |-> h, sent |-> canSendWrites] ELSE puts[i]]
        /\ putCounter' = putCounter + 1
    BY <1>1 DEF putInternal
  <2> QED
    BY <2>1, <2>2 DEF Outstanding
<1>4. state = "Connected" =>
         \E r \in Requests : /\ wire' = Append(wire, r) /\ r.kind = "put"
                             /\ r.id = putCounter + 1 /\ r.status = "sent" /\ r.more = h
  <2> DEFINE x == putCounter + 1
             r == Request("put", x, h)
  <2>1. state = "Connected" => wire' = Append(wire, r)
    BY <1>1 DEF putInternal, canSendWrites
  <2>2. x \in Nat /\ x = putCounter + 1
    BY <1>2
  <2> HIDE DEF x
  <2>3. r \in Requests /\ r.kind = "put" /\ r.id = x /\ r.more = h /\ r.status = "sent"
    BY <2>2 DEF Request, Requests
  <2> HIDE DEF r
  <2> QED
    BY <2>1, <2>2, <2>3
<1>5. state # "Connected" => wire' = wire
  BY <1>1 DEF putInternal, canSendWrites
<1>6. puts'[putCounter + 1].hash = h /\ puts'[putCounter + 1].sent = (state = "Connected")
  BY <1>3 DEF canSendWrites
<1> QED
  BY <1>2, <1>3, <1>4, <1>5, <1>6 DEF Written

(* No step changes the order of what is on the wire.                          *)
LEMMA WireInOrderStep ==
    ASSUME MaxPuts \in Nat, IsFiniteSet(Queries), LinkInv, WireInOrder, Effects
    PROVE  WireInOrder'
<1>a. /\ wire \in Seq(Requests) /\ Len(wire) \in Nat /\ putCounter \in Nat
      /\ Outstanding \subseteq 1..putCounter /\ \A x \in Outstanding : puts[x] \in Put
  BY LenProperties DEF LinkInv, ClientData, WireData
<1>1. CASE Aside
  <2>1. /\ Outstanding' = Outstanding
        /\ UNCHANGED <<puts, putCounter>> /\ ((state' = "Connected") <=> (state = "Connected"))
    BY <1>1 DEF Aside, Outstanding
  <2>2. CASE wire' = wire
    BY <2>1, <2>2 DEF WireInOrder, IsPut
  <2>3. ASSUME NEW r \in Requests, r.kind # "put", r.status = "sent", wire' = Append(wire, r)
        PROVE  WireInOrder'
    <3>1. /\ Len(wire') = Len(wire) + 1 /\ wire'[Len(wire) + 1] = r
          /\ \A j \in 1..Len(wire) : wire'[j] = wire[j]
      BY <1>a, <2>3, SentIs
    <3>2. \A j \in 1..Len(wire') :
             \/ j \in 1..Len(wire) /\ wire'[j] = wire[j]
             \/ j = Len(wire) + 1 /\ wire'[j].kind # "put" /\ wire'[j].status = "sent"
      BY <1>a, <2>3, <3>1
    <3>3. \A i, j \in 1..Len(wire') : i < j =>
             /\ IsPut(wire', i) /\ IsPut(wire', j) => wire'[i].id < wire'[j].id
             /\ wire'[j].status # "sent" => wire'[i].status # "sent"
      BY <1>a, <3>1, <3>2 DEF WireInOrder, IsPut
    <3>4. \A i \in 1..Len(wire') : IsPut(wire', i) =>
             /\ state = "Connected" /\ wire'[i].id \in 1..putCounter
             /\ wire'[i].id \in Outstanding => /\ puts[wire'[i].id].sent
                                               /\ puts[wire'[i].id].hash = wire'[i].more
      BY <3>2 DEF WireInOrder, IsPut
    <3>5. \A j \in 1..Len(wire) : j \in 1..Len(wire')
      BY <1>a, <3>1
    <3>6. state = "Connected" =>
             \A p \in Outstanding : \E i \in 1..Len(wire') : IsPut(wire', i) /\ wire'[i].id = p
      BY <3>1, <3>5 DEF WireInOrder, IsPut
    <3> QED
      BY <2>1, <3>3, <3>4, <3>6 DEF WireInOrder, IsPut
  <2> QED
    BY <1>1, <2>2, <2>3 DEF Aside
<1>2. CASE Cut
  <2>1. /\ Outstanding' = Outstanding \ SentTransactions
        /\ \A x \in Outstanding' : puts'[x] = puts[x]
        /\ wire' = <<>> /\ state' # "Connected"
    BY <1>2 DEF Cut, Outstanding, Only
  <2> QED
    BY <2>1, EmptyWire DEF WireInOrder, SentTransactions
<1>3. CASE Resent
  <2>1. putCounter' = putCounter /\ state' = "Connected"
    BY <1>3 DEF Resent
  <2>2. \A i, j \in 1..Len(wire') : i < j =>
           /\ IsPut(wire', i) /\ IsPut(wire', j) => wire'[i].id < wire'[j].id
           /\ wire'[j].status # "sent" => wire'[i].status # "sent"
    BY <1>3, ResentIs
  <2>3. /\ \A i \in 1..Len(wire') : IsPut(wire', i) =>
              wire'[i].id \in Outstanding /\ wire'[i].more = puts[wire'[i].id].hash
        /\ Outstanding' = Outstanding
        /\ \A x \in Outstanding : puts'[x].sent /\ puts'[x].hash = puts[x].hash
    BY <1>3, ResentIs
  <2>4. \A x \in Outstanding : \E i \in 1..Len(wire') : IsPut(wire', i) /\ wire'[i].id = x
    BY <1>3, ResentIs
  <2>5. \A i \in 1..Len(wire') : IsPut(wire', i) =>
           /\ wire'[i].id \in 1..putCounter'
           /\ puts'[wire'[i].id].sent /\ puts'[wire'[i].id].hash = wire'[i].more
    BY <1>a, <2>1, <2>3
  <2> QED
    BY <2>1, <2>2, <2>3, <2>4, <2>5 DEF WireInOrder, IsPut
<1>4. CASE Written
  <2>1. /\ putCounter' = putCounter + 1 /\ state' = state
        /\ Outstanding' = Outstanding \union {putCounter + 1}
        /\ \A x \in Outstanding : puts'[x] = puts[x]
        /\ puts'[putCounter + 1].sent = (state = "Connected")
    BY <1>4, WrittenIs
  <2>2. CASE state # "Connected"
    <3>1. wire' = wire /\ \A i \in 1..Len(wire) : ~IsPut(wire, i)
      BY <1>4, <2>2, WrittenIs DEF WireInOrder
    <3>2. \A i, j \in 1..Len(wire) : i < j => (wire[j].status # "sent" => wire[i].status # "sent")
      BY DEF WireInOrder
    <3>3. \A x \in Outstanding' : puts'[x].hash => ~puts'[x].sent
      BY <2>1, <2>2 DEF WireInOrder
    <3> QED
      BY <2>1, <2>2, <3>1, <3>2, <3>3 DEF WireInOrder, IsPut
  <2>3. CASE state = "Connected"
    <3>1. PICK r \in Requests : /\ wire' = Append(wire, r) /\ r.kind = "put"
                                /\ r.id = putCounter + 1 /\ r.status = "sent"
                                /\ r.more = puts'[putCounter + 1].hash
      BY <1>4, <2>3, WrittenIs
    <3>2. /\ Len(wire') = Len(wire) + 1 /\ wire'[Len(wire) + 1] = r
          /\ \A j \in 1..Len(wire) : wire'[j] = wire[j]
      BY <1>a, <3>1, SentIs
    <3>3. \A j \in 1..Len(wire') : \/ j \in 1..Len(wire) /\ wire'[j] = wire[j]
                                   \/ j = Len(wire) + 1 /\ wire'[j] = r
      BY <1>a, <3>2
    <3>4. \A i \in 1..Len(wire) : IsPut(wire, i) =>
             /\ wire[i].id \in 1..putCounter
             /\ wire[i].id \in Outstanding => /\ puts[wire[i].id].sent
                                              /\ puts[wire[i].id].hash = wire[i].more
      BY DEF WireInOrder
    <3>5. \A i, j \in 1..Len(wire') : i < j =>
             /\ IsPut(wire', i) /\ IsPut(wire', j) => wire'[i].id < wire'[j].id
             /\ wire'[j].status # "sent" => wire'[i].status # "sent"
      <4> SUFFICES ASSUME NEW i \in 1..Len(wire'), NEW j \in 1..Len(wire'), i < j
                   PROVE  /\ IsPut(wire', i) /\ IsPut(wire', j) => wire'[i].id < wire'[j].id
                          /\ wire'[j].status # "sent" => wire'[i].status # "sent"
        OBVIOUS
      <4>1. i \in 1..Len(wire) /\ wire'[i] = wire[i]
        BY <1>a, <3>2
      <4>2. CASE j \in 1..Len(wire)
        BY <3>2, <4>1, <4>2 DEF WireInOrder, IsPut
      <4>3. CASE j = Len(wire) + 1
        BY <1>a, <3>1, <3>2, <3>4, <4>1, <4>3 DEF IsPut
      <4> QED
        BY <3>3, <4>2, <4>3
    <3>6. \A i \in 1..Len(wire') : IsPut(wire', i) =>
             /\ wire'[i].id \in 1..putCounter'
             /\ wire'[i].id \in Outstanding' => /\ puts'[wire'[i].id].sent
                                                /\ puts'[wire'[i].id].hash = wire'[i].more
      <4> SUFFICES ASSUME NEW i \in 1..Len(wire'), IsPut(wire', i)
                   PROVE  /\ wire'[i].id \in 1..putCounter'
                          /\ wire'[i].id \in Outstanding' =>
                                /\ puts'[wire'[i].id].sent
                                /\ puts'[wire'[i].id].hash = wire'[i].more
        OBVIOUS
      <4>1. CASE i \in 1..Len(wire) /\ wire'[i] = wire[i]
        <5>1. IsPut(wire, i) /\ wire'[i].id = wire[i].id /\ wire'[i].more = wire[i].more
          BY <4>1 DEF IsPut
        <5>2. wire[i].id \in 1..putCounter
          BY <3>4, <4>1, <5>1
        <5>3. wire[i].id \in 1..putCounter' /\ wire[i].id # putCounter + 1
          BY <1>a, <2>1, <5>2
        <5> QED
          BY <2>1, <3>4, <4>1, <5>1, <5>3
      <4>2. CASE wire'[i] = r
        <5>1. putCounter + 1 \in 1..putCounter'
          BY <1>a, <2>1
        <5>2. puts'[putCounter + 1].sent
          BY <2>1, <2>3
        <5> QED
          BY <3>1, <4>2, <5>1, <5>2
      <4> QED
        BY <3>3, <4>1, <4>2
    <3>7. \A p \in Outstanding' : \E i \in 1..Len(wire') : IsPut(wire', i) /\ wire'[i].id = p
      <4> SUFFICES ASSUME NEW p \in Outstanding'
                   PROVE  \E i \in 1..Len(wire') : IsPut(wire', i) /\ wire'[i].id = p
        OBVIOUS
      <4>1. \A j \in 1..Len(wire) : j \in 1..Len(wire')
        BY <1>a, <3>2
      <4>2. Len(wire) + 1 \in 1..Len(wire')
        BY <1>a, <3>2
      <4>3. CASE p \in Outstanding
        BY <2>3, <3>2, <4>1, <4>3 DEF WireInOrder, IsPut
      <4>4. CASE p = putCounter + 1
        BY <3>1, <3>2, <4>2, <4>4 DEF IsPut
      <4> QED
        BY <2>1, <4>3, <4>4
    <3> QED
      BY <2>1, <2>3, <3>5, <3>6, <3>7 DEF WireInOrder, IsPut
  <2> QED
    BY <2>2, <2>3
<1>5. CASE Purged
  <2>1. Outstanding' = {} /\ UNCHANGED <<state, wire, putCounter>>
    BY <1>5 DEF Purged, purgeOutstandingWrites, Outstanding
  <2> QED
    BY <2>1 DEF WireInOrder, IsPut
<1>6. CASE Taken
  <2>1. PICK i \in 1..Len(wire), s \in {"ok", "fail"} :
           /\ wire[i].status = "sent" /\ \A j \in 1..i - 1 : wire[j].status # "sent"
           /\ wire' = [wire EXCEPT ![i].status = s]
    BY <1>6 DEF Taken, ServerTakes
  <2>2. /\ Len(wire') = Len(wire)
        /\ \A j \in 1..Len(wire) :
              /\ wire'[j].kind = wire[j].kind /\ wire'[j].id = wire[j].id
              /\ wire'[j].more = wire[j].more
              /\ wire'[j].status = IF j = i THEN s ELSE wire[j].status
    BY <1>a, <2>1, TakenIs
  <2>3. \A j, k \in 1..Len(wire') : j < k => (wire'[k].status # "sent" => wire'[j].status # "sent")
    <3> SUFFICES ASSUME NEW j \in 1..Len(wire'), NEW k \in 1..Len(wire'), j < k,
                        wire'[k].status # "sent"
                 PROVE  wire'[j].status # "sent"
      OBVIOUS
    <3>1. CASE j < i
      BY <1>a, <2>1, <2>2, <3>1
    <3>2. CASE j = i
      BY <2>1, <2>2, <3>2
    <3>3. CASE j > i
      BY <1>a, <2>2, <3>3 DEF WireInOrder
    <3> QED
      BY <1>a, <2>2, <3>1, <3>2, <3>3
  <2>4. /\ Outstanding' = Outstanding /\ UNCHANGED <<state, puts, putCounter>>
    BY <1>6 DEF Taken, Outstanding
  <2> QED
    BY <2>2, <2>3, <2>4 DEF WireInOrder, IsPut
<1>7. CASE OtherAnswered \/ WriteAnswered
  <2>1. PICK i \in 1..Len(wire) :
           /\ wire' = Answered(i)
           /\ \/ wire[i].kind # "put" /\ UNCHANGED puts
              \/ PutAnswered(i)
    BY <1>7 DEF OtherAnswered, WriteAnswered, PutAnswered
  <2>2. UNCHANGED <<state, putCounter>>
    BY <1>7 DEF OtherAnswered, WriteAnswered
  <2>3. /\ Len(wire') = Len(wire) - 1
        /\ \A j \in 1..Len(wire') : /\ wire'[j] = wire[Before(i, j)]
                                    /\ Before(i, j) \in 1..Len(wire) /\ Before(i, j) # i
        /\ \A j, k \in 1..Len(wire') : j < k => Before(i, j) < Before(i, k)
        /\ \A k \in 1..Len(wire) : k # i => \E j \in 1..Len(wire') : Before(i, j) = k
    BY <1>a, <2>1, LeftIs
  <2>4. /\ Outstanding' \subseteq Outstanding
        /\ \A x \in Outstanding' : puts'[x] = puts[x] /\ (IsPut(wire, i) => x # wire[i].id)
    <3>1. CASE wire[i].kind # "put" /\ UNCHANGED puts
      BY <3>1 DEF Outstanding, IsPut
    <3>2. CASE PutAnswered(i) /\ ~IsCurrentPut(wire[i].id)
      BY <3>2 DEF PutAnswered, IsCurrentPut, Outstanding
    <3>3. CASE PutAnswered(i) /\ IsCurrentPut(wire[i].id)
      BY <3>3 DEF PutAnswered, Outstanding, Only
    <3> QED
      BY <2>1, <3>1, <3>2, <3>3
  <2>5. \A j, k \in 1..Len(wire') : j < k =>
           /\ IsPut(wire', j) /\ IsPut(wire', k) => wire'[j].id < wire'[k].id
           /\ wire'[k].status # "sent" => wire'[j].status # "sent"
    <3> SUFFICES ASSUME NEW j \in 1..Len(wire'), NEW k \in 1..Len(wire'), j < k
                 PROVE  /\ IsPut(wire', j) /\ IsPut(wire', k) => wire'[j].id < wire'[k].id
                        /\ wire'[k].status # "sent" => wire'[j].status # "sent"
      OBVIOUS
    <3> DEFINE m == Before(i, j)
               n == Before(i, k)
    <3>1. /\ m \in 1..Len(wire) /\ n \in 1..Len(wire) /\ m < n
          /\ wire'[j] = wire[m] /\ wire'[k] = wire[n]
      BY <2>3
    <3> HIDE DEF m, n
    <3> QED
      BY <3>1 DEF WireInOrder, IsPut
  <2>6. \A j \in 1..Len(wire') : IsPut(wire', j) =>
           /\ state = "Connected" /\ wire'[j].id \in 1..putCounter
           /\ wire'[j].id \in Outstanding' => /\ puts'[wire'[j].id].sent
                                              /\ puts'[wire'[j].id].hash = wire'[j].more
    <3> SUFFICES ASSUME NEW j \in 1..Len(wire'), IsPut(wire', j)
                 PROVE  /\ state = "Connected" /\ wire'[j].id \in 1..putCounter
                        /\ wire'[j].id \in Outstanding' =>
                              /\ puts'[wire'[j].id].sent
                              /\ puts'[wire'[j].id].hash = wire'[j].more
      OBVIOUS
    <3> DEFINE m == Before(i, j)
    <3>1. m \in 1..Len(wire) /\ wire'[j] = wire[m]
      BY <2>3
    <3> HIDE DEF m
    <3>2. IsPut(wire, m)
      BY <3>1 DEF IsPut
    <3> QED
      BY <2>4, <3>1, <3>2 DEF WireInOrder
  <2>7. state = "Connected" =>
           \A p \in Outstanding' : \E j \in 1..Len(wire') : IsPut(wire', j) /\ wire'[j].id = p
    <3> SUFFICES ASSUME state = "Connected", NEW p \in Outstanding'
                 PROVE  \E j \in 1..Len(wire') : IsPut(wire', j) /\ wire'[j].id = p
      OBVIOUS
    <3>1. PICK k \in 1..Len(wire) : IsPut(wire, k) /\ wire[k].id = p
      BY <2>4 DEF WireInOrder
    <3>2. k # i
      BY <2>4, <3>1
    <3>3. PICK j \in 1..Len(wire') : Before(i, j) = k
      BY <2>3, <3>2
    <3> QED
      BY <2>3, <3>1, <3>3 DEF IsPut
  <2>8. state # "Connected" => \A p \in Outstanding' : puts'[p].hash => ~puts'[p].sent
    BY <2>4 DEF WireInOrder
  <2> QED
    BY <2>2, <2>5, <2>6, <2>7, <2>8 DEF WireInOrder, IsPut
<1> QED
  BY <1>1, <1>2, <1>3, <1>4, <1>5, <1>6, <1>7 DEF Effects

-----------------------------------------------------------------------------
(* A transaction is applied once.                                             *)

(* The distance between two writes on the wire decides which is newer.        *)
LEMMA PutsDiffer ==
    ASSUME wire \in Seq(Requests), WireInOrder, NEW i \in 1..Len(wire), NEW j \in 1..Len(wire),
           IsPut(wire, i), IsPut(wire, j), wire[i].id = wire[j].id
    PROVE  i = j
<1>1. wire[i].id \in Nat
  <2>1. wire[i] \in Requests
    BY ElementOfSeq
  <2> QED
    BY <2>1 DEF Requests
<1>2. i < j => wire[i].id < wire[j].id
  BY DEF WireInOrder
<1>3. j < i => wire[j].id < wire[i].id
  BY DEF WireInOrder
<1> QED
  BY <1>1, <1>2, <1>3, LenProperties

(* What is known of the write p that the server has applied.                  *)
KnownApplied(p, hash) ==
    /\ p \in 1..putCounter
    /\ p \in Outstanding => puts[p].hash = hash /\ (hash => puts[p].sent)
    /\ \A i \in 1..Len(wire) : IsPut(wire, i) /\ wire[i].id = p =>
          wire[i].more = hash /\ (hash => wire[i].status # "sent")

(* No step sends a transaction again that the server has applied.             *)
LEMMA KnownStep ==
    ASSUME MaxPuts \in Nat, IsFiniteSet(Queries), LinkInv, WireInOrder, Effects,
           NEW p, NEW hash \in BOOLEAN, KnownApplied(p, hash)
    PROVE  KnownApplied(p, hash)'
<1>a. /\ wire \in Seq(Requests) /\ Len(wire) \in Nat /\ putCounter \in Nat
      /\ Outstanding \subseteq 1..putCounter
  BY LenProperties DEF LinkInv, ClientData, WireData
<1>b. /\ p \in 1..putCounter
      /\ p \in Outstanding => puts[p].hash = hash /\ (hash => puts[p].sent)
      /\ \A i \in 1..Len(wire) : IsPut(wire, i) /\ wire[i].id = p =>
            wire[i].more = hash /\ (hash => wire[i].status # "sent")
  BY DEF KnownApplied
<1>1. CASE Aside
  <2>1. Outstanding' = Outstanding /\ UNCHANGED <<puts, putCounter>>
    BY <1>1 DEF Aside, Outstanding
  <2>2. CASE wire' = wire
    BY <1>b, <2>1, <2>2 DEF KnownApplied, IsPut
  <2>3. ASSUME NEW r \in Requests, r.kind # "put", r.status = "sent", wire' = Append(wire, r)
        PROVE  KnownApplied(p, hash)'
    <3>1. /\ Len(wire') = Len(wire) + 1 /\ wire'[Len(wire) + 1] = r
          /\ \A j \in 1..Len(wire) : wire'[j] = wire[j]
      BY <1>a, <2>3, SentIs
    <3>2. \A j \in 1..Len(wire') : IsPut(wire', j) => j \in 1..Len(wire) /\ wire'[j] = wire[j]
      BY <1>a, <2>3, <3>1 DEF IsPut
    <3> QED
      BY <1>b, <2>1, <3>2 DEF KnownApplied, IsPut
  <2> QED
    BY <1>1, <2>2, <2>3 DEF Aside
<1>2. CASE Cut
  <2>1. /\ Outstanding' \subseteq Outstanding /\ putCounter' = putCounter
        /\ \A x \in Outstanding' : puts'[x] = puts[x]
        /\ wire' = <<>>
    BY <1>2 DEF Cut, Outstanding, Only
  <2> QED
    BY <1>b, <2>1, EmptyWire DEF KnownApplied
<1>3. CASE Resent
  <2>1. /\ putCounter' = putCounter /\ Outstanding' = Outstanding
        /\ \A x \in Outstanding : puts'[x].sent /\ puts'[x].hash = puts[x].hash
        /\ \A i \in 1..Len(wire') : IsPut(wire', i) =>
              wire'[i].id \in Outstanding /\ wire'[i].more = puts[wire'[i].id].hash
    BY <1>3, ResentIs DEF Resent
  <2>2. \A x \in Outstanding : puts[x].hash => ~puts[x].sent
    BY <1>3 DEF WireInOrder, Resent
  <2> QED
    BY <1>b, <2>1, <2>2 DEF KnownApplied, IsPut
<1>4. CASE Written
  <2>1. /\ putCounter' = putCounter + 1
        /\ Outstanding' = Outstanding \union {putCounter + 1}
        /\ \A x \in Outstanding : puts'[x] = puts[x]
    BY <1>4, WrittenIs
  <2>2. p # putCounter + 1 /\ p \in 1..putCounter'
    BY <1>a, <1>b, <2>1
  <2>3. \A i \in 1..Len(wire') : IsPut(wire', i) /\ wire'[i].id = p =>
           i \in 1..Len(wire) /\ wire'[i] = wire[i]
    <3>1. CASE wire' = wire
      BY <3>1
    <3>2. ASSUME NEW r \in Requests, wire' = Append(wire, r), r.id = putCounter + 1
          PROVE  \A i \in 1..Len(wire') : IsPut(wire', i) /\ wire'[i].id = p =>
                    i \in 1..Len(wire) /\ wire'[i] = wire[i]
      <4>1. /\ Len(wire') = Len(wire) + 1 /\ wire'[Len(wire) + 1] = r
            /\ \A j \in 1..Len(wire) : wire'[j] = wire[j]
        BY <1>a, <3>2, SentIs
      <4> QED
        BY <1>a, <2>2, <3>2, <4>1
    <3> QED
      BY <1>4, <3>1, <3>2, WrittenIs
  <2> QED
    BY <1>b, <2>1, <2>2, <2>3 DEF KnownApplied, IsPut
<1>5. CASE Purged
  <2>1. Outstanding' = {} /\ UNCHANGED <<wire, putCounter>>
    BY <1>5 DEF Purged, purgeOutstandingWrites, Outstanding
  <2> QED
    BY <1>b, <2>1 DEF KnownApplied, IsPut
<1>6. CASE Taken
  <2>1. PICK i \in 1..Len(wire), s \in {"ok", "fail"} : wire' = [wire EXCEPT ![i].status = s]
    BY <1>6 DEF Taken, ServerTakes
  <2>2. /\ Len(wire') = Len(wire)
        /\ \A j \in 1..Len(wire) :
              /\ wire'[j].kind = wire[j].kind /\ wire'[j].id = wire[j].id
              /\ wire'[j].more = wire[j].more
              /\ wire[j].status # "sent" => wire'[j].status # "sent"
    BY <1>a, <2>1, TakenIs
  <2>3. Outstanding' = Outstanding /\ UNCHANGED <<puts, putCounter>>
    BY <1>6 DEF Taken, Outstanding
  <2> QED
    BY <1>b, <2>2, <2>3 DEF KnownApplied, IsPut
<1>7. CASE OtherAnswered \/ WriteAnswered
  <2>1. PICK i \in 1..Len(wire) : wire' = Answered(i) /\ (UNCHANGED puts \/ PutAnswered(i))
    BY <1>7 DEF OtherAnswered, WriteAnswered, PutAnswered
  <2>2. \A j \in 1..Len(wire') : /\ wire'[j] = wire[Before(i, j)]
                                 /\ Before(i, j) \in 1..Len(wire)
    BY <1>a, <2>1, LeftIs
  <2>3. Outstanding' \subseteq Outstanding /\ \A x \in Outstanding' : puts'[x] = puts[x]
    <3>1. CASE UNCHANGED puts
      BY <3>1 DEF Outstanding
    <3>2. CASE PutAnswered(i) /\ ~IsCurrentPut(wire[i].id)
      BY <3>2 DEF PutAnswered, Outstanding
    <3>3. CASE PutAnswered(i) /\ IsCurrentPut(wire[i].id)
      BY <3>3 DEF PutAnswered, Outstanding, Only
    <3> QED
      BY <2>1, <3>1, <3>2, <3>3
  <2>4. putCounter' = putCounter
    BY <1>7 DEF OtherAnswered, WriteAnswered
  <2>5. \A j \in 1..Len(wire') : IsPut(wire', j) /\ wire'[j].id = p =>
           wire'[j].more = hash /\ (hash => wire'[j].status # "sent")
    BY <1>b, <2>2 DEF IsPut
  <2> QED
    BY <1>b, <2>3, <2>4, <2>5 DEF KnownApplied, IsPut
<1> QED
  BY <1>1, <1>2, <1>3, <1>4, <1>5, <1>6, <1>7 DEF Effects

(* Nothing is applied, or the write the server takes.                         *)
LEMMA AppliedIs ==
    ASSUME LinkInv, WireInOrder, Effects
    PROVE  \/ applied' = applied
           \/ /\ Taken
              /\ \E i \in 1..Len(wire) :
                    /\ IsPut(wire, i) /\ wire[i].status = "sent"
                    /\ wire'[i].status = "ok"
                    /\ [put |-> wire[i].id, hash |-> wire[i].more] \in [put : Nat, hash : BOOLEAN]
                    /\ applied' = Append(applied, [put |-> wire[i].id, hash |-> wire[i].more])
<1>1. CASE ~Taken
  <2>1. WriteAnswered \/ Aside \/ Cut \/ Resent \/ Written \/ Purged \/ OtherAnswered
    BY <1>1 DEF Effects
  <2> QED
    BY <2>1 DEF WriteAnswered, Aside, Cut, Resent, Written, Purged, OtherAnswered
<1>2. CASE Taken
  <2>1. PICK i \in 1..Len(wire), s \in {"ok", "fail"} :
           /\ wire[i].status = "sent" /\ wire' = [wire EXCEPT ![i].status = s]
           /\ applied' = IF wire[i].kind = "put" /\ s = "ok"
                         THEN Append(applied, [put |-> wire[i].id, hash |-> wire[i].more])
                         ELSE applied
    BY <1>2 DEF Taken, ServerTakes
  <2>2. wire \in Seq(Requests) /\ wire[i] \in Requests
        /\ (wire[i].kind = "put" => wire[i].more \in BOOLEAN)
    BY ElementOfSeq DEF LinkInv, WireData
  <2>3. wire'[i].status = s
    BY <2>1, <2>2, TakenIs
  <2>4. CASE wire[i].kind = "put" /\ s = "ok"
    <3>1. [put |-> wire[i].id, hash |-> wire[i].more] \in [put : Nat, hash : BOOLEAN]
      BY <2>2, <2>4 DEF Requests
    <3> QED
      BY <1>2, <2>1, <2>3, <2>4, <3>1 DEF IsPut
  <2>5. CASE ~(wire[i].kind = "put" /\ s = "ok")
    BY <2>1, <2>5
  <2> QED
    BY <2>4, <2>5
<1> QED
  BY <1>1, <1>2

(* No step applies the write of a transaction again, or lets it be sent       *)
(* again.                                                                     *)
LEMMA AppliedOnceStep ==
    ASSUME MaxPuts \in Nat, IsFiniteSet(Queries), LinkInv, WireInOrder, AppliedOnce, Effects
    PROVE  AppliedOnce'
<1>a. /\ wire \in Seq(Requests) /\ applied \in Seq([put : Nat, hash : BOOLEAN])
      /\ Len(applied) \in Nat
  BY LenProperties DEF LinkInv, WireData, ServerData
<1>b. \A m \in 1..Len(applied) : applied[m].put \in Nat /\ applied[m].hash \in BOOLEAN
  <2> TAKE m \in 1..Len(applied)
  <2>1. applied[m] \in [put : Nat, hash : BOOLEAN]
    BY <1>a, ElementOfSeq
  <2> QED
    BY <2>1
<1>c. \A m \in 1..Len(applied) : KnownApplied(applied[m].put, applied[m].hash)
  BY DEF AppliedOnce, KnownApplied
<1>1. ASSUME NEW p \in Nat, NEW hash \in BOOLEAN, KnownApplied(p, hash)
      PROVE  /\ p \in 1..putCounter'
             /\ p \in Outstanding' => puts'[p].hash = hash /\ (hash => puts'[p].sent)
             /\ \A i \in 1..Len(wire') : IsPut(wire', i) /\ wire'[i].id = p =>
                   wire'[i].more = hash /\ (hash => wire'[i].status # "sent")
  <2>1. KnownApplied(p, hash)'
    BY <1>1, KnownStep
  <2> QED
    BY <2>1 DEF KnownApplied, IsPut
<1>2. \A m \in 1..Len(applied) :
         /\ applied[m].put \in 1..putCounter'
         /\ applied[m].put \in Outstanding' =>
               /\ puts'[applied[m].put].hash = applied[m].hash
               /\ applied[m].hash => puts'[applied[m].put].sent
         /\ \A i \in 1..Len(wire') : IsPut(wire', i) /\ wire'[i].id = applied[m].put =>
               /\ wire'[i].more = applied[m].hash
               /\ applied[m].hash => wire'[i].status # "sent"
  BY <1>1, <1>b, <1>c
<1>3. CASE applied' = applied
  BY <1>2, <1>3 DEF AppliedOnce, TransactionsAppliedOnce, IsPut
<1>4. CASE applied' # applied
  <2>1. PICK i \in 1..Len(wire) :
           /\ Taken /\ IsPut(wire, i) /\ wire[i].status = "sent" /\ wire'[i].status = "ok"
           /\ [put |-> wire[i].id, hash |-> wire[i].more] \in [put : Nat, hash : BOOLEAN]
           /\ applied' = Append(applied, [put |-> wire[i].id, hash |-> wire[i].more])
    BY <1>4, AppliedIs
  <2> DEFINE e == [put |-> wire[i].id, hash |-> wire[i].more]
             l == Len(applied) + 1
  <2>2. e.put = wire[i].id /\ e.hash = wire[i].more /\ e.hash \in BOOLEAN
    BY <2>1
  <2>3. /\ Len(applied') = l /\ applied'[l] = e
        /\ \A m \in 1..Len(applied) : applied'[m] = applied[m]
    BY <1>a, <2>1, AppendProperties
  <2>4. \A m \in 1..l : m \in 1..Len(applied) \/ m = l
    BY <1>a
  <2> HIDE DEF e, l
  <2>5. /\ Outstanding' = Outstanding /\ UNCHANGED <<puts, putCounter>>
    BY <2>1 DEF Taken, Outstanding
  <2>6. /\ Len(wire') = Len(wire)
        /\ \A j \in 1..Len(wire) :
              /\ wire'[j].kind = wire[j].kind /\ wire'[j].id = wire[j].id
              /\ wire'[j].more = wire[j].more
    BY <1>a, <2>1, TakenIs DEF Taken, ServerTakes
  <2>7. \A j \in 1..Len(wire') : IsPut(wire', j) /\ wire'[j].id = e.put => j = i
    BY <1>a, <2>1, <2>2, <2>6, PutsDiffer DEF IsPut
  <2>8. \A m \in 1..Len(applied) :
           applied[m].put = e.put => applied[m].hash = e.hash /\ ~applied[m].hash
    BY <2>1, <2>2 DEF AppliedOnce
  <2>9. TransactionsAppliedOnce'
    <3> SUFFICES ASSUME NEW m \in 1..Len(applied'), NEW n \in 1..Len(applied'),
                        applied'[m].hash, applied'[m].put = applied'[n].put
                 PROVE  m = n
      BY DEF TransactionsAppliedOnce
    <3>1. CASE m \in 1..Len(applied) /\ n \in 1..Len(applied)
      BY <2>3, <3>1 DEF AppliedOnce, TransactionsAppliedOnce
    <3>2. CASE m \in 1..Len(applied) /\ n = l
      BY <2>3, <2>8, <3>2
    <3>3. CASE m = l /\ n \in 1..Len(applied)
      BY <2>3, <2>8, <3>3
    <3> QED
      BY <2>3, <2>4, <3>1, <3>2, <3>3
  <2>10. /\ e.put \in 1..putCounter'
         /\ e.put \in Outstanding' => puts'[e.put].hash = e.hash /\ (e.hash => puts'[e.put].sent)
         /\ \A j \in 1..Len(wire') : IsPut(wire', j) /\ wire'[j].id = e.put =>
               wire'[j].more = e.hash /\ (e.hash => wire'[j].status # "sent")
    <3>1. /\ e.put \in 1..putCounter
          /\ e.put \in Outstanding => puts[e.put].hash = e.hash /\ puts[e.put].sent
      BY <2>1, <2>2 DEF WireInOrder
    <3>2. wire'[i].more = e.hash /\ wire'[i].status # "sent"
      BY <2>1, <2>2, <2>6
    <3> QED
      BY <2>5, <2>7, <3>1, <3>2
  <2>11. \A m \in 1..Len(applied') :
            \/ m \in 1..Len(applied) /\ applied'[m] = applied[m]
            \/ applied'[m] = e
    BY <2>3, <2>4
  <2> DEFINE K(x, h) ==
               /\ x \in 1..putCounter'
               /\ x \in Outstanding' => puts'[x].hash = h /\ (h => puts'[x].sent)
               /\ \A j \in 1..Len(wire') : IsPut(wire', j) /\ wire'[j].id = x =>
                     wire'[j].more = h /\ (h => wire'[j].status # "sent")
  <2>12. \A m \in 1..Len(applied) : K(applied[m].put, applied[m].hash)
    BY <1>2
  <2>13. K(e.put, e.hash)
    BY <2>10
  <2> HIDE DEF K
  <2>14. \A m \in 1..Len(applied') : K(applied'[m].put, applied'[m].hash)
    BY <2>11, <2>12, <2>13
  <2> USE DEF K
  <2> QED
    BY <2>9, <2>14 DEF AppliedOnce, IsPut
<1> QED
  BY <1>3, <1>4

-----------------------------------------------------------------------------
(* The server is not left with a write that is older than an answered one.    *)

(* p is behind everything that is still to be applied.                        *)
Passed(p) == /\ Reached(p)
             /\ \A q \in Outstanding : p < q
             /\ \A i \in 1..Len(wire) : IsPut(wire, i) => p < wire[i].id

(* Where the writes on the wire after a step come from.                       *)
LEMMA WireFrom ==
    ASSUME MaxPuts \in Nat, IsFiniteSet(Queries), LinkInv, WireInOrder, Effects
    PROVE  /\ \A q \in Outstanding' : q \in Outstanding \/ q = putCounter + 1
           /\ \A j \in 1..Len(wire') : IsPut(wire', j) =>
                 \/ \E i \in 1..Len(wire) : IsPut(wire, i) /\ wire[i].id = wire'[j].id
                 \/ wire'[j].id \in Outstanding
                 \/ wire'[j].id = putCounter + 1
<1>a. wire \in Seq(Requests) /\ Len(wire) \in Nat
  BY LenProperties DEF LinkInv, WireData
<1>1. CASE Aside
  <2>1. Outstanding' = Outstanding
    BY <1>1 DEF Aside, Outstanding
  <2>2. ASSUME NEW r \in Requests, r.kind # "put", wire' = Append(wire, r)
        PROVE  \A j \in 1..Len(wire') : IsPut(wire', j) => j \in 1..Len(wire) /\ wire'[j] = wire[j]
    <3>1. /\ Len(wire') = Len(wire) + 1 /\ wire'[Len(wire) + 1] = r
          /\ \A j \in 1..Len(wire) : wire'[j] = wire[j]
      BY <1>a, <2>2, SentIs
    <3> QED
      BY <1>a, <2>2, <3>1 DEF IsPut
  <2> QED
    BY <1>1, <2>1, <2>2 DEF Aside, IsPut
<1>2. CASE Cut
  BY <1>2, EmptyWire DEF Cut, Outstanding, Only
<1>3. CASE Resent
  BY <1>3, ResentIs
<1>4. CASE Written
  <2>1. Outstanding' = Outstanding \union {putCounter + 1}
    BY <1>4, WrittenIs
  <2>2. CASE wire' = wire
    BY <2>1, <2>2
  <2>3. ASSUME NEW r \in Requests, r.id = putCounter + 1, wire' = Append(wire, r)
        PROVE  \A j \in 1..Len(wire') : \/ j \in 1..Len(wire) /\ wire'[j] = wire[j]
                                        \/ wire'[j].id = putCounter + 1
    <3>1. /\ Len(wire') = Len(wire) + 1 /\ wire'[Len(wire) + 1] = r
          /\ \A j \in 1..Len(wire) : wire'[j] = wire[j]
      BY <1>a, <2>3, SentIs
    <3> QED
      BY <1>a, <2>3, <3>1
  <2>4. wire' = wire \/ \E r \in Requests : r.id = putCounter + 1 /\ wire' = Append(wire, r)
    BY <1>4, WrittenIs
  <2> QED
    BY <2>1, <2>2, <2>3, <2>4 DEF IsPut
<1>5. CASE Purged
  BY <1>5 DEF Purged, purgeOutstandingWrites, Outstanding
<1>6. CASE Taken
  <2>1. PICK i \in 1..Len(wire), s \in {"ok", "fail"} : wire' = [wire EXCEPT ![i].status = s]
    BY <1>6 DEF Taken, ServerTakes
  <2>2. /\ Len(wire') = Len(wire)
        /\ \A j \in 1..Len(wire) : wire'[j].kind = wire[j].kind /\ wire'[j].id = wire[j].id
    BY <1>a, <2>1, TakenIs
  <2> QED
    BY <1>6, <2>2 DEF Taken, Outstanding, IsPut
<1>7. CASE OtherAnswered \/ WriteAnswered
  <2>1. PICK i \in 1..Len(wire) : wire' = Answered(i) /\ (UNCHANGED puts \/ PutAnswered(i))
    BY <1>7 DEF OtherAnswered, WriteAnswered, PutAnswered
  <2>2. \A j \in 1..Len(wire') : wire'[j] = wire[Before(i, j)] /\ Before(i, j) \in 1..Len(wire)
    BY <1>a, <2>1, LeftIs
  <2>3. Outstanding' \subseteq Outstanding
    <3>1. CASE PutAnswered(i) /\ ~IsCurrentPut(wire[i].id)
      BY <3>1 DEF PutAnswered, Outstanding
    <3>2. CASE PutAnswered(i) /\ IsCurrentPut(wire[i].id)
      BY <3>2 DEF PutAnswered, Outstanding, Only
    <3> QED
      BY <2>1, <3>1, <3>2 DEF Outstanding
  <2> QED
    BY <2>2, <2>3 DEF IsPut
<1> QED
  BY <1>1, <1>2, <1>3, <1>4, <1>5, <1>6, <1>7 DEF Effects

(* The last write the server applied.                                         *)
LEMMA ReachedStep ==
    ASSUME LinkInv, WireInOrder, Effects, NEW p \in Nat, Reached(p),
           Taken => \A i \in 1..Len(wire) : IsPut(wire, i) /\ wire[i].status = "sent"
                       /\ wire'[i].status = "ok" => p < wire[i].id
    PROVE  Reached(p)'
<1>a. applied \in Seq([put : Nat, hash : BOOLEAN]) /\ Len(applied) \in Nat
  BY LenProperties DEF LinkInv, ServerData
<1>1. CASE applied' = applied
  BY <1>1 DEF Reached
<1>2. CASE applied' # applied
  <2>1. PICK i \in 1..Len(wire) :
           /\ Taken /\ IsPut(wire, i) /\ wire[i].status = "sent" /\ wire'[i].status = "ok"
           /\ [put |-> wire[i].id, hash |-> wire[i].more] \in [put : Nat, hash : BOOLEAN]
           /\ applied' = Append(applied, [put |-> wire[i].id, hash |-> wire[i].more])
    BY <1>2, AppliedIs
  <2> DEFINE e == [put |-> wire[i].id, hash |-> wire[i].more]
  <2>2. e.put = wire[i].id /\ p < e.put /\ e.put \in Nat
    BY <2>1
  <2> HIDE DEF e
  <2>3. applied' = Append(applied, e) /\ e \in [put : Nat, hash : BOOLEAN]
    BY <2>1 DEF e
  <2>4. applied' # <<>> /\ Len(applied') = Len(applied) + 1 /\ applied'[Len(applied')] = e
    BY <1>a, <2>3, AppendProperties
  <2>5. p <= applied'[Len(applied')].put
    BY <2>2, <2>4
  <2> QED
    BY <2>4, <2>5 DEF Reached
<1> QED
  BY <1>1, <1>2

(* No step sends what is not newer than p.                                    *)
LEMMA PassedStep ==
    ASSUME MaxPuts \in Nat, IsFiniteSet(Queries), LinkInv, WireInOrder, Effects,
           NEW p \in 1..putCounter, Passed(p)
    PROVE  Passed(p)'
<1>a. putCounter \in Nat /\ p \in Nat /\ p < putCounter + 1
  BY DEF LinkInv, ClientData
<1>1. \A q \in Outstanding' : p < q
  BY <1>a, WireFrom DEF Passed
<1>2. \A j \in 1..Len(wire') : IsPut(wire', j) => p < wire'[j].id
  BY <1>a, WireFrom DEF Passed
<1>3. Reached(p)'
  BY <1>a, ReachedStep DEF Passed
<1> QED
  BY <1>1, <1>2, <1>3 DEF Passed, IsPut

(* A write becomes committed only by its answer.                              *)
LEMMA CommittedIs ==
    ASSUME MaxPuts \in Nat, LinkInv, Effects, NEW p, Committed(p)', ~Committed(p)
    PROVE  /\ WriteAnswered
           /\ \E i \in 1..Len(wire) :
                 /\ Answerable(i) /\ PutAnswered(i) /\ wire[i].id = p /\ wire[i].status = "ok"
                 /\ p \in Outstanding
<1> DEFINE Ok(s) == \E k \in 1..Len(s) : s[k].put = p /\ s[k].status = "ok"
<1>a. /\ reports \in Seq(Answers) /\ putsToAck \in Seq(Answers)
      /\ Outstanding \in SUBSET (1..putCounter) /\ SentTransactions \in SUBSET (1..putCounter)
      /\ putCounter \in Nat
  <2>1. /\ reports \in Seq(Answers) /\ putsToAck \in Seq(Answers)
        /\ putCounter \in 0..MaxPuts /\ Outstanding \subseteq 1..putCounter
    BY DEF LinkInv, ClientData
  <2>2. SentTransactions \subseteq Outstanding
    BY DEF SentTransactions
  <2> QED
    BY <2>1, <2>2
<1>b. ~Ok(reports) /\ ~Ok(putsToAck) /\ (Ok(reports') \/ Ok(putsToAck'))
  BY DEF Committed
<1>c. ASSUME NEW s \in Seq(Answers), NEW t \in Seq(Answers), Ok(s \o t)
      PROVE  Ok(s) \/ Ok(t)
  <2> DEFINE u == s \o t
  <2>1. /\ Len(s) \in Nat /\ Len(t) \in Nat /\ Len(u) = Len(s) + Len(t)
        /\ \A k \in 1..Len(s) : u[k] = s[k]
        /\ \A k \in 1..Len(t) : u[Len(s) + k] = t[k]
    BY ConcatProperties, LenProperties
  <2>2. PICK k \in 1..Len(u) : u[k].put = p /\ u[k].status = "ok"
    BY <1>c
  <2> HIDE DEF u
  <2>3. CASE k \in 1..Len(s)
    BY <2>1, <2>2, <2>3
  <2>4. CASE k \notin 1..Len(s)
    <3> DEFINE m == k - Len(s)
    <3>1. m \in 1..Len(t) /\ u[k] = u[Len(s) + m]
      BY <2>1, <2>4
    <3> HIDE DEF m
    <3>2. u[k] = t[m]
      BY <2>1, <3>1
    <3> QED
      BY <2>2, <3>1, <3>2
  <2> QED
    BY <2>3, <2>4
<1>d. ASSUME NEW s \in Seq(Answers), NEW r \in Answers, Ok(Append(s, r))
      PROVE  Ok(s) \/ (r.put = p /\ r.status = "ok")
  <2>1. /\ Len(s) \in Nat /\ Len(Append(s, r)) = Len(s) + 1 /\ Append(s, r)[Len(s) + 1] = r
        /\ \A k \in 1..Len(s) : Append(s, r)[k] = s[k]
    BY AppendProperties, LenProperties
  <2>2. PICK k \in 1..Len(Append(s, r)) : Append(s, r)[k].put = p /\ Append(s, r)[k].status = "ok"
    BY <1>d
  <2>3. k \in 1..Len(s) \/ k = Len(s) + 1
    BY <2>1
  <2> QED
    BY <2>1, <2>2, <2>3
<1>e. ~Ok(<<>>)
  BY EmptyWire
<1>f. \A S \in SUBSET (1..putCounter) : \A status \in {"disconnect", "canceled"} :
         Reported(status, S) \in Seq(Answers) /\ ~Ok(Reported(status, S))
  BY <1>a, ReportedIs
<1> HIDE DEF Ok
<1>1. CASE Aside \/ Taken \/ Resent \/ Written
  BY <1>b, <1>1 DEF Aside, Taken, Resent, Written
<1>2. CASE Cut
  BY <1>a, <1>b, <1>c, <1>f, <1>2 DEF Cut
<1>3. CASE Purged
  <2> DEFINE s == reports \o putsToAck
             t == Reported("canceled", Outstanding)
  <2>1. reports' = s \o t /\ putsToAck' = <<>>
    BY <1>a, <1>3, HeldIs DEF Purged, purgeOutstandingWrites
  <2>2. s \in Seq(Answers) /\ ~Ok(s)
    BY <1>a, <1>b, <1>c, AnswersConcat
  <2>3. t \in Seq(Answers) /\ ~Ok(t)
    BY <1>a, <1>f
  <2> HIDE DEF s, t
  <2> QED
    BY <1>b, <1>c, <1>e, <2>1, <2>2, <2>3
<1>4. CASE OtherAnswered
  BY <1>a, <1>b, <1>c, <1>e, <1>4 DEF OtherAnswered
<1>5. CASE WriteAnswered
  <2>1. PICK i \in 1..Len(wire) : Answerable(i) /\ PutAnswered(i)
    BY <1>5 DEF WriteAnswered
  <2>2. IsCurrentPut(wire[i].id)
    BY <1>b, <2>1 DEF PutAnswered
  <2> DEFINE r == [put |-> wire[i].id, status |-> wire[i].status]
  <2>3. r \in Answers /\ r.put = wire[i].id /\ r.status = wire[i].status
    <3>1. wire[i] \in Requests
      BY ElementOfSeq DEF LinkInv, WireData
    <3> QED
      BY <2>1, <3>1 DEF Answers, Requests, Answerable
  <2>4. \/ reports' = Append(reports, r) /\ putsToAck' = putsToAck
        \/ putsToAck' = Append(putsToAck, r) /\ reports' = reports
    BY <2>1, <2>2 DEF PutAnswered
  <2> HIDE DEF r
  <2>5. r.put = p /\ r.status = "ok"
    BY <1>a, <1>b, <1>d, <2>3, <2>4
  <2> QED
    BY <1>5, <2>1, <2>2, <2>3, <2>5 DEF IsCurrentPut
<1> QED
  BY <1>1, <1>2, <1>3, <1>4, <1>5 DEF Effects

(* What the server has applied of the wire is behind its last write.          *)
LEMMA OkReachedStep ==
    ASSUME MaxPuts \in Nat, IsFiniteSet(Queries), LinkInv, WireInOrder, Effects,
           \A i \in 1..Len(wire) : IsPut(wire, i) /\ wire[i].status = "ok" => Reached(wire[i].id)
    PROVE  \A j \in 1..Len(wire') : IsPut(wire', j) /\ wire'[j].status = "ok" =>
              applied' # <<>> /\ wire'[j].id <= applied'[Len(applied')].put
<1>a. /\ wire \in Seq(Requests) /\ Len(wire) \in Nat
      /\ applied \in Seq([put : Nat, hash : BOOLEAN]) /\ Len(applied) \in Nat
      /\ \A i \in 1..Len(wire) : wire[i].id \in Nat
  <2>1. wire \in Seq(Requests) /\ applied \in Seq([put : Nat, hash : BOOLEAN])
    BY DEF LinkInv, WireData, ServerData
  <2>2. \A i \in 1..Len(wire) : wire[i] \in Requests
    BY <2>1, ElementOfSeq
  <2> QED
    BY <2>1, <2>2, LenProperties DEF Requests
<1> SUFFICES ASSUME NEW j \in 1..Len(wire'), IsPut(wire', j), wire'[j].status = "ok"
             PROVE  /\ applied' # <<>>
                    /\ wire'[j].id <= applied'[Len(applied')].put
  OBVIOUS
<1>1. CASE Taken
  <2>1. PICK i \in 1..Len(wire), s \in {"ok", "fail"} :
           /\ wire[i].status = "sent" /\ wire' = [wire EXCEPT ![i].status = s]
           /\ applied' = IF wire[i].kind = "put" /\ s = "ok"
                         THEN Append(applied, [put |-> wire[i].id, hash |-> wire[i].more])
                         ELSE applied
    BY <1>1 DEF Taken, ServerTakes
  <2>2. /\ Len(wire') = Len(wire)
        /\ \A k \in 1..Len(wire) :
              /\ wire'[k].kind = wire[k].kind /\ wire'[k].id = wire[k].id
              /\ wire'[k].status = IF k = i THEN s ELSE wire[k].status
    BY <1>a, <2>1, TakenIs
  <2>3. CASE j = i
    <3>1. IsPut(wire, i) /\ s = "ok" /\ wire'[j].id = wire[i].id
      BY <2>2, <2>3 DEF IsPut
    <3> DEFINE e == [put |-> wire[i].id, hash |-> wire[i].more]
    <3>2. applied' = Append(applied, e) /\ e.put = wire[i].id
      BY <2>1, <3>1 DEF IsPut
    <3>3. e \in [put : Nat, hash : BOOLEAN]
      BY <1>a, <3>1 DEF IsPut, LinkInv, WireData
    <3> HIDE DEF e
    <3>a. applied' = Append(applied, e)
      BY <3>2
    <3>4. applied' # <<>> /\ Len(applied') = Len(applied) + 1 /\ applied'[Len(applied')] = e
      BY <1>a, <3>a, <3>3, AppendProperties
    <3> QED
      BY <1>a, <3>1, <3>2, <3>4
  <2>4. CASE j # i
    <3>1. j \in 1..Len(wire) /\ IsPut(wire, j) /\ wire[j].status = "ok" /\ wire'[j].id = wire[j].id
      BY <2>2, <2>4 DEF IsPut
    <3>a. PICK p \in Nat : p = wire[j].id
      BY <1>a, <3>1
    <3>2. Reached(p)
      BY <3>1, <3>a
    <3>3. \A k \in 1..Len(wire) : IsPut(wire, k) /\ wire[k].status = "sent" => p < wire[k].id
      <4> SUFFICES ASSUME NEW k \in 1..Len(wire), IsPut(wire, k), wire[k].status = "sent"
                   PROVE  p < wire[k].id
        OBVIOUS
      <4>1. j < k
        <5>1. ~(k < j)
          BY <3>1 DEF WireInOrder
        <5>2. j # k
          BY <3>1
        <5> QED
          BY <1>a, <3>1, <5>1, <5>2
      <4> QED
        BY <3>1, <3>a, <4>1 DEF WireInOrder
    <3>4. Reached(p)'
      BY <3>2, <3>3, ReachedStep
    <3>5. applied' # <<>> /\ p <= applied'[Len(applied')].put
      BY <3>4 DEF Reached
    <3> QED
      BY <3>1, <3>5, <3>a
  <2> QED
    BY <2>3, <2>4
<1>2. CASE ~Taken
  <2>1. applied' = applied
    BY <1>2, AppliedIs
  <2>2. \E i \in 1..Len(wire) : wire[i] = wire'[j]
    <3>1. CASE Aside
      <4>1. ASSUME NEW r \in Requests, r.status = "sent", wire' = Append(wire, r)
            PROVE  \E i \in 1..Len(wire) : wire[i] = wire'[j]
        <5>1. /\ Len(wire') = Len(wire) + 1 /\ wire'[Len(wire) + 1] = r
              /\ \A k \in 1..Len(wire) : wire'[k] = wire[k]
          BY <1>a, <4>1, SentIs
        <5>2. j \in 1..Len(wire)
          BY <1>a, <4>1, <5>1
        <5> QED
          BY <5>1, <5>2
      <4> QED
        BY <3>1, <4>1 DEF Aside
    <3>2. CASE Cut
      BY <3>2, EmptyWire DEF Cut
    <3>3. CASE Resent
      <4>1. wire'[j].status = "sent"
        BY <3>3, ResentIs
      <4> QED
        BY <4>1
    <3>4. CASE Written
      <4>1. ASSUME NEW r \in Requests, r.status = "sent", wire' = Append(wire, r)
            PROVE  \E i \in 1..Len(wire) : wire[i] = wire'[j]
        <5>1. /\ Len(wire') = Len(wire) + 1 /\ wire'[Len(wire) + 1] = r
              /\ \A k \in 1..Len(wire) : wire'[k] = wire[k]
          BY <1>a, <4>1, SentIs
        <5>2. j \in 1..Len(wire)
          BY <1>a, <4>1, <5>1
        <5> QED
          BY <5>1, <5>2
      <4>2. wire' = wire \/ \E r \in Requests : r.status = "sent" /\ wire' = Append(wire, r)
        BY <3>4, WrittenIs
      <4> QED
        BY <4>1, <4>2
    <3>5. CASE Purged
      BY <3>5 DEF Purged
    <3>6. CASE OtherAnswered \/ WriteAnswered
      <4>1. PICK i \in 1..Len(wire) : wire' = Answered(i)
        BY <3>6 DEF OtherAnswered, WriteAnswered, PutAnswered
      <4>2. wire'[j] = wire[Before(i, j)] /\ Before(i, j) \in 1..Len(wire)
        BY <1>a, <4>1, LeftIs
      <4> QED
        BY <4>2
    <3> QED
      BY <1>2, <3>1, <3>2, <3>3, <3>4, <3>5, <3>6 DEF Effects
  <2>3. PICK i \in 1..Len(wire) : wire[i] = wire'[j]
    BY <2>2
  <2>4. Reached(wire[i].id)
    BY <2>3 DEF IsPut
  <2> QED
    BY <2>1, <2>3, <2>4 DEF Reached
<1> QED
  BY <1>1, <1>2

(* A write that is answered has passed: what is newer comes after it.         *)
LEMMA NewerToComeStep ==
    ASSUME MaxPuts \in Nat, IsFiniteSet(Queries), LinkInv, Settled, WireInOrder, NewerToCome,
           Effects
    PROVE  NewerToCome'
<1>a. /\ wire \in Seq(Requests) /\ Len(wire) \in Nat /\ putCounter \in Nat
      /\ Outstanding \subseteq 1..putCounter
  BY LenProperties DEF LinkInv, ClientData, WireData
<1>1. ASSUME NEW p, Committed(p)'
      PROVE  Passed(p)'
  <2>1. CASE Committed(p)
    <3>1. p \in 1..putCounter
      BY <2>1 DEF Committed, Settled, Ids
    <3>2. Passed(p)
      BY <2>1, <3>1 DEF NewerToCome, Passed
    <3> QED
      BY <3>1, <3>2, PassedStep
  <2>2. CASE ~Committed(p)
    <3>1. PICK i \in 1..Len(wire) : /\ Answerable(i) /\ PutAnswered(i) /\ wire[i].id = p
                                    /\ wire[i].status = "ok" /\ p \in Outstanding
      BY <1>1, <2>2, CommittedIs
    <3>2. IsPut(wire, i) /\ state = "Connected" /\ p \in Nat
      BY <1>a, <3>1 DEF PutAnswered, IsPut, WireInOrder
    <3>3. /\ Outstanding' = Outstanding \ {p} /\ wire' = Answered(i) /\ applied' = applied
      BY <3>1 DEF PutAnswered, IsCurrentPut, Outstanding, Only, serverVars
    <3>4. \A k \in 1..Len(wire) : IsPut(wire, k) /\ k # i => p < wire[k].id
      <4> SUFFICES ASSUME NEW k \in 1..Len(wire), IsPut(wire, k), k # i
                   PROVE  p < wire[k].id
        OBVIOUS
      <4>1. ~(k < i)
        BY <1>a, <3>1 DEF Answerable, IsPut
      <4>2. i < k
        BY <1>a, <4>1
      <4> QED
        BY <3>1, <3>2, <4>2 DEF WireInOrder
    <3>5. \A q \in Outstanding' : p < q
      <4> SUFFICES ASSUME NEW q \in Outstanding, q # p PROVE p < q
        BY <3>3
      <4>1. PICK k \in 1..Len(wire) : IsPut(wire, k) /\ wire[k].id = q
        BY <3>2 DEF WireInOrder
      <4> QED
        BY <3>1, <3>4, <4>1
    <3>6. \A j \in 1..Len(wire') : IsPut(wire', j) => p < wire'[j].id
      <4> SUFFICES ASSUME NEW j \in 1..Len(wire'), IsPut(wire', j) PROVE p < wire'[j].id
        OBVIOUS
      <4>1. /\ wire'[j] = wire[Before(i, j)] /\ Before(i, j) \in 1..Len(wire)
            /\ Before(i, j) # i
        BY <1>a, <3>3, LeftIs
      <4> QED
        BY <3>4, <4>1 DEF IsPut
    <3>7. Reached(p)'
      <4>1. Reached(p)
        BY <3>1, <3>2 DEF NewerToCome
      <4> QED
        BY <3>3, <4>1 DEF Reached
    <3> QED
      BY <3>5, <3>6, <3>7 DEF Passed, IsPut
  <2> QED
    BY <2>1, <2>2
<1>2. \A j \in 1..Len(wire') :
         IsPut(wire', j) /\ wire'[j].status = "ok" =>
            applied' # <<>> /\ wire'[j].id <= applied'[Len(applied')].put
  BY OkReachedStep DEF NewerToCome
<1> QED
  BY <1>1, <1>2 DEF NewerToCome, Passed, Reached, IsPut

(* Before anything is written.                                                *)
LEMMA OrderInit ==
    ASSUME Init
    PROVE  OrderInv
<1>1. Outstanding = {}
  BY DEF Init, Outstanding
<1>2. 1..0 = {} /\ Len(<<>>) = 0
  OBVIOUS
<1> QED
  BY <1>1, <1>2, NoAnswers DEF Init, OrderInv, Settled, WireInOrder, AppliedOnce,
                               TransactionsAppliedOnce, NewerToCome, Committed

(* Every step keeps the order of the writes.                                  *)
LEMMA OrderStep ==
    ASSUME MaxPuts \in Nat, IsFiniteSet(Queries), LinkInv, OrderInv, [Next]_vars
    PROVE  OrderInv'
<1>1. CASE Next
  <2>1. Effects /\ Settled /\ WireInOrder /\ AppliedOnce /\ NewerToCome
    BY <1>1, EveryStep DEF OrderInv
  <2>2. Settled' /\ WireInOrder'
    BY <2>1, SettledStep, WireInOrderStep
  <2>3. AppliedOnce' /\ NewerToCome'
    BY <2>1, AppliedOnceStep, NewerToComeStep
  <2> QED
    BY <2>2, <2>3 DEF OrderInv
<1>2. CASE UNCHANGED vars
  <2>1. /\ UNCHANGED <<wire, puts, putCounter, putsToAck, reports, applied, state>>
        /\ Outstanding' = Outstanding
    BY <1>2 DEF vars, linkVars, putVars, serverVars, Outstanding
  <2> QED
    BY <2>1 DEF OrderInv, Settled, WireInOrder, AppliedOnce, TransactionsAppliedOnce, NewerToCome,
                Committed, Reached, IsPut
<1> QED
  BY <1>1, <1>2

(* What OrderInv says of the properties the runs check.                       *)
LEMMA OrderMeans ==
    ASSUME OrderInv
    PROVE  /\ CompletesOnce /\ NoWriteForgotten /\ PurgedStaysPurged
           /\ LastWriteWins /\ TransactionsAppliedOnce
<1>1. CompletesOnce
  BY DEF OrderInv, Settled, Once, CompletesOnce
<1>2. NoWriteForgotten
  BY DEF OrderInv, Settled, Ids, NoWriteForgotten
<1>3. PurgedStaysPurged
  BY DEF OrderInv, Settled, Ids, PurgedStaysPurged
<1>4. LastWriteWins
  <2> SUFFICES ASSUME NEW k \in 1..Len(reports), reports[k].status = "ok"
               PROVE  Reached(reports[k].put)
    BY DEF LastWriteWins, Reached
  <2>1. Committed(reports[k].put)
    BY DEF Committed
  <2>2. reports[k].put \in 1..putCounter
    BY DEF OrderInv, Settled, Ids
  <2> QED
    BY <2>1, <2>2 DEF OrderInv, NewerToCome
<1>5. TransactionsAppliedOnce
  BY DEF OrderInv, AppliedOnce
<1> QED
  BY <1>1, <1>2, <1>3, <1>4, <1>5

(* What LinkInv says of the properties the runs check.                        *)
LEMMA LinkMeans ==
    ASSUME LinkInv
    PROVE  TypeOK /\ OneConnection /\ InterruptedMeansOffline /\ CountsListens
<1>1. unacked \in Nat
  <2>1. IsFiniteSet(Listening(wire))
    BY ListeningFinite DEF LinkInv, WireData
  <2> QED
    BY <2>1, FS_CardinalityType DEF LinkInv, CountsListens
<1> QED
  BY <1>1 DEF LinkInv, LinkStates, States, ClientData, ServerData, TypeOK

(* The variables of the link keep their types: no token is used that was not  *)
(* issued, and no write is outstanding that was not made.                     *)
THEOREM TypeCorrect ==
    ASSUME MaxPuts \in Nat, IsFiniteSet(Queries)
    PROVE  Spec => []TypeOK
<1>1. LinkInv => TypeOK
  BY LinkMeans
<1>2. Spec => []LinkInv
  BY LinkInvariant
<1> QED
  BY <1>1, <1>2, PTL

(* Whatever the order of timers, token answers, interruptions and lost        *)
(* sockets, FPersistentConnection has one connection at most, none while      *)
(* there is a reason to stay offline, and unackedListensCount is the number   *)
(* of listens without an answer.                                              *)
THEOREM LinkSafe ==
    ASSUME MaxPuts \in Nat, IsFiniteSet(Queries)
    PROVE  Spec => [](OneConnection /\ InterruptedMeansOffline /\ CountsListens)
<1>1. LinkInv => OneConnection /\ InterruptedMeansOffline /\ CountsListens
  BY LinkMeans
<1>2. Spec => []LinkInv
  BY LinkInvariant
<1> QED
  BY <1>1, <1>2, PTL

(* The order of the writes holds together with the invariant of the link.     *)
LEMMA OrderInvariant ==
    ASSUME MaxPuts \in Nat, IsFiniteSet(Queries)
    PROVE  Spec => []OrderInv
<1>1. Init => LinkInv /\ OrderInv
  BY LinkInvInit, OrderInit
<1>2. LinkInv /\ OrderInv /\ [Next]_vars => (LinkInv /\ OrderInv)'
  BY LinkInvStep, OrderStep
<1> QED
  BY <1>1, <1>2, PTL DEF Spec

(* Through lost connections, purges, late answers and answers held back, no   *)
(* write is forgotten, none completes twice, and none comes back once it was  *)
(* reported as canceled.                                                      *)
THEOREM WritesSettle ==
    ASSUME MaxPuts \in Nat, IsFiniteSet(Queries)
    PROVE  Spec => [](CompletesOnce /\ NoWriteForgotten /\ PurgedStaysPurged)
<1>1. OrderInv => CompletesOnce /\ NoWriteForgotten /\ PurgedStaysPurged
  BY OrderMeans
<1>2. Spec => []OrderInv
  BY OrderInvariant
<1> QED
  BY <1>1, <1>2, PTL

(* However often restoreState sends again, the server is never left with a    *)
(* write older than one that was reported as done, and it applies the write   *)
(* of a transaction at most once.                                             *)
THEOREM WritesInOrder ==
    ASSUME MaxPuts \in Nat, IsFiniteSet(Queries)
    PROVE  Spec => [](LastWriteWins /\ TransactionsAppliedOnce)
<1>1. OrderInv => LastWriteWins /\ TransactionsAppliedOnce
  BY OrderMeans
<1>2. Spec => []OrderInv
  BY OrderInvariant
<1> QED
  BY <1>1, <1>2, PTL
=============================================================================
