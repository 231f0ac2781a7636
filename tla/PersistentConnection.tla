------------------------ MODULE PersistentConnection ------------------------
(* The link of the Firebase client to its server: FPersistentConnection with  *)
(* the FConnection it owns and its FIRRetryHelper.  All of it runs on one     *)
(* serial queue, so a handler is one step; what can come in between are the   *)
(* answers of the token provider, of the retry timer and of the server, calls *)
(* of the application, and the loss of the socket.                            *)
(*                                                                            *)
(* A closed FConnection is released and reports nothing any more, so only the *)
(* current one (realtime) is kept.  Its socket carries the requests of wire,  *)
(* oldest first, each until it is answered; requestCBHash is the set of those *)
(* that have a callback.  Requests without one (unlisten, unauth, stats) are  *)
(* left out.  The server is external: it works off the requests in order,     *)
(* answers writes in order, and a listen whenever it has the data.            *)
EXTENDS Integers, Sequences, FiniteSets

CONSTANTS Queries,      \* what can be listened to
          MaxPuts,      \* bound: writes
          MaxOps,       \* bound: onDisconnect operations
          MaxListens,   \* bound: calls of listen
          MaxFaults,    \* bound: lost sockets, server resets, kills and revocations, failing fetches
          MaxCalls,     \* bound: goOffline, reachability and foreground notices, token refreshes, purges
          Refused,      \* external: the writes the rules of the server do not allow
          Tokens        \* external: there are auth tokens (FALSE: nil, as in this application)

VARIABLES state,        \* connectionState
          interrupts,   \* interruptReasons
          retry,        \* the scheduled retry block and the forceRefresh it holds
          fetches,      \* token fetches under way: attempt number -> forceRefresh
          attempt,      \* currentFetchTokenAttempt
          force,        \* forceAuthTokenRefresh
          token,        \* authToken: a number, 0 for nil
          realtime,     \* the FConnection: "none", "connecting" or "connected"
          wire,         \* requests on it that wait for an answer
          puts,         \* outstandingPuts: put number -> FOutstandingPut
          putCounter,
          listens,      \* query -> number of the FOutstandingQuery, 0 for none
          listenNo,     \* listen calls so far
          unacked,      \* unackedListensCount
          putsToAck,    \* answers held back until the listens are answered
          opQueue,      \* onDisconnectQueue
          opNo,         \* onDisconnect operations so far
          reports,      \* history: completions of writes, in order
          opReports,    \* history: completions of onDisconnect operations
          applied,      \* external: puts in the order the server applied them
          issued,       \* external: the newest token the provider has
          revoked,      \* external: tokens up to this one are refused
          refused,      \* history: the newest token the client knows to be refused
          faults, calls

linkVars == <<state, interrupts, retry, fetches, attempt, force, token, realtime>>
putVars == <<puts, putCounter, putsToAck, reports>>
listenVars == <<listens, listenNo, unacked>>
opVars == <<opQueue, opNo, opReports>>
serverVars == <<applied, issued, revoked, refused>>
vars == <<linkVars, wire, putVars, listenVars, opVars, serverVars, faults, calls>>

Reasons == {"waiting_for_open", "repo_interrupt", "server_kill"}

(* FOutstandingPut: hash marks the write of a transaction.                    *)
Put == [hash : BOOLEAN, sent : BOOLEAN]

Outstanding == DOMAIN puts

Only(S) == [i \in S |-> puts[i]]

connected == state \in {"Authenticating", "Connected"}

canSendWrites == state = "Connected"

shouldReconnect == interrupts = {}

Request(kind, id, more) == [kind |-> kind, id |-> id, more |-> more, status |-> "sent"]

Fault == faults < MaxFaults /\ faults' = faults + 1

Call == calls < MaxCalls /\ calls' = calls + 1

UpTo(S, x) == {y \in S : y <= x}

(* The numbers of S, sorted.                                                  *)
ascending(S) == [k \in 1..Cardinality(S) |-> CHOOSE x \in S : Cardinality(UpTo(S, x)) = k]

(* The orders in which the elements of S can be enumerated.                   *)
Orders(S) == {f \in [1..Cardinality(S) -> S] : \A j, k \in 1..Cardinality(S) : f[j] = f[k] => j = k}

-----------------------------------------------------------------------------
Init == /\ state = "Disconnected"
        /\ interrupts = {"waiting_for_open"}
        /\ retry = "none"
        /\ fetches = <<>>
        /\ attempt = 0
        /\ force = FALSE
        /\ token = 0
        /\ realtime = "none"
        /\ wire = <<>>
        /\ puts = <<>>
        /\ putCounter = 0
        /\ listens = [q \in Queries |-> 0]
        /\ listenNo = 0
        /\ unacked = 0
        /\ putsToAck = <<>>
        /\ opQueue = <<>>
        /\ opNo = 0
        /\ reports = <<>>
        /\ opReports = <<>>
        /\ applied = <<>>
        /\ issued = IF Tokens THEN 1 ELSE 0
        /\ revoked = 0
        /\ refused = 0
        /\ faults = 0
        /\ calls = 0

Block(mayForce) == IF mayForce THEN "force" ELSE "plain"

(* Slip in tryScheduleReconnect: the reasons to stay offline are not looked at. *)
ScheduleAnyway(mayForce) == retry' = Block(mayForce) /\ force' = FALSE

(* tryScheduleReconnect: the block takes forceAuthTokenRefresh with it;       *)
(* FIRRetryHelper.retry cancels the block scheduled before.  mayForce is the  *)
(* flag, interrupts' the reasons, at the time of the call.                    *)
tryScheduleReconnect(mayForce) ==
    IF interrupts' = {} THEN retry' = Block(mayForce) /\ force' = FALSE
    ELSE UNCHANGED retry /\ force' = mayForce

-----------------------------------------------------------------------------
(* onDisconnect:withReason: of the FConnection that is current, whatever      *)
(* closed it.  cancelSentTransactions completes the transactions that were    *)
(* sent, with an error; everything else stays outstanding.                    *)

SentTransactions == {i \in Outstanding : puts[i].hash /\ puts[i].sent}

Reported(status, S) == [k \in 1..Cardinality(S) |-> [put |-> ascending(S)[k], status |-> status]]

(* Slip in onDisconnect: what was sent is taken for done.                     *)
ForgetSent(mayForce) ==
    /\ state' = "Disconnected"
    /\ realtime' = "none"
    /\ puts' = Only({i \in Outstanding : ~puts[i].sent})
    /\ reports' = reports \o Reported("disconnect", SentTransactions)
    /\ wire' = <<>>
    /\ unacked' = 0
    /\ tryScheduleReconnect(mayForce)

onDisconnect(mayForce) ==
    /\ state' = "Disconnected"
    /\ realtime' = "none"
    /\ puts' = Only(Outstanding \ SentTransactions)
    /\ reports' = reports \o Reported("disconnect", SentTransactions)
    /\ wire' = <<>>
    /\ unacked' = 0
    /\ tryScheduleReconnect(mayForce)

(* The socket is lost, or the server sends a reset: FConnection closes.       *)
ConnectionLost == /\ realtime # "none"
                  /\ Fault
                  /\ UNCHANGED interrupts
                  /\ onDisconnect(force)
                  /\ UNCHANGED <<fetches, attempt, token, putCounter, putsToAck, listens,
                                 listenNo, opVars, serverVars, calls>>

(* interruptForReason: close the connection, or else cancel the retry and     *)
(* forget about a fetch under way.                                            *)
interruptForReason(r) ==
    /\ interrupts' = interrupts \union {r}
    /\ IF realtime # "none" THEN onDisconnect(force)
       ELSE /\ state' = "Disconnected" /\ retry' = "none"
            /\ UNCHANGED <<force, realtime, puts, reports, wire, unacked>>

(* goOffline: FRepo.interrupt.                                                *)
goOffline == /\ Call
             /\ interruptForReason("repo_interrupt")
             /\ UNCHANGED <<fetches, attempt, token, putCounter, putsToAck, listens,
                            listenNo, opVars, serverVars, faults>>

(* onKill: the server shuts the connection down for good; FConnection's own   *)
(* close after it finds the connection closed.                                *)
onKill == /\ realtime # "none"
          /\ Fault
          /\ interruptForReason("server_kill")
          /\ UNCHANGED <<fetches, attempt, token, putCounter, putsToAck, listens,
                         listenNo, opVars, serverVars, calls>>

(* resumeForReason.                                                           *)
resumeForReason(r) ==
    /\ interrupts' = interrupts \ {r}
    /\ IF state = "Disconnected" THEN tryScheduleReconnect(force) ELSE UNCHANGED <<retry, force>>
    /\ UNCHANGED <<state, fetches, attempt, token, realtime, wire, putVars, listenVars, opVars,
                   serverVars, faults, calls>>

open == "waiting_for_open" \in interrupts /\ resumeForReason("waiting_for_open")

goOnline == "repo_interrupt" \in interrupts /\ resumeForReason("repo_interrupt")

(* reachabilityCallback with a reachable network, and enteringForeground.     *)
NetworkReachable == /\ state = "Disconnected" /\ Call
                    /\ UNCHANGED interrupts
                    /\ tryScheduleReconnect(force)
                    /\ UNCHANGED <<state, fetches, attempt, token, realtime, wire, putVars,
                                   listenVars, opVars, serverVars, faults>>

-----------------------------------------------------------------------------
(* The retry block: start to fetch a token.                                   *)
RetryFires == /\ retry # "none"
              /\ retry' = "none"
              /\ state' = "GettingToken"
              /\ attempt' = attempt + 1
              /\ fetches' = [n \in DOMAIN fetches \union {attempt + 1} |->
                                IF n = attempt + 1 THEN retry = "force" ELSE fetches[n]]
              /\ UNCHANGED <<interrupts, force, token, realtime, wire, putVars, listenVars,
                             opVars, serverVars, faults, calls>>

Without(n) == [m \in DOMAIN fetches \ {n} |-> fetches[m]]

(* thisFetchTokenAttempt == currentFetchTokenAttempt                          *)
IsLatest(n) == n = attempt

(* The provider (external) has a token: a forced refresh makes a new one, a   *)
(* plain fetch returns the one it has.  openNetworkConnectionWithToken,       *)
(* unless there is a newer attempt or the connection was interrupted.         *)
TokenFetched(n) ==
    /\ fetches' = Without(n)
    /\ issued' = IF Tokens /\ fetches[n] /\ issued = revoked THEN issued + 1 ELSE issued
    /\ IF IsLatest(n) /\ state = "GettingToken"
       THEN token' = issued' /\ state' = "Connecting" /\ realtime' = "connecting"
       ELSE UNCHANGED <<token, state, realtime>>
    /\ UNCHANGED <<interrupts, retry, attempt, force, wire, putVars, listenVars, opVars,
                   applied, revoked, refused, faults, calls>>

(* Slip in the callback of the fetch: a failure is not tried again.           *)
FailedGivesUp(n) ==
    /\ Fault
    /\ fetches' = Without(n)
    /\ state' = IF IsLatest(n) THEN "Disconnected" ELSE state
    /\ UNCHANGED <<interrupts, retry, force, attempt, token, realtime, wire, putVars, listenVars,
                   opVars, serverVars, calls>>

(* The fetch fails: try again, unless there is a newer attempt.               *)
TokenFailed(n) ==
    /\ Fault
    /\ fetches' = Without(n)
    /\ UNCHANGED interrupts
    /\ IF IsLatest(n) THEN state' = "Disconnected" /\ tryScheduleReconnect(force)
       ELSE UNCHANGED <<state, retry, force>>
    /\ UNCHANGED <<attempt, token, realtime, wire, putVars, listenVars, opVars, serverVars, calls>>

-----------------------------------------------------------------------------
(* restoreState: listens, then the outstanding puts by their number, then the *)
(* queued onDisconnect operations.                                            *)

ActiveListens == {q \in Queries : listens[q] # 0}

listenRequests(order) == [k \in 1..Len(order) |-> Request("listen", listens[order[k]], order[k])]

PutRequests(order) == [k \in 1..Len(order) |-> Request("put", order[k], puts[order[k]].hash)]

OpRequests == [k \in 1..Len(opQueue) |-> Request("op", opQueue[k], "")]

(* Slip in restoreState: the keys of the dictionary are taken as they come.   *)
Unsorted(S) == LET up == ascending(S) IN [k \in 1..Len(up) |-> up[Len(up) + 1 - k]]

(* [outstandingPuts allKeys], sorted                                          *)
RestoreOrder(S) == ascending(S)

restoreState(before) ==
    /\ \E order \in Orders(ActiveListens) :
           wire' = before \o listenRequests(order) \o PutRequests(RestoreOrder(Outstanding))
                          \o OpRequests
    /\ unacked' = unacked + Cardinality(ActiveListens)
    /\ puts' = [i \in Outstanding |-> [puts[i] EXCEPT !.sent = TRUE]]
    /\ opQueue' = <<>>

(* The handshake: onReady and restoreAuth.                                    *)
onReady == /\ realtime = "connecting"
           /\ realtime' = "connected"
           /\ IF token = 0
              THEN state' = "Connected" /\ restoreState(wire)
              ELSE /\ state' = "Authenticating"
                   /\ wire' = Append(wire, Request("auth", token, TRUE))
                   /\ UNCHANGED <<unacked, puts, opQueue>>
           /\ UNCHANGED <<interrupts, retry, fetches, attempt, force, token, putCounter, putsToAck,
                          reports, listens, listenNo, opNo, opReports, serverVars, faults, calls>>

(* refreshAuthToken: the application's user signs in or out.                  *)
refreshAuthToken == /\ Tokens /\ Call
                    /\ \E t \in {0, issued} :
                        /\ token' = t
                        /\ wire' = IF connected /\ t # 0
                                   THEN Append(wire, Request("auth", t, FALSE)) ELSE wire
                    /\ UNCHANGED <<state, interrupts, retry, fetches, attempt, force, realtime,
                                   putVars, listenVars, opVars, serverVars, faults>>

-----------------------------------------------------------------------------
(* Calls of FRepo.                                                            *)

(* putData, mergeData: putInternal.  hash is set for a transaction.           *)
putInternal(hash) ==
    /\ putCounter < MaxPuts
    /\ putCounter' = putCounter + 1
    /\ puts' = [i \in Outstanding \union {putCounter + 1} |->
                   IF i = putCounter + 1 THEN [hash |-> hash, sent |-> canSendWrites] ELSE puts[i]]
    /\ wire' = IF canSendWrites THEN Append(wire, Request("put", putCounter + 1, hash)) ELSE wire
    /\ UNCHANGED <<linkVars, putsToAck, reports, listenVars, opVars, serverVars, faults, calls>>

(* onDisconnectPutData, onDisconnectMergeData and onDisconnectCancelPath.     *)
onDisconnectOperation ==
    /\ opNo < MaxOps
    /\ opNo' = opNo + 1
    /\ IF canSendWrites
       THEN wire' = Append(wire, Request("op", opNo + 1, "")) /\ UNCHANGED opQueue
       ELSE opQueue' = Append(opQueue, opNo + 1) /\ UNCHANGED wire
    /\ UNCHANGED <<linkVars, putVars, listenVars, opReports, serverVars, faults, calls>>

(* The calls of FIRDatabaseReference under "Managing presence": set, remove,  *)
(* update and cancel differ in the request's data only.                       *)
onDisconnectSetValue == onDisconnectOperation

(* listen: sent as soon as there is a connection, be it only authenticating.  *)
listen(q) == /\ listens[q] = 0 /\ listenNo < MaxListens
             /\ listenNo' = listenNo + 1
             /\ listens' = [listens EXCEPT ![q] = listenNo + 1]
             /\ IF connected THEN /\ wire' = Append(wire, Request("listen", listenNo + 1, q))
                                  /\ unacked' = unacked + 1
                ELSE UNCHANGED <<wire, unacked>>
             /\ UNCHANGED <<linkVars, putVars, opVars, serverVars, faults, calls>>

unlisten(q) == /\ listens[q] # 0
               /\ listens' = [listens EXCEPT ![q] = 0]
               /\ UNCHANGED <<linkVars, wire, putVars, listenNo, unacked, opVars, serverVars,
                              faults, calls>>

(* ackPuts, with what is left of the callers' steps.                          *)
Held == [k \in 1..Len(putsToAck) |-> putsToAck[k]]

(* purgeOutstandingWrites: hand out the answers held back, then cancel.       *)
purgeOutstandingWrites ==
    /\ Call
    /\ reports' = reports \o Held \o Reported("canceled", Outstanding)
    /\ putsToAck' = <<>>
    /\ puts' = <<>>
    /\ opReports' = opReports \o [k \in 1..Len(opQueue) |-> opQueue[k]]
    /\ opQueue' = <<>>
    /\ UNCHANGED <<linkVars, wire, putCounter, listenVars, opNo, serverVars, faults>>

-----------------------------------------------------------------------------
(* External: the server takes the next request.                               *)
ServerTakes ==
    \E i \in 1..Len(wire) :
        /\ wire[i].status = "sent" /\ \A j \in 1..i - 1 : wire[j].status # "sent"
        /\ \E s \in {"ok", "fail"} :
            /\ wire[i].kind = "auth" => s = IF wire[i].id > revoked THEN "ok" ELSE "fail"
            /\ wire[i].kind = "op" => s = "ok"
            /\ wire[i].kind = "put" => s = IF wire[i].id \in Refused THEN "fail" ELSE "ok"
            /\ wire' = [wire EXCEPT ![i].status = s]
            /\ applied' = IF wire[i].kind = "put" /\ s = "ok" 
                          THEN Append(applied, [put |-> wire[i].id, hash |-> wire[i].more])
                          ELSE applied
        /\ UNCHANGED <<linkVars, putVars, listenVars, opVars, issued, revoked, refused,
                       faults, calls>>

(* External: the token in use expires.                                        *)
TokenExpires == /\ Tokens /\ Fault /\ revoked < issued
                /\ revoked' = issued
                /\ UNCHANGED <<linkVars, wire, putVars, listenVars, opVars, applied, issued,
                               refused, calls>>

(* External: the answers arrive.  Only a listen may be overtaken.             *)
Answerable(i) == /\ wire[i].status # "sent"
                 /\ \A j \in 1..i - 1 : wire[j].kind = "listen"

Answered(i) == SubSeq(wire, 1, i - 1) \o SubSeq(wire, i + 1, Len(wire))

(* sendAuthAndRestoreStateAfterComplete: the answer.  A refused token is      *)
(* dropped and the connection closed.                                         *)
AuthAnswered(i) ==
    /\ wire[i].kind = "auth"
    /\ UNCHANGED interrupts
    /\ IF wire[i].status = "fail"
       THEN token' = 0 /\ refused' = wire[i].id /\ onDisconnect(TRUE) /\ UNCHANGED opQueue
       ELSE /\ state' = "Connected"
            /\ IF wire[i].more THEN restoreState(Answered(i))
               ELSE wire' = Answered(i) /\ UNCHANGED <<unacked, puts, opQueue>>
            /\ UNCHANGED <<retry, force, token, refused, realtime, reports>>
    /\ UNCHANGED <<fetches, attempt, putCounter, putsToAck, listens, listenNo, opNo,
                   opReports, applied, issued, revoked, faults, calls>>

(* currentPut == put                                                          *)
IsCurrentPut(i) == i \in Outstanding

(* sendPut: the answer, held back while listens are unanswered.               *)
PutAnswered(i) ==
    /\ wire[i].kind = "put"
    /\ wire' = Answered(i)
    /\ IF IsCurrentPut(wire[i].id)
       THEN LET r == [put |-> wire[i].id, status |-> wire[i].status]
            IN  /\ puts' = Only(Outstanding \ {wire[i].id})
                /\ reports' = IF unacked = 0 THEN Append(reports, r) ELSE reports
                /\ putsToAck' = IF unacked = 0 THEN putsToAck ELSE Append(putsToAck, r)
       ELSE UNCHANGED <<puts, reports, putsToAck>>
    /\ UNCHANGED <<linkVars, putCounter, listenVars, opVars, serverVars, faults, calls>>

(* self.unackedListensCount--                                                 *)
CountDown(q, no) == unacked - 1

(* sendListen: the answer.  An error removes the listen, if it is still the   *)
(* same one; the last answer releases the puts.                               *)
ListenAnswered(i) ==
    /\ wire[i].kind = "listen"
    /\ wire' = Answered(i)
    /\ LET q == wire[i].more
       IN  /\ listens' = IF listens[q] = wire[i].id /\ wire[i].status = "fail"
                         THEN [listens EXCEPT ![q] = 0] ELSE listens
           /\ unacked' = CountDown(q, wire[i].id)
    /\ IF unacked' = 0 THEN reports' = reports \o Held /\ putsToAck' = <<>>
       ELSE UNCHANGED <<reports, putsToAck>>
    /\ UNCHANGED <<linkVars, puts, putCounter, listenNo, opVars, serverVars, faults, calls>>

OpAnswered(i) == /\ wire[i].kind = "op"
                 /\ wire' = Answered(i)
                 /\ opReports' = Append(opReports, wire[i].id)
                 /\ UNCHANGED <<linkVars, putVars, listenVars, opQueue, opNo, serverVars,
                                faults, calls>>

onDataMessage == \E i \in 1..Len(wire) :
    Answerable(i) /\ (AuthAnswered(i) \/ PutAnswered(i) \/ ListenAnswered(i) \/ OpAnswered(i))

(* onAuthRevokedWithStatus, a push of the server.                             *)
onAuthRevoked == /\ Tokens /\ connected /\ revoked = issued
                 /\ token' = 0 /\ refused' = revoked
                 /\ UNCHANGED interrupts
                 /\ onDisconnect(TRUE)
                 /\ Fault
                 /\ UNCHANGED <<fetches, attempt, putCounter, putsToAck, listens, listenNo,
                                opVars, applied, issued, revoked, calls>>

(* onListenRevoked, a push of the server: removeAllListensAtPath.             *)
onListenRevoked(q) == /\ connected /\ listens[q] # 0 /\ Fault
                      /\ listens' = [listens EXCEPT ![q] = 0]
                      /\ UNCHANGED <<linkVars, wire, putVars, listenNo, unacked, opVars,
                                     serverVars, calls>>

-----------------------------------------------------------------------------
Link == \/ open \/ goOnline \/ RetryFires \/ onReady
        \/ \E n \in DOMAIN fetches : TokenFetched(n)

Failures == \/ ConnectionLost \/ onKill \/ TokenExpires \/ onAuthRevoked
            \/ \E n \in DOMAIN fetches : TokenFailed(n)
            \/ \E q \in Queries : onListenRevoked(q)

Calls == \/ goOffline \/ NetworkReachable \/ refreshAuthToken \/ purgeOutstandingWrites
         \/ onDisconnectSetValue
         \/ \E h \in BOOLEAN : putInternal(h)
         \/ \E q \in Queries : listen(q) \/ unlisten(q)

Next == Link \/ Failures \/ Calls \/ ServerTakes \/ onDataMessage

Spec == Init /\ [][Next]_vars

(* Timers fire, token fetches and handshakes end, the server works off what   *)
(* it is sent, the application goes online again.  Faults are bounded.        *)
FairSpec == /\ Spec
            /\ WF_vars(Link)
            /\ WF_vars(ServerTakes)
            /\ WF_vars(onDataMessage)

-----------------------------------------------------------------------------
TypeOK == /\ state \in {"Disconnected", "GettingToken", "Connecting", "Authenticating", "Connected"}
          /\ interrupts \subseteq Reasons
          /\ retry \in {"none", "plain", "force"}
          /\ realtime \in {"none", "connecting", "connected"}
          /\ Outstanding \subseteq 1..putCounter /\ \A i \in Outstanding : puts[i] \in Put
          /\ unacked \in Nat /\ putCounter \in 0..MaxPuts
          /\ token \in 0..issued /\ refused \in 0..revoked /\ revoked \in 0..issued

(* What the assertions of FPersistentConnection.m and the exception of        *)
(* FConnection.sendData rely on, through every order of timers, token         *)
(* answers, interruptions and lost sockets: a retry is scheduled only while   *)
(* disconnected, there is a connection exactly in the last three states, and  *)
(* it is past the handshake exactly when requests are sent.                   *)
OneConnection == /\ retry # "none" => state = "Disconnected"
                 /\ (realtime # "none") <=> state \in {"Connecting", "Authenticating", "Connected"}
                 /\ (realtime = "connected") <=> connected
                 /\ ~connected => wire = <<>>

(* interruptForReason: while there is a reason to stay offline there is no    *)
(* connection, none is being made, and a fetch that ends late opens none.     *)
InterruptedMeansOffline == interrupts # {} => /\ realtime = "none" /\ retry = "none"
                                              /\ state = "Disconnected"

Listening(w) == {i \in 1..Len(w) : w[i].kind = "listen"}

(* unackedListensCount counts the listens on this connection that are not     *)
(* answered, be they still wanted or not: so it never becomes negative, and   *)
(* reaches zero, which releases the answers held back.                        *)
CountsListens == unacked = Cardinality(Listening(wire))

(* A write completes once: not again when it is resent, purged or answered    *)
(* late.                                                                      *)
CompletesOnce == \A k, l \in 1..Len(reports) : reports[k].put = reports[l].put => k = l

(* No change of connection loses a write: until its completion it is          *)
(* outstanding or its answer is held back.                                    *)
NoWriteForgotten == \A i \in 1..putCounter :
                       \/ i \in Outstanding
                       \/ \E k \in 1..Len(putsToAck) : putsToAck[k].put = i
                       \/ \E k \in 1..Len(reports) : reports[k].put = i

(* restoreState resends in the order of the writes: however often connections *)
(* were lost, the server is never left with a write that is older than one    *)
(* the application was told is committed.                                     *)
LastWriteWins == \A k \in 1..Len(reports) : reports[k].status = "ok" =>
                    applied # <<>> /\ reports[k].put <= applied[Len(applied)].put

(* cancelSentTransactions: the write of a transaction, which depends on the   *)
(* value it was computed from, is applied at most once.                       *)
TransactionsAppliedOnce == \A m, n \in 1..Len(applied) :
                              applied[m].hash /\ applied[m].put = applied[n].put => m = n

(* FIRDatabase.h: after purgeOutstandingWrites "the client will not (re-)send *)
(* them": a write reported as canceled is never outstanding again.            *)
PurgedStaysPurged == \A k \in 1..Len(reports) :
                        reports[k].status = "canceled" => reports[k].put \notin Outstanding
=============================================================================
