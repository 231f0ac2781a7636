--------------------------- MODULE BackgroundWork ---------------------------
(* leveldb, util/env_posix.cc: PosixEnv::Schedule and BackgroundThreadMain,    *)
(* the thread that compactions run in.  The queue is guarded by a mutex, and   *)
(* the thread waits on a condition variable when it is empty; Wait may return  *)
(* without a signal.  Schedule signals before it queues the item.              *)
EXTENDS Naturals, Sequences

CONSTANTS Threads,   \* that call Schedule; none is called "background" or "nobody"
          MaxWork    \* bound: items ever scheduled

VARIABLES mutex,     \* background_work_mutex_: its owner
          started,   \* started_background_thread_
          queue,     \* background_work_queue_
          pc,        \* thread -> where it is in Schedule
          worker,    \* where the background thread is
          running,   \* the item in its hand
          scheduled, \* number of items queued so far
          ran        \* items whose function was called, in order

vars == <<mutex, started, queue, pc, worker, running, scheduled, ran>>
work == <<running, scheduled, ran>>

Nobody == "nobody"
NoItem == 0

Init == /\ mutex = Nobody /\ started = FALSE /\ queue = <<>>
        /\ pc = [t \in Threads |-> "idle"] /\ worker = "none"
        /\ running = NoItem /\ scheduled = 0 /\ ran = <<>>

Go(t, from, to) == pc[t] = from /\ pc' = [pc EXCEPT ![t] = to]

Lock(t) == /\ mutex = Nobody /\ mutex' = t /\ Go(t, "idle", "start")
           /\ scheduled < MaxWork
           /\ UNCHANGED <<started, queue, worker, work>>

(* The first call starts the thread.                                           *)
StartOnce(t) == /\ Go(t, "start", "signal") /\ started' = TRUE
                /\ worker' = IF started THEN worker ELSE "awake"
                /\ UNCHANGED <<mutex, queue, work>>

(* "If the queue is empty, the background thread may be waiting for work."     *)
MayWait == queue = <<>>

(* Signal wakes a thread that waits; one that does not misses it.              *)
SignalEmpty(t) == /\ Go(t, "signal", "queue")
                  /\ worker' = IF MayWait /\ worker = "waiting" THEN "awake" ELSE worker
                  /\ UNCHANGED <<mutex, started, queue, work>>

Emplace(t) == /\ Go(t, "queue", "unlock") /\ scheduled' = scheduled + 1
              /\ queue' = Append(queue, scheduled + 1)
              /\ UNCHANGED <<mutex, started, worker, running, ran>>

Unlock(t) == /\ Go(t, "unlock", "idle") /\ mutex' = Nobody
             /\ UNCHANGED <<started, queue, worker, work>>

(* BackgroundThreadMain.                                                       *)
WorkerLock == /\ worker = "awake" /\ mutex = Nobody
              /\ worker' = "look" /\ mutex' = "background"
              /\ UNCHANGED <<started, queue, pc, work>>

(* Wait releases the mutex.                                                    *)
Wait == /\ worker = "look" /\ queue = <<>> /\ worker' = "waiting" /\ mutex' = Nobody
        /\ UNCHANGED <<started, queue, pc, work>>

(* Wait returns although nobody signalled.                                     *)
SpuriousWake == /\ worker = "waiting" /\ worker' = "awake"
                /\ UNCHANGED <<mutex, started, queue, pc, work>>

(* front, pop.                                                                 *)
PopFront == Tail(queue)

Take == /\ worker = "look" /\ queue # <<>>
        /\ running' = Head(queue) /\ queue' = PopFront
        /\ worker' = "busy" /\ mutex' = Nobody
        /\ UNCHANGED <<started, pc, scheduled, ran>>

(* background_work_function(background_work_arg) returns.                      *)
Finish == /\ worker = "busy" /\ worker' = "awake"
          /\ running' = NoItem /\ ran' = Append(ran, running)
          /\ UNCHANGED <<mutex, started, queue, pc, scheduled>>

Schedule(t) == Lock(t) \/ StartOnce(t) \/ SignalEmpty(t) \/ Emplace(t) \/ Unlock(t)
BackgroundThreadMain == WorkerLock \/ Wait \/ Take \/ Finish

Next == (\E t \in Threads : Schedule(t)) \/ BackgroundThreadMain \/ SpuriousWake

(* Threads run; the mutex is granted to the thread that keeps asking for it.   *)
GoesOn(t) == pc[t] # "idle" /\ Schedule(t)
WorkerGoesOn == Wait \/ Take \/ Finish

Fairness == /\ \A t \in Threads : WF_vars(GoesOn(t))
            /\ SF_vars(WorkerLock) /\ WF_vars(WorkerGoesOn)

Spec == Init /\ [][Next]_vars /\ Fairness
-----------------------------------------------------------------------------
InHand == IF running = NoItem THEN <<>> ELSE <<running>>

(* Every item is run once, and in the order the calls of Schedule took the     *)
(* mutex: none is lost, run twice or overtaken.                                *)
OnceInOrder == ran \o InHand \o queue = [i \in 1..scheduled |-> i]

(* The thread never sleeps on a queue that has work, unless the thread that    *)
(* queued it still has to wake it.                                             *)
NoLostWakeup == worker = "waiting" /\ mutex = Nobody => queue = <<>>

Due(n) == scheduled >= n
Done(n) == Len(ran) >= n
=============================================================================
