----------------------------- MODULE Threadpool -----------------------------
(***************************************************************************)
(* lib/misc/threadpool/threadpool.c: a pool of worker threads that runs    *)
(* tasks bound to a connection (wsi), and the single lws service thread    *)
(* that enqueues, syncs with, reaps and stops them.                        *)
(*                                                                         *)
(* Steps are as large as the locks allow.  A section under tp->lock is one *)
(* step, except the end of a worker's task: lws_threadpool_tsi_context()   *)
(* walks the lists without that lock and can see the middle of it.  What   *)
(* the code reads or writes without a lock is a step of its own.           *)
(*                                                                         *)
(* Each task is bound to a wsi of its own; wsi[t] says whether the task is *)
(* still attached to it.  Tasks bound to a Secure Stream are left out, and *)
(* so are spurious returns of the condition waits.                         *)
(***************************************************************************)
EXTENDS Integers, Sequences, FiniteSets

CONSTANTS Tasks,          \* the task objects that can be allocated
          Workers,        \* the threads in the pool
          NoTask,         \* the NULL task pointer
          MaxQueueDepth,  \* tp->max_queue_depth
          SyncTries       \* 15 in the code: waits of 2s before a SYNC gives up

ASSUME ConstantsAssumption ==
  /\ NoTask \notin Tasks
  /\ {"svc", "free"} \cap Workers = {}
  /\ MaxQueueDepth \in Nat
  /\ SyncTries \in Nat \ {0}

VARIABLES
  queue,       \* tp->task_queue_head, newest first
  done,        \* tp->task_done_head, newest first
  queue_depth, destroying,
  lock,        \* holder of tp->lock between steps: a worker, "svc" or "free"
  status, wsi, wanted_writeable_cb, outlive,  \* fields of a task
  cleanups,    \* times a task was cleaned up and freed
  pc, task, temp, tries,  \* of a worker: place, pool->task, sync locals
  svc,         \* the service thread
  pipe,        \* lws_cancel_service() is pending
  writable,    \* wsis waiting for a WRITEABLE callback
  stale        \* the service thread looked at a task after its free()

tpVars   == <<queue, done, queue_depth, destroying>>
taskVars == <<status, wsi, wanted_writeable_cb, outlive, cleanups>>
poolVars == <<pc, task, temp, tries>>
svcVars  == <<svc, pipe, writable, stale>>
vars == <<tpVars, lock, taskVars, poolVars, svcVars>>

Status == {"NONE", "QUEUED", "RUNNING", "SYNCING", "STOPPING", "FINISHED",
           "STOPPED"}

Ended  == {"FINISHED", "STOPPED"}

WorkerPC == {"acquire", "waiting", "call", "run", "loop", "sync0", "sync1",
             "sync2", "syncwait", "syncwoken", "finish", "moved", "exit"}

SvcPC == {"idle", "scan", "scantask", "scandone", "seen", "cb", "signal",
          "finish", "joining", "gone"}

Idle == [pc |-> "idle", task |-> NoTask, todo |-> {}]

Init ==
  /\ queue = <<>> /\ done = <<>> /\ queue_depth = 0 /\ destroying = FALSE
  /\ lock = "free"
  /\ status = [t \in Tasks |-> "NONE"]
  /\ wsi = [t \in Tasks |-> FALSE]
  /\ wanted_writeable_cb = [t \in Tasks |-> FALSE]
  /\ outlive = [t \in Tasks |-> FALSE]
  /\ cleanups = [t \in Tasks |-> 0]
  /\ pc = [w \in Workers |-> "acquire"]
  /\ task = [w \in Workers |-> NoTask]
  /\ temp = [w \in Workers |-> "NONE"]
  /\ tries = [w \in Workers |-> 0]
  /\ svc = Idle /\ pipe = FALSE /\ writable = {} /\ stale = FALSE

-----------------------------------------------------------------------------
(* Lists of tasks *)

On(t, list) == \E i \in DOMAIN list : list[i] = t

\* Mutant: the walk finds t but leaves it linked.
Unlink_Keeps(list, t) == list

\* Unlink the first occurrence of t, which is on the list.
Unlink(list, t) ==
  LET i == CHOOSE i \in DOMAIN list : list[i] = t
  IN  SubSeq(list, 1, i - 1) \o SubSeq(list, i + 1, Len(list))

\* Mutant: nobody is told.
NobodyTold == UNCHANGED pc

\* pthread_cond_signal(&tp->wake_idle) wakes one of the idle workers, if any.
SignalIdle ==
  \/ /\ \A w \in Workers : pc[w] # "waiting"
     /\ UNCHANGED pc
  \/ \E w \in Workers : /\ pc[w] = "waiting"
                        /\ pc' = [pc EXCEPT ![w] = "acquire"]

\* pthread_cond_broadcast(&tp->wake_idle)
Broadcast == pc' = [w \in Workers |->
                      IF pc[w] = "waiting" THEN "acquire" ELSE pc[w]]

\* The worker holds its pool->lock between the steps of a sync, not while it
\* is blocked in the timed wait.
PoolLocked(w) == pc[w] \in {"sync0", "sync1", "sync2"}

-----------------------------------------------------------------------------
(* The worker threads *)

\* Wait for a task under tp->lock, or leave because the pool goes away.
Acquire(w) ==
  /\ pc[w] = "acquire" /\ lock = "free"
  /\ \/ /\ destroying
        /\ pc' = [pc EXCEPT ![w] = "exit"]
        /\ task' = [task EXCEPT ![w] = NoTask]
        /\ UNCHANGED <<queue, queue_depth, status, wanted_writeable_cb>>
     \/ /\ ~destroying /\ queue = <<>>
        /\ pc' = [pc EXCEPT ![w] = "waiting"]
        /\ UNCHANGED <<queue, queue_depth, status, wanted_writeable_cb, task>>
     \/ /\ ~destroying /\ queue # <<>>
        /\ LET t == queue[Len(queue)]
           IN  /\ task' = [task EXCEPT ![w] = t]
               /\ queue' = SubSeq(queue, 1, Len(queue) - 1)
               /\ queue_depth' = queue_depth - 1
               /\ status' = [status EXCEPT ![t] = "RUNNING"]
               /\ wanted_writeable_cb' = [wanted_writeable_cb EXCEPT ![t] = FALSE]
        /\ pc' = [pc EXCEPT ![w] = "call"]
  /\ UNCHANGED <<done, destroying, lock, wsi, outlive, cleanups,
                 temp, tries, svcVars>>

\* Enter the task function, told STOPPING when there is no point going on.
CallTask(w) ==
  LET t == task[w] IN
  /\ pc[w] = "call"
  /\ status' = IF destroying \/ ~wsi[t]
                 THEN [status EXCEPT ![t] = "STOPPING"] ELSE status
  /\ pc' = [pc EXCEPT ![w] = "run"]
  /\ UNCHANGED <<tpVars, lock, wsi, wanted_writeable_cb, outlive, cleanups,
                 task, temp, tries, svcVars>>

\* The task function comes back with LWS_TP_RETURN_CHECKING_IN or _SYNC,
\* perhaps with LWS_TP_RETURN_FLAG_OUTLIVE.
TaskGoesOn(w) ==
  LET t == task[w] IN
  /\ pc[w] = "run"
  /\ \E flag \in BOOLEAN : outlive' = [outlive EXCEPT ![t] = @ \/ flag]
  /\ \/ /\ pc' = [pc EXCEPT ![w] = "loop"]
        /\ UNCHANGED <<temp, tries>>
     \/ /\ wsi[t]
        /\ pc' = [pc EXCEPT ![w] = "sync0"]
        /\ temp' = [temp EXCEPT ![w] = status[t]]
        /\ tries' = [tries EXCEPT ![w] = SyncTries]
  /\ UNCHANGED <<tpVars, lock, status, wsi, wanted_writeable_cb, cleanups,
                 task, svcVars>>

\* ... or with _FINISHED or _STOPPED.
TaskEnds(w) ==
  /\ pc[w] = "run"
  /\ \E s \in Ended : status' = [status EXCEPT ![task[w]] = s]
  /\ pc' = [pc EXCEPT ![w] = "finish"]
  /\ UNCHANGED <<tpVars, lock, wsi, wanted_writeable_cb, outlive, cleanups,
                 task, temp, tries, svcVars>>

\* while (task->status == LWS_TP_STATUS_RUNNING)
LoopTest(w) ==
  /\ pc[w] = "loop"
  /\ pc' = [pc EXCEPT ![w] = IF status[task[w]] = "RUNNING"
                               THEN "call" ELSE "finish"]
  /\ UNCHANGED <<tpVars, lock, taskVars, task, temp, tries, svcVars>>

\* lws_threadpool_worker_sync() saved the status in temp; now it sets its own.
SyncEnter(w) ==
  /\ pc[w] = "sync0"
  /\ status' = [status EXCEPT ![task[w]] = "SYNCING"]
  /\ pc' = [pc EXCEPT ![w] = "sync1"]
  /\ UNCHANGED <<tpVars, lock, wsi, wanted_writeable_cb, outlive, cleanups,
                 task, temp, tries, svcVars>>

\* return from lws_threadpool_worker_sync(): its locals are gone
SyncLeave(w) ==
  /\ pc' = [pc EXCEPT ![w] = "loop"]
  /\ temp' = [temp EXCEPT ![w] = "NONE"]
  /\ tries' = [tries EXCEPT ![w] = 0]

\* One try: ask the service thread for a WRITEABLE callback.
SyncTry(w) ==
  LET t == task[w] IN
  /\ pc[w] = "sync1"
  /\ \/ /\ ~wsi[t]
        /\ status' = [status EXCEPT ![t] = "STOPPING"]
        /\ SyncLeave(w)
        /\ UNCHANGED <<wanted_writeable_cb, pipe>>
     \/ /\ wsi[t]
        /\ wanted_writeable_cb' = [wanted_writeable_cb EXCEPT ![t] = TRUE]
        /\ pipe' = TRUE
        /\ tries' = [tries EXCEPT ![w] = @ - 1]
        /\ pc' = [pc EXCEPT ![w] = "sync2"]
        /\ UNCHANGED <<status, temp>>
  /\ UNCHANGED <<tpVars, lock, wsi, outlive, cleanups, task, svc, writable,
                 stale>>

\* pthread_cond_timedwait() blocks and releases pool->lock.
SyncBlock(w) ==
  /\ pc[w] = "sync2"
  /\ pc' = [pc EXCEPT ![w] = "syncwait"]
  /\ UNCHANGED <<tpVars, lock, taskVars, task, temp, tries, svcVars>>

\* Mutant: the test is off by one.
LastTry_Late(w) == tries[w] < 0

\* The try just made was the last.
LastTry(w) == tries[w] = 0

\* Mutant: the wait has no timeout.
SyncTimeout_None(w) == FALSE /\ UNCHANGED vars

\* ... and returns ETIMEDOUT: try again, or stop the task on the last try.
SyncTimeout(w) ==
  /\ pc[w] = "syncwait"
  /\ \/ /\ LastTry(w)
        /\ status' = [status EXCEPT ![task[w]] = "STOPPING"]
        /\ SyncLeave(w)
     \/ /\ ~LastTry(w)
        /\ pc' = [pc EXCEPT ![w] = "sync1"]
        /\ UNCHANGED <<status, temp, tries>>
  /\ UNCHANGED <<tpVars, lock, wsi, wanted_writeable_cb, outlive, cleanups,
                 task, svcVars>>

\* ... or returns because lws_threadpool_task_sync() signalled it.
SyncResume(w) ==
  /\ pc[w] = "syncwoken"
  /\ status' = IF status[task[w]] = "SYNCING"
                 THEN [status EXCEPT ![task[w]] = temp[w]] ELSE status
  /\ SyncLeave(w)
  /\ UNCHANGED <<tpVars, lock, wsi, wanted_writeable_cb, outlive, cleanups,
                 task, svcVars>>

\* Take tp->lock and put the task on the done list.
MoveToDone(w) ==
  LET t == task[w] IN
  /\ pc[w] = "finish" /\ lock = "free"
  /\ lock' = w
  /\ status' = IF status[t] = "STOPPING"
                 THEN [status EXCEPT ![t] = "STOPPED"] ELSE status
  /\ done' = <<t>> \o done
  /\ pc' = [pc EXCEPT ![w] = "moved"]
  /\ UNCHANGED <<queue, queue_depth, destroying, wsi, wanted_writeable_cb,
                 outlive, cleanups, task, temp, tries, svcVars>>

\* Mutant: reaping is always left to the service thread.
SelfReaps_Never(t) == FALSE

\* Nobody is left to reap the task but its worker.
SelfReaps(t) == ~wsi[t] /\ status[t] \in Ended

\* Reap the task here if its wsi is gone, else ask for a WRITEABLE callback
\* in which the service thread finds out; release tp->lock.
LeaveTask(w) ==
  LET t == task[w] IN
  /\ pc[w] = "moved"
  /\ \/ /\ SelfReaps(t)
        /\ done' = Unlink(done, t)
        /\ cleanups' = [cleanups EXCEPT ![t] = @ + 1]
        /\ UNCHANGED <<wanted_writeable_cb, pipe>>
     \/ /\ ~SelfReaps(t)
        /\ wanted_writeable_cb' = [wanted_writeable_cb EXCEPT ![t] = @ \/ wsi[t]]
        /\ pipe' = (pipe \/ wsi[t])
        /\ UNCHANGED <<done, cleanups>>
  /\ task' = [task EXCEPT ![w] = NoTask]
  /\ lock' = "free"
  /\ pc' = [pc EXCEPT ![w] = "acquire"]
  /\ UNCHANGED <<queue, queue_depth, destroying, status, wsi, outlive, temp,
                 tries, svc, writable, stale>>

Worker(w) ==
  \/ Acquire(w) \/ CallTask(w) \/ TaskGoesOn(w) \/ TaskEnds(w) \/ LoopTest(w)
  \/ SyncEnter(w) \/ SyncTry(w) \/ SyncBlock(w) \/ SyncTimeout(w)
  \/ SyncResume(w) \/ MoveToDone(w) \/ LeaveTask(w)

-----------------------------------------------------------------------------
(* The service thread: calls of the api from callbacks *)

\* lws_threadpool_enqueue(): refused when the queue is full or the pool is
\* going away; one idle worker is signalled.
lws_threadpool_enqueue(t) ==
  /\ svc = Idle /\ ~destroying /\ lock = "free"
  /\ status[t] = "NONE" /\ queue_depth # MaxQueueDepth
  /\ queue' = <<t>> \o queue
  /\ queue_depth' = queue_depth + 1
  /\ status' = [status EXCEPT ![t] = "QUEUED"]
  /\ wsi' = [wsi EXCEPT ![t] = TRUE]
  /\ SignalIdle
  /\ UNCHANGED <<done, destroying, lock, wanted_writeable_cb, outlive,
                 cleanups, task, temp, tries, svcVars>>

\* A task that wished to outlive its wsi is only detached.
DequeueOutlive(t) ==
  /\ outlive[t] /\ ~destroying
  /\ UNCHANGED <<queue, queue_depth, done, status, cleanups>>

\* Mutant: the depth of the queue is not corrected.
DequeueQueued_DepthKept(t) ==
  /\ ~(outlive[t] /\ ~destroying) /\ On(t, queue)
  /\ queue' = Unlink(queue, t)
  /\ status' = [status EXCEPT ![t] = "STOPPED"]
  /\ cleanups' = [cleanups EXCEPT ![t] = @ + 1]
  /\ UNCHANGED <<queue_depth, done>>

\* A queued task goes to the done list and is then found there and freed.
DequeueQueued(t) ==
  /\ ~(outlive[t] /\ ~destroying) /\ On(t, queue)
  /\ queue' = Unlink(queue, t)
  /\ queue_depth' = queue_depth - 1
  /\ status' = [status EXCEPT ![t] = "STOPPED"]
  /\ cleanups' = [cleanups EXCEPT ![t] = @ + 1]
  /\ UNCHANGED done

DequeueDone(t) ==
  /\ ~(outlive[t] /\ ~destroying) /\ On(t, done)
  /\ done' = Unlink(done, t)
  /\ cleanups' = [cleanups EXCEPT ![t] = @ + 1]
  /\ UNCHANGED <<queue, queue_depth, status>>

\* A running task is asked to stop, under the pool->lock of its worker.
DequeueRunning(t) ==
  /\ ~(outlive[t] /\ ~destroying) /\ ~On(t, queue) /\ ~On(t, done)
  /\ \A w \in Workers : task[w] = t => ~PoolLocked(w)
  /\ status' = IF \E w \in Workers : task[w] = t
                 THEN [status EXCEPT ![t] = "STOPPING"] ELSE status
  /\ UNCHANGED <<queue, queue_depth, done, cleanups>>

\* The wsi closes and its protocol calls lws_threadpool_dequeue_task().
lws_threadpool_dequeue_task(t) ==
  /\ svc = Idle /\ lock = "free" /\ wsi[t] /\ cleanups[t] = 0
  /\ writable' = writable \ {t}
  /\ wsi' = [wsi EXCEPT ![t] = FALSE]
  /\ \/ DequeueOutlive(t) \/ DequeueQueued(t) \/ DequeueDone(t)
     \/ DequeueRunning(t)
  /\ UNCHANGED <<destroying, lock, wanted_writeable_cb, outlive, poolVars,
                 svc, pipe, stale>>

\* The service thread asks for a WRITEABLE callback for a task found by
\* lws_threadpool_tsi_context(); what it finds in freed memory is arbitrary,
\* here it gives up the walk.
AskWritable(t) ==
  LET want == cleanups[t] = 0 /\ wsi[t] /\ wanted_writeable_cb[t]
  IN  /\ stale' = (stale \/ cleanups[t] > 0)
      /\ wanted_writeable_cb' = [wanted_writeable_cb EXCEPT ![t] = @ /\ ~want]
      /\ writable' = IF want THEN writable \cup {t} ELSE writable

\* The pipe wakes the event loop, which calls lws_threadpool_tsi_context().
ScanStart ==
  /\ svc = Idle /\ pipe
  /\ pipe' = FALSE
  /\ svc' = [Idle EXCEPT !.pc = "scan", !.todo = Workers]
  /\ UNCHANGED <<tpVars, lock, taskVars, poolVars, writable, stale>>

\* task = pool->task, read without tp->lock.
ScanPool ==
  /\ svc.pc = "scan"
  /\ \E w \in svc.todo :
       svc' = [svc EXCEPT !.todo = @ \ {w}, !.task = task[w],
                          !.pc = IF task[w] = NoTask THEN "scan" ELSE "scantask"]
  /\ UNCHANGED <<tpVars, lock, taskVars, poolVars, pipe, writable, stale>>

ScanPoolTask ==
  /\ svc.pc = "scantask"
  /\ AskWritable(svc.task)
  /\ svc' = [svc EXCEPT !.pc = "scan", !.task = NoTask]
  /\ UNCHANGED <<tpVars, lock, status, wsi, outlive, cleanups,
                 poolVars, pipe>>

\* Then c = &tp->task_done_head ...
ScanDoneHead ==
  /\ svc.pc = "scan" /\ svc.todo = {}
  /\ svc' = IF done = <<>> THEN Idle
                           ELSE [svc EXCEPT !.pc = "scandone", !.task = done[1]]
  /\ UNCHANGED <<tpVars, lock, taskVars, poolVars, pipe, writable, stale>>

\* ... and on to c = &task->task_queue_next.
ScanDoneTask ==
  LET t == svc.task
      next == {i \in DOMAIN done : i > 1 /\ done[i - 1] = t}
  IN
  /\ svc.pc = "scandone"
  /\ AskWritable(t)
  /\ svc' = IF next = {} THEN Idle
                         ELSE [svc EXCEPT !.task = done[CHOOSE i \in next : TRUE]]
  /\ UNCHANGED <<tpVars, lock, status, wsi, outlive, cleanups,
                 poolVars, pipe>>

\* The WRITEABLE callback calls lws_threadpool_task_status(), which first
\* reads the status without a lock.
lws_threadpool_task_status(t) ==
  /\ svc = Idle /\ t \in writable
  /\ writable' = writable \ {t}
  /\ svc' = IF ~wsi[t] \/ cleanups[t] > 0 THEN Idle
            ELSE IF status[t] \in Ended
              THEN [Idle EXCEPT !.pc = "seen", !.task = t]
            ELSE IF status[t] = "SYNCING"
              THEN [Idle EXCEPT !.pc = "cb", !.task = t]
            ELSE Idle
  /\ UNCHANGED <<tpVars, lock, taskVars, poolVars, pipe, stale>>

\* __lws_threadpool_reap(): nothing happens to a task that has ended but is
\* not on the done list yet.
__lws_threadpool_reap ==
  LET t == svc.task IN
  /\ svc.pc = "seen" /\ lock = "free"
  /\ \/ /\ On(t, done)
        /\ done' = Unlink(done, t)
        /\ cleanups' = [cleanups EXCEPT ![t] = @ + 1]
     \/ /\ ~On(t, done)
        /\ UNCHANGED <<done, cleanups>>
  /\ svc' = Idle
  /\ UNCHANGED <<queue, queue_depth, destroying, lock, status, wsi,
                 wanted_writeable_cb, outlive, poolVars, pipe,
                 writable, stale>>

\* The callback for a syncing task used its data and calls
\* lws_threadpool_task_sync(task, stop).
lws_threadpool_task_sync(stop) ==
  /\ svc.pc = "cb"
  /\ status' = IF stop THEN [status EXCEPT ![svc.task] = "STOPPING"] ELSE status
  /\ svc' = [svc EXCEPT !.pc = "signal"]
  /\ UNCHANGED <<tpVars, lock, wsi, wanted_writeable_cb, outlive, cleanups,
                 poolVars, pipe, writable, stale>>

\* ... which signals the task's condition under tp->lock: a worker not yet
\* blocked on it hears nothing.
SignalTask ==
  /\ svc.pc = "signal" /\ lock = "free"
  /\ pc' = [w \in Workers |-> IF pc[w] = "syncwait" /\ task[w] = svc.task
                                THEN "syncwoken" ELSE pc[w]]
  /\ svc' = Idle
  /\ UNCHANGED <<tpVars, lock, taskVars, task, temp, tries, pipe, writable,
                 stale>>

\* lws_threadpool_finish(): nothing new starts.
lws_threadpool_finish ==
  /\ svc = Idle /\ ~destroying /\ lock = "free"
  /\ destroying' = TRUE
  /\ \/ /\ queue = <<>>
        /\ Broadcast
        /\ UNCHANGED <<queue, done, queue_depth, status, lock, svc>>
     \/ /\ queue # <<>>
        /\ queue' = Tail(queue)
        /\ done' = <<Head(queue)>> \o done
        /\ status' = [status EXCEPT ![Head(queue)] = "STOPPED"]
        /\ queue_depth' = queue_depth - 1
        /\ lock' = "svc"
        /\ svc' = [Idle EXCEPT !.pc = "finish"]
        /\ UNCHANGED pc
  /\ UNCHANGED <<wsi, wanted_writeable_cb, outlive, cleanups, task,
                 temp, tries, pipe, writable, stale>>

\* c = &task->task_queue_next: the loop that moves the queue goes on behind
\* the task it moved to the head of the done list.  Saturating queue_depth
\* (nothing reads it once destroying is set) keeps the model finite.
FinishLoop ==
  /\ svc.pc = "finish"
  /\ \/ /\ Len(done) = 1
        /\ lock' = "free" /\ svc' = Idle
        /\ Broadcast
        /\ UNCHANGED <<done, status, queue_depth>>
     \/ /\ Len(done) > 1
        /\ done' = <<done[2], done[1]>> \o SubSeq(done, 3, Len(done))
        /\ status' = [status EXCEPT ![done[2]] = "STOPPED"]
        /\ queue_depth' = IF queue_depth > 0 - Cardinality(Tasks)
                            THEN queue_depth - 1 ELSE queue_depth
        /\ UNCHANGED <<lock, svc, pc>>
  /\ UNCHANGED <<queue, destroying, wsi, wanted_writeable_cb, outlive,
                 cleanups, task, temp, tries, pipe, writable, stale>>

\* lws_threadpool_destroy(), after lws_threadpool_finish() as the README asks.
lws_threadpool_destroy ==
  /\ svc = Idle /\ destroying /\ lock = "free"
  /\ svc' = [Idle EXCEPT !.pc = "joining"]
  /\ Broadcast
  /\ UNCHANGED <<tpVars, lock, taskVars, task, temp, tries, pipe, writable,
                 stale>>

\* pthread_join() of every worker, then the done list is cleaned up.
Joined ==
  /\ svc.pc = "joining" /\ \A w \in Workers : pc[w] = "exit"
  /\ svc' = [Idle EXCEPT !.pc = "gone"]
  /\ cleanups' = [t \in Tasks |-> IF On(t, done) THEN cleanups[t] + 1
                                                 ELSE cleanups[t]]
  /\ done' = <<>>
  /\ UNCHANGED <<queue, queue_depth, destroying, lock, status, wsi,
                 wanted_writeable_cb, outlive, poolVars, pipe,
                 writable, stale>>

Gone == svc.pc = "gone" /\ UNCHANGED vars

Scan == ScanStart \/ ScanPool \/ ScanPoolTask \/ ScanDoneHead \/ ScanDoneTask

Next ==
  \/ \E w \in Workers : Worker(w)
  \/ \E t \in Tasks : \/ lws_threadpool_enqueue(t)
                      \/ lws_threadpool_dequeue_task(t)
                      \/ lws_threadpool_task_status(t)
  \/ Scan \/ __lws_threadpool_reap
  \/ \E stop \in BOOLEAN : lws_threadpool_task_sync(stop)
  \/ SignalTask
  \/ lws_threadpool_finish \/ FinishLoop \/ lws_threadpool_destroy \/ Joined
  \/ Gone

\* Threads are scheduled, task functions return and end some time, timers
\* expire, and the service thread goes on with what it started.
Fairness ==
  /\ \A w \in Workers : WF_vars(Worker(w)) /\ SF_vars(TaskEnds(w))
  /\ WF_vars(Scan)
  /\ \A t \in Tasks : WF_vars(lws_threadpool_task_status(t))
  /\ WF_vars(__lws_threadpool_reap)
  /\ WF_vars(\E stop \in BOOLEAN : lws_threadpool_task_sync(stop))
  /\ WF_vars(SignalTask) /\ WF_vars(FinishLoop) /\ WF_vars(Joined)

Spec == Init /\ [][Next]_vars
FairSpec == Spec /\ Fairness

-----------------------------------------------------------------------------
(* Properties *)

TypeOK ==
  /\ queue \in Seq(Tasks) /\ done \in Seq(Tasks)
  /\ queue_depth \in Int /\ destroying \in BOOLEAN
  /\ lock \in Workers \cup {"svc", "free"}
  /\ status \in [Tasks -> Status]
  /\ wsi \in [Tasks -> BOOLEAN]
  /\ wanted_writeable_cb \in [Tasks -> BOOLEAN]
  /\ outlive \in [Tasks -> BOOLEAN]
  /\ cleanups \in [Tasks -> Nat]
  /\ pc \in [Workers -> WorkerPC]
  /\ task \in [Workers -> Tasks \cup {NoTask}]
  /\ temp \in [Workers -> Status]
  /\ tries \in [Workers -> Nat]
  /\ svc \in [pc : SvcPC, task : Tasks \cup {NoTask}, todo : SUBSET Workers]
  /\ pipe \in BOOLEAN /\ writable \subseteq Tasks /\ stale \in BOOLEAN

Allocated(t) == status[t] # "NONE" /\ cleanups[t] = 0
HeldBy(t, w) == task[w] = t /\ pc[w] # "moved"
NoDuplicates(list) ==
  \A i, j \in DOMAIN list : list[i] = list[j] => i = j

\* Every task that is allocated and not yet freed is in exactly one place: on
\* the queue, on the done list or in the hands of one worker; a freed task is
\* in none, and is cleaned up only once.  The two lists and pool->task are
\* edited by the worker, dequeue, reap, finish and destroy code separately.
Placement ==
  /\ NoDuplicates(queue) /\ NoDuplicates(done)
  /\ \A t \in Tasks :
       /\ cleanups[t] \in {0, 1} /\ (status[t] = "NONE" => cleanups[t] = 0)
       /\ Allocated(t) <=> \/ On(t, queue) \/ On(t, done)
                           \/ \E w \in Workers : HeldBy(t, w)
       /\ ~(On(t, queue) /\ On(t, done))
       /\ \A w \in Workers :
            HeldBy(t, w) => /\ ~On(t, queue) /\ ~On(t, done)
                            /\ \A v \in Workers : HeldBy(t, v) => v = w

\* Until the pool is being torn down, queue_depth, which decides whether a
\* task is refused, is the length of the list and never passes its limit.
QueueDepthExact ==
  ~destroying => queue_depth = Len(queue) /\ Len(queue) <= MaxQueueDepth

\* A sync always comes to an end, by a signal or by running out of tries,
\* although a signal may come before the worker is blocked and be lost.
SyncEnds ==
  \A w \in Workers : (pc[w] \in {"sync0", "sync1", "sync2", "syncwait",
                                   "syncwoken"}) ~> (pc[w] = "loop")

\* lws_threadpool_finish() is caught in its loop, with tp->lock held.
FinishSpins == svc.pc = "finish"

\* A task on the queue is taken by a worker or dequeued, unless the pool is
\* being torn down: the signal of enqueue is not missed by an idle worker.
QueuedTaskStarts ==
  \A t \in Tasks : On(t, queue) ~> (~On(t, queue) \/ destroying)

\* A task detached from its wsi while a worker has it is reaped by the worker.
DetachedIsReaped ==
  \A w \in Workers, t \in Tasks :
    (task[w] = t /\ ~wsi[t]) ~> (cleanups[t] = 1 \/ FinishSpins)

\* A task that ended with its wsi still there is reaped: the request for a
\* WRITEABLE callback gets from the worker to the service thread in the end
\* even if an earlier one already made it look, too soon, at the status.  One
\* that asked to outlive its wsi is not, when it is dequeued from the done
\* list: that only detaches it and the status is not asked for again.  (A
\* walk of the done list that meets a task being freed can miss the others.)
EndedIsReaped ==
  \A t \in Tasks :
    (On(t, done) /\ wsi[t] /\ status[t] \in Ended)
      ~> (\/ cleanups[t] = 1
          \/ outlive[t] /\ ~wsi[t]
          \/ status[t] \notin Ended \/ destroying \/ stale)

\* lws_threadpool_destroy() returns: every worker leaves, even one that is
\* blocked waiting for the very service thread that is waiting for it.
DestroyReturns == (svc.pc = "joining") ~> (svc.pc = "gone")

\* A task that lost its wsi in the hands of a worker, and one that ended with its
\* wsi still there, are reaped before the pool is destroyed: by the worker, by the
\* service thread that asks for the status, or by a dequeue.  What is left behind
\* until then is a task that ended, asked to outlive its wsi and was then dequeued.
TasksAreReaped == DetachedIsReaped /\ EndedIsReaped
=============================================================================
