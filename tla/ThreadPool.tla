----------------------------- MODULE ThreadPool -----------------------------
(***************************************************************************)
(* server_src_so/ThreadPool.c with the queue (Queue.c) and the threads     *)
(* (StdThread.c) it is built on: worker threads that wait for tasks, a     *)
(* manager that grows and shrinks the pool, callers of Threadp_AddTask,    *)
(* and one caller of DestoryThreadPool.                                    *)
(*                                                                         *)
(* A step is the code between two points at which another thread can tell  *)
(* the difference. What runs under pool_mutex is one step, except where it *)
(* touches busy_thrd_num or shutdown, which others read and write without  *)
(* that mutex, and except the moment between testing the condition and     *)
(* sleeping on it.                                                         *)
(***************************************************************************)
EXTENDS Integers, Sequences, FiniteSets

CONSTANTS Threads,         \* thread identities; as many as max_thrd_num
          Producers,       \* threads that call Threadp_AddTask
          min_thrd_num,
          max_queue_size,
          MaxTasks,        \* bound: tasks accepted in one behaviour
          MayDestroy,      \* whether DestoryThreadPool is ever called
          Manager, Nobody  \* the other values of pool_mutex

ASSUME ThreadPoolAssumption ==
  /\ IsFiniteSet(Threads) /\ Threads # {}
  /\ min_thrd_num \in Nat
  /\ max_queue_size \in Nat \ {0}
  /\ MaxTasks \in Nat
  /\ MayDestroy \in BOOLEAN
  /\ Manager \notin Threads /\ Nobody \notin Threads /\ Manager # Nobody

max_thrd_num == Cardinality(Threads)

VARIABLES
  task_queue,       \* tasks are numbered in the order they are accepted
  accepted,         \* how many tasks have been accepted
  threads,          \* the linked list of threads, as the set of its elements
  busy_thrd_num,
  exit_thread_num,
  pool_mutex,       \* the thread that holds it between two steps
  shutdown,
  pc,               \* where each worker is
  tk,               \* the task each worker holds, 0 for none
  caller,           \* where each producer is
  mgr,              \* where the manager is
  rounds,           \* broadcasts the manager still owes its leavers
  dst,              \* where DestoryThreadPool is
  owed,             \* broadcasts DestoryThreadPool still has to make
  travelPoint,      \* the node DestoryThreadPool stands on
  joined            \* the nodes it has left behind

queueVars   == <<task_queue, accepted>>
managerVars == <<mgr, rounds>>
destroyVars == <<dst, owed, travelPoint, joined>>
vars == <<task_queue, accepted, threads, busy_thrd_num, exit_thread_num,
          pool_mutex, shutdown, pc, tk, caller, mgr, rounds,
          dst, owed, travelPoint, joined>>

WorkerStates == {"absent",   \* no such thread, or it left the pool
                 "lock",     \* wants pool_mutex, line 75
                 "toWait",   \* found nothing to do, holds pool_mutex, line 78
                 "waiting",  \* asleep on queue_not_empty
                 "woken",    \* woken up, wants pool_mutex back, line 78
                 "popped",   \* has a task, line 110
                 "counting", \* about to count itself busy, line 112
                 "running",  \* inside the task's function, line 116
                 "leaving",  \* off the list, holds pool_mutex, line 91
                 "exited"}   \* left through the shutdown test, line 104

CallerStates == {"idle",     \* not inside Threadp_AddTask
                 "calling",  \* wants pool_mutex, line 207 or woken at 210
                 "full"}     \* asleep on queue_not_full, line 210

ManagerStates == {"test",    \* line 129
                  "asleep",  \* line 131
                  "trim",    \* holds pool_mutex, line 149
                  "shed",    \* holds pool_mutex, line 153
                  "wake",    \* line 158
                  "exited"}

DestroyStates == {"none", "joinAdmin", "broadcast", "walk", "drain",
                  "destroyed",
                  "crashed"} \* the process died of a freed list

Init ==
  /\ task_queue = <<>> /\ accepted = 0
  /\ threads = Threads
  /\ busy_thrd_num = 0 /\ exit_thread_num = 0
  /\ pool_mutex = Nobody /\ shutdown = FALSE
  /\ pc = [w \in Threads |-> "lock"]
  /\ tk = [w \in Threads |-> 0]
  /\ caller = [p \in Producers |-> "idle"]
  /\ mgr = "test" /\ rounds = 0
  /\ dst = "none" /\ owed = 0 /\ travelPoint = Nobody /\ joined = {}
-----------------------------------------------------------------------------
(* Helpers *)

\* Operators named Faulty... are plausible bugs of the operator that follows
\* them. No specification uses them.

FaultyNotEmptyBroadcast(pcs) == pcs

\* pthread_cond_broadcast(&queue_not_empty)
NotEmptyBroadcast(pcs) ==
  [w \in Threads |-> IF pcs[w] = "waiting" THEN "woken" ELSE pcs[w]]

FaultyNotFullBroadcast(callers) == callers

\* pthread_cond_broadcast(&queue_not_full)
NotFullBroadcast(callers) ==
  [p \in Producers |-> IF callers[p] = "full" THEN "calling" ELSE callers[p]]

AtMost(a, b) == IF a > b THEN b ELSE a

\* Lines 138-141: how many threads to add to n, with len tasks queued.
Growth(len, n, busy) ==
  IF busy < len /\ n < max_thrd_num
  THEN AtMost(len \div 2, max_thrd_num - n)
  ELSE 0

\* A third of the idle threads: the last idle one never goes.
FaultyLeavers(n, busy) == AtMost((n - busy) \div 3, n - min_thrd_num)

\* Lines 153-154: how many of n threads are asked to leave.
Leavers(n, busy) == AtMost((n - busy) \div 2, n - min_thrd_num)
-----------------------------------------------------------------------------
(* thread_worker *)

\* Lines 76-78 with pool_mutex held: there is nothing to do, sleep.
FindNothing(w) ==
  /\ task_queue = <<>> /\ ~shutdown
  /\ pc' = [pc EXCEPT ![w] = "toWait"]
  /\ pool_mutex' = w
  /\ UNCHANGED <<task_queue, tk>>

\* Lines 101-105: the pool is shutting down.
FindShutdown(w) ==
  /\ shutdown
  /\ pc' = [pc EXCEPT ![w] = "exited"]
  /\ UNCHANGED <<task_queue, tk, pool_mutex>>

\* The task is read and left in the queue.
FaultyFindTask(w) ==
  /\ task_queue # <<>> /\ ~shutdown
  /\ tk' = [tk EXCEPT ![w] = Head(task_queue)]
  /\ pc' = [pc EXCEPT ![w] = "popped"]
  /\ UNCHANGED <<task_queue, pool_mutex>>

\* Lines 106-108: take the oldest task.
FindTask(w) ==
  /\ task_queue # <<>> /\ ~shutdown
  /\ tk' = [tk EXCEPT ![w] = Head(task_queue)]
  /\ task_queue' = Tail(task_queue)
  /\ pc' = [pc EXCEPT ![w] = "popped"]
  /\ UNCHANGED pool_mutex

LookForWork(w) ==
  /\ pool_mutex = Nobody
  /\ FindNothing(w) \/ FindShutdown(w) \/ FindTask(w)
  /\ UNCHANGED <<accepted, threads, busy_thrd_num, exit_thread_num, shutdown,
                 caller, managerVars, destroyVars>>

WorkerLock(w) == pc[w] = "lock" /\ LookForWork(w)

\* pthread_cond_wait releases pool_mutex and sleeps, in one step.
WorkerSleep(w) ==
  /\ pc[w] = "toWait"
  /\ pc' = [pc EXCEPT ![w] = "waiting"]
  /\ pool_mutex' = Nobody
  /\ UNCHANGED <<queueVars, threads, busy_thrd_num, exit_thread_num, shutdown,
                 tk, caller, managerVars, destroyVars>>

\* POSIX lets pthread_cond_wait return without a signal.
SpuriousWakeup(w) ==
  /\ pc[w] = "waiting"
  /\ pc' = [pc EXCEPT ![w] = "woken"]
  /\ UNCHANGED <<queueVars, threads, busy_thrd_num, exit_thread_num,
                 pool_mutex, shutdown, tk, caller, managerVars, destroyVars>>

\* Lines 80-98: nobody has to leave, go round the loop.
WorkerStay(w) ==
  /\ pc[w] = "woken"
  /\ exit_thread_num = 0
  /\ LookForWork(w)

\* The test of line 80 off by one.
FaultyWorkerLeave(w) ==
  /\ pc[w] = "woken"
  /\ pool_mutex = Nobody
  /\ exit_thread_num >= 0
  /\ exit_thread_num' = exit_thread_num - 1
  /\ threads' = threads \ {w}
  /\ pc' = [pc EXCEPT ![w] = "leaving"]
  /\ pool_mutex' = w
  /\ UNCHANGED <<queueVars, busy_thrd_num, shutdown, tk, caller, managerVars,
                 destroyVars>>

\* Lines 80-91: this worker is one of the leavers and takes itself off the list.
WorkerLeave(w) ==
  /\ pc[w] = "woken"
  /\ pool_mutex = Nobody
  /\ exit_thread_num > 0
  /\ exit_thread_num' = exit_thread_num - 1
  /\ threads' = threads \ {w}
  /\ pc' = [pc EXCEPT ![w] = "leaving"]
  /\ pool_mutex' = w
  /\ UNCHANGED <<queueVars, busy_thrd_num, shutdown, tk, caller, managerVars,
                 destroyVars>>

\* Lines 91-97: DBRemoveByElement has looked for a second occurrence.
WorkerExit(w) ==
  /\ pc[w] = "leaving"
  /\ pc' = [pc EXCEPT ![w] = "absent"]
  /\ pool_mutex' = Nobody
  /\ UNCHANGED <<queueVars, threads, busy_thrd_num, exit_thread_num, shutdown,
                 tk, caller, managerVars, destroyVars>>

\* A leaver that walks the list reads threads freed at line 249, or nodes freed
\* at line 252. The process may die of it.
LeaverDies(w) ==
  /\ \/ /\ pc[w] = "woken" /\ pool_mutex = Nobody /\ exit_thread_num > 0
        /\ joined \cap threads # {}
     \/ pc[w] = "leaving" /\ dst \in {"drain", "destroyed"}
  /\ dst' = "crashed"
  /\ UNCHANGED <<queueVars, threads, busy_thrd_num, exit_thread_num,
                 pool_mutex, shutdown, pc, tk, caller, managerVars, owed,
                 travelPoint, joined>>

\* Line 110, after pool_mutex was released.
WorkerSignal(w) ==
  /\ pc[w] = "popped"
  /\ caller' = NotFullBroadcast(caller)
  /\ pc' = [pc EXCEPT ![w] = "counting"]
  /\ UNCHANGED <<queueVars, threads, busy_thrd_num, exit_thread_num,
                 pool_mutex, shutdown, tk, managerVars, destroyVars>>

\* Lines 112-116.
WorkerRun(w) ==
  /\ pc[w] = "counting"
  /\ busy_thrd_num' = busy_thrd_num + 1
  /\ pc' = [pc EXCEPT ![w] = "running"]
  /\ UNCHANGED <<queueVars, threads, exit_thread_num, pool_mutex, shutdown,
                 tk, caller, managerVars, destroyVars>>

\* The task is over and the worker stays counted as busy.
FaultyWorkerDone(w) ==
  /\ pc[w] = "running"
  /\ tk' = [tk EXCEPT ![w] = 0]
  /\ pc' = [pc EXCEPT ![w] = "lock"]
  /\ UNCHANGED <<queueVars, threads, busy_thrd_num, exit_thread_num,
                 pool_mutex, shutdown, caller, managerVars, destroyVars>>

\* Lines 116-122: the function returns.
WorkerDone(w) ==
  /\ pc[w] = "running"
  /\ busy_thrd_num' = busy_thrd_num - 1
  /\ tk' = [tk EXCEPT ![w] = 0]
  /\ pc' = [pc EXCEPT ![w] = "lock"]
  /\ UNCHANGED <<queueVars, threads, exit_thread_num, pool_mutex, shutdown,
                 caller, managerVars, destroyVars>>

thread_worker(w) ==
  \/ WorkerLock(w) \/ WorkerSleep(w) \/ SpuriousWakeup(w) \/ WorkerStay(w)
  \/ WorkerLeave(w) \/ WorkerExit(w) \/ LeaverDies(w)
  \/ WorkerSignal(w) \/ WorkerRun(w) \/ WorkerDone(w)
-----------------------------------------------------------------------------
(* thread_manager *)

\* Line 129.
ManagerTest ==
  /\ mgr = "test"
  /\ mgr' = IF shutdown THEN "exited" ELSE "asleep"
  /\ UNCHANGED <<queueVars, threads, busy_thrd_num, exit_thread_num,
                 pool_mutex, shutdown, pc, tk, caller, rounds, destroyVars>>

\* Lines 131-147: after the sleep, add threads to a pool that lags behind.
ManagerGrow ==
  /\ mgr = "asleep"
  /\ pool_mutex = Nobody
  /\ pool_mutex' = Manager
  /\ mgr' = "trim"
  /\ \E new \in SUBSET (Threads \ threads) :
       /\ Cardinality(new) = Growth(Len(task_queue), Cardinality(threads),
                                    busy_thrd_num)
       /\ threads' = threads \cup new
       /\ pc' = [w \in Threads |-> IF w \in new THEN "lock" ELSE pc[w]]
  /\ UNCHANGED <<queueVars, busy_thrd_num, exit_thread_num, shutdown, tk,
                 caller, rounds, destroyVars>>

\* Lines 149-151, and line 164 when nobody has to leave.
ManagerTrim ==
  /\ mgr = "trim"
  /\ IF /\ Cardinality(threads) > busy_thrd_num * 2
        /\ Cardinality(threads) > min_thrd_num
     THEN mgr' = "shed" /\ UNCHANGED pool_mutex
     ELSE mgr' = "test" /\ pool_mutex' = Nobody
  /\ UNCHANGED <<queueVars, threads, busy_thrd_num, exit_thread_num, shutdown,
                 pc, tk, caller, rounds, destroyVars>>

\* Leavers of an earlier round that are still to go are asked a second time.
FaultyManagerShed ==
  /\ mgr = "shed"
  /\ exit_thread_num' =
       exit_thread_num + Leavers(Cardinality(threads), busy_thrd_num)
  /\ rounds' = exit_thread_num'
  /\ pool_mutex' = Nobody
  /\ mgr' = "wake"
  /\ UNCHANGED <<queueVars, threads, busy_thrd_num, shutdown, pc, tk, caller,
                 destroyVars>>

\* Lines 153-157: busy_thrd_num is read again, after the test of line 151.
ManagerShed ==
  /\ mgr = "shed"
  /\ exit_thread_num' = Leavers(Cardinality(threads), busy_thrd_num)
  /\ rounds' = exit_thread_num'
  /\ pool_mutex' = Nobody
  /\ mgr' = "wake"
  /\ UNCHANGED <<queueVars, threads, busy_thrd_num, shutdown, pc, tk, caller,
                 destroyVars>>

\* Lines 158-162: one broadcast a round.
ManagerWake ==
  /\ mgr = "wake"
  /\ IF rounds > 0
     THEN /\ pc' = NotEmptyBroadcast(pc)
          /\ rounds' = rounds - 1
          /\ UNCHANGED mgr
     ELSE /\ mgr' = "test"
          /\ UNCHANGED <<pc, rounds>>
  /\ UNCHANGED <<queueVars, threads, busy_thrd_num, exit_thread_num,
                 pool_mutex, shutdown, tk, caller, destroyVars>>

thread_manager ==
  ManagerTest \/ ManagerGrow \/ ManagerTrim \/ ManagerShed \/ ManagerWake
-----------------------------------------------------------------------------
(* Threadp_AddTask *)

\* A call begins. Nobody calls a pool that has been destroyed. MaxTasks bounds
\* the tasks accepted and those being offered.
Call(p) ==
  /\ caller[p] = "idle"
  /\ dst # "destroyed"
  /\ accepted + Cardinality({q \in Producers : caller[q] # "idle"}) < MaxTasks
  /\ caller' = [caller EXCEPT ![p] = "calling"]
  /\ UNCHANGED <<queueVars, threads, busy_thrd_num, exit_thread_num,
                 pool_mutex, shutdown, pc, tk, managerVars, destroyVars>>

\* Lines 208-211: the queue is full, sleep.
AddTaskWait(p) ==
  /\ Len(task_queue) = max_queue_size
  /\ caller' = [caller EXCEPT ![p] = "full"]
  /\ UNCHANGED <<queueVars, pc>>

\* Lines 213-217: too late, the task is dropped.
AddTaskRefuse(p) ==
  /\ Len(task_queue) # max_queue_size
  /\ shutdown
  /\ caller' = [caller EXCEPT ![p] = "idle"]
  /\ UNCHANGED <<queueVars, pc>>

\* An if where line 208 has a while: the woken caller does not look again.
FaultyAddTaskPush(p) ==
  /\ ~shutdown
  /\ accepted < MaxTasks
  /\ accepted' = accepted + 1
  /\ task_queue' = Append(task_queue, accepted')
  /\ pc' = NotEmptyBroadcast(pc)
  /\ caller' = [caller EXCEPT ![p] = "idle"]

\* Lines 218-222.
AddTaskPush(p) ==
  /\ Len(task_queue) # max_queue_size
  /\ ~shutdown
  /\ accepted < MaxTasks
  /\ accepted' = accepted + 1
  /\ task_queue' = Append(task_queue, accepted')
  /\ pc' = NotEmptyBroadcast(pc)
  /\ caller' = [caller EXCEPT ![p] = "idle"]

Threadp_AddTask(p) ==
  /\ caller[p] = "calling"
  /\ dst # "destroyed"
  /\ pool_mutex = Nobody
  /\ AddTaskWait(p) \/ AddTaskRefuse(p) \/ AddTaskPush(p)
  /\ UNCHANGED <<threads, busy_thrd_num, exit_thread_num, pool_mutex, shutdown,
                 tk, managerVars, destroyVars>>
-----------------------------------------------------------------------------
(* DestoryThreadPool *)

\* Line 232: shutdown is set without pool_mutex.
DestroyBegin ==
  /\ MayDestroy
  /\ dst = "none"
  /\ dst' = "joinAdmin"
  /\ shutdown' = TRUE
  /\ UNCHANGED <<queueVars, threads, busy_thrd_num, exit_thread_num,
                 pool_mutex, pc, tk, caller, managerVars, owed, travelPoint,
                 joined>>

\* Lines 234-238.
DestroyJoinAdmin ==
  /\ dst = "joinAdmin"
  /\ mgr = "exited"
  /\ dst' = "broadcast"
  /\ owed' = Cardinality(threads)
  /\ UNCHANGED <<queueVars, threads, busy_thrd_num, exit_thread_num,
                 pool_mutex, shutdown, pc, tk, caller, managerVars,
                 travelPoint, joined>>

\* Lines 239-242.
DestroyBroadcast ==
  /\ dst = "broadcast"
  /\ owed > 0
  /\ owed' = owed - 1
  /\ pc' = NotEmptyBroadcast(pc)
  /\ UNCHANGED <<queueVars, threads, busy_thrd_num, exit_thread_num,
                 pool_mutex, shutdown, tk, caller, managerVars, dst,
                 travelPoint, joined>>

\* Move to a node that has not been visited, or leave the loop and free the
\* list (lines 244-245, 250-252). The order of the list is abstracted.
StepOver(left) ==
  \/ /\ threads \ left # {}
     /\ dst' = "walk"
     /\ travelPoint' \in threads \ left
     /\ UNCHANGED threads
  \/ /\ threads \ left = {}
     /\ dst' = "drain"
     /\ travelPoint' = Nobody
     /\ threads' = {}

DestroyHead ==
  /\ dst = "broadcast"
  /\ owed = 0
  /\ StepOver({})
  /\ UNCHANGED <<queueVars, busy_thrd_num, exit_thread_num, pool_mutex,
                 shutdown, pc, tk, caller, managerVars, owed, joined>>

\* The join of line 248 forgotten.
FaultyDestroyJoin ==
  /\ dst = "walk"
  /\ travelPoint \in threads
  /\ joined' = joined \cup {travelPoint}
  /\ StepOver(joined')
  /\ UNCHANGED <<queueVars, busy_thrd_num, exit_thread_num, pool_mutex,
                 shutdown, pc, tk, caller, managerVars, owed>>

\* Lines 247-250: the thread of this node has ended; free it, read the next.
DestroyJoin ==
  /\ dst = "walk"
  /\ travelPoint \in threads
  /\ pc[travelPoint] = "exited"
  /\ joined' = joined \cup {travelPoint}
  /\ StepOver(joined')
  /\ UNCHANGED <<queueVars, busy_thrd_num, exit_thread_num, pool_mutex,
                 shutdown, pc, tk, caller, managerVars, owed>>

\* The same when the thread has freed the node, at line 91: what lines 247 and
\* 250 read there is undefined. It may crash or still be what it was.
DestroyJoinFreed ==
  /\ dst = "walk"
  /\ travelPoint \notin threads
  /\ \/ dst' = "crashed" /\ UNCHANGED <<threads, travelPoint, joined>>
     \/ /\ pc[travelPoint] = "absent"
        /\ joined' = joined \cup {travelPoint}
        /\ StepOver(joined')
  /\ UNCHANGED <<queueVars, busy_thrd_num, exit_thread_num, pool_mutex,
                 shutdown, pc, tk, caller, managerVars, owed>>

\* Lines 255-259: free the tasks that nobody took.
DestroyDrain ==
  /\ dst = "drain"
  /\ task_queue # <<>>
  /\ task_queue' = Tail(task_queue)
  /\ UNCHANGED <<accepted, threads, busy_thrd_num, exit_thread_num, pool_mutex,
                 shutdown, pc, tk, caller, managerVars, destroyVars>>

\* Lines 260-266.
DestroyEnd ==
  /\ dst = "drain"
  /\ task_queue = <<>>
  /\ dst' = "destroyed"
  /\ UNCHANGED <<queueVars, threads, busy_thrd_num, exit_thread_num,
                 pool_mutex, shutdown, pc, tk, caller, managerVars, owed,
                 travelPoint, joined>>

DestoryThreadPool ==
  \/ DestroyBegin \/ DestroyJoinAdmin \/ DestroyBroadcast \/ DestroyHead
  \/ DestroyJoin \/ DestroyJoinFreed \/ DestroyDrain \/ DestroyEnd
-----------------------------------------------------------------------------
Next ==
  /\ dst # "crashed"
  /\ \/ \E w \in Threads : thread_worker(w)
     \/ thread_manager
     \/ \E p \in Producers : Call(p) \/ Threadp_AddTask(p)
     \/ DestoryThreadPool

Spec == Init /\ [][Next]_vars

(***************************************************************************)
(* Every thread keeps running, tasks return, and a thread that asks for    *)
(* pool_mutex again and again while it is free gets it: nobody computes    *)
(* under the mutex, and the manager takes it once in ten seconds (line     *)
(* 131). New calls and spurious wakeups are not promised.                  *)
(***************************************************************************)
Fairness ==
  /\ \A w \in Threads :
       /\ SF_vars(WorkerLock(w)) /\ SF_vars(WorkerStay(w))
       /\ SF_vars(WorkerLeave(w)) /\ WF_vars(WorkerExit(w))
       /\ WF_vars(WorkerSleep(w)) /\ WF_vars(WorkerSignal(w))
       /\ WF_vars(WorkerRun(w)) /\ WF_vars(WorkerDone(w))
  /\ SF_vars(ManagerGrow)
  /\ WF_vars(ManagerTest) /\ WF_vars(ManagerTrim) /\ WF_vars(ManagerShed)
  /\ WF_vars(ManagerWake)
  /\ \A p \in Producers : SF_vars(Threadp_AddTask(p))
  /\ WF_vars(DestoryThreadPool /\ dst # "none")

FairSpec == Spec /\ Fairness
-----------------------------------------------------------------------------
(* Properties *)

TypeOK ==
  /\ task_queue \in Seq(1..MaxTasks) /\ accepted \in 0..MaxTasks
  /\ threads \in SUBSET Threads
  /\ busy_thrd_num \in Nat /\ exit_thread_num \in Nat
  /\ pool_mutex \in Threads \cup {Manager, Nobody}
  /\ shutdown \in BOOLEAN
  /\ pc \in [Threads -> WorkerStates]
  /\ tk \in [Threads -> 0..MaxTasks]
  /\ caller \in [Producers -> CallerStates]
  /\ mgr \in ManagerStates /\ rounds \in Nat
  /\ dst \in DestroyStates /\ owed \in Nat
  /\ travelPoint \in Threads \cup {Nobody}
  /\ joined \in SUBSET Threads

TornDown == dst \in {"drain", "destroyed", "crashed"}

\* No lost wakeup on queue_not_empty. While a task is queued nobody sleeps or
\* is about to sleep, so some worker is on its way to the queue; the workers
\* that were woken to leave the pool are never all there is (lines 76-98, 221).
WorkIsSeen ==
  /\ task_queue # <<>> => \A w \in Threads : pc[w] \notin {"toWait", "waiting"}
  /\ ~TornDown => exit_thread_num < Cardinality(threads)

\* No lost wakeup on queue_not_full. A caller sleeps only while the queue is
\* full, or until the worker that has just made room signals (lines 108-110,
\* 208-211).
SpaceIsSeen ==
  ~TornDown =>
    \A p \in Producers :
      caller[p] = "full" => \/ Len(task_queue) = max_queue_size
                            \/ \E w \in Threads : pc[w] = "popped"

\* The queue never exceeds max_queue_size, with any number of callers that
\* wait and are woken together (lines 208-219).
QueueBounded == Len(task_queue) <= max_queue_size

\* The pool never falls below min_thrd_num once it can shrink at all, however
\* stale the numbers behind exit_thread_num are when the leavers act on it
\* (lines 80-98, 151-156). With min_thrd_num above max_thrd_num, as main
\* passes them, nobody ever leaves.
PoolFloor ==
  ~TornDown =>
    \/ Cardinality(threads) >= min_thrd_num
    \/ Cardinality(threads) = max_thrd_num

Running == {w \in Threads : pc[w] = "running"}

\* busy_thrd_num, which the manager reads without busy_thrd_mutex, is the
\* number of workers inside a task, so that the number of leavers computed
\* from it is neither negative nor the whole pool (lines 112-120, 151-156).
ShedIsSane ==
  /\ busy_thrd_num = Cardinality(Running)
  /\ mgr = "shed" =>
       Leavers(Cardinality(threads), busy_thrd_num)
         \in 0 .. (Cardinality(threads) - 1)

\* The rest of what the proofs need, by name.

\* Who holds pool_mutex between two steps.
MutexInv ==
  /\ \A w \in Threads : pc[w] \in {"toWait", "leaving"} <=> pool_mutex = w
  /\ mgr \in {"trim", "shed"} <=> pool_mutex = Manager

Gone(w) == pc[w] \in {"absent", "leaving"}

\* The list holds exactly the threads that have not left, until it is freed.
ListInv == ~TornDown => threads = {w \in Threads : ~Gone(w)}

\* A worker holds a task exactly from line 106 to line 122.
HoldsTask(w) == pc[w] \in {"popped", "counting", "running"}
TaskInv == \A w \in Threads : tk[w] # 0 <=> HoldsTask(w)

\* Promised leavers fit above the floor; the manager sheds above it only.
LeaveInv ==
  ~TornDown =>
    /\ exit_thread_num > 0 =>
         Cardinality(threads) - exit_thread_num >= min_thrd_num
    /\ mgr = "shed" => Cardinality(threads) > min_thrd_num

\* DestoryThreadPool sets shutdown first, waits for the manager next, and then
\* stands on a node while it walks the list.
DestroyInv ==
  /\ dst # "none" => shutdown
  /\ dst \notin {"none", "joinAdmin"} => mgr = "exited"
  /\ dst = "walk" => travelPoint \in Threads
  /\ dst \in {"none", "joinAdmin", "broadcast"} => joined = {}

\* The inductive invariant of the pool.
PoolInv ==
  /\ TypeOK /\ WorkIsSeen /\ SpaceIsSeen /\ QueueBounded /\ PoolFloor
  /\ ShedIsSane /\ MutexInv /\ ListInv /\ TaskInv /\ LeaveInv /\ DestroyInv

\* The pool implements a bounded FIFO of tasks, each run by one worker once.
TP == INSTANCE TaskPool WITH
        Task <- 1..MaxTasks, Worker <- Threads, Capacity <- max_queue_size,
        NoTask <- 0, queue <- task_queue, running <- tk, closed <- shutdown

\* Every accepted task is run once, in the order of acceptance, by one worker;
\* after shutdown none is started (ThreadPool.h).
ImplementsTaskPool == TP!Spec

\* The same with the promise that a queued task is eventually run, although
\* workers leave the pool and wakeups are shared (lines 69-124).
ServesEveryTask == TP!FairSpec

\* A call of Threadp_AddTask returns, also when it found the queue full
\* (lines 207-222).
CallsReturn == \A p \in Producers : caller[p] # "idle" ~> caller[p] = "idle"

\* When the work is over the pool comes down to min_thrd_num threads, or to
\* one, although a leaver may miss the broadcast meant for it (lines 149-162).
ShrinksToMin ==
  (accepted = MaxTasks) ~>
     [](Cardinality(threads) = AtMost(IF min_thrd_num = 0 THEN 1
                                      ELSE min_thrd_num, max_thrd_num))

\* DestoryThreadPool never reads a list node that a leaving worker has freed
\* (lines 91, 244-250).
WalkOnLiveNodes == dst = "walk" => travelPoint \in threads

\* When DestoryThreadPool has freed the pool, and even if it got over a node
\* that was freed under it, every worker has ended, but for one at most that is
\* off the list and about to release pool_mutex, and every task was either run
\* or freed (lines 91-97, 237-266).
DestroyedMeansStopped ==
  dst = "destroyed" =>
    /\ \A w \in Threads : (Gone(w) \/ pc[w] = "exited") /\ tk[w] = 0
    /\ \A v, w \in Threads : pc[v] = "leaving" /\ pc[w] = "leaving" => v = w
    /\ task_queue = <<>>

\* No worker is left that holds a mutex DestoryThreadPool has destroyed (lines
\* 237, 262). It takes pool_mutex neither for its walk nor after it, so that this
\* holds in pools that cannot shrink only, such as the one of main.
NobodyLeftBehind ==
  dst = "destroyed" =>
    /\ pool_mutex = Nobody
    /\ \A w \in Threads : pc[w] \in {"absent", "exited"}

\* "Kill the waiting threads and the working threads" (line 237): once all the
\* broadcasts are made, no worker of the list is asleep or about to sleep.
DestroyWakesAll ==
  dst = "walk" => \A w \in threads : pc[w] \notin {"toWait", "waiting"}
=============================================================================
