-------------------------- MODULE ThreadPoolProofs --------------------------
(* Theorems about ThreadPool, for every number of threads and callers. *)
EXTENDS ThreadPool, TLAPS, FiniteSetTheorems, SequenceTheorems

\* Sets of threads are finite and their sizes compare as expected.
LEMMA ThreadSets ==
  /\ Cardinality(Threads) \in Nat \ {0}
  /\ \A S \in SUBSET Threads :
       /\ IsFiniteSet(S)
       /\ Cardinality(S) \in Nat
       /\ Cardinality(S) <= Cardinality(Threads)
       /\ S # {} => Cardinality(S) > 0
  /\ \A S, T \in SUBSET Threads : S \subseteq T => Cardinality(S) <= Cardinality(T)
<1>1. \A S \in SUBSET Threads :
        /\ IsFiniteSet(S)
        /\ Cardinality(S) \in Nat
        /\ Cardinality(S) <= Cardinality(Threads)
  BY FS_Subset, FS_CardinalityType, ThreadPoolAssumption
<1>2. \A S \in SUBSET Threads : S # {} => Cardinality(S) > 0
  BY <1>1, FS_EmptySet
<1>3. \A S, T \in SUBSET Threads : S \subseteq T => Cardinality(S) <= Cardinality(T)
  BY <1>1, FS_Subset
<1>4. Cardinality(Threads) \in Nat \ {0}
  BY <1>1, <1>2, ThreadPoolAssumption
<1>5. QED
  BY <1>1, <1>2, <1>3, <1>4

\* What a step that moves no thread in or out of a task, and leaves the
\* numbers of the manager alone, keeps.
LEMMA QuietStep ==
  ASSUME PoolInv, Running' = Running,
         UNCHANGED <<threads, busy_thrd_num, exit_thread_num, mgr, dst>>
  PROVE  ShedIsSane' /\ LeaveInv' /\ PoolFloor'
BY DEF PoolInv, ShedIsSane, LeaveInv, PoolFloor, TornDown

LEMMA WorkerSleepInv ==
  ASSUME PoolInv, NEW w \in Threads, WorkerSleep(w)
  PROVE  PoolInv'
<1> USE DEF WorkerSleep, PoolInv, queueVars, managerVars, destroyVars
<1>1. Running' = Running
  BY DEF Running, TypeOK
<1>2. ShedIsSane' /\ LeaveInv' /\ PoolFloor'
  BY <1>1, QuietStep
<1>3. TypeOK'
  BY DEF TypeOK, WorkerStates
<1>4. WorkIsSeen' /\ SpaceIsSeen' /\ QueueBounded'
  BY DEF TypeOK, WorkIsSeen, SpaceIsSeen, QueueBounded, TornDown
<1>5. MutexInv' /\ ListInv' /\ TaskInv' /\ DestroyInv'
  BY ThreadPoolAssumption DEF TypeOK, MutexInv, ListInv, Gone, TaskInv, HoldsTask, DestroyInv, TornDown
<1>6. QED
  BY <1>2, <1>3, <1>4, <1>5

\* Line 154 keeps the number of leavers between none and all but one, and
\* under the floor.
LEMMA LeaversBounds ==
  ASSUME NEW n \in Nat, NEW busy \in Nat, busy <= n, n > min_thrd_num
  PROVE  /\ Leavers(n, busy) \in 0 .. (n - 1)
         /\ Leavers(n, busy) <= n - min_thrd_num
BY ThreadPoolAssumption DEF Leavers, AtMost

\* Workers inside a task are in the list, so they are no more than it holds.
LEMMA RunningInList ==
  ASSUME TypeOK, ListInv, ~TornDown
  PROVE  /\ Running \in SUBSET Threads
         /\ Running \subseteq threads
         /\ threads \in SUBSET Threads
         /\ Cardinality(Running) <= Cardinality(threads)
BY ThreadSets DEF TypeOK, ListInv, Gone, Running

LEMMA LookForWorkInv ==
  ASSUME PoolInv, NEW w \in Threads, pc[w] \in {"lock", "woken"}, LookForWork(w)
  PROVE  PoolInv'
<1> USE DEF LookForWork, PoolInv, queueVars, managerVars, destroyVars
<1>1. CASE FindNothing(w)
  <2> USE <1>1 DEF FindNothing
  <2>1. Running' = Running
    BY DEF Running, TypeOK
  <2>2. TypeOK'
    BY DEF TypeOK, WorkerStates
  <2>3. WorkIsSeen' /\ SpaceIsSeen' /\ QueueBounded'
    BY DEF TypeOK, WorkIsSeen, SpaceIsSeen, QueueBounded, TornDown
  <2>4. MutexInv'
    BY ThreadPoolAssumption DEF TypeOK, MutexInv
  <2>5. ListInv' /\ TaskInv' /\ DestroyInv'
    BY DEF TypeOK, ListInv, Gone, TaskInv, HoldsTask, DestroyInv, TornDown
  <2>6. QED
    BY <2>1, <2>2, <2>3, <2>4, <2>5, QuietStep
<1>2. CASE FindShutdown(w)
  <2> USE <1>2 DEF FindShutdown
  <2>1. Running' = Running
    BY DEF Running, TypeOK
  <2>2. TypeOK'
    BY DEF TypeOK, WorkerStates
  <2>3. WorkIsSeen' /\ SpaceIsSeen' /\ QueueBounded'
    BY DEF TypeOK, WorkIsSeen, SpaceIsSeen, QueueBounded, TornDown
  <2>4. MutexInv'
    BY ThreadPoolAssumption DEF TypeOK, MutexInv
  <2>5. ListInv' /\ TaskInv' /\ DestroyInv'
    BY DEF TypeOK, ListInv, Gone, TaskInv, HoldsTask, DestroyInv, TornDown
  <2>6. QED
    BY <2>1, <2>2, <2>3, <2>4, <2>5, QuietStep
<1>3. CASE FindTask(w)
  <2> USE <1>3 DEF FindTask
  <2>1. Running' = Running
    BY DEF Running, TypeOK
  <2>2. /\ Tail(task_queue) \in Seq(1..MaxTasks)
        /\ Head(task_queue) \in 1..MaxTasks
        /\ Len(Tail(task_queue)) = Len(task_queue) - 1
        /\ Len(task_queue) \in Nat
    BY HeadTailProperties, LenProperties DEF TypeOK
  <2>3. TypeOK'
    BY <2>2 DEF TypeOK, WorkerStates
  <2>4. WorkIsSeen' /\ SpaceIsSeen' /\ QueueBounded'
    <3>1. WorkIsSeen'
      BY DEF TypeOK, WorkIsSeen, TornDown
    <3>2. pc'[w] = "popped"
      BY DEF TypeOK
    <3>3. SpaceIsSeen'
      BY <3>2 DEF SpaceIsSeen
    <3>4. QueueBounded'
      BY <2>2, ThreadPoolAssumption DEF QueueBounded
    <3>5. QED
      BY <3>1, <3>3, <3>4
  <2>5. MutexInv'
    BY ThreadPoolAssumption DEF TypeOK, MutexInv
  <2>6. ListInv' /\ TaskInv' /\ DestroyInv'
    BY <2>2 DEF TypeOK, ListInv, Gone, TaskInv, HoldsTask, DestroyInv, TornDown
  <2>7. QED
    BY <2>1, <2>3, <2>4, <2>5, <2>6, QuietStep
<1>4. QED
  BY <1>1, <1>2, <1>3

LEMMA SpuriousWakeupInv ==
  ASSUME PoolInv, NEW w \in Threads, SpuriousWakeup(w)
  PROVE  PoolInv'
<1> USE DEF SpuriousWakeup, PoolInv, queueVars, managerVars, destroyVars
<1>1. Running' = Running
  BY DEF Running, TypeOK
<1>2. ShedIsSane' /\ LeaveInv' /\ PoolFloor'
  BY <1>1, QuietStep
<1>3. TypeOK'
  BY DEF TypeOK, WorkerStates
<1>4. WorkIsSeen' /\ SpaceIsSeen' /\ QueueBounded'
  BY DEF TypeOK, WorkIsSeen, SpaceIsSeen, QueueBounded, TornDown
<1>5. MutexInv' /\ ListInv' /\ TaskInv' /\ DestroyInv'
  BY ThreadPoolAssumption
  DEF TypeOK, MutexInv, ListInv, Gone, TaskInv, HoldsTask, DestroyInv, TornDown
<1>6. QED
  BY <1>2, <1>3, <1>4, <1>5

\* The leaver is not running, and its departure was counted at line 156.
LEMMA WorkerLeaveInv ==
  ASSUME PoolInv, NEW w \in Threads, WorkerLeave(w)
  PROVE  PoolInv'
<1> USE DEF WorkerLeave, PoolInv, queueVars, managerVars, destroyVars
<1>1. Running' = Running
  BY DEF Running, TypeOK
<1>2. ~TornDown => /\ Cardinality(threads') = Cardinality(threads) - 1
                   /\ Cardinality(threads) \in Nat
  <2>1. ~TornDown => w \in threads
    BY DEF ListInv, Gone
  <2>2. threads \in SUBSET Threads
    BY DEF TypeOK
  <2>3. QED
    BY <2>1, <2>2, ThreadSets, FS_RemoveElement
<1>3. mgr # "shed"
  BY ThreadPoolAssumption DEF MutexInv
<1>4. ShedIsSane' /\ LeaveInv' /\ PoolFloor'
  BY <1>1, <1>2, <1>3, ThreadPoolAssumption
  DEF TypeOK, ShedIsSane, LeaveInv, PoolFloor, TornDown
<1>5. TypeOK'
  BY DEF TypeOK, WorkerStates
<1>6. WorkIsSeen' /\ SpaceIsSeen' /\ QueueBounded'
  BY <1>2 DEF TypeOK, WorkIsSeen, SpaceIsSeen, QueueBounded, TornDown
<1>7. MutexInv' /\ ListInv' /\ TaskInv' /\ DestroyInv'
  BY ThreadPoolAssumption
  DEF TypeOK, MutexInv, ListInv, Gone, TaskInv, HoldsTask, DestroyInv, TornDown
<1>8. QED
  BY <1>4, <1>5, <1>6, <1>7

LEMMA WorkerExitInv ==
  ASSUME PoolInv, NEW w \in Threads, WorkerExit(w)
  PROVE  PoolInv'
<1> USE DEF WorkerExit, PoolInv, queueVars, managerVars, destroyVars
<1>1. Running' = Running
  BY DEF Running, TypeOK
<1>2. ShedIsSane' /\ LeaveInv' /\ PoolFloor'
  BY <1>1, QuietStep
<1>3. TypeOK'
  BY DEF TypeOK, WorkerStates
<1>4. WorkIsSeen' /\ SpaceIsSeen' /\ QueueBounded'
  BY DEF TypeOK, WorkIsSeen, SpaceIsSeen, QueueBounded, TornDown
<1>5. MutexInv' /\ ListInv' /\ TaskInv' /\ DestroyInv'
  BY ThreadPoolAssumption
  DEF TypeOK, MutexInv, ListInv, Gone, TaskInv, HoldsTask, DestroyInv, TornDown
<1>6. QED
  BY <1>2, <1>3, <1>4, <1>5

\* A leaver can only die of the list when DestoryThreadPool is under way.
LEMMA LeaverDiesInv ==
  ASSUME PoolInv, NEW w \in Threads, LeaverDies(w)
  PROVE  PoolInv'
<1> USE DEF LeaverDies, PoolInv, queueVars, managerVars
<1>1. dst \notin {"none", "joinAdmin"}
  BY DEF DestroyInv
<1>2. TypeOK'
  BY DEF TypeOK, DestroyStates
<1>3. ShedIsSane' /\ LeaveInv' /\ PoolFloor'
  BY DEF Running, ShedIsSane, LeaveInv, PoolFloor, TornDown
<1>4. WorkIsSeen' /\ SpaceIsSeen' /\ QueueBounded'
  BY DEF WorkIsSeen, SpaceIsSeen, QueueBounded, TornDown
<1>5. MutexInv' /\ ListInv' /\ TaskInv' /\ DestroyInv'
  BY <1>1
  DEF MutexInv, ListInv, Gone, TaskInv, HoldsTask, DestroyInv, TornDown
<1>6. QED
  BY <1>2, <1>3, <1>4, <1>5

LEMMA WorkerSignalInv ==
  ASSUME PoolInv, NEW w \in Threads, WorkerSignal(w)
  PROVE  PoolInv'
<1> USE DEF WorkerSignal, PoolInv, queueVars, managerVars, destroyVars
<1>1. Running' = Running
  BY DEF Running, TypeOK
<1>2. ShedIsSane' /\ LeaveInv' /\ PoolFloor'
  BY <1>1, QuietStep
<1>3. TypeOK'
  BY DEF TypeOK, WorkerStates, CallerStates, NotFullBroadcast
<1>4. WorkIsSeen' /\ SpaceIsSeen' /\ QueueBounded'
  BY DEF TypeOK, WorkIsSeen, SpaceIsSeen, QueueBounded, TornDown,
         NotFullBroadcast
<1>5. MutexInv' /\ ListInv' /\ TaskInv' /\ DestroyInv'
  BY ThreadPoolAssumption
  DEF TypeOK, MutexInv, ListInv, Gone, TaskInv, HoldsTask, DestroyInv, TornDown
<1>6. QED
  BY <1>2, <1>3, <1>4, <1>5

\* The manager's numbers after a worker has counted itself in or out.
LEMMA BusyStep ==
  ASSUME PoolInv, TypeOK', ListInv', busy_thrd_num' = Cardinality(Running'),
         UNCHANGED <<threads, exit_thread_num, mgr, dst>>
  PROVE  ShedIsSane' /\ LeaveInv' /\ PoolFloor'
<1> USE DEF PoolInv
<1>1. LeaveInv' /\ PoolFloor'
  BY DEF LeaveInv, PoolFloor, TornDown
<1>2. ASSUME mgr' = "shed"
      PROVE  Leavers(Cardinality(threads'), busy_thrd_num')
               \in 0 .. (Cardinality(threads') - 1)
  <2>1. ~TornDown /\ ~TornDown'
    BY <1>2 DEF TornDown, DestroyInv
  <2>2. /\ Running' \in SUBSET Threads
        /\ Cardinality(Running') <= Cardinality(threads')
    BY <2>1, ThreadSets DEF TypeOK, ListInv, Gone, Running
  <2>3. Cardinality(threads') > min_thrd_num
    BY <2>1, <1>2 DEF LeaveInv
  <2>4. /\ Cardinality(threads') \in Nat
        /\ Cardinality(Running') \in Nat
    BY <2>2, ThreadSets DEF TypeOK
  <2>5. QED
    BY <2>2, <2>3, <2>4, LeaversBounds
<1>3. QED
  BY <1>1, <1>2 DEF ShedIsSane

LEMMA WorkerRunInv ==
  ASSUME PoolInv, NEW w \in Threads, WorkerRun(w)
  PROVE  PoolInv'
<1> USE DEF WorkerRun, PoolInv, queueVars, managerVars, destroyVars
<1>1. TypeOK'
  BY DEF TypeOK, WorkerStates
<1>2. MutexInv' /\ ListInv' /\ TaskInv' /\ DestroyInv'
  BY ThreadPoolAssumption
  DEF TypeOK, MutexInv, ListInv, Gone, TaskInv, HoldsTask, DestroyInv, TornDown
<1>3. WorkIsSeen' /\ SpaceIsSeen' /\ QueueBounded'
  BY DEF TypeOK, WorkIsSeen, SpaceIsSeen, QueueBounded, TornDown
<1>4. busy_thrd_num' = Cardinality(Running')
  <2>1. Running' = Running \cup {w} /\ w \notin Running
    BY DEF Running, TypeOK
  <2>2. IsFiniteSet(Running)
    BY ThreadSets DEF Running
  <2>3. QED
    BY <2>1, <2>2, FS_AddElement DEF ShedIsSane
<1>5. ShedIsSane' /\ LeaveInv' /\ PoolFloor'
  BY <1>1, <1>2, <1>4, BusyStep
<1>6. QED
  BY <1>1, <1>2, <1>3, <1>5

LEMMA WorkerDoneInv ==
  ASSUME PoolInv, NEW w \in Threads, WorkerDone(w)
  PROVE  PoolInv'
<1> USE DEF WorkerDone, PoolInv, queueVars, managerVars, destroyVars
<1>1. /\ Running' = Running \ {w} /\ w \in Running
      /\ Running \in SUBSET Threads
  BY DEF Running, TypeOK
<1>2. /\ Cardinality(Running') = Cardinality(Running) - 1
      /\ Cardinality(Running) \in Nat \ {0}
  BY <1>1, ThreadSets, FS_RemoveElement
<1>3. busy_thrd_num' = Cardinality(Running') /\ busy_thrd_num' \in Nat
  BY <1>2 DEF ShedIsSane
<1>4. TypeOK'
  BY <1>3, ThreadPoolAssumption DEF TypeOK, WorkerStates
<1>5. MutexInv' /\ ListInv' /\ TaskInv' /\ DestroyInv'
  BY ThreadPoolAssumption
  DEF TypeOK, MutexInv, ListInv, Gone, TaskInv, HoldsTask, DestroyInv, TornDown
<1>6. WorkIsSeen' /\ SpaceIsSeen' /\ QueueBounded'
  BY DEF TypeOK, WorkIsSeen, SpaceIsSeen, QueueBounded, TornDown
<1>7. ShedIsSane' /\ LeaveInv' /\ PoolFloor'
  BY <1>3, <1>4, <1>5, BusyStep
<1>8. QED
  BY <1>4, <1>5, <1>6, <1>7

LEMMA WorkerInv ==
  ASSUME PoolInv, NEW w \in Threads, thread_worker(w)
  PROVE  PoolInv'
BY LookForWorkInv, WorkerSleepInv, SpuriousWakeupInv, WorkerLeaveInv,
   WorkerExitInv, LeaverDiesInv, WorkerSignalInv, WorkerRunInv, WorkerDoneInv
DEF thread_worker, WorkerLock, WorkerStay
-----------------------------------------------------------------------------
LEMMA ManagerTestInv ==
  ASSUME PoolInv, ManagerTest
  PROVE  PoolInv'
<1> USE DEF ManagerTest, PoolInv, queueVars, managerVars, destroyVars
<1>1. TypeOK'
  BY DEF TypeOK, ManagerStates
<1>2. ShedIsSane' /\ LeaveInv' /\ PoolFloor'
  BY DEF Running, ShedIsSane, LeaveInv, PoolFloor, TornDown
<1>3. WorkIsSeen' /\ SpaceIsSeen' /\ QueueBounded'
  BY DEF WorkIsSeen, SpaceIsSeen, QueueBounded, TornDown
<1>4. MutexInv' /\ ListInv' /\ TaskInv' /\ DestroyInv'
  BY DEF MutexInv, ListInv, Gone, TaskInv, HoldsTask, DestroyInv, TornDown
<1>5. QED
  BY <1>1, <1>2, <1>3, <1>4

\* New threads were absent, so they neither sleep nor hold a task.
LEMMA ManagerGrowInv ==
  ASSUME PoolInv, ManagerGrow
  PROVE  PoolInv'
<1> USE DEF PoolInv, queueVars, managerVars, destroyVars
<1>1. PICK new \in SUBSET (Threads \ threads) :
        /\ threads' = threads \cup new
        /\ pc' = [w \in Threads |-> IF w \in new THEN "lock" ELSE pc[w]]
  BY DEF ManagerGrow
<1>2. /\ mgr = "asleep" /\ mgr' = "trim"
      /\ pool_mutex = Nobody /\ pool_mutex' = Manager
      /\ UNCHANGED <<queueVars, busy_thrd_num, exit_thread_num, shutdown, tk,
                     caller, rounds, destroyVars>>
  BY DEF ManagerGrow
<1>3. ~TornDown
  BY <1>2 DEF TornDown, DestroyInv
<1>4. \A w \in new : pc[w] = "absent"
  BY <1>1, <1>2, <1>3, ThreadPoolAssumption DEF ListInv, Gone, MutexInv
<1>5. Running' = Running
  BY <1>1, <1>4 DEF Running
<1>6. /\ Cardinality(threads) <= Cardinality(threads')
      /\ Cardinality(threads') <= max_thrd_num
      /\ Cardinality(threads) \in Nat
      /\ Cardinality(threads') \in Nat
  <2>1. threads \in SUBSET Threads /\ threads' \in SUBSET Threads
    BY <1>1 DEF TypeOK
  <2>2. QED
    BY <2>1, <1>1, ThreadSets DEF max_thrd_num
<1>7. TypeOK'
  BY <1>1, <1>2 DEF TypeOK, WorkerStates, ManagerStates
<1>8. ShedIsSane' /\ LeaveInv' /\ PoolFloor'
  BY <1>2, <1>3, <1>5, <1>6, ThreadSets, ThreadPoolAssumption
  DEF TypeOK, ShedIsSane, LeaveInv, PoolFloor, TornDown, max_thrd_num
<1>9. WorkIsSeen' /\ SpaceIsSeen' /\ QueueBounded'
  BY <1>1, <1>2, <1>3, <1>4, <1>6
  DEF TypeOK, WorkIsSeen, SpaceIsSeen, QueueBounded, TornDown
<1>10. MutexInv'
  BY <1>1, <1>2, ThreadPoolAssumption DEF TypeOK, MutexInv
<1>11. ListInv' /\ TaskInv' /\ DestroyInv'
  BY <1>1, <1>2, <1>3, <1>4
  DEF TypeOK, ListInv, Gone, TaskInv, HoldsTask, DestroyInv, TornDown
<1>12. QED
  BY <1>7, <1>8, <1>9, <1>10, <1>11

\* Line 151 lets the manager shed above the floor only.
LEMMA ManagerTrimInv ==
  ASSUME PoolInv, ManagerTrim
  PROVE  PoolInv'
<1> USE DEF ManagerTrim, PoolInv, queueVars, managerVars, destroyVars
<1>1. TypeOK'
  BY DEF TypeOK, ManagerStates
<1>2. LeaveInv' /\ PoolFloor'
  BY DEF LeaveInv, PoolFloor, TornDown
<1>3. ShedIsSane'
  <2>1. Running' = Running /\ busy_thrd_num = Cardinality(Running)
    BY DEF Running, ShedIsSane
  <2>2. mgr' = "shed" =>
          Leavers(Cardinality(threads), busy_thrd_num)
            \in 0 .. (Cardinality(threads) - 1)
    <3>1. ~TornDown
      BY DEF TornDown, DestroyInv
    <3>2. /\ Cardinality(threads) \in Nat
          /\ busy_thrd_num \in Nat /\ busy_thrd_num <= Cardinality(threads)
      BY <3>1, <2>1, RunningInList, ThreadSets DEF TypeOK
    <3>3. QED
      BY <3>2, LeaversBounds
  <2>3. QED
    BY <2>1, <2>2 DEF ShedIsSane
<1>4. WorkIsSeen' /\ SpaceIsSeen' /\ QueueBounded'
  BY DEF WorkIsSeen, SpaceIsSeen, QueueBounded, TornDown
<1>5. MutexInv'
  BY ThreadPoolAssumption DEF TypeOK, MutexInv
<1>6. ListInv' /\ TaskInv' /\ DestroyInv'
  BY DEF ListInv, Gone, TaskInv, HoldsTask, DestroyInv, TornDown
<1>7. QED
  BY <1>1, <1>2, <1>3, <1>4, <1>5, <1>6

\* What line 156 promises fits above the floor, whatever busy_thrd_num became
\* since line 151.
LEMMA ManagerShedInv ==
  ASSUME PoolInv, ManagerShed
  PROVE  PoolInv'
<1> USE DEF ManagerShed, PoolInv, queueVars, managerVars, destroyVars
<1>1. ~TornDown
  BY DEF TornDown, DestroyInv
<1>2. /\ Cardinality(threads) \in Nat
      /\ busy_thrd_num \in Nat /\ busy_thrd_num <= Cardinality(threads)
      /\ Cardinality(threads) > min_thrd_num
  BY <1>1, RunningInList, ThreadSets DEF TypeOK, ShedIsSane, LeaveInv
<1>3. /\ exit_thread_num' \in Nat
      /\ exit_thread_num' < Cardinality(threads)
      /\ exit_thread_num' <= Cardinality(threads) - min_thrd_num
  BY <1>2, LeaversBounds
<1>4. TypeOK'
  BY <1>3 DEF TypeOK, ManagerStates
<1>5. ShedIsSane' /\ LeaveInv' /\ PoolFloor'
  BY <1>2, <1>3, ThreadPoolAssumption
  DEF Running, ShedIsSane, LeaveInv, PoolFloor, TornDown
<1>6. WorkIsSeen' /\ SpaceIsSeen' /\ QueueBounded'
  BY <1>3 DEF WorkIsSeen, SpaceIsSeen, QueueBounded, TornDown
<1>7. MutexInv'
  BY ThreadPoolAssumption DEF TypeOK, MutexInv
<1>8. ListInv' /\ TaskInv' /\ DestroyInv'
  BY DEF ListInv, Gone, TaskInv, HoldsTask, DestroyInv, TornDown
<1>9. QED
  BY <1>4, <1>5, <1>6, <1>7, <1>8

\* A broadcast on queue_not_empty moves sleepers only.
LEMMA BroadcastStep ==
  ASSUME PoolInv, pc' = NotEmptyBroadcast(pc)
  PROVE  /\ pc' \in [Threads -> WorkerStates]
         /\ Running' = Running
         /\ \A w \in Threads : /\ pc'[w] # "waiting"
                               /\ pc'[w] = "toWait" <=> pc[w] = "toWait"
                               /\ pc'[w] = "leaving" <=> pc[w] = "leaving"
                               /\ pc'[w] = "popped" <=> pc[w] = "popped"
                               /\ Gone(w)' <=> Gone(w)
                               /\ HoldsTask(w)' <=> HoldsTask(w)
BY DEF PoolInv, TypeOK, WorkerStates, NotEmptyBroadcast, Running, HoldsTask,
       Gone

LEMMA ManagerWakeInv ==
  ASSUME PoolInv, ManagerWake
  PROVE  PoolInv'
<1> USE DEF ManagerWake, PoolInv, queueVars, managerVars, destroyVars
<1>1. CASE rounds > 0
  <2> USE <1>1
  <2>1. TypeOK'
    BY BroadcastStep DEF TypeOK
  <2>2. ShedIsSane' /\ LeaveInv' /\ PoolFloor'
    BY BroadcastStep, QuietStep
  <2>3. WorkIsSeen' /\ SpaceIsSeen' /\ QueueBounded'
    BY BroadcastStep DEF WorkIsSeen, SpaceIsSeen, QueueBounded, TornDown
  <2>4. MutexInv'
    BY BroadcastStep DEF MutexInv
  <2>5. ListInv' /\ TaskInv' /\ DestroyInv'
    BY BroadcastStep DEF ListInv, TaskInv, DestroyInv, TornDown
  <2>6. QED
    BY <2>1, <2>2, <2>3, <2>4, <2>5
<1>2. CASE ~(rounds > 0)
  <2> USE <1>2
  <2>1. TypeOK'
    BY DEF TypeOK, ManagerStates
  <2>2. ShedIsSane' /\ LeaveInv' /\ PoolFloor'
    BY DEF Running, ShedIsSane, LeaveInv, PoolFloor, TornDown
  <2>3. WorkIsSeen' /\ SpaceIsSeen' /\ QueueBounded'
    BY DEF WorkIsSeen, SpaceIsSeen, QueueBounded, TornDown
  <2>4. MutexInv'
    BY DEF MutexInv
  <2>5. ListInv' /\ TaskInv' /\ DestroyInv'
    BY DEF ListInv, Gone, TaskInv, HoldsTask, DestroyInv, TornDown
  <2>6. QED
    BY <2>1, <2>2, <2>3, <2>4, <2>5
<1>3. QED
  BY <1>1, <1>2

LEMMA ManagerInv ==
  ASSUME PoolInv, thread_manager
  PROVE  PoolInv'
BY ManagerTestInv, ManagerGrowInv, ManagerTrimInv, ManagerShedInv,
   ManagerWakeInv
DEF thread_manager
-----------------------------------------------------------------------------
LEMMA CallInv ==
  ASSUME PoolInv, NEW p \in Producers, Call(p)
  PROVE  PoolInv'
<1> USE DEF Call, PoolInv, queueVars, managerVars, destroyVars
<1>1. TypeOK'
  BY DEF TypeOK, CallerStates
<1>2. ShedIsSane' /\ LeaveInv' /\ PoolFloor'
  BY DEF Running, ShedIsSane, LeaveInv, PoolFloor, TornDown
<1>3. WorkIsSeen' /\ SpaceIsSeen' /\ QueueBounded'
  BY DEF TypeOK, WorkIsSeen, SpaceIsSeen, QueueBounded, TornDown
<1>4. MutexInv' /\ ListInv' /\ TaskInv' /\ DestroyInv'
  BY DEF MutexInv, ListInv, Gone, TaskInv, HoldsTask, DestroyInv, TornDown
<1>5. QED
  BY <1>1, <1>2, <1>3, <1>4

LEMMA AddTaskPushInv ==
  ASSUME PoolInv, NEW p \in Producers, Threadp_AddTask(p), AddTaskPush(p)
  PROVE  PoolInv'
<1> USE DEF Threadp_AddTask, AddTaskPush, PoolInv, managerVars, destroyVars
<1>1. /\ accepted' \in 1..MaxTasks
      /\ task_queue' \in Seq(1..MaxTasks)
      /\ Len(task_queue') = Len(task_queue) + 1
      /\ Len(task_queue) \in Nat
  <2>1. accepted' \in 1..MaxTasks
    BY ThreadPoolAssumption DEF TypeOK
  <2>2. QED
    BY <2>1, AppendProperties, LenProperties DEF TypeOK
<1>2. TypeOK'
  BY <1>1, BroadcastStep DEF TypeOK, CallerStates
<1>3. ShedIsSane' /\ LeaveInv' /\ PoolFloor'
  BY BroadcastStep, QuietStep
<1>4. WorkIsSeen'
  BY BroadcastStep, ThreadPoolAssumption
  DEF TypeOK, MutexInv, WorkIsSeen, TornDown
<1>5. SpaceIsSeen'
  BY <1>1, BroadcastStep DEF TypeOK, SpaceIsSeen, TornDown
<1>6. QueueBounded'
  BY <1>1, ThreadPoolAssumption DEF QueueBounded
<1>7. MutexInv' /\ ListInv' /\ TaskInv' /\ DestroyInv'
  BY BroadcastStep DEF MutexInv, ListInv, TaskInv, DestroyInv, TornDown
<1>8. QED
  BY <1>2, <1>3, <1>4, <1>5, <1>6, <1>7

\* A caller goes to sleep on a full queue, or gives up on a closed pool.
LEMMA AddTaskOtherInv ==
  ASSUME PoolInv, NEW p \in Producers, Threadp_AddTask(p),
         AddTaskWait(p) \/ AddTaskRefuse(p)
  PROVE  PoolInv'
<1> USE DEF Threadp_AddTask, AddTaskWait, AddTaskRefuse, PoolInv, queueVars,
            managerVars, destroyVars
<1>1. TypeOK'
  BY DEF TypeOK, CallerStates
<1>2. ShedIsSane' /\ LeaveInv' /\ PoolFloor'
  BY DEF Running, ShedIsSane, LeaveInv, PoolFloor, TornDown
<1>3. WorkIsSeen' /\ QueueBounded'
  BY DEF WorkIsSeen, QueueBounded, TornDown
<1>4. SpaceIsSeen'
  BY DEF TypeOK, SpaceIsSeen, TornDown
<1>5. MutexInv' /\ ListInv' /\ TaskInv' /\ DestroyInv'
  BY DEF MutexInv, ListInv, Gone, TaskInv, HoldsTask, DestroyInv, TornDown
<1>6. QED
  BY <1>1, <1>2, <1>3, <1>4, <1>5

LEMMA CallerInv ==
  ASSUME PoolInv, NEW p \in Producers, Call(p) \/ Threadp_AddTask(p)
  PROVE  PoolInv'
BY CallInv, AddTaskPushInv, AddTaskOtherInv DEF Threadp_AddTask
-----------------------------------------------------------------------------
\* Steps of DestoryThreadPool before it frees the list.
LEMMA DestroyFirstInv ==
  ASSUME PoolInv, DestroyBegin \/ DestroyJoinAdmin
  PROVE  PoolInv'
<1> USE DEF DestroyBegin, DestroyJoinAdmin, PoolInv, queueVars, managerVars
<1>1. TypeOK'
  <2>1. Cardinality(threads) \in Nat
    BY ThreadSets DEF TypeOK
  <2>2. QED
    BY <2>1 DEF TypeOK, DestroyStates
<1>2. ShedIsSane' /\ LeaveInv' /\ PoolFloor'
  BY DEF Running, ShedIsSane, LeaveInv, PoolFloor, TornDown
<1>3. WorkIsSeen' /\ SpaceIsSeen' /\ QueueBounded'
  BY DEF WorkIsSeen, SpaceIsSeen, QueueBounded, TornDown
<1>4. MutexInv' /\ ListInv' /\ TaskInv' /\ DestroyInv'
  BY DEF MutexInv, ListInv, Gone, TaskInv, HoldsTask, DestroyInv, TornDown
<1>5. QED
  BY <1>1, <1>2, <1>3, <1>4

LEMMA DestroyBroadcastInv ==
  ASSUME PoolInv, DestroyBroadcast
  PROVE  PoolInv'
<1> USE DEF DestroyBroadcast, PoolInv, queueVars, managerVars
<1>1. TypeOK'
  BY BroadcastStep DEF TypeOK
<1>2. ShedIsSane' /\ LeaveInv' /\ PoolFloor'
  BY BroadcastStep, QuietStep
<1>3. WorkIsSeen' /\ SpaceIsSeen' /\ QueueBounded'
  BY BroadcastStep DEF WorkIsSeen, SpaceIsSeen, QueueBounded, TornDown
<1>4. MutexInv' /\ ListInv' /\ TaskInv' /\ DestroyInv'
  BY BroadcastStep DEF MutexInv, ListInv, TaskInv, DestroyInv, TornDown
<1>5. QED
  BY <1>1, <1>2, <1>3, <1>4

\* Once the list is freed nothing is claimed of it.
LEMMA DestroyWalkInv ==
  ASSUME PoolInv, DestroyHead \/ DestroyJoin \/ DestroyJoinFreed
  PROVE  PoolInv'
<1> USE DEF DestroyHead, DestroyJoin, DestroyJoinFreed, StepOver, PoolInv,
            queueVars, managerVars
<1>1. TypeOK'
  BY DEF TypeOK, DestroyStates, DestroyInv
<1>2. ShedIsSane' /\ LeaveInv' /\ PoolFloor'
  BY DEF Running, ShedIsSane, LeaveInv, PoolFloor, TornDown, DestroyInv
<1>3. WorkIsSeen' /\ SpaceIsSeen' /\ QueueBounded'
  BY DEF WorkIsSeen, SpaceIsSeen, QueueBounded, TornDown
<1>4. MutexInv' /\ ListInv' /\ TaskInv' /\ DestroyInv'
  BY DEF TypeOK, MutexInv, ListInv, Gone, TaskInv, HoldsTask, DestroyInv, TornDown
<1>5. QED
  BY <1>1, <1>2, <1>3, <1>4

LEMMA DestroyLastInv ==
  ASSUME PoolInv, DestroyDrain \/ DestroyEnd
  PROVE  PoolInv'
<1> USE DEF DestroyDrain, DestroyEnd, PoolInv, queueVars, managerVars,
            destroyVars
<1>1. task_queue # <<>> => /\ Tail(task_queue) \in Seq(1..MaxTasks)
                           /\ Len(Tail(task_queue)) = Len(task_queue) - 1
                           /\ Len(task_queue) \in Nat
  BY HeadTailProperties, LenProperties DEF TypeOK
<1>2. TypeOK'
  <2>1. CASE DestroyDrain
    <3>1. task_queue' \in Seq(1..MaxTasks)
      BY <1>1, <2>1
    <3>2. UNCHANGED <<accepted, threads, busy_thrd_num, exit_thread_num,
                      pool_mutex, shutdown, pc, tk, caller, mgr, rounds, dst,
                      owed, travelPoint, joined>>
      BY <2>1
    <3>3. QED
      BY <3>1, <3>2 DEF TypeOK
  <2>2. CASE DestroyEnd
    BY <2>2 DEF TypeOK, DestroyStates
  <2>3. QED
    BY <2>1, <2>2
<1>3. ShedIsSane' /\ LeaveInv' /\ PoolFloor'
  BY DEF Running, ShedIsSane, LeaveInv, PoolFloor, TornDown, DestroyInv
<1>4. WorkIsSeen' /\ SpaceIsSeen' /\ QueueBounded'
  BY <1>1, ThreadPoolAssumption
  DEF WorkIsSeen, SpaceIsSeen, QueueBounded, TornDown
<1>5. MutexInv' /\ ListInv' /\ TaskInv' /\ DestroyInv'
  BY DEF MutexInv, ListInv, Gone, TaskInv, HoldsTask, DestroyInv, TornDown
<1>6. QED
  BY <1>2, <1>3, <1>4, <1>5

LEMMA DestroyerInv ==
  ASSUME PoolInv, DestoryThreadPool
  PROVE  PoolInv'
BY DestroyFirstInv, DestroyBroadcastInv, DestroyWalkInv, DestroyLastInv
DEF DestoryThreadPool
-----------------------------------------------------------------------------
LEMMA InitInv == Init => PoolInv
<1> SUFFICES ASSUME Init PROVE PoolInv
  OBVIOUS
<1> USE DEF Init
<1>1. TypeOK
  <2>1. <<>> \in Seq(1..MaxTasks)
    BY EmptySeq
  <2>2. /\ accepted \in 0..MaxTasks
        /\ tk \in [Threads -> 0..MaxTasks]
    BY ThreadPoolAssumption
  <2>3. /\ pc \in [Threads -> WorkerStates]
        /\ caller \in [Producers -> CallerStates]
        /\ mgr \in ManagerStates /\ dst \in DestroyStates
    BY DEF WorkerStates, CallerStates, ManagerStates, DestroyStates
  <2>4. QED
    BY <2>1, <2>2, <2>3 DEF TypeOK
<1>2. Cardinality(threads) \in Nat \ {0} /\ Cardinality(threads) = max_thrd_num
  BY ThreadSets DEF max_thrd_num
<1>3. ShedIsSane
  <2>1. Running = {}
    BY DEF Running
  <2>2. QED
    BY <2>1, FS_EmptySet DEF ShedIsSane
<1>4. WorkIsSeen /\ SpaceIsSeen /\ PoolFloor /\ LeaveInv
  BY <1>2 DEF WorkIsSeen, SpaceIsSeen, PoolFloor, LeaveInv, TornDown
<1>5. QueueBounded
  BY EmptySeq, ThreadPoolAssumption DEF QueueBounded
<1>6. MutexInv /\ ListInv /\ TaskInv /\ DestroyInv
  BY ThreadPoolAssumption
  DEF MutexInv, ListInv, Gone, TaskInv, HoldsTask, DestroyInv, TornDown
<1>7. QED
  BY <1>1, <1>3, <1>4, <1>5, <1>6 DEF PoolInv

LEMMA StutterInv ==
  ASSUME PoolInv, UNCHANGED vars
  PROVE  PoolInv'
BY DEF vars, PoolInv, TypeOK, WorkIsSeen, SpaceIsSeen, QueueBounded, PoolFloor,
       Running, ShedIsSane, MutexInv, ListInv, Gone, TaskInv, HoldsTask, LeaveInv,
       DestroyInv, TornDown

\* The pool keeps its inductive invariant, for any number of threads, callers
\* and tasks, whether or not it is destroyed: the shared counters, the two
\* condition variables and the list stay in step (thread_worker,
\* thread_manager, Threadp_AddTask, DestoryThreadPool).
THEOREM PoolInvariant == Spec => []PoolInv
<1>1. PoolInv /\ [Next]_vars => PoolInv'
  BY WorkerInv, ManagerInv, CallerInv, DestroyerInv, StutterInv DEF Next
<1>2. QED
  BY <1>1, InitInv, PTL DEF Spec

\* Every variable keeps its type; that the counters never go negative takes
\* the whole invariant.
THEOREM PoolTypes == Spec => []TypeOK
<1>1. PoolInv => TypeOK
  BY DEF PoolInv
<1>2. QED
  BY <1>1, PoolInvariant, PTL

\* No wakeup on queue_not_empty is lost (lines 76-98, 221).
THEOREM NoWorkerOversleeps == Spec => []WorkIsSeen
<1>1. PoolInv => WorkIsSeen
  BY DEF PoolInv
<1>2. QED
  BY <1>1, PoolInvariant, PTL

\* No wakeup on queue_not_full is lost (lines 108-110, 208-211).
THEOREM NoCallerOversleeps == Spec => []SpaceIsSeen
<1>1. PoolInv => SpaceIsSeen
  BY DEF PoolInv
<1>2. QED
  BY <1>1, PoolInvariant, PTL

\* The queue never holds more than max_queue_size tasks (lines 203-215).
THEOREM QueueKeepsLimit == Spec => []QueueBounded
<1>1. PoolInv => QueueBounded
  BY DEF PoolInv
<1>2. QED
  BY <1>1, PoolInvariant, PTL

\* A pool that can shrink keeps min_thrd_num workers, however late those told
\* to leave act on it (lines 80-98, 151-156).
THEOREM PoolKeepsFloor == Spec => []PoolFloor
<1>1. PoolInv => PoolFloor
  BY DEF PoolInv
<1>2. QED
  BY <1>1, PoolInvariant, PTL

\* The manager counts the workers inside a task right without their mutex, and
\* tells some of the others to leave but never all (lines 112-120, 151-156).
THEOREM SheddingIsSane == Spec => []ShedIsSane
<1>1. PoolInv => ShedIsSane
  BY DEF PoolInv
<1>2. QED
  BY <1>1, PoolInvariant, PTL
-----------------------------------------------------------------------------
\* A pool whose min_thrd_num is at least its size, as main builds it, has all
\* its threads on the list until DestoryThreadPool frees it (lines 151-156).
LEMMA RigidPool ==
  ASSUME min_thrd_num >= max_thrd_num, PoolInv, ~TornDown
  PROVE  threads = Threads
<1> USE DEF PoolInv
<1>1. Cardinality(threads) >= max_thrd_num
  <2>1. Cardinality(threads) \in Nat /\ max_thrd_num \in Nat
    BY ThreadSets DEF TypeOK, max_thrd_num
  <2>2. \/ Cardinality(threads) >= min_thrd_num
        \/ Cardinality(threads) = max_thrd_num
    BY DEF PoolFloor
  <2>3. QED
    BY <2>1, <2>2, ThreadPoolAssumption
<1>2. Cardinality(threads) = Cardinality(Threads)
  BY <1>1, ThreadSets DEF TypeOK, max_thrd_num
<1>3. QED
  BY <1>2, FS_Subset, ThreadPoolAssumption DEF TypeOK

\* Such a pool never sheds: DestoryThreadPool walks a list nobody else changes
\* (lines 151-156, 244-250).
THEOREM RigidPoolWalksSafely ==
  ASSUME min_thrd_num >= max_thrd_num
  PROVE  Spec => []WalkOnLiveNodes
<1>1. PoolInv => WalkOnLiveNodes
  BY RigidPool DEF PoolInv, DestroyInv, TornDown, WalkOnLiveNodes
<1>2. QED
  BY <1>1, PoolInvariant, PTL
-----------------------------------------------------------------------------
Ended(w) == pc[w] \in {"absent", "exited"}

\* What the walk of DestoryThreadPool has established so far.
JoinInv ==
  /\ \A w \in joined : Ended(w)
  /\ dst \in {"drain", "destroyed"} =>
       \A w \in Threads : Ended(w) \/ pc[w] = "leaving"
  /\ dst = "destroyed" => task_queue = <<>>

\* Workers and the manager never revive a thread that was joined.
LEMMA JoinInvThreads ==
  ASSUME PoolInv, JoinInv,
         (\E w \in Threads : thread_worker(w)) \/ thread_manager
  PROVE  JoinInv'
<1> USE DEF JoinInv, Ended, PoolInv, queueVars, managerVars, destroyVars
<1>1. ASSUME NEW w \in Threads, thread_worker(w)
      PROVE  JoinInv'
  <2>1. ~Ended(w)
    BY <1>1
    DEF thread_worker, WorkerLock, WorkerSleep, SpuriousWakeup, WorkerStay,
        WorkerLeave, WorkerExit, LeaverDies, WorkerSignal, WorkerRun, WorkerDone
  <2>2. CASE WorkerExit(w)
    BY <2>2 DEF TypeOK, WorkerExit
  <2>3. CASE LeaverDies(w)
    BY <2>3 DEF TypeOK, LeaverDies
  <2>4. CASE ~WorkerExit(w) /\ ~LeaverDies(w)
    <3>1. pc[w] # "leaving"
      BY <1>1, <2>4
      DEF thread_worker, WorkerLock, WorkerSleep, SpuriousWakeup, WorkerStay,
          WorkerLeave, WorkerSignal, WorkerRun, WorkerDone
    <3>2. /\ UNCHANGED <<dst, joined>>
          /\ \A v \in Threads \ {w} : pc'[v] = pc[v]
      BY <1>1, <2>4
      DEF TypeOK, thread_worker, WorkerLock, WorkerSleep, SpuriousWakeup,
          WorkerStay, WorkerLeave, WorkerSignal, WorkerRun, WorkerDone,
          LookForWork, FindNothing, FindShutdown, FindTask
    <3>3. w \notin joined /\ dst \notin {"drain", "destroyed"}
      BY <2>1, <3>1
    <3>4. QED
      BY <3>2, <3>3 DEF TypeOK
  <2>5. QED
    BY <2>2, <2>3, <2>4
<1>2. ASSUME ManagerGrow
      PROVE  JoinInv'
  <2>1. mgr # "exited" /\ UNCHANGED <<task_queue, dst, joined>>
    BY <1>2 DEF ManagerGrow
  <2>2. dst \in {"none", "joinAdmin"}
    BY <2>1 DEF DestroyInv
  <2>3. QED
    BY <2>1, <2>2 DEF DestroyInv
<1>3. ASSUME ManagerTest \/ ManagerTrim \/ ManagerShed \/ ManagerWake
      PROVE  JoinInv'
  <2>1. UNCHANGED <<task_queue, dst, joined>>
    BY <1>3 DEF ManagerTest, ManagerTrim, ManagerShed, ManagerWake
  <2>2. pc' = pc \/ pc' = NotEmptyBroadcast(pc)
    BY <1>3 DEF ManagerTest, ManagerTrim, ManagerShed, ManagerWake
  <2>3. \A w \in Threads : /\ Ended(w) => Ended(w)'
                           /\ pc[w] = "leaving" => pc'[w] = "leaving"
    BY <2>2 DEF NotEmptyBroadcast
  <2>4. joined \subseteq Threads
    BY DEF TypeOK
  <2>5. QED
    BY <2>1, <2>3, <2>4
<1>4. QED
  BY <1>1, <1>2, <1>3 DEF thread_manager

LEMMA JoinInvCallers ==
  ASSUME PoolInv, JoinInv,
         NEW p \in Producers, Call(p) \/ Threadp_AddTask(p)
  PROVE  JoinInv'
<1> USE DEF JoinInv, Ended, PoolInv, queueVars, managerVars, destroyVars
<1>1. UNCHANGED <<dst, joined>> /\ (dst = "destroyed" => UNCHANGED task_queue)
  BY DEF Call, Threadp_AddTask, AddTaskWait, AddTaskRefuse, AddTaskPush
<1>2. pc' = pc \/ pc' = NotEmptyBroadcast(pc)
  BY DEF Call, Threadp_AddTask, AddTaskWait, AddTaskRefuse, AddTaskPush
<1>3. \A w \in Threads : /\ Ended(w) => Ended(w)'
                         /\ pc[w] = "leaving" => pc'[w] = "leaving"
  BY <1>2 DEF NotEmptyBroadcast
<1>4. joined \subseteq Threads
  BY DEF TypeOK
<1>5. QED
  BY <1>1, <1>3, <1>4

LEMMA JoinInvDestroyer ==
  ASSUME PoolInv, JoinInv, DestoryThreadPool
  PROVE  JoinInv'
<1> USE DEF JoinInv, Ended, PoolInv, queueVars, managerVars, destroyVars
<1>1. ASSUME DestroyBegin \/ DestroyJoinAdmin \/ DestroyDrain \/ DestroyEnd
      PROVE  JoinInv'
  BY <1>1 DEF DestroyBegin, DestroyJoinAdmin, DestroyDrain, DestroyEnd
<1>2. ASSUME DestroyBroadcast
      PROVE  JoinInv'
  BY <1>2 DEF DestroyBroadcast, DestroyInv
<1>3. ASSUME DestroyHead \/ DestroyJoin \/ DestroyJoinFreed
      PROVE  JoinInv'
  <2>1. pc' = pc /\ ~TornDown
    BY <1>3 DEF DestroyHead, DestroyJoin, DestroyJoinFreed, TornDown
  <2>2. \A w \in Threads \ threads : Ended(w) \/ pc[w] = "leaving"
    BY <2>1 DEF ListInv, Gone
  <2>3. \A w \in joined' : Ended(w)
    BY <1>3
    DEF DestroyHead, DestroyJoin, DestroyJoinFreed, DestroyInv
  <2>4. dst' = "drain" => threads \subseteq joined'
    BY <1>3 DEF DestroyHead, DestroyJoin, DestroyJoinFreed, StepOver
  <2>5. dst' \in {"walk", "drain", "crashed"}
    BY <1>3 DEF DestroyHead, DestroyJoin, DestroyJoinFreed, StepOver
  <2>6. QED
    BY <2>1, <2>2, <2>3, <2>4, <2>5
<1>4. QED
  BY <1>1, <1>2, <1>3 DEF DestoryThreadPool

LEMMA JoinInvariant == Spec => []JoinInv
<1>1. Init => JoinInv
  BY DEF Init, JoinInv
<1>2. PoolInv /\ JoinInv /\ [Next]_vars => JoinInv'
  <2>1. PoolInv /\ JoinInv /\ UNCHANGED vars => JoinInv'
    BY DEF vars, JoinInv, Ended
  <2>2. QED
    BY <2>1, JoinInvThreads, JoinInvCallers, JoinInvDestroyer DEF Next
<1>3. QED
  BY <1>1, <1>2, PoolInvariant, PTL DEF Spec

\* When DestoryThreadPool has freed the pool, shrinking or not, no task is left
\* behind and no worker of the list is left; of the leavers one at most is not
\* gone yet, and all it still does is to release pool_mutex (lines 91-97,
\* 237-266).
THEOREM DestroyIsFinal == Spec => []DestroyedMeansStopped
<1>1. PoolInv /\ JoinInv => DestroyedMeansStopped
  BY DEF PoolInv, JoinInv, Ended, Gone, MutexInv, TaskInv, HoldsTask,
         DestroyedMeansStopped
<1>2. QED
  BY <1>1, PoolInvariant, JoinInvariant, PTL

\* Nobody leaves a pool of fixed size, so that all its threads have been joined
\* when the mutexes are destroyed.
StayInv == \A w \in Threads : ~Gone(w)

\* In such a pool, the one main builds, every worker has ended and none holds
\* pool_mutex when DestoryThreadPool destroys it (lines 91-97, 237-266).
THEOREM RigidPoolLeavesNobody ==
  ASSUME min_thrd_num >= max_thrd_num
  PROVE  Spec => []NobodyLeftBehind
<1>1. Init => StayInv
  BY DEF Init, StayInv, Gone
<1>2. PoolInv /\ JoinInv /\ StayInv /\ [Next]_vars => StayInv'
  <2> SUFFICES ASSUME PoolInv, JoinInv, StayInv, [Next]_vars
               PROVE  StayInv'
    OBVIOUS
  <2> USE DEF PoolInv
  <2>1. ASSUME NEW w \in Threads, thread_worker(w), dst # "crashed"
        PROVE  StayInv'
    <3>1. ~WorkerLeave(w)
      <4>1. CASE ~TornDown
        <5>1. threads = Threads /\ max_thrd_num \in Nat
          BY <4>1, RigidPool, ThreadSets DEF max_thrd_num
        <5>2. exit_thread_num <= 0
          BY <4>1, <5>1, ThreadPoolAssumption DEF TypeOK, LeaveInv, max_thrd_num
        <5>3. QED
          BY <5>2 DEF WorkerLeave, TypeOK
      <4>2. CASE dst \in {"drain", "destroyed"}
        BY <4>2 DEF WorkerLeave, JoinInv, Ended
      <4>3. QED
        BY <2>1, <4>1, <4>2 DEF TornDown
    <3>2. ~WorkerExit(w)
      BY DEF WorkerExit, StayInv, Gone
    <3>3. QED
      BY <2>1, <3>1, <3>2
      DEF TypeOK, StayInv, Gone, thread_worker, WorkerLock, WorkerSleep,
          SpuriousWakeup, WorkerStay, LeaverDies, WorkerSignal, WorkerRun,
          WorkerDone, LookForWork, FindNothing, FindShutdown, FindTask
  <2>2. CASE thread_manager
    BY <2>2
    DEF StayInv, Gone, thread_manager, ManagerTest, ManagerGrow, ManagerTrim,
        ManagerShed, ManagerWake, NotEmptyBroadcast
  <2>3. ASSUME NEW p \in Producers, Call(p) \/ Threadp_AddTask(p)
        PROVE  StayInv'
    BY <2>3
    DEF StayInv, Gone, Call, Threadp_AddTask, AddTaskWait, AddTaskRefuse,
        AddTaskPush, NotEmptyBroadcast
  <2>4. CASE DestoryThreadPool
    BY <2>4
    DEF StayInv, Gone, DestoryThreadPool, DestroyBegin, DestroyJoinAdmin,
        DestroyBroadcast, DestroyHead, DestroyJoin, DestroyJoinFreed,
        DestroyDrain, DestroyEnd, NotEmptyBroadcast
  <2>5. CASE UNCHANGED vars
    BY <2>5 DEF vars, StayInv, Gone
  <2>6. QED
    BY <2>1, <2>2, <2>3, <2>4, <2>5 DEF Next
<1>3. PoolInv /\ JoinInv /\ StayInv => NobodyLeftBehind
  <2> SUFFICES ASSUME PoolInv, JoinInv, StayInv, dst = "destroyed"
               PROVE  NobodyLeftBehind
    BY DEF NobodyLeftBehind
  <2>1. \A w \in Threads : pc[w] = "exited"
    BY DEF JoinInv, Ended, StayInv, Gone
  <2>2. mgr = "exited"
    BY DEF PoolInv, DestroyInv
  <2>3. pool_mutex = Nobody
    BY <2>1, <2>2 DEF PoolInv, TypeOK, MutexInv
  <2>4. QED
    BY <2>1, <2>3 DEF NobodyLeftBehind
<1>4. QED
  BY <1>1, <1>2, <1>3, PoolInvariant, JoinInvariant, PTL DEF Spec

-----------------------------------------------------------------------------
\* Every step of the pool is a step of the bounded FIFO it promises or leaves
\* the queue, the running tasks and the flag alone.
LEMMA WorkerSimulates ==
  ASSUME PoolInv, NEW w \in Threads, thread_worker(w)
  PROVE  [TP!Next]_(TP!poolVars)
<1> USE DEF PoolInv, queueVars, managerVars, destroyVars, TP!poolVars
<1>1. CASE LookForWork(w) /\ pc[w] \in {"lock", "woken"}
  <2>1. CASE FindTask(w)
    <3>1. tk[w] = 0
      BY <1>1 DEF TaskInv, HoldsTask
    <3>2. TP!Start(w)
      BY <1>1, <2>1, <3>1 DEF LookForWork, FindTask, TP!Start
    <3>3. QED
      BY <3>2 DEF TP!Next
  <2>2. CASE FindNothing(w) \/ FindShutdown(w)
    BY <1>1, <2>2 DEF LookForWork, FindNothing, FindShutdown
  <2>3. QED
    BY <1>1, <2>1, <2>2 DEF LookForWork
<1>2. CASE WorkerDone(w)
  <2>1. tk[w] # 0
    BY <1>2 DEF WorkerDone, TaskInv, HoldsTask
  <2>2. TP!Finish(w)
    BY <1>2, <2>1 DEF WorkerDone, TP!Finish
  <2>3. QED
    BY <2>2 DEF TP!Next
<1>3. CASE \/ WorkerSleep(w) \/ SpuriousWakeup(w) \/ WorkerLeave(w)
           \/ WorkerExit(w) \/ LeaverDies(w) \/ WorkerSignal(w)
           \/ WorkerRun(w)
  BY <1>3 DEF WorkerSleep, SpuriousWakeup, WorkerLeave, WorkerExit, LeaverDies,
              WorkerSignal, WorkerRun
<1>4. QED
  BY <1>1, <1>2, <1>3 DEF thread_worker, WorkerLock, WorkerStay

LEMMA OthersSimulate ==
  ASSUME PoolInv,
         \/ thread_manager
         \/ \E p \in Producers : Call(p) \/ Threadp_AddTask(p)
         \/ DestoryThreadPool
  PROVE  [TP!Next]_(TP!poolVars)
<1> USE DEF PoolInv, queueVars, managerVars, destroyVars, TP!poolVars
<1>1. CASE thread_manager
  BY <1>1 DEF thread_manager, ManagerTest, ManagerGrow, ManagerTrim,
              ManagerShed, ManagerWake
<1>2. ASSUME NEW p \in Producers, Call(p) \/ Threadp_AddTask(p)
      PROVE  [TP!Next]_(TP!poolVars)
  <2>1. CASE Threadp_AddTask(p) /\ AddTaskPush(p)
    <3>1. accepted' \in 1..MaxTasks
      BY <2>1, ThreadPoolAssumption DEF AddTaskPush, TypeOK
    <3>2. /\ Len(task_queue) \in Nat
          /\ Len(task_queue) < max_queue_size
      BY <2>1, LenProperties, ThreadPoolAssumption
      DEF AddTaskPush, TypeOK, QueueBounded
    <3>3. TP!Submit(accepted')
      BY <2>1, <3>2 DEF Threadp_AddTask, AddTaskPush, TP!Submit
    <3>4. QED
      BY <3>1, <3>3 DEF TP!Next
  <2>2. CASE Call(p) \/ (Threadp_AddTask(p) /\ ~AddTaskPush(p))
    BY <2>2 DEF Call, Threadp_AddTask, AddTaskWait, AddTaskRefuse
  <2>3. QED
    BY <1>2, <2>1, <2>2
<1>3. CASE DestoryThreadPool
  <2>1. CASE DestroyBegin
    BY <2>1 DEF DestroyBegin, TP!Next, TP!Close
  <2>2. CASE DestroyDrain
    BY <2>2 DEF DestroyDrain, DestroyInv, TP!Next, TP!Discard
  <2>3. CASE \/ DestroyJoinAdmin \/ DestroyBroadcast \/ DestroyHead
             \/ DestroyJoin \/ DestroyJoinFreed \/ DestroyEnd
    BY <2>3 DEF DestroyJoinAdmin, DestroyBroadcast, DestroyHead, DestroyJoin,
                DestroyJoinFreed, DestroyEnd
  <2>4. QED
    BY <1>3, <2>1, <2>2, <2>3 DEF DestoryThreadPool
<1>4. QED
  BY <1>1, <1>2, <1>3

\* ThreadPool implements TaskPool: each accepted task is handed to one worker,
\* once, in the order of acceptance, and none is started after shutdown.
THEOREM PoolRefinement == Spec => ImplementsTaskPool
<1>1. Init => TP!Init
  BY DEF Init, TP!Init
<1>2. PoolInv /\ [Next]_vars => [TP!Next]_(TP!poolVars)
  <2>1. UNCHANGED vars => UNCHANGED TP!poolVars
    BY DEF vars, TP!poolVars
  <2>2. QED
    BY <2>1, WorkerSimulates, OthersSimulate DEF Next
<1>3. QED
  BY <1>1, <1>2, PoolInvariant, PTL DEF Spec, ImplementsTaskPool, TP!Spec
=============================================================================
