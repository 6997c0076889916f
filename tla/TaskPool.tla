------------------------------ MODULE TaskPool ------------------------------
(***************************************************************************)
(* What ThreadPool.h promises to a caller, with the threads, the mutexes   *)
(* and the condition variables hidden: a bounded FIFO of tasks, each one   *)
(* handed to one worker, until the pool is closed and drops the rest.      *)
(* ThreadPool implements this module; TcpServer is written against it.     *)
(***************************************************************************)
EXTENDS Naturals, Sequences

CONSTANTS Task,        \* what can be queued (a function and its argument)
          Worker,      \* who can run a task
          Capacity,    \* max_queue_size
          NoTask       \* the value of a worker that runs nothing

VARIABLES queue,       \* accepted tasks that nobody has taken, oldest first
          running,     \* the task each worker has taken
          closed       \* the pool takes no further task off the queue to run it

poolVars == <<queue, running, closed>>

Init ==
  /\ queue = <<>>
  /\ running = [w \in Worker |-> NoTask]
  /\ closed = FALSE

Submit(t) ==
  /\ ~closed
  /\ Len(queue) < Capacity
  /\ queue' = Append(queue, t)
  /\ UNCHANGED <<running, closed>>

Start(w) ==
  /\ ~closed
  /\ queue # <<>>
  /\ running[w] = NoTask
  /\ running' = [running EXCEPT ![w] = Head(queue)]
  /\ queue' = Tail(queue)
  /\ UNCHANGED closed

Finish(w) ==
  /\ running[w] # NoTask
  /\ running' = [running EXCEPT ![w] = NoTask]
  /\ UNCHANGED <<queue, closed>>

Close ==
  /\ closed' = TRUE
  /\ UNCHANGED <<queue, running>>

Discard ==
  /\ closed
  /\ queue # <<>>
  /\ queue' = Tail(queue)
  /\ UNCHANGED <<running, closed>>

Next ==
  \/ \E t \in Task : Submit(t)
  \/ \E w \in Worker : Start(w) \/ Finish(w)
  \/ Close
  \/ Discard

Spec == Init /\ [][Next]_poolVars

(***************************************************************************)
(* A queued task is eventually taken by some worker, and a task that was   *)
(* taken eventually returns, as long as the pool stays open.               *)
(***************************************************************************)
Fairness ==
  /\ WF_poolVars(\E w \in Worker : Start(w))
  /\ \A w \in Worker : WF_poolVars(Finish(w))

FairSpec == Spec /\ Fairness
=============================================================================
