------------------------------- MODULE MyVector -------------------------------
(***************************************************************************)
(* KillProcess/src_so/myvector.c: the vector of pids, as a record of what  *)
(* is in it, the capacity it counts with and the slots it really has. The  *)
(* two differ: the capacity doubles, but a grown vector always has the     *)
(* same number of slots (a hundred, line 28).                              *)
(*                                                                         *)
(* An access beyond the slots is undefined, and the caller's business: the *)
(* operators only say when it happens. malloc does not fail.               *)
(***************************************************************************)
EXTENDS Integers, Sequences, FiniteSetsExt

CONSTANTS InitialCapacity,  \* 10 in the source
          GrownSlots        \* 100 in the source

\* The first array must be large enough for one element before the vector
\* grows, and a grown one for what is copied into it then.
ASSUME MyVectorAssumption ==
  /\ InitialCapacity \in Nat \ {0, 1}
  /\ GrownSlots \in Nat
  /\ GrownSlots >= InitialCapacity

init_vector == [nums |-> <<>>, capacity |-> InitialCapacity,
                slots |-> InitialCapacity]

getcount_vector(vect) == Len(vect.nums)

\* Indices start with 0.
pop_vector(vect, index) == vect.nums[index + 1]

\* The element at an index below n may be beyond the slots.
Overruns(vect, n) == n > vect.slots

\* ischeckpid(vect, NULL) compares NULL with the first element.
ComparesNull(vect) == getcount_vector(vect) > 0

\* The new array has as many slots at every growth; the old one is not freed.
expansioncapa(vect) ==
  [nums |-> vect.nums, capacity |-> 2 * vect.capacity, slots |-> GrownSlots]

\* A bug that could be: the old array is kept.
FaultyPush(vect, str) ==
  LET roomy == IF getcount_vector(vect) = vect.capacity - 2
               THEN [vect EXCEPT !.capacity = 2 * @] ELSE vect
  IN  [roomy EXCEPT !.nums = Append(@, str)]

push_vector(vect, str) ==
  LET roomy == IF getcount_vector(vect) = vect.capacity - 2
               THEN expansioncapa(vect) ELSE vect
  IN  [roomy EXCEPT !.nums = Append(@, str)]

\* destory_vector(vect, vect->capacity) frees one slot for each unit of
\* capacity.
DestroyOverruns(vect) == Overruns(vect, vect.capacity)

\* The capacities from the first on, each twice the one before, for which a
\* grown vector has the slots: the least set closed under doubling.
Doubled(S) == /\ InitialCapacity \in S
              /\ \A c \in S : 2 * c <= GrownSlots => 2 * c \in S
Capacities == {c \in 1..GrownSlots :
                 \A S \in SUBSET (1..GrownSlots) : Doubled(S) => c \in S}

\* How many elements a vector can take before it counts on slots it does not
\* have: 78 with the numbers of the source.
SafeCount == Max(Capacities) - 2
===============================================================================
