-------------------------- MODULE KillProcessProofs --------------------------
(* Theorems about KillProcess, for every number of processes, every batch  *)
(* of the listing, every limit on open streams and every vector.           *)
EXTENDS KillProcess, CommonLemmas, TLAPS, FiniteSetTheorems, SequenceTheorems

(* Lemmas about the operators *)

\* The first capacity is one of them, and so is the double of one unless it
\* is more than a grown vector has slots for.
LEMMA CapacitiesDouble ==
  /\ Capacities \in SUBSET (1..GrownSlots)
  /\ Doubled(Capacities)
BY MyVectorAssumption DEF Capacities, Doubled

\* A set of capacities that has the first one, and the double of each that it
\* has, has them all.
LEMMA CapacitiesLeast ==
  ASSUME NEW S \in SUBSET (1..GrownSlots), Doubled(S)
  PROVE  Capacities \subseteq S
BY DEF Capacities

\* There is no capacity between one and its double.
LEMMA CapacitiesApart ==
  ASSUME NEW c \in Capacities, NEW d \in Capacities, c < d
  PROVE  2 * c <= d
<1> DEFINE Apart(x, y) == y <= x \/ 2 * x <= y
           Good == {x \in Capacities : \A y \in Capacities : Apart(x, y)}
<1>1. Capacities \subseteq Nat /\ Doubled(Capacities)
  BY CapacitiesDouble, MyVectorAssumption
<1>2. \A y \in Capacities : y = InitialCapacity \/ 2 * InitialCapacity <= y
  <2> DEFINE S == {y \in Capacities :
                     y = InitialCapacity \/ 2 * InitialCapacity <= y}
  <2>1. ASSUME NEW y \in S, 2 * y <= GrownSlots
        PROVE  2 * y \in S
    <3>1. 2 * y \in Capacities /\ y \in Nat
      BY <1>1, <2>1 DEF Doubled
    <3>2. y = InitialCapacity \/ 2 * InitialCapacity <= y
      OBVIOUS
    <3>3. 2 * InitialCapacity <= 2 * y
      BY <3>1, <3>2, MyVectorAssumption
    <3>4. QED
      BY <3>1, <3>3
  <2>2. Doubled(S)
    BY <1>1, <2>1 DEF Doubled
  <2>3. Capacities \subseteq S
    BY <2>2, CapacitiesLeast, CapacitiesDouble
  <2>4. QED
    BY <2>3
<1>3. InitialCapacity \in Good
  BY <1>1, <1>2, MyVectorAssumption DEF Doubled
<1>4. ASSUME NEW x \in Good, 2 * x <= GrownSlots
      PROVE  2 * x \in Good
  <2> DEFINE S == {y \in Capacities : Apart(2 * x, y)}
  <2>1. InitialCapacity \in S
    <3>1. InitialCapacity \in Capacities /\ x \in Nat
      BY <1>1 DEF Doubled
    <3>2. InitialCapacity <= x
      BY <1>2, <3>1, MyVectorAssumption
    <3>3. QED
      BY <3>1, <3>2, MyVectorAssumption
  <2>2. ASSUME NEW y \in S, 2 * y <= GrownSlots
        PROVE  2 * y \in S
    <3>1. 2 * y \in Capacities /\ y \in Nat /\ x \in Nat
      BY <1>1, <2>2 DEF Doubled
    <3>2. y <= x \/ 2 * x <= y
      OBVIOUS
    <3>3. y <= 2 * x \/ 2 * (2 * x) <= y
      OBVIOUS
    <3>4. 2 * y <= 2 * x \/ 2 * (2 * x) <= 2 * y
      BY <3>1, <3>2, <3>3
    <3>5. QED
      BY <3>1, <3>4
  <2>3. Capacities \subseteq S
    BY <2>1, <2>2, CapacitiesLeast, CapacitiesDouble DEF Doubled
  <2>4. QED
    BY <2>3, <1>1, <1>4 DEF Doubled
<1>5. Capacities \subseteq Good
  <2>1. Doubled(Good)
    BY <1>3, <1>4 DEF Doubled
  <2>2. QED
    BY <2>1, CapacitiesLeast, CapacitiesDouble
<1>6. QED
  BY <1>5, <1>1

\* The capacity that cannot be doubled any more is the largest one.
LEMMA SafeCountIsReached ==
  /\ SafeCount \in Int
  /\ SafeCount + 2 \in Capacities
  /\ \A c \in Capacities : 2 * c > GrownSlots => c = SafeCount + 2
<1>1. /\ Capacities \in SUBSET (0..GrownSlots)
      /\ Capacities # {}
  BY CapacitiesDouble, MyVectorAssumption DEF Doubled
<1>2. Max(Capacities) \in Capacities /\ \A y \in Capacities : Max(Capacities) >= y
  BY <1>1, MaxOfNats, MyVectorAssumption
<1>3. Capacities \subseteq Nat
  BY CapacitiesDouble
<1>4. ASSUME NEW c \in Capacities, 2 * c > GrownSlots
      PROVE  c = Max(Capacities)
  <2>1. Max(Capacities) <= GrownSlots
    <3>1. \A y \in Capacities : y \in 1..GrownSlots
      BY CapacitiesDouble
    <3>2. Max(Capacities) \in 1..GrownSlots
      BY <1>2, <3>1
    <3>3. QED
      BY <3>2
  <2>2. c \in Nat /\ Max(Capacities) \in Nat
    BY <1>2, <1>3
  <2>3. c < Max(Capacities) => 2 * c <= Max(Capacities)
    BY <1>2, CapacitiesApart
  <2>4. QED
    BY <1>2, <1>4, <2>1, <2>2, <2>3, MyVectorAssumption
<1>5. /\ Max(Capacities) \in Nat
      /\ SafeCount \in Int
      /\ SafeCount + 2 = Max(Capacities)
  <2>1. Max(Capacities) \in Nat
    BY <1>2, <1>3
  <2>2. SafeCount = Max(Capacities) - 2
    BY DEF SafeCount
  <2>3. QED
    BY <2>1, <2>2
<1>6. QED
  BY <1>2, <1>4, <1>5
-----------------------------------------------------------------------------
(* The inductive invariant *)

\* The vector has the slots that it counts on until it holds more than
\* SafeCount.
Roomy(v) ==
  /\ getcount_vector(v) <= v.capacity - 2
  /\ \/ v.capacity \in Capacities /\ v.slots >= v.capacity
     \/ getcount_vector(v) > SafeCount

VectInv ==
  /\ Roomy(vect)
  /\ arg.md5 => count = getcount_vector(vect)
  /\ ~arg.md5 => vect = init_vector

\* What has been handed out and what is in the buffer came before pos; the
\* processes in it have been started.
ScanInv ==
  /\ count + Cardinality(batch) <= pos - 1
  /\ batch \subseteq 1..(pos - 1)
  /\ \A p \in batch : proc[p] # "unborn"
  /\ pc = "grep" => cur \in Fileless /\ ~Ahead(cur) /\ leaks < MaxLeaks
  /\ pc = "failed" => leaks >= MaxLeaks

\* Each lost stream was that of another pid without a file, the one that grep
\* is looking at among them.
LookedAt == {p \in Fileless : ~Ahead(p)}
LeakInv ==
  /\ leaks <= Cardinality(LookedAt)
  /\ pc = "grep" => leaks + 1 <= Cardinality(LookedAt)

KillInv ==
  /\ TypeOK
  /\ ScanInv
  /\ LeakInv
  /\ VectInv
  /\ NothingForgotten
  /\ HuntInBounds

LEMMA Bounds ==
  MaxPid \in Nat /\ MaxLeaks \in Nat /\ MaxEvents \in Nat /\ Pid = 1..MaxPid
BY KillProcessAssumption DEF Pid

LEMMA PidSets ==
  /\ Pid \subseteq Nat
  /\ \A S \in SUBSET Pid :
       /\ IsFiniteSet(S) /\ Cardinality(S) \in Nat
       /\ Cardinality(S) = 0 <=> S = {}
  /\ \A S, T \in SUBSET Pid : S \subseteq T => Cardinality(S) <= Cardinality(T)
<1>1. MaxPid \in Nat
  BY KillProcessAssumption
<1>2. IsFiniteSet(Pid)
  BY <1>1, FS_Interval DEF Pid
<1>3. \A S \in SUBSET Pid :
        IsFiniteSet(S) /\ Cardinality(S) \in Nat /\ (Cardinality(S) = 0 <=> S = {})
  BY <1>2, FS_Subset, FS_CardinalityType, FS_EmptySet
<1>4. \A S, T \in SUBSET Pid : S \subseteq T => Cardinality(S) <= Cardinality(T)
  BY <1>3, FS_Subset
<1>5. QED
  BY <1>1, <1>3, <1>4 DEF Pid

\* One pid more or less is one more or less to count.
LEMMA PidCounts ==
  ASSUME NEW S \in SUBSET Pid, NEW p \in Pid
  PROVE  /\ p \notin S => Cardinality(S \cup {p}) = Cardinality(S) + 1
         /\ p \in S => Cardinality(S \ {p}) = Cardinality(S) - 1
BY PidSets, FS_AddElement, FS_RemoveElement

\* push_vector adds one element, and keeps room for the vector until it holds
\* more than SafeCount.
LEMMA PushKeepsRoom ==
  ASSUME NEW v \in [nums : Seq(Pid), capacity : Nat, slots : Nat],
         NEW p \in Pid, Roomy(v)
  PROVE  /\ push_vector(v, p) \in [nums : Seq(Pid), capacity : Nat, slots : Nat]
         /\ push_vector(v, p).nums = Append(v.nums, p)
         /\ getcount_vector(push_vector(v, p)) = getcount_vector(v) + 1
         /\ Roomy(push_vector(v, p))
<1> DEFINE n == getcount_vector(v)
           w == push_vector(v, p)
<1>0. v = [nums |-> v.nums, capacity |-> v.capacity, slots |-> v.slots]
  OBVIOUS
<1>1. /\ v.nums \in Seq(Pid) /\ v.capacity \in Nat /\ v.slots \in Nat
      /\ n \in Nat
  BY LenProperties DEF getcount_vector
<1>2. Append(v.nums, p) \in Seq(Pid) /\ Len(Append(v.nums, p)) = n + 1
  BY <1>1, AppendProperties DEF getcount_vector
<1>3. CASE n = v.capacity - 2
  <2>1. w = [nums |-> Append(v.nums, p), capacity |-> 2 * v.capacity,
             slots |-> GrownSlots]
    <3>1. w = [expansioncapa(v) EXCEPT !.nums = Append(@, p)]
      BY <1>3 DEF push_vector
    <3>2. QED
      BY <1>1, <3>1 DEF expansioncapa
  <2>2. n + 1 <= 2 * v.capacity - 2
    BY <1>1, <1>3
  <2>3. CASE v.capacity \in Capacities /\ 2 * v.capacity <= GrownSlots
    BY <1>1, <1>2, <2>1, <2>2, <2>3, CapacitiesDouble, MyVectorAssumption
    DEF Roomy, Doubled, getcount_vector
  <2>4. CASE v.capacity \in Capacities /\ 2 * v.capacity > GrownSlots
    <3>1. n + 1 > SafeCount
      BY <1>1, <1>3, <2>4, SafeCountIsReached
    <3>2. QED
      BY <1>1, <1>2, <2>1, <2>2, <3>1, MyVectorAssumption
      DEF Roomy, getcount_vector
  <2>5. CASE n > SafeCount
    <3>1. n + 1 > SafeCount
      BY <1>1, <2>5, SafeCountIsReached
    <3>2. QED
      BY <1>1, <1>2, <2>1, <2>2, <3>1, MyVectorAssumption
      DEF Roomy, getcount_vector
  <2>6. QED
    BY <1>1, <2>3, <2>4, <2>5, MyVectorAssumption DEF Roomy
<1>4. CASE n # v.capacity - 2
  <2>1. w = [nums |-> Append(v.nums, p), capacity |-> v.capacity,
             slots |-> v.slots]
    <3>1. w = [v EXCEPT !.nums = Append(@, p)]
      BY <1>4 DEF push_vector
    <3>2. QED
      BY <1>0, <3>1
  <2>2. n + 1 <= v.capacity - 2
    BY <1>1, <1>4 DEF Roomy
  <2>3. n > SafeCount => n + 1 > SafeCount
    BY <1>1, SafeCountIsReached
  <2>4. QED
    BY <1>1, <1>2, <2>1, <2>2, <2>3 DEF Roomy, getcount_vector
<1>5. QED
  BY <1>3, <1>4

LEMMA InitKill == Init => KillInv
<1> SUFFICES ASSUME Init PROVE KillInv
  OBVIOUS
<1> USE DEF Init
<1>1. /\ init_vector \in [nums : Seq(Pid), capacity : Nat, slots : Nat]
      /\ getcount_vector(init_vector) = 0
      /\ Roomy(init_vector)
  BY EmptySeq, CapacitiesDouble, MyVectorAssumption
  DEF init_vector, getcount_vector, Roomy, Doubled
<1>2. TypeOK
  <2>1. proc \in [Pid -> States]
    BY KillProcessAssumption DEF States, Programs
  <2>2. pos \in 1..(MaxPid + 1) /\ 0 \in 0..MaxPid /\ 0 \in 0..MaxLeaks
        /\ 0 \in 0..MaxEvents
    BY KillProcessAssumption
  <2>3. QED
    BY <1>1, <2>1, <2>2 DEF TypeOK, Final
<1>3. ScanInv
  BY FS_EmptySet, KillProcessAssumption DEF ScanInv
<1>4. LeakInv
  BY PidSets DEF LeakInv, LookedAt, Fileless
<1>5. VectInv
  BY <1>1 DEF VectInv
<1>6. NothingForgotten
  BY DEF NothingForgotten, Ahead, Pid
<1>7. QED
  BY <1>2, <1>3, <1>4, <1>5, <1>6 DEF KillInv, HuntInBounds
-----------------------------------------------------------------------------
(* The world *)

\* What a step of the world may do to the processes: none without a file gets
\* one, none is unborn again, and one that begins to run the file is yet to be
\* looked at or is noted in behind.
Tame ==
  /\ UNCHANGED killer
  /\ proc' \in [Pid -> States] /\ executable' \in BOOLEAN
  /\ events' \in 0..MaxEvents /\ behind' \subseteq Pid
  /\ \A q \in Pid :
       /\ q \in Fileless => proc'[q] \notin Programs \cup {"unborn"}
       /\ proc[q] # "unborn" => proc'[q] # "unborn"
       /\ proc'[q] = "target" =>
            proc[q] = "target" \/ Ahead(q) \/ q \in behind'
  /\ behind \subseteq behind'

LEMMA WorldIsTame ==
  ASSUME TypeOK, World
  PROVE  Tame
<1>1. ASSUME NEW p \in Pid, NEW state \in States \ {"unborn"}, Becomes(p, state),
             Happens, executable' = executable,
             proc[p] \in Programs \/ proc[p] = "unborn" \/ state \notin Programs
      PROVE  Tame
  <2>1. /\ UNCHANGED killer
        /\ proc' = [proc EXCEPT ![p] = state]
        /\ events' \in 0..MaxEvents
    <3>1. events \in 0..MaxEvents
      BY DEF TypeOK
    <3>2. UNCHANGED killer /\ events' = events + 1 /\ events < MaxEvents
      BY <1>1 DEF Happens
    <3>3. events' \in 0..MaxEvents
      BY <3>1, <3>2, Bounds
    <3>4. QED
      BY <1>1, <3>2, <3>3 DEF Becomes
  <2>2. /\ behind' \subseteq Pid /\ behind \subseteq behind'
        /\ state = "target" => Ahead(p) \/ p \in behind'
    BY <1>1 DEF Becomes, TypeOK
  <2>3. /\ proc' \in [Pid -> States]
        /\ executable' \in BOOLEAN
    BY <1>1, <2>1 DEF TypeOK
  <2>4. ASSUME NEW q \in Pid
        PROVE  /\ q \in Fileless => proc'[q] \notin Programs \cup {"unborn"}
               /\ proc[q] # "unborn" => proc'[q] # "unborn"
               /\ proc'[q] = "target" =>
                    proc[q] = "target" \/ Ahead(q) \/ q \in behind'
    BY <1>1, <2>1, <2>2 DEF TypeOK, Fileless
  <2>5. QED
    BY <2>1, <2>2, <2>3, <2>4 DEF Tame
<1>2. ASSUME NEW p \in Pid, NEW child \in Pid, Fork(p, child)
      PROVE  Tame
  BY <1>1, <1>2 DEF Fork, States, Programs
<1>3. ASSUME NEW p \in Pid, NEW program \in Programs, Exec(p, program)
      PROVE  Tame
  BY <1>1, <1>3 DEF Exec, States, Programs
<1>4. ASSUME NEW p \in Pid, Exit(p) \/ Reap(p)
      PROVE  Tame
  BY <1>1, <1>4 DEF Exit, Reap, States, Programs
<1>5. QED
  BY <1>2, <1>3, <1>4 DEF World

LEMMA WorldInv ==
  ASSUME KillInv, World
  PROVE  KillInv'
<1> USE DEF KillInv
<1>1. Tame
  BY WorldIsTame
<1>2. /\ arg' = arg /\ pc' = pc /\ cause' = cause /\ pos' = pos
      /\ batch' = batch /\ cur' = cur /\ buf' = buf /\ leaks' = leaks
      /\ count' = count /\ vect' = vect /\ killed' = killed
  BY <1>1 DEF Tame, killer
<1>3. Fileless \subseteq Fileless'
  BY <1>1 DEF Tame, Fileless
<1>4. TypeOK'
  BY <1>1, <1>2 DEF Tame, TypeOK
<1>5. ScanInv'
  BY <1>1, <1>2, <1>3 DEF Tame, TypeOK, ScanInv, Ahead
<1>6. LeakInv'
  <2>1. LookedAt \subseteq LookedAt'
    BY <1>2, <1>3 DEF LookedAt, Ahead
  <2>2. LookedAt \in SUBSET Pid /\ LookedAt' \in SUBSET Pid
    BY DEF LookedAt, Fileless
  <2>3. Cardinality(LookedAt) <= Cardinality(LookedAt')
    BY <2>1, <2>2, PidSets
  <2>4. /\ Cardinality(LookedAt) \in Nat /\ Cardinality(LookedAt') \in Nat
        /\ leaks \in Nat
    <3>1. Cardinality(LookedAt) \in Nat /\ Cardinality(LookedAt') \in Nat
      BY <2>2, PidSets
    <3>2. leaks \in 0..MaxLeaks
      BY DEF TypeOK
    <3>3. QED
      BY <3>1, <3>2, Bounds
  <2>5. QED
    BY <1>2, <2>3, <2>4 DEF LeakInv
<1>7. VectInv' /\ HuntInBounds'
  BY <1>2 DEF VectInv, Roomy, HuntInBounds, getcount_vector
<1>8. NothingForgotten'
  BY <1>1, <1>2 DEF Tame, NothingForgotten, Ahead, Found
<1>9. QED
  BY <1>4, <1>5, <1>6, <1>7, <1>8
-----------------------------------------------------------------------------
(* The killer *)

\* What a step keeps that leaves the vector, its count and the cause alone.
LEMMA SameVector ==
  ASSUME VectInv, HuntInBounds, UNCHANGED <<arg, cause, count, vect>>
  PROVE  VectInv' /\ HuntInBounds'
BY DEF VectInv, Roomy, HuntInBounds, getcount_vector

LEMMA MainKeeps ==
  ASSUME KillInv, Main
  PROVE  KillInv'
<1> USE DEF KillInv, Main, world
<1>1. TypeOK'
  BY DEF TypeOK, Final
<1>2. ScanInv' /\ LeakInv'
  BY DEF ScanInv, LeakInv, LookedAt, Fileless, Ahead
<1>3. NothingForgotten'
  BY DEF NothingForgotten, Ahead, Found, Final
<1>4. QED
  BY <1>1, <1>2, <1>3, SameVector

LEMMA GetdentsKeeps ==
  ASSUME KillInv, Getdents
  PROVE  KillInv'
<1> DEFINE ahead == {p \in Pid : Exists(p) /\ p >= pos}
           full  == Cardinality(batch) = Batch
<1> USE DEF KillInv
<1>1. /\ pc = "getdents"
      /\ UNCHANGED <<proc, executable, events, behind, arg, cause, cur, buf,
                     leaks, count, vect, killed>>
      /\ \/ /\ ahead # {} /\ ~full
            /\ batch' = batch \cup {Min(ahead)}
            /\ pos' = Min(ahead) + 1
            /\ pc' = pc
         \/ /\ ahead # {} /\ full
            /\ pc' = "scan"
            /\ pos' = pos /\ batch' = batch
         \/ /\ ahead = {}
            /\ pos' = MaxPid + 1
            /\ pc' = IF batch = {} THEN "list" ELSE "scan"
            /\ batch' = batch
  BY DEF Getdents, world
<1>2. /\ pos \in Nat /\ pos >= 1 /\ pos <= MaxPid + 1
      /\ batch \in SUBSET Pid /\ Cardinality(batch) \in Nat /\ count \in Nat
      /\ leaks \in Nat
  <2>1. /\ pos \in 1..(MaxPid + 1) /\ batch \in SUBSET Pid
        /\ leaks \in 0..MaxLeaks /\ count \in 0..MaxPid
    BY DEF TypeOK
  <2>2. QED
    BY <2>1, Bounds, PidSets
<1>3. ahead # {} => /\ Min(ahead) \in ahead
                    /\ \A q \in ahead : Min(ahead) <= q
  <2>1. ahead \in SUBSET Nat
    BY PidSets
  <2>2. QED
    BY <2>1, MinOfNats
\* What matters of the three cases: the scan passes only over pids that are
\* not there.
<1>4. /\ pos' \in 1..(MaxPid + 1) /\ pos <= pos'
      /\ batch \subseteq batch' /\ batch' \subseteq Pid
      /\ batch' \subseteq 1..(pos' - 1)
      /\ count + Cardinality(batch') <= pos' - 1
      /\ \A p \in batch' \ batch : p >= pos /\ Exists(p)
      /\ \A p \in Pid : Exists(p) /\ p >= pos => p >= pos' \/ p \in batch'
  <2>1. CASE ahead # {} /\ batch' = batch \cup {Min(ahead)} /\ pos' = Min(ahead) + 1
    <3> DEFINE m == Min(ahead)
    <3>1. /\ m \in Pid /\ m \in Nat /\ m >= pos /\ Exists(m)
          /\ m <= MaxPid
      BY <1>3, <2>1, Bounds
    <3>2. m \notin batch
      BY <1>2, <3>1 DEF ScanInv
    <3>3. Cardinality(batch') = Cardinality(batch) + 1
      BY <1>2, <2>1, <3>1, <3>2, PidCounts
    <3>4. count + Cardinality(batch) <= pos - 1
      BY DEF ScanInv
    <3>5. count + Cardinality(batch') <= pos' - 1
      BY <1>2, <2>1, <3>1, <3>3, <3>4
    <3>6. batch' \subseteq 1..(pos' - 1)
      <4>1. \A q \in batch : q \in 1..(pos - 1)
        BY DEF ScanInv
      <4>2. \A q \in batch : q \in 1..(pos' - 1)
        BY <1>2, <2>1, <3>1, <4>1
      <4>3. m \in 1..(pos' - 1)
        BY <1>2, <2>1, <3>1
      <4>4. QED
        BY <2>1, <4>2, <4>3
    <3>7. \A p \in Pid : Exists(p) /\ p >= pos => p >= pos' \/ p \in batch'
      <4>1. \A p \in ahead : p >= pos' \/ p \in batch'
        BY <1>3, <2>1, <3>1, PidSets
      <4>2. QED
        BY <4>1
    <3>8. pos' \in 1..(MaxPid + 1) /\ pos <= pos'
      BY <1>2, <2>1, <3>1, Bounds
    <3>9. QED
      BY <1>2, <2>1, <3>1, <3>5, <3>6, <3>7, <3>8
  <2>2. CASE ahead # {} /\ pos' = pos /\ batch' = batch
    BY <1>2, <2>2, Bounds DEF ScanInv
  <2>3. CASE ahead = {} /\ pos' = MaxPid + 1 /\ batch' = batch
    <3>1. count + Cardinality(batch) <= MaxPid
      BY <1>2, Bounds DEF ScanInv
    <3>2. batch' \subseteq 1..(pos' - 1)
      BY <1>2, <2>3, Bounds
    <3>3. QED
      BY <1>2, <2>3, <3>1, <3>2, Bounds
  <2>4. QED
    BY <1>1, <2>1, <2>2, <2>3
<1>5. TypeOK'
  <2>1. pc' \in {"getdents", "scan", "list"} /\ (pc' = "scan" => batch' # {})
    <3>1. full => batch # {}
      BY FS_EmptySet, KillProcessAssumption
    <3>2. QED
      BY <1>1, <3>1
  <2>2. QED
    BY <1>1, <1>4, <2>1 DEF TypeOK, Final, getcount_vector
<1>6. ScanInv'
  BY <1>1, <1>4 DEF ScanInv, Exists
<1>7. LeakInv'
  <2>1. \A p \in Pid : Ahead(p)' => Ahead(p)
    BY <1>2, <1>4, PidSets DEF Ahead
  <2>2. LookedAt \subseteq LookedAt'
    BY <1>1, <2>1 DEF LookedAt, Fileless
  <2>3. /\ LookedAt \in SUBSET Pid /\ LookedAt' \in SUBSET Pid
    BY DEF LookedAt, Fileless
  <2>4. Cardinality(LookedAt) <= Cardinality(LookedAt')
    BY <2>2, <2>3, PidSets
  <2>5. Cardinality(LookedAt) \in Nat /\ Cardinality(LookedAt') \in Nat
    BY <2>3, PidSets
  <2>6. pc' # "grep"
    BY <1>1
  <2>7. QED
    BY <1>1, <1>2, <2>4, <2>5, <2>6 DEF LeakInv
<1>8. NothingForgotten'
  <2>1. \A p \in Pid : proc[p] = "target" /\ Ahead(p) => Ahead(p)'
    BY <1>4 DEF Ahead, Exists
  <2>2. QED
    BY <1>1, <2>1 DEF NothingForgotten, Found, Final, getcount_vector, pop_vector
<1>9. QED
  BY <1>1, <1>5, <1>6, <1>7, <1>8, SameVector

\* readdir hands out the first entry of the buffer.
LEMMA FirstEntry ==
  ASSUME TypeOK, ScanInv, pc = "scan"
  PROVE  LET p == Min(batch) IN
         /\ p \in batch /\ p \in Pid /\ p < pos
         /\ proc[p] # "unborn"
         /\ batch \ {p} \in SUBSET Pid
         /\ count + 1 + Cardinality(batch \ {p}) <= pos - 1
         /\ count + 1 \in 0..MaxPid
<1>1. batch \in SUBSET Pid /\ batch # {} /\ batch \in SUBSET Nat
  BY PidSets DEF TypeOK
<1>2. Min(batch) \in batch
  BY <1>1, MinOfNats
<1>3. /\ Min(batch) \in 1..(pos - 1)
      /\ proc[Min(batch)] # "unborn"
      /\ count + Cardinality(batch) <= pos - 1
  BY <1>2 DEF ScanInv
<1>4. /\ Cardinality(batch \ {Min(batch)}) = Cardinality(batch) - 1
      /\ Cardinality(batch) \in Nat /\ Cardinality(batch \ {Min(batch)}) \in Nat
      /\ batch \ {Min(batch)} \in SUBSET Pid
  BY <1>1, <1>2, PidCounts, PidSets
<1>5. pos \in 1..(MaxPid + 1) /\ count \in 0..MaxPid
  BY DEF TypeOK
<1>6. count + 1 + Cardinality(batch \ {Min(batch)}) <= pos - 1
  BY <1>3, <1>4, <1>5, Bounds
<1>7. count + 1 \in 0..MaxPid
  BY <1>4, <1>5, <1>6, Bounds
<1>8. QED
  BY <1>1, <1>2, <1>3, <1>4, <1>5, <1>6, <1>7, PidSets, Bounds

\* A process that has been found: in the vector if the md5 agrees. Should the
\* vector be used beyond its slots, then it holds more than SafeCount.
LEMMA NoteKeeps ==
  ASSUME TypeOK, VectInv, cause = "none", NEW p \in Pid, Note(p),
         UNCHANGED <<arg, killed>>
  PROVE  /\ VectInv' /\ HuntInBounds'
         /\ vect' \in [nums : Seq(Pid), capacity : Nat, slots : Nat]
         /\ count' = count + 1
         /\ getcount_vector(vect)' <= count'
         /\ killed' \in 0..getcount_vector(vect)'
         /\ arg.md5 => vect'.nums = Append(vect.nums, p)
<1>1. /\ vect \in [nums : Seq(Pid), capacity : Nat, slots : Nat]
      /\ getcount_vector(vect) \in Nat /\ count \in Nat
      /\ killed \in 0..getcount_vector(vect)
      /\ getcount_vector(vect) <= count
  <2>1. /\ vect \in [nums : Seq(Pid), capacity : Nat, slots : Nat]
        /\ count \in 0..MaxPid /\ killed \in 0..getcount_vector(vect)
        /\ getcount_vector(vect) <= count
    BY DEF TypeOK
  <2>2. getcount_vector(vect) \in Nat
    BY <2>1, LenProperties DEF getcount_vector
  <2>3. QED
    BY <2>1, <2>2, Bounds
<1>2. arg \in Args /\ arg.md5 \in BOOLEAN
  BY DEF TypeOK, Args
<1>3. CASE arg.md5
  <2>1. vect' = push_vector(vect, p) /\ count' = count + 1
    BY <1>3 DEF Note, get_md5
  <2>2. /\ Roomy(vect)' /\ getcount_vector(vect)' = getcount_vector(vect) + 1
        /\ vect' \in [nums : Seq(Pid), capacity : Nat, slots : Nat]
        /\ vect'.nums = Append(vect.nums, p)
    BY <1>1, <2>1, PushKeepsRoom DEF VectInv, Roomy, getcount_vector
  <2>3. VectInv'
    BY <1>1, <1>3, <2>1, <2>2 DEF VectInv
  <2>4. cause' = "overrun" => count' > SafeCount
    <3>1. SUFFICES ASSUME Overruns(vect', getcount_vector(vect'))
                   PROVE  count' > SafeCount
      BY DEF Note
    <3>2. /\ vect'.slots \in Nat /\ vect'.capacity \in Nat
          /\ getcount_vector(vect') > vect'.slots
          /\ getcount_vector(vect') <= vect'.capacity - 2
          /\ getcount_vector(vect') = getcount_vector(vect) + 1
          /\ \/ vect'.slots >= vect'.capacity
             \/ getcount_vector(vect') > SafeCount
      BY <2>2, <3>1 DEF Overruns, Roomy, getcount_vector
    <3>3. getcount_vector(vect') > SafeCount
      BY <1>1, <3>2
    <3>4. count' = getcount_vector(vect')
      BY <1>1, <1>3, <2>1, <3>2 DEF VectInv
    <3>5. QED
      BY <3>3, <3>4
  <2>5. /\ getcount_vector(vect)' <= count'
        /\ killed' \in 0..getcount_vector(vect)'
    BY <1>1, <2>1, <2>2
  <2>6. QED
    BY <1>3, <2>1, <2>2, <2>3, <2>4, <2>5 DEF HuntInBounds
<1>4. CASE ~arg.md5
  <2>1. vect' = vect /\ count' = count + 1 /\ vect = init_vector
    BY <1>4 DEF Note, get_md5, VectInv
  <2>2. cause' # "overrun"
    BY <2>1, MyVectorAssumption
    DEF Note, Overruns, init_vector, getcount_vector
  <2>3. VectInv'
    BY <1>4, <2>1 DEF VectInv, Roomy, getcount_vector
  <2>4. QED
    BY <1>1, <1>4, <2>1, <2>2, <2>3 DEF HuntInBounds, getcount_vector
<1>5. QED
  BY <1>2, <1>3, <1>4

LEMMA LookKeeps ==
  ASSUME KillInv, Look
  PROVE  KillInv'
<1> USE DEF KillInv
<1>0. PICK p \in Pid : p = Min(batch)
  BY FirstEntry DEF Look
<1>1. /\ pc = "scan" /\ batch' = batch \ {p}
      /\ UNCHANGED <<proc, executable, events, behind, arg, pos, leaks, killed>>
      /\ \/ /\ leaks >= MaxLeaks
            /\ pc' = "failed" /\ UNCHANGED <<cause, cur, buf, count, vect>>
         \/ /\ leaks < MaxLeaks /\ ~isdeadpid(p) /\ Matches(proc[p])
            /\ Note(p) /\ UNCHANGED <<cur, buf>>
         \/ /\ leaks < MaxLeaks /\ ~isdeadpid(p) /\ ~Matches(proc[p])
            /\ pc' = NextEntry /\ UNCHANGED <<cause, cur, buf, count, vect>>
         \/ /\ leaks < MaxLeaks /\ isdeadpid(p)
            /\ pc' = "grep" /\ cur' = p /\ buf' \in {"no exe", ""}
            /\ UNCHANGED <<cause, count, vect>>
  BY <1>0 DEF Look, world
<1>2. /\ p \in batch /\ p < pos /\ proc[p] # "unborn"
      /\ batch' \in SUBSET Pid
      /\ count + 1 + Cardinality(batch') <= pos - 1
      /\ count + 1 \in 0..MaxPid
      /\ batch' \subseteq 1..(pos - 1)
      /\ \A q \in batch' : proc[q] # "unborn"
  BY <1>0, <1>1, FirstEntry DEF ScanInv
<1>3. /\ count \in Nat /\ Cardinality(batch') \in Nat /\ pos \in Nat
      /\ leaks \in Nat
      /\ count + Cardinality(batch') <= pos - 1
  <2>1. count \in 0..MaxPid /\ pos \in 1..(MaxPid + 1) /\ leaks \in 0..MaxLeaks
    BY DEF TypeOK
  <2>2. QED
    BY <1>2, <2>1, PidSets, Bounds
<1>4. cause = "none"
  BY <1>1 DEF TypeOK
<1>5. NextEntry \in {"getdents", "scan"} /\ (NextEntry = "scan" => batch' # {})
  BY DEF NextEntry
\* What is handed out has been looked at; all else is as it was.
<1>6. \A q \in Pid : Ahead(q)' <=> Ahead(q) /\ q # p
  <2>1. \A q \in Pid : q \in Nat
    BY PidSets
  <2>2. pos' = pos /\ batch' = batch \ {p}
    BY <1>1
  <2>3. QED
    BY <1>2, <1>3, <2>1, <2>2 DEF Ahead
<1>7. /\ LookedAt \in SUBSET Pid /\ LookedAt' \in SUBSET Pid
      /\ LookedAt \subseteq LookedAt'
      /\ p \notin LookedAt
      /\ p \in Fileless => LookedAt' = LookedAt \cup {p}
      /\ Cardinality(LookedAt) \in Nat /\ Cardinality(LookedAt') \in Nat
      /\ Cardinality(LookedAt) <= Cardinality(LookedAt')
      /\ p \in Fileless => Cardinality(LookedAt') = Cardinality(LookedAt) + 1
  <2>1. /\ LookedAt \in SUBSET Pid /\ LookedAt' \in SUBSET Pid
        /\ LookedAt \subseteq LookedAt'
    BY <1>1, <1>6 DEF LookedAt, Fileless
  <2>2. p \notin LookedAt
    BY <1>2 DEF LookedAt, Ahead
  <2>3. p \in Fileless => LookedAt' = LookedAt \cup {p}
    BY <1>1, <1>2, <1>6 DEF LookedAt, Fileless
  <2>4. QED
    BY <1>2, <2>1, <2>2, <2>3, PidSets, PidCounts
\* The stream of grep is not lost yet, but its pid has been looked at.
<1>8. /\ leaks' <= Cardinality(LookedAt')
      /\ p \in Fileless => leaks' + 1 <= Cardinality(LookedAt')
  <2>1. leaks <= Cardinality(LookedAt)
    BY DEF LeakInv
  <2>2. leaks' = leaks
    BY <1>1
  <2>3. QED
    BY <1>3, <1>7, <2>1, <2>2
<1>9. CASE /\ leaks >= MaxLeaks
          /\ pc' = "failed" /\ UNCHANGED <<cause, cur, buf, count, vect>>
  <2>1. /\ pc' = "failed"
        /\ UNCHANGED <<cause, cur, buf, count, vect>>
    BY <1>9
  <2>2. TypeOK'
    BY <1>1, <1>2, <1>4, <2>1 DEF TypeOK, Final, getcount_vector
  <2>3. ScanInv'
    BY <1>1, <1>2, <1>3, <1>9, <2>1 DEF ScanInv
  <2>4. LeakInv'
    BY <1>8, <2>1 DEF LeakInv
  <2>5. NothingForgotten'
    BY <2>1 DEF NothingForgotten, Final
  <2>6. QED
    BY <1>1, <2>1, <2>2, <2>3, <2>4, <2>5, SameVector
<1>10. CASE /\ Matches(proc[p])
          /\ Note(p) /\ UNCHANGED <<cur, buf>>
  <2>1. Note(p) /\ UNCHANGED <<cur, buf>>
    BY <1>10
  <2>2. /\ VectInv' /\ HuntInBounds'
        /\ vect' \in [nums : Seq(Pid), capacity : Nat, slots : Nat]
        /\ count' = count + 1
        /\ getcount_vector(vect)' <= count'
        /\ killed' \in 0..getcount_vector(vect)'
        /\ arg.md5 => vect'.nums = Append(vect.nums, p)
    BY <1>1, <1>2, <1>4, <2>1, NoteKeeps
  <2>3. \/ pc' \in {"getdents", "scan"} /\ cause' = cause
           /\ (pc' = "scan" => batch' # {})
        \/ pc' = "crashed" /\ cause' = "overrun"
    BY <1>5, <2>1 DEF Note, Crash
  <2>4. TypeOK'
    BY <1>1, <1>2, <1>4, <2>1, <2>2, <2>3 DEF TypeOK, Final
  <2>5. ScanInv'
    BY <1>1, <1>2, <1>3, <2>2, <2>3 DEF ScanInv
  <2>6. LeakInv'
    BY <1>8, <2>3 DEF LeakInv
  <2>7. NothingForgotten'
    <3>1. SUFFICES ASSUME arg.md5, NEW q \in Pid, proc[q] = "target",
                          Ahead(q) \/ q \in Found \/ q \in behind
                   PROVE  Ahead(q)' \/ q \in Found' \/ q \in behind'
      BY <1>1 DEF NothingForgotten, Final
    <3>2. vect.nums \in Seq(Pid) /\ vect'.nums = Append(vect.nums, p)
      BY <2>2, <3>1 DEF TypeOK
    <3>3. /\ Len(vect.nums) \in Nat /\ Len(vect'.nums) = Len(vect.nums) + 1
          /\ \A k \in 1..Len(vect.nums) : vect'.nums[k] = vect.nums[k]
          /\ vect'.nums[Len(vect.nums) + 1] = p
      BY <1>2, <3>2, LenProperties, AppendProperties
    <3>4. killed \in 0..Len(vect.nums)
      BY DEF TypeOK, getcount_vector
    <3>5. killed' = killed
      BY <1>1
    <3>6. p \in Found'
      <4>1. Len(vect.nums) + 1 \in (killed' + 1)..Len(vect'.nums)
        BY <3>3, <3>4, <3>5
      <4>2. QED
        BY <3>3, <4>1 DEF Found, getcount_vector
    <3>7. Found \subseteq Found'
      <4>1. \A k \in (killed + 1)..Len(vect.nums) :
              /\ k \in (killed' + 1)..Len(vect'.nums)
              /\ vect'.nums[k] = vect.nums[k]
        BY <3>3, <3>4, <3>5
      <4>2. QED
        BY <4>1 DEF Found, getcount_vector
    <3>8. QED
      BY <1>1, <1>6, <3>1, <3>6, <3>7
  <2>8. QED
    BY <2>2, <2>4, <2>5, <2>6, <2>7
<1>11. CASE /\ ~Matches(proc[p])
           /\ pc' = NextEntry /\ UNCHANGED <<cause, cur, buf, count, vect>>
  <2>1. /\ pc' \in {"getdents", "scan"} /\ (pc' = "scan" => batch' # {})
        /\ UNCHANGED <<cause, cur, buf, count, vect>>
    BY <1>5, <1>11
  <2>2. TypeOK'
    BY <1>1, <1>2, <1>4, <2>1 DEF TypeOK, Final, getcount_vector
  <2>3. ScanInv'
    BY <1>1, <1>2, <1>3, <2>1 DEF ScanInv
  <2>4. LeakInv'
    BY <1>8, <2>1 DEF LeakInv
  <2>5. NothingForgotten'
    <3>1. arg.path = "absolute" => proc[p] # "target"
      BY <1>11 DEF Matches
    <3>2. QED
      BY <1>1, <1>6, <2>1, <3>1 DEF NothingForgotten, Found, Final, getcount_vector
  <2>6. QED
    BY <1>1, <2>1, <2>2, <2>3, <2>4, <2>5, SameVector
<1>12. CASE /\ leaks < MaxLeaks /\ isdeadpid(p)
           /\ pc' = "grep" /\ cur' = p /\ buf' \in {"no exe", ""}
           /\ UNCHANGED <<cause, count, vect>>
  <2>1. /\ pc' = "grep" /\ cur' = p /\ buf' \in {"no exe", ""}
        /\ UNCHANGED <<cause, count, vect>>
    BY <1>12
  <2>2. p \in Fileless
    BY <1>2, <1>12 DEF isdeadpid, Fileless
  <2>3. TypeOK'
    BY <1>1, <1>2, <1>4, <2>1 DEF TypeOK, Final, getcount_vector
  <2>4. ScanInv'
    <3>1. Fileless' = Fileless
      BY <1>1 DEF Fileless
    <3>2. ~Ahead(p)'
      BY <1>2, <1>6
    <3>3. ~Ahead(cur)'
      BY <2>1, <3>2 DEF Ahead
    <3>4. QED
      BY <1>1, <1>2, <1>3, <1>12, <2>1, <2>2, <3>1, <3>3 DEF ScanInv
  <2>5. LeakInv'
    BY <1>8, <2>1, <2>2 DEF LeakInv
  <2>6. NothingForgotten'
    <3>1. proc[p] # "target"
      BY <1>12 DEF isdeadpid, Programs
    <3>2. QED
      BY <1>1, <1>6, <2>1, <3>1 DEF NothingForgotten, Found, Final, getcount_vector
  <2>7. QED
    BY <1>1, <2>1, <2>3, <2>4, <2>5, <2>6, SameVector
<1>13. QED
  BY <1>1, <1>9, <1>10, <1>11, <1>12

\* The zombie that grep leaves is of a pid not seen before. The stream is lost
\* for the pid in cur, which LeakInv has counted already.
LEMMA GrepKeeps ==
  ASSUME KillInv, Grep
  PROVE  KillInv'
<1> USE DEF KillInv
<1>1. /\ pc = "grep" /\ leaks' = leaks + 1 /\ cur' = 0 /\ buf' = "none"
      /\ \/ \E p \in Unborn : proc' = [proc EXCEPT ![p] = "leaked"]
         \/ proc' = proc
      /\ \/ pc' = "crashed" /\ cause' \in {"zombie", "vanished"}
         \/ pc' = NextEntry /\ cause' = cause
      /\ UNCHANGED <<batch, executable, events, behind, arg, pos, count, vect,
                     killed>>
  BY DEF Grep, Leak, Crash
<1>2. NextEntry \in {"getdents", "scan"} /\ (NextEntry = "scan" => batch' # {})
  BY DEF NextEntry
<1>3. leaks \in Nat /\ leaks + 1 \in 0..MaxLeaks
  <2>1. leaks \in 0..MaxLeaks /\ leaks < MaxLeaks
    BY <1>1 DEF TypeOK, ScanInv
  <2>2. QED
    BY <2>1, Bounds
<1>4. /\ proc' \in [Pid -> States]
      /\ \A q \in Pid : proc'[q] = proc[q] \/ (proc[q] = "unborn" /\ proc'[q] = "leaked")
  BY <1>1 DEF TypeOK, Unborn, States
<1>5. cause = "none"
  BY <1>1 DEF TypeOK
<1>6. TypeOK'
  BY <1>1, <1>2, <1>3, <1>4, <1>5 DEF TypeOK, Final, getcount_vector
<1>7. ScanInv'
  BY <1>1, <1>2, <1>4 DEF ScanInv, TypeOK
<1>8. LeakInv'
  <2>1. LookedAt \subseteq LookedAt'
    BY <1>1, <1>4 DEF LookedAt, Fileless, Ahead, Programs
  <2>2. /\ LookedAt \in SUBSET Pid /\ LookedAt' \in SUBSET Pid
    BY DEF LookedAt, Fileless
  <2>3. /\ Cardinality(LookedAt) <= Cardinality(LookedAt')
        /\ Cardinality(LookedAt) \in Nat /\ Cardinality(LookedAt') \in Nat
    BY <2>1, <2>2, PidSets
  <2>4. leaks + 1 <= Cardinality(LookedAt)
    BY <1>1 DEF LeakInv
  <2>5. pc' # "grep"
    BY <1>1, <1>2
  <2>6. leaks' <= Cardinality(LookedAt')
    BY <1>1, <1>3, <2>3, <2>4
  <2>7. QED
    BY <1>1, <1>3, <2>5, <2>6 DEF LeakInv
<1>9. VectInv' /\ HuntInBounds'
  BY <1>1, <1>5 DEF VectInv, Roomy, HuntInBounds, getcount_vector
<1>10. NothingForgotten'
  <2>1. \A q \in Pid : proc'[q] = "target" => proc[q] = "target"
    BY <1>4
  <2>2. \A q \in Pid : Ahead(q)' <=> Ahead(q)
    BY <1>1 DEF Ahead
  <2>3. QED
    BY <1>1, <2>1, <2>2 DEF NothingForgotten, Found, Final, getcount_vector
<1>11. QED
  BY <1>6, <1>7, <1>8, <1>9, <1>10

LEMMA DisarmKeeps ==
  ASSUME KillInv, Disarm
  PROVE  KillInv'
<1> USE DEF KillInv
<1>1. /\ pc = "list"
      /\ UNCHANGED <<proc, events, behind, arg, pos, batch, cur, buf, leaks,
                     count, vect, killed>>
      /\ \/ executable' = FALSE /\ pc' = "kill" /\ cause' = cause
         \/ /\ count > vect.slots
            /\ pc' = "crashed" /\ cause' = "overrun" /\ executable' = executable
  BY DEF Disarm, PrintOverruns, Overruns, Crash
<1>2. TypeOK'
  BY <1>1 DEF TypeOK, Final, getcount_vector
<1>3. ScanInv' /\ LeakInv'
  BY <1>1 DEF ScanInv, LeakInv, LookedAt, Fileless, Ahead
<1>4. VectInv'
  BY <1>1 DEF VectInv, Roomy, getcount_vector
<1>5. HuntInBounds'
  <2>1. CASE cause' = cause
    BY <1>1, <2>1 DEF HuntInBounds
  <2>2. CASE count > vect.slots
    <3>1. arg.md5 => count > SafeCount
      <4>1. SUFFICES ASSUME arg.md5
                     PROVE  count > SafeCount
        OBVIOUS
      <4>2. /\ vect.slots \in Nat /\ vect.capacity \in Nat
            /\ count = getcount_vector(vect) /\ count \in Nat
        <5>1. count \in 0..MaxPid
          BY DEF TypeOK
        <5>2. vect.slots \in Nat /\ vect.capacity \in Nat
          BY DEF TypeOK
        <5>3. QED
          BY <4>1, <5>1, <5>2, Bounds DEF VectInv
      <4>3. \/ count <= vect.capacity - 2 /\ vect.slots >= vect.capacity
            \/ count > SafeCount
        BY <4>1, <4>2 DEF VectInv, Roomy
      <4>4. QED
        BY <2>2, <4>2, <4>3
    <3>2. ~arg.md5 => count > InitialCapacity
      BY <2>2 DEF VectInv, init_vector
    <3>3. QED
      BY <1>1, <3>1, <3>2 DEF HuntInBounds
  <2>3. QED
    BY <1>1, <2>1, <2>2
<1>6. NothingForgotten'
  BY <1>1 DEF NothingForgotten, Found, Ahead, Final, getcount_vector
<1>7. QED
  BY <1>2, <1>3, <1>4, <1>5, <1>6

\* What is killed is the process at index killed, and it runs the file no more.
LEMMA KillKeeps ==
  ASSUME KillInv, Kill
  PROVE  KillInv'
<1> USE DEF KillInv
<1> DEFINE n == getcount_vector(vect)
<1>1. /\ pc = "kill" /\ killed < n /\ killed' = killed + 1
      /\ UNCHANGED <<executable, events, behind, arg, pc, cause, pos, batch,
                     cur, buf, leaks, count, vect>>
  BY DEF Kill
<1>2. /\ vect.nums \in Seq(Pid) /\ n \in Nat /\ n = Len(vect.nums)
      /\ killed \in 0..n
  BY LenProperties DEF TypeOK, getcount_vector
<1>3. PICK p \in Pid : p = vect.nums[killed + 1]
  <2>1. killed + 1 \in 1..Len(vect.nums)
    BY <1>1, <1>2
  <2>2. QED
    BY <1>2, <2>1, ElementOfSeq
<1>4. proc' = IF proc[p] \in Programs THEN [proc EXCEPT ![p] = "zombie"] ELSE proc
  BY <1>3 DEF Kill, pop_vector
<1>5. /\ proc' \in [Pid -> States]
      /\ \A q \in Pid : \/ proc'[q] = proc[q]
                        \/ proc[q] \in Programs /\ proc'[q] = "zombie"
      /\ proc'[p] # "target"
  BY <1>4 DEF TypeOK, States, Programs
<1>6. TypeOK'
  <2>1. killed' \in 0..n
    BY <1>1, <1>2
  <2>2. QED
    BY <1>1, <1>5, <2>1 DEF TypeOK, getcount_vector
<1>7. ScanInv'
  BY <1>1, <1>5 DEF ScanInv, TypeOK
<1>8. LeakInv'
  <2>1. LookedAt \subseteq LookedAt'
    BY <1>1, <1>5 DEF LookedAt, Fileless, Ahead, Programs
  <2>2. /\ LookedAt \in SUBSET Pid /\ LookedAt' \in SUBSET Pid
    BY DEF LookedAt, Fileless
  <2>3. /\ Cardinality(LookedAt) <= Cardinality(LookedAt')
        /\ Cardinality(LookedAt) \in Nat /\ Cardinality(LookedAt') \in Nat
    BY <2>1, <2>2, PidSets
  <2>4. leaks \in 0..MaxLeaks /\ leaks <= Cardinality(LookedAt)
    BY <1>1 DEF LeakInv, TypeOK
  <2>5. leaks <= Cardinality(LookedAt')
    BY <2>3, <2>4, Bounds
  <2>6. QED
    BY <1>1, <2>4, <2>5, Bounds DEF LeakInv
<1>9. NothingForgotten'
  <2>1. \A q \in Found : q = p \/ q \in Found'
    <3>1. \A k \in (killed + 1)..n : k = killed + 1 \/ k \in (killed' + 1)..n
      BY <1>1, <1>2
    <3>2. QED
      BY <1>1, <1>3, <3>1 DEF Found, getcount_vector
  <2>2. \A q \in Pid : proc'[q] = "target" => proc[q] = "target" /\ q # p
    BY <1>5
  <2>3. \A q \in Pid : Ahead(q)' <=> Ahead(q)
    BY <1>1 DEF Ahead
  <2>4. QED
    BY <1>1, <2>1, <2>2, <2>3 DEF NothingForgotten, Final
<1>10. QED
  BY <1>1, <1>6, <1>7, <1>8, <1>9, SameVector

LEMMA DestroyKeeps ==
  ASSUME KillInv, Destroy
  PROVE  KillInv'
<1> USE DEF KillInv
<1>1. /\ pc = "kill"
      /\ UNCHANGED <<proc, executable, events, behind, arg, pos, batch, cur,
                     buf, leaks, count, vect, killed>>
      /\ \/ pc' = "returned" /\ cause' = cause
         \/ /\ vect.capacity > vect.slots
            /\ pc' = "crashed" /\ cause' = "overrun"
  BY DEF Destroy, DestroyOverruns, Overruns, Crash, world
<1>2. TypeOK'
  BY <1>1 DEF TypeOK, Final, getcount_vector
<1>3. ScanInv' /\ LeakInv'
  BY <1>1 DEF ScanInv, LeakInv, LookedAt, Fileless, Ahead
<1>4. VectInv'
  BY <1>1 DEF VectInv, Roomy, getcount_vector
<1>5. HuntInBounds'
  <2>1. CASE cause' = cause
    BY <1>1, <2>1 DEF HuntInBounds
  <2>2. CASE vect.capacity > vect.slots
    <3>1. arg.md5 => count > SafeCount
      <4>1. vect.slots \in Nat /\ vect.capacity \in Nat
        BY DEF TypeOK
      <4>2. getcount_vector(vect) > SafeCount
        BY <2>2, <4>1 DEF VectInv, Roomy
      <4>3. QED
        BY <4>2 DEF VectInv
    <3>2. arg.md5
      <4>1. vect = init_vector => ~ (vect.capacity > vect.slots)
        BY MyVectorAssumption DEF init_vector
      <4>2. QED
        BY <2>2, <4>1 DEF VectInv
    <3>3. QED
      BY <1>1, <3>1, <3>2 DEF HuntInBounds
  <2>3. QED
    BY <1>1, <2>1, <2>2
<1>6. NothingForgotten'
  BY <1>1 DEF NothingForgotten, Found, Ahead, Final, getcount_vector
<1>7. QED
  BY <1>2, <1>3, <1>4, <1>5, <1>6
-----------------------------------------------------------------------------
\* The inductive invariant of the scan and of the kills that follow it, for
\* every number of processes, every history of theirs and every batch size.
THEOREM KillInvariant == Spec => []KillInv
<1>1. KillInv /\ UNCHANGED vars => KillInv'
  <2> SUFFICES ASSUME KillInv, UNCHANGED vars
               PROVE  KillInv'
    OBVIOUS
  <2> USE DEF KillInv, vars, world, killer
  <2>1. TypeOK'
    BY DEF TypeOK, getcount_vector
  <2>2. ScanInv' /\ LeakInv'
    BY DEF ScanInv, LeakInv, LookedAt, Fileless, Ahead
  <2>3. NothingForgotten'
    BY DEF NothingForgotten, Found, Ahead, getcount_vector
  <2>4. QED
    BY <2>1, <2>2, <2>3, SameVector
<1>2. KillInv /\ [Next]_vars => KillInv'
  BY <1>1, WorldInv, MainKeeps, GetdentsKeeps, LookKeeps, GrepKeeps,
     DisarmKeeps, KillKeeps, DestroyKeeps
  DEF Next, Killer
<1>3. QED
  BY <1>2, InitKill, PTL DEF Spec

\* Every variable keeps its type: no more is counted than there are pids.
THEOREM KillTypes == Spec => []TypeOK
<1>1. KillInv => TypeOK
  BY DEF KillInv
<1>2. QED
  BY <1>1, KillInvariant, PTL

\* A process that runs the file is found, unless it began to after the scan had
\* passed it (traversalpids, killappointpid).
THEOREM NoneIsForgotten == Spec => []NothingForgotten
<1>1. KillInv => NothingForgotten
  BY DEF KillInv
<1>2. QED
  BY <1>1, KillInvariant, PTL

\* The scan fails only where pids without a file abound (dealdeadpid).
THEOREM FailsOnlyInACrowd == Spec => []FailsOnlyCrowded
<1>1. KillInv => FailsOnlyCrowded
  <2>1. SUFFICES ASSUME KillInv, pc = "failed"
                 PROVE  Cardinality(Fileless) >= MaxLeaks
    BY DEF FailsOnlyCrowded
  <2>2. leaks >= MaxLeaks /\ leaks \in 0..MaxLeaks
    BY <2>1 DEF KillInv, ScanInv, TypeOK
  <2>3. leaks <= Cardinality(LookedAt)
    BY <2>1 DEF KillInv, LeakInv
  <2>4. /\ LookedAt \in SUBSET Pid /\ Fileless \in SUBSET Pid
        /\ LookedAt \subseteq Fileless
    BY DEF LookedAt, Fileless
  <2>5. /\ Cardinality(LookedAt) <= Cardinality(Fileless)
        /\ Cardinality(LookedAt) \in Nat /\ Cardinality(Fileless) \in Nat
    BY <2>4, PidSets
  <2>6. QED
    BY <2>2, <2>3, <2>5, Bounds
<1>2. QED
  BY <1>1, KillInvariant, PTL

\* The vector is not used beyond its slots before it holds more than SafeCount
\* (push_vector, destory_vector, printPid).
THEOREM HuntKeepsInBounds == Spec => []HuntInBounds
<1>1. KillInv => HuntInBounds
  BY DEF KillInv
<1>2. QED
  BY <1>1, KillInvariant, PTL
=============================================================================
