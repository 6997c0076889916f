SPECIFICATION Spec
CONSTANTS
  Threads = {w1, w2, w3}
  Producers = {p1, p2}
  min_thrd_num = 1
  max_queue_size = 2
  MaxTasks = 4
  MayDestroy = TRUE
  Manager = Manager
  Nobody = Nobody
  w1 = w1
  w2 = w2
  w3 = w3
  p1 = p1
  p2 = p2
SYMMETRY Symmetry
INVARIANT PoolInv
INVARIANT WorkIsSeen
INVARIANT SpaceIsSeen
INVARIANT QueueBounded
INVARIANT PoolFloor
INVARIANT ShedIsSane
INVARIANT DestroyedMeansStopped
PROPERTY ImplementsTaskPool
CHECK_DEADLOCK FALSE
