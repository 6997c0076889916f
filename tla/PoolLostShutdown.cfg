SPECIFICATION Spec
CONSTANTS
  Threads = {w1, w2}
  Producers = {p1}
  min_thrd_num = 3
  max_queue_size = 1
  MaxTasks = 1
  MayDestroy = TRUE
  Manager = Manager
  Nobody = Nobody
  w1 = w1
  w2 = w2
  p1 = p1
SYMMETRY Symmetry
INVARIANT DestroyWakesAll
CHECK_DEADLOCK FALSE
