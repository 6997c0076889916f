SPECIFICATION FairSpec
CONSTANTS
  Threads = {w1, w2}
  Producers = {p1}
  min_thrd_num = 0
  max_queue_size = 1
  MaxTasks = 3
  MayDestroy = FALSE
  Manager = Manager
  Nobody = Nobody
  w1 = w1
  w2 = w2
  p1 = p1
PROPERTY ServesEveryTask
PROPERTY CallsReturn
PROPERTY ShrinksToMin
