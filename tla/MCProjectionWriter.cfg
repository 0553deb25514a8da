SPECIFICATION FairSpec
CONSTANTS
  N = 2
  Spawned = {t1, t2}
  Callers = {c1}
  Workers = 2
  Free = Free
  Flusher = Flusher
  MaxUpdates = 2
  MaxRestarts = 1
INVARIANTS TypeOK NothingForgotten FlushIsComplete
PROPERTIES StoreMonotone StoreSettles
CHECK_DEADLOCK FALSE
