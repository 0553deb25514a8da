SPECIFICATION FairSpec
CONSTANTS
  N = 2
  Spawned = {t1, t2}
  Callers = {}
  Workers = 2
  Free = Free
  Flusher = Flusher
  MaxUpdates = 1
  MaxRestarts = 0
PROPERTY ShutdownEnds
CHECK_DEADLOCK FALSE
