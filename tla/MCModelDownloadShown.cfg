SPECIFICATION Spec
CONSTANTS
  Tasks = {t1}
  Size = 2
  Quota = 4
  MaxRetries = 1
  Events = 2
INVARIANT CompletedLeavesDownloading
