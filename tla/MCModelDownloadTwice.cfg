SPECIFICATION Spec
CONSTANTS
  Tasks = {t1, t2}
  Size = 2
  Quota = 4
  MaxRetries = 1
  Events = 2
INVARIANT PublishedIsVerified
