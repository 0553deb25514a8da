SPECIFICATION FairSpec
CONSTANTS
  Tasks = {t1}
  Size = 2
  Quota = 4
  MaxRetries = 1
  Events = 2
INVARIANTS
  TypeOK
  PublishedIsVerified
  QuotaRespected
  CompletedIsOnDisk
PROPERTIES
  DownloadEnds
  RetriesInstall
