\* SQLite: two workers, deferred tasks, crashes of both; Postgres: a lone worker.
SPECIFICATION FairSpec
CONSTANTS
  Jobs = {j1, j2}
  Workers = {w1, w2}
  NoJob = NoJob
  Deployments <- SqliteOrLone
  StaleAfter = 0
  MaxTime = 2
  MaxCrashes = 1
INVARIANTS TypeOK AtMostOnce HeldJobIsRunningOrGivenUp
PROPERTIES ImplementsLifecycle PendingIsClaimed
