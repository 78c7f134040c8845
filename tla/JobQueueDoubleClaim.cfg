\* Postgres: one worker and the API's deferred task suffice to begin a job twice.
SPECIFICATION Spec
CONSTANTS
  Jobs = {j1}
  Workers = {w1}
  NoJob = NoJob
  Deployments <- PostgresDeferring
  StaleAfter = 1
  MaxTime = 1
  MaxCrashes = 0
INVARIANTS AtMostOnce
