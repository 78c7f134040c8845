\* Both modes, on Postgres: requests, jobs and crashes around one delivery,
\* and a second one the route settles by itself.
SPECIFICATION HookFairSpec
CONSTANTS
  Deliveries = {d1, d2}
  Malformed = {}
  Modelless = {d2}
  Requests = {r1, r2}
  Jobs = {j1, j2}
  Workers = {w1}
  Deployments <- PostgresRoutes
  Attempts = 2
  Window = 1
  StaleAfter = 0
  MaxTime = 1
  LastArrival = 0
  MaxCrashes = 1
  NoJob = NoJob
  NoDelivery = NoDelivery
  NoRequest = NoRequest
INVARIANTS DeliveryIsSound
PROPERTIES ProcessingIsResolved
CHECK_DEADLOCK FALSE
