\* One issue of one developer: duplicates, failures, races, sweeps.
SPECIFICATION FairSpec
CONSTANTS
  dev = dev
  tester = tester
  stranger = stranger
  Nobody = Nobody
  NoPlace = NoPlace
  Unreadable = Unreadable
  Logins <- AllLogins
  OnBoard <- People2
  Eligible = {dev}
  h1 = h1
  h2 = h2
  Handlers = {h1, h2}
  Regimes <- IssueRegimes
INVARIANTS TypeOK OneCard CardIsKept
PROPERTIES ReopenResumes OwnershipNeverRewinds SweepRepairs
CHECK_DEADLOCK FALSE
