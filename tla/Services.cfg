\* The small services, each in its own circumstances.
SPECIFICATION ServicesSpec
CONSTANTS
  pr1 = pr1  pr2 = pr2  author = author  q1 = q1  q2 = q2
  PullRequests = {pr1, pr2}
  Author = author
  Testers = {q1, q2}
  NotTracked = NotTracked
  NoPull = NoPull
  c1 = c1  c2 = c2  c3 = c3  key1 = key1  key2 = key2  repo1 = repo1
  Callers = {c1, c2, c3}
  CacheKeys = {key1, key2}
  Repos = {repo1}
  NoEntry = NoEntry
  NoKey = NoKey
  RepoOf <- MCRepoOf
  CacheRegimes <- ServiceCaches
  NudgeRegimes <- ServiceNudges
INVARIANTS ServicesAreSound HoldsWhatGitHubHas
PROPERTIES OnlyAfterSilence DueIsDealtWith CallersReturn
CHECK_DEADLOCK FALSE
