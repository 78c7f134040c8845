\* Reviews, the poller's feeds, comments and commits on cards, and the archive.
SPECIFICATION ActivitySpec
CONSTANTS
  dev = dev  qa1 = qa1  qa2 = qa2  cover = cover  bot = bot
  k1 = k1  k2 = k2  wk1 = wk1  wk2 = wk2
  h1 = h1  h2 = h2  t1 = t1  t2 = t2  a1 = a1  a2 = a2  i1 = i1  i2 = i2
  Workers = {wk1, wk2}
  Developer = dev
  People = {dev, qa1, qa2, cover, bot}
  Bots = {bot}
  ReviewCards = {k1, k2}
  AssignedTo <- MCAssignedTo
  EscalateAfter = 1
  Keep = Keep
  ReviewRegimes <- ReviewCircumstances
  FeedRegimes <- PullFeeds
  MirrorRegimes <- Mirrored
  EventRegimes <- EventFeeds
  CommitRegimes <- Pushed
  ArchRegimes <- Finished
  TrackRegimes <- Trackings
INVARIANTS ReviewsAreKept FeedsAreFollowed CardsAreKept
CHECK_DEADLOCK FALSE
