\* What the handlers may never do, in order and out of order.
SPECIFICATION Spec
CONSTANTS
  p1 = p1  p2 = p2  i1 = i1  i2 = i2
  own1 = own1  own2 = own2  card1 = card1  card2 = card2  spare = spare
  Standalone = Standalone  NoCard = NoCard
  Prs = {p1, p2}
  Issues = {i1, i2}
  Cards = {own1, own2, card1, card2, spare}
  Matches = {spare}
  Statements <- AllTexts
  OwnCard <- MCOwnCard  IssueCard <- MCIssueCard
  Regimes <- SafetyRegimes
INVARIANTS TypeOK SupersededIsWithdrawn NeverStranded OwnCardIsKept RegistryIsTold
PROPERTIES MergeWaitsForOthers VerdictStands MergeSpeaksOnce
CHECK_DEADLOCK FALSE
