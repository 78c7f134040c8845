\* What the sweep brings about in the end.
SPECIFICATION FairSpec
CONSTANTS
  p1 = p1  p2 = p2  i1 = i1  i2 = i2
  own1 = own1  own2 = own2  card1 = card1  card2 = card2  spare = spare
  Standalone = Standalone  NoCard = NoCard
  Prs = {p1, p2}
  Issues = {i1, i2}
  Cards = {own1, own2, card1, card2, spare}
  Matches = {spare}
  Statements <- AllTexts
  OwnCard <- MCOwnCard  IssueCard <- MCIssueCard
  Regimes <- LivenessRegimes
PROPERTIES EventuallyAgrees MergedWorkCompletes OneWorkItem
CHECK_DEADLOCK FALSE
