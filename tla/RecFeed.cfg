CONSTANTS
  m1 = m1
  m2 = m2
  s1 = s1
  s2 = s2
  EntryPriceMin = 40
  EntryPriceMax = 60
  MinRiskReward = 40
  Markets <- TwoMarkets
  Strategies <- OneStrategy
  Edges <- Weak
  Mids <- MidsFlat
  MinEdge = 8
  AlertEdges <- Alert8
  AlertMore = TRUE
  TopN = 2
  ResolveLimit = 100
  AutoApprove = FALSE
  SlackOn = TRUE
  TelegramOn = FALSE
  MaxRecs = 2
  MaxEvals = 1
  MaxMsgs = 2
  MaxClicks = 2
  MaxFaults = 1
SPECIFICATION Spec
INVARIANTS
  OneFeedMessage
  FeedIsLinked
