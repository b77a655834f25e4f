CONSTANTS
  m1 = m1
  m2 = m2
  s1 = s1
  s2 = s2
  EntryPriceMin = 40
  EntryPriceMax = 60
  MinRiskReward = 40
  Markets <- OneMarket
  Strategies <- OneStrategy
  Edges <- Weak
  Mids <- MidsYes
  MinEdge = 8
  AlertEdges <- Alert8
  AlertMore = FALSE
  TopN = 2
  ResolveLimit = 100
  AutoApprove = TRUE
  SlackOn = TRUE
  TelegramOn = FALSE
  MaxRecs = 2
  MaxEvals = 1
  MaxMsgs = 2
  MaxClicks = 0
  MaxFaults = 0
SPECIFICATION Spec
INVARIANTS
  OneRowPerFairValue
