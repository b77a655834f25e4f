CONSTANTS
  m1 = m1
  m2 = m2
  s1 = s1
  s2 = s2
  EntryPriceMin = 40
  EntryPriceMax = 60
  MinRiskReward = 40
  Markets <- OneMarket
  Strategies <- TwoStrategies
  Edges <- Edges1
  Mids <- MidsYes
  MinEdge = 8
  AlertEdges <- Alert8
  AlertMore = TRUE
  TopN = 1
  ResolveLimit = 3
  AutoApprove = TRUE
  SlackOn = FALSE
  TelegramOn = TRUE
  MaxRecs = 3
  MaxEvals = 1
  MaxMsgs = 2
  MaxClicks = 1
  MaxFaults = 1
SPECIFICATION FairSpec
INVARIANTS
  IndInv
  OneUnresolvedPerSource
  UntouchedEntry
PROPERTIES
  ImplementsLedger
  SettledIsResolved
