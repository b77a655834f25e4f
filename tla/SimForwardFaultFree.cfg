CONSTANTS
  m1 = m1
  p1 = p1
  p2 = p2
  NoPos = NoPos
  EntryPriceMin = 40
  EntryPriceMax = 60
  MinRiskReward = 40
  Markets <- OneMarket
  Signals <- Signals1
  Profiles <- Solo
  ProfileSeq <- SoloSeq
  Thresholds <- SoloT
  MaxHold <- Hold1
  Mids <- MidsNo
  RunLength = 2
  MaxPicks = 1
  MaxTime = 3
  MaxTrades = 2
  MaxRuns = 2
  MaxFaults = 0
SPECIFICATION Spec
INVARIANTS
  IndInv
  Covered
  OneOpenRowPerKey
  FinishedRunLeavesNothingOpen
  CooldownWithinRun
PROPERTIES
  ImplementsLedger
