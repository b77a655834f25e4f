CONSTANTS
  m1 = m1
  p1 = p1
  p2 = p2
  NoPos = NoPos
  EntryPriceMin = 40
  EntryPriceMax = 60
  MinRiskReward = 40
  Markets <- OneMarket
  Signals <- PairSignals
  Profiles <- Pair
  ProfileSeq <- PairSeq
  Thresholds <- PairT
  MaxHold <- Hold1
  Mids <- MidsYes
  RunLength = 1
  MaxPicks = 1
  MaxTime = 2
  MaxTrades = 3
  MaxRuns = 2
  MaxFaults = 1
SPECIFICATION FairSpec
INVARIANTS
  MemoryBacked
  LossBoundedByStake
PROPERTIES
  ClosedIsFinal
  NoEntryAfterSettled
  ImplementsLedger
  RunEnds
