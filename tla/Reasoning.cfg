CONSTANTS
  a = a
  b = b
  NoSignal = NoSignal
  NoRow = NoRow
  MinEdge = 800
  CrossVenueMinEdge = 800
  CrossVenueMinDepth = 500
  CrossVenueMaxStale = 30
  PolyFee = 200
  KalshiFee = 100
  SumDeviation = 400
  Liquidity <- MCLiquidity
  HomeWin <- MCHomeWin
  Markets <- MCMarkets
  Slots = 1
  EnabledLists <- MCLists
  LLM = TRUE
  LLMConfidence = 700
  Modelled <- MCMarkets
  EventOf <- MCEvent
  PairOf <- MCPair
  FirstWorld <- MCWorld
  Moves <- MCMoves
  MaxRows = 3
  MaxEvents = 1
SPECIFICATION FairSpec
INVARIANTS
  TypeOK
  PricedOnlyWhenSafe
  ImbalanceOnlyAtEvenOdds
PROPERTIES
  ConsensusBacked
  ListHoldsStill
  EveryPriceEvaluated
