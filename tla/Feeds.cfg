CONSTANTS
  g1 = g1
  m1 = m1
  m2 = m2
  m3 = m3
  k1 = k1
  k2 = k2
  k3 = k3
  k4 = k4
  Garbled = Garbled
  NoGame = NoGame
  NoMatch = NoMatch
  Malformed = Malformed
  Games = {g1}
  GameOrder <- MCGameOrder
  GameMarkets <- MCGameMarkets
  Names <- MCNames
  SwingThreshold = 10
  FirstBoard <- MCBoard
  BoardMoves <- MCBoardMoves
  Rosters = {g1}
  PolyMarkets <- MCPoly
  KalshiListing <- MCListing
  TickerOrder <- MCTickerOrder
  PairFile <- MCFile
  PairId <- MCPairId
  MinConfidence = 85
  ReviewConfidence = 60
  FirstVenue <- MCVenue
  Books <- MCBooks
  MaxEvents = 3
  Deployments <- MCDeployments
SPECIFICATION FairSpec
INVARIANTS
  TypeOK
  SwingPerJump
  PairsRefer
  PairsSameGame
PROPERTIES
  ScoreFollowsBoard
  QuotesFollowKalshi
  QuotesAreMeantFromTwoCents
