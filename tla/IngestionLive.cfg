CONSTANTS
  m1 = m1
  m2 = m2
  y1 = y1
  n1 = n1
  y2 = y2
  NoToken = NoToken
  NoRow = NoRow
  Markets <- MCMarkets
  Yes <- MCYes
  No <- MCNo
  EventOf <- MCEvent
  FirstListings <- MCFirstListings
  Prices <- MCPrices
  FirstBook <- MCFirstBook
  Moves <- MCOneMove
  Trades <- MCLiveTrades
  Orders <- MCLiveOrders
  Listings <- MCLiveListings
  MaxInbox = 1
  MaxEvents = 1
SPECIFICATION FairSpec
CHECK_DEADLOCK FALSE
PROPERTIES
  PricesReturnToYes
  NewMarketsSubscribed
