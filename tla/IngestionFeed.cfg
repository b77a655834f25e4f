CONSTANTS
  m1 = m1
  m2 = m2
  y1 = y1
  n1 = n1
  y2 = y2
  NoToken = NoToken
  NoRow = NoRow
  Markets <- MCMarkets
  Yes <- MCYes
  No <- MCNo
  EventOf <- MCEvent
  FirstListings <- MCFirstListings
  Prices <- MCPrices
  FirstBook <- MCFirstBook
  Moves <- MCMoves
  Trades <- MCTrades
  Orders <- MCOrders
  Listings <- MCListings
  MaxInbox = 3
  MaxEvents = 2
SPECIFICATION Spec
INVARIANTS
  TypeOK
  LocalBookFollowsVenue
  TickIsCurrent
PROPERTIES
  LinksRestored
CHECK_DEADLOCK FALSE
