----------------------------- MODULE Ingestion ------------------------------
(***************************************************************************)
(* Polymarket ingestion: the three tasks of ingestion/__main__.py and the  *)
(* WebSocket session that one of them runs (ingestion/ws_market.py).       *)
(*                                                                         *)
(* Discovery upserts markets and rebuilds their links, the interval        *)
(* snapshot fetches books over HTTP, the supervisor keeps a WebSocket      *)
(* session over the tokens it last read from the table.  They share the    *)
(* prices table.  Every await of a database or HTTP call is a step; timers *)
(* may fire at any time, and any call may fail.                            *)
(***************************************************************************)
EXTENDS BookMath, Sequences, Functions

CONSTANTS
  Markets,     \* market ids
  Yes, No,     \* clob_asset_id and companion_clob_asset_id of a market
  NoToken,     \* a market has no companion token
  EventOf,     \* gamma_event_id of a market
  Listings,    \* the states of a market at Gamma that the instance visits
  FirstListings, \* the states of all markets at Gamma it starts from
  Prices,      \* the prices, in cents, at which the venue's books may have a level
  FirstBook,   \* the order book of every token at the venue at the start
  Moves,       \* level changes that may happen at the venue
  Orders,      \* orders in which the venue may answer a subscription to some tokens
  Trades,      \* tokens that may trade
  MaxInbox,    \* bound: messages a socket holds before the venue waits
  MaxEvents,   \* bound: level changes, trades, changes of a market's state at
               \* Gamma, failed calls, lost connections, crashes and stops, together
  NoRow        \* no row in prices, or none to write

TokensOf(m) == {Yes[m], No[m]} \ {NoToken}
Tokens      == UNION {TokensOf(m) : m \in Markets}
MarketOf(t) == CHOOSE m \in Markets : t \in TokensOf(m)

(* A level of a book has a size: one that is used up is gone.  A message   *)
(* of several changes is in the socket as those changes, each of which but *)
(* the first follows one of its message.                                   *)
Book    == LET levels == [price : Prices, size : Nat \ {0}]
           IN  [bids : SUBSET levels, asks : SUBSET levels]
Sides   == {"BUY", "SELL"}
Message == [type : {"book"}, token : Tokens, book : Book]
             \cup [type : {"price_change"}, token : Tokens, side : Sides,
                   price : Prices, size : Nat, bid : Nat, ask : Nat, follows : BOOLEAN]
             \cup [type : {"best_bid_ask"}, token : Tokens, bid : Nat, ask : Nat]
             \cup [type : {"last_trade_price"}, token : Tokens]

ASSUME IngestionAssumption ==
  /\ MaxEvents \in Nat /\ MaxInbox \in Nat
  /\ \A m, n \in Markets : m # n => TokensOf(m) \cap TokensOf(n) = {}
  /\ \A m \in Markets : Yes[m] # NoToken
  /\ FirstListings \subseteq [Markets -> {"unlisted", "active", "inactive", "dropped"}]

ASSUME VenueAssumption ==
  /\ Prices \subseteq 0..100
  /\ FirstBook \in [Tokens -> Book]
  /\ Moves \subseteq [token : Tokens, side : Sides, price : Prices, size : Nat]
  /\ Trades \subseteq Tokens
  /\ Orders \subseteq Seq(Tokens)
  /\ \A S \in SUBSET Tokens : IsFiniteSet(S) => \E asked \in Orders : Range(asked) = S

VARIABLES
  listing,   \* at Gamma: unlisted, active, inactive or dropped
  venue,     \* at the venue: the order book of each token
  status,    \* markets: none, active or closed
  links,     \* market_links
  latest,    \* prices: the newest row of a market that has a mid
  shots,     \* order_book_snapshots: the markets that have a row
  proc,      \* starting, running or down
  stop,      \* the stop event, and worker_stop with it
  disc,      \* the discovery task, and the call before the tasks start
  snap,      \* the interval snapshot task
  sup,       \* the WebSocket supervisor
  ws,        \* run_market_ws
  local,     \* its LocalBook
  inbox,     \* messages the venue has sent and the session has not read
  events     \* how many of the bounded events there were

external == <<listing, venue>>
tables   == <<status, links, latest, shots>>
feed     == <<ws, local, inbox>>
vars     == <<external, tables, proc, stop, disc, snap, sup, feed, events>>

Open       == {m \in Markets : status[m] = "active"}
OpenTokens == UNION {TokensOf(m) : m \in Open}

NewDisc(pc) == [pc |-> pc, todo |-> {}, rows |-> {}]
NewSnap(pc) == [pc |-> pc, todo |-> {}, row |-> NoRow]
NewSup(pc)  == [pc |-> pc, assets |-> {}]
NewWs(pc)   == [pc |-> pc, localStop |-> FALSE]

Init ==
  /\ listing \in FirstListings
  /\ venue = FirstBook
  /\ status = [m \in Markets |-> "none"] /\ links = {}
  /\ latest = [m \in Markets |-> NoRow] /\ shots = {}
  /\ proc = "starting" /\ stop = FALSE
  /\ disc = NewDisc("fetch") /\ snap = NewSnap("off") /\ sup = NewSup("off")
  /\ ws = NewWs("off") /\ local = [t \in Tokens |-> EmptyBook] /\ inbox = <<>>
  /\ events = 0
-----------------------------------------------------------------------------
(* Writing one row.  Readers of prices skip rows without a mid, so such a  *)
(* row leaves the newest priced one in place.  A snapshot and a trade      *)
(* write the book first and the price after it.                            *)

PriceRow(token, bb, ba, depth, kind) ==
  [token |-> token, mid |-> mid_from_ba(bb, ba), depth |-> depth, kind |-> kind]

StoreBook(row) ==
  shots' = IF row.kind = "tick" THEN shots ELSE shots \cup {MarketOf(row.token)}

Store(row) ==
  /\ StoreBook(row)
  /\ latest' = IF row.mid = None THEN latest ELSE [latest EXCEPT ![MarketOf(row.token)] = row]

(* A failed write may have stored the book and not the price.              *)
StoreFails(row) ==
  /\ UNCHANGED latest
  /\ UNCHANGED shots \/ (row # NoRow /\ StoreBook(row))

Event == events < MaxEvents /\ events' = events + 1
-----------------------------------------------------------------------------
(* Discovery: _discover_and_upsert, run once before the tasks start and    *)
(* then by _rediscover_loop.                                               *)

Pairs(rows) ==
  {p \in SUBSET rows : Cardinality(p) = 2 /\ \A m, n \in p : EventOf[m] = EventOf[n]}

StartTasks ==
  IF proc = "starting"
  THEN proc' = "running" /\ snap' = NewSnap("wait") /\ sup' = NewSup("load")
  ELSE UNCHANGED <<proc, snap, sup>>

(* The answer is read when it arrives: before the tasks start, or whenever *)
(* the timer of 300 s has fired.                                           *)
Discover ==
  /\ disc.pc = "fetch" \/ (disc.pc = "wait" /\ ~stop)
  /\ disc' = [NewDisc("upsert") EXCEPT
                !.todo = {m \in Markets : listing[m] \in {"active", "inactive"}},
                !.rows = {m \in Markets : listing[m] = "active"}]
  /\ UNCHANGED <<external, tables, proc, stop, snap, sup, feed, events>>

(* Mutant of Upsert: the state at Gamma is stored as it is.                *)
UpsertAsListed(m) ==
  /\ disc.pc = "upsert" /\ m \in disc.todo
  /\ status' = [status EXCEPT ![m] = listing[m]]
  /\ disc' = [disc EXCEPT !.todo = @ \ {m}]
  /\ UNCHANGED <<external, links, latest, shots, proc, stop, snap, sup, feed, events>>

(* rows holds the markets that the answer called active.                   *)
Upsert(m) ==
  /\ disc.pc = "upsert" /\ m \in disc.todo
  /\ status' = [status EXCEPT ![m] = IF m \in disc.rows THEN "active" ELSE "closed"]
  /\ disc' = [disc EXCEPT !.todo = @ \ {m}]
  /\ UNCHANGED <<external, links, latest, shots, proc, stop, snap, sup, feed, events>>

(* Mutant of DeleteLinks: links are only ever added.                       *)
KeepLinks ==
  /\ disc.pc = "upsert" /\ disc.todo = {}
  /\ disc' = [pc |-> "insert", todo |-> Pairs(Open), rows |-> {}]
  /\ UNCHANGED <<external, tables, proc, stop, snap, sup, feed, events>>

(* Only discovery writes the status of a market, so what rebuild_market_   *)
(* links reads of it is the same until it deletes the links.               *)
DeleteLinks ==
  /\ disc.pc = "upsert" /\ disc.todo = {}
  /\ links' = {p \in links : \A m \in p, n \in Open : EventOf[m] # EventOf[n]}
  /\ disc' = [pc |-> "insert", todo |-> Pairs(Open), rows |-> {}]
  /\ UNCHANGED <<external, status, latest, shots, proc, stop, snap, sup, feed, events>>

InsertLink(p) ==
  /\ disc.pc = "insert" /\ p \in disc.todo
  /\ links' = links \cup {p}
  /\ disc' = [disc EXCEPT !.todo = @ \ {p}]
  /\ UNCHANGED <<external, status, latest, shots, proc, stop, snap, sup, feed, events>>

Discovered ==
  /\ disc.pc = "insert" /\ disc.todo = {}
  /\ disc' = NewDisc("wait")
  /\ StartTasks
  /\ UNCHANGED <<external, tables, stop, feed, events>>

RediscoverStops ==
  /\ disc.pc = "wait" /\ stop
  /\ disc' = NewDisc("done")
  /\ UNCHANGED <<external, tables, proc, stop, snap, sup, feed, events>>

(* A failed call ends this round of discovery.  The first one is outside   *)
(* any try: the process exits.                                             *)
DiscoveryFails ==
  /\ disc.pc \in {"fetch", "upsert", "insert"}
  /\ Event
  /\ IF proc = "starting"
     THEN proc' = "down" /\ disc' = NewDisc("off")
     ELSE UNCHANGED proc /\ disc' = NewDisc("wait")
  /\ UNCHANGED <<external, tables, stop, snap, sup, feed>>
-----------------------------------------------------------------------------
(* _snapshot_interval.                                                     *)

(* The timer of 30 s has fired.                                            *)
SnapshotQuery ==
  /\ snap.pc = "wait" /\ ~stop
  /\ snap' = [NewSnap("loop") EXCEPT !.todo = Open]
  /\ UNCHANGED <<external, tables, proc, stop, disc, sup, feed, events>>

(* Mutant of FetchBook: the companion token is asked for.                  *)
FetchCompanionBook(m) ==
  /\ snap.pc = "loop" /\ ~stop /\ m \in snap.todo /\ snap.row = NoRow
  /\ LET token == IF No[m] = NoToken THEN Yes[m] ELSE No[m]
         at == Touch(venue[token].bids, venue[token].asks)
     IN  snap' = [snap EXCEPT
                    !.todo = @ \ {m},
                    !.row = PriceRow(token, at.bid, at.ask, at.depth, "interval_30s")]
  /\ UNCHANGED <<external, tables, proc, stop, disc, sup, feed, events>>

FetchBook(m) ==
  /\ snap.pc = "loop" /\ ~stop /\ m \in snap.todo /\ snap.row = NoRow
  /\ LET at == Touch(venue[Yes[m]].bids, venue[Yes[m]].asks)
     IN  snap' = [snap EXCEPT
                    !.todo = @ \ {m},
                    !.row = PriceRow(Yes[m], at.bid, at.ask, at.depth, "interval_30s")]
  /\ UNCHANGED <<external, tables, proc, stop, disc, sup, feed, events>>

SnapshotWrite ==
  /\ snap.row # NoRow
  /\ Store(snap.row)
  /\ snap' = [snap EXCEPT !.row = NoRow]
  /\ UNCHANGED <<external, status, links, proc, stop, disc, sup, feed, events>>

SnapshotRoundEnds ==
  /\ snap.pc = "loop" /\ snap.row = NoRow /\ snap.todo = {}
  /\ snap' = NewSnap("wait")
  /\ UNCHANGED <<external, tables, proc, stop, disc, sup, feed, events>>

SnapshotStops ==
  /\ stop
  /\ \/ snap.pc = "wait"
     \/ snap.pc = "loop" /\ snap.row = NoRow /\ snap.todo # {}
  /\ snap' = NewSnap("done")
  /\ UNCHANGED <<external, tables, proc, stop, disc, sup, feed, events>>

(* A failure for one market is logged and the next market is tried; the    *)
(* query of the open markets is outside the try and ends the task.         *)
SnapshotOfMarketFails ==
  /\ snap.pc = "loop" /\ Event
  /\ \/ /\ snap.row # NoRow
        /\ snap' = [snap EXCEPT !.row = NoRow]
        /\ StoreFails(snap.row)
     \/ /\ snap.row = NoRow /\ ~stop
        /\ \E m \in snap.todo : snap' = [snap EXCEPT !.todo = @ \ {m}]
        /\ UNCHANGED <<latest, shots>>
  /\ UNCHANGED <<external, status, links, proc, stop, disc, sup, feed>>

SnapshotQueryFails ==
  /\ snap.pc = "wait" /\ ~stop /\ Event
  /\ snap' = NewSnap("dead")
  /\ UNCHANGED <<external, tables, proc, stop, disc, sup, feed>>
-----------------------------------------------------------------------------
(* _ws_supervisor.                                                         *)

LoadAssets ==
  /\ sup.pc = "load"
  /\ IF stop
     THEN sup' = NewSup("done") /\ UNCHANGED ws
     ELSE IF OpenTokens = {}
     THEN sup' = NewSup("sleep") /\ UNCHANGED ws
     ELSE sup' = [pc |-> "session", assets |-> OpenTokens] /\ ws' = NewWs("connect")
  /\ UNCHANGED <<external, tables, proc, stop, disc, snap, local, inbox, events>>

LoadFails ==
  /\ sup.pc = "load" /\ ~stop /\ Event
  /\ sup' = NewSup("dead")
  /\ UNCHANGED <<external, tables, proc, stop, disc, snap, feed>>

SleptWithoutAssets ==
  /\ sup.pc = "sleep"
  /\ sup' = NewSup(IF stop THEN "done" ELSE "load")
  /\ UNCHANGED <<external, tables, proc, stop, disc, snap, feed, events>>

(* The refresh timer of 180 s or the stop event ends the wait; the session *)
(* is told and then awaited.                                               *)
EndSession ==
  /\ sup.pc = "session"
  /\ sup' = [sup EXCEPT !.pc = "closing"]
  /\ ws' = [ws EXCEPT !.localStop = TRUE]
  /\ UNCHANGED <<external, tables, proc, stop, disc, snap, local, inbox, events>>

(* Mutant of SessionEnded: the next session takes the tokens of the last.  *)
SessionRenewed ==
  /\ sup.pc = "closing" /\ ws.pc = "done"
  /\ IF stop THEN sup' = NewSup("done") /\ ws' = NewWs("off")
     ELSE sup' = [sup EXCEPT !.pc = "session"] /\ ws' = NewWs("connect")
  /\ UNCHANGED <<external, tables, proc, stop, disc, snap, local, inbox, events>>

SessionEnded ==
  /\ sup.pc = "closing" /\ ws.pc = "done"
  /\ sup' = NewSup(IF stop THEN "done" ELSE "load")
  /\ ws' = NewWs("off")
  /\ UNCHANGED <<external, tables, proc, stop, disc, snap, local, inbox, events>>
-----------------------------------------------------------------------------
(* run_market_ws.                                                          *)

BookMessage(t) == [type |-> "book", token |-> t, book |-> venue[t]]

(* A connection starts with an empty LocalBook, and the venue answers the  *)
(* subscription with the book of every token, in any order.                *)
Connect ==
  /\ ws.pc = "connect" /\ ~ws.localStop
  /\ ws' = [ws EXCEPT !.pc = "read"]
  /\ local' = [t \in Tokens |-> EmptyBook]
  /\ \E asked \in Orders :
       /\ Range(asked) = sup.assets
       /\ inbox' = [i \in DOMAIN asked |-> BookMessage(asked[i])]
  /\ UNCHANGED <<external, tables, proc, stop, disc, snap, sup, events>>

SessionStops ==
  /\ ws.pc = "connect" /\ ws.localStop
  /\ ws' = NewWs("done")
  /\ UNCHANGED <<external, tables, proc, stop, disc, snap, sup, local, inbox, events>>

(* Mutant of Applied: a level whose size drops to zero stays.              *)
AppliedKeepingLevels(msg, book) ==
  CASE msg.type = "book" -> apply_full_book(msg.book.bids, msg.book.asks)
    [] msg.type = "price_change" /\ msg.size > 0 ->
         apply_price_change(book, msg.side, msg.price, msg.size)
    [] OTHER -> book

Applied(msg, book) ==
  CASE msg.type = "book" -> apply_full_book(msg.book.bids, msg.book.asks)
    [] msg.type = "price_change" -> apply_price_change(book, msg.side, msg.price, msg.size)
    [] OTHER -> book

(* Mutant of RowFor: the ask of the message is left out.                   *)
RowForBid(msg, book) ==
  LET at(b) == Touch(b.bids, b.asks)
      row(b, depth, kind) == PriceRow(msg.token, at(b).bid, at(b).ask, depth, kind)
  IN  CASE msg.type = "last_trade_price" -> row(book, None, "trade")
        [] msg.type = "book" -> row(msg.book, at(msg.book).depth, "tick")
        [] OTHER -> PriceRow(msg.token, msg.bid, None,
                      depth_within_one_cent(book.bids, book.asks, msg.bid, msg.ask), "tick")

(* The row a message gives rise to, once it is applied to the local book.  *)
(* A book message is priced from its own levels, a trade from the local    *)
(* book and without a depth, the others from the best prices they carry.   *)
RowFor(msg, book) ==
  LET at(b) == Touch(b.bids, b.asks)
      row(b, depth, kind) == PriceRow(msg.token, at(b).bid, at(b).ask, depth, kind)
  IN  CASE msg.type = "last_trade_price" -> row(book, None, "trade")
        [] msg.type = "book" -> row(msg.book, at(msg.book).depth, "tick")
        [] OTHER -> PriceRow(msg.token, msg.bid, msg.ask,
                      depth_within_one_cent(book.bids, book.asks, msg.bid, msg.ask), "tick")

WithinMessage == Head(inbox).type = "price_change" /\ Head(inbox).follows

(* The stop flag of a session is looked at when a message arrives, and not *)
(* between the changes of one.  The local book belongs to the session      *)
(* alone: a change, and any other message, is one step, at the moment its  *)
(* row is written.                                                         *)
HandleMessage ==
  /\ ws.pc = "read" /\ inbox # <<>> /\ (ws.localStop => WithinMessage)
  /\ LET msg == Head(inbox)
         book == Applied(msg, local[msg.token])
     IN  /\ inbox' = Tail(inbox)
         /\ local' = [local EXCEPT ![msg.token] = book]
         /\ Store(RowFor(msg, book))
  /\ UNCHANGED <<external, status, links, proc, stop, disc, snap, sup, ws, events>>

SessionLeaves ==
  /\ ws.pc = "read" /\ inbox # <<>> /\ ws.localStop /\ ~WithinMessage
  /\ ws' = NewWs("done") /\ inbox' = <<>>
  /\ UNCHANGED <<external, tables, proc, stop, disc, snap, sup, local, events>>

(* A refused connection, a lost one, or a row that cannot be written: the  *)
(* session connects again after a pause.                                   *)
SessionFails ==
  /\ ws.pc = "connect" => ~ws.localStop
  /\ ws.pc \in {"connect", "read"} /\ Event
  /\ ws' = [ws EXCEPT !.pc = "connect"]
  /\ inbox' = <<>>
  /\ StoreFails(IF inbox = <<>> THEN NoRow
                ELSE RowFor(Head(inbox), local[Head(inbox).token]))
  /\ UNCHANGED <<external, status, links, proc, stop, disc, snap, sup, local>>

(* The venue closes the connection in order: the loop of messages ends and *)
(* the session reconnects at once.                                         *)
SessionClosed ==
  /\ ws.pc = "read" /\ inbox = <<>>
  /\ Event
  /\ ws' = [ws EXCEPT !.pc = "connect"]
  /\ UNCHANGED <<external, tables, proc, stop, disc, snap, sup, local, inbox>>

-----------------------------------------------------------------------------
(* Stopping.  Each task is cancelled at the await it has reached; an error *)
(* that a task died of surfaces when it is awaited and ends the shutdown.  *)

(* The handlers of the signals are there before the first discovery: it    *)
(* runs to its end, and the tasks it starts are cancelled.                 *)
StopSignal ==
  /\ proc \in {"starting", "running"} /\ ~stop /\ Event
  /\ stop' = TRUE
  /\ UNCHANGED <<external, tables, proc, disc, snap, sup, feed>>

Gone ==
  /\ disc' = NewDisc("off") /\ snap' = NewSnap("off") /\ sup' = NewSup("off")
  /\ ws' = NewWs("off") /\ local' = [t \in Tokens |-> EmptyBook] /\ inbox' = <<>>

Shutdown ==
  /\ proc = "running" /\ stop
  /\ proc' = "down" /\ Gone
  /\ UNCHANGED <<external, tables, stop, events>>

Crash ==
  /\ proc \in {"starting", "running"} /\ Event
  /\ proc' = "down" /\ Gone
  /\ UNCHANGED <<external, tables, stop>>

(* The container is restarted unless it was stopped.                       *)
Restart ==
  /\ proc = "down" /\ ~stop
  /\ proc' = "starting" /\ disc' = NewDisc("fetch")
  /\ UNCHANGED <<external, tables, stop, snap, sup, feed, events>>
-----------------------------------------------------------------------------
(* The venue and Gamma.                                                    *)

Subscribed(t) == ws.pc = "read" /\ t \in sup.assets

Send(msg) == inbox' = IF Subscribed(msg.token) THEN Append(inbox, msg) ELSE inbox

Room == Len(inbox) < MaxInbox

(* A change joins the message of the last one while that is unread.        *)
BookMoves(c, joins) ==
  /\ Event /\ Room
  /\ joins => inbox # <<>> /\ inbox[Len(inbox)].type = "price_change"
  /\ venue' = [venue EXCEPT ![c.token] = apply_price_change(@, c.side, c.price, c.size)]
  /\ Send([type |-> "price_change", token |-> c.token, side |-> c.side, price |-> c.price,
           size |-> c.size, bid |-> BestBid(venue'[c.token].bids),
           ask |-> BestAsk(venue'[c.token].asks), follows |-> joins])
  /\ UNCHANGED <<listing, tables, proc, stop, disc, snap, sup, ws, local>>

Traded(t) ==
  /\ Event /\ Room /\ Subscribed(t)
  /\ Send([type |-> "last_trade_price", token |-> t])
  /\ UNCHANGED <<listing, venue, tables, proc, stop, disc, snap, sup, ws, local>>

(* A subscribed token that quotes: nothing at the venue changes.           *)
Quotes(t) ==
  /\ inbox = <<>> /\ Subscribed(t)
  /\ Send([type |-> "best_bid_ask", token |-> t, bid |-> BestBid(venue[t].bids),
           ask |-> BestAsk(venue[t].asks)])
  /\ UNCHANGED <<external, tables, proc, stop, disc, snap, sup, ws, local, events>>

ListingChanges(m, to) ==
  /\ Event /\ <<listing[m], to>> \in Listings
  /\ listing' = [listing EXCEPT ![m] = to]
  /\ UNCHANGED <<venue, tables, proc, stop, disc, snap, sup, feed>>
-----------------------------------------------------------------------------
Discovery ==
  \/ Discover \/ DeleteLinks \/ Discovered \/ RediscoverStops
  \/ \E m \in Markets : Upsert(m)
  \/ \E p \in SUBSET Markets : InsertLink(p)

Snapshots ==
  \/ SnapshotQuery \/ SnapshotWrite \/ SnapshotRoundEnds \/ SnapshotStops
  \/ \E m \in Markets : FetchBook(m)

Supervisor == LoadAssets \/ SleptWithoutAssets \/ EndSession \/ SessionEnded

Session == Connect \/ SessionStops \/ HandleMessage \/ SessionLeaves

Failures ==
  \/ DiscoveryFails \/ SnapshotOfMarketFails \/ SnapshotQueryFails \/ LoadFails
  \/ SessionFails \/ SessionClosed \/ Crash

Venue ==
  \/ \E c \in Moves, joins \in BOOLEAN : BookMoves(c, joins)
  \/ \E t \in Trades : Traded(t)
  \/ \E t \in Tokens : Quotes(t)
  \/ \E m \in Markets, to \in {"active", "inactive", "dropped"} : ListingChanges(m, to)

Next ==
  \/ Discovery \/ Snapshots \/ Supervisor \/ Session \/ Failures \/ Venue
  \/ StopSignal \/ Shutdown \/ Restart

Spec == Init /\ [][Next]_vars

(* A task takes its next step and a timer fires in the end; a connection   *)
(* is not refused for 180 s every time.  Calls need not fail, the process  *)
(* need not be stopped, and nothing outside need move; tokens that are     *)
(* subscribed keep quoting.                                                *)
Fairness ==
  /\ WF_vars(Discovery) /\ WF_vars(Snapshots) /\ WF_vars(Supervisor) /\ WF_vars(Session)
  /\ WF_vars(Restart) /\ SF_vars(Connect)
  /\ WF_vars(\E t \in Tokens : Quotes(t))

FairSpec == Spec /\ Fairness
-----------------------------------------------------------------------------
TaskType(task, pcs) == task.pc \in pcs

TypeOK ==
  /\ listing \in [Markets -> {"unlisted", "active", "inactive", "dropped"}]
  /\ status \in [Markets -> {"none", "active", "closed"}]
  /\ links \subseteq SUBSET Markets
  /\ proc \in {"starting", "running", "down"} /\ stop \in BOOLEAN
  /\ TaskType(disc, {"off", "fetch", "upsert", "insert", "wait", "done"})
  /\ TaskType(snap, {"off", "wait", "loop", "done", "dead"})
  /\ TaskType(sup, {"off", "load", "sleep", "session", "closing", "done", "dead"})
  /\ TaskType(ws, {"off", "connect", "read", "done"})
  /\ sup.assets \subseteq Tokens
  /\ \A m \in Markets : latest[m] # NoRow => latest[m].token \in TokensOf(m)
  /\ inbox \in Seq(Message)

(* Level by level, the LocalBook of a live session is on its way to the    *)
(* venue's book, whatever was lost before the connection: the last message *)
(* in the socket that speaks about a level, or the LocalBook when none     *)
(* does, has the sizes that the venue has there (apply_full_book,          *)
(* apply_price_change, the new LocalBook of every connection).             *)
Levels(book, side)     == IF side = "BUY" THEN book.bids ELSE book.asks
SizesAt(levels, price) == {l.size : l \in {k \in levels : k.price = price}}

SpeaksOf(msg, t, side, price) ==
  /\ msg.token = t
  /\ msg.type = "book" \/ (msg.type = "price_change" /\ msg.side = side /\ msg.price = price)

LevelFollows(t, side, price) ==
  LET Pending(i) == i \in DOMAIN inbox /\ SpeaksOf(inbox[i], t, side, price)
      Agrees(book) == SizesAt(Levels(book, side), price) = SizesAt(Levels(venue[t], side), price)
  IN  \/ Agrees(local[t]) /\ \A i \in DOMAIN inbox : ~Pending(i)
      \/ \E i \in DOMAIN inbox :
           /\ Pending(i) /\ \A j \in DOMAIN inbox : Pending(j) => j <= i
           /\ Agrees(Applied(inbox[i], EmptyBook))

LocalBookFollowsVenue ==
  ws.pc = "read" => \A t \in sup.assets, side \in Sides, price \in Prices :
                      LevelFollows(t, side, price)

(* No tick stays outdated.  The last priced message of a token in the      *)
(* socket has the mid that the token quotes; when none is left, so has the *)
(* newest row of its market, if the session wrote that row for that token  *)
(* (the handlers of ws_market.py against the venue's book).                *)
VenueMid(t) == mid_from_ba(BestBid(venue[t].bids), BestAsk(venue[t].asks))

MessageMid(msg) ==
  IF msg.type = "book" THEN Touch(msg.book.bids, msg.book.asks).mid
  ELSE mid_from_ba(msg.bid, msg.ask)

TickFollows(t) ==
  LET Priced(i) == i \in DOMAIN inbox /\ inbox[i].token = t /\ inbox[i].type # "last_trade_price"
      row == latest[MarketOf(t)]
  IN  \/ /\ \A i \in DOMAIN inbox : ~Priced(i)
         /\ row # NoRow /\ row.kind # "interval_30s" /\ row.token = t
              => VenueMid(t) \in {None, row.mid}
      \/ \E i \in DOMAIN inbox :
           /\ Priced(i) /\ \A j \in DOMAIN inbox : Priced(j) => j <= i
           /\ MessageMid(inbox[i]) = VenueMid(t)

TickIsCurrent ==
  ws.pc = "read" => \A t \in sup.assets : TickFollows(t)

(* Ticks of the NO token and slow snapshots put other prices in the        *)
(* table, and lost rows leave old ones, but as long as the snapshot task   *)
(* lives it brings every open market back to the mid of its YES token,     *)
(* again and again (_snapshot_interval).                                   *)
PricesReturnToYes ==
  \A m \in Markets :
    []<>(\/ stop \/ snap.pc = "dead" \/ m \notin Open \/ VenueMid(Yes[m]) = None
         \/ latest[m] # NoRow /\ latest[m].mid = VenueMid(Yes[m]))

(* A market that discovery has stored is subscribed in the end, through    *)
(* refreshes, lost connections and restarts, unless it closes or the       *)
(* supervisor has died (_ws_supervisor).                                   *)
NewMarketsSubscribed ==
  \A m \in Markets :
    m \in Open ~> \/ Subscribed(Yes[m]) \/ m \notin Open
                  \/ stop \/ sup.pc = "dead"

(* However an earlier rebuild was interrupted, a round of discovery that   *)
(* does not fail leaves the links of the events that have an open market   *)
(* complete, and none to a market that is closed (rebuild_market_links).   *)
LinksComplete ==
  {p \in links : \E m \in p, n \in Open : EventOf[m] = EventOf[n]} = Pairs(Open)

LinksRestored ==
  [][disc.pc = "insert" /\ disc'.pc = "wait" /\ events' = events => LinksComplete']_vars
=============================================================================
