----------------------------- MODULE CrossVenue -----------------------------
(***************************************************************************)
(* The Kalshi side: the poller (kalshi/__main__.py), the job that pairs    *)
(* World Cup markets of the two venues (map_wc_games.py, wc_game_mapper.py)*)
(* and the job that loads pairs from a file (pairs.py), on the tables      *)
(* kalshi_markets, kalshi_prices and cross_venue_pairs.                    *)
(*                                                                         *)
(* Confidences are in hundredths, dates in days, times in hours.  Names    *)
(* are the ones normalize_team makes of codes and titles.                  *)
(***************************************************************************)
EXTENDS Disturbances, BookMath, SequencesExt, FiniteSetsExt

CONSTANTS
  PolyMarkets,     \* market id -> [slug, teams, date, named]
  KalshiListing,   \* the listing of Kalshi, a sequence of
                   \* [ticker, event, teams, codes, kickoff, named, suffix]:
                   \* whom the subtitle names, and the end of the ticker
  TickerOrder,     \* the tickers of either in the order of their names
  PairFile,        \* the pairs of a file: [id, market, ticker, active]
  PairId(_),       \* the pair id of a parsed market
  MinConfidence,   \* cross_venue_map_min_confidence
  ReviewConfidence, \* cross_venue_map_review_confidence
  FirstVenue,      \* the order books at the start
  Books,           \* what the order book of a ticker may become: [unit, yes, no]
  NoMatch,         \* nothing parsed, no pair, no time
  Malformed        \* an order book that does not parse

Tickers == {KalshiListing[i].ticker : i \in DOMAIN KalshiListing} \cup {p.ticker : p \in PairFile}

ASSUME CrossVenueAssumption ==
  /\ MinConfidence \in Nat /\ ReviewConfidence \in Nat
  /\ FirstVenue \in [Tickers -> Books]
  /\ IsFiniteSet(DOMAIN PolyMarkets) /\ IsFiniteSet(PairFile)
  /\ \A p \in PairFile : p.active \in BOOLEAN

(* Kalshi names a market by its ticker, and a time is a number.            *)
ASSUME ListingAssumption ==
  /\ Len(KalshiListing) \in Nat /\ DOMAIN KalshiListing = 1..Len(KalshiListing)
  /\ TickerOrder \in Seq(Tickers)
  /\ \A i, j \in DOMAIN KalshiListing : KalshiListing[i].ticker = KalshiListing[j].ticker => i = j
  /\ \A i \in DOMAIN KalshiListing : KalshiListing[i].kickoff \in Nat \cup {NoMatch}
  /\ \A id \in DOMAIN PolyMarkets : PolyMarkets[id].date \in Nat

(* A contract of Kalshi pays a dollar.  The lists in cents hold whole      *)
(* cents, sent as 1 to 100; those in dollars hold parts of a cent as well. *)
ASSUME BooksAssumption ==
  \A book \in Books \ {Malformed} :
    /\ book.unit \in {"cents", "dollars"}
    /\ \A l \in book.yes \cup book.no :
         /\ book.unit = "cents" => \E cents \in 0..100 : l.price = cents * Dollar
         /\ book.unit = "dollars" => l.price \in Nat /\ l.price <= Dollar

VARIABLES
  venue,     \* Kalshi: order book of a ticker
  open,      \* Kalshi: the tickers it lists
  kmarkets,  \* kalshi_markets: the tickers with a row
  pairs,     \* cross_venue_pairs: id -> [market, ticker, active]
  quotes,    \* kalshi_prices: newest row of a ticker
  kproc,     \* up, stopping or down
  poll,      \* the poller: pc and the places in TickerOrder that are left
  job        \* the job that is run by hand: pc, pairs left, whether it is strict

kvars == <<venue, open, kmarkets, pairs, quotes, kproc, poll, job>>

KResting(pc) == [pc |-> pc, left |-> {}]
NoJob == [pc |-> "off", left |-> <<>>, strict |-> FALSE]

KInit ==
  /\ venue = FirstVenue /\ open = Tickers
  /\ kmarkets = {} /\ pairs = [id \in {} |-> NoMatch]
  /\ quotes = [t \in Tickers |-> NoMatch]
  /\ kproc = "up" /\ poll = KResting("wait") /\ job = NoJob
-----------------------------------------------------------------------------
(* wc_game_mapper.py.                                                      *)

TeamOf(teams, named) ==
  CASE named = "draw" -> "draw"
    [] named = teams[1] -> "team_a"
    [] named = teams[2] -> "team_b"
    [] OTHER -> NoMatch

(* Of a market whose slug has the codes of both teams and the date.        *)
parse_poly_moneyline(id) ==
  LET row == PolyMarkets[id]
      outcome == TeamOf(row.teams, row.named)
  IN  IF outcome = NoMatch THEN NoMatch
      ELSE [id |-> id, codes |-> row.slug, teams |-> row.teams, date |-> row.date,
            outcome |-> outcome]

Sides(teams) == {teams[1], teams[2]}

(* Unless its ticker ends in -TIE, a listing without a subtitle counts for *)
(* the first team: the empty text is a part of every name.  The end of the *)
(* ticker decides when the subtitle names neither team.                    *)
kalshi_outcome(row) ==
  CASE "draw" \in {row.named, row.suffix} -> "draw"
    [] "draw" \notin {row.named, row.suffix} /\ row.named = NoMatch -> "team_a"
    [] OTHER -> TeamOf(row.teams,
                       IF row.named \in Sides(row.teams) THEN row.named ELSE row.suffix)

parse_kalshi_outcome(row) ==
  LET outcome == kalshi_outcome(row)
  IN  IF outcome = NoMatch THEN NoMatch
      ELSE [ticker |-> row.ticker, event |-> row.event, teams |-> row.teams,
            codes |-> row.codes, kickoff |-> row.kickoff, outcome |-> outcome]

HoursBetween(date, kickoff) ==
  IF kickoff < 24 * date THEN 24 * date - kickoff ELSE kickoff - 24 * date

(* Mutant of date_match: the tolerance is one of days.                     *)
date_match_in_days(date, kickoff) ==
  kickoff = NoMatch \/ HoursBetween(date, kickoff) \div 24 <= 36

(* An unknown kickoff matches every date.                                  *)
date_match(date, kickoff) ==
  \/ kickoff = NoMatch
  \/ kickoff \div 24 = date
  \/ HoursBetween(date, kickoff) <= 36

score_match(poly, kalshi) ==
  LET day == IF date_match(poly.date, kalshi.kickoff) THEN 35
             ELSE IF HoursBetween(poly.date, kalshi.kickoff) > 24 THEN -30 ELSE 0
      codes == IF poly.codes \subseteq kalshi.codes THEN 15 ELSE 0
  IN  IF Sides(poly.teams) # Sides(kalshi.teams) \/ poly.outcome # kalshi.outcome THEN 0
      ELSE Max({0, 35 + day + codes + 15})

(* What the mapper sees of the listing is the set of its positions.        *)
Outcome(i) == parse_kalshi_outcome(KalshiListing[i])

Outcomes(listed) == {i \in listed : Outcome(i) # NoMatch}

(* The first of the best scores above zero, in the order of the loops:     *)
(* event by event, as they come.                                           *)
BestMatch(poly, outcomes) ==
  LET Score(i) == score_match(poly, Outcome(i))
      First(i) == Min({j \in outcomes : Outcome(j).event = Outcome(i).event})
      best == {i \in outcomes : Score(i) > 0 /\ \A j \in outcomes : Score(j) <= Score(i)}
      group == Min({First(i) : i \in best})
  IN  IF best = {} THEN NoMatch ELSE Min({i \in best : First(i) = group})

Matched(poly, i) ==
  [id |-> PairId(poly), market |-> poly.id, ticker |-> Outcome(i).ticker,
   active |-> score_match(poly, Outcome(i)) >= MinConfidence]

Used(found, poly, i) ==
  \E k \in DOMAIN found : found[k].market = poly.id \/ found[k].ticker = Outcome(i).ticker

(* One row more: its best outcome, unless that is used up.                 *)
Take(found, id, outcomes) ==
  LET poly == parse_poly_moneyline(id)
      i == BestMatch(poly, outcomes)
  IN  IF poly = NoMatch THEN found
      ELSE IF i = NoMatch THEN found
      ELSE IF score_match(poly, Outcome(i)) < ReviewConfidence \/ Used(found, poly, i)
           THEN found ELSE Append(found, Matched(poly, i))

(* Markets are taken in the order of the rows; a ticker is used once.      *)
match_wc_game_pairs(rows, listed) ==
  LET found[n \in 0..Len(rows)] ==
        IF n = 0 THEN <<>> ELSE Take(found[n - 1], rows[n], Outcomes(listed))
  IN  found[Len(rows)]
-----------------------------------------------------------------------------
(* The jobs.  Each of their writes is its own transaction.                 *)

Rows == {id \in DOMAIN PolyMarkets : PolyMarkets[id].slug # NoMatch}

(* The rows come in no particular order; a listing that cannot be fetched  *)
(* is empty, one that breaks off is short.                                 *)
MapGames ==
  /\ job.pc = "off"
  /\ \E rows \in SetToSeqs(Rows), cut \in 0..Len(KalshiListing) :
       LET listed == {i \in 1..cut : KalshiListing[i].ticker \in open}
       IN  job' = [NoJob EXCEPT !.pc = "market", !.left = match_wc_game_pairs(rows, listed)]
  /\ UNCHANGED <<events, venue, open, kmarkets, pairs, quotes, kproc, poll>>

(* A file names its pairs in some order.                                   *)
LoadPairs ==
  /\ job.pc = "off"
  /\ \E specs \in SetToSeqs(PairFile), strict \in BOOLEAN :
       job' = [pc |-> "market", left |-> specs, strict |-> strict]
  /\ UNCHANGED <<events, venue, open, kmarkets, pairs, quotes, kproc, poll>>

(* The loader leaves out a pair whose market is not stored, and, when it   *)
(* is strict, one whose ticker has no row.                                 *)
Skipped(p) ==
  p.market \notin DOMAIN PolyMarkets \/ (job.strict /\ p.ticker \notin kmarkets)

SkipPair ==
  /\ job.pc = "market" /\ job.left # <<>> /\ Skipped(Head(job.left))
  /\ job' = [job EXCEPT !.left = Tail(@)]
  /\ UNCHANGED <<events, venue, open, kmarkets, pairs, quotes, kproc, poll>>

(* Mutant of UpsertKalshiMarket: a row is refreshed, never made.           *)
UpdateKalshiMarket ==
  /\ job.pc = "market" /\ job.left # <<>> /\ ~Skipped(Head(job.left))
  /\ job' = [job EXCEPT !.pc = "pair"]
  /\ UNCHANGED <<events, venue, open, kmarkets, pairs, quotes, kproc, poll>>

(* The mapper refreshes the row, the loader makes one when there is none.  *)
UpsertKalshiMarket ==
  /\ job.pc = "market" /\ job.left # <<>> /\ ~Skipped(Head(job.left))
  /\ kmarkets' = kmarkets \cup {Head(job.left).ticker}
  /\ job' = [job EXCEPT !.pc = "pair"]
  /\ UNCHANGED <<events, venue, open, pairs, quotes, kproc, poll>>

Row(p) == [market |-> p.market, ticker |-> p.ticker, active |-> p.active]

UpsertPair ==
  /\ job.pc = "pair"
  /\ LET p == Head(job.left)
     IN  pairs' = [id \in DOMAIN pairs \cup {p.id} |-> IF id = p.id THEN Row(p) ELSE pairs[id]]
  /\ job' = [job EXCEPT !.pc = "market", !.left = Tail(@)]
  /\ UNCHANGED <<events, venue, open, kmarkets, quotes, kproc, poll>>

JobEnds ==
  /\ job.pc = "market" /\ job.left = <<>>
  /\ job' = NoJob
  /\ UNCHANGED <<events, venue, open, kmarkets, pairs, quotes, kproc, poll>>

JobFails ==
  /\ job.pc # "off" /\ Event
  /\ job' = NoJob
  /\ UNCHANGED <<venue, open, kmarkets, pairs, quotes, kproc, poll>>
-----------------------------------------------------------------------------
(* The poller: _run, _poll_once, _poll_ticker.                             *)

ActiveTickers == {pairs[id].ticker : id \in {i \in DOMAIN pairs : pairs[i].active}}

PollStarts ==
  /\ poll.pc = "wait" /\ kproc = "up"
  /\ poll' = [pc |-> "meta", left |-> {n \in DOMAIN TickerOrder : TickerOrder[n] \in ActiveTickers}]
  /\ UNCHANGED <<events, venue, open, kmarkets, pairs, quotes, kproc, job>>

(* The pairs could not be read.                                            *)
PollFails ==
  /\ poll.pc = "wait" /\ kproc = "up" /\ Event
  /\ UNCHANGED <<venue, open, kmarkets, pairs, quotes, kproc, poll, job>>

Ticker == TickerOrder[Min(poll.left)]

(* Metadata that cannot be fetched leaves the row as it is.                *)
PollMarket ==
  /\ poll.pc = "meta" /\ poll.left # {}
  /\ kmarkets' \in {kmarkets, kmarkets \cup {Ticker}}
  /\ poll' = [poll EXCEPT !.pc = "book"]
  /\ UNCHANGED <<events, venue, open, pairs, quotes, kproc, job>>

NextTicker == poll' = [pc |-> "meta", left |-> poll.left \ {Min(poll.left)}]

Stored(t, quote) == IF quote.mid = Missing THEN quotes ELSE [quotes EXCEPT ![t] = quote]

(* Mutant of PollBook: a book that does not parse ends the round.          *)
PollBookOrStop ==
  /\ poll.pc = "book"
  /\ LET t == Ticker
     IN  IF venue[t] = Malformed
         THEN poll' = [pc |-> "meta", left |-> {}] /\ UNCHANGED quotes
         ELSE NextTicker /\ quotes' = Stored(t, parse_orderbook(venue[t].yes, venue[t].no))
  /\ UNCHANGED <<events, venue, open, kmarkets, pairs, kproc, job>>

(* A book that does not parse costs its own ticker the round, no other.    *)
PollBook ==
  /\ poll.pc = "book"
  /\ LET t == Ticker
         quote == IF venue[t] = Malformed THEN [mid |-> Missing]
                  ELSE parse_orderbook(venue[t].yes, venue[t].no)
     IN  quotes' = Stored(t, quote)
  /\ NextTicker
  /\ UNCHANGED <<events, venue, open, kmarkets, pairs, kproc, job>>

(* A book that cannot be fetched, and a statement that fails.              *)
PollTickerFails ==
  /\ poll.pc \in {"meta", "book"} /\ poll.left # {} /\ Event
  /\ NextTicker
  /\ UNCHANGED <<venue, open, kmarkets, pairs, quotes, kproc, job>>

PollEnds ==
  /\ poll.pc = "meta" /\ poll.left = {}
  /\ poll' = KResting("wait")
  /\ UNCHANGED <<events, venue, open, kmarkets, pairs, quotes, kproc, job>>

KStop ==
  /\ kproc = "up" /\ Event
  /\ kproc' = "stopping"
  /\ UNCHANGED <<venue, open, kmarkets, pairs, quotes, poll, job>>

KExit ==
  /\ kproc = "stopping" /\ poll.pc = "wait"
  /\ kproc' = "down" /\ poll' = KResting("off")
  /\ UNCHANGED <<events, venue, open, kmarkets, pairs, quotes, job>>

KCrash ==
  /\ kproc # "down" /\ Event
  /\ kproc' = "down" /\ poll' = KResting("off")
  /\ UNCHANGED <<venue, open, kmarkets, pairs, quotes, job>>

KRestart ==
  /\ kproc = "down"
  /\ kproc' = "up" /\ poll' = KResting("wait")
  /\ UNCHANGED <<events, venue, open, kmarkets, pairs, quotes, job>>

VenueMoves(t, book) ==
  /\ venue[t] # book /\ Event
  /\ venue' = [venue EXCEPT ![t] = book]
  /\ UNCHANGED <<open, kmarkets, pairs, quotes, kproc, poll, job>>

Delisted(t) ==
  /\ t \in open /\ Event
  /\ open' = open \ {t}
  /\ UNCHANGED <<venue, kmarkets, pairs, quotes, kproc, poll, job>>

KPoll == PollStarts \/ PollMarket \/ PollBook \/ PollEnds

KNext ==
  \/ KPoll \/ PollFails \/ PollTickerFails \/ KStop \/ KExit \/ KCrash \/ KRestart
  \/ MapGames \/ LoadPairs \/ SkipPair \/ UpsertKalshiMarket \/ UpsertPair \/ JobEnds \/ JobFails
  \/ \E t \in Tickers : Delisted(t)
  \/ \E t \in Tickers, book \in Books : VenueMoves(t, book)

-----------------------------------------------------------------------------
(* What is stored of a book is a price from nothing to a dollar.           *)
Quote(q) ==
  /\ q.bid = Missing \/ q.bid \in 0..Dollar
  /\ q.ask = Missing \/ q.ask \in 0..Dollar
  /\ q.mid \in 0..(2 * Dollar)

KTypeOK ==
  /\ open \subseteq Tickers /\ kmarkets \subseteq Tickers
  /\ \A id \in DOMAIN pairs : pairs[id].market \in DOMAIN PolyMarkets
                              /\ pairs[id].ticker \in Tickers /\ pairs[id].active \in BOOLEAN
  /\ \A t \in Tickers : quotes[t] # NoMatch => Quote(quotes[t])
  /\ kproc \in {"up", "stopping", "down"}
  /\ poll.pc \in {"off", "wait", "meta", "book"} /\ job.pc \in {"off", "market", "pair"}

(* The row of kalshi_markets that a pair refers to is there before the     *)
(* pair, although the two are written apart, by either job, and the        *)
(* process may die in between (the foreign key of cross_venue_pairs).      *)
PairsRefer == \A id \in DOMAIN pairs : pairs[id].ticker \in kmarkets

(* A pair that the mapper made joins two markets on the same two teams,    *)
(* and on the same day and the day around it when Kalshi names a kickoff   *)
(* (score_match, match_wc_game_pairs).                                     *)
Listing(ticker) ==
  KalshiListing[CHOOSE i \in DOMAIN KalshiListing : KalshiListing[i].ticker = ticker]

FromFile(id) == \E p \in PairFile : p.id = id

PairsSameGame ==
  \A id \in {i \in DOMAIN pairs : ~FromFile(i)} :
    LET poly == PolyMarkets[pairs[id].market]
        kalshi == Listing(pairs[id].ticker)
    IN  /\ Sides(poly.teams) = Sides(kalshi.teams)
        /\ kalshi.kickoff # NoMatch => HoursBetween(poly.date, kalshi.kickoff) <= 36

(* What the two markets of a pair resolve on: a pair of the mapper is      *)
(* stored with outcome_map "same" and resolution_aligned, and its test     *)
(* expects the ticker that ends in the team that the question names.       *)
PairsSameOutcome ==
  \A id \in {i \in DOMAIN pairs : ~FromFile(i)} :
    PolyMarkets[pairs[id].market].named = Listing(pairs[id].ticker).suffix

(* What Kalshi means by a bid, by the list it is in, and what a quote then *)
(* is: the best bids, on NO as the ask that is left of a dollar.           *)
Meant(book, l) == IF book.unit = "cents" THEN l.price \div 100 ELSE l.price

BestMeant(book, levels) == Max({Meant(book, l) : l \in levels})

Means(quote, book) ==
  /\ IF book.yes = {} THEN quote.bid = Missing ELSE quote.bid = BestMeant(book, book.yes)
  /\ IF book.no = {} THEN quote.ask = Missing ELSE quote.ask = Dollar - BestMeant(book, book.no)

Empty(book) == book.yes \cup book.no = {}

(* A bid of one cent is sent as 1, which is not above one.                 *)
HasCentBid(book) ==
  book.unit = "cents" /\ \E l \in book.yes \cup book.no : l.price = Dollar

QuoteIsCurrent(t) ==
  \/ t \notin ActiveTickers \/ venue[t] = Malformed
  \/ Empty(venue[t]) \/ HasCentBid(venue[t])
  \/ quotes[t] # NoMatch /\ Means(quotes[t], venue[t])

(* The quote that is stored is the one that Kalshi means (parse_orderbook, *)
(* and its test: in cents the ask is (100 - NO bid) / 100).                *)
QuotesAreMeant ==
  [][\A t \in Tickers : quotes'[t] # quotes[t] => Means(quotes'[t], venue[t])]_quotes

(* It is for every book without a bid of one cent (parse_orderbook).       *)
QuotesAreMeantFromTwoCents ==
  [][\A t \in Tickers : quotes'[t] # quotes[t] =>
       HasCentBid(venue[t]) \/ Means(quotes'[t], venue[t])]_quotes
=============================================================================
