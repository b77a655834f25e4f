------------------------------ MODULE MCFeeds ------------------------------
(***************************************************************************)
(* Enrichment: one game with two markets, and a market of no game.         *)
(* Kalshi: a game that the two venues list with the teams in the opposite  *)
(* order, a rematch eight days on, one with no kickoff time and no         *)
(* subtitle, and a file with a pair whose order book is malformed and one  *)
(* whose market is not stored.                                             *)
(***************************************************************************)
EXTENDS Feeds, TLC

CONSTANTS g1, m1, m2, m3, k1, k2, k3, k4

MCDeployments == {{"enrichment"}, {"kalshi"}}

MCGameMarkets == {m1, m2, m3}
MCGameOrder == <<g1>>
MCNames == [m \in MCGameMarkets |-> IF m = m3 THEN {} ELSE {g1}]
Score(h, a) == [home |-> h, away |-> a]
MCBoard == [g \in {g1} |-> Score(50, 50)]
MCBoardMoves == {Score(60, 50), Score(64, 50), Score(Garbled, 50), NoGame}

Market(teams, date, named) ==
  [slug |-> {"jor", "arg"}, teams |-> teams, date |-> date, named |-> named]

MCPoly ==
  ("win" :> Market(<<"jordan", "argentina">>, 27, "argentina"))
  @@ ("draw" :> Market(<<"jordan", "argentina">>, 27, "draw"))
  @@ ("cup" :> [slug |-> NoMatch, teams |-> <<>>, date |-> 0, named |-> NoMatch])

Listed(ticker, event, kickoff, named, suffix) ==
  [ticker |-> ticker, event |-> event, teams |-> <<"argentina", "jordan">>,
   codes |-> {"jor", "arg"}, kickoff |-> kickoff, named |-> named, suffix |-> suffix]

MCListing ==
  <<Listed(k1, "first", 27 * 24 + 19, "argentina", "argentina"),
    Listed(k2, "first", 27 * 24 + 19, "winner", "jordan"),
    Listed(k3, "rematch", 35 * 24 + 19, NoMatch, "draw"),
    Listed(k4, "unknown", NoMatch, NoMatch, "jordan")>>

MCTickerOrder == <<k1, k2, k3, k4>>
MCFile ==
  {[id |-> <<"file">>, market |-> "cup", ticker |-> k1, active |-> TRUE],
   [id |-> <<"gone">>, market |-> "gone", ticker |-> k1, active |-> TRUE]}

MCPairId(poly) == <<poly.teams, poly.date, poly.outcome>>

(* Prices as they are sent: cents, and dollars with parts of a cent.       *)
Bids(raw) == {[price |-> raw, size |-> 10]}
MCQuoted == [unit |-> "cents", yes |-> Bids(60 * Dollar), no |-> Bids(38 * Dollar)]
MCBooks ==
  {MCQuoted, [unit |-> "dollars", yes |-> {}, no |-> Bids(7790)], Malformed}
MCVenue == [t \in {k1, k2, k3, k4} |-> IF t = k1 THEN Malformed ELSE MCQuoted]

(* The only bid of a book comes to be one of a cent, on NO.                *)
MCCentBooks == {MCQuoted, [unit |-> "cents", yes |-> {}, no |-> Bids(1 * Dollar)], Malformed}
=============================================================================
