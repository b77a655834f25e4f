---------------------------- MODULE MCReasoning -----------------------------
(***************************************************************************)
(* Two markets of one event whose prices sum to 90 cents; the first has a  *)
(* pair at Kalshi, which quotes 15 cents more; the books are all ask.      *)
(***************************************************************************)
EXTENDS Reasoning, TLC

CONSTANTS a, b

MCMarkets == {a, b}
MCEvent   == [m \in MCMarkets |-> "event"]
MCPair    == (a :> [aligned |-> TRUE, inverted |-> FALSE]) @@ (b :> NoRow)

MCLists ==
  {DefaultList, <<"cross_market_arb", "cross_venue_arb", "consensus">>,
   <<"baseline_model", "stale_quote", "behavior_fade", "player_adjust",
     "sportsbook_consensus", "consensus">>}

MCLiquidity(depth) == IF depth >= 1000 THEN 600 ELSE 400

MCHomeWin(home, away) ==
  CASE home - away >= 20 -> 8400
    [] home - away >= 10 /\ home - away < 20 -> 7500
    [] home < away -> 3500
    [] OTHER -> 5500

Playing(home, away) == [home |-> home, away |-> away, named |-> "home"]
Since(swing, move, first, last) ==
  [swing |-> swing, move |-> move, first |-> first, last |-> last, lineup |-> TRUE,
   p_home |-> 6200]

Priced(mid, depth, ts) == [mid |-> mid, depth |-> depth, spread |-> 200, ts |-> ts, recent |-> TRUE]
Quoted(mid, ts)        == [mid |-> mid, depth |-> 1000, ts |-> ts]
NoResults == [s \in Strategies |-> [n |-> 0, pnl |-> 0]]

MCWorld ==
  [price    |-> (a :> Priced(5000, 1000, 0)) @@ (b :> Priced(4000, 1000, 0)),
   status   |-> [m \in MCMarkets |-> "active"],
   criteria |-> [m \in MCMarkets |-> "plain"],
   snaps    |-> [m \in MCMarkets |-> <<[bid |-> 0, ask |-> 900], [bid |-> 0, ask |-> 500]>>],
   kalshi   |-> (a :> Quoted(6500, 0)) @@ (b :> NoRow),
   game     |-> (a :> Playing(60, 50)) @@ (b :> NoRow),
   since    |-> [m \in MCMarkets |-> Since([home |-> 48, away |-> 50], 100, 5000, 5000)],
   recs |-> NoResults, sim |-> NoResults]

Move(table, key, value) == [table |-> table, key |-> key, value |-> value]

(* A drift of a cent, a jump onto a thin book, a sibling that closes, a    *)
(* quote of Kalshi 40 s after the price and one that falls, a bid in one   *)
(* of the books, a strategy that has lost, a lead that turns, a swing that *)
(* the price overshoots.                                                   *)
MCMoves ==
  {Move("price", a, Priced(5100, 1000, 40)), Move("price", a, Priced(7500, 100, 40)),
   Move("status", b, "closed"), Move("kalshi", a, Quoted(6000, 40)),
   Move("kalshi", a, Quoted(3500, 0)),
   Move("snaps", a, <<[bid |-> 1, ask |-> 900], [bid |-> 0, ask |-> 9999], [bid |-> 9, ask |-> 0]>>),
   Move("sim", "cross_market_arb", [n |-> 10, pnl |-> -5]),
   Move("game", a, Playing(60, 62)),
   Move("since", a, Since([home |-> 58, away |-> 38], 3000, 7500, 4500)),
   Move("criteria", a, "ambiguous")}
=============================================================================
