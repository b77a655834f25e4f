--------------------------- MODULE StrategyRules ---------------------------
(***************************************************************************)
(* The decisions of the strategies of ploy_agent/strategies, as operators  *)
(* on the rows they read: each returns NoSignal or a fair value.           *)
(*                                                                         *)
(* Probabilities and edges are integers, One to the unit (an edge of a     *)
(* cent is 100); confidences are in thousandths.  A quotient is truncated  *)
(* towards zero.                                                           *)
(***************************************************************************)
EXTENDS Integers, Sequences, SequencesExt, FiniteSets, FiniteSetsExt, Folds

CONSTANTS
  MinEdge,             \* min_edge_cents
  CrossVenueMinEdge,   \* cross_venue_min_edge_cents
  CrossVenueMinDepth,  \* cross_venue_min_depth
  CrossVenueMaxStale,  \* cross_venue_max_stale_sec
  PolyFee, KalshiFee,  \* poly_fee_rate and kalshi_fee_rate, One to the unit
  SumDeviation,        \* cross_market_sum_deviation
  HomeWin(_, _),       \* predict_home_win_prob of a score, home and away
  Liquidity(_),        \* log1p(depth) over log1p(100000), in thousandths, at most 1000
  NoSignal             \* a strategy has nothing to say

One == 10000

ASSUME StrategyRulesAssumption ==
  /\ {MinEdge, CrossVenueMinEdge, CrossVenueMinDepth, CrossVenueMaxStale} \subseteq Nat
  /\ {PolyFee, KalshiFee, SumDeviation} \subseteq 0..One

Abs(x) == IF x < 0 THEN -x ELSE x

Quot(x, n) == IF x < 0 THEN -((-x) \div n) ELSE x \div n

Clamp(x, low, high) == IF x < low THEN low ELSE IF x > high THEN high ELSE x

Smaller(x, y) == IF x < y THEN x ELSE y
Larger(x, y)  == IF x < y THEN y ELSE x

Total(seq) == FoldSeq(LAMBDA x, sum : x + sum, 0, seq)

Buy(edge)  == edge > 0
Sell(edge) == edge < 0

FairValue(model, market, conf) ==
  [model |-> model, market |-> market, edge |-> model - market, conf |-> conf]

AtLeast(edge, value) == IF Abs(value.edge) < edge THEN NoSignal ELSE value
-----------------------------------------------------------------------------
(* common/confidence.py.  spread is negative when it is unknown.           *)

statistical_confidence(depth, spread, n_siblings, edge, mid, is_binary_pair) ==
  LET liquidity == 300 + Quot(400 * Liquidity(depth), 1000)
      tight == IF spread < 0 THEN 500 ELSE (1000 * One) \div (One + 20 * spread)
      some == Smaller(500 + 150 * n_siblings, 900)
      siblings == IF n_siblings = 0 THEN 400
                  ELSE IF is_binary_pair THEN Smaller(some + 100, 950) ELSE some
      size == CASE Abs(edge) > 5000 -> 200
                [] Abs(edge) > 3000 /\ Abs(edge) <= 5000 -> 400
                [] Abs(edge) > 1500 /\ Abs(edge) <= 3000 -> 600
                [] OTHER -> 800
      rim == Smaller(mid, One - mid)
      position == IF rim < 500 THEN 300 ELSE IF rim < 1500 THEN 500 ELSE 700
  IN  Clamp(Quot(30 * liquidity + 15 * tight + 25 * siblings + 20 * size + 10 * position, 100),
            150, 950)
-----------------------------------------------------------------------------
(* book_imbalance.py.  A snapshot is the depth of both its sides.          *)

MinTotalDepth         == 500
MinSustainedSnapshots == 2
ImbalanceThreshold    == 3500
BuyMultiplier         == 2

SnapshotLimit         == 3

(* A thin book is left out.  The code also means to leave out a side       *)
(* without a level, but looks at the text of the column, and "[]" is text. *)
Usable(snap) == snap.bid + snap.ask >= MinTotalDepth

Ratio(snap) == Quot((snap.bid - snap.ask) * One, snap.bid + snap.ask)

UsableAt(snaps) == {i \in DOMAIN snaps : Usable(snaps[i])}

sustained_same_sign(snaps) ==
  \/ Cardinality({i \in UsableAt(snaps) : Ratio(snaps[i]) > 0}) >= MinSustainedSnapshots
  \/ Cardinality({i \in UsableAt(snaps) : Ratio(snaps[i]) < 0}) >= MinSustainedSnapshots

RatioAt(snaps, i) == IF i \in UsableAt(snaps) THEN Ratio(snaps[i]) ELSE 0

(* The mean of the ratios; there are SnapshotLimit snapshots at the most.  *)
Imbalance(snaps) ==
  Quot(RatioAt(snaps, 1) + RatioAt(snaps, 2) + RatioAt(snaps, 3), Cardinality(UsableAt(snaps)))

Elasticity(mid) == (4 * mid * (One - mid)) \div One

(* Mutant of Shift: a market far from even odds moves as much as any.      *)
ShiftOfEight(imbalance, mid) == Quot(imbalance * 8, 100)

(* Eight cents at the most: for books on one side at a mid of one half.    *)
Shift(imbalance, mid) == Quot(Quot(imbalance * 8, 100) * Elasticity(mid), One)

ImbalanceValue(imbalance, mid) ==
  LET value == FairValue(Clamp(mid + Shift(imbalance, mid), 100, 9900), mid, 0)
      plain == Smaller(850, 500 + Abs(imbalance) \div 20)
  IN  [value EXCEPT !.conf = Larger(plain, IF Buy(value.edge) THEN 700 ELSE 600)]

book_imbalance(snaps, mid) ==
  LET imbalance == Imbalance(snaps)
      threshold == ImbalanceThreshold * (IF imbalance > 0 THEN BuyMultiplier ELSE 1)
  IN  IF Cardinality(UsableAt(snaps)) < MinSustainedSnapshots THEN NoSignal
      ELSE IF ~sustained_same_sign(snaps) \/ Abs(imbalance) < threshold THEN NoSignal
      ELSE AtLeast(MinEdge, ImbalanceValue(imbalance, mid))
-----------------------------------------------------------------------------
(* cross_market_arb.py.  siblings is the sequence of the mids of the other *)
(* open markets of the event.                                              *)

pair_arb(mid, other, depth, spread) ==
  LET value == FairValue(One - other, mid, 0)
  IN  IF Abs(mid + other - One) <= SumDeviation THEN NoSignal
      ELSE AtLeast(MinEdge,
             [value EXCEPT !.conf =
                statistical_confidence(depth, spread, 1, value.edge, mid, TRUE)])

(* Only the quarter of the outcomes that is mispriced most, at least one,  *)
(* is signalled; the market itself comes first among equals.               *)
multi_arb(mid, siblings, depth, spread) ==
  LET total == mid + Total(siblings)
      Gap(m) == Abs(m - (m * One) \div total)
      ahead == {i \in DOMAIN siblings : Gap(siblings[i]) > Gap(mid)}
      value == FairValue((mid * One) \div total, mid, 0)
  IN  IF total > 15000 \/ total < 5000 \/ Abs(total - One) <= SumDeviation THEN NoSignal
      ELSE IF Cardinality(ahead) >= Larger(1, (Len(siblings) + 1) \div 4) THEN NoSignal
      ELSE AtLeast(MinEdge,
             [value EXCEPT !.conf =
                statistical_confidence(depth, spread, Len(siblings), value.edge, mid, FALSE)])

cross_market_arb(mid, siblings, depth, spread) ==
  CASE Len(siblings) = 0 -> NoSignal
    [] Len(siblings) = 1 -> pair_arb(mid, siblings[1], depth, spread)
    [] OTHER -> multi_arb(mid, siblings, depth, spread)
-----------------------------------------------------------------------------
(* common/cross_venue.py and cross_venue_arb.py.                           *)

normalize_kalshi_yes_prob(kalshi, inverted) ==
  Clamp(IF inverted THEN One - kalshi ELSE kalshi, 100, 9900)

implied_yes_fair_from_kalshi(kalshi, inverted) ==
  Clamp(Quot(normalize_kalshi_yes_prob(kalshi, inverted) * (One - KalshiFee), One), 100, 9900)

(* The fee of Polymarket raises the price that is compared, whichever side *)
(* would be taken.                                                         *)
edge_cents_from_venues(poly, kalshi, inverted) ==
  implied_yes_fair_from_kalshi(kalshi, inverted)
    - Quot(Clamp(poly, 100, 9900) * (One + PolyFee), One)

spread_widening(samples) ==
  Len(samples) >= 3 /\ Abs(samples[Len(samples)]) > Abs(samples[1]) + 50

(* A quote is [mid, depth, ts]; ages are measured from the quote of Kalshi,*)
(* so its own age is 0 and a newer quote of Polymarket has none.           *)
PolyAge(poly, kalshi) == Larger(0, kalshi.ts - poly.ts)

cross_venue_confidence(edge, poly, spread, kalshi, far, samples) ==
  LET thin == Smaller(poly.depth, kalshi.depth)
      base == statistical_confidence(thin, spread, 1, edge, poly.mid, TRUE)
      lag == IF 2 * PolyAge(poly, kalshi) > CrossVenueMaxStale THEN 75 ELSE 100
      horizon == IF far THEN 60 ELSE 100
      trend == IF spread_widening(samples) THEN 50 ELSE 100
  IN  Clamp(Quot(Quot(Quot(base * lag, 100) * horizon, 100) * trend, 100), 150, 950)

(* pair is [aligned, inverted]; far: more than seven days to the end date. *)
cross_venue_arb(pair, poly, spread, mid, kalshi, far, samples) ==
  LET edge == edge_cents_from_venues(mid, kalshi.mid, pair.inverted)
      model == implied_yes_fair_from_kalshi(kalshi.mid, pair.inverted)
  IN  IF \/ ~pair.aligned \/ Abs(edge) < CrossVenueMinEdge
         \/ PolyAge(poly, kalshi) > CrossVenueMaxStale
         \/ Smaller(poly.depth, kalshi.depth) < CrossVenueMinDepth
      THEN NoSignal
      ELSE [model |-> model, market |-> mid, edge |-> edge,
            conf |-> cross_venue_confidence(edge, poly, spread, kalshi, far, samples)]
-----------------------------------------------------------------------------
(* consensus.py.  rows are the rows of the last five minutes, newest       *)
(* first, each with the strategy that wrote it; the newest row of a        *)
(* strategy counts.                                                        *)

MinAgreeing == 2

(* Mutant of LatestRows: every row of the last minutes counts.             *)
AllRows(rows, self) == {rows[i] : i \in {j \in DOMAIN rows : rows[j].strategy # self}}

LatestRows(rows, self) ==
  {rows[i] : i \in {j \in DOMAIN rows :
     /\ rows[j].strategy # self
     /\ \A k \in 1..(j - 1) : rows[k].strategy # rows[j].strategy}}

Agreeing(rows, self) ==
  LET buys == {r \in LatestRows(rows, self) : Buy(r.edge)}
      sells == {r \in LatestRows(rows, self) : Sell(r.edge)}
  IN  IF Cardinality(buys) >= MinAgreeing THEN buys
      ELSE IF Cardinality(sells) >= MinAgreeing THEN sells ELSE {}

consensus(rows, self, mid) ==
  LET agreeing == Agreeing(rows, self)
      n == Cardinality(agreeing)
      Conf(r) == r.conf
      Weighted(r) == r.model * r.conf
      weight == MapThenSumSet(Conf, agreeing)
      boost == 125 + 5 * (n - MinAgreeing)
  IN  IF agreeing = {} \/ weight = 0 THEN NoSignal
      ELSE AtLeast(MinEdge,
             FairValue(Quot(MapThenSumSet(Weighted, agreeing), weight), mid,
                       Smaller(Quot(Quot(weight, n) * boost, 100), 950)))
-----------------------------------------------------------------------------
(* The strategies on live games: baseline_model, stale_quote,              *)
(* behavior_fade, player_adjust and sportsbook_consensus.  A game is       *)
(* [home, away, named]: the score that is stored, and the team that the    *)
(* question names first (home, away or none).                              *)

StaleQuoteMove   == 150  \* stale_quote_price_move
FadeMultiple     == 25   \* behavior_overreaction_mult, in tenths

align_prob_to_yes(named, p_home) ==
  CASE named = "home" -> p_home
    [] named = "away" -> One - p_home
    [] OTHER -> NoSignal

YesAt(game, score) == align_prob_to_yes(game.named, HomeWin(score.home, score.away))

Against(p_yes, mid, conf) ==
  IF p_yes = NoSignal THEN NoSignal ELSE AtLeast(MinEdge, FairValue(p_yes, mid, conf))

baseline_model(game, mid, conf) == Against(YesAt(game, game), mid, conf)

(* swing holds the score before the newest swing of the last minutes, move *)
(* the range of the mids since, 0 when there is none.                      *)
stale_quote(game, swing, move, mid) ==
  IF swing = NoSignal \/ move >= StaleQuoteMove THEN NoSignal
  ELSE Against(YesAt(game, game), mid,
               650 + (50 * (StaleQuoteMove - move)) \div StaleQuoteMove)

(* first and last are the mids around the swing; the market is taken at    *)
(* last, not at the mid of the evaluation.                                 *)
behavior_fade(game, swing, first, last) ==
  IF swing = NoSignal \/ first = NoSignal \/ game.named = "none" THEN NoSignal
  ELSE LET moved == Abs(last - first)
           model == Abs(YesAt(game, game) - YesAt(game, swing))
           step == Smaller(model, 800)
           target == Clamp(IF last < first THEN last + step ELSE last - step, 100, 9900)
       IN  IF moved < 200 \/ 10 * moved <= FadeMultiple * model + 1000 THEN NoSignal
           ELSE AtLeast(MinEdge, FairValue(target, last, 550))

(* The rosters come back from the table as JSON text, whose characters     *)
(* name no player: the adjustment is zero.                                 *)
player_adjust(game, mid) ==
  Against(align_prob_to_yes(game.named, Clamp(HomeWin(game.home, game.away), 200, 9800)),
          mid, 620)

(* p_home is that of the team the bookmakers call home.                    *)
sportsbook_consensus(game, p_home, mid) ==
  IF p_home = NoSignal THEN NoSignal
  ELSE Against(align_prob_to_yes(game.named, p_home), mid, 720)
=============================================================================
