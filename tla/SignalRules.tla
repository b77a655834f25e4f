---------------------------- MODULE SignalRules ----------------------------
(***************************************************************************)
(* The pure trading rules shared by the paper simulator, the ranker and    *)
(* the resolution worker: sim/rules.py, common/pnl.py and the gates of     *)
(* common/scoring.py.                                                      *)
(*                                                                         *)
(* A probability, a price and an edge are integers in cents of a one       *)
(* dollar share (0.40 is 40); a confidence is a percentage; a ratio such   *)
(* as MIN_RISK_REWARD is in hundredths.  Nothing here has state.           *)
(***************************************************************************)
EXTENDS Integers

CONSTANTS
  EntryPriceMin,   \* settings.entry_price_min
  EntryPriceMax,   \* settings.entry_price_max
  MinRiskReward    \* settings.min_risk_reward

ASSUME GateAssumption ==
  /\ EntryPriceMin \in 0..100
  /\ EntryPriceMax \in 0..100
  /\ MinRiskReward \in 0..100

Price     == 0..100
Direction == {"buy", "sell"}
Outcome   == {"yes", "no", "unknown"}

Magnitude(x) == IF x < 0 THEN -x ELSE x
Clamp(x, lo, hi) == IF x < lo THEN lo ELSE IF x > hi THEN hi ELSE x

trade_direction(edge) == IF edge > 0 THEN "buy" ELSE "sell"

(* Mutant of compute_pnl_cents: the side of the trade is ignored.          *)
pnl_of_a_buy(entry, direction, outcome) ==
  IF outcome = "yes" THEN 100 - entry ELSE -entry

(* Profit in cents of one share held to a known outcome.                   *)
compute_pnl_cents(entry, direction, outcome) ==
  IF direction = "buy"
  THEN IF outcome = "yes" THEN 100 - entry ELSE -entry
  ELSE IF outcome = "no" THEN entry ELSE entry - 100

(* Profit in cents of one share sold back at a mid price.                  *)
mtm_pnl_cents(entry, exit, direction) ==
  IF direction = "buy" THEN exit - entry ELSE entry - exit

outcome_from_final_mid(mid) ==
  IF mid > 90 THEN "yes" ELSE IF mid < 10 THEN "no" ELSE "unknown"

directional_model_prob(s) == IF s.edge >= 0 THEN s.model ELSE 100 - s.model

(* An empty strategies set stands for a profile without a strategy list.   *)
should_enter(s, prof) ==
  /\ prof.strategies = {} \/ s.strategy \in prof.strategies
  /\ Magnitude(s.edge) >= prof.min_edge
  /\ s.confidence >= prof.min_confidence
  /\ directional_model_prob(s) >= prof.min_model

is_reverse_signal(s, direction) == trade_direction(s.edge) # direction

passes_entry_price_gate(price) ==
  EntryPriceMin <= price /\ price <= EntryPriceMax

(* risk_reward_factor is sqrt(win / loss) clamped to [0.15, 1]; the square *)
(* root is compared with the threshold by squaring both sides.             *)
passes_risk_reward_gate(price, edge) ==
  LET m    == Clamp(price, 1, 99)
      win  == IF edge > 0 THEN 100 - m ELSE m
      loss == 100 - win
  IN  \/ MinRiskReward <= 15
      \/ win * 10000 >= MinRiskReward * MinRiskReward * loss
=============================================================================
