-------------------------- MODULE MCRecommendations --------------------------
(***************************************************************************)
(* Instances of Recommendations for TLC.  An edge of 10 is above and one   *)
(* of 20 twice above the thresholds; a price of 50 is within the entry     *)
(* band, 95 and 5 say who won.                                             *)
(***************************************************************************)
EXTENDS Recommendations, TLC

CONSTANTS m1, m2, s1, s2

OneMarket     == {m1}
TwoMarkets    == {m1, m2}
OneStrategy   == {s1}
TwoStrategies == {s1, s2}

Edges1   == {10, -20}
Weak     == {10}
MidsYes  == {45, 95}
MidsFlat == {50}
Alert8   == {8}
=============================================================================
