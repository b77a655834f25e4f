---------------------------- MODULE MCSimForward ----------------------------
(***************************************************************************)
(* Instances of SimForward for TLC.  Time is in units of the cooldown      *)
(* being two, so a tick can fall inside or outside of it; the gates are    *)
(* the defaults of common/config.py.                                       *)
(***************************************************************************)
EXTENDS SimForward, TLC

CONSTANTS m1, p1, p2

MidsYes == {50, 95}
MidsNo  == {5, 50}

(* A firm buy, a firm sell from the same strategy, a sell of a second      *)
(* strategy whose confidence only the lenient profile accepts, a buy whose *)
(* edge has not persisted, and a buy outside the entry band.               *)
Buy(m)    == [market |-> m, strategy |-> "stat", edge |-> 20, confidence |-> 80,
              model |-> 70, price |-> 50, in_horizon |-> TRUE, persistent |-> TRUE]
Sell(m)   == [Buy(m) EXCEPT !.edge = -25, !.model = 20, !.price = 45]
Weak(m)   == [Buy(m) EXCEPT !.strategy = "claude", !.edge = -20, !.model = 25,
                            !.price = 45, !.confidence = 72]
Fleeting(m) == [Buy(m) EXCEPT !.persistent = FALSE]
Lopsided(m) == [Buy(m) EXCEPT !.price = 70, !.model = 90]

OneMarket  == {m1}

Signals1 == {Buy(m1), Sell(m1), Weak(m1), Fleeting(m1), Lopsided(m1)}
PairSignals == {Buy(m1), Weak(m1)}
BuySell1 == {Buy(m1), Sell(m1)}

Strict  == [strategies |-> {}, min_edge |-> 8, min_confidence |-> 75,
            min_model |-> 65, cooldown |-> 1]
Lenient == [strategies |-> {"stat", "claude"}, min_edge |-> 5,
            min_confidence |-> 70, min_model |-> 60, cooldown |-> 0]

Solo      == {p1}
SoloSeq   == <<p1>>
SoloT     == [p \in Solo |-> Strict]
Pair      == {p1, p2}
PairSeq   == <<p1, p2>>
PairT     == (p1 :> Strict) @@ (p2 :> Lenient)

Hold1 == [m \in OneMarket |-> 2]
=============================================================================
