---------------------------- MODULE MCIngestion -----------------------------
(***************************************************************************)
(* Two markets of one event.  The first has a NO token, the second is      *)
(* listed later, has no companion, and has no quotes.                      *)
(***************************************************************************)
EXTENDS Ingestion, SequencesExt

CONSTANTS m1, m2, y1, n1, y2

MCMarkets == {m1, m2}
MCYes     == (m1 :> y1) @@ (m2 :> y2)
MCNo      == (m1 :> n1) @@ (m2 :> NoToken)
MCEvent   == [m \in MCMarkets |-> "event"]

L(price, size) == [price |-> price, size |-> size]

MCFirstBook ==
  (y1 :> [bids |-> {L(40, 2)}, asks |-> {L(44, 1)}])
    @@ (n1 :> [bids |-> {L(56, 1)}, asks |-> {}])
    @@ (y2 :> [bids |-> {}, asks |-> {}])

(* The YES book gains a bid within a cent of the touch, or loses its bid.  *)
MCMoves ==
  {[token |-> y1, side |-> "BUY", price |-> 41, size |-> 1],
   [token |-> y1, side |-> "BUY", price |-> 40, size |-> 0]}
MCOneMove == {[token |-> y1, side |-> "BUY", price |-> 41, size |-> 1]}

MCFirstListings == {(m1 :> "active") @@ (m2 :> "unlisted")}
MCListings      == {<<"unlisted", "active">>, <<"active", "inactive">>}
MCLiveListings  == {<<"unlisted", "active">>}

MCPrices == {40, 41, 44, 56}

MCOrders     == UNION {SetToSeqs(S) : S \in SUBSET Tokens}
MCLiveOrders == {SetToSeq(S) : S \in SUBSET Tokens}

MCTrades     == {y1, n1}
MCLiveTrades == {n1}
=============================================================================
