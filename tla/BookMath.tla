------------------------------ MODULE BookMath ------------------------------
(***************************************************************************)
(* The arithmetic of order books: ingestion/book_math.py, the LocalBook of *)
(* ingestion/ws_market.py and Kalshi's book (kalshi/client.py).            *)
(*                                                                         *)
(* A price is an integer number of cents and one side of a book is a set   *)
(* of levels.  None is 0: a best price of 0 is turned into None wherever   *)
(* the code reads one.  A mid is in half cents, so that the mid of 40 and  *)
(* 41 is a number.                                                         *)
(***************************************************************************)
EXTENDS Integers, FiniteSets, FiniteSetsExt

None == 0

Level == [price : Nat, size : Nat]

Depth(levels) == MapThenSumSet(LAMBDA l : l.size, levels)

BestBid(bids) == Max({None} \cup {l.price : l \in bids})

BestAsk(asks) ==
  LET prices == {l.price : l \in asks} \ {None}
  IN  IF prices = {} THEN None ELSE Min(prices)

mid_from_ba(bb, ba) ==
  IF bb = None THEN 2 * ba ELSE IF ba = None THEN 2 * bb ELSE bb + ba

depth_within_one_cent(bids, asks, bb, ba) ==
  Depth({l \in bids : bb # None /\ l.price \in (bb - 1)..bb})
    + Depth({l \in asks : ba # None /\ l.price \in ba..(ba + 1)})

(* The price row of a raw book, as the interval snapshot and the book      *)
(* message write it.                                                       *)
Touch(bids, asks) ==
  LET bb == BestBid(bids)
      ba == BestAsk(asks)
  IN  [bid |-> bb, ask |-> ba, mid |-> mid_from_ba(bb, ba),
       depth |-> depth_within_one_cent(bids, asks, bb, ba)]

-----------------------------------------------------------------------------
(* LocalBook: per token a pair of sides, at most one level per price.      *)

EmptyBook == [bids |-> {}, asks |-> {}]

Positive(levels) == {l \in levels : l.size > 0}

apply_full_book(bids, asks) ==
  [bids |-> Positive(bids), asks |-> Positive(asks)]

SetLevel(levels, price, size) ==
  {l \in levels : l.price # price}
    \cup (IF size = 0 THEN {} ELSE {[price |-> price, size |-> size]})

apply_price_change(book, side, price, size) ==
  IF side = "BUY"
  THEN [book EXCEPT !.bids = SetLevel(@, price, size)]
  ELSE [book EXCEPT !.asks = SetLevel(@, price, size)]

-----------------------------------------------------------------------------
(* kalshi/client.py parse_orderbook: both sides hold bids, for YES and for *)
(* NO, and the YES ask is what is left of the best NO bid.                 *)
(*                                                                         *)
(* Here a price is in ten thousandths of a dollar and a mid in half of     *)
(* them.  A raw price is the number that is sent, times Dollar: 0.2140     *)
(* dollars are 2140, 45 cents 450000.  A row that is not a pair counts as  *)
(* a bid for nothing at 0, and a price of 0 is a price: a side without a   *)
(* level is Missing.                                                       *)

Dollar  == 10000
Cent    == 100
Missing == -1

(* Mutants of to_prob: the number as it was sent; every number is cents.   *)
to_number(raw)        == raw
to_prob_of_cents(raw) == raw \div 100

(* Numbers above one are cents, whatever list they came in.                *)
to_prob(raw) == IF raw > Dollar THEN raw \div 100 ELSE raw

BestOf(levels) == Max({to_prob(l.price) : l \in levels})

MidOf(bid, ask) ==
  CASE bid # Missing /\ ask # Missing -> bid + ask
    [] bid # Missing /\ ask = Missing -> 2 * bid
    [] bid = Missing /\ ask # Missing -> 2 * ask
    [] OTHER -> Missing

parse_orderbook(yes, no) ==
  LET Implied(l) == Dollar - to_prob(l.price)
      bid == IF yes = {} THEN Missing ELSE BestOf(yes)
      ask == IF no = {} THEN Missing ELSE Dollar - BestOf(no)
  IN  [bid |-> bid, ask |-> ask, mid |-> MidOf(bid, ask),
       depth |-> IF yes # {}
                 THEN MapThenSumSet(LAMBDA l : to_prob(l.price) * l.size,
                                    {l \in yes : bid - to_prob(l.price) <= Cent})
                 ELSE MapThenSumSet(LAMBDA l : Implied(l) * l.size,
                                    {l \in no : ask - Implied(l) <= Cent})]
=============================================================================
