---------------------------- MODULE TradeLedger ----------------------------
(***************************************************************************)
(* What sim_trades promises its readers (the paper-trading page, the       *)
(* performance rollups, the report commands): a numbered ledger of trades. *)
(* A trade is opened once, at the next number, and closed at most once;    *)
(* its terms never change, and once closed neither does its result.        *)
(* When Exclusive, a key (a profile and a market) has at most one open     *)
(* trade at a time.                                                        *)
(***************************************************************************)
EXTENDS Integers

CONSTANTS
  Entries,     \* numbers of the trades, naturals
  Keys,        \* what a trade is on
  Terms,       \* direction, entry price, time and run of a trade
  Results,     \* reason and profit of a closed trade
  Exclusive    \* whether a key has at most one open trade

VARIABLE trades

Blank       == [status |-> "absent"]
OpenTrade   == [status : {"open"}, key : Keys, terms : Terms]
ClosedTrade == [status : {"closed"}, key : Keys, terms : Terms, result : Results]

Init == trades = [i \in Entries |-> Blank]

Free(k) == \A i \in Entries : trades[i].status = "open" => trades[i].key # k

Replace(i) == trades' = [trades EXCEPT ![i] = trades'[i]]

Open(i) ==
  /\ trades[i].status = "absent"
  /\ \A j \in Entries : j < i => trades[j].status # "absent"
  /\ trades'[i] \in OpenTrade
  /\ Exclusive => Free(trades'[i].key)
  /\ Replace(i)

Close(i) ==
  /\ trades[i].status = "open"
  /\ trades'[i] \in ClosedTrade
  /\ trades'[i].key = trades[i].key
  /\ trades'[i].terms = trades[i].terms
  /\ Replace(i)

Next == \E i \in Entries : Open(i) \/ Close(i)

Spec == Init /\ [][Next]_trades
=============================================================================
