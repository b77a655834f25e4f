------------------------ MODULE IngestionFeedProofs -------------------------
(***************************************************************************)
(* What a WebSocket session guarantees about the local books and the ticks *)
(* it writes, for every set of markets, every book, every sequence of      *)
(* moves, trades and quotes, and however many connections are lost.        *)
(***************************************************************************)
EXTENDS Ingestion, MinMaxProofs, SequenceTheorems

-----------------------------------------------------------------------------
(* Levels and books.                                                       *)

VenueLevels == [price : Prices, size : Nat \ {0}]

LEMMA BookSides ==
  /\ Book = [bids : SUBSET VenueLevels, asks : SUBSET VenueLevels]
  /\ EmptyBook \in Book
BY DEF Book, VenueLevels, EmptyBook

LEMMA LevelsTyped ==
  ASSUME NEW b \in Book, NEW side \in Sides PROVE Levels(b, side) \in SUBSET VenueLevels
BY BookSides DEF Levels

(* A best price is one of the prices, or none.                             *)
LEMMA BestPrices ==
  ASSUME NEW S \in SUBSET VenueLevels PROVE BestBid(S) \in Nat /\ BestAsk(S) \in Nat
<1> DEFINE prices == {l.price : l \in S}
<1>1. prices \in SUBSET (0..100)
  BY VenueAssumption DEF VenueLevels
<1>2. Max({None} \cup prices) \in {None} \cup prices
  <2>1. {None} \cup prices \in SUBSET (0..100) /\ {None} \cup prices # {} /\ 100 \in Nat
    BY <1>1 DEF None
  <2> HIDE DEF prices
  <2> QED
    BY <2>1, MaxOfBounded
<1>3. BestBid(S) \in Nat
  BY <1>1, <1>2 DEF BestBid, None
<1>4. CASE prices \ {None} = {}
  BY <1>3, <1>4 DEF BestAsk, None
<1>5. CASE prices \ {None} # {}
  <2>1. prices \ {None} \in SUBSET Nat
    BY <1>1
  <2>2. Min(prices \ {None}) \in prices \ {None}
    <3> HIDE DEF prices
    <3> QED
      BY <1>5, <2>1, MinOfNaturals
  <2>3. BestAsk(S) = Min(prices \ {None})
    BY <1>5 DEF BestAsk
  <2> QED
    BY <1>3, <2>1, <2>2, <2>3
<1> QED
  BY <1>4, <1>5

LEMMA SetLevelTyped ==
  ASSUME NEW S \in SUBSET VenueLevels, NEW price \in Prices, NEW size \in Nat
  PROVE  SetLevel(S, price, size) \in SUBSET VenueLevels
BY DEF SetLevel, VenueLevels

LEMMA ChangedBook ==
  ASSUME NEW b \in Book, NEW side \in Sides, NEW price \in Prices, NEW size \in Nat
  PROVE  apply_price_change(b, side, price, size) \in Book
<1>1. b \in [bids : SUBSET VenueLevels, asks : SUBSET VenueLevels]
  BY BookSides
<1>2. /\ SetLevel(b.bids, price, size) \in SUBSET VenueLevels
      /\ SetLevel(b.asks, price, size) \in SUBSET VenueLevels
  BY <1>1, SetLevelTyped
<1> QED
  BY <1>1, <1>2, BookSides DEF apply_price_change

(* A whole book is taken over as it is: its levels have sizes.             *)
LEMMA FullBook == ASSUME NEW b \in Book PROVE apply_full_book(b.bids, b.asks) = b
<1>1. b \in [bids : SUBSET VenueLevels, asks : SUBSET VenueLevels]
  BY BookSides
<1>2. ASSUME NEW S \in SUBSET VenueLevels PROVE Positive(S) = S
  <2>1. \A l \in S : l.size > 0
    BY DEF VenueLevels
  <2> QED
    BY <2>1 DEF Positive
<1>3. Positive(b.bids) = b.bids /\ Positive(b.asks) = b.asks
  BY <1>1, <1>2
<1> QED
  BY <1>1, <1>3 DEF apply_full_book

(* Setting a level gives it the size, and leaves the others alone.         *)
LEMMA SizesSet ==
  ASSUME NEW S \in SUBSET VenueLevels, NEW price \in Prices, NEW size \in Nat
  PROVE  /\ SizesAt(SetLevel(S, price, size), price) = IF size = 0 THEN {} ELSE {size}
         /\ \A other \in Prices \ {price} :
              SizesAt(SetLevel(S, price, size), other) = SizesAt(S, other)
<1>1. \A l \in S : l.price # price => l \in SetLevel(S, price, size)
  BY DEF SetLevel
<1>2. \A l \in SetLevel(S, price, size) :
        l.price = price => size # 0 /\ l = [price |-> price, size |-> size]
  BY DEF SetLevel
<1>3. \A l \in SetLevel(S, price, size) : l.price # price => l \in S
  BY DEF SetLevel
<1>4. SizesAt(SetLevel(S, price, size), price) = IF size = 0 THEN {} ELSE {size}
  <2>1. CASE size = 0
    BY <1>2, <2>1 DEF SizesAt
  <2>2. CASE size # 0
    <3>1. [price |-> price, size |-> size] \in SetLevel(S, price, size)
      BY <2>2 DEF SetLevel
    <3>2. size \in SizesAt(SetLevel(S, price, size), price)
      BY <3>1 DEF SizesAt
    <3>3. SizesAt(SetLevel(S, price, size), price) \subseteq {size}
      BY <1>2 DEF SizesAt
    <3> QED
      BY <2>2, <3>2, <3>3
  <2> QED
    BY <2>1, <2>2
<1>5. ASSUME NEW other \in Prices \ {price}
      PROVE  SizesAt(SetLevel(S, price, size), other) = SizesAt(S, other)
  <2>1. {k \in SetLevel(S, price, size) : k.price = other} = {k \in S : k.price = other}
    BY <1>1, <1>3
  <2> QED
    BY <2>1 DEF SizesAt
<1> QED
  BY <1>4, <1>5

-----------------------------------------------------------------------------
(* Messages.                                                               *)

LEMMA MessageKinds ==
  ASSUME NEW msg \in Message
  PROVE  /\ msg.token \in Tokens
         /\ msg.type \in {"book", "price_change", "best_bid_ask", "last_trade_price"}
         /\ msg.type = "book" => msg.book \in Book
         /\ msg.type = "price_change" =>
              msg.side \in Sides /\ msg.price \in Prices /\ msg.size \in Nat
BY DEF Message

(* What a level of a book holds after a message: what the message says of  *)
(* the level if it speaks of it, and what was there if it does not.        *)
At(b, side, price) == SizesAt(Levels(b, side), price)

LEMMA AppliedTyped ==
  ASSUME NEW msg \in Message, NEW b \in Book PROVE Applied(msg, b) \in Book
BY MessageKinds, FullBook, ChangedBook DEF Applied

LEMMA ChangeAt ==
  ASSUME NEW b \in Book, NEW side \in Sides, NEW price \in Prices, NEW size \in Nat
  PROVE  /\ At(apply_price_change(b, side, price, size), side, price)
              = IF size = 0 THEN {} ELSE {size}
         /\ \A s \in Sides, p \in Prices :
              s # side \/ p # price =>
                At(apply_price_change(b, side, price, size), s, p) = At(b, s, p)
<1> DEFINE c == apply_price_change(b, side, price, size)
<1>1. b \in [bids : SUBSET VenueLevels, asks : SUBSET VenueLevels]
  BY BookSides
<1>2. Levels(c, side) = SetLevel(Levels(b, side), price, size)
  BY <1>1 DEF Levels, apply_price_change, Sides
<1>3. \A s \in Sides : s # side => Levels(c, s) = Levels(b, s)
  BY <1>1 DEF Levels, apply_price_change, Sides
<1>4. Levels(b, side) \in SUBSET VenueLevels
  BY LevelsTyped
<1>5. At(c, side, price) = IF size = 0 THEN {} ELSE {size}
  BY <1>2, <1>4, SizesSet DEF At
<1>6. ASSUME NEW s \in Sides, NEW p \in Prices, s # side \/ p # price
      PROVE  At(c, s, p) = At(b, s, p)
  <2>1. CASE s # side
    BY <1>3, <2>1 DEF At
  <2>2. CASE s = side
    BY <1>2, <1>4, <1>6, <2>2, SizesSet DEF At
  <2> QED
    BY <2>1, <2>2
<1> QED
  BY <1>5, <1>6

LEMMA SilentAt ==
  ASSUME NEW msg \in Message, NEW b \in Book, NEW side \in Sides, NEW price \in Prices,
         ~SpeaksOf(msg, msg.token, side, price)
  PROVE  At(Applied(msg, b), side, price) = At(b, side, price)
<1>1. msg.type # "book"
  BY DEF SpeaksOf
<1>2. CASE msg.type = "price_change"
  <2>1. Applied(msg, b) = apply_price_change(b, msg.side, msg.price, msg.size)
    BY <1>2 DEF Applied
  <2>2. side # msg.side \/ price # msg.price
    BY <1>2 DEF SpeaksOf
  <2> QED
    BY <1>2, <2>1, <2>2, MessageKinds, ChangeAt
<1>3. CASE msg.type # "price_change"
  <2>1. Applied(msg, b) = b
    BY <1>1, <1>3 DEF Applied
  <2> QED
    BY <2>1
<1> QED
  BY <1>2, <1>3

LEMMA SpokenAt ==
  ASSUME NEW msg \in Message, NEW b \in Book, NEW c \in Book,
         NEW t, NEW side \in Sides, NEW price \in Prices, SpeaksOf(msg, t, side, price)
  PROVE  At(Applied(msg, b), side, price) = At(Applied(msg, c), side, price)
<1>1. CASE msg.type = "book"
  BY <1>1 DEF Applied
<1>2. CASE msg.type = "price_change" /\ msg.side = side /\ msg.price = price
  <2>1. PICK size \in Nat : size = msg.size
    BY <1>2, MessageKinds
  <2>2. /\ Applied(msg, b) = apply_price_change(b, side, price, size)
        /\ Applied(msg, c) = apply_price_change(c, side, price, size)
    BY <1>2, <2>1 DEF Applied
  <2>3. At(apply_price_change(b, side, price, size), side, price)
          = At(apply_price_change(c, side, price, size), side, price)
    BY ChangeAt
  <2> QED
    BY <2>2, <2>3
<1> QED
  BY <1>1, <1>2 DEF SpeaksOf

-----------------------------------------------------------------------------
(* The last word.  A queue q, read on top of the book b, brings a level to *)
(* what the book v has there.                                              *)

Speakers(q, t, side, price) == {i \in DOMAIN q : SpeaksOf(q[i], t, side, price)}

IsLast(i, S) == i \in S /\ \A j \in S : j <= i

Follows(q, b, v, t, side, price) ==
  \/ Speakers(q, t, side, price) = {} /\ At(b, side, price) = At(v, side, price)
  \/ \E i \in Speakers(q, t, side, price) :
       /\ IsLast(i, Speakers(q, t, side, price))
       /\ At(Applied(q[i], EmptyBook), side, price) = At(v, side, price)

LEMMA LevelFollowsMeans ==
  ASSUME NEW t, NEW side, NEW price
  PROVE  LevelFollows(t, side, price) <=> Follows(inbox, local[t], venue[t], t, side, price)
<1>1. \A i : i \in Speakers(inbox, t, side, price)
               <=> i \in DOMAIN inbox /\ SpeaksOf(inbox[i], t, side, price)
  BY DEF Speakers
<1> DEFINE D == Speakers(inbox, t, side, price)
<1>2. LevelFollows(t, side, price)
        <=> \/ At(local[t], side, price) = At(venue[t], side, price)
                 /\ \A i \in DOMAIN inbox : i \notin D
            \/ \E i \in DOMAIN inbox :
                 /\ i \in D /\ \A j \in DOMAIN inbox : j \in D => j <= i
                 /\ At(Applied(inbox[i], EmptyBook), side, price) = At(venue[t], side, price)
  BY DEF LevelFollows, At, Speakers
<1>3. Follows(inbox, local[t], venue[t], t, side, price)
        <=> \/ D = {} /\ At(local[t], side, price) = At(venue[t], side, price)
            \/ \E i \in D :
                 /\ i \in D /\ \A j \in D : j <= i
                 /\ At(Applied(inbox[i], EmptyBook), side, price) = At(venue[t], side, price)
  BY DEF Follows, IsLast
<1>4. \A i \in D : i \in DOMAIN inbox
  BY <1>1
<1> HIDE DEF D
<1> QED
  BY <1>2, <1>3, <1>4

(* Reading the first message.                                              *)
LEMMA TailIndices ==
  ASSUME NEW S, NEW q \in Seq(S), q # <<>>
  PROVE  /\ DOMAIN q = 1..Len(q) /\ Len(q) \in Nat /\ Len(q) >= 1
         /\ q[1] = Head(q) /\ Head(q) \in S /\ Tail(q) \in Seq(S)
         /\ DOMAIN Tail(q) = 1..(Len(q) - 1)
         /\ \A i \in 1..(Len(q) - 1) : Tail(q)[i] = q[i + 1]
<1>1. Len(q) \in Nat \ {0} /\ DOMAIN q = 1..Len(q)
  BY EmptySeq, LenProperties
<1>2. /\ Head(q) \in S /\ Tail(q) \in Seq(S) /\ Len(Tail(q)) = Len(q) - 1
      /\ \A i \in 1..Len(Tail(q)) : Tail(q)[i] = q[i + 1]
  BY HeadTailProperties
<1>3. DOMAIN Tail(q) = 1..(Len(q) - 1)
  BY <1>2, LenProperties
<1>4. q[1] = Head(q)
  BY <1>1
<1> QED
  BY <1>1, <1>2, <1>3, <1>4

LEMMA AppendIndices ==
  ASSUME NEW S, NEW q \in Seq(S), NEW msg \in S
  PROVE  /\ DOMAIN q = 1..Len(q) /\ Len(q) \in Nat
         /\ Append(q, msg) \in Seq(S)
         /\ DOMAIN Append(q, msg) = 1..(Len(q) + 1)
         /\ \A i \in 1..Len(q) : Append(q, msg)[i] = q[i]
         /\ Append(q, msg)[Len(q) + 1] = msg
<1>1. Len(q) \in Nat /\ DOMAIN q = 1..Len(q)
  BY LenProperties
<1>2. Append(q, msg) \in Seq(S) /\ Len(Append(q, msg)) = Len(q) + 1
  BY <1>1
<1>3. DOMAIN Append(q, msg) = 1..(Len(q) + 1)
  BY <1>2, LenProperties
<1>4. \A i \in 1..Len(q) : Append(q, msg)[i] = q[i]
  BY <1>1
<1>5. Append(q, msg)[Len(q) + 1] = msg
  BY <1>1
<1> QED
  BY <1>1, <1>2, <1>3, <1>4, <1>5

LEMMA FollowsTail ==
  ASSUME NEW q \in Seq(Message), q # <<>>, NEW b \in Book, NEW v, NEW t,
         NEW side \in Sides, NEW price \in Prices, Follows(q, b, v, t, side, price)
  PROVE  Follows(Tail(q), IF Head(q).token = t THEN Applied(Head(q), b) ELSE b,
                 v, t, side, price)
<1> DEFINE S == Speakers(q, t, side, price)
           T == Speakers(Tail(q), t, side, price)
           c == IF Head(q).token = t THEN Applied(Head(q), b) ELSE b
<1>1. /\ DOMAIN q = 1..Len(q) /\ Len(q) \in Nat /\ Len(q) >= 1
      /\ q[1] = Head(q) /\ Head(q) \in Message
      /\ DOMAIN Tail(q) = 1..(Len(q) - 1)
      /\ \A i \in 1..(Len(q) - 1) : Tail(q)[i] = q[i + 1]
  BY TailIndices
<1>2. \A i : i \in T <=> i \in 1..(Len(q) - 1) /\ i + 1 \in S
  BY <1>1 DEF Speakers
<1>3. 1 \in S <=> SpeaksOf(Head(q), t, side, price)
  BY <1>1 DEF Speakers
<1>4. S \subseteq 1..Len(q)
  BY <1>1 DEF Speakers
<1>5. ASSUME S = {}, At(b, side, price) = At(v, side, price)
      PROVE  Follows(Tail(q), c, v, t, side, price)
  <2>1. T = {}
    BY <1>2, <1>5
  <2>2. At(c, side, price) = At(b, side, price)
    <3>1. CASE Head(q).token = t
      <4>1. ~SpeaksOf(Head(q), Head(q).token, side, price)
        BY <1>3, <1>5, <3>1
      <4> QED
        BY <1>1, <3>1, <4>1, SilentAt
    <3>2. CASE Head(q).token # t
      BY <3>2
    <3> QED
      BY <3>1, <3>2
  <2> QED
    BY <1>5, <2>1, <2>2 DEF Follows
<1>6. ASSUME NEW i \in S, IsLast(i, S),
             At(Applied(q[i], EmptyBook), side, price) = At(v, side, price)
      PROVE  Follows(Tail(q), c, v, t, side, price)
  <2>1. CASE i = 1
    <3>1. \A j \in S : j <= 1
      BY <1>6, <2>1 DEF IsLast
    <3>2. T = {}
      <4> SUFFICES ASSUME NEW j \in T PROVE FALSE
        OBVIOUS
      <4>1. j \in 1..(Len(q) - 1) /\ j + 1 \in S
        BY <1>2
      <4>2. j + 1 <= 1
        BY <3>1, <4>1
      <4> QED
        BY <1>1, <4>1, <4>2
    <3>3. SpeaksOf(Head(q), t, side, price)
      BY <1>3, <1>6, <2>1
    <3>4. Head(q).token = t
      BY <3>3 DEF SpeaksOf
    <3>5. At(Applied(Head(q), b), side, price) = At(Applied(Head(q), EmptyBook), side, price)
      BY <1>1, <3>3, BookSides, SpokenAt
    <3>6. At(c, side, price) = At(v, side, price)
      BY <1>1, <1>6, <2>1, <3>4, <3>5
    <3> QED
      BY <3>2, <3>6 DEF Follows
  <2>2. CASE i # 1
    <3>1. i \in 1..Len(q) /\ i - 1 \in 1..(Len(q) - 1) /\ (i - 1) + 1 = i
      BY <1>1, <1>4, <2>2
    <3>2. i - 1 \in T /\ Tail(q)[i - 1] = q[i]
      BY <1>1, <1>2, <1>6, <3>1
    <3>3. ASSUME NEW j \in T PROVE j <= i - 1
      <4>1. j \in 1..(Len(q) - 1) /\ j + 1 \in S
        BY <1>2
      <4>2. j + 1 <= i
        BY <1>6, <4>1 DEF IsLast
      <4> QED
        BY <1>1, <3>1, <4>1, <4>2
    <3>4. IsLast(i - 1, T)
      BY <3>2, <3>3 DEF IsLast
    <3>5. At(Applied(Tail(q)[i - 1], EmptyBook), side, price) = At(v, side, price)
      BY <1>6, <3>2
    <3> HIDE DEF c
    <3> QED
      BY <3>2, <3>4, <3>5 DEF Follows
  <2> QED
    BY <2>1, <2>2
<1> HIDE DEF c
<1>7. Follows(Tail(q), c, v, t, side, price)
  BY <1>5, <1>6 DEF Follows
<1> QED
  BY <1>7 DEF c

(* A message that does not speak of the level.                             *)
LEMMA FollowsSilence ==
  ASSUME NEW q \in Seq(Message), NEW msg \in Message, NEW b, NEW v, NEW w, NEW t,
         NEW side, NEW price, Follows(q, b, v, t, side, price),
         ~SpeaksOf(msg, t, side, price), At(w, side, price) = At(v, side, price)
  PROVE  Follows(Append(q, msg), b, w, t, side, price)
<1> DEFINE S == Speakers(q, t, side, price)
           T == Speakers(Append(q, msg), t, side, price)
<1>1. /\ DOMAIN q = 1..Len(q) /\ Len(q) \in Nat
      /\ DOMAIN Append(q, msg) = 1..(Len(q) + 1)
      /\ \A i \in 1..Len(q) : Append(q, msg)[i] = q[i]
      /\ Append(q, msg)[Len(q) + 1] = msg
  BY AppendIndices
<1>2. \A i : i \in T <=> i \in 1..(Len(q) + 1) /\ SpeaksOf(Append(q, msg)[i], t, side, price)
  BY <1>1 DEF Speakers
<1>3. \A i : i \in S <=> i \in 1..Len(q) /\ SpeaksOf(q[i], t, side, price)
  BY <1>1 DEF Speakers
<1>4. \A i \in 1..(Len(q) + 1) : i \in 1..Len(q) \/ i = Len(q) + 1
  BY <1>1
<1>5. \A i \in 1..Len(q) : i \in 1..(Len(q) + 1)
  BY <1>1
<1>6. \A i : i \in T <=> i \in S
  BY <1>1, <1>2, <1>3, <1>4, <1>5
<1>7. T = S
  BY <1>6
<1>8. \A i \in S : Append(q, msg)[i] = q[i]
  BY <1>1, <1>3
<1>9. CASE S = {} /\ At(b, side, price) = At(v, side, price)
  BY <1>7, <1>9 DEF Follows
<1>10. ASSUME NEW i \in S, IsLast(i, S),
              At(Applied(q[i], EmptyBook), side, price) = At(v, side, price)
       PROVE  Follows(Append(q, msg), b, w, t, side, price)
  <2>1. At(Applied(Append(q, msg)[i], EmptyBook), side, price) = At(w, side, price)
    BY <1>8, <1>10
  <2>2. i \in T /\ IsLast(i, T)
    BY <1>7, <1>10
  <2> QED
    BY <2>1, <2>2 DEF Follows
<1> QED
  BY <1>9, <1>10 DEF Follows

(* One that does has the last word.                                        *)
LEMMA FollowsWord ==
  ASSUME NEW q \in Seq(Message), NEW msg \in Message, NEW b, NEW v, NEW t,
         NEW side, NEW price, SpeaksOf(msg, t, side, price),
         At(Applied(msg, EmptyBook), side, price) = At(v, side, price)
  PROVE  Follows(Append(q, msg), b, v, t, side, price)
<1> DEFINE T == Speakers(Append(q, msg), t, side, price)
<1>1. /\ Len(q) \in Nat
      /\ DOMAIN Append(q, msg) = 1..(Len(q) + 1)
      /\ Append(q, msg)[Len(q) + 1] = msg
  BY AppendIndices
<1>2. Len(q) + 1 \in T
  BY <1>1 DEF Speakers
<1>3. \A j \in T : j <= Len(q) + 1
  BY <1>1 DEF Speakers
<1> QED
  BY <1>1, <1>2, <1>3 DEF Follows, IsLast

-----------------------------------------------------------------------------
(* The same for the mid of a token: q holds the messages, row is the       *)
(* newest row of the market.                                               *)

IsPriced(msg, t) == msg.token = t /\ msg.type # "last_trade_price"
PricedIn(q, t)   == {i \in DOMAIN q : IsPriced(q[i], t)}

RowAgrees(row, mid, t) ==
  row # NoRow /\ row.kind # "interval_30s" /\ row.token = t => mid \in {None, row.mid}

Ticks(q, row, mid, t) ==
  \/ PricedIn(q, t) = {} /\ RowAgrees(row, mid, t)
  \/ \E i \in PricedIn(q, t) : IsLast(i, PricedIn(q, t)) /\ MessageMid(q[i]) = mid

LEMMA TickFollowsMeans ==
  ASSUME NEW t
  PROVE  TickFollows(t) <=> Ticks(inbox, latest[MarketOf(t)], VenueMid(t), t)
<1> DEFINE D == PricedIn(inbox, t)
<1>1. \A i : i \in D <=> i \in DOMAIN inbox /\ IsPriced(inbox[i], t)
  BY DEF PricedIn
<1>2. TickFollows(t)
        <=> \/ /\ \A i \in DOMAIN inbox : i \notin D
               /\ RowAgrees(latest[MarketOf(t)], VenueMid(t), t)
            \/ \E i \in DOMAIN inbox :
                 /\ i \in D /\ \A j \in DOMAIN inbox : j \in D => j <= i
                 /\ MessageMid(inbox[i]) = VenueMid(t)
  BY DEF TickFollows, RowAgrees, PricedIn, IsPriced
<1>3. Ticks(inbox, latest[MarketOf(t)], VenueMid(t), t)
        <=> \/ D = {} /\ RowAgrees(latest[MarketOf(t)], VenueMid(t), t)
            \/ \E i \in D :
                 /\ i \in D /\ \A j \in D : j <= i
                 /\ MessageMid(inbox[i]) = VenueMid(t)
  BY DEF Ticks, IsLast
<1>4. \A i \in D : i \in DOMAIN inbox
  BY <1>1
<1> HIDE DEF D
<1> QED
  BY <1>2, <1>3, <1>4

(* Reading a message: a priced one that is the last has written its mid,   *)
(* and without a priced one the row agrees already.                        *)
LEMMA TicksTail ==
  ASSUME NEW q \in Seq(Message), q # <<>>, NEW row, NEW next, NEW mid, NEW t,
         Ticks(q, row, mid, t),
         IsPriced(Head(q), t) /\ MessageMid(Head(q)) = mid => RowAgrees(next, mid, t),
         PricedIn(q, t) = {} /\ RowAgrees(row, mid, t) => RowAgrees(next, mid, t)
  PROVE  Ticks(Tail(q), next, mid, t)
<1> DEFINE S == PricedIn(q, t)
           T == PricedIn(Tail(q), t)
<1>1. /\ DOMAIN q = 1..Len(q) /\ Len(q) \in Nat /\ Len(q) >= 1
      /\ q[1] = Head(q)
      /\ DOMAIN Tail(q) = 1..(Len(q) - 1)
      /\ \A i \in 1..(Len(q) - 1) : Tail(q)[i] = q[i + 1]
  BY TailIndices
<1>2. \A i : i \in T <=> i \in 1..(Len(q) - 1) /\ i + 1 \in S
  BY <1>1 DEF PricedIn
<1>3. S \subseteq 1..Len(q) /\ \A i \in S : IsPriced(q[i], t)
  BY <1>1 DEF PricedIn
<1>4. CASE S = {} /\ RowAgrees(row, mid, t)
  <2>1. T = {}
    BY <1>2, <1>4
  <2> QED
    BY <1>4, <2>1 DEF Ticks
<1>5. ASSUME NEW i \in S, IsLast(i, S), MessageMid(q[i]) = mid
      PROVE  Ticks(Tail(q), next, mid, t)
  <2>1. CASE i = 1
    <3>1. \A j \in S : j <= 1
      BY <1>5, <2>1 DEF IsLast
    <3>2. T = {}
      <4> SUFFICES ASSUME NEW j \in T PROVE FALSE
        OBVIOUS
      <4>1. j \in 1..(Len(q) - 1) /\ j + 1 \in S
        BY <1>2
      <4>2. j + 1 <= 1
        BY <3>1, <4>1
      <4> QED
        BY <1>1, <4>1, <4>2
    <3>3. RowAgrees(next, mid, t)
      BY <1>1, <1>3, <1>5, <2>1
    <3> QED
      BY <3>2, <3>3 DEF Ticks
  <2>2. CASE i # 1
    <3>1. i \in 1..Len(q) /\ i - 1 \in 1..(Len(q) - 1) /\ (i - 1) + 1 = i
      BY <1>1, <1>3, <2>2
    <3>2. i - 1 \in T /\ Tail(q)[i - 1] = q[i]
      BY <1>1, <1>2, <1>5, <3>1
    <3>3. ASSUME NEW j \in T PROVE j <= i - 1
      <4>1. j \in 1..(Len(q) - 1) /\ j + 1 \in S
        BY <1>2
      <4>2. j + 1 <= i
        BY <1>5, <4>1 DEF IsLast
      <4> QED
        BY <1>1, <3>1, <4>1, <4>2
    <3>4. IsLast(i - 1, T)
      BY <3>2, <3>3 DEF IsLast
    <3> QED
      BY <1>5, <3>2, <3>4 DEF Ticks
  <2> QED
    BY <2>1, <2>2
<1> QED
  BY <1>4, <1>5 DEF Ticks

LEMMA TicksSilence ==
  ASSUME NEW q \in Seq(Message), NEW msg \in Message, NEW row, NEW mid, NEW t,
         Ticks(q, row, mid, t), ~IsPriced(msg, t)
  PROVE  Ticks(Append(q, msg), row, mid, t)
<1> DEFINE S == PricedIn(q, t)
           T == PricedIn(Append(q, msg), t)
<1>1. /\ DOMAIN q = 1..Len(q) /\ Len(q) \in Nat
      /\ DOMAIN Append(q, msg) = 1..(Len(q) + 1)
      /\ \A i \in 1..Len(q) : Append(q, msg)[i] = q[i]
      /\ Append(q, msg)[Len(q) + 1] = msg
  BY AppendIndices
<1>2. \A i : i \in T <=> i \in 1..(Len(q) + 1) /\ IsPriced(Append(q, msg)[i], t)
  BY <1>1 DEF PricedIn
<1>3. \A i : i \in S <=> i \in 1..Len(q) /\ IsPriced(q[i], t)
  BY <1>1 DEF PricedIn
<1>4. \A i \in 1..(Len(q) + 1) : i \in 1..Len(q) \/ i = Len(q) + 1
  BY <1>1
<1>5. \A i \in 1..Len(q) : i \in 1..(Len(q) + 1)
  BY <1>1
<1>6. \A i : i \in T <=> i \in S
  BY <1>1, <1>2, <1>3, <1>4, <1>5
<1>7. T = S /\ \A i \in S : Append(q, msg)[i] = q[i]
  BY <1>1, <1>3, <1>6
<1>8. CASE S = {} /\ RowAgrees(row, mid, t)
  BY <1>7, <1>8 DEF Ticks
<1>9. ASSUME NEW i \in S, IsLast(i, S), MessageMid(q[i]) = mid
      PROVE  Ticks(Append(q, msg), row, mid, t)
  <2>1. i \in T /\ IsLast(i, T) /\ MessageMid(Append(q, msg)[i]) = mid
    BY <1>7, <1>9
  <2> QED
    BY <2>1 DEF Ticks
<1> QED
  BY <1>8, <1>9 DEF Ticks

LEMMA TicksWord ==
  ASSUME NEW q \in Seq(Message), NEW msg \in Message, NEW row, NEW t, IsPriced(msg, t)
  PROVE  Ticks(Append(q, msg), row, MessageMid(msg), t)
<1> DEFINE T == PricedIn(Append(q, msg), t)
<1>1. /\ Len(q) \in Nat
      /\ DOMAIN Append(q, msg) = 1..(Len(q) + 1)
      /\ Append(q, msg)[Len(q) + 1] = msg
  BY AppendIndices
<1>2. Len(q) + 1 \in T /\ \A j \in T : j <= Len(q) + 1
  BY <1>1 DEF PricedIn
<1> QED
  BY <1>1, <1>2 DEF Ticks, IsLast

(* A snapshot changes no row of the session's.                             *)
LEMMA TicksOfRow ==
  ASSUME NEW q, NEW row, NEW next, NEW mid, NEW t, Ticks(q, row, mid, t),
         RowAgrees(row, mid, t) => RowAgrees(next, mid, t)
  PROVE  Ticks(q, next, mid, t)
BY DEF Ticks

-----------------------------------------------------------------------------
(* A session that has caught up with a token holds the venue's book of it. *)
LEMMA SameBook ==
  ASSUME NEW b \in Book, NEW v \in Book,
         \A side \in Sides, price \in Prices : At(b, side, price) = At(v, side, price)
  PROVE  b = v
<1>1. ASSUME NEW c \in Book, NEW d \in Book, NEW side \in Sides,
             \A price \in Prices : At(c, side, price) = At(d, side, price)
      PROVE  Levels(c, side) \subseteq Levels(d, side)
  <2> SUFFICES ASSUME NEW l \in Levels(c, side) PROVE l \in Levels(d, side)
    OBVIOUS
  <2>1. l \in VenueLevels /\ Levels(d, side) \subseteq VenueLevels
    BY LevelsTyped
  <2>2. l.price \in Prices /\ l.size \in At(c, side, l.price)
    BY <2>1 DEF At, SizesAt, VenueLevels
  <2>3. l.size \in At(d, side, l.price)
    BY <1>1, <2>2
  <2>4. PICK k \in Levels(d, side) : k.price = l.price /\ k.size = l.size
    BY <2>3 DEF At, SizesAt
  <2>5. k = l
    BY <2>1, <2>4 DEF VenueLevels
  <2> QED
    BY <2>4, <2>5
<1>2. ASSUME NEW side \in Sides PROVE Levels(b, side) = Levels(v, side)
  <2>1. Levels(b, side) \subseteq Levels(v, side)
    BY <1>1
  <2>2. Levels(v, side) \subseteq Levels(b, side)
    BY <1>1
  <2> QED
    BY <2>1, <2>2
<1>3. b.bids = v.bids /\ b.asks = v.asks
  BY <1>2 DEF Levels, Sides
<1> QED
  BY <1>3, BookSides

LEMMA CaughtUp ==
  ASSUME NEW q, NEW b \in Book, NEW v \in Book, NEW t, PricedIn(q, t) = {},
         \A side \in Sides, price \in Prices : Follows(q, b, v, t, side, price)
  PROVE  b = v
<1>1. ASSUME NEW side \in Sides, NEW price \in Prices
      PROVE  At(b, side, price) = At(v, side, price)
  <2>1. Speakers(q, t, side, price) \subseteq PricedIn(q, t)
    BY DEF Speakers, PricedIn, SpeaksOf, IsPriced
  <2>2. Speakers(q, t, side, price) = {} /\ Follows(q, b, v, t, side, price)
    BY <2>1
  <2> QED
    BY <2>2 DEF Follows
<1> QED
  BY <1>1, SameBook

BookMid(b) == mid_from_ba(BestBid(b.bids), BestAsk(b.asks))

(* What the row of a message says.                                         *)
LEMMA RowOfMessage ==
  ASSUME NEW msg \in Message, NEW b
  PROVE  /\ RowFor(msg, b).token = msg.token /\ RowFor(msg, b).kind \in {"tick", "trade"}
         /\ msg.type = "last_trade_price" => RowFor(msg, b).mid = BookMid(b)
         /\ msg.type # "last_trade_price" => RowFor(msg, b).mid = MessageMid(msg)
<1>1. CASE msg.type = "last_trade_price"
  BY <1>1 DEF RowFor, PriceRow, Touch, BookMid
<1>2. CASE msg.type = "book"
  BY <1>2 DEF RowFor, PriceRow, Touch, MessageMid
<1>3. CASE msg.type \notin {"last_trade_price", "book"}
  BY <1>3 DEF RowFor, PriceRow, MessageMid
<1> QED
  BY <1>1, <1>2, <1>3

-----------------------------------------------------------------------------
(* What every reachable state is made of.                                  *)

DiscType ==
  /\ DOMAIN disc = {"pc", "todo", "rows"}
  /\ disc.pc \in {"off", "fetch", "upsert", "insert", "wait", "done"}
SnapType ==
  /\ DOMAIN snap = {"pc", "todo", "row"} /\ snap.todo \subseteq Markets
  /\ snap.pc \in {"off", "wait", "loop", "done", "dead"}
  /\ snap.row # NoRow => snap.row.token \in Tokens /\ snap.row.kind = "interval_30s"
SupType ==
  sup \in [pc : {"off", "load", "sleep", "session", "closing", "done", "dead"},
           assets : SUBSET Tokens]
WsType == ws \in [pc : {"off", "connect", "read", "done"}, localStop : BOOLEAN]
TablesType ==
  /\ listing \in [Markets -> {"unlisted", "active", "inactive", "dropped"}]
  /\ status \in [Markets -> {"none", "active", "closed"}] /\ links \subseteq SUBSET Markets
ProcType == proc \in {"starting", "running", "down"} /\ stop \in BOOLEAN
LatestType ==
  /\ DOMAIN latest = Markets
  /\ \A m \in Markets : latest[m] # NoRow => latest[m].token \in TokensOf(m)
BooksType == venue \in [Tokens -> Book] /\ local \in [Tokens -> Book]
InboxType == inbox \in Seq(Message)

TypeInv ==
  /\ DiscType /\ SnapType /\ SupType /\ WsType /\ TablesType /\ ProcType
  /\ LatestType /\ BooksType /\ InboxType

LEMMA TypeInvMeans == TypeInv => TypeOK
BY DEF TypeInv, TypeOK, DiscType, SnapType, SupType, WsType, TablesType, ProcType, LatestType,
       InboxType, TaskType

(* A token belongs to one market.                                          *)
LEMMA MarketOfToken ==
  ASSUME NEW t \in Tokens PROVE MarketOf(t) \in Markets /\ t \in TokensOf(MarketOf(t))
<1>1. \E m \in Markets : t \in TokensOf(m)
  BY DEF Tokens
<1> QED
  BY <1>1 DEF MarketOf

LEMMA MarketOfIsTheOne ==
  ASSUME NEW m \in Markets, NEW t \in TokensOf(m) PROVE MarketOf(t) = m
<1>1. t \in Tokens
  BY DEF Tokens
<1>2. MarketOf(t) \in Markets /\ t \in TokensOf(MarketOf(t))
  BY <1>1, MarketOfToken
<1> QED
  BY <1>2, IngestionAssumption

LEMMA OpenTokensAreTokens == OpenTokens \subseteq Tokens
BY DEF OpenTokens, Tokens, Open

LEMMA YesTokens == \A m \in Markets : Yes[m] \in Tokens
BY IngestionAssumption DEF Tokens, TokensOf

(* Which task touches what.                                                *)
LEMMA DiscoveryFrame ==
  ASSUME Discovery \/ DiscoveryFails
  PROVE  /\ UNCHANGED <<listing, venue, latest, stop, ws, local, inbox>>
         /\ UNCHANGED sup \/ sup' = NewSup("load")
         /\ UNCHANGED snap \/ snap' = NewSnap("wait")
BY DEF Discovery, DiscoveryFails, Discover, DeleteLinks, Discovered, RediscoverStops,
       Upsert, InsertLink, StartTasks, external, tables, feed

LEMMA SnapshotFrame ==
  ASSUME Snapshots \/ SnapshotOfMarketFails \/ SnapshotQueryFails
  PROVE  UNCHANGED <<listing, venue, status, links, proc, stop, disc, sup, ws, local, inbox>>
BY DEF Snapshots, SnapshotQuery, SnapshotWrite, SnapshotRoundEnds, SnapshotStops, FetchBook,
       SnapshotOfMarketFails, SnapshotQueryFails, external, tables, feed

LEMMA SupervisorFrame ==
  ASSUME Supervisor \/ LoadFails
  PROVE  /\ UNCHANGED <<listing, venue, status, links, latest, proc, stop, disc, snap>>
         /\ UNCHANGED <<local, inbox>>
BY DEF Supervisor, LoadAssets, SleptWithoutAssets, EndSession, SessionEnded, LoadFails,
       external, tables, feed

LEMMA SessionFrame ==
  ASSUME Session \/ SessionFails \/ SessionClosed
  PROVE  UNCHANGED <<listing, venue, status, links, proc, stop, disc, snap, sup>>
BY DEF Session, Connect, SessionStops, HandleMessage, SessionLeaves, SessionFails,
       SessionClosed, external, tables

LEMMA VenueFrame ==
  ASSUME Venue
  PROVE  UNCHANGED <<status, links, latest, proc, stop, disc, snap, sup, ws, local>>
BY DEF Venue, BookMoves, Traded, Quotes, ListingChanges, external, tables, feed

LEMMA ProcessFrame ==
  ASSUME StopSignal \/ Shutdown \/ Crash \/ Restart
  PROVE  UNCHANGED <<listing, venue, status, links, latest>>
BY DEF StopSignal, Shutdown, Crash, Restart, external, tables

(* A row that is stored goes to the market of its token.                   *)
LEMMA StoreTyped ==
  ASSUME LatestType, NEW row, row.token \in Tokens, Store(row) PROVE LatestType'
<1>1. MarketOf(row.token) \in Markets /\ row.token \in TokensOf(MarketOf(row.token))
  BY MarketOfToken
<1>2. CASE row.mid = None
  BY <1>2 DEF Store, LatestType
<1>3. CASE row.mid # None
  <2>1. latest' = [latest EXCEPT ![MarketOf(row.token)] = row]
    BY <1>3 DEF Store
  <2> QED
    BY <1>1, <2>1 DEF LatestType
<1> QED
  BY <1>2, <1>3

(* Messages that the venue sends are messages.                             *)
LEMMA BookMessageTyped ==
  ASSUME BooksType, NEW t \in Tokens PROVE BookMessage(t) \in Message
BY DEF BooksType, BookMessage, Message

LEMMA MovedVenue ==
  ASSUME BooksType, NEW c \in Moves, NEW joins \in BOOLEAN, BookMoves(c, joins)
  PROVE  /\ c \in [token : Tokens, side : Sides, price : Prices, size : Nat]
         /\ venue' \in [Tokens -> Book]
         /\ venue'[c.token] = apply_price_change(venue[c.token], c.side, c.price, c.size)
         /\ \A t \in Tokens \ {c.token} : venue'[t] = venue[t]
<1>1. c \in [token : Tokens, side : Sides, price : Prices, size : Nat]
  BY VenueAssumption
<1>2. apply_price_change(venue[c.token], c.side, c.price, c.size) \in Book
  <2>1. venue[c.token] \in Book /\ c.side \in Sides /\ c.price \in Prices /\ c.size \in Nat
    BY <1>1 DEF BooksType
  <2> QED
    BY <2>1, ChangedBook
<1>3. venue' = [venue EXCEPT ![c.token] = apply_price_change(@, c.side, c.price, c.size)]
  BY DEF BookMoves
<1> QED
  BY <1>1, <1>2, <1>3 DEF BooksType

MoveMessage(c, joins) ==
  [type |-> "price_change", token |-> c.token, side |-> c.side, price |-> c.price,
   size |-> c.size, bid |-> BestBid(venue'[c.token].bids),
   ask |-> BestAsk(venue'[c.token].asks), follows |-> joins]

QuoteMessage(t) ==
  [type |-> "best_bid_ask", token |-> t, bid |-> BestBid(venue[t].bids),
   ask |-> BestAsk(venue[t].asks)]

TradeMessage(t) == [type |-> "last_trade_price", token |-> t]

LEMMA BestOfBook == ASSUME NEW b \in Book PROVE BestBid(b.bids) \in Nat /\ BestAsk(b.asks) \in Nat
<1>1. b.bids \in SUBSET VenueLevels /\ b.asks \in SUBSET VenueLevels
  BY BookSides
<1> QED
  BY <1>1, BestPrices

LEMMA VenueMessagesTyped ==
  ASSUME BooksType
  PROVE  /\ \A t \in Tokens : QuoteMessage(t) \in Message /\ TradeMessage(t) \in Message
         /\ \A c \in Moves, joins \in BOOLEAN :
              BookMoves(c, joins) => MoveMessage(c, joins) \in Message
<1>1. ASSUME NEW t \in Tokens PROVE QuoteMessage(t) \in Message
  <2>1. BestBid(venue[t].bids) \in Nat /\ BestAsk(venue[t].asks) \in Nat
    BY BestOfBook DEF BooksType
  <2> QED
    BY <2>1 DEF QuoteMessage, Message
<1>2. ASSUME NEW t \in Tokens PROVE TradeMessage(t) \in Message
  BY DEF TradeMessage, Message
<1>3. ASSUME NEW c \in Moves, NEW joins \in BOOLEAN, BookMoves(c, joins)
      PROVE  MoveMessage(c, joins) \in Message
  <2>1. /\ c \in [token : Tokens, side : Sides, price : Prices, size : Nat]
        /\ venue'[c.token] \in Book
    BY <1>3, MovedVenue
  <2>2. BestBid(venue'[c.token].bids) \in Nat /\ BestAsk(venue'[c.token].asks) \in Nat
    BY <2>1, BestOfBook
  <2> QED
    BY <2>1, <2>2 DEF MoveMessage, Message
<1> QED
  BY <1>1, <1>2, <1>3

LEMMA SendTyped ==
  ASSUME InboxType, NEW msg \in Message, Send(msg) PROVE InboxType'
<1>1. Append(inbox, msg) \in Seq(Message)
  BY AppendIndices DEF InboxType
<1> QED
  BY <1>1 DEF InboxType, Send

-----------------------------------------------------------------------------
(* Every step keeps the types.                                             *)

LEMMA InitTyped == Init => TypeInv
<1> SUFFICES ASSUME Init PROVE TypeInv
  OBVIOUS
<1>1. DiscType /\ SnapType /\ SupType /\ WsType /\ ProcType
  BY DEF Init, DiscType, SnapType, SupType, WsType, ProcType, NewDisc, NewSnap, NewSup, NewWs
<1>2. TablesType /\ LatestType
  BY IngestionAssumption DEF Init, TablesType, LatestType
<1>3. BooksType
  BY VenueAssumption, BookSides DEF Init, BooksType
<1>4. InboxType
  BY EmptySeq DEF Init, InboxType
<1> QED
  BY <1>1, <1>2, <1>3, <1>4 DEF TypeInv

LEMMA NewTaskTypes ==
  ASSUME NEW pc
  PROVE  /\ DOMAIN NewDisc(pc) = {"pc", "todo", "rows"} /\ NewDisc(pc).pc = pc
         /\ DOMAIN NewSnap(pc) = {"pc", "todo", "row"} /\ NewSnap(pc).pc = pc
         /\ NewSnap(pc).todo = {} /\ NewSnap(pc).row = NoRow
         /\ NewSup(pc) = [pc |-> pc, assets |-> {}]
BY DEF NewDisc, NewSnap, NewSup

LEMMA NewSessionType ==
  ASSUME NEW pc \in {"off", "connect", "read", "done"}
  PROVE  NewWs(pc) \in [pc : {"off", "connect", "read", "done"}, localStop : BOOLEAN]
BY DEF NewWs

LEMMA DiscoveryTyped ==
  ASSUME TypeInv, Discovery \/ DiscoveryFails PROVE TypeInv'
<1>1. /\ UNCHANGED <<listing, venue, latest, stop, ws, local, inbox>>
      /\ UNCHANGED sup \/ sup' = NewSup("load")
      /\ UNCHANGED snap \/ snap' = NewSnap("wait")
  BY DiscoveryFrame
<1>2. WsType' /\ LatestType' /\ BooksType' /\ InboxType'
  BY <1>1 DEF TypeInv, WsType, LatestType, BooksType, InboxType
<1>3. SupType' /\ SnapType'
  BY <1>1, NewTaskTypes DEF TypeInv, SupType, SnapType
<1>4. TablesType' /\ ProcType' /\ DiscType'
  <2>1. CASE Discover
    BY <2>1
    DEF Discover, TypeInv, TablesType, ProcType, DiscType, tables, external, NewDisc
  <2>2. CASE \E m \in Markets : Upsert(m)
    BY <2>2 DEF Upsert, TypeInv, TablesType, ProcType, DiscType, external
  <2>3. CASE DeleteLinks
    BY <2>3 DEF DeleteLinks, TypeInv, TablesType, ProcType, DiscType, external
  <2>4. CASE \E p \in SUBSET Markets : InsertLink(p)
    BY <2>4 DEF InsertLink, TypeInv, TablesType, ProcType, DiscType, external
  <2>5. CASE Discovered
    BY <2>5, NewTaskTypes
    DEF Discovered, StartTasks, TypeInv, TablesType, ProcType, DiscType, tables, external
  <2>6. CASE RediscoverStops \/ DiscoveryFails
    BY <2>6, NewTaskTypes
    DEF RediscoverStops, DiscoveryFails, TypeInv, TablesType, ProcType, DiscType, tables,
        external
  <2> QED
    BY <2>1, <2>2, <2>3, <2>4, <2>5, <2>6 DEF Discovery
<1> QED
  BY <1>2, <1>3, <1>4 DEF TypeInv

LEMMA SnapshotTyped ==
  ASSUME TypeInv, Snapshots \/ SnapshotOfMarketFails \/ SnapshotQueryFails PROVE TypeInv'
<1>1. UNCHANGED <<listing, venue, status, links, proc, stop, disc, sup, ws, local, inbox>>
  BY SnapshotFrame
<1>2. /\ DiscType' /\ SupType' /\ WsType' /\ TablesType' /\ ProcType'
      /\ BooksType' /\ InboxType'
  BY <1>1
  DEF TypeInv, DiscType, SupType, WsType, TablesType, ProcType, BooksType, InboxType
<1>3. SnapType' /\ LatestType'
  <2>1. CASE SnapshotQuery
    BY <2>1, NewTaskTypes
    DEF SnapshotQuery, TypeInv, SnapType, LatestType, NewSnap, tables, Open
  <2>2. CASE \E m \in Markets : FetchBook(m)
    <3>1. PICK m \in Markets : FetchBook(m)
      BY <2>2
    <3>2. \E row : /\ row.token = Yes[m] /\ row.kind = "interval_30s"
                   /\ snap' = [snap EXCEPT !.todo = @ \ {m}, !.row = row]
      BY <3>1 DEF FetchBook, PriceRow
    <3>3. UNCHANGED latest /\ Yes[m] \in Tokens /\ snap.pc = "loop"
      BY <3>1, YesTokens DEF FetchBook, tables
    <3> QED
      BY <3>2, <3>3 DEF TypeInv, SnapType, LatestType
  <2>3. CASE SnapshotWrite
    <3>1. LatestType'
      BY <2>3, StoreTyped DEF SnapshotWrite, TypeInv, SnapType
    <3>2. SnapType'
      BY <2>3 DEF SnapshotWrite, TypeInv, SnapType
    <3> QED
      BY <3>1, <3>2
  <2>4. CASE SnapshotRoundEnds \/ SnapshotStops \/ SnapshotQueryFails
    BY <2>4, NewTaskTypes
    DEF SnapshotRoundEnds, SnapshotStops, SnapshotQueryFails, TypeInv, SnapType, LatestType,
        tables
  <2>5. CASE SnapshotOfMarketFails
    <3>1. UNCHANGED latest
      BY <2>5 DEF SnapshotOfMarketFails, StoreFails
    <3>2. \/ snap' = [snap EXCEPT !.row = NoRow]
          \/ \E m \in snap.todo : snap' = [snap EXCEPT !.todo = @ \ {m}]
      BY <2>5 DEF SnapshotOfMarketFails
    <3> QED
      BY <3>1, <3>2 DEF TypeInv, SnapType, LatestType
  <2> QED
    BY <2>1, <2>2, <2>3, <2>4, <2>5 DEF Snapshots
<1> QED
  BY <1>2, <1>3 DEF TypeInv

LEMMA SupervisorTyped ==
  ASSUME TypeInv, Supervisor \/ LoadFails PROVE TypeInv'
<1>1. /\ UNCHANGED <<listing, venue, status, links, latest, proc, stop, disc, snap>>
      /\ UNCHANGED <<local, inbox>>
  BY SupervisorFrame
<1>2. /\ DiscType' /\ SnapType' /\ TablesType' /\ ProcType' /\ LatestType'
      /\ BooksType' /\ InboxType'
  BY <1>1
  DEF TypeInv, DiscType, SnapType, TablesType, ProcType, LatestType, BooksType, InboxType
<1>3. SupType' /\ WsType'
  <2>1. CASE LoadAssets
    <3>1. \/ sup' \in {NewSup("done"), NewSup("sleep")} /\ ws' = ws
          \/ sup' = [pc |-> "session", assets |-> OpenTokens] /\ ws' = NewWs("connect")
      BY <2>1 DEF LoadAssets
    <3>2. SupType'
      BY <3>1, NewTaskTypes, OpenTokensAreTokens DEF SupType
    <3>3. WsType'
      BY <3>1, NewSessionType DEF TypeInv, WsType
    <3> QED
      BY <3>2, <3>3
  <2>2. CASE SleptWithoutAssets \/ LoadFails
    BY <2>2, NewTaskTypes DEF SleptWithoutAssets, LoadFails, TypeInv, SupType, WsType, feed
  <2>3. CASE EndSession
    BY <2>3 DEF EndSession, TypeInv, SupType, WsType
  <2>4. CASE SessionEnded
    <3>1. sup' \in {NewSup("done"), NewSup("load")} /\ ws' = NewWs("off")
      BY <2>4 DEF SessionEnded
    <3>2. SupType'
      BY <3>1, NewTaskTypes DEF SupType
    <3>3. WsType'
      BY <3>1, NewSessionType DEF WsType
    <3> QED
      BY <3>2, <3>3
  <2> QED
    BY <2>1, <2>2, <2>3, <2>4 DEF Supervisor
<1> QED
  BY <1>2, <1>3 DEF TypeInv

LEMMA ConnectTyped == ASSUME TypeInv, Connect PROVE InboxType' /\ BooksType'
<1>1. PICK asked \in Orders : inbox' = [i \in DOMAIN asked |-> BookMessage(asked[i])]
  BY DEF Connect
<1>2. asked \in Seq(Tokens)
  BY VenueAssumption
<1>3. DOMAIN asked = 1..Len(asked) /\ Len(asked) \in Nat
  BY <1>2, LenProperties
<1>4. ASSUME NEW i \in 1..Len(asked) PROVE BookMessage(asked[i]) \in Message
  <2>1. asked[i] \in Tokens
    BY <1>2, <1>3, ElementOfSeq
  <2> QED
    BY <2>1, BookMessageTyped DEF TypeInv
<1>5. [i \in 1..Len(asked) |-> BookMessage(asked[i])] \in Seq(Message)
  BY <1>3, <1>4, IsASeq
<1>6. InboxType'
  BY <1>1, <1>3, <1>5 DEF InboxType
<1>7. venue' = venue /\ local' = [t \in Tokens |-> EmptyBook]
  BY DEF Connect, external
<1>8. BooksType'
  BY <1>7, BookSides DEF TypeInv, BooksType
<1> QED
  BY <1>6, <1>8

LEMMA HandledTyped ==
  ASSUME TypeInv, HandleMessage PROVE InboxType' /\ BooksType' /\ LatestType'
<1> DEFINE msg == Head(inbox)
           book == Applied(msg, local[msg.token])
<1>1. /\ inbox # <<>> /\ inbox' = Tail(inbox)
      /\ local' = [local EXCEPT ![msg.token] = book]
      /\ Store(RowFor(msg, book)) /\ venue' = venue
  BY DEF HandleMessage, external
<1>2. msg \in Message /\ Tail(inbox) \in Seq(Message)
  BY <1>1, TailIndices DEF TypeInv, InboxType
<1>3. msg.token \in Tokens
  BY <1>2, MessageKinds
<1>4. book \in Book
  BY <1>2, <1>3, AppliedTyped DEF TypeInv, BooksType
<1>5. RowFor(msg, book).token = msg.token
  BY <1>2, RowOfMessage
<1> HIDE DEF msg, book
<1>6. LatestType'
  BY <1>1, <1>3, <1>5, StoreTyped DEF TypeInv
<1>7. BooksType'
  BY <1>1, <1>3, <1>4 DEF TypeInv, BooksType
<1> QED
  BY <1>1, <1>2, <1>6, <1>7 DEF InboxType

LEMMA SessionTyped ==
  ASSUME TypeInv, Session \/ SessionFails \/ SessionClosed PROVE TypeInv'
<1>1. UNCHANGED <<listing, venue, status, links, proc, stop, disc, snap, sup>>
  BY SessionFrame
<1>2. DiscType' /\ SnapType' /\ SupType' /\ TablesType' /\ ProcType'
  BY <1>1 DEF TypeInv, DiscType, SnapType, SupType, TablesType, ProcType
<1>3. WsType'
  <2>1. \/ ws' \in {ws, NewWs("done")}
        \/ \E pc \in {"read", "connect"} : ws' = [ws EXCEPT !.pc = pc]
    BY DEF Session, Connect, SessionStops, HandleMessage, SessionLeaves, SessionFails,
           SessionClosed
  <2> QED
    BY <2>1, NewSessionType DEF TypeInv, WsType
<1>4. LatestType' /\ BooksType' /\ InboxType'
  <2>1. CASE Connect
    BY <2>1, ConnectTyped DEF Connect, TypeInv, LatestType, tables
  <2>2. CASE HandleMessage
    BY <2>2, HandledTyped
  <2>3. CASE SessionStops \/ SessionClosed
    BY <1>1, <2>3
    DEF SessionStops, SessionClosed, TypeInv, LatestType, BooksType, InboxType, tables
  <2>4. CASE SessionLeaves \/ SessionFails
    <3>1. inbox' = <<>> /\ UNCHANGED <<latest, local>>
      BY <2>4 DEF SessionLeaves, SessionFails, StoreFails, tables
    <3>2. <<>> \in Seq(Message)
      BY EmptySeq
    <3> QED
      BY <1>1, <3>1, <3>2 DEF TypeInv, LatestType, BooksType, InboxType
  <2> QED
    BY <2>1, <2>2, <2>3, <2>4 DEF Session
<1> QED
  BY <1>2, <1>3, <1>4 DEF TypeInv

LEMMA VenueTyped == ASSUME TypeInv, Venue PROVE TypeInv'
<1>1. UNCHANGED <<status, links, latest, proc, stop, disc, snap, sup, ws, local>>
  BY VenueFrame
<1>2. DiscType' /\ SnapType' /\ SupType' /\ WsType' /\ ProcType' /\ LatestType'
  BY <1>1 DEF TypeInv, DiscType, SnapType, SupType, WsType, ProcType, LatestType
<1>3. TablesType' /\ BooksType' /\ InboxType'
  <2>1. CASE \E c \in Moves, joins \in BOOLEAN : BookMoves(c, joins)
    <3>1. PICK c \in Moves, joins \in BOOLEAN : BookMoves(c, joins)
      BY <2>1
    <3>2. Send(MoveMessage(c, joins)) /\ listing' = listing
      BY <3>1 DEF BookMoves, MoveMessage
    <3>3. MoveMessage(c, joins) \in Message
      BY <3>1, VenueMessagesTyped DEF TypeInv
    <3>4. InboxType'
      BY <3>2, <3>3, SendTyped DEF TypeInv
    <3>5. BooksType'
      BY <1>1, <3>1, MovedVenue DEF TypeInv, BooksType
    <3> QED
      BY <1>1, <3>2, <3>4, <3>5 DEF TypeInv, TablesType
  <2>2. CASE \E t \in Trades : Traded(t)
    <3>1. PICK t \in Tokens : Send(TradeMessage(t))
      BY <2>2, VenueAssumption DEF Traded, TradeMessage
    <3>2. UNCHANGED <<listing, venue>>
      BY <2>2 DEF Traded
    <3>3. InboxType'
      BY <3>1, VenueMessagesTyped, SendTyped DEF TypeInv
    <3> QED
      BY <1>1, <3>2, <3>3 DEF TypeInv, TablesType, BooksType
  <2>3. CASE \E t \in Tokens : Quotes(t)
    <3>1. PICK t \in Tokens : Send(QuoteMessage(t))
      BY <2>3 DEF Quotes, QuoteMessage
    <3>2. UNCHANGED <<listing, venue>>
      BY <2>3 DEF Quotes, external
    <3>3. InboxType'
      BY <3>1, VenueMessagesTyped, SendTyped DEF TypeInv
    <3> QED
      BY <1>1, <3>2, <3>3 DEF TypeInv, TablesType, BooksType
  <2>4. CASE \E m \in Markets, to \in {"active", "inactive", "dropped"} : ListingChanges(m, to)
    BY <1>1, <2>4 DEF ListingChanges, TypeInv, TablesType, BooksType, InboxType, feed
  <2> QED
    BY <2>1, <2>2, <2>3, <2>4 DEF Venue
<1> QED
  BY <1>2, <1>3 DEF TypeInv

LEMMA ProcessTyped ==
  ASSUME TypeInv, StopSignal \/ Shutdown \/ Crash \/ Restart PROVE TypeInv'
<1>1. UNCHANGED <<listing, venue, status, links, latest>>
  BY ProcessFrame
<1>2. TablesType' /\ LatestType'
  BY <1>1 DEF TypeInv, TablesType, LatestType
<1>3. ProcType'
  BY DEF StopSignal, Shutdown, Crash, Restart, TypeInv, ProcType
<1>4. DiscType' /\ SnapType' /\ SupType' /\ WsType'
  <2>1. /\ disc' \in {disc, NewDisc("off"), NewDisc("fetch")}
        /\ snap' \in {snap, NewSnap("off")} /\ sup' \in {sup, NewSup("off")}
        /\ ws' \in {ws, NewWs("off")}
    BY DEF StopSignal, Shutdown, Crash, Restart, Gone, feed
  <2>2. DiscType' /\ SnapType'
    BY <2>1, NewTaskTypes DEF TypeInv, DiscType, SnapType
  <2>3. SupType'
    BY <2>1, NewTaskTypes DEF TypeInv, SupType
  <2>4. WsType'
    BY <2>1, NewSessionType DEF TypeInv, WsType
  <2> QED
    BY <2>2, <2>3, <2>4
<1>5. \/ UNCHANGED <<local, inbox>>
      \/ local' = [t \in Tokens |-> EmptyBook] /\ inbox' = <<>>
  BY DEF StopSignal, Shutdown, Crash, Restart, Gone, feed
<1>6. BooksType' /\ InboxType'
  <2>1. <<>> \in Seq(Message)
    BY EmptySeq
  <2> QED
    BY <1>1, <1>5, <2>1, BookSides DEF TypeInv, BooksType, InboxType
<1> QED
  BY <1>2, <1>3, <1>4, <1>6 DEF TypeInv

LEMMA NextTyped == ASSUME TypeInv, [Next]_vars PROVE TypeInv'
<1>1. CASE UNCHANGED vars
  BY <1>1
  DEF vars, external, tables, feed, TypeInv, DiscType, SnapType, SupType, WsType,
      TablesType, ProcType, LatestType, BooksType, InboxType
<1>2. CASE Next
  BY <1>2, DiscoveryTyped, SnapshotTyped, SupervisorTyped, SessionTyped, VenueTyped,
     ProcessTyped
  DEF Next, Failures
<1> QED
  BY <1>1, <1>2

-----------------------------------------------------------------------------
(* The inductive invariant: besides the types, every level of a subscribed *)
(* token, and its tick, follow the venue through what is in the socket.    *)

Levelled ==
  ws.pc = "read" => \A t \in sup.assets, side \in Sides, price \in Prices :
                      Follows(inbox, local[t], venue[t], t, side, price)

Quoted ==
  ws.pc = "read" => \A t \in sup.assets :
                      Ticks(inbox, latest[MarketOf(t)], BookMid(venue[t]), t)

SessionInv == TypeInv /\ Levelled /\ Quoted

LEMMA SessionInvMeans == SessionInv => TypeOK /\ LocalBookFollowsVenue /\ TickIsCurrent
<1> SUFFICES ASSUME SessionInv PROVE TypeOK /\ LocalBookFollowsVenue /\ TickIsCurrent
  OBVIOUS
<1>1. TypeOK
  BY TypeInvMeans DEF SessionInv
<1>2. LocalBookFollowsVenue
  BY LevelFollowsMeans DEF SessionInv, Levelled, LocalBookFollowsVenue
<1>3. \A t : VenueMid(t) = BookMid(venue[t])
  BY DEF VenueMid, BookMid
<1>4. TickIsCurrent
  BY <1>3, TickFollowsMeans DEF SessionInv, Quoted, TickIsCurrent
<1> QED
  BY <1>1, <1>2, <1>4

LEMMA SubscribedTokens ==
  ASSUME TypeInv, NEW t \in sup.assets
  PROVE  t \in Tokens /\ venue[t] \in Book /\ local[t] \in Book
BY DEF TypeInv, SupType, BooksType

(* A step that reads and sends nothing, and writes no row but a snapshot's.*)
LEMMA SessionQuiet ==
  ASSUME SessionInv, UNCHANGED <<venue, local, inbox>>,
         ws'.pc = "read" => ws.pc = "read" /\ sup'.assets \subseteq sup.assets,
         \A m \in Markets : latest'[m] = latest[m] \/ latest'[m].kind = "interval_30s"
  PROVE  Levelled' /\ Quoted'
<1>1. Levelled'
  BY DEF SessionInv, Levelled
<1>2. ASSUME ws'.pc = "read", NEW t \in sup'.assets
      PROVE  Ticks(inbox, latest'[MarketOf(t)], BookMid(venue[t]), t)
  <2>1. t \in sup.assets /\ Ticks(inbox, latest[MarketOf(t)], BookMid(venue[t]), t)
    BY <1>2 DEF SessionInv, Quoted
  <2>2. MarketOf(t) \in Markets
    BY <2>1, SubscribedTokens, MarketOfToken DEF SessionInv
  <2>3. RowAgrees(latest[MarketOf(t)], BookMid(venue[t]), t)
          => RowAgrees(latest'[MarketOf(t)], BookMid(venue[t]), t)
    BY <2>2 DEF RowAgrees
  <2> QED
    BY <2>1, <2>3, TicksOfRow
<1>3. Quoted'
  BY <1>2 DEF Quoted
<1> QED
  BY <1>1, <1>3

(* A step after which no session reads.                                    *)
LEMMA SessionOver == ASSUME ws'.pc # "read" PROVE Levelled' /\ Quoted'
BY DEF Levelled, Quoted

(* The answers to the subscription: every token has its book in the socket.*)
LEMMA ConnectKeeps == ASSUME SessionInv, Connect PROVE Levelled' /\ Quoted'
<1>1. PICK asked \in Orders :
        Range(asked) = sup.assets /\ inbox' = [i \in DOMAIN asked |-> BookMessage(asked[i])]
  BY DEF Connect
<1>2. /\ venue' = venue /\ sup' = sup /\ latest' = latest
      /\ local' = [t \in Tokens |-> EmptyBook]
  BY DEF Connect, external, tables
<1>3. DOMAIN asked = 1..Len(asked) /\ Len(asked) \in Nat
  BY VenueAssumption, LenProperties
<1>4. DOMAIN inbox' = 1..Len(asked) /\ \A i \in 1..Len(asked) : inbox'[i] = BookMessage(asked[i])
  BY <1>1, <1>3
<1>5. ASSUME NEW t \in sup.assets
      PROVE  \E i \in 1..Len(asked) :
               asked[i] = t /\ \A j \in 1..Len(asked) : asked[j] = t => j <= i
  <2> DEFINE places == {i \in 1..Len(asked) : asked[i] = t}
  <2>1. places # {}
    BY <1>1, <1>3 DEF Range
  <2>2. places \in SUBSET (0..Len(asked))
    BY <1>3
  <2>3. PICK i \in places : \A j \in places : j <= i
    <3> HIDE DEF places
    <3> QED
      BY <1>3, <2>1, <2>2, GreatestOfBounded
  <2> QED
    BY <2>3
<1>6. ASSUME NEW t \in sup.assets
      PROVE  /\ \A side \in Sides, price \in Prices :
                  Follows(inbox', local'[t], venue[t], t, side, price)
             /\ Ticks(inbox', latest[MarketOf(t)], BookMid(venue[t]), t)
  <2>1. PICK i \in 1..Len(asked) :
          asked[i] = t /\ \A j \in 1..Len(asked) : asked[j] = t => j <= i
    BY <1>5
  <2>2. /\ inbox'[i].type = "book" /\ inbox'[i].token = t /\ inbox'[i].book = venue[t]
        /\ \A j \in 1..Len(asked) : inbox'[j].token = asked[j]
    BY <1>4, <2>1 DEF BookMessage
  <2>3. venue[t] \in Book
    BY SubscribedTokens DEF SessionInv
  <2>4. ASSUME NEW side \in Sides, NEW price \in Prices
        PROVE  Follows(inbox', local'[t], venue[t], t, side, price)
    <3>1. i \in Speakers(inbox', t, side, price)
      BY <1>4, <2>2 DEF Speakers, SpeaksOf
    <3>2. IsLast(i, Speakers(inbox', t, side, price))
      BY <1>4, <2>1, <2>2, <3>1 DEF Speakers, SpeaksOf, IsLast
    <3>3. Applied(inbox'[i], EmptyBook) = venue[t]
      BY <2>2, <2>3, FullBook DEF Applied
    <3> QED
      BY <3>1, <3>2, <3>3 DEF Follows
  <2>5. Ticks(inbox', latest[MarketOf(t)], BookMid(venue[t]), t)
    <3>1. i \in PricedIn(inbox', t)
      BY <1>4, <2>2 DEF PricedIn, IsPriced
    <3>2. IsLast(i, PricedIn(inbox', t))
      BY <1>4, <2>1, <2>2, <3>1 DEF PricedIn, IsPriced, IsLast
    <3>3. MessageMid(inbox'[i]) = BookMid(venue[t])
      BY <2>2 DEF MessageMid, Touch, BookMid
    <3> QED
      BY <3>1, <3>2, <3>3 DEF Ticks
  <2> QED
    BY <2>4, <2>5
<1> QED
  BY <1>2, <1>6 DEF Levelled, Quoted

(* A message is handled: the local book takes it in, and its row is        *)
(* written.  A trade is priced from the local book, which by then is the   *)
(* venue's unless a later message has the last word on the tick.           *)
LEMMA HandleKeeps == ASSUME SessionInv, HandleMessage PROVE Levelled' /\ Quoted'
<1> DEFINE msg == Head(inbox)
           book == Applied(msg, local[msg.token])
           row == RowFor(msg, book)
           market == MarketOf(msg.token)
<1>1. /\ ws.pc = "read" /\ inbox # <<>> /\ inbox' = Tail(inbox)
      /\ local' = [local EXCEPT ![msg.token] = book]
      /\ Store(row) /\ venue' = venue /\ sup' = sup
  BY DEF HandleMessage, external
<1>2. TypeInv /\ inbox \in Seq(Message)
  BY DEF SessionInv, TypeInv, InboxType
<1>3. msg \in Message /\ msg.token \in Tokens
  BY <1>1, <1>2, TailIndices, MessageKinds
<1>4. /\ row.token = msg.token /\ row.kind \in {"tick", "trade"}
      /\ msg.type = "last_trade_price" => row.mid = BookMid(book)
      /\ msg.type # "last_trade_price" => row.mid = MessageMid(msg)
  BY <1>3, RowOfMessage
<1>5. /\ market \in Markets /\ DOMAIN latest = Markets /\ DOMAIN local = Tokens
  BY <1>2, <1>3, MarketOfToken DEF TypeInv, LatestType, BooksType
<1>6. latest' = IF row.mid = None THEN latest ELSE [latest EXCEPT ![market] = row]
  BY <1>1, <1>4 DEF Store
<1> HIDE DEF row
<1>7. ASSUME NEW t \in sup.assets
      PROVE  /\ t \in Tokens /\ local[t] \in Book /\ venue[t] \in Book
             /\ local'[t] = IF msg.token = t THEN Applied(msg, local[t]) ELSE local[t]
             /\ \A side \in Sides, price \in Prices :
                  Follows(inbox, local[t], venue[t], t, side, price)
             /\ Ticks(inbox, latest[MarketOf(t)], BookMid(venue[t]), t)
  <2>1. t \in Tokens /\ local[t] \in Book /\ venue[t] \in Book
    BY <1>2, SubscribedTokens
  <2>2. local'[t] = IF msg.token = t THEN Applied(msg, local[t]) ELSE local[t]
    BY <1>1, <1>5, <2>1
  <2>3. /\ \A side \in Sides, price \in Prices :
             Follows(inbox, local[t], venue[t], t, side, price)
        /\ Ticks(inbox, latest[MarketOf(t)], BookMid(venue[t]), t)
    BY <1>1 DEF SessionInv, Levelled, Quoted
  <2> QED
    BY <2>1, <2>2, <2>3
<1>8. ASSUME NEW t \in sup.assets, NEW side \in Sides, NEW price \in Prices
      PROVE  Follows(inbox', local'[t], venue[t], t, side, price)
  BY <1>1, <1>2, <1>7, FollowsTail
<1>9. ASSUME NEW t \in sup.assets
      PROVE  Ticks(inbox', latest'[MarketOf(t)], BookMid(venue[t]), t)
  <2> DEFINE mid == BookMid(venue[t])
             old == latest[MarketOf(t)]
             new == latest'[MarketOf(t)]
  <2>1. Ticks(inbox, old, mid, t)
    BY <1>7
  <2>2. new = old \/ (new = row /\ row.mid # None /\ market = MarketOf(t))
    BY <1>5, <1>6
  <2>3. msg.token = t => new = row \/ row.mid = None
    BY <1>5, <1>6
  <2>4. ASSUME IsPriced(msg, t), MessageMid(msg) = mid PROVE RowAgrees(new, mid, t)
    <3>1. row.mid = mid /\ (new = row \/ mid = None)
      BY <1>4, <2>3, <2>4 DEF IsPriced
    <3> QED
      BY <3>1 DEF RowAgrees
  <2>5. ASSUME PricedIn(inbox, t) = {}, RowAgrees(old, mid, t) PROVE RowAgrees(new, mid, t)
    <3>1. CASE msg.token # t
      BY <1>4, <2>2, <2>5, <3>1 DEF RowAgrees
    <3>2. CASE msg.token = t
      <4>1. msg.type = "last_trade_price"
        <5>1. 1 \in DOMAIN inbox /\ inbox[1] = msg
          BY <1>1, <1>2, TailIndices
        <5> QED
          BY <2>5, <3>2, <5>1 DEF PricedIn, IsPriced
      <4>2. book = local[t]
        BY <3>2, <4>1 DEF Applied
      <4>3. local[t] = venue[t]
        BY <1>7, <2>5, CaughtUp
      <4>4. row.mid = mid /\ (new = row \/ mid = None)
        BY <1>4, <2>3, <3>2, <4>1, <4>2, <4>3
      <4> QED
        BY <4>4 DEF RowAgrees
    <3> QED
      BY <3>1, <3>2
  <2> HIDE DEF mid, old, new
  <2>6. Ticks(Tail(inbox), new, mid, t)
    BY <1>1, <1>2, <2>1, <2>4, <2>5, TicksTail
  <2> QED
    BY <1>1, <2>6 DEF new, mid
<1> QED
  BY <1>1, <1>8, <1>9 DEF Levelled, Quoted

(* A token whose messages are not sent is not subscribed.                  *)
LEMMA SentTo ==
  ASSUME NEW msg, Send(msg)
  PROVE  /\ ws.pc = "read" /\ msg.token \in sup.assets => inbox' = Append(inbox, msg)
         /\ inbox' \in {inbox, Append(inbox, msg)}
BY DEF Send, Subscribed

(* The venue's book moves, and the message about it has the last word.     *)
LEMMA MoveKeeps ==
  ASSUME SessionInv, NEW c \in Moves, NEW joins \in BOOLEAN, BookMoves(c, joins)
  PROVE  Levelled' /\ Quoted'
<1> DEFINE msg == MoveMessage(c, joins)
<1>1. TypeInv /\ inbox \in Seq(Message) /\ msg \in Message
  BY VenueMessagesTyped DEF SessionInv, TypeInv, InboxType
<1>2. /\ Send(msg) /\ UNCHANGED <<sup, ws, local, latest>>
  BY DEF BookMoves, MoveMessage, tables
<1>3. /\ c \in [token : Tokens, side : Sides, price : Prices, size : Nat]
      /\ venue'[c.token] = apply_price_change(venue[c.token], c.side, c.price, c.size)
      /\ \A t \in Tokens \ {c.token} : venue'[t] = venue[t]
  BY <1>1, MovedVenue DEF TypeInv
<1>4. /\ msg.token = c.token /\ msg.type = "price_change" /\ msg.side = c.side
      /\ msg.price = c.price /\ msg.size = c.size
      /\ msg.bid = BestBid(venue'[c.token].bids) /\ msg.ask = BestAsk(venue'[c.token].asks)
  BY DEF MoveMessage
<1> HIDE DEF msg
<1>5. ASSUME NEW b PROVE Applied(msg, b) = apply_price_change(b, c.side, c.price, c.size)
  BY <1>4 DEF Applied
<1>6. ASSUME ws.pc = "read", NEW t \in sup.assets, NEW side \in Sides, NEW price \in Prices
      PROVE  Follows(inbox', local[t], venue'[t], t, side, price)
  <2>1. /\ t \in Tokens /\ venue[t] \in Book
        /\ Follows(inbox, local[t], venue[t], t, side, price)
    BY <1>1, <1>6, SubscribedTokens DEF SessionInv, Levelled
  <2>2. CASE t # c.token
    <3>1. venue'[t] = venue[t] /\ ~SpeaksOf(msg, t, side, price)
      BY <1>3, <1>4, <2>1, <2>2 DEF SpeaksOf
    <3>2. Follows(Append(inbox, msg), local[t], venue[t], t, side, price)
      BY <1>1, <2>1, <3>1, FollowsSilence
    <3> QED
      BY <1>2, <2>1, <3>1, <3>2, SentTo
  <2>3. CASE t = c.token
    <3>1. inbox' = Append(inbox, msg) /\ venue'[t] = Applied(msg, venue[t])
      BY <1>2, <1>3, <1>4, <1>5, <1>6, <2>3, SentTo
    <3>2. CASE SpeaksOf(msg, t, side, price)
      <4>1. At(Applied(msg, EmptyBook), side, price) = At(Applied(msg, venue[t]), side, price)
        BY <1>1, <2>1, <3>2, BookSides, SpokenAt
      <4> QED
        BY <1>1, <3>1, <3>2, <4>1, FollowsWord
    <3>3. CASE ~SpeaksOf(msg, t, side, price)
      <4>1. At(Applied(msg, venue[t]), side, price) = At(venue[t], side, price)
        BY <1>1, <1>4, <2>1, <2>3, <3>3, SilentAt
      <4> QED
        BY <1>1, <2>1, <3>1, <3>3, <4>1, FollowsSilence
    <3> QED
      BY <3>2, <3>3
  <2> QED
    BY <2>2, <2>3
<1>7. ASSUME ws.pc = "read", NEW t \in sup.assets
      PROVE  Ticks(inbox', latest[MarketOf(t)], BookMid(venue'[t]), t)
  <2>1. t \in Tokens /\ Ticks(inbox, latest[MarketOf(t)], BookMid(venue[t]), t)
    BY <1>1, <1>7, SubscribedTokens DEF SessionInv, Quoted
  <2>2. CASE t # c.token
    <3>1. venue'[t] = venue[t] /\ ~IsPriced(msg, t)
      BY <1>3, <1>4, <2>1, <2>2 DEF IsPriced
    <3>2. Ticks(Append(inbox, msg), latest[MarketOf(t)], BookMid(venue[t]), t)
      BY <1>1, <2>1, <3>1, TicksSilence
    <3> QED
      BY <1>2, <2>1, <3>1, <3>2, SentTo
  <2>3. CASE t = c.token
    <3>1. inbox' = Append(inbox, msg) /\ IsPriced(msg, t)
      BY <1>2, <1>4, <1>7, <2>3, SentTo DEF IsPriced
    <3>2. MessageMid(msg) = BookMid(venue'[t])
      BY <1>4, <2>3 DEF MessageMid, BookMid
    <3> QED
      BY <1>1, <3>1, <3>2, TicksWord
  <2> QED
    BY <2>2, <2>3
<1> QED
  BY <1>2, <1>6, <1>7 DEF Levelled, Quoted

(* A trade says nothing of a level and carries no price; a quote repeats   *)
(* the venue's prices.                                                     *)
LEMMA SayingsKeep ==
  ASSUME SessionInv, NEW t \in Tokens, NEW msg \in {TradeMessage(t), QuoteMessage(t)},
         Send(msg), UNCHANGED <<venue, sup, ws, local, latest>>
  PROVE  Levelled' /\ Quoted'
<1>1. TypeInv /\ inbox \in Seq(Message) /\ msg \in Message
  BY VenueMessagesTyped DEF SessionInv, TypeInv, InboxType
<1>2. ASSUME ws.pc = "read", NEW s \in sup.assets, NEW side \in Sides, NEW price \in Prices
      PROVE  Follows(inbox', local[s], venue[s], s, side, price)
  <2>1. Follows(inbox, local[s], venue[s], s, side, price)
    BY <1>2 DEF SessionInv, Levelled
  <2>2. ~SpeaksOf(msg, s, side, price)
    BY DEF SpeaksOf, TradeMessage, QuoteMessage
  <2>3. Follows(Append(inbox, msg), local[s], venue[s], s, side, price)
    BY <1>1, <2>1, <2>2, FollowsSilence
  <2> QED
    BY <2>1, <2>3, SentTo
<1>3. ASSUME ws.pc = "read", NEW s \in sup.assets
      PROVE  Ticks(inbox', latest[MarketOf(s)], BookMid(venue[s]), s)
  <2>1. Ticks(inbox, latest[MarketOf(s)], BookMid(venue[s]), s)
    BY <1>3 DEF SessionInv, Quoted
  <2>2. CASE ~IsPriced(msg, s)
    <3>1. Ticks(Append(inbox, msg), latest[MarketOf(s)], BookMid(venue[s]), s)
      BY <1>1, <2>1, <2>2, TicksSilence
    <3> QED
      BY <2>1, <3>1, SentTo
  <2>3. CASE IsPriced(msg, s)
    <3>1. msg = QuoteMessage(s)
      BY <2>3 DEF IsPriced, TradeMessage, QuoteMessage
    <3>2. msg.token = s /\ MessageMid(msg) = BookMid(venue[s])
      BY <3>1 DEF QuoteMessage, MessageMid, BookMid
    <3>3. inbox' = Append(inbox, msg)
      BY <1>3, <3>2, SentTo
    <3> QED
      BY <1>1, <2>3, <3>2, <3>3, TicksWord
  <2> QED
    BY <2>2, <2>3
<1> QED
  BY <1>2, <1>3 DEF Levelled, Quoted

LEMMA OtherTasksKeep ==
  ASSUME SessionInv,
         \/ Discovery \/ DiscoveryFails
         \/ Snapshots \/ SnapshotOfMarketFails \/ SnapshotQueryFails
         \/ Supervisor \/ LoadFails
  PROVE  Levelled' /\ Quoted'
<1>1. TypeInv
  BY DEF SessionInv
<1>2. CASE Discovery \/ DiscoveryFails
  <2>1. /\ UNCHANGED <<listing, venue, latest, stop, ws, local, inbox>>
        /\ UNCHANGED sup \/ sup' = NewSup("load")
    BY <1>2, DiscoveryFrame
  <2>2. sup'.assets \subseteq sup.assets
    BY <2>1, NewTaskTypes
  <2> QED
    BY <2>1, <2>2, SessionQuiet
<1>3. CASE Snapshots \/ SnapshotOfMarketFails \/ SnapshotQueryFails
  <2>1. UNCHANGED <<venue, sup, ws, local, inbox>>
    BY <1>3, SnapshotFrame
  <2>2. ASSUME NEW m \in Markets PROVE latest'[m] = latest[m] \/ latest'[m].kind = "interval_30s"
    <3>1. CASE SnapshotWrite
      <4>1. snap.row.token \in Tokens /\ snap.row.kind = "interval_30s"
        BY <1>1, <3>1 DEF SnapshotWrite, TypeInv, SnapType
      <4>2. \/ latest' = latest
            \/ latest' = [latest EXCEPT ![MarketOf(snap.row.token)] = snap.row]
        BY <3>1 DEF SnapshotWrite, Store
      <4>3. DOMAIN latest = Markets
        BY <1>1 DEF TypeInv, LatestType
      <4> QED
        BY <4>1, <4>2, <4>3
    <3>2. CASE ~SnapshotWrite
      <4>1. latest' = latest
        BY <1>3, <3>2
        DEF Snapshots, SnapshotQuery, SnapshotRoundEnds, SnapshotStops, FetchBook,
            SnapshotOfMarketFails, SnapshotQueryFails, StoreFails, tables
      <4> QED
        BY <4>1
    <3> QED
      BY <3>1, <3>2
  <2> QED
    BY <2>1, <2>2, SessionQuiet
<1>4. CASE Supervisor \/ LoadFails
  <2>1. UNCHANGED <<venue, latest, local, inbox>>
    BY <1>4, SupervisorFrame
  <2>2. ws'.pc = "read" => ws.pc = "read" /\ sup'.assets \subseteq sup.assets
    <3>1. CASE LoadAssets
      <4>1. ws'.pc = "read" => ws' = ws /\ sup' \in {NewSup("done"), NewSup("sleep")}
        BY <3>1 DEF LoadAssets, NewWs
      <4> QED
        BY <4>1, NewTaskTypes
    <3>2. CASE EndSession
      BY <1>1, <3>2 DEF EndSession, TypeInv, SupType, WsType
    <3>3. CASE SessionEnded
      BY <3>3 DEF SessionEnded, NewWs
    <3>4. CASE SleptWithoutAssets \/ LoadFails
      <4>1. UNCHANGED ws /\ \E pc : sup' = NewSup(pc)
        BY <3>4 DEF SleptWithoutAssets, LoadFails, feed
      <4> QED
        BY <4>1, NewTaskTypes
    <3> QED
      BY <1>4, <3>1, <3>2, <3>3, <3>4 DEF Supervisor
  <2> QED
    BY <2>1, <2>2, SessionQuiet
<1> QED
  BY <1>2, <1>3, <1>4

LEMMA SessionKeeps ==
  ASSUME SessionInv, Session \/ SessionFails \/ SessionClosed PROVE Levelled' /\ Quoted'
<1>1. CASE Connect
  BY <1>1, ConnectKeeps
<1>2. CASE HandleMessage
  BY <1>2, HandleKeeps
<1>3. CASE SessionStops \/ SessionLeaves \/ SessionFails \/ SessionClosed
  <2>1. ws'.pc # "read"
    <3>1. ws' = NewWs("done") \/ ws' = [ws EXCEPT !.pc = "connect"]
      BY <1>3 DEF SessionStops, SessionLeaves, SessionFails, SessionClosed
    <3> QED
      BY <3>1 DEF NewWs, SessionInv, TypeInv, WsType
  <2> QED
    BY <2>1, SessionOver
<1> QED
  BY <1>1, <1>2, <1>3 DEF Session

LEMMA OutsideKeeps ==
  ASSUME SessionInv, Venue \/ StopSignal \/ Shutdown \/ Crash \/ Restart
  PROVE  Levelled' /\ Quoted'
<1>1. CASE \E c \in Moves, joins \in BOOLEAN : BookMoves(c, joins)
  BY <1>1, MoveKeeps
<1>2. CASE \E t \in Trades : Traded(t)
  <2>1. PICK t \in Tokens : Traded(t)
    BY <1>2, VenueAssumption
  <2>2. Send(TradeMessage(t)) /\ UNCHANGED <<venue, sup, ws, local, latest>>
    BY <2>1 DEF Traded, TradeMessage, tables
  <2> QED
    BY <2>2, SayingsKeep
<1>3. CASE \E t \in Tokens : Quotes(t)
  <2>1. PICK t \in Tokens : Quotes(t)
    BY <1>3
  <2>2. Send(QuoteMessage(t)) /\ UNCHANGED <<venue, sup, ws, local, latest>>
    BY <2>1 DEF Quotes, QuoteMessage, external, tables
  <2> QED
    BY <2>2, SayingsKeep
<1>4. CASE \E m \in Markets, to \in {"active", "inactive", "dropped"} : ListingChanges(m, to)
  <2>1. UNCHANGED <<venue, sup, ws, local, inbox, latest>>
    BY <1>4 DEF ListingChanges, tables, feed
  <2> QED
    BY <2>1, SessionQuiet
<1>5. CASE StopSignal
  <2>1. UNCHANGED <<venue, sup, ws, local, inbox, latest>>
    BY <1>5 DEF StopSignal, external, tables, feed
  <2> QED
    BY <2>1, SessionQuiet
<1>6. CASE Restart
  <2>1. UNCHANGED <<venue, sup, ws, local, inbox, latest>>
    BY <1>6 DEF Restart, external, tables, feed
  <2> QED
    BY <2>1, SessionQuiet
<1>7. CASE Shutdown \/ Crash
  <2>1. ws' = NewWs("off")
    BY <1>7 DEF Shutdown, Crash, Gone
  <2>2. ws'.pc # "read"
    BY <2>1 DEF NewWs
  <2> QED
    BY <2>2, SessionOver
<1> QED
  BY <1>1, <1>2, <1>3, <1>4, <1>5, <1>6, <1>7 DEF Venue

LEMMA NextKeepsSession == ASSUME SessionInv, [Next]_vars PROVE SessionInv'
<1>1. TypeInv'
  BY NextTyped DEF SessionInv
<1>2. Levelled' /\ Quoted'
  <2>1. CASE UNCHANGED vars
    <3>1. UNCHANGED <<venue, sup, ws, local, inbox, latest>>
      BY <2>1 DEF vars, external, tables, feed
    <3> QED
      BY <3>1, SessionQuiet
  <2>2. CASE Next
    BY <2>2, OtherTasksKeep, SessionKeeps, OutsideKeeps DEF Next, Failures
  <2> QED
    BY <2>1, <2>2
<1> QED
  BY <1>1, <1>2 DEF SessionInv

-----------------------------------------------------------------------------
(* The inductive invariant holds in every behaviour.                       *)
THEOREM SessionInvariant == Spec => []SessionInv
<1>1. Init => SessionInv
  <2> SUFFICES ASSUME Init PROVE SessionInv
    OBVIOUS
  <2>1. ws.pc # "read"
    BY DEF Init, NewWs
  <2> QED
    BY <2>1, InitTyped DEF SessionInv, Levelled, Quoted
<1>2. SessionInv /\ [Next]_vars => SessionInv'
  BY NextKeepsSession
<1> QED
  BY <1>1, <1>2, PTL DEF Spec

(* The tables, tasks, tokens and messages of ingestion keep their types.   *)
THEOREM IngestionTyped == Spec => []TypeOK
BY SessionInvariant, SessionInvMeans, PTL

(* Whatever moves, is lost or is reconnected, the LocalBook of a session   *)
(* is on its way to the venue's book, level by level (LocalBook and the    *)
(* handlers of ws_market.py).                                              *)
THEOREM LocalBooksFollow == Spec => []LocalBookFollowsVenue
BY SessionInvariant, SessionInvMeans, PTL

(* A tick of a session that has read its token's messages is not outdated  *)
(* (the handlers of ws_market.py).                                         *)
THEOREM TicksAreCurrent == Spec => []TickIsCurrent
BY SessionInvariant, SessionInvMeans, PTL

(* And without the messages: a session that has read all that its socket   *)
(* held has, for every token it subscribed, the book the venue has.        *)
THEOREM CaughtUpBooks ==
  Spec => [](ws.pc = "read" /\ inbox = <<>> => \A t \in sup.assets : local[t] = venue[t])
<1>1. SessionInv => (ws.pc = "read" /\ inbox = <<>>
                       => \A t \in sup.assets : local[t] = venue[t])
  <2> SUFFICES ASSUME SessionInv, ws.pc = "read", inbox = <<>>, NEW t \in sup.assets
               PROVE  local[t] = venue[t]
    OBVIOUS
  <2>1. PricedIn(inbox, t) = {}
    BY DEF PricedIn
  <2>2. local[t] \in Book /\ venue[t] \in Book
    BY SubscribedTokens DEF SessionInv
  <2>3. \A side \in Sides, price \in Prices :
          Follows(inbox, local[t], venue[t], t, side, price)
    BY DEF SessionInv, Levelled
  <2> QED
    BY <2>1, <2>2, <2>3, CaughtUp
<1> QED
  BY <1>1, SessionInvariant, PTL
=============================================================================
