---------------------------- MODULE FeedsProofs ----------------------------
(***************************************************************************)
(* What LiveGames and CrossVenue guarantee in every installation, for      *)
(* every set of games, markets, tickers and pairs, and every number of     *)
(* failures, crashes and moves.                                            *)
(***************************************************************************)
EXTENDS Feeds, MinMaxProofs, FiniteSetTheorems

-----------------------------------------------------------------------------
(* The game that match_market_to_game names is one of the games.           *)
LEMMA MatchedGame ==
  ASSUME NEW m \in GameMarkets, NEW games, match_market_to_game(m, games) # NoGame
  PROVE  match_market_to_game(m, games) \in Games
<1> DEFINE named == {i \in DOMAIN GameOrder : /\ GameOrder[i] \in Names[m]
                                              /\ games[GameOrder[i]] # NoGame}
<1>1. named # {} /\ match_market_to_game(m, games) = GameOrder[Min(named)]
  BY DEF match_market_to_game
<1>2. named \in SUBSET Nat
  BY LiveGamesAssumption
<1>3. Min(named) \in named
  BY <1>1, <1>2, MinOfNaturals
<1>4. GameOrder[Min(named)] \in Names[m]
  BY <1>3
<1>5. Names[m] \subseteq Games
  BY LiveGamesAssumption
<1> QED
  BY <1>1, <1>4, <1>5

-----------------------------------------------------------------------------
(* Enrichment: between the read of the old score and the write of the new  *)
(* one nobody writes the score, and a swing that is about to be written is *)
(* not yet counted.                                                        *)
GShape ==
  /\ DOMAIN gtick = {"pc", "games", "left", "market", "game", "prev", "seen"}
  /\ DOMAIN latest = Games
  /\ swings \in [Games -> Nat] /\ jumps \in [Games -> Nat] /\ failures \in Nat
  /\ gtick.pc \in {"map", "state", "swing", "lineup"} => gtick.game \in Games
  /\ gtick.left \subseteq GameMarkets

ScoreInHand ==
  /\ gtick.pc \in {"map", "state"} => gtick.prev = latest[gtick.game]
  /\ gtick.pc = "swing" => swings[gtick.game] < jumps[gtick.game]

GInv == GShape /\ ScoreInHand /\ SwingPerJump

LEMMA RestingFields ==
  ASSUME NEW pc
  PROVE  /\ DOMAIN Resting(pc) = {"pc", "games", "left", "market", "game", "prev", "seen"}
         /\ Resting(pc).pc = pc /\ Resting(pc).left = {}
BY DEF Resting

(* A process that is down has no tick.                                     *)
Stopped == gproc = "down" => gtick.pc = "off"

LEMMA GInitInv == GInit => GInv
<1> SUFFICES ASSUME GInit PROVE GInv
  OBVIOUS
<1>1. GShape /\ ScoreInHand
  BY RestingFields DEF GInit, GShape, ScoreInHand
<1>2. SwingPerJump
  BY RestingFields DEF GInit, SwingPerJump
<1> QED
  BY <1>1, <1>2 DEF GInv

(* A step that writes neither scores nor events, and hands none over.      *)
LEMMA GQuiet ==
  ASSUME GInv, UNCHANGED <<latest, swings, jumps>>,
         failures' \in Nat, failures <= failures',
         gtick.pc = "swing" => gtick' = gtick \/ failures' = failures + 1,
         gtick' = gtick \/ gtick'.pc \notin {"map", "state", "swing"},
         DOMAIN gtick' = {"pc", "games", "left", "market", "game", "prev", "seen"},
         gtick'.pc \in {"map", "state", "swing", "lineup"} => gtick'.game \in Games,
         gtick'.left \subseteq GameMarkets
  PROVE  GInv'
<1>1. GShape'
  BY DEF GInv, GShape
<1>2. ScoreInHand'
  BY DEF GInv, ScoreInHand
<1>3. SwingPerJump'
  <2> SUFFICES ASSUME NEW g \in Games
               PROVE  /\ swings'[g] <= jumps'[g]
                      /\ jumps'[g] <= swings'[g]
                           + (IF gtick'.pc = "swing" /\ gtick'.game = g THEN 1 ELSE 0) + failures'
    BY DEF SwingPerJump
  <2>1. /\ swings[g] <= jumps[g]
        /\ jumps[g] <= swings[g]
             + (IF gtick.pc = "swing" /\ gtick.game = g THEN 1 ELSE 0) + failures
        /\ swings[g] \in Nat /\ jumps[g] \in Nat /\ failures \in Nat
    BY DEF GInv, SwingPerJump, GShape
  <2>2. CASE gtick' = gtick
    BY <2>1, <2>2
  <2>3. CASE gtick' # gtick /\ gtick.pc = "swing"
    BY <2>1, <2>3
  <2>4. CASE gtick' # gtick /\ gtick.pc # "swing"
    BY <2>1, <2>4
  <2> QED
    BY <2>2, <2>3, <2>4
<1> QED
  BY <1>1, <1>2, <1>3 DEF GInv

LEMMA FetchGamesKeeps == ASSUME GInv, FetchGames PROVE GInv'
<1>1. gtick.pc = "fetch" /\ UNCHANGED <<latest, swings, jumps, failures>>
  BY DEF FetchGames
<1>2. CASE \A g \in Games : board[g] = NoGame
  <2>1. gtick' = Resting("wait")
    BY <1>2 DEF FetchGames
  <2> QED
    BY <1>1, <2>1, RestingFields, GQuiet DEF GInv, GShape
<1>3. CASE ~(\A g \in Games : board[g] = NoGame)
  <2>1. gtick' = [Resting("next") EXCEPT !.games = board, !.left = GameMarkets]
    BY <1>3 DEF FetchGames
  <2>2. /\ DOMAIN gtick' = {"pc", "games", "left", "market", "game", "prev", "seen"}
        /\ gtick'.pc = "next" /\ gtick'.left = GameMarkets
    BY <2>1, RestingFields
  <2> QED
    BY <1>1, <2>2, GQuiet DEF GInv, GShape
<1> QED
  BY <1>2, <1>3

LEMMA NextMarketKeeps ==
  ASSUME GInv, NEW m \in GameMarkets, NextMarket(m) PROVE GInv'
<1> DEFINE g == match_market_to_game(m, gtick.games)
<1>1. gtick.pc = "next" /\ UNCHANGED <<latest, swings, jumps, failures>>
  BY DEF NextMarket
<1>2. CASE g = NoGame
  <2>1. gtick' = [gtick EXCEPT !.left = @ \ {m}]
    BY <1>2 DEF NextMarket
  <2>2. /\ DOMAIN gtick' = {"pc", "games", "left", "market", "game", "prev", "seen"}
        /\ gtick'.pc = "next" /\ gtick'.left \subseteq GameMarkets
    BY <1>1, <2>1 DEF GInv, GShape
  <2> QED
    BY <1>1, <2>2, GQuiet DEF GInv, GShape
<1>3. CASE g # NoGame
  <2>1. g \in Games
    BY <1>3, MatchedGame
  <2>2. gtick' = [gtick EXCEPT !.pc = "map", !.left = @ \ {m}, !.market = m, !.game = g,
                               !.prev = PrevScore(g)]
    BY <1>3 DEF NextMarket
  <2> HIDE DEF g
  <2>3. /\ DOMAIN gtick' = {"pc", "games", "left", "market", "game", "prev", "seen"}
        /\ gtick'.pc = "map" /\ gtick'.left \subseteq GameMarkets
        /\ gtick'.game = g /\ gtick'.prev = latest[g]
    BY <2>2 DEF GInv, GShape, PrevScore
  <2>4. GShape'
    BY <1>1, <2>1, <2>3 DEF GInv, GShape
  <2>5. ScoreInHand'
    BY <1>1, <2>3 DEF ScoreInHand
  <2>6. SwingPerJump'
    BY <1>1, <2>3 DEF GInv, SwingPerJump
  <2> QED
    BY <2>4, <2>5, <2>6 DEF GInv
<1> QED
  BY <1>2, <1>3

LEMMA UpsertMapKeeps == ASSUME GInv, UpsertMap PROVE GInv'
<1>1. /\ gtick.pc = "map" /\ gtick.game \in Games /\ gtick.prev = latest[gtick.game]
      /\ UNCHANGED <<latest, swings, jumps, failures>>
      /\ gtick' = [gtick EXCEPT !.pc = "state"]
  BY DEF UpsertMap, GInv, GShape, ScoreInHand
<1>2. /\ DOMAIN gtick' = {"pc", "games", "left", "market", "game", "prev", "seen"}
      /\ gtick'.pc = "state" /\ gtick'.left = gtick.left
      /\ gtick'.game = gtick.game /\ gtick'.prev = gtick.prev
  BY <1>1 DEF GInv, GShape
<1>3. GShape'
  BY <1>1, <1>2 DEF GInv, GShape
<1>4. ScoreInHand'
  BY <1>1, <1>2 DEF ScoreInHand
<1>5. SwingPerJump'
  BY <1>1, <1>2 DEF GInv, SwingPerJump
<1> QED
  BY <1>3, <1>4, <1>5 DEF GInv

(* The new score is a jump exactly when the event is due.                  *)
LEMMA InsertStateKeeps == ASSUME GInv, InsertState PROVE GInv'
<1> DEFINE h      == gtick.game
           jumped == latest[h] # NoGame /\ Swung(latest[h], Now)
<1>1. /\ gtick.pc = "state" /\ h \in Games /\ gtick.prev = latest[h]
      /\ latest' = [latest EXCEPT ![h] = Now] /\ UNCHANGED <<swings, failures>>
  BY DEF InsertState, GInv, GShape, ScoreInHand
<1>2. /\ gtick' = [gtick EXCEPT !.pc = IF jumped THEN "swing" ELSE "lineup"]
      /\ jumps' = IF jumped THEN [jumps EXCEPT ![h] = @ + 1] ELSE jumps
  BY <1>1 DEF InsertState
<1> HIDE DEF jumped
<1>3. /\ DOMAIN gtick' = {"pc", "games", "left", "market", "game", "prev", "seen"}
      /\ gtick'.left = gtick.left /\ gtick'.game = h
      /\ gtick'.pc = IF jumped THEN "swing" ELSE "lineup"
  BY <1>2 DEF GInv, GShape
<1>4. \A g \in Games : /\ swings[g] \in Nat /\ jumps[g] \in Nat /\ failures \in Nat
                       /\ swings[g] <= jumps[g] /\ jumps[g] <= swings[g] + failures
  BY <1>1 DEF GInv, GShape, SwingPerJump
<1>5. \A g \in Games : jumps'[g] = IF jumped /\ g = h THEN jumps[g] + 1 ELSE jumps[g]
  BY <1>2 DEF GInv, GShape
<1>6. GShape'
  <2>1. jumps' \in [Games -> Nat]
    <3>1. jumps \in [Games -> Nat] /\ jumps[h] + 1 \in Nat
      BY <1>1, <1>4 DEF GInv, GShape
    <3>2. CASE jumped
      BY <1>2, <3>1, <3>2
    <3>3. CASE ~jumped
      BY <1>2, <3>1, <3>3
    <3> QED
      BY <3>2, <3>3
  <2> QED
    BY <1>1, <1>3, <2>1 DEF GInv, GShape
<1>7. ScoreInHand'
  BY <1>1, <1>3, <1>4, <1>5 DEF ScoreInHand
<1>8. SwingPerJump'
  <2> SUFFICES ASSUME NEW g \in Games
               PROVE  /\ swings[g] <= jumps'[g]
                      /\ jumps'[g] <= swings[g] + (IF jumped /\ g = h THEN 1 ELSE 0) + failures
    BY <1>1, <1>3 DEF SwingPerJump
  <2> QED
    BY <1>4, <1>5
<1> QED
  BY <1>6, <1>7, <1>8 DEF GInv

LEMMA InsertSwingKeeps == ASSUME GInv, InsertSwing PROVE GInv'
<1> DEFINE h == gtick.game
<1>1. /\ gtick.pc = "swing" /\ h \in Games /\ swings[h] < jumps[h]
      /\ swings' = [swings EXCEPT ![h] = @ + 1]
      /\ UNCHANGED <<latest, jumps, failures>>
      /\ gtick' = [gtick EXCEPT !.pc = "lineup"]
  BY DEF InsertSwing, GInv, GShape, ScoreInHand
<1>2. /\ DOMAIN gtick' = {"pc", "games", "left", "market", "game", "prev", "seen"}
      /\ gtick'.left = gtick.left /\ gtick'.game = h /\ gtick'.pc = "lineup"
  BY <1>1 DEF GInv, GShape
<1>3. \A g \in Games : /\ swings[g] \in Nat /\ jumps[g] \in Nat /\ failures \in Nat
                       /\ swings[g] <= jumps[g]
                       /\ jumps[g] <= swings[g] + (IF g = h THEN 1 ELSE 0) + failures
  BY <1>1 DEF GInv, GShape, SwingPerJump
<1>4. \A g \in Games : swings'[g] = IF g = h THEN swings[g] + 1 ELSE swings[g]
  BY <1>1 DEF GInv, GShape
<1>5. GShape'
  <2>1. swings' \in [Games -> Nat]
    BY <1>1, <1>3 DEF GInv, GShape
  <2> QED
    BY <1>1, <1>2, <2>1 DEF GInv, GShape
<1>6. ScoreInHand'
  BY <1>2 DEF ScoreInHand
<1>7. SwingPerJump'
  <2> SUFFICES ASSUME NEW g \in Games
               PROVE  swings'[g] <= jumps[g] /\ jumps[g] <= swings'[g] + failures
    BY <1>1, <1>2, <1>3, <1>4 DEF SwingPerJump
  <2>1. CASE g = h
    BY <1>1, <1>3, <1>4, <2>1
  <2>2. CASE g # h
    BY <1>3, <1>4, <2>2
  <2> QED
    BY <2>1, <2>2
<1> QED
  BY <1>5, <1>6, <1>7 DEF GInv

LEMMA LineupKeeps == ASSUME GInv, Lineup PROVE GInv'
<1>1. /\ gtick.pc = "lineup" /\ UNCHANGED <<latest, swings, jumps, failures>>
      /\ gtick' = [gtick EXCEPT !.pc = "next", !.seen = @ \cup {gtick.game}]
  BY DEF Lineup
<1>2. /\ DOMAIN gtick' = {"pc", "games", "left", "market", "game", "prev", "seen"}
      /\ gtick'.pc = "next" /\ gtick'.left = gtick.left
  BY <1>1 DEF GInv, GShape
<1> QED
  BY <1>1, <1>2, GQuiet DEF GInv, GShape

(* The loop, the process and the scoreboard.                               *)
LEMMA GOthersKeep ==
  ASSUME GInv, Stopped,
         \/ TickDone \/ StartTick \/ TickFails \/ GStop \/ GExit \/ GCrash \/ GRestart
         \/ \E g \in Games, entry \in BoardMoves : ScoreMoves(g, entry)
  PROVE  GInv'
<1>1. UNCHANGED <<latest, swings, jumps>> /\ failures \in Nat
  BY DEF TickDone, StartTick, TickFails, GStop, GExit, GCrash, GRestart, ScoreMoves,
         GInv, GShape
<1>2. CASE TickDone \/ StartTick \/ GExit
  <2>1. gtick.pc # "swing" /\ UNCHANGED failures
    BY <1>2 DEF TickDone, StartTick, GExit
  <2>2. \E pc \in {"wait", "fetch", "off"} : gtick' = Resting(pc)
    BY <1>2 DEF TickDone, StartTick, GExit
  <2>3. /\ DOMAIN gtick' = {"pc", "games", "left", "market", "game", "prev", "seen"}
        /\ gtick'.pc \notin {"map", "state", "swing", "lineup"} /\ gtick'.left = {}
    BY <2>2, RestingFields
  <2>4. failures' \in Nat /\ failures <= failures'
    BY <1>1, <2>1
  <2> QED
    BY <1>1, <2>1, <2>3, <2>4, GQuiet
<1>3. CASE TickFails \/ GCrash
  <2>1. failures' = failures + 1
    BY <1>3 DEF TickFails, GCrash
  <2>2. PICK pc \in {"wait", "off"} : gtick' = Resting(pc)
    BY <1>3 DEF TickFails, GCrash
  <2>3. /\ DOMAIN gtick' = {"pc", "games", "left", "market", "game", "prev", "seen"}
        /\ gtick'.pc = pc /\ gtick'.left = {}
    BY <2>2, RestingFields
  <2>4. failures' \in Nat /\ failures <= failures'
    BY <1>1, <2>1
  <2>5. gtick'.pc \notin {"map", "state", "swing", "lineup"}
    BY <2>2, <2>3
  <2> QED
    BY <1>1, <2>1, <2>3, <2>4, <2>5, GQuiet
<1>4. CASE GStop \/ \E g \in Games, entry \in BoardMoves : ScoreMoves(g, entry)
  <2>1. UNCHANGED <<gtick, failures>>
    BY <1>4 DEF GStop, ScoreMoves
  <2> QED
    BY <1>1, <2>1, GQuiet DEF GInv, GShape
<1>5. CASE GRestart
  <2>1. gtick' = Resting("wait") /\ UNCHANGED failures
    BY <1>5 DEF GRestart
  <2>2. /\ DOMAIN gtick' = {"pc", "games", "left", "market", "game", "prev", "seen"}
        /\ gtick'.pc = "wait" /\ gtick'.left = {}
    BY <2>1, RestingFields
  <2>3. gtick.pc = "off"
    BY <1>5 DEF GRestart, Stopped
  <2>4. failures' \in Nat /\ failures <= failures'
    BY <1>1, <2>1
  <2> QED
    BY <1>1, <2>2, <2>3, <2>4, GQuiet
<1> QED
  BY <1>2, <1>3, <1>4, <1>5

LEMMA GNextKeeps == ASSUME GInv, Stopped, GNext PROVE GInv'
<1>1. CASE FetchGames
  BY <1>1, FetchGamesKeeps
<1>2. CASE UpsertMap
  BY <1>2, UpsertMapKeeps
<1>3. CASE InsertState
  BY <1>3, InsertStateKeeps
<1>4. CASE InsertSwing
  BY <1>4, InsertSwingKeeps
<1>5. CASE Lineup
  BY <1>5, LineupKeeps
<1>6. CASE \E m \in GameMarkets : NextMarket(m)
  BY <1>6, NextMarketKeeps
<1>7. CASE \/ TickDone \/ StartTick \/ TickFails \/ GStop \/ GExit \/ GCrash \/ GRestart
           \/ \E g \in Games, entry \in BoardMoves : ScoreMoves(g, entry)
  BY <1>7, GOthersKeep
<1> QED
  BY <1>1, <1>2, <1>3, <1>4, <1>5, <1>6, <1>7 DEF GNext, GStep

LEMMA StoppedKeeps == ASSUME GInv, Stopped, GNext PROVE Stopped'
<1>1. CASE FetchGames \/ TickDone \/ StartTick \/ TickFails \/ GExit \/ GCrash \/ GRestart
  BY <1>1, RestingFields
  DEF FetchGames, TickDone, StartTick, TickFails, GExit, GCrash, GRestart, Stopped
<1>2. CASE UpsertMap \/ InsertState \/ InsertSwing \/ Lineup \/ \E m \in GameMarkets : NextMarket(m)
  <2>1. gproc' = gproc /\ gtick.pc # "off"
    BY <1>2 DEF UpsertMap, InsertState, InsertSwing, Lineup, NextMarket
  <2> QED
    BY <2>1 DEF Stopped
<1>3. CASE GStop \/ \E g \in Games, entry \in BoardMoves : ScoreMoves(g, entry)
  BY <1>3 DEF GStop, ScoreMoves, Stopped
<1> QED
  BY <1>1, <1>2, <1>3 DEF GNext, GStep

LEMMA GUntouched == ASSUME GInv, Stopped, UNCHANGED gvars PROVE GInv' /\ Stopped'
<1>1. UNCHANGED <<latest, swings, jumps, failures, gtick, gproc>>
  BY DEF gvars
<1> QED
  BY <1>1 DEF GInv, GShape, ScoreInHand, SwingPerJump, Stopped

-----------------------------------------------------------------------------
(* Kalshi: the job that has written the row of a market has its pair in    *)
(* hand, and no step removes a row.                                        *)
JobShape == DOMAIN job = {"pc", "left", "strict"}

PairInHand == job.pc = "pair" => Head(job.left).ticker \in kmarkets

KInv == JobShape /\ PairInHand /\ PairsRefer

LEMMA KInitInv == KInit => KInv
BY DEF KInit, KInv, JobShape, PairInHand, PairsRefer, NoJob

(* A step that removes no row, writes no pair and hands none over.         *)
LEMMA KQuiet ==
  ASSUME KInv, kmarkets \subseteq kmarkets', pairs' = pairs,
         job' = job \/ (DOMAIN job' = {"pc", "left", "strict"} /\ job'.pc # "pair")
  PROVE  KInv'
BY DEF KInv, JobShape, PairInHand, PairsRefer

LEMMA UpsertKalshiMarketKeeps == ASSUME KInv, UpsertKalshiMarket PROVE KInv'
<1>1. /\ kmarkets' = kmarkets \cup {Head(job.left).ticker} /\ pairs' = pairs
      /\ job' = [job EXCEPT !.pc = "pair"]
  BY DEF UpsertKalshiMarket
<1>2. DOMAIN job' = {"pc", "left", "strict"} /\ job'.left = job.left
  BY <1>1 DEF KInv, JobShape
<1>3. PairInHand'
  BY <1>1, <1>2 DEF PairInHand
<1>4. PairsRefer'
  BY <1>1 DEF KInv, PairsRefer
<1> QED
  BY <1>2, <1>3, <1>4 DEF KInv, JobShape

LEMMA UpsertPairKeeps == ASSUME KInv, UpsertPair PROVE KInv'
<1> DEFINE p == Head(job.left)
<1>1. /\ p.ticker \in kmarkets /\ kmarkets' = kmarkets
      /\ pairs' = [id \in DOMAIN pairs \cup {p.id} |-> IF id = p.id THEN Row(p) ELSE pairs[id]]
      /\ job' = [job EXCEPT !.pc = "market", !.left = Tail(@)]
  BY DEF UpsertPair, KInv, PairInHand
<1>2. JobShape' /\ PairInHand'
  BY <1>1 DEF KInv, JobShape, PairInHand
<1>3. ASSUME NEW id \in DOMAIN pairs' PROVE pairs'[id].ticker \in kmarkets
  <2>1. id \in DOMAIN pairs \cup {p.id}
        /\ pairs'[id] = IF id = p.id THEN Row(p) ELSE pairs[id]
    BY <1>1, <1>3
  <2>2. CASE id = p.id
    BY <1>1, <2>1, <2>2 DEF Row
  <2>3. CASE id # p.id
    BY <2>1, <2>3 DEF KInv, PairsRefer
  <2> QED
    BY <2>2, <2>3
<1> QED
  BY <1>1, <1>2, <1>3 DEF KInv, PairsRefer

LEMMA JobsKeep ==
  ASSUME KInv, MapGames \/ LoadPairs \/ SkipPair \/ JobEnds \/ JobFails PROVE KInv'
<1>1. UNCHANGED <<kmarkets, pairs>>
  BY DEF MapGames, LoadPairs, SkipPair, JobEnds, JobFails
<1>2. CASE MapGames \/ LoadPairs
  <2>1. PICK left, strict : job' = [pc |-> "market", left |-> left, strict |-> strict]
    BY <1>2 DEF MapGames, LoadPairs, NoJob
  <2> QED
    BY <1>1, <2>1, KQuiet
<1>3. CASE JobEnds \/ JobFails
  <2>1. job' = [pc |-> "off", left |-> <<>>, strict |-> FALSE]
    BY <1>3 DEF JobEnds, JobFails, NoJob
  <2> QED
    BY <1>1, <2>1, KQuiet
<1>4. CASE SkipPair
  <2>1. DOMAIN job' = {"pc", "left", "strict"} /\ job'.pc = "market"
    BY <1>4 DEF SkipPair, KInv, JobShape
  <2> QED
    BY <1>1, <2>1, KQuiet
<1> QED
  BY <1>2, <1>3, <1>4

LEMMA PollerKeeps ==
  ASSUME KInv,
         \/ KPoll \/ PollFails \/ PollTickerFails \/ KStop \/ KExit \/ KCrash \/ KRestart
         \/ \E t \in Tickers : Delisted(t)
         \/ \E t \in Tickers, book \in Books : VenueMoves(t, book)
  PROVE  KInv'
<1>1. UNCHANGED <<pairs, job>>
  BY DEF KPoll, PollStarts, PollMarket, PollBook, PollEnds, PollFails, PollTickerFails,
         KStop, KExit, KCrash, KRestart, Delisted, VenueMoves
<1>2. kmarkets \subseteq kmarkets'
  BY DEF KPoll, PollStarts, PollMarket, PollBook, PollEnds, PollFails, PollTickerFails,
         KStop, KExit, KCrash, KRestart, Delisted, VenueMoves
<1> QED
  BY <1>1, <1>2, KQuiet

LEMMA KNextKeeps == ASSUME KInv, KNext PROVE KInv'
<1>1. CASE UpsertKalshiMarket
  BY <1>1, UpsertKalshiMarketKeeps
<1>2. CASE UpsertPair
  BY <1>2, UpsertPairKeeps
<1>3. CASE MapGames \/ LoadPairs \/ SkipPair \/ JobEnds \/ JobFails
  BY <1>3, JobsKeep
<1>4. CASE \/ KPoll \/ PollFails \/ PollTickerFails \/ KStop \/ KExit \/ KCrash \/ KRestart
           \/ \E t \in Tickers : Delisted(t)
           \/ \E t \in Tickers, book \in Books : VenueMoves(t, book)
  BY <1>4, PollerKeeps
<1> QED
  BY <1>1, <1>2, <1>3, <1>4 DEF KNext

LEMMA KUntouched == ASSUME KInv, UNCHANGED kvars PROVE KInv'
BY DEF kvars, KInv, JobShape, PairInHand, PairsRefer

-----------------------------------------------------------------------------
(* Both sides on one database: a step of one leaves the other as it is.    *)
IInv == GInv /\ Stopped /\ KInv

LEMMA NextKeeps == ASSUME IInv, [Next]_vars PROVE IInv'
<1>1. CASE Enrichment(GNext)
  BY <1>1, GNextKeeps, StoppedKeeps, KUntouched DEF IInv, Enrichment
<1>2. CASE OfKalshi(KNext)
  BY <1>2, KNextKeeps, GUntouched DEF IInv, OfKalshi
<1>3. CASE UNCHANGED vars
  BY <1>3, GUntouched, KUntouched DEF IInv, vars
<1> QED
  BY <1>1, <1>2, <1>3 DEF Next

(* The inductive invariant of Feeds holds in every behaviour.              *)
THEOREM InductiveInvariant == Spec => []IInv
<1>1. Init => IInv
  <2>1. GInit => Stopped
    BY DEF GInit, Stopped
  <2> QED
    BY <2>1, GInitInv, KInitInv DEF Init, IInv
<1>2. IInv /\ [Next]_vars => IInv'
  BY NextKeeps
<1> QED
  BY <1>1, <1>2, PTL DEF Spec

(* A jump of a game's stored score becomes one event, and never two,       *)
(* through failures and crashes (enrichment/__main__.py, _tick).           *)
THEOREM SwingsAreCounted == Spec => []SwingPerJump
<1>1. IInv => SwingPerJump
  BY DEF IInv, GInv
<1> QED
  BY <1>1, InductiveInvariant, PTL

(* A stored pair has the row that its ticker refers to, whichever jobs ran *)
(* and wherever they died (map_wc_games.py, pairs.py).                     *)
THEOREM PairsReferToRows == Spec => []PairsRefer
<1>1. IInv => PairsRefer
  BY DEF IInv, KInv
<1> QED
  BY <1>1, InductiveInvariant, PTL

-----------------------------------------------------------------------------
(* What the mapper finds.  The fold over the rows is a function: the least *)
(* number of rows for which it were none has a predecessor for which it is *)
(* one.                                                                    *)
IsFold(f, k, rows, outcomes) ==
  /\ f = [n \in 0..k |-> f[n]]
  /\ \A n \in 0..k : f[n] = IF n = 0 THEN <<>> ELSE Take(f[n - 1], rows[n], outcomes)

LEMMA FoldGrows ==
  ASSUME NEW j \in Nat, j # 0, NEW rows, NEW outcomes, NEW f, IsFold(f, j - 1, rows, outcomes)
  PROVE  \E g : IsFold(g, j, rows, outcomes)
<1> DEFINE next == Take(f[j - 1], rows[j], outcomes)
           g == [n \in 0..j |-> IF n = j THEN next ELSE f[n]]
<1> HIDE DEF next
<1>1. \A n \in 0..j : n # j => n \in 0..(j - 1) /\ g[n] = f[n]
  OBVIOUS
<1>2. \A n \in 0..(j - 1) : f[n] = IF n = 0 THEN <<>> ELSE Take(f[n - 1], rows[n], outcomes)
  BY DEF IsFold
<1>3. \A n \in 0..j : n # 0 => n - 1 \in 0..j /\ n - 1 # j
  OBVIOUS
<1>4. ASSUME NEW n \in 0..j
      PROVE  g[n] = IF n = 0 THEN <<>> ELSE Take(g[n - 1], rows[n], outcomes)
  <2>1. CASE n = j
    <3>1. g[n] = next /\ n # 0 /\ g[n - 1] = f[j - 1]
      BY <1>1, <1>3, <2>1
    <3> QED
      BY <2>1, <3>1 DEF next
  <2>2. CASE n # j /\ n = 0
    BY <1>1, <1>2, <2>2
  <2>3. CASE n # j /\ n # 0
    <3>1. g[n] = f[n] /\ g[n - 1] = f[n - 1]
      BY <1>1, <1>3, <2>3
    <3> QED
      BY <1>1, <1>2, <2>3, <3>1
  <2> QED
    BY <2>1, <2>2, <2>3
<1>5. g = [n \in 0..j |-> g[n]]
  OBVIOUS
<1> HIDE DEF g
<1> QED
  BY <1>4, <1>5 DEF IsFold

LEMMA FoldExists ==
  ASSUME NEW k \in Nat, NEW rows, NEW outcomes PROVE \E f : IsFold(f, k, rows, outcomes)
<1> DEFINE S == {j \in Nat : ~ \E f : IsFold(f, j, rows, outcomes)}
<1>1. SUFFICES ASSUME S # {} PROVE FALSE
  OBVIOUS
<1>2. PICK j \in S : \A i \in S : j <= i
  BY <1>1, LeastOfNaturals
<1>3. j # 0
  <2>1. IsFold([n \in 0..0 |-> <<>>], 0, rows, outcomes)
    BY DEF IsFold
  <2> QED
    BY <2>1
<1>4. j - 1 \in Nat /\ j - 1 \notin S
  BY <1>2, <1>3
<1>5. PICK f : IsFold(f, j - 1, rows, outcomes)
  BY <1>4
<1> QED
  BY <1>3, <1>5, FoldGrows

LEMMA MatchIsFold ==
  ASSUME NEW rows, Len(rows) \in Nat, NEW listed
  PROVE \E f : /\ match_wc_game_pairs(rows, listed) = f[Len(rows)]
               /\ IsFold(f, Len(rows), rows, Outcomes(listed))
<1> DEFINE Rec(f) == f = [n \in 0..Len(rows) |->
                            IF n = 0 THEN <<>> ELSE Take(f[n - 1], rows[n], Outcomes(listed))]
           found == CHOOSE f : Rec(f)
<1>1. \E f : Rec(f)
  <2>1. PICK f : IsFold(f, Len(rows), rows, Outcomes(listed))
    BY FoldExists
  <2>2. Rec(f)
    BY <2>1 DEF IsFold
  <2> QED
    BY <2>2, Zenon
<1>2. Rec(found)
  BY <1>1, Zenon
<1>3. match_wc_game_pairs(rows, listed) = found[Len(rows)]
  BY DEF match_wc_game_pairs
<1>4. IsFold(found, Len(rows), rows, Outcomes(listed))
  <2> HIDE DEF found
  <2> QED
    BY <1>2 DEF IsFold
<1> QED
  BY <1>3, <1>4, Zenon

(* The best of some outcomes is one of them.                               *)
LEMMA BestMatchIsListed ==
  ASSUME NEW poly, NEW outcomes \in SUBSET Nat, BestMatch(poly, outcomes) # NoMatch
  PROVE  BestMatch(poly, outcomes) \in outcomes
<1> DEFINE Score(i) == score_match(poly, Outcome(i))
           SameEvent(i) == {j \in outcomes : Outcome(j).event = Outcome(i).event}
           First(i) == Min(SameEvent(i))
           best == {i \in outcomes : Score(i) > 0 /\ \A j \in outcomes : Score(j) <= Score(i)}
           group == Min({First(i) : i \in best})
           firsts == {i \in best : First(i) = group}
<1>1. best # {} /\ BestMatch(poly, outcomes) = Min(firsts)
  BY DEF BestMatch
<1> HIDE DEF Score
<1>2. ASSUME NEW i \in best PROVE First(i) \in Nat
  <2>1. SameEvent(i) \in SUBSET Nat /\ i \in SameEvent(i)
    BY <1>2
  <2> HIDE DEF SameEvent
  <2> QED
    BY <2>1, MinOfNaturals
<1>3. group \in {First(i) : i \in best}
  <2> DEFINE places == {First(i) : i \in best}
  <2>1. places \in SUBSET Nat /\ places # {}
    <3>1. PICK i \in best : TRUE
      BY <1>1
    <3>2. First(i) \in places
      OBVIOUS
    <3> HIDE DEF First, best
    <3>3. \A n \in places : n \in Nat
      BY <1>2
    <3> HIDE DEF places
    <3> QED
      BY <3>2, <3>3
  <2> HIDE DEF places
  <2>2. Min(places) \in places
    BY <2>1, MinOfNaturals
  <2> QED
    BY <2>2 DEF places
<1>4. firsts # {}
  BY <1>3
<1>5. firsts \in SUBSET Nat /\ firsts \subseteq outcomes
  OBVIOUS
<1> HIDE DEF firsts
<1> QED
  BY <1>1, <1>4, <1>5, MinOfNaturals

(* A pair comes from the file or from two listings that match well enough. *)
IsMatch(id, i) ==
  /\ parse_poly_moneyline(id) # NoMatch /\ Outcome(i) # NoMatch
  /\ score_match(parse_poly_moneyline(id), Outcome(i)) >= ReviewConfidence

MatchOf(id, i) == Matched(parse_poly_moneyline(id), i)

AllMatches == {MatchOf(id, i) : id \in Rows, i \in DOMAIN KalshiListing}

MappedPairs ==
  {p \in AllMatches : \E id \in Rows, i \in DOMAIN KalshiListing :
                        IsMatch(id, i) /\ p = MatchOf(id, i)}

SoundPairs == PairFile \cup MappedPairs

(* A score is a number of hundredths, and what it says of a match that     *)
(* reaches the threshold: the teams are the same, and so is the date unless*)
(* the threshold is as low as the rest of the score.                       *)
Day(poly, kalshi) ==
  IF date_match(poly.date, kalshi.kickoff) THEN 35
  ELSE IF HoursBetween(poly.date, kalshi.kickoff) > 24 THEN -30 ELSE 0

LEMMA MaxWithZero == ASSUME NEW x \in Nat, x <= 100 PROVE Max({0, x}) = x
<1>1. {0, x} \in SUBSET (0..100) /\ 100 \in Nat
  OBVIOUS
<1>2. Max({0, x}) \in {0, x} /\ x <= Max({0, x})
  BY <1>1, MaxOfBounded
<1> QED
  BY <1>2

LEMMA ScoreOfMatch ==
  ASSUME NEW poly, NEW kalshi
  PROVE  /\ score_match(poly, kalshi) \in Nat
         /\ score_match(poly, kalshi) > 35 =>
              /\ Sides(poly.teams) = Sides(kalshi.teams)
              /\ date_match(poly.date, kalshi.kickoff)
                 \/ ~(HoursBetween(poly.date, kalshi.kickoff) > 24)
<1> DEFINE codes == IF poly.codes \subseteq kalshi.codes THEN 15 ELSE 0
           sum == 35 + Day(poly, kalshi) + codes + 15
<1>1. Day(poly, kalshi) \in {35, -30, 0} /\ codes \in {0, 15}
  BY DEF Day
<1>2. sum \in Nat /\ sum <= 100
  BY <1>1
<1>3. score_match(poly, kalshi) =
        IF Sides(poly.teams) # Sides(kalshi.teams) \/ poly.outcome # kalshi.outcome THEN 0
        ELSE Max({0, sum})
  BY DEF score_match, Day
<1>4. Max({0, sum}) = sum
  <2> HIDE DEF sum
  <2> QED
    BY <1>2, MaxWithZero
<1>5. sum > 35 => date_match(poly.date, kalshi.kickoff)
                  \/ ~(HoursBetween(poly.date, kalshi.kickoff) > 24)
  BY <1>1 DEF Day
<1> HIDE DEF sum
<1> QED
  BY <1>2, <1>3, <1>4, <1>5

LEMMA TakeIsSound ==
  ASSUME NEW found \in Seq(SoundPairs), NEW id \in Rows, ReviewConfidence \in Nat,
         NEW listed \in SUBSET DOMAIN KalshiListing
  PROVE  Take(found, id, Outcomes(listed)) \in Seq(SoundPairs)
<1> DEFINE poly == parse_poly_moneyline(id)
           i == BestMatch(poly, Outcomes(listed))
<1>1. SUFFICES ASSUME poly # NoMatch, i # NoMatch,
                      ~(score_match(poly, Outcome(i)) < ReviewConfidence)
               PROVE  Append(found, Matched(poly, i)) \in Seq(SoundPairs)
  BY DEF Take
<1>2. i \in Outcomes(listed)
  <2>1. Outcomes(listed) \in SUBSET Nat
    BY ListingAssumption DEF Outcomes
  <2> QED
    BY <1>1, <2>1, BestMatchIsListed
<1>3. i \in DOMAIN KalshiListing /\ Outcome(i) # NoMatch
  BY <1>2 DEF Outcomes
<1>4. IsMatch(id, i)
  <2>1. score_match(poly, Outcome(i)) \in Nat
    BY ScoreOfMatch
  <2> QED
    BY <1>1, <1>3, <2>1 DEF IsMatch
<1>5. Matched(poly, i) \in SoundPairs
  BY <1>3, <1>4 DEF SoundPairs, MappedPairs, AllMatches, MatchOf
<1> HIDE DEF poly, i
<1> QED
  BY <1>5

(* What used_poly and used_kalshi are for: no market and no ticker twice.  *)
Distinct(found) ==
  \A j, k \in DOMAIN found :
    j # k => found[j].market # found[k].market /\ found[j].ticker # found[k].ticker

LEMMA TakeIsDistinct ==
  ASSUME NEW found \in Seq(SoundPairs), Distinct(found), NEW id \in Rows, NEW outcomes
  PROVE  Distinct(Take(found, id, outcomes))
<1> DEFINE poly == parse_poly_moneyline(id)
           i == BestMatch(poly, outcomes)
           pair == Matched(poly, i)
<1>1. SUFFICES ASSUME ~Used(found, poly, i) PROVE Distinct(Append(found, pair))
  BY DEF Take
<1>2. pair.market = poly.id /\ pair.ticker = Outcome(i).ticker
  BY DEF Matched
<1> HIDE DEF poly, i, pair
<1>3. \A k \in DOMAIN found : found[k].market # pair.market /\ found[k].ticker # pair.ticker
  BY <1>1, <1>2 DEF Used
<1> DEFINE longer == Append(found, pair)
<1>4. ASSUME NEW k \in DOMAIN longer
      PROVE  (k \in DOMAIN found /\ longer[k] = found[k]) \/ (k = Len(found) + 1 /\ longer[k] = pair)
  BY <1>4
<1> HIDE DEF longer
<1>5. Distinct(longer)
  BY <1>3, <1>4 DEF Distinct
<1> QED
  BY <1>5 DEF longer

LEMMA FoldIsSound ==
  ASSUME NEW k \in Nat, NEW rows \in [1..k -> Rows], NEW listed \in SUBSET DOMAIN KalshiListing,
         NEW f, IsFold(f, k, rows, Outcomes(listed))
  PROVE  f[k] \in Seq(SoundPairs) /\ Distinct(f[k])
<1> DEFINE Good(found) == found \in Seq(SoundPairs) /\ Distinct(found)
           S == {n \in 0..k : ~Good(f[n])}
<1>1. SUFFICES ASSUME S # {} PROVE FALSE
  OBVIOUS
<1>2. PICK n \in S : \A j \in S : n <= j
  <2>1. S \in SUBSET Nat
    OBVIOUS
  <2> HIDE DEF S
  <2> QED
    BY <1>1, <2>1, LeastOfNaturals
<1>3. n # 0
  <2>1. 0 \in 0..k
    OBVIOUS
  <2>2. f[0] = <<>>
    BY <2>1 DEF IsFold
  <2>3. ~Good(f[n]) /\ Good(<<>>)
    BY <1>2 DEF Distinct
  <2> HIDE DEF Good
  <2> QED
    BY <2>2, <2>3
<1>4. n \in 1..k /\ n - 1 \in 0..k /\ n - 1 \notin S
  BY <1>2, <1>3
<1>5. Good(f[n - 1]) /\ rows[n] \in Rows
  BY <1>4
<1>6. f[n] = Take(f[n - 1], rows[n], Outcomes(listed))
  BY <1>2, <1>3 DEF IsFold
<1>7. ReviewConfidence \in Nat
  BY CrossVenueAssumption
<1> QED
  BY <1>2, <1>5, <1>6, <1>7, TakeIsSound, TakeIsDistinct

LEMMA OrderingOfRows ==
  ASSUME NEW rows \in SetToSeqs(Rows)
  PROVE  Len(rows) \in Nat /\ rows \in [1..Len(rows) -> Rows]
<1>1. Cardinality(Rows) \in Nat
  BY CrossVenueAssumption, FS_Subset, FS_CardinalityType DEF Rows
<1>2. rows \in [1..Cardinality(Rows) -> Rows]
  BY DEF SetToSeqs
<1> QED
  BY <1>1, <1>2

LEMMA MatchesAreSound ==
  ASSUME NEW rows \in SetToSeqs(Rows), NEW listed \in SUBSET DOMAIN KalshiListing
  PROVE  match_wc_game_pairs(rows, listed) \in Seq(SoundPairs)
BY OrderingOfRows, MatchIsFold, FoldIsSound

(* One run of the mapper takes no market and no ticker twice, however the  *)
(* rows are ordered and the listing is cut (match_wc_game_pairs).          *)
THEOREM MapperTakesOnce ==
  ASSUME NEW rows \in SetToSeqs(Rows), NEW listed \in SUBSET DOMAIN KalshiListing
  PROVE  Distinct(match_wc_game_pairs(rows, listed))
BY OrderingOfRows, MatchIsFold, FoldIsSound

(* What a pair says that is of the file or of the mapper.                  *)
LEMMA SoundPairIsTyped ==
  ASSUME NEW p \in SoundPairs
  PROVE  p.ticker \in Tickers /\ p.active \in BOOLEAN
<1>1. CASE p \in PairFile
  BY <1>1, CrossVenueAssumption DEF Tickers
<1>2. CASE p \in MappedPairs
  <2>1. PICK id \in Rows, i \in DOMAIN KalshiListing : IsMatch(id, i) /\ p = MatchOf(id, i)
    BY <1>2 DEF MappedPairs
  <2>2. parse_poly_moneyline(id).id = id /\ Outcome(i).ticker = KalshiListing[i].ticker
    BY <2>1 DEF IsMatch, parse_poly_moneyline, Outcome, parse_kalshi_outcome
  <2>3. p.market = id /\ p.ticker = KalshiListing[i].ticker /\ p.active \in BOOLEAN
    BY <2>1, <2>2 DEF MatchOf, Matched
  <2> QED
    BY <2>3 DEF Tickers
<1> QED
  BY <1>1, <1>2 DEF SoundPairs

LEMMA MatchJoinsOneGame ==
  ASSUME ReviewConfidence > 35, NEW p \in MappedPairs
  PROVE  LET poly == PolyMarkets[p.market]
             kalshi == Listing(p.ticker)
         IN  /\ Sides(poly.teams) = Sides(kalshi.teams)
             /\ kalshi.kickoff # NoMatch => HoursBetween(poly.date, kalshi.kickoff) <= 36
<1>1. PICK id \in Rows, i \in DOMAIN KalshiListing : IsMatch(id, i) /\ p = MatchOf(id, i)
  BY DEF MappedPairs
<1> DEFINE poly == parse_poly_moneyline(id)
           row == KalshiListing[i]
<1>2. /\ poly.id = id /\ poly.teams = PolyMarkets[id].teams /\ poly.date = PolyMarkets[id].date
      /\ Outcome(i).ticker = row.ticker /\ Outcome(i).teams = row.teams
      /\ Outcome(i).kickoff = row.kickoff
  BY <1>1 DEF IsMatch, parse_poly_moneyline, Outcome, parse_kalshi_outcome
<1>3. p.market = id /\ Listing(p.ticker) = row
  <2>1. p.market = id /\ p.ticker = row.ticker
    BY <1>1, <1>2 DEF MatchOf, Matched
  <2>2. \A j \in DOMAIN KalshiListing : KalshiListing[j].ticker = p.ticker => j = i
    BY <2>1, ListingAssumption
  <2>3. (CHOOSE j \in DOMAIN KalshiListing : KalshiListing[j].ticker = p.ticker) = i
    BY <2>1, <2>2
  <2> QED
    BY <2>1, <2>3 DEF Listing
<1>4. score_match(poly, Outcome(i)) > 35
  <2>1. ReviewConfidence \in Nat
    BY CrossVenueAssumption
  <2>2. score_match(poly, Outcome(i)) \in Nat /\ score_match(poly, Outcome(i)) >= ReviewConfidence
    BY <1>1, ScoreOfMatch DEF IsMatch
  <2> QED
    BY <2>1, <2>2
<1>5. /\ Sides(poly.teams) = Sides(Outcome(i).teams)
      /\ \/ date_match(poly.date, Outcome(i).kickoff)
         \/ ~(HoursBetween(poly.date, Outcome(i).kickoff) > 24)
  BY <1>4, ScoreOfMatch
<1>6. ASSUME row.kickoff # NoMatch PROVE HoursBetween(poly.date, row.kickoff) <= 36
  <2>1. row.kickoff \in Nat /\ poly.date \in Nat
    BY <1>2, <1>6, ListingAssumption DEF Rows
  <2> HIDE DEF poly, row
  <2>2. HoursBetween(poly.date, row.kickoff) \in Nat
    BY <2>1 DEF HoursBetween
  <2>3. row.kickoff \div 24 = poly.date => HoursBetween(poly.date, row.kickoff) <= 36
    BY <2>1 DEF HoursBetween
  <2> QED
    BY <1>2, <1>5, <1>6, <2>2, <2>3 DEF date_match
<1> QED
  BY <1>2, <1>3, <1>5, <1>6

-----------------------------------------------------------------------------
(* Types on the side of Kalshi: what the job has left and what is stored   *)
(* are pairs of the file or of the mapper, the poller is at a ticker.      *)
PairsSound ==
  \A id \in DOMAIN pairs : \E p \in SoundPairs :
    p.id = id /\ p.market \in DOMAIN PolyMarkets /\ pairs[id] = Row(p)

JobTypes ==
  /\ job.pc \in {"off", "market", "pair"} /\ job.left \in Seq(SoundPairs)
  /\ job.pc = "pair" => job.left # <<>> /\ Head(job.left).market \in DOMAIN PolyMarkets

PollTypes ==
  /\ DOMAIN poll = {"pc", "left"} /\ poll.pc \in {"off", "wait", "meta", "book"}
  /\ poll.left \subseteq DOMAIN TickerOrder /\ (poll.pc = "book" => poll.left # {})

QuotesTyped ==
  DOMAIN quotes = Tickers /\ \A t \in Tickers : quotes[t] # NoMatch => Quote(quotes[t])

KTypes ==
  /\ venue \in [Tickers -> Books] /\ open \subseteq Tickers /\ kmarkets \subseteq Tickers
  /\ kproc \in {"up", "stopping", "down"}
  /\ PairsSound /\ JobTypes /\ PollTypes /\ QuotesTyped

LEMMA KInitTypes == KInit => KTypes
BY CrossVenueAssumption
DEF KInit, KTypes, PairsSound, JobTypes, PollTypes, QuotesTyped, KResting, NoJob

LEMMA JobTypesKept ==
  ASSUME KTypes, KInv, KNext PROVE JobTypes' /\ PairsSound'
<1>1. CASE MapGames
  <2>1. PICK rows \in SetToSeqs(Rows), cut \in 0..Len(KalshiListing) :
          job' = [NoJob EXCEPT !.pc = "market", !.left =
                    match_wc_game_pairs(rows, {i \in 1..cut : KalshiListing[i].ticker \in open})]
    BY <1>1 DEF MapGames
  <2> DEFINE listed == {i \in 1..cut : KalshiListing[i].ticker \in open}
  <2>2. listed \in SUBSET DOMAIN KalshiListing
    BY ListingAssumption
  <2> HIDE DEF listed
  <2>3. match_wc_game_pairs(rows, listed) \in Seq(SoundPairs)
    BY <2>2, MatchesAreSound
  <2>4. job' = [pc |-> "market", left |-> match_wc_game_pairs(rows, listed), strict |-> FALSE]
    BY <2>1 DEF listed, NoJob
  <2>5. pairs' = pairs
    BY <1>1 DEF MapGames
  <2> QED
    BY <2>3, <2>4, <2>5 DEF KTypes, JobTypes, PairsSound
<1>2. CASE LoadPairs
  <2>1. PICK specs \in SetToSeqs(PairFile), strict \in BOOLEAN :
          job' = [pc |-> "market", left |-> specs, strict |-> strict]
    BY <1>2 DEF LoadPairs
  <2>2. specs \in [1..Cardinality(PairFile) -> PairFile] /\ Cardinality(PairFile) \in Nat
    BY CrossVenueAssumption, FS_CardinalityType DEF SetToSeqs
  <2>3. specs \in Seq(SoundPairs)
    BY <2>2 DEF SoundPairs
  <2>4. pairs' = pairs
    BY <1>2 DEF LoadPairs
  <2> QED
    BY <2>1, <2>3, <2>4 DEF KTypes, JobTypes, PairsSound
<1>3. CASE UpsertKalshiMarket
  <2>1. /\ job.left # <<>> /\ job' = [job EXCEPT !.pc = "pair"] /\ pairs' = pairs
        /\ Head(job.left).market \in DOMAIN PolyMarkets
    BY <1>3 DEF UpsertKalshiMarket, Skipped
  <2>2. job'.pc = "pair" /\ job'.left = job.left
    BY <2>1 DEF KInv, JobShape
  <2> QED
    BY <2>1, <2>2 DEF KTypes, JobTypes, PairsSound
<1>4. CASE UpsertPair
  <2> DEFINE p == Head(job.left)
  <2>1. /\ pairs' = [id \in DOMAIN pairs \cup {p.id} |-> IF id = p.id THEN Row(p) ELSE pairs[id]]
        /\ job' = [job EXCEPT !.pc = "market", !.left = Tail(@)]
    BY <1>4 DEF UpsertPair
  <2>2. /\ p \in SoundPairs /\ p.market \in DOMAIN PolyMarkets
        /\ Tail(job.left) \in Seq(SoundPairs)
    BY <1>4 DEF UpsertPair, KTypes, JobTypes
  <2>3. JobTypes'
    BY <2>1, <2>2 DEF JobTypes, KInv, JobShape
  <2> HIDE DEF p
  <2>4. ASSUME NEW id \in DOMAIN pairs'
        PROVE  \E q \in SoundPairs :
                 q.id = id /\ q.market \in DOMAIN PolyMarkets /\ pairs'[id] = Row(q)
    <3>1. id \in DOMAIN pairs \cup {p.id}
          /\ pairs'[id] = IF id = p.id THEN Row(p) ELSE pairs[id]
      BY <2>1, <2>4
    <3>2. CASE id = p.id
      BY <2>2, <3>1, <3>2
    <3>3. CASE id # p.id
      BY <3>1, <3>3 DEF KTypes, PairsSound
    <3> QED
      BY <3>2, <3>3
  <2> QED
    BY <2>3, <2>4 DEF PairsSound
<1>5. CASE JobEnds \/ JobFails
  <2>1. job' = [pc |-> "off", left |-> <<>>, strict |-> FALSE] /\ pairs' = pairs
    BY <1>5 DEF JobEnds, JobFails, NoJob
  <2> QED
    BY <2>1 DEF KTypes, JobTypes, PairsSound
<1>6. CASE SkipPair
  <2>1. job.left # <<>> /\ job.pc = "market" /\ job' = [job EXCEPT !.left = Tail(@)] /\ pairs' = pairs
    BY <1>6 DEF SkipPair
  <2>2. job'.pc = "market" /\ job'.left = Tail(job.left)
    BY <2>1 DEF KInv, JobShape
  <2> QED
    BY <2>1, <2>2 DEF KTypes, JobTypes, PairsSound
<1>7. CASE \/ KPoll \/ PollFails \/ PollTickerFails \/ KStop \/ KExit \/ KCrash \/ KRestart
           \/ \E t \in Tickers : Delisted(t)
           \/ \E t \in Tickers, book \in Books : VenueMoves(t, book)
  <2>1. UNCHANGED <<pairs, job>>
    BY <1>7 DEF KPoll, PollStarts, PollMarket, PollBook, PollEnds, PollFails, PollTickerFails,
         KStop, KExit, KCrash, KRestart, Delisted, VenueMoves
  <2> QED
    BY <2>1 DEF KTypes, JobTypes, PairsSound
<1> QED
  BY <1>1, <1>2, <1>3, <1>4, <1>5, <1>6, <1>7 DEF KNext

(* The poller looks at one of the tickers it has left.                     *)
LEMMA TickerInHand ==
  ASSUME PollTypes, poll.left # {} PROVE Min(poll.left) \in poll.left /\ Ticker \in Tickers
<1>1. DOMAIN TickerOrder \in SUBSET Nat
  BY ListingAssumption
<1>2. poll.left \in SUBSET Nat
  BY <1>1 DEF PollTypes
<1>3. Min(poll.left) \in poll.left
  BY <1>2, MinOfNaturals
<1>4. Min(poll.left) \in DOMAIN TickerOrder
  BY <1>3 DEF PollTypes
<1> QED
  BY <1>3, <1>4, ListingAssumption DEF Ticker

LEMMA PollTypesKept == ASSUME KTypes, KNext PROVE PollTypes'
<1>1. CASE PollMarket
  <2>1. poll' = [poll EXCEPT !.pc = "book"] /\ poll.left # {}
    BY <1>1 DEF PollMarket
  <2> QED
    BY <2>1 DEF KTypes, PollTypes
<1>2. CASE PollBook \/ PollTickerFails
  <2>1. poll' = [pc |-> "meta", left |-> poll.left \ {Min(poll.left)}]
    BY <1>2 DEF PollBook, PollTickerFails, NextTicker
  <2> QED
    BY <2>1 DEF KTypes, PollTypes
<1>3. CASE PollStarts
  <2>1. poll' = [pc |-> "meta", left |-> {n \in DOMAIN TickerOrder : TickerOrder[n] \in ActiveTickers}]
    BY <1>3 DEF PollStarts
  <2> QED
    BY <2>1 DEF PollTypes
<1>4. CASE PollEnds \/ KExit \/ KCrash \/ KRestart
  BY <1>4 DEF PollEnds, KExit, KCrash, KRestart, KResting, PollTypes
<1>5. CASE \/ PollFails \/ KStop \/ MapGames \/ LoadPairs \/ SkipPair
           \/ UpsertKalshiMarket \/ UpsertPair
           \/ JobEnds \/ JobFails
           \/ \E t \in Tickers : Delisted(t)
           \/ \E t \in Tickers, book \in Books : VenueMoves(t, book)
  <2>1. poll' = poll
    BY <1>5 DEF PollFails, KStop, MapGames, LoadPairs, SkipPair, UpsertKalshiMarket, UpsertPair,
         JobEnds, JobFails, Delisted, VenueMoves
  <2> QED
    BY <2>1 DEF KTypes, PollTypes
<1> QED
  BY <1>1, <1>2, <1>3, <1>4, <1>5 DEF KNext, KPoll

(* A book at Kalshi gives prices from nothing to a dollar, in whichever    *)
(* unit its bids are sent.                                                 *)
KalshiPrices(levels) == \A l \in levels : l.price \in Nat /\ l.price <= 100 * Dollar

LEMMA SoundBook ==
  ASSUME NEW book \in Books \ {Malformed}
  PROVE  KalshiPrices(book.yes) /\ KalshiPrices(book.no)
<1>1. ASSUME NEW l \in book.yes \cup book.no PROVE l.price \in Nat /\ l.price <= 100 * Dollar
  <2>1. CASE book.unit = "cents"
    <3>1. PICK cents \in 0..100 : l.price = cents * Dollar
      BY <2>1, BooksAssumption
    <3> QED
      BY <3>1 DEF Dollar
  <2>2. CASE book.unit = "dollars"
    BY <2>2, BooksAssumption DEF Dollar
  <2> QED
    BY <2>1, <2>2, BooksAssumption
<1> QED
  BY <1>1 DEF KalshiPrices

LEMMA ProbIsOfADollar ==
  ASSUME NEW raw \in Nat, raw <= 100 * Dollar
  PROVE  to_prob(raw) \in Nat /\ to_prob(raw) <= Dollar
BY DEF to_prob, Dollar

LEMMA BestOfBids ==
  ASSUME NEW levels, levels # {}, KalshiPrices(levels)
  PROVE  BestOf(levels) \in Nat /\ BestOf(levels) <= Dollar
<1> DEFINE probs == {to_prob(l.price) : l \in levels}
<1>1. \A n \in probs : n \in Nat /\ n <= Dollar
  BY ProbIsOfADollar DEF KalshiPrices
<1>2. probs # {}
  OBVIOUS
<1>3. PICK b \in Nat : b = Dollar
  BY DEF Dollar
<1>4. BestOf(levels) = Max(probs)
  BY DEF BestOf
<1> HIDE DEF probs
<1>5. probs \in SUBSET (0..b)
  BY <1>1, <1>3
<1>6. Max(probs) \in probs
  BY <1>2, <1>5, MaxOfBounded
<1> QED
  BY <1>1, <1>4, <1>6

Side(price) == price = Missing \/ (price \in Nat /\ price <= Dollar)

LEMMA QuoteOfSides ==
  ASSUME NEW bid, NEW ask, Side(bid), Side(ask),
         NEW q, q.bid = bid, q.ask = ask, q.mid = MidOf(bid, ask), q.mid # Missing
  PROVE  Quote(q)
<1> DEFINE top == Dollar
<1>1. top \in Nat /\ Dollar = top
  BY DEF Dollar
<1>2. \A x : Side(x) => x = Missing \/ x \in 0..Dollar
  BY <1>1 DEF Side
<1> HIDE DEF top
<1>3. q.mid \in Nat /\ q.mid <= 2 * top
  BY <1>1 DEF MidOf, Side, Missing
<1>4. q.mid \in 0..(2 * Dollar)
  BY <1>1, <1>3
<1> QED
  BY <1>2, <1>4 DEF Quote

LEMMA BookIsQuote ==
  ASSUME NEW yes, NEW no, KalshiPrices(yes), KalshiPrices(no),
         parse_orderbook(yes, no).mid # Missing
  PROVE  Quote(parse_orderbook(yes, no))
<1> DEFINE q == parse_orderbook(yes, no)
           bid == IF yes = {} THEN Missing ELSE BestOf(yes)
           ask == IF no = {} THEN Missing ELSE Dollar - BestOf(no)
<1>1. Side(bid)
  BY BestOfBids DEF Side
<1>2. Side(ask)
  <2>1. CASE no # {}
    <3>1. BestOf(no) \in Nat /\ BestOf(no) <= Dollar
      BY <2>1, BestOfBids
    <3>2. Dollar - BestOf(no) \in Nat /\ Dollar - BestOf(no) <= Dollar
      BY <3>1 DEF Dollar
    <3> QED
      BY <2>1, <3>2 DEF Side
  <2> QED
    BY <2>1 DEF Side
<1>3. q.bid = bid /\ q.ask = ask /\ q.mid = MidOf(bid, ask)
  BY DEF parse_orderbook
<1> HIDE DEF q, bid, ask
<1>4. q.mid # Missing
  BY DEF q
<1>5. Quote(q)
  BY <1>1, <1>2, <1>3, <1>4, QuoteOfSides
<1> QED
  BY <1>5 DEF q

LEMMA QuotesTypedKept == ASSUME KTypes, KNext PROVE QuotesTyped'
<1>1. CASE PollBook
  <2> DEFINE book == venue[Ticker]
             quote == IF book = Malformed THEN [mid |-> Missing] ELSE parse_orderbook(book.yes, book.no)
  <2>1. quotes' = Stored(Ticker, quote)
    BY <1>1 DEF PollBook
  <2>2. Ticker \in Tickers
    BY <1>1, TickerInHand DEF PollBook, KTypes, PollTypes
  <2>3. CASE quote.mid = Missing
    BY <2>1, <2>3 DEF Stored, KTypes, QuotesTyped
  <2>4. CASE quote.mid # Missing
    <3>1. quotes' = [quotes EXCEPT ![Ticker] = quote]
      BY <2>1, <2>4 DEF Stored
    <3>2. book \in Books \ {Malformed} /\ quote = parse_orderbook(book.yes, book.no)
      BY <2>2, <2>4 DEF KTypes
    <3>3. KalshiPrices(book.yes) /\ KalshiPrices(book.no)
      BY <3>2, SoundBook
    <3> HIDE DEF book, quote
    <3>4. Quote(quote)
      BY <2>4, <3>2, <3>3, BookIsQuote
    <3> QED
      BY <3>1, <3>4 DEF KTypes, QuotesTyped
  <2> QED
    BY <2>3, <2>4
<1>2. CASE ~PollBook
  <2>1. quotes' = quotes
    BY <1>2 DEF KNext, KPoll, PollStarts, PollMarket, PollEnds, PollFails, PollTickerFails,
         KStop, KExit, KCrash, KRestart, MapGames, LoadPairs, SkipPair, UpsertKalshiMarket,
         UpsertPair, JobEnds, JobFails, Delisted, VenueMoves
  <2> QED
    BY <2>1 DEF KTypes, QuotesTyped
<1> QED
  BY <1>1, <1>2

(* A bid is read as it is meant unless it is one of a cent.                *)
LEMMA BidIsMeant ==
  ASSUME NEW book \in Books \ {Malformed}, ~HasCentBid(book), NEW l \in book.yes \cup book.no
  PROVE  to_prob(l.price) = Meant(book, l)
<1>1. CASE book.unit = "cents"
  <2>1. PICK cents \in 0..100 : l.price = cents * Dollar
    BY <1>1, BooksAssumption
  <2>2. cents # 1
    BY <1>1, <2>1 DEF HasCentBid, Dollar
  <2> QED
    BY <1>1, <2>1, <2>2 DEF to_prob, Meant, Dollar
<1>2. CASE book.unit = "dollars"
  BY <1>2, BooksAssumption DEF to_prob, Meant, Dollar
<1> QED
  BY <1>1, <1>2, BooksAssumption

LEMMA BookIsMeant ==
  ASSUME NEW book \in Books \ {Malformed}, ~HasCentBid(book)
  PROVE  Means(parse_orderbook(book.yes, book.no), book)
<1>1. \A levels \in {book.yes, book.no} : BestOf(levels) = BestMeant(book, levels)
  <2>1. SUFFICES ASSUME NEW levels \in {book.yes, book.no}
                 PROVE  BestOf(levels) = BestMeant(book, levels)
    OBVIOUS
  <2>2. \A l \in levels : to_prob(l.price) = Meant(book, l)
    BY BidIsMeant
  <2>3. {to_prob(l.price) : l \in levels} = {Meant(book, l) : l \in levels}
    BY <2>2
  <2> QED
    BY <2>3 DEF BestOf, BestMeant
<1> DEFINE q == parse_orderbook(book.yes, book.no)
<1>2. /\ q.bid = IF book.yes = {} THEN Missing ELSE BestOf(book.yes)
      /\ q.ask = IF book.no = {} THEN Missing ELSE Dollar - BestOf(book.no)
  BY DEF parse_orderbook
<1> HIDE DEF q
<1>3. Means(q, book)
  BY <1>1, <1>2 DEF Means
<1> QED
  BY <1>3 DEF q

LEMMA StoredAsMeant ==
  ASSUME KTypes, KNext, NEW t \in Tickers, quotes'[t] # quotes[t]
  PROVE  HasCentBid(venue[t]) \/ Means(quotes'[t], venue[t])
<1>1. PollBook
  BY DEF KNext, KPoll, PollStarts, PollMarket, PollEnds, PollFails, PollTickerFails,
         KStop, KExit, KCrash, KRestart, MapGames, LoadPairs, SkipPair, UpsertKalshiMarket,
         UpsertPair, JobEnds, JobFails, Delisted, VenueMoves
<1> DEFINE book == venue[Ticker]
           quote == IF book = Malformed THEN [mid |-> Missing] ELSE parse_orderbook(book.yes, book.no)
<1>2. quotes' = Stored(Ticker, quote)
  BY <1>1 DEF PollBook
<1>3. Ticker \in Tickers
  BY <1>1, TickerInHand DEF PollBook, KTypes, PollTypes
<1>4. quote.mid # Missing /\ quotes' = [quotes EXCEPT ![Ticker] = quote]
  BY <1>2 DEF Stored
<1>5. book \in Books \ {Malformed} /\ quote = parse_orderbook(book.yes, book.no)
  BY <1>3, <1>4 DEF KTypes
<1> HIDE DEF quote
<1>6. t = Ticker /\ quotes'[t] = quote
  BY <1>3, <1>4 DEF KTypes, QuotesTyped
<1> QED
  BY <1>5, <1>6, BookIsMeant

LEMMA VenueTypesKept ==
  ASSUME KTypes, KNext
  PROVE  /\ venue' \in [Tickers -> Books] /\ open' \subseteq Tickers
         /\ kproc' \in {"up", "stopping", "down"}
<1>1. CASE \E t \in Tickers, book \in Books : VenueMoves(t, book)
  BY <1>1 DEF VenueMoves, KTypes
<1>2. CASE \E t \in Tickers : Delisted(t)
  BY <1>2 DEF Delisted, KTypes
<1>3. CASE KStop \/ KExit \/ KCrash \/ KRestart
  BY <1>3 DEF KStop, KExit, KCrash, KRestart, KTypes
<1>4. CASE \/ KPoll \/ PollFails \/ PollTickerFails \/ MapGames \/ LoadPairs \/ SkipPair
           \/ UpsertKalshiMarket \/ UpsertPair \/ JobEnds \/ JobFails
  <2>1. UNCHANGED <<venue, open, kproc>>
    BY <1>4 DEF KPoll, PollStarts, PollMarket, PollBook, PollEnds, PollFails, PollTickerFails,
         MapGames, LoadPairs, SkipPair, UpsertKalshiMarket, UpsertPair, JobEnds, JobFails
  <2> QED
    BY <2>1 DEF KTypes
<1> QED
  BY <1>1, <1>2, <1>3, <1>4 DEF KNext

LEMMA MarketTypesKept == ASSUME KTypes, KNext PROVE kmarkets' \subseteq Tickers
<1>1. CASE UpsertKalshiMarket
  <2>1. Head(job.left) \in SoundPairs
    BY <1>1 DEF UpsertKalshiMarket, KTypes, JobTypes
  <2>2. Head(job.left).ticker \in Tickers
    BY <2>1, SoundPairIsTyped
  <2> QED
    BY <1>1, <2>2 DEF UpsertKalshiMarket, KTypes
<1>2. CASE PollMarket
  <2>1. Ticker \in Tickers
    BY <1>2, TickerInHand DEF PollMarket, KTypes
  <2> QED
    BY <1>2, <2>1 DEF PollMarket, KTypes
<1>3. CASE ~UpsertKalshiMarket /\ ~PollMarket
  <2>1. kmarkets' = kmarkets
    BY <1>3 DEF KNext, KPoll, PollStarts, PollBook, PollEnds, PollFails, PollTickerFails,
         KStop, KExit, KCrash, KRestart, MapGames, LoadPairs, SkipPair, UpsertPair,
         JobEnds, JobFails, Delisted, VenueMoves
  <2> QED
    BY <2>1 DEF KTypes
<1> QED
  BY <1>1, <1>2, <1>3

LEMMA KTypesKept == ASSUME KTypes, KInv, KNext PROVE KTypes'
BY JobTypesKept, PollTypesKept, QuotesTypedKept, VenueTypesKept, MarketTypesKept DEF KTypes

LEMMA KTypesUntouched == ASSUME KTypes, UNCHANGED kvars PROVE KTypes'
BY DEF kvars, KTypes, PairsSound, JobTypes, PollTypes, QuotesTyped

LEMMA KTypesMean == KTypes => KTypeOK
<1> SUFFICES ASSUME KTypes PROVE KTypeOK
  OBVIOUS
<1>1. ASSUME NEW id \in DOMAIN pairs
      PROVE  pairs[id].market \in DOMAIN PolyMarkets
             /\ pairs[id].ticker \in Tickers /\ pairs[id].active \in BOOLEAN
  <2>1. PICK p \in SoundPairs : p.market \in DOMAIN PolyMarkets /\ pairs[id] = Row(p)
    BY DEF KTypes, PairsSound
  <2>2. p.ticker \in Tickers /\ p.active \in BOOLEAN
    BY SoundPairIsTyped
  <2> QED
    BY <2>1, <2>2 DEF Row
<1> QED
  BY <1>1 DEF KTypes, KTypeOK, JobTypes, PollTypes, QuotesTyped

LEMMA SoundPairsJoinOneGame ==
  ASSUME ReviewConfidence > 35, PairsSound PROVE PairsSameGame
<1> SUFFICES ASSUME NEW id \in DOMAIN pairs, ~FromFile(id)
             PROVE  LET poly == PolyMarkets[pairs[id].market]
                        kalshi == Listing(pairs[id].ticker)
                    IN  /\ Sides(poly.teams) = Sides(kalshi.teams)
                        /\ kalshi.kickoff # NoMatch => HoursBetween(poly.date, kalshi.kickoff) <= 36
  BY DEF PairsSameGame
<1>1. PICK p \in SoundPairs : p.id = id /\ pairs[id] = Row(p)
  BY DEF PairsSound
<1>2. p \in MappedPairs
  BY <1>1 DEF SoundPairs, FromFile
<1>3. pairs[id].market = p.market /\ pairs[id].ticker = p.ticker
  BY <1>1 DEF Row
<1> QED
  BY <1>2, <1>3, MatchJoinsOneGame

-----------------------------------------------------------------------------
(* Types on the side of the enrichment: a tick holds what the board showed.*)
TickTypes ==
  /\ gtick.pc \in {"off", "wait", "fetch", "next", "map", "state", "swing", "lineup"}
  /\ gtick.left \subseteq GameMarkets /\ gtick.seen \subseteq Games
  /\ gtick.game \in Games \cup {NoGame} /\ gtick.market \in GameMarkets \cup {NoGame}
  /\ gtick.games \in [Games -> Entries \cup {NoGame}]

GTypes ==
  /\ board \in [Games -> Entries] /\ gproc \in {"up", "stopping", "down"} /\ TickTypes
  /\ game_map \in [GameMarkets -> Games \cup {NoGame}]
  /\ latest \in [Games -> Scores] /\ lineups \subseteq Rosters

LEMMA RestingTypes ==
  ASSUME NEW pc \in {"off", "wait", "fetch", "next"}, gtick = Resting(pc) PROVE TickTypes
BY DEF Resting, TickTypes

LEMMA GInitTypes == GInit => GTypes
<1> SUFFICES ASSUME GInit PROVE GTypes
  OBVIOUS
<1>1. TickTypes
  BY RestingTypes DEF GInit
<1> QED
  BY <1>1, LiveGamesAssumption DEF GInit, GTypes, Scores

LEMMA NextRests ==
  ASSUME NEW pc \in {"off", "wait", "fetch", "next"}, gtick' = Resting(pc) PROVE TickTypes'
BY DEF Resting, TickTypes

LEMMA TickTypesKept == ASSUME GTypes, GInv, GNext PROVE TickTypes'
<1> DEFINE Fields == {"pc", "games", "left", "market", "game", "prev", "seen"}
<1>1. DOMAIN gtick = Fields /\ TickTypes
  BY DEF GInv, GShape, GTypes
<1>2. CASE FetchGames
  <2>1. CASE gtick' = Resting("wait")
    BY <2>1, NextRests
  <2>2. CASE gtick' = [Resting("next") EXCEPT !.games = board, !.left = GameMarkets]
    <3>1. /\ gtick'.pc = "next" /\ gtick'.left = GameMarkets /\ gtick'.seen = {}
          /\ gtick'.game = NoGame /\ gtick'.market = NoGame /\ gtick'.games = board
      BY <2>2 DEF Resting
    <3> QED
      BY <3>1 DEF GTypes, TickTypes
  <2> QED
    BY <1>2, <2>1, <2>2 DEF FetchGames
<1>3. CASE \E m \in GameMarkets : NextMarket(m)
  <2>1. PICK m \in GameMarkets : NextMarket(m)
    BY <1>3
  <2> DEFINE g == match_market_to_game(m, gtick.games)
  <2>2. CASE g = NoGame
    <3>1. gtick' = [gtick EXCEPT !.left = @ \ {m}]
      BY <2>1, <2>2 DEF NextMarket
    <3> QED
      BY <1>1, <3>1 DEF TickTypes
  <2>3. CASE g # NoGame
    <3>1. g \in Games
      BY <2>3, MatchedGame
    <3>2. gtick' = [gtick EXCEPT !.pc = "map", !.left = @ \ {m}, !.market = m,
                                 !.game = g, !.prev = PrevScore(g)]
      BY <2>1, <2>3 DEF NextMarket
    <3> HIDE DEF g
    <3>3. /\ gtick'.pc = "map" /\ gtick'.left = gtick.left \ {m} /\ gtick'.market = m
          /\ gtick'.game = g /\ gtick'.games = gtick.games /\ gtick'.seen = gtick.seen
      BY <1>1, <3>2
    <3> QED
      BY <1>1, <3>1, <3>3 DEF TickTypes
  <2> QED
    BY <2>2, <2>3
<1>4. CASE UpsertMap \/ InsertState \/ InsertSwing
  <2>1. PICK pc \in {"state", "swing", "lineup"} : gtick' = [gtick EXCEPT !.pc = pc]
    BY <1>4 DEF UpsertMap, InsertState, InsertSwing
  <2> QED
    BY <1>1, <2>1 DEF TickTypes
<1>5. CASE Lineup
  <2>1. gtick.game \in Games
    BY <1>5 DEF Lineup, GInv, GShape
  <2>2. gtick' = [gtick EXCEPT !.pc = "next", !.seen = @ \cup {gtick.game}]
    BY <1>5 DEF Lineup
  <2> QED
    BY <1>1, <2>1, <2>2 DEF TickTypes
<1>6. CASE TickDone \/ TickFails \/ StartTick \/ GExit \/ GCrash \/ GRestart
  <2>1. \E pc \in {"off", "wait", "fetch"} : gtick' = Resting(pc)
    BY <1>6 DEF TickDone, TickFails, StartTick, GExit, GCrash, GRestart
  <2> QED
    BY <2>1, NextRests
<1>7. CASE GStop \/ \E g \in Games, entry \in BoardMoves : ScoreMoves(g, entry)
  <2>1. gtick' = gtick
    BY <1>7 DEF GStop, ScoreMoves
  <2> QED
    BY <1>1, <2>1 DEF TickTypes
<1> QED
  BY <1>2, <1>3, <1>4, <1>5, <1>6, <1>7 DEF GNext, GStep

LEMMA NowIsScore == ASSUME GTypes, gtick.game \in Games PROVE Now \in Scores
<1>1. gtick.games[gtick.game] \in Entries \cup {NoGame}
  BY DEF GTypes, TickTypes
<1>2. CASE gtick.games[gtick.game] = NoGame
  BY <1>2 DEF Now, Parsed, Scores
<1>3. CASE gtick.games[gtick.game] \in Entries
  BY <1>3 DEF Now, Scores
<1> QED
  BY <1>1, <1>2, <1>3

LEMMA GTablesKept ==
  ASSUME GTypes, GInv, GNext
  PROVE  /\ board' \in [Games -> Entries] /\ gproc' \in {"up", "stopping", "down"}
         /\ game_map' \in [GameMarkets -> Games \cup {NoGame}]
         /\ latest' \in [Games -> Scores] /\ lineups' \subseteq Rosters
<1>1. CASE UpsertMap
  <2>1. gtick.game \in Games /\ UNCHANGED <<board, gproc, latest, lineups>>
        /\ game_map' = [game_map EXCEPT ![gtick.market] = gtick.game]
    BY <1>1 DEF UpsertMap, GInv, GShape
  <2> QED
    BY <2>1 DEF GTypes
<1>2. CASE InsertState
  <2>1. gtick.game \in Games /\ UNCHANGED <<board, gproc, game_map, lineups>>
        /\ latest' = [latest EXCEPT ![gtick.game] = Now]
    BY <1>2 DEF InsertState, GInv, GShape
  <2>2. Now \in Scores
    BY <2>1, NowIsScore
  <2> QED
    BY <2>1, <2>2 DEF GTypes
<1>3. CASE Lineup
  <2>1. UNCHANGED <<board, gproc, game_map, latest>>
        /\ lineups' \in {lineups, IF gtick.game \in Rosters \ gtick.seen
                                  THEN lineups \cup {gtick.game} ELSE lineups}
    BY <1>3 DEF Lineup
  <2> QED
    BY <2>1 DEF GTypes
<1>4. CASE GStop \/ GExit \/ GCrash \/ GRestart
  BY <1>4 DEF GStop, GExit, GCrash, GRestart, GTypes
<1>5. CASE \E g \in Games, entry \in BoardMoves : ScoreMoves(g, entry)
  <2>1. PICK g \in Games, entry \in BoardMoves :
          board' = [board EXCEPT ![g] = entry] /\ UNCHANGED <<gproc, game_map, latest, lineups>>
    BY <1>5 DEF ScoreMoves
  <2>2. entry \in Entries
    BY DEF Entries
  <2> QED
    BY <2>1, <2>2 DEF GTypes
<1>6. CASE \/ FetchGames \/ InsertSwing \/ TickDone \/ StartTick \/ TickFails
           \/ \E m \in GameMarkets : NextMarket(m)
  <2>1. UNCHANGED <<board, gproc, game_map, latest, lineups>>
    BY <1>6 DEF FetchGames, InsertSwing, TickDone, StartTick, TickFails, NextMarket
  <2> QED
    BY <2>1 DEF GTypes
<1> QED
  BY <1>1, <1>2, <1>3, <1>4, <1>5, <1>6 DEF GNext, GStep

LEMMA GTypesKept == ASSUME GTypes, GInv, GNext PROVE GTypes'
BY TickTypesKept, GTablesKept DEF GTypes

LEMMA GTypesUntouched == ASSUME GTypes, UNCHANGED gvars PROVE GTypes'
BY DEF gvars, GTypes, TickTypes

LEMMA GTypesMean == ASSUME GTypes, GInv, failures \in 0..MaxEvents PROVE GTypeOK
BY DEF GTypes, TickTypes, GInv, GShape, GTypeOK

-----------------------------------------------------------------------------
(* Every failure is one of the disturbances.                               *)
Counted == events \in Nat /\ events <= MaxEvents /\ failures <= events

LEMMA CountedKept == ASSUME Counted, GInv, [Next]_vars PROVE Counted'
<1>1. MaxEvents \in Nat /\ failures \in Nat
  BY FeedsAssumption DEF GInv, GShape
<1>2. CASE Enrichment(GNext)
  <2>1. \/ UNCHANGED <<events, failures>>
        \/ Event /\ UNCHANGED failures
        \/ Event /\ failures' = failures + 1
    BY <1>2 DEF Enrichment, GNext, GStep, FetchGames, NextMarket, UpsertMap, InsertState,
         InsertSwing, Lineup, TickDone, TickFails, StartTick, GStop, GExit, GCrash, GRestart,
         ScoreMoves
  <2> QED
    BY <1>1, <2>1 DEF Counted, Event
<1>3. CASE OfKalshi(KNext)
  <2>1. events' = events \/ Event
    BY <1>3 DEF OfKalshi, KNext, KPoll, PollStarts, PollMarket, PollBook, PollEnds, PollFails,
         PollTickerFails, KStop, KExit, KCrash, KRestart, MapGames, LoadPairs,
         SkipPair, UpsertKalshiMarket, UpsertPair, JobEnds, JobFails, Delisted, VenueMoves
  <2>2. failures' = failures
    BY <1>3 DEF OfKalshi, gvars
  <2> QED
    BY <1>1, <2>1, <2>2 DEF Counted, Event
<1>4. CASE UNCHANGED vars
  BY <1>4 DEF vars, gvars, Counted
<1> QED
  BY <1>2, <1>3, <1>4 DEF Next

TypeInv == GTypes /\ KTypes /\ Counted

LEMMA TypeInvMeans == ASSUME TypeInv, GInv PROVE TypeOK
<1>1. failures \in 0..MaxEvents /\ events \in 0..MaxEvents
  BY FeedsAssumption DEF TypeInv, Counted, GInv, GShape
<1> QED
  BY <1>1, GTypesMean, KTypesMean DEF TypeInv, TypeOK

LEMMA InitTypeInv == Init => TypeInv
<1> SUFFICES ASSUME Init PROVE TypeInv
  OBVIOUS
<1>1. Counted
  BY FeedsAssumption DEF Init, GInit, Counted
<1> QED
  BY <1>1, GInitTypes, KInitTypes DEF Init, TypeInv

LEMMA TypeInvKept == ASSUME TypeInv, IInv, [Next]_vars PROVE TypeInv'
<1>1. CASE Enrichment(GNext)
  BY <1>1, GTypesKept, KTypesUntouched, CountedKept DEF TypeInv, IInv, Enrichment
<1>2. CASE OfKalshi(KNext)
  BY <1>2, KTypesKept, GTypesUntouched, CountedKept DEF TypeInv, IInv, OfKalshi
<1>3. CASE UNCHANGED vars
  BY <1>3, GTypesUntouched, KTypesUntouched, CountedKept DEF TypeInv, IInv, vars
<1> QED
  BY <1>1, <1>2, <1>3 DEF Next

(* Both sides stay within their types, and each stored pair is one of the  *)
(* file or of the mapper (the tables that enrichment and Kalshi write).    *)
THEOREM TypeInvariant == Spec => []TypeInv
BY InitTypeInv, TypeInvKept, InductiveInvariant, PTL DEF Spec

THEOREM FeedsTyped == Spec => []TypeOK
<1>1. IInv /\ TypeInv => TypeOK
  BY TypeInvMeans DEF IInv
<1> QED
  BY <1>1, InductiveInvariant, TypeInvariant, PTL

(* Bids in dollars, and bids in cents of more than one cent, are stored as *)
(* Kalshi means them, for every book that it can send (parse_orderbook).   *)
THEOREM QuotesMeantFromTwoCents == Spec => QuotesAreMeantFromTwoCents
<1>1. ASSUME TypeInv, [Next]_vars, NEW t \in Tickers, quotes'[t] # quotes[t]
      PROVE  HasCentBid(venue[t]) \/ Means(quotes'[t], venue[t])
  <2>1. KNext
    BY <1>1 DEF Next, Enrichment, OfKalshi, vars, kvars
  <2> QED
    BY <1>1, <2>1, StoredAsMeant DEF TypeInv
<1>2. TypeInv /\ [Next]_vars =>
        [\A t \in Tickers : quotes'[t] # quotes[t] =>
           HasCentBid(venue[t]) \/ Means(quotes'[t], venue[t])]_quotes
  BY <1>1
<1> QED
  BY <1>2, TypeInvariant, PTL DEF Spec, QuotesAreMeantFromTwoCents

(* With a threshold that the rest of the score does not reach, a pair that *)
(* the mapper made joins the same two teams and the same night, however    *)
(* the listings are ordered and cut (score_match, match_wc_game_pairs).    *)
THEOREM PairsJoinOneGame == ASSUME ReviewConfidence > 35 PROVE Spec => []PairsSameGame
<1>1. TypeInv => PairsSameGame
  BY SoundPairsJoinOneGame DEF TypeInv, KTypes
<1> QED
  BY <1>1, TypeInvariant, PTL
=============================================================================
