# TLA+ models of PloyAgent

PloyAgent watches prediction markets, estimates fair values, recommends trades to
people and trades on paper. This directory holds TLA+ modules that model the parts of
it in which state, failures and interleavings decide correctness, the TLC
configurations that check them, and TLAPS proofs of their main properties. Paths below
are relative to `src/src/ploy_agent/` unless they start with `docs/` or `README`.

Contents: [inventory](#1-the-system) · [modules](#2-modules) ·
[runs](#3-what-tlc-checks) · [proofs](#4-what-is-proved) ·
[findings](#5-where-code-and-documentation-disagree) ·
[limits](#6-what-is-not-modelled) · [plan](#7-plan)

## 1. The system

Every part is an asyncio process of its own, started by `docker-compose.yml` and
restarted when it dies. The processes share nothing but the database; an `await` of a
database or HTTP call is where one process can be overtaken by another, or die.

| Component | State | Operations | Hard behaviour | What makes it correct |
|---|---|---|---|---|
| Ingestion (`ingestion/`) | `markets`, `prices`, order books in memory, WebSocket subscriptions | discover markets, apply book changes, snapshot every 30 s, resubscribe every 180 s | three tasks and a session over one pool; a task that dies is not restarted; two tokens of one market | prices follow the book; every open market is eventually subscribed; no task dies silently |
| Kalshi (`kalshi/`) | `kalshi_markets`, `kalshi_prices`, `cross_venue_pairs` | poll quotes of paired tickers, pair markets, load pairs from a file | two transactions per pair; listings cut short; order of pairing; one bad book in a round | a pair refers to a row and joins the same game and side; quotes keep up |
| Enrichment (`enrichment/`) | `market_game_map`, `game_state`, `game_events`, `game_lineups` | poll scoreboards, one transaction per write | a tick that breaks off between score and event; several markets of one game | one event per jump of the score; scores keep up |
| Reasoning (`reasoning/`, `strategies/`) | `fair_values`, last seen mids, resolution cache | per market: trigger, gate, run each strategy | eight evaluations at once; failed evaluations; strategies that read what others wrote | an unsafe market is never evaluated; a move is eventually evaluated |
| Ranking (`notifier/rank.py`) | none | `top_picks` | old fair values | picks pass the gates |
| Notifier (`notifier/__main__.py`, `repo.py`) | `recommendations` | tick: rank, deduplicate, insert, refresh the feed; resolve P&L | crashes between two statements, people pressing buttons meanwhile, rows resolved while still ranked | one unresolved row per market and strategy; results are final and at the right price |
| Slack and Telegram (`notifier/slack*.py`, `telegram.py`) | messages | post, overwrite, buttons | lost answers, late updates | one feed message; what is shown is what is recorded |
| Paper trading (`sim/forward.py`, `portfolio.py`, `repo.py`) | positions in memory, `sim_trades`, `sim_runs` | open, close, adopt, shut down | memory and table written in separate steps; restarts; lost answers | memory and table agree; every trade is closed once |
| Replay and reports (`sim/replay.py`, `metrics.py`, `tracker.py`, `backtest/`) | `sim_trades` of a replay | replay history, summarise | shares `sim_trades` with the live runner | a replay does not disturb live rows |
| Threshold policies (`common/adaptive_edge.py`, `strategies/auto_disable.py`, `common/kelly.py`, ...) | none | pure functions of resolved rows | boundaries | continuity and bounds |
| Web (`web/app.py`, `dashboard/`) | pool connections of event streams | read-only queries | pool exhaustion | a stream releases its connection |
| Configuration, logging, pool, migrations (`common/`, `db/`) | connection pool | - | - | - |

They interact through tables only:

    ingestion --prices, markets--> reasoning --fair_values--> top_picks --+--> notifier --> recommendations
       kalshi --kalshi_prices, cross_venue_pairs--> |                     +--> sim forward --> sim_trades
       enrichment --game_state, game_events-------> |
    people --buttons--> slack_events --> recommendations <--P&L-- notifier <--prices, markets-- ingestion

## 2. Modules

| Module | Models | State and actions |
|---|---|---|
| `BookMath` | `ingestion/book_math.py`, `LocalBook`, Kalshi's order book | operators only; prices in cents, mids in half cents; Kalshi's in ten thousandths of a dollar |
| `Ingestion` | `ingestion/__main__.py`, `ws_market.py`, `links.py`, `repo.py` | see below |
| `StrategyRules` | `strategies/*.py`, `common/confidence.py`, `common/cross_venue.py` | operators only; one to the unit is 10000 |
| `Reasoning` | `reasoning/__main__.py`, `resolution.py`, `strategies/auto_disable.py` | see below |
| `Disturbances` | nothing: the bounded count of what the outside does | `events` |
| `LiveGames` | `enrichment/__main__.py` and what it calls | see below |
| `CrossVenue` | `kalshi/__main__.py`, `map_wc_games.py`, `wc_game_mapper.py`, `pairs.py` | see below |
| `Feeds` | an installation with one or both of the last two (`docker-compose.yml`) | composition of `LiveGames` and `CrossVenue` |
| `IngestionProofs`, `IngestionFeedProofs`, `ReasoningProofs`, `FeedsProofs` | theorems about these modules; `IngestionProofs` has the links, `IngestionFeedProofs` the session and its books | - |
| `MinMaxProofs` | theorems about the least and the greatest element of a set of numbers, which these proofs use | - |
| `MCIngestion`, `MCReasoning`, `MCFeeds` | their instances for TLC | - |
| `SignalRules` | `common/pnl.py`, `sim/rules.py`, gates of `common/scoring.py` | operators only; prices, edges and probabilities are integers in cents |
| `TradeLedger` | nothing: the abstract specification of a table of trades | `trades`; `Open`, `Close` |
| `SimForward` | `sim/forward.py`, `sim/portfolio.py`, writes of `sim/repo.py` | see below |
| `SimForwardProofs` | theorems about `SimForward` | - |
| `MCSimForward` | instances of `SimForward` for TLC | - |
| `Recommendations` | `notifier/__main__.py`, `notifier/repo.py`, the feed of `slack.py`, button handlers of `slack_events.py` | see below |
| `RecommendationsProofs` | theorems about `Recommendations` | - |
| `MCRecommendations` | instances of `Recommendations` for TLC | - |

`SimForward` and `Recommendations` both implement `TradeLedger`, each through a
refinement mapping at the end of the module. `SignalRules` is extended by both.
`Ingestion` and `CrossVenue` extend `BookMath`, `Reasoning` extends `StrategyRules`.

Conventions. A variable named like a table is the table; rows are functions over `1..Max`
with `absent` for rows not yet inserted, numbered by the table's sequence. A definition
named like a function of the code (`try_enter`, `compute_pnl_cents`) is that function.
A definition whose comment says *mutant* is a wrong variant of the definition after it;
it is not part of any specification and serves to show that a property can fail.

### SimForward

`pc` is the place in `run_forward`:

    down --CreateRun--> load --LoadOpen--> idle --BeginTick--> rank --ReadPicks--> item
    item --SkipSettled--> item            item --EnterOrHold--> save
    item --CloseSettled, CloseBySignal--> close --WriteClose--> save
    save --WriteOpen, NothingToSave--> item        item --EndTick--> idle
    idle --BeginShutdown--> shutdown --BulkClose*, FinishRun--> down

* Memory (`open`, `lastEntry`: `open_by_key`, `last_entry_at` of all portfolios) and
  the tables (`rows`, `runs`) are separate variables. Code between two awaits is one
  action: `process_signal` changes memory and leaves its closed trade in `closes`, and
  `WriteClose` and `WriteOpen` are the calls that bring the table up to date.
* The id 0 in a position stands for `trade_id is None`.
* A signal carries what the code computes from it: whether it lies within the horizon
  (`passes_sim_resolution_horizon`) and whether its edge persisted (`edge_persistence_ok`).
* `OutcomesUnread`, `CallFails`, `CloseAnswerLost`, `OpenAnswerLost` are database errors
  inside the tick's handler: the tick is given up, memory stays. The last two are
  statements that took effect although the call raised. Errors outside the handler end
  the process and are covered by `Crash`, which loses memory and may come at any time.
* A tick takes its time when it begins (`BeginTick`), before the outcomes and the picks are read.
* `LoadOpen` chooses any of several open rows with one key: the query has no ORDER BY.

### Recommendations

`pc` is the place in the notifier's loop:

    idle --Rank--> dedupe --Dedupe--> refs --ReadRefs--> insert (--Insert--> entry --SetEntry--> insert)*
    insert --Inserted--> post --PostFeed--> link --Link*, AllLinked--> telegram --PostChat*, EndTick--> resolve
    idle --Rank--> clear --ClearFeed--> resolve        dedupe --Dedupe--> resolve
    resolve --ReadDue--> settle --Settle*, Rest--> idle

* People are actions of their own (`PressInFeed`, `PressInChat`): any button that is
  shown, at any time, any decision. The Slack handler keeps the blocks of the message
  as it was when the button was pressed and writes them back later (`Acknowledge`).
* `recs` holds the columns that decide anything: status, source (market and strategy),
  payload edge and price, entry price, whether `human_notes` is set, outcome, P&L and the
  feed message. The feed is a set of entries per message; the layout is left out.
* The ranking score is not computed: `BestOf` lets any n of the candidates be the best.
  The alert threshold is any member of `AlertEdges` (what `adaptive_min_edge` returns); with
  `AlertMore` the thresholds of depth and score, which are not modelled, may drop any pick.
* `ChatRefused` is a message that Telegram refuses: the row gets none, and the loop goes on.
* `Settle` joins the query of the last price and the UPDATE of the row; what comes
  between the list of rows and the row's turn does interleave.

### Ingestion

Three tasks of one process and a session. `disc` is discovery, `snap` the interval snapshot, `sup` the
supervisor of the WebSocket session `ws`, which reads `inbox` into `local`:

    disc: fetch --Discover--> upsert --Upsert*, DeleteLinks--> insert --InsertLink*, Discovered--> wait --Discover--> ...
    snap: wait --SnapshotQuery--> loop (--FetchBook, SnapshotWrite)* --SnapshotRoundEnds--> wait
    sup:  load --LoadAssets--> session --EndSession--> closing --SessionEnded--> load     load --> sleep --> load
    ws:   connect --Connect--> read --HandleMessage*, SessionLeaves--> done     read --SessionFails, SessionClosed--> connect

* The first discovery runs before the tasks are started (`proc = "starting"`); its failure
  ends the process, a later one only its round; a stop may come meanwhile. A failure of the query of the snapshot task
  or of the supervisor ends that task for good (`dead`), as in the code.
* A `price_change` message of several changes is several elements of the inbox, and all but the
  first say `follows`: each is handled in a step of its own, with an await between two of
  them, but the stop flag is looked at before the first one only (`WithinMessage`).
* A change is handled in one step, at the moment its row is written: the local book belongs
  to the session alone. Writes that fail may have stored the book and not the price.
* The venue keeps a true order book of each token. It answers a subscription with the book of
  every token in any order, and sends a message for each change and each trade. The socket
  delivers in order; a lost connection loses what it still held.
* Timers may fire at any time: the actions of `disc`, `snap` and `sup` in `wait`, `sleep` and
  `session` have no other guard than the one the code looks at.

### Reasoning

`tick` is the loop of `_run`, `ev[m]` the evaluation of market m under the semaphore:

    tick:  disabled --ReadDisabled--> candidates --ReadCandidates--> kalshi --ReadKalshi--> evaluate --TickEnds--> wait --NextTick--> disabled
    ev[m]: idle --Begin--> gate --Gate--> context --ReadContext--> strategies (--RunStrategy, StrategyFails)* --Evaluated--> idle

* `world` holds the tables that other processes write: prices, statuses, criteria, books,
  quotes of Kalshi, games, results. `WorldMoves` may come between any two steps, so that an
  evaluation goes by the mid it began with, a depth of later and the tables of the moment.
* `rows` holds the fair values of the last five minutes, newest first. `RowExpires` takes the
  oldest; so consensus sees any suffix of time that the clock could leave.
* All evaluations go through one list of strategies, `active_strategies`, which auto-disable
  replaces in place: an evaluation has no copy, only the number of places it has passed (`turn`).
* `last_mid` and `last_eval` (as `due`: 60 s have passed) are memory and are lost in a crash;
  `market_resolution_cache` is a table and is not.
* `StrategyRules` computes in integers what the code computes in floats. Where a result is
  compared with a threshold the truncation is towards zero. `HomeWin` (the numerical model of
  a game) and `Liquidity` (a logarithm) are constants, as is the answer of the language model.

### LiveGames, CrossVenue and Feeds

    gtick: wait --StartTick--> fetch --FetchGames--> next (--NextMarket--> map --UpsertMap--> state --InsertState--> [swing --InsertSwing-->] lineup --Lineup--> next)* --TickDone--> wait
    poll:  wait --PollStarts--> meta (--PollMarket--> book --PollBook--> meta)* --PollEnds--> wait
    job:   off --MapGames, LoadPairs--> market (--UpsertKalshiMarket--> pair --UpsertPair--> market)* --JobEnds--> off

* Every write of these workers is a transaction of its own: a tick or a job may end, or its
  process die, between any two. The tables stay as they are.
* The jobs are started by hand (`python -m ...`), at any time. `MapGames` takes the markets in
  any order, as its query has none, and a listing that is cut short anywhere. `LoadPairs` is
  strict or not, and leaves out pairs whose market is not stored (`SkipPair`).
* A book of Kalshi is in dollars or in cents, and a raw price is the number that is sent.
  `to_prob` is `_to_prob_qty`, which guesses the unit from the size of the number; `Meant` is
  the oracle of the properties, which knows the unit. `parse_orderbook` is exact; in floats a
  level exactly one cent away from the best may fall on either side of the test of the depth
  (line 51). Nothing that is checked depends on the depth of a book at Kalshi.
* Names of teams are the ones the normalisation makes; how it makes them is left out. A row of
  Kalshi's listing says which name its subtitle gives (`named`) and which its ticker ends in
  (`suffix`, for ties too), which decides when the subtitle names neither team.
* `jumps` and `failures` are auxiliary variables: how often a stored score differed by the
  threshold from the one before, and how many ticks were broken off.
* Neither worker reads what the other writes. `Feeds` still composes them over one database,
  for installations of either and of both; the instance for TLC has one of each, and the
  proofs are for all.

## 3. What TLC checks

| Run | Instance | Checks |
|---|---|---|
| `sim_fault_free` | 1 profile, 1 market, five kinds of signal, 4 instants, 2 trades, 2 runs, no failed call; crashes | `IndInv` (types, control, numbering, `MemoryBacked`), `Covered`, `OneOpenRowPerKey`, `FinishedRunLeavesNothingOpen`, `CooldownWithinRun`, `ImplementsLedger` with exclusive keys |
| `sim_faulty` | 2 profiles with different thresholds, 1 market, 3 instants, 3 trades, 2 runs, 1 failed call; crashes | `MemoryBacked`, `LossBoundedByStake`, `ClosedIsFinal`, `NoEntryAfterSettled`, `ImplementsLedger`, `RunEnds` under `FairSpec` |
| `rec_results` | 1 market, 2 strategies, 3 rows, automatic approval, Telegram, 1 button, 1 failure | `IndInv`, `OneUnresolvedPerSource`, `UntouchedEntry`, `ImplementsLedger`, `SettledIsResolved` under `FairSpec` |
| `rec_feed` | 2 markets, 1 strategy, 2 rows, human approval, Slack, 2 buttons, 1 failure | `OneFeedMessage`, `FeedIsLinked` |
| `ingestion_feed` | 2 markets of one event, one with a NO token, one listed later; 2 moves, trades, any order of answers, inbox of 3, 2 disturbances | `TypeOK`, `LocalBookFollowsVenue`, `TickIsCurrent`, `LinksRestored` |
| `ingestion_live` | the same with one kind of move, inbox of 1 and 1 disturbance | `PricesReturnToYes`, `NewMarketsSubscribed` under `FairSpec` |
| `reasoning` | 2 markets of one event, 1 pair at Kalshi, 3 lists of strategies, 1 slot, 3 rows, 1 disturbance out of ten moves, failures, a crash and a stop | `TypeOK`, `PricedOnlyWhenSafe`, `ImbalanceOnlyAtEvenOdds`, `ListHoldsStill`, `ConsensusBacked`, `EveryPriceEvaluated` under `FairSpec` |
| `feeds` | enrichment with 1 game and 3 markets, or Kalshi with 4 tickers, 3 markets and a file of 2 pairs, books in cents, in dollars and malformed; 3 disturbances | `TypeOK`, `SwingPerJump`, `PairsRefer`, `PairsSameGame`, `QuotesAreMeantFromTwoCents`, `ScoreFollowsBoard`, `QuotesFollowKalshi` under `FairSpec` |
| `sim_duplicate_row`, `rec_duplicate_row`, `feeds_cent`, `feeds_outcome` | as small as shows it | one documented statement each, which is violated (section 5) |

What the properties are about:

* `MemoryBacked`: whatever fails, a saved position has an open row with its terms, and a
  pending close is the only one of its row. It is what makes `ClosedIsFinal` true although
  `close_trade` has no status guard.
* `Covered`: without failed calls no open row is ever out of the runner's sight while it
  runs, so every one is closed by a tick or the shutdown, those of crashed runs included.
* `UntouchedEntry`: a row nobody touched is resolved at its signal's price even if the
  notifier dies between the row's INSERT and the UPDATE of its entry price, thanks to the
  fallback in `_resolve_pnl`.
* `FeedIsLinked`: the row of every entry of the feed refers to that message, although
  handlers overwrite it late.
* `ImplementsLedger`: trades are opened once at the next number, closed once, and neither
  terms nor results change afterwards; with exclusive keys, one open trade per key.
* `LocalBookFollowsVenue`: the local book, with what the socket still holds applied to it, is
  the venue's, level by level. It is what a reconnect without a fresh `LocalBook`, or a level
  left after its size became zero, would break for the rest of the session.
* `TickIsCurrent`: when the session has read everything, the newest row of a market that it
  wrote has the mid its token quotes; only the interval snapshot may leave an older one.
* `LinksRestored`: links are deleted and inserted one by one without a transaction. Whatever a
  failed round left, the next that does not fail leaves them complete.
* `PricesReturnToYes`, `NewMarketsSubscribed`: the tokens of YES and NO write one row in turn,
  and the supervisor looks at the table every 180 s; both recover while their tasks live.
* `PricedOnlyWhenSafe`: the verdict is stored before it is used, and a later evaluation uses
  the stored one, also after a crash between the two.
* `ListHoldsStill`: the list that evaluations iterate over is replaced in place, and never
  under one of them, which would skip or repeat strategies; it rests on `gather` at the end of
  the tick. The mutant is a tick that does not wait.
* `ConsensusBacked`: rows of one strategy count once and the newest decides, so that a strategy
  that has changed its mind is not its own second witness; and the estimate lies between those
  of the strategies whose side is taken. The side is BUY when two say BUY, and SELL only when
  two say SELL and no two say BUY. That a split vote is decided at all, and that the edge may have
  the other sign than the votes, are findings of section 5.
* `ImbalanceOnlyAtEvenOdds`: with the least edge of eight cents that `.env.example` sets,
  `book_imbalance` writes a fair value only when the mid is exactly one half, and its edge is
  then exactly eight cents, for the estimate is held within eight cents of the mid and moves
  most at even odds. The instance has the books that move it most, all on one side: the test
  for an empty side looks at the JSON text of the side, which is never empty. The arithmetic
  of the module is exact; in floats `0.5 + 0.08 - 0.5` falls short of 0.08, so that of the two
  signals only the SELL is ever written.
* `EveryPriceEvaluated`: `last_mid` is set before the evaluation and follows every look, so a
  failed evaluation or a slow drift is not retried as a move. It is `last_eval` that brings the
  market back; the property says that it does.
* `SwingPerJump`: per game, the events are as many as the jumps of the stored score, up to one
  being written and those that a failure cut off. With several markets per game the score has
  to be read again for each market.
* `PairsRefer`: both jobs write the market before the pair that refers to it.
* `QuotesAreMeantFromTwoCents`: what is stored of a book is the bid and the ask that it means,
  in dollars with parts of a cent and in cents alike, unless a bid is of one cent
  (`QuotesAreMeant`, section 5).
* `PairsSameGame`: a pair of the mapper joins the same two teams, and the same day or the night
  after it, however the listings are ordered and cut.
* `ScoreFollowsBoard`, `QuotesFollowKalshi`: after failures and restarts the tables show the
  source again, the quotes in the meaning of Kalshi; a book that does not parse holds up no
  other ticker.

Bounds. Each is a constant named `Max...` and commented as a bound; the guards they are in
are the only ones that are not the code's. Two runs are enough for adoption after a crash
and after a proper end; two or three rows for a re-entry and for two rows of one key;
time has to pass the cooldown (1), the maximal hold (2) and the planned end of the run;
one failed call because each kind of failure shows its effect alone. One market is enough
where no property relates two; `rec_feed` has two because the feed joins them. The proofs
of section 4 do not depend on any of these bounds. `MaxEvents` counts what the outside does:
moves of the world, failures of calls, crashes and stops together. Two let a failure meet
a move, three a failure, a crash and a move; the actions of the workers are not counted. Three
messages in the inbox let a book, a change and a trade of one token wait for each other while
a snapshot or a lost connection overtakes them; one is enough for the liveness of `ingestion_live`. Three rows of the window hold two witnesses and the consensus. With one slot,
an evaluation begins while another market waits for it; what holds for more slots is proved.
`reasoning` has one disturbance, since each is followed by whole ticks and the tables keep its effect.
`ReadPicks` waits until every signal could still get a row, `OutOfRows` gives a tick up
when the table of the model is full: neither has a counterpart in the code.

Fairness. `SimForward!FairSpec` has weak fairness for the runner's next step (loading, tick,
shutdown) as one disjunction: the event loop resumes a coroutine whose call has returned,
and calls return or raise (connections have timeouts). Starting again, prices, the clock,
signals and failures are not fair. Failures are bounded, so a run is not kept from ending by
failing for ever, and a crash ends the run too. `Recommendations!FairSpec` has the same for
the notifier's loop. `SettledIsResolved` is checked with a limit that all due rows fit in;
the code's LIMIT 100 without ORDER BY would not give it with more than 100 rows that are
due and cannot be decided. `Ingestion!FairSpec`: each task takes its next step and its timers
fire; the connection is not refused every time (strong fairness, as lost connections take the
action away); subscribed tokens keep quoting, without which a session does not look at its
stop flag. `Reasoning!FairSpec`: the loop, each evaluation (its weak fairness is spelled out
with `Busy`, the condition under which a step of it is enabled), exits and restarts, and the
passing of 60 s. `Feeds!FairSpec`: the steps of each worker and its exits and restarts, which
`restart: unless-stopped` of `docker-compose.yml` gives; jobs, moves and failures are not fair.

Every property has a mutant in `PROJECT.json`: a plausible bug in a modelled definition that
TLC finds by that property.

## 4. What is proved

`SimForwardProofs` (for all constants satisfying `SimAssumption` and `GateAssumption`):

| Theorem | States |
|---|---|
| `InductiveInvariant` | `Spec => []IndInv` |
| `PositionsAreBacked`, `ResultsAreFinal` | `MemoryBacked`, `ClosedIsFinal` under all failures |
| `OpenRowsAreCovered` | `Covered` |
| `OneOpenRow`, `FinishedRunIsFlat` | `OneOpenRowPerKey`, `FinishedRunLeavesNothingOpen` when `MaxFaults = 0` |
| `SettledMarketsAreNotEntered`, `LossesAreBounded` | `NoEntryAfterSettled`, `LossBoundedByStake` |
| `CooldownIsKept` | `CooldownWithinRun`: while no call fails, rows of one key and run are the cooldown apart |
| `RunnerImplementsLedger` | `Spec => ImplementsLedger`: the refinement |

`IndInv` strengthens `MemoryBacked` by what `pc` says about the locals (`Control`) and by the
rows being numbered without gaps (`Numbered`): without `Numbered` an insert could reuse a
row, and without `Control` a close could be pending while its position is still in memory.
`ClosedIsFinal` follows because only rows of `closes` are closed and `MemoryBacked` says they
are open. `OneOpenRowPerKey` needs `Covered`: two open rows of one key would both have to be
the one position memory holds for the key; while the process is down or loading, nothing is
inserted. `LossBoundedByStake` needs that signals pass the price gate before they are
entered, so that entries and exits are prices. `CooldownInv` says, as long as no call has failed,
that memory has an entry as late as every row of the run (`EntriesRemembered`) and that a
position not yet stored is the cooldown apart from all of them (`EntriesApart`); a failure may
break it, for a lost answer leaves a row that memory takes for one never made.

`RecommendationsProofs` (for all constants satisfying `RecAssumption` and `GateAssumption`):

| Theorem | States |
|---|---|
| `InductiveInvariant` | `Spec => []IndInv` |
| `OneUnresolved` | `OneUnresolvedPerSource` under all failures and buttons |
| `UntouchedEntries` | `UntouchedEntry` under all failures and buttons |
| `FeedInvariant` | `Spec => []FeedInv` |
| `SingleFeedMessage`, `FeedStaysLinked` | `OneFeedMessage`, `FeedIsLinked`, whichever buttons are pressed between the steps of a tick |
| `NotifierImplementsLedger` | `Spec => ImplementsLedger`: the refinement, with one open row per source |

Here `IndInv` adds to the two properties that rows are numbered without gaps (`Numbered`), that
everything shown, linked or under resolution is a row (`RowsExist`), and what holds of the
locals between two awaits (`Control`): a pick in `todo` was looked up once and its source has no
unresolved row until it is inserted, and no row read by `_resolve_pnl` is resolved before its
turn. The first makes the insert keep `OneUnresolvedPerSource`; the second makes a resolution
a step that no other step has done before, so that it is a `Close` of the ledger. Both
hold only because the notifier is one process and buttons never touch an outcome. The
lemma `RowsChange` says that every step inserts one row, resolves one row, or leaves source,
terms, outcome and P&L of all rows alone; the invariants and the refinement follow from it.

`FeedInv` holds as long as nothing has failed, for a link that fails is never made up for. It says
that a tick which reaches the feed has something to show (`SomethingToShow`), that the one message
can be found again through a row or a row is about to be linked to it (`OneMessage`), and that
each row shown in a message, or in a copy that a handler will write back, refers to it or is
about to (`EntriesLinked`). Without the last clause the handlers that overwrite the message late
could bring back a row that refers to nothing.

`IngestionProofs` and `IngestionFeedProofs` (for all constants satisfying `IngestionAssumption` and
`VenueAssumption`: levels of the venue's books have prices in cents and positive sizes, and the
venue may answer a subscription to any finite set of tokens in some order):

| Theorem | States |
|---|---|
| `InductiveInvariant` | `Spec => []IInv`, the invariant of discovery |
| `LinksAreRestored` | `LinksRestored`, for every set of markets and events |
| `SessionInvariant` | `Spec => []SessionInv` |
| `IngestionTyped` | `TypeOK` |
| `LocalBooksFollow` | `LocalBookFollowsVenue` |
| `TicksAreCurrent` | `TickIsCurrent` |
| `CaughtUpBooks` | a session that has read all that its socket held has the venue's book of every token it subscribed |

* Links: while a round inserts, the links of the events with an open market are the pairs of
  open markets that are not left to insert (`Rebuilding`). Statuses do not change meanwhile, as
  only discovery writes them, and the round ends when nothing is left.
* Books: the local book with the inbox applied to it would be a fold over messages of which each
  overwrites some levels. The invariant `Levelled` says the same of each level: the last message
  in the inbox that speaks of it sets it to what the venue has there, and when none speaks of it,
  the local book has it already (`Follows`). A change at the venue appends the message that
  becomes the last, and reading takes the first, which is either overtaken or makes the level
  right. `Quoted` is the same statement of the newest row of prices. Both say nothing of a
  session that is not connected: a new one starts with empty books and one book message for each
  of its tokens.

`ReasoningProofs` (for all constants satisfying `StrategyRulesAssumption`, `ReasoningAssumption`
and `WorldAssumption`: a stored price is a probability, and at most `SnapshotLimit` books of a market are read):

| Theorem | States |
|---|---|
| `InductiveInvariant` | `Spec => []IInv` |
| `OnlySafeMarketsArePriced`, `ListIsReplacedBetweenTicks` | `PricedOnlyWhenSafe`, `ListHoldsStill` |
| `SlotsSuffice` | `SlotsRespected`: never more evaluations than slots |
| `ConsensusHasTwoBackers` | a consensus has two backers for BUY or two for SELL, for every window of rows |
| `ReasoningTyped` | `TypeOK` |
| `ImbalanceSpeaksAtEvenOdds` | `ImbalanceOnlyAtEvenOdds`, for every book, price and window |

* Reasoning: the three invariants need each other's shape only, and `Barrier`: between two ticks
  nothing is evaluated. Without it a tick could shorten `active` under a running evaluation.
  For `ConsensusHasTwoBackers` the rows of a market are sequences (`RowSeqs`); the newest rows that
  agree are then in bijection with the strategies that wrote them (`AgreeingBack`), so two rows
  are two strategies.
* Imbalance: the invariant `SoundInv` adds that prices in the tables and in the hands of
  evaluations are probabilities, which the bound rests on. It is arithmetic: the ratio of three
  books is at most one (`ImbalanceBound`), the elasticity p(1 - p) at most a quarter and only at
  even odds (`ElasticityBound`), so the shift is at most eight cents and less elsewhere (`ShiftBound`).

`FeedsProofs` (for all constants satisfying `LiveGamesAssumption`, `CrossVenueAssumption`,
`ListingAssumption`, `BooksAssumption` and `FeedsAssumption`: tables and files are finite, a ticker
names one market, a bid at Kalshi is of 0 to 100 whole cents when the book is in cents and from
nothing to a dollar when it is in dollars):

| Theorem | States |
|---|---|
| `InductiveInvariant` | `Spec => []IInv` |
| `SwingsAreCounted`, `PairsReferToRows` | `SwingPerJump`, `PairsRefer`, in every installation |
| `TypeInvariant` | `Spec => []TypeInv` |
| `FeedsTyped` | `TypeOK`: a stored price is from nothing to a dollar, whatever is sent |
| `QuotesMeantFromTwoCents` | `QuotesAreMeantFromTwoCents`, for every book |
| `PairsJoinOneGame` | `PairsSameGame`, if the review threshold is above 0.35 |
| `MapperTakesOnce` | one run of `match_wc_game_pairs` takes no market and no ticker twice |

* Feeds: between the read of the old score and the write of the new one nobody writes the score,
  and an event that is about to be written is not yet counted (`ScoreInHand`); a process that
  is down has no tick (`Stopped`). The pair in hand has its market (`PairInHand`), and no step
  removes one. A step of one side leaves the variables of the other alone.
* Pairs: `SoundPairs` are those of the file and those of two listings whose score reaches the
  review threshold. What a job has left and what is stored are such pairs (`JobTypes`,
  `PairsSound`); what the score says of the two games is `ScoreOfMatch`. The threshold is a
  hypothesis because nothing in the configuration bounds it: two games of the same teams whose
  dates do not match still score 0.35, so that a lower one would pair a game with its rematch.
* Quotes: a number above a dollar is one of cents, and a number of cents from two on is above a
  dollar (`StoredAsMeant`); only one cent and one dollar are the same number.
* The mapper is a fold over its rows. That its recursion defines a function (`FoldExists`) and what
  holds of every prefix (`FoldIsSound`) are proved by the least number of rows for which it fails.

`MinMaxProofs`: a set of naturals has a least element, a bounded one a greatest, and `Min` and `Max`
choose them. The first is derived from the well-foundedness of the order, and stands in for
induction in the proofs above.

Only model-checked is liveness (`RunEnds`, `SettledIsResolved`, `PricesReturnToYes`,
`NewMarketsSubscribed`, `EveryPriceEvaluated`, `ScoreFollowsBoard`, `QuotesFollowKalshi`), which
is out of the prover's reach. Every invariant and every safety property that a passing run checks
is also proved, except that the estimate of a consensus lies between those of its backers
(the second half of `ConsensusBacked`), which is a weighted mean over a set. What the sums over the levels of a book (`Depth`, the tallies behind a strategy's
signal) compute is taken as it is defined: no theorem is about their values.

## 5. Where code and documentation disagree

Shown by a run:

* `sim_duplicate_row`: `max_open_per_market` is stored and never read. One failed call lets a
  profile hold two open rows on one market.
* `rec_duplicate_row`: after a row is resolved by the 30 minute rule the old fair value is
  recommended and resolved again, tick after tick, contrary to `notifier/repo.py:156`.
* `feeds_outcome`: teams are compared as a set and outcomes by position. When Kalshi lists the
  teams of a game in the opposite order, "Will Argentina win" is paired with the other team's
  ticker, contrary to what `tests/test_wc_game_mapper.py:102` expects of it.
* `feeds_cent`: a bid of one cent, sent in cents, is taken for a dollar (`kalshi/client.py:27`
  divides only what is above 1.0), so that a lone NO bid of one cent is stored as a YES ask and
  a mid of 0.0; `tests/test_kalshi_ingest.py:17` has the ask as (100 - bid) / 100.

Met while modelling, with the lines in `PROJECT.json`:

* Positions are only looked at when their market has a pick, and closed markets have none: a
  position on a settled market is closed at shutdown, as `forward_shutdown`.
* "else last finished" (`sim/repo.py:221`) is the first finished.
* A re-alert whose side has changed is shown under the row of the other side.
* `consensus` takes BUY as soon as two strategies say BUY (`consensus.py:73`): a split vote gets a
  signal where line 67 says "all must point the same direction", and it is not the majority of
  line 72, for two BUY win against three SELL.
* It compares the direction of the strategies with each other, not with its own signal: once the
  price has passed their estimate, their SELL becomes its BUY. Its mean is not geometric (line 17).
* `book_imbalance` reaches the least edge of the defaults at a mid of exactly one half and nowhere
  else (`ImbalanceOnlyAtEvenOdds`), so that `consensus`, which needs both other strategies of the
  documented list, speaks only within its window after such a price.
* Its test for a book with an empty side compares JSON text, and never skips one.
* The mapper's scores are at least 0.85 or at most 0.35: no pair is stored as inactive.
* The rosters come back from the table as JSON text, so `player_adjust` finds no player.
* A bookmaker's event whose home and away are exchanged is accepted and read as it stands.

## 6. What is not modelled

Some hazards are modelled and no property covers them, because the code has them and nothing in
the repository forbids them; `hazards` in `PROJECT.json` says so at each. A market that settles
between the outcomes and the picks of a tick is entered; with more rows than the LIMIT of
`_resolve_pnl` some may wait for ever; a feed message whose reference was lost is posted again;
a task of ingestion that a failed query ended stays dead, and a silent socket keeps its session;
readers see no links while they are rebuilt; a verdict outlives the criteria it was about;
the event of a jump whose tick broke off is never written.

See `components` in `PROJECT.json` for each part. Not modelled are

* the web application and its dashboard: its queries change nothing, and its event streams
  contend for a pool that is the database driver's;
* training, and the numbers of the fitted model of a game: a pure numerical function, of which
  the models need only that it is one;
* metrics, reports and the backtest's tables: arithmetic over closed rows that decides nothing;
* `adaptive_min_edge`, Kelly sizes and the ranking score: the models let them be anything in a
  range (`AlertEdges`, `BestOf`);
* normalisation and fuzzy matching of names, parsing of payloads, paging and signing of requests:
  they turn text into the values the models start from;
* the factors for a far horizon and for a widening spread in the confidence of `cross_venue_arb`: they
  are operators of `StrategyRules`, and the instance of `Reasoning` does not vary them;
* formatting of messages, logging, configuration and schema migrations.

## 7. Plan

1. Done: the modules of section 2, their runs and proofs.
2. Done: proofs of every safety property of the runs, the cooldown, the feed, the session's
   books and ticks, the types of all modules and the pairs of the mapper among them.
3. Replay beside the live runner over one `sim_trades`, as a composition of `SimForward`.
4. `adaptive_min_edge` and decay as operators, checked for bounds over small tallies.
