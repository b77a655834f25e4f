----------------------------- MODULE Reasoning -----------------------------
(***************************************************************************)
(* The reasoning worker: reasoning/__main__.py, its resolution gate and    *)
(* cache, auto_disable.py, and the strategies that read prices, books and  *)
(* quotes of Kalshi.  Every tick evaluates the candidate markets, at most  *)
(* Slots at a time; ingestion, Kalshi and the notifier write the tables it *)
(* reads between any two of its steps.                                     *)
(***************************************************************************)
EXTENDS StrategyRules

CONSTANTS
  Markets,      \* market ids
  Slots,        \* the semaphore of _run, 8 in the code
  EnabledLists, \* what AGENT_STRATEGIES may be set to
  LLM,          \* an Anthropic key is configured
  LLMConfidence, \* what the language model answers to baseline_model
  Modelled,     \* markets of a category that the model of games covers
  EventOf,      \* gamma_event_id of a market
  PairOf,       \* the active cross-venue pair of a market, or NoRow
  FirstWorld,   \* what the tables hold at the start
  Moves,        \* rows that other processes may write
  MaxRows,      \* bound: fair values of a market in the window of consensus
  MaxEvents,    \* bound: moves, failures, crashes and stops, together
  NoRow         \* no row

Strategies ==
  {"baseline_model", "stale_quote", "behavior_fade", "player_adjust", "sportsbook_consensus",
   "book_imbalance", "cross_market_arb", "cross_venue_arb", "consensus"}

(* AGENT_STRATEGIES as common/config.py and .env.example set it.           *)
DefaultList == <<"book_imbalance", "cross_venue_arb", "consensus">>

MinResolved == 10

ASSUME ReasoningAssumption ==
  /\ Slots \in Nat \ {0} /\ MaxRows \in Nat /\ MaxEvents \in Nat
  /\ EnabledLists \subseteq Seq(Strategies)
  /\ LLM \in BOOLEAN

(* A price is a probability; the newest books of a market are few, and     *)
(* each of their sides has some depth or none.                             *)
SoundPrice(price) == price = NoRow \/ price.mid \in 0..One
SoundBooks(snaps) ==
  snaps \in Seq([bid : Nat, ask : Nat]) /\ Len(snaps) <= SnapshotLimit

ASSUME WorldAssumption ==
  /\ {"price", "snaps"} \subseteq DOMAIN FirstWorld
  /\ DOMAIN FirstWorld.price = Markets /\ DOMAIN FirstWorld.snaps = Markets
  /\ \A m \in Markets : SoundPrice(FirstWorld.price[m]) /\ SoundBooks(FirstWorld.snaps[m])
  /\ \A v \in Moves : /\ v.table = "price" => SoundPrice(v.value)
                      /\ v.table = "snaps" => SoundBooks(v.value)

VARIABLES
  enabled,   \* the strategies this installation enables, in order
  world,     \* tables of the other processes: per market its price, status,
             \* criteria, book snapshots, quote at Kalshi, game and what followed
             \* its last swing; results per strategy
  cache,     \* market_resolution_cache
  rows,      \* fair_values: those of the last five minutes, newest first
  proc,      \* up, stopping or down
  active,    \* active_strategies: positions in enabled
  last_mid, last_kalshi,
  due,       \* markets whose last_eval is absent or 60 s old
  tick,      \* the loop of _run
  ev,        \* the evaluation of a market
  seen,      \* the mid that the last evaluation to finish went by
  events     \* how many of the bounded events there were

memory == <<active, last_mid, last_kalshi, due>>
vars   == <<enabled, world, cache, rows, proc, memory, tick, ev, seen, events>>

NewTick(pc) == [pc |-> pc, todo |-> {}, force |-> {}]
Idle        == [pc |-> "idle", mid |-> 0, depth |-> 0, spread |-> 0,
                game |-> NoRow, turn |-> 0]

Running == {m \in Markets : ev[m].pc # "idle"}

(* Mutant of FreeSlot: one evaluation too many.                            *)
FreeSlotOrOneMore == Cardinality(Running) <= Slots

(* The semaphore of _run.                                                  *)
FreeSlot == Cardinality(Running) < Slots

Price(m)  == world.price[m]
Kalshi(m) == world.kalshi[m]

(* _hydrate_last_mid and _hydrate_last_kalshi_mid.                         *)
Mids       == [m \in Markets |-> IF Price(m) = NoRow THEN NoRow ELSE Price(m).mid]
KalshiMids == [m \in Markets |->
  IF PairOf[m] = NoRow \/ Kalshi(m) = NoRow THEN NoRow ELSE Kalshi(m).mid]

Start ==
  /\ proc' = "up" /\ tick' = NewTick("disabled")
  /\ active' = DOMAIN enabled /\ last_mid' = Mids /\ last_kalshi' = KalshiMids /\ due' = Markets
  /\ ev' = [m \in Markets |-> Idle]

Init ==
  /\ enabled \in EnabledLists /\ world = FirstWorld
  /\ cache = [m \in Markets |-> "none"] /\ rows = [m \in Markets |-> <<>>]
  /\ proc = "up" /\ tick = NewTick("disabled")
  /\ active = DOMAIN enabled /\ last_mid = Mids /\ last_kalshi = KalshiMids /\ due = Markets
  /\ ev = [m \in Markets |-> Idle]
  /\ seen = [m \in Markets |-> NoRow] /\ events = 0

Event == events < MaxEvents /\ events' = events + 1
-----------------------------------------------------------------------------
(* The tick.                                                               *)

(* auto_disable.py: ten results within the week and a loss in sum, among   *)
(* the recommendations or among the paper trades.                          *)
Losing(tally) == tally.n >= MinResolved /\ tally.pnl < 0

disabled_strategy_ids ==
  {s \in Strategies : Losing(world.recs[s]) \/ Losing(world.sim[s])}

ReadDisabled ==
  /\ tick.pc = "disabled"
  /\ active' = {i \in DOMAIN enabled : enabled[i] \notin disabled_strategy_ids}
  /\ tick' = NewTick("candidates")
  /\ UNCHANGED <<enabled, world, cache, rows, proc, last_mid, last_kalshi, due, ev, seen, events>>

(* An open market whose newest price is not older than some hours.         *)
Candidate(m) == world.status[m] # "closed" /\ Price(m) # NoRow /\ Price(m).recent

ReadCandidates ==
  /\ tick.pc = "candidates"
  /\ tick' = [NewTick("kalshi") EXCEPT !.todo = {m \in Markets : Candidate(m)}]
  /\ UNCHANGED <<enabled, world, cache, rows, proc, memory, ev, seen, events>>

MovedBy(new, old) == old = NoRow \/ Abs(new - old) >= 200

(* Every evaluation looks at the stop event when it is made, and not again *)
(* when its turn comes.                                                    *)
ReadKalshi ==
  /\ tick.pc = "kalshi"
  /\ LET quoted == {m \in Markets : KalshiMids[m] # NoRow}
         moved == {m \in quoted : MovedBy(KalshiMids[m], last_kalshi[m])}
         todo == IF proc = "stopping" THEN {} ELSE tick.todo \cup moved
     IN  /\ tick' = [pc |-> "evaluate", todo |-> todo, force |-> moved]
         /\ last_kalshi' = [m \in Markets |->
                              IF m \in quoted THEN KalshiMids[m] ELSE last_kalshi[m]]
  /\ UNCHANGED <<enabled, world, cache, rows, proc, active, last_mid, due, ev, seen, events>>

(* Mutant of TickEnds: the evaluations still running are not awaited.      *)
TickEndsEarly ==
  /\ tick.pc = "evaluate" /\ tick.todo = {}
  /\ tick' = NewTick("wait")
  /\ UNCHANGED <<enabled, world, cache, rows, proc, memory, ev, seen, events>>

TickEnds ==
  /\ tick.pc = "evaluate" /\ tick.todo = {} /\ Running = {}
  /\ tick' = NewTick("wait")
  /\ UNCHANGED <<enabled, world, cache, rows, proc, memory, ev, seen, events>>

TickFails ==
  /\ tick.pc \in {"disabled", "candidates", "kalshi"} /\ Event
  /\ tick' = NewTick("wait")
  /\ UNCHANGED <<enabled, world, cache, rows, proc, memory, ev, seen>>

NextTick ==
  /\ tick.pc = "wait" /\ proc = "up"
  /\ tick' = NewTick("disabled")
  /\ UNCHANGED <<enabled, world, cache, rows, proc, memory, ev, seen, events>>
-----------------------------------------------------------------------------
(* _evaluate_market.                                                       *)

(* Mutant of Triggered: last_eval is not looked at.                        *)
TriggeredByMove(m) == MovedBy(Price(m).mid, last_mid[m]) \/ m \in tick.force

Triggered(m) ==
  MovedBy(Price(m).mid, last_mid[m]) \/ m \in due \/ m \in tick.force

(* The price is handled from here on, whatever becomes of the evaluation.  *)
Begin(m) ==
  /\ tick.pc = "evaluate" /\ m \in tick.todo /\ FreeSlot
  /\ tick' = [tick EXCEPT !.todo = @ \ {m}]
  /\ IF Price(m) # NoRow /\ Triggered(m)
     THEN /\ last_mid' = [last_mid EXCEPT ![m] = Price(m).mid]
          /\ due' = due \ {m}
          /\ ev' = [ev EXCEPT ![m] = [Idle EXCEPT !.pc = "gate", !.mid = Price(m).mid]]
     ELSE UNCHANGED <<last_mid, due, ev>>
  /\ UNCHANGED <<enabled, world, cache, rows, proc, active, last_kalshi, seen, events>>

(* The heuristic rejects, or the model is asked; a failing model leaves    *)
(* the market safe.  The answer is stored before it is used.               *)
Verdicts(criteria) ==
  CASE criteria = "ambiguous" -> {"unsafe"}
    [] criteria # "ambiguous" /\ LLM -> {"safe", "unsafe"}
    [] OTHER -> {"safe"}

Finish(m) ==
  /\ ev' = [ev EXCEPT ![m] = Idle]
  /\ seen' = [seen EXCEPT ![m] = ev[m].mid]

(* Mutant of Rejected: only the heuristic is asked, not the stored verdict.*)
RejectedByHeuristic(m) == world.criteria[m] = "ambiguous"

Rejected(m) == cache'[m] = "unsafe"

Gate(m) ==
  /\ ev[m].pc = "gate"
  /\ IF cache[m] = "none"
     THEN \E v \in Verdicts(world.criteria[m]) : cache' = [cache EXCEPT ![m] = v]
     ELSE UNCHANGED cache
  /\ IF Rejected(m) THEN Finish(m)
     ELSE /\ ev' = [ev EXCEPT ![m].pc = "context"]
          /\ UNCHANGED seen
  /\ UNCHANGED <<enabled, world, rows, proc, memory, tick, events>>

(* The depth and the spread may be those of a newer price than the mid,    *)
(* and the score may be older than the swing a strategy reads later.       *)
ReadContext(m) ==
  /\ ev[m].pc = "context"
  /\ ev' = [ev EXCEPT ![m] = [@ EXCEPT !.pc = "strategies", !.game = world.game[m],
                                       !.depth = Price(m).depth, !.spread = Price(m).spread]]
  /\ UNCHANGED <<enabled, world, cache, rows, proc, memory, tick, seen, events>>

SiblingMids(m) ==
  LET others == {n \in Markets \ {m} :
        EventOf[n] = EventOf[m] /\ world.status[n] # "closed" /\ Price(n) # NoRow}
  IN  [i \in 1..Cardinality(others) |-> Price(SetToSeq(others)[i]).mid]

OnBook(s, m) ==
  LET at == ev[m]
  IN  CASE s = "book_imbalance" -> book_imbalance(world.snaps[m], at.mid)
        [] s = "cross_market_arb" ->
             IF EventOf[m] = NoRow THEN NoSignal
             ELSE cross_market_arb(at.mid, SiblingMids(m), at.depth, at.spread)
        [] s = "cross_venue_arb" ->
             IF PairOf[m] = NoRow \/ Kalshi(m) = NoRow THEN NoSignal
             ELSE cross_venue_arb(PairOf[m], Price(m), Price(m).spread, at.mid, Kalshi(m),
                                  FALSE, <<>>)
        [] s = "consensus" -> consensus(rows[m], "consensus", at.mid)

BaselineConf(m) ==
  LET at == ev[m]
      edge == YesAt(at.game, at.game) - at.mid
  IN  IF LLM \/ at.game.named = "none" THEN LLMConfidence
      ELSE statistical_confidence(at.depth, at.spread, 0, edge, at.mid, FALSE)

OnGame(s, m) ==
  LET at == ev[m]
      since == world.since[m]
  IN  CASE s = "baseline_model" /\ m \in Modelled ->
             baseline_model(at.game, at.mid, BaselineConf(m))
        [] s = "stale_quote" -> stale_quote(at.game, since.swing, since.move, at.mid)
        [] s = "behavior_fade" -> behavior_fade(at.game, since.swing, since.first, since.last)
        [] s = "player_adjust" /\ m \in Modelled /\ since.lineup ->
             player_adjust(at.game, at.mid)
        [] s = "sportsbook_consensus" -> sportsbook_consensus(at.game, since.p_home, at.mid)
        [] OTHER -> NoSignal

Signal(s, m) ==
  IF s \in {"book_imbalance", "cross_market_arb", "cross_venue_arb", "consensus"}
  THEN OnBook(s, m)
  ELSE IF ev[m].game = NoRow THEN NoSignal ELSE OnGame(s, m)

Row(s, value) ==
  [strategy |-> s, model |-> value.model, market |-> value.market, edge |-> value.edge,
   conf |-> value.conf]

Insert(m, row) ==
  LET all == <<row>> \o rows[m]
  IN  rows' = [rows EXCEPT ![m] = SubSeq(all, 1, Smaller(MaxRows, Len(all)))]

(* All evaluations go through the one list active_strategies, each by a    *)
(* count of the places it has passed.                                      *)
Left(m) == {i \in active : Cardinality({j \in active : j < i}) >= ev[m].turn}

NextStrategy(m) == Min(Left(m))

Pass(m) == ev' = [ev EXCEPT ![m].turn = @ + 1]

(* The next strategy, on the tables as they are now.                       *)
RunStrategy(m) ==
  /\ ev[m].pc = "strategies" /\ Left(m) # {}
  /\ LET s == enabled[NextStrategy(m)]
         value == Signal(s, m)
     IN  IF value = NoSignal THEN UNCHANGED rows ELSE Insert(m, Row(s, value))
  /\ Pass(m)
  /\ UNCHANGED <<enabled, world, cache, proc, memory, tick, seen, events>>

(* A strategy that raises is logged, and the next one runs.                *)
StrategyFails(m) ==
  /\ ev[m].pc = "strategies" /\ Left(m) # {} /\ Event
  /\ Pass(m)
  /\ UNCHANGED <<enabled, world, cache, rows, proc, memory, tick, seen>>

Evaluated(m) ==
  /\ ev[m].pc = "strategies" /\ Left(m) = {}
  /\ Finish(m)
  /\ UNCHANGED <<enabled, world, cache, rows, proc, memory, tick, events>>

(* Any other failure ends the evaluation: gather collects it.              *)
EvaluationFails(m) ==
  /\ ev[m].pc # "idle" /\ Event
  /\ ev' = [ev EXCEPT ![m] = Idle]
  /\ UNCHANGED <<enabled, world, cache, rows, proc, memory, tick, seen>>
-----------------------------------------------------------------------------
Stop ==
  /\ proc = "up" /\ Event
  /\ proc' = "stopping"
  /\ UNCHANGED <<enabled, world, cache, rows, memory, tick, ev, seen>>

Down ==
  /\ proc' = "down" /\ tick' = NewTick("off") /\ ev' = [m \in Markets |-> Idle]
  /\ active' = {} /\ due' = {}
  /\ last_mid' = [m \in Markets |-> NoRow] /\ last_kalshi' = [m \in Markets |-> NoRow]

Exit ==
  /\ proc = "stopping" /\ tick.pc = "wait"
  /\ Down
  /\ UNCHANGED <<enabled, world, cache, rows, seen, events>>

Crash ==
  /\ proc \in {"up", "stopping"} /\ Event
  /\ Down
  /\ UNCHANGED <<enabled, world, cache, rows, seen>>

Restart ==
  /\ proc = "down"
  /\ Start
  /\ UNCHANGED <<enabled, world, cache, rows, seen, events>>
-----------------------------------------------------------------------------
(* Time, and the processes that write the tables.                          *)

MinutePasses(m) ==
  /\ proc # "down" /\ m \notin due
  /\ due' = due \cup {m}
  /\ UNCHANGED <<enabled, world, cache, rows, proc, active, last_mid, last_kalshi, tick, ev,
                 seen, events>>

RowExpires(m) ==
  /\ rows[m] # <<>>
  /\ rows' = [rows EXCEPT ![m] = Front(@)]
  /\ UNCHANGED <<enabled, world, cache, proc, memory, tick, ev, seen, events>>

(* A move is [table, key, value]: key is a market, or a strategy.          *)
WorldMoves(v) ==
  /\ Event /\ world[v.table][v.key] # v.value
  /\ world' = [world EXCEPT ![v.table][v.key] = v.value]
  /\ UNCHANGED <<enabled, cache, rows, proc, memory, tick, ev, seen>>

Tick == ReadDisabled \/ ReadCandidates \/ ReadKalshi \/ TickEnds \/ NextTick

Evaluate(m) ==
  Begin(m) \/ Gate(m) \/ ReadContext(m) \/ RunStrategy(m) \/ Evaluated(m)

Next ==
  \/ Tick \/ TickFails \/ Stop \/ Exit \/ Crash \/ Restart
  \/ \E m \in Markets : Evaluate(m) \/ StrategyFails(m) \/ EvaluationFails(m)
  \/ \E m \in Markets : MinutePasses(m) \/ RowExpires(m)
  \/ \E v \in Moves : WorldMoves(v)

Spec == Init /\ [][Next]_vars

(* When Evaluate(m) is enabled.                                            *)
Busy(m) ==
  \/ ev[m].pc # "idle"
  \/ tick.pc = "evaluate" /\ m \in tick.todo /\ FreeSlot

(* The loop and every evaluation take their next step, an exit and a crash *)
(* are followed by a restart, and time passes.  The last conjunct is weak  *)
(* fairness of Evaluate(m), spelled out.                                   *)
Fairness ==
  /\ WF_vars(Tick) /\ WF_vars(Exit) /\ WF_vars(Restart)
  /\ \A m \in Markets :
       /\ WF_vars(MinutePasses(m))
       /\ []<>~Busy(m) \/ []<><<Evaluate(m)>>_vars

FairSpec == Spec /\ Fairness
-----------------------------------------------------------------------------
SlotsRespected == Cardinality(Running) <= Slots

TypeOK ==
  /\ enabled \in EnabledLists
  /\ cache \in [Markets -> {"none", "safe", "unsafe"}]
  /\ \A m \in Markets : Len(rows[m]) <= MaxRows
  /\ \A m \in Markets, i \in 1..MaxRows :
       i <= Len(rows[m]) => rows[m][i].strategy \in Strategies
  /\ proc \in {"up", "stopping", "down"}
  /\ tick.pc \in {"off", "disabled", "candidates", "kalshi", "evaluate", "wait"}
  /\ tick.todo \subseteq Markets /\ tick.force \subseteq Markets /\ due \subseteq Markets
  /\ SlotsRespected

(* The list that the evaluations go through is replaced in place, and      *)
(* never under one that is on its way through it (active_strategies and    *)
(* gather in _run).                                                        *)
ListHoldsStill ==
  [][\A m \in Markets :
       ev[m].pc = "strategies" /\ ev'[m].pc = "strategies" => active' = active]_vars

(* No market gets a fair value before its criteria were judged safe, and   *)
(* the verdict that is used is the stored one, through crashes             *)
(* (_evaluate_market, set_resolution_cache).                               *)
PricedOnlyWhenSafe ==
  \A m \in Markets :
    rows[m] # <<>> \/ ev[m].pc \in {"context", "strategies"} => cache[m] = "safe"

(* The fair value of a consensus is a mean of the newest rows of at least  *)
(* two other strategies that point the same way (consensus.py): of those   *)
(* that buy, when two do, even when as many or more sell, and else of      *)
(* those that sell.  A split vote is decided, not refused.                 *)
NewConsensus(m) == rows'[m] # <<>> /\ rows'[m] # rows[m] /\ rows'[m][1].strategy = "consensus"

Newest(m) ==
  {i \in DOMAIN rows[m] : /\ rows[m][i].strategy # "consensus"
                         /\ \A k \in 1..(i - 1) : rows[m][k].strategy # rows[m][i].strategy}

Votes(m, side(_)) == {i \in Newest(m) : side(rows[m][i].edge)}

Backers(m, side(_)) == {rows[m][i].strategy : i \in Votes(m, side)}

TwoBack(m, side(_)) == Cardinality(Backers(m, side)) >= 2

MeanOf(model, m, side(_)) ==
  \E low, high \in Votes(m, side) : rows[m][low].model <= model /\ model <= rows[m][high].model

ConsensusBacked ==
  [][\A m \in Markets : NewConsensus(m) /\ ev'[m] # ev[m] =>
       LET model == rows'[m][1].model
       IN  \/ TwoBack(m, Buy) /\ MeanOf(model, m, Buy)
           \/ ~TwoBack(m, Buy) /\ TwoBack(m, Sell) /\ MeanOf(model, m, Sell)]_vars

(* With the least edge of eight cents that the repository sets,            *)
(* book_imbalance speaks at even odds only, and for an edge of exactly     *)
(* eight cents: at any other price not even a book that is all on one side *)
(* moves the fair value far enough (book_imbalance.py).                    *)
ImbalanceOnlyAtEvenOdds ==
  MinEdge >= 800 =>
    \A m \in Markets : \A i \in DOMAIN rows[m] :
      rows[m][i].strategy = "book_imbalance" =>
        rows[m][i].market = One \div 2 /\ Abs(rows[m][i].edge) = 800

(* The price that a market comes to rest at is evaluated, also when an     *)
(* evaluation of it fails, when the price drifts by less than two cents at *)
(* a time, and through crashes (last_eval in _evaluate_market).            *)
EveryPriceEvaluated ==
  \A m \in Markets : []<>(Candidate(m) => seen[m] = Price(m).mid)
=============================================================================
