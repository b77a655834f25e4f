----------------------------- MODULE SimForward -----------------------------
(***************************************************************************)
(* The live paper-trading runner: sim/forward.py drives one                *)
(* ProfilePortfolio (sim/portfolio.py) per profile and mirrors every       *)
(* position it opens or closes into the sim_trades table (sim/repo.py).    *)
(*                                                                         *)
(* The runner's memory and the table are separate variables.  Every await  *)
(* of a database call is a step of its own, so that prices, market states, *)
(* the clock, a stop signal, a failed call or a crash come between any two *)
(* of them.  A database call may fail before or after it takes effect.     *)
(***************************************************************************)
EXTENDS SignalRules, Sequences, FiniteSets

CONSTANTS
  Profiles,     \* ids of the profiles of the run
  ProfileSeq,   \* the same profiles in the order list_profiles returns them
  Thresholds,   \* the SimProfile of each profile
  Markets,      \* market ids
  MaxHold,      \* max_hold_for_category of each market's category
  Signals,      \* the signals that fair values may give rise to
  Mids,         \* the mid prices that markets may quote
  RunLength,    \* planned length of a run, 0 when it runs until stopped
  MaxPicks,     \* settings.rank_top_n * 3
  MaxTime,      \* bound: the last instant of the clock
  MaxTrades,    \* bound: rows of sim_trades
  MaxRuns,      \* bound: rows of sim_runs
  MaxFaults,    \* bound: database calls that fail
  NoPos         \* no position held

Keys == Profiles \X Markets
Ids  == 1..MaxTrades
Runs == 1..MaxRuns
Time == 0..MaxTime

Profile == [strategies : SUBSET {s.strategy : s \in Signals}, min_edge : Nat,
            min_confidence : Nat, min_model : Nat, cooldown : Nat]

Signal == [market : Markets, strategy : {s.strategy : s \in Signals},
           edge : -100..100, confidence : Price, model : Price,
           price : Price, in_horizon : BOOLEAN, persistent : BOOLEAN]

OpenPosition == [id : 0..MaxTrades, direction : Direction, entry : Price,
                 opened : Time]

(* Id 0 stands for trade_id None: the position has no row that the runner  *)
(* knows of.                                                               *)
Reason == {"resolution", "signal_reverse", "max_hold", "forward_shutdown"}

ClosedTrade == [id : 0..MaxTrades, reason : Reason, pnl : Int]

ASSUME SimAssumption ==
  /\ MaxTime \in Nat /\ MaxTrades \in Nat /\ MaxRuns \in Nat
  /\ MaxFaults \in Nat /\ MaxPicks \in Nat /\ RunLength \in Nat
  /\ ProfileSeq \in Seq(Profiles) /\ Len(ProfileSeq) > 0
  /\ \A p \in Profiles : \E i \in 1..Len(ProfileSeq) : ProfileSeq[i] = p
  /\ \A p \in Profiles : Thresholds[p].cooldown \in Nat
  /\ \A m \in Markets : MaxHold[m] \in Nat
  /\ \A s \in Signals : s \in Signal
  /\ Mids \subseteq Price
  /\ NoPos \notin OpenPosition

VARIABLES
  mid,        \* latest mid of each market (prices)
  phase,      \* live, ended (30 minutes past end_date) or closed (markets)
  now,        \* the clock
  stop,       \* the stop event that SIGTERM sets
  rows,       \* sim_trades
  lastId,     \* the id sequence of sim_trades
  runs,       \* sim_runs
  pc,         \* where run_forward is
  run,        \* run_id of the current run
  open,       \* open_by_key of all portfolios
  lastEntry,  \* last_entry_at of all portfolios, -1 when there is none
  outcomes,   \* resolved outcomes that the last tick loaded
  signals,    \* signals the tick has yet to process
  at,         \* index in ProfileSeq of the portfolio whose turn it is
  tickTs,     \* the timestamp of the tick's signals
  closes,     \* closed trades that are yet to be written
  faults      \* database calls that have failed

world  == <<mid, phase, now, stop>>
db     == <<rows, lastId, runs>>
memory == <<pc, run, open, lastEntry, outcomes, signals, at, tickTs, closes>>
vars   == <<world, db, memory, faults>>

-----------------------------------------------------------------------------
NoRow == [status |-> "absent", profile |-> ProfileSeq[1], market |-> "none",
          run |-> 0, direction |-> "buy", entry |-> 0, opened |-> 0,
          reason |-> "none", pnl |-> 0]

NoRun == [status |-> "absent", started |-> 0, ended |-> 0]

KeyOf(row) == <<row.profile, row.market>>

(* Mutant of OpenRows: the status filter of the query is dropped.          *)
RowsOf(k) == {i \in Ids : rows[i].status # "absent" /\ KeyOf(rows[i]) = k}

OpenRows(k) == {i \in Ids : rows[i].status = "open" /\ KeyOf(rows[i]) = k}

Fresh == [k \in Keys |-> NoPos]
Never == [k \in Keys |-> -1]
Unresolved == [m \in Markets |-> "unknown"]

Init ==
  /\ mid \in [Markets -> Mids]
  /\ phase = [m \in Markets |-> "live"]
  /\ now = 0
  /\ stop = FALSE
  /\ rows = [i \in Ids |-> NoRow]
  /\ lastId = 0
  /\ runs = [r \in Runs |-> NoRun]
  /\ pc = "down"
  /\ run = 0
  /\ open = Fresh
  /\ lastEntry = Never
  /\ outcomes = Unresolved
  /\ signals = <<>>
  /\ at = 1
  /\ tickTs = 0
  /\ closes = {}
  /\ faults = 0

-----------------------------------------------------------------------------
(* The rest of the system, as the runner sees it: ingestion writes prices  *)
(* and market states, time passes, an operator stops the service.          *)

Quote(m) ==
  /\ \E x \in Mids \ {mid[m]} : mid' = [mid EXCEPT ![m] = x]
  /\ UNCHANGED <<phase, now, stop, db, memory, faults>>

EndDatePasses(m) ==
  /\ phase[m] = "live"
  /\ phase' = [phase EXCEPT ![m] = "ended"]
  /\ UNCHANGED <<mid, now, stop, db, memory, faults>>

CloseMarket(m) ==
  /\ phase[m] # "closed"
  /\ phase' = [phase EXCEPT ![m] = "closed"]
  /\ UNCHANGED <<mid, now, stop, db, memory, faults>>

Advance ==
  /\ now < MaxTime
  /\ now' = now + 1
  /\ UNCHANGED <<mid, phase, stop, db, memory, faults>>

StopSignal ==
  /\ pc # "down" /\ ~stop
  /\ stop' = TRUE
  /\ UNCHANGED <<mid, phase, now, db, memory, faults>>

-----------------------------------------------------------------------------
(* Starting a run.  The guard on the clock is a bound: the planned end of  *)
(* every run lies within the model's time.                                 *)

CreateRun ==
  /\ pc = "down"
  /\ run < MaxRuns
  /\ now + RunLength <= MaxTime
  /\ run' = run + 1
  /\ runs' = [runs EXCEPT ![run + 1] =
                [status |-> "active", started |-> now, ended |-> 0]]
  /\ stop' = FALSE
  /\ pc' = "load"
  /\ UNCHANGED <<mid, phase, now, rows, lastId, open, lastEntry, outcomes,
                 signals, at, tickTs, closes, faults>>

(* Mutant of LoadOpen: only rows of the new run itself are adopted.        *)
LoadOwnRows ==
  /\ pc = "load"
  /\ open' = Fresh
  /\ lastEntry' = Never
  /\ pc' = "idle"
  /\ UNCHANGED <<world, db, run, outcomes, signals, at, tickTs, closes, faults>>

(* Every open row of the profiles is adopted, whichever run wrote it.  The *)
(* query has no ORDER BY: of several rows with one key any one may come    *)
(* last and win.  last_entry_at starts empty.                              *)
LoadOpen ==
  /\ pc = "load"
  /\ \E row \in [Keys -> 0..MaxTrades] :
       /\ \A k \in Keys : IF OpenRows(k) = {} THEN row[k] = 0
                                              ELSE row[k] \in OpenRows(k)
       /\ open' = [k \in Keys |->
                     IF row[k] = 0 THEN NoPos
                     ELSE [id |-> row[k], direction |-> rows[row[k]].direction,
                           entry |-> rows[row[k]].entry,
                           opened |-> rows[row[k]].opened]]
  /\ lastEntry' = Never
  /\ pc' = "idle"
  /\ UNCHANGED <<world, db, run, outcomes, signals, at, tickTs, closes, faults>>

-----------------------------------------------------------------------------
(* One tick: outcomes are read first, the ranked picks later, and then the *)
(* signals are processed one by one for each portfolio.                    *)

Due == RunLength > 0 /\ now >= runs[run].started + RunLength

(* Mutant of Leaves: the loop looks at the planned end alone.              *)
LeavesWhenDue == Due

(* run_forward leaves its loop.                                            *)
Leaves == stop \/ Due

(* load_resolved_outcomes; the tick takes its time before it reads picks.  *)
BeginTick ==
  /\ pc = "idle" /\ ~Leaves
  /\ outcomes' = [m \in Markets |-> IF phase[m] = "live" THEN "unknown"
                                    ELSE outcome_from_final_mid(mid[m])]
  /\ tickTs' = now
  /\ pc' = "rank"
  /\ UNCHANGED <<world, db, run, open, lastEntry, signals, at, closes, faults>>

(* What top_picks may return: at most one pick per market and strategy,    *)
(* none on a closed market, all within the entry gates.                    *)
Rankable(s) ==
  /\ phase[s.market] # "closed"
  /\ passes_entry_price_gate(s.price)
  /\ passes_risk_reward_gate(s.price, s.edge)

SameSource(s, t) == s.market = t.market /\ s.strategy = t.strategy

(* The guard on lastId is a bound: every signal can still get a row.       *)
ReadPicks ==
  /\ pc = "rank"
  /\ \E n \in 0..MaxPicks : \E picks \in [1..n -> Signals] :
       /\ \A i \in 1..n : Rankable(picks[i])
       /\ \A i, j \in 1..n : SameSource(picks[i], picks[j]) => i = j
       /\ lastId + n * Len(ProfileSeq) <= MaxTrades
       /\ signals' = picks
  /\ at' = 1
  /\ pc' = "item"
  /\ UNCHANGED <<world, db, run, open, lastEntry, outcomes, tickTs, closes, faults>>

Sig    == Head(signals)
Pf     == ProfileSeq[at]
Key    == <<Pf, Sig.market>>
Pos    == open[Key]
Held   == Pos # NoPos
Known  == outcomes[Sig.market] # "unknown"

NextItem ==
  IF at < Len(ProfileSeq)
  THEN at' = at + 1 /\ signals' = signals
  ELSE at' = 1 /\ signals' = Tail(signals)

(* Mutants of Enters: the check for a held position, the cooldown dropped. *)
EntersWhenHeld(book) ==
  /\ should_enter(Sig, Thresholds[Pf])
  /\ passes_entry_price_gate(Sig.price)
  /\ Sig.in_horizon /\ Sig.persistent
  /\ \/ lastEntry[Key] = -1
     \/ tickTs - lastEntry[Key] >= Thresholds[Pf].cooldown

EntersAtOnce(book) ==
  /\ should_enter(Sig, Thresholds[Pf])
  /\ passes_entry_price_gate(Sig.price)
  /\ Sig.in_horizon /\ Sig.persistent
  /\ book[Key] = NoPos

(* The position try_enter opens in a book from which a closed position has *)
(* already been removed.                                                   *)
Enters(book) ==
  /\ should_enter(Sig, Thresholds[Pf])
  /\ passes_entry_price_gate(Sig.price)
  /\ passes_risk_reward_gate(Sig.price, Sig.edge)
  /\ Sig.in_horizon
  /\ Sig.persistent
  /\ book[Key] = NoPos
  /\ \/ lastEntry[Key] = -1
     \/ tickTs - lastEntry[Key] >= Thresholds[Pf].cooldown

try_enter(book) ==
  IF Enters(book)
  THEN /\ open' = [book EXCEPT ![Key] =
                     [id |-> 0, direction |-> trade_direction(Sig.edge),
                      entry |-> Sig.price, opened |-> tickTs]]
       /\ lastEntry' = [lastEntry EXCEPT ![Key] = tickTs]
  ELSE open' = book /\ lastEntry' = lastEntry

(* Mutant of Popped: the position is read but stays in the book.           *)
NotPopped == open

Popped == [open EXCEPT ![Key] = NoPos]

Processing == pc = "item" /\ signals # <<>>

(* A settled market without a position is skipped.                         *)
SkipSettled ==
  /\ Processing
  /\ Known /\ ~Held
  /\ NextItem
  /\ UNCHANGED <<world, db, pc, run, open, lastEntry, outcomes, tickTs, closes,
                 faults>>

(* process_signal on a settled market: close, and do not enter again.      *)
CloseSettled ==
  /\ Processing
  /\ Known /\ Held
  /\ closes' = {[id |-> Pos.id, reason |-> "resolution",
                 pnl |-> compute_pnl_cents(Pos.entry, Pos.direction,
                                           outcomes[Sig.market])]}
  /\ open' = Popped
  /\ pc' = "close"
  /\ UNCHANGED <<world, db, run, lastEntry, outcomes, signals, at, tickTs, faults>>

Reverses == /\ is_reverse_signal(Sig, Pos.direction)
            /\ should_enter(Sig, Thresholds[Pf])

Expired == tickTs - Pos.opened >= MaxHold[Sig.market]

(* process_signal when the signal ends the position: close at the signal's *)
(* price, then try to enter with the same signal.                          *)
CloseBySignal ==
  /\ Processing
  /\ ~Known /\ Held
  /\ Reverses \/ Expired
  /\ closes' = {[id |-> Pos.id,
                 reason |-> IF Reverses THEN "signal_reverse" ELSE "max_hold",
                 pnl |-> mtm_pnl_cents(Pos.entry, Sig.price, Pos.direction)]}
  /\ try_enter(Popped)
  /\ pc' = "close"
  /\ UNCHANGED <<world, db, run, outcomes, signals, at, tickTs, faults>>

(* Mutant of EnterOrHold: outcomes are not consulted before entering.      *)
EnterUnchecked ==
  /\ Processing
  /\ Held => ~(Reverses \/ Expired)
  /\ try_enter(open)
  /\ pc' = "save"
  /\ UNCHANGED <<world, db, run, outcomes, signals, at, tickTs, closes, faults>>

(* process_signal when nothing is closed.                                  *)
EnterOrHold ==
  /\ Processing
  /\ ~Known
  /\ Held => ~(Reverses \/ Expired)
  /\ try_enter(open)
  /\ pc' = "save"
  /\ UNCHANGED <<world, db, run, outcomes, signals, at, tickTs, closes, faults>>

(* Mutant of RowsAfterClose: the UPDATE selects by profile and market.     *)
RowsAfterCloseOfKey(ct) ==
  IF ct.id = 0 THEN rows
  ELSE [i \in Ids |->
          IF KeyOf(rows[i]) = KeyOf(rows[ct.id])
          THEN [rows[i] EXCEPT !.status = "closed", !.reason = ct.reason, !.pnl = ct.pnl]
          ELSE rows[i]]

(* close_trade: no row, no write; the UPDATE does not look at the status.  *)
RowsAfterClose(ct) ==
  IF ct.id = 0 THEN rows
  ELSE [rows EXCEPT ![ct.id].status = "closed", ![ct.id].reason = ct.reason,
                    ![ct.id].pnl = ct.pnl]

WriteClose ==
  /\ pc = "close"
  /\ \E ct \in closes : rows' = RowsAfterClose(ct)
  /\ closes' = {}
  /\ pc' = "save"
  /\ UNCHANGED <<world, lastId, runs, run, open, lastEntry, outcomes, signals,
                 at, tickTs, faults>>

Unsaved == Held /\ Pos.id = 0

(* insert_open_trade                                                       *)
RowsAfterInsert ==
  [rows EXCEPT ![lastId + 1] =
     [status |-> "open", profile |-> Pf, market |-> Sig.market, run |-> run,
      direction |-> Pos.direction, entry |-> Pos.entry, opened |-> Pos.opened,
      reason |-> "none", pnl |-> 0]]

(* Mutant of WriteOpen: the id that the INSERT returns is not kept.        *)
WriteOpenDropsId ==
  /\ pc = "save" /\ Unsaved
  /\ lastId < MaxTrades
  /\ rows' = RowsAfterInsert
  /\ lastId' = lastId + 1
  /\ NextItem
  /\ pc' = "item"
  /\ UNCHANGED <<world, runs, run, open, lastEntry, outcomes, tickTs, closes, faults>>

WriteOpen ==
  /\ pc = "save" /\ Unsaved
  /\ lastId < MaxTrades
  /\ rows' = RowsAfterInsert
  /\ lastId' = lastId + 1
  /\ open' = [open EXCEPT ![Key].id = lastId + 1]
  /\ NextItem
  /\ pc' = "item"
  /\ UNCHANGED <<world, runs, run, lastEntry, outcomes, tickTs, closes, faults>>

NothingToSave ==
  /\ pc = "save" /\ ~Unsaved
  /\ NextItem
  /\ pc' = "item"
  /\ UNCHANGED <<world, db, run, open, lastEntry, outcomes, tickTs, closes,
                 faults>>

(* The tick is over; its locals are gone.                                  *)
LeaveTick ==
  /\ pc' = "idle"
  /\ signals' = <<>>
  /\ at' = 1
  /\ tickTs' = 0
  /\ closes' = {}

EndTick ==
  /\ pc = "item" /\ signals = <<>>
  /\ LeaveTick
  /\ UNCHANGED <<world, db, run, open, lastEntry, outcomes, faults>>

-----------------------------------------------------------------------------
(* A database call of the tick raises: the exception is logged, the rest   *)
(* of the tick is dropped and what memory already holds is kept.  A write  *)
(* whose answer was lost has taken effect all the same.                    *)

Fault == faults < MaxFaults /\ faults' = faults + 1

OutcomesUnread ==
  /\ pc = "idle" /\ ~Leaves
  /\ Fault
  /\ outcomes' = Unresolved
  /\ UNCHANGED <<world, db, pc, run, open, lastEntry, signals, at, tickTs, closes>>

CallFails ==
  /\ pc \in {"rank", "close", "save"}
  /\ pc = "close" => \E ct \in closes : ct.id # 0
  /\ pc = "save" => Unsaved
  /\ Fault
  /\ LeaveTick
  /\ UNCHANGED <<world, db, run, open, lastEntry, outcomes>>

CloseAnswerLost ==
  /\ pc = "close"
  /\ \E ct \in closes : ct.id # 0 /\ rows' = RowsAfterClose(ct)
  /\ Fault
  /\ LeaveTick
  /\ UNCHANGED <<world, lastId, runs, run, open, lastEntry, outcomes>>

OpenAnswerLost ==
  /\ pc = "save" /\ Unsaved
  /\ lastId < MaxTrades
  /\ rows' = RowsAfterInsert
  /\ lastId' = lastId + 1
  /\ Fault
  /\ LeaveTick
  /\ UNCHANGED <<world, runs, run, open, lastEntry, outcomes>>

-----------------------------------------------------------------------------
(* Shutdown: every position is marked to the latest mid, all of them leave *)
(* memory at once, and the rows are then closed one by one.                *)

(* Mutant of BeginShutdown: the positions stay in the book.                *)
BeginShutdownKeepsBook ==
  /\ pc = "idle" /\ Leaves
  /\ closes' = {[id |-> open[k].id, reason |-> "forward_shutdown",
                 pnl |-> mtm_pnl_cents(open[k].entry, mid[k[2]],
                                       open[k].direction)] :
                  k \in {j \in Keys : open[j] # NoPos}}
  /\ pc' = "shutdown"
  /\ UNCHANGED <<world, db, run, open, lastEntry, outcomes, signals, at, tickTs, faults>>

BeginShutdown ==
  /\ pc = "idle" /\ Leaves
  /\ closes' = {[id |-> open[k].id, reason |-> "forward_shutdown",
                 pnl |-> mtm_pnl_cents(open[k].entry, mid[k[2]],
                                       open[k].direction)] :
                  k \in {j \in Keys : open[j] # NoPos}}
  /\ open' = Fresh
  /\ pc' = "shutdown"
  /\ UNCHANGED <<world, db, run, lastEntry, outcomes, signals, at, tickTs, faults>>

BulkClose ==
  /\ pc = "shutdown"
  /\ \E ct \in closes : /\ rows' = RowsAfterClose(ct)
                        /\ closes' = closes \ {ct}
  /\ UNCHANGED <<world, lastId, runs, pc, run, open, lastEntry, outcomes,
                 signals, at, tickTs, faults>>

(* What dies with the process.                                             *)
Forget ==
  /\ pc' = "down"
  /\ open' = Fresh
  /\ lastEntry' = Never
  /\ outcomes' = Unresolved
  /\ signals' = <<>>
  /\ at' = 1
  /\ tickTs' = 0
  /\ closes' = {}

(* Mutant of FinishRun: the run is marked as ended before the bulk close.  *)
FinishRunFirst ==
  /\ pc = "shutdown"
  /\ runs' = [runs EXCEPT ![run].status = "ended", ![run].ended = now]
  /\ Forget
  /\ UNCHANGED <<world, rows, lastId, run, faults>>

FinishRun ==
  /\ pc = "shutdown" /\ closes = {}
  /\ runs' = [runs EXCEPT ![run].status = "ended", ![run].ended = now]
  /\ Forget
  /\ UNCHANGED <<world, rows, lastId, run, faults>>

(* The process dies at any point.  A database error outside the tick's     *)
(* handler (loading the open rows, the final mids, a bulk close,           *)
(* finish_run) ends the process the same way, and the container restarts.  *)
Crash ==
  /\ pc # "down"
  /\ Forget
  /\ UNCHANGED <<world, db, run, faults>>

-----------------------------------------------------------------------------
World == \/ \E m \in Markets : Quote(m) \/ EndDatePasses(m) \/ CloseMarket(m)
         \/ Advance
         \/ StopSignal

Tick == \/ BeginTick \/ ReadPicks
        \/ SkipSettled \/ CloseSettled \/ CloseBySignal \/ EnterOrHold
        \/ WriteClose \/ WriteOpen \/ NothingToSave \/ EndTick

Shutdown == BeginShutdown \/ BulkClose \/ FinishRun

Faults == OutcomesUnread \/ CallFails \/ CloseAnswerLost \/ OpenAnswerLost

Next == World \/ CreateRun \/ LoadOpen \/ Tick \/ Shutdown \/ Faults \/ Crash

Spec == Init /\ [][Next]_vars

(* The event loop runs the process's next step whenever there is one.      *)
(* Nothing else is fair: prices, stops, the clock, failures and crashes    *)
(* come or do not come.                                                    *)
FairSpec == Spec /\ WF_vars(LoadOpen \/ Tick \/ Shutdown)
-----------------------------------------------------------------------------
(* Properties.                                                             *)

Row == [status : {"absent", "open", "closed"}, profile : Profiles,
        market : Markets \union {"none"}, run : 0..MaxRuns,
        direction : Direction, entry : Price, opened : Time,
        reason : Reason \union {"none"}, pnl : Int]

(* Every variable keeps its type: what run_forward, the portfolios and the *)
(* tables of 005_simulation.sql may hold.                                  *)
TypeOK ==
  /\ mid \in [Markets -> Mids]
  /\ phase \in [Markets -> {"live", "ended", "closed"}]
  /\ now \in Time
  /\ stop \in BOOLEAN
  /\ rows \in [Ids -> Row]
  /\ lastId \in 0..MaxTrades
  /\ runs \in [Runs -> [status : {"absent", "active", "ended"},
                        started : Time, ended : Time]]
  /\ pc \in {"down", "load", "idle", "rank", "item", "close", "save", "shutdown"}
  /\ run \in 0..MaxRuns
  /\ open \in [Keys -> OpenPosition \union {NoPos}]
  /\ lastEntry \in [Keys -> Time \union {-1}]
  /\ outcomes \in [Markets -> Outcome]
  /\ signals \in Seq(Signals)
  /\ at \in 1..Len(ProfileSeq)
  /\ tickTs \in Time
  /\ closes \subseteq ClosedTrade
  /\ faults \in 0..MaxFaults

Backs(row, k, pos) ==
  /\ row.status = "open" /\ KeyOf(row) = k
  /\ row.direction = pos.direction
  /\ row.entry = pos.entry
  /\ row.opened = pos.opened

(* Whatever calls fail and whenever the process dies, a position in memory *)
(* that has a trade_id has an open row behind it with the same terms, and  *)
(* a close about to be written (close_trade) is the only one for its row.  *)
MemoryBacked ==
  /\ \A k \in Keys : open[k] # NoPos /\ open[k].id # 0 =>
       Backs(rows[open[k].id], k, open[k])
  /\ \A ct \in closes : ct.id # 0 =>
       /\ rows[ct.id].status = "open"
       /\ \A k \in Keys : open[k] # NoPos => open[k].id # ct.id
       /\ \A other \in closes : other.id = ct.id => other = ct

(* What pc says about the rest of the runner's memory.                     *)
Control ==
  /\ pc \in {"close", "save"} => signals # <<>>
  /\ pc \notin {"close", "shutdown"} => closes = {}
  /\ pc = "close" => \A ct, other \in closes : ct = other
  /\ pc \in {"down", "load", "shutdown"} => open = Fresh
  /\ pc # "down" => run \in Runs /\ runs[run].status = "active"

(* Rows are numbered without gaps, and each belongs to a market and a run. *)
Numbered ==
  \A i \in Ids :
    /\ i <= lastId <=> rows[i].status # "absent"
    /\ rows[i].status # "absent" => rows[i].market \in Markets /\ rows[i].run \in Runs
    /\ rows[i].status = "closed" => rows[i].reason \in Reason

(* The inductive invariant behind every safety theorem of the runner.      *)
IndInv == TypeOK /\ Control /\ Numbered /\ MemoryBacked

(* While the runner works and no call has failed, every open row is held   *)
(* in memory or is about to be closed: none is left that no tick, reversal *)
(* or shutdown would ever close.                                           *)
Covered ==
  faults = 0 /\ pc \notin {"down", "load"} =>
    \A i \in Ids : rows[i].status = "open" =>
      \/ \E ct \in closes : ct.id = i
      \/ open[KeyOf(rows[i])] # NoPos /\ open[KeyOf(rows[i])].id = i

(* A profile never has two open rows on one market, across crashes and     *)
(* restarts (sim/types.py: max_open_per_market is 1).                      *)
OneOpenRowPerKey ==
  \A i, j \in Ids :
    rows[i].status = "open" /\ rows[j].status = "open"
      /\ KeyOf(rows[i]) = KeyOf(rows[j]) => i = j

(* A run that has its ended_at has no open row left: the bulk close of the *)
(* shutdown reaches everything the run, or a crashed one before it, opened.*)
FinishedRunLeavesNothingOpen ==
  \A i \in Ids : rows[i].status = "open" => runs[rows[i].run].status # "ended"

(* Two entries of a run on one profile and market are at least the         *)
(* profile's cooldown apart, however the first was closed.                 *)
CooldownWithinRun ==
  \A i, j \in Ids :
    i < j /\ rows[j].status # "absent" /\ rows[i].run = rows[j].run
      /\ KeyOf(rows[i]) = KeyOf(rows[j]) =>
        rows[j].opened - rows[i].opened >= Thresholds[rows[j].profile].cooldown

(* A binary share never loses more than its stake, nor wins more than the  *)
(* rest of the dollar, whichever exit wrote pnl_cents.                     *)
LossBoundedByStake ==
  \A i \in Ids : rows[i].status = "closed" =>
    LET stake == IF rows[i].direction = "buy" THEN rows[i].entry
                                              ELSE 100 - rows[i].entry
    IN  -stake <= rows[i].pnl /\ rows[i].pnl <= 100 - stake

(* A closed row is never written again: no crash, adoption, late exit or   *)
(* shutdown changes a recorded result (close_trade has no status guard).   *)
ClosedIsFinal ==
  [][\A i \in Ids : rows[i].status = "closed" => rows'[i] = rows[i]]_vars

(* No row is opened on a market that the tick's outcomes show as settled,  *)
(* not even by the retry of an insert that had failed.                     *)
NoEntryAfterSettled ==
  [][\A i \in Ids : rows[i].status = "absent" /\ rows'[i].status # "absent" =>
       outcomes[rows'[i].market] = "unknown"]_vars

(* A run that is told to stop, or reaches its planned end, comes to an     *)
(* end, whatever the tick in progress finds and whichever calls fail.      *)
RunEnds == pc # "down" /\ (stop \/ Due) ~> pc = "down"

(* The table as the abstract ledger sees it.                               *)
LedgerTrade(row) ==
  LET terms == [direction |-> row.direction, entry |-> row.entry,
                opened |-> row.opened, run |-> row.run]
  IN  CASE row.status = "absent" -> [status |-> "absent"]
        [] row.status = "open" ->
             [status |-> "open", key |-> KeyOf(row), terms |-> terms]
        [] row.status = "closed" ->
             [status |-> "closed", key |-> KeyOf(row), terms |-> terms,
              result |-> [reason |-> row.reason, pnl |-> row.pnl]]

Ledger == INSTANCE TradeLedger WITH
  Entries   <- Ids,
  Terms     <- [direction : Direction, entry : Price, opened : Time, run : Runs],
  Results   <- [reason : Reason, pnl : Int],
  Exclusive <- MaxFaults = 0,
  trades    <- [i \in Ids |-> LedgerTrade(rows[i])]

(* The runner implements the ledger: exclusive per key as long as no call  *)
(* fails, and a ledger of once-opened, once-closed trades even then.       *)
ImplementsLedger == Ledger!Spec
=============================================================================
