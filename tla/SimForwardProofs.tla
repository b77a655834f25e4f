-------------------------- MODULE SimForwardProofs --------------------------
(***************************************************************************)
(* What SimForward guarantees for every set of profiles, markets, signals  *)
(* and prices, every bound and every number of failing calls.              *)
(***************************************************************************)
EXTENDS SimForward, TLAPS

-----------------------------------------------------------------------------
(* Facts about the pure rules and the constants.                           *)

(* A signal names a side, and its profit is a whole number of cents.       *)
LEMMA RulesTyped ==
  /\ \A e \in Int : trade_direction(e) \in Direction
  /\ \A x \in Int : outcome_from_final_mid(x) \in Outcome
  /\ \A e \in Price, d \in Direction, o \in Outcome :
       compute_pnl_cents(e, d, o) \in Int
  /\ \A e, x \in Price, d \in Direction : mtm_pnl_cents(e, x, d) \in Int
BY DEF trade_direction, outcome_from_final_mid, compute_pnl_cents,
       mtm_pnl_cents, Price, Direction, Outcome

LEMMA SignalFields ==
  ASSUME NEW s \in Signals
  PROVE  /\ s.market \in Markets /\ s.price \in Price /\ s.edge \in Int
<1>1. s \in Signal
  BY SimAssumption
<1> QED
  BY <1>1 DEF Signal

(* The signal and the portfolio a step works on are of the right kind.     *)
LEMMA CurrentTyped ==
  ASSUME TypeOK, signals # <<>>
  PROVE  /\ Sig \in Signals /\ Sig.market \in Markets /\ Sig.price \in Price
         /\ Sig.edge \in Int
         /\ Pf \in Profiles /\ Key \in Keys
         /\ Tail(signals) \in Seq(Signals)
<1>1. Sig \in Signals /\ Tail(signals) \in Seq(Signals)
  BY DEF TypeOK, Sig
<1>3. Pf \in Profiles
  BY SimAssumption DEF TypeOK, Pf
<1>4. Sig.market \in Markets /\ Sig.price \in Price /\ Sig.edge \in Int
  BY <1>1, SignalFields
<1>5. Key \in Keys
  BY <1>3, <1>4 DEF Key, Keys
<1> QED
  BY <1>1, <1>3, <1>4, <1>5

-----------------------------------------------------------------------------
(* Type correctness.                                                       *)

LEMMA BoundsTyped ==
  /\ MaxTime \in Nat /\ MaxTrades \in Nat /\ MaxRuns \in Nat
  /\ MaxFaults \in Nat
  /\ Len(ProfileSeq) \in Nat \ {0} /\ ProfileSeq[1] \in Profiles
BY SimAssumption

LEMMA CloseTyped ==
  ASSUME TypeOK, NEW ct \in closes
  PROVE  RowsAfterClose(ct) \in [Ids -> Row]
<1>1. ct.id \in 0..MaxTrades /\ ct.reason \in Reason /\ ct.pnl \in Int
  BY DEF TypeOK, ClosedTrade
<1>2. CASE ct.id = 0
  BY <1>2 DEF TypeOK, RowsAfterClose
<1>3. CASE ct.id # 0
  <2>1. ct.id \in Ids /\ rows[ct.id] \in Row
    BY <1>1, <1>3, BoundsTyped DEF TypeOK, Ids
  <2>2. [rows[ct.id] EXCEPT !.status = "closed", !.reason = ct.reason,
                            !.pnl = ct.pnl] \in Row
    BY <1>1, <2>1 DEF Row
  <2>3. RowsAfterClose(ct) =
          [rows EXCEPT ![ct.id] = [rows[ct.id] EXCEPT !.status = "closed",
                                     !.reason = ct.reason, !.pnl = ct.pnl]]
    BY <1>3, <2>1 DEF TypeOK, RowsAfterClose
  <2> QED
    BY <2>1, <2>2, <2>3 DEF TypeOK
<1> QED
  BY <1>2, <1>3

LEMMA InsertTyped ==
  ASSUME TypeOK, signals # <<>>, Unsaved, lastId < MaxTrades
  PROVE  /\ RowsAfterInsert \in [Ids -> Row]
         /\ lastId + 1 \in Ids
<1>1. lastId + 1 \in Ids
  BY BoundsTyped DEF TypeOK, Ids
<1>2. Pf \in Profiles /\ Sig.market \in Markets /\ Pos \in OpenPosition
  BY CurrentTyped DEF TypeOK, Unsaved, Held, Pos
<1>3. [status |-> "open", profile |-> Pf, market |-> Sig.market, run |-> run,
       direction |-> Pos.direction, entry |-> Pos.entry, opened |-> Pos.opened,
       reason |-> "none", pnl |-> 0] \in Row
  BY <1>2 DEF TypeOK, Row, OpenPosition
<1> QED
  BY <1>1, <1>3 DEF TypeOK, RowsAfterInsert


LEMMA InitTyped == Init => TypeOK
<1> SUFFICES ASSUME Init PROVE TypeOK
  OBVIOUS
<1>1. NoRow \in Row
  BY BoundsTyped DEF NoRow, Row, Direction, Price, Time
<1>2. NoRun \in [status : {"absent", "active", "ended"}, started : Time, ended : Time]
  BY BoundsTyped DEF NoRun, Time
<1>3. now \in Time
  BY BoundsTyped DEF Init, Time
<1>3a. stop \in BOOLEAN /\ mid \in [Markets -> Mids]
  BY DEF Init
<1>4. phase \in [Markets -> {"live", "ended", "closed"}]
  BY DEF Init
<1>5. rows \in [Ids -> Row] /\ lastId \in 0..MaxTrades
  BY <1>1, BoundsTyped DEF Init
<1>6. runs \in [Runs -> [status : {"absent", "active", "ended"},
                        started : Time, ended : Time]]
  BY <1>2 DEF Init
<1>7. run \in 0..MaxRuns /\ faults \in 0..MaxFaults /\ tickTs \in Time
  BY BoundsTyped DEF Init, Time
<1>8. open \in [Keys -> OpenPosition \union {NoPos}]
      /\ lastEntry \in [Keys -> Time \union {-1}]
  BY DEF Init, Fresh, Never
<1>9. outcomes \in [Markets -> Outcome]
  BY DEF Init, Unresolved, Outcome
<1>10. signals \in Seq(Signals) /\ at \in 1..Len(ProfileSeq) /\ closes \subseteq ClosedTrade
  BY BoundsTyped DEF Init
<1> QED
  BY <1>3, <1>3a, <1>4, <1>5, <1>6, <1>7, <1>8, <1>9, <1>10 DEF Init, TypeOK

LEMMA NextItemTyped ==
  ASSUME TypeOK, signals # <<>>, NextItem
  PROVE  at' \in 1..Len(ProfileSeq) /\ signals' \in Seq(Signals)
<1>1. at \in 1..Len(ProfileSeq) /\ signals \in Seq(Signals)
  BY DEF TypeOK
<1>2. CASE at < Len(ProfileSeq)
  BY <1>1, <1>2, BoundsTyped DEF NextItem
<1>3. CASE ~(at < Len(ProfileSeq))
  BY <1>1, <1>3, CurrentTyped, BoundsTyped DEF NextItem
<1> QED
  BY <1>2, <1>3

LEMMA TryEnterTyped ==
  ASSUME TypeOK, signals # <<>>,
         NEW book \in [Keys -> OpenPosition \union {NoPos}], try_enter(book)
  PROVE  /\ open' \in [Keys -> OpenPosition \union {NoPos}]
         /\ lastEntry' \in [Keys -> Time \union {-1}]
<1>1. [id |-> 0, direction |-> trade_direction(Sig.edge), entry |-> Sig.price,
       opened |-> tickTs] \in OpenPosition
  <2>1. trade_direction(Sig.edge) \in Direction /\ Sig.price \in Price
    BY CurrentTyped, RulesTyped
  <2>2. tickTs \in Time /\ 0 \in 0..MaxTrades
    BY BoundsTyped DEF TypeOK
  <2> QED
    BY <2>1, <2>2 DEF OpenPosition
<1>2. tickTs \in Time
  BY DEF TypeOK
<1>3. CASE Enters(book)
  BY <1>1, <1>2, <1>3, CurrentTyped DEF try_enter, TypeOK
<1>4. CASE ~Enters(book)
  BY <1>4 DEF try_enter, TypeOK
<1> QED
  BY <1>3, <1>4

LEMMA PoppedTyped == TypeOK => Popped \in [Keys -> OpenPosition \union {NoPos}]
BY DEF TypeOK, Popped

(* The close that process_signal returns for a held position.              *)
LEMMA SignalCloseTyped ==
  ASSUME TypeOK, signals # <<>>, Held
  PROVE  /\ Pos \in OpenPosition
         /\ compute_pnl_cents(Pos.entry, Pos.direction, outcomes[Sig.market]) \in Int
         /\ mtm_pnl_cents(Pos.entry, Sig.price, Pos.direction) \in Int
<1>1. Pos \in OpenPosition
  BY CurrentTyped DEF TypeOK, Held, Pos
<1>2. Pos.entry \in Price /\ Pos.direction \in Direction
  BY <1>1 DEF OpenPosition
<1>3. outcomes[Sig.market] \in Outcome
  BY CurrentTyped DEF TypeOK
<1> QED
  BY <1>1, <1>2, <1>3, CurrentTyped, RulesTyped


LEMMA NextTyped ==
  ASSUME TypeOK, Control, [Next]_vars
  PROVE  TypeOK'
<1> USE DEF TypeOK
<1>1. CASE World
  <2>1. ASSUME NEW m \in Markets, Quote(m) PROVE TypeOK'
    BY <2>1 DEF Quote, db, memory
  <2>2. ASSUME NEW m \in Markets, EndDatePasses(m) PROVE TypeOK'
    BY <2>2 DEF EndDatePasses, db, memory
  <2>3. ASSUME NEW m \in Markets, CloseMarket(m) PROVE TypeOK'
    BY <2>3 DEF CloseMarket, db, memory
  <2>4. CASE Advance
    BY <2>4, BoundsTyped DEF Advance, db, memory, Time
  <2>5. CASE StopSignal
    BY <2>5 DEF StopSignal, db, memory
  <2> QED
    BY <1>1, <2>1, <2>2, <2>3, <2>4, <2>5 DEF World
<1>2. CASE CreateRun
  <2>1. run + 1 \in Runs /\ run + 1 \in 0..MaxRuns /\ 0 \in Time
    BY <1>2, BoundsTyped DEF CreateRun, Runs, Time
  <2>2. [status |-> "active", started |-> now, ended |-> 0] \in
          [status : {"absent", "active", "ended"}, started : Time, ended : Time]
    BY <2>1
  <2>3. runs' \in [Runs -> [status : {"absent", "active", "ended"},
                            started : Time, ended : Time]]
    BY <1>2, <2>1, <2>2 DEF CreateRun
  <2> QED
    BY <1>2, <2>1, <2>3 DEF CreateRun
<1>3. CASE LoadOpen
  <2>1. open' \in [Keys -> OpenPosition \union {NoPos}]
    <3>1. PICK row \in [Keys -> 0..MaxTrades] :
            open' = [k \in Keys |->
                     IF row[k] = 0 THEN NoPos
                     ELSE [id |-> row[k], direction |-> rows[row[k]].direction,
                           entry |-> rows[row[k]].entry,
                           opened |-> rows[row[k]].opened]]
      BY <1>3 DEF LoadOpen
    <3>2. ASSUME NEW k \in Keys, row[k] # 0
          PROVE  [id |-> row[k], direction |-> rows[row[k]].direction,
                  entry |-> rows[row[k]].entry,
                  opened |-> rows[row[k]].opened] \in OpenPosition
      <4>1. row[k] \in 0..MaxTrades /\ row[k] \in Ids
        BY <3>2, BoundsTyped DEF Ids
      <4>2. rows[row[k]] \in Row
        BY <4>1
      <4> QED
        BY <4>1, <4>2 DEF Row, OpenPosition
    <3> QED
      BY <3>1, <3>2
  <2>2. lastEntry' \in [Keys -> Time \union {-1}]
    BY <1>3 DEF LoadOpen, Never
  <2> QED
    BY <1>3, <2>1, <2>2 DEF LoadOpen, world, db
<1>4. CASE Tick
  <2>1. CASE BeginTick
    <3>1. \A m \in Markets : mid[m] \in Int
      <4>1. Mids \subseteq Price
        BY SimAssumption
      <4>2. Price \subseteq Int
        BY DEF Price
      <4> QED
        BY <4>1, <4>2
    <3>2. outcomes' \in [Markets -> Outcome]
      BY <2>1, <3>1, RulesTyped DEF BeginTick, Outcome
    <3> QED
      BY <2>1, <3>2 DEF BeginTick, world, db
  <2>2. CASE ReadPicks
    <3>1. signals' \in Seq(Signals)
      <4>1. PICK n \in 0..MaxPicks : \E picks \in [1..n -> Signals] : signals' = picks
        BY <2>2 DEF ReadPicks
      <4>2. n \in Nat
        BY SimAssumption
      <4> QED
        BY <4>1, <4>2
    <3> QED
      BY <2>2, <3>1, BoundsTyped DEF ReadPicks, world, db
  <2>3. CASE SkipSettled
    BY <2>3, NextItemTyped DEF SkipSettled, Processing, world, db
  <2>4. CASE CloseSettled
    <3>1. closes' \subseteq ClosedTrade
      BY <2>4, SignalCloseTyped
      DEF CloseSettled, Processing, ClosedTrade, OpenPosition, Reason
    <3> QED
      BY <2>4, <3>1, PoppedTyped DEF CloseSettled, world, db
  <2>5. CASE CloseBySignal
    <3>1. closes' \subseteq ClosedTrade
      BY <2>5, SignalCloseTyped
      DEF CloseBySignal, Processing, ClosedTrade, OpenPosition, Reason
    <3>2. signals # <<>> /\ try_enter(Popped)
      BY <2>5 DEF CloseBySignal, Processing
    <3> QED
      BY <2>5, <3>1, <3>2, PoppedTyped, TryEnterTyped DEF CloseBySignal, world, db
  <2>6. CASE EnterOrHold
    <3>1. signals # <<>> /\ try_enter(open)
      BY <2>6 DEF EnterOrHold, Processing
    <3> QED
      BY <2>6, <3>1, TryEnterTyped DEF EnterOrHold, world, db
  <2>7. CASE WriteClose
    BY <2>7, CloseTyped DEF WriteClose, world
  <2>8. CASE WriteOpen
    <3>1. signals # <<>> /\ Unsaved /\ lastId < MaxTrades
      BY <2>8 DEF WriteOpen, Control
    <3>2. open' \in [Keys -> OpenPosition \union {NoPos}]
      <4>1. Pos \in OpenPosition /\ Key \in Keys /\ Pos = open[Key]
        BY <3>1, SignalCloseTyped, CurrentTyped DEF Unsaved, Pos
      <4>2. [open[Key] EXCEPT !.id = lastId + 1] \in OpenPosition
        BY <4>1, <3>1, InsertTyped DEF OpenPosition, Ids
      <4>3. open' = [open EXCEPT ![Key] = [open[Key] EXCEPT !.id = lastId + 1]]
        BY <2>8, <4>1 DEF WriteOpen
      <4> QED
        BY <4>1, <4>2, <4>3
    <3>3. lastId' \in 0..MaxTrades
      BY <2>8, <3>1, BoundsTyped DEF WriteOpen
    <3> QED
      BY <2>8, <3>1, <3>2, <3>3, InsertTyped, NextItemTyped DEF WriteOpen, world
  <2>9. CASE NothingToSave
    BY <2>9, NextItemTyped DEF NothingToSave, Control, world, db
  <2>10. CASE EndTick
    BY <2>10, BoundsTyped DEF EndTick, LeaveTick, world, db, Time
  <2> QED
    BY <1>4, <2>1, <2>2, <2>3, <2>4, <2>5, <2>6, <2>7, <2>8, <2>9, <2>10 DEF Tick
<1>5. CASE Shutdown
  <2>1. CASE BeginShutdown
    <3>1. closes' \subseteq ClosedTrade
      <4>1. ASSUME NEW k \in Keys, open[k] # NoPos
            PROVE  [id |-> open[k].id, reason |-> "forward_shutdown",
                    pnl |-> mtm_pnl_cents(open[k].entry, mid[k[2]],
                                          open[k].direction)] \in ClosedTrade
        <5>1. open[k] \in OpenPosition
          BY <4>1
        <5>2. k[2] \in Markets /\ mid[k[2]] \in Price
          BY SimAssumption DEF Keys
        <5>3. mtm_pnl_cents(open[k].entry, mid[k[2]], open[k].direction) \in Int
          BY <5>1, <5>2, RulesTyped DEF OpenPosition
        <5> QED
          BY <5>1, <5>3 DEF OpenPosition, ClosedTrade, Reason
      <4> QED
        BY <2>1, <4>1 DEF BeginShutdown
    <3> QED
      BY <2>1, <3>1 DEF BeginShutdown, Fresh, world, db
  <2>2. CASE BulkClose
    BY <2>2, CloseTyped DEF BulkClose, world
  <2>3. CASE FinishRun
    <3>1. run \in Runs
      BY <2>3 DEF FinishRun, Control
    <3>2. [runs[run] EXCEPT !.status = "ended", !.ended = now] \in
            [status : {"absent", "active", "ended"}, started : Time, ended : Time]
      BY <3>1
    <3>3. runs' = [runs EXCEPT ![run] =
                     [runs[run] EXCEPT !.status = "ended", !.ended = now]]
      BY <2>3, <3>1 DEF FinishRun
    <3>4. runs' \in [Runs -> [status : {"absent", "active", "ended"},
                              started : Time, ended : Time]]
      BY <3>1, <3>2, <3>3
    <3> QED
      BY <2>3, <3>4, BoundsTyped
      DEF FinishRun, Forget, Fresh, Never, Unresolved, Outcome, world, Time
  <2> QED
    BY <1>5, <2>1, <2>2, <2>3 DEF Shutdown
<1>6. CASE Faults
  <2>1. CASE OutcomesUnread
    BY <2>1, BoundsTyped DEF OutcomesUnread, Fault, Unresolved, Outcome, world, db
  <2>2. CASE CallFails
    BY <2>2, BoundsTyped DEF CallFails, Fault, LeaveTick, world, db, Time
  <2>3. CASE CloseAnswerLost
    BY <2>3, BoundsTyped, CloseTyped DEF CloseAnswerLost, Fault, LeaveTick, world, Time
  <2>4. CASE OpenAnswerLost
    BY <2>4, BoundsTyped, InsertTyped
    DEF OpenAnswerLost, Control, Fault, LeaveTick, world, Time
  <2> QED
    BY <1>6, <2>1, <2>2, <2>3, <2>4 DEF Faults
<1>7. CASE Crash
  BY <1>7, BoundsTyped
  DEF Crash, Forget, Fresh, Never, Unresolved, Outcome, world, db, Time
<1>8. CASE UNCHANGED vars
  BY <1>8 DEF vars, world, db, memory
<1> QED
  BY <1>1, <1>2, <1>3, <1>4, <1>5, <1>6, <1>7, <1>8 DEF Next


-----------------------------------------------------------------------------
(* The control invariant: each step leaves memory as its pc' promises.     *)

LEMMA InitControl == Init => Control /\ Numbered /\ MemoryBacked
<1>1. Init => Control
  BY DEF Init, Control
<1>2. Init => Numbered
  BY BoundsTyped DEF Init, Numbered, NoRow, Ids
<1>3. Init => MemoryBacked
  BY DEF Init, MemoryBacked, Fresh
<1> QED
  BY <1>1, <1>2, <1>3

LEMMA NextControl ==
  ASSUME TypeOK, Control, [Next]_vars
  PROVE  Control'
<1> USE DEF Control
<1>1. CASE World
  BY <1>1 DEF World, Quote, EndDatePasses, CloseMarket, Advance, StopSignal,
              db, memory, Fresh
<1>2. CASE CreateRun
  <2>1. run + 1 \in Runs
    BY <1>2, BoundsTyped DEF CreateRun, Runs, TypeOK
  <2>2. runs'[run + 1].status = "active"
    BY <1>2, <2>1 DEF CreateRun, TypeOK
  <2>3. open = Fresh /\ closes = {}
    BY <1>2 DEF CreateRun
  <2> QED
    BY <1>2, <2>1, <2>2, <2>3 DEF CreateRun, Fresh
<1>3. CASE LoadOpen
  BY <1>3 DEF LoadOpen, db
<1>4. CASE Tick
  <2>1. CASE BeginTick \/ ReadPicks \/ SkipSettled \/ EnterOrHold
    BY <2>1 DEF BeginTick, ReadPicks, SkipSettled, EnterOrHold, Processing, db
  <2>2. CASE CloseSettled \/ CloseBySignal
    BY <2>2 DEF CloseSettled, CloseBySignal, Processing, db
  <2>3. CASE WriteClose \/ WriteOpen \/ NothingToSave \/ EndTick
    BY <2>3 DEF WriteClose, WriteOpen, NothingToSave, EndTick, LeaveTick, db
  <2> QED
    BY <1>4, <2>1, <2>2, <2>3 DEF Tick
<1>5. CASE Shutdown
  <2>1. CASE BeginShutdown
    BY <2>1 DEF BeginShutdown, Fresh, db
  <2>2. CASE BulkClose
    BY <2>2 DEF BulkClose, Fresh
  <2>3. CASE FinishRun
    BY <2>3 DEF FinishRun, Forget, Fresh
  <2> QED
    BY <1>5, <2>1, <2>2, <2>3 DEF Shutdown
<1>6. CASE Faults
  BY <1>6 DEF Faults, OutcomesUnread, CallFails, CloseAnswerLost, OpenAnswerLost,
              LeaveTick, db
<1>7. CASE Crash
  BY <1>7 DEF Crash, Forget, Fresh
<1>8. CASE UNCHANGED vars
  BY <1>8 DEF vars, world, db, memory, Fresh
<1> QED
  BY <1>1, <1>2, <1>3, <1>4, <1>5, <1>6, <1>7, <1>8 DEF Next

-----------------------------------------------------------------------------
(* What the writes do to the table.                                        *)

(* A close changes at most the row it names, and that one only in its      *)
(* status, reason and profit.                                              *)
LEMMA CloseEffect ==
  ASSUME TypeOK, MemoryBacked, NEW ct \in closes, rows' = RowsAfterClose(ct)
  PROVE  /\ ct.id = 0 => rows' = rows
         /\ ct.id # 0 =>
              /\ ct.id \in Ids
              /\ rows[ct.id].status = "open"
              /\ rows'[ct.id] = [rows[ct.id] EXCEPT !.status = "closed",
                                   !.reason = ct.reason, !.pnl = ct.pnl]
         /\ \A i \in Ids : i # ct.id => rows'[i] = rows[i]
<1>1. CASE ct.id = 0
  BY <1>1 DEF RowsAfterClose
<1>2. CASE ct.id # 0
  <2>1. ct.id \in Ids /\ rows[ct.id].status = "open"
    BY <1>2, BoundsTyped DEF TypeOK, ClosedTrade, Ids, MemoryBacked
  <2>2. rows[ct.id] \in Row /\ rows \in [Ids -> Row]
    BY <2>1 DEF TypeOK
  <2>3. rows' = [rows EXCEPT ![ct.id] = [rows[ct.id] EXCEPT !.status = "closed",
                                           !.reason = ct.reason, !.pnl = ct.pnl]]
    BY <1>2, <2>1 DEF TypeOK, RowsAfterClose
  <2> QED
    BY <1>2, <2>1, <2>2, <2>3
<1> QED
  BY <1>1, <1>2

(* An insert takes the next free number and leaves the other rows alone.   *)
LEMMA InsertEffect ==
  ASSUME TypeOK, Numbered, signals # <<>>, Unsaved, lastId < MaxTrades,
         rows' = RowsAfterInsert
  PROVE  /\ lastId + 1 \in Ids
         /\ rows[lastId + 1].status = "absent"
         /\ rows'[lastId + 1] =
              [status |-> "open", profile |-> Pf, market |-> Sig.market,
               run |-> run, direction |-> Pos.direction, entry |-> Pos.entry,
               opened |-> Pos.opened, reason |-> "none", pnl |-> 0]
         /\ KeyOf(rows'[lastId + 1]) = Key
         /\ \A i \in Ids : i # lastId + 1 => rows'[i] = rows[i]
<1>1. lastId + 1 \in Ids /\ rows \in [Ids -> Row] /\ lastId \in Int
  BY InsertTyped, BoundsTyped DEF TypeOK
<1>2. rows[lastId + 1].status = "absent"
  <2>1. ~(lastId + 1 <= lastId)
    BY <1>1
  <2>2. rows[lastId + 1].status \in {"absent", "open", "closed"}
    BY <1>1 DEF Row
  <2> QED
    BY <1>1, <2>1, <2>2 DEF Numbered
<1> QED
  BY <1>1, <1>2 DEF RowsAfterInsert, KeyOf, Key


-----------------------------------------------------------------------------
(* The rows stay numbered.                                                 *)

LEMMA CloseNumbered ==
  ASSUME TypeOK, Numbered, MemoryBacked, NEW ct \in closes,
         rows' = RowsAfterClose(ct), lastId' = lastId
  PROVE  Numbered'
<1> SUFFICES ASSUME NEW i \in Ids
             PROVE  /\ i <= lastId <=> rows'[i].status # "absent"
                    /\ rows'[i].status # "absent" =>
                         rows'[i].market \in Markets /\ rows'[i].run \in Runs
                    /\ rows'[i].status = "closed" => rows'[i].reason \in Reason
  BY DEF Numbered
<1>1. CASE ct.id # 0 /\ i = ct.id
  <2>1. rows[i] \in Row /\ ct.reason \in Reason
    BY DEF TypeOK, ClosedTrade
  <2> QED
    BY <1>1, <2>1, CloseEffect DEF Numbered, Row
<1>2. CASE ct.id = 0 \/ i # ct.id
  BY <1>2, CloseEffect DEF Numbered
<1> QED
  BY <1>1, <1>2

LEMMA InsertNumbered ==
  ASSUME TypeOK, Numbered, signals # <<>>, Unsaved, lastId < MaxTrades,
         run \in Runs, rows' = RowsAfterInsert, lastId' = lastId + 1
  PROVE  Numbered'
<1> SUFFICES ASSUME NEW i \in Ids
             PROVE  /\ i <= lastId + 1 <=> rows'[i].status # "absent"
                    /\ rows'[i].status # "absent" =>
                         rows'[i].market \in Markets /\ rows'[i].run \in Runs
                    /\ rows'[i].status = "closed" => rows'[i].reason \in Reason
  BY DEF Numbered
<1>1. CASE i = lastId + 1
  BY <1>1, InsertEffect, CurrentTyped
<1>2. CASE i # lastId + 1
  <2>1. i \in Int /\ lastId \in Int
    BY DEF Ids, TypeOK
  <2>2. i <= lastId + 1 <=> i <= lastId
    BY <1>2, <2>1
  <2> QED
    BY <1>2, <2>2, InsertEffect DEF Numbered
<1> QED
  BY <1>1, <1>2

LEMMA NextNumbered ==
  ASSUME TypeOK, Control, Numbered, MemoryBacked, [Next]_vars
  PROVE  Numbered'
<1>1. CASE UNCHANGED <<rows, lastId>>
  BY <1>1 DEF Numbered
<1>2. CASE WriteClose \/ BulkClose \/ CloseAnswerLost
  BY <1>2, CloseNumbered DEF WriteClose, BulkClose, CloseAnswerLost
<1>3. CASE WriteOpen \/ OpenAnswerLost
  <2>1. signals # <<>> /\ run \in Runs
    BY <1>3 DEF WriteOpen, OpenAnswerLost, Control
  <2> QED
    BY <1>3, <2>1, InsertNumbered DEF WriteOpen, OpenAnswerLost
<1>4. CASE World \/ CreateRun \/ LoadOpen \/ Crash \/ UNCHANGED vars
  BY <1>1, <1>4 DEF World, Quote, EndDatePasses, CloseMarket, Advance, StopSignal,
                    CreateRun, LoadOpen, Crash, vars, db
<1>5. CASE \/ BeginTick \/ ReadPicks \/ SkipSettled \/ CloseSettled
           \/ CloseBySignal \/ EnterOrHold \/ NothingToSave \/ EndTick
  BY <1>1, <1>5 DEF BeginTick, ReadPicks, SkipSettled, CloseSettled,
                    CloseBySignal, EnterOrHold, NothingToSave, EndTick, db
<1>6. CASE BeginShutdown \/ FinishRun \/ OutcomesUnread \/ CallFails
  BY <1>1, <1>6 DEF BeginShutdown, FinishRun, OutcomesUnread, CallFails, db
<1> QED
  BY <1>2, <1>3, <1>4, <1>5, <1>6 DEF Next, Tick, Shutdown, Faults

-----------------------------------------------------------------------------
(* Positions in memory and closes under way keep their rows.               *)

(* A key that differs holds a different row: the row names its key.        *)
LEMMA BackedApart ==
  ASSUME TypeOK, MemoryBacked,
         NEW j \in Keys, NEW k \in Keys,
         open[j] # NoPos, open[j].id # 0, open[k] # NoPos, open[k].id = open[j].id
  PROVE  j = k
BY DEF MemoryBacked, Backs

(* A row that is neither written by a close nor absent keeps backing.      *)
LEMMA OtherRowsBack ==
  ASSUME TypeOK, MemoryBacked, NEW k \in Keys, open[k] # NoPos, open[k].id # 0
  PROVE  open[k].id \in Ids /\ rows[open[k].id].status = "open"
<1>1. open[k] \in OpenPosition
  BY DEF TypeOK
<1>2. open[k].id \in Ids
  BY <1>1, BoundsTyped DEF OpenPosition, Ids
<1> QED
  BY <1>2 DEF MemoryBacked, Backs


(* Writing a close disturbs no position and no other close.                *)
LEMMA CloseBacked ==
  ASSUME TypeOK, MemoryBacked, NEW ct \in closes, rows' = RowsAfterClose(ct),
         open' = open, closes' \subseteq closes \ {ct}
  PROVE  MemoryBacked'
<1>1. ASSUME NEW k \in Keys, open[k] # NoPos, open[k].id # 0
      PROVE  Backs(rows[open[k].id], k, open[k])' 
  <2>1. open[k].id # ct.id
    BY <1>1 DEF MemoryBacked
  <2>2. rows'[open[k].id] = rows[open[k].id]
    BY <1>1, <2>1, OtherRowsBack, CloseEffect
  <2> QED
    BY <1>1, <2>2 DEF MemoryBacked, Backs, KeyOf
<1>2. ASSUME NEW c \in closes', c.id # 0
      PROVE  /\ rows'[c.id].status = "open"
             /\ \A k \in Keys : open[k] # NoPos => open[k].id # c.id
             /\ \A other \in closes' : other.id = c.id => other = c
  <2>1. c \in closes /\ c # ct /\ rows[c.id].status = "open" /\ c.id # ct.id
    BY <1>2 DEF MemoryBacked
  <2>2. c.id \in Ids
    BY <1>2, <2>1, BoundsTyped DEF TypeOK, ClosedTrade, Ids
  <2>3. rows'[c.id] = rows[c.id]
    BY <2>1, <2>2, CloseEffect
  <2> QED
    BY <1>2, <2>1, <2>3 DEF MemoryBacked
<1> QED
  BY <1>1, <1>2 DEF MemoryBacked

(* Removing a position and returning its close.                            *)
LEMMA PopBacked ==
  ASSUME TypeOK, Control, MemoryBacked, Processing, Held, rows' = rows,
         NEW reason, NEW pnl,
         closes' = {[id |-> Pos.id, reason |-> reason, pnl |-> pnl]},
         NEW fresh \in OpenPosition, fresh.id = 0,
         open' = Popped \/ open' = [Popped EXCEPT ![Key] = fresh]
  PROVE  MemoryBacked'
<1>1. Key \in Keys /\ Pos = open[Key] /\ Pos # NoPos
  BY CurrentTyped DEF Processing, Held, Pos
<1>2. open \in [Keys -> OpenPosition \union {NoPos}]
  BY DEF TypeOK
<1>3. \A k \in Keys : k # Key => open'[k] = open[k]
  BY <1>1, <1>2 DEF Popped
<1>4. open'[Key] = NoPos \/ open'[Key].id = 0
  BY <1>1, <1>2 DEF Popped
<1>5. ASSUME NEW k \in Keys, open'[k] # NoPos, open'[k].id # 0
      PROVE  Backs(rows[open[k].id], k, open[k])' /\ open'[k].id # Pos.id
  <2>1. k # Key /\ open'[k] = open[k]
    BY <1>3, <1>4, <1>5
  <2>2. open[k].id # Pos.id
    BY <1>1, <1>5, <2>1, BackedApart
  <2> QED
    BY <1>5, <2>1, <2>2 DEF MemoryBacked, Backs, KeyOf
<1>6. ASSUME NEW c \in closes', c.id # 0
      PROVE  /\ rows'[c.id].status = "open"
             /\ \A k \in Keys : open'[k] # NoPos => open'[k].id # c.id
             /\ \A other \in closes' : other.id = c.id => other = c
  <2>1. c.id = Pos.id
    BY <1>6
  <2>2. rows[Pos.id].status = "open"
    BY <1>1, <1>6, <2>1, OtherRowsBack
  <2> QED
    BY <1>5, <1>6, <2>1, <2>2
<1> QED
  BY <1>5, <1>6 DEF MemoryBacked

(* Entering a position that has no row yet.                                *)
LEMMA EnterBacked ==
  ASSUME TypeOK, MemoryBacked, signals # <<>>, rows' = rows, closes' = {},
         try_enter(open)
  PROVE  MemoryBacked'
<1>1. Key \in Keys /\ open \in [Keys -> OpenPosition \union {NoPos}]
  BY CurrentTyped DEF TypeOK
<1>2. \A k \in Keys : open'[k] = open[k] \/ open'[k].id = 0
  BY <1>1 DEF try_enter
<1>3. \A k \in Keys : open'[k] # NoPos /\ open'[k].id # 0 =>
        Backs(rows[open[k].id], k, open[k])'
  BY <1>2 DEF MemoryBacked, Backs, KeyOf
<1> QED
  BY <1>3 DEF MemoryBacked

(* Inserting the row of the current position, whether or not its id comes  *)
(* back.                                                                   *)
LEMMA InsertBacked ==
  ASSUME TypeOK, Numbered, MemoryBacked, signals # <<>>, Unsaved,
         lastId < MaxTrades, rows' = RowsAfterInsert, closes' = {},
         open' = open \/ open' = [open EXCEPT ![Key].id = lastId + 1]
  PROVE  MemoryBacked'
<1>1. /\ Key \in Keys /\ open \in [Keys -> OpenPosition \union {NoPos}]
      /\ Pos = open[Key] /\ Pos \in OpenPosition /\ Pos.id = 0
  BY CurrentTyped, SignalCloseTyped DEF TypeOK, Unsaved, Pos
<1>2. \A k \in Keys : k # Key => open'[k] = open[k]
  BY <1>1
<1>3. \/ open'[Key] = open[Key]
      \/ open'[Key] = [open[Key] EXCEPT !.id = lastId + 1]
  BY <1>1
<1>4. SUFFICES ASSUME NEW k \in Keys, open'[k] # NoPos, open'[k].id # 0
               PROVE  Backs(rows[open[k].id], k, open[k])'
  BY DEF MemoryBacked
<1>5. CASE k # Key
  <2>1. open'[k] = open[k] /\ open[k].id # lastId + 1 /\ open[k].id \in Ids
    BY <1>2, <1>4, <1>5, OtherRowsBack, InsertEffect
  <2>2. rows'[open[k].id] = rows[open[k].id]
    BY <2>1, InsertEffect
  <2> QED
    BY <1>4, <2>1, <2>2 DEF MemoryBacked, Backs, KeyOf
<1>6. CASE k = Key
  <2>1. open'[k] = [open[k] EXCEPT !.id = lastId + 1]
    BY <1>1, <1>3, <1>4, <1>6
  <2>2. /\ open'[k].id = lastId + 1
        /\ open'[k].direction = Pos.direction
        /\ open'[k].entry = Pos.entry /\ open'[k].opened = Pos.opened
    BY <1>1, <1>6, <2>1 DEF OpenPosition
  <2> QED
    BY <1>6, <2>2, InsertEffect DEF Backs, KeyOf
<1> QED
  BY <1>5, <1>6


(* Adopting the open rows.                                                 *)
LEMMA LoadBacked ==
  ASSUME TypeOK, Control, LoadOpen
  PROVE  MemoryBacked'
<1>1. PICK row \in [Keys -> 0..MaxTrades] :
        /\ \A k \in Keys : IF OpenRows(k) = {} THEN row[k] = 0
                                               ELSE row[k] \in OpenRows(k)
        /\ open' = [k \in Keys |->
                      IF row[k] = 0 THEN NoPos
                      ELSE [id |-> row[k], direction |-> rows[row[k]].direction,
                            entry |-> rows[row[k]].entry,
                            opened |-> rows[row[k]].opened]]
  BY DEF LoadOpen
<1>2. rows' = rows /\ closes' = {}
  BY DEF LoadOpen, Control, db
<1>3. SUFFICES ASSUME NEW k \in Keys, open'[k] # NoPos, open'[k].id # 0
               PROVE  Backs(rows[open[k].id], k, open[k])'
  BY <1>2 DEF MemoryBacked
<1>4. row[k] # 0 /\ row[k] \in OpenRows(k)
  BY <1>1, <1>3
<1>5. open'[k] = [id |-> row[k], direction |-> rows[row[k]].direction,
                  entry |-> rows[row[k]].entry, opened |-> rows[row[k]].opened]
  BY <1>1, <1>4
<1> QED
  BY <1>2, <1>4, <1>5 DEF OpenRows, Backs, KeyOf

(* Emptying the book: its closes name different rows.                      *)
LEMMA ShutdownBacked ==
  ASSUME TypeOK, MemoryBacked, BeginShutdown
  PROVE  MemoryBacked'
<1>1. \A k \in Keys : open'[k] = NoPos
  BY DEF BeginShutdown, Fresh
<1>2. rows' = rows
  BY DEF BeginShutdown, db
<1>3. ASSUME NEW c \in closes', c.id # 0
      PROVE  /\ rows'[c.id].status = "open"
             /\ \A other \in closes' : other.id = c.id => other = c
  <2>1. PICK j \in Keys :
          /\ open[j] # NoPos
          /\ c = [id |-> open[j].id, reason |-> "forward_shutdown",
                  pnl |-> mtm_pnl_cents(open[j].entry, mid[j[2]], open[j].direction)]
    BY <1>3 DEF BeginShutdown
  <2>2. open[j].id # 0
    BY <1>3, <2>1
  <2>3. rows'[c.id].status = "open"
    BY <1>2, <2>1, <2>2, OtherRowsBack
  <2>4. ASSUME NEW other \in closes', other.id = c.id PROVE other = c
    <3>1. PICK k \in Keys :
            /\ open[k] # NoPos
            /\ other = [id |-> open[k].id, reason |-> "forward_shutdown",
                        pnl |-> mtm_pnl_cents(open[k].entry, mid[k[2]],
                                              open[k].direction)]
      BY DEF BeginShutdown
    <3>2. open[k].id = open[j].id
      BY <2>1, <2>4, <3>1
    <3>3. j = k
      BY <2>1, <2>2, <3>1, <3>2, BackedApart
    <3> QED
      BY <2>1, <3>1, <3>3
  <2> QED
    BY <2>3, <2>4
<1> QED
  BY <1>1, <1>3 DEF MemoryBacked

(* What process_signal's enter-after-close branch leaves in the book.      *)
LEMMA SignalBacked ==
  ASSUME TypeOK, Control, MemoryBacked, CloseBySignal
  PROVE  MemoryBacked'
<1>1. Processing /\ Held /\ signals # <<>> /\ rows' = rows
  BY DEF CloseBySignal, Processing, db
<1>2. PICK reason, pnl : closes' = {[id |-> Pos.id, reason |-> reason, pnl |-> pnl]}
  BY DEF CloseBySignal
<1> DEFINE new == [id |-> 0, direction |-> trade_direction(Sig.edge),
                   entry |-> Sig.price, opened |-> tickTs]
<1>3. new \in OpenPosition
  <2>1. trade_direction(Sig.edge) \in Direction /\ Sig.price \in Price
    BY <1>1, CurrentTyped, RulesTyped
  <2>2. tickTs \in Time /\ 0 \in 0..MaxTrades
    BY BoundsTyped DEF TypeOK
  <2> QED
    BY <2>1, <2>2 DEF OpenPosition
<1>4. open' = Popped \/ open' = [Popped EXCEPT ![Key] = new]
  BY DEF CloseBySignal, try_enter
<1>5. new.id = 0
  OBVIOUS
<1> HIDE DEF new
<1> QED
  BY <1>1, <1>2, <1>3, <1>4, <1>5, PopBacked

LEMMA NextBacked ==
  ASSUME TypeOK, Control, Numbered, MemoryBacked, [Next]_vars
  PROVE  MemoryBacked'
<1>1. CASE UNCHANGED <<rows, open>> /\ closes' = closes
  BY <1>1 DEF MemoryBacked, Backs, KeyOf
<1>2. CASE UNCHANGED <<rows, open>> /\ closes' = {}
  BY <1>2 DEF MemoryBacked, Backs, KeyOf
<1>3. CASE World \/ CreateRun \/ UNCHANGED vars
  BY <1>1, <1>3 DEF World, Quote, EndDatePasses, CloseMarket, Advance, StopSignal,
                    CreateRun, vars, db, memory
<1>4. CASE LoadOpen
  BY <1>4, LoadBacked
<1>5. CASE \/ BeginTick \/ ReadPicks \/ SkipSettled \/ NothingToSave \/ EndTick
           \/ OutcomesUnread \/ CallFails
  BY <1>1, <1>2, <1>5 DEF BeginTick, ReadPicks, SkipSettled, NothingToSave, EndTick,
                          OutcomesUnread, CallFails, LeaveTick, db
<1>6. CASE CloseSettled
  <2>1. Processing /\ Held /\ signals # <<>> /\ rows' = rows /\ open' = Popped
    BY <1>6 DEF CloseSettled, Processing, db
  <2>2. PICK reason, pnl : closes' = {[id |-> Pos.id, reason |-> reason, pnl |-> pnl]}
    BY <1>6 DEF CloseSettled
  <2>3. [Pos EXCEPT !.id = 0] \in OpenPosition /\ [Pos EXCEPT !.id = 0].id = 0
    BY <2>1, SignalCloseTyped, BoundsTyped DEF OpenPosition
  <2> QED
    BY <2>1, <2>2, <2>3, PopBacked
<1>7. CASE CloseBySignal
  BY <1>7, SignalBacked
<1>8. CASE EnterOrHold
  <2>1. signals # <<>> /\ rows' = rows /\ closes' = {} /\ try_enter(open)
    BY <1>8 DEF EnterOrHold, Processing, Control, db
  <2> QED
    BY <2>1, EnterBacked
<1>9. CASE WriteClose \/ BulkClose \/ CloseAnswerLost
  <2>1. PICK ct \in closes : rows' = RowsAfterClose(ct) /\ closes' \subseteq closes \ {ct}
    BY <1>9 DEF WriteClose, BulkClose, CloseAnswerLost, LeaveTick
  <2>2. open' = open
    BY <1>9 DEF WriteClose, BulkClose, CloseAnswerLost
  <2> QED
    BY <2>1, <2>2, CloseBacked
<1>10. CASE WriteOpen \/ OpenAnswerLost
  <2>1. /\ signals # <<>> /\ Unsaved /\ lastId < MaxTrades
        /\ rows' = RowsAfterInsert /\ closes' = {}
    BY <1>10 DEF WriteOpen, OpenAnswerLost, LeaveTick, Control
  <2>2. open' = open \/ open' = [open EXCEPT ![Key].id = lastId + 1]
    BY <1>10 DEF WriteOpen, OpenAnswerLost
  <2> QED
    BY <2>1, <2>2, InsertBacked
<1>11. CASE BeginShutdown
  BY <1>11, ShutdownBacked
<1>12. CASE FinishRun \/ Crash
  BY <1>12 DEF FinishRun, Crash, Forget, Fresh, MemoryBacked
<1> QED
  BY <1>3, <1>4, <1>5, <1>6, <1>7, <1>8, <1>9, <1>10, <1>11, <1>12
  DEF Next, Tick, Shutdown, Faults

-----------------------------------------------------------------------------
(* The inductive invariant of the runner: types, control, numbering and    *)
(* the agreement of memory with sim_trades, whatever calls fail.           *)
THEOREM InductiveInvariant == Spec => []IndInv
<1>1. Init => IndInv
  BY InitTyped, InitControl DEF IndInv
<1>2. IndInv /\ [Next]_vars => IndInv'
  BY NextTyped, NextControl, NextNumbered, NextBacked DEF IndInv
<1> QED
  BY <1>1, <1>2, PTL DEF Spec

(* Every position the runner holds under a trade_id has its open row, and  *)
(* every close it is about to write has one too, through any failures,     *)
(* crashes and adoptions.                                                  *)
THEOREM PositionsAreBacked == Spec => []MemoryBacked
<1>1. IndInv => MemoryBacked
  BY DEF IndInv
<1> QED
  BY <1>1, InductiveInvariant, PTL

(* A closed trade is never rewritten, although close_trade's UPDATE does   *)
(* not look at the row's status.                                           *)
THEOREM ResultsAreFinal == Spec => ClosedIsFinal
<1> DEFINE Final == \A i \in Ids : rows[i].status = "closed" => rows'[i] = rows[i]
<1>1. IndInv /\ [Next]_vars => [Final]_vars
  <2> SUFFICES ASSUME IndInv, Next, NEW i \in Ids, rows[i].status = "closed"
               PROVE  rows'[i] = rows[i]
    OBVIOUS
  <2> USE DEF IndInv
  <2>1. CASE rows' = rows
    BY <2>1
  <2>2. CASE WriteClose \/ BulkClose \/ CloseAnswerLost
    <3>1. PICK ct \in closes : rows' = RowsAfterClose(ct)
      BY <2>2 DEF WriteClose, BulkClose, CloseAnswerLost
    <3> QED
      BY <3>1, CloseEffect
  <2>3. CASE WriteOpen \/ OpenAnswerLost
    <3>1. signals # <<>> /\ Unsaved /\ lastId < MaxTrades /\ rows' = RowsAfterInsert
      BY <2>3 DEF WriteOpen, OpenAnswerLost, Control
    <3> QED
      BY <3>1, InsertEffect
  <2>4. CASE World \/ CreateRun \/ LoadOpen \/ Crash \/ FinishRun \/ BeginShutdown
    BY <2>1, <2>4 DEF World, Quote, EndDatePasses, CloseMarket, Advance, StopSignal,
                      CreateRun, LoadOpen, Crash, FinishRun, BeginShutdown, db
  <2>5. CASE \/ BeginTick \/ ReadPicks \/ SkipSettled \/ CloseSettled
             \/ CloseBySignal \/ EnterOrHold \/ NothingToSave \/ EndTick
             \/ OutcomesUnread \/ CallFails
    BY <2>1, <2>5 DEF BeginTick, ReadPicks, SkipSettled, CloseSettled, CloseBySignal,
                      EnterOrHold, NothingToSave, EndTick, OutcomesUnread, CallFails, db
  <2> QED
    BY <2>2, <2>3, <2>4, <2>5 DEF Next, Tick, Shutdown, Faults
<1>2. Spec => [][Next]_vars
  BY DEF Spec
<1> QED
  BY <1>1, <1>2, InductiveInvariant, PTL DEF ClosedIsFinal


-----------------------------------------------------------------------------
(* Without a failed call.  No row is then left behind: an open row is      *)
(* always in memory or about to be closed.                                 *)

FaultFree == faults = 0 => OneOpenRowPerKey /\ FinishedRunLeavesNothingOpen

LEMMA FaultsOnlyGrow ==
  ASSUME TypeOK, [Next]_vars, faults' = 0
  PROVE  faults = 0
<1>1. faults \in Nat
  BY BoundsTyped DEF TypeOK
<1>2. CASE Faults
  BY <1>1, <1>2 DEF Faults, OutcomesUnread, CallFails, CloseAnswerLost,
                    OpenAnswerLost, Fault
<1>3. CASE ~Faults
  BY <1>3 DEF Next, World, Quote, EndDatePasses, CloseMarket, Advance, StopSignal,
              CreateRun, LoadOpen, Tick, BeginTick, ReadPicks, SkipSettled,
              CloseSettled, CloseBySignal, EnterOrHold, WriteClose, WriteOpen,
              NothingToSave, EndTick, Shutdown, BeginShutdown, BulkClose, FinishRun,
              Crash, vars
<1> QED
  BY <1>2, <1>3

(* An open row is on a key, and after a close it was open before.          *)
LEMMA OpenRowKeyed ==
  ASSUME TypeOK, Numbered, NEW i \in Ids, rows[i].status = "open"
  PROVE  KeyOf(rows[i]) \in Keys
<1>1. rows[i] \in Row
  BY DEF TypeOK
<1> QED
  BY <1>1 DEF Numbered, Row, KeyOf, Keys

LEMMA CloseCovered ==
  ASSUME TypeOK, MemoryBacked, NEW ct \in closes, rows' = RowsAfterClose(ct),
         NEW i \in Ids, rows'[i].status = "open"
  PROVE  i # ct.id /\ rows'[i] = rows[i]
<1>1. i # ct.id
  <2> SUFFICES ASSUME i = ct.id PROVE FALSE
    OBVIOUS
  <2>1. ct.id # 0
    BY DEF Ids
  <2>2. rows[i] \in Row
    BY DEF TypeOK
  <2>3. rows'[i].status = "closed"
    BY <2>1, <2>2, CloseEffect DEF Row
  <2> QED
    BY <2>3
<1> QED
  BY <1>1, CloseEffect

LEMMA PopCovered ==
  ASSUME IndInv, Covered, faults = 0, Processing, Held, rows' = rows,
         NEW reason, NEW pnl,
         closes' = {[id |-> Pos.id, reason |-> reason, pnl |-> pnl]},
         \A k \in Keys : k # Key => open'[k] = open[k]
  PROVE  Covered'
<1> USE DEF IndInv
<1> SUFFICES ASSUME NEW i \in Ids, rows[i].status = "open"
             PROVE  \/ \E ct \in closes' : ct.id = i
                    \/ open'[KeyOf(rows[i])] # NoPos /\ open'[KeyOf(rows[i])].id = i
  BY DEF Covered, KeyOf
<1>1. KeyOf(rows[i]) \in Keys
  BY OpenRowKeyed
<1>2. open[KeyOf(rows[i])] # NoPos /\ open[KeyOf(rows[i])].id = i
  BY DEF Covered, Processing, Control
<1>3. CASE KeyOf(rows[i]) = Key
  BY <1>2, <1>3 DEF Pos
<1>4. CASE KeyOf(rows[i]) # Key
  BY <1>1, <1>2, <1>4
<1> QED
  BY <1>3, <1>4

LEMMA NextCovered ==
  ASSUME IndInv, Covered, FaultFree, [Next]_vars
  PROVE  Covered'
<1> USE DEF IndInv
<1> SUFFICES ASSUME faults' = 0, pc' \notin {"down", "load"}
             PROVE  Covered'
  BY DEF Covered
<1>0. faults = 0
  BY FaultsOnlyGrow
<1>1. CASE UNCHANGED <<rows, open, closes>> /\ pc \notin {"down", "load"}
  BY <1>0, <1>1 DEF Covered, KeyOf
<1>2. CASE World \/ UNCHANGED vars
  BY <1>1, <1>2 DEF World, Quote, EndDatePasses, CloseMarket, Advance, StopSignal,
                    vars, db, memory
<1>3. CASE CreateRun \/ FinishRun \/ Crash
  BY <1>3 DEF CreateRun, FinishRun, Crash, Forget
<1>4. CASE LoadOpen
  <2>1. PICK row \in [Keys -> 0..MaxTrades] :
          /\ \A k \in Keys : IF OpenRows(k) = {} THEN row[k] = 0
                                                 ELSE row[k] \in OpenRows(k)
          /\ open' = [k \in Keys |->
                        IF row[k] = 0 THEN NoPos
                        ELSE [id |-> row[k], direction |-> rows[row[k]].direction,
                              entry |-> rows[row[k]].entry,
                              opened |-> rows[row[k]].opened]]
    BY <1>4 DEF LoadOpen
  <2>2. rows' = rows
    BY <1>4 DEF LoadOpen, db
  <2>3. ASSUME NEW i \in Ids, rows[i].status = "open"
        PROVE  open'[KeyOf(rows[i])] # NoPos /\ open'[KeyOf(rows[i])].id = i
    <3> DEFINE k == KeyOf(rows[i])
    <3>1. k \in Keys /\ i \in OpenRows(k)
      BY <2>3, OpenRowKeyed DEF OpenRows
    <3>2. row[k] = i
      BY <1>0, <2>1, <3>1, <2>3 DEF OpenRows, FaultFree, OneOpenRowPerKey
    <3>3. i # 0
      BY DEF Ids
    <3>4. open'[k] = [id |-> i, direction |-> rows[i].direction,
                      entry |-> rows[i].entry, opened |-> rows[i].opened]
      BY <2>1, <3>1, <3>2, <3>3
    <3>5. rows[i] \in Row
      BY DEF TypeOK
    <3>6. open'[k] \in OpenPosition
      BY <3>4, <3>5, BoundsTyped DEF Row, OpenPosition, Ids
    <3>7. open'[k] # NoPos
      BY <3>6, SimAssumption
    <3> QED
      BY <3>4, <3>7
  <2> QED
    BY <2>2, <2>3 DEF Covered, KeyOf
<1>5. CASE \/ BeginTick \/ ReadPicks \/ SkipSettled \/ NothingToSave \/ EndTick
  BY <1>1, <1>5 DEF BeginTick, ReadPicks, SkipSettled, Processing, NothingToSave,
                    EndTick, LeaveTick, Control, db
<1>6. CASE CloseSettled
  <2>1. Processing /\ Held /\ rows' = rows /\ open' = Popped
    BY <1>6 DEF CloseSettled, db
  <2>2. PICK reason, pnl : closes' = {[id |-> Pos.id, reason |-> reason, pnl |-> pnl]}
    BY <1>6 DEF CloseSettled
  <2>3. \A k \in Keys : k # Key => open'[k] = open[k]
    BY <2>1 DEF Popped, TypeOK
  <2> QED
    BY <1>0, <2>1, <2>2, <2>3, PopCovered
<1>7. CASE CloseBySignal
  <2>1. Processing /\ Held /\ rows' = rows /\ try_enter(Popped)
    BY <1>7 DEF CloseBySignal, db
  <2>2. PICK reason, pnl : closes' = {[id |-> Pos.id, reason |-> reason, pnl |-> pnl]}
    BY <1>7 DEF CloseBySignal
  <2>3. \A k \in Keys : k # Key => open'[k] = open[k]
    BY <2>1 DEF Popped, TypeOK, try_enter
  <2> QED
    BY <1>0, <2>1, <2>2, <2>3, PopCovered
<1>8. CASE EnterOrHold
  <2>1. /\ try_enter(open) /\ rows' = rows /\ closes' = closes
        /\ pc = "item" /\ signals # <<>>
    BY <1>8 DEF EnterOrHold, Processing, db
  <2>2. \A k \in Keys : open[k] # NoPos => open'[k] = open[k]
    <3>1. Key \in Keys /\ open \in [Keys -> OpenPosition \union {NoPos}]
      BY <2>1, CurrentTyped DEF TypeOK
    <3> QED
      BY <2>1, <3>1 DEF try_enter, Enters
  <2> QED
    BY <1>0, <2>1, <2>2, OpenRowKeyed DEF Covered, KeyOf
<1>9. CASE WriteClose \/ BulkClose
  <2>1. PICK ct \in closes : rows' = RowsAfterClose(ct) /\ closes \ {ct} \subseteq closes'
    BY <1>9 DEF WriteClose, BulkClose, Control
  <2>2. open' = open /\ pc \notin {"down", "load"}
    BY <1>9 DEF WriteClose, BulkClose
  <2>3. ASSUME NEW i \in Ids, rows'[i].status = "open"
        PROVE  \/ \E c \in closes' : c.id = i
               \/ open[KeyOf(rows[i])] # NoPos /\ open[KeyOf(rows[i])].id = i
    BY <1>0, <2>1, <2>2, <2>3, CloseCovered DEF Covered
  <2> QED
    BY <2>1, <2>2, <2>3, CloseCovered DEF Covered, KeyOf
<1>10. CASE WriteOpen
  <2>1. /\ signals # <<>> /\ Unsaved /\ lastId < MaxTrades /\ rows' = RowsAfterInsert
        /\ open' = [open EXCEPT ![Key].id = lastId + 1] /\ closes' = closes
        /\ pc = "save"
    BY <1>10 DEF WriteOpen, Control
  <2>2. Pos \in OpenPosition /\ Key \in Keys /\ Pos = open[Key] /\ lastId + 1 \in Ids
    BY <2>1, SignalCloseTyped, CurrentTyped, InsertTyped DEF Unsaved, Pos
  <2>3. open' = [open EXCEPT ![Key] = [open[Key] EXCEPT !.id = lastId + 1]]
    BY <2>1, <2>2 DEF TypeOK
  <2>4. [open[Key] EXCEPT !.id = lastId + 1] \in OpenPosition
    BY <2>2 DEF OpenPosition, Ids
  <2>5. open'[Key] # NoPos /\ open'[Key].id = lastId + 1
    BY <2>2, <2>3, <2>4, SimAssumption DEF TypeOK, OpenPosition
  <2>6. ASSUME NEW i \in Ids, rows'[i].status = "open"
        PROVE  open'[KeyOf(rows'[i])] # NoPos /\ open'[KeyOf(rows'[i])].id = i
    <3>1. CASE i = lastId + 1
      BY <2>1, <2>5, <3>1, InsertEffect
    <3>2. CASE i # lastId + 1
      <4>1. rows'[i] = rows[i] /\ rows[i].status = "open"
        BY <2>1, <2>6, <3>2, InsertEffect
      <4>2. KeyOf(rows[i]) \in Keys
        BY <4>1, OpenRowKeyed
      <4>3. open[KeyOf(rows[i])] # NoPos /\ open[KeyOf(rows[i])].id = i
        BY <1>0, <2>1, <4>1 DEF Covered, Control
      <4>4. KeyOf(rows[i]) # Key
        BY <2>1, <2>2, <4>3 DEF Unsaved, Ids
      <4> QED
        BY <2>2, <2>3, <4>1, <4>2, <4>3, <4>4 DEF TypeOK
    <3> QED
      BY <3>1, <3>2
  <2> QED
    BY <2>6 DEF Covered, KeyOf
<1>11. CASE BeginShutdown
  <2>1. rows' = rows /\ pc = "idle"
    BY <1>11 DEF BeginShutdown, db
  <2>2. ASSUME NEW i \in Ids, rows[i].status = "open"
        PROVE  \E ct \in closes' : ct.id = i
    <3>1. open[KeyOf(rows[i])] # NoPos /\ open[KeyOf(rows[i])].id = i
      BY <1>0, <2>1, <2>2 DEF Covered, Control
    <3>2. KeyOf(rows[i]) \in Keys
      BY <2>2, OpenRowKeyed
    <3> DEFINE Closing(k) == [id |-> open[k].id, reason |-> "forward_shutdown",
                              pnl |-> mtm_pnl_cents(open[k].entry, mid[k[2]],
                                                    open[k].direction)]
    <3>3. closes' = {Closing(k) : k \in {j \in Keys : open[j] # NoPos}}
      BY <1>11 DEF BeginShutdown
    <3>4. Closing(KeyOf(rows[i])) \in closes'
      BY <3>1, <3>2, <3>3
    <3>5. Closing(KeyOf(rows[i])).id = i
      BY <3>1
    <3> QED
      BY <3>4, <3>5
  <2> QED
    BY <2>1, <2>2 DEF Covered, KeyOf
<1>12. CASE Faults
  BY <1>0, <1>12 DEF Faults, OutcomesUnread, CallFails, CloseAnswerLost,
                     OpenAnswerLost, Fault
<1> QED
  BY <1>2, <1>3, <1>4, <1>5, <1>6, <1>7, <1>8, <1>9, <1>10, <1>11, <1>12
  DEF Next, Tick, Shutdown


LEMMA NextExclusive ==
  ASSUME IndInv, Covered, FaultFree, [Next]_vars, faults' = 0
  PROVE  OneOpenRowPerKey'
<1> USE DEF IndInv
<1>0. faults = 0 /\ OneOpenRowPerKey
  BY FaultsOnlyGrow DEF FaultFree
<1>1. CASE rows' = rows
  BY <1>0, <1>1 DEF OneOpenRowPerKey, KeyOf
<1>2. CASE WriteClose \/ BulkClose \/ CloseAnswerLost
  <2>1. PICK ct \in closes : rows' = RowsAfterClose(ct)
    BY <1>2 DEF WriteClose, BulkClose, CloseAnswerLost
  <2>2. \A i \in Ids : rows'[i].status = "open" => rows'[i] = rows[i]
    BY <2>1, CloseCovered
  <2> QED
    BY <1>0, <2>2 DEF OneOpenRowPerKey, KeyOf
<1>3. CASE WriteOpen
  <2>1. /\ signals # <<>> /\ Unsaved /\ lastId < MaxTrades /\ rows' = RowsAfterInsert
        /\ pc = "save" /\ closes = {}
    BY <1>3 DEF WriteOpen, Control
  <2>2. ASSUME NEW i \in Ids, rows'[i].status = "open", i # lastId + 1
        PROVE  rows'[i] = rows[i] /\ KeyOf(rows[i]) # Key
    <3>1. rows'[i] = rows[i] /\ rows[i].status = "open"
      BY <2>1, <2>2, InsertEffect
    <3>2. open[KeyOf(rows[i])].id = i
      BY <1>0, <2>1, <3>1 DEF Covered
    <3> QED
      BY <2>1, <3>1, <3>2 DEF Unsaved, Pos, Ids
  <2> QED
    BY <1>0, <2>1, <2>2, InsertEffect DEF OneOpenRowPerKey, KeyOf
<1>4. CASE World \/ CreateRun \/ LoadOpen \/ Crash \/ FinishRun \/ BeginShutdown
           \/ UNCHANGED vars
  BY <1>1, <1>4 DEF World, Quote, EndDatePasses, CloseMarket, Advance, StopSignal,
                    CreateRun, LoadOpen, Crash, FinishRun, BeginShutdown, db, vars
<1>5. CASE \/ BeginTick \/ ReadPicks \/ SkipSettled \/ CloseSettled
           \/ CloseBySignal \/ EnterOrHold \/ NothingToSave \/ EndTick
  BY <1>1, <1>5 DEF BeginTick, ReadPicks, SkipSettled, CloseSettled, CloseBySignal,
                    EnterOrHold, NothingToSave, EndTick, db
<1>6. CASE OutcomesUnread \/ CallFails \/ OpenAnswerLost
  BY <1>0, <1>6, BoundsTyped DEF OutcomesUnread, CallFails, OpenAnswerLost, Fault, TypeOK
<1> QED
  BY <1>2, <1>3, <1>4, <1>5, <1>6 DEF Next, Tick, Shutdown, Faults

LEMMA NextFinished ==
  ASSUME IndInv, Covered, FaultFree, [Next]_vars, faults' = 0
  PROVE  FinishedRunLeavesNothingOpen'
<1> USE DEF IndInv
<1>0. faults = 0 /\ FinishedRunLeavesNothingOpen
  BY FaultsOnlyGrow DEF FaultFree
<1>1. CASE UNCHANGED <<rows, runs>>
  BY <1>0, <1>1 DEF FinishedRunLeavesNothingOpen
<1>2. CASE WriteClose \/ BulkClose \/ CloseAnswerLost
  <2>1. PICK ct \in closes : rows' = RowsAfterClose(ct)
    BY <1>2 DEF WriteClose, BulkClose, CloseAnswerLost
  <2>2. runs' = runs
    BY <1>2 DEF WriteClose, BulkClose, CloseAnswerLost
  <2>3. \A i \in Ids : rows'[i].status = "open" => rows'[i] = rows[i]
    BY <2>1, CloseCovered
  <2> QED
    BY <1>0, <2>2, <2>3 DEF FinishedRunLeavesNothingOpen
<1>3. CASE WriteOpen
  <2>1. /\ signals # <<>> /\ Unsaved /\ lastId < MaxTrades /\ rows' = RowsAfterInsert
        /\ runs' = runs /\ runs[run].status = "active"
    BY <1>3 DEF WriteOpen, Control
  <2>2. rows'[lastId + 1].run = run
    BY <2>1, InsertEffect
  <2>3. \A i \in Ids : i # lastId + 1 => rows'[i] = rows[i]
    BY <2>1, InsertEffect
  <2> QED
    BY <1>0, <2>1, <2>2, <2>3 DEF FinishedRunLeavesNothingOpen
<1>4. CASE CreateRun
  <2>1. rows' = rows /\ \A r \in Runs : runs'[r].status = runs[r].status
                                        \/ runs'[r].status = "active"
    BY <1>4 DEF CreateRun, TypeOK
  <2> QED
    BY <1>0, <2>1 DEF FinishedRunLeavesNothingOpen, Numbered
<1>5. CASE FinishRun
  <2>1. rows' = rows /\ closes = {} /\ open = Fresh /\ pc = "shutdown"
    BY <1>5 DEF FinishRun, Control
  <2>2. ASSUME NEW i \in Ids, rows[i].status = "open" PROVE FALSE
    <3>1. KeyOf(rows[i]) \in Keys
      BY <2>2, OpenRowKeyed
    <3> QED
      BY <1>0, <2>1, <2>2, <3>1 DEF Covered, Fresh
  <2> QED
    BY <2>1, <2>2 DEF FinishedRunLeavesNothingOpen
<1>6. CASE World \/ LoadOpen \/ Crash \/ BeginShutdown \/ UNCHANGED vars
  BY <1>1, <1>6 DEF World, Quote, EndDatePasses, CloseMarket, Advance, StopSignal,
                    LoadOpen, Crash, BeginShutdown, db, vars
<1>7. CASE \/ BeginTick \/ ReadPicks \/ SkipSettled \/ CloseSettled
           \/ CloseBySignal \/ EnterOrHold \/ NothingToSave \/ EndTick
  BY <1>1, <1>7 DEF BeginTick, ReadPicks, SkipSettled, CloseSettled, CloseBySignal,
                    EnterOrHold, NothingToSave, EndTick, db
<1>8. CASE OutcomesUnread \/ CallFails \/ OpenAnswerLost
  BY <1>0, <1>8, BoundsTyped DEF OutcomesUnread, CallFails, OpenAnswerLost, Fault, TypeOK
<1> QED
  BY <1>2, <1>3, <1>4, <1>5, <1>6, <1>7, <1>8 DEF Next, Tick, Shutdown, Faults

LEMMA InitFaultFree == Init => Covered /\ FaultFree
BY DEF Init, Covered, FaultFree, OneOpenRowPerKey, FinishedRunLeavesNothingOpen, NoRow

(* The invariant of the histories in which no call has failed so far.      *)
THEOREM FaultFreeInvariant == Spec => [](Covered /\ FaultFree)
<1>1. Init => Covered /\ FaultFree
  BY InitFaultFree
<1>2. IndInv /\ Covered /\ FaultFree /\ [Next]_vars => (Covered /\ FaultFree)'
  BY NextCovered, NextExclusive, NextFinished DEF FaultFree
<1> QED
  BY <1>1, <1>2, InductiveInvariant, PTL DEF Spec

(* As long as no call has failed, every open row of sim_trades is in the   *)
(* working runner's memory or about to be closed, across crashes, restarts *)
(* and the adoption of a crashed run's rows.                               *)
THEOREM OpenRowsAreCovered == Spec => []Covered
BY FaultFreeInvariant, PTL

(* If no call ever fails, a profile has at most one open row on a market.  *)
THEOREM OneOpenRow ==
  ASSUME MaxFaults = 0
  PROVE  Spec => []OneOpenRowPerKey
<1>1. IndInv /\ Covered /\ FaultFree => OneOpenRowPerKey
  BY DEF IndInv, TypeOK, FaultFree
<1> QED
  BY <1>1, InductiveInvariant, FaultFreeInvariant, PTL

(* If no call ever fails, a run that has ended has no open row.            *)
THEOREM FinishedRunIsFlat ==
  ASSUME MaxFaults = 0
  PROVE  Spec => []FinishedRunLeavesNothingOpen
<1>1. IndInv /\ Covered /\ FaultFree => FinishedRunLeavesNothingOpen
  BY DEF IndInv, TypeOK, FaultFree
<1> QED
  BY <1>1, InductiveInvariant, FaultFreeInvariant, PTL


-----------------------------------------------------------------------------
(* The cooldown.  last_entry_at is as late as every row the run has opened *)
(* on the key, and a position that waits for its row was entered the       *)
(* cooldown after each of them.                                            *)

Started == pc \notin {"down", "load"}

OfRun(i) == rows[i].status # "absent" /\ rows[i].run = run

EntriesRemembered ==
  /\ \A i \in Ids : rows[i].status # "absent" => rows[i].run <= run
  /\ pc = "load" => \A i \in Ids : ~OfRun(i)
  /\ Started => \A i \in Ids : OfRun(i) => lastEntry[KeyOf(rows[i])] >= rows[i].opened

EntriesApart ==
  \A k \in Keys : open[k] # NoPos /\ open[k].id = 0 =>
    /\ lastEntry[k] = open[k].opened
    /\ \A i \in Ids : OfRun(i) /\ KeyOf(rows[i]) = k =>
         open[k].opened - rows[i].opened >= Thresholds[k[1]].cooldown

(* The inductive invariant behind the cooldown.                            *)
CooldownInv ==
  faults = 0 => EntriesRemembered /\ EntriesApart /\ CooldownWithinRun

(* No row is opened, and rows keep whose they are and when they opened.    *)
SameHistory ==
  \A i \in Ids :
    /\ rows'[i].status = "absent" <=> rows[i].status = "absent"
    /\ rows'[i].profile = rows[i].profile /\ rows'[i].market = rows[i].market
    /\ rows'[i].run = rows[i].run /\ rows'[i].opened = rows[i].opened

(* Closing a row keeps the history.                                        *)
LEMMA CloseKeepsHistory ==
  ASSUME IndInv, NEW ct \in closes, rows' = RowsAfterClose(ct)
  PROVE  SameHistory
<1>1. \A i \in Ids : i # ct.id => rows'[i] = rows[i]
  BY CloseEffect DEF IndInv
<1>2. CASE ct.id = 0
  BY <1>2, CloseEffect DEF SameHistory, IndInv
<1>3. CASE ct.id # 0
  <2>1. /\ ct.id \in Ids /\ rows[ct.id].status = "open"
        /\ rows'[ct.id] = [rows[ct.id] EXCEPT !.status = "closed",
                             !.reason = ct.reason, !.pnl = ct.pnl]
    BY <1>3, CloseEffect DEF IndInv
  <2>2. rows[ct.id] \in Row
    BY <2>1 DEF IndInv, TypeOK
  <2>3. /\ rows'[ct.id].status # "absent"
        /\ rows'[ct.id].profile = rows[ct.id].profile
        /\ rows'[ct.id].market = rows[ct.id].market
        /\ rows'[ct.id].run = rows[ct.id].run /\ rows'[ct.id].opened = rows[ct.id].opened
    BY <2>1, <2>2 DEF Row
  <2> QED
    BY <1>1, <2>1, <2>3 DEF SameHistory
<1> QED
  BY <1>2, <1>3

(* The spacing of the rows depends on the history alone.                   *)
LEMMA HistoryKeepsCooldown ==
  ASSUME CooldownWithinRun, SameHistory
  PROVE  CooldownWithinRun'
BY DEF CooldownWithinRun, SameHistory, KeyOf

(* A step that enters no position keeps the invariant.                     *)
LEMMA NoEntryKeepsCooldown ==
  ASSUME EntriesRemembered, EntriesApart, CooldownWithinRun,
         SameHistory, run' = run, pc' = "load" => pc = "load", Started' => Started,
         lastEntry' = lastEntry \/ (~Started' /\ open' = Fresh),
         \A k \in Keys : \/ open'[k] = open[k] \/ open'[k] = NoPos
                         \/ open'[k].id # 0
  PROVE  EntriesRemembered' /\ EntriesApart' /\ CooldownWithinRun'
<1>1. \A i \in Ids : /\ OfRun(i)' <=> OfRun(i)
                     /\ KeyOf(rows'[i]) = KeyOf(rows[i])
  BY DEF OfRun, SameHistory, KeyOf
<1>2. EntriesRemembered'
  BY <1>1 DEF EntriesRemembered, SameHistory, KeyOf
<1>3. EntriesApart'
  <2>1. CASE lastEntry' = lastEntry
    BY <1>1, <2>1 DEF EntriesApart, SameHistory, KeyOf
  <2>2. CASE open' = Fresh
    BY <2>2 DEF EntriesApart, Fresh
  <2> QED
    BY <2>1, <2>2
<1> QED
  BY <1>2, <1>3, HistoryKeepsCooldown

(* An entry is made the cooldown after the last one.                       *)
LEMMA EntryKeepsCooldown ==
  ASSUME IndInv, EntriesRemembered, EntriesApart, CooldownWithinRun,
         Processing, NEW book \in [Keys -> OpenPosition \union {NoPos}], try_enter(book),
         \A k \in Keys : book[k] = open[k] \/ book[k] = NoPos,
         UNCHANGED <<rows, run>>, pc' \in {"close", "save"}
  PROVE  EntriesRemembered' /\ EntriesApart' /\ CooldownWithinRun'
<1>1. SameHistory /\ Started /\ Started' /\ pc' # "load"
  BY DEF SameHistory, Started, Processing
<1>2. CASE ~Enters(book)
  <2>1. open' = book /\ lastEntry' = lastEntry
    BY <1>2 DEF try_enter
  <2> QED
    BY <1>1, <2>1, NoEntryKeepsCooldown
<1>3. CASE Enters(book)
  <2>1. Key \in Keys /\ Pf \in Profiles /\ Key[1] = Pf
    BY CurrentTyped DEF IndInv, Processing, Key
  <2>2. /\ open' = [book EXCEPT ![Key] =
                      [id |-> 0, direction |-> trade_direction(Sig.edge),
                       entry |-> Sig.price, opened |-> tickTs]]
        /\ lastEntry' = [lastEntry EXCEPT ![Key] = tickTs]
    BY <1>3 DEF try_enter
  <2>3. /\ open'[Key].opened = tickTs /\ lastEntry'[Key] = tickTs
        /\ \A k \in Keys \ {Key} : open'[k] = book[k] /\ lastEntry'[k] = lastEntry[k]
    BY <2>1, <2>2 DEF IndInv, TypeOK
  <2>4. \/ lastEntry[Key] = -1
        \/ tickTs - lastEntry[Key] >= Thresholds[Pf].cooldown
    BY <1>3 DEF Enters
  <2>5. /\ tickTs \in Nat /\ lastEntry[Key] \in Int /\ Thresholds[Pf].cooldown \in Nat
    BY <2>1, SimAssumption DEF IndInv, TypeOK, Time
  <2>6. ASSUME NEW i \in Ids, OfRun(i), KeyOf(rows[i]) = Key
        PROVE  tickTs - rows[i].opened >= Thresholds[Pf].cooldown
    <3>1. rows[i].opened \in Nat
      BY BoundsTyped DEF IndInv, TypeOK, Row, Time
    <3>2. lastEntry[Key] >= rows[i].opened
      BY <1>1, <2>6 DEF EntriesRemembered
    <3> QED
      BY <2>4, <2>5, <3>1, <3>2
  <2>7. \A i \in Ids : (OfRun(i)' <=> OfRun(i)) /\ KeyOf(rows'[i]) = KeyOf(rows[i])
    BY DEF OfRun
  <2>8. ASSUME NEW i \in Ids, OfRun(i)
        PROVE  lastEntry'[KeyOf(rows[i])] >= rows[i].opened
    <3>1. KeyOf(rows[i]) \in Keys
      BY <2>8 DEF OfRun, IndInv, TypeOK, Numbered, Row, KeyOf, Keys
    <3>2. CASE KeyOf(rows[i]) = Key
      <4>1. tickTs - rows[i].opened >= Thresholds[Pf].cooldown /\ rows[i].opened \in Nat
        BY <2>6, <2>8, <3>2, BoundsTyped DEF IndInv, TypeOK, Row, Time
      <4> QED
        BY <2>3, <2>5, <3>2, <4>1
    <3>3. CASE KeyOf(rows[i]) # Key
      BY <1>1, <2>3, <2>8, <3>1, <3>3 DEF EntriesRemembered
    <3> QED
      BY <3>2, <3>3
  <2>9. EntriesRemembered'
    BY <1>1, <2>7, <2>8 DEF EntriesRemembered
  <2>10. ASSUME NEW k \in Keys, open'[k] # NoPos, open'[k].id = 0
         PROVE  /\ lastEntry'[k] = open'[k].opened
                /\ \A i \in Ids : OfRun(i) /\ KeyOf(rows[i]) = k =>
                     open'[k].opened - rows[i].opened >= Thresholds[k[1]].cooldown
    <3>1. CASE k = Key
      BY <2>1, <2>3, <2>6, <3>1
    <3>2. CASE k # Key
      <4>1. open'[k] = open[k] /\ lastEntry'[k] = lastEntry[k]
        BY <2>3, <2>10, <3>2
      <4> QED
        BY <2>10, <4>1 DEF EntriesApart
    <3> QED
      BY <3>1, <3>2
  <2>11. EntriesApart'
    BY <2>7, <2>10 DEF EntriesApart
  <2> QED
    BY <1>1, <2>9, <2>11, HistoryKeepsCooldown
<1> QED
  BY <1>2, <1>3

(* The row of a position keeps the distance the position kept.             *)
LEMMA InsertKeepsCooldown ==
  ASSUME IndInv, EntriesRemembered, EntriesApart, CooldownWithinRun, WriteOpen
  PROVE  EntriesRemembered' /\ EntriesApart' /\ CooldownWithinRun'
<1> DEFINE new == lastId + 1
<1>1. /\ pc = "save" /\ pc' = "item" /\ signals # <<>> /\ Unsaved /\ lastId < MaxTrades
      /\ rows' = RowsAfterInsert /\ run' = run /\ lastEntry' = lastEntry
      /\ open' = [open EXCEPT ![Key].id = new]
  BY DEF WriteOpen, IndInv, Control
<1>2. Key \in Keys /\ open[Key] # NoPos /\ open[Key].id = 0 /\ open[Key] \in OpenPosition
  BY <1>1, CurrentTyped DEF Unsaved, Held, Pos, IndInv, TypeOK
<1>3. /\ new \in Ids /\ rows[new].status = "absent"
      /\ rows'[new].status = "open" /\ rows'[new].run = run
      /\ rows'[new].opened = open[Key].opened /\ rows'[new].profile = Key[1]
      /\ KeyOf(rows'[new]) = Key
      /\ \A i \in Ids : i # new => rows'[i] = rows[i]
  BY <1>1, InsertEffect DEF IndInv, Pos, Key
<1>4. open'[Key].id # 0 /\ \A k \in Keys \ {Key} : open'[k] = open[k]
  <2>1. open' = [open EXCEPT ![Key] = [open[Key] EXCEPT !.id = new]]
    BY <1>1, <1>2 DEF IndInv, TypeOK
  <2>2. [open[Key] EXCEPT !.id = new].id = new
    BY <1>2 DEF OpenPosition
  <2>3. new # 0
    BY <1>3 DEF Ids
  <2> HIDE DEF new
  <2> QED
    BY <1>2, <2>1, <2>2, <2>3 DEF IndInv, TypeOK
<1>5. /\ lastEntry[Key] = open[Key].opened /\ open[Key].opened \in Nat /\ run \in Nat
      /\ \A i \in Ids : OfRun(i) /\ KeyOf(rows[i]) = Key =>
           open[Key].opened - rows[i].opened >= Thresholds[Key[1]].cooldown
  BY <1>2, BoundsTyped DEF EntriesApart, IndInv, TypeOK, OpenPosition, Time
<1> HIDE DEF new
<1>6. \A i \in Ids : i # new => (OfRun(i)' <=> OfRun(i))
  BY <1>1, <1>3 DEF OfRun
<1>7. EntriesRemembered'
  <2>1. Started /\ pc' # "load"
    BY <1>1 DEF Started
  <2>2. ASSUME NEW i \in Ids, rows'[i].status # "absent" PROVE rows'[i].run <= run
    BY <1>3, <1>5, <2>2 DEF EntriesRemembered
  <2>3. ASSUME NEW i \in Ids, OfRun(i)' PROVE lastEntry[KeyOf(rows'[i])] >= rows'[i].opened
    <3>1. CASE i = new
      BY <1>3, <1>5, <3>1
    <3>2. CASE i # new
      BY <1>3, <1>6, <2>1, <2>3, <3>2 DEF EntriesRemembered
    <3> QED
      BY <3>1, <3>2
  <2> QED
    BY <1>1, <2>1, <2>2, <2>3 DEF EntriesRemembered
<1>8. EntriesApart'
  <2> SUFFICES ASSUME NEW k \in Keys, open'[k] # NoPos, open'[k].id = 0
               PROVE  /\ lastEntry'[k] = open'[k].opened
                      /\ \A i \in Ids : OfRun(i)' /\ KeyOf(rows'[i]) = k =>
                           open'[k].opened - rows'[i].opened >= Thresholds[k[1]].cooldown
    BY DEF EntriesApart
  <2>1. k # Key /\ open'[k] = open[k]
    BY <1>4
  <2> QED
    BY <1>1, <1>3, <1>6, <2>1 DEF EntriesApart
<1>9. CooldownWithinRun'
  <2> SUFFICES ASSUME NEW i \in Ids, NEW j \in Ids, i < j, rows'[j].status # "absent",
                      rows'[i].run = rows'[j].run, KeyOf(rows'[i]) = KeyOf(rows'[j])
               PROVE  rows'[j].opened - rows'[i].opened
                        >= Thresholds[rows'[j].profile].cooldown
    BY DEF CooldownWithinRun
  <2>1. i # new
    <3>1. j <= lastId \/ j = new
      BY <1>3 DEF IndInv, Numbered
    <3> QED
      BY <3>1, BoundsTyped DEF new, Ids, IndInv, TypeOK
  <2>2. CASE j = new
    <3>1. i <= lastId
      BY <2>2, BoundsTyped DEF new, Ids, IndInv, TypeOK
    <3>2. OfRun(i)
      BY <1>3, <2>1, <2>2, <3>1 DEF OfRun, IndInv, Numbered
    <3> QED
      BY <1>3, <1>5, <2>1, <2>2, <3>2
  <2>3. CASE j # new
    BY <1>3, <2>1, <2>3 DEF CooldownWithinRun
  <2> QED
    BY <2>2, <2>3
<1> QED
  BY <1>7, <1>8, <1>9

(* A step keeps the invariant.                                             *)
LEMMA NextCooldown ==
  ASSUME IndInv, EntriesRemembered, EntriesApart, CooldownWithinRun, [Next]_vars,
         faults' = 0
  PROVE  EntriesRemembered' /\ EntriesApart' /\ CooldownWithinRun'
<1> USE DEF IndInv
<1>0. ~Faults
  BY BoundsTyped DEF Faults, OutcomesUnread, CallFails, CloseAnswerLost, OpenAnswerLost,
                     Fault, TypeOK
<1>1. ASSUME UNCHANGED <<run, open, lastEntry>>, SameHistory,
             pc' = "load" => pc = "load", Started' => Started
      PROVE  EntriesRemembered' /\ EntriesApart' /\ CooldownWithinRun'
  BY <1>1, NoEntryKeepsCooldown
<1>2. rows' = rows => SameHistory
  BY DEF SameHistory
<1>3. CASE World \/ UNCHANGED vars
  <2>1. UNCHANGED <<rows, run, open, lastEntry, pc>>
    BY <1>3 DEF World, Quote, EndDatePasses, CloseMarket, Advance, StopSignal, db, memory, vars
  <2> QED
    BY <1>1, <1>2, <2>1 DEF Started
<1>4. CASE BeginTick \/ ReadPicks \/ SkipSettled \/ NothingToSave \/ EndTick
  <2>1. UNCHANGED <<rows, run, open, lastEntry>>
    BY <1>4 DEF BeginTick, ReadPicks, SkipSettled, NothingToSave, EndTick, db
  <2>2. pc \notin {"down", "load"} /\ pc' # "load"
    BY <1>4 DEF BeginTick, ReadPicks, SkipSettled, Processing, NothingToSave, EndTick,
                LeaveTick
  <2> QED
    BY <1>1, <1>2, <2>1, <2>2 DEF Started
<1>5. CASE WriteClose \/ BulkClose
  <2>1. PICK ct \in closes : rows' = RowsAfterClose(ct)
    BY <1>5 DEF WriteClose, BulkClose
  <2>2. UNCHANGED <<run, open, lastEntry>> /\ pc \notin {"down", "load"} /\ pc' # "load"
    BY <1>5 DEF WriteClose, BulkClose
  <2> QED
    BY <1>1, <2>1, <2>2, CloseKeepsHistory DEF Started
<1>6. CASE CreateRun
  <2>1. /\ rows' = rows /\ run' = run + 1 /\ open = Fresh /\ open' = open
        /\ pc' = "load" /\ run \in Nat
    BY <1>6, BoundsTyped DEF CreateRun, Control, TypeOK
  <2>2. \A i \in Ids : rows[i].run \in Nat
    BY BoundsTyped DEF TypeOK, Row
  <2>3. EntriesRemembered'
    BY <2>1, <2>2 DEF EntriesRemembered, OfRun, Started
  <2>4. EntriesApart'
    BY <2>1 DEF EntriesApart, Fresh
  <2> QED
    BY <1>2, <2>1, <2>3, <2>4, HistoryKeepsCooldown
<1>7. CASE LoadOpen
  <2>1. PICK row \in [Keys -> 0..MaxTrades] :
          open' = [k \in Keys |->
                     IF row[k] = 0 THEN NoPos
                     ELSE [id |-> row[k], direction |-> rows[row[k]].direction,
                           entry |-> rows[row[k]].entry,
                           opened |-> rows[row[k]].opened]]
    BY <1>7 DEF LoadOpen
  <2>2. rows' = rows /\ run' = run /\ pc = "load" /\ pc' = "idle"
    BY <1>7 DEF LoadOpen, db
  <2>3. EntriesRemembered'
    BY <2>2 DEF EntriesRemembered, OfRun
  <2>4. \A k \in Keys : open'[k] = NoPos \/ open'[k].id # 0
    BY <2>1
  <2>5. EntriesApart'
    BY <2>4 DEF EntriesApart
  <2> QED
    BY <1>2, <2>2, <2>3, <2>5, HistoryKeepsCooldown
<1>8. CASE Crash \/ FinishRun
  <2>1. rows' = rows /\ run' = run /\ pc' = "down" /\ open' = Fresh
    BY <1>8 DEF Crash, FinishRun, Forget, db
  <2>2. \A k \in Keys : open'[k] = NoPos
    BY <2>1 DEF Fresh
  <2> QED
    BY <1>2, <2>1, <2>2, NoEntryKeepsCooldown DEF Started
<1>9. CASE BeginShutdown
  <2>1. /\ rows' = rows /\ run' = run /\ pc = "idle" /\ pc' = "shutdown" /\ open' = Fresh
        /\ lastEntry' = lastEntry
    BY <1>9 DEF BeginShutdown, db
  <2>2. \A k \in Keys : open'[k] = NoPos
    BY <2>1 DEF Fresh
  <2> QED
    BY <1>2, <2>1, <2>2, NoEntryKeepsCooldown DEF Started
<1>10. \A k \in Keys : Popped[k] = open[k] \/ Popped[k] = NoPos
  BY DEF Popped, TypeOK
<1>11. CASE CloseSettled
  <2>1. /\ rows' = rows /\ run' = run /\ lastEntry' = lastEntry /\ open' = Popped
        /\ pc = "item" /\ pc' = "close"
    BY <1>11 DEF CloseSettled, Processing, db
  <2> QED
    BY <1>2, <1>10, <2>1, NoEntryKeepsCooldown DEF Started
<1>12. CASE CloseBySignal
  <2>1. Processing /\ try_enter(Popped) /\ UNCHANGED <<rows, run>> /\ pc' = "close"
    BY <1>12 DEF CloseBySignal, db
  <2> QED
    BY <1>10, <2>1, PoppedTyped, EntryKeepsCooldown
<1>13. CASE EnterOrHold
  <2>1. Processing /\ try_enter(open) /\ UNCHANGED <<rows, run>> /\ pc' = "save"
    BY <1>13 DEF EnterOrHold, db
  <2>2. open \in [Keys -> OpenPosition \union {NoPos}]
    BY DEF TypeOK
  <2> QED
    BY <2>1, <2>2, EntryKeepsCooldown
<1>14. CASE WriteOpen
  BY <1>14, InsertKeepsCooldown
<1> QED
  BY <1>0, <1>3, <1>4, <1>5, <1>6, <1>7, <1>8, <1>9, <1>11, <1>12, <1>13, <1>14
  DEF Next, Tick, Shutdown

(* Until a call fails, the entries of a run on one profile and market are  *)
(* the profile's cooldown apart, however the earlier position was closed   *)
(* and whatever was adopted from a crashed run.                            *)
THEOREM CooldownIsKept == Spec => [](faults = 0 => CooldownWithinRun)
<1>1. Init => CooldownInv
  BY DEF Init, CooldownInv, EntriesRemembered, EntriesApart, CooldownWithinRun, NoRow,
         Fresh, Started
<1>2. IndInv /\ CooldownInv /\ [Next]_vars => CooldownInv'
  BY NextCooldown, FaultsOnlyGrow DEF CooldownInv, IndInv
<1>3. CooldownInv => (faults = 0 => CooldownWithinRun)
  BY DEF CooldownInv
<1> QED
  BY <1>1, <1>2, <1>3, InductiveInvariant, PTL DEF Spec


-----------------------------------------------------------------------------
(* Settled markets.  A position that is about to be saved is on a market   *)
(* whose outcome the tick does not know.                                   *)

SavesUnsettled == pc \in {"close", "save"} /\ Held => ~Known

LEMMA NextUnsettled ==
  ASSUME IndInv, SavesUnsettled, [Next]_vars
  PROVE  SavesUnsettled'
<1> USE DEF IndInv, SavesUnsettled, Held, Known, Pos, Key, Pf, Sig
<1>1. CASE UNCHANGED <<open, outcomes, signals, at>> /\ pc \in {"close", "save"}
  BY <1>1
<1>2. CASE pc' \notin {"close", "save"}
  BY <1>2
<1>3. CASE World \/ UNCHANGED vars
  BY <1>1, <1>2, <1>3 DEF World, Quote, EndDatePasses, CloseMarket, Advance,
                          StopSignal, vars, memory
<1>4. CASE CreateRun \/ LoadOpen \/ Crash \/ Shutdown \/ Faults
  BY <1>2, <1>4 DEF CreateRun, LoadOpen, Crash, Shutdown, BeginShutdown, BulkClose,
                    FinishRun, Forget, Faults, OutcomesUnread, CallFails,
                    CloseAnswerLost, OpenAnswerLost, LeaveTick
<1>5. CASE BeginTick \/ ReadPicks \/ SkipSettled \/ WriteOpen \/ NothingToSave \/ EndTick
  BY <1>2, <1>5 DEF BeginTick, ReadPicks, SkipSettled, Processing, WriteOpen,
                    NothingToSave, EndTick, LeaveTick
<1>6. CASE CloseSettled
  <2>1. Key \in Keys /\ open' = [open EXCEPT ![Key] = NoPos]
    BY <1>6, CurrentTyped DEF CloseSettled, Processing, Popped
  <2>2. open'[Key] = NoPos /\ signals' = signals /\ at' = at
    BY <1>6, <2>1 DEF CloseSettled, TypeOK
  <2> QED
    BY <2>2
<1>7. CASE CloseBySignal \/ EnterOrHold
  BY <1>7 DEF CloseBySignal, EnterOrHold
<1>8. CASE WriteClose
  BY <1>1, <1>8 DEF WriteClose
<1> QED
  BY <1>3, <1>4, <1>5, <1>6, <1>7, <1>8 DEF Next, Tick

(* Rows come into being only for a position that is being saved.           *)
LEMMA RowsAppear ==
  ASSUME IndInv, [Next]_vars, NEW i \in Ids,
         rows[i].status = "absent", rows'[i].status # "absent"
  PROVE  /\ pc = "save" /\ Unsaved /\ rows'[i].market = Sig.market
         /\ rows'[i].status = "open"
<1> USE DEF IndInv
<1>1. CASE rows' = rows
  BY <1>1
<1>2. CASE WriteClose \/ BulkClose \/ CloseAnswerLost
  <2>1. PICK ct \in closes : rows' = RowsAfterClose(ct)
    BY <1>2 DEF WriteClose, BulkClose, CloseAnswerLost
  <2> QED
    BY <2>1, CloseEffect
<1>3. CASE WriteOpen \/ OpenAnswerLost
  <2>1. /\ signals # <<>> /\ Unsaved /\ lastId < MaxTrades /\ rows' = RowsAfterInsert
        /\ pc = "save"
    BY <1>3 DEF WriteOpen, OpenAnswerLost, Control
  <2>2. i = lastId + 1
    BY <2>1, InsertEffect
  <2> QED
    BY <2>1, <2>2, InsertEffect
<1>4. CASE World \/ CreateRun \/ LoadOpen \/ Crash \/ FinishRun \/ BeginShutdown
           \/ UNCHANGED vars
  BY <1>1, <1>4 DEF World, Quote, EndDatePasses, CloseMarket, Advance, StopSignal,
                    CreateRun, LoadOpen, Crash, FinishRun, BeginShutdown, db, vars
<1>5. CASE \/ BeginTick \/ ReadPicks \/ SkipSettled \/ CloseSettled
           \/ CloseBySignal \/ EnterOrHold \/ NothingToSave \/ EndTick
           \/ OutcomesUnread \/ CallFails
  BY <1>1, <1>5 DEF BeginTick, ReadPicks, SkipSettled, CloseSettled, CloseBySignal,
                    EnterOrHold, NothingToSave, EndTick, OutcomesUnread, CallFails, db
<1> QED
  BY <1>2, <1>3, <1>4, <1>5 DEF Next, Tick, Shutdown, Faults

(* No failure, retry or interleaving lets the runner open a trade on a     *)
(* market that the outcomes of its tick show as settled.                   *)
THEOREM SettledMarketsAreNotEntered == Spec => NoEntryAfterSettled
<1> DEFINE Unentered == \A i \in Ids :
              rows[i].status = "absent" /\ rows'[i].status # "absent" =>
                outcomes[rows'[i].market] = "unknown"
<1>1. Init => SavesUnsettled
  BY DEF Init, SavesUnsettled
<1>2. IndInv /\ SavesUnsettled /\ [Next]_vars => SavesUnsettled'
  BY NextUnsettled
<1>3. IndInv /\ SavesUnsettled /\ [Next]_vars => [Unentered]_vars
  BY RowsAppear DEF SavesUnsettled, Known, Unsaved
<1>4. Spec => Init /\ [][Next]_vars
  BY DEF Spec
<1> QED
  BY <1>1, <1>2, <1>3, <1>4, InductiveInvariant, PTL DEF NoEntryAfterSettled

-----------------------------------------------------------------------------
(* Profit and loss.                                                        *)

WithinStake(direction, entry, pnl) ==
  IF direction = "buy" THEN -entry <= pnl /\ pnl <= 100 - entry
                       ELSE entry - 100 <= pnl /\ pnl <= entry

ClosesBounded == \A ct \in closes : ct.id # 0 =>
  WithinStake(rows[ct.id].direction, rows[ct.id].entry, ct.pnl)

ResultsBounded == \A i \in Ids : rows[i].status = "closed" =>
  WithinStake(rows[i].direction, rows[i].entry, rows[i].pnl)

(* Both ways of computing a profit stay within the stake.                  *)
LEMMA ProfitWithinStake ==
  /\ \A e \in Price, d \in Direction, o \in Outcome :
       WithinStake(d, e, compute_pnl_cents(e, d, o))
  /\ \A e, x \in Price, d \in Direction : WithinStake(d, e, mtm_pnl_cents(e, x, d))
BY DEF WithinStake, compute_pnl_cents, mtm_pnl_cents, Price, Direction, Outcome

LEMMA NextClosesBounded ==
  ASSUME IndInv, ClosesBounded, [Next]_vars
  PROVE  ClosesBounded'
<1> USE DEF IndInv
<1>1. CASE UNCHANGED <<rows, closes>>
  BY <1>1 DEF ClosesBounded
<1>2. CASE closes' = {}
  BY <1>2 DEF ClosesBounded
<1>3. CASE CloseSettled \/ CloseBySignal
  <2>1. Processing /\ Held /\ signals # <<>> /\ rows' = rows
    BY <1>3 DEF CloseSettled, CloseBySignal, Processing, db
  <2>2. Pos \in OpenPosition /\ Pos.entry \in Price /\ Pos.direction \in Direction
    BY <2>1, SignalCloseTyped DEF OpenPosition
  <2>3. PICK reason, pnl :
          /\ closes' = {[id |-> Pos.id, reason |-> reason, pnl |-> pnl]}
          /\ WithinStake(Pos.direction, Pos.entry, pnl)
    <3>1. outcomes[Sig.market] \in Outcome /\ Sig.price \in Price
      BY <2>1, CurrentTyped DEF TypeOK
    <3> QED
      BY <1>3, <2>2, <3>1, ProfitWithinStake DEF CloseSettled, CloseBySignal
  <2>4. Pos.id # 0 => rows[Pos.id].direction = Pos.direction
                      /\ rows[Pos.id].entry = Pos.entry
    BY <2>1, CurrentTyped DEF MemoryBacked, Backs, Held, Pos
  <2> QED
    BY <2>1, <2>3, <2>4 DEF ClosesBounded
<1>4. CASE BulkClose
  <2>1. PICK ct \in closes : rows' = RowsAfterClose(ct) /\ closes' = closes \ {ct}
    BY <1>4 DEF BulkClose
  <2>2. ASSUME NEW c \in closes', c.id # 0
        PROVE  WithinStake(rows'[c.id].direction, rows'[c.id].entry, c.pnl)
    <3>1. c \in closes /\ c.id # ct.id /\ c.id \in Ids
      BY <2>1, <2>2, BoundsTyped DEF MemoryBacked, TypeOK, ClosedTrade, Ids
    <3> QED
      BY <2>1, <2>2, <3>1, CloseEffect DEF ClosesBounded
  <2> QED
    BY <2>2 DEF ClosesBounded
<1>5. CASE BeginShutdown
  <2>1. ASSUME NEW c \in closes', c.id # 0
        PROVE  WithinStake(rows'[c.id].direction, rows'[c.id].entry, c.pnl)
    <3>1. PICK j \in Keys :
            /\ open[j] # NoPos
            /\ c = [id |-> open[j].id, reason |-> "forward_shutdown",
                    pnl |-> mtm_pnl_cents(open[j].entry, mid[j[2]], open[j].direction)]
      BY <1>5, <2>1 DEF BeginShutdown
    <3>2. open[j] \in OpenPosition
      BY <3>1 DEF TypeOK
    <3>3. open[j].entry \in Price /\ open[j].direction \in Direction
      BY <3>2 DEF OpenPosition
    <3>4. j[2] \in Markets /\ mid[j[2]] \in Price
      BY SimAssumption DEF Keys, TypeOK
    <3>5. rows[c.id].direction = open[j].direction /\ rows[c.id].entry = open[j].entry
      BY <2>1, <3>1 DEF MemoryBacked, Backs
    <3>6. rows' = rows
      BY <1>5 DEF BeginShutdown, db
    <3> QED
      BY <3>1, <3>3, <3>4, <3>5, <3>6, ProfitWithinStake
  <2> QED
    BY <2>1 DEF ClosesBounded
<1>6. CASE World \/ CreateRun \/ LoadOpen \/ OutcomesUnread \/ UNCHANGED vars
  BY <1>1, <1>6 DEF World, Quote, EndDatePasses, CloseMarket, Advance, StopSignal,
                    CreateRun, LoadOpen, OutcomesUnread, db, memory, vars
<1>7. CASE \/ WriteClose \/ EndTick \/ CallFails \/ CloseAnswerLost \/ OpenAnswerLost
           \/ FinishRun \/ Crash
  BY <1>2, <1>7 DEF WriteClose, EndTick, CallFails, CloseAnswerLost, OpenAnswerLost,
                    FinishRun, Crash, LeaveTick, Forget
<1>8. CASE \/ BeginTick \/ ReadPicks \/ SkipSettled \/ EnterOrHold \/ NothingToSave
  BY <1>1, <1>8 DEF BeginTick, ReadPicks, SkipSettled, EnterOrHold, NothingToSave, db
<1>9. CASE WriteOpen
  BY <1>2, <1>9 DEF WriteOpen, Control
<1> QED
  BY <1>3, <1>4, <1>5, <1>6, <1>7, <1>8, <1>9 DEF Next, Tick, Shutdown, Faults


(* Every step leaves the table as it is, closes one open row with a close  *)
(* that was under way, or fills the next number with an open row.          *)
LEMMA RowsChange ==
  ASSUME IndInv, [Next]_vars
  PROVE  \/ rows' = rows
         \/ \E ct \in closes : ct.id # 0 /\ rows' = RowsAfterClose(ct)
         \/ /\ signals # <<>> /\ Unsaved /\ lastId < MaxTrades
            /\ run \in Runs /\ pc = "save" /\ closes = {}
            /\ rows' = RowsAfterInsert
            /\ WriteOpen \/ faults' # 0
<1> USE DEF IndInv
<1>1. CASE WriteClose \/ BulkClose \/ CloseAnswerLost
  BY <1>1, CloseEffect DEF WriteClose, BulkClose, CloseAnswerLost
<1>2. CASE WriteOpen \/ OpenAnswerLost
  BY <1>2, BoundsTyped DEF WriteOpen, OpenAnswerLost, Control, Fault, TypeOK
<1>3. CASE World \/ CreateRun \/ LoadOpen \/ Crash \/ FinishRun \/ BeginShutdown
           \/ UNCHANGED vars
  BY <1>3 DEF World, Quote, EndDatePasses, CloseMarket, Advance, StopSignal,
              CreateRun, LoadOpen, Crash, FinishRun, BeginShutdown, db, vars
<1>4. CASE \/ BeginTick \/ ReadPicks \/ SkipSettled \/ CloseSettled
           \/ CloseBySignal \/ EnterOrHold \/ NothingToSave \/ EndTick
           \/ OutcomesUnread \/ CallFails
  BY <1>4 DEF BeginTick, ReadPicks, SkipSettled, CloseSettled, CloseBySignal,
              EnterOrHold, NothingToSave, EndTick, OutcomesUnread, CallFails, db
<1> QED
  BY <1>1, <1>2, <1>3, <1>4 DEF Next, Tick, Shutdown, Faults

LEMMA NextResultsBounded ==
  ASSUME IndInv, ClosesBounded, ResultsBounded, [Next]_vars
  PROVE  ResultsBounded'
<1> USE DEF IndInv
<1> SUFFICES ASSUME NEW i \in Ids, rows'[i].status = "closed"
             PROVE  WithinStake(rows'[i].direction, rows'[i].entry, rows'[i].pnl)
  BY DEF ResultsBounded
<1>1. CASE rows' = rows
  BY <1>1 DEF ResultsBounded
<1>2. CASE \E ct \in closes : ct.id # 0 /\ rows' = RowsAfterClose(ct)
  <2>1. PICK ct \in closes : ct.id # 0 /\ rows' = RowsAfterClose(ct)
    BY <1>2
  <2>2. CASE i = ct.id
    <3>1. rows[i] \in Row
      BY DEF TypeOK
    <3>2. /\ rows'[i].direction = rows[i].direction
          /\ rows'[i].entry = rows[i].entry
          /\ rows'[i].pnl = ct.pnl
      BY <2>1, <2>2, <3>1, CloseEffect DEF Row
    <3> QED
      BY <2>1, <2>2, <3>2 DEF ClosesBounded
  <2>3. CASE i # ct.id
    BY <2>1, <2>3, CloseEffect DEF ResultsBounded
  <2> QED
    BY <2>2, <2>3
<1>3. CASE signals # <<>> /\ Unsaved /\ lastId < MaxTrades /\ rows' = RowsAfterInsert
  <2>1. i # lastId + 1
    BY <1>3, InsertEffect
  <2> QED
    BY <1>3, <2>1, InsertEffect DEF ResultsBounded
<1> QED
  BY <1>1, <1>2, <1>3, RowsChange

(* However a trade ends, its recorded loss is at most its stake and its    *)
(* recorded gain at most the rest of the dollar.                           *)
THEOREM LossesAreBounded == Spec => []LossBoundedByStake
<1>1. Init => ClosesBounded /\ ResultsBounded
  BY DEF Init, ClosesBounded, ResultsBounded, NoRow
<1>2. IndInv /\ ClosesBounded /\ ResultsBounded /\ [Next]_vars
        => (ClosesBounded /\ ResultsBounded)'
  BY NextClosesBounded, NextResultsBounded
<1>3. IndInv /\ ResultsBounded => LossBoundedByStake
  <2> SUFFICES ASSUME IndInv, ResultsBounded, NEW i \in Ids, rows[i].status = "closed"
               PROVE  LET stake == IF rows[i].direction = "buy" THEN rows[i].entry
                                                                ELSE 100 - rows[i].entry
                      IN  -stake <= rows[i].pnl /\ rows[i].pnl <= 100 - stake
    BY DEF LossBoundedByStake
  <2>1. rows[i] \in Row
    BY DEF IndInv, TypeOK
  <2>2. rows[i].entry \in Int /\ rows[i].pnl \in Int
    BY <2>1 DEF Row, Price
  <2> QED
    BY <2>2 DEF ResultsBounded, WithinStake
<1> QED
  BY <1>1, <1>2, <1>3, InductiveInvariant, PTL DEF Spec

-----------------------------------------------------------------------------
(* The refinement.                                                         *)

LEMMA LedgerKeeps ==
  ASSUME IndInv, NEW i \in Ids
  PROVE  /\ rows[i] \in Row
         /\ LedgerTrade(rows[i]).status = rows[i].status
         /\ rows[i].status = "open" =>
              LedgerTrade(rows[i]).key = KeyOf(rows[i])
<1>1. rows[i] \in Row
  BY DEF IndInv, TypeOK
<1>2. rows[i].status \in {"absent", "open", "closed"}
  BY <1>1 DEF Row
<1> QED
  BY <1>1, <1>2 DEF LedgerTrade

LEMMA LedgerInit == Init => Ledger!Init
BY DEF Init, Ledger!Init, Ledger!Blank, LedgerTrade, NoRow

(* A close of the runner is a Close of the ledger.                         *)
LEMMA LedgerClose ==
  ASSUME IndInv, NEW ct \in closes, ct.id # 0, rows' = RowsAfterClose(ct)
  PROVE  Ledger!Close(ct.id)
<1> USE DEF IndInv
<1> DEFINE i == ct.id
           old == rows[i]
<1>1. i \in Ids /\ old.status = "open" /\ old \in Row
  BY CloseEffect DEF TypeOK
<1>2. rows'[i] = [old EXCEPT !.status = "closed", !.reason = ct.reason, !.pnl = ct.pnl]
  BY CloseEffect
<1>3. \A j \in Ids : j # i => rows'[j] = rows[j]
  BY CloseEffect
<1>4. ct.reason \in Reason /\ ct.pnl \in Int
  BY DEF TypeOK, ClosedTrade
<1>5. KeyOf(old) \in Keys /\ old.run \in Runs
  BY <1>1, OpenRowKeyed DEF Numbered
<1> DEFINE terms == [direction |-> old.direction, entry |-> old.entry,
                     opened |-> old.opened, run |-> old.run]
<1>6. terms \in [direction : Direction, entry : Price, opened : Time, run : Runs]
  BY <1>1, <1>5 DEF Row
<1>7. LedgerTrade(old) = [status |-> "open", key |-> KeyOf(old), terms |-> terms]
  BY <1>1 DEF LedgerTrade
<1>8. LedgerTrade(rows'[i]) =
        [status |-> "closed", key |-> KeyOf(old), terms |-> terms,
         result |-> [reason |-> ct.reason, pnl |-> ct.pnl]]
  BY <1>1, <1>2 DEF LedgerTrade, KeyOf, Row
<1>9. LedgerTrade(rows'[i]) \in Ledger!ClosedTrade
  BY <1>4, <1>5, <1>6, <1>8 DEF Ledger!ClosedTrade
<1>10. [j \in Ids |-> LedgerTrade(rows'[j])] =
         [[j \in Ids |-> LedgerTrade(rows[j])] EXCEPT ![i] = LedgerTrade(rows'[i])]
  BY <1>1, <1>3
<1> DEFINE before == [j \in Ids |-> LedgerTrade(rows[j])]
           after  == [j \in Ids |-> LedgerTrade(rows'[j])]
<1>11. before[i] = LedgerTrade(old) /\ after[i] = LedgerTrade(rows'[i])
  BY <1>1
<1>12. /\ before[i].status = "open"
       /\ after[i] \in Ledger!ClosedTrade
       /\ after[i].key = before[i].key
       /\ after[i].terms = before[i].terms
       /\ after = [before EXCEPT ![i] = after[i]]
  <2> HIDE DEF before, after, terms, old, i
  <2>1. after = [before EXCEPT ![i] = LedgerTrade(rows'[i])]
    BY <1>10 DEF before, after
  <2> QED
    BY <1>7, <1>8, <1>9, <1>11, <2>1
<1> QED
  BY <1>12 DEF Ledger!Close, Ledger!Replace


(* An insert of the runner is an Open of the ledger, at a free key when no *)
(* call can fail.                                                          *)
LEMMA LedgerOpen ==
  ASSUME IndInv, Covered, signals # <<>>, Unsaved, lastId < MaxTrades,
         run \in Runs, pc = "save", closes = {}, rows' = RowsAfterInsert
  PROVE  Ledger!Open(lastId + 1)
<1> USE DEF IndInv
<1> DEFINE i == lastId + 1
           new == rows'[i]
           terms == [direction |-> Pos.direction, entry |-> Pos.entry,
                     opened |-> Pos.opened, run |-> run]
           before == [j \in Ids |-> LedgerTrade(rows[j])]
           after  == [j \in Ids |-> LedgerTrade(rows'[j])]
<1>1. /\ i \in Ids /\ rows[i].status = "absent"
      /\ new = [status |-> "open", profile |-> Pf, market |-> Sig.market,
                run |-> run, direction |-> Pos.direction, entry |-> Pos.entry,
                opened |-> Pos.opened, reason |-> "none", pnl |-> 0]
      /\ KeyOf(new) = Key
      /\ \A j \in Ids : j # i => rows'[j] = rows[j]
  BY InsertEffect
<1>2. Pos \in OpenPosition /\ Key \in Keys
  BY SignalCloseTyped, CurrentTyped DEF Unsaved
<1>3. terms \in [direction : Direction, entry : Price, opened : Time, run : Runs]
  BY <1>2 DEF OpenPosition
<1>4. LedgerTrade(new) = [status |-> "open", key |-> Key, terms |-> terms]
  BY <1>1 DEF LedgerTrade
<1>5. LedgerTrade(new) \in Ledger!OpenTrade
  BY <1>2, <1>3, <1>4 DEF Ledger!OpenTrade
<1>6. before[i].status = "absent"
  BY <1>1 DEF LedgerTrade
<1>7. \A j \in Ids : j < i => before[j].status # "absent"
  <2>1. \A j \in Ids : j < i => rows[j].status # "absent"
    BY DEF Numbered, Ids, TypeOK
  <2> QED
    BY <2>1, LedgerKeeps
<1>8. after[i] = LedgerTrade(new) /\ after[i].key = Key
  BY <1>1, <1>4
<1>9. after = [before EXCEPT ![i] = after[i]]
  BY <1>1
<1>10. MaxFaults = 0 => \A j \in Ids : before[j].status = "open" => before[j].key # Key
  <2> SUFFICES ASSUME MaxFaults = 0, NEW j \in Ids, rows[j].status = "open"
               PROVE  KeyOf(rows[j]) # Key
    BY LedgerKeeps
  <2>1. faults = 0
    BY DEF TypeOK
  <2>2. open[KeyOf(rows[j])].id = j
    BY <2>1 DEF Covered
  <2> QED
    BY <2>2 DEF Unsaved, Pos, Ids
<1>11. /\ before[i].status = "absent"
       /\ \A j \in Ids : j < i => before[j].status # "absent"
       /\ after[i] \in Ledger!OpenTrade
       /\ MaxFaults = 0 =>
            \A j \in Ids : before[j].status = "open" => before[j].key # after[i].key
       /\ after = [before EXCEPT ![i] = after[i]]
  BY <1>5, <1>6, <1>7, <1>8, <1>9, <1>10
<1> QED
  BY <1>11 DEF Ledger!Open, Ledger!Free, Ledger!Replace

(* The runner and its table implement the ledger: trades open at the next  *)
(* number and close once, with terms and results that never change, and on *)
(* distinct keys when no call can fail.                                    *)
THEOREM RunnerImplementsLedger == Spec => ImplementsLedger
<1>1. Init => Ledger!Init
  BY LedgerInit
<1>2. IndInv /\ Covered /\ FaultFree /\ [Next]_vars
        => Ledger!Next \/ UNCHANGED [i \in Ids |-> LedgerTrade(rows[i])]
  <2> SUFFICES ASSUME IndInv, Covered, FaultFree, [Next]_vars
               PROVE  Ledger!Next \/ UNCHANGED [i \in Ids |-> LedgerTrade(rows[i])]
    OBVIOUS
  <2>1. CASE rows' = rows
    BY <2>1
  <2>2. CASE \E ct \in closes : ct.id # 0 /\ rows' = RowsAfterClose(ct)
    <3>1. PICK ct \in closes : ct.id # 0 /\ rows' = RowsAfterClose(ct)
      BY <2>2
    <3>2. ct.id \in Ids /\ Ledger!Close(ct.id)
      BY <3>1, CloseEffect, LedgerClose DEF IndInv
    <3> QED
      BY <3>2 DEF Ledger!Next
  <2>3. CASE /\ signals # <<>> /\ Unsaved /\ lastId < MaxTrades /\ run \in Runs
             /\ pc = "save" /\ closes = {} /\ rows' = RowsAfterInsert
    <3>1. lastId + 1 \in Ids /\ Ledger!Open(lastId + 1)
      BY <2>3, InsertTyped, LedgerOpen DEF IndInv
    <3> QED
      BY <3>1 DEF Ledger!Next
  <2> QED
    BY <2>1, <2>2, <2>3, RowsChange
<1>3. Spec => Init /\ [][Next]_vars
  BY DEF Spec
<1> QED
  BY <1>1, <1>2, <1>3, InductiveInvariant, FaultFreeInvariant, PTL
  DEF ImplementsLedger, Ledger!Spec

=============================================================================
