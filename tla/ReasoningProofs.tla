-------------------------- MODULE ReasoningProofs --------------------------
(***************************************************************************)
(* What Reasoning guarantees for every set of markets, every list of       *)
(* strategies and every number of slots, failures, crashes and moves of    *)
(* the tables it reads.                                                    *)
(***************************************************************************)
EXTENDS Reasoning, MinMaxProofs, FiniteSetTheorems, TLAPS

-----------------------------------------------------------------------------
(* The shape of the variables that the invariants speak of.                *)
Fields == {"pc", "mid", "depth", "spread", "game", "turn"}

Shape ==
  /\ DOMAIN ev = Markets /\ DOMAIN rows = Markets
  /\ cache \in [Markets -> {"none", "safe", "unsafe"}]
  /\ \A m \in Markets : DOMAIN ev[m] = Fields
  /\ DOMAIN tick = {"pc", "todo", "force"}

(* Between two ticks nothing is evaluated.                                 *)
Barrier == tick.pc # "evaluate" => \A m \in Markets : ev[m].pc = "idle"

FewRunning == IsFiniteSet(Running) /\ SlotsRespected

IInv == Shape /\ Barrier /\ PricedOnlyWhenSafe /\ FewRunning

-----------------------------------------------------------------------------
LEMMA IdleFields ==
  /\ DOMAIN Idle = Fields /\ Idle.pc = "idle"
BY DEF Idle, Fields

LEMMA TickFields ==
  ASSUME NEW pc PROVE DOMAIN NewTick(pc) = {"pc", "todo", "force"} /\ NewTick(pc).pc = pc
BY DEF NewTick

(* With nothing running, or when no evaluation begins, the slots suffice.  *)
LEMMA NoneRunning ==
  ASSUME Running = {} PROVE FewRunning
<1>1. IsFiniteSet({}) /\ Cardinality({}) = 0
  BY FS_EmptySet
<1>2. Slots \in Nat \ {0}
  BY ReasoningAssumption
<1> QED
  BY <1>1, <1>2 DEF FewRunning, SlotsRespected

LEMMA FewerRunning ==
  ASSUME FewRunning, Running' \subseteq Running PROVE FewRunning'
<1>1. IsFiniteSet(Running') /\ Cardinality(Running') <= Cardinality(Running)
  BY FS_Subset DEF FewRunning
<1>2. Cardinality(Running') \in Nat /\ Cardinality(Running) \in Nat /\ Slots \in Nat
  BY <1>1, FS_CardinalityType, ReasoningAssumption DEF FewRunning
<1> QED
  BY <1>1, <1>2 DEF FewRunning, SlotsRespected

LEMMA OneMoreRunning ==
  ASSUME FewRunning, FreeSlot, NEW m \in Markets, Running' \subseteq Running \cup {m}
  PROVE  FewRunning'
<1>1. /\ IsFiniteSet(Running \cup {m})
      /\ \/ Cardinality(Running \cup {m}) = Cardinality(Running) + 1
         \/ Cardinality(Running \cup {m}) = Cardinality(Running)
  BY FS_AddElement DEF FewRunning
<1>2. /\ IsFiniteSet(Running')
      /\ Cardinality(Running') <= Cardinality(Running \cup {m})
  BY <1>1, FS_Subset
<1>3. /\ Cardinality(Running') \in Nat /\ Cardinality(Running) \in Nat
      /\ Cardinality(Running \cup {m}) \in Nat /\ Slots \in Nat
  BY <1>1, <1>2, FS_CardinalityType, ReasoningAssumption DEF FewRunning
<1> QED
  BY <1>1, <1>2, <1>3 DEF FewRunning, SlotsRespected, FreeSlot
-----------------------------------------------------------------------------
(* Steps that leave the evaluations, the verdicts and the list of          *)
(* strategies alone, and add no row.                                       *)
LEMMA QuietStep ==
  ASSUME IInv,
         UNCHANGED <<ev, cache, active>>,
         DOMAIN tick' = {"pc", "todo", "force"},
         tick'.pc # "evaluate" => \A m \in Markets : ev[m].pc = "idle",
         DOMAIN rows' = Markets,
         \A m \in Markets : rows[m] = <<>> => rows'[m] = <<>>
  PROVE  IInv'
<1>1. Shape'
  BY DEF IInv, Shape
<1>2. Barrier'
  BY DEF IInv, Barrier
<1>3. PricedOnlyWhenSafe'
  BY DEF IInv, PricedOnlyWhenSafe
<1>4. FewRunning'
  <2>1. Running' \subseteq Running
    BY DEF Running
  <2> QED
    BY <2>1, FewerRunning DEF IInv
<1> QED
  BY <1>1, <1>2, <1>3, <1>4 DEF IInv

(* The same of a step that starts or ends a process, when nothing is       *)
(* evaluated after it.                                                     *)
LEMMA AllIdleStep ==
  ASSUME IInv,
         UNCHANGED <<cache, rows>>,
         ev' = [m \in Markets |-> Idle],
         DOMAIN tick' = {"pc", "todo", "force"}
  PROVE  IInv'
<1>1. \A m \in Markets : ev'[m] = Idle
  OBVIOUS
<1>2. Shape'
  BY <1>1, IdleFields DEF IInv, Shape
<1>3. Barrier'
  BY <1>1, IdleFields DEF Barrier
<1>4. PricedOnlyWhenSafe'
  BY <1>1, IdleFields DEF IInv, PricedOnlyWhenSafe
<1>5. FewRunning'
  <2>1. Running' \subseteq Running
    BY <1>1, IdleFields DEF Running
  <2> QED
    BY <2>1, FewerRunning DEF IInv
<1> QED
  BY <1>2, <1>3, <1>4, <1>5 DEF IInv

(* A step of the evaluation of one market.                                 *)
LEMMA EvaluationStep ==
  ASSUME IInv, NEW m \in Markets, NEW e,
         ev' = [ev EXCEPT ![m] = e],
         DOMAIN e = Fields,
         DOMAIN tick' = {"pc", "todo", "force"}, tick'.pc = tick.pc,
         tick.pc = "evaluate" \/ ev[m].pc # "idle",
         cache' \in [Markets -> {"none", "safe", "unsafe"}],
         \A n \in Markets \ {m} : cache'[n] = cache[n],
         cache[m] = "safe" => cache'[m] = "safe",
         e.pc \in {"context", "strategies"} => cache'[m] = "safe",
         DOMAIN rows' = Markets,
         \A n \in Markets \ {m} : rows'[n] = rows[n],
         rows'[m] = rows[m] \/ cache[m] = "safe",
         ev[m].pc # "idle" \/ e.pc = "idle" \/ FreeSlot
  PROVE  IInv'
<1>1. /\ ev'[m] = e /\ DOMAIN ev' = Markets
      /\ \A n \in Markets \ {m} : ev'[n] = ev[n]
  BY DEF IInv, Shape
<1>2. Shape'
  BY <1>1 DEF IInv, Shape
<1>3. Barrier'
  BY <1>1 DEF IInv, Barrier
<1>4. PricedOnlyWhenSafe'
  <2> SUFFICES ASSUME NEW n \in Markets,
                      rows'[n] # <<>> \/ ev'[n].pc \in {"context", "strategies"}
               PROVE  cache'[n] = "safe"
    BY DEF PricedOnlyWhenSafe
  <2>1. CASE n = m
    BY <2>1, <1>1 DEF IInv, PricedOnlyWhenSafe
  <2>2. CASE n # m
    BY <2>2, <1>1 DEF IInv, PricedOnlyWhenSafe
  <2> QED
    BY <2>1, <2>2
<1>5. FewRunning'
  <2>1. CASE ev[m].pc # "idle" \/ e.pc = "idle"
    <3>1. Running' \subseteq Running
      BY <2>1, <1>1 DEF Running
    <3> QED
      BY <3>1, FewerRunning DEF IInv
  <2>2. CASE FreeSlot
    <3>1. Running' \subseteq Running \cup {m}
      BY <1>1 DEF Running
    <3> QED
      BY <3>1, <2>2, OneMoreRunning DEF IInv
  <2> QED
    BY <2>1, <2>2
<1> QED
  BY <1>2, <1>3, <1>4, <1>5 DEF IInv
-----------------------------------------------------------------------------
(* The steps of one evaluation.                                            *)
LEMMA BeginKeeps ==
  ASSUME IInv, NEW m \in Markets, Begin(m) PROVE IInv'
<1> DEFINE started == [Idle EXCEPT !.pc = "gate", !.mid = Price(m).mid]
<1>1. /\ UNCHANGED <<cache, rows, active>>
      /\ tick.pc = "evaluate" /\ FreeSlot
      /\ DOMAIN tick' = {"pc", "todo", "force"} /\ tick'.pc = tick.pc
  BY DEF Begin, IInv, Shape
<1>2. CASE Price(m) # NoRow /\ Triggered(m)
  <2>1. ev' = [ev EXCEPT ![m] = started]
    BY <1>2 DEF Begin
  <2>2. DOMAIN started = Fields /\ started.pc = "gate"
    BY DEF Idle, Fields
  <2> HIDE DEF started
  <2> QED
    BY <1>1, <2>1, <2>2, EvaluationStep DEF IInv, Shape
<1>3. CASE ~(Price(m) # NoRow /\ Triggered(m))
  <2>1. ev' = ev
    BY <1>3 DEF Begin
  <2> QED
    BY <1>1, <2>1, QuietStep DEF IInv, Shape
<1> QED
  BY <1>2, <1>3

LEMMA GateKeeps ==
  ASSUME IInv, NEW m \in Markets, Gate(m) PROVE IInv'
<1> DEFINE passed == [ev[m] EXCEPT !.pc = "context"]
<1>1. /\ UNCHANGED <<rows, active, tick>>
      /\ ev[m].pc = "gate"
      /\ DOMAIN tick' = {"pc", "todo", "force"} /\ tick'.pc = tick.pc
  BY DEF Gate, IInv, Shape, Barrier, memory
<1>2. /\ cache' \in [Markets -> {"none", "safe", "unsafe"}]
      /\ \A n \in Markets \ {m} : cache'[n] = cache[n]
      /\ cache[m] = "safe" => cache'[m] = "safe"
      /\ cache'[m] # "none"
  <2>1. CASE cache[m] = "none"
    <3>1. PICK v \in Verdicts(world.criteria[m]) : cache' = [cache EXCEPT ![m] = v]
      BY <2>1 DEF Gate
    <3>2. v \in {"safe", "unsafe"}
      BY <3>1 DEF Verdicts
    <3> QED
      BY <2>1, <3>1, <3>2 DEF IInv, Shape
  <2>2. CASE cache[m] # "none"
    BY <2>2 DEF Gate, IInv, Shape
  <2> QED
    BY <2>1, <2>2
<1>3. CASE Rejected(m)
  <2>1. ev' = [ev EXCEPT ![m] = Idle]
    BY <1>3 DEF Gate, Finish
  <2> QED
    BY <1>1, <1>2, <2>1, IdleFields, EvaluationStep DEF IInv, Shape
<1>4. CASE ~Rejected(m)
  <2>1. ev' = [ev EXCEPT ![m] = passed] /\ cache'[m] = "safe"
    BY <1>2, <1>4 DEF Gate, Rejected
  <2>2. DOMAIN passed = Fields /\ passed.pc = "context"
    BY <1>1 DEF IInv, Shape, Fields
  <2> HIDE DEF passed
  <2> QED
    BY <1>1, <1>2, <2>1, <2>2, EvaluationStep DEF IInv, Shape
<1> QED
  BY <1>3, <1>4

LEMMA ReadContextKeeps ==
  ASSUME IInv, NEW m \in Markets, ReadContext(m) PROVE IInv'
<1> DEFINE read == [ev[m] EXCEPT !.pc = "strategies", !.game = world.game[m],
                                 !.depth = Price(m).depth, !.spread = Price(m).spread]
<1>1. /\ UNCHANGED <<cache, rows, active, tick>>
      /\ ev[m].pc = "context" /\ cache[m] = "safe"
      /\ DOMAIN tick' = {"pc", "todo", "force"}
      /\ ev' = [ev EXCEPT ![m] = read]
  BY DEF ReadContext, IInv, Shape, PricedOnlyWhenSafe, memory
<1>2. DOMAIN read = Fields /\ read.pc = "strategies"
  BY DEF IInv, Shape, Fields
<1> HIDE DEF read
<1> QED
  BY <1>1, <1>2, EvaluationStep DEF IInv, Shape

(* A strategy that has run, or failed, is passed.                          *)
LEMMA StrategyDone ==
  ASSUME IInv, NEW m \in Markets,
         ev[m].pc = "strategies",
         ev' = [ev EXCEPT ![m].turn = @ + 1],
         UNCHANGED <<cache, active, tick>>,
         DOMAIN rows' = Markets,
         \A n \in Markets \ {m} : rows'[n] = rows[n]
  PROVE  IInv'
<1> DEFINE rest == [ev[m] EXCEPT !.turn = @ + 1]
<1>1. cache[m] = "safe" /\ ev' = [ev EXCEPT ![m] = rest]
  BY DEF IInv, PricedOnlyWhenSafe
<1>2. DOMAIN rest = Fields /\ rest.pc = "strategies"
  BY DEF IInv, Shape, Fields
<1> HIDE DEF rest
<1> QED
  BY <1>1, <1>2, EvaluationStep DEF IInv, Shape

LEMMA RunStrategyKeeps ==
  ASSUME IInv, NEW m \in Markets, RunStrategy(m) PROVE IInv'
<1> DEFINE s     == enabled[NextStrategy(m)]
           value == Signal(s, m)
<1>1. /\ ev[m].pc = "strategies"
      /\ ev' = [ev EXCEPT ![m].turn = @ + 1]
      /\ UNCHANGED <<cache, active, tick>>
  BY DEF RunStrategy, Pass, memory
<1>2. (IF value = NoSignal THEN UNCHANGED rows ELSE Insert(m, Row(s, value)))
  BY DEF RunStrategy
<1> HIDE DEF s, value
<1>3. DOMAIN rows' = Markets /\ \A n \in Markets \ {m} : rows'[n] = rows[n]
  BY <1>2 DEF Insert, IInv, Shape
<1> QED
  BY <1>1, <1>3, StrategyDone

LEMMA StrategyFailsKeeps ==
  ASSUME IInv, NEW m \in Markets, StrategyFails(m) PROVE IInv'
<1>1. /\ ev[m].pc = "strategies"
      /\ ev' = [ev EXCEPT ![m].turn = @ + 1]
      /\ UNCHANGED <<cache, active, tick, rows>>
  BY DEF StrategyFails, Pass, memory
<1> QED
  BY <1>1, StrategyDone DEF IInv, Shape

LEMMA EvaluationEnds ==
  ASSUME IInv, NEW m \in Markets, Evaluated(m) \/ EvaluationFails(m) PROVE IInv'
<1>1. /\ ev[m].pc # "idle" /\ ev' = [ev EXCEPT ![m] = Idle]
      /\ UNCHANGED <<cache, active, tick, rows>>
  BY DEF Evaluated, EvaluationFails, Finish, memory
<1> QED
  BY <1>1, IdleFields, EvaluationStep DEF IInv, Shape

-----------------------------------------------------------------------------
(* The steps of the loop, of the process and of the others.                *)
LEMMA ReadDisabledKeeps ==
  ASSUME IInv, ReadDisabled PROVE IInv'
<1>1. /\ \A m \in Markets : ev[m].pc = "idle"
      /\ UNCHANGED <<ev, cache, rows>>
      /\ tick' = NewTick("candidates")
  BY DEF ReadDisabled, IInv, Barrier
<1>2. Shape'
  BY <1>1, TickFields DEF IInv, Shape
<1>3. Barrier'
  BY <1>1 DEF Barrier
<1>4. PricedOnlyWhenSafe'
  BY <1>1 DEF IInv, PricedOnlyWhenSafe
<1>5. FewRunning'
  BY <1>1 DEF IInv, FewRunning, SlotsRespected, Running
<1> QED
  BY <1>2, <1>3, <1>4, <1>5 DEF IInv

LEMMA TickKeeps ==
  ASSUME IInv,
         ReadCandidates \/ ReadKalshi \/ TickEnds \/ TickFails \/ NextTick \/ Stop
  PROVE  IInv'
<1>1. UNCHANGED <<ev, cache, active, rows>>
  BY DEF ReadCandidates, ReadKalshi, TickEnds, TickFails, NextTick, Stop, memory
<1>2. DOMAIN tick' = {"pc", "todo", "force"}
  BY TickFields DEF ReadCandidates, ReadKalshi, TickEnds, TickFails, NextTick, Stop,
                    IInv, Shape
<1>3. tick'.pc # "evaluate" => \A m \in Markets : ev[m].pc = "idle"
  <2>1. CASE TickEnds
    BY <2>1 DEF TickEnds, Running
  <2>2. CASE tick'.pc = "evaluate" \/ tick.pc # "evaluate"
    BY <2>2 DEF IInv, Barrier
  <2>3. CASE ReadCandidates \/ ReadKalshi \/ TickFails \/ NextTick
    <3>1. tick.pc # "evaluate"
      BY <2>3 DEF ReadCandidates, ReadKalshi, TickFails, NextTick
    <3> QED
      BY <3>1 DEF IInv, Barrier
  <2>4. CASE Stop
    BY <2>4 DEF Stop, IInv, Barrier
  <2> QED
    BY <2>1, <2>3, <2>4
<1> QED
  BY <1>1, <1>2, <1>3, QuietStep DEF IInv, Shape

LEMMA ProcessKeeps ==
  ASSUME IInv, Exit \/ Crash \/ Restart PROVE IInv'
<1>1. UNCHANGED <<cache, rows>> /\ ev' = [m \in Markets |-> Idle]
  BY DEF Exit, Crash, Restart, Down, Start
<1>2. DOMAIN tick' = {"pc", "todo", "force"}
  BY TickFields DEF Exit, Crash, Restart, Down, Start
<1> QED
  BY <1>1, <1>2, AllIdleStep

LEMMA OthersKeep ==
  ASSUME IInv,
         \/ \E m \in Markets : MinutePasses(m) \/ RowExpires(m)
         \/ \E v \in Moves : WorldMoves(v)
  PROVE  IInv'
<1>1. UNCHANGED <<ev, cache, active, tick>>
  BY DEF MinutePasses, RowExpires, WorldMoves, memory
<1>2. DOMAIN rows' = Markets /\ \A m \in Markets : rows[m] = <<>> => rows'[m] = <<>>
  BY DEF MinutePasses, RowExpires, WorldMoves, IInv, Shape
<1> QED
  BY <1>1, <1>2, QuietStep DEF IInv, Shape, Barrier
-----------------------------------------------------------------------------
LEMMA InitIInv == Init => IInv
<1> SUFFICES ASSUME Init PROVE IInv
  OBVIOUS
<1>1. /\ \A m \in Markets : ev[m] = Idle /\ rows[m] = <<>>
      /\ tick = NewTick("disabled")
  BY DEF Init
<1>2. Shape
  BY <1>1, IdleFields, TickFields DEF Init, Shape
<1>3. Barrier /\ PricedOnlyWhenSafe
  BY <1>1, IdleFields DEF Barrier, PricedOnlyWhenSafe
<1>4. FewRunning
  BY <1>1, IdleFields, NoneRunning DEF Running
<1> QED
  BY <1>2, <1>3, <1>4 DEF IInv

LEMMA NextIInv == IInv /\ [Next]_vars => IInv'
<1> SUFFICES ASSUME IInv, [Next]_vars PROVE IInv'
  OBVIOUS
<1>1. CASE Tick \/ TickFails \/ Stop
  BY <1>1, ReadDisabledKeeps, TickKeeps DEF Tick
<1>2. CASE Exit \/ Crash \/ Restart
  BY <1>2, ProcessKeeps
<1>3. CASE \E m \in Markets : Evaluate(m) \/ StrategyFails(m) \/ EvaluationFails(m)
  BY <1>3, BeginKeeps, GateKeeps, ReadContextKeeps, RunStrategyKeeps, StrategyFailsKeeps,
     EvaluationEnds DEF Evaluate
<1>4. CASE \/ \E m \in Markets : MinutePasses(m) \/ RowExpires(m)
           \/ \E v \in Moves : WorldMoves(v)
  BY <1>4, OthersKeep
<1>5. CASE UNCHANGED vars
  BY <1>5, QuietStep DEF vars, memory, IInv, Shape, Barrier
<1> QED
  BY <1>1, <1>2, <1>3, <1>4, <1>5 DEF Next

THEOREM InductiveInvariant == Spec => []IInv
BY InitIInv, NextIInv, PTL DEF Spec

(* No market is priced before its criteria were judged safe, for any       *)
(* number of evaluations at once and through crashes (_evaluate_market).   *)
THEOREM OnlySafeMarketsArePriced == Spec => []PricedOnlyWhenSafe
<1>1. IInv => PricedOnlyWhenSafe
  BY DEF IInv
<1> QED
  BY <1>1, InductiveInvariant, PTL

(* The list of strategies is never replaced under an evaluation that goes  *)
(* through it: gather waits for all of them before auto-disable is asked   *)
(* again (_run).                                                           *)
THEOREM ListIsReplacedBetweenTicks == Spec => ListHoldsStill
<1>1. ASSUME IInv, [Next]_vars, NEW m \in Markets,
             ev[m].pc = "strategies", ev'[m].pc = "strategies"
      PROVE  active' = active
  <2>1. CASE Tick \/ TickFails \/ Stop
    <3>1. ~ReadDisabled
      BY <1>1 DEF ReadDisabled, IInv, Barrier
    <3> QED
      BY <2>1, <3>1 DEF Tick, ReadCandidates, ReadKalshi, TickEnds, NextTick, TickFails, Stop,
                        memory
  <2>2. CASE Exit \/ Crash \/ Restart
    <3>1. ev'[m] = Idle
      BY <2>2 DEF Exit, Crash, Restart, Down, Start
    <3> QED
      BY <1>1, <3>1, IdleFields
  <2>3. CASE \E n \in Markets : Evaluate(n) \/ StrategyFails(n) \/ EvaluationFails(n)
    BY <2>3 DEF Evaluate, Begin, Gate, ReadContext, RunStrategy, Evaluated, StrategyFails,
                EvaluationFails, memory
  <2>4. CASE \/ \E n \in Markets : MinutePasses(n) \/ RowExpires(n)
             \/ \E v \in Moves : WorldMoves(v)
             \/ UNCHANGED vars
    BY <2>4 DEF MinutePasses, RowExpires, WorldMoves, vars, memory
  <2> QED
    BY <1>1, <2>1, <2>2, <2>3, <2>4 DEF Next
<1> DEFINE Still == \A m \in Markets :
      ev[m].pc = "strategies" /\ ev'[m].pc = "strategies" => active' = active
<1>2. IInv /\ [Next]_vars => [Still]_vars
  BY <1>1
<1> HIDE DEF Still
<1>3. Spec => [][Still]_vars
  BY <1>2, InductiveInvariant, PTL DEF Spec
<1> QED
  BY <1>3 DEF ListHoldsStill, Still

(* At most Slots evaluations run at once, however many markets are due     *)
(* (the semaphore of _run).                                                *)
THEOREM SlotsSuffice == Spec => []SlotsRespected
<1>1. IInv => SlotsRespected
  BY DEF IInv, FewRunning
<1> QED
  BY <1>1, InductiveInvariant, PTL

-----------------------------------------------------------------------------
(* Fair values are kept in sequences.                                      *)
RowSeqs == \A m \in Markets : rows[m] \in Seq(Range(rows[m]))

LEMMA OwnRange ==
  ASSUME NEW S, NEW s \in Seq(S) PROVE s \in Seq(Range(s))
<1>1. Len(s) \in Nat /\ DOMAIN s = 1..Len(s) /\ s \in [1..Len(s) -> S]
  OBVIOUS
<1>2. s \in [1..Len(s) -> Range(s)]
  BY <1>1 DEF Range
<1> QED
  BY <1>1, <1>2

LEMMA OwnPart ==
  ASSUME NEW S, NEW s \in Seq(S), NEW k \in Nat, k <= Len(s)
  PROVE  SubSeq(s, 1, k) \in Seq(Range(SubSeq(s, 1, k)))
<1>1. SubSeq(s, 1, k) \in Seq(S)
  OBVIOUS
<1> QED
  BY <1>1, OwnRange

LEMMA ShorterOf == ASSUME NEW x \in Nat, NEW y \in Nat PROVE Smaller(x, y) \in 0..y
BY DEF Smaller

(* What an insert leaves of the rows of the window.                        *)
LEMMA Inserted ==
  ASSUME IInv, RowSeqs, NEW m \in Markets, NEW row, Insert(m, row)
  PROVE  /\ rows'[m] \in Seq(Range(rows'[m]))
         /\ rows'[m] # <<>> => rows'[m][1] = row
         /\ \A n \in Markets \ {m} : rows'[n] = rows[n]
<1> DEFINE S   == Range(rows[m]) \cup {row}
           all == <<row>> \o rows[m]
           k   == Smaller(MaxRows, Len(all))
<1>1. rows[m] \in Seq(S)
  BY DEF RowSeqs
<1>2. all \in Seq(S) /\ Len(all) \in Nat /\ all[1] = row
  BY <1>1
<1> HIDE DEF all
<1>3. k \in 0..Len(all)
  BY <1>2, ShorterOf, ReasoningAssumption
<1> HIDE DEF k
<1>4. rows' = [rows EXCEPT ![m] = SubSeq(all, 1, k)]
  BY DEF Insert, all, k
<1>5. rows'[m] = SubSeq(all, 1, k) /\ \A n \in Markets \ {m} : rows'[n] = rows[n]
  BY <1>4 DEF IInv, Shape
<1>6. rows'[m] \in Seq(Range(rows'[m]))
  BY <1>2, <1>3, <1>5, OwnPart
<1>7. ASSUME rows'[m] # <<>> PROVE rows'[m][1] = row
  <2>1. k # 0
    BY <1>2, <1>5, <1>7
  <2> QED
    BY <1>2, <1>3, <1>5, <2>1
<1> QED
  BY <1>5, <1>6, <1>7

LEMMA InitRowSeqs == Init => RowSeqs
<1> SUFFICES ASSUME Init, NEW m \in Markets PROVE rows[m] \in Seq(Range(rows[m]))
  BY DEF RowSeqs
<1>1. rows[m] = <<>> /\ <<>> \in Seq({})
  BY DEF Init
<1> QED
  BY <1>1, OwnRange

(* Rows are written by a strategy and leave when they are too old.         *)
LEMMA RowsChange ==
  ASSUME IInv, [Next]_vars
  PROVE  \/ UNCHANGED rows
         \/ \E m \in Markets : RunStrategy(m)
         \/ UNCHANGED ev /\ \E m \in Markets : RowExpires(m)
<1>1. CASE Tick \/ TickFails \/ Stop \/ Exit \/ Crash \/ Restart
  BY <1>1 DEF Tick, ReadDisabled, ReadCandidates, ReadKalshi, TickEnds, NextTick, TickFails,
              Stop, Exit, Crash, Restart
<1>2. CASE \E m \in Markets : Evaluate(m) \/ StrategyFails(m) \/ EvaluationFails(m)
  BY <1>2 DEF Evaluate, Begin, Gate, ReadContext, Evaluated, StrategyFails, EvaluationFails
<1>3. CASE \E m \in Markets : MinutePasses(m) \/ RowExpires(m)
  BY <1>3 DEF MinutePasses, RowExpires
<1>4. CASE \E v \in Moves : WorldMoves(v)
  BY <1>4 DEF WorldMoves
<1>5. CASE UNCHANGED vars
  BY <1>5 DEF vars
<1> QED
  BY <1>1, <1>2, <1>3, <1>4, <1>5 DEF Next

LEMMA NextRowSeqs == ASSUME IInv, RowSeqs, [Next]_vars PROVE RowSeqs'
<1>1. CASE UNCHANGED rows
  BY <1>1 DEF RowSeqs
<1>2. ASSUME NEW m \in Markets, RunStrategy(m) PROVE RowSeqs'
  <2> DEFINE s == enabled[NextStrategy(m)]
  <2>1. CASE Signal(s, m) = NoSignal
    BY <1>1, <1>2, <2>1 DEF RunStrategy
  <2>2. CASE Signal(s, m) # NoSignal
    <3>1. Insert(m, Row(s, Signal(s, m)))
      BY <1>2, <2>2 DEF RunStrategy
    <3> HIDE DEF s
    <3> QED
      BY <3>1, Inserted DEF RowSeqs
  <2> QED
    BY <2>1, <2>2
<1>3. ASSUME NEW m \in Markets, RowExpires(m) PROVE RowSeqs'
  <2>1. /\ rows[m] # <<>> /\ rows[m] \in Seq(Range(rows[m]))
        /\ rows' = [rows EXCEPT ![m] = Front(rows[m])]
    BY <1>3 DEF RowExpires, RowSeqs
  <2>2. Len(rows[m]) - 1 \in Nat /\ Len(rows[m]) - 1 <= Len(rows[m])
    BY <2>1
  <2>3. Front(rows[m]) \in Seq(Range(Front(rows[m])))
    BY <2>1, <2>2, OwnPart DEF Front
  <2> QED
    BY <2>1, <2>3 DEF RowSeqs, IInv, Shape
<1> QED
  BY <1>1, <1>2, <1>3, RowsChange

(* Rows that agree are the newest of as many strategies.                   *)
LEMMA AgreeingBack ==
  ASSUME NEW m \in Markets, rows[m] \in Seq(Range(rows[m])),
         NEW rs \in SUBSET LatestRows(rows[m], "consensus"), NEW Chosen,
         Chosen = {j \in Newest(m) : rows[m][j] \in rs}
  PROVE  /\ IsFiniteSet({rows[m][i].strategy : i \in Chosen})
         /\ Cardinality({rows[m][i].strategy : i \in Chosen}) = Cardinality(rs)
<1> DEFINE row == rows[m]
           T   == {row[i].strategy : i \in Chosen}
           f   == [r \in rs |-> r.strategy]
<1>1. DOMAIN row = 1..Len(row) /\ Len(row) \in Nat
  OBVIOUS
<1>2. \A r \in rs : \E i \in Chosen : r = row[i]
  BY DEF LatestRows, Newest
<1>3. \A i \in Chosen : /\ i \in 1..Len(row) /\ row[i] \in rs
                        /\ \A k \in 1..(i - 1) : row[k].strategy # row[i].strategy
  BY <1>1 DEF Newest
<1>4. IsFiniteSet(rs)
  <2>1. IsFiniteSet(Range(row))
    <3>1. row \in Surjection(1..Len(row), Range(row))
      BY <1>1 DEF Surjection, Range
    <3>2. IsFiniteSet(1..Len(row))
      BY <1>1, FS_Interval
    <3> QED
      BY <3>1, <3>2, FS_Surjection
  <2>2. rs \in SUBSET Range(row)
    BY <1>1, <1>2, <1>3 DEF Range
  <2> QED
    BY <2>1, <2>2, FS_Subset
<1>5. f \in Surjection(rs, T)
  BY <1>2, <1>3 DEF Surjection
<1>6. f \in Injection(rs, T)
  <2>1. ASSUME NEW q \in rs, NEW r \in rs, q.strategy = r.strategy PROVE q = r
    <3>1. PICK i \in Chosen : q = row[i]
      BY <1>2
    <3>2. PICK j \in Chosen : r = row[j]
      BY <1>2
    <3>3. ~(i < j) /\ ~(j < i)
      BY <1>1, <1>3, <2>1, <3>1, <3>2
    <3>4. i = j
      BY <1>3, <3>3
    <3> QED
      BY <3>1, <3>2, <3>4
  <2>2. f \in [rs -> T]
    BY <1>5 DEF Surjection
  <2> QED
    BY <2>1, <2>2 DEF Injection, IsInjective
<1> QED
  BY <1>4, <1>5, <1>6, FS_Surjection

LEMMA ConsensusHasBackers ==
  ASSUME RowSeqs, NEW m \in Markets, NEW mid, consensus(rows[m], "consensus", mid) # NoSignal
  PROVE  TwoBack(m, Buy) \/ TwoBack(m, Sell)
<1> DEFINE latest == LatestRows(rows[m], "consensus")
           buys   == {r \in latest : Buy(r.edge)}
           sells  == {r \in latest : Sell(r.edge)}
<1>1. Agreeing(rows[m], "consensus") # {}
  BY DEF consensus
<1>2. Cardinality(buys) >= 2 \/ Cardinality(sells) >= 2
  BY <1>1 DEF Agreeing, MinAgreeing
<1>3. rows[m] \in Seq(Range(rows[m]))
  BY DEF RowSeqs
<1>4. \A j \in Newest(m) : rows[m][j] \in latest
  BY DEF Newest, LatestRows
<1>5. Cardinality(Backers(m, Buy)) = Cardinality(buys)
  <2> DEFINE chosen == {j \in Newest(m) : rows[m][j] \in buys}
  <2>1. chosen = {j \in Newest(m) : Buy(rows[m][j].edge)}
    BY <1>4
  <2>2. Backers(m, Buy) = {rows[m][i].strategy : i \in chosen}
    BY <2>1 DEF Backers, Votes
  <2> HIDE DEF chosen
  <2>3. buys \in SUBSET latest /\ chosen = {j \in Newest(m) : rows[m][j] \in buys}
    BY DEF chosen
  <2>4. buys \in SUBSET LatestRows(rows[m], "consensus")
    BY <2>3
  <2> HIDE DEF latest, buys
  <2>5. Cardinality({rows[m][i].strategy : i \in chosen}) = Cardinality(buys)
    BY <1>3, <2>3, <2>4, AgreeingBack
  <2> QED
    BY <2>2, <2>5
<1>6. Cardinality(Backers(m, Sell)) = Cardinality(sells)
  <2> DEFINE chosen == {j \in Newest(m) : rows[m][j] \in sells}
  <2>1. chosen = {j \in Newest(m) : Sell(rows[m][j].edge)}
    BY <1>4
  <2>2. Backers(m, Sell) = {rows[m][i].strategy : i \in chosen}
    BY <2>1 DEF Backers, Votes
  <2> HIDE DEF chosen
  <2>3. sells \in SUBSET latest /\ chosen = {j \in Newest(m) : rows[m][j] \in sells}
    BY DEF chosen
  <2>4. sells \in SUBSET LatestRows(rows[m], "consensus")
    BY <2>3
  <2> HIDE DEF latest, sells
  <2>5. Cardinality({rows[m][i].strategy : i \in chosen}) = Cardinality(sells)
    BY <1>3, <2>3, <2>4, AgreeingBack
  <2> QED
    BY <2>2, <2>5
<1> QED
  BY <1>2, <1>5, <1>6 DEF TwoBack

(* A consensus is written on the word of two strategies other than         *)
(* itself, whose newest rows in the window point the same way              *)
(* (consensus.py), however many rows each of them has written.             *)
THEOREM ConsensusHasTwoBackers ==
  Spec => [][\A m \in Markets : NewConsensus(m) /\ ev'[m] # ev[m] =>
               TwoBack(m, Buy) \/ TwoBack(m, Sell)]_vars
<1> DEFINE Backed ==
      \A m \in Markets : NewConsensus(m) /\ ev'[m] # ev[m] => TwoBack(m, Buy) \/ TwoBack(m, Sell)
<1>1. ASSUME IInv, RowSeqs, [Next]_vars, NEW m \in Markets, NewConsensus(m), ev'[m] # ev[m]
      PROVE  TwoBack(m, Buy) \/ TwoBack(m, Sell)
  <2>1. PICK n \in Markets : RunStrategy(n)
    BY <1>1, RowsChange DEF NewConsensus
  <2> DEFINE s == enabled[NextStrategy(n)]
  <2>2. Insert(n, Row(s, Signal(s, n))) /\ Signal(s, n) # NoSignal
    BY <1>1, <2>1 DEF RunStrategy, NewConsensus
  <2>3. n = m
    BY <1>1, <2>2, Inserted DEF NewConsensus
  <2>4. rows'[m][1] = Row(s, Signal(s, n))
    BY <1>1, <2>2, <2>3, Inserted DEF NewConsensus
  <2> HIDE DEF s
  <2>5. s = "consensus"
    BY <1>1, <2>4 DEF NewConsensus, Row
  <2>6. consensus(rows[m], "consensus", ev[m].mid) # NoSignal
    BY <2>2, <2>3, <2>5 DEF Signal, OnBook
  <2> QED
    BY <1>1, <2>6, ConsensusHasBackers
<1>2. IInv /\ RowSeqs /\ [Next]_vars => [Backed]_vars
  BY <1>1
<1>3. IInv /\ RowSeqs /\ [Next]_vars => RowSeqs'
  BY NextRowSeqs
<1> HIDE DEF Backed
<1>4. Spec => [][Backed]_vars
  BY <1>2, <1>3, InitRowSeqs, InductiveInvariant, PTL DEF Spec
<1> QED
  BY <1>4 DEF Backed

-----------------------------------------------------------------------------
(* The types: what the loop and the process keep, apart from the rows.     *)
LoopTypes ==
  /\ enabled \in EnabledLists
  /\ active \subseteq DOMAIN enabled
  /\ proc \in {"up", "stopping", "down"}
  /\ tick.pc \in {"off", "disabled", "candidates", "kalshi", "evaluate", "wait"}
  /\ tick.todo \subseteq Markets /\ tick.force \subseteq Markets /\ due \subseteq Markets

RowTypes ==
  \A m \in Markets :
    /\ Len(rows[m]) <= MaxRows
    /\ \A i \in DOMAIN rows[m] : rows[m][i].strategy \in Strategies

TypeInv == LoopTypes /\ RowTypes

LEMMA FreshTick ==
  ASSUME NEW pc PROVE NewTick(pc).todo = {} /\ NewTick(pc).force = {} /\ NewTick(pc).pc = pc
BY DEF NewTick

LEMMA LoopTypesKept ==
  ASSUME IInv, LoopTypes, [Next]_vars PROVE LoopTypes'
<1>1. CASE UNCHANGED vars
  BY <1>1 DEF LoopTypes, vars, memory
<1>2. CASE ReadDisabled \/ TickEnds \/ TickFails \/ NextTick
  BY <1>2, FreshTick DEF LoopTypes, ReadDisabled, TickEnds, TickFails, NextTick, memory
<1>3. CASE ReadCandidates
  <2>1. tick' = [NewTick("kalshi") EXCEPT !.todo = {m \in Markets : Candidate(m)}]
    BY <1>3 DEF ReadCandidates
  <2>2. tick'.pc = "kalshi" /\ tick'.todo \subseteq Markets /\ tick'.force = {}
    BY <2>1 DEF NewTick
  <2> QED
    BY <1>3, <2>2 DEF LoopTypes, ReadCandidates, memory
<1>4. CASE ReadKalshi
  <2>1. tick'.pc = "evaluate" /\ tick'.todo \subseteq Markets /\ tick'.force \subseteq Markets
    BY <1>4 DEF ReadKalshi, LoopTypes
  <2> QED
    BY <1>4, <2>1 DEF LoopTypes, ReadKalshi
<1>5. CASE Stop \/ Exit \/ Crash \/ Restart
  BY <1>5, FreshTick DEF LoopTypes, Stop, Exit, Crash, Restart, Down, Start, memory
<1>6. ASSUME NEW m \in Markets, Begin(m) PROVE LoopTypes'
  <2>1. /\ tick' = [tick EXCEPT !.todo = tick.todo \ {m}]
        /\ due' \subseteq due
        /\ UNCHANGED <<enabled, active, proc>>
    BY <1>6 DEF Begin
  <2>2. tick'.pc = tick.pc /\ tick'.todo \subseteq tick.todo /\ tick'.force = tick.force
    BY <2>1 DEF IInv, Shape
  <2> QED
    BY <2>1, <2>2 DEF LoopTypes
<1>7. ASSUME NEW m \in Markets,
             \/ Gate(m) \/ ReadContext(m) \/ RunStrategy(m) \/ Evaluated(m)
             \/ StrategyFails(m) \/ EvaluationFails(m)
      PROVE  LoopTypes'
  BY <1>7 DEF LoopTypes, Gate, ReadContext, RunStrategy, Evaluated, StrategyFails,
              EvaluationFails, memory
<1>8. CASE \/ \E m \in Markets : MinutePasses(m) \/ RowExpires(m)
           \/ \E v \in Moves : WorldMoves(v)
  BY <1>8 DEF LoopTypes, MinutePasses, RowExpires, WorldMoves, memory
<1> QED
  BY <1>1, <1>2, <1>3, <1>4, <1>5, <1>6, <1>7, <1>8 DEF Next, Tick, Evaluate

(* The strategy whose turn it is, is one of the enabled ones.              *)
LEMMA TurnOfEnabled ==
  ASSUME LoopTypes, NEW m \in Markets, Left(m) # {}
  PROVE  enabled[NextStrategy(m)] \in Strategies
<1>1. enabled \in Seq(Strategies)
  BY ReasoningAssumption DEF LoopTypes
<1>2. Left(m) \subseteq DOMAIN enabled /\ DOMAIN enabled \subseteq Nat
  BY <1>1 DEF Left, LoopTypes
<1>3. NextStrategy(m) \in Left(m)
  BY <1>2, MinOfNaturals DEF NextStrategy
<1> QED
  BY <1>1, <1>2, <1>3

(* An insert takes the place of the rows that do not fit.                  *)
LEMMA InsertedRows ==
  ASSUME IInv, RowSeqs, NEW m \in Markets, NEW row, Insert(m, row)
  PROVE  /\ Len(rows'[m]) <= MaxRows
         /\ \A i \in DOMAIN rows'[m] :
              rows'[m][i] = row \/ \E j \in DOMAIN rows[m] : rows'[m][i] = rows[m][j]
         /\ \A n \in Markets \ {m} : rows'[n] = rows[n]
<1> DEFINE S   == Range(rows[m]) \cup {row}
           all == <<row>> \o rows[m]
           k   == Smaller(MaxRows, Len(all))
<1>1. rows[m] \in Seq(S)
  BY DEF RowSeqs
<1>2. all \in Seq(S) /\ Len(all) \in Nat
  BY <1>1
<1> HIDE DEF all
<1>3. k \in 0..Len(all) /\ k <= MaxRows
  BY <1>2, ReasoningAssumption DEF Smaller
<1> HIDE DEF k
<1>4. rows' = [rows EXCEPT ![m] = SubSeq(all, 1, k)]
  BY DEF Insert, all, k
<1>5. rows'[m] = SubSeq(all, 1, k) /\ \A n \in Markets \ {m} : rows'[n] = rows[n]
  BY <1>4 DEF IInv, Shape
<1>6. rows'[m] \in Seq(S) /\ Len(rows'[m]) = k
  BY <1>2, <1>3, <1>5
<1>7. ASSUME NEW i \in DOMAIN rows'[m]
      PROVE  rows'[m][i] = row \/ \E j \in DOMAIN rows[m] : rows'[m][i] = rows[m][j]
  <2>1. rows'[m][i] \in S
    BY <1>6
  <2> QED
    BY <2>1 DEF Range
<1> QED
  BY <1>3, <1>5, <1>6, <1>7

LEMMA ExpiredRows ==
  ASSUME IInv, RowSeqs, NEW m \in Markets, RowExpires(m)
  PROVE  /\ Len(rows'[m]) <= Len(rows[m])
         /\ \A i \in DOMAIN rows'[m] : i \in DOMAIN rows[m] /\ rows'[m][i] = rows[m][i]
         /\ \A n \in Markets \ {m} : rows'[n] = rows[n]
<1> DEFINE S == Range(rows[m])
           k == Len(rows[m]) - 1
<1>1. rows[m] \in Seq(S) /\ rows[m] # <<>>
  BY DEF RowSeqs, RowExpires
<1>2. k \in Nat /\ k <= Len(rows[m])
  BY <1>1
<1>3. rows' = [rows EXCEPT ![m] = SubSeq(rows[m], 1, k)]
  BY DEF RowExpires, Front
<1>4. rows'[m] = SubSeq(rows[m], 1, k) /\ \A n \in Markets \ {m} : rows'[n] = rows[n]
  BY <1>3 DEF IInv, Shape
<1> QED
  BY <1>1, <1>2, <1>4

LEMMA RowTypesKept ==
  ASSUME IInv, RowSeqs, LoopTypes, RowTypes, [Next]_vars PROVE RowTypes'
<1>1. CASE UNCHANGED rows
  BY <1>1 DEF RowTypes
<1>2. ASSUME NEW m \in Markets, RunStrategy(m) PROVE RowTypes'
  <2> DEFINE s == enabled[NextStrategy(m)]
  <2>1. CASE Signal(s, m) = NoSignal
    BY <1>1, <1>2, <2>1 DEF RunStrategy
  <2>2. CASE Signal(s, m) # NoSignal
    <3>1. Insert(m, Row(s, Signal(s, m)))
      BY <1>2, <2>2 DEF RunStrategy
    <3>2. s \in Strategies
      BY <1>2, TurnOfEnabled DEF RunStrategy
    <3>3. Row(s, Signal(s, m)).strategy = s
      BY DEF Row
    <3> HIDE DEF s
    <3>4. \A i \in DOMAIN rows'[m] : rows'[m][i].strategy \in Strategies
      BY <3>1, <3>2, <3>3, InsertedRows DEF RowTypes
    <3> QED
      BY <3>1, <3>4, InsertedRows DEF RowTypes
  <2> QED
    BY <2>1, <2>2
<1>3. ASSUME NEW m \in Markets, RowExpires(m) PROVE RowTypes'
  <2>1. Len(rows'[m]) <= Len(rows[m]) /\ Len(rows[m]) <= MaxRows
    BY <1>3, ExpiredRows DEF RowTypes
  <2>2. Len(rows'[m]) \in Nat /\ Len(rows[m]) \in Nat /\ MaxRows \in Nat
    BY NextRowSeqs, ReasoningAssumption DEF RowSeqs
  <2> QED
    BY <1>3, <2>1, <2>2, ExpiredRows DEF RowTypes
<1> QED
  BY <1>1, <1>2, <1>3, RowsChange

LEMMA InitTypeInv == Init => TypeInv
<1> SUFFICES ASSUME Init PROVE TypeInv
  OBVIOUS
<1>1. LoopTypes
  BY FreshTick DEF Init, LoopTypes
<1>2. \A m \in Markets : rows[m] = <<>>
  BY DEF Init
<1>3. RowTypes
  BY <1>2, ReasoningAssumption DEF RowTypes
<1> QED
  BY <1>1, <1>3 DEF TypeInv

LEMMA TypesHold == IInv /\ RowSeqs /\ TypeInv => TypeOK
<1> SUFFICES ASSUME IInv, RowSeqs, TypeInv PROVE TypeOK
  OBVIOUS
<1>1. ASSUME NEW m \in Markets, NEW i \in 1..MaxRows, i <= Len(rows[m])
      PROVE  rows[m][i].strategy \in Strategies
  <2>1. rows[m] \in Seq(Range(rows[m])) /\ i \in Nat /\ i >= 1
    BY <1>1, ReasoningAssumption DEF RowSeqs
  <2>2. i \in DOMAIN rows[m]
    BY <1>1, <2>1
  <2> QED
    BY <2>2 DEF TypeInv, RowTypes
<1> QED
  BY <1>1 DEF TypeOK, TypeInv, LoopTypes, RowTypes, IInv, Shape, FewRunning

(* The loop, the process and the rows have the types that the code gives   *)
(* them: in particular only strategies of the list write, and the rows of  *)
(* the window are those that fit.                                          *)
THEOREM ReasoningTyped == Spec => []TypeOK
<1>1. IInv /\ RowSeqs /\ TypeInv /\ [Next]_vars => TypeInv'
  BY LoopTypesKept, RowTypesKept DEF TypeInv
<1>2. IInv /\ RowSeqs /\ [Next]_vars => RowSeqs'
  BY NextRowSeqs
<1> QED
  BY <1>1, <1>2, InitTypeInv, InitRowSeqs, TypesHold, InductiveInvariant, PTL DEF Spec

-----------------------------------------------------------------------------
(* book_imbalance: probabilities and edges are in units of One, 10000.     *)

(* Quotients of a number within b * n by n, and the square that Elasticity *)
(* leaves out of one: it is one at even odds only.                         *)
LEMMA DivBound ==
  ASSUME NEW b \in Nat, NEW x \in Nat, NEW n \in Nat \ {0}, x <= b * n
  PROVE  x \div n \in Nat /\ x \div n <= b
<1> DEFINE q == x \div n
<1>1. q \in Nat /\ n * q <= x
  OBVIOUS
<1> HIDE DEF q
<1>2. ASSUME q > b PROVE FALSE
  <2>1. q >= b + 1 /\ b + 1 \in Nat
    BY <1>1, <1>2
  <2>2. n * q >= n * (b + 1)
    BY <1>1, <2>1
  <2>3. n * (b + 1) = b * n + n
    OBVIOUS
  <2>4. b * n \in Nat /\ n * q \in Nat
    BY <1>1
  <2> QED
    BY <1>1, <2>2, <2>3, <2>4
<1>3. q <= b
  BY <1>1, <1>2
<1> QED
  BY <1>1, <1>3 DEF q

LEMMA QuotBound ==
  ASSUME NEW b \in Nat, NEW x \in Int, NEW n \in Nat \ {0}, -(b * n) <= x, x <= b * n
  PROVE  Quot(x, n) \in Int /\ -b <= Quot(x, n) /\ Quot(x, n) <= b
<1>1. CASE x < 0
  <2>1. -x \in Nat /\ -x <= b * n
    BY <1>1
  <2>2. (-x) \div n \in Nat /\ (-x) \div n <= b
    BY <2>1, DivBound
  <2> QED
    BY <1>1, <2>2 DEF Quot
<1>2. CASE x >= 0
  <2>1. x \in Nat
    BY <1>2
  <2>2. x \div n \in Nat /\ x \div n <= b
    BY <2>1, DivBound
  <2> QED
    BY <1>2, <2>2 DEF Quot
<1> QED
  BY <1>1, <1>2

LEMMA Square ==
  ASSUME NEW z \in Int PROVE z * z \in Nat /\ (z * z <= 0 => z = 0)
<1>1. CASE z >= 0
  <2>1. z \in Nat
    BY <1>1
  <2>2. ASSUME z >= 1 PROVE z * z >= 1
    BY <2>1, <2>2
  <2> QED
    BY <2>1, <2>2
<1>2. CASE z < 0
  <2> DEFINE w == -z
  <2>1. w \in Nat /\ w >= 1 /\ z * z = w * w
    BY <1>2
  <2> HIDE DEF w
  <2>2. w * w >= 1 /\ w * w \in Nat
    BY <2>1
  <2> QED
    BY <2>1, <2>2
<1> QED
  BY <1>1, <1>2

LEMMA ElasticityBound ==
  ASSUME NEW mid \in Nat, mid <= 10000
  PROVE  /\ Elasticity(mid) \in Nat /\ Elasticity(mid) <= 10000
         /\ Elasticity(mid) = 10000 => mid = 5000
<1> DEFINE y == 4 * mid * (One - mid)
           z == 2 * mid - 10000
<1>1. One = 10000
  BY DEF One
<1>2. y \in Int /\ z \in Int /\ y = 100000000 - z * z
  BY <1>1
<1>3. z = 0 => mid = 5000
  OBVIOUS
<1>4. y >= 0
  <2>1. 10000 - mid \in Nat /\ 4 * mid \in Nat
    OBVIOUS
  <2>2. (4 * mid) * (10000 - mid) >= 0
    BY <2>1
  <2> QED
    BY <1>1, <2>2
<1>5. Elasticity(mid) = y \div 10000
  BY <1>1 DEF Elasticity
<1> HIDE DEF y, z
<1>6. z * z \in Nat /\ (z * z <= 0 => z = 0)
  BY <1>2, Square
<1>7. y \in Nat /\ y <= 100000000 /\ (y >= 100000000 => mid = 5000)
  BY <1>2, <1>3, <1>4, <1>6
<1> QED
  BY <1>5, <1>7

LEMMA ShiftBound ==
  ASSUME NEW imbalance \in Int, -10000 <= imbalance, imbalance <= 10000,
         NEW mid \in Nat, mid <= 10000
  PROVE  /\ Shift(imbalance, mid) \in Int
         /\ -800 <= Shift(imbalance, mid) /\ Shift(imbalance, mid) <= 800
         /\ Shift(imbalance, mid) = 800 \/ Shift(imbalance, mid) = -800 => mid = 5000
<1> DEFINE e == Elasticity(mid)
           x == Quot(imbalance * 8, 100)
           p == x * e
<1>1. e \in Nat /\ e <= 10000 /\ (e = 10000 => mid = 5000)
  BY ElasticityBound
<1>2. x \in Int /\ -800 <= x /\ x <= 800
  BY DEF Quot
<1>3. Shift(imbalance, mid) = Quot(p, 10000)
  BY DEF Shift, One
<1> HIDE DEF e, x
<1>4. p \in Int /\ p <= 800 * e /\ -(800 * e) <= p
  BY <1>1, <1>2
<1> HIDE DEF p
<1>5. /\ Quot(p, 10000) \in Int /\ -800 <= Quot(p, 10000) /\ Quot(p, 10000) <= 800
      /\ Quot(p, 10000) = 800 \/ Quot(p, 10000) = -800 => e = 10000
  BY <1>1, <1>4 DEF Quot
<1> QED
  BY <1>1, <1>3, <1>5

(* A fair value of book_imbalance whose edge is eight cents or more.       *)
LEMMA EightCents ==
  ASSUME NEW imbalance \in Int, -10000 <= imbalance, imbalance <= 10000,
         NEW mid \in Nat, mid <= 10000,
         NEW value, value = ImbalanceValue(imbalance, mid)
  PROVE  /\ value.market = mid
         /\ value.edge \in Int /\ -800 <= value.edge /\ value.edge <= 800
         /\ value.edge = -800 \/ value.edge = 800 => mid = 5000
<1> DEFINE shift == Shift(imbalance, mid)
           edge  == Clamp(mid + shift, 100, 9900) - mid
<1>1. value.market = mid /\ value.edge = edge
  BY DEF ImbalanceValue, FairValue
<1>2. /\ shift \in Int /\ -800 <= shift /\ shift <= 800
      /\ shift = 800 \/ shift = -800 => mid = 5000
  BY ShiftBound
<1> HIDE DEF shift
<1>3. /\ edge \in Int /\ -800 <= edge /\ edge <= 800
      /\ edge = -800 \/ edge = 800 => mid = 5000
  BY <1>2 DEF Clamp
<1> QED
  BY <1>1, <1>3

(* The ratio of a book, and the mean of those of at most three books.      *)
LEMMA RatioBound ==
  ASSUME NEW snap \in [bid : Nat, ask : Nat], Usable(snap)
  PROVE  Ratio(snap) \in Int /\ -10000 <= Ratio(snap) /\ Ratio(snap) <= 10000
<1> DEFINE depth == snap.bid + snap.ask
           x == (snap.bid - snap.ask) * 10000
<1>1. snap.bid \in Nat /\ snap.ask \in Nat /\ depth \in Nat \ {0}
  BY DEF Usable, MinTotalDepth
<1>2. x \in Int /\ -(10000 * depth) <= x /\ x <= 10000 * depth
  BY <1>1
<1>3. Ratio(snap) = Quot(x, depth)
  BY DEF Ratio, One
<1> HIDE DEF depth, x
<1> QED
  BY <1>1, <1>2, <1>3, QuotBound

LEMMA FewOfThree ==
  ASSUME NEW S \in SUBSET (1..3)
  PROVE  Cardinality(S) = (IF 1 \in S THEN 1 ELSE 0) + (IF 2 \in S THEN 1 ELSE 0)
                            + (IF 3 \in S THEN 1 ELSE 0)
<1> DEFINE A == S \ {1}
           B == A \ {2}
           C == B \ {3}
<1>1. IsFiniteSet(S)
  <2>1. \A n \in Int : IsFiniteSet(1..n)
    BY FS_Interval
  <2>2. PICK n \in Int : n = 3
    OBVIOUS
  <2>3. IsFiniteSet(1..n) /\ S \in SUBSET (1..n)
    BY <2>1, <2>2
  <2> QED
    BY <2>3, FS_Subset
<1>2. /\ IsFiniteSet(A) /\ Cardinality(S) \in Nat
      /\ Cardinality(A) = IF 1 \in S THEN Cardinality(S) - 1 ELSE Cardinality(S)
  BY <1>1, FS_RemoveElement, FS_CardinalityType
<1>3. /\ IsFiniteSet(B) /\ Cardinality(A) \in Nat
      /\ Cardinality(B) = IF 2 \in A THEN Cardinality(A) - 1 ELSE Cardinality(A)
  BY <1>2, FS_RemoveElement, FS_CardinalityType
<1>4. /\ IsFiniteSet(C) /\ Cardinality(B) \in Nat
      /\ Cardinality(C) = IF 3 \in B THEN Cardinality(B) - 1 ELSE Cardinality(B)
  BY <1>3, FS_RemoveElement, FS_CardinalityType
<1>5. C = {}
  OBVIOUS
<1>6. Cardinality(C) = 0
  BY <1>5, FS_EmptySet
<1>7. (2 \in A <=> 2 \in S) /\ (3 \in B <=> 3 \in S)
  OBVIOUS
<1> HIDE DEF A, B, C
<1> QED
  BY <1>2, <1>3, <1>4, <1>6, <1>7

LEMMA ImbalanceBound ==
  ASSUME NEW snaps, SoundBooks(snaps), Cardinality(UsableAt(snaps)) >= 2
  PROVE  Imbalance(snaps) \in Int /\ -10000 <= Imbalance(snaps) /\ Imbalance(snaps) <= 10000
<1> DEFINE S == UsableAt(snaps)
           n == Cardinality(S)
           r1 == RatioAt(snaps, 1)
           r2 == RatioAt(snaps, 2)
           r3 == RatioAt(snaps, 3)
           sum == r1 + r2 + r3
<1>1. /\ snaps \in Seq([bid : Nat, ask : Nat]) /\ DOMAIN snaps = 1..Len(snaps)
      /\ Len(snaps) \in Nat /\ Len(snaps) <= 3
  BY DEF SoundBooks, SnapshotLimit
<1>2. \A i \in S : i \in 1..Len(snaps) /\ Usable(snaps[i])
  BY <1>1 DEF UsableAt
<1>3. \A i \in S : snaps[i] \in [bid : Nat, ask : Nat]
  <2> DEFINE Book == [bid : Nat, ask : Nat]
  <2>1. snaps \in Seq(Book)
    BY <1>1
  <2> HIDE DEF S, Book
  <2>2. \A i \in S : snaps[i] \in Book
    BY <1>2, <2>1
  <2> QED
    BY <2>2 DEF Book
<1> DEFINE Bounded(x) == x \in Int /\ -10000 <= x /\ x <= 10000
<1>4. \A i \in {1, 2, 3} : IF i \in S THEN Bounded(RatioAt(snaps, i))
                           ELSE RatioAt(snaps, i) = 0
  BY <1>2, <1>3, RatioBound DEF RatioAt
<1>5. S \in SUBSET (1..3)
  BY <1>1, <1>2
<1>6. Imbalance(snaps) = Quot(sum, n)
  BY DEF Imbalance
<1> HIDE DEF S
<1>7. n = (IF 1 \in S THEN 1 ELSE 0) + (IF 2 \in S THEN 1 ELSE 0) + (IF 3 \in S THEN 1 ELSE 0)
  BY <1>5, FewOfThree
<1>8. n >= 2
  BY DEF S
<1>9. /\ IF 1 \in S THEN Bounded(r1) ELSE r1 = 0
      /\ IF 2 \in S THEN Bounded(r2) ELSE r2 = 0
      /\ IF 3 \in S THEN Bounded(r3) ELSE r3 = 0
  BY <1>4
<1> HIDE DEF n, r1, r2, r3
<1>10. n \in Nat \ {0} /\ sum \in Int /\ -(10000 * n) <= sum /\ sum <= 10000 * n
  BY <1>7, <1>8, <1>9
<1> HIDE DEF sum
<1> QED
  BY <1>6, <1>10, QuotBound

(* What book_imbalance says of sound books, with an edge of eight cents.   *)
LEMMA SpeaksAtEvenOdds ==
  ASSUME MinEdge >= 800, NEW snaps, SoundBooks(snaps), NEW mid \in Nat, mid <= 10000,
         book_imbalance(snaps, mid) # NoSignal
  PROVE  /\ book_imbalance(snaps, mid).market = 5000
         /\ Abs(book_imbalance(snaps, mid).edge) = 800
<1> DEFINE imbalance == Imbalance(snaps)
           value == ImbalanceValue(imbalance, mid)
<1>1. Cardinality(UsableAt(snaps)) \in Nat
  <2>1. UsableAt(snaps) \in SUBSET (1..Len(snaps)) /\ Len(snaps) \in Nat
    BY DEF SoundBooks, UsableAt
  <2>2. IsFiniteSet(1..Len(snaps))
    BY <2>1, FS_Interval
  <2> QED
    BY <2>1, <2>2, FS_Subset, FS_CardinalityType
<1>2. /\ ~(Cardinality(UsableAt(snaps)) < MinSustainedSnapshots)
      /\ book_imbalance(snaps, mid) = AtLeast(MinEdge, value)
  BY DEF book_imbalance
<1>3. imbalance \in Int /\ -10000 <= imbalance /\ imbalance <= 10000
  BY <1>1, <1>2, ImbalanceBound DEF MinSustainedSnapshots
<1> HIDE DEF imbalance, value
<1>4. /\ value.market = mid /\ value.edge \in Int
      /\ -800 <= value.edge /\ value.edge <= 800
      /\ value.edge = -800 \/ value.edge = 800 => mid = 5000
  <2>1. value = ImbalanceValue(imbalance, mid)
    BY DEF value
  <2> QED
    BY <1>3, <2>1, EightCents
<1>5. ~(Abs(value.edge) < MinEdge) /\ book_imbalance(snaps, mid) = value
  BY <1>2 DEF AtLeast
<1>6. MinEdge \in Nat
  BY StrategyRulesAssumption
<1>7. value.edge = -800 \/ value.edge = 800
  <2> DEFINE edge == value.edge
  <2>1. edge \in Int /\ -800 <= edge /\ edge <= 800 /\ ~(Abs(edge) < MinEdge)
    BY <1>4, <1>5
  <2> HIDE DEF edge
  <2>2. edge = -800 \/ edge = 800
    BY <1>6, <2>1 DEF Abs
  <2> QED
    BY <2>2 DEF edge
<1>8. Abs(value.edge) = 800
  BY <1>4, <1>7 DEF Abs
<1>9. value.market = 5000
  BY <1>4, <1>7
<1> QED
  BY <1>5, <1>8, <1>9

(* The tables hold sound rows, evaluations go by sound prices.             *)
SoundWorld ==
  /\ {"price", "snaps"} \subseteq DOMAIN world
  /\ DOMAIN world.price = Markets /\ DOMAIN world.snaps = Markets
  /\ \A m \in Markets : SoundPrice(world.price[m]) /\ SoundBooks(world.snaps[m])

SoundMids == \A m \in Markets : ev[m].mid \in 0..One

SoundInv == SoundWorld /\ SoundMids /\ ImbalanceOnlyAtEvenOdds

LEMMA SoundWorldKept ==
  ASSUME SoundWorld, [Next]_vars PROVE SoundWorld'
<1>1. CASE UNCHANGED world
  BY <1>1 DEF SoundWorld
<1>2. ASSUME NEW v \in Moves, WorldMoves(v) PROVE SoundWorld'
  <2>1. world' = [world EXCEPT ![v.table][v.key] = v.value]
    BY <1>2 DEF WorldMoves
  <2>2. DOMAIN world' = DOMAIN world
    BY <2>1
  <2>3. v.table # "price" => world'.price = world.price
    BY <2>1 DEF SoundWorld
  <2>4. v.table # "snaps" => world'.snaps = world.snaps
    BY <2>1 DEF SoundWorld
  <2>5. v.table = "price" => world'.price = [world.price EXCEPT ![v.key] = v.value]
    BY <2>1 DEF SoundWorld
  <2>6. v.table = "snaps" => world'.snaps = [world.snaps EXCEPT ![v.key] = v.value]
    BY <2>1 DEF SoundWorld
  <2>7. /\ v.table = "price" => SoundPrice(v.value)
        /\ v.table = "snaps" => SoundBooks(v.value)
    BY WorldAssumption
  <2>8. /\ DOMAIN world'.price = Markets
        /\ \A m \in Markets : SoundPrice(world'.price[m])
    BY <2>3, <2>5, <2>7 DEF SoundWorld
  <2>9. /\ DOMAIN world'.snaps = Markets
        /\ \A m \in Markets : SoundBooks(world'.snaps[m])
    BY <2>4, <2>6, <2>7 DEF SoundWorld
  <2> QED
    BY <2>2, <2>8, <2>9 DEF SoundWorld
<1>3. UNCHANGED world \/ \E v \in Moves : WorldMoves(v)
  <2>1. CASE Tick \/ TickFails \/ Stop \/ Exit \/ Crash \/ Restart
    BY <2>1 DEF Tick, ReadDisabled, ReadCandidates, ReadKalshi, TickEnds, NextTick, TickFails,
                Stop, Exit, Crash, Restart
  <2>2. CASE \E m \in Markets : Evaluate(m) \/ StrategyFails(m) \/ EvaluationFails(m)
    BY <2>2 DEF Evaluate, Begin, Gate, ReadContext, RunStrategy, Evaluated, StrategyFails,
                EvaluationFails
  <2>3. CASE \E m \in Markets : MinutePasses(m) \/ RowExpires(m)
    BY <2>3 DEF MinutePasses, RowExpires
  <2>4. CASE UNCHANGED vars
    BY <2>4 DEF vars
  <2> QED
    BY <2>1, <2>2, <2>3, <2>4 DEF Next
<1> QED
  BY <1>1, <1>2, <1>3

(* The mid of an evaluation is the price it began at.                      *)
LEMMA IdleMid == Idle.mid \in 0..One
BY DEF Idle, One

LEMMA SoundMidsKept ==
  ASSUME IInv, SoundWorld, SoundMids, [Next]_vars PROVE SoundMids'
<1>1. CASE UNCHANGED ev
  BY <1>1 DEF SoundMids
<1>2. CASE ev' = [m \in Markets |-> Idle]
  BY <1>2, IdleMid DEF SoundMids
<1>3. ASSUME NEW m \in Markets, \A n \in Markets \ {m} : ev'[n] = ev[n],
             ev'[m].mid = ev[m].mid \/ ev'[m].mid = Idle.mid \/ ev'[m].mid \in 0..One
      PROVE  SoundMids'
  BY <1>3, IdleMid DEF SoundMids
<1>4. ASSUME NEW m \in Markets, Begin(m) PROVE SoundMids'
  <2>1. CASE UNCHANGED ev
    BY <1>1, <2>1
  <2>2. CASE /\ Price(m) # NoRow
             /\ ev' = [ev EXCEPT ![m] = [Idle EXCEPT !.pc = "gate", !.mid = Price(m).mid]]
    <3>1. Price(m).mid \in 0..One
      BY <2>2 DEF Price, SoundWorld, SoundPrice
    <3>2. /\ ev'[m] = [Idle EXCEPT !.pc = "gate", !.mid = Price(m).mid]
          /\ \A n \in Markets \ {m} : ev'[n] = ev[n]
      BY <2>2 DEF IInv, Shape
    <3>3. ev'[m].mid = Price(m).mid
      BY <3>2 DEF Idle
    <3> QED
      BY <1>3, <3>1, <3>2, <3>3
  <2> QED
    BY <1>4, <2>1, <2>2 DEF Begin
<1>5. ASSUME NEW m \in Markets, Gate(m) \/ Evaluated(m) \/ EvaluationFails(m)
      PROVE  SoundMids'
  <2>1. ev' = [ev EXCEPT ![m] = Idle] \/ ev' = [ev EXCEPT ![m].pc = "context"]
    BY <1>5 DEF Gate, Evaluated, EvaluationFails, Finish
  <2>2. CASE ev' = [ev EXCEPT ![m] = Idle]
    <3>1. ev'[m].mid = Idle.mid /\ \A n \in Markets \ {m} : ev'[n] = ev[n]
      BY <2>2 DEF IInv, Shape
    <3> QED
      BY <1>3, <3>1
  <2>3. CASE ev' = [ev EXCEPT ![m].pc = "context"]
    <3>1. ev'[m].mid = ev[m].mid /\ \A n \in Markets \ {m} : ev'[n] = ev[n]
      BY <2>3 DEF IInv, Shape
    <3> QED
      BY <1>3, <3>1
  <2> QED
    BY <2>1, <2>2, <2>3
<1>6. ASSUME NEW m \in Markets, ReadContext(m) PROVE SoundMids'
  <2>1. ev' = [ev EXCEPT ![m] = [ev[m] EXCEPT !.pc = "strategies", !.game = world.game[m],
                 !.depth = Price(m).depth, !.spread = Price(m).spread]]
    BY <1>6 DEF ReadContext
  <2>2. \A n \in Markets \ {m} : ev'[n] = ev[n]
    BY <2>1 DEF IInv, Shape
  <2>3. ev'[m].mid = ev[m].mid
    BY <2>1 DEF IInv, Shape, Fields
  <2> QED
    BY <1>3, <2>2, <2>3
<1>7. ASSUME NEW m \in Markets, RunStrategy(m) \/ StrategyFails(m) PROVE SoundMids'
  <2>1. ev' = [ev EXCEPT ![m].turn = ev[m].turn + 1]
    BY <1>7 DEF RunStrategy, StrategyFails, Pass
  <2>2. ev'[m].mid = ev[m].mid /\ \A n \in Markets \ {m} : ev'[n] = ev[n]
    BY <2>1 DEF IInv, Shape
  <2> QED
    BY <1>3, <2>2
<1>8. CASE Tick \/ TickFails \/ Stop \/ Exit \/ Crash \/ Restart
  BY <1>1, <1>2, <1>8 DEF Tick, ReadDisabled, ReadCandidates, ReadKalshi, TickEnds, NextTick,
     TickFails, Stop, Exit, Crash, Restart, Down, Start
<1>9. CASE \/ \E m \in Markets : MinutePasses(m) \/ RowExpires(m)
           \/ \E v \in Moves : WorldMoves(v)
           \/ UNCHANGED vars
  BY <1>1, <1>9 DEF MinutePasses, RowExpires, WorldMoves, vars
<1> QED
  BY <1>4, <1>5, <1>6, <1>7, <1>8, <1>9 DEF Next, Evaluate

(* A new row of book_imbalance is of the books and the mid as they are.    *)
LEMMA SpokenAtEvenOdds ==
  ASSUME SoundWorld, SoundMids, NEW m \in Markets, MinEdge >= 800,
         Signal("book_imbalance", m) # NoSignal
  PROVE  LET row == Row("book_imbalance", Signal("book_imbalance", m))
         IN  row.market = 5000 /\ Abs(row.edge) = 800
<1>1. Signal("book_imbalance", m) = book_imbalance(world.snaps[m], ev[m].mid)
  BY DEF Signal, OnBook
<1>2. SoundBooks(world.snaps[m])
  BY DEF SoundWorld
<1>3. ev[m].mid \in Nat /\ ev[m].mid <= 10000
  <2>1. One = 10000
    BY DEF One
  <2>2. ev[m].mid \in 0..One
    BY DEF SoundMids
  <2>3. \A n \in Nat : ev[m].mid \in 0..n => ev[m].mid \in Nat /\ ev[m].mid <= n
    OBVIOUS
  <2>4. One \in Nat
    BY <2>1
  <2>5. ev[m].mid \in Nat /\ ev[m].mid <= One
    BY <2>2, <2>3, <2>4
  <2> QED
    BY <2>1, <2>5
<1>4. /\ Signal("book_imbalance", m).market = 5000
      /\ Abs(Signal("book_imbalance", m).edge) = 800
  BY <1>1, <1>2, <1>3, SpeaksAtEvenOdds
<1> QED
  BY <1>4 DEF Row

LEMMA EvenOddsKept ==
  ASSUME IInv, RowSeqs, SoundInv, [Next]_vars PROVE ImbalanceOnlyAtEvenOdds'
<1> SUFFICES ASSUME MinEdge >= 800, NEW m \in Markets, NEW i \in DOMAIN rows'[m],
                    rows'[m][i].strategy = "book_imbalance"
             PROVE  rows'[m][i].market = One \div 2 /\ Abs(rows'[m][i].edge) = 800
  BY DEF ImbalanceOnlyAtEvenOdds
<1>1. One \div 2 = 5000
  BY DEF One
<1> DEFINE Spoken(row) == row.market = 5000 /\ Abs(row.edge) = 800
<1>2. \A j \in DOMAIN rows[m] : rows[m][j].strategy = "book_imbalance" => Spoken(rows[m][j])
  BY <1>1 DEF SoundInv, ImbalanceOnlyAtEvenOdds
<1> HIDE DEF Spoken
<1>3. CASE \E j \in DOMAIN rows[m] : rows'[m][i] = rows[m][j]
  BY <1>1, <1>2, <1>3 DEF Spoken
<1>4. CASE UNCHANGED rows
  BY <1>3, <1>4
<1>5. ASSUME NEW n \in Markets, RowExpires(n) PROVE \E j \in DOMAIN rows[m] : rows'[m][i] = rows[m][j]
  BY <1>5, ExpiredRows
<1>6. ASSUME NEW n \in Markets, RunStrategy(n)
      PROVE  Spoken(rows'[m][i]) \/ \E j \in DOMAIN rows[m] : rows'[m][i] = rows[m][j]
  <2> DEFINE s == enabled[NextStrategy(n)]
             row == Row(s, Signal(s, n))
  <2>1. CASE Signal(s, n) = NoSignal
    <3>1. UNCHANGED rows
      BY <1>6, <2>1 DEF RunStrategy
    <3> QED
      BY <3>1
  <2>2. CASE Signal(s, n) # NoSignal
    <3>1. Insert(n, row)
      BY <1>6, <2>2 DEF RunStrategy
    <3>2. row.strategy = s
      BY DEF Row
    <3>3. s = "book_imbalance" => Spoken(row)
      BY <2>2, SpokenAtEvenOdds DEF SoundInv, Spoken
    <3> HIDE DEF s, row
    <3>4. rows'[m][i] = row \/ \E j \in DOMAIN rows[m] : rows'[m][i] = rows[m][j]
      BY <3>1, InsertedRows
    <3> QED
      BY <3>2, <3>3, <3>4
  <2> QED
    BY <2>1, <2>2
<1> QED
  BY <1>1, <1>3, <1>4, <1>5, <1>6, RowsChange DEF Spoken

LEMMA InitSound == Init => SoundInv
<1> SUFFICES ASSUME Init PROVE SoundInv
  OBVIOUS
<1>1. SoundWorld
  BY WorldAssumption DEF Init, SoundWorld
<1>2. SoundMids
  BY IdleMid DEF Init, SoundMids
<1>3. \A m \in Markets : rows[m] = <<>>
  BY DEF Init
<1>4. ImbalanceOnlyAtEvenOdds
  BY <1>3 DEF ImbalanceOnlyAtEvenOdds
<1> QED
  BY <1>1, <1>2, <1>4 DEF SoundInv

(* With a least edge of eight cents or more, book_imbalance has something  *)
(* to say at even odds only, and then an edge of exactly eight cents,      *)
(* whatever the books hold (book_imbalance.py): at other odds the shift,   *)
(* damped by 4 * mid * (1 - mid), stays below the least edge.              *)
THEOREM ImbalanceSpeaksAtEvenOdds == Spec => []ImbalanceOnlyAtEvenOdds
<1>1. IInv /\ RowSeqs /\ SoundInv /\ [Next]_vars => SoundInv'
  BY SoundWorldKept, SoundMidsKept, EvenOddsKept DEF SoundInv
<1>2. IInv /\ RowSeqs /\ [Next]_vars => RowSeqs'
  BY NextRowSeqs
<1>3. SoundInv => ImbalanceOnlyAtEvenOdds
  BY DEF SoundInv
<1> QED
  BY <1>1, <1>2, <1>3, InitSound, InitRowSeqs, InductiveInvariant, PTL DEF Spec
=============================================================================
