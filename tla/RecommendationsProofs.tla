----------------------- MODULE RecommendationsProofs -----------------------
(***************************************************************************)
(* What Recommendations guarantees for every set of markets, strategies,   *)
(* edges and prices, every bound and every number of failing calls.        *)
(***************************************************************************)
EXTENDS Recommendations, WellFoundedInduction, TLAPS

-----------------------------------------------------------------------------
(* Facts about the rules, the constants and the helpers.                   *)

(* The rules answer with a side, an outcome and whole cents.               *)
LEMMA RulesTyped ==
  /\ \A e \in Int : trade_direction(e) \in Direction
  /\ \A x \in Int : outcome_from_final_mid(x) \in Outcome
  /\ \A e \in Price, d \in Direction, o \in Outcome :
       compute_pnl_cents(e, d, o) \in Int
BY DEF trade_direction, outcome_from_final_mid, compute_pnl_cents, Price,
       Direction, Outcome

(* The bounds are natural numbers.                                         *)
LEMMA BoundsTyped ==
  /\ MaxRecs \in Nat /\ MaxEvals \in Nat /\ MaxMsgs \in Nat
  /\ MaxClicks \in Nat /\ MaxFaults \in Nat
  /\ Edges \subseteq Edge /\ Mids \subseteq Price
BY RecAssumption

(* The best of a set are members of it.                                    *)
LEMMA BestOfSubset ==
  ASSUME NEW S, NEW n, NEW T \in BestOf(S, n)
  PROVE  T \subseteq S
BY DEF BestOf

(* A set of row numbers that is not empty has a largest member.            *)
LEMMA MaxOfIds ==
  ASSUME NEW S, S \subseteq Ids, S # {}
  PROVE  Max(S) \in S /\ \A y \in S : y <= Max(S)
<1> DEFINE Down == {MaxRecs - x : x \in S}
<1>1. Down \subseteq Nat /\ Down # {}
  <2>1. \A x \in S : MaxRecs - x \in Nat
    BY BoundsTyped DEF Ids
  <2>2. PICK x \in S : TRUE
    OBVIOUS
  <2>3. MaxRecs - x \in Down
    OBVIOUS
  <2> QED
    BY <2>1, <2>3
<1>2. \E n \in Down : \A k \in Down : ~(<<k, n>> \in OpToRel(<, Nat))
  <2> HIDE DEF Down
  <2> QED
    BY <1>1, NatLessThanWellFounded, WFMin
<1>3. PICK n \in Down : \A k \in Down : ~(k < n)
  BY <1>1, <1>2 DEF OpToRel
<1>4. PICK x \in S : n = MaxRecs - x
  BY <1>3
<1>5. ASSUME NEW y \in S PROVE y <= x
  <2>1. MaxRecs - y \in Down
    OBVIOUS
  <2>2. ~(MaxRecs - y < n)
    BY <1>3, <2>1
  <2>3. x \in Int /\ y \in Int /\ MaxRecs \in Int
    BY BoundsTyped DEF Ids
  <2> HIDE DEF Down
  <2> QED
    BY <1>4, <2>2, <2>3
<1> QED
  BY <1>4, <1>5 DEF Max

(* The newest reference to the feed is to a message that was posted.       *)
LEMMA FeedRefPosted ==
  ASSUME TypeOK, RowsExist
  PROVE  FeedRef \in 0..posted
<1>1. CASE Linked = {}
  BY <1>1 DEF FeedRef, TypeOK
<1>2. CASE Linked # {}
  <2>1. Max(Linked) \in Ids
    BY <1>2, MaxOfIds DEF Linked
  <2>2. recs[Max(Linked)] \in Rec
    BY <2>1 DEF TypeOK
  <2>3. recs[Max(Linked)].slack \in 0..MaxMsgs
    BY <2>2 DEF Rec
  <2> QED
    BY <1>2, <2>1, <2>3, BoundsTyped DEF FeedRef, RowsExist, TypeOK
<1> QED
  BY <1>1, <1>2

(* The message that a tick writes to is the next one or one posted before. *)
LEMMA FeedToPosted ==
  ASSUME TypeOK, RowsExist, FeedTo <= MaxMsgs
  PROVE  /\ FeedTo \in Msgs
         /\ FeedRef = 0 => posted + 1 \in 0..MaxMsgs /\ FeedTo = posted + 1
         /\ FeedRef # 0 => FeedTo \in 1..posted
<1>1. FeedRef \in 0..posted /\ posted \in 0..MaxMsgs
  BY FeedRefPosted DEF TypeOK
<1>2. CASE FeedRef = 0
  BY <1>1, <1>2, BoundsTyped DEF FeedTo, Msgs
<1>3. CASE FeedRef # 0
  BY <1>1, <1>3, BoundsTyped DEF FeedTo, Msgs
<1> QED
  BY <1>2, <1>3

(* References to messages are numbers, and a row with a status exists.     *)
LEMMA RowNumbers ==
  ASSUME TypeOK, Numbered, NEW i \in Ids
  PROVE  /\ recs[i].slack \in Nat
         /\ recs[i].status # "absent" => i \in Rows
<1>1. recs[i] \in Rec
  BY DEF TypeOK
<1>2. recs[i].slack \in Nat
  BY <1>1, BoundsTyped DEF Rec
<1>3. recs[i].status # "absent" => i \in Rows
  BY BoundsTyped DEF Numbered, Rows, Ids, TypeOK
<1> QED
  BY <1>2, <1>3

(* The row a pick is shown under is the one unresolved row of its source.  *)
LEMMA RefOfSource ==
  ASSUME OneUnresolvedPerSource, NEW s, RefsOf(s) # {}
  PROVE  Max(RefsOf(s)) \in RefsOf(s)
<1>1. PICK i \in RefsOf(s) : TRUE
  OBVIOUS
<1>2. RefsOf(s) = {i}
  BY <1>1 DEF OneUnresolvedPerSource, RefsOf
<1>3. i \in Ids
  BY <1>1 DEF RefsOf
<1> QED
  BY <1>2, <1>3, MaxOfIds

(* The fields of a row that is not absent.                                 *)
LEMMA RowFields ==
  ASSUME TypeOK, Numbered, NEW i \in Rows
  PROVE  /\ i \in Ids /\ recs[i] \in Rec
         /\ recs[i].source \in Sources /\ recs[i].status \in Decision \union {"pending"}
         /\ recs[i].source[1] \in Markets
         /\ mid[recs[i].source[1]] \in Price
<1>1. i \in Ids /\ recs[i] \in Rec
  BY BoundsTyped DEF TypeOK, Rows, Ids
<1>2. recs[i].source \in Sources /\ recs[i].status # "absent"
  BY <1>1, BoundsTyped DEF Numbered, Rows, TypeOK, Ids
<1>3. recs[i].status \in Decision \union {"pending"}
  BY <1>1, <1>2 DEF Rec
<1>4. recs[i].source[1] \in Markets
  BY <1>2 DEF Sources
<1>5. mid[recs[i].source[1]] \in Price
  BY <1>4, BoundsTyped DEF TypeOK
<1> QED
  BY <1>1, <1>2, <1>3, <1>4, <1>5

-----------------------------------------------------------------------------
(* Type correctness.                                                       *)

(* A new row is well typed, and its number is the next one.                *)
LEMMA InsertTyped ==
  ASSUME TypeOK, NEW p \in todo, lastId < MaxRecs
  PROVE  /\ lastId + 1 \in Ids /\ p \in Pick
         /\ RecOf(p) \in Rec
         /\ [recs EXCEPT ![lastId + 1] = RecOf(p)] \in [Ids -> Rec]
<1>1. lastId + 1 \in Ids /\ p \in Pick
  BY BoundsTyped DEF TypeOK, Ids
<1>2. p.source \in Sources /\ p.edge \in Edge /\ p.price \in Price
  BY <1>1 DEF Pick
<1>3. RecOf(p) \in Rec
  BY <1>2, BoundsTyped DEF RecOf, Rec, Decision, Outcome
<1> QED
  BY <1>1, <1>3 DEF TypeOK

(* An entry of the feed is well typed.                                     *)
LEMMA EntryTyped ==
  ASSUME NEW i \in Ids, NEW p \in Pick, NEW st \in Decision \union {"pending"}
  PROVE  EntryOf(i, st, p) \in Entry
<1>1. p.edge \in Int
  BY DEF Pick, Edge
<1> QED
  BY <1>1, RulesTyped DEF EntryOf, Entry

(* A resolved row is well typed.                                           *)
LEMMA ResolvedTyped ==
  ASSUME TypeOK, Numbered, RowsExist, NEW row \in settling, NEW o \in {"yes", "no"}
  PROVE  /\ EntryPrice(row) \in Price
         /\ compute_pnl_cents(EntryPrice(row),
                              trade_direction(recs[row.rec].edge), o) \in Int
         /\ Resolved(row, o) =
              [recs EXCEPT ![row.rec] =
                 [recs[row.rec] EXCEPT
                    !.outcome = o,
                    !.pnl = compute_pnl_cents(EntryPrice(row),
                              trade_direction(recs[row.rec].edge), o),
                    !.entry = EntryPrice(row)]]
         /\ Resolved(row, o) \in [Ids -> Rec]
<1>1. row \in [rec : Ids, entry : Price \union {-1}] /\ row.rec \in Rows
  BY DEF TypeOK, RowsExist
<1>2. row.rec \in Ids /\ recs[row.rec] \in Rec
  BY <1>1, RowFields
<1>3. recs[row.rec].price \in Price /\ recs[row.rec].edge \in Int
  BY <1>2 DEF Rec, Edge
<1>4. EntryPrice(row) \in Price
  BY <1>1, <1>3 DEF EntryPrice, Price
<1>5. compute_pnl_cents(EntryPrice(row),
                        trade_direction(recs[row.rec].edge), o) \in Int
  BY <1>3, <1>4, RulesTyped DEF Outcome
<1> DEFINE new == [recs[row.rec] EXCEPT
                    !.outcome = o,
                    !.pnl = compute_pnl_cents(EntryPrice(row),
                              trade_direction(recs[row.rec].edge), o),
                    !.entry = EntryPrice(row)]
<1>6. Resolved(row, o) = [recs EXCEPT ![row.rec] = new]
  BY <1>2 DEF Resolved, TypeOK
<1>7. new \in Rec
  BY <1>2, <1>4, <1>5 DEF Rec, Outcome
<1> QED
  BY <1>2, <1>4, <1>5, <1>6, <1>7 DEF TypeOK

(* A button leaves a well typed row that differs from the old one in its   *)
(* status, its notes and perhaps its entry price.                          *)
LEMMA StatusTyped ==
  ASSUME TypeOK, Numbered, NEW i \in Rows, NEW d \in Decision, SetStatus(i, d)
  PROVE  /\ recs' \in [Ids -> Rec]
         /\ \A j \in Ids : j # i => recs'[j] = recs[j]
         /\ recs'[i] = [recs[i] EXCEPT
                          !.status = d, !.noted = TRUE,
                          !.entry = IF d = "approved" THEN mid[recs[i].source[1]]
                                                      ELSE recs[i].entry]
<1>1. /\ i \in Ids /\ recs[i] \in Rec
      /\ mid[recs[i].source[1]] \in Price
  BY RowFields
<1> DEFINE new == [recs[i] EXCEPT
                     !.status = d, !.noted = TRUE,
                     !.entry = IF d = "approved" THEN mid[recs[i].source[1]]
                                                 ELSE recs[i].entry]
<1>2. recs' = [recs EXCEPT ![i] = new]
  BY <1>1 DEF SetStatus, TypeOK
<1>3. new \in Rec
  BY <1>1 DEF Rec
<1> QED
  BY <1>1, <1>2, <1>3 DEF TypeOK

(* The initial states are well typed.                                      *)
LEMMA InitTyped == Init => TypeOK
<1> SUFFICES ASSUME Init PROVE TypeOK
  OBVIOUS
<1>1. NoRec \in Rec
  BY BoundsTyped DEF NoRec, Rec, Edge, Price, Outcome, Decision
<1>2. recs \in [Ids -> Rec]
  BY <1>1 DEF Init
<1>3. fv \in [Sources -> Seq(FairValue)]
  BY DEF Init
<1>4. msgs \in [Msgs -> SUBSET Entry]
  BY DEF Init
<1>5. /\ lastId \in 0..MaxRecs /\ posted \in 0..MaxMsgs /\ clicks \in 0..MaxClicks
      /\ faults \in 0..MaxFaults /\ current \in Nat
  BY BoundsTyped DEF Init
<1>6. mid \in [Markets -> Mids] /\ phase \in [Markets -> {"live", "ended", "closed"}]
  BY DEF Init
<1> QED
  BY <1>2, <1>3, <1>4, <1>5, <1>6 DEF Init, TypeOK

(* Ingestion and reasoning keep the types.                                 *)
LEMMA WorldTyped ==
  ASSUME TypeOK, World
  PROVE  TypeOK'
<1> USE DEF TypeOK
<1>1. ASSUME NEW m \in Markets, Quote(m) PROVE TypeOK'
  BY <1>1 DEF Quote, db, slack, people, locals
<1>2. ASSUME NEW m \in Markets, EndDatePasses(m) PROVE TypeOK'
  BY <1>2 DEF EndDatePasses, db, slack, people, locals
<1>3. ASSUME NEW m \in Markets, CloseMarket(m) PROVE TypeOK'
  BY <1>3 DEF CloseMarket, db, slack, people, locals
<1>4. ASSUME NEW s \in Sources, Evaluate(s) PROVE TypeOK'
  <2>1. PICK e \in Edges :
          fv' = [fv EXCEPT ![s] = Append(@, [edge |-> e, price |-> mid[s[1]]])]
    BY <1>4 DEF Evaluate
  <2>2. s[1] \in Markets
    BY DEF Sources
  <2>3. [edge |-> e, price |-> mid[s[1]]] \in FairValue
    BY <2>2, BoundsTyped DEF FairValue
  <2>4. Append(fv[s], [edge |-> e, price |-> mid[s[1]]]) \in Seq(FairValue)
    BY <2>3
  <2>5. fv' \in [Sources -> Seq(FairValue)]
    BY <2>1, <2>4
  <2> QED
    BY <1>4, <2>5 DEF Evaluate, db, slack, people, locals
<1> QED
  BY <1>1, <1>2, <1>3, <1>4 DEF World

(* What top_picks finds are picks, one for each source.                    *)
LEMMA CandidatesTyped ==
  ASSUME TypeOK
  PROVE  /\ Candidates \subseteq Pick
         /\ \A p, q \in Candidates : p.source = q.source => p = q
<1>1. ASSUME NEW s \in Sources, fv[s] # <<>> PROVE Latest(s) \in FairValue
  <2>1. fv[s] \in Seq(FairValue)
    BY DEF TypeOK
  <2>2. Len(fv[s]) \in 1..Len(fv[s])
    BY <1>1, <2>1
  <2> QED
    BY <2>1, <2>2 DEF Latest
<1>2. Candidates \subseteq Pick
  BY <1>1 DEF Candidates, FairValue, Pick
<1> QED
  BY <1>2 DEF Candidates

(* The steps of a tick keep the types.                                     *)
LEMMA NotifyTyped ==
  ASSUME IndInv, Notify
  PROVE  TypeOK'
<1> USE DEF IndInv, TypeOK
<1>1. CASE Rank
  <2>1. picks' \subseteq Pick
    BY <1>1, BestOfSubset, CandidatesTyped DEF Rank
  <2> QED
    BY <1>1, <2>1 DEF Rank, world, db, slack, people
<1>2. CASE ClearFeed
  <2>1. msgs' \in [Msgs -> SUBSET Entry]
    BY <1>2 DEF ClearFeed
  <2> QED
    BY <1>2, <2>1 DEF ClearFeed, world, db, people, locals
<1>3. CASE Dedupe
  <2>1. picks' \subseteq picks
    BY <1>3, BestOfSubset DEF Dedupe, Alerts
  <2>2. pc' \in {"resolve", "refs"}
    BY <1>3 DEF Dedupe
  <2> QED
    BY <1>3, <2>1, <2>2 DEF Dedupe, world, db, slack, people
<1>4. CASE ReadRefs
  <2>1. ASSUME NEW p \in picks, RefsOf(p.source) # {}
        PROVE  EntryOf(Max(RefsOf(p.source)),
                       recs[Max(RefsOf(p.source))].status, p) \in Entry
    <3> DEFINE i == Max(RefsOf(p.source))
    <3>1. i \in RefsOf(p.source)
      BY <2>1, RefOfSource
    <3>2. i \in Ids /\ recs[i] \in Rec /\ recs[i].status # "absent"
      BY <3>1 DEF RefsOf, Unresolved
    <3>3. recs[i].status \in Decision \union {"pending"}
      BY <3>2 DEF Rec
    <3> QED
      BY <3>2, <3>3, EntryTyped
  <2>2. entries' \subseteq Entry
    BY <1>4, <2>1 DEF ReadRefs
  <2> QED
    BY <1>4, <2>2 DEF ReadRefs, world, db, slack, people
<1>5. CASE Insert
  <2>1. PICK p \in todo :
          /\ recs' = [recs EXCEPT ![lastId + 1] = RecOf(p)]
          /\ todo' = todo \ {p}
          /\ entries' = entries \union {EntryOf(lastId + 1, "pending", p)}
    BY <1>5 DEF Insert
  <2>2. lastId < MaxRecs
    BY <1>5 DEF Insert
  <2>3. recs' \in [Ids -> Rec]
    BY <2>1, <2>2, InsertTyped
  <2>4. entries' \subseteq Entry
    BY <2>1, <2>2, InsertTyped, EntryTyped
  <2>5. lastId' \in 0..MaxRecs /\ current' \in Nat
    BY <1>5, <2>2, BoundsTyped DEF Insert
  <2>6. pc' \in {"entry", "insert"}
    BY <1>5 DEF Insert
  <2> QED
    BY <1>5, <2>1, <2>3, <2>4, <2>5, <2>6 DEF Insert, world, slack, people
<1>6. CASE SetEntry
  <2>1. current \in Rows
    BY <1>6 DEF SetEntry, Control
  <2>2. current \in Ids /\ recs[current] \in Rec
    BY <2>1, RowFields
  <2>3. [recs[current] EXCEPT !.entry = recs[current].price] \in Rec
    BY <2>2 DEF Rec
  <2>4. recs' = [recs EXCEPT ![current] =
                   [recs[current] EXCEPT !.entry = recs[current].price]]
    BY <1>6, <2>2 DEF SetEntry
  <2>5. recs' \in [Ids -> Rec]
    BY <2>3, <2>4
  <2> QED
    BY <1>6, <2>5 DEF SetEntry, world, slack, people, locals
<1>7. CASE OutOfRows
  BY <1>7 DEF OutOfRows, Forget, world, db, slack, people
<1>8. CASE Inserted
  <2>1. Shown \subseteq Ids
    BY DEF Shown, Entry
  <2>2. left' \subseteq Ids /\ pc' \in {"post", "telegram"} /\ current' \in Nat
    BY <1>8, <2>1 DEF Inserted
  <2> QED
    BY <1>8, <2>2 DEF Inserted, world, db, slack, people
<1>9. CASE PostFeed
  <2>1. FeedTo <= MaxMsgs
    BY <1>9 DEF PostFeed
  <2>2. FeedTo \in Msgs /\ posted' \in 0..MaxMsgs
    BY <1>9, <2>1, FeedToPosted DEF PostFeed
  <2>3. msgs' \in [Msgs -> SUBSET Entry] /\ current' \in Nat
    BY <1>9, <2>2, BoundsTyped DEF PostFeed, Msgs
  <2>4. left' \subseteq Ids
    BY <1>9 DEF PostFeed, Shown, Entry
  <2> QED
    BY <1>9, <2>2, <2>3, <2>4 DEF PostFeed, world, db, people
<1>10. CASE Link
  <2>1. PICK i \in left : recs' = [recs EXCEPT ![i].slack = current]
                          /\ left' = left \ {i}
    BY <1>10 DEF Link
  <2>2. current \in 0..MaxMsgs
    BY <1>10, BoundsTyped DEF Link, Control
  <2>3. i \in Ids /\ recs[i] \in Rec
    OBVIOUS
  <2>4. [recs[i] EXCEPT !.slack = current] \in Rec
    BY <2>2, <2>3 DEF Rec
  <2>5. recs' \in [Ids -> Rec]
    BY <2>1, <2>3, <2>4
  <2> QED
    BY <1>10, <2>1, <2>5 DEF Link, world, slack, people
<1>11. CASE AllLinked
  <2>1. left' \subseteq Ids /\ current' \in Nat
    BY <1>11 DEF AllLinked, Shown, Entry
  <2> QED
    BY <1>11, <2>1 DEF AllLinked, world, db, slack, people
<1>12. CASE PostChat
  BY <1>12 DEF PostChat, world, db, slack
<1>13. CASE EndTick
  BY <1>13 DEF EndTick, world, db, slack, people
<1> QED
  BY <1>1, <1>2, <1>3, <1>4, <1>5, <1>6, <1>7, <1>8, <1>9, <1>10, <1>11, <1>12, <1>13
  DEF Notify

(* A row that is to be resolved exists, and its market has a mid price.    *)
LEMMA SettlingFields ==
  ASSUME IndInv, NEW row \in settling
  PROVE  /\ row.rec \in Rows /\ row.rec \in Ids /\ recs[row.rec] \in Rec
         /\ mid[recs[row.rec].source[1]] \in Int
<1>1. row.rec \in Rows
  BY DEF IndInv, RowsExist
<1>2. row.rec \in Ids /\ recs[row.rec] \in Rec
  BY <1>1, RowFields DEF IndInv
<1>3. mid[recs[row.rec].source[1]] \in Price
  BY <1>1, RowFields DEF IndInv
<1> QED
  BY <1>1, <1>2, <1>3 DEF Price

(* The steps of _resolve_pnl keep the types.                               *)
LEMMA ResolveTyped ==
  ASSUME IndInv, Resolve
  PROVE  TypeOK'
<1> USE DEF IndInv, TypeOK
<1>1. CASE ReadDue
  <2>1. PICK ids \in BestOf({i \in Ids : Due(i)}, ResolveLimit) :
          settling' = {[rec |-> i, entry |-> recs[i].entry] : i \in ids}
    BY <1>1 DEF ReadDue
  <2>2. ids \subseteq Ids
    BY BestOfSubset
  <2>3. \A i \in Ids : recs[i].entry \in Price \union {-1}
    BY DEF Rec
  <2>4. settling' \subseteq [rec : Ids, entry : Price \union {-1}]
    BY <2>1, <2>2, <2>3
  <2> QED
    BY <1>1, <2>4 DEF ReadDue, world, db, slack, people
<1>2. CASE Settle
  <2>1. PICK row \in settling :
          LET outcome == outcome_from_final_mid(mid[recs[row.rec].source[1]])
          IN  /\ recs' = IF outcome = "unknown" THEN recs ELSE Resolved(row, outcome)
              /\ settling' = settling \ {row}
    BY <1>2 DEF Settle
  <2>2. mid[recs[row.rec].source[1]] \in Int
    BY SettlingFields
  <2>3. recs' \in [Ids -> Rec]
    BY <2>1, <2>2, RulesTyped, ResolvedTyped DEF Outcome
  <2> QED
    BY <1>2, <2>1, <2>3 DEF Settle, world, slack, people
<1>3. CASE Rest
  BY <1>3 DEF Rest, world, db, slack, people, locals
<1> QED
  BY <1>1, <1>2, <1>3 DEF Resolve

(* A button that is pressed keeps the types.                               *)
LEMMA PeopleTyped ==
  ASSUME IndInv, People
  PROVE  TypeOK'
<1> USE DEF IndInv, TypeOK
<1>1. ASSUME NEW k \in Msgs, NEW d \in Decision, PressInFeed(k, d) PROVE TypeOK'
  <2>1. PICK e \in msgs[k] :
          /\ SetStatus(e.rec, d)
          /\ acks' = acks \union
               {[msg |-> k, content |-> (msgs[k] \ {e}) \union {[e EXCEPT !.shown = d]}]}
    BY <1>1 DEF PressInFeed
  <2>2. e \in Entry /\ e.rec \in Rows
    BY DEF RowsExist
  <2>3. recs' \in [Ids -> Rec]
    BY <2>1, <2>2, StatusTyped
  <2>4. [e EXCEPT !.shown = d] \in Entry
    BY <2>2 DEF Entry
  <2>5. acks' \subseteq [msg : Msgs, content : SUBSET Entry]
    BY <2>1, <2>4
  <2>6. clicks' \in 0..MaxClicks
    BY <1>1, BoundsTyped DEF PressInFeed
  <2> QED
    BY <1>1, <2>3, <2>5, <2>6 DEF PressInFeed, world, slack, locals
<1>2. ASSUME NEW i \in Ids, NEW d \in Decision, PressInChat(i, d) PROVE TypeOK'
  <2>1. i \in Rows /\ SetStatus(i, d)
    BY <1>2 DEF PressInChat, RowsExist
  <2>2. recs' \in [Ids -> Rec]
    BY <2>1, StatusTyped
  <2>3. clicks' \in 0..MaxClicks
    BY <1>2, BoundsTyped DEF PressInChat
  <2> QED
    BY <1>2, <2>2, <2>3 DEF PressInChat, world, slack, locals
<1>3. CASE Acknowledge
  <2>1. PICK a \in acks : msgs' = [msgs EXCEPT ![a.msg] = a.content]
                          /\ acks' = acks \ {a}
    BY <1>3 DEF Acknowledge
  <2>2. msgs' \in [Msgs -> SUBSET Entry]
    BY <2>1
  <2> QED
    BY <1>3, <2>1, <2>2 DEF Acknowledge, world, db, locals
<1> QED
  BY <1>1, <1>2, <1>3 DEF People

(* A failure keeps the types.                                              *)
LEMMA FaultsTyped ==
  ASSUME IndInv, Faults
  PROVE  TypeOK'
<1> USE DEF IndInv, TypeOK
<1>1. faults' \in 0..MaxFaults
  BY BoundsTyped DEF Faults, TickFails, FeedRefused, ChatRefused, AnswerLost, ResolveFails, Crash,
                     AckLost, Fault
<1>2. CASE TickFails \/ ResolveFails \/ Crash
  BY <1>1, <1>2 DEF TickFails, ResolveFails, Crash, Forget, world, db, slack, people
<1>3. CASE FeedRefused
  <2>1. left' \subseteq Ids
    BY <1>3 DEF FeedRefused, Shown, Entry
  <2> QED
    BY <1>1, <1>3, <2>1 DEF FeedRefused, world, db, slack, people
<1>4. CASE AnswerLost
  <2>1. /\ recs' \in [Ids -> Rec] /\ lastId' \in 0..MaxRecs
        /\ posted' \in 0..MaxMsgs /\ msgs' \in [Msgs -> SUBSET Entry]
    <3>1. CASE /\ pc = "insert" /\ lastId < MaxRecs
               /\ \E p \in todo : recs' = [recs EXCEPT ![lastId + 1] = RecOf(p)]
               /\ lastId' = lastId + 1
               /\ UNCHANGED slack
      BY <3>1, InsertTyped, BoundsTyped DEF slack
    <3>2. CASE /\ pc = "post" /\ FeedTo <= MaxMsgs
               /\ msgs' = [msgs EXCEPT ![FeedTo] = entries]
               /\ posted' = IF FeedRef = 0 THEN posted + 1 ELSE posted
               /\ UNCHANGED db
      <4>1. FeedTo \in Msgs /\ posted' \in 0..MaxMsgs
        BY <3>2, FeedToPosted
      <4> QED
        BY <3>2, <4>1 DEF db
    <3> QED
      BY <1>4, <3>1, <3>2 DEF AnswerLost
  <2> QED
    BY <1>1, <1>4, <2>1 DEF AnswerLost, Forget, world, people
<1>5. CASE AckLost \/ ChatRefused
  BY <1>1, <1>5 DEF AckLost, ChatRefused, world, db, slack, people, locals
<1> QED
  BY <1>2, <1>3, <1>4, <1>5 DEF Faults

(* Every step keeps the types.                                             *)
LEMMA NextTyped == IndInv /\ [Next]_vars => TypeOK'
<1>1. ASSUME IndInv, UNCHANGED vars PROVE TypeOK'
  BY <1>1 DEF IndInv, TypeOK, vars, world, db, slack, people, locals
<1> QED
  BY <1>1, WorldTyped, NotifyTyped, ResolveTyped, PeopleTyped, FaultsTyped
  DEF Next, IndInv

-----------------------------------------------------------------------------
(* How a step may change the table of recommendations.                     *)

(* A new row takes the next number, for a source that had no unresolved    *)
(* row.                                                                    *)
InsertsRow ==
  \E p \in todo :
    /\ pc = "insert" /\ lastId < MaxRecs
    /\ recs' = [recs EXCEPT ![lastId + 1] = RecOf(p)]
    /\ lastId' = lastId + 1
    /\ todo' \subseteq todo \ {p}

(* One row gets its outcome.                                               *)
ResolvesRow ==
  \E row \in settling, o \in {"yes", "no"} :
    /\ recs' = Resolved(row, o)
    /\ settling' = settling \ {row}
    /\ lastId' = lastId

(* Rows keep their source, their terms, their outcome and their result.    *)
KeepsRows ==
  /\ lastId' = lastId
  /\ \A i \in Ids :
       /\ recs'[i].source = recs[i].source /\ recs'[i].edge = recs[i].edge
       /\ recs'[i].price = recs[i].price /\ recs'[i].outcome = recs[i].outcome
       /\ recs'[i].pnl = recs[i].pnl
       /\ recs'[i].status = "absent" <=> recs[i].status = "absent"

(* Every step does one of the three.                                       *)
LEMMA RowsChange ==
  ASSUME IndInv, [Next]_vars
  PROVE  InsertsRow \/ ResolvesRow \/ KeepsRows
<1> USE DEF IndInv
<1>1. CASE recs' = recs /\ lastId' = lastId
  BY <1>1 DEF KeepsRows
<1>2. CASE World \/ UNCHANGED vars
  BY <1>1, <1>2 DEF World, Quote, EndDatePasses, CloseMarket, Evaluate, db, locals, vars
<1>3. CASE \/ Rank \/ ClearFeed \/ Dedupe \/ ReadRefs \/ OutOfRows \/ Inserted
           \/ PostFeed \/ AllLinked \/ PostChat \/ EndTick
  BY <1>1, <1>3 DEF Rank, ClearFeed, Dedupe, ReadRefs, OutOfRows, Inserted, PostFeed,
                    AllLinked, PostChat, EndTick, db, locals, Forget
<1>4. CASE Insert
  BY <1>4 DEF Insert, InsertsRow
<1>5. CASE SetEntry
  <2>1. current \in Ids /\ recs[current] \in Rec
    BY <1>5, RowFields DEF SetEntry, Control
  <2>2. recs' = [recs EXCEPT ![current] =
                   [recs[current] EXCEPT !.entry = recs[current].price]]
    BY <1>5, <2>1 DEF SetEntry, TypeOK
  <2>3. lastId' = lastId
    BY <1>5 DEF SetEntry
  <2> QED
    BY <2>1, <2>2, <2>3 DEF KeepsRows, TypeOK, Rec
<1>6. CASE Link
  <2>1. PICK i \in left : recs' = [recs EXCEPT ![i].slack = current]
    BY <1>6 DEF Link
  <2>2. i \in Ids /\ recs[i] \in Rec
    BY DEF TypeOK
  <2>3. recs' = [recs EXCEPT ![i] = [recs[i] EXCEPT !.slack = current]]
    BY <2>1, <2>2 DEF TypeOK
  <2>4. lastId' = lastId
    BY <1>6 DEF Link
  <2> QED
    BY <2>2, <2>3, <2>4 DEF KeepsRows, TypeOK, Rec
<1>7. CASE ReadDue \/ Rest
  BY <1>1, <1>7 DEF ReadDue, Rest, db, locals
<1>8. CASE Settle
  <2>1. PICK row \in settling :
          LET outcome == outcome_from_final_mid(mid[recs[row.rec].source[1]])
          IN  /\ recs' = IF outcome = "unknown" THEN recs ELSE Resolved(row, outcome)
              /\ settling' = settling \ {row}
    BY <1>8 DEF Settle
  <2>2. mid[recs[row.rec].source[1]] \in Int
    BY SettlingFields
  <2>3. lastId' = lastId
    BY <1>8 DEF Settle
  <2> QED
    BY <1>1, <2>1, <2>2, <2>3, RulesTyped DEF ResolvesRow, Outcome
<1>9. ASSUME NEW i \in Rows, NEW d \in Decision, SetStatus(i, d),
             lastId' = lastId
      PROVE  KeepsRows
  <2>1. i \in Ids /\ recs[i] \in Rec /\ recs[i].status # "absent"
    BY <1>9, RowFields DEF Decision
  <2>2. /\ recs' \in [Ids -> Rec]
        /\ \A j \in Ids : j # i => recs'[j] = recs[j]
        /\ recs'[i] = [recs[i] EXCEPT
                         !.status = d, !.noted = TRUE,
                         !.entry = IF d = "approved" THEN mid[recs[i].source[1]]
                                                     ELSE recs[i].entry]
    BY <1>9, StatusTyped
  <2>3. /\ recs'[i].source = recs[i].source /\ recs'[i].edge = recs[i].edge
        /\ recs'[i].price = recs[i].price /\ recs'[i].outcome = recs[i].outcome
        /\ recs'[i].pnl = recs[i].pnl /\ recs'[i].status = d
    BY <2>1, <2>2 DEF Rec
  <2>4. d # "absent"
    BY DEF Decision
  <2> QED
    BY <1>9, <2>1, <2>2, <2>3, <2>4 DEF KeepsRows
<1>10. CASE People
  <2>1. ASSUME NEW k \in Msgs, NEW d \in Decision, PressInFeed(k, d) PROVE KeepsRows
    BY <1>9, <2>1 DEF PressInFeed, RowsExist
  <2>2. ASSUME NEW i \in Ids, NEW d \in Decision, PressInChat(i, d) PROVE KeepsRows
    BY <1>9, <2>2 DEF PressInChat, RowsExist
  <2>3. CASE Acknowledge
    BY <1>1, <2>3 DEF Acknowledge, db, locals
  <2> QED
    BY <1>10, <2>1, <2>2, <2>3 DEF People
<1>11. CASE Faults
  <2>1. CASE \/ TickFails \/ FeedRefused \/ ChatRefused \/ ResolveFails \/ Crash
            \/ AckLost
    BY <1>1, <2>1 DEF TickFails, FeedRefused, ChatRefused, ResolveFails, Crash, AckLost, db, locals,
                      Forget
  <2>2. CASE AnswerLost
    BY <1>1, <2>2 DEF AnswerLost, Forget, db, InsertsRow
  <2> QED
    BY <1>11, <2>1, <2>2 DEF Faults
<1> QED
  BY <1>2, <1>3, <1>4, <1>5, <1>6, <1>7, <1>8, <1>10, <1>11 DEF Next, Notify, Resolve

(* What an insert does to the table.                                       *)
LEMMA InsertEffect ==
  ASSUME IndInv, NEW p \in todo, pc = "insert", lastId < MaxRecs,
         recs' = [recs EXCEPT ![lastId + 1] = RecOf(p)], lastId' = lastId + 1
  PROVE  /\ lastId + 1 \in Ids /\ recs[lastId + 1].status = "absent"
         /\ recs'[lastId + 1] = RecOf(p)
         /\ \A j \in Ids : j # lastId + 1 => recs'[j] = recs[j]
         /\ p \in Pick
         /\ \A j \in Ids : Unresolved(j) => recs[j].source # p.source
<1>1. lastId + 1 \in Ids /\ p \in Pick
  BY InsertTyped DEF IndInv
<1>2. recs[lastId + 1].status = "absent"
  BY <1>1, BoundsTyped DEF IndInv, Numbered, TypeOK
<1>3. \A j \in Ids : Unresolved(j) => recs[j].source # p.source
  BY DEF IndInv, Control, RefsOf
<1> QED
  BY <1>1, <1>2, <1>3 DEF IndInv, TypeOK

(* What a resolution does to the table.                                    *)
LEMMA ResolveEffect ==
  ASSUME IndInv, NEW row \in settling, NEW o \in {"yes", "no"},
         recs' = Resolved(row, o)
  PROVE  /\ row.rec \in Rows /\ row.rec \in Ids /\ recs[row.rec] \in Rec
         /\ Unresolved(row.rec)
         /\ EntryPrice(row) \in Price
         /\ \A j \in Ids : j # row.rec => recs'[j] = recs[j]
         /\ LET old == recs[row.rec]
                new == recs'[row.rec]
            IN  /\ new.status = old.status /\ new.source = old.source
                /\ new.edge = old.edge /\ new.price = old.price
                /\ new.noted = old.noted /\ new.slack = old.slack
                /\ new.outcome = o
                /\ new.entry = EntryPrice(row)
                /\ new.pnl = compute_pnl_cents(EntryPrice(row),
                               trade_direction(old.edge), o)
<1>1. /\ row.rec \in Rows /\ row.rec \in Ids /\ recs[row.rec] \in Rec
      /\ recs \in [Ids -> Rec] /\ Unresolved(row.rec)
  BY SettlingFields DEF IndInv, TypeOK, Control
<1> DEFINE new == [recs[row.rec] EXCEPT
                    !.outcome = o,
                    !.pnl = compute_pnl_cents(EntryPrice(row),
                              trade_direction(recs[row.rec].edge), o),
                    !.entry = EntryPrice(row)]
<1>2. EntryPrice(row) \in Price /\ recs' = [recs EXCEPT ![row.rec] = new]
  BY ResolvedTyped DEF IndInv
<1>3. recs'[row.rec] = new /\ \A j \in Ids : j # row.rec => recs'[j] = recs[j]
  BY <1>1, <1>2
<1> QED
  BY <1>1, <1>2, <1>3 DEF Rec

(* Rows that keep their outcomes are unresolved exactly when they were.    *)
LEMMA KeepsRefs ==
  ASSUME KeepsRows
  PROVE  /\ \A i \in Ids : Unresolved(i)' <=> Unresolved(i)
         /\ \A s : RefsOf(s)' = RefsOf(s)
         /\ Rows' = Rows
BY DEF KeepsRows, Unresolved, RefsOf, Rows

-----------------------------------------------------------------------------
(* The invariant, one conjunct after the other.                            *)

(* The next number is given to the next row.                               *)
LEMMA NextNumbered ==
  ASSUME IndInv, [Next]_vars
  PROVE  Numbered' /\ Rows \subseteq Rows'
<1>1. CASE InsertsRow
  <2>1. PICK p \in todo :
          /\ pc = "insert" /\ lastId < MaxRecs
          /\ recs' = [recs EXCEPT ![lastId + 1] = RecOf(p)]
          /\ lastId' = lastId + 1
    BY <1>1 DEF InsertsRow
  <2>2. /\ recs'[lastId + 1] = RecOf(p) /\ p \in Pick
        /\ \A j \in Ids : j # lastId + 1 => recs'[j] = recs[j]
    BY <2>1, InsertEffect
  <2>3. RecOf(p).status # "absent" /\ RecOf(p).source \in Sources
    BY <2>2 DEF RecOf, Pick
  <2>4. lastId \in Nat /\ lastId' = lastId + 1 /\ \A i \in Ids : i \in Nat
    BY <2>1, BoundsTyped DEF IndInv, TypeOK, Ids
  <2>5. Numbered'
    BY <2>2, <2>3, <2>4 DEF IndInv, Numbered
  <2> QED
    BY <2>4, <2>5 DEF Rows
<1>2. CASE ResolvesRow
  <2>1. PICK row \in settling, o \in {"yes", "no"} :
          recs' = Resolved(row, o) /\ lastId' = lastId
    BY <1>2 DEF ResolvesRow
  <2>2. /\ recs[row.rec] \in Rec
        /\ \A j \in Ids : j # row.rec => recs'[j] = recs[j]
        /\ recs'[row.rec].status = recs[row.rec].status
        /\ recs'[row.rec].source = recs[row.rec].source
    BY <2>1, ResolveEffect
  <2> QED
    BY <2>1, <2>2 DEF IndInv, Numbered, Rows
<1>3. CASE KeepsRows
  BY <1>3 DEF IndInv, KeepsRows, Numbered, Rows
<1> QED
  BY <1>1, <1>2, <1>3, RowsChange

(* No source gets a second unresolved row.                                 *)
LEMMA NextOneUnresolved ==
  ASSUME IndInv, [Next]_vars
  PROVE  OneUnresolvedPerSource'
<1> SUFFICES ASSUME NEW i \in Ids, NEW j \in Ids, Unresolved(i)', Unresolved(j)',
                    recs'[i].source = recs'[j].source
             PROVE  i = j
  BY DEF OneUnresolvedPerSource
<1>1. CASE InsertsRow
  <2>1. PICK p \in todo :
          /\ pc = "insert" /\ lastId < MaxRecs
          /\ recs' = [recs EXCEPT ![lastId + 1] = RecOf(p)]
          /\ lastId' = lastId + 1
    BY <1>1 DEF InsertsRow
  <2>2. /\ recs'[lastId + 1] = RecOf(p)
        /\ \A k \in Ids : k # lastId + 1 => recs'[k] = recs[k]
        /\ \A k \in Ids : Unresolved(k) => recs[k].source # p.source
    BY <2>1, InsertEffect
  <2>3. RecOf(p).source = p.source
    BY DEF RecOf
  <2> QED
    BY <2>2, <2>3 DEF IndInv, OneUnresolvedPerSource, Unresolved
<1>2. CASE ResolvesRow
  <2>1. PICK row \in settling, o \in {"yes", "no"} : recs' = Resolved(row, o)
    BY <1>2 DEF ResolvesRow
  <2>2. /\ recs[row.rec] \in Rec
        /\ \A k \in Ids : k # row.rec => recs'[k] = recs[k]
        /\ recs'[row.rec].outcome = o
    BY <2>1, ResolveEffect
  <2>3. i # row.rec /\ j # row.rec
    BY <2>2 DEF Unresolved
  <2> QED
    BY <2>2, <2>3 DEF IndInv, OneUnresolvedPerSource, Unresolved
<1>3. CASE KeepsRows
  BY <1>3, KeepsRefs DEF IndInv, KeepsRows, OneUnresolvedPerSource
<1> QED
  BY <1>1, <1>2, <1>3, RowsChange

(* What is shown, linked or being resolved keeps being of existing rows.   *)
LEMMA NextRowsExist ==
  ASSUME IndInv, [Next]_vars
  PROVE  RowsExist'
<1> USE DEF IndInv, RowsExist
<1>1. Rows \subseteq Rows'
  BY NextNumbered
<1>2. CASE World \/ UNCHANGED vars
  BY <1>2 DEF World, Quote, EndDatePasses, CloseMarket, Evaluate, db, slack, people,
              locals, vars, Rows, Shown
<1>3. CASE Rank \/ ClearFeed \/ Dedupe \/ OutOfRows \/ EndTick
  BY <1>3 DEF Rank, ClearFeed, Dedupe, OutOfRows, EndTick, Forget, db, slack, people,
              locals, Rows, Shown, TypeOK
<1>4. CASE ReadRefs
  <2>1. Shown' \subseteq Rows
    <3>1. ASSUME NEW p \in picks, RefsOf(p.source) # {}
          PROVE  Max(RefsOf(p.source)) \in Rows
      <4>1. Max(RefsOf(p.source)) \in RefsOf(p.source)
        BY <3>1, RefOfSource
      <4> QED
        BY <4>1, RowNumbers DEF RefsOf, Unresolved
    <3> QED
      BY <1>4, <3>1 DEF ReadRefs, Shown, EntryOf
  <2> QED
    BY <1>4, <2>1 DEF ReadRefs, db, slack, people, Rows
<1>5. CASE Insert
  <2>1. PICK p \in todo :
          /\ recs' = [recs EXCEPT ![lastId + 1] = RecOf(p)]
          /\ entries' = entries \union {EntryOf(lastId + 1, "pending", p)}
    BY <1>5 DEF Insert
  <2>2. /\ recs'[lastId + 1] = RecOf(p)
        /\ \A j \in Ids : j # lastId + 1 => recs'[j] = recs[j]
    BY <1>5, <2>1, InsertEffect DEF Insert
  <2>3. RecOf(p).slack = 0 /\ posted \in Nat
    BY BoundsTyped DEF RecOf, TypeOK
  <2>4. \A i \in Ids : recs'[i].slack <= posted
    BY <2>2, <2>3
  <2>5. lastId + 1 \in Rows'
    BY <1>5, BoundsTyped DEF Insert, Rows, TypeOK
  <2>6. Shown' \subseteq Rows'
    BY <1>1, <2>1, <2>5 DEF Shown, EntryOf
  <2> QED
    BY <1>1, <1>5, <2>4, <2>6 DEF Insert, slack, people
<1>6. CASE SetEntry
  <2>1. \A i \in Ids : recs'[i].slack = recs[i].slack
    BY <1>6 DEF SetEntry, TypeOK, Rec
  <2> QED
    BY <1>6, <2>1 DEF SetEntry, slack, people, locals, Rows, Shown
<1>7. CASE Inserted \/ AllLinked
  BY <1>7 DEF Inserted, AllLinked, db, slack, people, Rows, Shown
<1>8. CASE PostFeed
  <2>1. \A k \in Msgs : msgs'[k] = msgs[k] \/ msgs'[k] = entries
    BY <1>8 DEF PostFeed, TypeOK
  <2>2. posted <= posted' /\ posted \in Nat /\ posted' \in Nat
    BY <1>8, BoundsTyped DEF PostFeed, TypeOK
  <2>3. \A i \in Ids : recs[i].slack <= posted'
    BY <2>2, RowNumbers
  <2>4. \A k \in Msgs : \A e \in msgs'[k] : e.rec \in Rows
    BY <2>1 DEF Shown
  <2> QED
    BY <1>8, <2>3, <2>4 DEF PostFeed, db, people, Rows, Shown
<1>9. CASE Link
  <2>1. PICK i \in left : recs' = [recs EXCEPT ![i].slack = current]
                          /\ left' = left \ {i}
    BY <1>9 DEF Link
  <2>2. current <= posted
    BY <1>9, BoundsTyped DEF Link, Control, TypeOK
  <2>3. \A j \in Ids : recs'[j].slack <= posted
    BY <2>1, <2>2 DEF TypeOK, Rec
  <2> QED
    BY <1>9, <2>1, <2>3 DEF Link, slack, people, Rows, Shown
<1>10. CASE PostChat
  BY <1>10 DEF PostChat, db, slack, Rows, Shown
<1>11. CASE ReadDue
  <2>1. PICK ids \in BestOf({i \in Ids : Due(i)}, ResolveLimit) :
          settling' = {[rec |-> i, entry |-> recs[i].entry] : i \in ids}
    BY <1>11 DEF ReadDue
  <2>2. ids \subseteq {i \in Ids : Due(i)}
    BY BestOfSubset
  <2>3. ids \subseteq Rows
    BY <2>2, BoundsTyped DEF Due, Numbered, Rows, Ids, TypeOK
  <2>4. \A row \in settling' : row.rec \in Rows
    BY <2>1, <2>3
  <2> QED
    BY <1>11, <2>4 DEF ReadDue, db, slack, people, Rows, Shown
<1>12. CASE Settle
  <2>1. \A j \in Ids : recs'[j].slack = recs[j].slack
    <3>1. CASE recs' = recs
      BY <3>1
    <3>2. CASE \E row \in settling, o \in {"yes", "no"} : recs' = Resolved(row, o)
      BY <3>2, ResolveEffect
    <3>3. \A row \in settling :
            outcome_from_final_mid(mid[recs[row.rec].source[1]]) \in Outcome
      BY SettlingFields, RulesTyped
    <3> QED
      BY <1>12, <3>1, <3>2, <3>3 DEF Settle, Outcome
  <2>2. lastId' = lastId /\ settling' \subseteq settling
    BY <1>12 DEF Settle
  <2> QED
    BY <1>12, <2>1, <2>2 DEF Settle, slack, people, Rows, Shown
<1>13. CASE Rest
  BY <1>13 DEF Rest, db, slack, people, locals, Rows, Shown
<1>14. ASSUME NEW i \in Rows, NEW d \in Decision, SetStatus(i, d)
       PROVE  \A j \in Ids : recs'[j].slack = recs[j].slack
  <2>1. i \in Ids /\ recs[i] \in Rec
    BY RowFields
  <2>2. \A j \in Ids : j # i => recs'[j] = recs[j]
    BY <1>14, StatusTyped
  <2>3. recs'[i] = [recs[i] EXCEPT
                     !.status = d, !.noted = TRUE,
                     !.entry = IF d = "approved" THEN mid[recs[i].source[1]]
                                                 ELSE recs[i].entry]
    BY <1>14, StatusTyped
  <2>4. recs'[i].slack = recs[i].slack
    BY <2>1, <2>3 DEF Rec
  <2> QED
    BY <2>2, <2>4
<1>15. ASSUME NEW k \in Msgs, NEW d \in Decision, PressInFeed(k, d)
       PROVE  RowsExist'
  <2>1. PICK e \in msgs[k] :
          /\ SetStatus(e.rec, d)
          /\ acks' = acks \union
               {[msg |-> k, content |-> (msgs[k] \ {e}) \union {[e EXCEPT !.shown = d]}]}
    BY <1>15 DEF PressInFeed
  <2>2. e \in Entry /\ e.rec \in Rows
    BY DEF TypeOK
  <2>3. \A j \in Ids : recs'[j].slack = recs[j].slack
    BY <1>14, <2>1, <2>2
  <2>4. [e EXCEPT !.shown = d].rec = e.rec
    BY <2>2 DEF Entry
  <2>5. \A f \in (msgs[k] \ {e}) \union {[e EXCEPT !.shown = d]} : f.rec \in Rows
    BY <2>2, <2>4
  <2>6. \A a \in acks' : \A f \in a.content : f.rec \in Rows
    BY <2>1, <2>5
  <2> QED
    BY <1>15, <2>3, <2>6 DEF PressInFeed, slack, locals, Rows, Shown
<1>16. ASSUME NEW i \in Ids, NEW d \in Decision, PressInChat(i, d)
       PROVE  RowsExist'
  <2>1. i \in Rows /\ SetStatus(i, d)
    BY <1>16 DEF PressInChat
  <2>2. \A j \in Ids : recs'[j].slack = recs[j].slack
    BY <1>14, <2>1
  <2> QED
    BY <1>16, <2>2 DEF PressInChat, slack, locals, Rows, Shown
<1>17. CASE Acknowledge
  <2>1. PICK a \in acks : msgs' = [msgs EXCEPT ![a.msg] = a.content]
                          /\ acks' = acks \ {a}
    BY <1>17 DEF Acknowledge
  <2>2. \A k \in Msgs : msgs'[k] = msgs[k] \/ msgs'[k] = a.content
    BY <2>1 DEF TypeOK
  <2>3. \A k \in Msgs : \A e \in msgs'[k] : e.rec \in Rows
    BY <2>2
  <2> QED
    BY <1>17, <2>1, <2>3 DEF Acknowledge, db, locals, Rows, Shown
<1>18. CASE \/ TickFails \/ FeedRefused \/ ChatRefused \/ ResolveFails \/ Crash
            \/ AckLost
  BY <1>18 DEF TickFails, FeedRefused, ChatRefused, ResolveFails, Crash, AckLost, Forget, db, slack,
               people, locals, Rows, Shown
<1>19. CASE AnswerLost
  <2>1. \A i \in Ids : recs'[i].slack <= posted'
    <3>1. ASSUME pc = "insert", lastId < MaxRecs, NEW p \in todo,
                 recs' = [recs EXCEPT ![lastId + 1] = RecOf(p)],
                 lastId' = lastId + 1, posted' = posted
          PROVE  \A i \in Ids : recs'[i].slack <= posted'
      <4>1. RecOf(p).slack = 0 /\ posted \in Nat
        BY BoundsTyped DEF RecOf, TypeOK
      <4> QED
        BY <3>1, <4>1, InsertEffect
    <3>2. ASSUME recs' = recs, posted' = posted \/ posted' = posted + 1
          PROVE  \A i \in Ids : recs'[i].slack <= posted'
      BY <3>2, BoundsTyped DEF TypeOK, Rec
    <3> QED
      BY <1>19, <3>1, <3>2 DEF AnswerLost, db, slack
  <2>2. \A k \in Msgs : msgs'[k] = msgs[k] \/ msgs'[k] = entries
    BY <1>19 DEF AnswerLost, slack, TypeOK
  <2>3. \A k \in Msgs : \A e \in msgs'[k] : e.rec \in Rows'
    BY <1>1, <2>2 DEF Shown
  <2> QED
    BY <1>1, <1>19, <2>1, <2>3 DEF AnswerLost, Forget, people, Shown
<1> QED
  BY <1>2, <1>3, <1>4, <1>5, <1>6, <1>7, <1>8, <1>9, <1>10, <1>11, <1>12, <1>13, <1>15,
     <1>16, <1>17, <1>18, <1>19 DEF Next, Notify, Resolve, People, Faults

(* Only an insert adds a row to the unresolved rows of a source.           *)
LEMMA RefsShrink ==
  ASSUME IndInv, ResolvesRow \/ KeepsRows
  PROVE  /\ \A s : RefsOf(s)' \subseteq RefsOf(s)
         /\ ~ResolvesRow => \A i \in Ids : Unresolved(i) => Unresolved(i)'
<1>1. CASE ResolvesRow
  <2>1. PICK row \in settling, o \in {"yes", "no"} : recs' = Resolved(row, o)
    BY <1>1 DEF ResolvesRow
  <2>2. /\ \A k \in Ids : k # row.rec => recs'[k] = recs[k]
        /\ recs'[row.rec].outcome = o
    BY <2>1, ResolveEffect
  <2> QED
    BY <1>1, <2>2 DEF RefsOf, Unresolved
<1>2. CASE KeepsRows
  BY <1>2, KeepsRefs
<1> QED
  BY <1>1, <1>2

(* A tick has one pick for a source, and one that waits for a row has no   *)
(* unresolved row.                                                         *)
PicksControl ==
  /\ \A p, q \in picks : p.source = q.source => p = q
  /\ \A p, q \in todo : p.source = q.source => p = q
  /\ \A p \in todo : RefsOf(p.source) = {}
  /\ pc \notin {"insert", "entry"} => todo = {}

(* Picks that wait for a row are checked and inserted one by one.          *)
LEMMA NextPicksControl ==
  ASSUME IndInv, [Next]_vars
  PROVE  PicksControl'
<1> USE DEF PicksControl
<1>0. PicksControl
  BY DEF IndInv, Control
<1>1. CASE InsertsRow
  <2>1. PICK p \in todo :
          /\ pc = "insert" /\ lastId < MaxRecs
          /\ recs' = [recs EXCEPT ![lastId + 1] = RecOf(p)]
          /\ lastId' = lastId + 1
          /\ todo' \subseteq todo \ {p}
    BY <1>1 DEF InsertsRow
  <2>2. /\ recs'[lastId + 1] = RecOf(p) /\ RecOf(p).source = p.source
        /\ \A k \in Ids : k # lastId + 1 => recs'[k] = recs[k]
    BY <2>1, InsertEffect DEF RecOf
  <2>3. \A s : s # p.source => RefsOf(s)' \subseteq RefsOf(s)
    BY <2>2 DEF RefsOf, Unresolved
  <2>4. \A q \in todo' : q.source # p.source /\ q \in todo
    BY <1>0, <2>1
  <2>5. picks' \subseteq picks /\ (pc' \notin {"insert", "entry"} => todo' = {})
    <3>1. lastId' # lastId
      BY <2>1 DEF IndInv, TypeOK
    <3>2. Insert \/ AnswerLost
      BY <3>1 DEF Next, World, Quote, EndDatePasses, CloseMarket, Evaluate, Notify, Rank,
                  ClearFeed, Dedupe, ReadRefs, SetEntry, OutOfRows, Inserted, PostFeed,
                  Link, AllLinked, PostChat, EndTick, Resolve, ReadDue, Settle, Rest,
                  People, PressInFeed, PressInChat, Acknowledge, Faults, TickFails,
                  FeedRefused, ChatRefused, ResolveFails, Crash, AckLost, db, vars
    <3> QED
      BY <3>2 DEF Insert, AnswerLost, Forget
  <2> QED
    BY <1>0, <2>3, <2>4, <2>5
<1>2. ASSUME ResolvesRow \/ KeepsRows, picks' \subseteq picks, todo' \subseteq todo,
             pc' \notin {"insert", "entry"} => todo' = {}
      PROVE  PicksControl'
  BY <1>0, <1>2, RefsShrink
<1>3. CASE Rank
  <2>1. \A p, q \in picks' : p.source = q.source => p = q
    BY <1>3, BestOfSubset, CandidatesTyped DEF Rank, IndInv
  <2>2. todo' = {}
    BY <1>0, <1>3 DEF Rank
  <2> QED
    BY <2>1, <2>2
<1>4. CASE ReadRefs
  <2>1. \A s : RefsOf(s)' = RefsOf(s)
    BY <1>4 DEF ReadRefs, db, RefsOf, Unresolved
  <2> QED
    BY <1>0, <1>4, <2>1 DEF ReadRefs
<1>5. CASE ~InsertsRow /\ (World \/ Resolve \/ People \/ UNCHANGED vars)
  <2>1. UNCHANGED <<picks, todo>> /\ (pc' = pc \/ todo = {})
    BY <1>0, <1>5 DEF World, Quote, EndDatePasses, CloseMarket, Evaluate, Resolve, ReadDue,
                Settle, Rest, People, PressInFeed, PressInChat, Acknowledge, locals, vars
  <2> QED
    BY <1>0, <1>2, <1>5, <2>1, RowsChange
<1>6. CASE ~InsertsRow /\ Notify /\ ~Rank /\ ~ReadRefs
  <2>1. Insert => InsertsRow
    BY DEF Insert, InsertsRow
  <2>2. /\ picks' \subseteq picks /\ todo' \subseteq todo
        /\ pc' \notin {"insert", "entry"} => todo' = {}
    <3>1. CASE Dedupe
      <4>1. picks' \subseteq picks
        BY <3>1, BestOfSubset DEF Dedupe, Alerts
      <4> QED
        BY <1>0, <3>1, <4>1 DEF Dedupe
    <3>2. CASE ~Dedupe
      BY <1>0, <1>6, <2>1, <3>2
      DEF Notify, ClearFeed, SetEntry, OutOfRows, Inserted, PostFeed, Link, AllLinked,
          PostChat, EndTick, locals, Forget
    <3> QED
      BY <3>1, <3>2
  <2> QED
    BY <1>2, <1>6, <2>2, RowsChange
<1>7. CASE ~InsertsRow /\ Faults
  <2>1. /\ picks' \subseteq picks /\ todo' \subseteq todo
        /\ pc' \notin {"insert", "entry"} => todo' = {}
    BY <1>0, <1>7 DEF Faults, TickFails, FeedRefused, ChatRefused, AnswerLost, ResolveFails, Crash,
                      AckLost, Forget, locals
  <2> QED
    BY <1>2, <1>7, <2>1, RowsChange
<1> QED
  BY <1>1, <1>3, <1>4, <1>5, <1>6, <1>7 DEF Next

(* The row and the message that a step works on exist.                     *)
CurrentControl ==
  /\ pc = "entry" => current \in Rows
  /\ pc = "link" => current \in 1..posted

(* A step that sets the row or the message finds it in its table.          *)
LEMMA NextCurrentControl ==
  ASSUME IndInv, [Next]_vars
  PROVE  CurrentControl'
<1> USE DEF CurrentControl
<1>0. CurrentControl /\ Rows \subseteq Rows'
  BY NextNumbered DEF IndInv, Control
<1>1. CASE World \/ People \/ UNCHANGED vars \/ AckLost \/ ChatRefused \/ Link
  <2>1. pc' = pc /\ current' = current /\ posted' = posted
    BY <1>1 DEF World, Quote, EndDatePasses, CloseMarket, Evaluate, People, PressInFeed,
                PressInChat, Acknowledge, AckLost, ChatRefused, people, Link, slack, locals, vars
  <2> QED
    BY <1>0, <2>1
<1>2. CASE Insert
  <2>1. lastId + 1 \in Rows'
    BY <1>2, BoundsTyped DEF Insert, Rows, IndInv, TypeOK
  <2> QED
    BY <1>2, <2>1 DEF Insert
<1>3. CASE PostFeed
  <2>1. FeedTo \in 1..posted'
    BY <1>3, FeedToPosted DEF PostFeed, IndInv, TypeOK
  <2> QED
    BY <1>3, <2>1 DEF PostFeed
<1>4. CASE \/ Rank \/ ClearFeed \/ Dedupe \/ ReadRefs \/ SetEntry \/ OutOfRows \/ Inserted
           \/ AllLinked \/ PostChat \/ EndTick \/ Resolve
  BY <1>4 DEF Rank, ClearFeed, Dedupe, ReadRefs, SetEntry, OutOfRows, Inserted, AllLinked,
              PostChat, EndTick, Resolve, ReadDue, Settle, Rest
<1>5. CASE TickFails \/ FeedRefused \/ AnswerLost \/ ResolveFails \/ Crash
  BY <1>5 DEF TickFails, FeedRefused, AnswerLost, ResolveFails, Crash
<1> QED
  BY <1>1, <1>2, <1>3, <1>4, <1>5 DEF Next, Notify, Faults

(* Rows under resolution are unresolved, and each is taken once.           *)
SettlingControl ==
  /\ pc # "settle" => settling = {}
  /\ \A row \in settling : Unresolved(row.rec)
  /\ \A r1, r2 \in settling : r1.rec = r2.rec => r1 = r2

(* No step but a resolution resolves a row under resolution.               *)
LEMMA NextSettlingControl ==
  ASSUME IndInv, [Next]_vars
  PROVE  SettlingControl'
<1> USE DEF SettlingControl
<1>0. SettlingControl /\ \A row \in settling : row.rec \in Ids
  BY SettlingFields DEF IndInv, Control
<1>1. CASE settling' = {}
  BY <1>1
<1>2. CASE ReadDue
  <2>1. PICK ids \in BestOf({i \in Ids : Due(i)}, ResolveLimit) :
          settling' = {[rec |-> i, entry |-> recs[i].entry] : i \in ids}
    BY <1>2 DEF ReadDue
  <2>2. ids \subseteq {i \in Ids : Due(i)}
    BY BestOfSubset
  <2>3. \A i \in ids : Unresolved(i)'
    BY <1>2, <2>2 DEF ReadDue, db, Due, Unresolved
  <2>4. pc' = "settle"
    BY <1>2 DEF ReadDue
  <2> QED
    BY <2>1, <2>3, <2>4 DEF Unresolved
<1>3. CASE Settle
  <2>1. PICK row \in settling :
          LET outcome == outcome_from_final_mid(mid[recs[row.rec].source[1]])
          IN  /\ recs' = IF outcome = "unknown" THEN recs ELSE Resolved(row, outcome)
              /\ settling' = settling \ {row}
    BY <1>3 DEF Settle
  <2>2. \A k \in Ids : k # row.rec => recs'[k] = recs[k]
    <3>1. outcome_from_final_mid(mid[recs[row.rec].source[1]]) \in Outcome
      BY SettlingFields, RulesTyped
    <3> QED
      BY <2>1, <3>1, ResolveEffect DEF Outcome
  <2>3. \A r \in settling' : r \in settling /\ r.rec # row.rec
    BY <1>0, <2>1
  <2>4. pc' = pc /\ pc = "settle"
    BY <1>3 DEF Settle
  <2> QED
    BY <1>0, <2>2, <2>3, <2>4 DEF Unresolved
<1>4. CASE KeepsRows /\ settling' = settling /\ pc' = pc
  BY <1>0, <1>4, KeepsRefs DEF Unresolved, KeepsRows
<1>5. CASE World \/ People \/ UNCHANGED vars \/ AckLost \/ ChatRefused
  <2>1. pc' = pc /\ settling' = settling /\ todo' = todo
    BY <1>5 DEF World, Quote, EndDatePasses, CloseMarket, Evaluate, People, PressInFeed,
                PressInChat, Acknowledge, AckLost, ChatRefused, locals, vars
  <2>2. ~InsertsRow /\ ~ResolvesRow
    BY <2>1 DEF InsertsRow, ResolvesRow
  <2> QED
    BY <1>4, <2>1, <2>2, RowsChange
<1>6. CASE Notify
  <2>1. settling = {} /\ settling' = settling
    BY <1>0, <1>6 DEF Notify, Rank, ClearFeed, Dedupe, ReadRefs, Insert, SetEntry, OutOfRows,
                Inserted, PostFeed, Link, AllLinked, PostChat, EndTick, Forget, locals
  <2> QED
    BY <1>1, <2>1
<1>7. CASE Rest
  BY <1>0, <1>1, <1>7 DEF Rest, locals
<1>8. CASE TickFails \/ FeedRefused \/ AnswerLost \/ ResolveFails \/ Crash
  BY <1>0, <1>1, <1>8 DEF TickFails, FeedRefused, AnswerLost, ResolveFails, Crash, Forget
<1> QED
  BY <1>2, <1>3, <1>5, <1>6, <1>7, <1>8 DEF Next, Resolve, Faults

(* The control invariant is kept.                                          *)
LEMMA NextControl ==
  ASSUME IndInv, [Next]_vars
  PROVE  Control'
BY NextPicksControl, NextCurrentControl, NextSettlingControl
DEF Control, PicksControl, CurrentControl, SettlingControl

(* The steps that write an entry price: a row that nobody has touched gets *)
(* the price of its signal.                                                *)
LEMMA NextUntouched ==
  ASSUME IndInv, [Next]_vars
  PROVE  UntouchedEntry'
<1> DEFINE Clean(rec) == ~rec.noted =>
             /\ rec.entry \in {-1, 0, rec.price}
             /\ rec.outcome # "unknown" =>
                  /\ rec.entry = rec.price
                  /\ rec.pnl = compute_pnl_cents(rec.price, trade_direction(rec.edge),
                                                 rec.outcome)
<1>0. /\ \A i \in Ids : Clean(recs[i])
      /\ \A row \in settling : ~recs[row.rec].noted =>
           row.entry \in {-1, 0, recs[row.rec].price}
      /\ \A row \in settling : row.rec \in Ids
  BY SettlingFields DEF IndInv, UntouchedEntry
<1>1. ASSUME \A i \in Ids : Clean(recs'[i]),
             \A i \in Ids : ~recs'[i].noted =>
               ~recs[i].noted /\ recs'[i].price = recs[i].price,
             settling' \subseteq settling
      PROVE  UntouchedEntry'
  BY <1>0, <1>1 DEF UntouchedEntry
<1>2. CASE recs' = recs /\ settling' \subseteq settling
  BY <1>0, <1>1, <1>2
<1>3. CASE InsertsRow /\ (Insert \/ AnswerLost)
  <2>1. PICK p \in todo :
          /\ pc = "insert" /\ lastId < MaxRecs
          /\ recs' = [recs EXCEPT ![lastId + 1] = RecOf(p)]
          /\ lastId' = lastId + 1
    BY <1>3 DEF InsertsRow
  <2>2. /\ recs'[lastId + 1] = RecOf(p)
        /\ \A k \in Ids : k # lastId + 1 => recs'[k] = recs[k]
    BY <2>1, InsertEffect
  <2>3. Clean(RecOf(p))
    BY DEF RecOf
  <2>4. \A i \in Ids : Clean(recs'[i])
    BY <1>0, <2>2, <2>3
  <2>5. settling' = {}
    BY <1>3, <2>1 DEF Insert, AnswerLost, Forget, IndInv, Control
  <2> QED
    BY <2>4, <2>5 DEF UntouchedEntry
<1>4. CASE SetEntry
  <2>1. current \in Ids /\ recs[current] \in Rec /\ recs \in [Ids -> Rec]
    BY <1>4, RowFields DEF SetEntry, IndInv, Control, TypeOK
  <2>2. recs' = [recs EXCEPT ![current] =
                   [recs[current] EXCEPT !.entry = recs[current].price]]
    BY <1>4, <2>1 DEF SetEntry
  <2>3. /\ \A k \in Ids : k # current => recs'[k] = recs[k]
        /\ recs'[current].noted = recs[current].noted
        /\ recs'[current].price = recs[current].price
        /\ recs'[current].entry = recs[current].price
        /\ recs'[current].outcome = recs[current].outcome
        /\ recs'[current].pnl = recs[current].pnl
        /\ recs'[current].edge = recs[current].edge
    BY <2>1, <2>2 DEF Rec
  <2>4. \A i \in Ids : Clean(recs'[i])
    BY <1>0, <2>1, <2>3
  <2>5. settling' = settling
    BY <1>4 DEF SetEntry, locals
  <2> QED
    BY <1>1, <2>3, <2>4, <2>5
<1>5. CASE Link
  <2>1. PICK i \in left : recs' = [recs EXCEPT ![i].slack = current]
    BY <1>5 DEF Link
  <2>2. i \in Ids /\ recs[i] \in Rec /\ recs \in [Ids -> Rec]
    BY DEF IndInv, TypeOK
  <2>3. recs' = [recs EXCEPT ![i] = [recs[i] EXCEPT !.slack = current]]
    BY <2>1, <2>2
  <2>4. /\ \A k \in Ids : k # i => recs'[k] = recs[k]
        /\ recs'[i].noted = recs[i].noted /\ recs'[i].price = recs[i].price
        /\ recs'[i].entry = recs[i].entry /\ recs'[i].outcome = recs[i].outcome
        /\ recs'[i].pnl = recs[i].pnl /\ recs'[i].edge = recs[i].edge
    BY <2>2, <2>3 DEF Rec
  <2>5. \A k \in Ids : Clean(recs'[k])
    BY <1>0, <2>2, <2>4
  <2>6. settling' = settling
    BY <1>5 DEF Link
  <2> QED
    BY <1>1, <2>4, <2>5, <2>6
<1>6. CASE ReadDue
  <2>1. PICK ids \in BestOf({i \in Ids : Due(i)}, ResolveLimit) :
          settling' = {[rec |-> i, entry |-> recs[i].entry] : i \in ids}
    BY <1>6 DEF ReadDue
  <2>2. ids \subseteq Ids
    BY BestOfSubset
  <2>3. recs' = recs
    BY <1>6 DEF ReadDue, db
  <2> QED
    BY <1>0, <2>1, <2>2, <2>3 DEF UntouchedEntry
<1>7. CASE Settle
  <2>1. PICK row \in settling :
          LET outcome == outcome_from_final_mid(mid[recs[row.rec].source[1]])
          IN  /\ recs' = IF outcome = "unknown" THEN recs ELSE Resolved(row, outcome)
              /\ settling' = settling \ {row}
    BY <1>7 DEF Settle
  <2>2. outcome_from_final_mid(mid[recs[row.rec].source[1]]) \in Outcome
    BY SettlingFields, RulesTyped
  <2>3. ASSUME NEW o \in {"yes", "no"}, recs' = Resolved(row, o)
        PROVE  UntouchedEntry'
    <3>1. /\ row.rec \in Ids /\ recs[row.rec] \in Rec
          /\ \A j \in Ids : j # row.rec => recs'[j] = recs[j]
          /\ LET old == recs[row.rec]
                 new == recs'[row.rec]
             IN  /\ new.edge = old.edge /\ new.price = old.price
                 /\ new.noted = old.noted
                 /\ new.outcome = o
                 /\ new.entry = EntryPrice(row)
                 /\ new.pnl = compute_pnl_cents(EntryPrice(row),
                                trade_direction(old.edge), o)
      BY <2>3, ResolveEffect
    <3>2. ~recs[row.rec].noted => EntryPrice(row) = recs[row.rec].price
      BY <1>0 DEF EntryPrice
    <3>3. Clean(recs'[row.rec])
      BY <3>1, <3>2
    <3>4. \A i \in Ids : Clean(recs'[i])
      BY <1>0, <3>1, <3>3
    <3>5. \A i \in Ids : ~recs'[i].noted => ~recs[i].noted /\ recs'[i].price = recs[i].price
      BY <3>1
    <3> QED
      BY <1>1, <2>1, <3>4, <3>5
  <2> QED
    BY <1>2, <2>1, <2>2, <2>3 DEF Outcome
<1>8. ASSUME NEW i \in Rows, NEW d \in Decision, SetStatus(i, d), settling' = settling
      PROVE  UntouchedEntry'
  <2>1. i \in Ids /\ recs[i] \in Rec
    BY RowFields DEF IndInv
  <2>2. /\ \A j \in Ids : j # i => recs'[j] = recs[j]
        /\ recs'[i] = [recs[i] EXCEPT
                         !.status = d, !.noted = TRUE,
                         !.entry = IF d = "approved" THEN mid[recs[i].source[1]]
                                                     ELSE recs[i].entry]
    BY <1>8, StatusTyped DEF IndInv
  <2>3. recs'[i].noted
    BY <2>1, <2>2 DEF Rec
  <2> QED
    BY <1>0, <1>1, <1>8, <2>2, <2>3
<1>9. CASE People
  <2>1. ASSUME NEW k \in Msgs, NEW d \in Decision, PressInFeed(k, d) PROVE UntouchedEntry'
    BY <1>8, <2>1 DEF PressInFeed, IndInv, RowsExist, locals
  <2>2. ASSUME NEW i \in Ids, NEW d \in Decision, PressInChat(i, d) PROVE UntouchedEntry'
    BY <1>8, <2>2 DEF PressInChat, IndInv, RowsExist, locals
  <2>3. CASE Acknowledge
    BY <1>2, <2>3 DEF Acknowledge, db, locals
  <2> QED
    BY <1>9, <2>1, <2>2, <2>3 DEF People
<1>10. CASE World \/ UNCHANGED vars \/ Rest
  BY <1>2, <1>10 DEF World, Quote, EndDatePasses, CloseMarket, Evaluate, Rest, db, locals,
                     vars
<1>11. CASE \/ Rank \/ ClearFeed \/ Dedupe \/ ReadRefs \/ OutOfRows \/ Inserted \/ PostFeed
            \/ AllLinked \/ PostChat \/ EndTick
  BY <1>2, <1>11 DEF Rank, ClearFeed, Dedupe, ReadRefs, OutOfRows, Inserted, PostFeed,
                     AllLinked, PostChat, EndTick, Forget, db, locals
<1>12. CASE \/ TickFails \/ FeedRefused \/ ChatRefused \/ ResolveFails \/ Crash
            \/ AckLost
  BY <1>2, <1>12 DEF TickFails, FeedRefused, ChatRefused, ResolveFails, Crash, AckLost, Forget,
                     db, locals
<1>13. CASE Insert \/ AnswerLost
  <2>1. InsertsRow \/ recs' = recs
    BY <1>13 DEF Insert, AnswerLost, Forget, InsertsRow, db
  <2>2. settling' \subseteq settling
    BY <1>13 DEF Insert, AnswerLost, Forget
  <2> QED
    BY <1>2, <1>3, <1>13, <2>1, <2>2
<1> QED
  BY <1>4, <1>5, <1>6, <1>7, <1>9, <1>10, <1>11, <1>12, <1>13
  DEF Next, Notify, Resolve, Faults

-----------------------------------------------------------------------------
(* The theorems.                                                           *)

(* The initial states satisfy the inductive invariant.                     *)
LEMMA InitInd == Init => IndInv
<1> SUFFICES ASSUME Init PROVE IndInv
  OBVIOUS
<1>1. \A i \in Ids : recs[i] = NoRec
  BY DEF Init
<1>2. Numbered
  BY <1>1, BoundsTyped DEF Init, Numbered, NoRec, Ids
<1>3. RowsExist
  BY <1>1 DEF Init, RowsExist, NoRec, Shown
<1>4. Control
  BY DEF Init, Control
<1>5. OneUnresolvedPerSource
  BY <1>1 DEF OneUnresolvedPerSource, Unresolved, NoRec
<1>6. UntouchedEntry
  BY <1>1 DEF Init, UntouchedEntry, NoRec
<1> QED
  BY <1>2, <1>3, <1>4, <1>5, <1>6, InitTyped DEF IndInv

(* The inductive invariant holds: every variable has its type, rows are    *)
(* numbered without gaps, what is shown or resolved are rows of the table, *)
(* and the two properties below hold.                                      *)
THEOREM InductiveInvariant == Spec => []IndInv
<1>1. IndInv /\ [Next]_vars => IndInv'
  BY NextTyped, NextNumbered, NextRowsExist, NextControl, NextOneUnresolved, NextUntouched
  DEF IndInv
<1> QED
  BY <1>1, InitInd, PTL DEF Spec

(* A source never has two unresolved rows, whatever fails and whoever      *)
(* presses a button: each pick is checked once against the table and       *)
(* inserted later, and nobody else inserts.                                *)
THEOREM OneUnresolved == Spec => []OneUnresolvedPerSource
<1>1. IndInv => OneUnresolvedPerSource
  BY DEF IndInv
<1> QED
  BY <1>1, InductiveInvariant, PTL

(* A row that nobody has touched is resolved at the price of its signal,   *)
(* even when the notifier died before it wrote the entry price.            *)
THEOREM UntouchedEntries == Spec => []UntouchedEntry
<1>1. IndInv => UntouchedEntry
  BY DEF IndInv
<1> QED
  BY <1>1, InductiveInvariant, PTL

-----------------------------------------------------------------------------
(* The feed: while nothing has failed there is one message, and its entries *)
(* are of rows that refer back to it.                                      *)

(* A tick that reaches the feed has something to show.                     *)
SomethingToShow ==
  /\ pc = "refs" => picks # {}
  /\ pc \in {"insert", "entry"} => todo # {} \/ entries # {}
  /\ pc \in {"post", "link"} => entries # {}

(* The message that was posted can be found again through a row, or a row  *)
(* is about to be linked to it.                                            *)
OneMessage ==
  /\ posted <= 1
  /\ Linked \subseteq Rows
  /\ posted = 1 => Linked # {} \/ (pc = "link" /\ left # {})

(* A row shown in a message refers to it, or is about to.                  *)
LinkedTo(k, i) == recs[i].slack = k \/ (pc = "link" /\ k = current /\ i \in left)

EntriesLinked ==
  /\ \A k \in Msgs : \A e \in msgs[k] : LinkedTo(k, e.rec)
  /\ \A a \in acks : \A e \in a.content : LinkedTo(a.msg, e.rec)

(* The inductive invariant behind the two properties of the feed.          *)
FeedInv == faults = 0 => SomethingToShow /\ OneMessage /\ EntriesLinked

(* Rows keep their reference to the feed.                                  *)
KeepsSlack == \A i \in Ids : recs'[i].slack = recs[i].slack

(* The notifier is not about to link rows, or is not disturbed in it.      *)
KeepsLinking ==
  \/ pc # "link" /\ pc' # "link"
  \/ pc = "link" /\ UNCHANGED <<pc, current, left>>

(* Resolving rows, setting entry prices and pressing buttons leave the     *)
(* references to the feed alone.                                           *)
LEMMA SlackKept ==
  ASSUME IndInv
  PROVE  /\ recs' = recs => KeepsSlack
         /\ SetEntry => KeepsSlack
         /\ Settle => KeepsSlack
         /\ \A i \in Rows, d \in Decision : SetStatus(i, d) => KeepsSlack
<1>1. recs' = recs => KeepsSlack
  BY DEF KeepsSlack
<1>2. SetEntry => KeepsSlack
  BY DEF KeepsSlack, SetEntry, IndInv, TypeOK, Rec
<1>3. ASSUME Settle PROVE KeepsSlack
  <2>1. ASSUME NEW row \in settling, NEW o \in {"yes", "no"}, recs' = Resolved(row, o)
        PROVE  KeepsSlack
    BY <2>1, ResolveEffect DEF KeepsSlack
  <2>2. \A row \in settling :
          outcome_from_final_mid(mid[recs[row.rec].source[1]]) \in Outcome
    BY SettlingFields, RulesTyped
  <2> QED
    BY <1>1, <1>3, <2>1, <2>2 DEF Settle, Outcome
<1>4. ASSUME NEW i \in Rows, NEW d \in Decision, SetStatus(i, d) PROVE KeepsSlack
  <2>1. i \in Ids /\ recs[i] \in Rec
    BY RowFields DEF IndInv
  <2>2. /\ \A j \in Ids : j # i => recs'[j] = recs[j]
        /\ recs'[i] = [recs[i] EXCEPT
                         !.status = d, !.noted = TRUE,
                         !.entry = IF d = "approved" THEN mid[recs[i].source[1]]
                                                     ELSE recs[i].entry]
    BY <1>4, StatusTyped DEF IndInv
  <2>3. recs'[i].slack = recs[i].slack
    BY <2>1, <2>2 DEF Rec
  <2> QED
    BY <2>2, <2>3 DEF KeepsSlack
<1> QED
  BY <1>1, <1>2, <1>3, <1>4

(* A step that keeps the references, posts nothing and shows only entries  *)
(* that are linked keeps the feed as it should be.                         *)
LEMMA FeedKept ==
  ASSUME IndInv, [Next]_vars, OneMessage, EntriesLinked,
         KeepsSlack, KeepsLinking, posted' = posted,
         \A k \in Msgs : \A e \in msgs'[k] : LinkedTo(k, e.rec),
         \A a \in acks' : \A e \in a.content : LinkedTo(a.msg, e.rec)
  PROVE  OneMessage' /\ EntriesLinked'
<1>1. Linked' = Linked
  BY DEF Linked, KeepsSlack
<1>2. Rows \subseteq Rows'
  BY NextNumbered DEF IndInv
<1>3. OneMessage'
  BY <1>1, <1>2 DEF OneMessage, KeepsLinking
<1>4. ASSUME NEW k, NEW i \in Ids, LinkedTo(k, i) PROVE LinkedTo(k, i)'
  BY <1>4 DEF LinkedTo, KeepsSlack, KeepsLinking
<1>5. /\ \A k \in Msgs : \A e \in msgs'[k] : e.rec \in Ids
      /\ \A a \in acks' : \A e \in a.content : e.rec \in Ids
  BY NextTyped DEF TypeOK, Entry
<1>6. EntriesLinked'
  BY <1>4, <1>5 DEF EntriesLinked
<1> QED
  BY <1>3, <1>6

(* The message a tick is shown in: the one that exists, or the first.      *)
LEMMA FeedFound ==
  ASSUME IndInv, OneMessage, pc # "link", FeedTo <= MaxMsgs
  PROVE  /\ FeedTo \in Msgs
         /\ (IF FeedRef = 0 THEN posted + 1 ELSE posted) = 1
<1>1. CASE Linked = {}
  <2>1. posted = 0 /\ FeedRef = 0
    BY <1>1, BoundsTyped DEF OneMessage, FeedRef, IndInv, TypeOK
  <2> QED
    BY <2>1, FeedToPosted DEF IndInv
<1>2. CASE Linked # {}
  <2>1. Max(Linked) \in Linked
    BY <1>2, MaxOfIds DEF Linked
  <2>2. FeedRef # 0
    BY <1>2, <2>1 DEF FeedRef, Linked
  <2>3. FeedTo \in 1..posted /\ FeedTo \in Msgs /\ posted \in Nat
    BY <2>2, FeedToPosted, BoundsTyped DEF IndInv, TypeOK
  <2>4. posted = 1
    BY <2>3 DEF OneMessage
  <2> QED
    BY <2>2, <2>3, <2>4
<1> QED
  BY <1>1, <1>2

(* Posting the feed.                                                       *)
LEMMA PostFeedKept ==
  ASSUME IndInv, [Next]_vars, SomethingToShow, OneMessage, EntriesLinked, PostFeed
  PROVE  OneMessage' /\ EntriesLinked'
<1>1. /\ pc = "post" /\ pc' = "link" /\ FeedTo <= MaxMsgs
      /\ msgs' = [msgs EXCEPT ![FeedTo] = entries]
      /\ posted' = IF FeedRef = 0 THEN posted + 1 ELSE posted
      /\ current' = FeedTo /\ left' = Shown
      /\ recs' = recs /\ lastId' = lastId /\ acks' = acks
  BY DEF PostFeed, db, people
<1>2. FeedTo \in Msgs /\ posted' = 1
  BY <1>1, FeedFound
<1>3. PICK e \in entries : TRUE
  BY <1>1 DEF SomethingToShow
<1>4. left' # {}
  BY <1>1, <1>3 DEF Shown
<1>5. OneMessage'
  BY <1>1, <1>2, <1>4 DEF OneMessage, Linked, Rows
<1>6. ASSUME NEW k, NEW i, LinkedTo(k, i) PROVE LinkedTo(k, i)'
  BY <1>1, <1>6 DEF LinkedTo
<1>7. ASSUME NEW k \in Msgs, NEW f \in msgs'[k] PROVE LinkedTo(k, f.rec)'
  <2>1. CASE k = FeedTo
    <3>1. f \in entries
      BY <1>1, <1>2, <2>1 DEF IndInv, TypeOK
    <3> QED
      BY <1>1, <2>1, <3>1 DEF LinkedTo, Shown
  <2>2. CASE k # FeedTo
    <3>1. f \in msgs[k]
      BY <1>1, <1>2, <1>7, <2>2 DEF IndInv, TypeOK
    <3> QED
      BY <1>6, <3>1 DEF EntriesLinked
  <2> QED
    BY <2>1, <2>2
<1>8. EntriesLinked'
  BY <1>1, <1>6, <1>7 DEF EntriesLinked
<1> QED
  BY <1>5, <1>8

(* Linking a row to the message it is shown in.                            *)
LEMMA LinkKept ==
  ASSUME IndInv, OneMessage, EntriesLinked, Link
  PROVE  OneMessage' /\ EntriesLinked'
<1>1. PICK i \in left : /\ recs' = [recs EXCEPT ![i].slack = current]
                        /\ left' = left \ {i}
  BY DEF Link
<1>2. /\ pc = "link" /\ pc' = pc /\ current' = current
      /\ posted' = posted /\ msgs' = msgs /\ acks' = acks /\ lastId' = lastId
  BY DEF Link, slack, people
<1>3. i \in Ids /\ i \in Rows /\ recs \in [Ids -> Rec]
  BY DEF IndInv, TypeOK, RowsExist
<1>4. current \in 1..posted /\ posted \in Nat
  BY <1>2, BoundsTyped DEF IndInv, Control, TypeOK
<1>5. current = 1 /\ posted = 1
  BY <1>4 DEF OneMessage
<1>6. /\ recs'[i].slack = current
      /\ \A j \in Ids : j # i => recs'[j] = recs[j]
  BY <1>1, <1>3 DEF Rec
<1>7. i \in Linked'
  BY <1>3, <1>5, <1>6 DEF Linked
<1>8. Linked' \subseteq Rows'
  BY <1>2, <1>3, <1>6 DEF OneMessage, Linked, Rows
<1>9. OneMessage'
  BY <1>2, <1>5, <1>7, <1>8 DEF OneMessage
<1>10. ASSUME NEW k \in Msgs, NEW j \in Ids, LinkedTo(k, j) PROVE LinkedTo(k, j)'
  <2>1. CASE j = i
    <3>1. recs[i].slack <= 1 /\ recs[i].slack \in Nat
      BY <1>3, <1>5, RowNumbers DEF IndInv, RowsExist
    <3>2. k \in Nat /\ k >= 1
      BY BoundsTyped DEF Msgs
    <3>3. k = current
      BY <1>5, <1>10, <2>1, <3>1, <3>2 DEF LinkedTo
    <3> QED
      BY <1>6, <2>1, <3>3 DEF LinkedTo
  <2>2. CASE j # i
    BY <1>1, <1>2, <1>6, <1>10, <2>2 DEF LinkedTo
  <2> QED
    BY <2>1, <2>2
<1>11. /\ \A k \in Msgs : \A e \in msgs[k] : e.rec \in Ids
       /\ \A a \in acks : a.msg \in Msgs /\ \A e \in a.content : e.rec \in Ids
  BY DEF IndInv, TypeOK, Entry
<1>12. EntriesLinked'
  BY <1>2, <1>10, <1>11 DEF EntriesLinked
<1> QED
  BY <1>9, <1>12

(* A new row is in no message yet.                                         *)
LEMMA InsertKept ==
  ASSUME IndInv, OneMessage, EntriesLinked, Insert
  PROVE  OneMessage' /\ EntriesLinked'
<1>1. /\ pc = "insert" /\ pc' # "link" /\ lastId < MaxRecs /\ lastId' = lastId + 1
      /\ posted' = posted /\ msgs' = msgs /\ acks' = acks
  BY DEF Insert, slack, people
<1>2. PICK p \in todo : recs' = [recs EXCEPT ![lastId + 1] = RecOf(p)]
  BY DEF Insert
<1>3. /\ lastId + 1 \in Ids
      /\ recs'[lastId + 1].slack = 0
      /\ \A j \in Ids : j # lastId + 1 => recs'[j] = recs[j]
  <2>1. /\ lastId + 1 \in Ids /\ recs'[lastId + 1] = RecOf(p)
        /\ \A j \in Ids : j # lastId + 1 => recs'[j] = recs[j]
    BY <1>1, <1>2, InsertEffect
  <2>2. RecOf(p).slack = 0
    BY DEF RecOf
  <2> QED
    BY <2>1, <2>2
<1>4. lastId + 1 \notin Rows /\ Rows \subseteq Rows' /\ Rows \subseteq Ids
  <2>1. lastId \in Nat /\ MaxRecs \in Nat
    BY BoundsTyped DEF IndInv, TypeOK
  <2> QED
    BY <1>1, <2>1 DEF Rows, Ids
<1>5. Linked' = Linked
  BY <1>3, <1>4 DEF OneMessage, Linked
<1>6. OneMessage'
  BY <1>1, <1>4, <1>5 DEF OneMessage
<1>7. ASSUME NEW k, NEW j \in Rows, LinkedTo(k, j) PROVE LinkedTo(k, j)'
  BY <1>1, <1>3, <1>4, <1>7 DEF LinkedTo
<1>8. EntriesLinked'
  BY <1>1, <1>7 DEF EntriesLinked, IndInv, RowsExist
<1> QED
  BY <1>6, <1>8

(* Buttons and the updates of their message show the rows that were shown. *)
LEMMA PeopleFeedKept ==
  ASSUME IndInv, [Next]_vars, OneMessage, EntriesLinked, People
  PROVE  OneMessage' /\ EntriesLinked'
<1>1. UNCHANGED <<posted, pc, current, left>>
  BY DEF People, PressInFeed, PressInChat, Acknowledge, slack, locals
<1>2. KeepsLinking
  BY <1>1 DEF KeepsLinking
<1>3. ASSUME NEW k \in Msgs, NEW d \in Decision, PressInFeed(k, d)
      PROVE  OneMessage' /\ EntriesLinked'
  <2>1. PICK e \in msgs[k] :
          /\ SetStatus(e.rec, d)
          /\ acks' = acks \union
               {[msg |-> k, content |-> (msgs[k] \ {e}) \union {[e EXCEPT !.shown = d]}]}
    BY <1>3 DEF PressInFeed
  <2>2. e \in Entry /\ e.rec \in Rows
    BY DEF IndInv, TypeOK, RowsExist
  <2>3. KeepsSlack
    BY <2>1, <2>2, SlackKept
  <2> DEFINE shown == (msgs[k] \ {e}) \union {[e EXCEPT !.shown = d]}
  <2>4. \A f \in shown : LinkedTo(k, f.rec)
    <3>1. [e EXCEPT !.shown = d].rec = e.rec
      BY <2>2 DEF Entry
    <3> QED
      BY <3>1 DEF EntriesLinked
  <2>5. \A a \in acks' : \A f \in a.content : LinkedTo(a.msg, f.rec)
    <3>1. acks' = acks \union {[msg |-> k, content |-> shown]}
      BY <2>1
    <3> HIDE DEF shown
    <3> QED
      BY <2>4, <3>1 DEF EntriesLinked
  <2>6. msgs' = msgs
    BY <1>3 DEF PressInFeed, slack
  <2> QED
    BY <1>1, <1>2, <2>3, <2>5, <2>6, FeedKept DEF EntriesLinked
<1>4. ASSUME NEW i \in Ids, NEW d \in Decision, PressInChat(i, d)
      PROVE  OneMessage' /\ EntriesLinked'
  <2>1. i \in Rows /\ SetStatus(i, d) /\ msgs' = msgs /\ acks' = acks
    BY <1>4 DEF PressInChat, slack, IndInv, RowsExist
  <2>2. KeepsSlack
    BY <2>1, SlackKept
  <2> QED
    BY <1>1, <1>2, <2>1, <2>2, FeedKept DEF EntriesLinked
<1>5. CASE Acknowledge
  <2>1. PICK a \in acks : msgs' = [msgs EXCEPT ![a.msg] = a.content]
                          /\ acks' = acks \ {a}
    BY <1>5 DEF Acknowledge
  <2>2. KeepsSlack
    BY <1>5, SlackKept DEF Acknowledge, db
  <2>3. ASSUME NEW k \in Msgs, NEW e \in msgs'[k] PROVE LinkedTo(k, e.rec)
    <3>1. e \in msgs[k] \/ (k = a.msg /\ e \in a.content)
      BY <2>1, <2>3 DEF IndInv, TypeOK
    <3> QED
      BY <3>1 DEF EntriesLinked
  <2> QED
    BY <1>1, <1>2, <2>1, <2>2, <2>3, FeedKept DEF EntriesLinked
<1> QED
  BY <1>3, <1>4, <1>5 DEF People

(* A tick goes on to the feed only with something to show.                 *)
LEMMA NextSomethingToShow ==
  ASSUME IndInv, SomethingToShow, [Next]_vars, faults' = 0
  PROVE  SomethingToShow'
<1> USE DEF SomethingToShow
<1>1. CASE Faults
  BY <1>1, BoundsTyped DEF Faults, TickFails, FeedRefused, ChatRefused, AnswerLost,
                           ResolveFails, Crash, AckLost, Fault, IndInv, TypeOK
<1>2. CASE World \/ People \/ Resolve \/ UNCHANGED vars
  BY <1>2 DEF World, Quote, EndDatePasses, CloseMarket, Evaluate, People, PressInFeed,
              PressInChat, Acknowledge, Resolve, ReadDue, Settle, Rest, locals, vars
<1>3. CASE Rank \/ ClearFeed \/ Dedupe \/ Inserted \/ OutOfRows \/ PostFeed \/ SetEntry
  BY <1>3 DEF Rank, ClearFeed, Dedupe, Inserted, OutOfRows, PostFeed, SetEntry, Forget, locals
<1>4. CASE Link \/ AllLinked \/ PostChat \/ EndTick
  BY <1>4 DEF Link, AllLinked, PostChat, EndTick
<1>5. CASE ReadRefs
  <2>1. PICK p \in picks : TRUE
    BY <1>5 DEF ReadRefs
  <2>2. CASE p \in todo'
    BY <1>5, <2>2 DEF ReadRefs
  <2>3. CASE p \notin todo'
    <3>1. EntryOf(Max(RefsOf(p.source)),
                  recs[Max(RefsOf(p.source))].status, p) \in entries'
      BY <1>5, <2>3 DEF ReadRefs
    <3> QED
      BY <1>5, <3>1 DEF ReadRefs
  <2> QED
    BY <2>2, <2>3
<1>6. CASE Insert
  BY <1>6 DEF Insert
<1> QED
  BY <1>1, <1>2, <1>3, <1>4, <1>5, <1>6 DEF Next, Notify

(* The rest of the tick leaves the feed alone, or empties its message.     *)
LEMMA NextFeedKept ==
  ASSUME IndInv, SomethingToShow, OneMessage, EntriesLinked, [Next]_vars, faults' = 0
  PROVE  OneMessage' /\ EntriesLinked'
<1>1. CASE Faults
  BY <1>1, BoundsTyped DEF Faults, TickFails, FeedRefused, ChatRefused, AnswerLost,
                           ResolveFails, Crash, AckLost, Fault, IndInv, TypeOK
<1>2. ASSUME KeepsSlack, KeepsLinking, slack' = slack, acks' = acks
      PROVE  OneMessage' /\ EntriesLinked'
  BY <1>2, FeedKept DEF EntriesLinked, slack
<1>3. CASE World \/ UNCHANGED vars
  <2>1. UNCHANGED <<recs, slack, acks, pc, current, left>>
    BY <1>3 DEF World, Quote, EndDatePasses, CloseMarket, Evaluate, db, people, locals, vars
  <2> QED
    BY <1>2, <2>1, SlackKept DEF KeepsLinking
<1>4. CASE \/ Rank \/ Dedupe \/ ReadRefs \/ OutOfRows \/ Inserted \/ PostChat \/ EndTick
           \/ ReadDue \/ Rest
  <2>1. /\ recs' = recs /\ slack' = slack /\ acks' = acks
        /\ pc # "link" /\ pc' # "link"
    BY <1>4 DEF Rank, Dedupe, ReadRefs, OutOfRows, Inserted, PostChat, EndTick, ReadDue,
                Rest, db, people
  <2> QED
    BY <1>2, <2>1, SlackKept DEF KeepsLinking
<1>5. CASE SetEntry \/ Settle
  <2>1. slack' = slack /\ acks' = acks /\ pc # "link" /\ pc' # "link"
    BY <1>5 DEF SetEntry, Settle, people
  <2> QED
    BY <1>2, <1>5, <2>1, SlackKept DEF KeepsLinking
<1>6. CASE ClearFeed
  <2>1. /\ recs' = recs /\ posted' = posted /\ acks' = acks
        /\ pc # "link" /\ pc' # "link"
        /\ msgs' = IF FeedRef = 0 THEN msgs ELSE [msgs EXCEPT ![FeedRef] = {}]
    BY <1>6 DEF ClearFeed, db, people
  <2>2. \A k \in Msgs : msgs'[k] \subseteq msgs[k]
    BY <2>1 DEF IndInv, TypeOK
  <2> QED
    BY <2>1, <2>2, SlackKept, FeedKept DEF KeepsLinking, EntriesLinked
<1>7. CASE AllLinked
  <2>1. /\ pc = "link" /\ left = {} /\ pc' # "link"
        /\ recs' = recs /\ lastId' = lastId
        /\ posted' = posted /\ msgs' = msgs /\ acks' = acks
    BY <1>7 DEF AllLinked, db, slack, people
  <2> QED
    BY <2>1 DEF OneMessage, EntriesLinked, LinkedTo, Linked, Rows
<1> QED
  BY <1>1, <1>3, <1>4, <1>5, <1>6, <1>7, PostFeedKept, LinkKept, InsertKept, PeopleFeedKept
  DEF Next, Notify, Resolve

(* The feed starts empty.                                                  *)
LEMMA InitFeed == Init => FeedInv
BY DEF Init, FeedInv, SomethingToShow, OneMessage, EntriesLinked, Linked, NoRec

(* A step keeps the invariant of the feed.                                 *)
LEMMA NextFeed == IndInv /\ FeedInv /\ [Next]_vars => FeedInv'
<1> SUFFICES ASSUME IndInv, FeedInv, [Next]_vars, faults' = 0
             PROVE  (SomethingToShow /\ OneMessage /\ EntriesLinked)'
  BY DEF FeedInv
<1>1. faults' = faults \/ faults' = faults + 1
  BY DEF Next, World, Quote, EndDatePasses, CloseMarket, Evaluate, Notify, Rank, ClearFeed,
         Dedupe, ReadRefs, Insert, SetEntry, OutOfRows, Inserted, PostFeed, Link, AllLinked,
         PostChat, EndTick, Resolve, ReadDue, Settle, Rest, People, PressInFeed, PressInChat,
         Acknowledge, Faults, TickFails, FeedRefused, ChatRefused, AnswerLost, ResolveFails, Crash,
         AckLost, Fault, vars
<1>2. faults = 0
  BY <1>1, BoundsTyped DEF IndInv, TypeOK
<1> QED
  BY <1>2, NextSomethingToShow, NextFeedKept DEF FeedInv

(* While nothing has failed, the message of the feed can be found again,   *)
(* and what it shows, late updates by button handlers included, are rows   *)
(* that refer to it.                                                       *)
THEOREM FeedInvariant == Spec => []FeedInv
BY InitFeed, NextFeed, InductiveInvariant, PTL DEF Spec

(* As long as nothing fails the channel has a single live feed message,    *)
(* whichever buttons are pressed between the steps of a tick.              *)
THEOREM SingleFeedMessage == Spec => []OneFeedMessage
<1>1. FeedInv => OneFeedMessage
  BY DEF FeedInv, OneMessage, OneFeedMessage
<1> QED
  BY <1>1, FeedInvariant, PTL

(* As long as nothing fails, every entry of the feed is of a row that      *)
(* refers back to the message once the references of a tick are written.   *)
THEOREM FeedStaysLinked == Spec => []FeedIsLinked
<1>1. FeedInv => FeedIsLinked
  BY DEF FeedInv, EntriesLinked, LinkedTo, FeedIsLinked
<1> QED
  BY <1>1, FeedInvariant, PTL

-----------------------------------------------------------------------------
(* The refinement.                                                         *)

(* An empty table is an empty ledger.                                      *)
LEMMA LedgerInit == Init => Ledger!Init
BY DEF Init, Ledger!Init, Ledger!Blank, LedgerTrade, NoRec

(* A row that keeps its source, its terms and its result is the same    *)
(* trade.                                                                  *)
LEMMA LedgerKeeps ==
  ASSUME KeepsRows
  PROVE  UNCHANGED [i \in Ids |-> LedgerTrade(recs[i])]
BY DEF KeepsRows, LedgerTrade

(* What the ledger sees of a row, by its status and outcome.               *)
LEMMA LedgerStatus ==
  ASSUME NEW rec
  PROVE  /\ rec.status = "absent" <=> LedgerTrade(rec).status = "absent"
         /\ LedgerTrade(rec).status = "open" <=>
              rec.status # "absent" /\ rec.outcome = "unknown"
         /\ LedgerTrade(rec).status = "open" => LedgerTrade(rec).key = rec.source
<1>1. CASE rec.status = "absent"
  BY <1>1 DEF LedgerTrade
<1>2. CASE rec.status # "absent" /\ rec.outcome = "unknown"
  BY <1>2 DEF LedgerTrade
<1>3. CASE rec.status # "absent" /\ rec.outcome # "unknown"
  BY <1>3 DEF LedgerTrade
<1> QED
  BY <1>1, <1>2, <1>3

(* A resolution is a Close of the ledger.                                  *)
LEMMA LedgerClose ==
  ASSUME IndInv, NEW row \in settling, NEW o \in {"yes", "no"},
         recs' = Resolved(row, o)
  PROVE  Ledger!Close(row.rec)
<1> DEFINE i      == row.rec
           terms  == [edge |-> recs[i].edge, price |-> recs[i].price]
           result == [outcome |-> o, pnl |-> recs'[i].pnl]
           before == [j \in Ids |-> LedgerTrade(recs[j])]
           after  == [j \in Ids |-> LedgerTrade(recs'[j])]
<1>1. /\ i \in Rows /\ i \in Ids /\ recs[i] \in Rec /\ Unresolved(i)
      /\ EntryPrice(row) \in Price
      /\ \A j \in Ids : j # i => recs'[j] = recs[j]
      /\ recs'[i].status = recs[i].status /\ recs'[i].source = recs[i].source
      /\ recs'[i].edge = recs[i].edge /\ recs'[i].price = recs[i].price
      /\ recs'[i].outcome = o
      /\ recs'[i].pnl = compute_pnl_cents(EntryPrice(row),
                          trade_direction(recs[i].edge), o)
  BY ResolveEffect
<1>2. recs[i].source \in Sources
  BY <1>1, RowFields DEF IndInv
<1>3. terms \in [edge : Edge, price : Price]
  BY <1>1 DEF Rec
<1>4. result \in [outcome : {"yes", "no"}, pnl : Int]
  <2>1. recs[i].edge \in Int
    BY <1>1 DEF Rec, Edge
  <2> QED
    BY <1>1, <2>1, RulesTyped DEF Outcome
<1>5. before[i] = [status |-> "open", key |-> recs[i].source, terms |-> terms]
  BY <1>1 DEF LedgerTrade, Unresolved
<1>6. after[i] = [status |-> "closed", key |-> recs[i].source, terms |-> terms,
                  result |-> result]
  BY <1>1 DEF LedgerTrade, Unresolved
<1>7. after[i] \in Ledger!ClosedTrade
  BY <1>2, <1>3, <1>4, <1>6 DEF Ledger!ClosedTrade
<1>8. after = [before EXCEPT ![i] = after[i]]
  BY <1>1
<1>9. /\ before[i].status = "open"
      /\ after[i] \in Ledger!ClosedTrade
      /\ after[i].key = before[i].key
      /\ after[i].terms = before[i].terms
      /\ after = [before EXCEPT ![i] = after[i]]
  <2> HIDE DEF before, after, terms, result, i
  <2> QED
    BY <1>5, <1>6, <1>7, <1>8
<1> QED
  BY <1>9 DEF Ledger!Close, Ledger!Replace

(* An insert is an Open of the ledger, for a source with no open trade.    *)
LEMMA LedgerOpen ==
  ASSUME IndInv, NEW p \in todo, pc = "insert", lastId < MaxRecs,
         recs' = [recs EXCEPT ![lastId + 1] = RecOf(p)], lastId' = lastId + 1
  PROVE  Ledger!Open(lastId + 1)
<1> DEFINE i      == lastId + 1
           terms  == [edge |-> p.edge, price |-> p.price]
           before == [j \in Ids |-> LedgerTrade(recs[j])]
           after  == [j \in Ids |-> LedgerTrade(recs'[j])]
<1>1. /\ i \in Ids /\ recs[i].status = "absent" /\ recs'[i] = RecOf(p)
      /\ \A j \in Ids : j # i => recs'[j] = recs[j]
      /\ p \in Pick
      /\ \A j \in Ids : Unresolved(j) => recs[j].source # p.source
  BY InsertEffect
<1>2. terms \in [edge : Edge, price : Price] /\ p.source \in Sources
  BY <1>1 DEF Pick
<1>3. after[i] = [status |-> "open", key |-> p.source, terms |-> terms]
  BY <1>1 DEF LedgerTrade, RecOf
<1>4. after[i] \in Ledger!OpenTrade /\ after[i].key = p.source
  BY <1>2, <1>3 DEF Ledger!OpenTrade
<1>5. before[i].status = "absent"
  BY <1>1, LedgerStatus
<1>6. \A j \in Ids : j < i => before[j].status # "absent"
  <2>1. \A j \in Ids : j < i => recs[j].status # "absent"
    BY BoundsTyped DEF IndInv, Numbered, Ids, TypeOK
  <2> QED
    BY <2>1, LedgerStatus
<1>7. \A j \in Ids : before[j].status = "open" => before[j].key # p.source
  BY <1>1, LedgerStatus DEF Unresolved
<1>8. after = [before EXCEPT ![i] = after[i]]
  <2>1. \A j \in Ids : j # i => after[j] = before[j]
    BY <1>1
  <2>2. after = [j \in Ids |-> after[j]] /\ before = [j \in Ids |-> before[j]]
    OBVIOUS
  <2> HIDE DEF i, before, after
  <2> QED
    BY <2>1, <2>2
<1>9. /\ before[i].status = "absent"
      /\ \A j \in Ids : j < i => before[j].status # "absent"
      /\ after[i] \in Ledger!OpenTrade
      /\ \A j \in Ids : before[j].status = "open" => before[j].key # after[i].key
      /\ after = [before EXCEPT ![i] = after[i]]
  BY <1>4, <1>5, <1>6, <1>7, <1>8
<1> QED
  BY <1>9 DEF Ledger!Open, Ledger!Free, Ledger!Replace

(* The notifier and its table implement the ledger with one open trade per *)
(* source: rows are opened at the next number and resolved once, and no    *)
(* button pressed later changes a row's terms, outcome or P&L.             *)
THEOREM NotifierImplementsLedger == Spec => ImplementsLedger
<1>1. IndInv /\ [Next]_vars
        => Ledger!Next \/ UNCHANGED [i \in Ids |-> LedgerTrade(recs[i])]
  <2> SUFFICES ASSUME IndInv, [Next]_vars
               PROVE  Ledger!Next \/ UNCHANGED [i \in Ids |-> LedgerTrade(recs[i])]
    OBVIOUS
  <2>1. CASE InsertsRow
    <3>1. Ledger!Open(lastId + 1) /\ lastId + 1 \in Ids
      BY <2>1, LedgerOpen, InsertEffect DEF InsertsRow
    <3> QED
      BY <3>1 DEF Ledger!Next
  <2>2. CASE ResolvesRow
    <3>1. PICK row \in settling, o \in {"yes", "no"} : recs' = Resolved(row, o)
      BY <2>2 DEF ResolvesRow
    <3>2. Ledger!Close(row.rec) /\ row.rec \in Ids
      BY <3>1, LedgerClose, SettlingFields
    <3> QED
      BY <3>2 DEF Ledger!Next
  <2>3. CASE KeepsRows
    BY <2>3, LedgerKeeps
  <2> QED
    BY <2>1, <2>2, <2>3, RowsChange
<1> QED
  BY <1>1, LedgerInit, InductiveInvariant, PTL DEF Spec, ImplementsLedger, Ledger!Spec

=============================================================================
