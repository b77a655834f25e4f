--------------------------- MODULE Recommendations ---------------------------
(***************************************************************************)
(* The life of a recommendation.  notifier/__main__.py ranks fair values   *)
(* every tick, writes new picks to the recommendations table               *)
(* (notifier/repo.py), refreshes the Slack feed and posts to Telegram, and *)
(* then resolves the approved rows of settled markets.  At any time a      *)
(* person may press a button, which notifier/slack_events.py turns into a  *)
(* status; prices, market states and fair values change meanwhile.         *)
(*                                                                         *)
(* The notifier is one process; every await of a database or HTTP call is  *)
(* a step.  RANK_MERGE_BY_MARKET is off, as it is by default.              *)
(***************************************************************************)
EXTENDS SignalRules, Sequences, FiniteSets

CONSTANTS
  Markets,       \* market ids
  Strategies,    \* strategy ids
  Edges,         \* the edges that strategies find
  Mids,          \* the mid prices that markets may quote
  MinEdge,       \* settings.min_edge_cents
  AlertEdges,    \* the thresholds the alert filter may use (adaptive_min_edge)
  AlertMore,     \* ALERT_MIN_DEPTH or ALERT_MIN_SCORE is set
  TopN,          \* settings.rank_top_n
  ResolveLimit,  \* the LIMIT of _resolve_pnl's query
  AutoApprove,   \* settings.auto_approve_recs
  SlackOn,       \* Slack is configured
  TelegramOn,    \* Telegram is configured
  MaxRecs,       \* bound: rows of recommendations
  MaxEvals,      \* bound: fair values of one market and strategy
  MaxMsgs,       \* bound: messages posted to the Slack channel
  MaxClicks,     \* bound: buttons pressed
  MaxFaults      \* bound: calls that fail and crashes

Sources == Markets \X Strategies
Ids     == 1..MaxRecs
Msgs    == 1..MaxMsgs
Edge    == (-100..100) \ {0}

FairValue == [edge : Edge, price : Price]
Pick      == [source : Sources, edge : Edge, price : Price]

Decision == {"approved", "rejected"}

(* An entry of the feed: whose row it is, the status and the side shown.   *)
Entry == [rec : Ids, shown : Decision \union {"pending"}, side : Direction]

ASSUME RecAssumption ==
  /\ MaxRecs \in Nat /\ MaxEvals \in Nat /\ MaxMsgs \in Nat
  /\ MaxClicks \in Nat /\ MaxFaults \in Nat
  /\ MaxMsgs > MaxFaults
  /\ TopN \in Nat /\ ResolveLimit \in Nat /\ MinEdge \in Nat
  /\ AlertMore \in BOOLEAN /\ AutoApprove \in BOOLEAN
  /\ SlackOn \in BOOLEAN /\ TelegramOn \in BOOLEAN
  /\ Edges \subseteq Edge /\ Mids \subseteq Price

VARIABLES
  mid,       \* latest mid of each market (prices)
  phase,     \* live, ended (30 minutes past end_date) or closed (markets)
  fv,        \* fair_values of each market and strategy, oldest first
  recs,      \* recommendations
  lastId,    \* the id sequence of recommendations
  posted,    \* number of messages posted to the Slack channel
  msgs,      \* what each of them shows
  chats,     \* recommendations with a message in the Telegram chat
  acks,      \* message updates that the button handlers have yet to send
  clicks,    \* buttons pressed so far
  pc,        \* where the notifier is
  picks,     \* ranked picks of the tick
  todo,      \* picks that are yet to get a row
  current,   \* row that is being inserted
  entries,   \* entries of the feed to be shown
  left,      \* rows whose message reference or message is yet to be written
  settling,  \* rows read by _resolve_pnl and yet to be looked at
  faults     \* calls that have failed and crashes

world  == <<mid, phase, fv>>
db     == <<recs, lastId>>
slack  == <<posted, msgs>>
people == <<chats, acks, clicks>>
locals == <<picks, todo, current, entries, left, settling>>
vars   == <<world, db, slack, people, pc, locals, faults>>

-----------------------------------------------------------------------------
(* entry is -1 where entry_price is NULL, and noted says whether human_notes *)
(* is set; an unknown outcome is a NULL resolved_outcome.                  *)
NoRec == [status |-> "absent", source |-> <<"none", "none">>, edge |-> 1, price |-> 0,
          entry |-> -1, noted |-> FALSE, outcome |-> "unknown", pnl |-> 0,
          slack |-> 0]

Max(S) == CHOOSE x \in S : \A y \in S : y <= x

Unresolved(i) == recs[i].status # "absent" /\ recs[i].outcome = "unknown"

Init ==
  /\ mid \in [Markets -> Mids]
  /\ phase = [m \in Markets |-> "live"]
  /\ fv = [s \in Sources |-> <<>>]
  /\ recs = [i \in Ids |-> NoRec]
  /\ lastId = 0
  /\ posted = 0
  /\ msgs = [k \in Msgs |-> {}]
  /\ chats = {} /\ acks = {} /\ clicks = 0
  /\ pc = "idle"
  /\ picks = {} /\ todo = {} /\ current = 0
  /\ entries = {} /\ left = {} /\ settling = {}
  /\ faults = 0

-----------------------------------------------------------------------------
(* Ingestion and reasoning, as the notifier sees them.                     *)

Quote(m) ==
  /\ \E x \in Mids \ {mid[m]} : mid' = [mid EXCEPT ![m] = x]
  /\ UNCHANGED <<phase, fv, db, slack, people, pc, locals, faults>>

EndDatePasses(m) ==
  /\ phase[m] = "live"
  /\ phase' = [phase EXCEPT ![m] = "ended"]
  /\ UNCHANGED <<mid, fv, db, slack, people, pc, locals, faults>>

CloseMarket(m) ==
  /\ phase[m] # "closed"
  /\ phase' = [phase EXCEPT ![m] = "closed"]
  /\ UNCHANGED <<mid, fv, db, slack, people, pc, locals, faults>>

(* A strategy writes a fair value at the current mid; a market that is     *)
(* closed is no candidate.                                                 *)
Evaluate(s) ==
  /\ phase[s[1]] # "closed"
  /\ Len(fv[s]) < MaxEvals
  /\ \E e \in Edges :
       fv' = [fv EXCEPT ![s] = Append(@, [edge |-> e, price |-> mid[s[1]]])]
  /\ UNCHANGED <<mid, phase, db, slack, people, pc, locals, faults>>

-----------------------------------------------------------------------------
(* The tick.                                                               *)

Latest(s) == fv[s][Len(fv[s])]

(* top_picks: the latest fair value of each source, however old.           *)
Candidates ==
  {[source |-> s, edge |-> Latest(s).edge, price |-> Latest(s).price] :
     s \in {t \in Sources : /\ fv[t] # <<>>
                            /\ phase[t[1]] # "closed"
                            /\ passes_entry_price_gate(Latest(t).price)
                            /\ passes_risk_reward_gate(Latest(t).price,
                                                       Latest(t).edge)}}

(* The best n of a set by score, which the model does not compute.         *)
BestOf(S, n) ==
  IF Cardinality(S) <= n THEN {S} ELSE {T \in SUBSET S : Cardinality(T) = n}

Rank ==
  /\ pc = "idle"
  /\ picks' \in BestOf(Candidates, 2 * TopN)
  /\ pc' = IF picks' # {} THEN "dedupe" ELSE IF SlackOn THEN "clear" ELSE "resolve"
  /\ UNCHANGED <<world, db, slack, people, todo, current, entries, left,
                 settling, faults>>

(* Mutant of Linked: only undecided rows lead back to the feed.            *)
LinkedAndPending == {i \in Ids : recs[i].slack # 0 /\ recs[i].status = "pending"}

Linked == {i \in Ids : recs[i].slack # 0}

(* latest_slack_message_ref                                                *)
FeedRef == IF Linked = {} THEN 0 ELSE recs[Max(Linked)].slack

ClearFeed ==
  /\ pc = "clear"
  /\ msgs' = IF FeedRef = 0 THEN msgs ELSE [msgs EXCEPT ![FeedRef] = {}]
  /\ pc' = "resolve"
  /\ UNCHANGED <<world, db, posted, people, locals, faults>>

(* _recently_notified_edges: the newest undecided or approved row of the   *)
(* market, of any strategy and any age.                                    *)
Notified(m) == {i \in Ids : /\ Unresolved(i)
                            /\ recs[i].source[1] = m
                            /\ recs[i].status \in {"pending", "approved"}}

Doubled(p) ==
  LET prev == Magnitude(recs[Max(Notified(p.source[1]))].edge)
  IN  Magnitude(p.edge) >= 2 * prev /\ Magnitude(p.edge) >= 2 * MinEdge

New(p) == Notified(p.source[1]) = {} \/ Doubled(p)

(* The alert filter: depth and score are not modelled, so that a least     *)
(* depth or score may drop any pick.                                       *)
Alerts(best, min) ==
  LET strong == {p \in best : Magnitude(p.edge) >= min}
  IN  IF AlertMore THEN SUBSET strong ELSE {strong}

Dedupe ==
  /\ pc = "dedupe"
  /\ \E best \in BestOf({p \in picks : New(p)}, TopN), min \in AlertEdges :
       picks' \in Alerts(best, min)
  /\ pc' = IF picks' = {} THEN "resolve" ELSE "refs"
  /\ UNCHANGED <<world, db, slack, people, todo, current, entries, left,
                 settling, faults>>

(* Mutant of RefsOf: rejected rows no longer stand for their source.       *)
RefsNotRejected(s) ==
  {i \in Ids : Unresolved(i) /\ recs[i].source = s /\ recs[i].status # "rejected"}

(* recent_recommendation_refs                                              *)
RefsOf(s) == {i \in Ids : Unresolved(i) /\ recs[i].source = s}

EntryOf(i, status, p) ==
  [rec |-> i, shown |-> status, side |-> trade_direction(p.edge)]

(* A pick whose source has an unresolved row is shown under that row.      *)
ReadRefs ==
  /\ pc = "refs"
  /\ todo' = {p \in picks : RefsOf(p.source) = {}}
  /\ entries' = {EntryOf(Max(RefsOf(p.source)),
                         recs[Max(RefsOf(p.source))].status, p) :
                   p \in picks \ todo'}
  /\ picks' = {}
  /\ pc' = "insert"
  /\ UNCHANGED <<world, db, slack, people, current, left, settling, faults>>

RecOf(p) ==
  [status |-> IF AutoApprove THEN "approved" ELSE "pending",
   source |-> p.source, edge |-> p.edge, price |-> p.price, entry |-> -1,
   noted |-> FALSE, outcome |-> "unknown", pnl |-> 0, slack |-> 0]

(* insert_recommendation, the INSERT.  The feed shows a new row as pending *)
(* even when it was approved automatically.                                *)
Insert ==
  /\ pc = "insert" /\ lastId < MaxRecs
  /\ \E p \in todo :
       /\ recs' = [recs EXCEPT ![lastId + 1] = RecOf(p)]
       /\ todo' = todo \ {p}
       /\ entries' = entries \union {EntryOf(lastId + 1, "pending", p)}
  /\ lastId' = lastId + 1
  /\ current' = lastId + 1
  /\ pc' = IF AutoApprove THEN "entry" ELSE "insert"
  /\ UNCHANGED <<world, slack, people, picks, left, settling, faults>>

(* Mutant of SetEntry: the mid of the moment instead of the signal's.      *)
SetEntryAtMid ==
  /\ pc = "entry"
  /\ recs' = [recs EXCEPT ![current].entry = mid[recs[current].source[1]]]
  /\ pc' = "insert"
  /\ UNCHANGED <<world, lastId, slack, people, locals, faults>>

(* insert_recommendation, the UPDATE of an approved row's entry price.     *)
SetEntry ==
  /\ pc = "entry"
  /\ recs' = [recs EXCEPT ![current].entry = recs[current].price]
  /\ pc' = "insert"
  /\ UNCHANGED <<world, lastId, slack, people, locals, faults>>

Shown == {e.rec : e \in entries}

Forget == /\ picks' = {} /\ todo' = {} /\ current' = 0
          /\ entries' = {} /\ left' = {} /\ settling' = {}

(* The bound MaxRecs: a tick that needs more rows is given up.             *)
OutOfRows ==
  /\ pc = "insert" /\ todo # {} /\ lastId = MaxRecs
  /\ Forget
  /\ pc' = "resolve"
  /\ UNCHANGED <<world, db, slack, people, faults>>

(* All picks have rows.                                                    *)
Inserted ==
  /\ pc = "insert" /\ todo = {}
  /\ current' = 0
  /\ left' = IF SlackOn THEN {} ELSE Shown
  /\ pc' = IF SlackOn THEN "post" ELSE "telegram"
  /\ UNCHANGED <<world, db, slack, people, picks, todo, entries, settling, faults>>

-----------------------------------------------------------------------------
(* The feed: one message that upsert_live_feed posts once and then         *)
(* overwrites, found again through the rows' slack_ts.                     *)

FeedTo == IF FeedRef = 0 THEN posted + 1 ELSE FeedRef

PostFeed ==
  /\ pc = "post" /\ FeedTo <= MaxMsgs
  /\ msgs' = [msgs EXCEPT ![FeedTo] = entries]
  /\ posted' = IF FeedRef = 0 THEN posted + 1 ELSE posted
  /\ current' = FeedTo
  /\ left' = Shown
  /\ pc' = "link"
  /\ UNCHANGED <<world, db, people, picks, todo, entries, settling, faults>>

(* Mutant of Link: a row that is already linked, or is not, is left as is. *)
LinkNothing ==
  /\ pc = "link"
  /\ \E i \in left : left' = left \ {i} /\ recs' = recs
  /\ UNCHANGED <<world, lastId, slack, people, pc, picks, todo, current,
                 entries, settling, faults>>

(* update_slack_refs; current holds the message's timestamp.               *)
Link ==
  /\ pc = "link"
  /\ \E i \in left : /\ recs' = [recs EXCEPT ![i].slack = current]
                     /\ left' = left \ {i}
  /\ UNCHANGED <<world, lastId, slack, people, pc, picks, todo, current,
                 entries, settling, faults>>

AllLinked ==
  /\ pc = "link" /\ left = {}
  /\ left' = Shown
  /\ current' = 0
  /\ pc' = "telegram"
  /\ UNCHANGED <<world, db, slack, people, picks, todo, entries, settling, faults>>

(* post_picks: one message with buttons per pick, new row or not.          *)
PostChat ==
  /\ pc = "telegram" /\ TelegramOn
  /\ \E i \in left : chats' = chats \union {i} /\ left' = left \ {i}
  /\ UNCHANGED <<world, db, slack, acks, clicks, pc, picks, todo, current,
                 entries, settling, faults>>

EndTick ==
  /\ pc = "telegram" /\ (left = {} \/ ~TelegramOn)
  /\ left' = {} /\ entries' = {}
  /\ pc' = "resolve"
  /\ UNCHANGED <<world, db, slack, people, picks, todo, current, settling, faults>>

-----------------------------------------------------------------------------
(* _resolve_pnl                                                            *)

(* Mutants of Due: an ended market must also be closed; a row that has     *)
(* been resolved is taken again.                                           *)
DueWhenClosed(i) ==
  /\ recs[i].status = "approved" /\ recs[i].outcome = "unknown"
  /\ phase[recs[i].source[1]] = "closed"

DueAgain(i) ==
  /\ recs[i].status = "approved"
  /\ phase[recs[i].source[1]] # "live"

Due(i) ==
  /\ recs[i].status = "approved" /\ recs[i].outcome = "unknown"
  /\ phase[recs[i].source[1]] # "live"

ReadDue ==
  /\ pc = "resolve"
  /\ \E ids \in BestOf({i \in Ids : Due(i)}, ResolveLimit) :
       settling' = {[rec |-> i, entry |-> recs[i].entry] : i \in ids}
  /\ pc' = "settle"
  /\ UNCHANGED <<world, db, slack, people, picks, todo, current, entries, left,
                 faults>>

(* Mutant of EntryPrice: the default of payload.get is used for a NULL.    *)
EntryOrHalf(row) == IF row.entry > 0 THEN row.entry ELSE 50

(* A NULL and a zero entry_price both give way to the payload's price.     *)
EntryPrice(row) == IF row.entry > 0 THEN row.entry ELSE recs[row.rec].price

Resolved(row, outcome) ==
  [recs EXCEPT ![row.rec].outcome = outcome,
               ![row.rec].pnl =
                  compute_pnl_cents(EntryPrice(row),
                                    trade_direction(recs[row.rec].edge), outcome),
               ![row.rec].entry = EntryPrice(row)]

(* The UPDATE does not look at the row's status again.                     *)
Settle ==
  /\ pc = "settle"
  /\ \E row \in settling :
       LET outcome == outcome_from_final_mid(mid[recs[row.rec].source[1]])
       IN  /\ recs' = IF outcome = "unknown" THEN recs ELSE Resolved(row, outcome)
           /\ settling' = settling \ {row}
  /\ UNCHANGED <<world, lastId, slack, people, pc, picks, todo, current, entries,
                 left, faults>>

Rest ==
  /\ pc = "settle" /\ settling = {}
  /\ pc' = "idle"
  /\ UNCHANGED <<world, db, slack, people, locals, faults>>

-----------------------------------------------------------------------------
(* People press buttons; set_status asks for no particular old status.     *)

SetStatus(i, decision) ==
  recs' = [recs EXCEPT
             ![i].status = decision,
             ![i].noted = TRUE,
             ![i].entry = IF decision = "approved" THEN mid[recs[i].source[1]]
                                                   ELSE @]

(* slack_interactions: the handler has the blocks of the message as it was *)
(* when the button was pressed.                                            *)
PressInFeed(k, d) ==
  /\ clicks < MaxClicks
  /\ \E e \in msgs[k] :
       /\ e.shown = "pending"
       /\ SetStatus(e.rec, d)
       /\ acks' = acks \union
            {[msg |-> k, content |-> (msgs[k] \ {e}) \union {[e EXCEPT !.shown = d]}]}
  /\ clicks' = clicks + 1
  /\ UNCHANGED <<world, lastId, slack, chats, pc, locals, faults>>

(* update_message_status of notifier/slack.py                              *)
Acknowledge ==
  /\ \E a \in acks : /\ msgs' = [msgs EXCEPT ![a.msg] = a.content]
                     /\ acks' = acks \ {a}
  /\ UNCHANGED <<world, db, posted, chats, clicks, pc, locals, faults>>

(* telegram_webhook; older messages of the row keep their buttons.         *)
PressInChat(i, d) ==
  /\ clicks < MaxClicks
  /\ i \in chats
  /\ SetStatus(i, d)
  /\ clicks' = clicks + 1
  /\ UNCHANGED <<world, lastId, slack, chats, acks, pc, locals, faults>>

-----------------------------------------------------------------------------
(* Failures: a tick or a resolution that raises is logged and given up.    *)

Fault == faults < MaxFaults /\ faults' = faults + 1

InTick == pc \in {"idle", "clear", "dedupe", "refs", "insert", "entry", "post",
                  "link", "telegram"}

TickFails ==
  /\ InTick
  /\ Fault
  /\ Forget
  /\ pc' = "resolve"
  /\ UNCHANGED <<world, db, slack, people>>

(* Slack refuses (ok is false): there is no reference and no exception.    *)
FeedRefused ==
  /\ pc = "post"
  /\ Fault
  /\ left' = Shown
  /\ pc' = "telegram"
  /\ UNCHANGED <<world, db, slack, people, picks, todo, current, entries, settling>>

(* Telegram refuses one message, and the loop goes on to the next pick.    *)
ChatRefused ==
  /\ pc = "telegram" /\ TelegramOn
  /\ Fault
  /\ \E i \in left : left' = left \ {i}
  /\ UNCHANGED <<world, db, slack, people, pc, picks, todo, current, entries, settling>>

(* The call took effect but its answer was lost.                           *)
AnswerLost ==
  /\ \/ /\ pc = "insert" /\ lastId < MaxRecs
        /\ \E p \in todo : recs' = [recs EXCEPT ![lastId + 1] = RecOf(p)]
        /\ lastId' = lastId + 1
        /\ UNCHANGED slack
     \/ /\ pc = "post" /\ FeedTo <= MaxMsgs
        /\ msgs' = [msgs EXCEPT ![FeedTo] = entries]
        /\ posted' = IF FeedRef = 0 THEN posted + 1 ELSE posted
        /\ UNCHANGED db
  /\ Fault
  /\ Forget
  /\ pc' = "resolve"
  /\ UNCHANGED <<world, people>>

ResolveFails ==
  /\ pc \in {"resolve", "settle"}
  /\ Fault
  /\ Forget
  /\ pc' = "idle"
  /\ UNCHANGED <<world, db, slack, people>>

(* The notifier dies and is started again.                                 *)
Crash ==
  /\ Fault
  /\ Forget
  /\ pc' = "idle"
  /\ UNCHANGED <<world, db, slack, people>>

(* The button handler's message update does not reach Slack.               *)
AckLost ==
  /\ Fault
  /\ \E a \in acks : acks' = acks \ {a}
  /\ UNCHANGED <<world, db, slack, chats, clicks, pc, locals>>

-----------------------------------------------------------------------------
World == \/ \E m \in Markets : Quote(m) \/ EndDatePasses(m) \/ CloseMarket(m)
         \/ \E s \in Sources : Evaluate(s)

Notify == \/ Rank \/ ClearFeed \/ Dedupe \/ ReadRefs \/ Insert \/ SetEntry
          \/ OutOfRows \/ Inserted \/ PostFeed \/ Link \/ AllLinked \/ PostChat \/ EndTick

Resolve == ReadDue \/ Settle \/ Rest

People == \/ \E k \in Msgs, d \in Decision : PressInFeed(k, d)
          \/ \E i \in Ids, d \in Decision : PressInChat(i, d)
          \/ Acknowledge

Faults == TickFails \/ FeedRefused \/ ChatRefused \/ AnswerLost \/ ResolveFails \/ Crash \/ AckLost

Next == World \/ Notify \/ Resolve \/ People \/ Faults

Spec == Init /\ [][Next]_vars

(* The notifier's loop goes on; nothing else has to happen.                *)
FairSpec == Spec /\ WF_vars(Notify \/ Resolve)

-----------------------------------------------------------------------------
(* Properties.                                                             *)

Rec == [status : Decision \union {"absent", "pending"},
        source : Sources \union {<<"none", "none">>}, edge : Edge, price : Price,
        entry : Price \union {-1}, noted : BOOLEAN, outcome : Outcome, pnl : Int,
        slack : 0..MaxMsgs]

(* Every variable keeps its type: what the tables of 001_schema.sql and    *)
(* 004_pnl_tracking.sql, the chats and the notifier's locals may hold.     *)
TypeOK ==
  /\ mid \in [Markets -> Mids]
  /\ phase \in [Markets -> {"live", "ended", "closed"}]
  /\ fv \in [Sources -> Seq(FairValue)]
  /\ recs \in [Ids -> Rec]
  /\ lastId \in 0..MaxRecs
  /\ posted \in 0..MaxMsgs
  /\ msgs \in [Msgs -> SUBSET Entry]
  /\ chats \subseteq Ids
  /\ acks \subseteq [msg : Msgs, content : SUBSET Entry]
  /\ clicks \in 0..MaxClicks
  /\ pc \in {"idle", "clear", "dedupe", "refs", "insert", "entry", "post", "link",
             "telegram", "resolve", "settle"}
  /\ picks \subseteq Pick
  /\ todo \subseteq Pick
  /\ current \in Nat
  /\ entries \subseteq Entry
  /\ left \subseteq Ids
  /\ settling \subseteq [rec : Ids, entry : Price \union {-1}]
  /\ faults \in 0..MaxFaults

(* Rows are numbered without gaps, and each belongs to a source.           *)
Numbered ==
  \A i \in Ids : /\ i <= lastId <=> recs[i].status # "absent"
                 /\ i <= lastId => recs[i].source \in Sources

(* What is shown, linked or about to be resolved are rows of the table,    *)
(* and a row refers to a message that was posted.                          *)
Rows == 1..lastId
RowsExist ==
  /\ chats \subseteq Rows /\ left \subseteq Rows /\ Shown \subseteq Rows
  /\ \A k \in Msgs : \A e \in msgs[k] : e.rec \in Rows
  /\ \A a \in acks : \A e \in a.content : e.rec \in Rows
  /\ \A row \in settling : row.rec \in Rows
  /\ \A i \in Ids : recs[i].slack <= posted

(* A source has one pick in a tick, and a pick that waits for a row has no *)
(* unresolved row yet; rows being resolved are unresolved.                 *)
Control ==
  /\ \A p, q \in picks : p.source = q.source => p = q
  /\ \A p, q \in todo : p.source = q.source => p = q
  /\ \A p \in todo : RefsOf(p.source) = {}
  /\ pc \notin {"insert", "entry"} => todo = {}
  /\ pc = "entry" => current \in Rows
  /\ pc = "link" => current \in 1..posted
  /\ pc # "settle" => settling = {}
  /\ \A row \in settling : Unresolved(row.rec)
  /\ \A r1, r2 \in settling : r1.rec = r2.rec => r1 = r2

(* A source never has two unresolved rows, whatever fails and whoever      *)
(* presses a button between two steps of a tick (the comment in            *)
(* recent_recommendation_refs).                                            *)
OneUnresolvedPerSource ==
  \A i, j \in Ids :
    Unresolved(i) /\ Unresolved(j) /\ recs[i].source = recs[j].source => i = j

(* A row no person has touched is resolved at the price of its signal,     *)
(* even when the notifier died between the INSERT of the row and the       *)
(* UPDATE of its entry price (the comment in insert_recommendation).       *)
UntouchedEntry ==
  /\ \A i \in Ids : ~recs[i].noted =>
       /\ recs[i].entry \in {-1, 0, recs[i].price}
       /\ recs[i].outcome # "unknown" =>
            /\ recs[i].entry = recs[i].price
            /\ recs[i].pnl = compute_pnl_cents(recs[i].price,
                               trade_direction(recs[i].edge), recs[i].outcome)
  /\ \A row \in settling : ~recs[row.rec].noted =>
       row.entry \in {-1, 0, recs[row.rec].price}

(* The inductive invariant behind the safety theorems.                     *)
IndInv == TypeOK /\ Numbered /\ RowsExist /\ Control
            /\ OneUnresolvedPerSource /\ UntouchedEntry

(* As long as nothing fails the channel has a single live feed message.    *)
OneFeedMessage == faults = 0 => posted <= 1

(* As long as nothing fails, once the references of a tick are written     *)
(* every entry of the feed is of a row that refers back to that message,   *)
(* late updates by a button handler included: the result of the row is     *)
(* posted to the thread it was shown in (reply_resolution).                *)
FeedIsLinked ==
  faults = 0 /\ pc # "link" =>
    \A k \in Msgs : \A e \in msgs[k] : recs[e.rec].slack = k

(* A row that could be resolved does not stay unresolved: an approved row  *)
(* of a market that has ended and whose price says who won.                *)
Resolvable(i) ==
  /\ recs[i].status = "approved" /\ recs[i].outcome = "unknown"
  /\ phase[recs[i].source[1]] # "live"
  /\ outcome_from_final_mid(mid[recs[i].source[1]]) # "unknown"
SettledIsResolved == \A i \in Ids : []<>~Resolvable(i)

(* The table as the abstract ledger sees it: a row is an open trade until  *)
(* its outcome is known.                                                   *)
LedgerTrade(rec) ==
  LET terms == [edge |-> rec.edge, price |-> rec.price]
  IN  CASE rec.status = "absent" -> [status |-> "absent"]
        [] rec.status # "absent" /\ rec.outcome = "unknown" ->
             [status |-> "open", key |-> rec.source, terms |-> terms]
        [] OTHER ->
             [status |-> "closed", key |-> rec.source, terms |-> terms,
              result |-> [outcome |-> rec.outcome, pnl |-> rec.pnl]]

Ledger == INSTANCE TradeLedger WITH
  Entries   <- Ids,
  Keys      <- Sources,
  Terms     <- [edge : Edge, price : Price],
  Results   <- [outcome : {"yes", "no"}, pnl : Int],
  Exclusive <- TRUE,
  trades    <- [i \in Ids |-> LedgerTrade(recs[i])]

(* The notifier implements the ledger, one open row per source: a row is   *)
(* resolved once, and no button pressed later changes its outcome or P&L.  *)
ImplementsLedger == Ledger!Spec

-----------------------------------------------------------------------------
(* A statement of the documentation that the code does not keep.           *)

(* recent_recommendation_refs: "This prevents duplicate rows for the same  *)
(* position when a market stays in the top-N across multiple notifier      *)
(* ticks": a fair value becomes at most one row.                           *)
OneRowPerFairValue ==
  \A s \in Sources :
    Cardinality({i \in Rows : recs[i].source = s}) <= Len(fv[s])
=============================================================================
