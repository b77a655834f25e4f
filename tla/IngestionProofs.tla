-------------------------- MODULE IngestionProofs ---------------------------
(***************************************************************************)
(* What discovery guarantees about market_links in every installation, for *)
(* every set of markets and events, through failed rounds, crashes and     *)
(* restarts.                                                               *)
(***************************************************************************)
EXTENDS Ingestion, FiniteSetTheorems, TLAPS

-----------------------------------------------------------------------------
(* Of two linked markets there is a first one.                             *)
LEMMA PairsHaveMembers ==
  ASSUME NEW rows, NEW p \in Pairs(rows) PROVE \E m \in p : m \in rows
<1>1. p \in SUBSET rows /\ Cardinality(p) = 2
  BY DEF Pairs
<1>2. p # {}
  BY <1>1, FS_EmptySet
<1> QED
  BY <1>1, <1>2

(* The links of the events that have an open market.                       *)
LinksOfOpen == {p \in links : \E m \in p, n \in Open : EventOf[m] = EventOf[n]}

(* While the links are being inserted, the ones of the events with an open *)
(* market are those that the round has inserted so far.                    *)
DiscShape == DOMAIN disc = {"pc", "todo", "rows"}

Rebuilding ==
  disc.pc = "insert" => disc.todo \subseteq Pairs(Open) /\ LinksOfOpen = Pairs(Open) \ disc.todo

IInv == DiscShape /\ Rebuilding /\ events \in Nat

LEMMA NewDiscFields ==
  ASSUME NEW pc
  PROVE  DOMAIN NewDisc(pc) = {"pc", "todo", "rows"} /\ NewDisc(pc).pc = pc
BY DEF NewDisc

LEMMA InitInv == Init => IInv
BY NewDiscFields DEF Init, IInv, DiscShape, Rebuilding

(* A step that is not one of the rebuild.                                  *)
LEMMA Quiet ==
  ASSUME IInv,
         \/ disc' = disc /\ UNCHANGED <<status, links>>
         \/ DOMAIN disc' = {"pc", "todo", "rows"} /\ disc'.pc # "insert"
  PROVE  (DiscShape /\ Rebuilding)'
<1>1. CASE disc' = disc /\ UNCHANGED <<status, links>>
  BY <1>1 DEF IInv, DiscShape, Rebuilding, LinksOfOpen, Open, Pairs
<1>2. CASE DOMAIN disc' = {"pc", "todo", "rows"} /\ disc'.pc # "insert"
  BY <1>2 DEF IInv, DiscShape, Rebuilding
<1> QED
  BY <1>1, <1>2

LEMMA DeleteLinksKeeps == ASSUME IInv, DeleteLinks PROVE (DiscShape /\ Rebuilding)'
<1>1. /\ links' = {p \in links : \A m \in p, n \in Open : EventOf[m] # EventOf[n]}
      /\ disc' = [pc |-> "insert", todo |-> Pairs(Open), rows |-> {}]
      /\ status' = status
  BY DEF DeleteLinks
<1>2. Open' = Open /\ Pairs(Open)' = Pairs(Open)
  BY <1>1 DEF Open, Pairs
<1>3. LinksOfOpen' = {}
  BY <1>1, <1>2 DEF LinksOfOpen
<1> QED
  BY <1>1, <1>2, <1>3 DEF IInv, DiscShape, Rebuilding

LEMMA InsertLinkKeeps == ASSUME IInv, NEW p, InsertLink(p) PROVE (DiscShape /\ Rebuilding)'
<1>1. /\ disc.pc = "insert" /\ p \in disc.todo /\ links' = links \cup {p}
      /\ disc' = [disc EXCEPT !.todo = @ \ {p}] /\ status' = status
  BY DEF InsertLink
<1>2. Open' = Open /\ Pairs(Open)' = Pairs(Open)
  BY <1>1 DEF Open, Pairs
<1>3. DOMAIN disc' = {"pc", "todo", "rows"} /\ disc'.pc = "insert" /\ disc'.todo = disc.todo \ {p}
  BY <1>1 DEF IInv, DiscShape
<1>4. disc.todo \subseteq Pairs(Open) /\ LinksOfOpen = Pairs(Open) \ disc.todo
  BY <1>1 DEF IInv, Rebuilding
<1>5. \E m \in p, n \in Open : EventOf[m] = EventOf[n]
  BY <1>1, <1>4, PairsHaveMembers
<1>6. LinksOfOpen' = LinksOfOpen \cup {p}
  BY <1>1, <1>2, <1>5 DEF LinksOfOpen
<1> QED
  BY <1>1, <1>2, <1>3, <1>4, <1>6 DEF IInv, DiscShape, Rebuilding

(* The other steps of discovery, and those that start and end the process. *)
LEMMA DiscoveryLeaves ==
  ASSUME IInv,
         \/ Discover \/ Discovered \/ RediscoverStops \/ DiscoveryFails
         \/ Shutdown \/ Crash \/ Restart
         \/ \E m \in Markets : Upsert(m)
  PROVE  (DiscShape /\ Rebuilding)'
<1>1. CASE Discover
  <2>1. \E todo, rows : disc' = [pc |-> "upsert", todo |-> todo, rows |-> rows]
    BY <1>1 DEF Discover, NewDisc
  <2> QED
    BY <2>1, Quiet
<1>2. CASE \E m \in Markets : Upsert(m)
  <2>1. disc.pc = "upsert" /\ \E left : disc' = [disc EXCEPT !.todo = left]
    BY <1>2 DEF Upsert
  <2>2. DOMAIN disc' = {"pc", "todo", "rows"} /\ disc'.pc = "upsert"
    BY <2>1 DEF IInv, DiscShape
  <2> QED
    BY <2>2, Quiet
<1>3. CASE Discovered \/ RediscoverStops \/ DiscoveryFails \/ Shutdown \/ Crash \/ Restart
  <2>1. \E pc \in {"wait", "done", "off", "fetch"} : disc' = NewDisc(pc)
    BY <1>3 DEF Discovered, RediscoverStops, DiscoveryFails, Shutdown, Crash, Restart, Gone
  <2> QED
    BY <2>1, NewDiscFields, Quiet
<1> QED
  BY <1>1, <1>2, <1>3

(* The other tasks, the venue and Gamma write neither statuses nor links.  *)
LEMMA OthersLeave ==
  ASSUME IInv, Snapshots \/ Supervisor \/ Session \/ Venue \/ StopSignal
               \/ SnapshotOfMarketFails \/ SnapshotQueryFails \/ LoadFails
               \/ SessionFails \/ SessionClosed
  PROVE  (DiscShape /\ Rebuilding)'
<1>1. CASE Snapshots \/ SnapshotOfMarketFails \/ SnapshotQueryFails
  BY <1>1, Quiet
  DEF Snapshots, SnapshotQuery, SnapshotWrite, SnapshotRoundEnds, SnapshotStops, FetchBook,
      SnapshotOfMarketFails, SnapshotQueryFails, tables
<1>2. CASE Supervisor \/ LoadFails
  BY <1>2, Quiet
  DEF Supervisor, LoadAssets, SleptWithoutAssets, EndSession, SessionEnded, LoadFails, tables
<1>3. CASE Session \/ SessionFails \/ SessionClosed
  BY <1>3, Quiet
  DEF Session, Connect, SessionStops, HandleMessage, SessionLeaves, SessionFails,
      SessionClosed, tables
<1>4. CASE Venue
  BY <1>4, Quiet DEF Venue, BookMoves, Traded, Quotes, ListingChanges, tables
<1>5. CASE StopSignal
  BY <1>5, Quiet DEF StopSignal, tables
<1> QED
  BY <1>1, <1>2, <1>3, <1>4, <1>5

LEMMA EventsCounted == ASSUME IInv, [Next]_vars PROVE events' \in Nat
<1>1. events \in Nat /\ events + 1 \in Nat
  BY DEF IInv
<1>2. CASE Discovery
  BY <1>1, <1>2
  DEF Discovery, Discover, DeleteLinks, Discovered, RediscoverStops, Upsert, InsertLink
<1>3. CASE Snapshots
  BY <1>1, <1>3
  DEF Snapshots, SnapshotQuery, SnapshotWrite, SnapshotRoundEnds, SnapshotStops, FetchBook
<1>4. CASE Supervisor \/ Session
  BY <1>1, <1>4
  DEF Supervisor, LoadAssets, SleptWithoutAssets, EndSession, SessionEnded,
      Session, Connect, SessionStops, HandleMessage, SessionLeaves
<1>5. CASE Failures
  BY <1>1, <1>5
  DEF Failures, DiscoveryFails, SnapshotOfMarketFails, SnapshotQueryFails, LoadFails,
      SessionFails, SessionClosed, Crash, Event
<1>6. CASE Venue \/ StopSignal \/ Shutdown \/ Restart
  BY <1>1, <1>6
  DEF Venue, BookMoves, Traded, Quotes, ListingChanges, StopSignal, Shutdown, Restart, Event
<1>7. CASE UNCHANGED vars
  BY <1>1, <1>7 DEF vars
<1> QED
  BY <1>2, <1>3, <1>4, <1>5, <1>6, <1>7 DEF Next

LEMMA NextKeeps == ASSUME IInv, [Next]_vars PROVE IInv'
<1> SUFFICES (DiscShape /\ Rebuilding)'
  BY EventsCounted DEF IInv
<1>1. CASE DeleteLinks
  BY <1>1, DeleteLinksKeeps
<1>2. CASE \E p \in SUBSET Markets : InsertLink(p)
  BY <1>2, InsertLinkKeeps
<1>3. CASE \/ Discover \/ Discovered \/ RediscoverStops \/ DiscoveryFails
           \/ Shutdown \/ Crash \/ Restart
           \/ \E m \in Markets : Upsert(m)
  BY <1>3, DiscoveryLeaves
<1>4. CASE Snapshots \/ Supervisor \/ Session \/ Venue \/ StopSignal
           \/ SnapshotOfMarketFails \/ SnapshotQueryFails \/ LoadFails
           \/ SessionFails \/ SessionClosed
  BY <1>4, OthersLeave
<1>5. CASE UNCHANGED vars
  BY <1>5, Quiet DEF vars, tables
<1> QED
  BY <1>1, <1>2, <1>3, <1>4, <1>5 DEF Next, Discovery, Failures

(* The inductive invariant of Ingestion holds in every behaviour.          *)
THEOREM InductiveInvariant == Spec => []IInv
<1>1. Init => IInv
  BY InitInv
<1>2. IInv /\ [Next]_vars => IInv'
  BY NextKeeps
<1> QED
  BY <1>1, <1>2, PTL DEF Spec

(* A round of discovery that does not fail leaves the links of the events  *)
(* with an open market complete (links.py, rebuild_market_links), whatever *)
(* an interrupted round before it had left.                                *)
THEOREM LinksAreRestored == Spec => LinksRestored
<1>1. ASSUME IInv, Next,
             disc.pc = "insert", disc'.pc = "wait", events' = events
      PROVE  LinksComplete'
  <2>1. events # events + 1
    BY <1>1 DEF IInv
  <2>2. disc'.pc # disc.pc /\ disc' # disc
    BY <1>1
  <2>3. Discovered
    <3>1. ~DiscoveryFails /\ ~Crash
      BY <1>1, <2>1 DEF DiscoveryFails, Crash, Event
    <3>2. ~(Shutdown \/ Restart)
      BY <1>1, NewDiscFields DEF Shutdown, Restart, Gone
    <3>3. ~(Snapshots \/ SnapshotOfMarketFails \/ SnapshotQueryFails)
      BY <2>2
      DEF Snapshots, SnapshotQuery, SnapshotWrite, SnapshotRoundEnds, SnapshotStops,
          FetchBook, SnapshotOfMarketFails, SnapshotQueryFails
    <3>4. ~(Supervisor \/ LoadFails \/ Session \/ SessionFails \/ SessionClosed)
      BY <2>2
      DEF Supervisor, LoadAssets, SleptWithoutAssets, EndSession, SessionEnded, LoadFails,
          Session, Connect, SessionStops, HandleMessage, SessionLeaves, SessionFails,
          SessionClosed
    <3>5. ~(Venue \/ StopSignal)
      BY <2>2 DEF Venue, BookMoves, Traded, Quotes, ListingChanges, StopSignal
    <3>6. ~(Discover \/ DeleteLinks \/ RediscoverStops \/ \E m \in Markets : Upsert(m))
      BY <1>1 DEF Discover, DeleteLinks, RediscoverStops, Upsert
    <3>7. ~(\E p \in SUBSET Markets : InsertLink(p))
      BY <1>1 DEF InsertLink, IInv, DiscShape
    <3> QED
      BY <1>1, <3>1, <3>2, <3>3, <3>4, <3>5, <3>6, <3>7 DEF Next, Discovery, Failures
  <2>4. disc.todo = {} /\ UNCHANGED <<status, links>>
    BY <2>3 DEF Discovered, tables
  <2>5. LinksOfOpen = Pairs(Open)
    BY <1>1, <2>4 DEF IInv, Rebuilding
  <2> QED
    BY <2>4, <2>5 DEF LinksComplete, LinksOfOpen, Open, Pairs
<1>2. IInv /\ [Next]_vars
        => [disc.pc = "insert" /\ disc'.pc = "wait" /\ events' = events => LinksComplete']_vars
  BY <1>1
<1> QED
  BY <1>2, InductiveInvariant, PTL DEF Spec, LinksRestored
=============================================================================
