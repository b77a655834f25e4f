------------------------------- MODULE Feeds -------------------------------
(***************************************************************************)
(* An installation runs the enrichment worker, the processes on the side   *)
(* of Kalshi (KALSHI_ENABLED), or both, on one database.  Neither reads    *)
(* what the other writes, so that a property of one of them holds in an    *)
(* installation of both when it holds where the other is not deployed.     *)
(***************************************************************************)
EXTENDS LiveGames, CrossVenue

CONSTANT Deployments   \* the installations that are considered

ASSUME FeedsAssumption ==
  Deployments \subseteq SUBSET {"enrichment", "kalshi"} /\ MaxEvents \in Nat

VARIABLE deployed      \* what this installation runs

vars == <<deployed, events, gvars, kvars>>

Init == deployed \in Deployments /\ events = 0 /\ GInit /\ KInit

Enrichment(A) == "enrichment" \in deployed /\ A /\ UNCHANGED <<deployed, kvars>>
OfKalshi(A)   == "kalshi" \in deployed /\ A /\ UNCHANGED <<deployed, gvars>>

Next == Enrichment(GNext) \/ OfKalshi(KNext)

Spec == Init /\ [][Next]_vars

(* A worker goes on with its loop, and is restarted after an exit and a    *)
(* crash.  Nobody promises that a job is run.                              *)
Fairness ==
  /\ WF_vars(Enrichment(GStep)) /\ WF_vars(Enrichment(GExit \/ GRestart))
  /\ WF_vars(OfKalshi(KPoll)) /\ WF_vars(OfKalshi(KExit \/ KRestart))

FairSpec == Spec /\ Fairness
-----------------------------------------------------------------------------
TypeOK == events \in 0..MaxEvents /\ GTypeOK /\ KTypeOK

(* A game that a market is about has, in the end, the score that the board *)
(* shows, through failed ticks and restarts (enrichment/__main__.py).      *)
ScoreFollowsBoard ==
  "enrichment" \in deployed => \A g \in Games : []<>ScoreIsCurrent(g)

(* The quote of a ticker with an active pair comes to be what its book     *)
(* says, whatever becomes of the other tickers (kalshi/__main__.py).       *)
QuotesFollowKalshi ==
  "kalshi" \in deployed => \A t \in Tickers : []<>QuoteIsCurrent(t)
=============================================================================
