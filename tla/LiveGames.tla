----------------------------- MODULE LiveGames -----------------------------
(***************************************************************************)
(* The enrichment worker, enrichment/__main__.py: every tick it reads the  *)
(* scoreboard, finds the game of each open market, and writes the mapping, *)
(* the score, a score_swing event when the score has jumped, and the       *)
(* line-ups.  Each write is its own transaction.                           *)
(***************************************************************************)
EXTENDS Disturbances, Integers, Sequences, FiniteSetsExt

CONSTANTS
  Games,           \* game ids
  GameOrder,       \* the order in which the scoreboard lists them
  GameMarkets,     \* open markets
  Names,           \* the games both of whose teams a market's question names
  SwingThreshold,  \* stale_quote_score_swing
  FirstBoard,      \* the scoreboard at the start
  BoardMoves,      \* what an entry of the scoreboard may change to
  Rosters,         \* games for which the summary page has a roster
  Garbled,         \* a score that is not a number
  NoGame           \* no row, no game, not listed

Entries == {FirstBoard[g] : g \in Games} \cup BoardMoves

ASSUME LiveGamesAssumption ==
  /\ GameOrder \in Seq(Games) /\ SwingThreshold \in Nat \ {0}
  /\ FirstBoard \in [Games -> Entries]
  /\ Names \in [GameMarkets -> SUBSET Games]

VARIABLES
  board,     \* the provider's scoreboard: game -> [home, away] or NoGame
  gproc,     \* up, stopping or down
  gtick,     \* the tick: pc, games fetched, markets left, the market in hand,
             \* its game, the score read before it was overwritten, games seen
  game_map,  \* market_game_map
  latest,    \* game_state: the newest score of a game
  swings,    \* game_events: number of score_swing rows of a game
  lineups,   \* games with a row of game_lineups
  jumps,     \* auxiliary: how often the stored score of a game jumped
  failures   \* auxiliary: failed ticks and crashes

gvars == <<board, gproc, gtick, game_map, latest, swings, lineups, jumps, failures>>

Resting(pc) ==
  [pc |-> pc, games |-> [g \in Games |-> NoGame], left |-> {}, market |-> NoGame,
   game |-> NoGame, prev |-> NoGame, seen |-> {}]

GInit ==
  /\ board = FirstBoard /\ gproc = "up" /\ gtick = Resting("wait")
  /\ game_map = [m \in GameMarkets |-> NoGame] /\ latest = [g \in Games |-> NoGame]
  /\ swings = [g \in Games |-> 0] /\ lineups = {}
  /\ jumps = [g \in Games |-> 0] /\ failures = 0

(* A score that is not a number is taken for zero.                         *)
Parsed(entry) ==
  IF entry = NoGame THEN NoGame
  ELSE [side \in {"home", "away"} |-> IF entry[side] = Garbled THEN 0 ELSE entry[side]]

(* The first game on the list both of whose teams the question names.      *)
match_market_to_game(m, games) ==
  LET named == {i \in DOMAIN GameOrder : /\ GameOrder[i] \in Names[m]
                                         /\ games[GameOrder[i]] # NoGame}
  IN  IF named = {} THEN NoGame ELSE GameOrder[Min(named)]

AbsDiff(x, y) == IF x < y THEN y - x ELSE x - y

Swung(old, new) ==
  \/ AbsDiff(old.home, new.home) >= SwingThreshold
  \/ AbsDiff(old.away, new.away) >= SwingThreshold

Now == Parsed(gtick.games[gtick.game])
-----------------------------------------------------------------------------
(* _tick.                                                                  *)

FetchGames ==
  /\ gtick.pc = "fetch"
  /\ gtick' = IF \A g \in Games : board[g] = NoGame THEN Resting("wait")
              ELSE [Resting("next") EXCEPT !.games = board, !.left = GameMarkets]
  /\ UNCHANGED <<events, board, gproc, game_map, latest, swings, lineups, jumps, failures>>

(* Mutant of PrevScore: the score is read once a tick for a game.          *)
PrevScoreOfTick(g) == IF g \in gtick.seen THEN gtick.prev ELSE latest[g]

PrevScore(g) == latest[g]

(* The rows come in no particular order; a market without a game is passed *)
(* over.  The stored score is read before it is overwritten.               *)
NextMarket(m) ==
  /\ gtick.pc = "next" /\ m \in gtick.left
  /\ LET g == match_market_to_game(m, gtick.games)
     IN  gtick' = IF g = NoGame THEN [gtick EXCEPT !.left = @ \ {m}]
                  ELSE [gtick EXCEPT !.pc = "map", !.left = @ \ {m}, !.market = m,
                                     !.game = g, !.prev = PrevScore(g)]
  /\ UNCHANGED <<events, board, gproc, game_map, latest, swings, lineups, jumps, failures>>

UpsertMap ==
  /\ gtick.pc = "map"
  /\ game_map' = [game_map EXCEPT ![gtick.market] = gtick.game]
  /\ gtick' = [gtick EXCEPT !.pc = "state"]
  /\ UNCHANGED <<events, board, gproc, latest, swings, lineups, jumps, failures>>

InsertState ==
  /\ gtick.pc = "state"
  /\ latest' = [latest EXCEPT ![gtick.game] = Now]
  /\ LET old == latest[gtick.game]
     IN  jumps' = IF old # NoGame /\ Swung(old, Now)
                  THEN [jumps EXCEPT ![gtick.game] = @ + 1] ELSE jumps
  /\ gtick' = [gtick EXCEPT !.pc = IF gtick.prev # NoGame /\ Swung(gtick.prev, Now)
                                   THEN "swing" ELSE "lineup"]
  /\ UNCHANGED <<events, board, gproc, game_map, swings, lineups, failures>>

InsertSwing ==
  /\ gtick.pc = "swing"
  /\ swings' = [swings EXCEPT ![gtick.game] = @ + 1]
  /\ gtick' = [gtick EXCEPT !.pc = "lineup"]
  /\ UNCHANGED <<events, board, gproc, game_map, latest, lineups, jumps, failures>>

(* Once a tick for a game; a page that cannot be read counts as no roster. *)
Lineup ==
  /\ gtick.pc = "lineup"
  /\ gtick' = [gtick EXCEPT !.pc = "next", !.seen = @ \cup {gtick.game}]
  /\ \/ lineups' = IF gtick.game \in Rosters \ gtick.seen
                   THEN lineups \cup {gtick.game} ELSE lineups
     \/ gtick.game \notin gtick.seen /\ UNCHANGED lineups
  /\ UNCHANGED <<events, board, gproc, game_map, latest, swings, jumps, failures>>

TickDone ==
  /\ gtick.pc = "next" /\ gtick.left = {}
  /\ gtick' = Resting("wait")
  /\ UNCHANGED <<events, board, gproc, game_map, latest, swings, lineups, jumps, failures>>

(* Mutant of TickFails: the failure ends the loop.                         *)
TickFailsForGood ==
  /\ gtick.pc \notin {"wait", "off"} /\ Event
  /\ gtick' = Resting("off") /\ failures' = failures + 1
  /\ UNCHANGED <<board, gproc, game_map, latest, swings, lineups, jumps>>

(* Whatever was written stays; the rest of the tick is given up.           *)
TickFails ==
  /\ gtick.pc \notin {"wait", "off"} /\ Event
  /\ gtick' = Resting("wait") /\ failures' = failures + 1
  /\ UNCHANGED <<board, gproc, game_map, latest, swings, lineups, jumps>>
-----------------------------------------------------------------------------
(* _run.  The first tick does not wait.                                    *)

StartTick ==
  /\ gtick.pc = "wait" /\ gproc = "up"
  /\ gtick' = Resting("fetch")
  /\ UNCHANGED <<events, board, gproc, game_map, latest, swings, lineups, jumps, failures>>

GStop ==
  /\ gproc = "up" /\ Event
  /\ gproc' = "stopping"
  /\ UNCHANGED <<board, gtick, game_map, latest, swings, lineups, jumps, failures>>

GExit ==
  /\ gproc = "stopping" /\ gtick.pc = "wait"
  /\ gproc' = "down" /\ gtick' = Resting("off")
  /\ UNCHANGED <<events, board, game_map, latest, swings, lineups, jumps, failures>>

GCrash ==
  /\ gproc # "down" /\ Event
  /\ gproc' = "down" /\ gtick' = Resting("off") /\ failures' = failures + 1
  /\ UNCHANGED <<board, game_map, latest, swings, lineups, jumps>>

GRestart ==
  /\ gproc = "down"
  /\ gproc' = "up" /\ gtick' = Resting("wait")
  /\ UNCHANGED <<events, board, game_map, latest, swings, lineups, jumps, failures>>

ScoreMoves(g, entry) ==
  /\ board[g] # entry /\ Event
  /\ board' = [board EXCEPT ![g] = entry]
  /\ UNCHANGED <<gproc, gtick, game_map, latest, swings, lineups, jumps, failures>>

GStep ==
  \/ FetchGames \/ UpsertMap \/ InsertState \/ InsertSwing \/ Lineup \/ TickDone \/ StartTick
  \/ \E m \in GameMarkets : NextMarket(m)

GNext ==
  \/ GStep \/ TickFails \/ GStop \/ GExit \/ GCrash \/ GRestart
  \/ \E g \in Games, entry \in BoardMoves : ScoreMoves(g, entry)

-----------------------------------------------------------------------------
Scores == {Parsed(entry) : entry \in Entries} \cup {NoGame}

GTypeOK ==
  /\ gproc \in {"up", "stopping", "down"}
  /\ gtick.pc \in {"off", "wait", "fetch", "next", "map", "state", "swing", "lineup"}
  /\ gtick.left \subseteq GameMarkets /\ gtick.seen \subseteq Games
  /\ gtick.game \in Games \cup {NoGame} /\ gtick.market \in GameMarkets \cup {NoGame}
  /\ game_map \in [GameMarkets -> Games \cup {NoGame}]
  /\ latest \in [Games -> Scores] /\ lineups \subseteq Rosters
  /\ swings \in [Games -> Nat] /\ jumps \in [Games -> Nat] /\ failures \in 0..MaxEvents

(* However many markets a game has, a jump of its stored score becomes one *)
(* event, never two, and none is missing but the one being written and     *)
(* those that a failure or a crash cut off between the score and its event *)
(* (_tick, which stores the score first and compares with what it read     *)
(* before).                                                                *)
SwingPerJump ==
  \A g \in Games :
    LET pending == IF gtick.pc = "swing" /\ gtick.game = g THEN 1 ELSE 0
    IN  /\ swings[g] <= jumps[g]
        /\ jumps[g] <= swings[g] + pending + failures

ScoreIsCurrent(g) ==
  \/ board[g] = NoGame
  \/ \A m \in GameMarkets : match_market_to_game(m, board) # g
  \/ latest[g] = Parsed(board[g])
=============================================================================
