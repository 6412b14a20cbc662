------------------------------ MODULE QuizGame ------------------------------
(***************************************************************************)
(* What a game room promises its players, without sessions, messages and   *)
(* clocks: a game opens and closes RoundCount rounds one by one, a round   *)
(* is won once and by a player, and nobody comes or goes during a game.    *)
(***************************************************************************)
EXTENDS Integers, FiniteSets

CONSTANTS
  RoundCount,  \* rounds of a game
  Nobody       \* the winner of a round that nobody has won

VARIABLES
  phase,       \* "ABSENT" before the room exists and after it is gone
  players,     \* the set of users in the room
  round,       \* the round being played, or to be played next; 0 without a game
  winners      \* round -> winner, of the game that is running

quizVars == <<phase, players, round, winners>>

Unscored == [i \in 0 .. RoundCount - 1 |-> Nobody]

QuizInit ==
  /\ phase = "ABSENT"
  /\ players = {}
  /\ round = 0
  /\ winners = Unscored

Create(u) ==
  /\ phase = "ABSENT"
  /\ phase' = "WAITING"
  /\ players' = {u}
  /\ UNCHANGED <<round, winners>>

Join(u) ==
  /\ phase = "WAITING"
  /\ players' = players \cup {u}
  /\ UNCHANGED <<phase, round, winners>>

\* A user who holds more than one place stays a player.
Leave(u) ==
  /\ phase = "WAITING"
  /\ u \in players
  /\ players' \in {players, players \ {u}}
  /\ players' # {}
  /\ UNCHANGED <<phase, round, winners>>

Dissolve(u) ==
  /\ phase = "WAITING"
  /\ players = {u}
  /\ phase' = "ABSENT"
  /\ players' = {}
  /\ UNCHANGED <<round, winners>>

\* From any phase: a running game is given up for a new one.
Start ==
  /\ phase # "ABSENT"
  /\ phase' = "READY"
  /\ round' = 0
  /\ winners' = Unscored
  /\ UNCHANGED players

OpenRound ==
  /\ phase \in {"READY", "SHOWING_ROUND_RESULT"}
  /\ phase' = "PLAYING"
  /\ UNCHANGED <<players, round, winners>>

Win(u) ==
  /\ phase = "PLAYING"
  /\ u \in players
  /\ winners[round] = Nobody
  /\ winners' = [winners EXCEPT ![round] = u]
  /\ UNCHANGED <<phase, players, round>>

CloseRound ==
  /\ phase = "PLAYING"
  /\ round' = round + 1
  /\ phase' = IF round' < RoundCount THEN "SHOWING_ROUND_RESULT"
                                     ELSE "SHOWING_TOTAL_RESULT"
  /\ UNCHANGED <<players, winners>>

Finish ==
  /\ phase = "SHOWING_TOTAL_RESULT"
  /\ phase' = "WAITING"
  /\ round' = 0
  /\ winners' = Unscored
  /\ UNCHANGED players

QuizNext ==
  \/ \E u \in players' : Create(u) \/ Join(u)
  \/ \E u \in players : Leave(u) \/ Dissolve(u) \/ Win(u)
  \/ Start \/ OpenRound \/ CloseRound \/ Finish

QuizSpec == QuizInit /\ [][QuizNext]_quizVars
=============================================================================
