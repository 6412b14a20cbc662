------------------------------ MODULE GameRoom ------------------------------
(***************************************************************************)
(* One struct game_room and the operations of game.c on it, as operators   *)
(* from a room record to a room record.  num_of_users is the length of     *)
(* member_pk_list; capacity and total_round are the same in every room     *)
(* (create_game_room), so they are constants here.                         *)
(*                                                                         *)
(* Operators whose name begins with Wrong are not the code: each is a      *)
(* mistake the operator below it could have, and some property is shown to *)
(* notice it.                                                              *)
(***************************************************************************)
EXTENDS Integers, Sequences, FiniteSets, SequencesExt

CONSTANTS
  Capacity,          \* MAX_GAME_ROOM_CAPACITY
  TotalRound,        \* MAX_GAME_ROUND
  ReadyTime,         \* MAX_ROUND_TIMER_READY
  SubmitTime,        \* MAX_ROUND_TIMER_SUBMIT
  RoundResultTime,   \* MAX_ROUND_TIMER_SHOW_ROUND_RESULT
  TotalResultTime,   \* MAX_ROUND_TIMER_SHOW_TOTAL_RESULT
  TimerCap           \* bound: a timer that would pass it stays on it

Limits == {ReadyTime, SubmitTime, RoundResultTime, TotalResultTime}

\* The cap lies above every limit, so it never hides that a limit is passed.
ASSUME RoomAssumption ==
  /\ Capacity \in Nat \ {0}
  /\ TotalRound \in Nat \ {0}
  /\ TimerCap \in Nat
  /\ Limits \subseteq Nat
  /\ \A limit \in Limits : limit < TimerCap

Rounds == 0 .. TotalRound - 1        \* winner_of_round is indexed from 0

Phases == {"WAITING", "READY", "PLAYING",
           "SHOWING_ROUND_RESULT", "SHOWING_TOTAL_RESULT"}

NoWinner  == -1                      \* what start_game stores for a round
NoProblem == ""                      \* what start_game stores in problem

TimeLimit == [READY                |-> ReadyTime,
              PLAYING              |-> SubmitTime,
              SHOWING_ROUND_RESULT |-> RoundResultTime,
              SHOWING_TOTAL_RESULT |-> TotalResultTime]

WrongUncleared ==
  [status          |-> "WAITING",
   member_pk_list  |-> <<>>,
   curr_round      |-> TotalRound + 1,
   winner_of_round |-> [i \in Rounds |-> 0],
   problem         |-> NoProblem,
   timer           |-> 0]

\* A room as malloc, memset and create_game_room leave it.
create_game_room ==
  [status          |-> "WAITING",
   member_pk_list  |-> <<>>,
   curr_round      |-> 0,
   winner_of_round |-> [i \in Rounds |-> 0],
   problem         |-> NoProblem,
   timer           |-> 0]

WrongNeverFull(room) == room.status = "WAITING"

WrongJoinRunning(room) == Len(room.member_pk_list) # Capacity

\* join_game_room answers 0: there is a free slot and no game is running.
CanJoin(room) ==
  /\ Len(room.member_pk_list) # Capacity
  /\ room.status = "WAITING"

join_game_room(room, pk) ==
  [room EXCEPT !.member_pk_list = Append(@, pk)]

WrongLeaveLast(room, pk) ==
  [room EXCEPT !.member_pk_list = Front(@)]

\* The first occurrence goes, the members behind it move up one slot.
leave_game_room(room, pk) ==
  [room EXCEPT !.member_pk_list = RemoveFirst(@, pk)]

WrongKeepScores(room) ==
  [room EXCEPT !.status     = "READY",
               !.curr_round = 0,
               !.timer      = 0,
               !.problem    = NoProblem]

\* No look at the status: a running game is started over.
start_game(room) ==
  [room EXCEPT !.status          = "READY",
               !.curr_round      = 0,
               !.timer           = 0,
               !.winner_of_round = [i \in Rounds |-> NoWinner],
               !.problem         = NoProblem]

WrongLastAnswer(room, pk, message) ==
  IF room.status = "PLAYING" /\ message = room.problem
  THEN [room EXCEPT !.winner_of_round[room.curr_round] = pk]
  ELSE room

WrongLateAnswer(room, pk, message) ==
  IF /\ room.curr_round \in Rounds
     /\ message = room.problem
     /\ room.winner_of_round[room.curr_round] = NoWinner
  THEN [room EXCEPT !.winner_of_round[room.curr_round] = pk]
  ELSE room

\* A line sent by pk to a room, the scoring part of route_chatting.
Scored(room, pk, message) ==
  IF /\ room.status = "PLAYING"
     /\ message = room.problem
     /\ room.winner_of_round[room.curr_round] = NoWinner
  THEN [room EXCEPT !.winner_of_round[room.curr_round] = pk]
  ELSE room

\* room->timer += dt
Aged(room, dt) ==
  [room EXCEPT !.timer = IF @ + dt > TimerCap THEN TimerCap ELSE @ + dt]

\* The test every handler of update_game_rooms but the WAITING one makes.
Expired(room) ==
  /\ room.status # "WAITING"
  /\ room.timer > TimeLimit[room.status]

\* READY or SHOWING_ROUND_RESULT is over: the next round opens with a sentence
\* chosen by notify_round_start.
RoundOpened(room, problem) ==
  [room EXCEPT !.status = "PLAYING", !.timer = 0, !.problem = problem]

WrongOneRoundMore(room) ==
  [room EXCEPT !.timer      = 0,
               !.curr_round = @ + 1,
               !.status     = IF room.curr_round + 1 > TotalRound
                              THEN "SHOWING_TOTAL_RESULT"
                              ELSE "SHOWING_ROUND_RESULT"]

\* Not the code: a last round that nobody has won is played again.
WrongRepeatUnwon(room) ==
  LET last == room.curr_round + 1 >= TotalRound
      won  == room.winner_of_round[room.curr_round] # NoWinner
  IN  [room EXCEPT !.timer      = 0,
                   !.curr_round = IF last /\ ~won THEN @ ELSE @ + 1,
                   !.status     = IF last /\ won THEN "SHOWING_TOTAL_RESULT"
                                  ELSE "SHOWING_ROUND_RESULT"]

\* PLAYING is over.
RoundClosed(room) ==
  [room EXCEPT !.timer      = 0,
               !.curr_round = @ + 1,
               !.status     = IF room.curr_round + 1 >= TotalRound
                              THEN "SHOWING_TOTAL_RESULT"
                              ELSE "SHOWING_ROUND_RESULT"]

\* SHOWING_TOTAL_RESULT is over.
end_game(room) ==
  [room EXCEPT !.timer = 0, !.status = "WAITING"]

\* Not the code: the last round is not counted.
WrongWinCount(room, j) ==
  Cardinality({i \in Rounds \ {TotalRound - 1} : room.winner_of_round[i] = room.member_pk_list[j]})

\* win_count[j] of notify_game_end.
WinCount(room, j) ==
  Cardinality({i \in Rounds : room.winner_of_round[i] = room.member_pk_list[j]})

\* total_winner: the first member that no other member beats.
TotalWinner(room) ==
  LET slots == DOMAIN room.member_pk_list
      best  == CHOOSE j \in slots : \A k \in slots :
                 /\ WinCount(room, k) <= WinCount(room, j)
                 /\ k < j => WinCount(room, k) < WinCount(room, j)
  IN  room.member_pk_list[best]

\* How many slots of the room a user holds: the times the loop over
\* member_pk_list meets him.
Slots(room, pk) ==
  Cardinality({i \in DOMAIN room.member_pk_list : room.member_pk_list[i] = pk})

-----------------------------------------------------------------------------
\* What is said of a room that users pks may be in and that takes its problems
\* from sentences.

RoomOf(pks, sentences) ==
  [status          : Phases,
   member_pk_list  : Seq(pks),
   curr_round      : 0 .. TotalRound,
   winner_of_round : [Rounds -> Int],
   problem         : sentences \cup {NoProblem},
   timer           : 0 .. TimerCap]

Players(room) == Range(room.member_pk_list)

Running(room) == room.status # "WAITING"

RoundFitsPhase(sentences, room) ==
  /\ room.status = "READY" => room.curr_round = 0
  /\ room.status = "PLAYING" => /\ room.curr_round \in Rounds
                                /\ room.problem \in sentences
  /\ room.status = "SHOWING_ROUND_RESULT" => room.curr_round \in Rounds \ {0}
  /\ room.status = "SHOWING_TOTAL_RESULT" => room.curr_round = TotalRound

\* The last round that has been opened.
LastOpened(room) ==
  IF room.status = "PLAYING" THEN room.curr_round ELSE room.curr_round - 1

ScoresFitPlayers(room) ==
  Running(room) =>
    \A i \in Rounds :
      /\ room.winner_of_round[i] \in {NoWinner} \cup Players(room)
      /\ i > LastOpened(room) => room.winner_of_round[i] = NoWinner

InTime(room) == Running(room) => room.timer <= TimeLimit[room.status]

Sound(pks, sentences, room) ==
  /\ room \in RoomOf(pks, sentences)
  /\ Len(room.member_pk_list) \in 1 .. Capacity
  /\ RoundFitsPhase(sentences, room)
  /\ ScoresFitPlayers(room)
  /\ InTime(room)
=============================================================================
