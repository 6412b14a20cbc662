-------------------------- MODULE GameServerProofs --------------------------
(***************************************************************************)
(* The invariants of GameServerProps hold for every number of workers,     *)
(* users, rooms and rounds: IInv is inductive.  First what the operations  *)
(* on one room keep, for every capacity, number of rounds and time limit,  *)
(* and what the sending operators say to whom; then the few ways in which  *)
(* a step touches the tables; then one lemma per handler, and the          *)
(* theorems.                                                               *)
(*                                                                         *)
(* Last what a step does to the games: the players of a running game and   *)
(* the winner of a round stay, and every room plays the game of QuizGame,  *)
(* whatever message is handled and whatever the clock says.                *)
(***************************************************************************)
EXTENDS GameServerProps, SequenceLemmas, FiniteSetTheorems

-----------------------------------------------------------------------------
\* leave_game_room on the member list: whoever is in it loses one place.
LEMMA RemoveFirstProperties ==
  ASSUME NEW S, NEW s \in Seq(S), NEW e \in Range(s)
  PROVE  /\ RemoveFirst(s, e) \in Seq(S)
         /\ Len(RemoveFirst(s, e)) = Len(s) - 1
         /\ Range(RemoveFirst(s, e)) \subseteq Range(s)
         /\ Range(s) \ {e} \subseteq Range(RemoveFirst(s, e))
<1> DEFINE I == {i \in 1 .. Len(s) : s[i] = e}
<1>1. Len(s) \in Nat /\ DOMAIN s = 1 .. Len(s)
  BY LenProperties
<1>2. I \subseteq Nat /\ I # {}
  BY <1>1 DEF Range
<1>3. Min(I) \in I
  BY <1>2, MinOfNaturals
<1>4. RemoveFirst(s, e) = RemoveAt(s, Min(I))
  BY <1>2 DEF RemoveFirst, SelectInSeq
<1>5. Min(I) \in 1 .. Len(s) /\ s[Min(I)] = e
  BY <1>3
<1> HIDE DEF I
<1> QED
  BY <1>4, <1>5, RemoveAtProperties

-----------------------------------------------------------------------------
\* The operations on a room: each leaves a Sound room Sound.

\* route_create_room: a new room with its creator in it.
LEMMA CreatedSound ==
  ASSUME NEW P, NEW Q, NEW pk \in P
  PROVE  LET room == join_game_room(create_game_room, pk)
         IN  /\ Sound(P, Q, room)
             /\ Players(room) = {pk}
             /\ room.status = "WAITING"
<1> DEFINE room == join_game_room(create_game_room, pk)
<1>1. Append(<<>>, pk) = <<pk>> /\ <<pk>> \in Seq(P) /\ Len(<<pk>>) = 1
  OBVIOUS
<1>2. room = [create_game_room EXCEPT !.member_pk_list = <<pk>>]
  BY <1>1 DEF join_game_room, create_game_room
<1>3. /\ room.status = "WAITING"
      /\ room.member_pk_list = <<pk>>
  BY <1>2 DEF create_game_room
<1>4. room \in RoomOf(P, Q)
  <2>1. [i \in Rounds |-> 0] \in [Rounds -> Int]
    OBVIOUS
  <2>2. 0 \in 0 .. TotalRound /\ 0 \in 0 .. TimerCap
    BY RoomAssumption
  <2> QED
    BY <1>1, <1>2, <2>1, <2>2 DEF create_game_room, RoomOf, Phases
<1>5. Players(room) = {pk}
  BY <1>1, <1>3 DEF Players, Range
<1> HIDE DEF room
<1>6. Sound(P, Q, room)
  BY <1>1, <1>3, <1>4, RoomAssumption
  DEF Sound, RoundFitsPhase, ScoresFitPlayers, InTime, Running
<1> QED
  BY <1>3, <1>5, <1>6 DEF room

\* join_game_room, when it answers 0.
LEMMA JoinedSound ==
  ASSUME NEW P, NEW Q, NEW room, Sound(P, Q, room), CanJoin(room), NEW pk \in P
  PROVE  LET joined == join_game_room(room, pk)
         IN  /\ Sound(P, Q, joined)
             /\ Players(joined) = Players(room) \cup {pk}
             /\ joined.status = "WAITING"
<1> DEFINE joined == join_game_room(room, pk)
           old    == room.member_pk_list
           new    == Append(old, pk)
<1>1. room \in RoomOf(P, Q) /\ old \in Seq(P) /\ Len(old) \in 1 .. Capacity
  BY DEF Sound, RoomOf
<1>2. Len(old) # Capacity /\ room.status = "WAITING"
  BY DEF CanJoin
<1>3. /\ new \in Seq(P)
      /\ Len(new) = Len(old) + 1
      /\ \A i \in 1 .. Len(old) : new[i] = old[i]
      /\ new[Len(old) + 1] = pk
  BY <1>1, AppendProperties
<1>4. Len(new) \in 1 .. Capacity
  BY <1>1, <1>2, <1>3, RoomAssumption
<1>5. joined \in RoomOf(P, Q) /\ joined.status = "WAITING" /\ joined.member_pk_list = new
  BY <1>1, <1>2, <1>3 DEF join_game_room, RoomOf
<1>6. Range(new) = Range(old) \cup {pk}
  <2>1. DOMAIN old = 1 .. Len(old) /\ DOMAIN new = 1 .. Len(old) + 1 /\ Len(old) \in Nat
    BY <1>1, <1>3, LenProperties
  <2>2. 1 .. Len(old) + 1 = (1 .. Len(old)) \cup {Len(old) + 1}
    BY <2>1
  <2> QED
    BY <2>1, <2>2, <1>3 DEF Range
<1> HIDE DEF joined, new
<1>7. Sound(P, Q, joined)
  BY <1>4, <1>5 DEF Sound, RoundFitsPhase, ScoresFitPlayers, InTime, Running
<1>8. Players(joined) = Players(room) \cup {pk}
  BY <1>5, <1>6 DEF Players
<1> QED
  BY <1>5, <1>7, <1>8 DEF joined

\* leave_game_room, when it finds the user: the others stay, and the list is
\* empty only if there were none.
LEMMA LeftSound ==
  ASSUME NEW P, NEW Q, NEW room, Sound(P, Q, room), room.status = "WAITING",
         NEW pk \in Players(room)
  PROVE  LET left == leave_game_room(room, pk)
         IN  /\ left.member_pk_list # <<>> => Sound(P, Q, left)
             /\ left.member_pk_list = <<>> => Players(room) = {pk}
             /\ Players(left) \subseteq Players(room)
             /\ Players(room) \ {pk} \subseteq Players(left)
             /\ left.status = "WAITING"
<1> DEFINE left == leave_game_room(room, pk)
           old  == room.member_pk_list
           new  == RemoveFirst(old, pk)
<1>1. room \in RoomOf(P, Q) /\ old \in Seq(P) /\ Len(old) \in 1 .. Capacity
  BY DEF Sound, RoomOf
<1>2. /\ new \in Seq(P)
      /\ Len(new) = Len(old) - 1
      /\ Range(new) \subseteq Range(old)
      /\ Range(old) \ {pk} \subseteq Range(new)
  BY <1>1, RemoveFirstProperties DEF Players
<1>3. left \in RoomOf(P, Q) /\ left.status = "WAITING" /\ left.member_pk_list = new
  BY <1>1, <1>2 DEF leave_game_room, RoomOf
<1> HIDE DEF left, new
<1>4. ASSUME new # <<>>
      PROVE  Sound(P, Q, left)
  <2>1. Len(new) \in 1 .. Capacity
    <3>1. Len(new) \in Nat /\ Len(new) # 0
      BY <1>2, <1>4, EmptySeq
    <3>2. Len(old) \in Nat /\ Len(old) <= Capacity /\ Capacity \in Nat
      BY <1>1, RoomAssumption
    <3>3. Len(new) = Len(old) - 1
      BY <1>2
    <3>4. \A m, n, c \in Nat : m # 0 /\ n <= c /\ m = n - 1 => m \in 1 .. c
      OBVIOUS
    <3> QED
      BY <3>1, <3>2, <3>3, <3>4
  <2> QED
    BY <2>1, <1>3 DEF Sound, RoundFitsPhase, ScoresFitPlayers, InTime, Running
<1>5. ASSUME new = <<>>
      PROVE  Players(room) = {pk}
  <2>1. Range(new) = {}
    BY <1>5 DEF Range
  <2> QED
    BY <2>1, <1>2 DEF Players
<1>6. Players(left) = Range(new)
  BY <1>3 DEF Players
<1> QED
  BY <1>2, <1>3, <1>4, <1>5, <1>6 DEF left, Players

\* start_game, in whatever phase it finds the room.
LEMMA StartedSound ==
  ASSUME NEW P, NEW Q, NEW room, Sound(P, Q, room)
  PROVE  LET started == start_game(room)
         IN  /\ Sound(P, Q, started)
             /\ started.member_pk_list = room.member_pk_list
             /\ started.status = "READY"
<1> DEFINE started == start_game(room)
<1>1. room \in RoomOf(P, Q) /\ Len(room.member_pk_list) \in 1 .. Capacity
  BY DEF Sound
<1>2. /\ started.status = "READY"
      /\ started.curr_round = 0
      /\ started.timer = 0
      /\ started.member_pk_list = room.member_pk_list
      /\ started.winner_of_round = [i \in Rounds |-> NoWinner]
  BY <1>1 DEF start_game, RoomOf
<1>3. started \in RoomOf(P, Q)
  <2>1. [i \in Rounds |-> NoWinner] \in [Rounds -> Int]
    BY DEF NoWinner
  <2>2. 0 \in 0 .. TotalRound /\ 0 \in 0 .. TimerCap
    BY RoomAssumption
  <2> QED
    BY <1>1, <2>1, <2>2 DEF start_game, RoomOf, Phases
<1> HIDE DEF started
<1>4. InTime(started)
  BY <1>2, RoomAssumption DEF InTime, TimeLimit, Limits
<1> QED
  BY <1>1, <1>2, <1>3, <1>4 DEF Sound, RoundFitsPhase, ScoresFitPlayers, started

\* A right answer, or any other line, of a player.
LEMMA ScoredSound ==
  ASSUME NEW P, NEW Q, NEW room, Sound(P, Q, room),
         NEW pk, pk \in Players(room), pk \in Int, NEW message
  PROVE  LET scored == Scored(room, pk, message)
         IN  /\ Sound(P, Q, scored)
             /\ scored.member_pk_list = room.member_pk_list
             /\ scored.status = room.status
             /\ scored.curr_round = room.curr_round
             /\ \A i \in Rounds :
                  \/ scored.winner_of_round[i] = room.winner_of_round[i]
                  \/ /\ room.status = "PLAYING" /\ i = room.curr_round
                     /\ room.winner_of_round[i] = NoWinner
                     /\ scored.winner_of_round[i] = pk
<1> DEFINE scored == Scored(room, pk, message)
<1>1. CASE scored = room
  BY <1>1
<1>2. CASE scored # room
  <2>1. /\ room.status = "PLAYING"
        /\ room.winner_of_round[room.curr_round] = NoWinner
        /\ scored = [room EXCEPT !.winner_of_round[room.curr_round] = pk]
    BY <1>2 DEF Scored
  <2>2. room \in RoomOf(P, Q) /\ room.curr_round \in Rounds
    BY <2>1 DEF Sound, RoundFitsPhase
  <2>3. /\ scored.status = room.status
        /\ scored.member_pk_list = room.member_pk_list
        /\ scored.curr_round = room.curr_round
        /\ scored.problem = room.problem
        /\ scored.timer = room.timer
        /\ scored.winner_of_round = [room.winner_of_round EXCEPT ![room.curr_round] = pk]
    BY <2>1, <2>2 DEF RoomOf
  <2>4. scored \in RoomOf(P, Q)
    <3>1. [room.winner_of_round EXCEPT ![room.curr_round] = pk] \in [Rounds -> Int]
      BY <2>2 DEF RoomOf
    <3> QED
      BY <3>1, <2>1, <2>2 DEF RoomOf
  <2> HIDE DEF scored
  <2>5. ScoresFitPlayers(scored)
    <3>1. \A i \in Rounds : scored.winner_of_round[i] =
                             IF i = room.curr_round THEN pk ELSE room.winner_of_round[i]
      BY <2>2, <2>3 DEF RoomOf
    <3>2. LastOpened(scored) = room.curr_round /\ LastOpened(room) = room.curr_round
      BY <2>1, <2>3 DEF LastOpened
    <3>3. Players(scored) = Players(room)
      BY <2>3 DEF Players
    <3>4. ~(room.curr_round > room.curr_round)
      BY <2>2 DEF Rounds
    <3> QED
      BY <2>1, <3>1, <3>2, <3>3, <3>4 DEF Sound, ScoresFitPlayers, Running
  <2>6. Sound(P, Q, scored)
    BY <2>3, <2>4, <2>5 DEF Sound, RoundFitsPhase, InTime, Running
  <2>7. \A i \in Rounds : scored.winner_of_round[i] =
                           IF i = room.curr_round THEN pk ELSE room.winner_of_round[i]
    BY <2>2, <2>3 DEF RoomOf
  <2> QED
    BY <2>1, <2>3, <2>6, <2>7 DEF scored
<1> QED
  BY <1>1, <1>2

\* What the passing of time leaves of a room, before its phase is looked at.
LEMMA AgedProperties ==
  ASSUME NEW P, NEW Q, NEW room, Sound(P, Q, room), NEW dt \in Nat
  PROVE  LET aged == Aged(room, dt)
         IN  /\ aged \in RoomOf(P, Q)
             /\ aged.status = room.status
             /\ aged.member_pk_list = room.member_pk_list
             /\ aged.curr_round = room.curr_round
             /\ aged.winner_of_round = room.winner_of_round
             /\ aged.problem = room.problem
<1> DEFINE aged == Aged(room, dt)
           time == IF room.timer + dt > TimerCap THEN TimerCap ELSE room.timer + dt
<1>1. room \in RoomOf(P, Q) /\ room.timer \in 0 .. TimerCap
  BY DEF Sound, RoomOf
<1>2. time \in 0 .. TimerCap
  BY <1>1, RoomAssumption
<1>3. aged = [room EXCEPT !.timer = time]
  BY DEF Aged
<1> HIDE DEF time, aged
<1>4. aged \in RoomOf(P, Q)
  BY <1>1, <1>2, <1>3 DEF RoomOf
<1> QED
  BY <1>1, <1>3, <1>4 DEF RoomOf, aged

\* A room that update_game_rooms leaves in its phase.
LEMMA AgedSound ==
  ASSUME NEW P, NEW Q, NEW room, Sound(P, Q, room), NEW dt \in Nat,
         ~Expired(Aged(room, dt))
  PROVE  Sound(P, Q, Aged(room, dt))
<1> DEFINE aged == Aged(room, dt)
<1>1. /\ aged \in RoomOf(P, Q)
      /\ aged.status = room.status
      /\ aged.member_pk_list = room.member_pk_list
      /\ aged.curr_round = room.curr_round
      /\ aged.winner_of_round = room.winner_of_round
      /\ aged.problem = room.problem
  BY AgedProperties
<1>2. ~Expired(aged)
  OBVIOUS
<1> HIDE DEF aged
<1>3. InTime(aged)
  <2> SUFFICES ASSUME aged.status # "WAITING"
               PROVE  aged.timer <= TimeLimit[aged.status]
    BY DEF InTime, Running
  <2>1. ~(aged.timer > TimeLimit[aged.status])
    BY <1>2 DEF Expired
  <2>2. aged.timer \in Int /\ TimeLimit[aged.status] \in Int
    BY <1>1, RoomAssumption DEF RoomOf, TimeLimit, Phases, Limits
  <2> QED
    BY <2>1, <2>2
<1> QED
  BY <1>1, <1>3 DEF Sound, RoundFitsPhase, ScoresFitPlayers, Players, Running, LastOpened, aged

\* READY or SHOWING_ROUND_RESULT gives way to the next round.
LEMMA OpenedSound ==
  ASSUME NEW P, NEW Q, NEW room, Sound(P, Q, room), NEW dt \in Nat, NEW problem \in Q,
         room.status \in {"READY", "SHOWING_ROUND_RESULT"}
  PROVE  LET opened == RoundOpened(Aged(room, dt), problem)
         IN  /\ Sound(P, Q, opened)
             /\ opened.member_pk_list = room.member_pk_list
             /\ opened.status = "PLAYING"
             /\ opened.curr_round = room.curr_round
             /\ opened.winner_of_round = room.winner_of_round
<1> DEFINE aged   == Aged(room, dt)
           opened == RoundOpened(aged, problem)
<1>1. /\ aged \in RoomOf(P, Q)
      /\ aged.status = room.status
      /\ aged.member_pk_list = room.member_pk_list
      /\ aged.curr_round = room.curr_round
      /\ aged.winner_of_round = room.winner_of_round
  BY AgedProperties
<1> HIDE DEF aged
<1>2. /\ opened.status = "PLAYING"
      /\ opened.timer = 0
      /\ opened.problem = problem
      /\ opened.member_pk_list = room.member_pk_list
      /\ opened.curr_round = room.curr_round
      /\ opened.winner_of_round = room.winner_of_round
  BY <1>1 DEF RoundOpened, RoomOf
<1>3. opened \in RoomOf(P, Q)
  <2>1. 0 \in 0 .. TimerCap
    BY RoomAssumption
  <2> QED
    BY <1>1, <2>1 DEF RoundOpened, RoomOf, Phases
<1> HIDE DEF opened
<1>4. room.curr_round \in Rounds
  <2>1. CASE room.status = "READY"
    <3>1. room.curr_round = 0
      BY <2>1 DEF Sound, RoundFitsPhase
    <3> QED
      BY <3>1, RoomAssumption DEF Rounds
  <2>2. CASE room.status = "SHOWING_ROUND_RESULT"
    BY <2>2 DEF Sound, RoundFitsPhase
  <2> QED
    BY <2>1, <2>2
<1>5. ScoresFitPlayers(opened)
  <2>1. LastOpened(opened) = room.curr_round /\ LastOpened(room) = room.curr_round - 1
    BY <1>2 DEF LastOpened
  <2>2. \A i \in Rounds : i > room.curr_round => i > room.curr_round - 1
    BY <1>4 DEF Rounds
  <2>3. Players(opened) = Players(room)
    BY <1>2 DEF Players
  <2> QED
    BY <1>2, <2>1, <2>2, <2>3 DEF Sound, ScoresFitPlayers, Running
<1>6. InTime(opened)
  BY <1>2, RoomAssumption DEF InTime, TimeLimit, Limits
<1>7. Sound(P, Q, opened)
  BY <1>2, <1>3, <1>4, <1>5, <1>6 DEF Sound, RoundFitsPhase
<1> QED
  BY <1>2, <1>7 DEF opened, aged

\* PLAYING is over.
LEMMA ClosedSound ==
  ASSUME NEW P, NEW Q, NEW room, Sound(P, Q, room), NEW dt \in Nat,
         room.status = "PLAYING"
  PROVE  LET closed == RoundClosed(Aged(room, dt))
         IN  /\ Sound(P, Q, closed)
             /\ closed.member_pk_list = room.member_pk_list
             /\ closed.curr_round = room.curr_round + 1
             /\ closed.status = IF room.curr_round + 1 < TotalRound
                                THEN "SHOWING_ROUND_RESULT" ELSE "SHOWING_TOTAL_RESULT"
             /\ closed.winner_of_round = room.winner_of_round
<1> DEFINE aged   == Aged(room, dt)
           closed == RoundClosed(aged)
<1>1. /\ aged \in RoomOf(P, Q)
      /\ aged.status = room.status
      /\ aged.member_pk_list = room.member_pk_list
      /\ aged.curr_round = room.curr_round
      /\ aged.winner_of_round = room.winner_of_round
  BY AgedProperties
<1>2. room.curr_round \in Rounds
  BY DEF Sound, RoundFitsPhase
<1>3. /\ room.curr_round \in Nat /\ room.curr_round < TotalRound
      /\ room.curr_round + 1 \in 0 .. TotalRound
      /\ TotalRound \in Nat
  BY <1>2, RoomAssumption DEF Rounds
<1> HIDE DEF aged
<1>4. /\ closed.timer = 0
      /\ closed.member_pk_list = room.member_pk_list
      /\ closed.curr_round = room.curr_round + 1
      /\ closed.winner_of_round = room.winner_of_round
      /\ closed.status = IF room.curr_round + 1 >= TotalRound
                         THEN "SHOWING_TOTAL_RESULT" ELSE "SHOWING_ROUND_RESULT"
  BY <1>1 DEF RoundClosed, RoomOf
<1>5. closed \in RoomOf(P, Q)
  <2>1. 0 \in 0 .. TimerCap
    BY RoomAssumption
  <2> QED
    BY <1>1, <1>3, <2>1 DEF RoundClosed, RoomOf, Phases
<1> HIDE DEF closed
<1>6. closed.status = IF room.curr_round + 1 < TotalRound
                      THEN "SHOWING_ROUND_RESULT" ELSE "SHOWING_TOTAL_RESULT"
  BY <1>3, <1>4
<1>7. RoundFitsPhase(Q, closed)
  <2>1. CASE room.curr_round + 1 < TotalRound
    <3>1. room.curr_round + 1 \in Rounds \ {0}
      BY <1>3, <2>1 DEF Rounds
    <3> QED
      BY <2>1, <3>1, <1>4, <1>6 DEF RoundFitsPhase
  <2>2. CASE ~(room.curr_round + 1 < TotalRound)
    <3>1. room.curr_round + 1 = TotalRound
      BY <1>3, <2>2
    <3> QED
      BY <2>2, <3>1, <1>4, <1>6 DEF RoundFitsPhase
  <2> QED
    BY <2>1, <2>2
<1>8. ScoresFitPlayers(closed)
  <2>1. closed.status # "PLAYING" /\ closed.status # "WAITING"
    BY <1>6
  <2>2. LastOpened(closed) = room.curr_round /\ LastOpened(room) = room.curr_round
    BY <1>3, <1>4, <2>1 DEF LastOpened
  <2>3. Players(closed) = Players(room)
    BY <1>4 DEF Players
  <2> QED
    BY <1>4, <2>2, <2>3 DEF Sound, ScoresFitPlayers, Running
<1>9. InTime(closed)
  <2>1. TimeLimit[closed.status] \in Nat
    BY <1>6, RoomAssumption DEF TimeLimit, Limits
  <2> QED
    BY <2>1, <1>4 DEF InTime
<1>10. Sound(P, Q, closed)
  BY <1>4, <1>5, <1>7, <1>8, <1>9 DEF Sound
<1> QED
  BY <1>4, <1>6, <1>10 DEF closed, aged

\* SHOWING_TOTAL_RESULT is over.
LEMMA EndedSound ==
  ASSUME NEW P, NEW Q, NEW room, Sound(P, Q, room), NEW dt \in Nat
  PROVE  LET ended == end_game(Aged(room, dt))
         IN  /\ Sound(P, Q, ended)
             /\ ended.member_pk_list = room.member_pk_list
             /\ ended.status = "WAITING"
<1> DEFINE aged  == Aged(room, dt)
           ended == end_game(aged)
<1>1. aged \in RoomOf(P, Q) /\ aged.member_pk_list = room.member_pk_list
  BY AgedProperties
<1> HIDE DEF aged
<1>2. ended.status = "WAITING" /\ ended.member_pk_list = room.member_pk_list
  BY <1>1 DEF end_game, RoomOf
<1>3. ended \in RoomOf(P, Q)
  <2>1. 0 \in 0 .. TimerCap
    BY RoomAssumption
  <2> QED
    BY <1>1, <2>1 DEF end_game, RoomOf, Phases
<1> HIDE DEF ended
<1>4. Sound(P, Q, ended)
  BY <1>2, <1>3 DEF Sound, RoundFitsPhase, ScoresFitPlayers, InTime, Running
<1> QED
  BY <1>2, <1>4 DEF ended, aged

-----------------------------------------------------------------------------
\* What is sent.

\* Copies of a message are a sequence of nothing else.
LEMMA CopiesOfOne ==
  ASSUME NEW B, NEW m \in B, NEW n \in Nat
  PROVE  /\ Copies(n, m) \in Seq(B)
         /\ Range(Copies(n, m)) = IF n = 0 THEN {} ELSE {m}
<1>1. Copies(n, m) \in [1 .. n -> B]
  BY DEF Copies
<1>2. Copies(n, m) \in Seq(B)
  BY <1>1, SeqDef
<1>3. DOMAIN Copies(n, m) = 1 .. n /\ \A i \in 1 .. n : Copies(n, m)[i] = m
  BY DEF Copies
<1>4. n # 0 => 1 \in 1 .. n
  OBVIOUS
<1>5. Range(Copies(n, m)) = {Copies(n, m)[i] : i \in 1 .. n}
  BY <1>3 DEF Range
<1> QED
  BY <1>2, <1>3, <1>4, <1>5

\* Messages behind those that have been sent add what they say.
LEMMA SentBehind ==
  ASSUME NEW B, NEW s \in Seq(B), NEW m \in B, NEW S, IsFiniteSet(S)
  PROVE  /\ s \o Copies(Cardinality(S), m) \in Seq(B)
         /\ Range(s \o Copies(Cardinality(S), m)) = Range(s) \cup IF S = {} THEN {} ELSE {m}
<1>1. Cardinality(S) \in Nat /\ (Cardinality(S) = 0 <=> S = {})
  BY FS_CardinalityType, FS_EmptySet
<1>2. /\ Copies(Cardinality(S), m) \in Seq(B)
      /\ Range(Copies(Cardinality(S), m)) = IF S = {} THEN {} ELSE {m}
  BY <1>1, CopiesOfOne
<1> QED
  BY <1>2, RangeConcatenation, ConcatProperties

\* For every worker a sequence of messages out of B.
Sendings(B) == [Workers -> Seq(B)]

\* send_message_to_queue puts one message behind those for the same worker.
LEMMA SendTells ==
  ASSUME NEW B, NEW sent \in Sendings(B), NEW m \in B, NEW w
  PROVE  /\ Send(sent, w, m) \in Sendings(B)
         /\ \A v \in Workers :
              Range(Send(sent, w, m)[v]) = Range(sent[v]) \cup IF v = w THEN {m} ELSE {}
<1>1. \A v \in Workers : Send(sent, w, m)[v] = IF v = w THEN Append(sent[v], m) ELSE sent[v]
  BY DEF Send, Sendings
<1>2. DOMAIN Send(sent, w, m) = Workers
  BY DEF Send, Sendings
<1>3. ASSUME NEW v \in Workers
      PROVE  Append(sent[v], m) \in Seq(B) /\ Range(Append(sent[v], m)) = Range(sent[v]) \cup {m}
  <2>1. sent[v] \in Seq(B)
    BY DEF Sendings
  <2>2. /\ Append(sent[v], m) \in Seq(B)
        /\ DOMAIN Append(sent[v], m) = DOMAIN sent[v] \cup {Len(sent[v]) + 1}
        /\ \A i \in DOMAIN Append(sent[v], m) :
             IF i \in DOMAIN sent[v] THEN Append(sent[v], m)[i] = sent[v][i]
                                     ELSE i = Len(sent[v]) + 1 /\ Append(sent[v], m)[i] = m
    BY <2>1, AppendedPlaces
  <2>3. Len(sent[v]) + 1 \notin DOMAIN sent[v]
    BY <2>1, PlacesOf
  <2> DEFINE a == Append(sent[v], m)
             s == sent[v]
             n == Len(s) + 1
  <2>4. /\ DOMAIN a = DOMAIN s \cup {n}
        /\ \A i \in DOMAIN s : a[i] = s[i]
        /\ a[n] = m
    BY <2>2, <2>3
  <2> HIDE DEF a, s, n
  <2>5. Range(a) = Range(s) \cup {m}
    BY <2>4 DEF Range
  <2> QED
    BY <2>2, <2>5 DEF a, s
<1>4. Send(sent, w, m) \in Sendings(B)
  <2>1. Send(sent, w, m) = [v \in Workers |-> IF v = w THEN Append(sent[v], m) ELSE sent[v]]
    BY DEF Send, Sendings
  <2> QED
    BY <1>3, <2>1 DEF Sendings
<1>5. ASSUME NEW v \in Workers
      PROVE  Range(Send(sent, w, m)[v]) = Range(sent[v]) \cup IF v = w THEN {m} ELSE {}
  BY <1>1, <1>3
<1> QED
  BY <1>4, <1>5

\* A broadcast tells the workers that carry one of the sessions.
LEMMA SessionsAreTold ==
  ASSUME NEW B, NEW sent \in Sendings(B), NEW m \in B, NEW sessions, NEW S,
         IsFiniteSet(S)
  PROVE  /\ SendToSessions(sent, sessions, S, m) \in Sendings(B)
         /\ \A v \in Workers :
              Range(SendToSessions(sent, sessions, S, m)[v]) =
                Range(sent[v]) \cup IF \E t \in S : sessions[t].mq_id = v THEN {m} ELSE {}
<1> DEFINE Of(v) == {t \in S : sessions[t].mq_id = v}
           told == SendToSessions(sent, sessions, S, m)
<1>1. DOMAIN told = Workers /\ \A v \in Workers : told[v] = sent[v] \o Copies(Cardinality(Of(v)), m)
  BY DEF SendToSessions
<1>2. told = [v \in Workers |-> sent[v] \o Copies(Cardinality(Of(v)), m)]
  BY DEF SendToSessions
<1>3. ASSUME NEW v \in Workers
      PROVE  /\ told[v] \in Seq(B)
             /\ Range(told[v]) = Range(sent[v]) \cup IF Of(v) = {} THEN {} ELSE {m}
  <2>1. IsFiniteSet(Of(v))
    BY FS_Subset
  <2>2. sent[v] \in Seq(B)
    BY DEF Sendings
  <2>3. told[v] = sent[v] \o Copies(Cardinality(Of(v)), m)
    BY <1>1
  <2> HIDE DEF told, Of
  <2> QED
    BY <2>1, <2>2, <2>3, SentBehind
<1>4. \A v : Of(v) = {} <=> ~ \E t \in S : sessions[t].mq_id = v
  OBVIOUS
<1>5. told \in Sendings(B)
  BY <1>2, <1>3 DEF Sendings
<1>6. ASSUME NEW v \in Workers
      PROVE  Range(told[v]) = Range(sent[v]) \cup
               IF \E t \in S : sessions[t].mq_id = v THEN {m} ELSE {}
  BY <1>3, <1>4
<1> HIDE DEF Of
<1> QED
  BY <1>5, <1>6

\* The notify_... functions tell the workers of those members that are connected.
LEMMA MembersAreTold ==
  ASSUME NEW B, NEW sent \in Sendings(B), NEW m \in B, NEW sessions,
         NEW P, NEW members \in Seq(P)
  PROVE  /\ NotifyMembers(sent, sessions, members, m) \in Sendings(B)
         /\ \A v \in Workers :
              Range(NotifyMembers(sent, sessions, members, m)[v]) =
                Range(sent[v]) \cup
                IF \E t \in DOMAIN sessions : /\ sessions[t].pk \in Range(members)
                                              /\ sessions[t].mq_id = v
                THEN {m} ELSE {}
<1> DEFINE Of(v) == {i \in DOMAIN members :
                       \E t \in DOMAIN sessions : /\ sessions[t].pk = members[i]
                                                  /\ sessions[t].mq_id = v}
           told == NotifyMembers(sent, sessions, members, m)
<1>1. told = [v \in Workers |-> sent[v] \o Copies(Cardinality(Of(v)), m)]
  BY DEF NotifyMembers
<1>2. IsFiniteSet(DOMAIN members)
  BY PlacesOf, FS_Interval
<1>3. ASSUME NEW v \in Workers
      PROVE  /\ told[v] \in Seq(B)
             /\ Range(told[v]) = Range(sent[v]) \cup IF Of(v) = {} THEN {} ELSE {m}
  <2>1. IsFiniteSet(Of(v))
    BY <1>2, FS_Subset
  <2>2. sent[v] \in Seq(B)
    BY DEF Sendings
  <2>3. told[v] = sent[v] \o Copies(Cardinality(Of(v)), m)
    BY <1>1
  <2> HIDE DEF told, Of
  <2> QED
    BY <2>1, <2>2, <2>3, SentBehind
<1>4. \A v : Of(v) = {} <=> ~ \E t \in DOMAIN sessions : /\ sessions[t].pk \in Range(members)
                                                         /\ sessions[t].mq_id = v
  BY DEF Range
<1>5. told \in Sendings(B)
  BY <1>1, <1>3 DEF Sendings
<1>6. ASSUME NEW v \in Workers
      PROVE  Range(told[v]) = Range(sent[v]) \cup
               IF \E t \in DOMAIN sessions : /\ sessions[t].pk \in Range(members)
                                             /\ sessions[t].mq_id = v
               THEN {m} ELSE {}
  BY <1>3, <1>4
<1> HIDE DEF Of
<1> QED
  BY <1>5, <1>6

\* Nothing has been said to anybody.
LEMMA NothingTells ==
  ASSUME NEW B
  PROVE  /\ Nothing \in Sendings(B)
         /\ \A v \in Workers : Range(Nothing[v]) = {}
BY EmptySeq DEF Nothing, Range, Sendings

-----------------------------------------------------------------------------
\* The tables.

SoundRooms ==
  \A r \in DOMAIN game_room_table : Sound(Pks, Problems, game_room_table[r])

\* What the rest of a turn leaves behind.
TurnOK ==
  /\ pending' \subseteq DOMAIN game_room_table'
  /\ elapsed' \in Dts \cup {0}
  /\ DOMAIN out' = Workers

-----------------------------------------------------------------------------
\* The conjuncts of IInv that are about single rooms say that every room is sound.
LEMMA IInvParts ==
  IInv <=> TypeOK /\ OneSessionPerAccount /\ InRoomIsListed /\ SoundRooms
BY DEF IInv, TypeOK, RoomFits, RoundMatchesPhase, ScoreSheetOK, TimersWithinLimit,
       SoundRooms, Sound

\* The same of the next state.
LEMMA IInvPartsPrime ==
  IInv' <=> TypeOK' /\ OneSessionPerAccount' /\ InRoomIsListed' /\ SoundRooms'
BY DEF IInv, TypeOK, RoomFits, RoundMatchesPhase, ScoreSheetOK, TimersWithinLimit,
       SoundRooms, Sound

\* Whatever is sent, every worker keeps its place in out.
LEMMA OutDomains ==
  /\ DOMAIN Nothing = Workers
  /\ \A sent, w, m : DOMAIN Send(sent, w, m) = DOMAIN sent
  /\ \A sent, sessions, m : DOMAIN broadcast_lobby(sent, sessions, m) = Workers
  /\ \A sent, sessions, r, m : DOMAIN broadcast_room(sent, sessions, r, m) = Workers
  /\ \A sent, sessions, members, m :
       DOMAIN NotifyMembers(sent, sessions, members, m) = Workers
BY DEF Nothing, Send, broadcast_lobby, broadcast_room, SendToSessions, NotifyMembers

\* The rest of a turn visits only rooms that are there, with a dt of the clock.
LEMMA StartPassTurn ==
  ASSUME StartPass
  PROVE  pending' \subseteq DOMAIN game_room_table' /\ elapsed' \in Dts \cup {0}
BY DEF StartPass

\* The members of a sound room are accounts.
LEMMA PlayersAreAccounts ==
  ASSUME TypeOK, NEW r \in DOMAIN game_room_table
  PROVE  Players(game_room_table[r]) \subseteq Pks
<1>1. game_room_table[r].member_pk_list \in Seq(Pks)
  BY DEF TypeOK, RoomOf
<1>2. DOMAIN game_room_table[r].member_pk_list = 1 .. Len(game_room_table[r].member_pk_list)
  BY <1>1, LenProperties
<1> QED
  BY <1>1, <1>2, ElementOfSeq DEF Players, Range

\* A pk is a position in user_table, so winner_of_round can hold it.
LEMMA PksAreIntegers ==
  ASSUME TypeOK
  PROVE  Pks \subseteq Int
<1>1. DOMAIN user_table = 1 .. Len(user_table)
  BY LenProperties DEF TypeOK
<1> QED
  BY <1>1 DEF Pks

\* More accounts, and a room is as sound as before.
LEMMA SoundMonotonic ==
  ASSUME NEW P, NEW R, P \subseteq R, NEW Q, NEW room, Sound(P, Q, room)
  PROVE  Sound(R, Q, room)
<1>1. room.member_pk_list \in Seq(R)
  BY SeqMonotonic DEF Sound, RoomOf
<1>2. room \in RoomOf(R, Q)
  BY <1>1 DEF Sound, RoomOf
<1> QED
  BY <1>2 DEF Sound

-----------------------------------------------------------------------------
\* The ways of a step.

\* Sessions and rooms stay as they are; tokens may be used up.
LEMMA TablesStay ==
  ASSUME IInv, TurnOK, connected' \in {connected, connected + 1},
         UNCHANGED <<user_table, connected_user_table, game_room_table, next_pk_room>>
  PROVE  IInv'
<1>1. TypeOK'
  <2>1. connected \in Nat
    BY DEF IInv, TypeOK
  <2>2. connected' \in Nat /\ connected <= connected'
    BY <2>1
  <2>3. 0 .. connected - 1 \subseteq 0 .. connected' - 1
    <3>1. CASE connected' = connected
      BY <3>1
    <3>2. CASE connected' = connected + 1
      BY <3>2, <2>1
    <3> QED
      BY <3>1, <3>2
  <2> QED
    BY <2>2, <2>3 DEF IInv, TypeOK, TurnOK, Session, Pks
<1> QED
  BY <1>1, IInvParts, IInvPartsPrime
  DEF OneSessionPerAccount, InRoomIsListed, SoundRooms, Pks, Players

\* The list of accounts grows.
LEMMA AccountAdded ==
  ASSUME IInv, TurnOK, NEW id \in Ids,
         user_table' = Append(user_table, [id |-> id, exp |-> 0]),
         UNCHANGED <<connected, connected_user_table, game_room_table, next_pk_room>>
  PROVE  IInv'
<1>1. /\ user_table' \in Seq([id : Ids, exp : Nat])
      /\ Pks \subseteq Pks'
  <2>1. user_table \in Seq([id : Ids, exp : Nat]) /\ [id |-> id, exp |-> 0] \in [id : Ids, exp : Nat]
    BY DEF IInv, TypeOK
  <2>2. user_table' \in Seq([id : Ids, exp : Nat]) /\ Len(user_table') = Len(user_table) + 1
    BY <2>1, AppendProperties
  <2>3. /\ Len(user_table) \in Nat
        /\ DOMAIN user_table = 1 .. Len(user_table)
        /\ DOMAIN user_table' = 1 .. Len(user_table')
    BY <2>1, <2>2, LenProperties
  <2> QED
    BY <2>2, <2>3 DEF Pks
<1>2. SoundRooms'
  BY <1>1, IInvParts, SoundMonotonic DEF SoundRooms
<1>3. TypeOK'
  <2>1. \A r \in DOMAIN game_room_table' : game_room_table'[r] \in RoomOf(Pks', Problems)
    BY <1>2 DEF SoundRooms, Sound
  <2>2. \A t \in DOMAIN connected_user_table' : connected_user_table'[t] \in Session'
    BY <1>1 DEF IInv, TypeOK, Session
  <2> QED
    BY <1>1, <2>1, <2>2 DEF IInv, TypeOK, TurnOK
<1> QED
  BY <1>2, <1>3, IInvParts, IInvPartsPrime DEF OneSessionPerAccount, InRoomIsListed

\* Sessions are dropped.
LEMMA SessionsDropped ==
  ASSUME IInv, TurnOK, NEW S,
         connected_user_table' = Without(connected_user_table, S),
         UNCHANGED <<user_table, connected, game_room_table, next_pk_room>>
  PROVE  IInv'
<1>1. /\ DOMAIN connected_user_table' = DOMAIN connected_user_table \ S
      /\ \A t \in DOMAIN connected_user_table' :
           connected_user_table'[t] = connected_user_table[t]
  BY DEF Without
<1>2. TypeOK'
  BY <1>1 DEF IInv, TypeOK, TurnOK, Session, Pks
<1>3. OneSessionPerAccount'
  BY <1>1 DEF IInv, OneSessionPerAccount
<1>4. InRoomIsListed'
  BY <1>1 DEF IInv, InRoomIsListed
<1> QED
  BY <1>2, <1>3, <1>4, IInvParts, IInvPartsPrime DEF SoundRooms, Pks

\* Room r becomes room; its members and all sessions stay.
Becomes(r, room) ==
  /\ r \in DOMAIN game_room_table
  /\ room.member_pk_list = game_room_table[r].member_pk_list
  /\ game_room_table' = [game_room_table EXCEPT ![r] = room]
  /\ UNCHANGED <<connected, connected_user_table, next_pk_room>>

\* A step that replaces one room by a sound one with the same members keeps the
\* invariants: the sessions in the room are still listed.
LEMMA RoomChanged ==
  ASSUME IInv, TurnOK, NEW r, NEW room, Becomes(r, room), Sound(Pks, Problems, room),
         user_table' \in Seq([id : Ids, exp : Nat]), Pks' = Pks
  PROVE  IInv'
<1> USE DEF Becomes
<1>1. /\ DOMAIN game_room_table' = DOMAIN game_room_table
      /\ \A s \in DOMAIN game_room_table' :
           game_room_table'[s] = IF s = r THEN room ELSE game_room_table[s]
  OBVIOUS
<1>2. SoundRooms'
  BY <1>1, IInvParts DEF SoundRooms
<1>3. \A s \in DOMAIN game_room_table : Players(game_room_table'[s]) = Players(game_room_table[s])
  BY <1>1 DEF Players
<1>4. InRoomIsListed'
  BY <1>1, <1>3 DEF IInv, InRoomIsListed
<1>5. TypeOK'
  <2>1. \A s \in DOMAIN game_room_table' : game_room_table'[s] \in RoomOf(Pks', Problems)
    BY <1>2 DEF SoundRooms, Sound
  <2> QED
    BY <1>1, <2>1 DEF IInv, TypeOK, TurnOK, Session
<1> QED
  BY <1>2, <1>4, <1>5, IInvParts, IInvPartsPrime DEF OneSessionPerAccount

\* A user signs in: the sessions he had go, a new one begins in the lobby.
LEMMA SessionAdded ==
  ASSUME IInv, TurnOK, NEW pk \in Pks, NEW w \in Workers,
         connected' = connected + 1,
         connected_user_table' = With(Without(connected_user_table, SessionsOf(pk)),
                                      connected, NewSession(pk, w)),
         UNCHANGED <<user_table, game_room_table, next_pk_room>>
  PROVE  IInv'
<1>1. connected \in Nat /\ connected' \in Nat /\ connected \notin DOMAIN connected_user_table
  <2>1. connected \in Nat /\ DOMAIN connected_user_table \subseteq 0 .. connected - 1
    BY DEF IInv, TypeOK
  <2> QED
    BY <2>1
<1>2. /\ DOMAIN connected_user_table' = (DOMAIN connected_user_table \ SessionsOf(pk)) \cup {connected}
      /\ \A t \in DOMAIN connected_user_table' :
           connected_user_table'[t] = IF t = connected THEN NewSession(pk, w)
                                      ELSE connected_user_table[t]
  BY <1>1 DEF With, Without
<1>3. \A t \in DOMAIN connected_user_table' : connected_user_table'[t].pk = pk => t = connected
  BY <1>2 DEF SessionsOf
<1>4. /\ NewSession(pk, w) \in Session
      /\ NewSession(pk, w).pk = pk
      /\ NewSession(pk, w).status = "LOBBY"
      /\ NewSession(pk, w).pk_room = 0
  BY DEF NewSession, Session
<1>5. TypeOK'
  <2>1. DOMAIN connected_user_table' \subseteq 0 .. connected' - 1
    <3>1. /\ DOMAIN connected_user_table \subseteq 0 .. connected - 1
          /\ 0 .. connected - 1 \subseteq 0 .. connected' - 1
          /\ connected \in 0 .. connected' - 1
      BY <1>1 DEF IInv, TypeOK
    <3> QED
      BY <3>1, <1>2
  <2>2. \A t \in DOMAIN connected_user_table' : connected_user_table'[t] \in Session
    BY <1>2, <1>4 DEF IInv, TypeOK
  <2> QED
    BY <1>1, <2>1, <2>2 DEF IInv, TypeOK, TurnOK, Session, Pks
<1>6. OneSessionPerAccount'
  <2> SUFFICES ASSUME NEW t \in DOMAIN connected_user_table',
                      NEW u \in DOMAIN connected_user_table',
                      connected_user_table'[t].pk = connected_user_table'[u].pk
               PROVE  t = u
    BY DEF OneSessionPerAccount
  <2>1. CASE t = connected \/ u = connected
    BY <2>1, <1>2, <1>3, <1>4
  <2>2. CASE t # connected /\ u # connected
    BY <2>2, <1>2 DEF IInv, OneSessionPerAccount
  <2> QED
    BY <2>1, <2>2
<1>7. InRoomIsListed'
  BY <1>2, <1>4 DEF IInv, InRoomIsListed
<1> QED
  BY <1>5, <1>6, <1>7, IInvParts, IInvPartsPrime DEF SoundRooms, Pks

\* The user of session t enters room r, which is room after that.
Enters(t, r, room) ==
  /\ t \in DOMAIN connected_user_table
  /\ game_room_table' = With(game_room_table, r, room)
  /\ connected_user_table' = [connected_user_table EXCEPT ![t] = InRoom(@, r)]
  /\ UNCHANGED <<user_table, connected>>

\* Entering a room, an old one or a new one.
LEMMA RoomEntered ==
  ASSUME IInv, TurnOK, NEW t, NEW r, NEW room, Enters(t, r, room),
         next_pk_room' \in {next_pk_room, next_pk_room + 1},
         r \in 1 .. next_pk_room' - 1,
         Sound(Pks, Problems, room),
         connected_user_table[t].pk \in Players(room),
         r \in DOMAIN game_room_table => Players(game_room_table[r]) \subseteq Players(room)
  PROVE  IInv'
<1> USE DEF Enters
<1>1. /\ DOMAIN game_room_table' = DOMAIN game_room_table \cup {r}
      /\ \A s \in DOMAIN game_room_table' :
           game_room_table'[s] = IF s = r THEN room ELSE game_room_table[s]
  BY DEF With
<1>2. next_pk_room \in Nat \ {0} /\ next_pk_room' \in Nat \ {0} /\ next_pk_room <= next_pk_room'
  <2>1. next_pk_room \in Nat \ {0}
    BY DEF IInv, TypeOK
  <2> QED
    BY <2>1
<1>3. r \in Nat
  BY <1>2
<1>4. connected_user_table[t] \in Session
  BY DEF IInv, TypeOK
<1>5. /\ DOMAIN connected_user_table' = DOMAIN connected_user_table
      /\ \A u \in DOMAIN connected_user_table :
           connected_user_table'[u] = IF u = t THEN InRoom(connected_user_table[t], r)
                                      ELSE connected_user_table[u]
  OBVIOUS
<1>6. /\ InRoom(connected_user_table[t], r) \in Session
      /\ InRoom(connected_user_table[t], r).pk = connected_user_table[t].pk
      /\ InRoom(connected_user_table[t], r).status = "IN_ROOM"
      /\ InRoom(connected_user_table[t], r).pk_room = r
  BY <1>3, <1>4 DEF InRoom, Session
<1>7. SoundRooms'
  BY <1>1, IInvParts DEF SoundRooms, Pks
<1>8. TypeOK'
  <2>1. DOMAIN game_room_table' \subseteq 1 .. next_pk_room' - 1
    <3>1. /\ DOMAIN game_room_table \subseteq 1 .. next_pk_room - 1
          /\ 1 .. next_pk_room - 1 \subseteq 1 .. next_pk_room' - 1
      BY <1>2 DEF IInv, TypeOK
    <3> QED
      BY <3>1, <1>1
  <2>2. \A s \in DOMAIN game_room_table' : game_room_table'[s] \in RoomOf(Pks', Problems)
    BY <1>7 DEF SoundRooms, Sound
  <2>3. \A u \in DOMAIN connected_user_table' : connected_user_table'[u] \in Session
    BY <1>5, <1>6 DEF IInv, TypeOK
  <2> QED
    BY <1>2, <1>5, <2>1, <2>2, <2>3 DEF IInv, TypeOK, TurnOK, Session, Pks
<1>9. OneSessionPerAccount'
  BY <1>5, <1>6 DEF IInv, OneSessionPerAccount
<1>10. InRoomIsListed'
  <2> SUFFICES ASSUME NEW u \in DOMAIN connected_user_table'
               PROVE  IF connected_user_table'[u].status = "IN_ROOM"
                      THEN /\ connected_user_table'[u].pk_room \in DOMAIN game_room_table'
                           /\ connected_user_table'[u].pk
                                \in Players(game_room_table'[connected_user_table'[u].pk_room])
                      ELSE connected_user_table'[u].pk_room = 0
    BY DEF InRoomIsListed
  <2>1. CASE u = t
    BY <2>1, <1>1, <1>5, <1>6
  <2>2. CASE u # t
    <3>1. connected_user_table'[u] = connected_user_table[u]
      BY <2>2, <1>5
    <3>2. \A s \in DOMAIN game_room_table :
            Players(game_room_table[s]) \subseteq Players(game_room_table'[s])
      BY <1>1
    <3> QED
      BY <3>1, <3>2, <1>1, <1>5 DEF IInv, InRoomIsListed
  <2> QED
    BY <2>1, <2>2
<1> QED
  BY <1>7, <1>8, <1>9, <1>10, IInvParts, IInvPartsPrime

\* The user of a session leaves his room, which goes with its last member.
LEMMA RoomLeft ==
  ASSUME IInv, TurnOK, NEW t \in DOMAIN connected_user_table,
         Leavable(connected_user_table[t]),
         connected_user_table' =
           [connected_user_table EXCEPT ![t] = NewSession(@.pk, @.mq_id)],
         NEW r, r = connected_user_table[t].pk_room,
         NEW left, left = leave_game_room(game_room_table[r], connected_user_table[t].pk),
         game_room_table' = IF left.member_pk_list = <<>>
                            THEN Without(game_room_table, {r})
                            ELSE [game_room_table EXCEPT ![r] = left],
         UNCHANGED <<user_table, connected, next_pk_room>>
  PROVE  IInv'
<1> DEFINE user == connected_user_table[t]
           room == game_room_table[r]
<1>1. /\ user \in Session
      /\ r \in DOMAIN game_room_table
      /\ room.status = "WAITING"
      /\ user.status = "IN_ROOM"
  BY DEF Leavable, IInv, TypeOK
<1>2. user.pk \in Players(room) /\ Sound(Pks, Problems, room)
  BY <1>1, IInvParts DEF InRoomIsListed, SoundRooms
<1>3. /\ left.member_pk_list # <<>> => Sound(Pks, Problems, left)
      /\ left.member_pk_list = <<>> => Players(room) = {user.pk}
      /\ Players(room) \ {user.pk} \subseteq Players(left)
  BY <1>1, <1>2, LeftSound
<1>4. \/ /\ left.member_pk_list = <<>>
         /\ game_room_table' = Without(game_room_table, {r})
      \/ /\ left.member_pk_list # <<>>
         /\ game_room_table' = [game_room_table EXCEPT ![r] = left]
  OBVIOUS
<1>5. /\ DOMAIN game_room_table' \subseteq DOMAIN game_room_table
      /\ DOMAIN game_room_table \ {r} \subseteq DOMAIN game_room_table'
      /\ \A s \in DOMAIN game_room_table' :
           IF s = r THEN left.member_pk_list # <<>> /\ game_room_table'[s] = left
                    ELSE game_room_table'[s] = game_room_table[s]
      /\ left.member_pk_list # <<>> => r \in DOMAIN game_room_table'
  BY <1>1, <1>4 DEF Without
<1>6. /\ DOMAIN connected_user_table' = DOMAIN connected_user_table
      /\ \A u \in DOMAIN connected_user_table :
           connected_user_table'[u] = IF u = t THEN NewSession(user.pk, user.mq_id)
                                      ELSE connected_user_table[u]
  OBVIOUS
<1>7. /\ NewSession(user.pk, user.mq_id) \in Session
      /\ NewSession(user.pk, user.mq_id).pk = user.pk
      /\ NewSession(user.pk, user.mq_id).status = "LOBBY"
      /\ NewSession(user.pk, user.mq_id).pk_room = 0
  BY <1>1 DEF NewSession, Session
<1>8. SoundRooms'
  BY <1>3, <1>5, IInvParts DEF SoundRooms, Pks
<1>9. TypeOK'
  <2>1. \A s \in DOMAIN game_room_table' : game_room_table'[s] \in RoomOf(Pks', Problems)
    BY <1>8 DEF SoundRooms, Sound
  <2>2. \A u \in DOMAIN connected_user_table' : connected_user_table'[u] \in Session
    BY <1>6, <1>7 DEF IInv, TypeOK
  <2>3. DOMAIN game_room_table' \subseteq 1 .. next_pk_room' - 1
    BY <1>5 DEF IInv, TypeOK
  <2> QED
    BY <1>6, <2>1, <2>2, <2>3 DEF IInv, TypeOK, TurnOK, Session, Pks
<1>10. OneSessionPerAccount'
  BY <1>6, <1>7 DEF IInv, OneSessionPerAccount
<1>11. InRoomIsListed'
  <2> SUFFICES ASSUME NEW u \in DOMAIN connected_user_table'
               PROVE  IF connected_user_table'[u].status = "IN_ROOM"
                      THEN /\ connected_user_table'[u].pk_room \in DOMAIN game_room_table'
                           /\ connected_user_table'[u].pk
                                \in Players(game_room_table'[connected_user_table'[u].pk_room])
                      ELSE connected_user_table'[u].pk_room = 0
    BY DEF InRoomIsListed
  <2>1. CASE u = t
    BY <2>1, <1>6, <1>7
  <2>2. CASE u # t /\ connected_user_table[u].status # "IN_ROOM"
    BY <2>2, <1>6 DEF IInv, InRoomIsListed
  <2>3. CASE u # t /\ connected_user_table[u].status = "IN_ROOM"
    <3> DEFINE other == connected_user_table[u]
    <3>1. /\ connected_user_table'[u] = other
          /\ other.pk_room \in DOMAIN game_room_table
          /\ other.pk \in Players(game_room_table[other.pk_room])
      BY <2>3, <1>6 DEF IInv, InRoomIsListed
    <3>2. other.pk # user.pk
      BY <2>3, <1>6 DEF IInv, OneSessionPerAccount
    <3>3. CASE other.pk_room = r
      <4>1. other.pk \in Players(left)
        BY <3>1, <3>2, <3>3, <1>3
      <4>2. left.member_pk_list # <<>>
        BY <3>1, <3>2, <3>3, <1>3
      <4> QED
        BY <4>1, <4>2, <3>1, <3>3, <2>3, <1>5
    <3>4. CASE other.pk_room # r
      BY <3>1, <3>4, <2>3, <1>5
    <3> QED
      BY <3>3, <3>4
  <2> QED
    BY <2>1, <2>2, <2>3
<1> QED
  BY <1>8, <1>9, <1>10, <1>11, IInvParts, IInvPartsPrime

-----------------------------------------------------------------------------
\* The handlers.

\* A turn without a message keeps the invariants.
LEMMA IdleKeeps ==
  ASSUME IInv, Idle
  PROVE  IInv'
BY TablesStay, StartPassTurn, OutDomains DEF Idle, TurnOK, tables

\* So does a request with a token nobody holds,
LEMMA InvalidConnectionKeeps ==
  ASSUME IInv, NEW w, NEW token, InvalidConnection(w, token), StartPass
  PROVE  IInv'
BY TablesStay, StartPassTurn, OutDomains DEF InvalidConnection, TurnOK, tables

\* and one that is dropped without an answer.
LEMMA IgnoredKeeps ==
  ASSUME IInv, Ignored, StartPass
  PROVE  IInv'
BY TablesStay, StartPassTurn, OutDomains DEF Ignored, TurnOK, tables

\* route_sign_up adds an account at most.
LEMMA SignUpKeeps ==
  ASSUME IInv, NEW w, NEW id \in Ids, route_sign_up(w, id)
  PROVE  IInv'
<1>1. TurnOK
  BY StartPassTurn, OutDomains DEF route_sign_up, TurnOK
<1>2. CASE UNCHANGED user_table
  BY <1>1, <1>2, TablesStay DEF route_sign_up
<1>3. CASE user_table' = Append(user_table, [id |-> id, exp |-> 0])
  BY <1>1, <1>3, AccountAdded DEF route_sign_up
<1> QED
  BY <1>2, <1>3 DEF route_sign_up

\* route_sign_in replaces the sessions of the account by one new session in the
\* lobby, under a token that has never been drawn.
LEMMA SignInKeeps ==
  ASSUME IInv, NEW w \in Workers, NEW id \in Ids, NEW right, route_sign_in(w, id, right)
  PROVE  IInv'
<1>1. TurnOK
  BY StartPassTurn, OutDomains DEF route_sign_in, TurnOK
<1>2. CASE UNCHANGED connected_user_table
  BY <1>1, <1>2, TablesStay DEF route_sign_in
<1>3. ASSUME NEW pk \in AccountsOf(id),
             connected_user_table' = With(Without(connected_user_table, SessionsOf(pk)),
                                          connected, NewSession(pk, w))
      PROVE  IInv'
  <2>1. pk \in Pks
    BY DEF AccountsOf, Pks
  <2> QED
    BY <1>1, <1>3, <2>1, SessionAdded DEF route_sign_in
<1> QED
  BY <1>2, <1>3 DEF route_sign_in

\* route_sign_out drops one session.
LEMMA SignOutKeeps ==
  ASSUME IInv, NEW w, NEW token, route_sign_out(w, token)
  PROVE  IInv'
<1>1. CASE InvalidConnection(w, token)
  BY <1>1, InvalidConnectionKeeps DEF route_sign_out
<1>2. CASE ~InvalidConnection(w, token)
  <2>1. TurnOK
    BY <1>2, StartPassTurn, OutDomains DEF route_sign_out, TurnOK
  <2> QED
    BY <1>2, <2>1, SessionsDropped DEF route_sign_out
<1> QED
  BY <1>1, <1>2

\* handle_dead_client_worker drops one session at most.
LEMMA DeadWorkerKeeps ==
  ASSUME IInv, NEW w, handle_dead_client_worker(w)
  PROVE  IInv'
<1>1. TurnOK
  BY OutDomains DEF handle_dead_client_worker, AtReceive, SkipPass, TurnOK, IInv, TypeOK
<1>2. CASE UNCHANGED connected_user_table
  BY <1>1, <1>2, TablesStay DEF handle_dead_client_worker
<1>3. ASSUME NEW t, connected_user_table' = Without(connected_user_table, {t})
      PROVE  IInv'
  BY <1>1, <1>3, SessionsDropped DEF handle_dead_client_worker
<1> QED
  BY <1>2, <1>3 DEF handle_dead_client_worker

\* route_check_lobby changes no table,
LEMMA CheckLobbyKeeps ==
  ASSUME IInv, NEW w, NEW token, route_check_lobby(w, token)
  PROVE  IInv'
<1>1. CASE InvalidConnection(w, token)
  BY <1>1, InvalidConnectionKeeps DEF route_check_lobby
<1>2. CASE ~InvalidConnection(w, token)
  <2>1. TurnOK
    BY <1>2, StartPassTurn, OutDomains DEF route_check_lobby, TurnOK
  <2> QED
    BY <1>2, <2>1, TablesStay DEF route_check_lobby, tables
<1> QED
  BY <1>1, <1>2

\* nor does route_check_room.
LEMMA CheckRoomKeeps ==
  ASSUME IInv, NEW w, NEW token, route_check_room(w, token)
  PROVE  IInv'
<1>1. CASE InvalidConnection(w, token)
  BY <1>1, InvalidConnectionKeeps DEF route_check_room
<1>2. CASE ~InvalidConnection(w, token)
  <2>1. TurnOK
    BY <1>2, StartPassTurn, OutDomains DEF route_check_room, Ignored, TurnOK
  <2> QED
    BY <1>2, <2>1, TablesStay DEF route_check_room, Ignored, tables
<1> QED
  BY <1>1, <1>2

\* route_create_room lists the creator in a fresh room and moves his session there.
LEMMA CreateRoomKeeps ==
  ASSUME IInv, NEW w, NEW token, route_create_room(w, token)
  PROVE  IInv'
<1>1. CASE InvalidConnection(w, token)
  BY <1>1, InvalidConnectionKeeps DEF route_create_room
<1>2. CASE ~InvalidConnection(w, token)
  <2> DEFINE pk   == connected_user_table[token].pk
             room == join_game_room(create_game_room, pk)
  <2>1. /\ token \in DOMAIN connected_user_table
        /\ next_pk_room' = next_pk_room + 1
        /\ Enters(token, next_pk_room, room)
    BY <1>2 DEF route_create_room, Enters
  <2>2. TurnOK
    BY <1>2, StartPassTurn, OutDomains DEF route_create_room, TurnOK
  <2>3. pk \in Pks
    BY <2>1 DEF IInv, TypeOK, Session
  <2>4. Sound(Pks, Problems, room) /\ pk \in Players(room)
    BY <2>3, CreatedSound
  <2> HIDE DEF room
  <2>5. /\ next_pk_room \in 1 .. next_pk_room' - 1
        /\ next_pk_room \notin DOMAIN game_room_table
    <3>1. next_pk_room \in Nat \ {0} /\ DOMAIN game_room_table \subseteq 1 .. next_pk_room - 1
      BY DEF IInv, TypeOK
    <3> QED
      BY <3>1, <2>1
  <2> QED
    BY <2>1, <2>2, <2>4, <2>5, RoomEntered
<1> QED
  BY <1>1, <1>2

\* route_join_room lists a user in a room with a free slot and moves his session.
LEMMA JoinRoomKeeps ==
  ASSUME IInv, NEW w, NEW token, NEW r, route_join_room(w, token, r)
  PROVE  IInv'
<1>1. CASE InvalidConnection(w, token)
  BY <1>1, InvalidConnectionKeeps DEF route_join_room
<1>2. CASE ~InvalidConnection(w, token)
  <2>1. TurnOK
    BY <1>2, StartPassTurn, OutDomains DEF route_join_room, TurnOK
  <2>2. CASE UNCHANGED tables
    BY <2>1, <2>2, TablesStay DEF tables
  <2>3. CASE ~UNCHANGED tables
    <3> DEFINE pk   == connected_user_table[token].pk
               old  == game_room_table[r]
               room == join_game_room(old, pk)
    <3>1. /\ token \in DOMAIN connected_user_table
          /\ r \in DOMAIN game_room_table /\ CanJoin(old)
          /\ game_room_table' = [game_room_table EXCEPT ![r] = room]
          /\ connected_user_table' = [connected_user_table EXCEPT ![token] = InRoom(@, r)]
          /\ UNCHANGED <<user_table, connected, next_pk_room>>
      BY <1>2, <2>3 DEF route_join_room, Joinable
    <3>2. pk \in Pks /\ Sound(Pks, Problems, old)
      BY <3>1, IInvParts DEF TypeOK, Session, SoundRooms
    <3>3. Sound(Pks, Problems, room) /\ Players(room) = Players(old) \cup {pk}
      BY <3>1, <3>2, JoinedSound
    <3> HIDE DEF room
    <3>4. game_room_table' = With(game_room_table, r, room)
      BY <3>1 DEF With
    <3>5. r \in 1 .. next_pk_room' - 1 /\ next_pk_room' \in {next_pk_room, next_pk_room + 1}
      BY <3>1 DEF IInv, TypeOK
    <3>6. pk \in Players(room) /\ Players(old) \subseteq Players(room)
      BY <3>3
    <3>7. Enters(token, r, room)
      BY <3>1, <3>4 DEF Enters
    <3> QED
      BY <2>1, <3>3, <3>5, <3>6, <3>7, RoomEntered
  <2> QED
    BY <2>2, <2>3
<1> QED
  BY <1>1, <1>2

\* route_leave_room takes one entry of the user out of the member list, with the
\* room when it was the last; by OneSessionPerAccount nobody else relied on it.
LEMMA LeaveRoomKeeps ==
  ASSUME IInv, NEW w, NEW token, route_leave_room(w, token)
  PROVE  IInv'
<1>1. CASE InvalidConnection(w, token)
  BY <1>1, InvalidConnectionKeeps DEF route_leave_room
<1>2. CASE ~InvalidConnection(w, token)
  <2> DEFINE user == connected_user_table[token]
             room == game_room_table[user.pk_room]
  <2>1. TurnOK
    BY <1>2, StartPassTurn, OutDomains DEF route_leave_room, Ignored, TurnOK
  <2>2. CASE ~Leavable(user)
    BY <1>2, <2>1, <2>2, TablesStay DEF route_leave_room, Ignored, tables
  <2>3. CASE Leavable(user)
    <3>1. token \in DOMAIN connected_user_table
      BY <1>2, <2>3 DEF route_leave_room
    <3>2. Contains(room.member_pk_list, user.pk)
      <4>1. /\ user.pk \in Players(room)
            /\ room.member_pk_list \in Seq(Pks)
        BY <2>3, <3>1 DEF Leavable, IInv, InRoomIsListed, TypeOK, RoomOf
      <4>2. DOMAIN room.member_pk_list = 1 .. Len(room.member_pk_list)
        BY <4>1, LenProperties
      <4> QED
        BY <4>1, <4>2 DEF Players, Range, Contains
    <3>3. connected_user_table' =
            [connected_user_table EXCEPT ![token] = NewSession(@.pk, @.mq_id)]
      BY <1>2, <2>3, <3>2 DEF route_leave_room
    <3> DEFINE left == leave_game_room(room, user.pk)
    <3>4. game_room_table' = IF left.member_pk_list = <<>>
                             THEN Without(game_room_table, {user.pk_room})
                             ELSE [game_room_table EXCEPT ![user.pk_room] = left]
      BY <1>2, <2>3 DEF route_leave_room, remove_game_room
    <3>5. UNCHANGED <<user_table, connected, next_pk_room>>
      BY <1>2, <2>3 DEF route_leave_room
    <3> HIDE DEF left
    <3>6. left = leave_game_room(game_room_table[user.pk_room], connected_user_table[token].pk)
      BY DEF left
    <3> QED
      BY <2>1, <2>3, <3>1, <3>3, <3>4, <3>5, <3>6, RoomLeft
  <2> QED
    BY <2>2, <2>3
<1> QED
  BY <1>1, <1>2

\* route_chatting may give the round to the sender; InRoomIsListed makes him a
\* player of the room he writes to.
LEMMA ChattingKeeps ==
  ASSUME IInv, NEW w, NEW token, NEW line, route_chatting(w, token, line)
  PROVE  IInv'
<1>1. CASE InvalidConnection(w, token)
  BY <1>1, InvalidConnectionKeeps DEF route_chatting
<1>2. CASE ~InvalidConnection(w, token)
  <2> DEFINE sender == connected_user_table[token]
             r      == sender.pk_room
             room   == game_room_table[r]
             scored == Scored(room, sender.pk, line)
  <2>1. /\ token \in DOMAIN connected_user_table
        /\ UNCHANGED <<user_table, connected, connected_user_table, next_pk_room>>
    BY <1>2 DEF route_chatting
  <2>2. TurnOK
    BY <1>2, StartPassTurn, OutDomains DEF route_chatting, TurnOK
  <2>3. CASE UNCHANGED game_room_table
    BY <2>1, <2>2, <2>3, TablesStay
  <2>4. CASE /\ sender.status = "IN_ROOM"
             /\ game_room_table' = [game_room_table EXCEPT ![r] = scored]
    <3>1. r \in DOMAIN game_room_table /\ sender.pk \in Players(room)
      BY <2>1, <2>4 DEF IInv, InRoomIsListed
    <3>2. Sound(Pks, Problems, room) /\ sender.pk \in Int
      BY <3>1, <2>1, IInvParts, PksAreIntegers DEF SoundRooms, TypeOK, Session
    <3>3. Sound(Pks, Problems, scored) /\ scored.member_pk_list = room.member_pk_list
      BY <3>1, <3>2, ScoredSound
    <3> HIDE DEF scored
    <3>4. Becomes(r, scored)
      BY <2>1, <2>4, <3>1, <3>3 DEF Becomes
    <3>5. user_table' \in Seq([id : Ids, exp : Nat]) /\ Pks' = Pks
      BY <2>1 DEF IInv, TypeOK, Pks
    <3> QED
      BY <2>2, <3>3, <3>4, <3>5, RoomChanged
  <2> QED
    BY <1>2, <2>3, <2>4 DEF route_chatting
<1> QED
  BY <1>1, <1>2

\* route_game_start begins with an empty score sheet.
LEMMA GameStartKeeps ==
  ASSUME IInv, NEW w, NEW token, route_game_start(w, token)
  PROVE  IInv'
<1>1. CASE InvalidConnection(w, token)
  BY <1>1, InvalidConnectionKeeps DEF route_game_start
<1>2. CASE ~InvalidConnection(w, token) /\ Ignored
  BY <1>2, IgnoredKeeps DEF route_game_start
<1>3. CASE ~InvalidConnection(w, token) /\ ~Ignored
  <2> DEFINE r       == connected_user_table[token].pk_room
             room    == game_room_table[r]
             started == start_game(room)
  <2>1. /\ r \in DOMAIN game_room_table
        /\ game_room_table' = [game_room_table EXCEPT ![r] = started]
        /\ UNCHANGED <<user_table, connected, connected_user_table, next_pk_room>>
    BY <1>3 DEF route_game_start, Startable
  <2>2. TurnOK
    BY <1>3, StartPassTurn, OutDomains DEF route_game_start, TurnOK
  <2>3. Sound(Pks, Problems, room)
    BY <2>1, IInvParts DEF SoundRooms
  <2>4. Sound(Pks, Problems, started) /\ started.member_pk_list = room.member_pk_list
    BY <2>3, StartedSound
  <2> HIDE DEF started
  <2>5. Becomes(r, started)
    BY <2>1, <2>4 DEF Becomes
  <2>6. user_table' \in Seq([id : Ids, exp : Nat]) /\ Pks' = Pks
    BY <2>1 DEF IInv, TypeOK, Pks
  <2> QED
    BY <2>2, <2>4, <2>5, <2>6, RoomChanged
<1> QED
  BY <1>1, <1>2, <1>3

-----------------------------------------------------------------------------
\* The room handlers of update_game_rooms.

\* Visiting a room leaves the rest of the pass to rooms that are there.
LEMMA VisitTurn ==
  ASSUME IInv, NEW r, Visit(r), NEW room,
         game_room_table' = [game_room_table EXCEPT ![r] = room], DOMAIN out' = Workers
  PROVE  /\ TurnOK
         /\ r \in DOMAIN game_room_table
         /\ Sound(Pks, Problems, game_room_table[r])
         /\ elapsed \in Nat
<1>1. /\ r \in DOMAIN game_room_table
      /\ pending' \subseteq DOMAIN game_room_table
      /\ elapsed \in Dts \cup {0}
      /\ elapsed' \in Dts \cup {0}
  BY DEF Visit, IInv, TypeOK
<1>2. elapsed \in Nat
  BY <1>1, ServerAssumption
<1>3. DOMAIN game_room_table' = DOMAIN game_room_table
  OBVIOUS
<1> QED
  BY <1>1, <1>2, <1>3, IInvParts DEF TurnOK, SoundRooms

\* A room that waits or whose time is not over only grows older.
LEMMA WaitingKeeps ==
  ASSUME IInv, NEW r, handle_game_room_waiting(r)
  PROVE  IInv'
<1> DEFINE aged == Aged(game_room_table[r], elapsed)
<1>1. /\ Visit(r)
      /\ ~Expired(aged)
      /\ game_room_table' = [game_room_table EXCEPT ![r] = aged]
      /\ DOMAIN out' = Workers
      /\ UNCHANGED user_table
  BY OutDomains DEF handle_game_room_waiting
<1>2. /\ TurnOK
      /\ r \in DOMAIN game_room_table
      /\ Sound(Pks, Problems, game_room_table[r])
      /\ elapsed \in Nat
  BY <1>1, VisitTurn
<1>3. Sound(Pks, Problems, aged) /\ aged.member_pk_list = game_room_table[r].member_pk_list
  BY <1>1, <1>2, AgedSound, AgedProperties
<1> HIDE DEF aged
<1>4. Becomes(r, aged)
  BY <1>1, <1>2, <1>3 DEF Becomes, Visit
<1>5. user_table' \in Seq([id : Ids, exp : Nat]) /\ Pks' = Pks
  BY <1>1 DEF IInv, TypeOK, Pks
<1> QED
  BY <1>2, <1>3, <1>4, <1>5, RoomChanged

\* A round opens with a sentence, within the bounds of winner_of_round.
LEMMA OpenRoundKeeps ==
  ASSUME IInv, NEW r, NEW problem \in Problems, OpenRound(r, problem),
         game_room_table[r].status \in {"READY", "SHOWING_ROUND_RESULT"}
  PROVE  IInv'
<1> DEFINE opened == RoundOpened(Aged(game_room_table[r], elapsed), problem)
<1>1. /\ Visit(r)
      /\ game_room_table' = [game_room_table EXCEPT ![r] = opened]
      /\ DOMAIN out' = Workers
      /\ UNCHANGED user_table
  BY OutDomains DEF OpenRound
<1>2. /\ TurnOK
      /\ r \in DOMAIN game_room_table
      /\ Sound(Pks, Problems, game_room_table[r])
      /\ elapsed \in Nat
  BY <1>1, VisitTurn
<1>3. Sound(Pks, Problems, opened) /\ opened.member_pk_list = game_room_table[r].member_pk_list
  BY <1>2, OpenedSound
<1> HIDE DEF opened
<1>4. Becomes(r, opened)
  BY <1>1, <1>2, <1>3 DEF Becomes, Visit
<1>5. user_table' \in Seq([id : Ids, exp : Nat]) /\ Pks' = Pks
  BY <1>1 DEF IInv, TypeOK, Pks
<1> QED
  BY <1>2, <1>3, <1>4, <1>5, RoomChanged

\* A round closes, and the last one leads to the total result.
LEMMA PlayingKeeps ==
  ASSUME IInv, NEW r, handle_game_room_playing(r)
  PROVE  IInv'
<1> DEFINE closed == RoundClosed(Aged(game_room_table[r], elapsed))
<1>1. /\ Visit(r)
      /\ game_room_table[r].status = "PLAYING"
      /\ game_room_table' = [game_room_table EXCEPT ![r] = closed]
      /\ DOMAIN out' = Workers
      /\ UNCHANGED user_table
  BY OutDomains DEF handle_game_room_playing, notify_round_end
<1>2. /\ TurnOK
      /\ r \in DOMAIN game_room_table
      /\ Sound(Pks, Problems, game_room_table[r])
      /\ elapsed \in Nat
  BY <1>1, VisitTurn
<1>3. Sound(Pks, Problems, closed) /\ closed.member_pk_list = game_room_table[r].member_pk_list
  BY <1>1, <1>2, ClosedSound
<1> HIDE DEF closed
<1>4. Becomes(r, closed)
  BY <1>1, <1>2, <1>3 DEF Becomes, Visit
<1>5. user_table' \in Seq([id : Ids, exp : Nat]) /\ Pks' = Pks
  BY <1>1 DEF IInv, TypeOK, Pks
<1> QED
  BY <1>2, <1>3, <1>4, <1>5, RoomChanged

\* A member list has finitely many slots.
LEMMA SlotsAreNatural ==
  ASSUME NEW P, NEW Q, NEW room \in RoomOf(P, Q), NEW pk
  PROVE  Slots(room, pk) \in Nat
<1> DEFINE slots == {i \in DOMAIN room.member_pk_list : room.member_pk_list[i] = pk}
<1>1. Len(room.member_pk_list) \in Nat /\ DOMAIN room.member_pk_list = 1 .. Len(room.member_pk_list)
  BY LenProperties DEF RoomOf
<1>2. IsFiniteSet(1 .. Len(room.member_pk_list))
  BY <1>1, FS_Interval
<1>3. IsFiniteSet(slots)
  BY <1>1, <1>2, FS_Subset
<1> QED
  BY <1>3, FS_CardinalityType DEF Slots

\* The end of a game pays exp and returns the room to WAITING.
LEMMA TotalResultKeeps ==
  ASSUME IInv, NEW r, handle_game_room_showing_total_result(r)
  PROVE  IInv'
<1> DEFINE aged  == Aged(game_room_table[r], elapsed)
           ended == end_game(aged)
<1>1. /\ Visit(r)
      /\ game_room_table' = [game_room_table EXCEPT ![r] = ended]
      /\ DOMAIN out' = Workers
      /\ user_table' = [pk \in DOMAIN user_table |->
                          [user_table[pk] EXCEPT !.exp = @ + GAME_EXP * Slots(aged, pk)]]
  BY OutDomains DEF handle_game_room_showing_total_result, notify_game_end
<1>2. /\ TurnOK
      /\ r \in DOMAIN game_room_table
      /\ Sound(Pks, Problems, game_room_table[r])
      /\ elapsed \in Nat
  BY <1>1, VisitTurn
<1>3. /\ Sound(Pks, Problems, ended)
      /\ ended.member_pk_list = game_room_table[r].member_pk_list
      /\ aged \in RoomOf(Pks, Problems)
  BY <1>2, EndedSound, AgedProperties
<1> HIDE DEF aged, ended
<1>4. Becomes(r, ended)
  BY <1>1, <1>2, <1>3 DEF Becomes, Visit
<1>5. user_table' \in Seq([id : Ids, exp : Nat]) /\ Pks' = Pks
  <2>1. /\ user_table \in Seq([id : Ids, exp : Nat])
        /\ Len(user_table) \in Nat
        /\ DOMAIN user_table = 1 .. Len(user_table)
    BY LenProperties DEF IInv, TypeOK
  <2>2. ASSUME NEW pk \in 1 .. Len(user_table)
        PROVE  [user_table[pk] EXCEPT !.exp = @ + GAME_EXP * Slots(aged, pk)]
                 \in [id : Ids, exp : Nat]
    <3>1. user_table[pk] \in [id : Ids, exp : Nat] /\ Slots(aged, pk) \in Nat
      BY <1>3, <2>1, ElementOfSeq, SlotsAreNatural
    <3>2. user_table[pk].exp + GAME_EXP * Slots(aged, pk) \in Nat
      BY <3>1 DEF GAME_EXP
    <3> QED
      BY <3>1, <3>2
  <2>3. user_table' \in [1 .. Len(user_table) -> [id : Ids, exp : Nat]]
    BY <1>1, <2>1, <2>2
  <2> QED
    BY <2>1, <2>3, SeqDef DEF Pks
<1> QED
  BY <1>2, <1>3, <1>4, <1>5, RoomChanged

-----------------------------------------------------------------------------
\* The tables as load_data and init_variables leave them.
LEMMA InitIInv == Init => IInv
<1> SUFFICES ASSUME Init PROVE IInv
  OBVIOUS
<1>1. Members \in Seq(Ids)
  BY ServerAssumption
<1>2. DOMAIN Members = 1 .. Len(Members) /\ Len(Members) \in Nat
  BY <1>1, LenProperties
<1>3. \A i \in 1 .. Len(Members) : [id |-> Members[i], exp |-> 0] \in [id : Ids, exp : Nat]
  BY <1>1, ElementOfSeq
<1>4. user_table \in [1 .. Len(Members) -> [id : Ids, exp : Nat]]
  BY <1>2, <1>3 DEF Init
<1>5. user_table \in Seq([id : Ids, exp : Nat])
  BY <1>2, <1>4, FunctionIsSeq
<1>6. DOMAIN connected_user_table = {} /\ DOMAIN game_room_table = {}
  BY DEF Init
<1>7. DOMAIN out = Workers
  BY OutDomains DEF Init
<1>8. TypeOK
  BY <1>5, <1>6, <1>7 DEF Init, TypeOK
<1> QED
  BY <1>6, <1>8, IInvParts DEF OneSessionPerAccount, InRoomIsListed, SoundRooms

\* IInv is inductive.
LEMMA StepIInv == IInv /\ [Next]_vars => IInv'
<1> SUFFICES ASSUME IInv, [Next]_vars PROVE IInv'
  OBVIOUS
<1>1. CASE Idle
  BY <1>1, IdleKeeps
<1>2. ASSUME NEW w \in Workers, Account(w)
      PROVE  IInv'
  BY <1>2, SignUpKeeps, SignInKeeps DEF Account
<1>3. ASSUME NEW w \in Workers, NEW token \in Tokens, Request(w, token)
      PROVE  IInv'
  <2>1. CASE route_sign_out(w, token)
    BY <2>1, SignOutKeeps
  <2>2. CASE route_check_lobby(w, token)
    BY <2>2, CheckLobbyKeeps
  <2>3. CASE route_create_room(w, token)
    BY <2>3, CreateRoomKeeps
  <2>4. CASE \E r \in 1 .. MaxRooms : route_join_room(w, token, r)
    BY <2>4, JoinRoomKeeps
  <2>5. CASE route_check_room(w, token)
    BY <2>5, CheckRoomKeeps
  <2>6. CASE route_leave_room(w, token)
    BY <2>6, LeaveRoomKeeps
  <2>7. CASE \E line \in Lines : route_chatting(w, token, line)
    BY <2>7, ChattingKeeps
  <2>8. CASE route_game_start(w, token)
    BY <2>8, GameStartKeeps
  <2> QED
    BY <1>3, <2>1, <2>2, <2>3, <2>4, <2>5, <2>6, <2>7, <2>8 DEF Request
<1>4. ASSUME NEW w \in Workers, handle_dead_client_worker(w)
      PROVE  IInv'
  BY <1>4, DeadWorkerKeeps
<1>5. CASE update_game_rooms
  <2> SUFFICES ASSUME NEW r \in pending,
                      \/ handle_game_room_waiting(r)
                      \/ \E problem \in Problems :
                           \/ handle_game_room_ready(r, problem)
                           \/ handle_game_room_showing_round_result(r, problem)
                      \/ handle_game_room_playing(r)
                      \/ handle_game_room_showing_total_result(r)
               PROVE  IInv'
    BY <1>5 DEF update_game_rooms
  <2>1. CASE handle_game_room_waiting(r)
    BY <2>1, WaitingKeeps
  <2>2. ASSUME NEW problem \in Problems, handle_game_room_ready(r, problem)
        PROVE  IInv'
    BY <2>2, OpenRoundKeeps DEF handle_game_room_ready
  <2>3. ASSUME NEW problem \in Problems, handle_game_room_showing_round_result(r, problem)
        PROVE  IInv'
    BY <2>3, OpenRoundKeeps DEF handle_game_room_showing_round_result
  <2>4. CASE handle_game_room_playing(r)
    BY <2>4, PlayingKeeps
  <2>5. CASE handle_game_room_showing_total_result(r)
    BY <2>5, TotalResultKeeps
  <2> QED
    BY <2>1, <2>2, <2>3, <2>4, <2>5
<1>6. CASE UNCHANGED vars
  <2> USE <1>6 DEF vars
  <2>1. TypeOK'
    BY DEF IInv, TypeOK, Session, Pks
  <2>2. OneSessionPerAccount' /\ InRoomIsListed'
    BY DEF IInv, OneSessionPerAccount, InRoomIsListed, Players
  <2>3. SoundRooms'
    BY IInvParts DEF SoundRooms, Pks
  <2> QED
    BY <2>1, <2>2, <2>3, IInvPartsPrime
<1> QED
  BY <1>1, <1>2, <1>3, <1>4, <1>5, <1>6 DEF Next

\* Whatever messages arrive and whenever the clock runs, the tables stay sound:
\* the conjunction of all invariants of GameServerProps, which carry each other.
THEOREM Invariance == Spec => []IInv
<1>1. IInv /\ [Next]_vars => IInv'
  BY StepIInv
<1> QED
  BY <1>1, InitIInv, PTL DEF Spec

\* The types of the tables of data_structure.h.
THEOREM TypeCorrect == Spec => []TypeOK
<1>1. IInv => TypeOK
  BY DEF IInv
<1> QED
  BY <1>1, Invariance, PTL

\* However often and from wherever a user signs in, route_sign_in leaves him one
\* session, so find_connected_user_by_pk finds the only one.
THEOREM OneSession == Spec => []OneSessionPerAccount
<1>1. IInv => OneSessionPerAccount
  BY DEF IInv
<1> QED
  BY <1>1, Invariance, PTL

\* route_chatting and route_check_room look up the room of a session without a
\* test: it exists and lists the user, however he came there.
THEOREM SessionsInRoomsAreListed == Spec => []InRoomIsListed
<1>1. IInv => InRoomIsListed
  BY DEF IInv
<1> QED
  BY <1>1, Invariance, PTL

\* No room is empty and none is fuller than member_pk_list has slots.
THEOREM RoomsFit == Spec => []RoomFits
<1>1. IInv => RoomFits
  BY DEF IInv
<1> QED
  BY <1>1, Invariance, PTL

\* winner_of_round is never indexed outside its TotalRound places, for any number of
\* rounds, and no message finds a room whose phase is over its time, whatever the limits
\* of the phases and the lengths of the turns.
THEOREM RoundsInBoundsAndInTime == Spec => []PhasesFit
<1>1. IInv => PhasesFit
  BY DEF IInv, PhasesFit
<1> QED
  BY <1>1, Invariance, PTL

\* The score sheet of a running game names its players only, and nothing of a
\* round to come or of the game before.
THEOREM ScoresAreOfThisGame == Spec => []ScoreSheetOK
<1>1. IInv => ScoreSheetOK
  BY DEF IInv
<1> QED
  BY <1>1, Invariance, PTL

-----------------------------------------------------------------------------
\* A running game goes on.

\* A step that takes room old to new leaves the game of old alone, or starts
\* a new one with the same players.
GoesOn(old, new) ==
  Running(old) =>
    /\ new.member_pk_list = old.member_pk_list
    /\ \A i \in Rounds :
         \/ old.winner_of_round[i] = NoWinner
         \/ new.winner_of_round[i] = old.winner_of_round[i]
         \/ new.status = "READY"

GamesGoOn ==
  \A r \in DOMAIN game_room_table :
    Running(game_room_table[r]) =>
      /\ r \in DOMAIN game_room_table'
      /\ GoesOn(game_room_table[r], game_room_table'[r])

-----------------------------------------------------------------------------
\* The operations on a room.

\* A line that is scored wins a round nobody has won, and nothing else.
LEMMA ScoredGoesOn ==
  ASSUME NEW P, NEW Q, NEW room \in RoomOf(P, Q), NEW pk, NEW line
  PROVE  GoesOn(room, Scored(room, pk, line))
BY DEF GoesOn, Scored, RoomOf

\* A new game keeps the players.
LEMMA StartedGoesOn ==
  ASSUME NEW P, NEW Q, NEW room \in RoomOf(P, Q)
  PROVE  GoesOn(room, start_game(room))
BY DEF GoesOn, start_game, RoomOf

\* So does whatever a pass over the rooms makes of one of them.
LEMMA VisitedGoesOn ==
  ASSUME NEW P, NEW Q, NEW room, Sound(P, Q, room), NEW dt \in Nat, NEW problem
  PROVE  LET aged == Aged(room, dt)
         IN  /\ GoesOn(room, aged)
             /\ GoesOn(room, RoundOpened(aged, problem))
             /\ GoesOn(room, RoundClosed(aged))
             /\ GoesOn(room, end_game(aged))
<1> DEFINE aged == Aged(room, dt)
<1>1. /\ aged \in RoomOf(P, Q)
      /\ aged.member_pk_list = room.member_pk_list
      /\ aged.winner_of_round = room.winner_of_round
  BY AgedProperties
<1> HIDE DEF aged
<1>2. /\ RoundOpened(aged, problem).member_pk_list = aged.member_pk_list
      /\ RoundOpened(aged, problem).winner_of_round = aged.winner_of_round
  BY <1>1 DEF RoundOpened, RoomOf
<1>3. /\ RoundClosed(aged).member_pk_list = aged.member_pk_list
      /\ RoundClosed(aged).winner_of_round = aged.winner_of_round
  BY <1>1 DEF RoundClosed, RoomOf
<1>4. /\ end_game(aged).member_pk_list = aged.member_pk_list
      /\ end_game(aged).winner_of_round = aged.winner_of_round
  BY <1>1 DEF end_game, RoomOf
<1> QED
  BY <1>1, <1>2, <1>3, <1>4 DEF GoesOn, aged

-----------------------------------------------------------------------------
\* The ways a step touches the rooms.

\* No room changes.
LEMMA RoomsUnchanged ==
  ASSUME UNCHANGED game_room_table
  PROVE  GamesGoOn
BY DEF GamesGoOn, GoesOn

\* One room is replaced by what its game goes on in.
LEMMA RoomReplaced ==
  ASSUME NEW r, NEW room, game_room_table' = [game_room_table EXCEPT ![r] = room],
         r \in DOMAIN game_room_table => GoesOn(game_room_table[r], room)
  PROVE  GamesGoOn
<1> SUFFICES ASSUME NEW s \in DOMAIN game_room_table, Running(game_room_table[s])
             PROVE  /\ s \in DOMAIN game_room_table'
                    /\ GoesOn(game_room_table[s], game_room_table'[s])
  BY DEF GamesGoOn
<1>1. /\ s \in DOMAIN game_room_table'
      /\ game_room_table'[s] = IF s = r THEN room ELSE game_room_table[s]
  OBVIOUS
<1> QED
  BY <1>1 DEF GoesOn

\* Rooms in which no game is running may change, appear and go.
LEMMA IdleRoomChanged ==
  ASSUME NEW r, r \in DOMAIN game_room_table => ~Running(game_room_table[r]),
         \A s \in DOMAIN game_room_table \ {r} :
           s \in DOMAIN game_room_table' /\ game_room_table'[s] = game_room_table[s]
  PROVE  GamesGoOn
BY DEF GamesGoOn, GoesOn

-----------------------------------------------------------------------------
\* The handlers.

\* route_create_room makes a room under a number no room has.
LEMMA CreateGoesOn ==
  ASSUME IInv, NEW w, NEW token, route_create_room(w, token)
  PROVE  GamesGoOn
<1>1. CASE InvalidConnection(w, token)
  BY <1>1, RoomsUnchanged DEF InvalidConnection, tables
<1>2. CASE ~InvalidConnection(w, token)
  <2> DEFINE room == join_game_room(create_game_room, connected_user_table[token].pk)
  <2>1. game_room_table' = With(game_room_table, next_pk_room, room)
    BY <1>2 DEF route_create_room
  <2> HIDE DEF room
  <2>2. next_pk_room \notin DOMAIN game_room_table
    BY DEF IInv, TypeOK
  <2> QED
    BY <2>1, <2>2, IdleRoomChanged DEF With
<1> QED
  BY <1>1, <1>2

\* route_join_room changes a room only while it waits.
LEMMA JoinGoesOn ==
  ASSUME NEW w, NEW token, NEW r, route_join_room(w, token, r)
  PROVE  GamesGoOn
<1>1. CASE UNCHANGED game_room_table
  BY <1>1, RoomsUnchanged
<1>2. CASE ~UNCHANGED game_room_table
  <2> DEFINE room == join_game_room(game_room_table[r], connected_user_table[token].pk)
  <2>1. Joinable(r) /\ game_room_table' = [game_room_table EXCEPT ![r] = room]
    BY <1>2 DEF route_join_room, InvalidConnection, tables
  <2> HIDE DEF room
  <2>2. ~Running(game_room_table[r])
    BY <2>1 DEF Joinable, CanJoin, Running
  <2> QED
    BY <2>1, <2>2, IdleRoomChanged
<1> QED
  BY <1>1, <1>2

\* So does route_leave_room, which frees a room only then.
LEMMA LeaveGoesOn ==
  ASSUME NEW w, NEW token, route_leave_room(w, token)
  PROVE  GamesGoOn
<1>1. CASE UNCHANGED game_room_table
  BY <1>1, RoomsUnchanged
<1>2. CASE ~UNCHANGED game_room_table
  <2> DEFINE user == connected_user_table[token]
             left == leave_game_room(game_room_table[user.pk_room], user.pk)
  <2>1. /\ Leavable(user)
        /\ game_room_table' = IF left.member_pk_list = <<>>
                              THEN Without(game_room_table, {user.pk_room})
                              ELSE [game_room_table EXCEPT ![user.pk_room] = left]
    BY <1>2 DEF route_leave_room, remove_game_room, InvalidConnection, Ignored, tables
  <2> HIDE DEF left
  <2>2. ~Running(game_room_table[user.pk_room])
    BY <2>1 DEF Leavable, Running
  <2>3. \A s \in DOMAIN game_room_table \ {user.pk_room} :
          s \in DOMAIN game_room_table' /\ game_room_table'[s] = game_room_table[s]
    BY <2>1 DEF Without
  <2> QED
    BY <2>2, <2>3, IdleRoomChanged
<1> QED
  BY <1>1, <1>2

\* route_chatting scores a line.
LEMMA ChattingGoesOn ==
  ASSUME IInv, NEW w, NEW token, NEW line, route_chatting(w, token, line)
  PROVE  GamesGoOn
<1>1. CASE UNCHANGED game_room_table
  BY <1>1, RoomsUnchanged
<1>2. CASE ~UNCHANGED game_room_table
  <2> DEFINE sender == connected_user_table[token]
             r      == sender.pk_room
             room   == Scored(game_room_table[r], sender.pk, line)
  <2>1. game_room_table' = [game_room_table EXCEPT ![r] = room]
    BY <1>2 DEF route_chatting, InvalidConnection, tables
  <2>2. r \in DOMAIN game_room_table => GoesOn(game_room_table[r], room)
    BY ScoredGoesOn DEF IInv, TypeOK
  <2> HIDE DEF r, room
  <2> QED
    BY <2>1, <2>2, RoomReplaced
<1> QED
  BY <1>1, <1>2

\* route_game_start starts a game, over a running one as well.
LEMMA StartGoesOn ==
  ASSUME IInv, NEW w, NEW token, route_game_start(w, token)
  PROVE  GamesGoOn
<1>1. CASE UNCHANGED game_room_table
  BY <1>1, RoomsUnchanged
<1>2. CASE ~UNCHANGED game_room_table
  <2> DEFINE r    == connected_user_table[token].pk_room
             room == start_game(game_room_table[r])
  <2>1. game_room_table' = [game_room_table EXCEPT ![r] = room]
    BY <1>2 DEF route_game_start, InvalidConnection, Ignored, tables
  <2>2. r \in DOMAIN game_room_table => GoesOn(game_room_table[r], room)
    BY StartedGoesOn DEF IInv, TypeOK
  <2> HIDE DEF r, room
  <2> QED
    BY <2>1, <2>2, RoomReplaced
<1> QED
  BY <1>1, <1>2

\* A pass over the rooms moves a game on and changes nothing that is settled.
LEMMA PassGoesOn ==
  ASSUME IInv, update_game_rooms
  PROVE  GamesGoOn
<1>1. PICK r \in pending :
        \/ handle_game_room_waiting(r)
        \/ \E problem \in Problems : OpenRound(r, problem)
        \/ handle_game_room_playing(r)
        \/ handle_game_room_showing_total_result(r)
  BY DEF update_game_rooms, handle_game_room_ready, handle_game_room_showing_round_result
<1> DEFINE old  == game_room_table[r]
           aged == Aged(old, elapsed)
<1>2. r \in DOMAIN game_room_table /\ Sound(Pks, Problems, old) /\ elapsed \in Nat
  BY <1>1, IInvParts, ServerAssumption DEF SoundRooms, IInv, TypeOK
<1>3. \A problem : /\ GoesOn(old, aged)
                   /\ GoesOn(old, RoundOpened(aged, problem))
                   /\ GoesOn(old, RoundClosed(aged))
                   /\ GoesOn(old, end_game(aged))
  BY <1>2, VisitedGoesOn
<1>4. \E room : /\ game_room_table' = [game_room_table EXCEPT ![r] = room]
                /\ GoesOn(old, room)
  <2>1. CASE handle_game_room_waiting(r)
    BY <1>3, <2>1 DEF handle_game_room_waiting
  <2>2. CASE \E problem \in Problems : OpenRound(r, problem)
    BY <1>3, <2>2 DEF OpenRound
  <2>3. CASE handle_game_room_playing(r)
    BY <1>3, <2>3 DEF handle_game_room_playing, notify_round_end
  <2>4. CASE handle_game_room_showing_total_result(r)
    BY <1>3, <2>4 DEF handle_game_room_showing_total_result
  <2> QED
    BY <1>1, <2>1, <2>2, <2>3, <2>4
<1> QED
  BY <1>4, RoomReplaced

-----------------------------------------------------------------------------
\* Every step.
LEMMA StepGoesOn == IInv /\ [Next]_vars => GamesGoOn
<1> SUFFICES ASSUME IInv, [Next]_vars
             PROVE  GamesGoOn
  OBVIOUS
<1>1. CASE Idle \/ UNCHANGED vars
  BY <1>1, RoomsUnchanged DEF Idle, vars, tables
<1>2. ASSUME NEW w \in Workers, Account(w) \/ handle_dead_client_worker(w)
      PROVE  GamesGoOn
  BY <1>2, RoomsUnchanged
     DEF Account, route_sign_up, route_sign_in, handle_dead_client_worker
<1>3. ASSUME NEW w \in Workers, NEW token \in Tokens, Request(w, token)
      PROVE  GamesGoOn
  <2>1. CASE \/ route_sign_out(w, token) \/ route_check_lobby(w, token)
             \/ route_check_room(w, token)
    BY <2>1, RoomsUnchanged
       DEF route_sign_out, route_check_lobby, route_check_room, InvalidConnection,
           Ignored, tables
  <2>2. CASE route_create_room(w, token)
    BY <2>2, CreateGoesOn
  <2>3. CASE \E r \in 1 .. MaxRooms : route_join_room(w, token, r)
    BY <2>3, JoinGoesOn
  <2>4. CASE route_leave_room(w, token)
    BY <2>4, LeaveGoesOn
  <2>5. CASE \E line \in Lines : route_chatting(w, token, line)
    BY <2>5, ChattingGoesOn
  <2>6. CASE route_game_start(w, token)
    BY <2>6, StartGoesOn
  <2> QED
    BY <1>3, <2>1, <2>2, <2>3, <2>4, <2>5, <2>6 DEF Request
<1>4. CASE update_game_rooms
  BY <1>4, PassGoesOn
<1> QED
  BY <1>1, <1>2, <1>3, <1>4 DEF Next

\* Nobody enters or leaves a room while a game runs there: of all handlers only
\* route_join_room and route_leave_room change a member list, and both look at
\* the status first.
THEOREM PlayersStayInTheGame == Spec => PlayersStay
<1>1. IInv /\ [Next]_vars =>
        [\A r \in DOMAIN game_room_table :
           Running(game_room_table[r]) =>
             /\ r \in DOMAIN game_room_table'
             /\ game_room_table'[r].member_pk_list = game_room_table[r].member_pk_list]_vars
  BY StepGoesOn DEF GamesGoOn, GoesOn
<1> QED
  BY <1>1, Invariance, PTL DEF Spec, PlayersStay

\* The first right answer of a round stands until a new game is started.
THEOREM FirstAnswersStand == Spec => FirstAnswerStands
<1>1. IInv /\ [Next]_vars =>
        [\A r \in DOMAIN game_room_table :
           Running(game_room_table[r]) =>
             /\ r \in DOMAIN game_room_table'
             /\ \A i \in Rounds :
                  \/ game_room_table[r].winner_of_round[i] = NoWinner
                  \/ game_room_table'[r].winner_of_round[i] = game_room_table[r].winner_of_round[i]
                  \/ Restarted(r)]_vars
  BY StepGoesOn DEF GamesGoOn, GoesOn, Restarted
<1> QED
  BY <1>1, Invariance, PTL DEF Spec, FirstAnswerStands

-----------------------------------------------------------------------------
\* A room as QuizGame sees it.

\* A room as QuizGame sees it, and a room that is not there.
Seen(room) ==
  [phase   |-> room.status,
   players |-> Players(room),
   round   |-> IF Running(room) THEN room.curr_round ELSE 0,
   winners |-> IF Running(room) THEN room.winner_of_round
                                ELSE [i \in Rounds |-> NoWinner]]

NotThere == [phase   |-> "ABSENT", players |-> {}, round |-> 0,
             winners |-> [i \in Rounds |-> NoWinner]]

View(r) == IF r \in DOMAIN game_room_table THEN Seen(game_room_table[r]) ELSE NotThere

\* The actions of QuizGame, from one view of a room to the next.
Creates(a, b) ==
  /\ a.phase = "ABSENT" /\ b.phase = "WAITING"
  /\ \E u : b.players = {u}
  /\ b.round = a.round /\ b.winners = a.winners

Joins(a, b) ==
  /\ a.phase = "WAITING" /\ b.phase = a.phase
  /\ \E u : b.players = a.players \cup {u}
  /\ b.round = a.round /\ b.winners = a.winners

Leaves(a, b) ==
  /\ a.phase = "WAITING" /\ b.phase = a.phase
  /\ \E u \in a.players : b.players = a.players \/ b.players = a.players \ {u}
  /\ b.players # {}
  /\ b.round = a.round /\ b.winners = a.winners

Dissolves(a, b) ==
  /\ a.phase = "WAITING" /\ b.phase = "ABSENT"
  /\ \E u : a.players = {u}
  /\ b.players = {}
  /\ b.round = a.round /\ b.winners = a.winners

Starts(a, b) ==
  /\ a.phase # "ABSENT" /\ b.phase = "READY"
  /\ b.players = a.players
  /\ b.round = 0 /\ b.winners = [i \in Rounds |-> NoWinner]

Opens(a, b) ==
  /\ a.phase \in {"READY", "SHOWING_ROUND_RESULT"} /\ b.phase = "PLAYING"
  /\ b.players = a.players
  /\ b.round = a.round /\ b.winners = a.winners

Wins(a, b) ==
  /\ a.phase = "PLAYING" /\ b.phase = a.phase
  /\ b.players = a.players
  /\ b.round = a.round
  /\ a.winners[a.round] = NoWinner
  /\ \E u \in a.players : b.winners = [a.winners EXCEPT ![a.round] = u]

Closes(a, b) ==
  /\ a.phase = "PLAYING"
  /\ b.phase = IF a.round + 1 < TotalRound THEN "SHOWING_ROUND_RESULT"
                                           ELSE "SHOWING_TOTAL_RESULT"
  /\ b.players = a.players
  /\ b.round = a.round + 1 /\ b.winners = a.winners

Finishes(a, b) ==
  /\ a.phase = "SHOWING_TOTAL_RESULT" /\ b.phase = "WAITING"
  /\ b.players = a.players
  /\ b.round = 0 /\ b.winners = [i \in Rounds |-> NoWinner]

Plays(a, b) ==
  \/ b = a
  \/ Creates(a, b) \/ Joins(a, b) \/ Leaves(a, b) \/ Dissolves(a, b)
  \/ Starts(a, b) \/ Opens(a, b) \/ Wins(a, b) \/ Closes(a, b) \/ Finishes(a, b)

-----------------------------------------------------------------------------
\* A step from view to view is a step of QuizGame.
LEMMA ViewSteps ==
  ASSUME NEW r, Plays(View(r), View(r)')
  PROVE  QuizStep(r)
<1> DEFINE a == View(r)
           b == View(r)'
<1>1. /\ a.phase = IF r \in DOMAIN game_room_table THEN game_room_table[r].status
                                                   ELSE "ABSENT"
      /\ a.players = IF r \in DOMAIN game_room_table THEN Players(game_room_table[r])
                                                     ELSE {}
      /\ a.round = IF InGame(r) THEN game_room_table[r].curr_round ELSE 0
      /\ a.winners = IF InGame(r) THEN game_room_table[r].winner_of_round
                                  ELSE [i \in Rounds |-> NoWinner]
  BY DEF View, Seen, NotThere, InGame
<1>2. /\ b.phase = IF r \in DOMAIN game_room_table' THEN game_room_table'[r].status
                                                    ELSE "ABSENT"
      /\ b.players = IF r \in DOMAIN game_room_table' THEN Players(game_room_table'[r])
                                                      ELSE {}
      /\ b.round = IF InGame(r)' THEN game_room_table'[r].curr_round ELSE 0
      /\ b.winners = IF InGame(r)' THEN game_room_table'[r].winner_of_round
                                   ELSE [i \in Rounds |-> NoWinner]
  BY DEF View, Seen, NotThere, InGame
<1>3. Plays(a, b)
  OBVIOUS
<1> HIDE DEF a, b
<1>4. CASE b = a
  BY <1>1, <1>2, <1>4 DEF QuizStep, Quiz!quizVars
<1>5. CASE Creates(a, b)
  BY <1>1, <1>2, <1>5 DEF Creates, QuizStep, Quiz!QuizNext, Quiz!Create
<1>6. CASE Joins(a, b)
  BY <1>1, <1>2, <1>6 DEF Joins, QuizStep, Quiz!QuizNext, Quiz!Join
<1>7. CASE Leaves(a, b)
  BY <1>1, <1>2, <1>7 DEF Leaves, QuizStep, Quiz!QuizNext, Quiz!Leave
<1>8. CASE Dissolves(a, b)
  BY <1>1, <1>2, <1>8 DEF Dissolves, QuizStep, Quiz!QuizNext, Quiz!Dissolve
<1>9. CASE Starts(a, b)
  BY <1>1, <1>2, <1>9 DEF Starts, QuizStep, Quiz!QuizNext, Quiz!Start, Quiz!Unscored, Rounds
<1>10. CASE Opens(a, b)
  BY <1>1, <1>2, <1>10 DEF Opens, QuizStep, Quiz!QuizNext, Quiz!OpenRound
<1>11. CASE Wins(a, b)
  BY <1>1, <1>2, <1>11 DEF Wins, QuizStep, Quiz!QuizNext, Quiz!Win
<1>12. CASE Closes(a, b)
  BY <1>1, <1>2, <1>12 DEF Closes, QuizStep, Quiz!QuizNext, Quiz!CloseRound
<1>13. CASE Finishes(a, b)
  BY <1>1, <1>2, <1>13
     DEF Finishes, QuizStep, Quiz!QuizNext, Quiz!Finish, Quiz!Unscored, Rounds
<1> QED
  BY <1>3, <1>4, <1>5, <1>6, <1>7, <1>8, <1>9, <1>10, <1>11, <1>12, <1>13 DEF Plays

-----------------------------------------------------------------------------
\* The operations on a room.

\* A new room with its creator in it.
LEMMA CreatedPlays ==
  ASSUME NEW pk \in Pks
  PROVE  Plays(NotThere, Seen(join_game_room(create_game_room, pk)))
<1> DEFINE room == join_game_room(create_game_room, pk)
<1>1. Players(room) = {pk} /\ room.status = "WAITING"
  BY CreatedSound
<1> HIDE DEF room
<1>2. Creates(NotThere, Seen(room))
  BY <1>1 DEF Creates, NotThere, Seen, Running
<1> QED
  BY <1>2 DEF Plays, room

\* Another member.
LEMMA JoinedPlays ==
  ASSUME NEW P, NEW Q, NEW room, Sound(P, Q, room), CanJoin(room), NEW pk \in P
  PROVE  Plays(Seen(room), Seen(join_game_room(room, pk)))
<1> DEFINE joined == join_game_room(room, pk)
<1>1. Players(joined) = Players(room) \cup {pk} /\ joined.status = "WAITING"
  BY JoinedSound
<1> HIDE DEF joined
<1>2. Joins(Seen(room), Seen(joined))
  BY <1>1 DEF Joins, Seen, Running, CanJoin
<1> QED
  BY <1>2 DEF Plays, joined

\* A member less, or the last one with the room.
LEMMA LeftPlays ==
  ASSUME NEW P, NEW Q, NEW room, Sound(P, Q, room), room.status = "WAITING",
         NEW pk \in Players(room)
  PROVE  LET left == leave_game_room(room, pk)
         IN  /\ left.member_pk_list = <<>> => Plays(Seen(room), NotThere)
             /\ left.member_pk_list # <<>> => Plays(Seen(room), Seen(left))
<1> DEFINE left == leave_game_room(room, pk)
<1>1. /\ left.member_pk_list # <<>> => Sound(P, Q, left)
      /\ left.member_pk_list = <<>> => Players(room) = {pk}
      /\ Players(left) \subseteq Players(room)
      /\ Players(room) \ {pk} \subseteq Players(left)
      /\ left.status = "WAITING"
  BY LeftSound
<1> HIDE DEF left
<1>2. CASE left.member_pk_list = <<>>
  <2>1. Dissolves(Seen(room), NotThere)
    BY <1>1, <1>2 DEF Dissolves, Seen, NotThere, Running
  <2> QED
    BY <1>2, <2>1 DEF Plays, left
<1>3. CASE left.member_pk_list # <<>>
  <2>1. left.member_pk_list \in Seq(P) /\ Len(left.member_pk_list) \in 1 .. Capacity
    BY <1>1, <1>3 DEF Sound, RoomOf
  <2>2. 1 \in DOMAIN left.member_pk_list
    BY <2>1, LenProperties, RoomAssumption
  <2>3. Players(left) # {}
    BY <2>2 DEF Players, Range
  <2>4. Players(left) = Players(room) \/ Players(left) = Players(room) \ {pk}
    BY <1>1
  <2>5. Leaves(Seen(room), Seen(left))
    BY <1>1, <2>3, <2>4 DEF Leaves, Seen, Running
  <2> QED
    BY <1>3, <2>5 DEF Plays, left
<1> QED
  BY <1>2, <1>3 DEF left

\* A new game, in whatever phase the room is.
LEMMA StartedPlays ==
  ASSUME NEW P, NEW Q, NEW room, Sound(P, Q, room)
  PROVE  Plays(Seen(room), Seen(start_game(room)))
<1> DEFINE started == start_game(room)
<1>1. /\ started.status = "READY"
      /\ started.curr_round = 0
      /\ started.member_pk_list = room.member_pk_list
      /\ started.winner_of_round = [i \in Rounds |-> NoWinner]
      /\ room.status # "ABSENT"
  BY DEF start_game, Sound, RoomOf, Phases
<1> HIDE DEF started
<1>2. Starts(Seen(room), Seen(started))
  BY <1>1 DEF Starts, Seen, Running, Players
<1> QED
  BY <1>2 DEF Plays, started

\* A line of a player: it wins the round, or changes nothing.
LEMMA ScoredPlays ==
  ASSUME NEW P, NEW Q, NEW room, Sound(P, Q, room), NEW pk \in Players(room), NEW message
  PROVE  Plays(Seen(room), Seen(Scored(room, pk, message)))
<1> DEFINE scored == Scored(room, pk, message)
<1>1. CASE scored = room
  BY <1>1 DEF Plays
<1>2. CASE scored # room
  <2>1. /\ room.status = "PLAYING"
        /\ room.winner_of_round[room.curr_round] = NoWinner
        /\ scored = [room EXCEPT !.winner_of_round[room.curr_round] = pk]
    BY <1>2 DEF Scored
  <2> HIDE DEF scored
  <2>2. /\ scored.status = room.status
        /\ scored.member_pk_list = room.member_pk_list
        /\ scored.curr_round = room.curr_round
        /\ scored.winner_of_round = [room.winner_of_round EXCEPT ![room.curr_round] = pk]
    BY <2>1 DEF Sound, RoomOf
  <2>3. Wins(Seen(room), Seen(scored))
    BY <2>1, <2>2 DEF Wins, Seen, Running, Players
  <2> QED
    BY <2>3 DEF Plays, scored
<1> QED
  BY <1>1, <1>2

\* A room whose time is not over looks as it did.
LEMMA AgedPlays ==
  ASSUME NEW P, NEW Q, NEW room, Sound(P, Q, room), NEW dt \in Nat
  PROVE  Plays(Seen(room), Seen(Aged(room, dt)))
<1>1. Seen(Aged(room, dt)) = Seen(room)
  BY AgedProperties DEF Seen, Running, Players
<1> QED
  BY <1>1 DEF Plays

\* The next round.
LEMMA OpenedPlays ==
  ASSUME NEW P, NEW Q, NEW room, Sound(P, Q, room), NEW dt \in Nat, NEW problem \in Q,
         room.status \in {"READY", "SHOWING_ROUND_RESULT"}
  PROVE  Plays(Seen(room), Seen(RoundOpened(Aged(room, dt), problem)))
<1> DEFINE opened == RoundOpened(Aged(room, dt), problem)
<1>1. /\ opened.member_pk_list = room.member_pk_list
      /\ opened.status = "PLAYING"
      /\ opened.curr_round = room.curr_round
      /\ opened.winner_of_round = room.winner_of_round
  BY OpenedSound
<1> HIDE DEF opened
<1>2. Opens(Seen(room), Seen(opened))
  BY <1>1 DEF Opens, Seen, Running, Players
<1> QED
  BY <1>2 DEF Plays, opened

\* The end of a round.
LEMMA ClosedPlays ==
  ASSUME NEW P, NEW Q, NEW room, Sound(P, Q, room), NEW dt \in Nat,
         room.status = "PLAYING"
  PROVE  Plays(Seen(room), Seen(RoundClosed(Aged(room, dt))))
<1> DEFINE closed == RoundClosed(Aged(room, dt))
<1>1. /\ closed.member_pk_list = room.member_pk_list
      /\ closed.curr_round = room.curr_round + 1
      /\ closed.status = IF room.curr_round + 1 < TotalRound
                         THEN "SHOWING_ROUND_RESULT" ELSE "SHOWING_TOTAL_RESULT"
      /\ closed.winner_of_round = room.winner_of_round
  BY ClosedSound
<1> HIDE DEF closed
<1>2. Closes(Seen(room), Seen(closed))
  BY <1>1 DEF Closes, Seen, Running, Players
<1> QED
  BY <1>2 DEF Plays, closed

\* The end of the game.
LEMMA EndedPlays ==
  ASSUME NEW P, NEW Q, NEW room, Sound(P, Q, room), NEW dt \in Nat,
         room.status = "SHOWING_TOTAL_RESULT"
  PROVE  Plays(Seen(room), Seen(end_game(Aged(room, dt))))
<1> DEFINE ended == end_game(Aged(room, dt))
<1>1. ended.member_pk_list = room.member_pk_list /\ ended.status = "WAITING"
  BY EndedSound
<1> HIDE DEF ended
<1>2. Finishes(Seen(room), Seen(ended))
  BY <1>1 DEF Finishes, Seen, Running, Players
<1> QED
  BY <1>2 DEF Plays, ended

-----------------------------------------------------------------------------
\* The ways a step touches the rooms.

EveryRoomPlays == \A r \in RoomNumbers : QuizStep(r)

\* No room changes.
LEMMA NoRoomPlays ==
  ASSUME UNCHANGED game_room_table
  PROVE  EveryRoomPlays
<1> SUFFICES ASSUME NEW r \in RoomNumbers
             PROVE  QuizStep(r)
  BY DEF EveryRoomPlays
<1>1. View(r)' = View(r)
  BY DEF View, Seen, NotThere, Running, Players
<1> QED
  BY <1>1, ViewSteps DEF Plays

\* One room changes, appears or goes as QuizGame allows; the others stay.
LEMMA OneRoomPlays ==
  ASSUME NEW r, Plays(View(r), View(r)'),
         \A s : s # r => /\ s \in DOMAIN game_room_table' <=> s \in DOMAIN game_room_table
                         /\ s \in DOMAIN game_room_table =>
                              game_room_table'[s] = game_room_table[s]
  PROVE  EveryRoomPlays
<1> SUFFICES ASSUME NEW s \in RoomNumbers
             PROVE  QuizStep(s)
  BY DEF EveryRoomPlays
<1>1. CASE s = r
  BY <1>1, ViewSteps
<1>2. CASE s # r
  <2>1. View(s)' = View(s)
    BY <1>2 DEF View, Seen, NotThere, Running, Players
  <2> QED
    BY <2>1, ViewSteps DEF Plays
<1> QED
  BY <1>1, <1>2

\* A room that is there is replaced by one it may turn into.
LEMMA ReplacedRoomPlays ==
  ASSUME NEW r, NEW room, game_room_table' = [game_room_table EXCEPT ![r] = room],
         r \in DOMAIN game_room_table => Plays(Seen(game_room_table[r]), Seen(room))
  PROVE  EveryRoomPlays
<1>1. CASE r \in DOMAIN game_room_table
  <2>1. /\ r \in DOMAIN game_room_table' /\ game_room_table'[r] = room
        /\ DOMAIN game_room_table' = DOMAIN game_room_table
        /\ \A s : s # r /\ s \in DOMAIN game_room_table =>
                    game_room_table'[s] = game_room_table[s]
    BY <1>1
  <2>2. View(r) = Seen(game_room_table[r]) /\ View(r)' = Seen(room)
    BY <1>1, <2>1 DEF View, Seen, Running, Players
  <2> QED
    BY <1>1, <2>1, <2>2, OneRoomPlays
<1>2. CASE r \notin DOMAIN game_room_table
  <2>1. /\ DOMAIN game_room_table' = DOMAIN game_room_table
        /\ \A s \in DOMAIN game_room_table : game_room_table'[s] = game_room_table[s]
    BY <1>2
  <2>2. View(r)' = View(r)
    BY <1>2, <2>1 DEF View, NotThere
  <2> QED
    BY <2>1, <2>2, OneRoomPlays DEF Plays
<1> QED
  BY <1>1, <1>2

\* A room appears under a number no room has.
LEMMA AddedRoomPlays ==
  ASSUME NEW r, NEW room, game_room_table' = With(game_room_table, r, room),
         r \notin DOMAIN game_room_table, Plays(NotThere, Seen(room))
  PROVE  EveryRoomPlays
<1>1. /\ r \in DOMAIN game_room_table' /\ game_room_table'[r] = room
      /\ \A s : s # r => /\ s \in DOMAIN game_room_table' <=> s \in DOMAIN game_room_table
                         /\ s \in DOMAIN game_room_table =>
                              game_room_table'[s] = game_room_table[s]
  BY DEF With
<1>2. View(r) = NotThere /\ View(r)' = Seen(room)
  BY <1>1 DEF View, Seen, Running, Players
<1> QED
  BY <1>1, <1>2, OneRoomPlays

\* A room goes.
LEMMA RemovedRoomPlays ==
  ASSUME NEW r \in DOMAIN game_room_table, game_room_table' = remove_game_room(r),
         Plays(Seen(game_room_table[r]), NotThere)
  PROVE  EveryRoomPlays
<1>1. /\ r \notin DOMAIN game_room_table'
      /\ \A s : s # r => /\ s \in DOMAIN game_room_table' <=> s \in DOMAIN game_room_table
                         /\ s \in DOMAIN game_room_table =>
                              game_room_table'[s] = game_room_table[s]
  BY DEF remove_game_room, Without
<1>2. View(r) = Seen(game_room_table[r]) /\ View(r)' = NotThere
  BY <1>1 DEF View, NotThere
<1> QED
  BY <1>1, <1>2, OneRoomPlays

-----------------------------------------------------------------------------
\* The handlers.

\* route_create_room makes a room under a number no room has.
LEMMA CreatePlays ==
  ASSUME IInv, NEW w, NEW token, route_create_room(w, token)
  PROVE  EveryRoomPlays
<1>1. CASE InvalidConnection(w, token)
  BY <1>1, NoRoomPlays DEF InvalidConnection, tables
<1>2. CASE ~InvalidConnection(w, token)
  <2> DEFINE pk   == connected_user_table[token].pk
             room == join_game_room(create_game_room, pk)
  <2>1. /\ token \in DOMAIN connected_user_table
        /\ game_room_table' = With(game_room_table, next_pk_room, room)
    BY <1>2 DEF route_create_room
  <2>2. next_pk_room \notin DOMAIN game_room_table /\ pk \in Pks
    BY <2>1 DEF IInv, TypeOK, Session
  <2>3. Plays(NotThere, Seen(room))
    BY <2>2, CreatedPlays
  <2> HIDE DEF room
  <2>4. PICK r : r = next_pk_room
    OBVIOUS
  <2> QED
    BY <2>1, <2>2, <2>3, <2>4, AddedRoomPlays
<1> QED
  BY <1>1, <1>2

\* route_join_room adds a member to a room that waits and has a slot.
LEMMA JoinPlays ==
  ASSUME IInv, NEW w, NEW token, NEW r, route_join_room(w, token, r)
  PROVE  EveryRoomPlays
<1>1. CASE UNCHANGED game_room_table
  BY <1>1, NoRoomPlays
<1>2. CASE ~UNCHANGED game_room_table
  <2> DEFINE pk   == connected_user_table[token].pk
             room == join_game_room(game_room_table[r], pk)
  <2>1. /\ token \in DOMAIN connected_user_table
        /\ Joinable(r)
        /\ game_room_table' = [game_room_table EXCEPT ![r] = room]
    BY <1>2 DEF route_join_room, InvalidConnection, tables
  <2>2. pk \in Pks
    BY <2>1 DEF IInv, TypeOK, Session
  <2>3. Plays(Seen(game_room_table[r]), Seen(room))
    BY <2>1, <2>2, IInvParts, JoinedPlays DEF Joinable, SoundRooms
  <2> HIDE DEF room
  <2> QED
    BY <2>1, <2>3, ReplacedRoomPlays
<1> QED
  BY <1>1, <1>2

\* route_leave_room takes a member away from a room that waits, and the room
\* with the last.
LEMMA LeavePlays ==
  ASSUME IInv, NEW w, NEW token, route_leave_room(w, token)
  PROVE  EveryRoomPlays
<1>1. CASE UNCHANGED game_room_table
  BY <1>1, NoRoomPlays
<1>2. CASE ~UNCHANGED game_room_table
  <2>1. PICK user, r : /\ user = connected_user_table[token]
                       /\ r = user.pk_room
    OBVIOUS
  <2> DEFINE room == game_room_table[r]
             left == leave_game_room(room, user.pk)
  <2>2. /\ token \in DOMAIN connected_user_table
        /\ Leavable(user)
        /\ game_room_table' = IF left.member_pk_list = <<>>
                              THEN remove_game_room(r)
                              ELSE [game_room_table EXCEPT ![r] = left]
    BY <1>2, <2>1 DEF route_leave_room, InvalidConnection, Ignored, tables
  <2>3. /\ r \in DOMAIN game_room_table
        /\ room.status = "WAITING"
        /\ user.pk \in Players(room)
    BY <2>1, <2>2 DEF Leavable, IInv, InRoomIsListed
  <2>4. Sound(Pks, Problems, room)
    BY <2>3, IInvParts DEF SoundRooms
  <2>5. /\ left.member_pk_list = <<>> => Plays(Seen(room), NotThere)
        /\ left.member_pk_list # <<>> => Plays(Seen(room), Seen(left))
    BY <2>3, <2>4, LeftPlays
  <2> HIDE DEF left
  <2>6. CASE left.member_pk_list = <<>>
    BY <2>2, <2>3, <2>5, <2>6, RemovedRoomPlays
  <2>7. CASE left.member_pk_list # <<>>
    BY <2>2, <2>5, <2>7, ReplacedRoomPlays
  <2> QED
    BY <2>6, <2>7
<1> QED
  BY <1>1, <1>2

\* route_chatting scores a line of a member.
LEMMA ChattingPlays ==
  ASSUME IInv, NEW w, NEW token, NEW line, route_chatting(w, token, line)
  PROVE  EveryRoomPlays
<1>1. CASE UNCHANGED game_room_table
  BY <1>1, NoRoomPlays
<1>2. CASE ~UNCHANGED game_room_table
  <2>1. PICK sender, r : /\ sender = connected_user_table[token]
                         /\ r = sender.pk_room
    OBVIOUS
  <2> DEFINE room == Scored(game_room_table[r], sender.pk, line)
  <2>2. /\ token \in DOMAIN connected_user_table
        /\ sender.status = "IN_ROOM"
        /\ game_room_table' = [game_room_table EXCEPT ![r] = room]
    BY <1>2, <2>1 DEF route_chatting, InvalidConnection, tables
  <2>3. /\ r \in DOMAIN game_room_table
        /\ sender.pk \in Players(game_room_table[r])
    BY <2>1, <2>2 DEF IInv, InRoomIsListed
  <2>4. Sound(Pks, Problems, game_room_table[r])
    BY <2>3, IInvParts DEF SoundRooms
  <2>5. Plays(Seen(game_room_table[r]), Seen(room))
    BY <2>3, <2>4, ScoredPlays
  <2> HIDE DEF room
  <2> QED
    BY <2>2, <2>5, ReplacedRoomPlays
<1> QED
  BY <1>1, <1>2

\* route_game_start starts a game, over a running one as well.
LEMMA StartPlays ==
  ASSUME IInv, NEW w, NEW token, route_game_start(w, token)
  PROVE  EveryRoomPlays
<1>1. CASE UNCHANGED game_room_table
  BY <1>1, NoRoomPlays
<1>2. CASE ~UNCHANGED game_room_table
  <2>1. PICK r : r = connected_user_table[token].pk_room
    OBVIOUS
  <2> DEFINE room == start_game(game_room_table[r])
  <2>2. game_room_table' = [game_room_table EXCEPT ![r] = room]
    BY <1>2, <2>1 DEF route_game_start, InvalidConnection, Ignored, tables
  <2>3. r \in DOMAIN game_room_table => Plays(Seen(game_room_table[r]), Seen(room))
    BY IInvParts, StartedPlays DEF SoundRooms
  <2> HIDE DEF room
  <2> QED
    BY <2>2, <2>3, ReplacedRoomPlays
<1> QED
  BY <1>1, <1>2

\* A pass over the rooms leaves a room in its phase or takes it to the next.
LEMMA PassPlays ==
  ASSUME IInv, update_game_rooms
  PROVE  EveryRoomPlays
<1>1. PICK r \in pending :
        \/ handle_game_room_waiting(r)
        \/ \E problem \in Problems : \/ handle_game_room_ready(r, problem)
                                     \/ handle_game_room_showing_round_result(r, problem)
        \/ handle_game_room_playing(r)
        \/ handle_game_room_showing_total_result(r)
  BY DEF update_game_rooms
<1> DEFINE old  == game_room_table[r]
           aged == Aged(old, elapsed)
<1>2. r \in DOMAIN game_room_table /\ Sound(Pks, Problems, old) /\ elapsed \in Nat
  BY <1>1, IInvParts, ServerAssumption DEF SoundRooms, IInv, TypeOK
<1>3. \E room : /\ game_room_table' = [game_room_table EXCEPT ![r] = room]
                /\ Plays(Seen(old), Seen(room))
  <2>1. CASE handle_game_room_waiting(r)
    BY <1>2, <2>1, AgedPlays DEF handle_game_room_waiting
  <2>2. CASE \E problem \in Problems :
               \/ handle_game_room_ready(r, problem)
               \/ handle_game_room_showing_round_result(r, problem)
    <3>1. PICK problem \in Problems :
            /\ old.status \in {"READY", "SHOWING_ROUND_RESULT"}
            /\ game_room_table' = [game_room_table EXCEPT ![r] = RoundOpened(aged, problem)]
      BY <2>2 DEF handle_game_room_ready, handle_game_room_showing_round_result, OpenRound
    <3> QED
      BY <1>2, <3>1, OpenedPlays
  <2>3. CASE handle_game_room_playing(r)
    BY <1>2, <2>3, ClosedPlays DEF handle_game_room_playing
  <2>4. CASE handle_game_room_showing_total_result(r)
    BY <1>2, <2>4, EndedPlays DEF handle_game_room_showing_total_result
  <2> QED
    BY <1>1, <2>1, <2>2, <2>3, <2>4
<1> QED
  BY <1>3, ReplacedRoomPlays

-----------------------------------------------------------------------------
\* Every step.
LEMMA StepPlays == IInv /\ [Next]_vars => EveryRoomPlays
<1> SUFFICES ASSUME IInv, [Next]_vars
             PROVE  EveryRoomPlays
  OBVIOUS
<1>1. CASE Idle \/ UNCHANGED vars
  BY <1>1, NoRoomPlays DEF Idle, vars, tables
<1>2. ASSUME NEW w \in Workers, Account(w) \/ handle_dead_client_worker(w)
      PROVE  EveryRoomPlays
  BY <1>2, NoRoomPlays
     DEF Account, route_sign_up, route_sign_in, handle_dead_client_worker
<1>3. ASSUME NEW w \in Workers, NEW token \in Tokens, Request(w, token)
      PROVE  EveryRoomPlays
  <2>1. CASE \/ route_sign_out(w, token) \/ route_check_lobby(w, token)
             \/ route_check_room(w, token)
    BY <2>1, NoRoomPlays
       DEF route_sign_out, route_check_lobby, route_check_room, InvalidConnection,
           Ignored, tables
  <2>2. CASE route_create_room(w, token)
    BY <2>2, CreatePlays
  <2>3. CASE \E r \in 1 .. MaxRooms : route_join_room(w, token, r)
    BY <2>3, JoinPlays
  <2>4. CASE route_leave_room(w, token)
    BY <2>4, LeavePlays
  <2>5. CASE \E line \in Lines : route_chatting(w, token, line)
    BY <2>5, ChattingPlays
  <2>6. CASE route_game_start(w, token)
    BY <2>6, StartPlays
  <2> QED
    BY <1>3, <2>1, <2>2, <2>3, <2>4, <2>5, <2>6 DEF Request
<1>4. CASE update_game_rooms
  BY <1>4, PassPlays
<1> QED
  BY <1>1, <1>2, <1>3, <1>4 DEF Next

\* However messages, sessions and turns of the clock interleave, every room
\* plays the game of QuizGame: update_game_rooms and the handlers of main.c
\* change rooms only as that game has it.
THEOREM RoomsImplementQuizGame == Spec => RoomsPlayQuiz
<1>1. Init => \A r \in RoomNumbers : Quiz(r)!QuizInit
  BY DEF Init, Quiz!QuizInit, Quiz!Unscored, InGame, Rounds
<1>2. IInv /\ [Next]_vars => [\A r \in RoomNumbers : QuizStep(r)]_vars
  BY StepPlays DEF EveryRoomPlays
<1> QED
  BY <1>1, <1>2, Invariance, PTL DEF Spec, RoomsPlayQuiz



\* So each room by itself is a QuizGame, from before it is created until after it is
\* gone: the abstract specification, with the quantifier outside.
THEOREM EveryRoomIsAQuizGame ==
  ASSUME NEW r \in RoomNumbers
  PROVE  Spec => Quiz(r)!QuizSpec
<1>1. Init => Quiz(r)!QuizInit
  BY DEF Init, Quiz!QuizInit, Quiz!Unscored, InGame, Rounds
<1>2. IInv /\ [Next]_vars => [Quiz(r)!QuizNext]_(Quiz(r)!quizVars)
  <2> SUFFICES ASSUME IInv, [Next]_vars PROVE [Quiz(r)!QuizNext]_(Quiz(r)!quizVars)
    OBVIOUS
  <2>1. QuizStep(r)
    BY StepPlays DEF EveryRoomPlays
  <2> QED
    BY <2>1 DEF QuizStep
<1> QED
  BY <1>1, <1>2, Invariance, PTL DEF Spec, Quiz!QuizSpec

-----------------------------------------------------------------------------
\* The end of a game.

\* Rounds are counted, and no player can have won more than there are.
LEMMA RoundsAreCounted ==
  ASSUME NEW room, NEW pk
  PROVE  RoundsWon(room, pk) \in 0 .. TotalRound
<1> DEFINE won == {i \in Rounds : room.winner_of_round[i] = pk}
<1>1. TotalRound \in Nat /\ TotalRound - 1 \in Int
  BY RoomAssumption
<1>2. IsFiniteSet(Rounds) /\ Cardinality(Rounds) = TotalRound
  BY <1>1, FS_Interval DEF Rounds
<1>3. IsFiniteSet(won) /\ Cardinality(won) <= Cardinality(Rounds)
  BY <1>2, FS_Subset
<1>4. Cardinality(won) \in Nat
  BY <1>3, FS_CardinalityType
<1> QED
  BY <1>1, <1>2, <1>3, <1>4 DEF RoundsWon

\* Of bounded numbers in the places of a list one is the greatest, and of the places that
\* have it one is the first.
LEMMA FirstGreatest ==
  ASSUME NEW n \in Nat \ {0}, NEW bound \in Nat, NEW f,
         \A j \in 1 .. n : f[j] \in 0 .. bound
  PROVE  \E j \in 1 .. n : \A k \in 1 .. n :
           f[k] <= f[j] /\ (k < j => f[k] < f[j])
<1> DEFINE room == {bound - f[j] : j \in 1 .. n}
<1>1. room \subseteq Nat /\ room # {}
  <2>1. 1 \in 1 .. n
    OBVIOUS
  <2>2. bound - f[1] \in room
    BY <2>1
  <2>3. \A j \in 1 .. n : bound - f[j] \in Nat
    OBVIOUS
  <2> QED
    BY <2>2, <2>3
<1>2. PICK m \in 1 .. n : \A k \in 1 .. n : bound - f[m] <= bound - f[k]
  <2> HIDE DEF room
  <2>1. Min(room) \in room /\ \A y \in room : Min(room) <= y
    BY <1>1, MinOfNaturals
  <2> QED
    BY <2>1 DEF room
<1>3. \A k \in 1 .. n : f[k] <= f[m]
  BY <1>2
<1> DEFINE best == {j \in 1 .. n : f[j] = f[m]}
<1>4. best \subseteq Nat /\ best # {}
  OBVIOUS
<1>5. PICK j \in best : \A y \in best : j <= y
  <2> HIDE DEF best
  <2> QED
    BY <1>4, MinOfNaturals
<1>6. ASSUME NEW k \in 1 .. n
      PROVE  f[k] <= f[j] /\ (k < j => f[k] < f[j])
  <2>1. f[k] <= f[j] /\ f[k] \in Int /\ f[j] \in Int
    BY <1>3
  <2>2. k < j => f[k] # f[j]
    BY <1>5
  <2> QED
    BY <2>1, <2>2
<1> QED
  BY <1>6

\* The loop of notify_game_end finds a winner in every room that has members.
LEMMA WinnerIsBest ==
  ASSUME NEW P, NEW Q, NEW room \in RoomOf(P, Q), Len(room.member_pk_list) # 0
  PROVE  IsBest(room, TotalWinner(room))
<1> DEFINE list  == room.member_pk_list
           slots == DOMAIN list
           n     == Len(list)
           f     == [j \in slots |-> RoundsWon(room, list[j])]
           First(j) == \A k \in slots :
                         /\ WinCount(room, k) <= WinCount(room, j)
                         /\ k < j => WinCount(room, k) < WinCount(room, j)
           best  == CHOOSE j \in slots : First(j)
<1>1. n \in Nat \ {0} /\ slots = 1 .. n
  BY PlacesOf DEF RoomOf
<1>2. \A j \in slots : f[j] \in 0 .. TotalRound /\ f[j] = WinCount(room, j)
  BY RoundsAreCounted DEF WinCount, RoundsWon
<1>3. TotalRound \in Nat
  BY RoomAssumption
<1>4. \E j \in slots : \A k \in slots : f[k] <= f[j] /\ (k < j => f[k] < f[j])
  <2> HIDE DEF f, n, slots
  <2> QED
    BY <1>1, <1>2, <1>3, FirstGreatest
<1>5. \E j \in slots : First(j)
  <2> HIDE DEF f, n, slots
  <2> QED
    BY <1>2, <1>4
<1>6. best \in slots /\ First(best)
  <2> HIDE DEF First, slots
  <2> QED
    BY <1>5
<1>7. TotalWinner(room) = list[best]
  BY DEF TotalWinner
<1> HIDE DEF best
<1>8. list[best] \in Players(room)
  BY <1>6 DEF Players, Range
<1>9. ASSUME NEW other \in Players(room)
      PROVE  RoundsWon(room, other) <= RoundsWon(room, list[best])
  <2>1. PICK k \in slots : other = list[k]
    BY DEF Players, Range
  <2>2. WinCount(room, k) <= WinCount(room, best)
    BY <1>6
  <2> QED
    BY <1>2, <1>6, <2>1, <2>2
<1> QED
  BY <1>7, <1>8, <1>9 DEF IsBest

\* Who has a slot is in the list, and who has none is not.
LEMMA SlotsOfPlayers ==
  ASSUME NEW P, NEW Q, NEW room \in RoomOf(P, Q), NEW pk
  PROVE  Slots(room, pk) \in Nat /\ (Slots(room, pk) # 0 <=> pk \in Players(room))
<1> DEFINE list  == room.member_pk_list
           slots == {i \in DOMAIN list : list[i] = pk}
<1>1. Len(list) \in Nat /\ DOMAIN list = 1 .. Len(list)
  BY PlacesOf DEF RoomOf
<1>2. IsFiniteSet(DOMAIN list)
  BY <1>1, FS_Interval
<1>3. IsFiniteSet(slots)
  BY <1>2, FS_Subset
<1>4. Cardinality(slots) = 0 <=> slots = {}
  BY <1>3, FS_EmptySet
<1>5. slots # {} <=> pk \in Players(room)
  BY DEF Players, Range
<1>6. Slots(room, pk) = Cardinality(slots)
  BY DEF Slots
<1> QED
  BY <1>4, <1>5, <1>6, SlotsAreNatural

\* What a step may do to accounts.
PaidFor(pk) ==
  /\ pk \in Pks'
  /\ user_table'[pk].id = user_table[pk].id
  /\ user_table'[pk].exp >= user_table[pk].exp
  /\ user_table'[pk].exp # user_table[pk].exp
       <=> \E r \in Kept : Ends(r) /\ pk \in Players(game_room_table[r])

EverybodyPaid == \A pk \in Pks : PaidFor(pk)

NoGameEnds == \A r \in Kept : ~Ends(r)

\* Without the end of a game nobody earns anything.
LEMMA NobodyPaid ==
  ASSUME IInv, NoGameEnds,
         \A pk \in Pks : pk \in Pks' /\ user_table'[pk] = user_table[pk]
  PROVE  EverybodyPaid
<1> SUFFICES ASSUME NEW pk \in Pks PROVE PaidFor(pk)
  BY DEF EverybodyPaid
<1>1. user_table[pk].exp \in Nat
  <2>1. user_table \in Seq([id : Ids, exp : Nat])
    BY DEF IInv, TypeOK
  <2>2. user_table[pk] \in [id : Ids, exp : Nat]
    BY <2>1, PlacesOf DEF Pks
  <2> QED
    BY <2>2
<1> QED
  BY <1>1 DEF PaidFor, NoGameEnds

\* No game ends where rooms stay as they are, or where the one that changes does not
\* come to WAITING or has waited before.
LEMMA RoomsStayUnended ==
  ASSUME UNCHANGED game_room_table
  PROVE  NoGameEnds
BY DEF NoGameEnds, Ends, Kept

LEMMA OneRoomUnended ==
  ASSUME NEW r,
         r \in Kept => \/ game_room_table'[r].status # "WAITING"
                       \/ game_room_table[r].status # "SHOWING_TOTAL_RESULT",
         \A s \in Kept \ {r} : game_room_table'[s] = game_room_table[s]
  PROVE  NoGameEnds
BY DEF NoGameEnds, Ends

\* The end of a game in one room.
LEMMA EndPays ==
  ASSUME IInv, NEW r \in pending, handle_game_room_showing_total_result(r)
  PROVE  EverybodyPaid /\ Ends(r) /\ \A s \in Kept \ {r} : ~Ends(s)
<1> DEFINE old   == game_room_table[r]
           aged  == Aged(old, elapsed)
<1>1. r \in DOMAIN game_room_table /\ Sound(Pks, Problems, old) /\ elapsed \in Nat
  BY IInvParts, ServerAssumption DEF SoundRooms, IInv, TypeOK
<1>2. /\ aged \in RoomOf(Pks, Problems)
      /\ aged.member_pk_list = old.member_pk_list
      /\ end_game(aged).status = "WAITING"
  BY <1>1, AgedProperties, EndedSound
<1>3. /\ old.status = "SHOWING_TOTAL_RESULT"
      /\ game_room_table' = [game_room_table EXCEPT ![r] = end_game(aged)]
      /\ user_table' = [pk \in DOMAIN user_table |->
                          [user_table[pk] EXCEPT !.exp = @ + GAME_EXP * Slots(aged, pk)]]
  BY DEF handle_game_room_showing_total_result
<1> HIDE DEF aged
<1>4. Ends(r) /\ r \in Kept
  BY <1>1, <1>2, <1>3 DEF Ends, Kept
<1>5. \A s \in Kept \ {r} : ~Ends(s)
  BY <1>3 DEF Ends, Kept
<1>6. ASSUME NEW pk \in Pks PROVE PaidFor(pk)
  <2>1. /\ user_table[pk] \in [id : Ids, exp : Nat]
        /\ DOMAIN user_table' = DOMAIN user_table
        /\ user_table'[pk] = [user_table[pk] EXCEPT !.exp = @ + GAME_EXP * Slots(aged, pk)]
    <3>1. user_table \in Seq([id : Ids, exp : Nat])
      BY DEF IInv, TypeOK
    <3>2. user_table[pk] \in [id : Ids, exp : Nat]
      BY <3>1, PlacesOf DEF Pks
    <3> QED
      BY <1>3, <3>2 DEF Pks
  <2>2. PICK slots \in Nat : slots = Slots(aged, pk) /\ (slots # 0 <=> pk \in Players(old))
    BY <1>2, SlotsOfPlayers DEF Players
  <2>3. /\ user_table'[pk].id = user_table[pk].id
        /\ user_table'[pk].exp = user_table[pk].exp + 500 * slots
        /\ user_table[pk].exp \in Nat
    BY <2>1, <2>2 DEF GAME_EXP
  <2>4. /\ user_table'[pk].exp >= user_table[pk].exp
        /\ user_table'[pk].exp # user_table[pk].exp <=> slots # 0
    BY <2>3
  <2>5. pk \in Players(old) <=> \E s \in Kept : Ends(s) /\ pk \in Players(game_room_table[s])
    BY <1>4, <1>5
  <2>6. pk \in Pks'
    BY <2>1 DEF Pks
  <2> QED
    BY <2>2, <2>3, <2>4, <2>5, <2>6 DEF PaidFor
<1> QED
  BY <1>4, <1>5, <1>6 DEF EverybodyPaid

\* The other handlers of a pass end no game.
LEMMA PassPays ==
  ASSUME IInv, update_game_rooms
  PROVE  EverybodyPaid
<1>1. PICK r \in pending :
        \/ handle_game_room_waiting(r)
        \/ \E problem \in Problems : OpenRound(r, problem)
        \/ handle_game_room_playing(r)
        \/ handle_game_room_showing_total_result(r)
  BY DEF update_game_rooms, handle_game_room_ready, handle_game_room_showing_round_result
<1> DEFINE old  == game_room_table[r]
           aged == Aged(old, elapsed)
<1>2. r \in DOMAIN game_room_table /\ Sound(Pks, Problems, old) /\ elapsed \in Nat
  BY IInvParts, ServerAssumption DEF SoundRooms, IInv, TypeOK
<1>3. aged \in RoomOf(Pks, Problems) /\ aged.status = old.status
  BY <1>2, AgedProperties
<1>4. CASE handle_game_room_showing_total_result(r)
  BY <1>4, EndPays
<1>5. CASE ~handle_game_room_showing_total_result(r)
  <2>1. /\ UNCHANGED user_table
        /\ \E room : /\ game_room_table' = [game_room_table EXCEPT ![r] = room]
                     /\ room.status # "WAITING" \/ old.status # "SHOWING_TOTAL_RESULT"
    <3> HIDE DEF aged
    <3>1. CASE handle_game_room_waiting(r)
      BY <1>3, <3>1 DEF handle_game_room_waiting, aged
    <3>2. CASE \E problem \in Problems : OpenRound(r, problem)
      <4>1. PICK problem \in Problems : OpenRound(r, problem)
        BY <3>2
      <4>2. RoundOpened(aged, problem).status = "PLAYING"
        BY <1>3 DEF RoundOpened, RoomOf
      <4> QED
        BY <4>1, <4>2 DEF OpenRound, aged
    <3>3. CASE handle_game_room_playing(r)
      BY <3>3 DEF handle_game_room_playing, notify_round_end
    <3> QED
      BY <1>1, <1>5, <3>1, <3>2, <3>3
  <2>2. PICK room : /\ game_room_table' = [game_room_table EXCEPT ![r] = room]
                    /\ room.status # "WAITING" \/ old.status # "SHOWING_TOTAL_RESULT"
    BY <2>1
  <2>3. /\ game_room_table'[r] = room
        /\ \A s \in Kept \ {r} : game_room_table'[s] = game_room_table[s]
    BY <1>2, <2>2 DEF Kept
  <2>4. NoGameEnds
    BY <2>2, <2>3, OneRoomUnended
  <2>5. \A pk \in Pks : pk \in Pks' /\ user_table'[pk] = user_table[pk]
    BY <2>1 DEF Pks
  <2> QED
    BY <2>4, <2>5, NobodyPaid
<1> QED
  BY <1>4, <1>5

\* The handlers of requests that change rooms.
LEMMA RequestEndsNoGame ==
  ASSUME IInv, NEW w, NEW token, Request(w, token)
  PROVE  NoGameEnds /\ UNCHANGED user_table
<1>1. CASE UNCHANGED game_room_table
  <2>1. UNCHANGED user_table
    BY DEF Request, route_sign_out, route_check_lobby, route_create_room, route_join_room,
           route_check_room, route_leave_room, route_chatting, route_game_start,
           InvalidConnection, Ignored, tables
  <2> QED
    BY <1>1, <2>1, RoomsStayUnended
<1>2. ASSUME ~UNCHANGED game_room_table, route_create_room(w, token)
      PROVE  NoGameEnds /\ UNCHANGED user_table
  <2> DEFINE room == join_game_room(create_game_room, connected_user_table[token].pk)
  <2>1. /\ game_room_table' = With(game_room_table, next_pk_room, room)
        /\ UNCHANGED user_table
    BY <1>2 DEF route_create_room, InvalidConnection, tables
  <2> HIDE DEF room
  <2>2. next_pk_room \notin Kept
    BY DEF IInv, TypeOK, Kept
  <2>3. \A s \in Kept : game_room_table'[s] = game_room_table[s]
    BY <2>1, <2>2 DEF With, Kept
  <2> QED
    BY <2>1, <2>2, <2>3, OneRoomUnended
<1>3. ASSUME ~UNCHANGED game_room_table, NEW r, route_join_room(w, token, r)
      PROVE  NoGameEnds /\ UNCHANGED user_table
  <2> DEFINE room == join_game_room(game_room_table[r], connected_user_table[token].pk)
  <2>1. /\ Joinable(r) /\ game_room_table' = [game_room_table EXCEPT ![r] = room]
        /\ UNCHANGED user_table
    BY <1>3 DEF route_join_room, InvalidConnection, tables
  <2> HIDE DEF room
  <2>2. game_room_table[r].status # "SHOWING_TOTAL_RESULT"
    BY <2>1 DEF Joinable, CanJoin
  <2>3. \A s \in Kept \ {r} : game_room_table'[s] = game_room_table[s]
    BY <2>1 DEF Kept
  <2> QED
    BY <2>1, <2>2, <2>3, OneRoomUnended
<1>4. ASSUME ~UNCHANGED game_room_table, route_leave_room(w, token)
      PROVE  NoGameEnds /\ UNCHANGED user_table
  <2> DEFINE user == connected_user_table[token]
             left == leave_game_room(game_room_table[user.pk_room], user.pk)
  <2>1. /\ Leavable(user)
        /\ UNCHANGED user_table
        /\ game_room_table' = IF left.member_pk_list = <<>>
                              THEN Without(game_room_table, {user.pk_room})
                              ELSE [game_room_table EXCEPT ![user.pk_room] = left]
    BY <1>4 DEF route_leave_room, remove_game_room, InvalidConnection, Ignored, tables
  <2> HIDE DEF left
  <2>2. game_room_table[user.pk_room].status # "SHOWING_TOTAL_RESULT"
    BY <2>1 DEF Leavable
  <2>3. \A s \in Kept \ {user.pk_room} : game_room_table'[s] = game_room_table[s]
    BY <2>1 DEF Without, Kept
  <2> QED
    BY <2>1, <2>2, <2>3, OneRoomUnended
<1>5. ASSUME ~UNCHANGED game_room_table, NEW line, route_chatting(w, token, line)
      PROVE  NoGameEnds /\ UNCHANGED user_table
  <2> DEFINE sender == connected_user_table[token]
             r      == sender.pk_room
             room   == Scored(game_room_table[r], sender.pk, line)
  <2>1. game_room_table' = [game_room_table EXCEPT ![r] = room] /\ UNCHANGED user_table
    BY <1>5 DEF route_chatting, InvalidConnection, tables
  <2>2. r \in DOMAIN game_room_table => room.status = game_room_table[r].status
    BY DEF IInv, TypeOK, RoomOf, Scored
  <2> HIDE DEF r, room
  <2>3. \A s \in Kept \ {r} : game_room_table'[s] = game_room_table[s]
    BY <2>1 DEF Kept
  <2>4. r \in Kept => game_room_table'[r].status = game_room_table[r].status
    BY <2>1, <2>2 DEF Kept
  <2> QED
    BY <2>1, <2>3, <2>4, OneRoomUnended
<1>6. ASSUME ~UNCHANGED game_room_table, route_game_start(w, token)
      PROVE  NoGameEnds /\ UNCHANGED user_table
  <2> DEFINE r    == connected_user_table[token].pk_room
             room == start_game(game_room_table[r])
  <2>1. game_room_table' = [game_room_table EXCEPT ![r] = room] /\ UNCHANGED user_table
    BY <1>6 DEF route_game_start, InvalidConnection, Ignored, tables
  <2>2. r \in DOMAIN game_room_table => room.status = "READY"
    BY DEF IInv, TypeOK, RoomOf, start_game
  <2> HIDE DEF r, room
  <2>3. \A s \in Kept \ {r} : game_room_table'[s] = game_room_table[s]
    BY <2>1 DEF Kept
  <2>4. r \in Kept => game_room_table'[r].status = "READY"
    BY <2>1, <2>2 DEF Kept
  <2> QED
    BY <2>1, <2>3, <2>4, OneRoomUnended
<1>7. ASSUME ~UNCHANGED game_room_table
      PROVE  \/ route_create_room(w, token) \/ route_leave_room(w, token)
             \/ \E r : route_join_room(w, token, r)
             \/ \E line : route_chatting(w, token, line)
             \/ route_game_start(w, token)
  BY <1>7 DEF Request, route_sign_out, route_check_lobby, route_check_room,
              InvalidConnection, Ignored, tables
<1> QED
  BY <1>1, <1>2, <1>3, <1>4, <1>5, <1>6, <1>7

LEMMA StepPays == IInv /\ [Next]_vars => EverybodyPaid
<1> SUFFICES ASSUME IInv, [Next]_vars PROVE EverybodyPaid
  OBVIOUS
<1>1. CASE update_game_rooms
  BY <1>1, PassPays
<1>2. CASE ~update_game_rooms
  <2>1. NoGameEnds /\ \A pk \in Pks : pk \in Pks' /\ user_table'[pk] = user_table[pk]
    <3>1. CASE Idle \/ UNCHANGED vars
      BY <3>1, RoomsStayUnended DEF Idle, vars, tables, Pks
    <3>2. ASSUME NEW w, handle_dead_client_worker(w)
          PROVE  NoGameEnds /\ UNCHANGED user_table
      BY <3>2, RoomsStayUnended DEF handle_dead_client_worker
    <3>3. ASSUME NEW w, NEW id, NEW right, route_sign_in(w, id, right)
          PROVE  NoGameEnds /\ UNCHANGED user_table
      BY <3>3, RoomsStayUnended DEF route_sign_in
    <3>4. ASSUME NEW w, NEW id, route_sign_up(w, id)
          PROVE  NoGameEnds /\ \A pk \in Pks : pk \in Pks' /\ user_table'[pk] = user_table[pk]
      <4>1. NoGameEnds
        BY <3>4, RoomsStayUnended DEF route_sign_up
      <4>2. PICK account : user_table' = user_table \/ user_table' = Append(user_table, account)
        BY <3>4 DEF route_sign_up
      <4>3. user_table \in Seq([id : Ids, exp : Nat])
        BY DEF IInv, TypeOK
      <4>4. CASE user_table' = Append(user_table, account)
        <5>1. /\ DOMAIN user_table' = DOMAIN user_table \cup {Len(user_table) + 1}
              /\ \A pk \in DOMAIN user_table : user_table'[pk] = user_table[pk]
          <6>1. Len(user_table) \in Nat /\ DOMAIN user_table = 1 .. Len(user_table)
            BY <4>3, PlacesOf
          <6>2. /\ DOMAIN user_table' = 1 .. (Len(user_table) + 1)
                /\ \A pk \in 1 .. Len(user_table) : user_table'[pk] = user_table[pk]
            BY <4>4, <6>1 DEF Append
          <6> QED
            BY <6>1, <6>2
        <5> QED
          BY <4>1, <5>1 DEF Pks
      <4> QED
        BY <4>1, <4>2, <4>4 DEF Pks
    <3>5. ASSUME NEW w \in Workers, NEW token \in Tokens, Request(w, token)
          PROVE  NoGameEnds /\ UNCHANGED user_table
      BY <3>5, RequestEndsNoGame
    <3> QED
      BY <1>2, <3>1, <3>2, <3>3, <3>4, <3>5 DEF Next, Account, Pks
  <2> QED
    BY <2>1, NobodyPaid
<1> QED
  BY <1>1, <1>2

\* Exp is earned by playing to the end, and only so: the players of a game that ends
\* are paid in that step, in or out of the room, and nobody else at any time.
THEOREM PlayersAreThoseWhoEarn == Spec => ExpIsEarned
<1>1. IInv /\ [Next]_vars =>
        [\A pk \in Pks :
           /\ pk \in Pks'
           /\ user_table'[pk].id = user_table[pk].id
           /\ user_table'[pk].exp >= user_table[pk].exp
           /\ user_table'[pk].exp # user_table[pk].exp
                <=> \E r \in Kept : Ends(r) /\ pk \in Players(game_room_table[r])]_vars
  BY StepPays DEF EverybodyPaid, PaidFor
<1> QED
  BY <1>1, Invariance, PTL DEF Spec, ExpIsEarned
=============================================================================
