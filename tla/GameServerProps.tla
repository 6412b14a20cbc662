-------------------------- MODULE GameServerProps ---------------------------
(***************************************************************************)
(* What the main server is to keep: invariants, action properties, the     *)
(* refinement of QuizGame by every room, and what must come to pass.       *)
(***************************************************************************)
EXTENDS GameServer

-----------------------------------------------------------------------------
\* The invariants.

Pks == DOMAIN user_table

Session == [pk : Pks, mq_id : Workers, status : {"LOBBY", "IN_ROOM"}, pk_room : Nat]

\* The types of the tables of data_structure.h; a token is drawn below the
\* counter of route_sign_in and a room number below next_pk_room.
TypeOK ==
  /\ user_table \in Seq([id : Ids, exp : Nat])
  /\ connected \in Nat
  /\ DOMAIN connected_user_table \subseteq 0 .. connected - 1
  /\ \A t \in DOMAIN connected_user_table : connected_user_table[t] \in Session
  /\ next_pk_room \in Nat \ {0}
  /\ DOMAIN game_room_table \subseteq 1 .. next_pk_room - 1
  /\ \A r \in DOMAIN game_room_table : game_room_table[r] \in RoomOf(Pks, Problems)
  /\ pending \subseteq DOMAIN game_room_table
  /\ elapsed \in Dts \cup {0}
  /\ DOMAIN out = Workers

\* An account has one session at most, however often its user signs in:
\* find_connected_user_by_pk returns the first it meets, so a second one would
\* make join_game_room move the wrong session.
OneSessionPerAccount ==
  \A t, u \in DOMAIN connected_user_table :
    connected_user_table[t].pk = connected_user_table[u].pk => t = u

\* Where a session says its user is: in a room that exists and lists him, which
\* route_chatting and route_check_room rely on when they use the room they look
\* up without a test, or in the lobby with no room noted.
InRoomIsListed ==
  \A t \in DOMAIN connected_user_table :
    LET user == connected_user_table[t]
    IN  IF user.status = "IN_ROOM"
        THEN /\ user.pk_room \in DOMAIN game_room_table
             /\ user.pk \in Players(game_room_table[user.pk_room])
        ELSE user.pk_room = 0

\* No room is empty (its last member frees it) and none holds more members
\* than member_pk_list has slots, whoever joins how often.
RoomFits ==
  \A r \in DOMAIN game_room_table :
    Len(game_room_table[r].member_pk_list) \in 1 .. Capacity

\* The round goes with the phase: the index that route_chatting and
\* notify_round_end use in winner_of_round is one of its TotalRound places, and
\* a round that is being played has a sentence to be typed.
RoundMatchesPhase ==
  \A r \in DOMAIN game_room_table : RoundFitsPhase(Problems, game_room_table[r])

\* During a game a round has been won by nobody or by a member of the room,
\* and a round that has not been opened by nobody: what notify_round_end and
\* notify_game_end announce is about this game and its players.
ScoreSheetOK ==
  \A r \in DOMAIN game_room_table : ScoresFitPlayers(game_room_table[r])

\* Between two handlers no phase of a game is over its time: whichever message
\* finds a room in a phase finds it within the limit of that phase.
TimersWithinLimit ==
  \A r \in DOMAIN game_room_table : InTime(game_room_table[r])

\* The phase of a room, its round and its timer go together.
PhasesFit == RoundMatchesPhase /\ TimersWithinLimit

\* The inductive invariant.
IInv ==
  /\ TypeOK
  /\ OneSessionPerAccount
  /\ InRoomIsListed
  /\ RoomFits
  /\ RoundMatchesPhase
  /\ ScoreSheetOK
  /\ TimersWithinLimit

-----------------------------------------------------------------------------
\* What a step may never do.

Kept == DOMAIN game_room_table \cap DOMAIN game_room_table'

Restarted(r) == game_room_table'[r].status = "READY"

\* The first right answer of a round stands: later answers, the end of the
\* round and the rounds after it do not change the winner.  Only a new game does.
FirstAnswerStands ==
  [][\A r \in DOMAIN game_room_table :
       Running(game_room_table[r]) =>
         /\ r \in DOMAIN game_room_table'
         /\ \A i \in Rounds :
              \/ game_room_table[r].winner_of_round[i] = NoWinner
              \/ game_room_table'[r].winner_of_round[i] = game_room_table[r].winner_of_round[i]
              \/ Restarted(r)]_vars

\* Nobody enters or leaves a room while a game runs there, whatever becomes of
\* the sessions of its members: the players that notify_game_end compares and
\* that earn exp are those the game began with.
PlayersStay ==
  [][\A r \in DOMAIN game_room_table :
       Running(game_room_table[r]) =>
         /\ r \in DOMAIN game_room_table'
         /\ game_room_table'[r].member_pk_list = game_room_table[r].member_pk_list]_vars

\* An answer OK_LEAVE_ROOM is true: in the step that sends it a session goes
\* from a room to the lobby.  leave_game_room answers 0 as well when it does
\* not find the user in the member list.
LeaveAnswerIsTrue ==
  [][(\E w \in Workers : Contains(out'[w], Response("OK_LEAVE_ROOM"))) =>
       \E t \in DOMAIN connected_user_table :
         /\ connected_user_table[t].status = "IN_ROOM"
         /\ connected_user_table'[t].status = "LOBBY"]_vars

\* The game of a room ends: handle_game_room_showing_total_result, and no other.
Ends(r) ==
  /\ r \in Kept
  /\ game_room_table[r].status = "SHOWING_TOTAL_RESULT"
  /\ game_room_table'[r].status = "WAITING"

\* Accounts stay, with their ids, and exp is earned by the players of a game that ends, by
\* all of them, in that step and in no other, whatever has become of their
\* sessions; and nobody loses any.
ExpIsEarned ==
  [][\A pk \in Pks :
       /\ pk \in Pks'
       /\ user_table'[pk].id = user_table[pk].id
       /\ user_table'[pk].exp >= user_table[pk].exp
       /\ user_table'[pk].exp # user_table[pk].exp
            <=> \E r \in Kept : Ends(r) /\ pk \in Players(game_room_table[r])]_vars

\* How many rounds a player has won.
RoundsWon(room, pk) == Cardinality({i \in Rounds : room.winner_of_round[i] = pk})

\* One of the players of a room has won at least as many rounds as any other.
IsBest(room, pk) ==
  /\ pk \in Players(room)
  /\ \A other \in Players(room) : RoundsWon(room, other) <= RoundsWon(room, pk)

\* Who is announced as the winner of a game is a player of a game that ends in that
\* step whom no other player of it has beaten: notify_game_end never names a slot it has
\* not counted, an earlier game's winner or nobody.
TotalResultIsTrue ==
  [][\A w \in Workers : \A m \in Range(out'[w]) :
       m.result = "OK_TOTAL_RESULT" =>
         \E r \in Kept : Ends(r) /\ IsBest(game_room_table[r], m.winner)]_vars

\* The end of a game does right by its players: exp to those who have played, and the
\* name of one whom nobody has beaten.
GamesEndFairly == ExpIsEarned /\ TotalResultIsTrue

\* What the server sends the players of a room when its phase changes.
Announcement(room) ==
  CASE room.status = "READY"   -> {"OK_NOTIFYING_START_GAME"}
    [] room.status = "PLAYING" -> {"OK_MAKE_QUIZ"}
    [] room.status = "WAITING" -> {"OK_TOTAL_RESULT"}
    [] OTHER                   -> {"OK_ROUND_RESULT"}

Results(sent) == {m.result : m \in Range(sent)}

\* Whenever a room changes its phase, every session that is in that room is
\* told so.  The notify_... functions go by the member list, the sessions by
\* what join_game_room and leave_game_room noted in them.
PlayersHearEveryPhase ==
  [][\A r \in Kept :
       game_room_table'[r].status # game_room_table[r].status =>
         \A t \in RoomSessions(connected_user_table', r) :
           Announcement(game_room_table'[r])
             \subseteq Results(out'[connected_user_table'[t].mq_id])]_vars

\* The rooms as the lobby lists them, but for their phase.
RoomSizes ==
  [r \in DOMAIN game_room_table |-> Len(game_room_table[r].member_pk_list)]

LobbyPks == {connected_user_table[t].pk : t \in LobbySessions(connected_user_table)}

\* When a room comes, goes, grows or shrinks, or someone appears in the lobby,
\* everyone who is in the lobby after that is asked to update his view of it,
\* the one who has just come there included.
LobbyHears ==
  [][RoomSizes' # RoomSizes \/ ~(LobbyPks' \subseteq LobbyPks) =>
       \A t \in LobbySessions(connected_user_table') :
         "OK_REQUEST_LOBBY_UPDATE" \in Results(out'[connected_user_table'[t].mq_id])]_vars

\* When the member list of a room changes, everyone whose session is in the
\* room after that is asked to update his view of it.
RoomHears ==
  [][\A r \in DOMAIN game_room_table' :
       (r \in DOMAIN game_room_table =>
          game_room_table'[r].member_pk_list # game_room_table[r].member_pk_list) =>
         \A t \in RoomSessions(connected_user_table', r) :
           "OK_REQUEST_ROOM_MEMBER_UPDATE"
             \in Results(out'[connected_user_table'[t].mq_id])]_vars

\* Every change of a room reaches those in it, and every change of the lobby
\* those in the lobby, in the handler that makes it and after its last change.
ChangesAreAnnounced == LobbyHears /\ RoomHears

-----------------------------------------------------------------------------
\* Every room plays the game of QuizGame.

\* Without a running game the round and the score sheet of a room are what the
\* last game, or memset, left there: nobody looks at them.
InGame(r) == r \in DOMAIN game_room_table /\ Running(game_room_table[r])

Quiz(r) ==
  INSTANCE QuizGame WITH
    RoundCount <- TotalRound,
    Nobody     <- NoWinner,
    phase      <- IF r \in DOMAIN game_room_table
                  THEN game_room_table[r].status ELSE "ABSENT",
    players    <- IF r \in DOMAIN game_room_table
                  THEN Players(game_room_table[r]) ELSE {},
    round      <- IF InGame(r) THEN game_room_table[r].curr_round ELSE 0,
    winners    <- IF InGame(r) THEN game_room_table[r].winner_of_round
                  ELSE [i \in Rounds |-> NoWinner]

RoomNumbers == 1 .. MaxRooms

QuizStep(r) == UNCHANGED Quiz(r)!quizVars \/ Quiz(r)!QuizNext

\* However sessions, messages and turns of the loop interleave, what happens in
\* a room is a step of QuizGame or none at all: \A r : Quiz(r)!QuizSpec, with
\* the quantifier inside the box.
RoomsPlayQuiz ==
  /\ \A r \in RoomNumbers : Quiz(r)!QuizInit
  /\ [][\A r \in RoomNumbers : QuizStep(r)]_vars
=============================================================================
