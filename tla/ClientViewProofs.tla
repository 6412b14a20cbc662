--------------------------- MODULE ClientViewProofs ---------------------------
(***************************************************************************)
(* What clients are told is true and complete, and what polite clients     *)
(* leave behind is nothing: for any number of workers, users and rooms.    *)
(* Most steps leave member lists and sessions at rest; the others are the  *)
(* handlers by which users come, go and change rooms.                      *)
(***************************************************************************)
EXTENDS PoliteClients, GameServerProofs

-----------------------------------------------------------------------------
\* The kinds of steps.

ListsStay ==
  /\ DOMAIN game_room_table' = DOMAIN game_room_table
  /\ \A r \in DOMAIN game_room_table :
       game_room_table'[r].member_pk_list = game_room_table[r].member_pk_list

AtRest == ListsStay /\ UNCHANGED connected_user_table

\* A room that changes but for its list changes no list.
LEMMA OneRoomAtRest ==
  ASSUME NEW r, NEW room, game_room_table' = [game_room_table EXCEPT ![r] = room],
         r \in DOMAIN game_room_table => room.member_pk_list = game_room_table[r].member_pk_list,
         UNCHANGED connected_user_table
  PROVE  AtRest
BY DEF AtRest, ListsStay

\* Scoring a line changes no list.
LEMMA ChattingAtRest ==
  ASSUME IInv, NEW w, NEW token, NEW line, route_chatting(w, token, line)
  PROVE  AtRest
<1>1. CASE UNCHANGED game_room_table
  BY <1>1 DEF route_chatting, InvalidConnection, tables, AtRest, ListsStay
<1>2. CASE ~UNCHANGED game_room_table
  <2> DEFINE sender == connected_user_table[token]
             r      == sender.pk_room
             room   == Scored(game_room_table[r], sender.pk, line)
  <2>1. /\ game_room_table' = [game_room_table EXCEPT ![r] = room]
        /\ UNCHANGED connected_user_table
    BY <1>2 DEF route_chatting, InvalidConnection, tables
  <2>2. ASSUME r \in DOMAIN game_room_table
        PROVE  room.member_pk_list = game_room_table[r].member_pk_list
    <3>1. game_room_table[r] \in RoomOf(Pks, Problems)
      BY <2>2 DEF IInv, TypeOK
    <3> QED
      BY <3>1 DEF Scored, RoomOf
  <2> HIDE DEF r, room
  <2> QED
    BY <2>1, <2>2, OneRoomAtRest
<1> QED
  BY <1>1, <1>2

\* Neither does the start of a game.
LEMMA StartAtRest ==
  ASSUME IInv, NEW w, NEW token, route_game_start(w, token)
  PROVE  AtRest
<1>1. CASE UNCHANGED game_room_table
  BY <1>1 DEF route_game_start, InvalidConnection, Ignored, tables, AtRest, ListsStay
<1>2. CASE ~UNCHANGED game_room_table
  <2> DEFINE r    == connected_user_table[token].pk_room
             room == start_game(game_room_table[r])
  <2>1. /\ game_room_table' = [game_room_table EXCEPT ![r] = room]
        /\ UNCHANGED connected_user_table
    BY <1>2 DEF route_game_start, InvalidConnection, Ignored, tables
  <2>2. ASSUME r \in DOMAIN game_room_table
        PROVE  room.member_pk_list = game_room_table[r].member_pk_list
    <3>1. game_room_table[r] \in RoomOf(Pks, Problems)
      BY <2>2 DEF IInv, TypeOK
    <3> QED
      BY <3>1 DEF start_game, RoomOf
  <2> HIDE DEF r, room
  <2> QED
    BY <2>1, <2>2, OneRoomAtRest
<1> QED
  BY <1>1, <1>2

\* What a visit makes of the phase and the list of a room.
LEMMA VisitedRooms ==
  ASSUME NEW P, NEW Q, NEW room, Sound(P, Q, room), NEW dt \in Nat, NEW problem
  PROVE  LET aged == Aged(room, dt)
         IN  /\ aged.status = room.status
             /\ aged.member_pk_list = room.member_pk_list
             /\ RoundOpened(aged, problem).status = "PLAYING"
             /\ RoundOpened(aged, problem).member_pk_list = room.member_pk_list
             /\ RoundClosed(aged).status \in {"SHOWING_ROUND_RESULT", "SHOWING_TOTAL_RESULT"}
             /\ RoundClosed(aged).member_pk_list = room.member_pk_list
             /\ end_game(aged).status = "WAITING"
             /\ end_game(aged).member_pk_list = room.member_pk_list
<1> DEFINE aged == Aged(room, dt)
<1>1. /\ aged \in RoomOf(P, Q)
      /\ aged.status = room.status
      /\ aged.member_pk_list = room.member_pk_list
  BY AgedProperties
<1> HIDE DEF aged
<1>2. /\ RoundOpened(aged, problem).status = "PLAYING"
      /\ RoundOpened(aged, problem).member_pk_list = aged.member_pk_list
  BY <1>1 DEF RoundOpened, RoomOf
<1>3. /\ RoundClosed(aged).status \in {"SHOWING_ROUND_RESULT", "SHOWING_TOTAL_RESULT"}
      /\ RoundClosed(aged).member_pk_list = aged.member_pk_list
  BY <1>1 DEF RoundClosed, RoomOf
<1>4. /\ end_game(aged).status = "WAITING"
      /\ end_game(aged).member_pk_list = aged.member_pk_list
  BY <1>1 DEF end_game, RoomOf
<1> QED
  BY <1>1, <1>2, <1>3, <1>4 DEF aged

\* The room a pass visits, and the time that has passed for it.
LEMMA VisitedIsSound ==
  ASSUME IInv, NEW r \in pending
  PROVE  /\ r \in DOMAIN game_room_table
         /\ Sound(Pks, Problems, game_room_table[r])
         /\ elapsed \in Nat
BY IInvParts, ServerAssumption DEF SoundRooms, IInv, TypeOK

\* A pass changes no list.
LEMMA PassAtRest ==
  ASSUME IInv, update_game_rooms
  PROVE  AtRest
<1>1. PICK r \in pending :
        \/ handle_game_room_waiting(r)
        \/ \E problem \in Problems : OpenRound(r, problem)
        \/ handle_game_room_playing(r)
        \/ handle_game_room_showing_total_result(r)
  BY DEF update_game_rooms, handle_game_room_ready, handle_game_room_showing_round_result
<1> DEFINE old  == game_room_table[r]
           aged == Aged(old, elapsed)
<1>2. Sound(Pks, Problems, old) /\ elapsed \in Nat
  BY VisitedIsSound
<1>3. /\ aged.member_pk_list = old.member_pk_list
      /\ RoundClosed(aged).member_pk_list = old.member_pk_list
      /\ end_game(aged).member_pk_list = old.member_pk_list
      /\ \A problem : RoundOpened(aged, problem).member_pk_list = old.member_pk_list
  BY <1>2, VisitedRooms
<1>4. \E room : /\ game_room_table' = [game_room_table EXCEPT ![r] = room]
                /\ room.member_pk_list = old.member_pk_list
  <2>1. CASE handle_game_room_waiting(r)
    BY <1>3, <2>1 DEF handle_game_room_waiting
  <2>2. CASE \E problem \in Problems : OpenRound(r, problem)
    BY <1>3, <2>2 DEF OpenRound
  <2>3. CASE handle_game_room_playing(r)
    BY <1>3, <2>3 DEF handle_game_room_playing, notify_round_end
  <2>4. CASE handle_game_room_showing_total_result(r)
    BY <1>3, <2>4 DEF handle_game_room_showing_total_result
  <2> QED
    BY <1>1, <2>1, <2>2, <2>3, <2>4
<1>5. UNCHANGED connected_user_table
  BY <1>1 DEF handle_game_room_waiting, OpenRound, handle_game_room_playing,
              handle_game_room_showing_total_result, Visit
<1> QED
  BY <1>4, <1>5, OneRoomAtRest

\* The handlers that touch a session or a member list.
SessionStep(w) ==
  \/ \E id \in Ids, right \in BOOLEAN : route_sign_in(w, id, right)
  \/ \E token \in Tokens : route_sign_out(w, token)
  \/ handle_dead_client_worker(w)

RoomStep(w) ==
  \E token \in Tokens : \/ route_create_room(w, token)
                        \/ \E r \in 1 .. MaxRooms : route_join_room(w, token, r)
                        \/ route_leave_room(w, token)

LEMMA StepKinds ==
  ASSUME IInv, [Next]_vars
  PROVE  AtRest \/ \E w \in Workers : SessionStep(w) \/ RoomStep(w)
<1>1. CASE Idle \/ UNCHANGED vars
  BY <1>1 DEF Idle, vars, tables, AtRest, ListsStay
<1>2. ASSUME NEW w \in Workers, Account(w)
      PROVE  AtRest \/ SessionStep(w)
  BY <1>2 DEF Account, SessionStep, route_sign_up, AtRest, ListsStay
<1>3. ASSUME NEW w \in Workers, NEW token \in Tokens, Request(w, token)
      PROVE  AtRest \/ SessionStep(w) \/ RoomStep(w)
  <2>1. CASE route_check_lobby(w, token) \/ route_check_room(w, token)
    BY <2>1 DEF route_check_lobby, route_check_room, InvalidConnection, Ignored, tables,
                AtRest, ListsStay
  <2>2. CASE \E line \in Lines : route_chatting(w, token, line)
    BY <2>2, ChattingAtRest
  <2>3. CASE route_game_start(w, token)
    BY <2>3, StartAtRest
  <2>4. CASE \/ route_sign_out(w, token) \/ route_create_room(w, token)
             \/ route_leave_room(w, token)
             \/ \E r \in 1 .. MaxRooms : route_join_room(w, token, r)
    BY <2>4 DEF SessionStep, RoomStep
  <2> QED
    BY <1>3, <2>1, <2>2, <2>3, <2>4 DEF Request
<1>4. ASSUME NEW w \in Workers, handle_dead_client_worker(w)
      PROVE  SessionStep(w)
  BY <1>4 DEF SessionStep
<1>5. CASE update_game_rooms
  BY <1>5, PassAtRest
<1> QED
  BY <1>1, <1>2, <1>3, <1>4, <1>5 DEF Next

-----------------------------------------------------------------------------
\* Who comes, goes and changes rooms.

\* The room of a session is there and lists its user.
LEMMA RoomOfSession ==
  ASSUME IInv, NEW t \in DOMAIN connected_user_table,
         connected_user_table[t].status = "IN_ROOM"
  PROVE  LET user == connected_user_table[t]
             room == game_room_table[user.pk_room]
         IN  /\ user.pk_room \in DOMAIN game_room_table
             /\ user.pk \in Players(room)
             /\ room.member_pk_list \in Seq(Pks)
             /\ Contains(room.member_pk_list, user.pk)
<1> DEFINE user == connected_user_table[t]
           list == game_room_table[user.pk_room].member_pk_list
<1>1. user.pk_room \in DOMAIN game_room_table /\ user.pk \in Players(game_room_table[user.pk_room])
  BY DEF IInv, InRoomIsListed
<1>2. list \in Seq(Pks)
  BY <1>1 DEF IInv, TypeOK, RoomOf
<1>3. DOMAIN list = 1 .. Len(list)
  BY <1>2, PlacesOf
<1>4. Contains(list, user.pk)
  BY <1>1, <1>3 DEF Players, Range, Contains
<1> QED
  BY <1>1, <1>2, <1>4

\* route_create_room with a session: a room under a new number lists its creator.
LEMMA CreateFacts ==
  ASSUME IInv, NEW w, NEW token \in DOMAIN connected_user_table, route_create_room(w, token)
  PROVE  LET user == connected_user_table[token]
         IN  /\ next_pk_room \notin DOMAIN game_room_table
             /\ DOMAIN game_room_table' = DOMAIN game_room_table \cup {next_pk_room}
             /\ \A s \in DOMAIN game_room_table : game_room_table'[s] = game_room_table[s]
             /\ game_room_table'[next_pk_room].member_pk_list = <<user.pk>>
             /\ connected_user_table' =
                  [connected_user_table EXCEPT ![token] = InRoom(@, next_pk_room)]
<1> DEFINE pk   == connected_user_table[token].pk
           room == join_game_room(create_game_room, pk)
<1>1. /\ game_room_table' = With(game_room_table, next_pk_room, room)
      /\ connected_user_table' =
           [connected_user_table EXCEPT ![token] = InRoom(@, next_pk_room)]
  BY DEF route_create_room, InvalidConnection
<1>2. next_pk_room \notin DOMAIN game_room_table
  BY DEF IInv, TypeOK
<1>3. room.member_pk_list = <<pk>>
  <2>1. Append(<<>>, pk) = <<pk>>
    OBVIOUS
  <2> QED
    BY <2>1 DEF join_game_room, create_game_room
<1> HIDE DEF room
<1> QED
  BY <1>1, <1>2, <1>3 DEF With

\* route_join_room that lets the user in lists him behind the others.
LEMMA JoinFacts ==
  ASSUME IInv, NEW w, NEW token \in DOMAIN connected_user_table, NEW r,
         route_join_room(w, token, r), ~UNCHANGED tables
  PROVE  LET user == connected_user_table[token]
         IN  /\ r \in DOMAIN game_room_table
             /\ DOMAIN game_room_table' = DOMAIN game_room_table
             /\ \A s \in DOMAIN game_room_table \ {r} : game_room_table'[s] = game_room_table[s]
             /\ game_room_table[r].member_pk_list \in Seq(Pks)
             /\ user.pk \in Pks
             /\ game_room_table'[r].member_pk_list =
                  Append(game_room_table[r].member_pk_list, user.pk)
             /\ connected_user_table' = [connected_user_table EXCEPT ![token] = InRoom(@, r)]
<1> DEFINE pk   == connected_user_table[token].pk
           room == join_game_room(game_room_table[r], pk)
<1>1. /\ r \in DOMAIN game_room_table
      /\ game_room_table' = [game_room_table EXCEPT ![r] = room]
      /\ connected_user_table' = [connected_user_table EXCEPT ![token] = InRoom(@, r)]
  BY DEF route_join_room, InvalidConnection, tables, Joinable
<1>2. game_room_table[r] \in RoomOf(Pks, Problems) /\ pk \in Pks
  BY <1>1 DEF IInv, TypeOK, Session
<1>3. game_room_table[r].member_pk_list \in Seq(Pks)
  BY <1>2 DEF RoomOf
<1>4. room.member_pk_list = Append(game_room_table[r].member_pk_list, pk)
  BY <1>2 DEF join_game_room, RoomOf
<1> HIDE DEF room
<1> QED
  BY <1>1, <1>2, <1>3, <1>4

\* route_leave_room that lets the user go takes one entry of his out of the list,
\* with the room when it was the last, and puts him into the lobby.
LEMMA LeaveFacts ==
  ASSUME IInv, NEW w, NEW token \in DOMAIN connected_user_table,
         route_leave_room(w, token), ~Ignored
  PROVE  LET user == connected_user_table[token]
             list == game_room_table[user.pk_room].member_pk_list
             left == RemoveFirst(list, user.pk)
         IN  /\ user.status = "IN_ROOM"
             /\ user.pk_room \in DOMAIN game_room_table
             /\ list \in Seq(Pks) /\ user.pk \in Range(list)
             /\ \A s \in DOMAIN game_room_table \ {user.pk_room} :
                  s \in DOMAIN game_room_table' /\ game_room_table'[s] = game_room_table[s]
             /\ DOMAIN game_room_table' \subseteq DOMAIN game_room_table
             /\ user.pk_room \in DOMAIN game_room_table' =>
                  game_room_table'[user.pk_room].member_pk_list = left
             /\ connected_user_table' =
                  [connected_user_table EXCEPT ![token] = NewSession(@.pk, @.mq_id)]
<1> DEFINE user == connected_user_table[token]
           r    == user.pk_room
           list == game_room_table[r].member_pk_list
           room == leave_game_room(game_room_table[r], user.pk)
<1>1. /\ Leavable(user)
      /\ game_room_table' = IF room.member_pk_list = <<>> THEN Without(game_room_table, {r})
                            ELSE [game_room_table EXCEPT ![r] = room]
      /\ connected_user_table' = IF Contains(list, user.pk)
           THEN [connected_user_table EXCEPT ![token] = NewSession(@.pk, @.mq_id)]
           ELSE connected_user_table
  BY DEF route_leave_room, InvalidConnection, remove_game_room
<1>2. /\ user.status = "IN_ROOM" /\ r \in DOMAIN game_room_table
      /\ user.pk \in Range(list) /\ list \in Seq(Pks) /\ Contains(list, user.pk)
  BY <1>1, RoomOfSession DEF Leavable, Players
<1>3. room.member_pk_list = RemoveFirst(list, user.pk)
  <2>1. game_room_table[r] \in RoomOf(Pks, Problems)
    BY <1>2 DEF IInv, TypeOK
  <2> QED
    BY <2>1 DEF leave_game_room, RoomOf
<1> HIDE DEF room
<1>4. /\ \A s \in DOMAIN game_room_table \ {r} :
           s \in DOMAIN game_room_table' /\ game_room_table'[s] = game_room_table[s]
      /\ DOMAIN game_room_table' \subseteq DOMAIN game_room_table
      /\ r \in DOMAIN game_room_table' => game_room_table'[r] = room
  <2>1. CASE game_room_table' = Without(game_room_table, {r})
    BY <2>1 DEF Without
  <2>2. CASE game_room_table' = [game_room_table EXCEPT ![r] = room]
    BY <2>2
  <2> QED
    BY <1>1, <2>1, <2>2
<1> QED
  BY <1>1, <1>2, <1>3, <1>4

-----------------------------------------------------------------------------
\* Changes are announced.

LobbyHeard ==
  \A t \in LobbySessions(connected_user_table') :
    "OK_REQUEST_LOBBY_UPDATE" \in Results(out'[connected_user_table'[t].mq_id])

RoomHeard(r) ==
  \A t \in RoomSessions(connected_user_table', r) :
    "OK_REQUEST_ROOM_MEMBER_UPDATE" \in Results(out'[connected_user_table'[t].mq_id])

\* There are finitely many sessions, and each has its worker.
Reachable ==
  /\ IsFiniteSet(DOMAIN connected_user_table)
  /\ \A t \in DOMAIN connected_user_table : connected_user_table[t].mq_id \in Workers

LEMMA SessionsAreReachable == IInv => Reachable
<1> SUFFICES ASSUME IInv PROVE Reachable
  OBVIOUS
<1>1. DOMAIN connected_user_table \in SUBSET (0 .. connected - 1) /\ connected \in Nat
  BY DEF IInv, TypeOK
<1>2. IsFiniteSet(0 .. connected - 1)
  BY <1>1, FS_Interval
<1>3. IsFiniteSet(DOMAIN connected_user_table)
  BY <1>1, <1>2, FS_Subset
<1> QED
  BY <1>3 DEF IInv, TypeOK, Session, Reachable

\* The same of the next state.
LEMMA SessionsStayReachable == IInv' => Reachable'
BY SessionsAreReachable, PTL

\* A broadcast adds to what has been sent and reaches every session in the lobby,
\* or in the room.
LEMMA BroadcastsReach ==
  ASSUME NEW B, NEW sent \in Sendings(B), NEW m \in B, NEW sessions,
         IsFiniteSet(DOMAIN sessions),
         \A t \in DOMAIN sessions : sessions[t].mq_id \in Workers
  PROVE  /\ broadcast_lobby(sent, sessions, m) \in Sendings(B)
         /\ \A v \in Workers : Range(sent[v]) \subseteq Range(broadcast_lobby(sent, sessions, m)[v])
         /\ \A t \in LobbySessions(sessions) :
              m \in Range(broadcast_lobby(sent, sessions, m)[sessions[t].mq_id])
         /\ \A r : /\ broadcast_room(sent, sessions, r, m) \in Sendings(B)
                   /\ \A v \in Workers :
                        Range(sent[v]) \subseteq Range(broadcast_room(sent, sessions, r, m)[v])
                   /\ \A t \in RoomSessions(sessions, r) :
                        m \in Range(broadcast_room(sent, sessions, r, m)[sessions[t].mq_id])
<1>1. ASSUME NEW S \in SUBSET DOMAIN sessions
      PROVE  /\ SendToSessions(sent, sessions, S, m) \in Sendings(B)
             /\ \A v \in Workers :
                  Range(sent[v]) \subseteq Range(SendToSessions(sent, sessions, S, m)[v])
             /\ \A t \in S : m \in Range(SendToSessions(sent, sessions, S, m)[sessions[t].mq_id])
  <2>1. IsFiniteSet(S)
    BY FS_Subset
  <2>2. /\ SendToSessions(sent, sessions, S, m) \in Sendings(B)
        /\ \A v \in Workers :
             Range(SendToSessions(sent, sessions, S, m)[v]) =
               Range(sent[v]) \cup IF \E t \in S : sessions[t].mq_id = v THEN {m} ELSE {}
    BY <2>1, SessionsAreTold
  <2> QED
    BY <2>2
<1>2. LobbySessions(sessions) \in SUBSET DOMAIN sessions
  BY DEF LobbySessions
<1>3. \A r : RoomSessions(sessions, r) \in SUBSET DOMAIN sessions
  BY DEF RoomSessions
<1> QED
  BY <1>1, <1>2, <1>3 DEF broadcast_lobby, broadcast_room

\* A response is known by its code.
LEMMA ResponseResults ==
  ASSUME NEW s, NEW code, Response(code) \in Range(s)
  PROVE  code \in Results(s)
<1>1. Response(code).result = code
  BY DEF Response
<1> QED
  BY <1>1 DEF Results

\* The two broadcasts of the room handlers, in either order.
LEMMA BothAreHeard ==
  ASSUME IInv', NEW B, NEW sent \in Sendings(B), NEW sessions, sessions = connected_user_table',
         NEW r, NEW lobby \in B, lobby = Response("OK_REQUEST_LOBBY_UPDATE"),
         NEW room \in B, room = Response("OK_REQUEST_ROOM_MEMBER_UPDATE"),
         \/ out' = broadcast_lobby(broadcast_room(sent, sessions, r, room), sessions, lobby)
         \/ out' = broadcast_room(broadcast_lobby(sent, sessions, lobby), sessions, r, room)
  PROVE  LobbyHeard /\ RoomHeard(r)
<1>1. Reachable'
  BY SessionsStayReachable
<1>2. /\ IsFiniteSet(DOMAIN sessions)
      /\ \A t \in DOMAIN sessions : sessions[t].mq_id \in Workers
  BY <1>1 DEF Reachable
<1> DEFINE one == broadcast_room(sent, sessions, r, room)
           two == broadcast_lobby(sent, sessions, lobby)
<1>3. /\ one \in Sendings(B)
      /\ \A t \in RoomSessions(sessions, r) : room \in Range(one[sessions[t].mq_id])
      /\ two \in Sendings(B)
      /\ \A t \in LobbySessions(sessions) : lobby \in Range(two[sessions[t].mq_id])
  BY <1>2, BroadcastsReach
<1>4. /\ LobbySessions(sessions) \subseteq DOMAIN sessions
      /\ RoomSessions(sessions, r) \subseteq DOMAIN sessions
  BY DEF LobbySessions, RoomSessions
<1> HIDE DEF one, two
<1>5. CASE out' = broadcast_lobby(one, sessions, lobby)
  <2>1. /\ \A v \in Workers : Range(one[v]) \subseteq Range(out'[v])
        /\ \A t \in LobbySessions(sessions) : lobby \in Range(out'[sessions[t].mq_id])
    BY <1>2, <1>3, <1>5, BroadcastsReach
  <2> QED
    BY <1>2, <1>3, <1>4, <2>1, ResponseResults DEF LobbyHeard, RoomHeard
<1>6. CASE out' = broadcast_room(two, sessions, r, room)
  <2>1. /\ \A v \in Workers : Range(two[v]) \subseteq Range(out'[v])
        /\ \A t \in RoomSessions(sessions, r) : room \in Range(out'[sessions[t].mq_id])
    BY <1>2, <1>3, <1>6, BroadcastsReach
  <2> QED
    BY <1>2, <1>3, <1>4, <2>1, ResponseResults DEF LobbyHeard, RoomHeard
<1> QED
  BY <1>5, <1>6 DEF one, two

\* A new room: its creator and the lobby are told.
LEMMA CreateIsHeard ==
  ASSUME IInv, IInv', NEW w, NEW token \in DOMAIN connected_user_table,
         route_create_room(w, token), NEW r, r = next_pk_room
  PROVE  LobbyHeard /\ RoomHeard(r)
<1>1. PICK sessions : sessions = connected_user_table'
  OBVIOUS
<1> DEFINE created == [result |-> "OK_CREATE_ROOM", room_id |-> r]
           joined  == Response("OK_JOIN_ROOM")
           lobby   == Response("OK_REQUEST_LOBBY_UPDATE")
           room    == Response("OK_REQUEST_ROOM_MEMBER_UPDATE")
           B       == {created, joined, lobby, room}
           sent    == Send(Send(Nothing, w, created), w, joined)
<1>2. out' = broadcast_lobby(broadcast_room(sent, sessions, r, room), sessions, lobby)
  BY <1>1 DEF route_create_room, InvalidConnection
<1>3. created \in B /\ joined \in B /\ lobby \in B /\ room \in B
  OBVIOUS
<1> HIDE DEF B, created, joined
<1>4. Nothing \in Sendings(B)
  BY NothingTells
<1>5. Send(Nothing, w, created) \in Sendings(B)
  BY <1>3, <1>4, SendTells
<1>6. sent \in Sendings(B)
  BY <1>3, <1>5, SendTells
<1> HIDE DEF sent
<1> QED
  BY <1>1, <1>2, <1>3, <1>6, BothAreHeard

\* A new member: the room and the lobby are told.
LEMMA JoinIsHeard ==
  ASSUME IInv, IInv', NEW w, NEW token \in DOMAIN connected_user_table, NEW r,
         route_join_room(w, token, r), ~UNCHANGED tables
  PROVE  LobbyHeard /\ RoomHeard(r)
<1>1. PICK sessions : sessions = connected_user_table'
  OBVIOUS
<1> DEFINE joined == Response("OK_JOIN_ROOM")
           lobby  == Response("OK_REQUEST_LOBBY_UPDATE")
           room   == Response("OK_REQUEST_ROOM_MEMBER_UPDATE")
           B      == {joined, lobby, room}
           sent   == Send(Nothing, w, joined)
<1>2. out' = broadcast_lobby(broadcast_room(sent, sessions, r, room), sessions, lobby)
  BY <1>1 DEF route_join_room, InvalidConnection
<1>3. joined \in B /\ lobby \in B /\ room \in B
  OBVIOUS
<1> HIDE DEF B, joined
<1>4. Nothing \in Sendings(B)
  BY NothingTells
<1>5. sent \in Sendings(B)
  BY <1>3, <1>4, SendTells
<1> HIDE DEF sent
<1> QED
  BY <1>1, <1>2, <1>3, <1>5, BothAreHeard

\* A member less: those who are left and the lobby, he among them, are told.
LEMMA LeaveIsHeard ==
  ASSUME IInv, IInv', NEW w, NEW token \in DOMAIN connected_user_table,
         route_leave_room(w, token), ~Ignored,
         NEW r, r = connected_user_table[token].pk_room
  PROVE  LobbyHeard /\ RoomHeard(r)
<1>1. PICK sessions : sessions = connected_user_table'
  OBVIOUS
<1> DEFINE left  == Response("OK_LEAVE_ROOM")
           lobby == Response("OK_REQUEST_LOBBY_UPDATE")
           room  == Response("OK_REQUEST_ROOM_MEMBER_UPDATE")
           B     == {left, lobby, room}
           sent  == Send(Nothing, w, left)
<1>2. out' = broadcast_room(broadcast_lobby(sent, sessions, lobby), sessions, r, room)
  BY <1>1 DEF route_leave_room, InvalidConnection
<1>3. left \in B /\ lobby \in B /\ room \in B
  OBVIOUS
<1> HIDE DEF B, left
<1>4. Nothing \in Sendings(B)
  BY NothingTells
<1>5. sent \in Sendings(B)
  BY <1>3, <1>4, SendTells
<1> HIDE DEF sent
<1> QED
  BY <1>1, <1>2, <1>3, <1>5, BothAreHeard

\* A newcomer in the lobby: everyone in it is told.
LEMMA SignInIsHeard ==
  ASSUME IInv, IInv', NEW w, NEW id, NEW right, route_sign_in(w, id, right),
         ~UNCHANGED connected_user_table
  PROVE  LobbyHeard
<1>1. PICK sessions : sessions = connected_user_table'
  OBVIOUS
<1>2. PICK drawn : drawn = connected
  OBVIOUS
<1> DEFINE token == [result |-> "OK_SIGN_IN", access_token |-> drawn]
           lobby == Response("OK_REQUEST_LOBBY_UPDATE")
           B     == {token, lobby}
           sent  == Send(Nothing, w, token)
<1>3. out' = broadcast_lobby(sent, sessions, lobby)
  BY <1>1, <1>2 DEF route_sign_in
<1>4. token \in B /\ lobby \in B
  OBVIOUS
<1> HIDE DEF B, token
<1>5. Nothing \in Sendings(B)
  BY NothingTells
<1>6. sent \in Sendings(B)
  BY <1>4, <1>5, SendTells
<1> HIDE DEF sent
<1>7. /\ IsFiniteSet(DOMAIN sessions)
      /\ \A t \in DOMAIN sessions : sessions[t].mq_id \in Workers
  BY <1>1, SessionsStayReachable DEF Reachable
<1>8. \A t \in LobbySessions(sessions) : lobby \in Range(out'[sessions[t].mq_id])
  BY <1>3, <1>4, <1>6, <1>7, BroadcastsReach
<1> QED
  BY <1>1, <1>8, ResponseResults DEF LobbyHeard

\* What LobbyHears and RoomHears say of a step.
LobbyNews == RoomSizes' # RoomSizes \/ ~(LobbyPks' \subseteq LobbyPks)

RoomNews(r) ==
  r \in DOMAIN game_room_table =>
    game_room_table'[r].member_pk_list # game_room_table[r].member_pk_list

NewsIsHeard ==
  /\ LobbyNews => LobbyHeard
  /\ \A r \in DOMAIN game_room_table' : RoomNews(r) => RoomHeard(r)

\* Where no list changes and nobody comes to the lobby there is nothing to tell.
LEMMA NoNews ==
  ASSUME ListsStay, LobbyPks' \subseteq LobbyPks
  PROVE  NewsIsHeard
BY DEF ListsStay, NewsIsHeard, LobbyNews, RoomNews, RoomSizes

\* A room that neither comes nor changes is no news.
LEMMA NewsOfOneRoom ==
  ASSUME NEW r, LobbyHeard, RoomHeard(r),
         \A s \in DOMAIN game_room_table' \ {r} :
           s \in DOMAIN game_room_table /\ game_room_table'[s] = game_room_table[s]
  PROVE  NewsIsHeard
BY DEF NewsIsHeard, RoomNews

LEMMA StepIsHeard == IInv /\ [Next]_vars => NewsIsHeard
<1> SUFFICES ASSUME IInv, [Next]_vars PROVE NewsIsHeard
  OBVIOUS
<1>1. IInv'
  BY StepIInv
<1>2. CASE AtRest
  <2>1. LobbyPks' = LobbyPks
    BY <1>2 DEF AtRest, LobbyPks, LobbySessions
  <2> QED
    BY <1>2, <2>1, NoNews DEF AtRest
<1>3. ASSUME NEW w \in Workers, SessionStep(w)
      PROVE  NewsIsHeard
  <2>1. ListsStay
    BY <1>3 DEF SessionStep, route_sign_in, route_sign_out, InvalidConnection, tables,
                handle_dead_client_worker, ListsStay
  <2>2. CASE \E token \in Tokens : route_sign_out(w, token)
    <3>1. \A t \in DOMAIN connected_user_table' :
            t \in DOMAIN connected_user_table /\ connected_user_table'[t] = connected_user_table[t]
      BY <2>2 DEF route_sign_out, InvalidConnection, tables, Without
    <3>2. LobbyPks' \subseteq LobbyPks
      BY <3>1 DEF LobbyPks, LobbySessions
    <3> QED
      BY <2>1, <3>2, NoNews
  <2>3. CASE handle_dead_client_worker(w)
    <3>1. \A t \in DOMAIN connected_user_table' :
            t \in DOMAIN connected_user_table /\ connected_user_table'[t] = connected_user_table[t]
      BY <2>3 DEF handle_dead_client_worker, Without
    <3>2. LobbyPks' \subseteq LobbyPks
      BY <3>1 DEF LobbyPks, LobbySessions
    <3> QED
      BY <2>1, <3>2, NoNews
  <2>4. ASSUME NEW id \in Ids, NEW right \in BOOLEAN, route_sign_in(w, id, right)
        PROVE  NewsIsHeard
    <3>1. CASE UNCHANGED connected_user_table
      <4>1. LobbyPks' = LobbyPks
        BY <3>1 DEF LobbyPks, LobbySessions
      <4> QED
        BY <2>1, <4>1, NoNews
    <3>2. CASE ~UNCHANGED connected_user_table
      <4>1. LobbyHeard
        BY <1>1, <2>4, <3>2, SignInIsHeard
      <4> QED
        BY <2>1, <4>1 DEF NewsIsHeard, RoomNews, ListsStay
    <3> QED
      BY <3>1, <3>2
  <2> QED
    BY <1>3, <2>2, <2>3, <2>4 DEF SessionStep
<1>4. ASSUME NEW w \in Workers, NEW token \in Tokens, route_create_room(w, token)
      PROVE  AtRest \/ NewsIsHeard
  <2>1. CASE InvalidConnection(w, token)
    BY <2>1 DEF InvalidConnection, tables, AtRest, ListsStay
  <2>2. CASE token \in DOMAIN connected_user_table
    <3>1. PICK r : r = next_pk_room
      OBVIOUS
    <3>2. LobbyHeard /\ RoomHeard(r)
      BY <1>1, <1>4, <2>2, <3>1, CreateIsHeard
    <3>3. \A s \in DOMAIN game_room_table' \ {r} :
            s \in DOMAIN game_room_table /\ game_room_table'[s] = game_room_table[s]
      BY <1>4, <2>2, <3>1, CreateFacts
    <3> QED
      BY <3>2, <3>3, NewsOfOneRoom
  <2> QED
    BY <1>4, <2>1, <2>2 DEF route_create_room
<1>5. ASSUME NEW w \in Workers, NEW token \in Tokens, NEW r, route_join_room(w, token, r)
      PROVE  AtRest \/ NewsIsHeard
  <2>1. CASE UNCHANGED tables
    BY <2>1 DEF tables, AtRest, ListsStay
  <2>2. CASE ~UNCHANGED tables
    <3>1. token \in DOMAIN connected_user_table
      BY <1>5, <2>2 DEF route_join_room, InvalidConnection
    <3>2. LobbyHeard /\ RoomHeard(r)
      BY <1>1, <1>5, <2>2, <3>1, JoinIsHeard
    <3>3. \A s \in DOMAIN game_room_table' \ {r} :
            s \in DOMAIN game_room_table /\ game_room_table'[s] = game_room_table[s]
      BY <1>5, <2>2, <3>1, JoinFacts
    <3> QED
      BY <3>2, <3>3, NewsOfOneRoom
  <2> QED
    BY <2>1, <2>2
<1>6. ASSUME NEW w \in Workers, NEW token \in Tokens, route_leave_room(w, token)
      PROVE  AtRest \/ NewsIsHeard
  <2>1. CASE InvalidConnection(w, token) \/ Ignored
    BY <2>1 DEF InvalidConnection, Ignored, tables, AtRest, ListsStay
  <2>2. CASE token \in DOMAIN connected_user_table /\ ~Ignored
    <3>1. PICK r : r = connected_user_table[token].pk_room
      OBVIOUS
    <3>2. LobbyHeard /\ RoomHeard(r)
      BY <1>1, <1>6, <2>2, <3>1, LeaveIsHeard
    <3>3. \A s \in DOMAIN game_room_table' \ {r} :
            s \in DOMAIN game_room_table /\ game_room_table'[s] = game_room_table[s]
      BY <1>6, <2>2, <3>1, LeaveFacts
    <3> QED
      BY <3>2, <3>3, NewsOfOneRoom
  <2> QED
    BY <1>6, <2>1, <2>2 DEF route_leave_room, InvalidConnection
<1> QED
  BY <1>2, <1>3, <1>4, <1>5, <1>6, StepKinds DEF RoomStep

\* Whenever a room comes, goes, grows or shrinks, or someone appears in the lobby,
\* everyone in the lobby is told; whenever a member list changes, everyone whose
\* session is in the room: in the handler that makes the change, by the sessions
\* as that handler leaves them.
THEOREM AllChangesAreAnnounced == Spec => ChangesAreAnnounced
<1>1. IInv /\ [Next]_vars =>
        [RoomSizes' # RoomSizes \/ ~(LobbyPks' \subseteq LobbyPks) =>
           \A t \in LobbySessions(connected_user_table') :
             "OK_REQUEST_LOBBY_UPDATE" \in Results(out'[connected_user_table'[t].mq_id])]_vars
  BY StepIsHeard DEF NewsIsHeard, LobbyNews, LobbyHeard
<1>2. IInv /\ [Next]_vars =>
        [\A r \in DOMAIN game_room_table' :
           (r \in DOMAIN game_room_table =>
              game_room_table'[r].member_pk_list # game_room_table[r].member_pk_list) =>
             \A t \in RoomSessions(connected_user_table', r) :
               "OK_REQUEST_ROOM_MEMBER_UPDATE"
                 \in Results(out'[connected_user_table'[t].mq_id])]_vars
  BY StepIsHeard DEF NewsIsHeard, RoomNews, RoomHeard
<1> QED
  BY <1>1, <1>2, Invariance, PTL DEF Spec, ChangesAreAnnounced, LobbyHears, RoomHears
-----------------------------------------------------------------------------
\* What is said at one place alone: the answer to a user who leaves, and who has won.

Verdicts == {"OK_LEAVE_ROOM", "OK_TOTAL_RESULT"}

\* Nobody is told so.
Unsaid(code) == \A v \in Workers : \A m \in Range(out'[v]) : m.result # code

\* Who is told something is told one of the messages that are sent.
LEMMA TellsOnly ==
  ASSUME NEW B, out' \in Sendings(B), NEW v \in Workers, NEW m \in Range(out'[v])
  PROVE  m \in B
<1>1. out'[v] \in Seq(B)
  BY DEF Sendings
<1> QED
  BY <1>1, PlacesOf DEF Range

\* Messages with other codes do not say so.
LEMMA OtherCodes ==
  ASSUME NEW code, NEW B, out' \in Sendings(B), \A m \in B : m.result # code
  PROVE  Unsaid(code)
BY TellsOnly DEF Unsaid

\* Neither does silence, nor one answer with another code.
LEMMA OtherAnswer ==
  ASSUME NEW code,
         \/ out' = Nothing
         \/ \E w, m : m.result # code /\ out' = Send(Nothing, w, m)
  PROVE  Unsaid(code)
<1>1. CASE out' = Nothing
  <2>1. out' \in Sendings({})
    BY <1>1, NothingTells
  <2> QED
    BY <2>1, OtherCodes
<1>2. ASSUME NEW w, NEW m, m.result # code, out' = Send(Nothing, w, m)
      PROVE  Unsaid(code)
  <2> DEFINE B == {m}
  <2>1. m \in B /\ \A n \in B : n.result # code
    BY <1>2
  <2> HIDE DEF B
  <2>2. Nothing \in Sendings(B)
    BY NothingTells
  <2>3. out' \in Sendings(B)
    BY <1>2, <2>1, <2>2, SendTells
  <2> QED
    BY <2>1, <2>3, OtherCodes
<1> QED
  BY <1>1, <1>2

\* A simple response carries its code.
LEMMA ResponseCode ==
  ASSUME NEW code
  PROVE  Response(code).result = code
BY DEF Response

\* Broadcasts after an answer.
LEMMA OtherBroadcasts ==
  ASSUME NEW B, NEW sent \in Sendings(B), NEW sessions, IsFiniteSet(DOMAIN sessions),
         NEW m \in B, NEW n \in B, NEW r
  PROVE  /\ broadcast_lobby(sent, sessions, m) \in Sendings(B)
         /\ broadcast_room(sent, sessions, r, n) \in Sendings(B)
         /\ broadcast_lobby(broadcast_room(sent, sessions, r, n), sessions, m) \in Sendings(B)
         /\ broadcast_room(broadcast_lobby(sent, sessions, m), sessions, r, n) \in Sendings(B)
<1>1. ASSUME NEW one \in Sendings(B), NEW S \in SUBSET DOMAIN sessions, NEW p \in B
      PROVE  SendToSessions(one, sessions, S, p) \in Sendings(B)
  BY FS_Subset, SessionsAreTold
<1>2. LobbySessions(sessions) \in SUBSET DOMAIN sessions
  BY DEF LobbySessions
<1>3. RoomSessions(sessions, r) \in SUBSET DOMAIN sessions
  BY DEF RoomSessions
<1> QED
  BY <1>1, <1>2, <1>3 DEF broadcast_lobby, broadcast_room

\* The sessions after a step are finitely many.
LEMMA FinitelyMany ==
  ASSUME IInv'
  PROVE  IsFiniteSet(DOMAIN connected_user_table')
BY SessionsStayReachable DEF Reachable

\* Who signs in, creates or joins a room is told other things.
LEMMA ComersHearOther ==
  ASSUME NEW code \in Verdicts, IInv', NEW w, NEW token,
         \/ \E id, right : route_sign_in(w, id, right)
         \/ route_create_room(w, token)
         \/ \E r : route_join_room(w, token, r)
  PROVE  Unsaid(code)
<1>1. PICK sessions : sessions = connected_user_table'
  OBVIOUS
<1>2. IsFiniteSet(DOMAIN sessions)
  BY <1>1, FinitelyMany
<1>3. PICK drawn : drawn = connected
  OBVIOUS
<1>4. PICK new : new = next_pk_room
  OBVIOUS
<1> DEFINE token_   == [result |-> "OK_SIGN_IN", access_token |-> drawn]
           created  == [result |-> "OK_CREATE_ROOM", room_id |-> new]
           joined   == Response("OK_JOIN_ROOM")
           lobby    == Response("OK_REQUEST_LOBBY_UPDATE")
           room     == Response("OK_REQUEST_ROOM_MEMBER_UPDATE")
           B        == {token_, created, joined, lobby, room}
<1>5. /\ joined.result # code /\ lobby.result # code
      /\ room.result # code
  BY ResponseCode DEF Verdicts
<1>6. token_.result = "OK_SIGN_IN" /\ created.result = "OK_CREATE_ROOM"
  OBVIOUS
<1>7. /\ token_ \in B /\ created \in B /\ joined \in B /\ lobby \in B /\ room \in B
      /\ \A m \in B : m.result # code
  BY <1>5, <1>6 DEF Verdicts
<1>8. Nothing \in Sendings(B)
  BY NothingTells
<1> HIDE DEF B
<1>9. CASE \E id, right : route_sign_in(w, id, right)
  <2>1. CASE out' = Send(Nothing, w, Response("ERROR_INVALID_AUTH"))
    BY <2>1, ResponseCode, OtherAnswer DEF Verdicts
  <2>2. CASE out' = broadcast_lobby(Send(Nothing, w, token_), sessions, lobby)
    <3> HIDE DEF token_, lobby
    <3>1. Send(Nothing, w, token_) \in Sendings(B)
      BY <1>7, <1>8, SendTells
    <3>2. out' \in Sendings(B)
      BY <1>2, <1>7, <2>2, <3>1, OtherBroadcasts
    <3> QED
      BY <1>7, <3>2, OtherCodes
  <2> QED
    BY <1>1, <1>3, <1>9, <2>1, <2>2 DEF route_sign_in
<1>10. CASE route_create_room(w, token)
  <2>1. CASE InvalidConnection(w, token)
    BY <2>1, ResponseCode, OtherAnswer DEF Verdicts, InvalidConnection
  <2>2. CASE out' = broadcast_lobby(
                      broadcast_room(Send(Send(Nothing, w, created), w, joined),
                                     sessions, new, room), sessions, lobby)
    <3> HIDE DEF created, joined, lobby, room
    <3>1. Send(Nothing, w, created) \in Sendings(B)
      BY <1>7, <1>8, SendTells
    <3>2. Send(Send(Nothing, w, created), w, joined) \in Sendings(B)
      BY <1>7, <3>1, SendTells
    <3>3. out' \in Sendings(B)
      BY <1>2, <1>7, <2>2, <3>2, OtherBroadcasts
    <3> QED
      BY <1>7, <3>3, OtherCodes
  <2> QED
    BY <1>1, <1>4, <1>10, <2>1, <2>2 DEF route_create_room
<1>11. ASSUME NEW r, route_join_room(w, token, r)
       PROVE  Unsaid(code)
  <2>1. CASE InvalidConnection(w, token)
    BY <2>1, ResponseCode, OtherAnswer DEF Verdicts, InvalidConnection
  <2>2. CASE out' = Send(Nothing, w, Response("ERROR_FAIL_TO_JOIN_ROOM"))
    BY <2>2, ResponseCode, OtherAnswer DEF Verdicts
  <2>3. CASE out' = broadcast_lobby(
                      broadcast_room(Send(Nothing, w, joined), sessions, r, room),
                      sessions, lobby)
    <3> HIDE DEF joined, lobby, room
    <3>1. Send(Nothing, w, joined) \in Sendings(B)
      BY <1>7, <1>8, SendTells
    <3>2. out' \in Sendings(B)
      BY <1>2, <1>7, <2>3, <3>1, OtherBroadcasts
    <3> QED
      BY <1>7, <3>2, OtherCodes
  <2> QED
    BY <1>1, <1>11, <2>1, <2>2, <2>3 DEF route_join_room
<1> QED
  BY <1>9, <1>10, <1>11

\* A line is passed on as a line.
LEMMA ChattersHearOther ==
  ASSUME NEW code \in Verdicts, IInv, NEW w, NEW token, NEW line, route_chatting(w, token, line)
  PROVE  Unsaid(code)
<1>1. PICK sessions : sessions = connected_user_table
  OBVIOUS
<1>2. IsFiniteSet(DOMAIN sessions)
  BY <1>1, SessionsAreReachable DEF Reachable
<1>3. PICK sender : sender = connected_user_table[token]
  OBVIOUS
<1> DEFINE chat == [result |-> "OK_CHATTING", sender |-> sender.pk, content |-> line]
           B    == {chat}
<1>4. chat \in B /\ \A m \in B : m.result # code
  BY DEF Verdicts
<1>5. Nothing \in Sendings(B)
  BY NothingTells
<1>6. CASE InvalidConnection(w, token)
  BY <1>6, ResponseCode, OtherAnswer DEF Verdicts, InvalidConnection
<1>7. CASE \/ out' = broadcast_lobby(Nothing, sessions, chat)
           \/ out' = broadcast_room(Nothing, sessions, sender.pk_room, chat)
  <2> HIDE DEF chat, B
  <2>1. out' \in Sendings(B)
    BY <1>2, <1>4, <1>5, <1>7, OtherBroadcasts
  <2> QED
    BY <1>4, <2>1, OtherCodes
<1> QED
  BY <1>1, <1>3, <1>6, <1>7 DEF route_chatting

\* Members are told what is sent to them.
LEMMA MembersHearIt ==
  ASSUME IInv, NEW r \in DOMAIN game_room_table,
         NEW B, NEW sent \in Sendings(B), NEW m \in B
  PROVE  NotifyMembers(sent, connected_user_table, game_room_table[r].member_pk_list, m)
           \in Sendings(B)
<1>1. game_room_table[r].member_pk_list \in Seq(Pks)
  BY DEF IInv, TypeOK, RoomOf
<1> QED
  BY <1>1, MembersAreTold

\* The start of a game is neither.
LEMMA StartersHearOther ==
  ASSUME NEW code \in Verdicts, IInv, NEW w, NEW token, route_game_start(w, token)
  PROVE  Unsaid(code)
<1> DEFINE started == Response("OK_START_GAME")
           news    == Response("OK_NOTIFYING_START_GAME")
           B       == {started, news}
<1>1. started.result # code /\ news.result # code
  BY ResponseCode DEF Verdicts
<1>2. started \in B /\ news \in B /\ \A m \in B : m.result # code
  BY <1>1
<1> HIDE DEF started, news, B
<1>3. Send(Nothing, w, started) \in Sendings(B)
  BY <1>2, NothingTells, SendTells
<1>4. CASE InvalidConnection(w, token)
  BY <1>4, ResponseCode, OtherAnswer DEF Verdicts, InvalidConnection
<1>5. CASE Ignored
  BY <1>5, OtherAnswer DEF Ignored
<1>6. CASE \E r \in DOMAIN game_room_table :
             out' = NotifyMembers(Send(Nothing, w, started), connected_user_table,
                                  game_room_table[r].member_pk_list, news)
  <2>1. out' \in Sendings(B)
    BY <1>2, <1>3, <1>6, MembersHearIt
  <2> QED
    BY <1>2, <2>1, OtherCodes
<1> QED
  BY <1>4, <1>5, <1>6 DEF route_game_start, Startable, started, news

\* The end of a game in a room names a winner.
WinnerNamed(r, m) ==
  /\ handle_game_room_showing_total_result(r)
  /\ m.winner = TotalWinner(Aged(game_room_table[r], elapsed))

\* What the handlers of a pass send: nothing, or one message to the members of the
\* room and perhaps another one to the lobby; and a winner only when a game ends.
LEMMA PassSends ==
  ASSUME IInv, NEW r \in pending,
         \/ handle_game_room_waiting(r)
         \/ \E problem \in Problems : OpenRound(r, problem)
         \/ handle_game_room_playing(r)
         \/ handle_game_room_showing_total_result(r)
  PROVE  LET list  == game_room_table[r].member_pk_list
             lobby == Response("OK_REQUEST_LOBBY_UPDATE")
         IN  \/ /\ out' = Nothing
                /\ game_room_table'[r].status = game_room_table[r].status
             \/ \E m : /\ m.result \in Announcement(game_room_table'[r])
                       /\ Announcement(game_room_table'[r]) = {m.result}
                       /\ m.result # "OK_LEAVE_ROOM"
                       /\ m.result = "OK_TOTAL_RESULT" => WinnerNamed(r, m)
                       /\ \E told : /\ told = NotifyMembers(Nothing, connected_user_table, list, m)
                                    /\ \/ out' = told
                                       \/ out' = broadcast_lobby(told, connected_user_table, lobby)
<1> DEFINE old  == game_room_table[r]
           aged == Aged(old, elapsed)
<1>1. r \in DOMAIN game_room_table /\ Sound(Pks, Problems, old) /\ elapsed \in Nat
  BY VisitedIsSound
<1>2. /\ aged.status = old.status
      /\ aged.member_pk_list = old.member_pk_list
      /\ \A problem : RoundOpened(aged, problem).status = "PLAYING"
      /\ RoundClosed(aged).status \in {"SHOWING_ROUND_RESULT", "SHOWING_TOTAL_RESULT"}
      /\ RoundClosed(aged).member_pk_list = old.member_pk_list
      /\ end_game(aged).status = "WAITING"
  BY <1>1, VisitedRooms
<1>3. CASE handle_game_room_waiting(r)
  BY <1>1, <1>2, <1>3 DEF handle_game_room_waiting
<1>4. ASSUME NEW problem \in Problems, OpenRound(r, problem)
      PROVE  \E m : /\ Announcement(game_room_table'[r]) = {m.result}
                    /\ m.result # "OK_LEAVE_ROOM"
                    /\ m.result = "OK_TOTAL_RESULT" => WinnerNamed(r, m)
                    /\ out' = NotifyMembers(Nothing, connected_user_table, old.member_pk_list, m)
  <2> DEFINE m == [result |-> "OK_MAKE_QUIZ", quiz_string |-> problem]
  <2>1. game_room_table'[r].status = "PLAYING"
    BY <1>1, <1>2, <1>4 DEF OpenRound
  <2>2. Announcement(game_room_table'[r]) = {"OK_MAKE_QUIZ"}
    BY <2>1 DEF Announcement
  <2>3. out' = NotifyMembers(Nothing, connected_user_table, old.member_pk_list, m)
    BY <1>2, <1>4 DEF OpenRound
  <2>4. m.result = "OK_MAKE_QUIZ"
    OBVIOUS
  <2> QED
    BY <2>2, <2>3, <2>4
<1>5. ASSUME handle_game_room_playing(r)
      PROVE  \E m : /\ Announcement(game_room_table'[r]) = {m.result}
                    /\ m.result # "OK_LEAVE_ROOM"
                    /\ m.result = "OK_TOTAL_RESULT" => WinnerNamed(r, m)
                    /\ out' = NotifyMembers(Nothing, connected_user_table, old.member_pk_list, m)
  <2> DEFINE closed == RoundClosed(aged)
             m == [result       |-> "OK_ROUND_RESULT",
                   winner       |-> closed.winner_of_round[closed.curr_round - 1],
                   remain_round |-> TotalRound - closed.curr_round]
  <2>1. game_room_table'[r].status \in {"SHOWING_ROUND_RESULT", "SHOWING_TOTAL_RESULT"}
    BY <1>1, <1>2, <1>5 DEF handle_game_room_playing
  <2>2. Announcement(game_room_table'[r]) = {"OK_ROUND_RESULT"}
    BY <2>1 DEF Announcement
  <2>3. out' = NotifyMembers(Nothing, connected_user_table, old.member_pk_list, m)
    BY <1>2, <1>5 DEF handle_game_room_playing, notify_round_end
  <2>4. m.result = "OK_ROUND_RESULT"
    OBVIOUS
  <2> QED
    BY <2>2, <2>3, <2>4
<1>6. ASSUME handle_game_room_showing_total_result(r)
      PROVE  \E m : /\ Announcement(game_room_table'[r]) = {m.result}
                    /\ m.result # "OK_LEAVE_ROOM"
                    /\ m.result = "OK_TOTAL_RESULT" => WinnerNamed(r, m)
                    /\ out' = broadcast_lobby(
                                NotifyMembers(Nothing, connected_user_table,
                                              old.member_pk_list, m),
                                connected_user_table, Response("OK_REQUEST_LOBBY_UPDATE"))
  <2> DEFINE m == [result |-> "OK_TOTAL_RESULT", winner |-> TotalWinner(aged)]
  <2>1. game_room_table'[r].status = "WAITING"
    BY <1>1, <1>2, <1>6 DEF handle_game_room_showing_total_result
  <2>2. Announcement(game_room_table'[r]) = {"OK_TOTAL_RESULT"}
    BY <2>1 DEF Announcement
  <2>3. out' = broadcast_lobby(
                 NotifyMembers(Nothing, connected_user_table, old.member_pk_list, m),
                 connected_user_table, Response("OK_REQUEST_LOBBY_UPDATE"))
    BY <1>2, <1>6 DEF handle_game_room_showing_total_result, notify_game_end
  <2>4. m.result = "OK_TOTAL_RESULT" /\ m.winner = TotalWinner(aged)
    OBVIOUS
  <2>5. WinnerNamed(r, m)
    BY <1>6, <2>4 DEF WinnerNamed
  <2> QED
    BY <2>2, <2>3, <2>4, <2>5
<1> QED
  BY <1>3, <1>4, <1>5, <1>6

\* The winner named at the end of a game is one whom nobody has beaten.
LEMMA NamedIsBest ==
  ASSUME IInv, NEW r \in pending, NEW m, WinnerNamed(r, m)
  PROVE  \E s \in Kept : Ends(s) /\ IsBest(game_room_table[s], m.winner)
<1> DEFINE old  == game_room_table[r]
           aged == Aged(old, elapsed)
<1>1. r \in DOMAIN game_room_table /\ Sound(Pks, Problems, old) /\ elapsed \in Nat
  BY VisitedIsSound
<1>2. /\ aged \in RoomOf(Pks, Problems)
      /\ aged.member_pk_list = old.member_pk_list
      /\ aged.winner_of_round = old.winner_of_round
  BY <1>1, AgedProperties
<1>3. Len(old.member_pk_list) # 0
  BY <1>1 DEF Sound
<1>4. m.winner = TotalWinner(aged)
  BY DEF WinnerNamed
<1> HIDE DEF aged
<1>5. IsBest(aged, m.winner)
  BY <1>2, <1>3, <1>4, WinnerIsBest
<1>6. IsBest(old, m.winner)
  BY <1>2, <1>5 DEF IsBest, Players, RoundsWon
<1>7. Ends(r)
  BY EndPays DEF WinnerNamed
<1> QED
  BY <1>6, <1>7 DEF Ends

\* Whoever is said to have won a game has won one that ends in this step.
WinnersTrue ==
  \A v \in Workers : \A m \in Range(out'[v]) :
    m.result = "OK_TOTAL_RESULT" =>
      \E r \in Kept : Ends(r) /\ IsBest(game_room_table[r], m.winner)

LEMMA NoWinnerNamed ==
  ASSUME Unsaid("OK_TOTAL_RESULT")
  PROVE  WinnersTrue
BY DEF Unsaid, WinnersTrue

LEMMA PassTellsTheTruth ==
  ASSUME IInv, update_game_rooms
  PROVE  Unsaid("OK_LEAVE_ROOM") /\ WinnersTrue
<1>1. PICK r \in pending :
        \/ handle_game_room_waiting(r)
        \/ \E problem \in Problems : OpenRound(r, problem)
        \/ handle_game_room_playing(r)
        \/ handle_game_room_showing_total_result(r)
  BY DEF update_game_rooms, handle_game_room_ready, handle_game_room_showing_round_result
<1>2. r \in DOMAIN game_room_table
  BY VisitedIsSound
<1> DEFINE list  == game_room_table[r].member_pk_list
           lobby == Response("OK_REQUEST_LOBBY_UPDATE")
<1>3. CASE out' = Nothing
  <2>1. Unsaid("OK_LEAVE_ROOM") /\ Unsaid("OK_TOTAL_RESULT")
    BY <1>3, OtherAnswer
  <2> QED
    BY <2>1, NoWinnerNamed
<1>4. ASSUME NEW m, m.result # "OK_LEAVE_ROOM",
             m.result = "OK_TOTAL_RESULT" => WinnerNamed(r, m),
             NEW told, told = NotifyMembers(Nothing, connected_user_table, list, m),
             out' = told \/ out' = broadcast_lobby(told, connected_user_table, lobby)
      PROVE  Unsaid("OK_LEAVE_ROOM") /\ WinnersTrue
  <2> DEFINE B == {m, lobby}
  <2>1. lobby.result = "OK_REQUEST_LOBBY_UPDATE"
    BY ResponseCode
  <2>2. /\ m \in B /\ lobby \in B
        /\ \A n \in B : n.result # "OK_LEAVE_ROOM"
        /\ \A n \in B : n.result = "OK_TOTAL_RESULT" => WinnerNamed(r, n)
    BY <1>4, <2>1
  <2> HIDE DEF B, lobby
  <2>3. told \in Sendings(B)
    BY <1>2, <1>4, <2>2, NothingTells, MembersHearIt
  <2>4. IsFiniteSet(DOMAIN connected_user_table)
    BY SessionsAreReachable DEF Reachable
  <2>5. out' \in Sendings(B)
    BY <1>4, <2>2, <2>3, <2>4, OtherBroadcasts
  <2>6. Unsaid("OK_LEAVE_ROOM")
    BY <2>2, <2>5, OtherCodes
  <2>7. WinnersTrue
    BY <2>2, <2>5, TellsOnly, NamedIsBest DEF WinnersTrue
  <2> QED
    BY <2>6, <2>7
<1> QED
  BY <1>1, <1>3, <1>4, PassSends

\* The one who is told that he has left was in a room and is in the lobby.
LeaveIsTrue ==
  \E t \in DOMAIN connected_user_table :
    /\ connected_user_table[t].status = "IN_ROOM"
    /\ connected_user_table'[t].status = "LOBBY"

\* A leaver hears that he has left, everybody else that there is news, and nobody who
\* has won.
LEMMA LeaversHearNoWinner ==
  ASSUME IInv, IInv', NEW w, NEW token, route_leave_room(w, token)
  PROVE  Unsaid("OK_TOTAL_RESULT")
<1>1. CASE InvalidConnection(w, token)
  BY <1>1, ResponseCode, OtherAnswer DEF InvalidConnection
<1>2. CASE Ignored
  BY <1>2, OtherAnswer DEF Ignored
<1>3. CASE token \in DOMAIN connected_user_table /\ ~Ignored
  <2>1. PICK sessions, r :
          /\ sessions = connected_user_table'
          /\ r = connected_user_table[token].pk_room
    OBVIOUS
  <2> DEFINE answer == Response("OK_LEAVE_ROOM")
             lobby  == Response("OK_REQUEST_LOBBY_UPDATE")
             room   == Response("OK_REQUEST_ROOM_MEMBER_UPDATE")
             B      == {answer, lobby, room}
  <2>2. /\ answer \in B /\ lobby \in B /\ room \in B
        /\ \A m \in B : m.result # "OK_TOTAL_RESULT"
    BY ResponseCode
  <2>3. out' = broadcast_room(broadcast_lobby(Send(Nothing, w, answer), sessions, lobby),
                              sessions, r, room)
    BY <1>3, <2>1 DEF route_leave_room, InvalidConnection
  <2> HIDE DEF answer, lobby, room, B
  <2>4. Send(Nothing, w, answer) \in Sendings(B)
    BY <2>2, NothingTells, SendTells
  <2>5. IsFiniteSet(DOMAIN sessions)
    BY <2>1, FinitelyMany
  <2>6. out' \in Sendings(B)
    BY <2>2, <2>3, <2>4, <2>5, OtherBroadcasts
  <2> QED
    BY <2>2, <2>6, OtherCodes
<1> QED
  BY <1>1, <1>2, <1>3 DEF route_leave_room

LEMMA LeaversLeave ==
  ASSUME IInv, NEW w, NEW token, route_leave_room(w, token)
  PROVE  Unsaid("OK_LEAVE_ROOM") \/ LeaveIsTrue
<1>1. CASE InvalidConnection(w, token)
  BY <1>1, ResponseCode, OtherAnswer DEF InvalidConnection
<1>2. CASE Ignored
  BY <1>2, OtherAnswer DEF Ignored
<1>3. CASE token \in DOMAIN connected_user_table /\ ~Ignored
  <2>1. /\ connected_user_table[token].status = "IN_ROOM"
        /\ connected_user_table' =
             [connected_user_table EXCEPT ![token] = NewSession(@.pk, @.mq_id)]
    BY <1>3, LeaveFacts
  <2>2. connected_user_table'[token].status = "LOBBY"
    BY <1>3, <2>1 DEF NewSession
  <2> QED
    BY <1>3, <2>1, <2>2 DEF LeaveIsTrue
<1> QED
  BY <1>1, <1>2, <1>3 DEF route_leave_room

\* All but a pass and the answer to a user who leaves say neither.
LEMMA RequestHearsOther ==
  ASSUME NEW code \in Verdicts, IInv, IInv', NEW w, NEW token, Request(w, token)
  PROVE  Unsaid(code) \/ route_leave_room(w, token)
<1>1. CASE InvalidConnection(w, token) \/ Ignored
  BY <1>1, ResponseCode, OtherAnswer DEF Verdicts, InvalidConnection, Ignored
<1>2. CASE route_sign_out(w, token)
  BY <1>1, <1>2, ResponseCode, OtherAnswer DEF Verdicts, route_sign_out
<1>3. CASE route_check_lobby(w, token)
  <2>1. LobbyState.result # code
    BY DEF LobbyState, Verdicts
  <2> QED
    BY <1>1, <1>3, <2>1, OtherAnswer DEF route_check_lobby
<1>4. CASE route_check_room(w, token)
  <2>1. \A m : (\E a, b : m = [result |-> "OK_STATE_GAME_ROOM", room_id |-> a, user_list |-> b])
                 => m.result # code
    BY DEF Verdicts
  <2> QED
    BY <1>1, <1>4, <2>1, OtherAnswer DEF route_check_room
<1>5. CASE \E line \in Lines : route_chatting(w, token, line)
  BY <1>5, ChattersHearOther
<1>6. CASE route_game_start(w, token)
  BY <1>6, StartersHearOther
<1>7. CASE route_create_room(w, token) \/ \E r \in 1 .. MaxRooms : route_join_room(w, token, r)
  BY <1>7, ComersHearOther
<1> QED
  BY <1>2, <1>3, <1>4, <1>5, <1>6, <1>7 DEF Request

LEMMA StepTellsTheTruth ==
  IInv /\ [Next]_vars =>
    UNCHANGED vars \/ ((Unsaid("OK_LEAVE_ROOM") \/ LeaveIsTrue) /\ WinnersTrue)
<1> DEFINE Truth == (Unsaid("OK_LEAVE_ROOM") \/ LeaveIsTrue) /\ WinnersTrue
<1> SUFFICES ASSUME IInv, [Next]_vars PROVE UNCHANGED vars \/ Truth
  OBVIOUS
<1>1. IInv'
  BY StepIInv
<1>2. ASSUME \A code \in Verdicts : Unsaid(code)
      PROVE  Truth
  BY <1>2, NoWinnerNamed DEF Verdicts
<1>3. CASE Idle
  BY <1>2, <1>3, OtherAnswer DEF Idle
<1>4. ASSUME NEW w \in Workers, Account(w)
      PROVE  Truth
  <2>1. ASSUME NEW id, route_sign_up(w, id), NEW code \in Verdicts
        PROVE  Unsaid(code)
    BY <2>1, ResponseCode, OtherAnswer DEF Verdicts, route_sign_up
  <2> QED
    BY <1>1, <1>2, <1>4, <2>1, ComersHearOther DEF Account
<1>5. ASSUME NEW w \in Workers, NEW token \in Tokens, Request(w, token)
      PROVE  Truth
  <2>1. CASE route_leave_room(w, token)
    BY <1>1, <2>1, LeaversHearNoWinner, LeaversLeave, NoWinnerNamed
  <2>2. CASE ~route_leave_room(w, token)
    BY <1>1, <1>2, <1>5, <2>2, RequestHearsOther
  <2> QED
    BY <2>1, <2>2
<1>6. ASSUME NEW w \in Workers, handle_dead_client_worker(w)
      PROVE  Truth
  BY <1>2, <1>6, OtherAnswer DEF handle_dead_client_worker
<1>7. CASE update_game_rooms
  BY <1>7, PassTellsTheTruth
<1> QED
  BY <1>3, <1>4, <1>5, <1>6, <1>7 DEF Next

\* Whenever any worker is sent OK_LEAVE_ROOM, a session moves from a room to the
\* lobby in the same step: leave_game_room, which answers 0 as well for a user who
\* is not in the list, is never called for one.
THEOREM LeaveAnswersAreTrue == Spec => LeaveAnswerIsTrue
<1>1. \A v \in Workers :
        Contains(out'[v], Response("OK_LEAVE_ROOM")) => ~Unsaid("OK_LEAVE_ROOM")
  BY ResponseCode DEF Unsaid, Contains, Range
<1>2. IInv /\ [Next]_vars =>
        [(\E w \in Workers : Contains(out'[w], Response("OK_LEAVE_ROOM"))) =>
           \E t \in DOMAIN connected_user_table :
             /\ connected_user_table[t].status = "IN_ROOM"
             /\ connected_user_table'[t].status = "LOBBY"]_vars
  BY <1>1, StepTellsTheTruth DEF LeaveIsTrue
<1> QED
  BY <1>2, Invariance, PTL DEF Spec, LeaveAnswerIsTrue

\* Whenever anybody is told who has won, a game ends in that step and the winner is a
\* player of it whom no other player has beaten.
THEOREM WinnersAreTheBest == Spec => TotalResultIsTrue
<1>1. IInv /\ [Next]_vars =>
        [\A w \in Workers : \A m \in Range(out'[w]) :
           m.result = "OK_TOTAL_RESULT" =>
             \E r \in Kept : Ends(r) /\ IsBest(game_room_table[r], m.winner)]_vars
  BY StepTellsTheTruth DEF WinnersTrue
<1> QED
  BY <1>1, Invariance, PTL DEF Spec, TotalResultIsTrue

\* The end of every game does right by its players.
THEOREM EveryGameEndsFairly == Spec => GamesEndFairly
BY PlayersAreThoseWhoEarn, WinnersAreTheBest DEF GamesEndFairly

-----------------------------------------------------------------------------
\* The players follow the game.

PhaseHeard(r) ==
  \A t \in RoomSessions(connected_user_table', r) :
    Announcement(game_room_table'[r]) \subseteq Results(out'[connected_user_table'[t].mq_id])

EveryPhaseHeard ==
  \A r \in Kept : game_room_table'[r].status # game_room_table[r].status => PhaseHeard(r)

\* A step that keeps the phases of the rooms there are has nothing to announce.
LEMMA PhasesStay ==
  ASSUME \A r \in Kept : game_room_table'[r].status = game_room_table[r].status
  PROVE  EveryPhaseHeard
BY DEF EveryPhaseHeard

\* If one room changes, it is enough that its sessions hear of its phase.
LEMMA PhaseOfOneRoom ==
  ASSUME NEW r, NEW room, game_room_table' = [game_room_table EXCEPT ![r] = room],
         r \in DOMAIN game_room_table => room.status = game_room_table[r].status \/ PhaseHeard(r)
  PROVE  EveryPhaseHeard
BY DEF EveryPhaseHeard, Kept

\* A message for every member reaches every session in the room: its user is listed.
LEMMA MembersHear ==
  ASSUME IInv, UNCHANGED connected_user_table, NEW r \in DOMAIN game_room_table,
         NEW B, NEW sent \in Sendings(B), NEW m \in B
  PROVE  LET told == NotifyMembers(sent, connected_user_table,
                                   game_room_table[r].member_pk_list, m)
         IN  /\ told \in Sendings(B)
             /\ \A t \in RoomSessions(connected_user_table', r) :
                  /\ t \in DOMAIN connected_user_table
                  /\ m \in Range(told[connected_user_table'[t].mq_id])
<1> DEFINE list == game_room_table[r].member_pk_list
           told == NotifyMembers(sent, connected_user_table, list, m)
<1>1. list \in Seq(Pks)
  BY DEF IInv, TypeOK, RoomOf
<1>2. PICK P, members, sessions :
        members \in Seq(P) /\ members = list /\ sessions = connected_user_table
  BY <1>1
<1>3. ASSUME NEW t \in RoomSessions(connected_user_table', r)
      PROVE  /\ t \in DOMAIN connected_user_table
             /\ connected_user_table'[t] = connected_user_table[t]
             /\ connected_user_table[t].pk \in Range(list)
             /\ connected_user_table[t].mq_id \in Workers
  <2>1. /\ t \in DOMAIN connected_user_table
        /\ connected_user_table[t].status = "IN_ROOM"
        /\ connected_user_table[t].pk_room = r
    BY <1>3 DEF RoomSessions
  <2>2. connected_user_table[t].mq_id \in Workers
    BY <2>1, SessionsAreReachable DEF Reachable
  <2> QED
    BY <2>1, <2>2, RoomOfSession DEF Players
<1> HIDE DEF list
<1>4. told \in Sendings(B)
  BY <1>2, MembersAreTold
<1>5. ASSUME NEW v \in Workers, NEW t \in DOMAIN sessions,
             sessions[t].pk \in Range(members), sessions[t].mq_id = v
      PROVE  m \in Range(NotifyMembers(sent, sessions, members, m)[v])
  BY <1>2, <1>5, MembersAreTold
<1>6. \A t \in RoomSessions(connected_user_table', r) :
        m \in Range(told[connected_user_table'[t].mq_id])
  BY <1>2, <1>3, <1>5
<1> QED
  BY <1>3, <1>4, <1>6 DEF list

\* What is heard of a message is its code.
LEMMA ResultHeard ==
  ASSUME NEW s, NEW m \in Range(s)
  PROVE  m.result \in Results(s)
BY DEF Results

\* The start of a game is announced to the players.
LEMMA StartIsHeard ==
  ASSUME IInv, NEW w, NEW token, route_game_start(w, token)
  PROVE  EveryPhaseHeard
<1>1. CASE UNCHANGED game_room_table
  BY <1>1, PhasesStay DEF Kept
<1>2. CASE ~UNCHANGED game_room_table
  <2>1. PICK r : r = connected_user_table[token].pk_room
    OBVIOUS
  <2> DEFINE started == Response("OK_START_GAME")
             news    == Response("OK_NOTIFYING_START_GAME")
             B       == {started, news}
             sent    == Send(Nothing, w, started)
  <2>2. /\ r \in DOMAIN game_room_table
        /\ game_room_table' = [game_room_table EXCEPT ![r] = start_game(@)]
        /\ UNCHANGED connected_user_table
        /\ out' = NotifyMembers(sent, connected_user_table,
                                game_room_table[r].member_pk_list, news)
    BY <1>2, <2>1 DEF route_game_start, InvalidConnection, Ignored, Startable, tables
  <2>3. game_room_table'[r].status = "READY"
    <3>1. game_room_table[r] \in RoomOf(Pks, Problems)
      BY <2>2 DEF IInv, TypeOK
    <3> QED
      BY <2>2, <3>1 DEF start_game, RoomOf
  <2>4. Announcement(game_room_table'[r]) = {news.result}
    BY <2>3 DEF Announcement, Response
  <2>5. started \in B /\ news \in B
    OBVIOUS
  <2> HIDE DEF started, news, B
  <2>6. sent \in Sendings(B)
    BY <2>5, NothingTells, SendTells
  <2> HIDE DEF sent
  <2>7. \A t \in RoomSessions(connected_user_table', r) :
          news \in Range(out'[connected_user_table'[t].mq_id])
    BY <2>2, <2>5, <2>6, MembersHear
  <2>8. PhaseHeard(r)
    BY <2>4, <2>7, ResultHeard DEF PhaseHeard
  <2> QED
    BY <2>2, <2>8, PhaseOfOneRoom
<1> QED
  BY <1>1, <1>2

\* What a pass makes of a room is announced to those who play there.
LEMMA PassIsHeard ==
  ASSUME IInv, update_game_rooms
  PROVE  EveryPhaseHeard
<1>1. PICK r \in pending :
        \/ handle_game_room_waiting(r)
        \/ \E problem \in Problems : OpenRound(r, problem)
        \/ handle_game_room_playing(r)
        \/ handle_game_room_showing_total_result(r)
  BY DEF update_game_rooms, handle_game_room_ready, handle_game_room_showing_round_result
<1>2. r \in DOMAIN game_room_table
  BY VisitedIsSound
<1>3. /\ UNCHANGED connected_user_table
      /\ \E room : game_room_table' = [game_room_table EXCEPT ![r] = room]
  BY <1>1 DEF handle_game_room_waiting, OpenRound, handle_game_room_playing,
              handle_game_room_showing_total_result, Visit
<1> DEFINE list  == game_room_table[r].member_pk_list
           lobby == Response("OK_REQUEST_LOBBY_UPDATE")
<1>4. ASSUME NEW m, Announcement(game_room_table'[r]) = {m.result},
             NEW told, told = NotifyMembers(Nothing, connected_user_table, list, m),
             out' = told \/ out' = broadcast_lobby(told, connected_user_table, lobby)
      PROVE  PhaseHeard(r)
  <2> DEFINE B == {m, lobby}
  <2>1. m \in B /\ lobby \in B
    OBVIOUS
  <2> HIDE DEF B, lobby
  <2>2. /\ told \in Sendings(B)
        /\ \A t \in RoomSessions(connected_user_table', r) :
             /\ t \in DOMAIN connected_user_table
             /\ m \in Range(told[connected_user_table'[t].mq_id])
    BY <1>2, <1>3, <1>4, <2>1, NothingTells, MembersHear
  <2>3. /\ IsFiniteSet(DOMAIN connected_user_table)
        /\ \A t \in DOMAIN connected_user_table : connected_user_table[t].mq_id \in Workers
    BY SessionsAreReachable DEF Reachable
  <2>4. \A v \in Workers : Range(told[v]) \subseteq Range(out'[v])
    BY <1>4, <2>1, <2>2, <2>3, BroadcastsReach
  <2>5. \A t \in RoomSessions(connected_user_table', r) :
          m \in Range(out'[connected_user_table'[t].mq_id])
    BY <1>3, <2>2, <2>3, <2>4
  <2> QED
    BY <1>4, <2>5, ResultHeard DEF PhaseHeard
<1>5. game_room_table'[r].status = game_room_table[r].status \/ PhaseHeard(r)
  BY <1>1, <1>4, PassSends
<1>6. PICK room : game_room_table' = [game_room_table EXCEPT ![r] = room]
  BY <1>3
<1>7. game_room_table'[r] = room
  BY <1>2, <1>6
<1> QED
  BY <1>5, <1>6, <1>7, PhaseOfOneRoom

\* Scoring a line, entering and leaving a room keep its phase.
LEMMA PhaseKept ==
  ASSUME NEW P, NEW Q, NEW room \in RoomOf(P, Q), NEW pk, NEW line
  PROVE  /\ Scored(room, pk, line).status = room.status
         /\ join_game_room(room, pk).status = room.status
         /\ leave_game_room(room, pk).status = room.status
BY DEF Scored, join_game_room, leave_game_room, RoomOf

LEMMA RequestKeepsPhases ==
  ASSUME IInv, NEW w, NEW token,
         \/ route_create_room(w, token)
         \/ \E r : route_join_room(w, token, r)
         \/ route_leave_room(w, token)
         \/ \E line : route_chatting(w, token, line)
  PROVE  \A r \in Kept : game_room_table'[r].status = game_room_table[r].status
<1>1. \A r \in DOMAIN game_room_table : game_room_table[r] \in RoomOf(Pks, Problems)
  BY DEF IInv, TypeOK
<1>2. CASE UNCHANGED game_room_table
  BY <1>2 DEF Kept
<1>3. CASE route_create_room(w, token) /\ ~UNCHANGED game_room_table
  <2>1. token \in DOMAIN connected_user_table
    BY <1>3 DEF route_create_room, InvalidConnection, tables
  <2>2. \A s \in DOMAIN game_room_table : game_room_table'[s] = game_room_table[s]
    BY <1>3, <2>1, CreateFacts
  <2> QED
    BY <2>2 DEF Kept
<1>4. ASSUME NEW s, NEW room, NEW pk, NEW line,
             \/ room = Scored(game_room_table[s], pk, line)
             \/ room = join_game_room(game_room_table[s], pk)
             \/ room = leave_game_room(game_room_table[s], pk),
             \/ game_room_table' = [game_room_table EXCEPT ![s] = room]
             \/ game_room_table' = Without(game_room_table, {s})
      PROVE  \A r \in Kept : game_room_table'[r].status = game_room_table[r].status
  <2> SUFFICES ASSUME NEW r \in Kept
               PROVE  game_room_table'[r].status = game_room_table[r].status
    OBVIOUS
  <2>1. s \in DOMAIN game_room_table => room.status = game_room_table[s].status
    BY <1>1, <1>4, PhaseKept
  <2>2. r = s => room.status = game_room_table[s].status
    BY <2>1 DEF Kept
  <2>3. CASE game_room_table' = [game_room_table EXCEPT ![s] = room]
    BY <2>2, <2>3 DEF Kept
  <2>4. CASE game_room_table' = Without(game_room_table, {s})
    BY <2>4 DEF Kept, Without
  <2> QED
    BY <1>4, <2>3, <2>4
<1>5. ASSUME NEW r, route_join_room(w, token, r), ~UNCHANGED game_room_table
      PROVE  \A s \in Kept : game_room_table'[s].status = game_room_table[s].status
  <2>1. game_room_table' = [game_room_table EXCEPT
                              ![r] = join_game_room(game_room_table[r],
                                                    connected_user_table[token].pk)]
    BY <1>5 DEF route_join_room, InvalidConnection, tables
  <2> QED
    BY <1>4, <2>1
<1>6. CASE route_leave_room(w, token) /\ ~UNCHANGED game_room_table
  <2> DEFINE user == connected_user_table[token]
             left == leave_game_room(game_room_table[user.pk_room], user.pk)
  <2>1. \/ game_room_table' = [game_room_table EXCEPT ![user.pk_room] = left]
        \/ game_room_table' = Without(game_room_table, {user.pk_room})
    BY <1>6 DEF route_leave_room, InvalidConnection, Ignored, tables, remove_game_room
  <2> QED
    BY <1>4, <2>1
<1>7. ASSUME NEW line, route_chatting(w, token, line), ~UNCHANGED game_room_table
      PROVE  \A s \in Kept : game_room_table'[s].status = game_room_table[s].status
  <2> DEFINE sender == connected_user_table[token]
  <2>1. game_room_table' = [game_room_table EXCEPT
          ![sender.pk_room] = Scored(game_room_table[sender.pk_room], sender.pk, line)]
    BY <1>7 DEF route_chatting, InvalidConnection, tables
  <2> QED
    BY <1>4, <2>1
<1> QED
  BY <1>2, <1>3, <1>5, <1>6, <1>7

LEMMA StepIsFollowed == IInv /\ [Next]_vars => EveryPhaseHeard
<1> SUFFICES ASSUME IInv, [Next]_vars PROVE EveryPhaseHeard
  OBVIOUS
<1>1. CASE UNCHANGED game_room_table
  BY <1>1, PhasesStay DEF Kept
<1>2. CASE Idle \/ UNCHANGED vars
  BY <1>1, <1>2 DEF Idle, tables, vars
<1>3. ASSUME NEW w \in Workers, Account(w) \/ handle_dead_client_worker(w)
      PROVE  EveryPhaseHeard
  BY <1>1, <1>3 DEF Account, route_sign_up, route_sign_in, handle_dead_client_worker
<1>4. ASSUME NEW w \in Workers, NEW token \in Tokens, Request(w, token)
      PROVE  EveryPhaseHeard
  <2>1. CASE route_sign_out(w, token) \/ route_check_lobby(w, token) \/ route_check_room(w, token)
    BY <1>1, <2>1 DEF route_sign_out, route_check_lobby, route_check_room,
                      InvalidConnection, Ignored, tables
  <2>2. CASE \/ route_create_room(w, token)
             \/ \E r : route_join_room(w, token, r)
             \/ route_leave_room(w, token)
             \/ \E line : route_chatting(w, token, line)
    BY <2>2, RequestKeepsPhases, PhasesStay
  <2>3. CASE route_game_start(w, token)
    BY <2>3, StartIsHeard
  <2> QED
    BY <1>4, <2>1, <2>2, <2>3 DEF Request
<1>5. CASE update_game_rooms
  BY <1>5, PassIsHeard
<1> QED
  BY <1>2, <1>3, <1>4, <1>5 DEF Next

\* Whenever a room changes its phase, everyone whose session is in it is told: the
\* notify_... functions go by the member list, and no session is in a room whose list
\* does not hold its user.
THEOREM PlayersFollowTheGame == Spec => PlayersHearEveryPhase
<1>1. IInv /\ [Next]_vars =>
        [\A r \in Kept :
           game_room_table'[r].status # game_room_table[r].status =>
             \A t \in RoomSessions(connected_user_table', r) :
               Announcement(game_room_table'[r])
                 \subseteq Results(out'[connected_user_table'[t].mq_id])]_vars
  BY StepIsFollowed DEF EveryPhaseHeard, PhaseHeard
<1> QED
  BY <1>1, Invariance, PTL DEF Spec, PlayersHearEveryPhase
-----------------------------------------------------------------------------
\* Clients that keep to the order of a session.

OneSessionPerWorker ==
  \A t, u \in DOMAIN connected_user_table :
    connected_user_table[t].mq_id = connected_user_table[u].mq_id => t = u

\* The users whose sessions are in room r.
SessionsIn(r) == {connected_user_table[t].pk : t \in RoomSessions(connected_user_table, r)}

RoomsMatch ==
  \A r \in DOMAIN game_room_table :
    /\ IsInjective(game_room_table[r].member_pk_list)
    /\ Range(game_room_table[r].member_pk_list) = SessionsIn(r)

\* What holds as long as all clients have kept to the order.
InStep == RoomsMatch /\ OneSessionPerWorker

\* One entry less of somebody who has just one.
LEMMA RemoveOnlyEntry ==
  ASSUME NEW S, NEW s \in Seq(S), NEW e \in Range(s), IsInjective(s)
  PROVE  LET left == RemoveFirst(s, e)
         IN  Range(left) = Range(s) \ {e} /\ IsInjective(left)
<1> DEFINE left == RemoveFirst(s, e)
<1>1. Len(s) \in Nat /\ DOMAIN s = 1 .. Len(s)
  BY PlacesOf
<1>2. PICK k \in 1 .. Len(s) : s[k] = e /\ left = RemoveAt(s, k)
  <2> DEFINE I == {i \in 1 .. Len(s) : s[i] = e}
  <2>1. I \subseteq Nat /\ I # {}
    BY <1>1 DEF Range
  <2>2. Min(I) \in I
    BY <2>1, MinOfNaturals
  <2>3. RemoveFirst(s, e) = RemoveAt(s, Min(I))
    BY <2>1 DEF RemoveFirst, SelectInSeq
  <2> QED
    BY <2>2, <2>3
<1>3. /\ DOMAIN left = 1 .. Len(s) - 1
      /\ \A i \in 1 .. Len(s) - 1 : left[i] = IF i < k THEN s[i] ELSE s[i + 1]
      /\ Range(left) \subseteq Range(s)
      /\ Range(s) \ {e} \subseteq Range(left)
  <2> HIDE DEF left
  <2>1. RemoveAt(s, k) \in Seq(S) /\ Len(RemoveAt(s, k)) = Len(s) - 1
    BY RemoveAtProperties
  <2>2. DOMAIN left = 1 .. Len(s) - 1
    BY <1>2, <2>1, PlacesOf
  <2> QED
    BY <1>2, <2>2, RemoveAtProperties
<1> HIDE DEF left
<1>4. \A i, j \in 1 .. Len(s) : s[i] = s[j] => i = j
  BY <1>1 DEF IsInjective
<1>5. ASSUME NEW i \in 1 .. Len(s) - 1
      PROVE  \E j \in 1 .. Len(s) \ {k} : left[i] = s[j] /\ j = IF i < k THEN i ELSE i + 1
  BY <1>1, <1>3
<1>6. e \notin Range(left)
  BY <1>2, <1>3, <1>4, <1>5 DEF Range
<1>7. ASSUME NEW i \in 1 .. Len(s) - 1, NEW j \in 1 .. Len(s) - 1, left[i] = left[j]
      PROVE  i = j
  <2>1. PICK a \in 1 .. Len(s) \ {k} : left[i] = s[a] /\ a = IF i < k THEN i ELSE i + 1
    BY <1>5
  <2>2. PICK b \in 1 .. Len(s) \ {k} : left[j] = s[b] /\ b = IF j < k THEN j ELSE j + 1
    BY <1>5
  <2>3. a = b
    BY <1>4, <1>7, <2>1, <2>2
  <2> QED
    BY <1>1, <2>1, <2>2, <2>3
<1>8. IsInjective(left)
  BY <1>3, <1>7 DEF IsInjective
<1> QED
  BY <1>3, <1>6, <1>8 DEF left

\* One entry more of somebody who had none.
LEMMA AppendNewEntry ==
  ASSUME NEW S, NEW s \in Seq(S), NEW e \in S, e \notin Range(s), IsInjective(s)
  PROVE  /\ Range(Append(s, e)) = Range(s) \cup {e}
         /\ IsInjective(Append(s, e))
<1> DEFINE n == Len(s) + 1
           a == Append(s, e)
<1>1. DOMAIN s = 1 .. Len(s) /\ Len(s) \in Nat
  BY PlacesOf
<1>2. /\ DOMAIN a = DOMAIN s \cup {n}
      /\ \A i \in DOMAIN s : a[i] = s[i]
      /\ a[n] = e
      /\ n \notin DOMAIN s
  BY <1>1, AppendedPlaces
<1> HIDE DEF a, n
<1>3. Range(a) = Range(s) \cup {e}
  BY <1>2 DEF Range
<1>4. \A i \in DOMAIN s : s[i] # e
  BY DEF Range
<1>5. \A i, j \in DOMAIN a : a[i] = a[j] => i = j
  BY <1>2, <1>4 DEF IsInjective
<1>6. IsInjective(a)
  BY <1>5 DEF IsInjective
<1> QED
  BY <1>3, <1>6 DEF a

\* The entries of pk in a list, counted by Slots.
LEMMA MoreSlots ==
  ASSUME NEW S, NEW room, room.member_pk_list \in Seq(S),
         NEW more, NEW pk \in S, more.member_pk_list = Append(room.member_pk_list, pk)
  PROVE  Slots(room, pk) \in Nat /\ Slots(more, pk) = Slots(room, pk) + 1
<1> DEFINE s == room.member_pk_list
           n == Len(s) + 1
           a == Append(s, pk)
           I == {i \in DOMAIN s : s[i] = pk}
           J == {i \in DOMAIN a : a[i] = pk}
<1>1. DOMAIN s = 1 .. Len(s) /\ Len(s) \in Nat
  BY PlacesOf
<1>2. /\ DOMAIN a = DOMAIN s \cup {n}
      /\ \A i \in DOMAIN s : a[i] = s[i]
      /\ a[n] = pk
      /\ n \notin DOMAIN s
  BY <1>1, AppendedPlaces
<1>3. IsFiniteSet(I)
  <2>1. IsFiniteSet(1 .. Len(s))
    BY <1>1, FS_Interval
  <2> QED
    BY <1>1, <2>1, FS_Subset
<1>4. Slots(room, pk) = Cardinality(I) /\ Slots(more, pk) = Cardinality(J)
  BY DEF Slots
<1> HIDE DEF a, n, s
<1>5. J = I \cup {n} /\ n \notin I
  BY <1>2
<1> HIDE DEF I, J
<1>6. Cardinality(I) \in Nat /\ Cardinality(J) = Cardinality(I) + 1
  BY <1>3, <1>5, FS_AddElement, FS_CardinalityType
<1> QED
  BY <1>4, <1>6

\* The creator's only entry.
LEMMA FirstSlot ==
  ASSUME NEW room, NEW pk, room.member_pk_list = <<pk>>
  PROVE  Slots(room, pk) = 1
<1> DEFINE s == <<pk>>
<1>1. DOMAIN s = {1} /\ s[1] = pk
  OBVIOUS
<1>2. {i \in DOMAIN s : s[i] = pk} = {1}
  BY <1>1
<1>3. Cardinality({1}) = 1
  BY FS_Singleton
<1> QED
  BY <1>2, <1>3 DEF Slots

\* Sessions that come and go without touching those in rooms.
LEMMA RoomSessionsStay ==
  ASSUME ListsStay, RoomsMatch,
         \A t \in DOMAIN connected_user_table :
           connected_user_table[t].status = "IN_ROOM" =>
             t \in DOMAIN connected_user_table' /\ connected_user_table'[t] = connected_user_table[t],
         \A t \in DOMAIN connected_user_table' :
           connected_user_table'[t].status = "IN_ROOM" =>
             t \in DOMAIN connected_user_table /\ connected_user_table'[t] = connected_user_table[t]
  PROVE  RoomsMatch'
<1>1. \A r : SessionsIn(r)' = SessionsIn(r)
  BY DEF SessionsIn, RoomSessions
<1> QED
  BY <1>1 DEF ListsStay, RoomsMatch
\* In step, nobody who is in a room creates or joins another: his entries would
\* become more.
LEMMA ComersAreInTheLobby ==
  ASSUME IInv, Polite, NEW w, NEW token \in DOMAIN connected_user_table,
         \/ route_create_room(w, token)
         \/ \E r : route_join_room(w, token, r) /\ ~UNCHANGED tables
  PROVE  connected_user_table[token].status # "IN_ROOM"
<1> SUFFICES ASSUME connected_user_table[token].status = "IN_ROOM" PROVE FALSE
  OBVIOUS
<1> DEFINE pk == connected_user_table[token].pk
           Before(r) == IF r \in DOMAIN game_room_table THEN Slots(game_room_table[r], pk) ELSE 0
<1>1. \A r \in DOMAIN game_room_table' : Slots(game_room_table'[r], pk) <= Before(r)
  BY DEF Polite
<1>2. CASE route_create_room(w, token)
  <2>1. PICK r : r = next_pk_room
    OBVIOUS
  <2>2. /\ r \notin DOMAIN game_room_table /\ r \in DOMAIN game_room_table'
        /\ game_room_table'[r].member_pk_list = <<pk>>
    BY <1>2, <2>1, CreateFacts
  <2>3. Slots(game_room_table'[r], pk) = 1
    BY <2>2, FirstSlot
  <2> QED
    BY <1>1, <2>2, <2>3
<1>3. ASSUME NEW r, route_join_room(w, token, r), ~UNCHANGED tables
      PROVE  FALSE
  <2>1. /\ r \in DOMAIN game_room_table /\ r \in DOMAIN game_room_table'
        /\ game_room_table[r].member_pk_list \in Seq(Pks) /\ pk \in Pks
        /\ game_room_table'[r].member_pk_list = Append(game_room_table[r].member_pk_list, pk)
    BY <1>3, JoinFacts
  <2>2. /\ Slots(game_room_table[r], pk) \in Nat
        /\ Slots(game_room_table'[r], pk) = Slots(game_room_table[r], pk) + 1
    <3> HIDE DEF pk
    <3> QED
      BY <2>1, MoreSlots
  <2> QED
    BY <1>1, <2>1, <2>2
<1> QED
  BY <1>2, <1>3

\* Who enters a room from the lobby joins those whose sessions are in it.
LEMMA EntersFromLobby ==
  ASSUME NEW token \in DOMAIN connected_user_table, NEW r,
         connected_user_table[token].status # "IN_ROOM",
         connected_user_table[token] \in Session,
         connected_user_table' = [connected_user_table EXCEPT ![token] = InRoom(@, r)]
  PROVE  /\ SessionsIn(r)' = SessionsIn(r) \cup {connected_user_table[token].pk}
         /\ \A s : s # r => SessionsIn(s)' = SessionsIn(s)
<1> DEFINE old == connected_user_table[token]
<1>1. /\ DOMAIN connected_user_table' = DOMAIN connected_user_table
      /\ connected_user_table'[token] = InRoom(old, r)
      /\ \A t \in DOMAIN connected_user_table \ {token} :
           connected_user_table'[t] = connected_user_table[t]
  OBVIOUS
<1>2. /\ InRoom(old, r).status = "IN_ROOM" /\ InRoom(old, r).pk_room = r
      /\ InRoom(old, r).pk = old.pk
  BY DEF InRoom, Session
<1>3. RoomSessions(connected_user_table', r) = RoomSessions(connected_user_table, r) \cup {token}
  BY <1>1, <1>2 DEF RoomSessions
<1>4. \A s : s # r => RoomSessions(connected_user_table', s) = RoomSessions(connected_user_table, s)
  BY <1>1, <1>2 DEF RoomSessions
<1>5. \A t \in DOMAIN connected_user_table : connected_user_table'[t].pk = connected_user_table[t].pk
  BY <1>1, <1>2
<1>6. \A s : RoomSessions(connected_user_table, s) \subseteq DOMAIN connected_user_table
  BY DEF RoomSessions
<1> HIDE DEF old
<1>7. SessionsIn(r)' = SessionsIn(r) \cup {connected_user_table[token].pk}
  <2>1. PICK T, new, pks :
          /\ T = RoomSessions(connected_user_table, r)
          /\ new = RoomSessions(connected_user_table', r)
          /\ pks = [t \in DOMAIN connected_user_table |-> connected_user_table[t].pk]
    OBVIOUS
  <2>2. SessionsIn(r) = {pks[t] : t \in T}
    BY <1>6, <2>1 DEF SessionsIn
  <2>3. new = T \cup {token}
    BY <1>3, <2>1
  <2>4. \A t \in new : connected_user_table'[t].pk = pks[t]
    BY <1>5, <1>6, <2>1, <2>3
  <2>5. SessionsIn(r)' = {connected_user_table'[t].pk : t \in new}
    BY <2>1 DEF SessionsIn
  <2>6. pks[token] = connected_user_table[token].pk
    BY <2>1
  <2> QED
    BY <2>2, <2>3, <2>4, <2>5, <2>6
<1>8. ASSUME NEW s, s # r
      PROVE  SessionsIn(s)' = SessionsIn(s)
  BY <1>4, <1>5, <1>6, <1>8 DEF SessionsIn
<1> QED
  BY <1>7, <1>8

\* Who leaves his room is missed there and nowhere else.
LEMMA LeavesToLobby ==
  ASSUME OneSessionPerAccount, NEW token \in DOMAIN connected_user_table, NEW r,
         connected_user_table[token].status = "IN_ROOM",
         connected_user_table[token].pk_room = r,
         connected_user_table' =
           [connected_user_table EXCEPT ![token] = NewSession(@.pk, @.mq_id)]
  PROVE  /\ SessionsIn(r)' = SessionsIn(r) \ {connected_user_table[token].pk}
         /\ \A s : s # r => SessionsIn(s)' = SessionsIn(s)
<1> DEFINE old == connected_user_table[token]
<1>1. /\ DOMAIN connected_user_table' = DOMAIN connected_user_table
      /\ connected_user_table'[token] = NewSession(old.pk, old.mq_id)
      /\ \A t \in DOMAIN connected_user_table \ {token} :
           connected_user_table'[t] = connected_user_table[t]
  OBVIOUS
<1>2. NewSession(old.pk, old.mq_id).status = "LOBBY"
  BY DEF NewSession
<1>3. RoomSessions(connected_user_table', r) = RoomSessions(connected_user_table, r) \ {token}
  BY <1>1, <1>2 DEF RoomSessions
<1>4. \A s : s # r => RoomSessions(connected_user_table', s) = RoomSessions(connected_user_table, s)
  BY <1>1, <1>2 DEF RoomSessions
<1>5. \A t \in DOMAIN connected_user_table \ {token} :
        /\ connected_user_table'[t].pk = connected_user_table[t].pk
        /\ connected_user_table[t].pk # connected_user_table[token].pk
  BY <1>1 DEF OneSessionPerAccount
<1>6. \A s : /\ RoomSessions(connected_user_table, s) \subseteq DOMAIN connected_user_table
             /\ s # r => token \notin RoomSessions(connected_user_table, s)
  BY DEF RoomSessions
<1> HIDE DEF old
<1>7. SessionsIn(r)' = SessionsIn(r) \ {connected_user_table[token].pk}
  <2>1. PICK T, new, pks :
          /\ T = RoomSessions(connected_user_table, r)
          /\ new = RoomSessions(connected_user_table', r)
          /\ pks = [t \in DOMAIN connected_user_table |-> connected_user_table[t].pk]
    OBVIOUS
  <2>2. SessionsIn(r) = {pks[t] : t \in T}
    BY <1>6, <2>1 DEF SessionsIn
  <2>3. SessionsIn(r)' = {pks[t] : t \in new}
    BY <1>3, <1>5, <1>6, <2>1 DEF SessionsIn
  <2>4. new = T \ {token} /\ token \in T
    BY <1>3, <2>1 DEF RoomSessions
  <2>5. /\ pks[token] = connected_user_table[token].pk
        /\ \A t \in T \ {token} : pks[t] # pks[token]
    BY <1>5, <1>6, <2>1
  <2> QED
    BY <2>2, <2>3, <2>4, <2>5
<1>8. ASSUME NEW s, s # r
      PROVE  SessionsIn(s)' = SessionsIn(s)
  BY <1>4, <1>5, <1>6, <1>8 DEF SessionsIn
<1> QED
  BY <1>7, <1>8

\* Nobody is in a room that does not exist.
LEMMA NobodyInNoRoom ==
  ASSUME IInv, NEW r, r \notin DOMAIN game_room_table
  PROVE  SessionsIn(r) = {}
BY DEF IInv, InRoomIsListed, SessionsIn, RoomSessions

LEMMA CreateInStep ==
  ASSUME IInv, RoomsMatch, Polite, NEW w, NEW token \in DOMAIN connected_user_table,
         route_create_room(w, token)
  PROVE  RoomsMatch'
<1>1. PICK r : r = next_pk_room
  OBVIOUS
<1> DEFINE pk == connected_user_table[token].pk
<1>2. /\ r \notin DOMAIN game_room_table
      /\ DOMAIN game_room_table' = DOMAIN game_room_table \cup {r}
      /\ \A s \in DOMAIN game_room_table : game_room_table'[s] = game_room_table[s]
      /\ game_room_table'[r].member_pk_list = <<pk>>
      /\ connected_user_table' = [connected_user_table EXCEPT ![token] = InRoom(@, r)]
  BY <1>1, CreateFacts
<1>3. connected_user_table[token].status # "IN_ROOM"
  BY ComersAreInTheLobby
<1>4. connected_user_table[token] \in Session
  BY DEF IInv, TypeOK
<1>5. /\ SessionsIn(r)' = SessionsIn(r) \cup {pk}
      /\ \A s : s # r => SessionsIn(s)' = SessionsIn(s)
  BY <1>2, <1>3, <1>4, EntersFromLobby
<1>6. SessionsIn(r)' = {pk}
  BY <1>2, <1>5, NobodyInNoRoom
<1>7. Range(<<pk>>) = {pk} /\ IsInjective(<<pk>>)
  BY DEF Range, IsInjective
<1>8. ASSUME NEW s \in DOMAIN game_room_table'
      PROVE  /\ IsInjective(game_room_table'[s].member_pk_list)
             /\ Range(game_room_table'[s].member_pk_list) = SessionsIn(s)'
  <2>1. CASE s = r
    BY <1>2, <1>6, <1>7, <2>1
  <2>2. CASE s # r
    BY <1>2, <1>5, <2>2 DEF RoomsMatch
  <2> QED
    BY <2>1, <2>2
<1> QED
  BY <1>8 DEF RoomsMatch

LEMMA JoinInStep ==
  ASSUME IInv, RoomsMatch, Polite, NEW w, NEW token \in DOMAIN connected_user_table, NEW r,
         route_join_room(w, token, r), ~UNCHANGED tables
  PROVE  RoomsMatch'
<1> DEFINE pk   == connected_user_table[token].pk
           list == game_room_table[r].member_pk_list
<1>1. /\ r \in DOMAIN game_room_table
      /\ DOMAIN game_room_table' = DOMAIN game_room_table
      /\ \A s \in DOMAIN game_room_table \ {r} : game_room_table'[s] = game_room_table[s]
      /\ list \in Seq(Pks) /\ pk \in Pks
      /\ game_room_table'[r].member_pk_list = Append(list, pk)
  BY JoinFacts
<1>2. connected_user_table' = [connected_user_table EXCEPT ![token] = InRoom(@, r)]
  BY DEF route_join_room, InvalidConnection, tables
<1>3. connected_user_table[token].status # "IN_ROOM"
  BY ComersAreInTheLobby
<1>4. connected_user_table[token] \in Session
  BY DEF IInv, TypeOK
<1>5. /\ SessionsIn(r)' = SessionsIn(r) \cup {pk}
      /\ \A s : s # r => SessionsIn(s)' = SessionsIn(s)
  BY <1>2, <1>3, <1>4, EntersFromLobby
<1>6. IsInjective(list) /\ Range(list) = SessionsIn(r)
  BY <1>1 DEF RoomsMatch
<1>7. pk \notin SessionsIn(r)
  BY <1>3 DEF SessionsIn, RoomSessions, IInv, OneSessionPerAccount
<1>8. /\ Range(Append(list, pk)) = Range(list) \cup {pk}
      /\ IsInjective(Append(list, pk))
  <2> HIDE DEF list, pk
  <2> QED
    BY <1>1, <1>6, <1>7, AppendNewEntry
<1>9. ASSUME NEW s \in DOMAIN game_room_table'
      PROVE  /\ IsInjective(game_room_table'[s].member_pk_list)
             /\ Range(game_room_table'[s].member_pk_list) = SessionsIn(s)'
  <2>1. CASE s = r
    BY <1>1, <1>5, <1>6, <1>8, <2>1
  <2>2. CASE s # r
    BY <1>1, <1>5, <2>2 DEF RoomsMatch
  <2> QED
    BY <2>1, <2>2
<1> QED
  BY <1>9 DEF RoomsMatch

LEMMA LeaveInStep ==
  ASSUME IInv, RoomsMatch, NEW w, NEW token \in DOMAIN connected_user_table,
         route_leave_room(w, token), ~Ignored
  PROVE  RoomsMatch'
<1> DEFINE user == connected_user_table[token]
           list == game_room_table[user.pk_room].member_pk_list
           left == RemoveFirst(list, user.pk)
<1>1. /\ user.status = "IN_ROOM"
      /\ user.pk_room \in DOMAIN game_room_table
      /\ list \in Seq(Pks) /\ user.pk \in Range(list)
      /\ \A s \in DOMAIN game_room_table \ {user.pk_room} :
           s \in DOMAIN game_room_table' /\ game_room_table'[s] = game_room_table[s]
      /\ DOMAIN game_room_table' \subseteq DOMAIN game_room_table
      /\ user.pk_room \in DOMAIN game_room_table' =>
           game_room_table'[user.pk_room].member_pk_list = left
      /\ connected_user_table' =
           [connected_user_table EXCEPT ![token] = NewSession(@.pk, @.mq_id)]
  BY LeaveFacts
<1>2. PICK r : r = user.pk_room
  OBVIOUS
<1>3. /\ SessionsIn(r)' = SessionsIn(r) \ {user.pk}
      /\ \A s : s # r => SessionsIn(s)' = SessionsIn(s)
  BY <1>1, <1>2, LeavesToLobby DEF IInv
<1>4. IsInjective(list) /\ Range(list) = SessionsIn(r)
  BY <1>1, <1>2 DEF RoomsMatch
<1>5. Range(left) = Range(list) \ {user.pk} /\ IsInjective(left)
  <2>1. PICK s, e : s = list /\ e = user.pk
    OBVIOUS
  <2>2. s \in Seq(Pks) /\ e \in Range(s) /\ IsInjective(s)
    BY <1>1, <1>4, <2>1
  <2>3. Range(RemoveFirst(s, e)) = Range(s) \ {e} /\ IsInjective(RemoveFirst(s, e))
    BY <2>2, RemoveOnlyEntry
  <2> QED
    BY <2>1, <2>3
<1>6. ASSUME NEW s \in DOMAIN game_room_table'
      PROVE  /\ IsInjective(game_room_table'[s].member_pk_list)
             /\ Range(game_room_table'[s].member_pk_list) = SessionsIn(s)'
  <2>1. CASE s = r
    BY <1>1, <1>2, <1>3, <1>4, <1>5, <2>1
  <2>2. CASE s # r
    BY <1>1, <1>2, <1>3, <2>2 DEF RoomsMatch
  <2> QED
    BY <2>1, <2>2
<1> QED
  BY <1>6 DEF RoomsMatch

\* Signing in and out and the end of a worker: those in rooms stay, or the client
\* has not kept to the order.
LEMMA SessionStepInStep ==
  ASSUME IInv, RoomsMatch, Polite, NEW w \in Workers, SessionStep(w)
  PROVE  RoomsMatch'
<1>1. ListsStay
  BY DEF SessionStep, route_sign_in, route_sign_out, InvalidConnection, tables,
         handle_dead_client_worker, ListsStay
<1>2. \A t \in DOMAIN connected_user_table :
        connected_user_table[t].status = "IN_ROOM" => t \in DOMAIN connected_user_table'
  BY DEF Polite
<1>3. \/ UNCHANGED connected_user_table
      \/ \E S : connected_user_table' = Without(connected_user_table, S)
      \/ \E S, pk : connected_user_table' = With(Without(connected_user_table, S),
                                                 connected, NewSession(pk, w))
  BY DEF SessionStep, route_sign_in, route_sign_out, InvalidConnection, tables,
         handle_dead_client_worker
<1>4. connected \notin DOMAIN connected_user_table
  BY DEF IInv, TypeOK
<1>5. \A pk : NewSession(pk, w).status # "IN_ROOM"
  BY DEF NewSession
<1>6. /\ \A t \in DOMAIN connected_user_table :
           t \in DOMAIN connected_user_table' =>
             connected_user_table'[t] = connected_user_table[t]
      /\ \A t \in DOMAIN connected_user_table' :
           connected_user_table'[t].status = "IN_ROOM" => t \in DOMAIN connected_user_table
  <2>1. CASE UNCHANGED connected_user_table
    BY <2>1
  <2>2. ASSUME NEW S, connected_user_table' = Without(connected_user_table, S)
        PROVE  <1>6!1 /\ <1>6!2
    BY <2>2 DEF Without
  <2>3. ASSUME NEW S, NEW pk,
               connected_user_table' = With(Without(connected_user_table, S),
                                            connected, NewSession(pk, w))
        PROVE  <1>6!1 /\ <1>6!2
    BY <1>4, <1>5, <2>3 DEF Without, With
  <2> QED
    BY <1>3, <2>1, <2>2, <2>3
<1> QED
  BY <1>1, <1>2, <1>6, RoomSessionsStay

LEMMA StepInStep ==
  ASSUME IInv, [Next]_vars, InStep, Polite
  PROVE  InStep'
<1>1. OneSessionPerWorker'
  BY DEF Polite, OneSessionPerWorker
<1>2. CASE AtRest
  BY <1>2 DEF AtRest, ListsStay, InStep, RoomsMatch, SessionsIn, RoomSessions, OneSessionPerWorker
<1>3. ASSUME NEW w \in Workers, SessionStep(w)
      PROVE  RoomsMatch'
  BY <1>3, SessionStepInStep DEF InStep
<1>4. ASSUME NEW w \in Workers, RoomStep(w)
      PROVE  AtRest \/ RoomsMatch'
  <2>1. ASSUME NEW token, InvalidConnection(w, token)
        PROVE  AtRest
    BY <2>1 DEF InvalidConnection, tables, AtRest, ListsStay
  <2>2. ASSUME NEW token \in Tokens, route_create_room(w, token), ~InvalidConnection(w, token)
        PROVE  RoomsMatch'
    <3>1. token \in DOMAIN connected_user_table
      BY <2>2 DEF route_create_room
    <3> QED
      BY <2>2, <3>1, CreateInStep DEF InStep
  <2>3. ASSUME NEW token \in Tokens, NEW r, route_join_room(w, token, r)
        PROVE  AtRest \/ RoomsMatch'
    <3>1. CASE UNCHANGED tables
      BY <3>1 DEF tables, AtRest, ListsStay
    <3>2. CASE ~UNCHANGED tables
      <4>1. token \in DOMAIN connected_user_table
        BY <2>3, <3>2 DEF route_join_room, InvalidConnection
      <4> QED
        BY <2>3, <3>2, <4>1, JoinInStep DEF InStep
    <3> QED
      BY <3>1, <3>2
  <2>4. ASSUME NEW token \in Tokens, route_leave_room(w, token), ~InvalidConnection(w, token)
        PROVE  AtRest \/ RoomsMatch'
    <3>1. CASE Ignored
      BY <3>1 DEF Ignored, tables, AtRest, ListsStay
    <3>2. CASE ~Ignored
      <4>1. token \in DOMAIN connected_user_table
        BY <2>4 DEF route_leave_room
      <4> QED
        BY <2>4, <3>2, <4>1, LeaveInStep DEF InStep
    <3> QED
      BY <3>1, <3>2
  <2> QED
    BY <1>4, <2>1, <2>2, <2>3, <2>4 DEF RoomStep
<1> QED
  BY <1>1, <1>2, <1>3, <1>4, StepKinds DEF InStep

\* The inductive invariant of the watched server, on top of IInv.
PoliteInv == polite => InStep

LEMMA PoliteInvInductive ==
  /\ WatchedInit => PoliteInv
  /\ IInv /\ PoliteInv /\ [WatchedNext]_<<vars, polite>> => PoliteInv'
<1>1. ASSUME WatchedInit
      PROVE  PoliteInv
  <2>1. DOMAIN connected_user_table = {} /\ DOMAIN game_room_table = {}
    BY <1>1 DEF WatchedInit, Init
  <2> QED
    BY <2>1 DEF PoliteInv, InStep, RoomsMatch, OneSessionPerWorker
<1>2. ASSUME IInv, PoliteInv, WatchedNext
      PROVE  PoliteInv'
  <2> SUFFICES ASSUME polite' PROVE InStep'
    BY DEF PoliteInv
  <2>1. polite /\ Polite
    BY <1>2, Zenon DEF WatchedNext
  <2> QED
    BY <1>2, <2>1, StepInStep DEF WatchedNext, PoliteInv
<1>3. ASSUME PoliteInv, UNCHANGED <<vars, polite>>
      PROVE  PoliteInv'
  BY <1>3 DEF vars, PoliteInv, InStep, RoomsMatch, SessionsIn, RoomSessions, OneSessionPerWorker
<1> QED
  BY <1>1, <1>2, <1>3

\* In step, the only session of a worker is the one that its last message takes away.
LEMMA LastMessageForgets ==
  ASSUME IInv, InStep, NEW w \in Workers, handle_dead_client_worker(w)
  PROVE  \A t \in DOMAIN connected_user_table' : connected_user_table'[t].mq_id # w
<1>1. CASE CarriedBy(w) = {} /\ UNCHANGED connected_user_table
  BY <1>1 DEF CarriedBy
<1>2. ASSUME NEW t \in CarriedBy(w), connected_user_table' = Without(connected_user_table, {t})
      PROVE  \A u \in DOMAIN connected_user_table' : connected_user_table'[u].mq_id # w
  BY <1>2 DEF CarriedBy, Without, InStep, OneSessionPerWorker
<1> QED
  BY <1>1, <1>2 DEF handle_dead_client_worker

\* As long as all clients keep to the order of a session, the member list of every
\* room names exactly the users whose sessions are in it, each once, after every
\* handler; and the last message of a worker leaves no session of his behind.
THEOREM PoliteClientsLeaveNoTrace == WatchedSpec => PoliteClientsLeaveNothing
<1>1. WatchedSpec => Spec
  <2>1. WatchedInit => Init
    BY DEF WatchedInit
  <2>2. [WatchedNext]_<<vars, polite>> => [Next]_vars
    BY DEF WatchedNext
  <2> QED
    BY <2>1, <2>2, PTL DEF WatchedSpec, Spec
<1>2. PoliteInv => ListsMatchSessions
  BY DEF PoliteInv, InStep, RoomsMatch, SessionsIn, ListsMatchSessions
<1>3. /\ IInv /\ PoliteInv /\ [WatchedNext]_<<vars, polite>>
      => [\A w \in Workers :
            (polite' /\ handle_dead_client_worker(w)) =>
              \A t \in DOMAIN connected_user_table' : connected_user_table'[t].mq_id # w]_vars
  <2> SUFFICES ASSUME IInv, PoliteInv, WatchedNext, polite',
                      NEW w \in Workers, handle_dead_client_worker(w)
               PROVE  \A t \in DOMAIN connected_user_table' : connected_user_table'[t].mq_id # w
    OBVIOUS
  <2>1. InStep
    BY Zenon DEF WatchedNext, PoliteInv
  <2> QED
    BY <2>1, LastMessageForgets
<1> QED
  BY <1>1, <1>2, <1>3, PoliteInvInductive, Invariance, PTL
     DEF WatchedSpec, PoliteClientsLeaveNothing, DeadWorkerIsForgotten
=============================================================================
