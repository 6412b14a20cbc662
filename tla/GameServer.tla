----------------------------- MODULE GameServer -----------------------------
(***************************************************************************)
(* The main process: the tables of data_structure.h, the loop of main(),   *)
(* one action per message handler (route_..., handle_dead_client_worker)   *)
(* and one per room handler of update_game_rooms.                          *)
(*                                                                         *)
(* A turn of the loop takes at most one message and then visits every room *)
(* with the time that has passed.  pending holds the rooms still to be     *)
(* visited in this turn and elapsed that time; a handler runs only between *)
(* two passes.  out is what the last step sent.                            *)
(***************************************************************************)
EXTENDS GameRoom, Delivery

CONSTANTS
  Ids,          \* user ids
  Members,      \* ids of the users load_user_data finds in Member.txt, in order
  Problems,     \* the sentences of problems.txt
  Chatter,      \* lines that are no sentence of problems.txt
  Dts,          \* bound: lengths of a turn of the loop, in timer units
  MaxTokens,    \* bound: sign-in attempts
  MaxRooms,     \* bound: rooms ever created
  MaxExp        \* bound: nobody starts a game once a user has this much exp

GAME_EXP == 500 \* what a finished game is worth, game.c:122

ASSUME ServerAssumption ==
  /\ Members \in Seq(Ids)
  /\ Dts \subseteq Nat \ {0}
  /\ MaxTokens \in Nat /\ MaxRooms \in Nat /\ MaxExp \in Nat

VARIABLES
  user_table,            \* accounts; the pk of a user is his position
  connected,             \* static counter of route_sign_in: the next token
  connected_user_table,  \* token -> struct connected_user
  game_room_table,       \* pk_room -> struct game_room
  next_pk_room,
  pending,               \* rooms update_game_rooms still has to visit
  elapsed,               \* the dt of this pass, 0 outside a pass
  out                    \* worker -> messages sent to it by the last step

tables == <<user_table, connected, connected_user_table, game_room_table,
            next_pk_room>>
vars   == <<user_table, connected, connected_user_table, game_room_table,
            next_pk_room, pending, elapsed, out>>

Lines  == Problems \cup Chatter
Tokens == 0 .. MaxTokens - 1           \* "user0", "user1", ...

-----------------------------------------------------------------------------
\* Lookups of user.c.

\* find_user_data, the password of the request being the stored one
AccountsOf(id) == {pk \in DOMAIN user_table : user_table[pk].id = id}

\* Not the code: a look-up that passes over the sessions in rooms.
WrongSessionsOf(pk) ==
  {t \in LobbySessions(connected_user_table) : connected_user_table[t].pk = pk}

\* find_connected_user_by_pk
SessionsOf(pk) ==
  {t \in DOMAIN connected_user_table : connected_user_table[t].pk = pk}

\* Not the code: a look-up that passes over the sessions in the lobby.
WrongCarriedBy(w) ==
  {t \in DOMAIN connected_user_table : /\ connected_user_table[t].mq_id = w
                                       /\ connected_user_table[t].status = "IN_ROOM"}

\* The sessions that came through worker w.
CarriedBy(w) ==
  {t \in DOMAIN connected_user_table : connected_user_table[t].mq_id = w}

\* kh_del
Without(f, S) == [x \in DOMAIN f \ S |-> f[x]]

\* kh_put
With(f, k, v) == [x \in DOMAIN f \cup {k} |-> IF x = k THEN v ELSE f[x]]

\* fill_connected_user
NewSession(pk, w) == [pk |-> pk, mq_id |-> w, status |-> "LOBBY", pk_room |-> 0]

\* What join_game_room writes to the connected user.
InRoom(session, pk_room) ==
  [session EXCEPT !.status = "IN_ROOM", !.pk_room = pk_room]

Init ==
  /\ user_table = [i \in DOMAIN Members |-> [id |-> Members[i], exp |-> 0]]
  /\ connected = 0
  /\ connected_user_table = <<>>
  /\ game_room_table = <<>>
  /\ next_pk_room = 1
  /\ pending = {}
  /\ elapsed = 0
  /\ out = Nothing

-----------------------------------------------------------------------------
\* The loop of main().

AtReceive == pending = {}              \* the loop is at msgrcv

\* The rest of a turn after a message: update_game_rooms starts its pass.  In a
\* turn too short to be measured (diff = 0) the pass changes no room.
StartPass ==
  \/ /\ pending' = {}
     /\ elapsed' = 0
  \/ /\ pending' = DOMAIN game_room_table'
     /\ elapsed' \in IF pending' = {} THEN {0} ELSE Dts

\* The queue holds no message for the main server, or one whose target no case
\* of the switch names.
Idle ==
  /\ AtReceive
  /\ out' = Nothing
  /\ UNCHANGED tables
  /\ StartPass

\* "continue": the turn ends without a pass.
SkipPass == UNCHANGED <<pending, elapsed>>

\* A token without a session: the early return of every handler that takes one.
InvalidConnection(w, token) ==
  /\ token \notin DOMAIN connected_user_table
  /\ out' = Send(Nothing, w, Response("ERROR_INVALID_CONNECTION"))
  /\ UNCHANGED tables

\* A request that is dropped without an answer.
Ignored ==
  /\ out' = Nothing
  /\ UNCHANGED tables

-----------------------------------------------------------------------------
\* Accounts and sessions.

route_sign_up(w, id) ==
  /\ AtReceive
  /\ \/ /\ AccountsOf(id) # {}
        /\ out' = Send(Nothing, w, Response("ERROR_EXIST_ID"))
        /\ UNCHANGED user_table
     \/ /\ AccountsOf(id) = {}
        /\ user_table' = Append(user_table, [id |-> id, exp |-> 0])
        /\ out' = Send(Nothing, w, Response("OK_SIGN_UP"))
  /\ UNCHANGED <<connected, connected_user_table, game_room_table, next_pk_room>>
  /\ StartPass

\* right: the password of the request is the one of the account.  A token is
\* used up whether the sign-in succeeds or not.  A user who is connected
\* already loses that session, and only that: rooms are not looked at.
route_sign_in(w, id, right) ==
  /\ AtReceive
  /\ connected < MaxTokens
  /\ connected' = connected + 1
  /\ \/ /\ AccountsOf(id) = {} \/ ~right
        /\ out' = Send(Nothing, w, Response("ERROR_INVALID_AUTH"))
        /\ UNCHANGED connected_user_table
     \/ /\ right
        /\ \E pk \in AccountsOf(id) :
             connected_user_table' = With(Without(connected_user_table, SessionsOf(pk)),
                                          connected, NewSession(pk, w))
        /\ out' = broadcast_lobby(
                    Send(Nothing, w, [result |-> "OK_SIGN_IN", access_token |-> connected]),
                    connected_user_table', Response("OK_REQUEST_LOBBY_UPDATE"))
  /\ UNCHANGED <<user_table, game_room_table, next_pk_room>>
  /\ StartPass

\* The session goes; the rooms that list its user are not looked at.
route_sign_out(w, token) ==
  /\ AtReceive
  /\ \/ InvalidConnection(w, token)
     \/ /\ token \in DOMAIN connected_user_table
        /\ connected_user_table' = Without(connected_user_table, {token})
        /\ out' = Send(Nothing, w, Response("OK_REQUEST_LOBBY_UPDATE"))
        /\ UNCHANGED <<user_table, connected, game_room_table, next_pk_room>>
  /\ StartPass

\* The last message of a worker that gave up on its client.  The loop over the
\* table stops at the first session of that worker, whichever that is.
handle_dead_client_worker(w) ==
  /\ AtReceive
  /\ \/ /\ CarriedBy(w) = {}
        /\ UNCHANGED connected_user_table
     \/ \E t \in CarriedBy(w) :
          connected_user_table' = Without(connected_user_table, {t})
  /\ out' = Nothing
  /\ UNCHANGED <<user_table, connected, game_room_table, next_pk_room>>
  /\ SkipPass

-----------------------------------------------------------------------------
\* Lobby and rooms.

\* The state of the lobby as get_lobby_user_list and get_room_list report it.
LobbyState ==
  [result    |-> "OK_STATE_LOBBY",
   user_list |-> {connected_user_table[t].pk : t \in LobbySessions(connected_user_table)},
   room_list |-> {[room_id       |-> r,
                   num_of_member |-> Len(game_room_table[r].member_pk_list),
                   state         |-> game_room_table[r].status] :
                  r \in DOMAIN game_room_table}]

route_check_lobby(w, token) ==
  /\ AtReceive
  /\ \/ InvalidConnection(w, token)
     \/ /\ token \in DOMAIN connected_user_table
        /\ out' = Send(Nothing, w, LobbyState)
        /\ UNCHANGED tables
  /\ StartPass

\* The creator joins the room in the same handler; a fresh room never refuses
\* him.  Any other room that lists him keeps listing him.
route_create_room(w, token) ==
  /\ AtReceive
  /\ \/ InvalidConnection(w, token)
     \/ /\ token \in DOMAIN connected_user_table
        /\ next_pk_room <= MaxRooms
        /\ next_pk_room' = next_pk_room + 1
        /\ game_room_table' =
             With(game_room_table, next_pk_room,
                  join_game_room(create_game_room, connected_user_table[token].pk))
        /\ connected_user_table' =
             [connected_user_table EXCEPT ![token] = InRoom(@, next_pk_room)]
        /\ out' = LET created == [result |-> "OK_CREATE_ROOM", room_id |-> next_pk_room]
                      answers == Send(Send(Nothing, w, created), w, Response("OK_JOIN_ROOM"))
                  IN  broadcast_lobby(
                        broadcast_room(answers, connected_user_table', next_pk_room,
                                       Response("OK_REQUEST_ROOM_MEMBER_UPDATE")),
                        connected_user_table', Response("OK_REQUEST_LOBBY_UPDATE"))
        /\ UNCHANGED <<user_table, connected>>
  /\ StartPass

\* join_game_room answers 0: the room exists and takes another member.
Joinable(pk_room) ==
  /\ pk_room \in DOMAIN game_room_table
  /\ CanJoin(game_room_table[pk_room])

\* Neither the handler nor join_game_room asks whether the user is in a room.
route_join_room(w, token, pk_room) ==
  /\ AtReceive
  /\ \/ InvalidConnection(w, token)
     \/ /\ token \in DOMAIN connected_user_table
        /\ ~Joinable(pk_room)
        /\ out' = Send(Nothing, w, Response("ERROR_FAIL_TO_JOIN_ROOM"))
        /\ UNCHANGED tables
     \/ /\ token \in DOMAIN connected_user_table
        /\ Joinable(pk_room)
        /\ game_room_table' =
             [game_room_table EXCEPT
                ![pk_room] = join_game_room(@, connected_user_table[token].pk)]
        /\ connected_user_table' =
             [connected_user_table EXCEPT ![token] = InRoom(@, pk_room)]
        /\ out' = broadcast_lobby(
                    broadcast_room(Send(Nothing, w, Response("OK_JOIN_ROOM")),
                                   connected_user_table', pk_room,
                                   Response("OK_REQUEST_ROOM_MEMBER_UPDATE")),
                    connected_user_table', Response("OK_REQUEST_LOBBY_UPDATE"))
        /\ UNCHANGED <<user_table, connected, next_pk_room>>
  /\ StartPass

\* get_room_user_list goes by the sessions, not by the member list.
route_check_room(w, token) ==
  /\ AtReceive
  /\ \/ InvalidConnection(w, token)
     \/ /\ token \in DOMAIN connected_user_table
        /\ connected_user_table[token].status # "IN_ROOM"
        /\ Ignored
     \/ /\ token \in DOMAIN connected_user_table
        /\ connected_user_table[token].status = "IN_ROOM"
        /\ LET pk_room == connected_user_table[token].pk_room
           IN  out' = Send(Nothing, w,
                 [result    |-> "OK_STATE_GAME_ROOM",
                  room_id   |-> pk_room,
                  user_list |-> {connected_user_table[t].pk :
                                 t \in RoomSessions(connected_user_table, pk_room)}])
        /\ UNCHANGED tables
  /\ StartPass

\* The handler and leave_game_room let the user go: only while the room waits.
Leavable(user) ==
  /\ user.status = "IN_ROOM"
  /\ user.pk_room \in DOMAIN game_room_table
  /\ game_room_table[user.pk_room].status = "WAITING"

remove_game_room(pk_room) == Without(game_room_table, {pk_room})

\* The last member takes the room with him.
route_leave_room(w, token) ==
  /\ AtReceive
  /\ \/ InvalidConnection(w, token)
     \/ /\ token \in DOMAIN connected_user_table
        /\ ~Leavable(connected_user_table[token])
        /\ Ignored
     \/ /\ token \in DOMAIN connected_user_table
        /\ LET user == connected_user_table[token]
               room == game_room_table[user.pk_room]
               left == leave_game_room(room, user.pk)
           IN  /\ Leavable(user)
               /\ connected_user_table' =
                    IF Contains(room.member_pk_list, user.pk)
                    THEN [connected_user_table EXCEPT ![token] = NewSession(@.pk, @.mq_id)]
                    ELSE connected_user_table
               /\ game_room_table' =
                    IF left.member_pk_list = <<>>
                    THEN remove_game_room(user.pk_room)
                    ELSE [game_room_table EXCEPT ![user.pk_room] = left]
               /\ out' = broadcast_room(
                           broadcast_lobby(Send(Nothing, w, Response("OK_LEAVE_ROOM")),
                                           connected_user_table',
                                           Response("OK_REQUEST_LOBBY_UPDATE")),
                           connected_user_table', user.pk_room,
                           Response("OK_REQUEST_ROOM_MEMBER_UPDATE"))
        /\ UNCHANGED <<user_table, connected, next_pk_room>>
  /\ StartPass

-----------------------------------------------------------------------------
\* The game.

\* A line goes to the lobby, or to the room after it has been scored.
route_chatting(w, token, line) ==
  /\ AtReceive
  /\ \/ InvalidConnection(w, token)
     \/ /\ token \in DOMAIN connected_user_table
        /\ LET sender == connected_user_table[token]
               chat   == [result |-> "OK_CHATTING", sender |-> sender.pk, content |-> line]
           IN  \/ /\ sender.status = "LOBBY"
                  /\ out' = broadcast_lobby(Nothing, connected_user_table, chat)
                  /\ UNCHANGED game_room_table
               \/ /\ sender.status = "IN_ROOM"
                  /\ game_room_table' =
                       [game_room_table EXCEPT ![sender.pk_room] = Scored(@, sender.pk, line)]
                  /\ out' = broadcast_room(Nothing, connected_user_table,
                                           sender.pk_room, chat)
        /\ UNCHANGED <<user_table, connected, connected_user_table, next_pk_room>>
  /\ StartPass

Startable(user) ==
  /\ user.status = "IN_ROOM"
  /\ user.pk_room \in DOMAIN game_room_table

\* Anyone in the room may start it, and start it over.
route_game_start(w, token) ==
  /\ AtReceive
  /\ \/ InvalidConnection(w, token)
     \/ /\ token \in DOMAIN connected_user_table
        /\ ~Startable(connected_user_table[token])
        /\ Ignored
     \/ /\ token \in DOMAIN connected_user_table
        /\ \A pk \in DOMAIN user_table : user_table[pk].exp < MaxExp
        /\ LET pk_room == connected_user_table[token].pk_room
           IN  /\ Startable(connected_user_table[token])
               /\ game_room_table' =
                    [game_room_table EXCEPT ![pk_room] = start_game(@)]
               /\ out' = NotifyMembers(Send(Nothing, w, Response("OK_START_GAME")),
                                       connected_user_table,
                                       game_room_table[pk_room].member_pk_list,
                                       Response("OK_NOTIFYING_START_GAME"))
        /\ UNCHANGED <<user_table, connected, connected_user_table, next_pk_room>>
  /\ StartPass

\* update_game_rooms comes to room r.
Visit(r) ==
  /\ r \in pending
  /\ pending' = pending \ {r}
  /\ elapsed' = IF pending' = {} THEN 0 ELSE elapsed
  /\ UNCHANGED <<connected, connected_user_table, next_pk_room>>

\* Room r waits, or its time is not over.
handle_game_room_waiting(r) ==
  /\ Visit(r)
  /\ LET room == Aged(game_room_table[r], elapsed)
     IN  /\ ~Expired(room)
         /\ game_room_table' = [game_room_table EXCEPT ![r] = room]
  /\ out' = Nothing
  /\ UNCHANGED user_table

\* notify_round_start asks every member for the new sentence.
OpenRound(r, problem) ==
  /\ Visit(r)
  /\ LET room == Aged(game_room_table[r], elapsed)
     IN  /\ Expired(room)
         /\ game_room_table' = [game_room_table EXCEPT ![r] = RoundOpened(room, problem)]
         /\ out' = NotifyMembers(Nothing, connected_user_table, room.member_pk_list,
                                 [result |-> "OK_MAKE_QUIZ", quiz_string |-> problem])
  /\ UNCHANGED user_table

handle_game_room_ready(r, problem) ==
  /\ r \in pending
  /\ game_room_table[r].status = "READY"
  /\ OpenRound(r, problem)

handle_game_room_showing_round_result(r, problem) ==
  /\ r \in pending
  /\ game_room_table[r].status = "SHOWING_ROUND_RESULT"
  /\ OpenRound(r, problem)

\* The members of a room whose round has been closed learn who has won it.
notify_round_end(room) ==
  NotifyMembers(Nothing, connected_user_table, room.member_pk_list,
    [result       |-> "OK_ROUND_RESULT",
     winner       |-> room.winner_of_round[room.curr_round - 1],
     remain_round |-> TotalRound - room.curr_round])

handle_game_room_playing(r) ==
  /\ Visit(r)
  /\ game_room_table[r].status = "PLAYING"
  /\ LET room   == Aged(game_room_table[r], elapsed)
         closed == RoundClosed(room)
     IN  /\ Expired(room)
         /\ game_room_table' = [game_room_table EXCEPT ![r] = closed]
         /\ out' = notify_round_end(closed)
  /\ UNCHANGED user_table

\* The members learn who has won most rounds, everybody in the lobby that a room has
\* become free.
notify_game_end(room) ==
  broadcast_lobby(
    NotifyMembers(Nothing, connected_user_table, room.member_pk_list,
                  [result |-> "OK_TOTAL_RESULT", winner |-> TotalWinner(room)]),
    connected_user_table, Response("OK_REQUEST_LOBBY_UPDATE"))

\* Every slot of the room is worth GAME_EXP to its user (UpdateExp).
handle_game_room_showing_total_result(r) ==
  /\ Visit(r)
  /\ game_room_table[r].status = "SHOWING_TOTAL_RESULT"
  /\ LET room == Aged(game_room_table[r], elapsed)
     IN  /\ Expired(room)
         /\ game_room_table' = [game_room_table EXCEPT ![r] = end_game(room)]
         /\ user_table' = [pk \in DOMAIN user_table |->
                             [user_table[pk] EXCEPT !.exp = @ + GAME_EXP * Slots(room, pk)]]
         /\ out' = notify_game_end(room)

-----------------------------------------------------------------------------
Account(w) ==
  \E id \in Ids : \/ route_sign_up(w, id)
                  \/ \E right \in BOOLEAN : route_sign_in(w, id, right)

Request(w, token) ==
  \/ route_sign_out(w, token)
  \/ route_check_lobby(w, token)
  \/ route_create_room(w, token)
  \/ \E r \in 1 .. MaxRooms : route_join_room(w, token, r)
  \/ route_check_room(w, token)
  \/ route_leave_room(w, token)
  \/ \E line \in Lines : route_chatting(w, token, line)
  \/ route_game_start(w, token)

update_game_rooms ==
  \E r \in pending :
    \/ handle_game_room_waiting(r)
    \/ \E problem \in Problems : \/ handle_game_room_ready(r, problem)
                                 \/ handle_game_room_showing_round_result(r, problem)
    \/ handle_game_room_playing(r)
    \/ handle_game_room_showing_total_result(r)

Next ==
  \/ Idle
  \/ \E w \in Workers : \/ Account(w)
                        \/ \E token \in Tokens : Request(w, token)
                        \/ handle_dead_client_worker(w)
  \/ update_game_rooms

Spec == Init /\ [][Next]_vars
=============================================================================
