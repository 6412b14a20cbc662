---------------------------- MODULE PoliteClients ----------------------------
(***************************************************************************)
(* What the main server leaves to its clients: a history variable tells    *)
(* whether all of them have kept to the order of a session up to now.      *)
(***************************************************************************)
EXTENDS GameServerProps

VARIABLE polite

\* Nobody signs out, signs in again or is lost while in a room, nobody joins or
\* creates a room while in one, and a connection signs in once at a time.
Polite ==
  /\ \A t \in DOMAIN connected_user_table :
       connected_user_table[t].status = "IN_ROOM" =>
         /\ t \in DOMAIN connected_user_table'
         /\ \A r \in DOMAIN game_room_table' :
              LET before == IF r \in DOMAIN game_room_table
                            THEN Slots(game_room_table[r], connected_user_table[t].pk)
                            ELSE 0
              IN  Slots(game_room_table'[r], connected_user_table[t].pk) <= before
  /\ \A t, u \in DOMAIN connected_user_table' :
       connected_user_table'[t].mq_id = connected_user_table'[u].mq_id => t = u

WatchedInit == Init /\ polite = TRUE
WatchedNext == Next /\ polite' = (polite /\ Polite)
WatchedSpec == WatchedInit /\ [][WatchedNext]_<<vars, polite>>

\* With such clients a room lists exactly the users whose sessions are in it,
\* each of them once.  Nothing in the server brings the two views together
\* again: the member list decides on capacity, announcements and exp, the
\* sessions on chatting and on what route_check_room shows.
ListsMatchSessions ==
  polite => \A r \in DOMAIN game_room_table :
    LET members == game_room_table[r].member_pk_list
    IN  /\ IsInjective(members)
        /\ Range(members) = {connected_user_table[t].pk :
                              t \in RoomSessions(connected_user_table, r)}

\* With such clients the last message of a worker leaves no session of his
\* behind, though handle_dead_client_worker removes only the first it finds.
DeadWorkerIsForgotten ==
  [][\A w \in Workers :
       (polite' /\ handle_dead_client_worker(w)) =>
         \A t \in DOMAIN connected_user_table' : connected_user_table'[t].mq_id # w]_vars

\* Nothing of a client that kept to the order stays where it is not: lists and
\* sessions agree after every handler, and the last one forgets the worker.
PoliteClientsLeaveNothing == []ListsMatchSessions /\ DeadWorkerIsForgotten
=============================================================================
