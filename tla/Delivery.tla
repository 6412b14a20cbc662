------------------------------ MODULE Delivery ------------------------------
(***************************************************************************)
(* What the main server hands to the message queue: for every client       *)
(* worker (its socket number is the type of its messages) the messages     *)
(* sent to it, in order.  The queue is read by type, so the order of       *)
(* messages to different workers is not observable and not kept.           *)
(***************************************************************************)
EXTENDS Integers, Sequences, FiniteSets

CONSTANT Workers     \* mq_id of the client workers: their socket numbers

\* build_simple_response: a response with nothing but its result code.
Response(code) == [result |-> code]

Nothing == [w \in Workers |-> <<>>]

\* send_message_to_queue(mq_key, MQ_ID_MAIN_SERVER, w, m)
Send(sent, w, m) == [sent EXCEPT ![w] = Append(@, m)]

Copies(n, m) == [i \in 1 .. n |-> m]

LobbySessions(sessions) ==
  {t \in DOMAIN sessions : sessions[t].status = "LOBBY"}

RoomSessions(sessions, pk_room) ==
  {t \in DOMAIN sessions : /\ sessions[t].status = "IN_ROOM"
                           /\ sessions[t].pk_room = pk_room}

\* One message per session of S; a worker that carries two gets two.
SendToSessions(sent, sessions, S, m) ==
  [w \in Workers |->
     sent[w] \o Copies(Cardinality({t \in S : sessions[t].mq_id = w}), m)]

\* Not the code: two loops that stop at the first session they find.
WrongFirstInLobby(sent, sessions, m) ==
  LET found == LobbySessions(sessions)
  IN  SendToSessions(sent, sessions, {t \in found : \A u \in found : t <= u}, m)

WrongFirstInRoom(sent, sessions, pk_room, m) ==
  LET found == RoomSessions(sessions, pk_room)
  IN  SendToSessions(sent, sessions, {t \in found : \A u \in found : t <= u}, m)

broadcast_lobby(sent, sessions, m) ==
  SendToSessions(sent, sessions, LobbySessions(sessions), m)

broadcast_room(sent, sessions, pk_room, m) ==
  SendToSessions(sent, sessions, RoomSessions(sessions, pk_room), m)

\* Not the code: a loop that ends at the first slot.
WrongFirstSlot(sent, sessions, members, m) ==
  [w \in Workers |->
     sent[w] \o Copies(Cardinality({t \in DOMAIN sessions :
                                      /\ members # <<>>
                                      /\ sessions[t].pk = members[1]
                                      /\ sessions[t].mq_id = w}), m)]

\* The loop of the notify_... functions: one message per slot of the member
\* list whose user is connected, wherever that user is.
NotifyMembers(sent, sessions, members, m) ==
  [w \in Workers |->
     sent[w] \o Copies(Cardinality({i \in DOMAIN members :
                         \E t \in DOMAIN sessions : /\ sessions[t].pk = members[i]
                                                    /\ sessions[t].mq_id = w}), m)]
=============================================================================
