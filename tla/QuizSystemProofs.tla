--------------------------- MODULE QuizSystemProofs ---------------------------
(***************************************************************************)
(* Tokens mean what clients think they mean, for any number of workers,    *)
(* accounts and restarts and any size of the queue.  The invariant follows *)
(* a token from the handler that draws it through what is being posted and *)
(* the queue into the hands of a client, and back in a request.            *)
(***************************************************************************)
EXTENDS QuizSystem, GameServerProofs

-----------------------------------------------------------------------------
\* The inductive invariant.

LobbyStates ==
  [result    : {"OK_STATE_LOBBY"},
   user_list : SUBSET Nat,
   room_list : SUBSET [room_id : Nat, num_of_member : Nat, state : Phases]]

Bodies ==
  [result : {"OK_REQUEST_LOBBY_UPDATE", "ERROR_INVALID_CONNECTION", "ERROR_INVALID_AUTH"}]
    \cup [result : {"OK_SIGN_IN"}, access_token : Nat]
    \cup LobbyStates

Asks  == [to : {MQ_ID_MAIN_SERVER}, from : Workers, ask : Requests \cup {"dead"},
          token : Int, run : Nat]
Posts == [to : Workers, body : Bodies, run : Nat]

SystemTypeOK ==
  /\ home \in [Workers -> Ids]
  /\ run \in Nat \ {0}
  /\ at \in {"serving", "clearing"}
  /\ posting \in Sendings(Bodies)
  /\ mail \in Seq(Asks \cup Posts)
  /\ knows \in [Workers -> [token : Int, run : Nat]]

\* Token t has been drawn, and names a session of worker w and its user or none.
Owns(w, t) ==
  /\ t < connected
  /\ t \in DOMAIN connected_user_table =>
       /\ user_table[SessionAt(t).pk].id = home[w]
       /\ SessionAt(t).mq_id = w

\* What an answer gives to worker w is its own.
Grants(w, body) == body.result = "OK_SIGN_IN" => Owns(w, body.access_token)

\* So is what is on its way, to a worker or back in a request, unless it is older
\* than the main server; while the queue is being cleared there is no telling.
MailFits(m) ==
  /\ m.run <= run
  /\ at = "serving" =>
       /\ m.to # MQ_ID_MAIN_SERVER => Grants(m.to, m.body)
       /\ m.to = MQ_ID_MAIN_SERVER /\ m.ask = "sign_out" /\ m.run = run =>
            Owns(m.from, m.token)

HeldFits(w) ==
  /\ knows[w].run <= run
  /\ at = "serving" /\ knows[w].run = run => Owns(w, knows[w].token)

MailSound    == \A m \in Range(mail) : MailFits(m)
HeldSound    == \A w \in Workers : HeldFits(w)
PostingSound == \A w \in Workers : \A body \in Range(posting[w]) : Grants(w, body)

\* A main server that is clearing the queue has nobody connected and nothing to post.
ClearingIsIdle ==
  at = "clearing" => DOMAIN connected_user_table = {} /\ posting = Nothing

SystemInv ==
  /\ IInv
  /\ SystemTypeOK
  /\ ClearingIsIdle
  /\ PostingSound
  /\ MailSound
  /\ HeldSound

-----------------------------------------------------------------------------
\* The queue.

\* check_message_queue finds a message of the type it was asked for.
LEMMA FirstForPlace ==
  ASSUME NEW S, mail \in Seq(S), NEW type, FirstFor(type) # 0
  PROVE  /\ FirstFor(type) \in 1 .. Len(mail)
         /\ mail[FirstFor(type)].to = type
         /\ mail[FirstFor(type)] \in Range(mail)
<1> DEFINE I == {i \in 1 .. Len(mail) : mail[i].to = type}
<1>1. Len(mail) \in Nat /\ DOMAIN mail = 1 .. Len(mail)
  BY PlacesOf
<1>2. FirstFor(type) = IF I # {} THEN Min(I) ELSE 0
  BY DEF FirstFor, SelectInSeq
<1>3. I # {} /\ I \subseteq Nat /\ FirstFor(type) = Min(I)
  BY <1>1, <1>2
<1>4. FirstFor(type) \in I
  BY <1>3, MinOfNaturals
<1> QED
  BY <1>1, <1>4 DEF Range

\* A message that is sent comes to those in the queue, or is lost.
LEMMA MailedAdds ==
  ASSUME NEW S, mail \in Seq(S), NEW m \in S, mail' = Mailed(m)
  PROVE  mail' \in Seq(S) /\ Range(mail') \subseteq Range(mail) \cup {m}
<1>1. CASE mail' = mail
  BY <1>1
<1>2. CASE mail' = Append(mail, m)
  <2>1. /\ mail' \in Seq(S)
        /\ \A i \in DOMAIN mail' : \/ i \in DOMAIN mail /\ mail'[i] = mail[i]
                                   \/ mail'[i] = m
    BY <1>2, AppendedPlaces
  <2> QED
    BY <2>1 DEF Range
<1> QED
  BY <1>1, <1>2 DEF Mailed

\* The message at the front is not needed to say what is in the rest.
LEMMA TailsAreParts ==
  ASSUME NEW S, NEW s \in Seq(S), s # <<>>
  PROVE  Head(s) \in Range(s) /\ Tail(s) \in Seq(S) /\ Range(Tail(s)) \subseteq Range(s)
<1>1. /\ Tail(s) \in Seq(S)
      /\ Len(Tail(s)) = Len(s) - 1
      /\ \A i \in 1 .. Len(Tail(s)) : Tail(s)[i] = s[i + 1]
  BY HeadTailProperties
<1>2. /\ Len(s) \in Nat /\ DOMAIN s = 1 .. Len(s)
      /\ DOMAIN Tail(s) = 1 .. Len(s) - 1
  BY <1>1, PlacesOf
<1>3. Len(s) # 0
  BY EmptySeq
<1>4. Head(s) = s[1] /\ 1 \in DOMAIN s
  BY <1>2, <1>3
<1>5. \A i \in DOMAIN Tail(s) : Tail(s)[i] = s[i + 1] /\ i + 1 \in DOMAIN s
  BY <1>1, <1>2
<1> QED
  BY <1>1, <1>4, <1>5 DEF Range

-----------------------------------------------------------------------------
\* The handlers.

\* What a client owns it still owns after the step.
TokensStay == \A w \in Workers, t \in Int : Owns(w, t) => Owns(w, t)'

\* What a handler leaves behind: tables, tokens and answers that are sound.
Outcome ==
  /\ IInv'
  /\ UNCHANGED user_table
  /\ TokensStay
  /\ out' \in Sendings(Bodies)
  /\ \A w \in Workers : \A body \in Range(out'[w]) : Grants(w, body)'

\* A step that names no session anew but with the next token takes nothing away.
LEMMA TokensOfOthersStay ==
  ASSUME IInv, UNCHANGED <<user_table, home>>, connected' \in {connected, connected + 1},
         \A t \in DOMAIN connected_user_table' :
           t # connected => /\ t \in DOMAIN connected_user_table
                            /\ connected_user_table'[t] = connected_user_table[t],
         connected \in DOMAIN connected_user_table' => connected' = connected + 1
  PROVE  TokensStay
<1>1. connected \in Nat
  BY DEF IInv, TypeOK
<1> SUFFICES ASSUME NEW w \in Workers, NEW t \in Int, Owns(w, t)
             PROVE  Owns(w, t)'
  BY DEF TokensStay
<1>2. t < connected /\ t # connected
  BY <1>1 DEF Owns
<1>3. t < connected'
  BY <1>1, <1>2
<1> QED
  BY <1>2, <1>3 DEF Owns, SessionAt

\* An answer with no token in it.
LEMMA PlainAnswer ==
  ASSUME NEW w, NEW body \in Bodies, body.result # "OK_SIGN_IN",
         out' = Send(Nothing, w, body)
  PROVE  /\ out' \in Sendings(Bodies)
         /\ \A v \in Workers : \A b \in Range(out'[v]) : Grants(v, b)'
<1>1. /\ Nothing \in Sendings(Bodies)
      /\ \A v \in Workers : Range(Nothing[v]) = {}
  BY NothingTells
<1>2. /\ out' \in Sendings(Bodies)
      /\ \A v \in Workers : Range(out'[v]) = Range(Nothing[v]) \cup IF v = w THEN {body} ELSE {}
  BY <1>1, SendTells
<1>3. \A v \in Workers : Range(out'[v]) \subseteq {body}
  BY <1>1, <1>2
<1> QED
  BY <1>2, <1>3 DEF Grants

\* A token without a session.
LEMMA InvalidOutcome ==
  ASSUME IInv, UNCHANGED home, NEW w, NEW token, InvalidConnection(w, token), StartPass
  PROVE  Outcome
<1>1. IInv'
  BY InvalidConnectionKeeps
<1>2. TokensStay
  BY TokensOfOthersStay DEF InvalidConnection, tables, IInv, TypeOK
<1>3. /\ Response("ERROR_INVALID_CONNECTION") \in Bodies
      /\ Response("ERROR_INVALID_CONNECTION").result # "OK_SIGN_IN"
  BY DEF Response, Bodies
<1> QED
  BY <1>1, <1>2, <1>3, PlainAnswer DEF InvalidConnection, tables, Outcome

\* route_sign_out takes a session away.
LEMMA SignOutOutcome ==
  ASSUME IInv, UNCHANGED home, NEW w, NEW token, route_sign_out(w, token)
  PROVE  Outcome
<1>1. CASE InvalidConnection(w, token)
  BY <1>1, InvalidOutcome DEF route_sign_out
<1>2. CASE ~InvalidConnection(w, token)
  <2>1. IInv'
    BY SignOutKeeps
  <2>2. /\ connected_user_table' = Without(connected_user_table, {token})
        /\ out' = Send(Nothing, w, Response("OK_REQUEST_LOBBY_UPDATE"))
        /\ UNCHANGED <<user_table, connected>>
    BY <1>2 DEF route_sign_out
  <2>3. connected \notin DOMAIN connected_user_table
    BY DEF IInv, TypeOK
  <2>4. TokensStay
    BY <2>2, <2>3, TokensOfOthersStay DEF Without
  <2>5. /\ Response("OK_REQUEST_LOBBY_UPDATE") \in Bodies
        /\ Response("OK_REQUEST_LOBBY_UPDATE").result # "OK_SIGN_IN"
    BY DEF Response, Bodies
  <2> QED
    BY <2>1, <2>2, <2>4, <2>5, PlainAnswer DEF Outcome
<1> QED
  BY <1>1, <1>2

\* The state of the lobby is made of users and rooms that are there.
LEMMA LobbyStateIsBody ==
  ASSUME IInv
  PROVE  LobbyState \in Bodies /\ LobbyState.result # "OK_SIGN_IN"
<1>1. \A t \in DOMAIN connected_user_table : connected_user_table[t].pk \in Nat
  <2>1. user_table \in Seq([id : Ids, exp : Nat])
    BY DEF IInv, TypeOK
  <2>2. Pks = 1 .. Len(user_table) /\ Len(user_table) \in Nat
    BY <2>1, LenProperties DEF Pks
  <2>3. \A t \in DOMAIN connected_user_table : connected_user_table[t].pk \in Pks
    BY DEF IInv, TypeOK, Session
  <2> QED
    BY <2>2, <2>3
<1>2. ASSUME NEW r \in DOMAIN game_room_table
      PROVE  [room_id |-> r, num_of_member |-> Len(game_room_table[r].member_pk_list),
              state |-> game_room_table[r].status]
               \in [room_id : Nat, num_of_member : Nat, state : Phases]
  <2>1. r \in Nat /\ game_room_table[r] \in RoomOf(Pks, Problems)
    BY DEF IInv, TypeOK
  <2>2. game_room_table[r].member_pk_list \in Seq(Pks) /\ game_room_table[r].status \in Phases
    BY <2>1 DEF RoomOf
  <2>3. Len(game_room_table[r].member_pk_list) \in Nat
    BY <2>2, LenProperties
  <2> QED
    BY <2>1, <2>2, <2>3
<1>3. LobbyState.user_list \subseteq Nat
  BY <1>1 DEF LobbyState, LobbySessions
<1>4. LobbyState.room_list \subseteq [room_id : Nat, num_of_member : Nat, state : Phases]
  BY <1>2 DEF LobbyState
<1>5. LobbyState = [result    |-> "OK_STATE_LOBBY",
                    user_list |-> LobbyState.user_list,
                    room_list |-> LobbyState.room_list]
  BY DEF LobbyState
<1>6. LobbyState \in LobbyStates
  <2> DEFINE users == LobbyState.user_list
             rooms == LobbyState.room_list
  <2>1. LobbyState = [result |-> "OK_STATE_LOBBY", user_list |-> users, room_list |-> rooms]
    BY <1>5
  <2>2. users \in SUBSET Nat
        /\ rooms \in SUBSET [room_id : Nat, num_of_member : Nat, state : Phases]
    BY <1>3, <1>4
  <2> HIDE DEF users, rooms
  <2> QED
    BY <2>1, <2>2 DEF LobbyStates
<1>7. LobbyState.result = "OK_STATE_LOBBY"
  BY DEF LobbyState
<1> QED
  BY <1>6, <1>7 DEF Bodies

\* route_check_lobby only looks.
LEMMA CheckLobbyOutcome ==
  ASSUME IInv, UNCHANGED home, NEW w, NEW token, route_check_lobby(w, token)
  PROVE  Outcome
<1>1. CASE InvalidConnection(w, token)
  BY <1>1, InvalidOutcome DEF route_check_lobby
<1>2. CASE ~InvalidConnection(w, token)
  <2>1. IInv'
    BY CheckLobbyKeeps
  <2>2. out' = Send(Nothing, w, LobbyState) /\ UNCHANGED tables
    BY <1>2 DEF route_check_lobby
  <2>3. connected \notin DOMAIN connected_user_table
    BY DEF IInv, TypeOK
  <2>4. TokensStay
    BY <2>2, <2>3, TokensOfOthersStay DEF tables
  <2> QED
    BY <2>1, <2>2, <2>4, LobbyStateIsBody, PlainAnswer DEF Outcome, tables
<1> QED
  BY <1>1, <1>2

\* handle_dead_client_worker takes a session away and answers nobody.
LEMMA DeadWorkerOutcome ==
  ASSUME IInv, UNCHANGED home, NEW w, handle_dead_client_worker(w)
  PROVE  Outcome
<1>1. IInv'
  BY DeadWorkerKeeps
<1>2. connected \notin DOMAIN connected_user_table
  BY DEF IInv, TypeOK
<1>3. TokensStay
  BY <1>2, TokensOfOthersStay DEF handle_dead_client_worker, Without
<1>4. /\ out' \in Sendings(Bodies)
      /\ \A v \in Workers : Range(out'[v]) = {}
  BY NothingTells DEF handle_dead_client_worker
<1> QED
  BY <1>1, <1>3, <1>4 DEF Outcome, handle_dead_client_worker

\* route_sign_in draws a token and gives it to the worker that asked for it.
LEMMA SignInOutcome ==
  ASSUME IInv, UNCHANGED home, home \in [Workers -> Ids], NEW w \in Workers,
         route_sign_in(w, home[w], TRUE)
  PROVE  Outcome
<1>1. IInv'
  BY SignInKeeps
<1>2. connected \in Nat /\ connected \notin DOMAIN connected_user_table
  BY DEF IInv, TypeOK
<1>3. UNCHANGED user_table /\ connected' = connected + 1
  BY DEF route_sign_in
<1>4. CASE /\ UNCHANGED connected_user_table
           /\ out' = Send(Nothing, w, Response("ERROR_INVALID_AUTH"))
  <2>1. TokensStay
    BY <1>2, <1>3, <1>4, TokensOfOthersStay
  <2>2. /\ Response("ERROR_INVALID_AUTH") \in Bodies
        /\ Response("ERROR_INVALID_AUTH").result # "OK_SIGN_IN"
    BY DEF Response, Bodies
  <2> QED
    BY <1>1, <1>3, <1>4, <2>1, <2>2, PlainAnswer DEF Outcome
<1>5. ASSUME NEW pk \in AccountsOf(home[w]),
             connected_user_table' = With(Without(connected_user_table, SessionsOf(pk)),
                                          connected, NewSession(pk, w)),
             out' = broadcast_lobby(
                      Send(Nothing, w, [result |-> "OK_SIGN_IN", access_token |-> connected]),
                      connected_user_table', Response("OK_REQUEST_LOBBY_UPDATE"))
      PROVE  Outcome
  <2>1. PICK drawn : drawn = connected
    OBVIOUS
  <2>2. PICK sessions : sessions = connected_user_table'
    OBVIOUS
  <2> DEFINE token  == [result |-> "OK_SIGN_IN", access_token |-> drawn]
             update == Response("OK_REQUEST_LOBBY_UPDATE")
             sent   == Send(Nothing, w, token)
             lobby  == LobbySessions(sessions)
  <2>3. /\ \A t \in DOMAIN sessions :
             t # drawn => t \in DOMAIN connected_user_table /\ sessions[t] = connected_user_table[t]
        /\ drawn \in DOMAIN sessions
        /\ sessions[drawn] = NewSession(pk, w)
    BY <1>2, <1>5, <2>1, <2>2 DEF With, Without
  <2>4. TokensStay
    BY <1>3, <2>1, <2>2, <2>3, TokensOfOthersStay
  <2>5. token \in Bodies /\ update \in Bodies /\ update.result # "OK_SIGN_IN"
    BY <1>2, <2>1 DEF Bodies, Response
  <2>6. Owns(w, drawn)'
    <3>1. user_table'[pk].id = home'[w] /\ drawn < connected'
      BY <1>2, <1>3, <1>5, <2>1 DEF AccountsOf
    <3>2. connected_user_table'[drawn].pk = pk /\ connected_user_table'[drawn].mq_id = w
      BY <2>2, <2>3 DEF NewSession
    <3> QED
      BY <3>1, <3>2 DEF Owns, SessionAt
  <2>7. IsFiniteSet(lobby)
    <3>1. DOMAIN connected_user_table \subseteq 0 .. connected - 1
      BY DEF IInv, TypeOK
    <3>2. DOMAIN sessions \subseteq 0 .. connected
      BY <1>2, <2>1, <2>3, <3>1
    <3>3. lobby \in SUBSET (0 .. connected)
      BY <3>2 DEF LobbySessions
    <3>4. IsFiniteSet(0 .. connected)
      BY <1>2, FS_Interval
    <3> QED
      BY <3>3, <3>4, FS_Subset
  <2>8. out' = SendToSessions(sent, sessions, lobby, update)
    BY <1>5, <2>1, <2>2 DEF broadcast_lobby
  <2> HIDE DEF token, update, lobby
  <2>9. /\ Nothing \in Sendings(Bodies)
        /\ \A v \in Workers : Range(Nothing[v]) = {}
    BY NothingTells
  <2>10. /\ sent \in Sendings(Bodies)
         /\ \A v \in Workers : Range(sent[v]) = Range(Nothing[v]) \cup IF v = w THEN {token} ELSE {}
    BY <2>5, <2>9, SendTells
  <2> HIDE DEF sent
  <2>11. /\ out' \in Sendings(Bodies)
         /\ \A v \in Workers :
              Range(out'[v]) = Range(sent[v]) \cup
                IF \E t \in lobby : sessions[t].mq_id = v THEN {update} ELSE {}
    BY <2>5, <2>7, <2>8, <2>10, SessionsAreTold
  <2>12. ASSUME NEW v \in Workers, NEW body \in Range(out'[v])
         PROVE  Grants(v, body)'
    <3>1. body = update \/ (v = w /\ body = token)
      BY <2>9, <2>10, <2>11, <2>12
    <3>2. CASE body = update
      BY <2>5, <3>2 DEF Grants
    <3>3. CASE v = w /\ body = token
      <4>1. body.access_token = drawn
        BY <3>3 DEF token
      <4> QED
        BY <2>6, <3>3, <4>1 DEF Grants
    <3> QED
      BY <3>1, <3>2, <3>3
  <2> QED
    BY <1>1, <1>3, <2>4, <2>11, <2>12 DEF Outcome
<1> QED
  BY <1>4, <1>5 DEF route_sign_in

\* Every request has an outcome that is sound.
LEMMA HandlerOutcome ==
  ASSUME IInv, UNCHANGED home, home \in [Workers -> Ids], NEW m \in Asks, Handler(m)
  PROVE  Outcome
<1>1. m.from \in Workers /\ m.ask \in {"sign_in", "sign_out", "lobby", "dead"}
  BY DEF Asks, Requests
<1>2. CASE m.ask = "dead"
  BY <1>2, DeadWorkerOutcome DEF Handler
<1>3. CASE m.ask = "sign_in"
  BY <1>1, <1>3, SignInOutcome DEF Handler
<1>4. CASE m.ask = "sign_out"
  BY <1>4, SignOutOutcome DEF Handler
<1>5. CASE m.ask = "lobby"
  BY <1>5, CheckLobbyOutcome DEF Handler
<1> QED
  BY <1>1, <1>2, <1>3, <1>4, <1>5

-----------------------------------------------------------------------------
\* The steps of the system.

\* What is in the queue and has not the type of the main server is an answer.
LEMMA MailIsAskOrPost ==
  ASSUME SystemTypeOK, NEW m \in Range(mail)
  PROVE  /\ m \in Asks \cup Posts
         /\ m.to = MQ_ID_MAIN_SERVER => m \in Asks
         /\ m.to # MQ_ID_MAIN_SERVER => m \in Posts
<1>1. m \in Asks \cup Posts
  <2>1. mail \in Seq(Asks \cup Posts)
    BY DEF SystemTypeOK
  <2> QED
    BY <2>1, RangeOfSeq
<1> QED
  BY <1>1, SystemAssumption DEF Asks, Posts

\* The server, and so what is said of tokens, is as before.
LEMMA ServerAsBefore ==
  ASSUME SystemInv, UNCHANGED <<vars, home, run, at>>
  PROVE  /\ IInv'
         /\ \A m : MailFits(m) => MailFits(m)'
         /\ \A w, t : Owns(w, t) => Owns(w, t)'
         /\ \A w, body : Grants(w, body) => Grants(w, body)'
<1>1. IInv'
  BY StepIInv DEF SystemInv
<1>2. UNCHANGED <<user_table, connected, connected_user_table>>
  BY DEF vars
<1>3. \A w, t : Owns(w, t) => Owns(w, t)'
  BY <1>2 DEF Owns, SessionAt
<1>4. \A w, body : Grants(w, body) => Grants(w, body)'
  BY <1>3 DEF Grants
<1>5. \A m : MailFits(m) => MailFits(m)'
  BY <1>3, <1>4 DEF MailFits
<1> QED
  BY <1>1, <1>3, <1>4, <1>5

\* A worker sends a request of its client, or its own last word.
LEMMA AskKeeps ==
  ASSUME SystemInv, NEW w \in Workers, NEW ask \in Requests \cup {"dead"},
         mail' = Mailed(Asking(w, ask)), ServerUnchanged, UNCHANGED knows
  PROVE  SystemInv'
<1> DEFINE m == Asking(w, ask)
<1>1. UNCHANGED <<vars, home, run, at, posting, knows>>
  BY DEF ServerUnchanged
<1>2. /\ IInv'
      /\ \A n : MailFits(n) => MailFits(n)'
      /\ \A v, t : Owns(v, t) => Owns(v, t)'
      /\ \A v, body : Grants(v, body) => Grants(v, body)'
  BY <1>1, ServerAsBefore
<1>3. knows[w] \in [token : Int, run : Nat] /\ HeldFits(w)
  BY DEF SystemInv, SystemTypeOK, HeldSound
<1>4. m \in Asks /\ MailFits(m)
  <2>1. /\ m.to = MQ_ID_MAIN_SERVER /\ m.from = w /\ m.ask = ask
        /\ m.token = knows[w].token /\ m.run = knows[w].run
    BY DEF Asking
  <2>2. m \in Asks
    BY <1>3 DEF Asking, Asks
  <2> HIDE DEF m
  <2> QED
    BY <1>3, <2>1, <2>2 DEF MailFits, HeldFits
<1> HIDE DEF m
<1>5. mail \in Seq(Asks \cup Posts) /\ m \in Asks \cup Posts
  BY <1>4 DEF SystemInv, SystemTypeOK
<1>6. mail' \in Seq(Asks \cup Posts) /\ Range(mail') \subseteq Range(mail) \cup {m}
  BY <1>5, MailedAdds DEF m
<1>7. SystemTypeOK'
  BY <1>1, <1>6 DEF SystemInv, SystemTypeOK
<1>8. MailSound'
  BY <1>2, <1>4, <1>6 DEF SystemInv, MailSound
<1>9. PostingSound' /\ HeldSound'
  BY <1>1, <1>2 DEF SystemInv, PostingSound, HeldSound, HeldFits
<1>10. ClearingIsIdle'
  BY <1>1 DEF SystemInv, ClearingIsIdle, vars
<1> QED
  BY <1>2, <1>7, <1>8, <1>9, <1>10 DEF SystemInv

\* A client notes the token it reads: it is its own.
LEMMA ReadKeeps ==
  ASSUME SystemInv, NEW w \in Workers, Read(w)
  PROVE  SystemInv'
<1> DEFINE m == mail[FirstFor(w)]
<1>1. /\ UNCHANGED <<vars, home, run, at, posting>>
      /\ FirstFor(w) # 0
      /\ mail' = RemoveAt(mail, FirstFor(w))
      /\ knows' = IF m.body.result = "OK_SIGN_IN"
                  THEN [knows EXCEPT ![w] = [token |-> m.body.access_token, run |-> run]]
                  ELSE knows
  BY DEF Read, ServerUnchanged
<1>2. /\ IInv'
      /\ \A n : MailFits(n) => MailFits(n)'
      /\ \A v, t : Owns(v, t) => Owns(v, t)'
      /\ \A v, body : Grants(v, body) => Grants(v, body)'
  BY <1>1, ServerAsBefore
<1>3. mail \in Seq(Asks \cup Posts) /\ run \in Nat /\ knows \in [Workers -> [token : Int, run : Nat]]
  BY DEF SystemInv, SystemTypeOK
<1>4. FirstFor(w) \in 1 .. Len(mail) /\ m.to = w /\ m \in Range(mail)
  BY <1>1, <1>3, FirstForPlace
<1>5. mail' \in Seq(Asks \cup Posts) /\ Range(mail') \subseteq Range(mail)
  BY <1>1, <1>3, <1>4, RemoveAtProperties
<1> HIDE DEF m
<1>6. m \in Posts /\ MailFits(m) /\ w # MQ_ID_MAIN_SERVER
  BY <1>4, MailIsAskOrPost, SystemAssumption DEF SystemInv, MailSound
<1>7. m.body.result = "OK_SIGN_IN" =>
        m.body.access_token \in Int /\ (at = "serving" => Owns(w, m.body.access_token))
  <2>1. m.body \in Bodies
    BY <1>6 DEF Posts
  <2>2. m.body.result = "OK_SIGN_IN" => m.body.access_token \in Nat
    BY <2>1 DEF Bodies, LobbyStates
  <2> QED
    BY <1>4, <1>6, <2>2 DEF MailFits, Grants
<1>8. \A v \in Workers :
        knows'[v] = IF v = w /\ m.body.result = "OK_SIGN_IN"
                    THEN [token |-> m.body.access_token, run |-> run] ELSE knows[v]
  BY <1>1, <1>3
<1>9. knows' \in [Workers -> [token : Int, run : Nat]]
  BY <1>1, <1>3, <1>7
<1>10. SystemTypeOK'
  BY <1>1, <1>5, <1>9 DEF SystemInv, SystemTypeOK
<1>11. MailSound'
  BY <1>2, <1>5 DEF SystemInv, MailSound
<1>12. PostingSound' /\ ClearingIsIdle'
  BY <1>1, <1>2 DEF SystemInv, PostingSound, ClearingIsIdle, vars
<1>13. HeldSound'
  <2> SUFFICES ASSUME NEW v \in Workers PROVE HeldFits(v)'
    BY DEF HeldSound
  <2>1. HeldFits(v)
    BY DEF SystemInv, HeldSound
  <2>2. CASE v = w /\ m.body.result = "OK_SIGN_IN"
    <3>1. knows'[v].run = run /\ knows'[v].token = m.body.access_token
      BY <1>8, <2>2
    <3> QED
      BY <1>1, <1>2, <1>3, <1>7, <2>2, <3>1 DEF HeldFits
  <2>3. CASE ~(v = w /\ m.body.result = "OK_SIGN_IN")
    <3>1. knows'[v] = knows[v]
      BY <1>8, <2>3
    <3> QED
      BY <1>1, <1>2, <2>1, <3>1 DEF HeldFits
  <2> QED
    BY <2>2, <2>3
<1> QED
  BY <1>2, <1>10, <1>11, <1>12, <1>13 DEF SystemInv

\* An answer goes from the handler to the queue, or is lost there.
LEMMA PostKeeps ==
  ASSUME SystemInv, NEW w \in Workers, Post(w)
  PROVE  SystemInv'
<1> DEFINE m == [to |-> w, body |-> Head(posting[w]), run |-> run]
<1>1. /\ UNCHANGED <<vars, home, run, at, knows>>
      /\ posting[w] # <<>>
      /\ mail' = Mailed(m)
      /\ posting' = [posting EXCEPT ![w] = Tail(@)]
  BY DEF Post
<1>2. /\ IInv'
      /\ \A n : MailFits(n) => MailFits(n)'
      /\ \A v, t : Owns(v, t) => Owns(v, t)'
      /\ \A v, body : Grants(v, body) => Grants(v, body)'
  BY <1>1, ServerAsBefore
<1>3. posting[w] \in Seq(Bodies) /\ posting \in [Workers -> Seq(Bodies)] /\ run \in Nat
  BY DEF SystemInv, SystemTypeOK, Sendings
<1>4. /\ Head(posting[w]) \in Range(posting[w])
      /\ Tail(posting[w]) \in Seq(Bodies)
      /\ Range(Tail(posting[w])) \subseteq Range(posting[w])
  BY <1>1, <1>3, TailsAreParts
<1>5. Head(posting[w]) \in Bodies
  BY <1>3, <1>4, RangeOfSeq
<1>6. m \in Asks \cup Posts /\ MailFits(m)
  <2>1. Grants(w, Head(posting[w]))
    BY <1>4 DEF SystemInv, PostingSound
  <2>2. m \in Posts
    BY <1>3, <1>5 DEF Posts
  <2>3. m.to = w /\ m.body = Head(posting[w]) /\ m.run = run /\ w # MQ_ID_MAIN_SERVER
    BY SystemAssumption
  <2> HIDE DEF m
  <2> QED
    BY <1>3, <2>1, <2>2, <2>3 DEF MailFits
<1> HIDE DEF m
<1>7. mail' \in Seq(Asks \cup Posts) /\ Range(mail') \subseteq Range(mail) \cup {m}
  BY <1>1, <1>6, MailedAdds DEF SystemInv, SystemTypeOK
<1>8. posting' \in Sendings(Bodies)
  BY <1>1, <1>3, <1>4 DEF Sendings
<1>9. SystemTypeOK'
  BY <1>1, <1>7, <1>8 DEF SystemInv, SystemTypeOK
<1>10. MailSound'
  BY <1>2, <1>6, <1>7 DEF SystemInv, MailSound
<1>11. PostingSound'
  <2>1. \A v \in Workers : Range(posting'[v]) \subseteq Range(posting[v])
    BY <1>1, <1>3, <1>4
  <2> QED
    BY <1>2, <2>1 DEF SystemInv, PostingSound
<1>12. HeldSound'
  BY <1>1, <1>2 DEF SystemInv, HeldSound, HeldFits
<1>13. ClearingIsIdle'
  <2>1. at # "clearing"
    BY <1>1 DEF SystemInv, ClearingIsIdle, Nothing
  <2> QED
    BY <1>1, <2>1 DEF ClearingIsIdle
<1> QED
  BY <1>2, <1>9, <1>10, <1>11, <1>12, <1>13 DEF SystemInv

\* The main server handles a message: every client still owns what it owned.
LEMMA HandleKeeps ==
  ASSUME SystemInv, Handle
  PROVE  SystemInv'
<1> DEFINE i == FirstFor(MQ_ID_MAIN_SERVER)
           m == mail[i]
<1>1. /\ at = "serving" /\ i # 0
      /\ Handler(m)
      /\ mail' = RemoveAt(mail, i)
      /\ posting' = out'
      /\ UNCHANGED <<home, run, at, knows>>
  BY DEF Handle
<1>2. /\ mail \in Seq(Asks \cup Posts)
      /\ home \in [Workers -> Ids]
      /\ knows \in [Workers -> [token : Int, run : Nat]]
  BY DEF SystemInv, SystemTypeOK
<1>3. i \in 1 .. Len(mail) /\ m.to = MQ_ID_MAIN_SERVER /\ m \in Range(mail)
  BY <1>1, <1>2, FirstForPlace
<1>4. mail' \in Seq(Asks \cup Posts) /\ Range(mail') \subseteq Range(mail)
  BY <1>1, <1>2, <1>3, RemoveAtProperties
<1> HIDE DEF i, m
<1>5. Outcome
  BY <1>1, <1>2, <1>3, MailIsAskOrPost, HandlerOutcome DEF SystemInv
<1>6. IInv' /\ SystemTypeOK'
  BY <1>1, <1>4, <1>5 DEF SystemInv, SystemTypeOK, Outcome
<1>7. PostingSound'
  BY <1>1, <1>5 DEF Outcome, PostingSound
<1>8. MailSound'
  <2> SUFFICES ASSUME NEW n \in Range(mail') PROVE MailFits(n)'
    BY DEF MailSound
  <2>1. n \in Range(mail) /\ MailFits(n)
    BY <1>4 DEF SystemInv, MailSound
  <2>2. CASE n.to = MQ_ID_MAIN_SERVER
    <3>1. n.from \in Workers /\ n.token \in Int
      BY <2>1, <2>2, MailIsAskOrPost DEF SystemInv, Asks
    <3> QED
      BY <1>1, <1>5, <2>1, <2>2, <3>1 DEF MailFits, Outcome, TokensStay
  <2>3. CASE n.to # MQ_ID_MAIN_SERVER
    <3>1. n.to \in Workers /\ n.body \in Bodies
      BY <2>1, <2>3, MailIsAskOrPost DEF SystemInv, Posts
    <3>2. n.body.result = "OK_SIGN_IN" => n.body.access_token \in Int
      BY <3>1 DEF Bodies, LobbyStates
    <3> QED
      BY <1>1, <1>5, <2>1, <2>3, <3>1, <3>2 DEF MailFits, Outcome, TokensStay, Grants
  <2> QED
    BY <2>2, <2>3
<1>9. HeldSound'
  <2> SUFFICES ASSUME NEW w \in Workers PROVE HeldFits(w)'
    BY DEF HeldSound
  <2>1. HeldFits(w) /\ knows[w].token \in Int
    BY <1>2 DEF SystemInv, HeldSound
  <2> QED
    BY <1>1, <1>5, <2>1 DEF HeldFits, Outcome, TokensStay
<1>10. ClearingIsIdle'
  BY <1>1 DEF ClearingIsIdle
<1> QED
  BY <1>6, <1>7, <1>8, <1>9, <1>10 DEF SystemInv

\* The main server is started again with nobody connected.
LEMMA RestartKeeps ==
  ASSUME SystemInv, Restart
  PROVE  SystemInv'
<1>1. /\ UNCHANGED <<user_table, home, run, mail, knows>>
      /\ at' = "clearing" /\ posting' = Nothing
      /\ connected' = 0 /\ next_pk_room' = 1
      /\ DOMAIN connected_user_table' = {} /\ DOMAIN game_room_table' = {}
      /\ pending' = {} /\ elapsed' = 0 /\ out' = Nothing
  BY DEF Restart
<1>2. TypeOK'
  <2>1. user_table' \in Seq([id : Ids, exp : Nat])
    BY <1>1 DEF SystemInv, IInv, TypeOK
  <2> QED
    BY <1>1, <2>1, OutDomains DEF TypeOK
<1>3. IInv'
  BY <1>1, <1>2, IInvPartsPrime DEF OneSessionPerAccount, InRoomIsListed, SoundRooms
<1>4. /\ Nothing \in Sendings(Bodies)
      /\ \A w \in Workers : Range(Nothing[w]) = {}
  BY NothingTells
<1>5. SystemTypeOK'
  BY <1>1, <1>4 DEF SystemInv, SystemTypeOK
<1>6. MailSound' /\ HeldSound'
  BY <1>1 DEF SystemInv, MailSound, MailFits, HeldSound, HeldFits
<1>7. PostingSound' /\ ClearingIsIdle'
  BY <1>1, <1>4 DEF PostingSound, ClearingIsIdle
<1> QED
  BY <1>3, <1>5, <1>6, <1>7 DEF SystemInv

\* When it begins to serve, whatever clients hold is older than it is, and
\* nothing older is on its way to them.
LEMMA ClearKeeps ==
  ASSUME SystemInv, clear_message_queue
  PROVE  SystemInv'
<1>1. at = "clearing" /\ UNCHANGED <<vars, home, posting, knows>>
  BY DEF clear_message_queue
<1>2. mail \in Seq(Asks \cup Posts) /\ run \in Nat \ {0}
  BY DEF SystemInv, SystemTypeOK
<1>3. IInv'
  BY <1>1, StepIInv DEF SystemInv
<1>4. PostingSound'
  <2>1. posting' = Nothing
    BY <1>1 DEF SystemInv, ClearingIsIdle
  <2>2. \A w \in Workers : Range(posting'[w]) = {}
    BY <2>1, NothingTells
  <2> QED
    BY <2>2 DEF PostingSound
<1>5. ClearingIsIdle'
  BY <1>1 DEF SystemInv, ClearingIsIdle, vars
<1>6. CASE mail # <<>> /\ mail' = Tail(mail) /\ UNCHANGED <<run, at>>
  <2>1. mail' \in Seq(Asks \cup Posts) /\ Range(mail') \subseteq Range(mail)
    BY <1>2, <1>6, TailsAreParts
  <2>2. SystemTypeOK'
    BY <1>1, <1>6, <2>1 DEF SystemInv, SystemTypeOK
  <2>3. MailSound' /\ HeldSound'
    BY <1>1, <1>6, <2>1 DEF SystemInv, MailSound, MailFits, HeldSound, HeldFits
  <2> QED
    BY <1>3, <1>4, <1>5, <2>2, <2>3 DEF SystemInv
<1>7. CASE mail = <<>> /\ run' = run + 1 /\ at' = "serving" /\ UNCHANGED mail
  <2>1. Range(mail') = {}
    BY <1>7 DEF Range
  <2>2. MailSound'
    BY <2>1 DEF MailSound
  <2>3. SystemTypeOK'
    BY <1>1, <1>2, <1>7 DEF SystemInv, SystemTypeOK
  <2>4. ASSUME NEW w \in Workers PROVE HeldFits(w)'
    <3>1. knows[w].run \in Nat /\ knows[w].run <= run
      BY DEF SystemInv, SystemTypeOK, HeldSound, HeldFits
    <3>2. knows'[w].run <= run' /\ knows'[w].run # run'
      BY <1>1, <1>2, <1>7, <3>1
    <3> QED
      BY <3>2 DEF HeldFits
  <2> QED
    BY <1>3, <1>4, <1>5, <2>2, <2>3, <2>4 DEF SystemInv, HeldSound
<1> QED
  BY <1>6, <1>7 DEF clear_message_queue

-----------------------------------------------------------------------------
\* The first start: nobody holds or is sent anything.
LEMMA InitSystemInv == SystemInit => SystemInv
<1> SUFFICES ASSUME SystemInit PROVE SystemInv
  OBVIOUS
<1>1. IInv
  BY InitIInv DEF SystemInit
<1>2. /\ Nothing \in Sendings(Bodies)
      /\ \A w \in Workers : Range(Nothing[w]) = {}
  BY NothingTells
<1>3. Range(mail) = {} /\ mail \in Seq(Asks \cup Posts)
  BY EmptySeq DEF SystemInit, Range
<1>4. SystemTypeOK
  BY <1>2, <1>3, SystemAssumption DEF SystemInit, SystemTypeOK, NoToken
<1>5. HeldSound
  BY DEF SystemInit, HeldSound, HeldFits, NoToken
<1> QED
  BY <1>1, <1>2, <1>3, <1>4, <1>5
  DEF SystemInit, SystemInv, ClearingIsIdle, PostingSound, MailSound

\* SystemInv is inductive.
LEMMA StepSystemInv == SystemInv /\ [SystemNext]_systemVars => SystemInv'
<1> SUFFICES ASSUME SystemInv, [SystemNext]_systemVars PROVE SystemInv'
  OBVIOUS
<1>1. ASSUME NEW w \in Workers, NEW ask \in Requests, Ask(w, ask)
      PROVE  SystemInv'
  BY <1>1, AskKeeps DEF Ask
<1>2. ASSUME NEW w \in Workers, Read(w)
      PROVE  SystemInv'
  BY <1>2, ReadKeeps
<1>3. ASSUME NEW w \in Workers, GiveUp(w)
      PROVE  SystemInv'
  BY <1>3, AskKeeps DEF GiveUp
<1>4. ASSUME NEW w \in Workers, Post(w)
      PROVE  SystemInv'
  BY <1>4, PostKeeps
<1>5. CASE Handle
  BY <1>5, HandleKeeps
<1>6. CASE Restart
  BY <1>6, RestartKeeps
<1>7. CASE clear_message_queue
  BY <1>7, ClearKeeps
<1>8. CASE UNCHANGED systemVars
  <2>1. UNCHANGED <<vars, home, run, at, posting, mail, knows>>
    BY <1>8 DEF systemVars
  <2>2. /\ IInv'
        /\ \A m : MailFits(m) => MailFits(m)'
        /\ \A v, t : Owns(v, t) => Owns(v, t)'
        /\ \A v, body : Grants(v, body) => Grants(v, body)'
    BY <2>1, ServerAsBefore
  <2>3. SystemTypeOK' /\ ClearingIsIdle'
    BY <2>1 DEF SystemInv, SystemTypeOK, ClearingIsIdle, vars
  <2>4. PostingSound' /\ MailSound' /\ HeldSound'
    BY <2>1, <2>2 DEF SystemInv, PostingSound, MailSound, HeldSound, HeldFits
  <2> QED
    BY <2>2, <2>3, <2>4 DEF SystemInv
<1> QED
  BY <1>1, <1>2, <1>3, <1>4, <1>5, <1>6, <1>7, <1>8 DEF SystemNext

\* A token noted since the last start of the main server names a session of its
\* holder or none: the counter begins again at 0, but the queue has been emptied
\* of every answer that could still bring a token of before.
THEOREM TokensAreOnesOwn == SystemSpec => []HeldTokenIsMine
<1>1. SystemInv => HeldTokenIsMine
  BY DEF SystemInv, ClearingIsIdle, HeldSound, HeldFits, HeldTokenIsMine, Owns,
         SystemTypeOK
<1>2. SystemInv /\ [SystemNext]_systemVars => SystemInv'
  BY StepSystemInv
<1> QED
  BY <1>1, <1>2, InitSystemInv, PTL DEF SystemSpec

\* In a step that ends a session the message that is handled is from its user,
\* from its worker, or older than the main server.
LEMMA SessionEnds ==
  ASSUME SystemInv, Handle, NEW t \in DOMAIN connected_user_table,
         t \notin DOMAIN connected_user_table'
  PROVE  LET m == mail[FirstFor(MQ_ID_MAIN_SERVER)]
         IN  \/ Stale(m)
             \/ m.ask = "dead" /\ SessionAt(t).mq_id = m.from
             \/ m.ask # "dead" /\ user_table[SessionAt(t).pk].id = home[m.from]
<1> DEFINE i == FirstFor(MQ_ID_MAIN_SERVER)
           m == mail[i]
<1>1. at = "serving" /\ i # 0 /\ Handler(m)
  BY DEF Handle
<1>2. mail \in Seq(Asks \cup Posts)
  BY DEF SystemInv, SystemTypeOK
<1>3. m.to = MQ_ID_MAIN_SERVER /\ m \in Range(mail)
  BY <1>1, <1>2, FirstForPlace
<1> HIDE DEF i, m
<1>4. m \in Asks /\ MailFits(m)
  BY <1>3, MailIsAskOrPost DEF SystemInv, MailSound
<1>5. m.from \in Workers /\ m.ask \in {"sign_in", "sign_out", "lobby", "dead"}
  BY <1>4 DEF Asks, Requests
<1>6. CASE m.ask = "dead"
  <2>1. handle_dead_client_worker(m.from)
    BY <1>1, <1>6 DEF Handler
  <2>2. SessionAt(t).mq_id = m.from
    BY <2>1 DEF handle_dead_client_worker, CarriedBy, Without, SessionAt
  <2> QED
    BY <1>6, <2>2 DEF m, i
<1>7. CASE m.ask = "sign_in"
  <2>1. PICK pk \in AccountsOf(home[m.from]) :
          connected_user_table' = With(Without(connected_user_table, SessionsOf(pk)),
                                       connected, NewSession(pk, m.from))
    BY <1>1, <1>7 DEF Handler, route_sign_in
  <2>2. connected_user_table[t].pk = pk
    BY <2>1 DEF With, Without, SessionsOf
  <2> QED
    BY <1>7, <2>1, <2>2 DEF AccountsOf, SessionAt, m, i
<1>8. CASE m.ask = "sign_out"
  <2>1. t = m.token
    BY <1>1, <1>8 DEF Handler, route_sign_out, InvalidConnection, tables, Without
  <2>2. m.run = run => Owns(m.from, m.token)
    BY <1>1, <1>3, <1>4, <1>8 DEF MailFits
  <2> QED
    BY <1>8, <2>1, <2>2 DEF Owns, Stale, m, i
<1>9. CASE m.ask = "lobby"
  <2>1. route_check_lobby(m.from, m.token)
    BY <1>1, <1>9 DEF Handler
  <2> QED
    BY <2>1 DEF route_check_lobby, InvalidConnection, tables
<1> QED
  BY <1>5, <1>6, <1>7, <1>8, <1>9 DEF m, i

\* Nobody but its own user, or the worker that carries it, ends a session; only a
\* token from before a restart can end that of another.
THEOREM SessionsEndByTheirUsers == SystemSpec => EndedByItsUser
<1>1. SystemInv /\ [SystemNext]_systemVars =>
        [\A t \in DOMAIN connected_user_table \ DOMAIN connected_user_table' :
           at' = "clearing" \/
           LET m == mail[FirstFor(MQ_ID_MAIN_SERVER)]
           IN  \/ Stale(m)
               \/ m.ask = "dead" /\ SessionAt(t).mq_id = m.from
               \/ m.ask # "dead" /\ user_table[SessionAt(t).pk].id = home[m.from]]_systemVars
  <2> SUFFICES ASSUME SystemInv, SystemNext,
                      NEW t \in DOMAIN connected_user_table,
                      t \notin DOMAIN connected_user_table', at' # "clearing"
               PROVE  LET m == mail[FirstFor(MQ_ID_MAIN_SERVER)]
                      IN  \/ Stale(m)
                          \/ m.ask = "dead" /\ SessionAt(t).mq_id = m.from
                          \/ m.ask # "dead" /\ user_table[SessionAt(t).pk].id = home[m.from]
    OBVIOUS
  <2>1. Handle
    BY DEF SystemNext, Ask, Read, GiveUp, Post, Restart, clear_message_queue,
           ServerUnchanged, vars
  <2> QED
    BY <2>1, SessionEnds
<1>2. SystemInv /\ [SystemNext]_systemVars => SystemInv'
  BY StepSystemInv
<1> QED
  BY <1>1, <1>2, InitSystemInv, PTL DEF SystemSpec, EndedByItsUser
=============================================================================
