----------------------------- MODULE QuizSystem -----------------------------
(***************************************************************************)
(* The main server behind its message queue: clients ask through their     *)
(* workers, the queue is bounded and loses what does not fit, the handlers *)
(* of GameServer answer through it one message at a time, workers give up, *)
(* and the main server may die and be started again while the listener,    *)
(* the workers, the queue and what clients have noted live on.             *)
(*                                                                         *)
(* Of the requests those about sessions are followed; a client signs in    *)
(* under one account and uses the last token it has read.                  *)
(***************************************************************************)
EXTENDS GameServer, SequencesExt

CONSTANTS
  Homes,         \* ways for clients to have accounts, see home
  QueueSize,     \* messages the queue holds
  MaxRuns        \* bound: starts of the main server

MQ_ID_MAIN_SERVER == 3

\* A worker is its socket, which comes after the one the listener listens on.
ASSUME SystemAssumption ==
  /\ Homes \subseteq [Workers -> Ids]
  /\ MQ_ID_MAIN_SERVER \notin Workers
  /\ QueueSize \in Nat \ {0}
  /\ MaxRuns \in Nat \ {0}

VARIABLES
  home,       \* worker -> the account its client signs in under
  run,        \* how often the main server has been started
  at,         \* where it is: "serving", or "clearing" the queue it found
  posting,    \* what the last handler has still to hand to the queue
  mail,       \* the message queue
  knows,      \* worker -> the token its client holds and the run it was read in
  gone        \* workers that have given up

systemVars == <<vars, home, run, at, posting, mail, knows, gone>>

NoToken == [token |-> -1, run |-> 0]

SystemInit ==
  /\ Init
  /\ home \in Homes
  /\ run = 1
  /\ at = "serving"
  /\ posting = Nothing
  /\ mail = <<>>
  /\ knows = [w \in Workers |-> NoToken]
  /\ gone = {}

Full == Len(mail) >= QueueSize

\* send_message_to_queue: msgsnd with IPC_NOWAIT, whose failure nobody looks at.
Mailed(m) == IF Full THEN mail ELSE Append(mail, m)

\* check_message_queue: the place of the first message of a type, 0 for none.
FirstFor(type) == SelectInSeq(mail, LAMBDA m : m.to = type)

-----------------------------------------------------------------------------
\* Clients and their workers.

ServerUnchanged == UNCHANGED <<vars, home, run, at, posting>>

\* send_message_to_main_server; run is when the token in it was read.
Asking(w, ask) == [to |-> MQ_ID_MAIN_SERVER, from |-> w, ask |-> ask,
                     token |-> knows[w].token, run |-> knows[w].run]

IsSignIn(m) == m.to = MQ_ID_MAIN_SERVER /\ m.ask = "sign_in"

\* Bound: no more sign-ins are on their way than there are tokens.
TokensLeft ==
  connected + Cardinality({i \in DOMAIN mail : IsSignIn(mail[i])}) < MaxTokens

Ask(w, ask) ==
  /\ w \notin gone
  /\ ask = "sign_in" => TokensLeft
  /\ ask # "sign_in" => knows[w] # NoToken
  /\ mail' = Mailed(Asking(w, ask))
  /\ ServerUnchanged
  /\ UNCHANGED <<knows, gone>>

\* A worker passes a message on; the client notes the token of a sign-in.
Read(w) ==
  /\ w \notin gone
  /\ FirstFor(w) # 0
  /\ LET i    == FirstFor(w)
         body == mail[i].body
     IN  /\ mail' = RemoveAt(mail, i)
         /\ knows' = IF body.result = "OK_SIGN_IN"
                     THEN [knows EXCEPT ![w] = [token |-> body.access_token, run |-> run]]
                     ELSE knows
  /\ ServerUnchanged
  /\ UNCHANGED gone

\* The end of client_worker_main_loop.
GiveUp(w) ==
  /\ w \notin gone
  /\ gone' = gone \cup {w}
  /\ mail' = Mailed(Asking(w, "dead"))
  /\ ServerUnchanged
  /\ UNCHANGED knows

-----------------------------------------------------------------------------
\* The main server.

Handler(m) ==
  CASE m.ask = "dead"     -> handle_dead_client_worker(m.from)
    [] m.ask = "sign_in"  -> route_sign_in(m.from, home[m.from], TRUE)
    [] m.ask = "sign_out" -> route_sign_out(m.from, m.token)
    [] m.ask = "lobby"    -> route_check_lobby(m.from, m.token)

\* A turn of the loop of main() with a message; the last one is out of the way.
Handle ==
  /\ at = "serving" /\ posting = Nothing
  /\ FirstFor(MQ_ID_MAIN_SERVER) # 0
  /\ LET i == FirstFor(MQ_ID_MAIN_SERVER)
     IN  /\ Handler(mail[i])
         /\ mail' = RemoveAt(mail, i)
  /\ posting' = out'
  /\ UNCHANGED <<home, run, at, knows, gone>>

\* Not the code: msgsnd without IPC_NOWAIT.
WrongPost(w) ==
  /\ posting[w] # <<>>
  /\ ~Full
  /\ mail' = Mailed([to |-> w, body |-> Head(posting[w]), run |-> run])
  /\ posting' = [posting EXCEPT ![w] = Tail(@)]
  /\ UNCHANGED <<vars, home, run, at, knows, gone>>

\* One message of the handler reaches the queue, or is lost.
Post(w) ==
  /\ posting[w] # <<>>
  /\ mail' = Mailed([to |-> w, body |-> Head(posting[w]), run |-> run])
  /\ posting' = [posting EXCEPT ![w] = Tail(@)]
  /\ UNCHANGED <<vars, home, run, at, knows, gone>>

-----------------------------------------------------------------------------
\* Death and restart of the main server.

\* Its tables go, and with them the counter behind the tokens; what the handler
\* had not yet handed to the queue goes too.  user_table comes back from
\* Member.txt (load_user_data).
Restart ==
  /\ run < MaxRuns /\ at = "serving"
  /\ at' = "clearing"
  /\ posting' = Nothing
  /\ connected' = 0
  /\ connected_user_table' = <<>>
  /\ game_room_table' = <<>>
  /\ next_pk_room' = 1
  /\ pending' = {} /\ elapsed' = 0 /\ out' = Nothing
  /\ UNCHANGED <<user_table, home, run, mail, knows, gone>>

\* Not the code: only what is meant for the main server is cleared.
WrongClear ==
  /\ at = "clearing"
  /\ \/ /\ FirstFor(MQ_ID_MAIN_SERVER) # 0
        /\ mail' = RemoveAt(mail, FirstFor(MQ_ID_MAIN_SERVER))
        /\ UNCHANGED <<run, at>>
     \/ /\ FirstFor(MQ_ID_MAIN_SERVER) = 0
        /\ run' = run + 1 /\ at' = "serving"
        /\ UNCHANGED mail
  /\ UNCHANGED <<vars, home, posting, knows, gone>>

\* clear_message_queue takes messages of any type until it finds none.
clear_message_queue ==
  /\ at = "clearing"
  /\ \/ /\ mail # <<>>
        /\ mail' = Tail(mail)
        /\ UNCHANGED <<run, at>>
     \/ /\ mail = <<>>
        /\ run' = run + 1 /\ at' = "serving"
        /\ UNCHANGED mail
  /\ UNCHANGED <<vars, home, posting, knows, gone>>

Requests == {"sign_in", "sign_out", "lobby"}

SystemNext ==
  \/ \E w \in Workers : \/ \E ask \in Requests : Ask(w, ask)
                        \/ Read(w)
                        \/ GiveUp(w)
                        \/ Post(w)
  \/ Handle
  \/ Restart
  \/ clear_message_queue

SystemSpec == SystemInit /\ [][SystemNext]_systemVars

\* Every process that can run does; clients owe nothing.
SystemFairness ==
  /\ \A w \in Workers : WF_systemVars(Read(w)) /\ WF_systemVars(Post(w))
  /\ WF_systemVars(Handle)
  /\ WF_systemVars(clear_message_queue)

FairSystem == SystemSpec /\ SystemFairness

-----------------------------------------------------------------------------
SessionAt(t) == connected_user_table[t]

\* A token that a client has read since the main server was last started names,
\* if it names a session at all, a session of its own account and worker:
\* though the counter starts again at 0, no answer of an earlier run is
\* read in this one, because the queue is emptied of every type before the
\* first message is taken.
HeldTokenIsMine ==
  \A w \in Workers :
    (knows[w].run = run /\ knows[w].token \in DOMAIN connected_user_table) =>
      LET t == knows[w].token
      IN  /\ user_table[SessionAt(t).pk].id = home[w]
          /\ SessionAt(t).mq_id = w

\* Requests of a client whose token is older than the main server.
Stale(m) == m.ask = "sign_out" /\ m.run # run

\* A session ends through a message of its own user: he signs out, signs in
\* again from anywhere, or the worker that carries the session gives up.  The
\* exceptions are a restart and the sign-out of a client that still holds a
\* token from before the restart: it ends the session that has that token now.
EndedByItsUser ==
  [][\A t \in DOMAIN connected_user_table \ DOMAIN connected_user_table' :
       at' = "clearing" \/
       LET m == mail[FirstFor(MQ_ID_MAIN_SERVER)]
       IN  \/ Stale(m)
           \/ m.ask = "dead" /\ SessionAt(t).mq_id = m.from
           \/ m.ask # "dead" /\ user_table[SessionAt(t).pk].id = home[m.from]]_systemVars

\* A full queue does not stay full: nobody waits for room in it, so everyone
\* goes on taking out.  Messages for a worker that has gone stay for ever, so
\* this ends with the first such worker.
QueueDrains == Full ~> (~Full \/ gone # {})
=============================================================================
