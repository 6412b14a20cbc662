----------------------------- MODULE Connections -----------------------------
(***************************************************************************)
(* From a client's socket to the main server and back: the listener, one   *)
(* worker process per connection, and the System V queue all processes     *)
(* share.  A worker is known to the main server by the number of its       *)
(* socket, which is the type of the messages for it.                       *)
(*                                                                         *)
(* The clients and the main server are the surroundings here: a client     *)
(* sends whole and half lines and may go away; the main server takes the   *)
(* first message for it, and posts messages to clients it has heard of.    *)
(***************************************************************************)
EXTENDS Integers, Sequences, FiniteSets, SequencesExt

CONSTANTS
  Clients,        \* connections, each made at most once
  FirstFd,        \* the first descriptor accept can return
  LastFd,         \* bound of the descriptors of a process
  QueueSize,      \* messages the queue holds
  PingAfter,      \* 10000 ms: how long a worker waits between two pings
  PongWithin,     \* 5000 ms: how long it waits for an answer
  MaxLines,       \* bound: lines of a client
  MaxPosts,       \* bound: messages posted to a client
  MayClose        \* the clients that may close their connection

MQ_ID_MAIN_SERVER == 3

ASSUME ConnectionAssumption ==
  /\ FirstFd \in Nat /\ LastFd \in Nat /\ FirstFd > MQ_ID_MAIN_SERVER
  /\ QueueSize \in Nat \ {0}
  /\ PingAfter \in Nat /\ PongWithin \in Nat
  /\ MaxLines \in Nat /\ MaxPosts \in Nat
  /\ MayClose \subseteq Clients

VARIABLES
  fds,        \* descriptors of sockets the listener has open
  sock,       \* client -> the socket of its worker, 0 before accept
  at,         \* client -> where its worker is in client_worker_main_loop
  ping_sent,  \* client -> the variable of its worker
  waited,     \* client -> curr - prev of its worker
  inbox,      \* client -> lines it has sent and its worker has not read
  lines,      \* client -> number of lines it has begun
  closed,     \* clients that have closed their connection
  queue,      \* the message queue
  taken,      \* client -> number of the last line of it the main server took
  posted,     \* client -> number of messages posted to it
  shown       \* client -> what has been written to it, pings apart

worker == <<fds, sock, at, ping_sent, waited>>
vars   == <<fds, sock, at, ping_sent, waited, inbox, lines, closed, queue,
            taken, posted, shown>>

Accepted == {c \in Clients : sock[c] # 0}
Alive    == {c \in Accepted : at[c] # "gone"}
LastWord == MaxLines + 1      \* stands for the message with dead # 0

Init ==
  /\ fds = {}
  /\ sock = [c \in Clients |-> 0]
  /\ at = [c \in Clients |-> "ping"]
  /\ ping_sent = [c \in Clients |-> FALSE]
  /\ waited = [c \in Clients |-> 0]
  /\ inbox = [c \in Clients |-> <<>>]
  /\ lines = [c \in Clients |-> 0]
  /\ closed = {}
  /\ queue = <<>>
  /\ taken = [c \in Clients |-> 0]
  /\ posted = [c \in Clients |-> 0]
  /\ shown = [c \in Clients |-> <<>>]

-----------------------------------------------------------------------------
\* The queue.

\* msgsnd with IPC_NOWAIT: what does not fit is lost.
msgsnd(m) == IF Len(queue) < QueueSize THEN Append(queue, m) ELSE queue

\* The message msgrcv finds for a type: the first one, 0 if there is none.
FirstFor(type) == SelectInSeq(queue, LAMBDA m : m.type = type)

-----------------------------------------------------------------------------
\* The listener.

\* The descriptor of accept: the lowest that is not open.
Unused(n) == /\ n \in FirstFd .. LastFd \ fds
             /\ \A k \in FirstFd .. n - 1 : k \in fds

\* Not the code: the listener closes the socket it has handed to the worker.
WrongAccept(c) ==
  /\ sock[c] = 0
  /\ \E n \in FirstFd .. LastFd : Unused(n) /\ sock' = [sock EXCEPT ![c] = n]
  /\ UNCHANGED <<fds, at, ping_sent, waited, inbox, lines, closed, queue, taken, posted, shown>>

\* Not the code: -1 is handed to a worker when accept fails.
WrongUnchecked(c) ==
  /\ sock[c] = 0
  /\ \/ \E n \in FirstFd .. LastFd : /\ Unused(n)
                                     /\ sock' = [sock EXCEPT ![c] = n]
                                     /\ fds' = fds \cup {n}
     \/ /\ FirstFd .. LastFd \subseteq fds
        /\ sock' = [sock EXCEPT ![c] = -1]
        /\ UNCHANGED fds
  /\ UNCHANGED <<at, ping_sent, waited, inbox, lines, closed, queue, taken, posted, shown>>

\* accept and fork.  The listener keeps the socket open for ever; when it has no
\* descriptor left accept fails and the loop goes on.
Accept(c) ==
  /\ sock[c] = 0
  /\ \E n \in FirstFd .. LastFd : /\ Unused(n)
                                  /\ sock' = [sock EXCEPT ![c] = n]
                                  /\ fds' = fds \cup {n}
  /\ UNCHANGED <<at, ping_sent, waited, inbox, lines, closed, queue, taken, posted, shown>>

-----------------------------------------------------------------------------
\* The loop of a worker: ping, socket, queue.

Goes(c, place) == at' = [at EXCEPT ![c] = place]

\* write to a client that has closed its connection: nothing comes of it, or
\* SIGPIPE ends the worker on the spot.
WriteThen(c, place) ==
  \/ Goes(c, place)
  \/ c \in closed /\ Goes(c, "gone")

Overdue(c) == ping_sent[c] /\ waited[c] > PongWithin

\* Not the code: prev = curr in every turn of the loop.
WrongCheckPing(c) ==
  /\ at[c] = "ping"
  /\ \/ /\ ~ping_sent[c] /\ waited[c] > PingAfter
        /\ ping_sent' = [ping_sent EXCEPT ![c] = TRUE]
        /\ WriteThen(c, "socket")
     \/ /\ Overdue(c)
        /\ Goes(c, "last word")
        /\ UNCHANGED ping_sent
     \/ /\ IF ping_sent[c] THEN ~Overdue(c) ELSE waited[c] <= PingAfter
        /\ Goes(c, "socket")
        /\ UNCHANGED ping_sent
  /\ waited' = [waited EXCEPT ![c] = 0]
  /\ UNCHANGED <<fds, sock, inbox, lines, closed, queue, taken, posted, shown>>

CheckPing(c) ==
  /\ at[c] = "ping"
  /\ \/ /\ ~ping_sent[c] /\ waited[c] > PingAfter
        /\ ping_sent' = [ping_sent EXCEPT ![c] = TRUE]
        /\ waited' = [waited EXCEPT ![c] = 0]
        /\ WriteThen(c, "socket")
     \/ /\ Overdue(c)
        /\ Goes(c, "last word")
        /\ UNCHANGED <<ping_sent, waited>>
     \/ /\ IF ping_sent[c] THEN ~Overdue(c) ELSE waited[c] <= PingAfter
        /\ Goes(c, "socket")
        /\ UNCHANGED <<ping_sent, waited>>
  /\ UNCHANGED <<fds, sock, inbox, lines, closed, queue, taken, posted, shown>>

NoBytes(c) ==
  /\ at[c] = "socket" /\ inbox[c] = <<>>
  /\ Goes(c, "queue")
  /\ UNCHANGED <<fds, sock, ping_sent, waited, inbox, lines, closed, queue, taken, posted, shown>>

\* read_line returns when a line is complete, or at the end of the stream.
ReadLine(c) ==
  /\ at[c] = "socket" /\ inbox[c] # <<>>
  /\ LET line == Head(inbox[c])
     IN  /\ line.kind = "half" => c \in closed
         /\ IF ping_sent[c] /\ line.kind = "pong"
            THEN /\ ping_sent' = [ping_sent EXCEPT ![c] = FALSE]
                 /\ UNCHANGED queue
            ELSE /\ queue' = msgsnd([type |-> MQ_ID_MAIN_SERVER, client |-> c,
                                     number |-> line.number])
                 /\ UNCHANGED ping_sent
  /\ inbox' = [inbox EXCEPT ![c] = Tail(@)]
  /\ Goes(c, "queue")
  /\ UNCHANGED <<fds, sock, waited, lines, closed, taken, posted, shown>>

\* Not the code: what check_message_queue answers is not looked at, so that without
\* a message the one in the buffer is written once more.
WrongCheckQueue(c) ==
  /\ at[c] = "queue"
  /\ LET i == FirstFor(sock[c])
     IN  /\ queue' = IF i = 0 THEN queue ELSE RemoveAt(queue, i)
         /\ shown' = [shown EXCEPT ![c] =
              IF i # 0 THEN Append(@, [client |-> queue[i].client, number |-> queue[i].number])
              ELSE IF @ = <<>> THEN @ ELSE Append(@, Last(@))]
         /\ WriteThen(c, "ping")
  /\ UNCHANGED <<fds, sock, ping_sent, waited, inbox, lines, closed, taken, posted>>

CheckQueue(c) ==
  /\ at[c] = "queue"
  /\ LET i == FirstFor(sock[c])
     IN  IF i = 0
         THEN Goes(c, "ping") /\ UNCHANGED <<queue, shown>>
         ELSE /\ queue' = RemoveAt(queue, i)
              /\ shown' = [shown EXCEPT ![c] = Append(@, [client |-> queue[i].client,
                                                          number |-> queue[i].number])]
              /\ WriteThen(c, "ping")
  /\ UNCHANGED <<fds, sock, ping_sent, waited, inbox, lines, closed, taken, posted>>

\* Not the code: a worker that says its last word and goes on.
WrongGoOn(c) ==
  /\ at[c] = "last word"
  /\ queue' = msgsnd([type |-> MQ_ID_MAIN_SERVER, client |-> c, number |-> LastWord])
  /\ Goes(c, "socket")
  /\ UNCHANGED <<fds, sock, ping_sent, waited, inbox, lines, closed, taken, posted, shown>>

\* Not the code: sender and receiver of the last word exchanged.
WrongLastWord(c) ==
  /\ at[c] = "last word"
  /\ queue' = msgsnd([type |-> sock[c], client |-> c, number |-> LastWord])
  /\ Goes(c, "gone")
  /\ UNCHANGED <<fds, sock, ping_sent, waited, inbox, lines, closed, taken, posted, shown>>

\* The loop is over: the message with dead set, and the end of the process.
SayLastWord(c) ==
  /\ at[c] = "last word"
  /\ queue' = msgsnd([type |-> MQ_ID_MAIN_SERVER, client |-> c, number |-> LastWord])
  /\ Goes(c, "gone")
  /\ UNCHANGED <<fds, sock, ping_sent, waited, inbox, lines, closed, taken, posted, shown>>

\* Time passes; beyond the longer limit it makes no difference.
Tick ==
  /\ waited' = [c \in Clients |->
                  IF c \in Alive /\ waited[c] <= PingAfter + PongWithin
                  THEN waited[c] + 1 ELSE waited[c]]
  /\ UNCHANGED <<fds, sock, at, ping_sent, inbox, lines, closed, queue, taken, posted, shown>>

-----------------------------------------------------------------------------
\* The surroundings: clients.

Writing(c) == /\ c \in Accepted \ closed
              /\ UNCHANGED <<fds, sock, at, ping_sent, waited, queue, taken,
                             posted, shown>>

HalfSent(c) == inbox[c] # <<>> /\ Last(inbox[c]).kind = "half"

SendLine(c, kind) ==
  /\ ~HalfSent(c) /\ lines[c] < MaxLines
  /\ lines' = [lines EXCEPT ![c] = @ + 1]
  /\ inbox' = [inbox EXCEPT ![c] = Append(@, [kind |-> kind, number |-> lines'[c]])]
  /\ Writing(c)
  /\ UNCHANGED closed

SendRest(c) ==
  /\ HalfSent(c)
  /\ inbox' = [inbox EXCEPT ![c][Len(inbox[c])].kind = "request"]
  /\ Writing(c)
  /\ UNCHANGED <<lines, closed>>

Close(c) ==
  /\ c \in MayClose
  /\ closed' = closed \cup {c}
  /\ Writing(c)
  /\ UNCHANGED <<inbox, lines>>

-----------------------------------------------------------------------------
\* The surroundings: the main server.

\* msgrcv of main(): a line of a client or the last word of its worker.
TakeMessage ==
  /\ FirstFor(MQ_ID_MAIN_SERVER) # 0
  /\ LET i == FirstFor(MQ_ID_MAIN_SERVER)
     IN  /\ taken' = [taken EXCEPT ![queue[i].client] = queue[i].number]
         /\ queue' = RemoveAt(queue, i)
  /\ UNCHANGED <<fds, sock, at, ping_sent, waited, inbox, lines, closed, posted, shown>>

\* An answer, or an announcement some other client or a timer gave rise to, for
\* a client that has been heard of; the sessions of a worker may outlive it.
PostMessage(c) ==
  /\ taken[c] # 0 /\ posted[c] < MaxPosts
  /\ posted' = [posted EXCEPT ![c] = @ + 1]
  /\ queue' = msgsnd([type |-> sock[c], client |-> c, number |-> posted'[c]])
  /\ UNCHANGED <<fds, sock, at, ping_sent, waited, inbox, lines, closed, taken, shown>>

-----------------------------------------------------------------------------
client_worker_main_loop(c) ==
  /\ c \in Accepted
  /\ CheckPing(c) \/ NoBytes(c) \/ ReadLine(c) \/ CheckQueue(c) \/ SayLastWord(c)

Client(c) ==
  \/ \E kind \in {"request", "pong", "half"} : SendLine(c, kind)
  \/ SendRest(c)
  \/ Close(c)

Next ==
  \/ \E c \in Clients : \/ Accept(c)
                         \/ client_worker_main_loop(c)
                         \/ Client(c)
                         \/ PostMessage(c)
  \/ Tick
  \/ TakeMessage

Spec == Init /\ [][Next]_vars

\* The processes run, the clock goes, and the main server is at msgrcv again and
\* again.  Nobody else owes anything.
Fairness ==
  /\ \A c \in Clients : WF_vars(client_worker_main_loop(c))
  /\ WF_vars(Tick)
  /\ WF_vars(TakeMessage)

FairSpec == Spec /\ Fairness

-----------------------------------------------------------------------------
Sockets == FirstFd .. LastFd
Words   == [kind : {"request", "pong", "half"}, number : 1 .. MaxLines]
Mails   == [type : {MQ_ID_MAIN_SERVER} \cup Sockets, client : Clients, number : Nat]

\* Type correctness; the worker of every connection has a descriptor that is
\* open in the listener, and every message a type that somebody reads.
ConnTypeOK ==
  /\ fds \subseteq Sockets
  /\ sock \in [Clients -> fds \cup {0}]
  /\ at \in [Clients -> {"ping", "socket", "queue", "last word", "gone"}]
  /\ ping_sent \in [Clients -> BOOLEAN]
  /\ waited \in [Clients -> Nat]
  /\ inbox \in [Clients -> Seq(Words)]
  /\ lines \in [Clients -> 0 .. MaxLines]
  /\ closed \subseteq Clients
  /\ queue \in Seq(Mails)
  /\ taken \in [Clients -> 0 .. LastWord]
  /\ posted \in [Clients -> 0 .. MaxPosts]
  /\ shown \in [Clients -> Seq([client : Clients, number : Nat])]

\* A client is shown nothing but messages meant for it.  The main server knows
\* a client by the number of a socket, and may hold on to that number long after
\* the worker has gone: no later worker may have the same.
MailIsMine ==
  \A c \in Clients : \A i \in DOMAIN shown[c] : shown[c][i].client = c

\* What is shown to a client appears in the order in which it was posted, with
\* gaps where the queue was full, and never twice.
MailInOrder ==
  \A c \in Clients : \A i, j \in DOMAIN shown[c] :
    i < j => shown[c][i].number < shown[c][j].number

\* The main server takes the lines of a client in the order in which they were
\* sent, none of them twice, and nothing after the last word of the worker: a
\* session that handle_dead_client_worker has removed cannot be made again by a
\* request still on its way.
RequestsInOrder ==
  [][\A c \in Clients : taken'[c] # taken[c] => taken[c] < taken'[c]]_vars

\* The worker waits in read_line for the rest of a line.
StuckOnHalf(c) == inbox[c] # <<>> /\ Head(inbox[c]).kind = "half"

\* A worker whose client has fallen silent gives up in the end, whatever the
\* client has sent before and whether or not pongs were among it; unless it waits
\* for the rest of a line.
SilentClientIsDropped ==
  \A c \in Clients :
    c \in Accepted ~> (at[c] = "gone" \/ StuckOnHalf(c))

\* The last word of the worker is in the queue.
LastWordSent(c) ==
  \E i \in DOMAIN queue :
    queue[i] = [type |-> MQ_ID_MAIN_SERVER, client |-> c, number |-> LastWord]

\* A worker that goes says its last word first, and the main server hears of it, unless
\* the queue is full at that moment or the worker is killed by a client that has closed
\* its connection.
LastWordIsHeard ==
  /\ [][\A c \in Clients :
           at[c] # "gone" /\ at'[c] = "gone" =>
             LastWordSent(c)' \/ Len(queue) = QueueSize \/ c \in closed]_vars
  /\ \A c \in Clients : LastWordSent(c) ~> taken[c] = LastWord
=============================================================================
