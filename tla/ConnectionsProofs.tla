-------------------------- MODULE ConnectionsProofs --------------------------
(***************************************************************************)
(* Nobody reads the mail of another, and everything a client says or is    *)
(* told keeps its order: for every number of connections and descriptors,  *)
(* every size of the queue and every limit of time.                        *)
(***************************************************************************)
EXTENDS Connections, SequenceLemmas

-----------------------------------------------------------------------------
\* The inductive invariant.

\* No two workers have the same socket.
SocketsDistinct ==
  \A c, d \in Clients : sock[c] # 0 /\ sock[c] = sock[d] => c = d

\* What the main server has taken of a client comes before what its worker has
\* still to read, until the last word has been said.
HeardInOrder(c) ==
  /\ taken[c] # 0 => sock[c] # 0
  /\ \A k \in DOMAIN inbox[c] : inbox[c][k].number <= lines[c]
  /\ \A k, l \in DOMAIN inbox[c] : k < l => inbox[c][k].number < inbox[c][l].number
  /\ at[c] # "gone" => /\ taken[c] <= lines[c]
                       /\ \A k \in DOMAIN inbox[c] : taken[c] < inbox[c][k].number

\* What a client has been shown is its own, has been posted, and in this order.
ShownInOrder(c) ==
  /\ \A k \in DOMAIN shown[c] : /\ shown[c][k].client = c
                                /\ shown[c][k].number <= posted[c]
  /\ \A k, l \in DOMAIN shown[c] : k < l => shown[c][k].number < shown[c][l].number

\* A message from a client lies between what has been taken and what has not
\* been read, one to a client between what is shown and what has been posted.
InPlace(m) ==
  LET c == m.client
  IN  /\ sock[c] # 0
      /\ m.type \in {MQ_ID_MAIN_SERVER, sock[c]}
      /\ m.type = MQ_ID_MAIN_SERVER =>
           /\ taken[c] < m.number /\ m.number <= LastWord
           /\ at[c] # "gone" =>
                /\ m.number <= lines[c]
                /\ \A k \in DOMAIN inbox[c] : m.number < inbox[c][k].number
      /\ m.type # MQ_ID_MAIN_SERVER =>
           /\ m.number <= posted[c]
           /\ \A k \in DOMAIN shown[c] : shown[c][k].number < m.number

Before(m, n) == m.type = n.type /\ m.client = n.client => m.number < n.number

Ordered(q) == \A i, j \in DOMAIN q : i < j => Before(q[i], q[j])

ConnInv ==
  /\ ConnTypeOK
  /\ SocketsDistinct
  /\ \A c \in Clients : HeardInOrder(c) /\ ShownInOrder(c)
  /\ \A i \in DOMAIN queue : InPlace(queue[i])
  /\ Ordered(queue)

-----------------------------------------------------------------------------
\* The queue.

\* A message that comes after all it is to come after keeps the queue in order,
\* whether it is sent or lost.
LEMMA MessageSent ==
  ASSUME queue \in Seq(Mails), Ordered(queue), NEW m \in Mails,
         \A i \in DOMAIN queue : Before(queue[i], m), queue' = msgsnd(m)
  PROVE  /\ queue' \in Seq(Mails)
         /\ Ordered(queue')
         /\ \A i \in DOMAIN queue' : \/ queue'[i] = m
                                     \/ \E j \in DOMAIN queue : queue'[i] = queue[j]
<1>1. CASE queue' = queue
  BY <1>1
<1>2. CASE queue' = Append(queue, m)
  <2>1. /\ queue' \in Seq(Mails)
        /\ DOMAIN queue' = DOMAIN queue \cup {Len(queue) + 1}
        /\ \A i \in DOMAIN queue' :
             IF i \in DOMAIN queue THEN i < Len(queue) + 1 /\ queue'[i] = queue[i]
                                   ELSE i = Len(queue) + 1 /\ queue'[i] = m
    BY <1>2, AppendedPlaces
  <2>2. Len(queue) \in Nat /\ DOMAIN queue = 1 .. Len(queue)
    BY PlacesOf
  <2>3. ASSUME NEW i \in DOMAIN queue', NEW j \in DOMAIN queue', i < j
        PROVE  Before(queue'[i], queue'[j])
    <3>1. i \in DOMAIN queue
      BY <2>1, <2>2, <2>3
    <3>2. CASE j \in DOMAIN queue
      BY <2>1, <2>3, <3>1, <3>2 DEF Ordered
    <3>3. CASE j \notin DOMAIN queue
      BY <2>1, <3>1, <3>3
    <3> QED
      BY <3>2, <3>3
  <2>4. Ordered(queue')
    BY <2>3 DEF Ordered
  <2> QED
    BY <2>1, <2>4
<1> QED
  BY <1>1, <1>2 DEF msgsnd

\* msgrcv takes the first message of its type: the queue stays in order, and all
\* messages of that type that are left come after it.
LEMMA MessageTaken ==
  ASSUME queue \in Seq(Mails), Ordered(queue), NEW t, FirstFor(t) # 0,
         queue' = RemoveAt(queue, FirstFor(t))
  PROVE  /\ FirstFor(t) \in DOMAIN queue
         /\ queue[FirstFor(t)].type = t
         /\ queue' \in Seq(Mails)
         /\ Ordered(queue')
         /\ \A k \in DOMAIN queue' : \E j \in DOMAIN queue :
              /\ queue'[k] = queue[j]
              /\ queue[j].type = t => Before(queue[FirstFor(t)], queue[j])
<1> DEFINE I == {i \in 1 .. Len(queue) : queue[i].type = t}
           i0 == FirstFor(t)
<1>1. Len(queue) \in Nat /\ DOMAIN queue = 1 .. Len(queue)
  BY PlacesOf
<1>2. FirstFor(t) = IF I # {} THEN Min(I) ELSE 0
  BY DEF FirstFor, SelectInSeq
<1>3. I # {} /\ I \subseteq Nat /\ i0 = Min(I)
  BY <1>1, <1>2
<1>4. i0 \in I /\ \A i \in I : i0 <= i
  BY <1>3, MinOfNaturals
<1>5. i0 \in 1 .. Len(queue) /\ queue[i0].type = t
  BY <1>4
<1> HIDE DEF i0
<1>6. /\ queue' \in Seq(Mails)
      /\ Len(queue') = Len(queue) - 1
      /\ \A k \in 1 .. Len(queue) - 1 : queue'[k] = IF k < i0 THEN queue[k] ELSE queue[k + 1]
  BY <1>5, RemoveAtProperties DEF i0
<1>7. DOMAIN queue' = 1 .. Len(queue) - 1
  BY <1>6, PlacesOf
<1> DEFINE place(k) == IF k < i0 THEN k ELSE k + 1
<1>8. \A k \in DOMAIN queue' : /\ place(k) \in DOMAIN queue
                               /\ place(k) # i0
                               /\ queue'[k] = queue[place(k)]
  BY <1>1, <1>5, <1>6, <1>7
<1>9. \A k, l \in DOMAIN queue' : k < l => place(k) < place(l)
  BY <1>1, <1>5, <1>7
<1> HIDE DEF place
<1>10. Ordered(queue')
  BY <1>8, <1>9 DEF Ordered
<1>11. ASSUME NEW j \in DOMAIN queue, j # i0, queue[j].type = t
       PROVE  Before(queue[i0], queue[j])
  <2>1. i0 <= j
    BY <1>1, <1>4, <1>11
  <2>2. i0 < j
    BY <1>1, <1>5, <1>11, <2>1
  <2> QED
    BY <1>1, <1>5, <2>2 DEF Ordered
<1>12. \A k \in DOMAIN queue' : \E j \in DOMAIN queue :
         queue'[k] = queue[j] /\ (queue[j].type = t => Before(queue[i0], queue[j]))
  BY <1>8, <1>11
<1> QED
  BY <1>1, <1>5, <1>6, <1>10, <1>12 DEF i0

\* A message in the queue is from or to a client.
LEMMA MessagesAreMails ==
  ASSUME ConnTypeOK, NEW i \in DOMAIN queue
  PROVE  /\ queue[i] \in Mails
         /\ queue[i].client \in Clients
         /\ queue[i].number \in Nat
<1>1. queue \in Seq(Mails)
  BY DEF ConnTypeOK
<1>2. queue[i] \in Mails
  BY <1>1, PlacesOf
<1> QED
  BY <1>2 DEF Mails

\* Descriptors are none of the numbers with a meaning of their own.
LEMMA SocketNumbers ==
  ASSUME ConnTypeOK, NEW c \in Clients, sock[c] # 0
  PROVE  sock[c] \in Sockets /\ sock[c] # MQ_ID_MAIN_SERVER
<1>1. sock[c] \in Sockets
  BY DEF ConnTypeOK
<1> QED
  BY <1>1, ConnectionAssumption DEF Sockets, MQ_ID_MAIN_SERVER

\* The numbers of lines and messages are numbers, the last word the greatest.
LEMMA ClientNumbers ==
  ASSUME ConnTypeOK, NEW c \in Clients
  PROVE  /\ lines[c] \in Int /\ taken[c] \in Int /\ posted[c] \in Int /\ LastWord \in Nat
         /\ lines[c] < LastWord
         /\ inbox[c] \in Seq(Words)
         /\ \A k \in DOMAIN inbox[c] : /\ inbox[c][k] \in Words
                                      /\ inbox[c][k].number \in Nat
<1>1. /\ lines[c] \in 0 .. MaxLines
      /\ taken[c] \in 0 .. LastWord
      /\ posted[c] \in 0 .. MaxPosts
      /\ inbox[c] \in Seq(Words)
  BY DEF ConnTypeOK
<1>2. /\ lines[c] \in Int /\ taken[c] \in Int /\ posted[c] \in Int
      /\ LastWord \in Nat /\ lines[c] < LastWord
  BY <1>1, ConnectionAssumption DEF LastWord
<1>3. \A k \in DOMAIN inbox[c] : inbox[c][k] \in Words
  BY <1>1, PlacesOf
<1>4. \A w \in Words : w.number \in Nat
  BY ConnectionAssumption DEF Words
<1> QED
  BY <1>1, <1>2, <1>3, <1>4

-----------------------------------------------------------------------------
\* One lemma per step.

LEMMA InitConnInv == Init => ConnInv
<1> SUFFICES ASSUME Init PROVE ConnInv
  OBVIOUS
<1>1. /\ <<>> \in Seq(Words) /\ <<>> \in Seq(Mails)
      /\ <<>> \in Seq([client : Clients, number : Nat])
  BY EmptySeq
<1>2. ConnTypeOK
  BY <1>1, ConnectionAssumption DEF Init, ConnTypeOK, LastWord
<1> QED
  BY <1>2, ConnectionAssumption
     DEF Init, ConnInv, SocketsDistinct, HeardInOrder, ShownInOrder, Ordered

\* A step that moves no message keeps the mail in place; sockets may be added
\* and workers may go.
LEMMA MailStays ==
  ASSUME ConnInv, ConnTypeOK', SocketsDistinct',
         UNCHANGED <<inbox, lines, queue, taken, posted, shown>>,
         \A c \in Clients : sock[c] # 0 => sock'[c] = sock[c],
         \A c \in Clients : at'[c] # "gone" => at[c] # "gone"
  PROVE  ConnInv'
<1>1. \A c \in Clients : HeardInOrder(c)' /\ ShownInOrder(c)'
  BY DEF ConnInv, HeardInOrder, ShownInOrder
<1>2. ASSUME NEW i \in DOMAIN queue
      PROVE  InPlace(queue[i])'
  <2>1. queue[i].client \in Clients
    BY MessagesAreMails DEF ConnInv
  <2> QED
    BY <2>1 DEF ConnInv, InPlace
<1>3. Ordered(queue')
  BY DEF ConnInv, Ordered
<1> QED
  BY <1>1, <1>2, <1>3 DEF ConnInv

\* accept returns a descriptor that no worker has.
LEMMA AcceptKeeps ==
  ASSUME ConnInv, NEW c \in Clients, Accept(c)
  PROVE  ConnInv'
<1>1. PICK n \in Sockets : /\ n \notin fds
                           /\ sock' = [sock EXCEPT ![c] = n]
                           /\ fds' = fds \cup {n}
  BY DEF Accept, Unused, Sockets
<1>2. ConnTypeOK'
  BY <1>1 DEF ConnInv, ConnTypeOK, Accept
<1>3. \A d \in Clients : sock'[d] = IF d = c THEN n ELSE sock[d]
  BY <1>1 DEF ConnInv, ConnTypeOK
<1>4. \A d \in Clients : sock[d] # n \/ n = 0
  BY <1>1 DEF ConnInv, ConnTypeOK
<1>5. n # 0
  BY <1>1, ConnectionAssumption DEF Sockets, MQ_ID_MAIN_SERVER
<1>6. SocketsDistinct'
  BY <1>3, <1>4, <1>5 DEF ConnInv, SocketsDistinct
<1>7. /\ \A d \in Clients : sock[d] # 0 => sock'[d] = sock[d]
      /\ \A d \in Clients : at'[d] # "gone" => at[d] # "gone"
      /\ UNCHANGED <<inbox, lines, queue, taken, posted, shown>>
  BY <1>3 DEF Accept
<1> QED
  BY <1>2, <1>6, <1>7, MailStays

\* The test for a ping and the look at an empty socket move no message.
LEMMA PingKeeps ==
  ASSUME ConnInv, NEW c \in Clients, CheckPing(c) \/ NoBytes(c)
  PROVE  ConnInv'
<1>1. /\ UNCHANGED <<fds, sock, inbox, lines, closed, queue, taken, posted, shown>>
      /\ at[c] # "gone"
      /\ \E place \in {"socket", "queue", "last word", "gone"} :
           at' = [at EXCEPT ![c] = place]
  BY DEF CheckPing, NoBytes, WriteThen, Goes
<1>2. ping_sent' \in [Clients -> BOOLEAN] /\ waited' \in [Clients -> Nat]
  <2>1. ping_sent \in [Clients -> BOOLEAN] /\ waited \in [Clients -> Nat]
    BY DEF ConnInv, ConnTypeOK
  <2>2. ping_sent' \in {ping_sent, [ping_sent EXCEPT ![c] = TRUE]}
    BY DEF CheckPing, NoBytes
  <2>3. waited' \in {waited, [waited EXCEPT ![c] = 0]}
    BY DEF CheckPing, NoBytes
  <2>4. [ping_sent EXCEPT ![c] = TRUE] \in [Clients -> BOOLEAN]
    BY <2>1
  <2>5. [waited EXCEPT ![c] = 0] \in [Clients -> Nat]
    BY <2>1
  <2> QED
    BY <2>1, <2>2, <2>3, <2>4, <2>5
<1>3. ConnTypeOK'
  BY <1>1, <1>2 DEF ConnInv, ConnTypeOK
<1>4. SocketsDistinct'
  BY <1>1 DEF ConnInv, SocketsDistinct
<1>5. \A d \in Clients : at'[d] # "gone" => at[d] # "gone"
  BY <1>1 DEF ConnInv, ConnTypeOK
<1> QED
  BY <1>1, <1>3, <1>4, <1>5, MailStays

\* Nor does the clock, nor a client that goes.
LEMMA TickKeeps ==
  ASSUME ConnInv, Tick \/ \E c \in Clients : Close(c)
  PROVE  ConnInv'
<1>1. UNCHANGED <<fds, sock, at, ping_sent, inbox, lines, queue, taken, posted, shown>>
  BY DEF Tick, Close, Writing
<1>2. waited' \in [Clients -> Nat] /\ closed' \subseteq Clients
  <2>1. waited \in [Clients -> Nat] /\ closed \subseteq Clients
    BY DEF ConnInv, ConnTypeOK
  <2>2. CASE Tick
    BY <2>1, <2>2 DEF Tick
  <2>3. CASE \E c \in Clients : Close(c)
    BY <2>1, <2>3 DEF Close, Writing
  <2> QED
    BY <2>2, <2>3
<1>3. ConnTypeOK'
  BY <1>1, <1>2 DEF ConnInv, ConnTypeOK
<1>4. SocketsDistinct'
  BY <1>1 DEF ConnInv, SocketsDistinct
<1> QED
  BY <1>1, <1>3, <1>4, MailStays

\* The rest of a half line changes no number.
LEMMA SendRestKeeps ==
  ASSUME ConnInv, NEW c \in Clients, SendRest(c)
  PROVE  ConnInv'
<1> DEFINE n == Len(inbox[c])
<1>1. /\ inbox[c] \in Seq(Words) /\ inbox[c] # <<>>
      /\ n \in DOMAIN inbox[c] /\ DOMAIN inbox[c] = 1 .. n
      /\ inbox[c][n] \in Words
  <2>1. inbox[c] \in Seq(Words) /\ inbox[c] # <<>>
    BY DEF ConnInv, ConnTypeOK, SendRest, HalfSent
  <2>2. n \in Nat \ {0}
    BY <2>1, EmptySeq
  <2> QED
    BY <2>1, <2>2, PlacesOf
<1> DEFINE line == [inbox[c][n] EXCEPT !.kind = "request"]
           mended == [inbox[c] EXCEPT ![n] = line]
<1>2. line \in Words /\ line.number = inbox[c][n].number
  BY <1>1 DEF Words
<1>3. inbox' = [inbox EXCEPT ![c] = mended]
  BY DEF SendRest
<1> HIDE DEF line
<1>4. /\ mended \in Seq(Words) /\ DOMAIN mended = DOMAIN inbox[c]
      /\ \A k \in DOMAIN inbox[c] : mended[k].number = inbox[c][k].number
  BY <1>1, <1>2, ExceptSeq
<1> HIDE DEF mended
<1>5. UNCHANGED <<fds, sock, at, ping_sent, waited, queue, taken, posted, shown, lines, closed>>
  BY DEF SendRest, Writing
<1>6. \A d \in Clients : /\ DOMAIN inbox'[d] = DOMAIN inbox[d]
                         /\ \A k \in DOMAIN inbox[d] : inbox'[d][k].number = inbox[d][k].number
  BY <1>3, <1>4 DEF ConnInv, ConnTypeOK
<1>7. ConnTypeOK'
  BY <1>3, <1>4, <1>5 DEF ConnInv, ConnTypeOK
<1>8. \A d \in Clients : HeardInOrder(d)' /\ ShownInOrder(d)'
  BY <1>5, <1>6 DEF ConnInv, HeardInOrder, ShownInOrder
<1>9. ASSUME NEW i \in DOMAIN queue
      PROVE  InPlace(queue[i])'
  <2>1. queue[i].client \in Clients
    BY MessagesAreMails DEF ConnInv
  <2> QED
    BY <1>5, <1>6, <2>1 DEF ConnInv, InPlace
<1> QED
  BY <1>5, <1>7, <1>8, <1>9 DEF ConnInv, SocketsDistinct, Ordered

\* A new line has a number above all that are on their way.
LEMMA SendLineKeeps ==
  ASSUME ConnInv, NEW c \in Clients, NEW kind \in {"request", "pong", "half"},
         SendLine(c, kind)
  PROVE  ConnInv'
<1> DEFINE line == [kind |-> kind, number |-> lines[c] + 1]
           more == Append(inbox[c], line)
<1>1. /\ UNCHANGED <<fds, sock, at, ping_sent, waited, queue, taken, posted, shown, closed>>
      /\ sock[c] # 0
  BY DEF SendLine, Writing, Accepted
<1>2. /\ lines[c] \in 0 .. MaxLines /\ lines[c] < MaxLines
      /\ lines' = [lines EXCEPT ![c] = lines[c] + 1]
      /\ inbox' = [inbox EXCEPT ![c] = Append(@, [kind |-> kind, number |-> lines'[c]])]
  BY DEF ConnInv, ConnTypeOK, SendLine
<1>3. /\ lines' \in [Clients -> 0 .. MaxLines]
      /\ \A d \in Clients : lines'[d] = IF d = c THEN lines[c] + 1 ELSE lines[d]
  <2>1. lines[c] + 1 \in 0 .. MaxLines
    BY <1>2, ConnectionAssumption
  <2>2. lines \in [Clients -> 0 .. MaxLines]
    BY DEF ConnInv, ConnTypeOK
  <2> QED
    BY <1>2, <2>1, <2>2
<1>4. line \in Words
  BY <1>2, ConnectionAssumption DEF Words
<1>5. inbox[c] \in Seq(Words) /\ inbox' = [inbox EXCEPT ![c] = more]
  BY <1>2, <1>3 DEF ConnInv, ConnTypeOK
<1>6. /\ more \in Seq(Words)
      /\ \A k \in DOMAIN more : IF k \in DOMAIN inbox[c]
                                THEN k < Len(inbox[c]) + 1 /\ more[k] = inbox[c][k]
                                ELSE k = Len(inbox[c]) + 1 /\ more[k] = line
  BY <1>4, <1>5, AppendedPlaces
<1>7. line.number = lines[c] + 1 /\ lines[c] \in Nat
  BY <1>2
<1> HIDE DEF line, more
<1>8. \A d \in Clients : inbox'[d] = IF d = c THEN more ELSE inbox[d]
  BY <1>5 DEF ConnInv, ConnTypeOK
<1>9. ConnTypeOK'
  BY <1>1, <1>3, <1>5, <1>6 DEF ConnInv, ConnTypeOK
<1>10. HeardInOrder(c)'
  <2>1. /\ taken[c] # 0 => sock[c] # 0
        /\ \A k \in DOMAIN inbox[c] : inbox[c][k].number <= lines[c]
        /\ \A k, l \in DOMAIN inbox[c] : k < l => inbox[c][k].number < inbox[c][l].number
        /\ at[c] # "gone" => /\ taken[c] <= lines[c]
                             /\ \A k \in DOMAIN inbox[c] : taken[c] < inbox[c][k].number
    BY DEF ConnInv, HeardInOrder
  <2>2. /\ taken[c] \in Int
        /\ \A k \in DOMAIN inbox[c] : inbox[c][k].number \in Int
        /\ DOMAIN inbox[c] = 1 .. Len(inbox[c]) /\ Len(inbox[c]) \in Nat
    BY <1>5, PlacesOf, ClientNumbers DEF ConnInv
  <2>3. ASSUME NEW k \in DOMAIN more
        PROVE  more[k].number <= lines[c] + 1
    <3>1. CASE k \in DOMAIN inbox[c]
      <4>1. more[k] = inbox[c][k]
        BY <1>6, <3>1
      <4>2. inbox[c][k].number \in Int /\ inbox[c][k].number <= lines[c]
        BY <2>1, <2>2, <3>1
      <4> QED
        BY <1>7, <4>1, <4>2
    <3>2. CASE k \notin DOMAIN inbox[c]
      <4>1. more[k] = line
        BY <1>6, <3>2
      <4> QED
        BY <1>7, <4>1
    <3> QED
      BY <3>1, <3>2
  <2>4. ASSUME NEW k \in DOMAIN more, NEW l \in DOMAIN more, k < l
        PROVE  more[k].number < more[l].number
    <3>1. k \in DOMAIN inbox[c]
      BY <1>6, <2>2, <2>4
    <3>2. CASE l \in DOMAIN inbox[c]
      BY <1>6, <2>1, <2>4, <3>1, <3>2
    <3>3. CASE l \notin DOMAIN inbox[c]
      <4>1. more[l] = line /\ more[k] = inbox[c][k]
        BY <1>6, <3>1, <3>3
      <4>2. inbox[c][k].number \in Int /\ inbox[c][k].number <= lines[c]
        BY <2>1, <2>2, <3>1
      <4> QED
        BY <1>7, <4>1, <4>2
    <3> QED
      BY <3>2, <3>3
  <2>5. at[c] # "gone" => /\ taken[c] <= lines[c] + 1
                          /\ \A k \in DOMAIN more : taken[c] < more[k].number
    BY <1>6, <1>7, <2>1, <2>2
  <2> QED
    BY <1>1, <1>3, <1>8, <2>1, <2>3, <2>4, <2>5 DEF HeardInOrder
<1>11. \A d \in Clients \ {c} : HeardInOrder(d)'
  BY <1>1, <1>3, <1>8 DEF ConnInv, HeardInOrder
<1>12. \A d \in Clients : ShownInOrder(d)'
  BY <1>1 DEF ConnInv, ShownInOrder
<1>13. ASSUME NEW i \in DOMAIN queue
       PROVE  InPlace(queue[i])'
  <2>1. PICK m : m = queue[i]
    OBVIOUS
  <2>2. m.client \in Clients /\ m.number \in Nat /\ InPlace(m)
    BY <2>1, MessagesAreMails DEF ConnInv
  <2>3. CASE m.client # c
    BY <1>1, <1>3, <1>8, <2>1, <2>2, <2>3 DEF InPlace
  <2>4. CASE m.client = c
    <3>1. ASSUME m.type = MQ_ID_MAIN_SERVER, at[c] # "gone"
          PROVE  /\ m.number <= lines[c] + 1
                 /\ \A k \in DOMAIN more : m.number < more[k].number
      <4>1. /\ m.number <= lines[c]
            /\ \A k \in DOMAIN inbox[c] : m.number < inbox[c][k].number
        BY <2>2, <2>4, <3>1 DEF InPlace
      <4> QED
        BY <1>6, <1>7, <2>2, <4>1
    <3> QED
      BY <1>1, <1>3, <1>8, <2>1, <2>2, <2>4, <3>1 DEF InPlace
  <2> QED
    BY <2>3, <2>4
<1> QED
  BY <1>1, <1>9, <1>10, <1>11, <1>12, <1>13 DEF ConnInv, SocketsDistinct, Ordered

\* A line that is read is a pong, or goes to the end of the queue: it comes after
\* all that its client has said before, and before what is still to be read.
LEMMA ReadLineKeeps ==
  ASSUME ConnInv, NEW c \in Clients, sock[c] # 0, ReadLine(c)
  PROVE  ConnInv'
<1> DEFINE line == Head(inbox[c])
           rest == Tail(inbox[c])
           mail == [type |-> MQ_ID_MAIN_SERVER, client |-> c, number |-> line.number]
<1>1. /\ UNCHANGED <<fds, sock, waited, lines, closed, taken, posted, shown>>
      /\ at[c] = "socket" /\ inbox[c] # <<>>
      /\ at' = [at EXCEPT ![c] = "queue"]
      /\ inbox' = [inbox EXCEPT ![c] = rest]
      /\ queue' \in {queue, msgsnd(mail)}
      /\ ping_sent' \in {ping_sent, [ping_sent EXCEPT ![c] = FALSE]}
  BY DEF ReadLine, Goes
<1>2. inbox[c] \in Seq(Words) /\ inbox[c] # <<>>
  BY <1>1 DEF ConnInv, ConnTypeOK
<1>3. /\ 1 \in DOMAIN inbox[c] /\ line = inbox[c][1]
      /\ rest \in Seq(Words)
      /\ \A k \in DOMAIN rest : /\ k \in DOMAIN inbox[c] /\ k + 1 \in DOMAIN inbox[c]
                               /\ 1 < k + 1
                               /\ rest[k] = inbox[c][k + 1]
  <2>1. Len(inbox[c]) \in Nat \ {0} /\ DOMAIN inbox[c] = 1 .. Len(inbox[c])
    BY <1>2, PlacesOf, EmptySeq
  <2>2. /\ rest \in Seq(Words) /\ Len(rest) = Len(inbox[c]) - 1
        /\ \A k \in 1 .. Len(rest) : rest[k] = inbox[c][k + 1]
        /\ line = inbox[c][1]
    BY <1>2, HeadTailProperties
  <2>3. DOMAIN rest = 1 .. Len(rest)
    BY <2>2, PlacesOf
  <2> QED
    BY <2>1, <2>2, <2>3
<1>4. line \in Words /\ line.number \in Nat
  BY <1>3, ClientNumbers DEF ConnInv
<1>5. mail \in Mails
  BY <1>4 DEF Mails
<1>6. /\ mail.type = MQ_ID_MAIN_SERVER /\ mail.client = c
      /\ mail.number = inbox[c][1].number
  BY <1>3
<1> HIDE DEF line, rest, mail
<1>7. /\ \A d \in Clients : inbox'[d] = IF d = c THEN rest ELSE inbox[d]
      /\ \A d \in Clients : at'[d] # "gone" <=> at[d] # "gone"
  BY <1>1 DEF ConnInv, ConnTypeOK
<1>8. /\ \A k \in DOMAIN inbox[c] : inbox[c][k].number \in Nat
      /\ lines[c] \in Int /\ LastWord \in Nat /\ lines[c] < LastWord
  BY ClientNumbers DEF ConnInv
<1>9. /\ taken[c] < mail.number /\ mail.number <= lines[c] /\ mail.number <= LastWord
      /\ \A k \in DOMAIN rest : mail.number < rest[k].number
  <2>1. HeardInOrder(c)
    BY DEF ConnInv
  <2>2. /\ taken[c] < mail.number /\ mail.number <= lines[c]
        /\ \A k \in DOMAIN rest : mail.number < rest[k].number
    BY <1>1, <1>3, <1>6, <2>1 DEF HeardInOrder
  <2> QED
    BY <1>3, <1>6, <1>8, <2>2
<1>10. \A i \in DOMAIN queue : Before(queue[i], mail)
  <2> SUFFICES ASSUME NEW i \in DOMAIN queue, queue[i].type = MQ_ID_MAIN_SERVER,
                      queue[i].client = c
               PROVE  queue[i].number < mail.number
    BY <1>6 DEF Before
  <2>1. InPlace(queue[i])
    BY DEF ConnInv
  <2> QED
    BY <1>1, <1>3, <1>6, <2>1 DEF InPlace
<1>11. /\ queue' \in Seq(Mails)
       /\ Ordered(queue')
       /\ \A i \in DOMAIN queue' : \/ queue'[i] = mail
                                   \/ \E j \in DOMAIN queue : queue'[i] = queue[j]
  <2>1. queue \in Seq(Mails) /\ Ordered(queue)
    BY DEF ConnInv, ConnTypeOK
  <2>2. CASE queue' = queue
    BY <2>1, <2>2
  <2>3. CASE queue' = msgsnd(mail)
    BY <1>5, <1>10, <2>1, <2>3, MessageSent
  <2> QED
    BY <1>1, <2>2, <2>3
<1>12. ConnTypeOK'
  <2>1. ping_sent' \in [Clients -> BOOLEAN]
    <3>1. ping_sent \in [Clients -> BOOLEAN]
      BY DEF ConnInv, ConnTypeOK
    <3>2. [ping_sent EXCEPT ![c] = FALSE] \in [Clients -> BOOLEAN]
      BY <3>1
    <3> QED
      BY <1>1, <3>1, <3>2
  <2>2. inbox' \in [Clients -> Seq(Words)]
    BY <1>1, <1>3 DEF ConnInv, ConnTypeOK
  <2> QED
    BY <1>1, <1>11, <2>1, <2>2 DEF ConnInv, ConnTypeOK
<1>13. HeardInOrder(c)'
  <2>1. HeardInOrder(c)
    BY DEF ConnInv
  <2>2. \A k, l \in DOMAIN rest : k < l => rest[k].number < rest[l].number
    <3> SUFFICES ASSUME NEW k \in DOMAIN rest, NEW l \in DOMAIN rest, k < l
                 PROVE  rest[k].number < rest[l].number
      OBVIOUS
    <3>1. DOMAIN inbox[c] \subseteq Int
      BY <1>2, PlacesOf
    <3>2. k + 1 < l + 1
      BY <1>3, <3>1
    <3> QED
      BY <1>3, <2>1, <3>2 DEF HeardInOrder
  <2> QED
    BY <1>1, <1>3, <1>7, <2>1, <2>2 DEF HeardInOrder
<1>14. \A d \in Clients \ {c} : HeardInOrder(d)'
  BY <1>1, <1>7 DEF ConnInv, HeardInOrder
<1>15. \A d \in Clients : ShownInOrder(d)'
  BY <1>1 DEF ConnInv, ShownInOrder
<1>16. ASSUME NEW i \in DOMAIN queue'
       PROVE  InPlace(queue[i])'
  <2>1. PICK m : m = queue'[i]
    OBVIOUS
  <2>2. CASE m = mail
    BY <1>1, <1>6, <1>7, <1>9, <2>1, <2>2 DEF InPlace
  <2>3. CASE m # mail
    <3>1. PICK j \in DOMAIN queue : m = queue[j]
      BY <1>11, <2>1, <2>3
    <3>2. m.client \in Clients /\ InPlace(m)
      BY <3>1, MessagesAreMails DEF ConnInv
    <3> QED
      BY <1>1, <1>3, <1>7, <2>1, <3>2 DEF InPlace
  <2> QED
    BY <2>2, <2>3
<1> QED
  BY <1>1, <1>11, <1>12, <1>13, <1>14, <1>15, <1>16 DEF ConnInv, SocketsDistinct

\* The last word has a number above all lines.
LEMMA SayLastWordKeeps ==
  ASSUME ConnInv, NEW c \in Clients, sock[c] # 0, SayLastWord(c)
  PROVE  ConnInv'
<1> DEFINE mail == [type |-> MQ_ID_MAIN_SERVER, client |-> c, number |-> LastWord]
<1>1. /\ UNCHANGED <<fds, sock, ping_sent, waited, inbox, lines, closed, taken, posted, shown>>
      /\ at[c] # "gone"
      /\ queue' = msgsnd(mail)
      /\ at' = [at EXCEPT ![c] = "gone"]
  BY DEF SayLastWord, Goes
<1>2. mail \in Mails
  BY ClientNumbers DEF Mails, ConnInv
<1>3. mail.type = MQ_ID_MAIN_SERVER /\ mail.client = c /\ mail.number = LastWord
  OBVIOUS
<1> HIDE DEF mail
<1>4. /\ \A d \in Clients : at'[d] # "gone" => at[d] # "gone"
      /\ at'[c] = "gone"
  BY <1>1 DEF ConnInv, ConnTypeOK
<1>5. /\ lines[c] \in Int /\ taken[c] \in Int /\ LastWord \in Int
      /\ lines[c] < LastWord
  BY ClientNumbers DEF ConnInv
<1>6. taken[c] < LastWord
  <2>1. taken[c] <= lines[c]
    BY <1>1 DEF ConnInv, HeardInOrder
  <2> QED
    BY <1>5, <2>1
<1>7. \A i \in DOMAIN queue : Before(queue[i], mail)
  <2> SUFFICES ASSUME NEW i \in DOMAIN queue, queue[i].type = MQ_ID_MAIN_SERVER,
                      queue[i].client = c
               PROVE  queue[i].number < LastWord
    BY <1>3 DEF Before
  <2>1. queue[i].number <= lines[c]
    BY <1>1 DEF ConnInv, InPlace
  <2> QED
    BY <1>5, <2>1, MessagesAreMails DEF ConnInv
<1>8. /\ queue' \in Seq(Mails)
      /\ Ordered(queue')
      /\ \A i \in DOMAIN queue' : \/ queue'[i] = mail
                                  \/ \E j \in DOMAIN queue : queue'[i] = queue[j]
  <2>1. queue \in Seq(Mails) /\ Ordered(queue)
    BY DEF ConnInv, ConnTypeOK
  <2> QED
    BY <1>1, <1>2, <1>7, <2>1, MessageSent
<1>9. ConnTypeOK'
  BY <1>1, <1>8 DEF ConnInv, ConnTypeOK
<1>10. \A d \in Clients : HeardInOrder(d)' /\ ShownInOrder(d)'
  BY <1>1, <1>4 DEF ConnInv, HeardInOrder, ShownInOrder
<1>11. ASSUME NEW i \in DOMAIN queue'
       PROVE  InPlace(queue[i])'
  <2>1. PICK m : m = queue'[i]
    OBVIOUS
  <2>2. CASE m = mail
    BY <1>1, <1>3, <1>4, <1>5, <1>6, <2>1, <2>2 DEF InPlace
  <2>3. CASE m # mail
    <3>1. PICK j \in DOMAIN queue : m = queue[j]
      BY <1>8, <2>1, <2>3
    <3>2. m.client \in Clients /\ InPlace(m)
      BY <3>1, MessagesAreMails DEF ConnInv
    <3> QED
      BY <1>1, <1>4, <2>1, <3>2 DEF InPlace
  <2> QED
    BY <2>2, <2>3
<1> QED
  BY <1>1, <1>8, <1>9, <1>10, <1>11 DEF ConnInv, SocketsDistinct

\* A worker takes the first message for its socket, which is for its client.
LEMMA CheckQueueKeeps ==
  ASSUME ConnInv, NEW c \in Clients, sock[c] # 0, CheckQueue(c)
  PROVE  ConnInv'
<1> DEFINE i0 == FirstFor(sock[c])
           word == [client |-> queue[i0].client, number |-> queue[i0].number]
           more == Append(shown[c], word)
<1>1. /\ UNCHANGED <<fds, sock, ping_sent, waited, inbox, lines, closed, taken, posted>>
      /\ at[c] # "gone"
      /\ at' \in {[at EXCEPT ![c] = "ping"], [at EXCEPT ![c] = "gone"]}
  BY DEF CheckQueue, Goes, WriteThen
<1>2. /\ at' \in [Clients -> {"ping", "socket", "queue", "last word", "gone"}]
      /\ \A d \in Clients : at'[d] # "gone" => at[d] # "gone"
  BY <1>1 DEF ConnInv, ConnTypeOK
<1>3. CASE i0 = 0
  <2>1. queue' = queue /\ shown' = shown
    BY <1>3 DEF CheckQueue
  <2>2. ConnTypeOK'
    BY <1>1, <1>2, <2>1 DEF ConnInv, ConnTypeOK
  <2>3. SocketsDistinct'
    BY <1>1 DEF ConnInv, SocketsDistinct
  <2> QED
    BY <1>1, <1>2, <2>1, <2>2, <2>3, MailStays
<1>4. CASE i0 # 0
  <2>1. queue' = RemoveAt(queue, i0) /\ shown' = [shown EXCEPT ![c] = more]
    BY <1>4 DEF CheckQueue
  <2>2. /\ i0 \in DOMAIN queue
        /\ queue[i0].type = sock[c]
        /\ queue' \in Seq(Mails)
        /\ Ordered(queue')
        /\ \A k \in DOMAIN queue' : \E j \in DOMAIN queue :
             /\ queue'[k] = queue[j]
             /\ queue[j].type = sock[c] => Before(queue[i0], queue[j])
    BY <1>4, <2>1, MessageTaken DEF ConnInv, ConnTypeOK
  <2> HIDE DEF i0
  <2>3. PICK m : m = queue[i0]
    OBVIOUS
  <2>4. m.client \in Clients /\ m.number \in Nat /\ InPlace(m)
    BY <2>2, <2>3, MessagesAreMails DEF ConnInv
  <2>5. m.type = sock[c] /\ m.type # MQ_ID_MAIN_SERVER
    BY <2>2, <2>3, SocketNumbers DEF ConnInv
  <2>6. /\ m.client = c
        /\ m.number <= posted[c]
        /\ \A k \in DOMAIN shown[c] : shown[c][k].number < m.number
    <3>1. sock[m.client] = sock[c] /\ sock[m.client] # 0
      BY <2>4, <2>5 DEF InPlace
    <3>2. m.client = c
      BY <2>4, <3>1 DEF ConnInv, SocketsDistinct
    <3> QED
      BY <2>4, <2>5, <3>2 DEF InPlace
  <2>7. /\ shown[c] \in Seq([client : Clients, number : Nat])
        /\ word \in [client : Clients, number : Nat]
        /\ word.client = c /\ word.number = m.number
    BY <2>3, <2>4, <2>6 DEF ConnInv, ConnTypeOK
  <2> HIDE DEF word
  <2>8. /\ more \in Seq([client : Clients, number : Nat])
        /\ \A k \in DOMAIN more : IF k \in DOMAIN shown[c]
                                  THEN k < Len(shown[c]) + 1 /\ more[k] = shown[c][k]
                                  ELSE k = Len(shown[c]) + 1 /\ more[k] = word
    BY <2>7, AppendedPlaces
  <2>9. DOMAIN shown[c] = 1 .. Len(shown[c]) /\ Len(shown[c]) \in Nat
    BY <2>7, PlacesOf
  <2> HIDE DEF more
  <2>10. \A d \in Clients : shown'[d] = IF d = c THEN more ELSE shown[d]
    BY <2>1 DEF ConnInv, ConnTypeOK
  <2>11. ConnTypeOK'
    <3>1. shown' \in [Clients -> Seq([client : Clients, number : Nat])]
      BY <2>1, <2>8 DEF ConnInv, ConnTypeOK
    <3> QED
      BY <1>1, <1>2, <2>2, <3>1 DEF ConnInv, ConnTypeOK
  <2>12. ShownInOrder(c)'
    <3>1. ShownInOrder(c)
      BY DEF ConnInv
    <3>2. \A k \in DOMAIN more : more[k].client = c /\ more[k].number <= posted[c]
      BY <2>6, <2>7, <2>8, <3>1 DEF ShownInOrder
    <3>3. ASSUME NEW k \in DOMAIN more, NEW l \in DOMAIN more, k < l
          PROVE  more[k].number < more[l].number
      <4>1. k \in DOMAIN shown[c]
        BY <2>8, <2>9, <3>3
      <4>2. CASE l \in DOMAIN shown[c]
        BY <2>8, <3>1, <3>3, <4>1, <4>2 DEF ShownInOrder
      <4>3. CASE l \notin DOMAIN shown[c]
        BY <2>6, <2>7, <2>8, <4>1, <4>3
      <4> QED
        BY <4>2, <4>3
    <3> QED
      BY <1>1, <2>10, <3>2, <3>3 DEF ShownInOrder
  <2>13. \A d \in Clients : HeardInOrder(d)'
    BY <1>1, <1>2 DEF ConnInv, HeardInOrder
  <2>14. \A d \in Clients \ {c} : ShownInOrder(d)'
    BY <1>1, <2>10 DEF ConnInv, ShownInOrder
  <2>15. ASSUME NEW i \in DOMAIN queue'
         PROVE  InPlace(queue[i])'
    <3>1. PICK j \in DOMAIN queue :
            queue'[i] = queue[j] /\ (queue[j].type = sock[c] => Before(m, queue[j]))
      BY <2>2, <2>3
    <3>2. PICK n : n = queue[j]
      OBVIOUS
    <3>3. n.client \in Clients /\ n.number \in Nat /\ InPlace(n)
      BY <3>2, MessagesAreMails DEF ConnInv
    <3>4. CASE n.client # c
      BY <1>1, <1>2, <2>10, <3>1, <3>2, <3>3, <3>4 DEF InPlace
    <3>5. CASE n.client = c /\ n.type = MQ_ID_MAIN_SERVER
      BY <1>1, <1>2, <3>1, <3>2, <3>3, <3>5 DEF InPlace
    <3>6. CASE n.client = c /\ n.type # MQ_ID_MAIN_SERVER
      <4>1. n.type = sock[c]
        BY <3>3, <3>6 DEF InPlace
      <4>2. m.number < n.number
        BY <2>5, <2>6, <3>1, <3>2, <3>6, <4>1 DEF Before
      <4>3. \A k \in DOMAIN shown[c] : shown[c][k].number < n.number
        BY <3>3, <3>6 DEF InPlace
      <4>4. \A k \in DOMAIN more : more[k].number < n.number
        BY <2>7, <2>8, <4>2, <4>3
      <4> QED
        BY <1>1, <2>10, <3>1, <3>2, <3>3, <3>6, <4>1, <4>4 DEF InPlace
    <3> QED
      BY <3>4, <3>5, <3>6
  <2> QED
    BY <1>1, <2>2, <2>11, <2>12, <2>13, <2>14, <2>15 DEF ConnInv, SocketsDistinct
<1> QED
  BY <1>3, <1>4

\* The main server takes the first message for it: of its client, none that is
\* still to come has a lower number.
LEMMA TakeMessageKeeps ==
  ASSUME ConnInv, TakeMessage
  PROVE  /\ ConnInv'
         /\ \A c \in Clients : taken'[c] # taken[c] => taken[c] < taken'[c]
<1> DEFINE i0 == FirstFor(MQ_ID_MAIN_SERVER)
<1>1. /\ UNCHANGED <<fds, sock, at, ping_sent, waited, inbox, lines, closed, posted, shown>>
      /\ i0 # 0
      /\ taken' = [taken EXCEPT ![queue[i0].client] = queue[i0].number]
      /\ queue' = RemoveAt(queue, i0)
  BY DEF TakeMessage
<1>2. /\ i0 \in DOMAIN queue
      /\ queue[i0].type = MQ_ID_MAIN_SERVER
      /\ queue' \in Seq(Mails)
      /\ Ordered(queue')
      /\ \A k \in DOMAIN queue' : \E j \in DOMAIN queue :
           /\ queue'[k] = queue[j]
           /\ queue[j].type = MQ_ID_MAIN_SERVER => Before(queue[i0], queue[j])
  BY <1>1, MessageTaken DEF ConnInv, ConnTypeOK
<1> HIDE DEF i0
<1>3. PICK m : m = queue[i0]
  OBVIOUS
<1>4. PICK c : c = m.client
  OBVIOUS
<1>5. c \in Clients /\ m.number \in Nat /\ InPlace(m) /\ m.type = MQ_ID_MAIN_SERVER
  BY <1>2, <1>3, <1>4, MessagesAreMails DEF ConnInv
<1>6. /\ sock[c] # 0
      /\ taken[c] < m.number /\ m.number <= LastWord
      /\ at[c] # "gone" => /\ m.number <= lines[c]
                           /\ \A k \in DOMAIN inbox[c] : m.number < inbox[c][k].number
  BY <1>4, <1>5 DEF InPlace
<1>7. /\ taken' = [taken EXCEPT ![c] = m.number]
      /\ \A d \in Clients : taken'[d] = IF d = c THEN m.number ELSE taken[d]
  BY <1>1, <1>3, <1>4 DEF ConnInv, ConnTypeOK
<1>8. ConnTypeOK'
  <2>1. m.number \in 0 .. LastWord
    BY <1>5, <1>6, ClientNumbers DEF ConnInv
  <2>2. taken' \in [Clients -> 0 .. LastWord]
    BY <1>7, <2>1 DEF ConnInv, ConnTypeOK
  <2> QED
    BY <1>1, <1>2, <2>2 DEF ConnInv, ConnTypeOK, LastWord
<1>9. HeardInOrder(c)'
  <2>1. HeardInOrder(c) /\ taken'[c] = m.number
    BY <1>5, <1>7 DEF ConnInv
  <2> QED
    BY <1>1, <1>6, <2>1 DEF HeardInOrder
<1>10. \A d \in Clients \ {c} : HeardInOrder(d)'
  BY <1>1, <1>7 DEF ConnInv, HeardInOrder
<1>11. \A d \in Clients : ShownInOrder(d)'
  BY <1>1 DEF ConnInv, ShownInOrder
<1>12. ASSUME NEW i \in DOMAIN queue'
       PROVE  InPlace(queue[i])'
  <2>1. PICK j \in DOMAIN queue :
          queue'[i] = queue[j] /\ (queue[j].type = MQ_ID_MAIN_SERVER => Before(m, queue[j]))
    BY <1>2, <1>3
  <2>2. PICK n : n = queue[j]
    OBVIOUS
  <2>3. n.client \in Clients /\ n.number \in Nat /\ InPlace(n)
    BY <2>2, MessagesAreMails DEF ConnInv
  <2>4. n.type = MQ_ID_MAIN_SERVER => taken'[n.client] < n.number
    BY <1>4, <1>5, <1>7, <2>1, <2>2, <2>3 DEF Before, InPlace
  <2> QED
    BY <1>1, <2>1, <2>2, <2>3, <2>4 DEF InPlace
<1>13. \A d \in Clients : taken'[d] # taken[d] => taken[d] < taken'[d]
  BY <1>6, <1>7
<1> QED
  BY <1>1, <1>2, <1>8, <1>9, <1>10, <1>11, <1>12, <1>13 DEF ConnInv, SocketsDistinct

\* A message that is posted has a number above all that its client was sent.
LEMMA PostMessageKeeps ==
  ASSUME ConnInv, NEW c \in Clients, PostMessage(c)
  PROVE  ConnInv'
<1> DEFINE mail == [type |-> sock[c], client |-> c, number |-> posted[c] + 1]
<1>1. /\ UNCHANGED <<fds, sock, at, ping_sent, waited, inbox, lines, closed, taken, shown>>
      /\ taken[c] # 0 /\ posted[c] < MaxPosts
      /\ posted' = [posted EXCEPT ![c] = posted[c] + 1]
      /\ queue' = msgsnd([type |-> sock[c], client |-> c, number |-> posted'[c]])
  BY DEF PostMessage
<1>2. sock[c] # 0 /\ sock[c] \in Sockets /\ sock[c] # MQ_ID_MAIN_SERVER
  BY <1>1, SocketNumbers DEF ConnInv, HeardInOrder
<1>3. /\ posted[c] + 1 \in 0 .. MaxPosts /\ posted[c] \in Nat
      /\ \A d \in Clients : posted'[d] = IF d = c THEN posted[c] + 1 ELSE posted[d]
  <2>1. posted \in [Clients -> 0 .. MaxPosts]
    BY DEF ConnInv, ConnTypeOK
  <2>2. posted[c] + 1 \in 0 .. MaxPosts /\ posted[c] \in Nat
    BY <1>1, <2>1, ConnectionAssumption
  <2> QED
    BY <1>1, <2>1, <2>2
<1>4. queue' = msgsnd(mail) /\ mail \in Mails
  BY <1>1, <1>2, <1>3 DEF Mails
<1>5. mail.type = sock[c] /\ mail.client = c /\ mail.number = posted[c] + 1
  OBVIOUS
<1> HIDE DEF mail
<1>6. \A i \in DOMAIN queue : Before(queue[i], mail)
  <2> SUFFICES ASSUME NEW i \in DOMAIN queue, queue[i].type = sock[c],
                      queue[i].client = c
               PROVE  queue[i].number < posted[c] + 1
    BY <1>5 DEF Before
  <2>1. queue[i].number <= posted[c]
    BY <1>2 DEF ConnInv, InPlace
  <2> QED
    BY <1>3, <2>1, MessagesAreMails DEF ConnInv
<1>7. /\ queue' \in Seq(Mails)
      /\ Ordered(queue')
      /\ \A i \in DOMAIN queue' : \/ queue'[i] = mail
                                  \/ \E j \in DOMAIN queue : queue'[i] = queue[j]
  <2>1. queue \in Seq(Mails) /\ Ordered(queue)
    BY DEF ConnInv, ConnTypeOK
  <2> QED
    BY <1>4, <1>6, <2>1, MessageSent
<1>8. ConnTypeOK'
  <2>1. posted' \in [Clients -> 0 .. MaxPosts]
    BY <1>1, <1>3 DEF ConnInv, ConnTypeOK
  <2> QED
    BY <1>1, <1>7, <2>1 DEF ConnInv, ConnTypeOK
<1>9. \A k \in DOMAIN shown[c] : shown[c][k].number \in Int
  <2>1. shown[c] \in Seq([client : Clients, number : Nat])
    BY DEF ConnInv, ConnTypeOK
  <2>2. \A k \in DOMAIN shown[c] : shown[c][k] \in [client : Clients, number : Nat]
    BY <2>1, PlacesOf
  <2> QED
    BY <2>2
<1>10. \A d \in Clients : HeardInOrder(d)'
  BY <1>1 DEF ConnInv, HeardInOrder
<1>11. \A k \in DOMAIN shown[c] : shown[c][k].number < posted[c] + 1
  BY <1>3, <1>9 DEF ConnInv, ShownInOrder
<1>12. ShownInOrder(c)'
  BY <1>1, <1>3, <1>9, <1>11 DEF ConnInv, ShownInOrder
<1>13. \A d \in Clients \ {c} : ShownInOrder(d)'
  BY <1>1, <1>3 DEF ConnInv, ShownInOrder
<1>14. ASSUME NEW i \in DOMAIN queue'
       PROVE  InPlace(queue[i])'
  <2>1. PICK m : m = queue'[i]
    OBVIOUS
  <2>2. CASE m = mail
    <3>1. /\ m.client = c /\ m.type = sock'[c] /\ m.type # MQ_ID_MAIN_SERVER
          /\ m.number = posted[c] + 1 /\ posted'[c] = posted[c] + 1
          /\ sock'[c] # 0 /\ shown' = shown
      BY <1>1, <1>2, <1>3, <1>5, <2>2
    <3>2. m.number <= posted'[c] /\ \A k \in DOMAIN shown'[c] : shown'[c][k].number < m.number
      BY <1>3, <1>11, <3>1
    <3> QED
      BY <2>1, <3>1, <3>2 DEF InPlace
  <2>3. CASE m # mail
    <3>1. PICK j \in DOMAIN queue : m = queue[j]
      BY <1>7, <2>1, <2>3
    <3>2. m.client \in Clients /\ m.number \in Nat /\ InPlace(m)
      BY <3>1, MessagesAreMails DEF ConnInv
    <3>3. m.type # MQ_ID_MAIN_SERVER => m.number <= posted'[m.client]
      BY <1>3, <3>2 DEF InPlace
    <3> QED
      BY <1>1, <2>1, <3>2, <3>3 DEF InPlace
  <2> QED
    BY <2>2, <2>3
<1> QED
  BY <1>1, <1>7, <1>8, <1>10, <1>12, <1>13, <1>14 DEF ConnInv, SocketsDistinct

-----------------------------------------------------------------------------
\* Every step keeps the invariant.
LEMMA StepConnInv == ConnInv /\ [Next]_vars => ConnInv'
<1> SUFFICES ASSUME ConnInv, [Next]_vars PROVE ConnInv'
  OBVIOUS
<1>1. ASSUME NEW c \in Clients, Accept(c) PROVE ConnInv'
  BY <1>1, AcceptKeeps
<1>2. ASSUME NEW c \in Clients, client_worker_main_loop(c) PROVE ConnInv'
  BY <1>2, PingKeeps, ReadLineKeeps, CheckQueueKeeps, SayLastWordKeeps
     DEF client_worker_main_loop, Accepted
<1>3. ASSUME NEW c \in Clients, Client(c) PROVE ConnInv'
  BY <1>3, SendLineKeeps, SendRestKeeps, TickKeeps DEF Client
<1>4. ASSUME NEW c \in Clients, PostMessage(c) PROVE ConnInv'
  BY <1>4, PostMessageKeeps
<1>5. CASE Tick
  BY <1>5, TickKeeps
<1>6. CASE TakeMessage
  BY <1>6, TakeMessageKeeps
<1>7. CASE UNCHANGED vars
  BY <1>7 DEF vars, ConnInv, ConnTypeOK, SocketsDistinct, HeardInOrder, ShownInOrder,
              InPlace, Ordered, Before
<1> QED
  BY <1>1, <1>2, <1>3, <1>4, <1>5, <1>6, <1>7 DEF Next

\* The invariant holds of every behaviour of the listener, the workers and the
\* queue.
THEOREM ConnInvariance == Spec => []ConnInv
BY InitConnInv, StepConnInv, PTL DEF Spec

\* Type correctness: the worker of every connection has a descriptor of its own
\* that the listener keeps open, and every message a type that somebody reads.
THEOREM ConnTypeCorrect == Spec => []ConnTypeOK
<1>1. ConnInv => ConnTypeOK
  BY DEF ConnInv
<1> QED
  BY <1>1, ConnInvariance, PTL

\* Nobody is shown what was posted to another, however many connections come and
\* go: msgrcv in client_worker_check_message_queue asks for the number of a
\* socket, and the listener never closes the socket of a worker.
THEOREM MailIsOnesOwn == Spec => []MailIsMine
<1>1. ConnInv => MailIsMine
  BY DEF ConnInv, MailIsMine, ShownInOrder
<1> QED
  BY <1>1, ConnInvariance, PTL

\* What a client is shown keeps the order in which it was posted, whatever the
\* full queue has lost of it.
THEOREM MailKeepsItsOrder == Spec => []MailInOrder
<1>1. ConnInv => MailInOrder
  BY DEF ConnInv, MailInOrder, ShownInOrder
<1> QED
  BY <1>1, ConnInvariance, PTL

\* The main server takes the lines of a client in their order, none twice, and
\* nothing after the last word of its worker.
THEOREM RequestsKeepTheirOrder == Spec => RequestsInOrder
<1>1. ConnInv /\ [Next]_vars =>
        [\A c \in Clients : taken'[c] # taken[c] => taken[c] < taken'[c]]_vars
  <2> SUFFICES ASSUME ConnInv, Next, ~TakeMessage
               PROVE  taken' = taken
    BY TakeMessageKeeps
  <2> QED
    BY DEF Next, Accept, client_worker_main_loop, CheckPing, NoBytes, ReadLine, CheckQueue,
           SayLastWord, Client, SendLine, SendRest, Close, Writing, PostMessage, Tick
<1> QED
  BY <1>1, ConnInvariance, PTL DEF Spec, RequestsInOrder
=============================================================================
