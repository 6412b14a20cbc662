------------------------------- MODULE KList -------------------------------
(***************************************************************************)
(* The lists of klist.h, and the pool their nodes come from: a node that   *)
(* has been taken off a list is kept for the next one that is put on any.   *)
(* The last node of a list holds no data yet.                              *)
(***************************************************************************)
EXTENDS Integers, FiniteSets, Sequences

CONSTANTS
  ListData,
  MaxNodes      \* bound: nodes

VARIABLES
  cnt,          \* nodes that are in use
  buf,          \* nodes that are not
  made,         \* nodes that have been allocated
  head,
  tail,
  next,         \* node -> node, or NULL
  data,
  listSize      \* kl->size

KListAssumption == MaxNodes \in Nat \ {0}

NULL == 0

listVars == <<cnt, buf, made, head, tail, next, data, listSize>>

NoData == "none"

\* kl_init
ListInit ==
  /\ cnt = 1 /\ buf = <<>> /\ made = 1
  /\ head = 1 /\ tail = 1
  /\ next = [p \in 1..MaxNodes |-> NULL]
  /\ data = [p \in 1..MaxNodes |-> NoData]
  /\ listSize = 0

\* kmp_alloc: the node that was given back last, or a new one.
kmp_alloc == IF buf = <<>> THEN made + 1 ELSE buf[Len(buf)]
TakeNode ==
  /\ cnt' = cnt + 1
  /\ IF buf = <<>> THEN made' = made + 1 /\ buf' = buf
     ELSE made' = made /\ buf' = SubSeq(buf, 1, Len(buf) - 1)

kmp_free(p) == cnt' = cnt - 1 /\ buf' = Append(buf, p)

\* Not the code: the pointer of a node that has been in use before is left as it was.
Wrong_kl_pushp(d) ==
  /\ kmp_alloc <= MaxNodes
  /\ TakeNode
  /\ next' = [next EXCEPT ![tail] = kmp_alloc]
  /\ tail' = kmp_alloc
  /\ data' = [data EXCEPT ![tail] = d]
  /\ listSize' = listSize + 1
  /\ UNCHANGED head

\* kl_pushp, and its caller writes the data.
kl_pushp(d) ==
  /\ kmp_alloc <= MaxNodes
  /\ TakeNode
  /\ next' = [next EXCEPT ![kmp_alloc] = NULL, ![tail] = kmp_alloc]
  /\ tail' = kmp_alloc
  /\ data' = [data EXCEPT ![tail] = d]
  /\ listSize' = listSize + 1
  /\ UNCHANGED head

\* An empty list answers -1.
kl_shift ==
  /\ next[head] # NULL
  /\ listSize' = listSize - 1
  /\ head' = next[head]
  /\ kmp_free(head)
  /\ UNCHANGED <<made, tail, next, data>>

ListNext == kl_shift \/ \E d \in ListData : kl_pushp(d)

ListSpec == ListInit /\ [][ListNext]_listVars

-----------------------------------------------------------------------------
\* The nodes from one on, as many as there are, and the data a loop from kl_begin to
\* kl_end sees.
ChainFrom(first, succ, n) ==
  LET node[k \in 0..n] == IF k = 0 THEN first ELSE succ[node[k - 1]]
  IN  [k \in 1..(n + 1) |-> node[k - 1]]
Chain == ChainFrom(head, next, listSize)
Queue == [n \in 1..listSize |-> data[Chain[n]]]

\* The last node has no successor, and no node is in the list twice, in the pool
\* twice, in both or in neither: nodes that come back are never
\* those that somebody still follows.
NodesHaveOneOwner ==
  /\ Chain[listSize + 1] = tail /\ next[tail] = NULL
  /\ cnt = listSize + 1
  /\ LET owned == Chain \o buf
     IN  /\ {owned[n] : n \in DOMAIN owned} = 1..made
         /\ Len(owned) = made

\* First in, first out, whichever nodes the data go through.
ListIsAQueue ==
  [][ \/ \E d \in ListData : Queue' = Append(Queue, d)
      \/ Queue # <<>> /\ Queue' = Tail(Queue) ]_Queue
=============================================================================
