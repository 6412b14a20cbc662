------------------------------- MODULE KBTree -------------------------------
(***************************************************************************)
(* The B-trees of kbtree.h.  A node is its keys and its children, places   *)
(* count from 0 as in the source; a node is split on the way down to where *)
(* a key is put, and filled up on the way down to where one is deleted.    *)
(* What a leaf has behind its keys, and the memory of nodes, is left out.  *)
(***************************************************************************)
EXTENDS Integers, FiniteSetsExt, SequencesExt

CONSTANTS
  TreeKeys,     \* \subseteq Int
  BlockSize,    \* the argument of kb_init
  KeySize,      \* sizeof(key_t)
  MaxKeys       \* bound: keys in the tree

\* The least number of children of a node but the root; pointers have 8 bytes.
t == ((BlockSize - 12) \div (8 + KeySize) + 1) \div 2

\* kb_init gives no tree otherwise.
KBTreeAssumption == TreeKeys \subseteq Int /\ t >= 2

VARIABLES root, n_keys

vars == <<root, n_keys>>

Node(keys, kids) == [keys |-> keys, kids |-> kids]
IsInternal(x) == x.kids # <<>>
N(x) == Len(x.keys)
Key(x, i) == x.keys[i + 1]
Kid(x, i) == x.kids[i + 1]
IsFull(x) == N(x) = 2 * t - 1

Init == root = Node(<<>>, <<>>) /\ n_keys = 0

-----------------------------------------------------------------------------
\* Looking up.

RECURSIVE Bisected(_, _, _, _)
Bisected(x, k, begin, end) ==
  IF begin >= end THEN begin
  ELSE LET mid == (begin + end) \div 2
       IN  IF Key(x, mid) < k THEN Bisected(x, k, mid + 1, end)
           ELSE Bisected(x, k, begin, mid)

\* The place of the last key that is not greater, -1 if there is none, and whether
\* it is the key.
getp_aux(x, k) ==
  LET begin == Bisected(x, k, 0, N(x))
      found == begin < N(x) /\ Key(x, begin) = k
  IN  [i |-> IF found THEN begin ELSE begin - 1, found |-> found]

RECURSIVE IsIn(_, _)
IsIn(x, k) ==
  LET at == getp_aux(x, k)
  IN  at.found \/ (IsInternal(x) /\ IsIn(Kid(x, at.i + 1), k))
kb_get(k) == IsIn(root, k)

\* A key or NULL.
Pointers(lower, upper) == [lower |-> lower, upper |-> upper]
NULL == {}

RECURSIVE Narrowed(_, _, _)
Narrowed(x, k, p) ==
  LET at == getp_aux(x, k)
      q  == Pointers(IF at.i >= 0 THEN {Key(x, at.i)} ELSE p.lower,
                     IF at.i < N(x) - 1 THEN {Key(x, at.i + 1)} ELSE p.upper)
  IN  IF at.found THEN Pointers({k}, {k})
      ELSE IF IsInternal(x) THEN Narrowed(Kid(x, at.i + 1), k, q) ELSE q
kb_interval(k) == Narrowed(root, k, Pointers(NULL, NULL))

\* The order in which __kb_traverse shows the keys.
RECURSIVE TraversedFrom(_, _)
TraversedFrom(x, i) ==
  IF ~IsInternal(x) THEN x.keys
  ELSE TraversedFrom(Kid(x, i), 0)
       \o (IF i = N(x) THEN <<>> ELSE <<Key(x, i)>> \o TraversedFrom(x, i + 1))
Traversed(x) == TraversedFrom(x, 0)

-----------------------------------------------------------------------------
\* Putting.

WithKid(x, i, y) == [x EXCEPT !.kids[i + 1] = y]
WithKey(x, i, k) == [x EXCEPT !.keys[i + 1] = k]
First(s, n) == SubSeq(s, 1, Min({n, Len(s)}))
From(s, n) == SubSeq(s, n + 1, Len(s))

\* Child i is split around its middle key, which comes up.
split(x, i) ==
  LET y == Kid(x, i)
  IN  Node(InsertAt(x.keys, i + 1, Key(y, t - 1)),
           InsertAt(WithKid(x, i, Node(First(y.keys, t - 1), First(y.kids, t))).kids,
                    i + 2, Node(From(y.keys, t), From(y.kids, t))))

\* Not the code: after a split the key always goes into the first half.
RECURSIVE Wrong_putp_aux(_, _)
Wrong_putp_aux(x, k) ==
  LET i == getp_aux(x, k).i + 1
      Below(y) == WithKid(y, i, Wrong_putp_aux(Kid(y, i), k))
  IN  IF ~IsInternal(x) THEN [x EXCEPT !.keys = InsertAt(@, i + 1, k)]
      ELSE Below(IF IsFull(Kid(x, i)) THEN split(x, i) ELSE x)

RECURSIVE putp_aux(_, _)
putp_aux(x, k) ==
  LET i == getp_aux(x, k).i + 1
      Below(y, j) == WithKid(y, j, putp_aux(Kid(y, j), k))
      Half(y) == Below(y, IF k > Key(y, i) THEN i + 1 ELSE i)
  IN  IF ~IsInternal(x) THEN [x EXCEPT !.keys = InsertAt(@, i + 1, k)]
      ELSE IF IsFull(Kid(x, i)) THEN Half(split(x, i))
      ELSE Below(x, i)

\* A full root becomes the child of a new one.
Put(k) == putp_aux(IF IsFull(root) THEN split(Node(<<>>, <<root>>), 0) ELSE root, k)

kb_put(k) == root' = Put(k) /\ n_keys' = n_keys + 1

-----------------------------------------------------------------------------
\* Deleting.

\* Children i and i + 1 become one, with key i between them.
Merged(x, i, k) ==
  LET y == Kid(x, i)
      z == Kid(x, i + 1)
      m == Node(y.keys \o <<k>> \o z.keys, y.kids \o z.kids)
  IN  Node(RemoveAt(x.keys, i + 1), RemoveAt(WithKid(x, i, m).kids, i + 2))

\* Child i gets key i - 1 in front, or key i behind, and a neighbour's key replaces
\* that.
FromLeft(x, i) ==
  LET y == Kid(x, i - 1)
      z == Kid(x, i)
      a == Node(Front(y.keys), IF IsInternal(y) THEN Front(y.kids) ELSE <<>>)
      b == Node(<<Key(x, i - 1)>> \o z.keys,
                IF IsInternal(y) THEN <<Last(y.kids)>> \o z.kids ELSE <<>>)
  IN  WithKey(WithKid(WithKid(x, i - 1, a), i, b), i - 1, Last(y.keys))

FromRight(x, i) ==
  LET y == Kid(x, i)
      z == Kid(x, i + 1)
      a == Node(Append(y.keys, Key(x, i)),
                IF IsInternal(z) THEN Append(y.kids, Head(z.kids)) ELSE <<>>)
      b == Node(Tail(z.keys), IF IsInternal(z) THEN Tail(z.kids) ELSE <<>>)
  IN  WithKey(WithKid(WithKid(x, i, a), i + 1, b), i, Head(z.keys))

\* A node without a key.
Deleted(x, key) == [x |-> x, key |-> key]

\* Not the code: a node that is as small as it may be is not filled up.
WrongFilled(x, i) == Deleted(x, i)

\* Child i of x, which is to lose a key, is made larger than it has to be; and where
\* it is then.
Filled(x, i) ==
  LET Rich(j) == j \in 0..N(x) /\ N(Kid(x, j)) >= t
  IN  IF N(Kid(x, i)) >= t THEN Deleted(x, i)
      ELSE IF Rich(i - 1) THEN Deleted(FromLeft(x, i), i)
      ELSE IF Rich(i + 1) THEN Deleted(FromRight(x, i), i)
      ELSE IF i > 0 THEN Deleted(Merged(x, i - 1, Key(x, i - 1)), i - 1)
      ELSE Deleted(Merged(x, i, Key(x, i)), i)

\* What is deleted below x: the key k, the greatest or the least.
RECURSIVE delp_aux(_, _, _)
delp_aux(x, k, s) ==
  LET Below(y, j, what) ==
        LET With(below) == Deleted(WithKid(y, j, below.x), below.key)
        IN  With(delp_aux(Kid(y, j), k, what))
      Instead(i, below) == Deleted(WithKey(below.x, i, below.key), Key(x, i))
      Leaf(j) == Deleted([x EXCEPT !.keys = RemoveAt(@, j + 1)], Key(x, j))
      Found(i) ==
        IF N(Kid(x, i)) >= t THEN Instead(i, Below(x, i, "max"))
        ELSE IF N(Kid(x, i + 1)) >= t THEN Instead(i, Below(x, i + 1, "min"))
        ELSE Below(Merged(x, i, k), i, s)
      Absent(filled) == Below(filled.x, filled.key, s)
      At(i, found) ==
        IF ~IsInternal(x) THEN Leaf(IF s = "min" THEN i + 1 ELSE i)
        ELSE IF found THEN Found(i) ELSE Absent(Filled(x, i + 1))
  IN  CASE s = "key" -> At(getp_aux(x, k).i, getp_aux(x, k).found)
        [] s = "max" -> At(N(x) - 1, FALSE)
        [] s = "min" -> At(-1, FALSE)

Del(k) == delp_aux(root, k, "key")

\* Of a key that is there; the root is left when it has a single child.
kb_del(k) ==
  LET Root(x) == IF IsInternal(x) /\ N(x) = 0 THEN Kid(x, 0) ELSE x
  IN  /\ kb_get(k)
      /\ root' = Root(Del(k).x)
      /\ n_keys' = n_keys - 1

Next == \E k \in TreeKeys : \/ ~kb_get(k) /\ n_keys < MaxKeys /\ kb_put(k)
                        \/ kb_del(k)

Spec == Init /\ [][Next]_vars

-----------------------------------------------------------------------------
RECURSIVE Subtrees(_)
Subtrees(x) == {x} \cup UNION {Subtrees(x.kids[j]) : j \in DOMAIN x.kids}

RECURSIVE Heights(_)
Heights(x) ==
  IF IsInternal(x) THEN {h + 1 : h \in UNION {Heights(x.kids[j]) : j \in DOMAIN x.kids}}
  ELSE {0}

\* Every node but the root is at least half full and none too full, the leaves are at
\* one height and the keys in order: splitting, borrowing and merging on the way
\* down leave no node that cannot take or lose a key.
IsBTree ==
  /\ \A x \in Subtrees(root) : /\ N(x) <= 2 * t - 1
                               /\ IsInternal(x) => N(x) > 0 /\ Len(x.kids) = N(x) + 1
  /\ \A y \in Subtrees(root) \ {root} : N(y) >= t - 1
  /\ Cardinality(Heights(root)) = 1
  /\ LET keys == Traversed(root)
     IN  \A i \in 1..(Len(keys) - 1) : keys[i] < keys[i + 1]
  /\ n_keys = Len(Traversed(root))

\* Looking up goes one way down and still finds the key wherever it is, and its
\* neighbours where it is not.
LookUpsAgree ==
  LET keys == Range(Traversed(root))
  IN  \A k \in TreeKeys :
        /\ kb_get(k) <=> k \in keys
        /\ LET p == kb_interval(k)
           IN  /\ p.lower = (IF \E j \in keys : j <= k THEN {Max({j \in keys : j <= k})} ELSE NULL)
               /\ p.upper = (IF \E j \in keys : j >= k THEN {Min({j \in keys : j >= k})} ELSE NULL)

\* Putting adds the key where it belongs and deleting takes it away, and it is the key
\* that is handed back; all others stay.
CallsChangeTheirKey ==
  LET keys == Traversed(root)
      Less(k) == Cardinality({i \in DOMAIN keys : keys[i] < k})
  IN  \A k \in TreeKeys :
        IF kb_get(k)
        THEN Del(k).key = k /\ Traversed(Del(k).x) = RemoveAt(keys, Less(k) + 1)
        ELSE Traversed(Put(k)) = InsertAt(keys, Less(k) + 1, k)

Set == INSTANCE FiniteMap WITH table <- [k \in Range(Traversed(root)) |-> k]
TreeIsASet == Set!Spec
=============================================================================
