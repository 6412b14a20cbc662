----------------------------- MODULE Containers -----------------------------
(***************************************************************************)
(* klib's containers and what it does with arrays and texts, side by side: *)
(* a program uses one of them, through its calls alone.  The main server   *)
(* uses hash tables.                                                       *)
(***************************************************************************)
EXTENDS Integers, Sequences

CONSTANTS
  Keys, Vals, Hashes, Sizes, MaxEntries, MaxBuckets,    \* khash.h
  TreeKeys, BlockSize, KeySize, MaxKeys,                \* kbtree.h
  ListData, MaxNodes,                                   \* klist.h
  SortKeys, MaxLength, SMALL,                           \* ksort.h
  Chars, Separators, Patterns, MaxText                  \* kstring.c

VARIABLES
  uses,
  n_buckets, size, n_occupied, bucket, hash,
  root, n_keys,
  cnt, buf, made, head, tail, next, data, listSize,
  array,
  text

tableVars == <<n_buckets, size, n_occupied, bucket, hash>>
treeVars == <<root, n_keys>>
listVars == <<cnt, buf, made, head, tail, next, data, listSize>>

vars == <<uses, tableVars, treeVars, listVars, array, text>>

Hash == INSTANCE KHash
Tree == INSTANCE KBTree
List == INSTANCE KList
Sort == INSTANCE KSort
String == INSTANCE KString

ASSUME ContainersAssumption ==
  /\ Hash!KHashAssumption
  /\ Tree!KBTreeAssumption
  /\ List!KListAssumption
  /\ String!KStringAssumption

Init ==
  /\ uses \in {"table", "tree", "list", "array", "text"}
  /\ Hash!Init
  /\ uses # "table" => hash = CHOOSE h \in Hashes : TRUE
  /\ Tree!Init
  /\ List!ListInit
  /\ Sort!SortInit
  /\ String!TextInit

UsesTable ==
  /\ uses = "table" /\ Hash!Next
  /\ UNCHANGED <<uses, treeVars, listVars, array, text>>
UsesTree ==
  /\ uses = "tree" /\ Tree!Next
  /\ UNCHANGED <<uses, tableVars, listVars, array, text>>
UsesList ==
  /\ uses = "list" /\ List!ListNext
  /\ UNCHANGED <<uses, tableVars, treeVars, array, text>>
UsesArray ==
  /\ uses = "array" /\ Sort!Grow
  /\ UNCHANGED <<uses, tableVars, treeVars, listVars, text>>
UsesText ==
  /\ uses = "text" /\ String!Type
  /\ UNCHANGED <<uses, tableVars, treeVars, listVars, array>>

Next == UsesTable \/ UsesTree \/ UsesList \/ UsesArray \/ UsesText

Spec == Init /\ [][Next]_vars

-----------------------------------------------------------------------------
\* After any calls the structure is one on which the next call does what it is for:
\* no entry, key or node is where a look-up does not come by, none is lost by what
\* is moved for another, and whatever array or text there is, sorts sort and searches
\* find.
StructuresAreSound ==
  CASE uses = "table" -> /\ Hash!FindsEveryKey
                         /\ Hash!AlwaysRoom
                         /\ Hash!ChurnIsBounded
                         /\ Hash!CallsChangeTheirKey
    [] uses = "tree"  -> Tree!IsBTree /\ Tree!LookUpsAgree /\ Tree!CallsChangeTheirKey
    [] uses = "list"  -> List!NodesHaveOneOwner
    [] uses = "array" -> Sort!SortsSort /\ Sort!PartsAreInOrder
    [] uses = "text"  -> String!SearchFinds /\ String!TextsAreCut

\* What they hold changes as it does in a map, a set and a queue.
ContainersHoldWhatIsPut ==
  Hash!TableIsAMap /\ Tree!TreeIsASet /\ List!ListIsAQueue
=============================================================================
