----------------------------- MODULE FiniteMap -----------------------------
(***************************************************************************)
(* What a table promises: a function from the keys in it to their values.  *)
(* A step puts or drops one key, whose value alone it changes, or drops    *)
(* them all.                                                               *)
(***************************************************************************)
VARIABLE table

\* Both functions have the key with one value, or neither has it.
Keeps(key) ==
  /\ key \in DOMAIN table <=> key \in DOMAIN table'
  /\ key \in DOMAIN table => table'[key] = table[key]

OneKey ==
  \E key \in DOMAIN table \cup DOMAIN table' :
    \A other \in (DOMAIN table \cup DOMAIN table') \ {key} : Keeps(other)

Clear == DOMAIN table' = {}

Spec == [][OneKey \/ Clear]_table
=============================================================================
