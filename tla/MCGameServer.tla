---------------------------- MODULE MCGameServer ----------------------------
(***************************************************************************)
(* Instances of GameServer for TLC.                                        *)
(***************************************************************************)
EXTENDS GameServerProps

CONSTANTS w1, w2,      \* client workers
          alice, bob   \* user ids

OneMember  == <<alice>>
TwoMembers == <<alice, bob>>

\* No action tells the workers apart.
WorkerSymmetry == Permutations({w1, w2})

\* No action tells the sentences apart either.
GameSymmetry == WorkerSymmetry \cup Permutations(Problems)
=============================================================================
