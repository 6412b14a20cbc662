----------------------------- MODULE MCGameLoop -----------------------------
(***************************************************************************)
(* GameLoop with one player.                                               *)
(***************************************************************************)
EXTENDS GameLoop

CONSTANTS w1,      \* a client worker
          alice    \* a user id

OneMember == <<alice>>
=============================================================================
