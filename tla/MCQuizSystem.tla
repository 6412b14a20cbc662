---------------------------- MODULE MCQuizSystem ----------------------------
(***************************************************************************)
(* Instances of QuizSystem for TLC: each account on a worker of its own,   *)
(* or one user who comes back on a second connection.                      *)
(***************************************************************************)
EXTENDS QuizSystem

CONSTANTS w1, w2, alice, bob

MCMembers == <<alice, bob>>
MCHomes   == {(w1 :> alice) @@ (w2 :> bob), (w1 :> alice) @@ (w2 :> alice)}
=============================================================================
