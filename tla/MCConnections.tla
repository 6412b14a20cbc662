---------------------------- MODULE MCConnections ----------------------------
(***************************************************************************)
(* Instances of Connections for TLC.                                       *)
(***************************************************************************)
EXTENDS Connections

CONSTANTS c1, c2

\* No action tells the clients apart.
ClientSymmetry == Permutations(Clients)
=============================================================================
