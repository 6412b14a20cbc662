------------------------------- MODULE MCRooms -------------------------------
(***************************************************************************)
(* Instances of PoliteClients for TLC.                                     *)
(***************************************************************************)
EXTENDS PoliteClients, MCGameServer
=============================================================================
