---------------------------- MODULE MCMemberStore ----------------------------
(***************************************************************************)
(* MemberStore with one account to begin with and room for two more.       *)
(***************************************************************************)
EXTENDS MemberStore

CONSTANTS ann, bob, eve

MCIds     == {ann, bob, eve}
MCMembers == <<ann>>
=============================================================================
