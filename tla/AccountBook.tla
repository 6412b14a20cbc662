----------------------------- MODULE AccountBook -----------------------------
(***************************************************************************)
(* What the files of the server are for: a list of accounts in which a     *)
(* sign-up and the exp of a finished game each appear at once and whole,   *)
(* and from which nothing disappears - until the book is damaged.          *)
(*                                                                         *)
(* An account is a line of five words: pk, id, password, character, exp.   *)
(***************************************************************************)
EXTENDS Integers, Sequences

CONSTANTS
  Ids,            \* user ids
  Password,       \* the password of all of them
  CharacterType,  \* their character
  First,          \* the accounts of the first day, in order of their pk
  Reward          \* what a finished game is worth

VARIABLES
  book,     \* the accounts, line i with pk i
  damaged   \* whether the book has been damaged

BookInit == book = First /\ damaged = FALSE

Register(id) ==
  /\ ~damaged
  /\ \A i \in DOMAIN book : book[i][2] # id
  /\ book' = Append(book, <<Len(book) + 1, id, Password, CharacterType, 0>>)
  /\ UNCHANGED damaged

Pay(pk) ==
  /\ ~damaged
  /\ book' = [book EXCEPT ![pk][5] = @ + Reward]
  /\ UNCHANGED damaged

\* The damage itself takes nothing away ...
Damage == ~damaged /\ damaged' = TRUE /\ UNCHANGED book

\* ... but from then on nothing is promised.
Decay == damaged /\ UNCHANGED damaged

BookNext ==
  \/ \E id \in Ids : Register(id)
  \/ \E pk \in DOMAIN book : Pay(pk)
  \/ Damage
  \/ Decay

BookSpec == BookInit /\ [][BookNext]_<<book, damaged>>
=============================================================================
