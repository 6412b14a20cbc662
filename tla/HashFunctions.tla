--------------------------- MODULE HashFunctions ---------------------------
(***************************************************************************)
(* Hash functions of khash.h.                                              *)
(***************************************************************************)
EXTENDS Integers, SequencesExt

\* kh_int_hash_func
int_hash_func(key) == key

\* __ac_X31_hash_string; as many low bits of it as a mask may take.
X31_hash_string(s, width) == FoldLeft(LAMBDA h, c : (31 * h + c) % width, 0, s)
=============================================================================
