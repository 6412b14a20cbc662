---------------------------- MODULE MCContainers ----------------------------
EXTENDS Containers, HashFunctions

\* The access tokens of the first sessions: "user0", "user1", ...
Token(n) == <<117, 115, 101, 114, 48 + n>>

\* Users and rooms are found by their number, sessions by their token; and the worst
\* of hash functions.
MCHashes == {[k \in Keys |-> int_hash_func(k)], [k \in Keys |-> 3], [k \in Keys |-> 4 * k],
             [k \in Keys |-> X31_hash_string(Token(k), 1024)]}

MCPatterns == UNION {[1..m -> {"a", "b"}] : m \in 1..5}
=============================================================================
