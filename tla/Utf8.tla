-------------------------------- MODULE Utf8 --------------------------------
(***************************************************************************)
(* UTF-8 as parson.c checks it and writes it.  A byte is a number, a string *)
(* a sequence of bytes; bit masks and shifts are remainders and quotients.  *)
(***************************************************************************)
EXTENDS Integers, Sequences

Byte == 0..255
NUL == 0

\* The byte at a place of a C string: its end is a zero.
At(s, i) == IF i \in 1..Len(s) THEN s[i] ELSE NUL

IS_CONT(b) == b \div 64 = 2

\* How long the sequence is that a byte begins, 0 if none begins with it.
num_bytes_in_utf8_sequence(c) ==
  CASE c \in {192, 193} \/ c > 244 \/ IS_CONT(c) -> 0
    [] c < 128                -> 1
    [] c \in 194..223         -> 2
    [] c \in 224..239         -> 3
    [] OTHER                  -> 4

\* The bits of a sequence of len bytes.
CodePoint(s, len) ==
  CASE len = 1 -> s[1]
    [] len = 2 -> (s[1] % 32) * 64 + (s[2] % 64)
    [] len = 3 -> (s[1] % 16) * 4096 + (s[2] % 64) * 64 + (s[3] % 64)
    [] OTHER   -> (s[1] % 8) * 262144 + (s[2] % 64) * 4096 + (s[3] % 64) * 64 + (s[4] % 64)

MAX_CODE_POINT == 1114111

IsSurrogate(cp) == 55296 <= cp /\ cp <= 57343
Overlong(cp, len) ==
  \/ cp < 128 /\ len > 1
  \/ cp < 2048 /\ len > 2
  \/ cp < 65536 /\ len > 3

\* Whether a string that is not empty begins with a sequence that is allowed.
verify_utf8_sequence(s) ==
  LET len == num_bytes_in_utf8_sequence(At(s, 1))
  IN  /\ len # 0
      /\ \A i \in 2..len : IS_CONT(At(s, i))
      /\ LET cp == CodePoint(s, len)
         IN  ~Overlong(cp, len) /\ cp <= MAX_CODE_POINT /\ ~IsSurrogate(cp)

\* valid[i]: the string is valid from place i on.
is_valid_utf8(s) ==
  LET valid[i \in 1..(Len(s) + 4)] ==
        LET rest == SubSeq(s, i, Len(s))
        IN  \/ i > Len(s)
            \/ /\ verify_utf8_sequence(rest)
               /\ valid[i + num_bytes_in_utf8_sequence(s[i])]
  IN  valid[1]

\* The code point two \u escapes stand for.
Paired(lead, trail) == (lead - 55296) * 1024 + (trail - 56320) + 65536

\* What parse_utf_16 writes for a code point that is no surrogate.
Utf8Bytes(cp) ==
  IF cp < 128        THEN <<cp>>
  ELSE IF cp < 2048  THEN <<192 + ((cp \div 64) % 32), 128 + (cp % 64)>>
  ELSE IF cp < 65536 THEN <<224 + ((cp \div 4096) % 16), 128 + ((cp \div 64) % 64),
                            128 + (cp % 64)>>
  ELSE                    <<240 + ((cp \div 262144) % 8), 128 + ((cp \div 4096) % 64),
                            128 + ((cp \div 64) % 64), 128 + (cp % 64)>>
=============================================================================
