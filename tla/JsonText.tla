------------------------------ MODULE JsonText ------------------------------
(***************************************************************************)
(* The texts of JSON: how parson.c writes a value, how much room it thinks  *)
(* it needs for that, how it reads a text, and how it removes comments.     *)
(* A text is a sequence of bytes; a place in it is an index, and what ends   *)
(* it is the NUL at the place after the last.                              *)
(***************************************************************************)
EXTENDS JsonValue

CONSTANT MAX_NESTING     \* 19 in the source

ASSUME NestingAssumption == MAX_NESTING \in Nat

Quote == 34   Comma == 44   Minus == 45   Slash == 47   Zero == 48   Colon == 58
LBracket == 91   Backslash == 92   RBracket == 93   LetterU == 117
LBrace == 123   RBrace == 125
Spaces == (9..13) \cup {32}
Digits == 48..57
HexDigits == Digits \cup (65..70) \cup (97..102)

TRUE_TOKEN == <<116, 114, 117, 101>>
FALSE_TOKEN == <<102, 97, 108, 115, 101>>
NULL_TOKEN == <<110, 117, 108, 108>>

\* What stands after the backslash, for the bytes that are written with one.
EscapeOf == [c \in {8, 9, 10, 12, 13, Quote, Backslash} |->
               CASE c = 8 -> 98 [] c = 9 -> 116 [] c = 10 -> 110 [] c = 12 -> 102
                 [] c = 13 -> 114 [] OTHER -> c]

NoText == <<-1>>         \* a NULL string
CString(s) == IF \E i \in DOMAIN s : s[i] = NUL
              THEN SubSeq(s, 1, SelectInSeq(s, LAMBDA c : c = NUL) - 1) ELSE s

-----------------------------------------------------------------------------
\* Numbers.

RECURSIVE Decimal(_)
Decimal(n) == IF n < 10 THEN <<Zero + n>> ELSE Append(Decimal(n \div 10), Zero + (n % 10))

\* sprintf: "%d" for whole numbers, else "%f", which leaves six digits.
FormatNumber(n) ==
  LET size == IF n < 0 THEN -n ELSE n
      sixes == (size + 5) \div 10
      sign == IF n < 0 THEN <<Minus>> ELSE <<>>
  IN  IF n % UNIT = 0 THEN sign \o Decimal(size \div UNIT)
      ELSE sign \o Decimal(sixes \div 1000000) \o <<Dot>>
             \o Tail(Decimal(1000000 + (sixes % 1000000)))

RECURSIVE SkipWhile(_, _, _)
SkipWhile(t, i, set) == IF At(t, i) \in set THEN SkipWhile(t, i + 1, set) ELSE i

RECURSIVE Numeral(_, _, _)
Numeral(t, i, j) == IF j < i THEN 0 ELSE Numeral(t, i, j - 1) * 10 + (t[j] - Zero)

Ten == [k \in 0..7 |-> CASE k = 0 -> 10000000 [] k = 1 -> 1000000 [] k = 2 -> 100000
          [] k = 3 -> 10000 [] k = 4 -> 1000 [] k = 5 -> 100 [] k = 6 -> 10 [] OTHER -> 1]

\* strtod: the number at a place and the place after it.  Exponents, inf and nan
\* are left out; without a digit nothing is read.
strtod(t, i) ==
  LET Value(s, whole, end) ==
        Numeral(t, s, whole - 1) * UNIT
        + IF end > whole + 1 THEN Numeral(t, whole + 1, end - 1) * Ten[end - whole - 1] ELSE 0
      Digital(s, whole, end) ==
        IF whole = s /\ end <= s + 1 THEN [number |-> 0, at |-> i]
        ELSE [number |-> IF s = i THEN Value(s, whole, end) ELSE -Value(s, whole, end), at |-> end]
      Fraction(s, whole) ==
        Digital(s, whole, IF At(t, whole) = Dot THEN SkipWhile(t, whole + 1, Digits) ELSE whole)
      Unsigned(s) ==
        IF At(t, s) = Zero /\ At(t, s + 1) \in {88, 120} /\ At(t, s + 2) \in HexDigits
        THEN [number |-> 0, at |-> SkipWhile(t, s + 2, HexDigits)]
        ELSE Fraction(s, SkipWhile(t, s, Digits))
  IN  Unsigned(IF At(t, i) = Minus THEN i + 1 ELSE i)

\* A number that strtod has read is refused if it has zeros in front or an x.
is_decimal(s) ==
  /\ Len(s) > 1 /\ s[1] = Zero => s[2] = Dot
  /\ Len(s) > 2 /\ s[1] = Minus /\ s[2] = Zero => s[3] = Dot
  /\ \A i \in DOMAIN s : s[i] \notin {88, 120}

-----------------------------------------------------------------------------
\* Writing.

json_serialize_string(s) ==
  <<Quote>> \o FlattenSeq([i \in DOMAIN s |-> IF s[i] \in DOMAIN EscapeOf
                                              THEN <<Backslash, EscapeOf[s[i]]>> ELSE <<s[i]>>])
    \o <<Quote>>

\* Not the code: what is escaped takes one byte.
Wrong_serialization_strlen(s) == Len(s)

serialization_strlen(s) ==
  Len(s) + Cardinality({i \in DOMAIN s : s[i] \in DOMAIN EscapeOf})

RECURSIVE json_serialization_size_r(_)
json_serialization_size_r(v) ==
  LET n == Len(v.items)
      inside == FoldLeft(LAMBDA sum, w : sum + json_serialization_size_r(w), 0, v.items)
  IN  CASE v.type = "array"   -> 2 + (IF n > 0 THEN n - 1 ELSE 0) + inside
        [] v.type = "object"  -> 2 + (IF n > 0 THEN n * 2 - 1 ELSE 0) + inside
                                 + FoldLeft(LAMBDA sum, k : sum + serialization_strlen(k) + 2, 0, v.names)
        [] v.type = "string"  -> serialization_strlen(v.atom) + 2
        [] v.type = "boolean" -> IF v.atom = <<1>> THEN 4 ELSE 5
        [] v.type = "number"  -> Len(FormatNumber(v.atom[1]))
        [] v.type = "null"    -> 4
        [] OTHER              -> 0

json_serialization_size(v) == json_serialization_size_r(v) + 1

\* Parts between brackets, with commas; nothing if one of them is NoText.
Bracketed(open, parts, close) ==
  IF \E i \in DOMAIN parts : parts[i] = NoText THEN NoText
  ELSE <<open>> \o FlattenSeq([i \in DOMAIN parts |->
                                 IF i < Len(parts) THEN Append(parts[i], Comma) ELSE parts[i]])
         \o <<close>>

RECURSIVE json_serialize_to_buffer_r(_)
json_serialize_to_buffer_r(v) ==
  CASE v.type = "array"   -> Bracketed(LBracket,
                               [i \in DOMAIN v.items |-> json_serialize_to_buffer_r(v.items[i])],
                               RBracket)
    [] v.type = "object"  -> Bracketed(LBrace,
                               [i \in DOMAIN v.items |->
                                  LET w == json_serialize_to_buffer_r(v.items[i])
                                  IN  IF w = NoText THEN NoText
                                      ELSE Append(json_serialize_string(v.names[i]), Colon) \o w],
                               RBrace)
    [] v.type = "string"  -> json_serialize_string(v.atom)
    [] v.type = "boolean" -> IF v.atom = <<1>> THEN TRUE_TOKEN ELSE FALSE_TOKEN
    [] v.type = "number"  -> FormatNumber(v.atom[1])
    [] v.type = "null"    -> NULL_TOKEN
    [] OTHER              -> NoText

\* Into a buffer of a size: refused if the text may not fit.
json_serialize_to_buffer(v, size) ==
  IF size < json_serialization_size(v) THEN NoText ELSE json_serialize_to_buffer_r(v)

json_serialize_to_string(v) == json_serialize_to_buffer(v, json_serialization_size(v))

-----------------------------------------------------------------------------
\* Strings read.

is_utf16_hex(t, i) == \A j \in i..(i + 3) : At(t, j) \in HexDigits
HexDigit(c) == IF c \in Digits THEN c - 48 ELSE IF c < 97 THEN c - 55 ELSE c - 87
Hex4(t, i) == HexDigit(t[i]) * 4096 + HexDigit(t[i + 1]) * 256
              + HexDigit(t[i + 2]) * 16 + HexDigit(t[i + 3])

Refused == [bytes |-> NoText, length |-> 0]

\* Not the code: the second half of a pair is taken for what it is not.
Wrong_parse_utf_16(t, i) ==
  IF ~is_utf16_hex(t, i) THEN Refused
  ELSE [bytes |-> Utf8Bytes(Hex4(t, i)), length |-> 6]

\* The escape whose digits begin at i: the bytes it stands for, its length.
parse_utf_16(t, i) ==
  IF ~is_utf16_hex(t, i) THEN Refused
  ELSE LET cp == Hex4(t, i)
       IN  IF ~IsSurrogate(cp) THEN [bytes |-> Utf8Bytes(cp), length |-> 6]
           ELSE IF /\ cp <= 56319
                   /\ At(t, i + 4) = Backslash /\ At(t, i + 5) = LetterU
                   /\ is_utf16_hex(t, i + 6)
                   /\ Hex4(t, i + 6) \in 56320..57343
           THEN [bytes |-> Utf8Bytes(Paired(cp, Hex4(t, i + 6))), length |-> 12]
           ELSE Refused

\* One character between the quotes, or one escape.
Unit(t, i) ==
  LET c == t[i]  next == At(t, i + 1)
  IN  IF c < 32 THEN Refused
      ELSE IF c # Backslash THEN [bytes |-> <<c>>, length |-> 1]
      ELSE IF next = LetterU THEN parse_utf_16(t, i + 2)
      ELSE IF next = Slash THEN [bytes |-> <<Slash>>, length |-> 2]
      ELSE IF \E b \in DOMAIN EscapeOf : EscapeOf[b] = next
      THEN [bytes |-> <<CHOOSE b \in DOMAIN EscapeOf : EscapeOf[b] = next>>, length |-> 2]
      ELSE Refused

Joined(bytes, more) == IF bytes = NoText \/ more = NoText THEN NoText ELSE bytes \o more

RECURSIVE ProcessedFrom(_, _)
ProcessedFrom(t, i) ==
  LET With(unit) == Joined(unit.bytes, ProcessedFrom(t, i + unit.length))
  IN  IF i > Len(t) THEN <<>> ELSE With(Unit(t, i))

\* NoText has no NUL in it.
process_string(s) == CString(ProcessedFrom(s, 1))

\* Not the code: a backslash does not hide the quote after it.
RECURSIVE WrongSkip(_, _)
WrongSkip(t, i) ==
  IF At(t, i) = Quote THEN i + 1 ELSE IF At(t, i) = NUL THEN i ELSE WrongSkip(t, i + 1)

\* The place after the quote that ends the string, or the end of the text.
RECURSIVE skip_quotes(_, _)
skip_quotes(t, i) ==
  CASE At(t, i) = Quote     -> i + 1
    [] At(t, i) = NUL       -> i
    [] At(t, i) = Backslash -> IF At(t, i + 1) = NUL THEN i + 1 ELSE skip_quotes(t, i + 2)
    [] OTHER                -> skip_quotes(t, i + 1)

\* The character at i is taken for the opening quote, whatever it is.
get_quoted_string(t, i) ==
  LET Ending(end) ==
        [string |-> IF At(t, end) = NUL THEN NoText ELSE process_string(SubSeq(t, i + 1, end - 2)),
         at |-> end]
  IN  Ending(skip_quotes(t, i + 1))

-----------------------------------------------------------------------------
\* Values read: the value at a place and the place after it.

Read(v, i) == [value |-> v, at |-> i]
Rejected == Read(NoValue, 0)

Skip(t, i) == SkipWhile(t, i, Spaces)
Starts(t, i, token) == \A k \in DOMAIN token : At(t, i + k - 1) = token[k]

parse_string_value(t, i) ==
  LET Value(quoted) == IF quoted.string = NoText THEN Rejected
                       ELSE Read(Simple("string", quoted.string), quoted.at)
  IN  Value(get_quoted_string(t, i))

parse_boolean_value(t, i) ==
  CASE Starts(t, i, TRUE_TOKEN)  -> Read(json_value_init_boolean(TRUE), i + 4)
    [] Starts(t, i, FALSE_TOKEN) -> Read(json_value_init_boolean(FALSE), i + 5)
    [] OTHER                     -> Rejected

parse_number_value(t, i) ==
  LET Value(n) == IF is_decimal(SubSeq(t, i, n.at - 1))
                  THEN Read(json_value_init_number(n.number), n.at) ELSE Rejected
  IN  Value(strtod(t, i))

parse_null_value(t, i) ==
  IF Starts(t, i, NULL_TOKEN) THEN Read(json_value_init_null, i + 4) ELSE Rejected

RECURSIVE parse_value(_, _, _), Members(_, _, _, _), Elements(_, _, _, _)

\* The loop of parse_object_value, at a key: the key, then a colon and a value, which
\* has to find a place, then a comma or the end.
Members(t, i, o, nesting) ==
  LET With(added, j) ==
        IF ~added.ok THEN Rejected
        ELSE IF At(t, j) = Comma THEN Members(t, Skip(t, j + 1), added.value, nesting)
        ELSE IF At(t, j) = RBrace THEN Read(Trimmed(added.value), j + 1)
        ELSE Rejected
      Valued(key, new) ==
        IF new = Rejected THEN Rejected
        ELSE With(json_object_add(o, key, new.value), Skip(t, new.at))
      Coloned(key, k) ==
        IF At(t, k) # Colon THEN Rejected ELSE Valued(key, parse_value(t, k + 1, nesting))
      Keyed(key) ==
        IF key.string = NoText THEN Rejected ELSE Coloned(key.string, Skip(t, key.at))
  IN  IF At(t, i) = NUL THEN Rejected ELSE Keyed(get_quoted_string(t, i))

\* The loop of parse_array_value.
Elements(t, i, a, nesting) ==
  LET With(added, j) ==
        IF ~added.ok THEN Rejected
        ELSE IF At(t, j) = Comma THEN Elements(t, Skip(t, j + 1), added.value, nesting)
        ELSE IF At(t, j) = RBracket THEN Read(Trimmed(added.value), j + 1)
        ELSE Rejected
      Valued(new) ==
        IF new = Rejected THEN Rejected ELSE With(json_array_add(a, new.value), Skip(t, new.at))
  IN  IF At(t, i) = NUL THEN Rejected ELSE Valued(parse_value(t, i, nesting))

parse_object_value(t, i, nesting) ==
  LET j == Skip(t, i + 1)
  IN  IF At(t, j) = RBrace THEN Read(json_value_init_object, j + 1)
      ELSE Members(t, j, json_value_init_object, nesting)

\* Not the code: arrays within arrays are not counted.
WrongNesting(t, i, nesting) ==
  LET j == Skip(t, i + 1)
  IN  IF At(t, j) = RBracket THEN Read(json_value_init_array, j + 1)
      ELSE Elements(t, j, json_value_init_array, nesting - 1)

parse_array_value(t, i, nesting) ==
  LET j == Skip(t, i + 1)
  IN  IF At(t, j) = RBracket THEN Read(json_value_init_array, j + 1)
      ELSE Elements(t, j, json_value_init_array, nesting)

parse_value(t, from, nesting) ==
  LET Value(i, c) ==
        CASE c = LBrace     -> parse_object_value(t, i, nesting + 1)
          [] c = LBracket   -> parse_array_value(t, i, nesting + 1)
          [] c = Quote      -> parse_string_value(t, i)
          [] c \in {102, 116} -> parse_boolean_value(t, i)
          [] c = Minus \/ c \in Digits -> parse_number_value(t, i)
          [] c = 110        -> parse_null_value(t, i)
          [] OTHER          -> Rejected
      i == Skip(t, from)
  IN  IF nesting > MAX_NESTING THEN Rejected ELSE Value(i, At(t, i))

\* The first value of a text, which must be an object or an array.
FirstValue(t) ==
  LET i == Skip(t, 1)
  IN  IF At(t, i) \in {LBrace, LBracket} THEN parse_value(t, i, 0) ELSE Rejected

json_parse_string(t) == FirstValue(t).value

-----------------------------------------------------------------------------
\* Comments.

Blanks(n) == [i \in 1..n |-> 32]
Blanked(t, i, n) == SubSeq(t, 1, i - 1) \o Blanks(n) \o SubSeq(t, i + n, Len(t))

\* The first place from i on where a token stands, 0 if none.
strstr(t, i, token) ==
  LET places == {j \in i..Len(t) : Starts(t, j, token)}
  IN  IF places = {} THEN 0 ELSE CHOOSE j \in places : \A k \in places : j <= k

\* The loop of remove_comments: a comment that does not end loses its first
\* token only.
RECURSIVE Uncommented(_, _, _, _, _, _)
Uncommented(t, i, open, close, in_string, escaped) ==
  IF At(t, i) = NUL THEN t
  ELSE IF t[i] = Backslash /\ ~escaped THEN Uncommented(t, i + 1, open, close, in_string, TRUE)
  ELSE IF t[i] = Quote /\ ~escaped THEN Uncommented(t, i + 1, open, close, ~in_string, FALSE)
  ELSE IF ~in_string /\ Starts(t, i, open)
  THEN LET end == strstr(t, i + Len(open), close)
           n   == IF end = 0 THEN Len(open) ELSE end + Len(close) - i
       IN  IF end = 0 THEN Blanked(t, i, n)
           ELSE Uncommented(Blanked(t, i, n), i + n, open, close, in_string, FALSE)
  ELSE Uncommented(t, i + 1, open, close, in_string, FALSE)

\* Not the code: strings are not looked at.
Wrong_remove_comments(t, open, close) ==
  LET i == strstr(t, 1, open)
      end == strstr(t, i + Len(open), close)
  IN  IF i = 0 \/ end = 0 THEN t ELSE Blanked(t, i, end + Len(close) - i)

remove_comments(t, open, close) == Uncommented(t, 1, open, close, FALSE, FALSE)

BlockOpen == <<Slash, 42>>
BlockClose == <<42, Slash>>
LineOpen == <<Slash, Slash>>
LineClose == <<10>>

WithoutComments(t) ==
  remove_comments(remove_comments(t, BlockOpen, BlockClose), LineOpen, LineClose)

json_parse_string_with_comments(t) == json_parse_string(WithoutComments(t))
=============================================================================
