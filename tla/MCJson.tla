------------------------------ MODULE MCJson ------------------------------
EXTENDS JsonDocument

One == <<49>>
\* Brackets, a comma, quotes with and without a colon, and a number.
Json == {<<LBracket>>, <<RBracket>>, <<LBrace>>, <<RBrace>>, <<Comma>>, <<Quote>>,
         <<Quote, Colon>>, <<49, 32>>}

\* Whole escapes: ASCII, the limits of two and three bytes, both halves of a pair.
Escape(digits) == <<Backslash, LetterU>> \o digits
Strings == {<<65>>, <<Quote>>, <<Backslash>>, <<10>>, <<1>>, <<194, 128>>, <<237, 160, 128>>,
            Escape(<<48, 48, 55, 102>>), Escape(<<48, 48, 56, 48>>), Escape(<<48, 55, 70, 70>>),
            Escape(<<68, 56, 51, 100>>), Escape(<<68, 67, 48, 48>>), Escape(<<70, 70, 70, 70>>)}

Comments == {<<LBracket>>, <<RBracket>>, One, <<Quote>>, <<10>>, <<Slash>>, BlockOpen, BlockClose}

A == <<97>>   B == <<100>>
Path(names) == names[1] \o <<Dot>> \o names[2]
\* {"a":1,"b":1,"c":1} and [1,1,1]
Full == <<LBrace, Quote, 97, Quote, Colon, 49, Comma, Quote, 98, Quote, Colon, 49, Comma,
          Quote, 99, Quote, Colon, 49, RBrace>>
Three == <<LBracket, 49, Comma, 49, Comma, 49, RBracket>>
SomeTexts == {Full, Three}
SomeKeys == {B, Path(<<A, B>>)}
SomeFresh == {json_value_init_number(UNIT), json_value_init_object,
              json_value_init_string(<<237, 160, 128>>)}

\* A quarter of what "%f" prints last, a tenth below zero, and strings: a quote, a
\* control character, two bytes of UTF-8.
PrintKeys == {A, <<Quote, 10>>}
PrintFresh == {json_value_init_number(4), json_value_init_number(-1000006),
               json_value_init_number(-12 * UNIT), json_value_init_boolean(TRUE),
               json_value_init_boolean(FALSE), json_value_init_null,
               json_value_init_string(<<Quote, 200, 128>>), json_value_init_string(<<1>>),
               json_value_init_object, json_value_init_array}

AllPieces == [json |-> Json, string |-> Strings, comments |-> Comments]
PieceCounts == [json |-> 6, string |-> 4, comments |-> 6]
AllTexts == [changed |-> SomeTexts, printed |-> {}]
AllKeys == [changed |-> SomeKeys, printed |-> PrintKeys]
AllFresh == [changed |-> SomeFresh, printed |-> PrintFresh]
NodeCounts == [changed |-> 4, printed |-> 3]
LeakCounts == [changed |-> 1, printed |-> 0]
NoPieces == << >>
=============================================================================
