------------------------------ MODULE JsonTexts ------------------------------
(***************************************************************************)
(* Every text made of a few pieces, and what JsonText makes of it, against *)
(* definitions of JSON, of comments and of strings that do not follow the  *)
(* code.  The kind of a text says what it is tried as.                     *)
(***************************************************************************)
EXTENDS JsonText

CONSTANTS Pieces,     \* kind of text -> the sequences of bytes it is put together from
          MaxPieces   \* bound: kind of text -> how many of them

VARIABLES kind, text, count

textVars == <<kind, text, count>>

TextInit ==
  /\ kind \in DOMAIN Pieces
  /\ text = <<>> /\ count = 0

Grow ==
  /\ kind \in DOMAIN Pieces
  /\ count < MaxPieces[kind]
  /\ count' = count + 1
  /\ \E piece \in Pieces[kind] : text' = text \o piece
  /\ UNCHANGED kind

-----------------------------------------------------------------------------
\* JSON by its grammar: the parts of a text that are values.

Core(s) == SubSeq(s, Skip(s, 1), Len(s) - (Skip(Reverse(s), 1) - 1))
Inner(s) == SubSeq(s, 2, Len(s) - 1)
Before(s, i) == SubSeq(s, 1, i - 1)
After(s, i) == SubSeq(s, i + 1, Len(s))

IsQuoted(s) == Len(s) >= 2 /\ s[1] = Quote /\ s[Len(s)] = Quote /\ Quote \notin Range(Inner(s))
IsNumber(s) == s # <<>> /\ Range(s) \subseteq Digits /\ (s[1] = Zero => Len(s) = 1)

\* The quote a key begins with is asked for by JSON, not by the parser.
IsKey(s, strict) ==
  Len(s) >= 2 /\ s[Len(s)] = Quote /\ Quote \notin Range(Inner(s)) /\ (strict => s[1] = Quote)

RECURSIVE IsValue(_, _, _), IsElements(_, _, _), IsMembers(_, _, _)

\* nesting is the depth a value lies at.
IsContainer(s, nesting, strict) ==
  LET inside == Core(Inner(s))
  IN  /\ Len(s) >= 2
      /\ \/ s[1] = LBracket /\ s[Len(s)] = RBracket
            /\ (inside = <<>> \/ IsElements(inside, nesting + 1, strict))
         \/ s[1] = LBrace /\ s[Len(s)] = RBrace
            /\ (inside = <<>> \/ IsMembers(inside, nesting + 1, strict))

IsValue(s, nesting, strict) ==
  LET c == Core(s)
  IN  nesting <= MAX_NESTING /\ (IsQuoted(c) \/ IsNumber(c) \/ IsContainer(c, nesting, strict))

IsElements(s, nesting, strict) ==
  \/ IsValue(s, nesting, strict)
  \/ \E i \in DOMAIN s : /\ s[i] = Comma
                         /\ IsValue(Before(s, i), nesting, strict)
                         /\ IsElements(After(s, i), nesting, strict)

IsMember(s, nesting, strict) ==
  \E i \in DOMAIN s : /\ s[i] = Colon
                      /\ IsKey(Core(Before(s, i)), strict)
                      /\ IsValue(After(s, i), nesting, strict)

IsMembers(s, nesting, strict) ==
  \/ IsMember(s, nesting, strict)
  \/ \E i \in DOMAIN s : /\ s[i] = Comma
                         /\ IsMember(Before(s, i), nesting, strict)
                         /\ IsMembers(After(s, i), nesting, strict)

ContainerUpTo(j, strict) == IsContainer(SubSeq(text, 1, j), 0, strict)

\* A text that begins with an array or an object, not deeper than MAX_NESTING, is
\* accepted, and that value is what is read, whatever comes after it.  Nothing else is
\* accepted, with one exception: the character a key begins with need not be a quote
\* (ErrorsAreRefused).
FirstValueIsRead ==
  LET read == FirstValue(text)
  IN  kind = "json" =>
        /\ \A j \in DOMAIN text : ContainerUpTo(j, TRUE) => read # Rejected /\ read.at = j + 1
        /\ read # Rejected => ContainerUpTo(read.at - 1, FALSE)

\* parson.h of json_parse_string: "Parses first JSON value in a string, returns NULL in
\* case of error".
ErrorsAreRefused ==
  LET read == FirstValue(text)
  IN  kind = "json" /\ read # Rejected => ContainerUpTo(read.at - 1, TRUE)

-----------------------------------------------------------------------------
\* Strings.

\* Bytes that are written as they are, although no string may hold them.
HasControl(s) == \E i \in DOMAIN s : s[i] < 32 /\ s[i] \notin DOMAIN EscapeOf

\* What is read of a string that was written is the string, and the place
\* after its quote is found, whatever follows; but not with a control character
\* that has no short escape in it.
StringsAreReread ==
  LET read == get_quoted_string(Append(json_serialize_string(text), Colon), 1)
  IN  kind = "string" =>
        IF HasControl(text) THEN read.string = NoText
        ELSE read.string = CString(text) /\ read.at = Len(json_serialize_string(text)) + 1

\* Escapes in a valid string yield a valid string, so json_value_init_string accepts
\* what a client sent when it is sent back; and it never is longer than the
\* buffer process_string has taken for it.
EscapesAreUtf8 ==
  LET s == ProcessedFrom(text, 1)
  IN  (kind = "string" /\ s # NoText /\ is_valid_utf8(text)) => is_valid_utf8(s) /\ Len(s) <= Len(text)

-----------------------------------------------------------------------------
\* Comments by a scanner that takes strings and both kinds in one pass.

Scan(t, kinds, closed) == [text |-> t, kinds |-> kinds, closed |-> closed]

RECURSIVE Scanned(_, _)
Scanned(t, i) ==
  LET Comment(open, close) ==
        LET end == strstr(t, i + 2, close)
            n   == end + Len(close) - i
        IN  IF end = 0 THEN Scan(Before(t, i), {open}, FALSE)
            ELSE LET rest == Scanned(Blanked(t, i, n), i + n)
                 IN  [rest EXCEPT !.kinds = @ \cup {open}]
      quote == strstr(t, i + 1, <<Quote>>)
  IN  IF i > Len(t) \/ (t[i] = Quote /\ quote = 0) THEN Scan(t, {}, TRUE)
      ELSE IF t[i] = Quote THEN Scanned(t, quote + 1)
      ELSE IF Starts(t, i, BlockOpen) THEN Comment(BlockOpen, BlockClose)
      ELSE IF Starts(t, i, LineOpen) THEN Comment(LineOpen, LineClose)
      ELSE Scanned(t, i + 1)

\* Closed comments are removed, and nothing else is, as long as line comments do not
\* meet the opening of a block comment, which is looked for first and everywhere
\* outside strings.
CommentsAreRemoved ==
  LET scan == Scanned(text, 1)
  IN  /\ kind = "comments"
      /\ scan.closed
      /\ LineOpen \in scan.kinds => strstr(text, 1, BlockOpen) = 0
      => WithoutComments(text) = scan.text

\* What a program gets to see of a text: the value that begins it, and that without
\* its comments.
TextsAreRead == FirstValueIsRead /\ CommentsAreRemoved
=============================================================================
