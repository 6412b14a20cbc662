------------------------------ MODULE KString ------------------------------
(***************************************************************************)
(* The searches of kstring.c, on texts that grow by one character at a     *)
(* time: Boyer and Moore's in kmemmem, the fields of ksplit and the tokens  *)
(* of kstrtok.  Places count from 0 as in the source; what a text ends     *)
(* with is "end".                                                          *)
(***************************************************************************)
EXTENDS Integers, SequencesExt, FiniteSetsExt

CONSTANTS
  Chars,
  Separators,   \* \subseteq Chars: the delimiter of ksplit, sep of kstrtok
  Patterns,     \* \subseteq Seq(Chars) \ {<<>>}
  MaxText       \* bound: characters

KStringAssumption ==
  /\ Separators \subseteq Chars /\ "end" \notin Chars
  /\ \A pat \in Patterns : Len(pat) > 0

VARIABLE text

TextInit == text = <<>>
Type == Len(text) < MaxText /\ \E c \in Chars : text' = Append(text, c)

At(s, i) == s[i + 1]

-----------------------------------------------------------------------------
\* ksBM_prep.

\* How far a pattern can move when a character of the text meets its last one.
bmBc(pat, c) ==
  LET m  == Len(pat)
      at == {i \in 0..(m - 2) : At(pat, i) = c}
  IN  IF at = {} THEN m ELSE m - 1 - Max(at)

\* The characters before g + 1 that are those d places behind them.
RECURSIVE Back(_, _, _)
Back(pat, g, d) ==
  IF g >= 0 /\ At(pat, g) = At(pat, g + d) THEN Back(pat, g - 1, d) ELSE g

\* suffixes(): how many characters up to i are those the pattern ends with.  What is
\* known of a stretch that matched is used again.
RECURSIVE SuffixesFrom(_, _, _, _, _)
SuffixesFrom(pat, i, f, g, suff) ==
  LET m == Len(pat)
      known == suff[i + m - 1 - f]
      Compared(h) == SuffixesFrom(pat, i - 1, i, h, [suff EXCEPT ![i] = i - h])
  IN  IF i < 0 THEN suff
      ELSE IF i > g /\ known < i - g
      THEN SuffixesFrom(pat, i - 1, f, g, [suff EXCEPT ![i] = known])
      ELSE Compared(Back(pat, Min({i, g}), m - 1 - i))

suffixes(pat) ==
  LET m == Len(pat)
  IN  SuffixesFrom(pat, m - 2, m - 1, m - 1,
                   [i \in 0..(m - 1) |-> IF i = m - 1 THEN m ELSE 0])

\* Not the code: what the pattern begins with is not looked at.
WrongGoodSuffix(pat, suff) ==
  LET m == Len(pat)
      again(j) == {i \in 0..(m - 2) : m - 1 - suff[i] = j}
  IN  [j \in 0..(m - 1) |-> IF again(j) # {} THEN m - 1 - Max(again(j)) ELSE m]

\* bmGs: how far the pattern can move when it differs at j: to where it has what it ends
\* with again, or begins with an end of that.
GoodSuffix(pat, suff) ==
  LET m == Len(pat)
      again(j) == {i \in 0..(m - 2) : m - 1 - suff[i] = j}
      begins(j) == {i \in 0..(m - 1) : suff[i] = i + 1 /\ j < m - 1 - i}
  IN  [j \in 0..(m - 1) |->
         IF again(j) # {} THEN m - 1 - Max(again(j))
         ELSE IF begins(j) # {} THEN m - 1 - Max(begins(j)) ELSE m]

RECURSIVE FoundFrom(_, _, _, _)
FoundFrom(s, pat, bmGs, j) ==
  LET m == Len(pat)
      differs == {i \in 0..(m - 1) : At(pat, i) # At(s, i + j)}
      Moved(i) == Max({bmBc(pat, At(s, i + j)) - m + 1 + i, bmGs[i]})
  IN  IF j > Len(s) - m THEN Len(s)
      ELSE IF differs = {} THEN j
      ELSE FoundFrom(s, pat, bmGs, j + Moved(Max(differs)))

\* Where the pattern is in the text, the end of the text if it is nowhere.
kmemmem(s, pat) == FoundFrom(s, pat, GoodSuffix(pat, suffixes(pat)), 0)

-----------------------------------------------------------------------------
\* ksplit_core: what it knows at a place.
Split(last_char, last_start, offsets) ==
  [last_char |-> last_char, last_start |-> last_start, offsets |-> offsets]

\* Not the code: only a separator ends a field.
WrongSeen(p, c, i) ==
  IF c \in Separators
  THEN Split("end", p.last_start, IF p.last_char \in Separators \cup {"end"} THEN p.offsets
                                  ELSE Append(p.offsets, p.last_start))
  ELSE Split(c, IF p.last_char \in Separators \cup {"end"} THEN i ELSE p.last_start, p.offsets)

\* The end of a field becomes an end of text.
Seen(p, c, i) ==
  LET apart == Separators \cup {"end"}
  IN  IF c \in apart
      THEN IF p.last_char \in apart THEN [p EXCEPT !.last_char = c]
           ELSE Split("end", p.last_start, Append(p.offsets, p.last_start))
      ELSE Split(c, IF p.last_char \in apart THEN i ELSE p.last_start, p.offsets)

ksplit(s) ==
  FoldLeft(LAMBDA p, i : Seen(p, Append(s, "end")[i], i - 1), Split("end", 0, <<>>),
           [i \in 1..(Len(s) + 1) |-> i]).offsets

\* kstrtok, called until it answers NULL: where each token starts and ends.
RECURSIVE TokensFrom(_, _)
TokensFrom(s, start) ==
  LET stops == {i \in start..(Len(s) - 1) : At(s, i) \in Separators}
      p == IF stops = {} THEN Len(s) ELSE Min(stops)
  IN  <<<<start, p>>>> \o (IF p = Len(s) THEN <<>> ELSE TokensFrom(s, p + 1))
kstrtok(s) == TokensFrom(s, 0)

-----------------------------------------------------------------------------
\* The first place where the pattern is in the text is never jumped over, and none
\* is found where it is not.
SearchFinds ==
  \A pat \in Patterns :
    LET places == {j \in 0..(Len(text) - Len(pat)) : SubSeq(text, j + 1, j + Len(pat)) = pat}
    IN  kmemmem(text, pat) = IF places = {} THEN Len(text) ELSE Min(places)

\* ksplit finds where every stretch without separators begins, kstrtok every
\* stretch between two separators, the empty ones too.
TextsAreCut ==
  LET apart(i) == i \in {-1, Len(text)} \/ At(text, i) \in Separators
      ends == {i \in 0..Len(text) : apart(i)}
  IN  /\ ToSet(ksplit(text)) = {i \in 0..(Len(text) - 1) : ~apart(i) /\ apart(i - 1)}
      /\ IsSorted(ksplit(text), <)
      /\ ToSet(kstrtok(text)) = {<<i, j>> \in (0..Len(text)) \X ends :
           i <= j /\ apart(i - 1) /\ \A k \in i..(j - 1) : ~apart(k)}
=============================================================================
