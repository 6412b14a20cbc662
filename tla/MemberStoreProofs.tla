-------------------------- MODULE MemberStoreProofs --------------------------
(***************************************************************************)
(* The invariants of MemberStore, for every set of users, any rewards and  *)
(* any number of crashes: types and the count whatever the crashes leave,  *)
(* and, until one of them tears the files, that they are the account book. *)
(***************************************************************************)
EXTENDS MemberStore, SequenceTheorems, TLAPS

-----------------------------------------------------------------------------
\* What fscanf does to a call, for any lines.

CallType == [place : Place, got : Seq(Tokens), ok : BOOLEAN]

\* A place is that of a word, or after the last one.
InText(place) ==
  /\ place \in Place
  /\ ~AtEnd(place) => place.col <= Len(member[place.line])

\* Sequences have places, and members of them are in the set.
LEMMA SeqPlaces ==
  ASSUME NEW S, NEW s \in Seq(S)
  PROVE  /\ Len(s) \in Nat
         /\ DOMAIN s = 1 .. Len(s)
         /\ \A i \in 1 .. Len(s) : s[i] \in S
         /\ s = <<>> <=> Len(s) = 0
BY LenProperties, ElementOfSeq, EmptySeq

\* A line is not empty.
LEMMA LinesHaveWords ==
  ASSUME NEW lines \in Seq(Line)
  PROVE  /\ Len(lines) \in Nat
         /\ DOMAIN lines = 1 .. Len(lines)
         /\ \A i \in 1 .. Len(lines) : /\ lines[i] \in Seq(Tokens)
                                       /\ Len(lines[i]) \in Nat \ {0}
                                       /\ \A j \in 1 .. Len(lines[i]) : lines[i][j] \in Tokens
<1>1. /\ Len(lines) \in Nat
      /\ DOMAIN lines = 1 .. Len(lines)
      /\ \A i \in 1 .. Len(lines) : lines[i] \in Line
  BY SeqPlaces
<1>2. \A line \in Line : /\ line \in Seq(Tokens)
                         /\ Len(line) \in Nat \ {0}
                         /\ \A j \in 1 .. Len(line) : line[j] \in Tokens
  <2> SUFFICES ASSUME NEW line \in Line
               PROVE  /\ line \in Seq(Tokens)
                      /\ Len(line) \in Nat \ {0}
                      /\ \A j \in 1 .. Len(line) : line[j] \in Tokens
    OBVIOUS
  <2>1. line \in Seq(Tokens) /\ line # <<>>
    BY DEF Line
  <2> QED
    BY <2>1, SeqPlaces
<1> QED
  BY <1>1, <1>2

\* The first place of a text is one of it, and so is the one after it.
LEMMA PastIsInText ==
  ASSUME member \in Seq(Line), NEW place, InText(place), ~AtEnd(place)
  PROVE  TokenAt(place) \in Tokens /\ InText(Past(place))
<1>1. /\ Len(member) \in Nat
      /\ \A i \in 1 .. Len(member) : /\ Len(member[i]) \in Nat \ {0}
                                     /\ \A j \in 1 .. Len(member[i]) : member[i][j] \in Tokens
  BY LinesHaveWords
<1>2. place.line \in 1 .. Len(member) /\ place.col \in 1 .. Len(member[place.line])
  BY <1>1 DEF InText, AtEnd, Place
<1>3. CASE place.col < Len(member[place.line])
  <2>1. Past(place) = [line |-> place.line, col |-> place.col + 1]
    BY <1>2, <1>3 DEF Past, InText, Place
  <2>2. Past(place) \in Place /\ Past(place).line = place.line /\ Past(place).col = place.col + 1
    BY <1>1, <1>2, <2>1 DEF Place
  <2> QED
    BY <1>1, <1>2, <1>3, <2>2 DEF TokenAt, InText
<1>4. CASE ~(place.col < Len(member[place.line]))
  <2>1. Past(place) = [line |-> place.line + 1, col |-> 1]
    BY <1>4 DEF Past
  <2>2. Past(place) \in Place /\ Past(place).line = place.line + 1 /\ Past(place).col = 1
    BY <1>1, <1>2, <2>1 DEF Place
  <2>3. ~AtEnd(Past(place)) => Past(place).col <= Len(member[Past(place).line])
    BY <1>1, <1>2, <2>2 DEF AtEnd
  <2> QED
    BY <1>1, <1>2, <2>2, <2>3 DEF TokenAt, InText
<1> QED
  BY <1>3, <1>4

\* A text starts at one of its places.
LEMMA StartIsInText ==
  ASSUME member \in Seq(Line)
  PROVE  InText(Start) /\ Start \in Place
<1>1. Start \in Place /\ Start.line = 1 /\ Start.col = 1
  BY DEF Start, Place
<1> QED
  BY <1>1, LinesHaveWords DEF InText, AtEnd

\* A conversion reads one word more, or fails and leaves all as it was.
OneMore(before, after, S) ==
  /\ after \in CallType /\ InText(after.place)
  /\ \/ /\ ~after.ok /\ after.got = before.got
     \/ /\ after.ok /\ before.ok
        /\ Len(after.got) = Len(before.got) + 1
        /\ \A i \in 1 .. Len(before.got) : after.got[i] = before.got[i]
        /\ after.got[Len(before.got) + 1] \in S

\* %s reads any word, %d a number.
LEMMA ConversionTypes ==
  ASSUME member \in Seq(Line), NEW call \in CallType, InText(call.place)
  PROVE  OneMore(call, Word(call), Tokens) /\ OneMore(call, Number(call), Nat)
<1>1. OneMore(call, Failed(call), {})
  BY DEF Failed, OneMore, CallType
<1>2. ASSUME NEW S, ~AtEnd(call.place), TokenAt(call.place) \in S, call.ok
      PROVE  OneMore(call, Took(call), S)
  <2>1. InText(Past(call.place)) /\ TokenAt(call.place) \in Tokens
    BY <1>2, PastIsInText
  <2>2. call.got \in Seq(Tokens)
    BY DEF CallType
  <2> DEFINE got == Append(call.got, TokenAt(call.place))
  <2>3. /\ got \in Seq(Tokens)
        /\ Len(got) = Len(call.got) + 1
        /\ \A i \in 1 .. Len(call.got) : got[i] = call.got[i]
        /\ got[Len(call.got) + 1] = TokenAt(call.place)
    BY <2>1, <2>2, AppendProperties
  <2>4. /\ Took(call) = [place |-> Past(call.place), got |-> got, ok |-> TRUE]
    BY DEF Took
  <2> HIDE DEF got
  <2> QED
    BY <1>2, <2>1, <2>3, <2>4 DEF OneMore, CallType, InText
<1>3. OneMore(call, Failed(call), Tokens) /\ OneMore(call, Failed(call), Nat)
  BY <1>1 DEF OneMore, Failed
<1>4. OneMore(call, Word(call), Tokens)
  <2>1. CASE call.ok /\ ~AtEnd(call.place)
    <3>1. TokenAt(call.place) \in Tokens
      BY <2>1, PastIsInText
    <3> QED
      BY <1>2, <2>1, <3>1 DEF Word
  <2> QED
    BY <1>3, <2>1 DEF Word
<1>5. OneMore(call, Number(call), Nat)
  <2>1. CASE call.ok /\ ~AtEnd(call.place) /\ TokenAt(call.place) \in Nat
    BY <1>2, <2>1 DEF Number
  <2> QED
    BY <1>3, <2>1 DEF Number
<1> QED
  BY <1>4, <1>5

\* A call begins without words.
LEMMA CallBegins ==
  ASSUME NEW place, InText(place)
  PROVE  /\ Call(place) \in CallType /\ InText(Call(place).place)
         /\ Call(place).ok /\ Len(Call(place).got) = 0
<1>1. Len(<<>>) = 0 /\ <<>> \in Seq(Tokens)
  BY EmptySeq
<1> QED
  BY <1>1 DEF Call, CallType, InText

-----------------------------------------------------------------------------
\* Types, whatever crashes leave behind.

Reading == {"look up", "tmp open", "load"}
Paying  == {"pay", "tmp open", "tmp closed", "member open"}

\* With the types go the place of a loop and that somebody is still to be paid.
TypeInv ==
  /\ StoreTypeOK
  /\ at \in Reading => InText(loop.place)
  /\ at \in Paying => due # <<>>

\* The constants are words, and some are numbers.
LEMMA ConstantTypes ==
  /\ GameExp \in Nat /\ CharacterType \in Nat
  /\ Nat \subseteq Tokens /\ Words \subseteq Tokens /\ Ids \subseteq Tokens
  /\ Password \in Tokens /\ CharacterType \in Tokens /\ Junk \in Tokens
BY StoreAssumption DEF Words, Tokens

\* A text of one word.
LEMMA OneWord ==
  ASSUME NEW word \in Tokens
  PROVE  <<word>> \in Seq(Tokens) /\ Len(<<word>>) = 1 /\ <<word>>[1] = word
OBVIOUS

\* A line of an account is a line.
LEMMA AccountLineType ==
  ASSUME NEW user \in User
  PROVE  AccountLine(user) \in Line
<1> DEFINE rest == <<Password, CharacterType, user.exp>>
           front == <<user.pk>> \o user.id
<1>1. <<user.pk>> \in Seq(Tokens) /\ user.id \in Seq(Tokens) /\ rest \in Seq(Tokens)
  <2>1. user.pk \in Tokens /\ user.exp \in Tokens /\ user.id \in Seq(Tokens)
    BY DEF User, Tokens
  <2>2. <<user.pk>> \in Seq(Tokens)
    BY <2>1
  <2>3. rest \in Seq(Tokens)
    BY <2>1, ConstantTypes
  <2> QED
    BY <2>1, <2>2, <2>3
<1>2. Len(<<user.pk>>) = 1 /\ Len(rest) = 3
  OBVIOUS
<1> HIDE DEF rest
<1>3. front \in Seq(Tokens) /\ Len(front) = 1 + Len(user.id) /\ Len(user.id) \in Nat
  BY <1>1, <1>2, ConcatProperties, LenProperties
<1> HIDE DEF front
<1>4. front \o rest \in Seq(Tokens) /\ Len(front \o rest) = Len(front) + 3
  <2>1. front \o rest \in Seq(Tokens) /\ Len(front \o rest) = Len(front) + Len(rest)
    BY <1>1, <1>3, ConcatProperties, Zenon
  <2> QED
    BY <1>2, <2>1
<1>5. front \o rest # <<>>
  <2>1. Len(front \o rest) \in Nat \ {0}
    BY <1>3, <1>4
  <2> QED
    BY <1>4, <2>1, EmptySeq
<1> QED
  BY <1>4, <1>5 DEF AccountLine, Line, front, rest

\* One word and a text make a line.
LEMMA LineOf ==
  ASSUME NEW pk \in Nat, NEW text \in Seq(Tokens)
  PROVE  <<pk>> \o text \in Line
<1>1. <<pk>> \in Seq(Tokens) /\ Len(<<pk>>) = 1
  BY ConstantTypes
<1>2. /\ <<pk>> \o text \in Seq(Tokens)
      /\ Len(<<pk>> \o text) = 1 + Len(text)
      /\ Len(text) \in Nat
  BY <1>1, ConcatProperties, LenProperties
<1>3. <<pk>> \o text # <<>>
  <2>1. Len(<<pk>> \o text) # 0
    BY <1>2
  <2> QED
    BY <1>2, <2>1, EmptySeq
<1> QED
  BY <1>2, <1>3 DEF Line

\* The counts the code may find are numbers.
LEMMA CountTypes ==
  ASSUME StoreTypeOK
  PROVE  \A n \in Counts : n \in Int /\ n + 1 \in Nat
BY StoreAssumption DEF StoreTypeOK, Counts, Empty

\* What records and locals hold at first.
LEMMA BlankTypes ==
  ASSUME member \in Seq(Line)
  PROVE  /\ Blank \in User
         /\ Idle \in Turn
         /\ \A n \in Int, exp \in Nat : /\ Loop(n, exp) \in Turn
                                      /\ Loop(n, exp).place = Start
<1>1. <<>> \in Seq(Tokens) /\ <<>> \in Seq(Line)
  BY EmptySeq
<1>2. Start \in Place
  BY StartIsInText
<1>3. Blank \in User
  BY <1>1 DEF Blank, User
<1>4. \A n \in Int, exp \in Nat : Loop(n, exp) \in Turn /\ Loop(n, exp).place = Start
  BY <1>1, <1>2 DEF Loop, Turn, Unset
<1> QED
  BY <1>3, <1>4 DEF Idle

\* A turn ends with the next one's locals.
LEMMA TurnedTypes ==
  ASSUME loop \in Turn, NEW place \in Place, NEW pk \in Nat \cup {Unset},
         NEW buf \in Seq(Tokens), NEW out \in Seq(Line)
  PROVE  /\ Turned(place, pk, buf, out) \in Turn
         /\ Turned(place, pk, buf, out).place = place
BY DEF Turned, Turn

\* The exp of a user who is paid.
LEMMA PaidTypes ==
  ASSUME StoreTypeOK, NEW k \in DOMAIN user_table
  PROVE  user_table[k] \in User /\ user_table[k].exp + GameExp \in Nat
<1>1. user_table[k] \in User
  BY DEF StoreTypeOK
<1>2. user_table[k].exp \in Nat
  BY <1>1 DEF User
<1> QED
  BY <1>1, <1>2, ConstantTypes

\* The first users and lines have their types.
LEMMA InitTypes == Init => TypeInv
<1> SUFFICES ASSUME Init PROVE TypeInv
  OBVIOUS
<1>1. /\ Len(Members) \in Nat /\ DOMAIN Members = 1 .. Len(Members)
      /\ \A i \in 1 .. Len(Members) : Members[i] \in Ids
  BY StoreAssumption, SeqPlaces
<1>2. \A i \in 1 .. Len(Members) : FirstUsers[i] \in User
  <2> SUFFICES ASSUME NEW i \in 1 .. Len(Members) PROVE FirstUsers[i] \in User
    OBVIOUS
  <2>1. <<Members[i]>> \in Seq(Tokens)
    BY <1>1, ConstantTypes, OneWord
  <2>2. FirstUsers[i] = [pk |-> i, id |-> <<Members[i]>>, exp |-> 0]
    BY <1>1 DEF FirstUsers
  <2> QED
    BY <1>1, <2>1, <2>2 DEF User
<1>3. FirstLines \in Seq(Line)
  <2>1. FirstLines = [i \in 1 .. Len(Members) |-> AccountLine(FirstUsers[i])]
    BY <1>1 DEF FirstLines
  <2>2. \A i \in 1 .. Len(Members) : AccountLine(FirstUsers[i]) \in Line
    BY <1>2, AccountLineType
  <2> QED
    BY <1>1, <2>1, <2>2, IsASeq
<1>4. /\ <<>> \in Seq(Line) /\ <<>> \in Seq(Nat)
      /\ Blank \in User /\ Idle \in Turn
  <2>1. member \in Seq(Line)
    BY <1>3 DEF Init
  <2> QED
    BY <2>1, EmptySeq, BlankTypes
<1>5. /\ DOMAIN user_table \subseteq Nat
      /\ \A k \in DOMAIN user_table : user_table[k] \in User
  BY <1>1, <1>2 DEF Init
<1>6. at \notin Reading /\ at \notin Paying /\ crashes \in 0 .. MaxCrashes
  BY StoreAssumption DEF Init, Reading, Paying
<1> QED
  BY <1>1, <1>3, <1>4, <1>5, <1>6 DEF Init, TypeInv, StoreTypeOK

-----------------------------------------------------------------------------
\* One lemma per step.

\* Loops begin at the first word.
LEMMA LoopsBeginTyped ==
  ASSUME TypeInv, (\E id \in Ids : RegMem(id)) \/ UpdateExp \/ load_user_data
  PROVE  TypeInv'
<1>1. member \in Seq(Line) /\ InText(Start)
  BY StartIsInText DEF TypeInv, StoreTypeOK
<1>2. PICK n \in Counts, exp \in Nat :
        loop' = Loop(n, exp)
  <2>1. CASE UpdateExp
    <3>1. PICK k \in DOMAIN user_table, n \in Counts :
            loop' = Loop(n, user_table[k].exp + GameExp)
      BY <2>1 DEF UpdateExp
    <3>2. user_table[k].exp + GameExp \in Nat
      BY PaidTypes DEF TypeInv
    <3> QED
      BY <3>1, <3>2
  <2>2. CASE (\E id \in Ids : RegMem(id)) \/ load_user_data
    BY <2>2 DEF RegMem, load_user_data
  <2> QED
    BY <2>1, <2>2
<1>3. loop' \in Turn /\ loop'.place = Start /\ InText(loop.place)'
  <2>1. n \in Int
    BY CountTypes DEF TypeInv
  <2>2. loop' \in Turn /\ loop'.place = Start
    BY <1>1, <1>2, <2>1, BlankTypes
  <2>3. member' = member
    BY DEF RegMem, UpdateExp, load_user_data
  <2> QED
    BY <1>1, <2>2, <2>3 DEF InText, AtEnd
<1>4. ASSUME NEW id \in Ids, RegMem(id) PROVE TypeInv'
  <2>1. <<id>> \in Seq(Tokens)
    BY ConstantTypes, OneWord
  <2>2. entry' \in User
    BY <1>1, <1>4, <2>1, BlankTypes DEF RegMem, User
  <2> QED
    BY <1>3, <1>4, <2>2 DEF TypeInv, StoreTypeOK, RegMem, Reading, Paying
<1>5. CASE UpdateExp
  <2>1. /\ DOMAIN user_table' \subseteq Nat
        /\ \A k \in DOMAIN user_table' : user_table'[k] \in User
    <3>1. PICK k \in DOMAIN user_table :
            user_table' = [user_table EXCEPT ![k].exp = @ + GameExp]
      BY <1>5 DEF UpdateExp
    <3>2. user_table[k].exp + GameExp \in Nat /\ user_table[k] \in User
      BY PaidTypes DEF TypeInv
    <3>3. [user_table[k] EXCEPT !.exp = @ + GameExp] \in User
      BY <3>2 DEF User
    <3> QED
      BY <3>1, <3>3 DEF TypeInv, StoreTypeOK
  <2>2. <<>> \in Seq(Line)
    BY EmptySeq
  <2> QED
    BY <1>3, <1>5, <2>1, <2>2 DEF TypeInv, StoreTypeOK, UpdateExp, Reading, Paying
<1>6. CASE load_user_data
  BY <1>3, <1>6 DEF TypeInv, StoreTypeOK, load_user_data, Reading, Paying
<1> QED
  BY <1>4, <1>5, <1>6

\* Two conversions and three more read at most five words.
LEMMA LookUpTyped == TypeInv /\ LookUp => TypeInv'
<1> SUFFICES ASSUME TypeInv, LookUp PROVE TypeInv'
  OBVIOUS
<1> DEFINE first == Number(Call(loop.place))
           head  == Word(first)
           tail1 == Word(Call(head.place))
           tail2 == Number(tail1)
           tail  == Number(tail2)
           read  == IF Len(head.got) = 2 THEN <<head.got[2]>> ELSE loop.buf
<1>1. member \in Seq(Line) /\ InText(loop.place) /\ loop \in Turn
  BY DEF TypeInv, StoreTypeOK, LookUp, Reading
<1>2. Call(loop.place) \in CallType /\ InText(Call(loop.place).place)
  BY <1>1, CallBegins
<1>3. first \in CallType /\ InText(first.place)
  BY <1>1, <1>2, ConversionTypes DEF OneMore
<1>4. head \in CallType /\ InText(head.place)
  BY <1>1, <1>3, ConversionTypes DEF OneMore
<1>5. Call(head.place) \in CallType /\ InText(Call(head.place).place)
  BY <1>4, CallBegins
<1>6. tail1 \in CallType /\ InText(tail1.place)
  BY <1>1, <1>5, ConversionTypes DEF OneMore
<1>7. tail2 \in CallType /\ InText(tail2.place)
  BY <1>1, <1>6, ConversionTypes DEF OneMore
<1>8. tail \in CallType /\ InText(tail.place)
  BY <1>1, <1>7, ConversionTypes DEF OneMore
<1>9. read \in Seq(Tokens)
  <2>1. CASE Len(head.got) = 2
    <3>1. head.got[2] \in Tokens
      BY <1>4, <2>1, SeqPlaces DEF CallType
    <3> QED
      BY <2>1, <3>1, OneWord
  <2>2. CASE Len(head.got) # 2
    BY <1>1, <2>2 DEF Turn
  <2> QED
    BY <2>1, <2>2
<1>10. \/ loop' = Idle /\ entry' = Blank /\ at' = "loop"
       \/ /\ loop' = Turned(tail.place, loop.pk, read, loop.out)
          /\ UNCHANGED <<at, entry>>
  BY DEF LookUp
<1>11. UNCHANGED <<user_table, mem_n, member, tmp, due, crashes, torn>>
  BY DEF LookUp
<1> HIDE DEF first, head, tail1, tail2, tail, read
<1>12. CASE loop' = Idle /\ entry' = Blank /\ at' = "loop"
  BY <1>1, <1>11, <1>12, BlankTypes DEF TypeInv, StoreTypeOK, Reading, Paying
<1>13. CASE /\ loop' = Turned(tail.place, loop.pk, read, loop.out)
            /\ UNCHANGED <<at, entry>>
  <2>1. loop' \in Turn /\ loop'.place = tail.place
    <3>1. tail.place \in Place
      BY <1>8 DEF CallType
    <3> QED
      BY <1>1, <1>9, <1>13, <3>1, TurnedTypes DEF Turn
  <2>2. InText(loop.place)'
    BY <1>8, <1>11, <2>1 DEF InText, AtEnd
  <2> QED
    BY <1>11, <1>13, <2>1, <2>2 DEF TypeInv, StoreTypeOK
<1> QED
  BY <1>10, <1>12, <1>13

\* An account that is added has a number for a pk and a word for an id.
LEMMA SignUpTyped == TypeInv /\ (CreateMem \/ CloseCount \/ CloseMember) => TypeInv'
<1> SUFFICES ASSUME TypeInv, CreateMem \/ CloseCount \/ CloseMember PROVE TypeInv'
  OBVIOUS
<1>1. /\ member \in Seq(Line) /\ entry \in User /\ entry.pk \in Nat
      /\ Idle \in Turn /\ Blank \in User
  BY BlankTypes DEF TypeInv, StoreTypeOK, User
<1>2. CASE CreateMem
  <2>1. entry' \in User
    BY <1>1, <1>2, CountTypes DEF TypeInv, CreateMem, User
  <2> QED
    BY <1>1, <1>2, <2>1 DEF TypeInv, StoreTypeOK, CreateMem, Reading, Paying
<1>3. CASE CloseCount
  BY <1>1, <1>3 DEF TypeInv, StoreTypeOK, CloseCount, Reading, Paying
<1>4. CASE CloseMember
  <2>1. member' \in Seq(Line)
    BY <1>1, <1>4, AccountLineType, AppendProperties DEF CloseMember
  <2>2. /\ DOMAIN user_table' \subseteq Nat
        /\ \A k \in DOMAIN user_table' : user_table'[k] \in User
    BY <1>1, <1>4 DEF CloseMember, Put, TypeInv, StoreTypeOK
  <2> QED
    BY <1>1, <1>4, <2>1, <2>2 DEF TypeInv, StoreTypeOK, CloseMember, Reading, Paying
<1> QED
  BY <1>2, <1>3, <1>4

\* Who is paid has a pk.
LEMMA GameOverTyped == TypeInv /\ (\E list \in Slots : GameOver(list)) => TypeInv'
<1> SUFFICES ASSUME TypeInv, NEW list \in Slots, GameOver(list) PROVE TypeInv'
  OBVIOUS
<1>1. PICK n \in 1 .. MaxSlots : list \in [1 .. n -> KnownPks]
  BY DEF Slots
<1>2. KnownPks \subseteq Nat
  BY DEF KnownPks, TypeInv, StoreTypeOK, User
<1>3. n \in Nat /\ n # 0
  BY StoreAssumption
<1>4. list \in Seq(Nat)
  <2>1. list \in [1 .. n -> Nat]
    BY <1>1, <1>2
  <2> QED
    BY <1>3, <2>1, SeqDef
<1>5. list # <<>>
  <2>1. 1 \in DOMAIN list
    BY <1>1, <1>3
  <2> QED
    BY <2>1
<1> QED
  BY <1>4, <1>5 DEF TypeInv, StoreTypeOK, GameOver, Reading, Paying

\* The place of the first word of the next line is one of the text.
LEMMA NextLineIsInText ==
  ASSUME member \in Seq(Line), NEW place, InText(place)
  PROVE  InText([line |-> place.line + 1, col |-> 1])
<1>1. /\ Len(member) \in Nat
      /\ \A i \in 1 .. Len(member) : Len(member[i]) \in Nat \ {0}
  BY LinesHaveWords
<1> DEFINE next == [line |-> place.line + 1, col |-> 1]
<1>2. place.line \in Nat \ {0}
  BY DEF InText, Place
<1>3. next \in Place /\ next.line = place.line + 1 /\ next.col = 1
  BY <1>2 DEF Place
<1> HIDE DEF next
<1>4. ~AtEnd(next) => next.col <= Len(member[next.line])
  BY <1>1, <1>2, <1>3 DEF AtEnd
<1> QED
  BY <1>3, <1>4 DEF InText, next

\* A line that is copied, or what is left in the buffer, is text.
LEMMA CopyLineTyped ==
  ASSUME TypeInv, at \in Reading, NEW pk \in Nat, NEW place, InText(place), CopyLine(pk, place),
         member' = member
  PROVE  /\ loop' \in Turn /\ InText(loop.place)'
         /\ loop'.n = loop.n /\ loop'.i = loop.i + 1 /\ Len(loop'.out) = Len(loop.out) + 1
<1>1. member \in Seq(Line) /\ loop \in Turn
  BY DEF TypeInv, StoreTypeOK
<1>2. PICK text \in IF ~AtEnd(place) THEN {RestOfLine(place)}
                    ELSE IF loop.buf # <<>> THEN {loop.buf} ELSE StaleTexts :
        loop' = Turned(IF AtEnd(place) THEN place ELSE [line |-> place.line + 1, col |-> 1],
                       pk, text, Append(loop.out, <<pk>> \o text))
  BY DEF CopyLine
<1>3. text \in Seq(Tokens)
  <2>1. CASE ~AtEnd(place)
    <3> DEFINE line == member[place.line]
    <3>1. place.line \in 1 .. Len(member) /\ Len(member) \in Nat /\ place.col \in Nat \ {0}
      BY <1>1, <2>1, LinesHaveWords DEF AtEnd, InText, Place
    <3>2. line \in Seq(Tokens) /\ Len(line) \in Nat
      BY <1>1, <3>1, LinesHaveWords
    <3> HIDE DEF line
    <3>3. SubSeq(line, place.col, Len(line)) \in Seq(Tokens)
      BY <3>1, <3>2, SubSeqProperties
    <3> QED
      BY <1>2, <2>1, <3>3 DEF RestOfLine, line
  <2>2. loop.buf \in Seq(Tokens)
    BY <1>1 DEF Turn
  <2>3. StaleTexts \subseteq Seq(Tokens)
    <3>1. <<>> \in Seq(Tokens) /\ <<Junk>> \in Seq(Tokens)
      BY ConstantTypes, OneWord, EmptySeq
    <3> QED
      BY <3>1 DEF StaleTexts
  <2> QED
    BY <1>2, <2>1, <2>2, <2>3
<1>4. PICK next : /\ InText(next) /\ next \in Place
                  /\ loop' = Turned(next, pk, text, Append(loop.out, <<pk>> \o text))
  <2>1. InText([line |-> place.line + 1, col |-> 1])
    BY <1>1, NextLineIsInText
  <2> QED
    BY <1>2, <2>1 DEF InText
<1> DEFINE out == Append(loop.out, <<pk>> \o text)
<1>5. out \in Seq(Line) /\ Len(out) = Len(loop.out) + 1
  <2>1. loop.out \in Seq(Line)
    BY <1>1 DEF Turn
  <2> QED
    BY <1>3, <2>1, LineOf, AppendProperties
<1> HIDE DEF out
<1>6. loop' \in Turn /\ loop'.place = next
  BY <1>1, <1>3, <1>4, <1>5, TurnedTypes DEF out
<1>7. loop'.n = loop.n /\ loop'.i = loop.i + 1 /\ loop'.out = out
  BY <1>4 DEF Turned, out
<1> QED
  BY <1>4, <1>5, <1>6, <1>7 DEF InText, AtEnd

\* A call of one conversion reads one word, of its kind, or none.
LEMMA OneRead ==
  ASSUME member \in Seq(Line), NEW place, InText(place),
         NEW S, NEW after, OneMore(Call(place), after, S)
  PROVE  /\ InText(after.place) /\ after.place \in Place
         /\ after.got \in Seq(Tokens)
         /\ after.ok => after.got[1] \in S
         /\ after.got # <<>> => Len(after.got) = 1 /\ after.got[1] \in S
<1>1. after \in CallType /\ InText(after.place)
  BY DEF OneMore
<1>2. after.got \in Seq(Tokens)
  BY <1>1 DEF CallType
<1>3. Call(place).got = <<>> /\ Len(Call(place).got) = 0
  BY CallBegins DEF Call
<1>4. CASE ~after.ok
  <2>1. after.got = <<>>
    BY <1>3, <1>4 DEF OneMore
  <2> QED
    BY <1>1, <1>2, <1>4, <2>1 DEF CallType
<1>5. CASE after.ok
  <2>1. Len(after.got) = 1 /\ after.got[1] \in S
    BY <1>3, <1>5 DEF OneMore
  <2> QED
    BY <1>1, <1>2, <1>5, <2>1 DEF CallType
<1> QED
  BY <1>4, <1>5

\* The same for %s and %d, whose value is a number in any case.
LEMMA OneReads ==
  ASSUME member \in Seq(Line), NEW place, InText(place)
  PROVE  /\ InText(Word(Call(place)).place) /\ Word(Call(place)).got \in Seq(Tokens)
         /\ InText(Number(Call(place)).place) /\ Number(Call(place)).place \in Place
         /\ Number(Call(place)).ok => Number(Call(place)).got[1] \in Nat
         /\ Stored(Number(Call(place)), 1, 0) \in Nat
<1>1. /\ OneMore(Call(place), Word(Call(place)), Tokens)
      /\ OneMore(Call(place), Number(Call(place)), Nat)
  BY CallBegins, ConversionTypes
<1> DEFINE number == Number(Call(place))
<1>2. /\ InText(number.place) /\ number.place \in Place
      /\ number.ok => number.got[1] \in Nat
      /\ number.got \in Seq(Tokens)
      /\ number.got # <<>> => Len(number.got) = 1 /\ number.got[1] \in Nat
  BY <1>1, OneRead
<1>3. InText(Word(Call(place)).place) /\ Word(Call(place)).got \in Seq(Tokens)
  BY <1>1, OneRead
<1> HIDE DEF number
<1>4. Stored(number, 1, 0) \in Nat
  <2>1. number.got = <<>> => Len(number.got) = 0
    BY EmptySeq
  <2> QED
    BY <1>2, <2>1 DEF Stored
<1> QED
  BY <1>2, <1>3, <1>4 DEF number

\* The line of the account is one, whatever could not be read of it.
LEMMA PayLineTyped ==
  ASSUME TypeInv, at \in Reading, NEW pk \in Nat, NEW place, InText(place), PayLine(pk, place),
         member' = member
  PROVE  /\ loop' \in Turn /\ InText(loop.place)'
         /\ loop'.n = loop.n /\ loop'.i = loop.i + 1 /\ Len(loop'.out) = Len(loop.out) + 1
<1> DEFINE id       == Word(Call(place))
           password == Word(Call(id.place))
           type     == Number(Call(password.place))
           exp      == Number(Call(type.place))
           rest     == <<Stored(type, 1, 0), loop.exp>>
           line     == <<pk>> \o id.got \o password.got \o rest
<1>1. member \in Seq(Line) /\ loop \in Turn
  BY DEF TypeInv, StoreTypeOK
<1>2. InText(id.place) /\ id.got \in Seq(Tokens)
  BY <1>1, OneReads
<1>3. InText(password.place) /\ password.got \in Seq(Tokens)
  BY <1>1, <1>2, OneReads
<1>4. InText(type.place) /\ Stored(type, 1, 0) \in Nat
  BY <1>1, <1>3, OneReads
<1>5. InText(exp.place) /\ exp.place \in Place
  BY <1>1, <1>4, OneReads
<1>6. rest \in Seq(Tokens)
  <2>1. loop.exp \in Nat
    BY <1>1 DEF Turn
  <2> QED
    BY <1>4, <2>1, ConstantTypes
<1>7. line \in Line
  <2> DEFINE front == <<pk>> \o id.got
             middle == front \o password.got
  <2>1. front \in Seq(Tokens) /\ Len(front) \in Nat \ {0}
    BY <1>2, LineOf, SeqPlaces DEF Line
  <2> HIDE DEF front, rest
  <2>2. middle \in Seq(Tokens) /\ Len(middle) = Len(front) + Len(password.got)
    BY <1>3, <2>1, ConcatProperties, Zenon
  <2> HIDE DEF middle
  <2>3. middle \o rest \in Seq(Tokens) /\ Len(middle \o rest) = Len(middle) + Len(rest)
    BY <1>6, <2>2, ConcatProperties, Zenon
  <2>4. Len(password.got) \in Nat /\ Len(rest) \in Nat
    BY <1>3, <1>6, LenProperties
  <2>5. Len(middle \o rest) # 0
    BY <2>1, <2>2, <2>3, <2>4
  <2> QED
    BY <2>3, <2>5, EmptySeq DEF Line, middle, front
<1>8. loop' = Turned(exp.place, pk, loop.buf, Append(loop.out, line))
  BY DEF PayLine
<1> DEFINE out == Append(loop.out, line)
<1>9. /\ loop.buf \in Seq(Tokens)
      /\ out \in Seq(Line) /\ Len(out) = Len(loop.out) + 1
  <2>1. loop.buf \in Seq(Tokens) /\ loop.out \in Seq(Line)
    BY <1>1 DEF Turn
  <2> QED
    BY <1>7, <2>1, AppendProperties
<1>10. loop' = Turned(exp.place, pk, loop.buf, out)
  BY <1>8
<1> HIDE DEF exp, line, out
<1>11. loop' \in Turn /\ loop'.place = exp.place
  BY <1>1, <1>5, <1>9, <1>10, TurnedTypes
<1>12. loop'.n = loop.n /\ loop'.i = loop.i + 1 /\ loop'.out = out
  BY <1>10 DEF Turned
<1> QED
  BY <1>5, <1>9, <1>11, <1>12 DEF InText, AtEnd

\* A turn of myFileUpdate writes one line.
LEMMA RewriteTurn ==
  ASSUME TypeInv, Rewrite
  PROVE  /\ loop' \in Turn /\ InText(loop.place)'
         /\ loop'.n = loop.n /\ loop'.i = loop.i + 1 /\ Len(loop'.out) = Len(loop.out) + 1
<1> DEFINE head == Number(Call(loop.place))
<1>1. /\ member \in Seq(Line) /\ InText(loop.place) /\ loop \in Turn /\ at \in Reading
      /\ member' = member
  BY DEF TypeInv, StoreTypeOK, Rewrite, Reading
<1>2. InText(head.place) /\ (head.ok => head.got[1] \in Nat)
  BY <1>1, OneReads
<1>3. PICK pk \in IF head.ok THEN {head.got[1]}
                  ELSE IF loop.pk # Unset THEN {loop.pk} ELSE StalePks :
        CopyLine(pk, head.place) \/ PayLine(pk, head.place)
  BY DEF Rewrite
<1>4. pk \in Nat
  <2>1. loop.pk # Unset => loop.pk \in Nat
    BY <1>1 DEF Turn
  <2>2. StalePks \subseteq Nat
    BY StoreAssumption DEF StalePks
  <2> QED
    BY <1>2, <1>3, <2>1, <2>2
<1> QED
  BY <1>1, <1>2, <1>3, <1>4, CopyLineTyped, PayLineTyped

\* Such a turn keeps the types.
LEMMA RewriteTyped == TypeInv /\ Rewrite => TypeInv'
BY RewriteTurn DEF TypeInv, StoreTypeOK, Rewrite

\* Files that are copied whole keep theirs.
LEMMA RewrittenTyped == TypeInv /\ (CloseTmp \/ OpenMember \/ CopyBack) => TypeInv'
<1> SUFFICES ASSUME TypeInv, CloseTmp \/ OpenMember \/ CopyBack PROVE TypeInv'
  OBVIOUS
<1>1. /\ loop.out \in Seq(Line) /\ <<>> \in Seq(Line) /\ Idle \in Turn
      /\ tmp \in Seq(Line)
  BY BlankTypes, EmptySeq DEF TypeInv, StoreTypeOK, Turn
<1>2. CASE CloseTmp
  BY <1>1, <1>2 DEF TypeInv, StoreTypeOK, CloseTmp, Reading, Paying
<1>3. CASE OpenMember
  BY <1>1, <1>3 DEF TypeInv, StoreTypeOK, OpenMember, Reading, Paying
<1>4. CASE CopyBack
  <2>1. Tail(due) \in Seq(Nat)
    BY <1>4, HeadTailProperties DEF TypeInv, StoreTypeOK, CopyBack, Paying
  <2> QED
    BY <1>1, <1>4, <2>1 DEF TypeInv, StoreTypeOK, CopyBack, Reading, Paying
<1> QED
  BY <1>2, <1>3, <1>4

\* A crash forgets what was in memory.
LEMMA CrashTyped == TypeInv /\ Crash => TypeInv'
<1> SUFFICES ASSUME TypeInv, Crash PROVE TypeInv'
  OBVIOUS
<1>1. Idle \in Turn /\ Blank \in User /\ <<>> \in Seq(Nat)
  BY BlankTypes, EmptySeq DEF TypeInv, StoreTypeOK
<1>2. /\ DOMAIN user_table' \subseteq Nat
      /\ \A k \in DOMAIN user_table' : user_table'[k] \in User
  BY DEF Crash
<1>3. crashes' \in 0 .. MaxCrashes
  BY StoreAssumption DEF TypeInv, StoreTypeOK, Crash
<1>4. torn' \subseteq Windows
  BY DEF TypeInv, StoreTypeOK, Crash
<1> QED
  BY <1>1, <1>2, <1>3, <1>4 DEF TypeInv, StoreTypeOK, Crash, Reading, Paying

\* A record for every count, filled as far as there are words of the right kind.
LEMMA LoadTyped == TypeInv /\ (LoadUser \/ Loaded) => TypeInv'
<1> SUFFICES ASSUME TypeInv, LoadUser \/ Loaded PROVE TypeInv'
  OBVIOUS
<1>1. member \in Seq(Line) /\ loop \in Turn /\ Idle \in Turn
  BY BlankTypes DEF TypeInv, StoreTypeOK
<1>2. CASE Loaded
  BY <1>1, <1>2 DEF TypeInv, StoreTypeOK, Loaded, Reading, Paying
<1>3. CASE LoadUser
  <2> DEFINE c0 == Call(loop.place)
             c1 == Number(c0)
             c2 == Word(c1)
             c3 == Word(c2)
             c4 == Number(c3)
             c5 == Number(c4)
             user == [pk  |-> Stored(c5, 1, 0),
                      id  |-> IF Len(c5.got) < 2 THEN <<>> ELSE <<c5.got[2]>>,
                      exp |-> Stored(c5, 5, 0)]
  <2>1. InText(loop.place)
    BY <1>3 DEF TypeInv, LoadUser, Reading
  <2>2. c0 \in CallType /\ InText(c0.place) /\ Len(c0.got) = 0
    BY <2>1, CallBegins
  <2>3. OneMore(c0, c1, Nat)
    BY <1>1, <2>2, ConversionTypes
  <2>4. OneMore(c1, c2, Tokens)
    BY <1>1, <2>3, ConversionTypes DEF OneMore
  <2>5. OneMore(c2, c3, Tokens)
    BY <1>1, <2>4, ConversionTypes DEF OneMore
  <2>6. OneMore(c3, c4, Nat)
    BY <1>1, <2>5, ConversionTypes DEF OneMore
  <2>7. OneMore(c4, c5, Nat)
    BY <1>1, <2>6, ConversionTypes DEF OneMore
  <2>8. /\ user_table' = Put(loop.i, user)
        /\ loop' = Turned(c5.place, loop.pk, loop.buf, loop.out)
        /\ UNCHANGED <<mem_n, member, tmp, at, entry, due, crashes, torn>>
    BY <1>3 DEF LoadUser
  <2> HIDE DEF c0, c1, c2, c3, c4, c5, user
  <2>9. /\ \A c \in {c0, c1, c2, c3, c4, c5} : c.got \in Seq(Tokens) /\ Len(c.got) \in Nat
        /\ c5 \in CallType /\ InText(c5.place)
    BY <2>2, <2>3, <2>4, <2>5, <2>6, <2>7, LenProperties DEF OneMore, CallType
  <2>10. c1.got = c0.got \/ (Len(c1.got) = 1 /\ c1.got[1] \in Nat)
    BY <2>2, <2>3 DEF OneMore
  <2>11. Len(c5.got) >= 1 => c5.got[1] \in Nat
    <3>1. CASE ~c1.ok
      BY <2>2, <2>3, <2>4, <2>5, <2>6, <2>7, <2>9, <3>1 DEF OneMore
    <3>2. CASE c1.ok
      <4>1. Len(c1.got) = 1 /\ c1.got[1] \in Nat
        BY <2>2, <2>3, <3>2 DEF OneMore
      <4>2. Len(c2.got) >= 1 /\ c2.got[1] = c1.got[1]
        BY <2>4, <2>9, <4>1 DEF OneMore
      <4>3. Len(c3.got) >= 1 /\ c3.got[1] = c1.got[1]
        BY <2>5, <2>9, <4>2 DEF OneMore
      <4>4. Len(c4.got) >= 1 /\ c4.got[1] = c1.got[1]
        BY <2>6, <2>9, <4>3 DEF OneMore
      <4>5. Len(c5.got) >= 1 /\ c5.got[1] = c1.got[1]
        BY <2>7, <2>9, <4>4 DEF OneMore
      <4> QED
        BY <4>1, <4>5
    <3> QED
      BY <3>1, <3>2
  <2>12. Len(c5.got) >= 5 => c5.got[5] \in Nat
    <3>1. Len(c1.got) <= 1
      <4>1. Len(c1.got) = 0 \/ Len(c1.got) = 1
        BY <2>2, <2>10, Zenon
      <4>2. Len(c1.got) \in Nat
        BY <2>9
      <4>3. \A n \in Nat : n = 0 \/ n = 1 => n <= 1
        OBVIOUS
      <4> QED
        BY <4>1, <4>2, <4>3, Zenon
    <3>2. Len(c2.got) <= 2
      BY <2>4, <2>9, <3>1 DEF OneMore
    <3>3. Len(c3.got) <= 3
      BY <2>5, <2>9, <3>2 DEF OneMore
    <3>4. Len(c4.got) <= 4
      BY <2>6, <2>9, <3>3 DEF OneMore
    <3> QED
      BY <2>7, <2>9, <3>4 DEF OneMore
  <2>13. Len(c5.got) >= 2 => <<c5.got[2]>> \in Seq(Tokens)
    BY <2>9, SeqPlaces, OneWord
  <2>14. user \in User
    <3>1. Stored(c5, 1, 0) \in Nat /\ Stored(c5, 5, 0) \in Nat
      BY <2>11, <2>12 DEF Stored
    <3>2. (IF Len(c5.got) < 2 THEN <<>> ELSE <<c5.got[2]>>) \in Seq(Tokens)
      BY <2>9, <2>13, EmptySeq
    <3> QED
      BY <3>1, <3>2 DEF User, user
  <2>15. /\ DOMAIN user_table' \subseteq Nat
         /\ \A k \in DOMAIN user_table' : user_table'[k] \in User
    BY <1>1, <2>8, <2>14 DEF Put, TypeInv, StoreTypeOK, Turn
  <2>16. loop' \in Turn /\ loop'.place = c5.place
    <3>1. /\ loop.pk \in Nat \cup {Unset} /\ loop.buf \in Seq(Tokens)
          /\ loop.out \in Seq(Line)
      BY <1>1 DEF Turn
    <3>2. c5.place \in Place
      BY <2>9 DEF InText
    <3> QED
      BY <1>1, <2>8, <3>1, <3>2, TurnedTypes
  <2>17. InText(loop.place)'
    BY <2>8, <2>9, <2>16 DEF InText, AtEnd
  <2> QED
    BY <2>8, <2>15, <2>16, <2>17 DEF TypeInv, StoreTypeOK
<1> QED
  BY <1>2, <1>3

\* No step breaks a type.
LEMMA StepTyped == TypeInv /\ [Next]_vars => TypeInv'
<1> SUFFICES ASSUME TypeInv, [Next]_vars PROVE TypeInv'
  OBVIOUS
<1>1. CASE UNCHANGED vars
  BY <1>1 DEF vars, TypeInv, StoreTypeOK, InText, AtEnd
<1>2. CASE (\E id \in Ids : RegMem(id)) \/ UpdateExp \/ load_user_data
  BY <1>2, LoopsBeginTyped
<1> QED
  BY <1>1, <1>2, LookUpTyped, SignUpTyped, GameOverTyped, RewriteTyped,
     RewrittenTyped, CrashTyped, LoadTyped DEF Next

\* The types always hold.
LEMMA TypesHold == Spec => []TypeInv
BY InitTypes, StepTyped, PTL DEF Spec

\* The tables and files keep their types, through every crash and whatever the server
\* makes of the files after it.
THEOREM StoreTypeCorrect == Spec => []StoreTypeOK
<1>1. TypeInv => StoreTypeOK
  BY DEF TypeInv
<1> QED
  BY <1>1, TypesHold, PTL

-----------------------------------------------------------------------------
\* The count.

\* With CountNotBehind: where MemN.txt is open and empty, what number it will hold, and
\* how many lines there are for the count while Member.txt is rewritten.
Written == Len(loop.out)

CountParts ==
  /\ mem_n = Empty <=> at = "count open"
  /\ at # "count open" => Len(member) <= mem_n
  /\ at \in {"count open", "count closed"} => Len(member) < entry.pk
  /\ at = "count closed" => mem_n = entry.pk
  /\ at = "tmp open" => loop.n = mem_n /\ loop.i <= loop.n /\ Written = loop.i
  /\ at \in {"tmp closed", "member open"} => Len(tmp) = mem_n

CountInv == "count open" \notin torn => CountParts

\* Numbers in order.
LEMMA Order ==
  \A a, b \in Int : /\ a = b => a <= b
                    /\ a < b => a <= b /\ a + 1 <= b
                    /\ a <= b /\ a >= b => a = b
OBVIOUS

\* MemN.txt counts the first users.
LEMMA InitCount == Init => CountInv
<1> SUFFICES ASSUME Init PROVE CountInv
  OBVIOUS
<1>1. Len(Members) \in Nat /\ DOMAIN Members = 1 .. Len(Members)
  BY StoreAssumption, SeqPlaces
<1>2. Len(member) = Len(Members)
  <2>1. member \in Seq(Line)
    BY InitTypes DEF TypeInv, StoreTypeOK
  <2>2. DOMAIN member = 1 .. Len(Members)
    BY <1>1 DEF Init, FirstLines
  <2>3. DOMAIN member = 1 .. Len(member) /\ Len(member) \in Nat
    BY <2>1, SeqPlaces
  <2> QED
    BY <1>1, <2>2, <2>3
<1> QED
  BY <1>1, <1>2 DEF Init, CountInv, CountParts, Empty

\* No step breaks what is said of the count.
LEMMA StepCount == TypeInv /\ CountInv /\ [Next]_vars => CountInv'
<1>0. SUFFICES ASSUME TypeInv, CountInv, [Next]_vars, "count open" \notin torn'
             PROVE  CountParts'
  BY DEF CountInv
<1>1. /\ member \in Seq(Line) /\ Len(member) \in Nat
      /\ mem_n \in Nat \cup {Empty} /\ entry.pk \in Nat /\ tmp \in Seq(Line)
      /\ loop.n \in Int /\ loop.i \in Nat /\ loop.out \in Seq(Line) /\ Written \in Nat
  BY <1>0, LenProperties DEF Written, TypeInv, StoreTypeOK, User, Turn
<1>2. torn \subseteq torn'
  BY <1>0 DEF Next, vars, RegMem, LookUp, CreateMem, CloseCount, CloseMember, GameOver, UpdateExp,
         Rewrite, CloseTmp, OpenMember, CopyBack, Crash, load_user_data, LoadUser, Loaded
<1>3. CountParts
  BY <1>0, <1>2 DEF CountInv
<1>4. mem_n # Empty => Counts = {mem_n}
  BY DEF Counts
<1>5. CASE UNCHANGED vars
  BY <1>3, <1>5 DEF vars, CountParts, Written
<1>6. ASSUME NEW id \in Ids, RegMem(id) PROVE CountParts'
  BY <1>1, <1>3, <1>6 DEF CountParts, RegMem
<1>7. CASE LookUp
  BY <1>1, <1>3, <1>7 DEF CountParts, LookUp
<1>8. CASE CreateMem
  <2>1. entry'.pk = mem_n + 1 /\ mem_n # Empty
    BY <1>0, <1>1, <1>3, <1>4, <1>8 DEF CountParts, CreateMem, TypeInv, StoreTypeOK, User
  <2>2. mem_n \in Nat /\ Len(member) <= mem_n
    BY <1>1, <1>3, <1>8, <2>1 DEF CountParts, CreateMem
  <2>3. Len(member) < entry'.pk
    BY <1>1, <2>1, <2>2
  <2>4. UNCHANGED <<member, tmp>> /\ mem_n' = Empty /\ at' = "count open"
    BY <1>8 DEF CreateMem
  <2> QED
    BY <2>3, <2>4 DEF CountParts
<1>9. CASE CloseCount
  <2>1. /\ at = "count open" /\ at' = "count closed" /\ mem_n' = entry.pk
        /\ UNCHANGED <<member, tmp, entry>>
    BY <1>9 DEF CloseCount
  <2>2. mem_n' \in Nat /\ Len(member) < entry.pk
    BY <1>1, <1>3, <2>1 DEF CountParts
  <2>3. mem_n' # Empty
    BY <2>2 DEF Empty
  <2>4. Len(member) <= mem_n'
    <3>1. Len(member) \in Int /\ entry.pk \in Int
      BY <1>1
    <3> QED
      BY <2>1, <2>2, <3>1, Order, Zenon
  <2> QED
    BY <2>1, <2>2, <2>3, <2>4 DEF CountParts
<1>10. CASE CloseMember
  <2>1. /\ at = "count closed" /\ at' = "loop"
        /\ member' = Append(member, AccountLine(entry))
        /\ UNCHANGED <<mem_n, tmp>>
    BY <1>10 DEF CloseMember
  <2>2. Len(member') = Len(member) + 1
    <3>1. AccountLine(entry) \in Line
      BY <1>0, AccountLineType DEF TypeInv, StoreTypeOK
    <3> QED
      BY <1>1, <2>1, <3>1, AppendProperties
  <2>3. mem_n = entry.pk /\ Len(member) < mem_n /\ mem_n # Empty
    BY <1>3, <2>1 DEF CountParts
  <2>4. Len(member') <= mem_n
    BY <1>1, <2>2, <2>3
  <2> QED
    BY <2>1, <2>3, <2>4 DEF CountParts
<1>11. CASE \E list \in Slots : GameOver(list)
  BY <1>1, <1>3, <1>11 DEF CountParts, GameOver
<1>12. CASE UpdateExp
  <2>1. mem_n # Empty /\ at = "pay" /\ at' = "tmp open" /\ UNCHANGED <<mem_n, member>>
    BY <1>3, <1>12 DEF CountParts, UpdateExp
  <2>2. PICK exp : loop' = Loop(mem_n, exp)
    BY <1>4, <1>12, <2>1 DEF UpdateExp
  <2>3. loop'.n = mem_n /\ loop'.i = 0 /\ loop'.out = <<>>
    BY <2>2 DEF Loop
  <2>4. Written' = 0
    BY <2>3, EmptySeq DEF Written
  <2>5. loop'.i <= loop'.n
    <3>1. mem_n \in Nat
      BY <1>1, <2>1
    <3>2. 0 <= mem_n
      BY <3>1
    <3> QED
      BY <2>3, <3>2, Zenon
  <2>6. (mem_n = Empty <=> at = "count open")' /\ Len(member') <= mem_n'
    BY <1>3, <2>1 DEF CountParts
  <2>7. (loop.n = mem_n /\ loop.i <= loop.n /\ Written = loop.i)'
    BY <2>1, <2>3, <2>4, <2>5, Zenon
  <2>8. /\ at' \notin {"count open", "count closed"} /\ at' # "count closed"
        /\ at' \notin {"tmp closed", "member open"}
    BY <2>1
  <2> QED
    BY <2>6, <2>7, <2>8, Zenon DEF CountParts
<1>13. CASE Rewrite
  <2>1. loop'.n = loop.n /\ loop'.i = loop.i + 1 /\ Len(loop'.out) = Len(loop.out) + 1
    BY <1>0, <1>13, RewriteTurn
  <2>2. Written' = Written + 1
    BY <2>1 DEF Written
  <2>3. at = "tmp open" /\ loop.i < loop.n /\ UNCHANGED <<mem_n, member, tmp, at, entry>>
    BY <1>13 DEF Rewrite
  <2>4. loop.n = mem_n /\ Written = loop.i
    BY <1>3, <2>3 DEF CountParts
  <2>5. loop'.i <= loop.n
    <3>1. loop.i \in Int /\ loop.n \in Int
      BY <1>1
    <3>2. loop.i + 1 <= loop.n
      BY <2>3, <3>1, Order
    <3>3. loop'.i = loop.i + 1
      BY <2>1
    <3> QED
      BY <3>2, <3>3, Zenon
  <2>6. (loop.n = mem_n /\ loop.i <= loop.n /\ Written = loop.i)'
    BY <2>1, <2>2, <2>3, <2>4, <2>5, Zenon
  <2> QED
    BY <1>3, <2>3, <2>6 DEF CountParts
<1>14. CASE CloseTmp
  <2>1. /\ at = "tmp open" /\ at' = "tmp closed" /\ loop.i >= loop.n /\ tmp' = loop.out
        /\ UNCHANGED <<mem_n, member>>
    BY <1>14 DEF CloseTmp
  <2>2. Written = mem_n
    <3>1. loop.n = mem_n /\ loop.i <= loop.n /\ Written = loop.i
      BY <1>3, <2>1 DEF CountParts
    <3>2. loop.i \in Int /\ loop.n \in Int
      BY <1>1
    <3> QED
      BY <2>1, <3>1, <3>2, Order, Zenon
  <2>3. Len(tmp') = mem_n
    BY <2>1, <2>2 DEF Written
  <2> QED
    BY <1>3, <2>1, <2>3 DEF CountParts
<1>15. CASE OpenMember
  <2>1. /\ at = "tmp closed" /\ at' = "member open" /\ member' = <<>>
        /\ UNCHANGED <<mem_n, tmp>>
    BY <1>15 DEF OpenMember
  <2>2. Len(member') = 0
    BY <2>1, EmptySeq
  <2>3. mem_n \in Nat
    BY <1>1, <1>3, <2>1 DEF CountParts
  <2>4. Len(member') <= mem_n
    BY <2>2, <2>3
  <2> QED
    BY <1>3, <2>1, <2>4 DEF CountParts
<1>16. CASE CopyBack
  <2>1. /\ at = "member open" /\ at' \in {"loop", "pay"} /\ member' = tmp
        /\ UNCHANGED <<mem_n, tmp>>
    BY <1>16 DEF CopyBack
  <2>2. mem_n \in Nat /\ Len(tmp) = mem_n
    BY <1>1, <1>3, <2>1 DEF CountParts
  <2>3. Len(member') <= mem_n
    <3>1. mem_n \in Int
      BY <2>2
    <3> QED
      BY <2>1, <2>2, <3>1, Order, Zenon
  <2> QED
    BY <1>3, <2>1, <2>3 DEF CountParts
<1>17. CASE Crash
  <2>1. at # "count open"
    BY <1>0, <1>17 DEF Crash, Windows
  <2> QED
    BY <1>1, <1>3, <1>17, <2>1 DEF CountParts, Crash
<1>18. CASE load_user_data \/ LoadUser \/ Loaded
  BY <1>1, <1>3, <1>18 DEF CountParts, load_user_data, LoadUser, Loaded
<1> QED
  BY <1>5, <1>6, <1>7, <1>8, <1>9, <1>10, <1>11, <1>12, <1>13, <1>14, <1>15, <1>16, <1>17,
     <1>18, <1>0 DEF Next

\* It always holds.
LEMMA CountsHold == Spec => []CountInv
BY InitCount, StepCount, TypesHold, PTL DEF Spec

\* As long as no crash has left MemN.txt empty, it never counts fewer accounts than
\* Member.txt has lines, whatever other crashes there were.
THEOREM CountIsAhead == Spec => []CountNotBehind
<1>1. CountInv => CountNotBehind
  BY DEF CountInv, CountParts, CountNotBehind
<1> QED
  BY <1>1, CountsHold, PTL

-----------------------------------------------------------------------------
\* The accounts, as long as no crash has torn the files.

\* Line i is that of an account with pk i, and no id is on two of them.
IsAccount(i, line) ==
  \E id \in Ids, exp \in Nat : line = <<i, id, Password, CharacterType, exp>>

Accounts(lines) ==
  /\ lines \in Seq(Line)
  /\ \A i \in 1 .. Len(lines) : IsAccount(i, lines[i])
  /\ \A i, j \in 1 .. Len(lines) : i # j => lines[i][2] # lines[j][2]

\* user_table has each of these accounts once.
InTable(user, lines) ==
  /\ user.pk \in 1 .. Len(lines)
  /\ user.id = <<lines[user.pk][2]>>
  /\ user.exp = lines[user.pk][5]

TableIs(lines) ==
  /\ \A k \in DOMAIN user_table : InTable(user_table[k], lines) /\ k <= user_table[k].pk
  /\ \A i \in 1 .. Len(lines) : \E k \in DOMAIN user_table : user_table[k].pk = i
  /\ \A j, k \in DOMAIN user_table : j # k => user_table[j].pk # user_table[k].pk

\* The same accounts with another exp in one of them.
Paid(lines, pk, exp) ==
  [i \in 1 .. Len(lines) |->
     IF i = pk THEN <<pk, lines[i][2], Password, CharacterType, exp>> ELSE lines[i]]

DuePaid == Paid(member, Head(due), member[Head(due)][5] + GameExp)

FilesAgree == Accounts(member) /\ mem_n = Len(member)

\* Turn i of a loop reads line i + 1.
LineByLine ==
  /\ loop.n = Len(member)
  /\ loop.i <= loop.n
  /\ loop.place = [line |-> loop.i + 1, col |-> 1]

DueIn(lines) == due \in Seq(1 .. Len(lines)) /\ due # <<>>

\* The id looked up is on none of the lines read.
LookingUp ==
  /\ LineByLine
  /\ \E id \in Ids : /\ entry = [pk |-> 0, id |-> <<id>>, exp |-> 0]
                     /\ \A j \in 1 .. loop.i : member[j][2] # id

\* The account that is being added has the next pk, and its id is on no line.
Adding ==
  /\ Accounts(member) /\ TableIs(member)
  /\ \E id \in Ids : /\ entry = [pk |-> Len(member) + 1, id |-> <<id>>, exp |-> 0]
                     /\ \A j \in 1 .. Len(member) : member[j][2] # id

\* Memory is ahead of Member.txt by the account being paid, and so is tmp.txt.
Rewriting ==
  /\ FilesAgree /\ LineByLine /\ DueIn(member)
  /\ loop.exp = member[Head(due)][5] + GameExp
  /\ TableIs(DuePaid)
  /\ Len(loop.out) = loop.i
  /\ \A j \in 1 .. loop.i : loop.out[j] = DuePaid[j]

Rewritten == FilesAgree /\ DueIn(member) /\ tmp = DuePaid /\ TableIs(tmp)

\* tmp.txt is the only copy.
CopyingBack ==
  /\ member = <<>> /\ tmp # <<>>
  /\ Accounts(tmp) /\ mem_n = Len(tmp) /\ DueIn(tmp) /\ TableIs(tmp)

\* The accounts on the lines read are under the keys from 0 on.
Loading ==
  /\ FilesAgree /\ LineByLine
  /\ DOMAIN user_table = 0 .. loop.i - 1
  /\ \A k \in 0 .. loop.i - 1 : InTable(user_table[k], member) /\ user_table[k].pk = k + 1

BookParts ==
  /\ at \in {"loop", "look up", "pay"} => FilesAgree /\ TableIs(member)
  /\ at = "look up" => LookingUp
  /\ at \in {"count open", "count closed"} => Adding
  /\ at = "count closed" => mem_n = entry.pk
  /\ at = "pay" => DueIn(member)
  /\ at = "tmp open" => Rewriting
  /\ at = "tmp closed" => Rewritten
  /\ at = "member open" => CopyingBack
  /\ at = "down" => FilesAgree /\ user_table = <<>>
  /\ at = "load" => Loading
  /\ at # "member open" /\ member = <<>> => tmp = <<>>

BookInv == torn = {} => BookParts

\* A line of an account, word by word.
LEMMA AccountWords ==
  ASSUME NEW i \in Nat, NEW line, IsAccount(i, line)
  PROVE  /\ line \in Line /\ Len(line) = 5
         /\ line = <<i, line[2], Password, CharacterType, line[5]>>
         /\ line[1] = i /\ line[2] \in Ids /\ line[3] = Password /\ line[4] = CharacterType
         /\ line[5] \in Nat
<1>1. PICK id \in Ids, exp \in Nat : line = <<i, id, Password, CharacterType, exp>>
  BY DEF IsAccount
<1>2. /\ line[1] = i /\ line[2] = id /\ line[3] = Password /\ line[4] = CharacterType
      /\ line[5] = exp /\ Len(line) = 5 /\ line # <<>>
  BY <1>1
<1>3. line \in Seq(Tokens)
  <2>1. {i, id, Password, CharacterType, exp} \subseteq Tokens
    BY ConstantTypes
  <2> QED
    BY <1>1, <2>1
<1> QED
  BY <1>1, <1>2, <1>3 DEF Line

\* The same for line l of Member.txt.
LEMMA MemberWords ==
  ASSUME Accounts(member), NEW l \in 1 .. Len(member)
  PROVE  /\ Len(member) \in Nat /\ l \in Nat \ {0}
         /\ member[l] \in Line /\ Len(member[l]) = 5
         /\ member[l] = <<l, member[l][2], Password, CharacterType, member[l][5]>>
         /\ member[l][1] = l /\ member[l][2] \in Ids /\ member[l][3] = Password
         /\ member[l][4] = CharacterType /\ member[l][5] \in Nat
<1>1. Len(member) \in Nat /\ l \in Nat \ {0} /\ IsAccount(l, member[l])
  BY LenProperties DEF Accounts
<1> QED
  BY <1>1, AccountWords

\* The place of the c-th word of line l, the sixth being the first of the next line.
Here(l, c) == IF c <= 5 THEN [line |-> l, col |-> c] ELSE [line |-> l + 1, col |-> 1]

\* A call that began at the b-th word of line l and has read n words of it.
HasRead(call, l, b, n) ==
  /\ call.ok
  /\ call.place = Here(l, b + n)
  /\ call.got \in Seq(Tokens) /\ Len(call.got) = n
  /\ \A j \in 1 .. n : call.got[j] = member[l][b + j - 1]

\* A call that begins there has read nothing.
LEMMA CallHasRead ==
  ASSUME NEW l, NEW b \in 1 .. 5
  PROVE  HasRead(Call(Here(l, b)), l, b, 0)
<1>1. b + 0 = b
  OBVIOUS
<1>2. <<>> \in Seq(Tokens) /\ Len(<<>>) = 0
  BY EmptySeq
<1> QED
  BY <1>1, <1>2 DEF HasRead, Call

\* The next conversion reads the next word.
LEMMA ReadsWord ==
  ASSUME Accounts(member), NEW l \in 1 .. Len(member), NEW b \in 1 .. 5, NEW n \in 0 .. 4,
         b + n <= 5, NEW call, HasRead(call, l, b, n)
  PROVE  /\ HasRead(Word(call), l, b, n + 1)
         /\ b + n \in {1, 4, 5} => HasRead(Number(call), l, b, n + 1)
<1> DEFINE c == b + n
           word == member[l][c]
<1>1. c \in 1 .. 5 /\ n \in Nat /\ b \in Nat
  OBVIOUS
<1>2. /\ Len(member) \in Nat /\ l \in Nat \ {0} /\ Len(member[l]) = 5
      /\ c \in {1, 4, 5} => word \in Nat
      /\ word \in Tokens
  <2>1. /\ Len(member) \in Nat /\ l \in Nat \ {0} /\ Len(member[l]) = 5
        /\ member[l][1] \in Nat /\ member[l][4] \in Nat /\ member[l][5] \in Nat
    BY MemberWords, ConstantTypes
  <2>2. c \in {1, 4, 5} => word \in Nat
    BY <2>1
  <2>3. word \in Tokens
    <3>1. member[l] \in Seq(Tokens)
      BY MemberWords DEF Line
    <3> QED
      BY <1>1, <2>1, <3>1, ElementOfSeq
  <2> QED
    BY <2>1, <2>2, <2>3
<1>3. call.ok /\ call.place = [line |-> l, col |-> c]
  BY <1>1 DEF HasRead, Here
<1>4. call.place.line = l /\ call.place.col = c
  BY <1>3
<1>5. ~AtEnd(call.place) /\ TokenAt(call.place) = word
  BY <1>2, <1>4 DEF AtEnd, TokenAt
<1>6. Past(call.place) = Here(l, c + 1)
  <2>1. CASE c < 5
    <3>1. Past(call.place) = [call.place EXCEPT !.col = c + 1]
      BY <1>2, <1>4, <2>1 DEF Past
    <3>2. [call.place EXCEPT !.col = c + 1] = [line |-> l, col |-> c + 1]
      BY <1>3
    <3> QED
      BY <1>1, <2>1, <3>1, <3>2 DEF Here
  <2>2. CASE ~(c < 5)
    <3>1. Past(call.place) = [line |-> l + 1, col |-> 1]
      BY <1>1, <1>2, <1>4, <2>2 DEF Past
    <3>2. ~(c + 1 <= 5)
      BY <1>1, <2>2
    <3> QED
      BY <3>1, <3>2 DEF Here
  <2> QED
    BY <2>1, <2>2
<1> HIDE DEF word
<1>7. PICK got : got = Append(call.got, word)
  OBVIOUS
<1>8. /\ got \in Seq(Tokens) /\ Len(got) = n + 1
      /\ \A j \in 1 .. n : got[j] = call.got[j]
      /\ got[n + 1] = word
  <2>1. call.got \in Seq(Tokens) /\ Len(call.got) = n
    BY DEF HasRead
  <2> QED
    BY <1>2, <1>7, <2>1, AppendProperties
<1>9. Took(call).place = Here(l, c + 1) /\ Took(call).got = got /\ Took(call).ok
  BY <1>5, <1>6, <1>7 DEF Took
<1>10. \A j \in 1 .. n + 1 : got[j] = member[l][b + j - 1]
  <2>1. \A j \in 1 .. n : got[j] = member[l][b + j - 1]
    BY <1>8 DEF HasRead
  <2>2. b + (n + 1) - 1 = c
    BY <1>1
  <2>3. got[n + 1] = member[l][b + (n + 1) - 1]
    BY <1>8, <2>2 DEF word
  <2>4. \A j \in 1 .. n + 1 : j \in 1 .. n \/ j = n + 1
    BY <1>1
  <2> QED
    BY <2>1, <2>3, <2>4, Zenon
<1>11. HasRead(Took(call), l, b, n + 1)
  <2>1. b + (n + 1) = c + 1
    BY <1>1
  <2> QED
    BY <1>8, <1>9, <1>10, <2>1, Zenon DEF HasRead
<1>12. Word(call) = Took(call)
  BY <1>3, <1>5 DEF Word
<1>13. c \in {1, 4, 5} => Number(call) = Took(call)
  BY <1>2, <1>3, <1>5 DEF Number
<1> QED
  BY <1>11, <1>12, <1>13

\* The calls of the loops, on the line of an account.
LEMMA ReadsAccount ==
  ASSUME Accounts(member), NEW l \in 1 .. Len(member)
  PROVE  LET one == Number(Call(Here(l, 1)))
             two == Word(one)
         IN  /\ HasRead(one, l, 1, 1)
             /\ HasRead(two, l, 1, 2)
             /\ HasRead(Number(Number(Word(two))), l, 1, 5)
             /\ HasRead(Number(Number(Word(Call(Here(l, 3))))), l, 3, 3)
             /\ HasRead(Word(Call(Here(l, 2))), l, 2, 1)
             /\ HasRead(Word(Call(Here(l, 3))), l, 3, 1)
             /\ HasRead(Number(Call(Here(l, 4))), l, 4, 1)
             /\ HasRead(Number(Call(Here(l, 5))), l, 5, 1)
<1> DEFINE one == Number(Call(Here(l, 1)))
           two == Word(one)
<1>1. HasRead(one, l, 1, 1)
  BY CallHasRead, ReadsWord
<1>2. HasRead(two, l, 1, 2)
  BY <1>1, ReadsWord
<1> HIDE DEF one, two
<1>3. HasRead(Word(two), l, 1, 3)
  BY <1>2, ReadsWord
<1>4. HasRead(Number(Word(two)), l, 1, 4)
  BY <1>3, ReadsWord
<1>5. HasRead(Number(Number(Word(two))), l, 1, 5)
  BY <1>4, ReadsWord
<1>6. HasRead(Word(Call(Here(l, 3))), l, 3, 1)
  BY CallHasRead, ReadsWord
<1>7. HasRead(Number(Word(Call(Here(l, 3)))), l, 3, 2)
  BY <1>6, ReadsWord
<1>8. HasRead(Number(Number(Word(Call(Here(l, 3))))), l, 3, 3)
  BY <1>7, ReadsWord
<1>9. HasRead(Word(Call(Here(l, 2))), l, 2, 1)
  BY CallHasRead, ReadsWord
<1>10. HasRead(Number(Call(Here(l, 4))), l, 4, 1)
  BY CallHasRead, ReadsWord
<1>11. HasRead(Number(Call(Here(l, 5))), l, 5, 1)
  BY CallHasRead, ReadsWord
<1> QED
  BY <1>1, <1>2, <1>5, <1>6, <1>8, <1>9, <1>10, <1>11 DEF one, two

-----------------------------------------------------------------------------
\* The accounts, one lemma per step.

\* What does not change.
LEMMA SameFiles ==
  ASSUME UNCHANGED <<mem_n, member>>
  PROVE  /\ Accounts(member) => Accounts(member)'
         /\ FilesAgree => FilesAgree'
BY DEF FilesAgree, Accounts, IsAccount

\* The same for the table.
LEMMA SameTable ==
  ASSUME UNCHANGED <<user_table, member>>
  PROVE  TableIs(member) => TableIs(member)'
BY DEF TableIs, InTable

\* The loop is before a line, or after the last one.
LEMMA LoopPlace ==
  ASSUME TypeInv, FilesAgree, LineByLine
  PROVE  /\ Len(member) \in Nat /\ loop.i \in Nat /\ loop.n = Len(member)
         /\ loop.i < loop.n => /\ loop.i + 1 \in 1 .. Len(member)
                               /\ loop.place = Here(loop.i + 1, 1)
         /\ loop.i >= loop.n => loop.i = Len(member)
<1>1. PICK n \in Nat : n = Len(member)
  BY LenProperties DEF FilesAgree, Accounts
<1>2. PICK i \in Nat : i = loop.i
  BY DEF TypeInv, StoreTypeOK, Turn
<1>3. loop.n = n /\ i <= n /\ loop.place = [line |-> i + 1, col |-> 1]
  BY <1>1, <1>2 DEF LineByLine
<1>4. i < n => i + 1 \in 1 .. n
  OBVIOUS
<1>5. i >= n => i = n
  BY <1>3
<1>6. Here(i + 1, 1) = [line |-> i + 1, col |-> 1]
  BY DEF Here
<1> QED
  BY <1>1, <1>2, <1>3, <1>4, <1>5, <1>6

\* A turn that ends at the next line keeps the loop line by line.
LEMMA NextLine ==
  ASSUME TypeInv, FilesAgree, LineByLine, loop.i < loop.n, member' = member,
         loop'.n = loop.n, loop'.i = loop.i + 1, loop'.place = Here(loop.i + 1, 6)
  PROVE  LineByLine'
<1>1. PICK n \in Nat : n = Len(member)
  BY LenProperties DEF FilesAgree, Accounts
<1>2. PICK i \in Nat : i = loop.i
  BY DEF TypeInv, StoreTypeOK, Turn
<1>3. loop.n = n /\ i < n
  BY <1>1, <1>2 DEF LineByLine
<1>4. i + 1 <= n
  BY <1>3
<1>5. Here(i + 1, 6) = [line |-> (i + 1) + 1, col |-> 1]
  BY DEF Here
<1>6. /\ loop'.n = Len(member') /\ loop'.i <= loop'.n
      /\ loop'.place = [line |-> loop'.i + 1, col |-> 1]
  BY <1>1, <1>2, <1>3, <1>4, <1>5, Zenon
<1> QED
  BY <1>6 DEF LineByLine

\* Loops begin before the first line.
LEMMA LoopBegins ==
  ASSUME FilesAgree, NEW n \in Counts, NEW exp, loop' = Loop(n, exp), member' = member
  PROVE  /\ LineByLine' /\ loop'.i = 0 /\ loop'.exp = exp /\ loop'.out = <<>>
<1>1. Len(member) \in Nat /\ mem_n = Len(member)
  BY LenProperties DEF FilesAgree, Accounts
<1>2. n = Len(member)
  BY <1>1 DEF Counts, Empty
<1>3. /\ loop'.n = Len(member) /\ loop'.i = 0 /\ loop'.exp = exp /\ loop'.out = <<>>
      /\ loop'.place = [line |-> 1, col |-> 1]
  BY <1>2 DEF Loop, Start
<1>4. 0 <= Len(member) /\ 0 + 1 = 1
  BY <1>1
<1>5. /\ loop'.n = Len(member') /\ loop'.i <= loop'.n
      /\ loop'.place = [line |-> loop'.i + 1, col |-> 1]
  BY <1>3, <1>4, Zenon
<1> QED
  BY <1>3, <1>5 DEF LineByLine

\* A sign-up begins to look at the first line.
LEMMA RegMemKeeps ==
  ASSUME TypeInv, BookParts, NEW id \in Ids, RegMem(id)
  PROVE  BookParts'
<1>1. /\ at = "loop" /\ at' = "look up" /\ entry' = [Blank EXCEPT !.id = <<id>>]
      /\ UNCHANGED <<user_table, mem_n, member, tmp>>
  BY DEF RegMem
<1>2. FilesAgree /\ TableIs(member) /\ (member = <<>> => tmp = <<>>)
  BY <1>1 DEF BookParts
<1>3. LineByLine' /\ loop'.i = 0
  BY <1>1, <1>2, LoopBegins DEF RegMem
<1>4. entry' = [pk |-> 0, id |-> <<id>>, exp |-> 0]
  BY <1>1 DEF Blank
<1>5. \A j \in 1 .. loop'.i : member'[j][2] # id
  BY <1>3
<1>6. LookingUp'
  BY <1>3, <1>4, <1>5 DEF LookingUp
<1>7. FilesAgree' /\ TableIs(member)'
  BY <1>1, <1>2, SameFiles, SameTable
<1> QED
  BY <1>1, <1>2, <1>6, <1>7 DEF BookParts

\* A turn reads the id of its line and finds another one, or the sign-up ends.
LEMMA LookUpKeeps ==
  ASSUME TypeInv, BookParts, LookUp
  PROVE  BookParts'
<1> DEFINE l     == loop.i + 1
           head  == Word(Number(Call(loop.place)))
           tail  == Number(Number(Word(Call(head.place))))
           read  == IF Len(head.got) = 2 THEN <<head.got[2]>> ELSE loop.buf
<1>1. /\ at = "look up" /\ loop.i < loop.n
      /\ UNCHANGED <<user_table, mem_n, member, tmp>>
  BY DEF LookUp
<1>2. FilesAgree /\ TableIs(member) /\ (member = <<>> => tmp = <<>>) /\ LookingUp
  BY <1>1 DEF BookParts
<1>3. FilesAgree' /\ TableIs(member)'
  BY <1>1, <1>2, SameFiles, SameTable
<1>4. LineByLine /\ Accounts(member)
  BY <1>2 DEF LookingUp, FilesAgree
<1>5. /\ l \in 1 .. Len(member) /\ loop.place = Here(l, 1) /\ loop.i \in Nat
  BY <1>1, <1>2, <1>4, LoopPlace
<1>6. HasRead(head, l, 1, 2) /\ HasRead(Number(Number(Word(Call(Here(l, 3))))), l, 3, 3)
  BY <1>4, <1>5, ReadsAccount
<1>7. head.place = Here(l, 3) /\ Len(head.got) = 2 /\ head.got[2] = member[l][2]
  BY <1>6 DEF HasRead
<1>8. tail.place = Here(l, 6)
  BY <1>6, <1>7 DEF HasRead
<1>9. read = <<member[l][2]>>
  BY <1>7
<1>10. \/ at' = "loop"
       \/ /\ read # entry.id
          /\ loop' = Turned(tail.place, loop.pk, read, loop.out)
          /\ UNCHANGED <<at, entry>>
  BY <1>9 DEF LookUp
<1>11. CASE at' = "loop"
  BY <1>1, <1>2, <1>3, <1>11 DEF BookParts
<1>12. CASE /\ read # entry.id
            /\ loop' = Turned(tail.place, loop.pk, read, loop.out)
            /\ UNCHANGED <<at, entry>>
  <2>1. loop'.n = loop.n /\ loop'.i = l /\ loop'.place = Here(l, 6)
    BY <1>8, <1>12 DEF Turned
  <2>2. LineByLine'
    BY <1>1, <1>2, <1>4, <2>1, NextLine
  <2>3. PICK id \in Ids : /\ entry = [pk |-> 0, id |-> <<id>>, exp |-> 0]
                          /\ \A j \in 1 .. loop.i : member[j][2] # id
    BY <1>2 DEF LookingUp
  <2>4. member[l][2] # id
    BY <1>9, <1>12, <2>3
  <2>5. \A j \in 1 .. l : member[j][2] # id
    BY <1>5, <2>3, <2>4
  <2>6. LookingUp'
    BY <1>1, <1>12, <2>1, <2>2, <2>3, <2>5 DEF LookingUp
  <2> QED
    BY <1>1, <1>2, <1>3, <1>12, <2>6 DEF BookParts
<1> QED
  BY <1>10, <1>11, <1>12

\* The last line has been read: the id is on none, and the next pk is free.
LEMMA CreateMemKeeps ==
  ASSUME TypeInv, BookParts, CreateMem
  PROVE  BookParts'
<1>1. /\ at = "look up" /\ at' = "count open" /\ loop.i >= loop.n
      /\ UNCHANGED <<user_table, member, tmp>>
  BY DEF CreateMem
<1>2. /\ FilesAgree /\ TableIs(member) /\ (member = <<>> => tmp = <<>>) /\ LookingUp
  BY <1>1 DEF BookParts
<1>3. loop.i = Len(member) /\ Len(member) \in Nat /\ Accounts(member) /\ mem_n = Len(member)
  BY <1>1, <1>2, LoopPlace DEF LookingUp, FilesAgree
<1>4. PICK id \in Ids : /\ entry = [pk |-> 0, id |-> <<id>>, exp |-> 0]
                        /\ \A j \in 1 .. loop.i : member[j][2] # id
  BY <1>2 DEF LookingUp
<1>5. Counts = {Len(member)}
  BY <1>3 DEF Counts, Empty
<1>6. entry' = [entry EXCEPT !.pk = Len(member) + 1]
  BY <1>5 DEF CreateMem
<1>7. entry' = [pk |-> Len(member) + 1, id |-> <<id>>, exp |-> 0]
  BY <1>4, <1>6
<1>8. \A j \in 1 .. Len(member) : member[j][2] # id
  BY <1>3, <1>4
<1>9. Accounts(member)' /\ TableIs(member)'
  BY <1>1, <1>2, <1>3, SameTable DEF Accounts, IsAccount
<1>10. Adding'
  BY <1>1, <1>7, <1>8, <1>9 DEF Adding
<1> QED
  BY <1>1, <1>2, <1>10 DEF BookParts

\* The count is that of the account to come.
LEMMA CloseCountKeeps ==
  ASSUME TypeInv, BookParts, CloseCount
  PROVE  BookParts'
<1>1. /\ at = "count open" /\ at' = "count closed" /\ mem_n' = entry.pk
      /\ UNCHANGED <<user_table, member, tmp, entry>>
  BY DEF CloseCount
<1>2. Adding /\ (member = <<>> => tmp = <<>>)
  BY <1>1 DEF BookParts
<1>3. Accounts(member)' /\ TableIs(member)'
  BY <1>1, <1>2, SameTable DEF Adding, Accounts, IsAccount
<1>4. Adding'
  BY <1>1, <1>2, <1>3 DEF Adding
<1> QED
  BY <1>1, <1>2, <1>4 DEF BookParts

\* A sequence of five words is the tuple of them.
LEMMA FiveWords ==
  ASSUME NEW q \in Seq(Tokens), Len(q) = 5
  PROVE  q = <<q[1], q[2], q[3], q[4], q[5]>>
<1>1. \A i \in 1 .. 5 : q[i] \in Tokens
  BY ElementOfSeq
<1>2. q[1] \in Tokens /\ q[2] \in Tokens /\ q[3] \in Tokens /\ q[4] \in Tokens /\ q[5] \in Tokens
  BY <1>1
<1>3. PICK t : t = <<q[1], q[2], q[3], q[4], q[5]>>
  OBVIOUS
<1>4. /\ t \in Seq(Tokens) /\ Len(t) = 5
      /\ t[1] = q[1] /\ t[2] = q[2] /\ t[3] = q[3] /\ t[4] = q[4] /\ t[5] = q[5]
  BY <1>2, <1>3
<1>5. \A i \in 1 .. Len(q) : q[i] = t[i]
  BY <1>4
<1>6. q = t
  BY <1>4, <1>5, SeqEqual
<1> QED
  BY <1>3, <1>6

\* The line of a user with one word for an id.
LEMMA AccountLineIs ==
  ASSUME NEW pk \in Nat, NEW id \in Tokens, NEW exp \in Nat, NEW user,
         user.pk = pk, user.id = <<id>>, user.exp = exp
  PROVE  AccountLine(user) = <<pk, id, Password, CharacterType, exp>>
<1>1. PICK a : a = <<pk>>
  OBVIOUS
<1>2. PICK b : b = <<id>>
  OBVIOUS
<1>3. PICK c : c = <<Password, CharacterType, exp>>
  OBVIOUS
<1>4. /\ a \in Seq(Tokens) /\ Len(a) = 1 /\ a[1] = pk
      /\ b \in Seq(Tokens) /\ Len(b) = 1 /\ b[1] = id
      /\ c \in Seq(Tokens) /\ Len(c) = 3
      /\ c[1] = Password /\ c[2] = CharacterType /\ c[3] = exp
  BY <1>1, <1>2, <1>3, ConstantTypes
<1>5. PICK ab : ab = a \o b
  OBVIOUS
<1>6. /\ ab \in Seq(Tokens) /\ Len(ab) = Len(a) + Len(b)
      /\ \A i \in 1 .. Len(a) + Len(b) : ab[i] = IF i <= Len(a) THEN a[i] ELSE b[i - Len(a)]
  BY <1>4, <1>5, ConcatProperties, Zenon
<1>7. Len(ab) = 2 /\ ab[1] = pk /\ ab[2] = id
  BY <1>4, <1>6
<1>8. PICK abc : abc = ab \o c
  OBVIOUS
<1>9. /\ abc \in Seq(Tokens) /\ Len(abc) = Len(ab) + Len(c)
      /\ \A i \in 1 .. Len(ab) + Len(c) : abc[i] = IF i <= Len(ab) THEN ab[i] ELSE c[i - Len(ab)]
  <2>1. ab \in Seq(Tokens) /\ c \in Seq(Tokens)
    BY <1>4, <1>6
  <2> QED
    BY <1>8, <2>1, ConcatProperties, Zenon
<1>10. /\ Len(abc) = 5
       /\ abc[1] = pk /\ abc[2] = id /\ abc[3] = Password /\ abc[4] = CharacterType
       /\ abc[5] = exp
  BY <1>4, <1>7, <1>9
<1>11. abc = <<pk, id, Password, CharacterType, exp>>
  BY <1>9, <1>10, FiveWords
<1>12. abc = AccountLine(user)
  BY <1>1, <1>2, <1>3, <1>5, <1>8 DEF AccountLine
<1> QED
  BY <1>11, <1>12

\* What a line put at the end of the accounts makes of them and of the table.
LEMMA AddedAccount ==
  ASSUME Accounts(member), NEW id \in Ids, \A j \in 1 .. Len(member) : member[j][2] # id,
         NEW line, line = <<Len(member) + 1, id, Password, CharacterType, 0>>,
         member' = Append(member, line)
  PROVE  /\ Accounts(member')
         /\ Len(member') = Len(member) + 1
         /\ \A i \in 1 .. Len(member) : member'[i] = member[i]
         /\ member'[Len(member) + 1] = line
<1> DEFINE n == Len(member)
<1>1. n \in Nat /\ n + 1 \in Nat /\ member \in Seq(Line)
  BY LenProperties DEF Accounts
<1>2. IsAccount(n + 1, line)
  BY DEF IsAccount
<1>3. line \in Line /\ line[2] = id
  BY <1>1, <1>2, AccountWords
<1> HIDE DEF n
<1>4. /\ member' \in Seq(Line) /\ Len(member') = n + 1
      /\ \A i \in 1 .. n : member'[i] = member[i]
      /\ member'[n + 1] = line
  BY <1>1, <1>3, AppendProperties DEF n
<1>5. \A i \in 1 .. n + 1 : i \in 1 .. n \/ i = n + 1
  BY <1>1
<1>6. \A i \in 1 .. n + 1 : IsAccount(i, member'[i])
  BY <1>2, <1>4, <1>5 DEF Accounts, n
<1>7. \A i, j \in 1 .. n + 1 : i # j => member'[i][2] # member'[j][2]
  BY <1>3, <1>4, <1>5 DEF Accounts, n
<1>8. Accounts(member')
  <2>1. PICK lines : lines = member'
    OBVIOUS
  <2>2. /\ lines \in Seq(Line) /\ Len(lines) = n + 1
        /\ \A i \in 1 .. n + 1 : IsAccount(i, lines[i])
        /\ \A i, j \in 1 .. n + 1 : i # j => lines[i][2] # lines[j][2]
    BY <1>4, <1>6, <1>7, <2>1
  <2>3. Accounts(lines)
    BY <2>2, Zenon DEF Accounts
  <2> QED
    BY <2>1, <2>3, Zenon
<1> QED
  BY <1>4, <1>8 DEF n

\* The account takes the last line and its place in the table.
LEMMA CloseMemberKeeps ==
  ASSUME TypeInv, BookParts, CloseMember
  PROVE  /\ BookParts'
         /\ \E id \in Ids :
              /\ \A j \in 1 .. Len(member) : member[j][2] # id
              /\ member' = Append(member, <<Len(member) + 1, id, Password, CharacterType, 0>>)
<1> DEFINE n    == Len(member)
           user == entry
<1>1. /\ at = "count closed" /\ at' = "loop" /\ member' = Append(member, AccountLine(entry))
      /\ user_table' = IF entry.pk = 0 THEN user_table ELSE Put(entry.pk, entry)
      /\ UNCHANGED <<mem_n, tmp>>
  BY DEF CloseMember
<1>2. Adding /\ mem_n = entry.pk /\ (member = <<>> => tmp = <<>>)
  BY <1>1 DEF BookParts
<1>3. Accounts(member) /\ TableIs(member) /\ n \in Nat
  BY <1>2, LenProperties DEF Adding, Accounts
<1>4. PICK id \in Ids : /\ entry = [pk |-> n + 1, id |-> <<id>>, exp |-> 0]
                        /\ \A j \in 1 .. n : member[j][2] # id
  BY <1>2 DEF Adding
<1>5. PICK line : line = <<n + 1, id, Password, CharacterType, 0>>
  OBVIOUS
<1>6. entry.pk = n + 1 /\ entry.id = <<id>> /\ entry.exp = 0
  BY <1>4
<1>7. AccountLine(entry) = line
  <2>1. n + 1 \in Nat /\ 0 \in Nat /\ id \in Tokens
    BY <1>3, ConstantTypes
  <2> QED
    BY <1>5, <1>6, <2>1, AccountLineIs
<1>8. /\ Accounts(member')
      /\ Len(member') = n + 1
      /\ \A i \in 1 .. n : member'[i] = member[i]
      /\ member'[n + 1] = line
  BY <1>1, <1>3, <1>4, <1>5, <1>7, AddedAccount
<1>9. user_table' = [x \in DOMAIN user_table \cup {n + 1} |->
                       IF x = n + 1 THEN entry ELSE user_table[x]]
  <2>1. entry.pk # 0
    BY <1>3, <1>6
  <2> QED
    BY <1>1, <1>6, <2>1 DEF Put
<1>10. /\ \A k \in DOMAIN user_table : InTable(user_table[k], member) /\ k <= user_table[k].pk
       /\ \A i \in 1 .. n : \E k \in DOMAIN user_table : user_table[k].pk = i
       /\ \A j, k \in DOMAIN user_table : j # k => user_table[j].pk # user_table[k].pk
       /\ DOMAIN user_table \subseteq Nat
  BY <1>3 DEF TableIs, TypeInv, StoreTypeOK
<1>11. line[2] = id /\ line[5] = 0
  BY <1>5
<1> HIDE DEF n
<1>12. \A k \in DOMAIN user_table :
         /\ k # n + 1 /\ user_table[k].pk # n + 1
         /\ InTable(user_table[k], member')
  <2> SUFFICES ASSUME NEW k \in DOMAIN user_table
               PROVE  /\ k # n + 1 /\ user_table[k].pk # n + 1
                      /\ InTable(user_table[k], member')
    OBVIOUS
  <2>1. PICK pk \in 1 .. n : pk = user_table[k].pk
    BY <1>10 DEF InTable, n
  <2>2. k <= pk /\ k \in Nat
    BY <1>10, <2>1
  <2>3. k # n + 1 /\ pk # n + 1 /\ pk \in 1 .. n + 1
    BY <1>3, <2>1, <2>2
  <2>4. member'[pk] = member[pk]
    BY <1>8, <2>1
  <2> QED
    BY <1>8, <1>10, <2>1, <2>3, <2>4 DEF InTable
<1>13. InTable(entry, member')
  <2>1. n + 1 \in 1 .. n + 1
    BY <1>3
  <2> QED
    BY <1>6, <1>8, <1>11, <2>1 DEF InTable
<1>14. /\ DOMAIN user_table' = DOMAIN user_table \cup {n + 1}
       /\ \A k \in DOMAIN user_table : user_table'[k] = user_table[k]
       /\ user_table'[n + 1] = entry
  BY <1>9, <1>12
<1>15. TableIs(member)'
  <2>1. n + 1 <= n + 1
    BY <1>3
  <2>2. \A k \in DOMAIN user_table' :
          InTable(user_table'[k], member') /\ k <= user_table'[k].pk
    BY <1>6, <1>10, <1>12, <1>13, <1>14, <2>1
  <2>3. \A i \in 1 .. n + 1 : \E k \in DOMAIN user_table' : user_table'[k].pk = i
    <3>1. \A i \in 1 .. n + 1 : i \in 1 .. n \/ i = n + 1
      BY <1>3
    <3> QED
      BY <1>6, <1>10, <1>14, <3>1
  <2>4. \A j, k \in DOMAIN user_table' : j # k => user_table'[j].pk # user_table'[k].pk
    BY <1>6, <1>10, <1>12, <1>14
  <2>5. /\ \A k \in DOMAIN user_table' : InTable(user_table[k], member)' /\ k <= user_table'[k].pk
        /\ Len(member') = n + 1
    BY <1>8, <2>2 DEF InTable
  <2> QED
    BY <2>3, <2>4, <2>5 DEF TableIs
<1>16. FilesAgree'
  <2>1. mem_n' = Len(member')
    BY <1>1, <1>2, <1>6, <1>8
  <2>2. Accounts(member)'
    BY <1>8 DEF Accounts, IsAccount
  <2> QED
    BY <2>1, <2>2 DEF FilesAgree
<1>17. member' # <<>>
  BY <1>3, <1>8, EmptySeq
<1>18. BookParts'
  BY <1>1, <1>15, <1>16, <1>17 DEF BookParts
<1> QED
  BY <1>1, <1>4, <1>5, <1>7, <1>18 DEF n

\* Who is paid has an account.
LEMMA GameOverKeeps ==
  ASSUME TypeInv, BookParts, NEW list \in Slots, GameOver(list)
  PROVE  BookParts'
<1>1. /\ at = "loop" /\ at' = "pay" /\ due' = list
      /\ UNCHANGED <<user_table, mem_n, member, tmp>>
  BY DEF GameOver
<1>2. FilesAgree /\ TableIs(member) /\ (member = <<>> => tmp = <<>>)
  BY <1>1 DEF BookParts
<1>3. KnownPks \subseteq 1 .. Len(member)
  BY <1>2 DEF TableIs, InTable, KnownPks
<1>4. PICK n \in 1 .. MaxSlots : list \in [1 .. n -> KnownPks]
  BY DEF Slots
<1>5. n \in Nat /\ n # 0
  BY StoreAssumption
<1>6. list \in Seq(1 .. Len(member))
  <2>1. list \in [1 .. n -> 1 .. Len(member)]
    BY <1>3, <1>4
  <2> QED
    BY <1>5, <2>1, SeqDef
<1>7. list # <<>>
  <2>1. 1 \in DOMAIN list
    BY <1>4, <1>5
  <2> QED
    BY <2>1
<1>8. DueIn(member)'
  BY <1>1, <1>6, <1>7 DEF DueIn
<1>9. FilesAgree' /\ TableIs(member)'
  BY <1>1, <1>2, SameFiles, SameTable
<1> QED
  BY <1>1, <1>2, <1>8, <1>9 DEF BookParts

\* Paying one account changes its exp and nothing else.
LEMMA PaidIs ==
  ASSUME Accounts(member), NEW p \in 1 .. Len(member), NEW exp \in Nat,
         NEW paid, paid = Paid(member, p, exp)
  PROVE  /\ Accounts(paid)
         /\ Len(paid) = Len(member)
         /\ \A i \in 1 .. Len(member) : i # p => paid[i] = member[i]
         /\ paid[p] = <<p, member[p][2], Password, CharacterType, exp>>
         /\ paid[p][2] = member[p][2] /\ paid[p][5] = exp
<1>1. PICK n \in Nat : n = Len(member)
  BY LenProperties DEF Accounts
<1>2. paid = [i \in 1 .. n |->
                IF i = p THEN <<p, member[i][2], Password, CharacterType, exp>> ELSE member[i]]
  BY <1>1 DEF Paid
<1>3. PICK line : line = <<p, member[p][2], Password, CharacterType, exp>>
  OBVIOUS
<1>4. line[2] = member[p][2] /\ line[5] = exp
  BY <1>3
<1>5. paid[p] = line /\ \A i \in 1 .. n : i # p => paid[i] = member[i]
  BY <1>1, <1>2, <1>3
<1>6. IsAccount(p, line)
  <2>1. member[p][2] \in Ids
    BY MemberWords
  <2> QED
    BY <1>3, <2>1 DEF IsAccount
<1>7. \A i \in 1 .. n : IsAccount(i, paid[i])
  BY <1>1, <1>5, <1>6 DEF Accounts
<1>8. paid \in Seq(Line)
  <2>1. \A i \in 1 .. n : paid[i] \in Line
    BY <1>7, AccountWords
  <2>2. paid \in [1 .. n -> Line]
    BY <1>2, <2>1
  <2> QED
    BY <2>2, SeqDef
<1>9. Len(paid) = n
  <2>1. DOMAIN paid = 1 .. n
    BY <1>2
  <2>2. DOMAIN paid = 1 .. Len(paid) /\ Len(paid) \in Nat
    BY <1>8, SeqPlaces
  <2> QED
    BY <2>1, <2>2
<1>10. \A i \in 1 .. n : paid[i][2] = member[i][2]
  BY <1>4, <1>5
<1>11. \A i, j \in 1 .. n : i # j => paid[i][2] # paid[j][2]
  BY <1>1, <1>10 DEF Accounts
<1>12. Accounts(paid)
  BY <1>7, <1>8, <1>9, <1>11, Zenon DEF Accounts
<1> QED
  BY <1>1, <1>3, <1>4, <1>5, <1>9, <1>12

\* The account that is paid, as long as Member.txt is whole.
LEMMA DuePaidIs ==
  ASSUME Accounts(member), DueIn(member)
  PROVE  /\ Head(due) \in 1 .. Len(member)
         /\ member[Head(due)][5] + GameExp \in Nat
         /\ Accounts(DuePaid)
         /\ Len(DuePaid) = Len(member)
         /\ \A i \in 1 .. Len(member) : i # Head(due) => DuePaid[i] = member[i]
         /\ DuePaid[Head(due)] = <<Head(due), member[Head(due)][2], Password, CharacterType,
                                   member[Head(due)][5] + GameExp>>
         /\ DuePaid[Head(due)][2] = member[Head(due)][2]
         /\ DuePaid[Head(due)][5] = member[Head(due)][5] + GameExp
<1>1. PICK p \in 1 .. Len(member) : p = Head(due)
  BY HeadTailProperties DEF DueIn
<1>2. PICK exp \in Nat : exp = member[p][5] + GameExp
  BY MemberWords, ConstantTypes
<1>3. DuePaid = Paid(member, p, exp)
  BY <1>1, <1>2 DEF DuePaid
<1> QED
  BY <1>1, <1>2, <1>3, PaidIs

\* Memory has the exp first.
LEMMA UpdateExpKeeps ==
  ASSUME TypeInv, BookParts, UpdateExp
  PROVE  BookParts'
<1>1. /\ at = "pay" /\ at' = "tmp open" /\ tmp' = <<>>
      /\ UNCHANGED <<mem_n, member, due>>
  BY DEF UpdateExp
<1>2. FilesAgree /\ TableIs(member) /\ DueIn(member) /\ Accounts(member)
  BY <1>1 DEF BookParts, FilesAgree
<1>3. PICK k \in DOMAIN user_table, n \in Counts :
        /\ user_table[k].pk = Head(due)
        /\ user_table' = [user_table EXCEPT ![k].exp = @ + GameExp]
        /\ loop' = Loop(n, user_table[k].exp + GameExp)
  BY DEF UpdateExp
<1> DEFINE p == Head(due)
<1>4. /\ p \in 1 .. Len(member)
      /\ Len(DuePaid) = Len(member)
      /\ \A i \in 1 .. Len(member) : i # p => DuePaid[i] = member[i]
      /\ DuePaid[p][2] = member[p][2] /\ DuePaid[p][5] = member[p][5] + GameExp
  BY <1>2, DuePaidIs
<1>5. /\ \A j \in DOMAIN user_table : /\ user_table[j].pk \in 1 .. Len(member)
                                      /\ user_table[j].id = <<member[user_table[j].pk][2]>>
                                      /\ user_table[j].exp = member[user_table[j].pk][5]
                                      /\ j <= user_table[j].pk
      /\ \A i \in 1 .. Len(member) : \E j \in DOMAIN user_table : user_table[j].pk = i
      /\ \A i, j \in DOMAIN user_table : i # j => user_table[j].pk # user_table[i].pk
      /\ \A j \in DOMAIN user_table : user_table[j] \in User
  BY <1>2 DEF TableIs, InTable, TypeInv, StoreTypeOK
<1>6. PICK exp : exp = user_table[k].exp + GameExp
  OBVIOUS
<1>7. exp = member[p][5] + GameExp
  BY <1>3, <1>5, <1>6
<1>8. LineByLine' /\ loop'.i = 0 /\ loop'.exp = exp /\ loop'.out = <<>>
  BY <1>1, <1>2, <1>3, <1>6, LoopBegins
<1>9. /\ DOMAIN user_table' = DOMAIN user_table
      /\ \A j \in DOMAIN user_table : j # k => user_table'[j] = user_table[j]
      /\ user_table'[k] = [user_table[k] EXCEPT !.exp = exp]
  BY <1>3, <1>6
<1>10. /\ user_table'[k].pk = p /\ user_table'[k].id = user_table[k].id
       /\ user_table'[k].exp = exp
  <2>1. user_table[k] \in User
    BY <1>5
  <2> QED
    BY <1>3, <1>9, <2>1 DEF User
<1>11. \A j \in DOMAIN user_table : user_table'[j].pk = user_table[j].pk
  BY <1>3, <1>9, <1>10
<1> DEFINE lines == DuePaid
<1> HIDE DEF p, lines
<1>12. \A j \in DOMAIN user_table : InTable(user_table'[j], lines)
  <2> SUFFICES ASSUME NEW j \in DOMAIN user_table PROVE InTable(user_table'[j], lines)
    OBVIOUS
  <2>1. CASE j = k
    <3>1. /\ user_table'[k].pk = p /\ p \in 1 .. Len(lines)
          /\ user_table'[k].id = <<lines[p][2]>> /\ user_table'[k].exp = lines[p][5]
      BY <1>3, <1>4, <1>5, <1>7, <1>10 DEF p, lines
    <3> QED
      BY <2>1, <3>1 DEF InTable
  <2>2. CASE j # k
    <3>1. PICK i \in 1 .. Len(member) : i = user_table[j].pk
      BY <1>5
    <3>2. i # p
      BY <1>3, <1>5, <2>2, <3>1 DEF p
    <3>3. lines[i] = member[i] /\ i \in 1 .. Len(lines)
      BY <1>4, <3>2 DEF lines
    <3> QED
      BY <1>5, <1>9, <2>2, <3>1, <3>3 DEF InTable
  <2> QED
    BY <2>1, <2>2
<1>13. TableIs(lines)'
  <2>1. lines' = lines
    BY <1>1 DEF lines, DuePaid, Paid
  <2>2. /\ \A j \in DOMAIN user_table' : InTable(user_table[j], lines)' /\ j <= user_table'[j].pk
        /\ \A i \in 1 .. Len(lines)' : \E j \in DOMAIN user_table' : user_table'[j].pk = i
        /\ \A i, j \in DOMAIN user_table' : i # j => user_table'[i].pk # user_table'[j].pk
    <3>1. \A j \in DOMAIN user_table' : InTable(user_table[j], lines)'
      BY <1>9, <1>12, <2>1 DEF InTable
    <3>2. \A j \in DOMAIN user_table' : j <= user_table'[j].pk
      BY <1>5, <1>9, <1>11
    <3>3. \A i \in 1 .. Len(lines)' : \E j \in DOMAIN user_table' : user_table'[j].pk = i
      <4>1. Len(lines)' = Len(member)
        BY <1>4, <2>1 DEF lines
      <4> QED
        BY <1>5, <1>9, <1>11, <4>1
    <3>4. \A i, j \in DOMAIN user_table' : i # j => user_table'[i].pk # user_table'[j].pk
      BY <1>5, <1>9, <1>11
    <3> QED
      BY <3>1, <3>2, <3>3, <3>4
  <2> QED
    BY <2>2 DEF TableIs
<1>14. FilesAgree' /\ DueIn(member)'
  BY <1>1, <1>2, SameFiles DEF DueIn
<1>15. Rewriting'
  <2>1. Len(loop'.out) = loop'.i /\ \A j \in 1 .. loop'.i : loop'.out[j] = DuePaid'[j]
    BY <1>8, EmptySeq
  <2>2. loop'.exp = member'[Head(due')][5] + GameExp
    BY <1>1, <1>7, <1>8 DEF p
  <2>3. TableIs(DuePaid)'
    BY <1>13 DEF lines
  <2>4. LineByLine'
    BY <1>8
  <2> QED
    BY <1>14, <2>1, <2>2, <2>3, <2>4 DEF Rewriting
<1>16. tmp' = <<>>
  BY <1>1
<1> QED
  BY <1>1, <1>15, <1>16 DEF BookParts

\* The line of an account, put together from its words.
LEMMA PartsOfLine ==
  ASSUME NEW pk \in Nat, NEW id \in Tokens, NEW type \in Nat, NEW exp \in Nat,
         NEW b \in Seq(Tokens), NEW c \in Seq(Tokens),
         Len(b) = 1, b[1] = id, Len(c) = 1, c[1] = Password
  PROVE  <<pk>> \o b \o c \o <<type, exp>> = <<pk, id, Password, type, exp>>
<1>1. PICK a : a = <<pk>>
  OBVIOUS
<1>2. PICK d : d = <<type, exp>>
  OBVIOUS
<1>3. /\ a \in Seq(Tokens) /\ Len(a) = 1 /\ a[1] = pk
      /\ d \in Seq(Tokens) /\ Len(d) = 2 /\ d[1] = type /\ d[2] = exp
  BY <1>1, <1>2, ConstantTypes
<1>4. PICK ab : ab = a \o b
  OBVIOUS
<1>5. /\ ab \in Seq(Tokens) /\ Len(ab) = Len(a) + Len(b)
      /\ \A i \in 1 .. Len(a) + Len(b) : ab[i] = IF i <= Len(a) THEN a[i] ELSE b[i - Len(a)]
  BY <1>3, <1>4, ConcatProperties, Zenon
<1>6. Len(ab) = 2 /\ ab[1] = pk /\ ab[2] = id
  BY <1>3, <1>5
<1>7. PICK abc : abc = ab \o c
  OBVIOUS
<1>8. ab \in Seq(Tokens)
  BY <1>5
<1>9. /\ abc \in Seq(Tokens) /\ Len(abc) = Len(ab) + Len(c)
      /\ \A i \in 1 .. Len(ab) + Len(c) : abc[i] = IF i <= Len(ab) THEN ab[i] ELSE c[i - Len(ab)]
  BY <1>7, <1>8, ConcatProperties, Zenon
<1>10. Len(abc) = 3 /\ abc[1] = pk /\ abc[2] = id /\ abc[3] = Password
  BY <1>6, <1>9
<1>11. PICK abcd : abcd = abc \o d
  OBVIOUS
<1>12. abc \in Seq(Tokens) /\ d \in Seq(Tokens)
  BY <1>3, <1>9
<1>13. /\ abcd \in Seq(Tokens) /\ Len(abcd) = Len(abc) + Len(d)
       /\ \A i \in 1 .. Len(abc) + Len(d) :
            abcd[i] = IF i <= Len(abc) THEN abc[i] ELSE d[i - Len(abc)]
  BY <1>11, <1>12, ConcatProperties, Zenon
<1>14. /\ Len(abcd) = 5
       /\ abcd[1] = pk /\ abcd[2] = id /\ abcd[3] = Password /\ abcd[4] = type
       /\ abcd[5] = exp
  BY <1>3, <1>10, <1>13
<1>15. abcd = <<pk, id, Password, type, exp>>
  BY <1>13, <1>14, FiveWords
<1> QED
  BY <1>1, <1>2, <1>4, <1>7, <1>11, <1>15

\* Its pk and the rest of the line are the line.
LEMMA CopiedLine ==
  ASSUME Accounts(member), NEW l \in 1 .. Len(member), NEW text, text = RestOfLine(Here(l, 2))
  PROVE  <<l>> \o text = member[l]
<1>1. PICK line : line = member[l]
  OBVIOUS
<1>2. line \in Seq(Tokens) /\ Len(line) = 5 /\ line[1] = l /\ l \in Nat
  BY <1>1, MemberWords DEF Line
<1>3. text = SubSeq(line, 2, 5)
  <2>1. Here(l, 2).line = l /\ Here(l, 2).col = 2
    BY DEF Here
  <2> QED
    BY <1>1, <1>2, <2>1 DEF RestOfLine
<1>4. text \in Seq(Tokens) /\ Len(text) = 4 /\ \A i \in 1 .. 4 : text[i] = line[i + 1]
  <2>1. \A i \in 2 .. 5 : line[i] \in Tokens
    <3>1. \A i \in 1 .. Len(line) : line[i] \in Tokens
      BY <1>2, ElementOfSeq
    <3> QED
      BY <1>2, <3>1
  <2>2. PICK sub : sub = SubSeq(line, 2, 5)
    OBVIOUS
  <2>3. /\ SubSeq(line, 2, 5) \in Seq(Tokens)
        /\ Len(SubSeq(line, 2, 5)) = IF 2 <= 5 THEN 5 - 2 + 1 ELSE 0
        /\ \A i \in 1 .. 5 - 2 + 1 : SubSeq(line, 2, 5)[i] = line[2 + i - 1]
    BY <2>1, SubSeqProperties
  <2>4. sub \in Seq(Tokens) /\ Len(sub) = 4 /\ \A i \in 1 .. 4 : sub[i] = line[i + 1]
    BY <2>2, <2>3
  <2> QED
    BY <1>3, <2>2, <2>4
<1>5. PICK a : a = <<l>>
  OBVIOUS
<1>6. a \in Seq(Tokens) /\ Len(a) = 1 /\ a[1] = l
  BY <1>2, <1>5, ConstantTypes
<1>7. PICK q : q = a \o text
  OBVIOUS
<1>8. /\ q \in Seq(Tokens) /\ Len(q) = Len(a) + Len(text)
      /\ \A i \in 1 .. Len(a) + Len(text) : q[i] = IF i <= Len(a) THEN a[i] ELSE text[i - Len(a)]
  <2>1. text \in Seq(Tokens) /\ a \in Seq(Tokens)
    BY <1>4, <1>6
  <2> QED
    BY <1>7, <2>1, ConcatProperties, Zenon
<1>9. Len(q) = 5 /\ \A i \in 1 .. 5 : q[i] = line[i]
  BY <1>2, <1>4, <1>6, <1>8
<1>10. q = line
  BY <1>2, <1>8, <1>9, SeqEqual
<1> QED
  BY <1>1, <1>5, <1>7, <1>10

\* A turn of myFileUpdate writes the line it reads as it is to be.
LEMMA RewriteLine ==
  ASSUME TypeInv, Rewriting, Rewrite
  PROVE  /\ loop'.n = loop.n /\ loop'.i = loop.i + 1 /\ loop'.exp = loop.exp
         /\ loop'.place = Here(loop.i + 1, 6)
         /\ loop'.out = Append(loop.out, DuePaid[loop.i + 1])
<1> DEFINE l    == loop.i + 1
           head == Number(Call(loop.place))
<1>1. loop.i < loop.n
  BY DEF Rewrite
<1>2. FilesAgree /\ Accounts(member) /\ LineByLine /\ DueIn(member)
  BY DEF Rewriting, FilesAgree
<1>3. l \in 1 .. Len(member) /\ loop.place = Here(l, 1)
  BY <1>1, <1>2, LoopPlace
<1>4. HasRead(head, l, 1, 1)
  BY <1>2, <1>3, ReadsAccount
<1>5. head.ok /\ head.place = Here(l, 2) /\ head.got[1] = l
  <2>1. head.got[1] = member[l][1]
    BY <1>4 DEF HasRead
  <2>2. member[l][1] = l
    BY <1>2, <1>3, MemberWords
  <2> QED
    BY <1>4, <2>1, <2>2 DEF HasRead
<1>6. \/ l # Head(due) /\ CopyLine(l, Here(l, 2))
      \/ l = Head(due) /\ PayLine(l, Here(l, 2))
  BY <1>5 DEF Rewrite
<1>7. /\ \A i \in 1 .. Len(member) : i # Head(due) => DuePaid[i] = member[i]
      /\ DuePaid[Head(due)] = <<Head(due), member[Head(due)][2], Password, CharacterType,
                                member[Head(due)][5] + GameExp>>
  BY <1>2, DuePaidIs
<1>8. /\ Len(member) \in Nat /\ l \in Nat \ {0}
      /\ member[l][2] \in Ids /\ member[l][3] = Password /\ member[l][4] = CharacterType
  BY <1>2, <1>3, MemberWords
<1> HIDE DEF l, head
<1>9. CASE l # Head(due) /\ CopyLine(l, Here(l, 2))
  <2>1. Here(l, 2).line = l /\ Here(l, 6) = [line |-> l + 1, col |-> 1]
    BY DEF Here
  <2>2. ~AtEnd(Here(l, 2))
    BY <1>3, <1>8, <2>1 DEF AtEnd
  <2>3. PICK text : /\ text = RestOfLine(Here(l, 2))
                    /\ loop' = Turned(Here(l, 6), l, text, Append(loop.out, <<l>> \o text))
    BY <1>9, <2>1, <2>2 DEF CopyLine
  <2>4. <<l>> \o text = DuePaid[l]
    <3>1. <<l>> \o text = member[l]
      BY <1>2, <1>3, <2>3, CopiedLine
    <3> QED
      BY <1>3, <1>7, <1>9, <3>1
  <2>5. loop' = Turned(Here(l, 6), l, text, Append(loop.out, DuePaid[l]))
    BY <2>3, <2>4
  <2> QED
    BY <2>5 DEF Turned, l
<1>10. CASE l = Head(due) /\ PayLine(l, Here(l, 2))
  <2> DEFINE id       == Word(Call(Here(l, 2)))
             password == Word(Call(Here(l, 3)))
             type     == Number(Call(Here(l, 4)))
             exp      == Number(Call(Here(l, 5)))
             line     == <<l>> \o id.got \o password.got \o <<Stored(type, 1, 0), loop.exp>>
  <2>1. HasRead(id, l, 2, 1) /\ HasRead(password, l, 3, 1) /\ HasRead(type, l, 4, 1)
        /\ HasRead(exp, l, 5, 1)
    BY <1>2, <1>3, ReadsAccount
  <2>2. /\ id.place = Here(l, 3) /\ password.place = Here(l, 4) /\ type.place = Here(l, 5)
        /\ exp.place = Here(l, 6)
    BY <2>1 DEF HasRead
  <2>3. loop' = Turned(Here(l, 6), l, loop.buf, Append(loop.out, line))
    BY <1>10, <2>2 DEF PayLine
  <2>4. /\ id.got \in Seq(Tokens) /\ Len(id.got) = 1 /\ id.got[1] = member[l][2]
        /\ password.got \in Seq(Tokens) /\ Len(password.got) = 1 /\ password.got[1] = Password
    BY <1>8, <2>1 DEF HasRead
  <2>5. Stored(type, 1, 0) = CharacterType
    BY <1>8, <2>1 DEF HasRead, Stored
  <2>6. loop.exp = member[l][5] + GameExp /\ loop.exp \in Nat
    BY <1>10, <1>2, DuePaidIs DEF Rewriting
  <2>7. line = <<l, member[l][2], Password, CharacterType, loop.exp>>
    <3>1. member[l][2] \in Tokens /\ CharacterType \in Nat /\ l \in Nat
      BY <1>8, ConstantTypes
    <3>2. <<l>> \o id.got \o password.got \o <<CharacterType, loop.exp>>
            = <<l, member[l][2], Password, CharacterType, loop.exp>>
      <4>1. PICK b, c : b = id.got /\ c = password.got
        OBVIOUS
      <4>2. PICK i, t, e : i = member[l][2] /\ t = CharacterType /\ e = loop.exp
        OBVIOUS
      <4>3. <<l>> \o b \o c \o <<t, e>> = <<l, i, Password, t, e>>
        <5>1. /\ b \in Seq(Tokens) /\ Len(b) = 1 /\ b[1] = i
              /\ c \in Seq(Tokens) /\ Len(c) = 1 /\ c[1] = Password
              /\ i \in Tokens /\ t \in Nat /\ e \in Nat /\ l \in Nat
          BY <2>4, <2>6, <3>1, <4>1, <4>2, Zenon
        <5> HIDE DEF id, password, type, exp, line
        <5> QED
          BY <5>1, PartsOfLine
      <4> QED
        BY <4>1, <4>2, <4>3
    <3> QED
      BY <2>5, <3>2
  <2>8. line = DuePaid[l]
    BY <1>7, <1>10, <2>6, <2>7
  <2>9. loop' = Turned(Here(l, 6), l, loop.buf, Append(loop.out, DuePaid[l]))
    BY <2>3, <2>8
  <2> QED
    BY <2>9 DEF Turned, l
<1> QED
  BY <1>6, <1>9, <1>10

\* The lines read so far are in the buffer of tmp.txt.
LEMMA RewriteKeeps ==
  ASSUME TypeInv, BookParts, Rewrite
  PROVE  BookParts'
<1>1. /\ at = "tmp open" /\ at' = "tmp open" /\ loop.i < loop.n
      /\ UNCHANGED <<user_table, mem_n, member, tmp, due>>
  BY DEF Rewrite
<1>2. UNCHANGED <<user_table, mem_n, member, tmp, due>> /\ loop.i < loop.n
  BY <1>1
<1>3. Rewriting
  BY <1>1 DEF BookParts
<1>4. FilesAgree /\ Accounts(member) /\ LineByLine /\ DueIn(member)
  BY <1>3 DEF Rewriting, FilesAgree
<1>5. /\ loop'.n = loop.n /\ loop'.i = loop.i + 1 /\ loop'.exp = loop.exp
      /\ loop'.place = Here(loop.i + 1, 6)
      /\ loop'.out = Append(loop.out, DuePaid[loop.i + 1])
  BY <1>3, RewriteLine
<1>6. LineByLine'
  BY <1>2, <1>4, <1>5, NextLine
<1>7. PICK i \in Nat : i = loop.i
  BY DEF TypeInv, StoreTypeOK, Turn
<1>8. PICK lines, line, out : lines = DuePaid /\ line = lines[i + 1] /\ out = loop.out
  OBVIOUS
<1>9. /\ out \in Seq(Line) /\ Len(out) = i /\ \A j \in 1 .. i : out[j] = lines[j]
  BY <1>3, <1>7, <1>8 DEF Rewriting, TypeInv, StoreTypeOK, Turn
<1>10. line \in Line
  <2>1. Accounts(lines) /\ Len(lines) = Len(member)
    BY <1>4, <1>8, DuePaidIs
  <2>2. i + 1 \in 1 .. Len(member)
    BY <1>2, <1>4, <1>7, LoopPlace
  <2> QED
    BY <1>8, <2>1, <2>2, SeqPlaces DEF Accounts
<1>11. PICK out2 : out2 = Append(out, line)
  OBVIOUS
<1>12. Len(out2) = i + 1 /\ \A j \in 1 .. i + 1 : out2[j] = lines[j]
  <2>1. /\ Len(out2) = i + 1 /\ \A j \in 1 .. i : out2[j] = out[j]
        /\ out2[i + 1] = line
    BY <1>9, <1>10, <1>11, AppendProperties
  <2>2. \A j \in 1 .. i + 1 : j \in 1 .. i \/ j = i + 1
    OBVIOUS
  <2> QED
    BY <1>8, <1>9, <2>1, <2>2
<1>13. loop'.out = out2 /\ loop'.i = i + 1 /\ DuePaid' = lines
  BY <1>2, <1>5, <1>7, <1>8, <1>11 DEF DuePaid, Paid
<1>14. Len(loop'.out) = loop'.i /\ \A j \in 1 .. loop'.i : loop'.out[j] = DuePaid'[j]
  BY <1>12, <1>13, Zenon
<1>15. FilesAgree' /\ DueIn(member)'
  BY <1>2, <1>4, SameFiles DEF DueIn
<1>16. loop'.exp = member'[Head(due')][5] + GameExp
  BY <1>2, <1>3, <1>5 DEF Rewriting
<1>17. TableIs(DuePaid)'
  <2>1. TableIs(DuePaid)
    BY <1>3 DEF Rewriting
  <2> QED
    BY <1>2, <2>1 DEF TableIs, InTable, DuePaid, Paid
<1>18. Rewriting'
  BY <1>6, <1>14, <1>15, <1>16, <1>17 DEF Rewriting
<1>19. member # <<>>
  <2>1. Head(due) \in 1 .. Len(member)
    BY <1>4, DuePaidIs
  <2> QED
    BY <2>1, EmptySeq
<1> QED
  BY <1>1, <1>18, <1>19 DEF BookParts

\* tmp.txt has the accounts, with the one that is paid.
LEMMA CloseTmpKeeps ==
  ASSUME TypeInv, BookParts, CloseTmp
  PROVE  BookParts'
<1>1. /\ at = "tmp open" /\ at' = "tmp closed" /\ loop.i >= loop.n /\ tmp' = loop.out
      /\ UNCHANGED <<user_table, mem_n, member, due>>
  BY DEF CloseTmp
<1>2. /\ loop.i >= loop.n /\ tmp' = loop.out
      /\ UNCHANGED <<user_table, mem_n, member, due>>
  BY <1>1
<1>3. Rewriting
  BY <1>1 DEF BookParts
<1>4. FilesAgree /\ Accounts(member) /\ LineByLine /\ DueIn(member)
  BY <1>3 DEF Rewriting, FilesAgree
<1>5. loop.i = Len(member)
  BY <1>2, <1>4, LoopPlace
<1>6. PICK lines, out, n : lines = DuePaid /\ out = loop.out /\ n = Len(member)
  OBVIOUS
<1>7. out \in Seq(Line) /\ Len(out) = n /\ \A j \in 1 .. n : out[j] = lines[j]
  BY <1>3, <1>5, <1>6 DEF Rewriting, TypeInv, StoreTypeOK, Turn
<1>8. lines \in Seq(Line) /\ Len(lines) = n
  BY <1>4, <1>6, DuePaidIs DEF Accounts
<1>9. out = lines
  BY <1>7, <1>8, SeqEqual
<1>10. tmp' = DuePaid' /\ tmp' = DuePaid
  BY <1>2, <1>6, <1>9 DEF DuePaid, Paid
<1>11. FilesAgree' /\ DueIn(member)'
  BY <1>2, <1>4, SameFiles DEF DueIn
<1>12. TableIs(tmp)'
  <2>1. TableIs(DuePaid)
    BY <1>3 DEF Rewriting
  <2> QED
    BY <1>2, <1>10, <2>1 DEF TableIs, InTable
<1>13. Rewritten'
  BY <1>10, <1>11, <1>12 DEF Rewritten
<1>14. member # <<>>
  <2>1. Head(due) \in 1 .. Len(member)
    BY <1>4, DuePaidIs
  <2> QED
    BY <2>1, EmptySeq
<1> QED
  BY <1>1, <1>13, <1>14 DEF BookParts

\* What OpenMember finds.
LEMMA RewrittenIs ==
  ASSUME Rewritten
  PROVE  /\ Accounts(member) /\ member # <<>> /\ Accounts(tmp) /\ tmp # <<>>
         /\ Len(tmp) = Len(member) /\ mem_n = Len(tmp)
         /\ Head(due) \in 1 .. Len(member) /\ tmp = DuePaid
<1>1. FilesAgree /\ Accounts(member) /\ DueIn(member) /\ tmp = DuePaid
  BY DEF Rewritten, FilesAgree
<1>2. /\ Head(due) \in 1 .. Len(member) /\ Accounts(DuePaid) /\ Len(DuePaid) = Len(member)
  BY <1>1, DuePaidIs
<1>3. PICK n : n = Len(member)
  OBVIOUS
<1>4. n # 0
  <2>1. n \in Nat
    BY <1>1, <1>3, LenProperties DEF Accounts
  <2> QED
    BY <1>2, <1>3, <2>1
<1>5. member # <<>> /\ DuePaid # <<>>
  BY <1>2, <1>3, <1>4, EmptySeq
<1> QED
  BY <1>1, <1>2, <1>5 DEF FilesAgree

\* Member.txt is emptied when tmp.txt has them all.
LEMMA OpenMemberKeeps ==
  ASSUME TypeInv, BookParts, OpenMember
  PROVE  BookParts'
<1>1. /\ at = "tmp closed" /\ at' = "member open" /\ member' = <<>>
      /\ UNCHANGED <<user_table, mem_n, tmp, due>>
  BY DEF OpenMember
<1>2. member' = <<>> /\ UNCHANGED <<user_table, mem_n, tmp, due>>
  BY <1>1
<1>3. Rewritten
  BY <1>1 DEF BookParts
<1>4. /\ Accounts(tmp) /\ tmp # <<>> /\ Len(tmp) = Len(member) /\ mem_n = Len(tmp)
      /\ DueIn(member) /\ TableIs(tmp)
  BY <1>3, RewrittenIs DEF Rewritten
<1>5. Accounts(tmp)'
  BY <1>2, <1>4 DEF Accounts, IsAccount
<1>6. TableIs(tmp)'
  BY <1>2, <1>4 DEF TableIs, InTable
<1>7. DueIn(tmp)'
  BY <1>2, <1>4 DEF DueIn
<1>8. CopyingBack'
  BY <1>2, <1>4, <1>5, <1>6, <1>7 DEF CopyingBack
<1> QED
  BY <1>1, <1>8 DEF BookParts

\* Member.txt has them again, and the next slot is due.
LEMMA CopyBackKeeps ==
  ASSUME TypeInv, BookParts, CopyBack
  PROVE  BookParts'
<1>1. /\ at = "member open" /\ at' = (IF due' = <<>> THEN "loop" ELSE "pay")
      /\ member' = tmp /\ due' = Tail(due)
      /\ UNCHANGED <<user_table, mem_n, tmp>>
  BY DEF CopyBack
<1>2. member' = tmp /\ due' = Tail(due) /\ UNCHANGED <<user_table, mem_n, tmp>>
  BY <1>1
<1>3. CopyingBack
  BY <1>1 DEF BookParts
<1>4. tmp # <<>> /\ Accounts(tmp) /\ mem_n = Len(tmp) /\ DueIn(tmp) /\ TableIs(tmp)
  BY <1>3 DEF CopyingBack
<1>5. Tail(due) \in Seq(1 .. Len(tmp))
  BY <1>4, HeadTailProperties DEF DueIn
<1>6. due' # <<>> => DueIn(member)'
  BY <1>2, <1>5 DEF DueIn
<1>7. FilesAgree'
  <2>1. Accounts(member)'
    BY <1>2, <1>4 DEF Accounts, IsAccount
  <2> QED
    BY <1>2, <1>4, <2>1 DEF FilesAgree
<1>8. TableIs(member)'
  BY <1>2, <1>4 DEF TableIs, InTable
<1>9. member' # <<>>
  BY <1>2, <1>4
<1> QED
  BY <1>1, <1>6, <1>7, <1>8, <1>9 DEF BookParts

\* Where the server can be.
Places == Reading \cup Paying \cup Windows \cup {"loop", "down"}

\* It is always at one of them.
LEMMA PlacesHold == Spec => [](at \in Places)
<1>1. Init => at \in Places
  BY DEF Init, Places
<1>2. at \in Places /\ [Next]_vars => (at \in Places)'
  <2> SUFFICES ASSUME at \in Places, [Next]_vars PROVE at' \in Places
    OBVIOUS
  <2>1. CASE UNCHANGED vars
    BY <2>1 DEF vars
  <2>2. CASE Next
    BY <2>2 DEF Next, Places, Reading, Paying, Windows, RegMem, LookUp, CreateMem, CloseCount,
       CloseMember, GameOver, UpdateExp, Rewrite, CloseTmp, OpenMember, CopyBack, Crash,
       load_user_data, LoadUser, Loaded
  <2> QED
    BY <2>1, <2>2
<1> QED
  BY <1>1, <1>2, PTL DEF Spec

\* Out of Windows the server dies with its files whole.
LEMMA WholeFiles ==
  ASSUME TypeInv, BookParts, at \in Places \ Windows
  PROVE  FilesAgree /\ (member = <<>> => tmp = <<>>)
<1>1. at \in {"loop", "look up", "pay", "tmp open", "tmp closed", "down", "load"}
  BY DEF Places, Windows, Reading, Paying
<1> QED
  BY <1>1 DEF BookParts, Rewriting, Rewritten, Loading

\* After such a crash load_user_data finds them so.
LEMMA CrashKeeps ==
  ASSUME TypeInv, BookParts, at \in Places, Crash, torn' = {}
  PROVE  BookParts'
<1>1. /\ at' = "down" /\ user_table' = <<>>
      /\ UNCHANGED <<mem_n, member, tmp>> /\ at \notin Windows
  BY DEF Crash
<1>2. FilesAgree /\ (member = <<>> => tmp = <<>>)
  BY <1>1, WholeFiles
<1>3. FilesAgree'
  BY <1>1, <1>2, SameFiles
<1> QED
  BY <1>1, <1>2, <1>3 DEF BookParts

\* load_user_data finds a table without users.
LEMMA LoadBegins ==
  ASSUME TypeInv, BookParts, load_user_data
  PROVE  BookParts'
<1>1. /\ at = "down" /\ at' = "load"
      /\ UNCHANGED <<user_table, mem_n, member, tmp>>
  BY DEF load_user_data
<1>2. FilesAgree /\ user_table = <<>> /\ (member = <<>> => tmp = <<>>)
  BY <1>1 DEF BookParts
<1>3. UNCHANGED <<user_table, mem_n, member, tmp>>
  BY <1>1
<1>4. LineByLine' /\ loop'.i = 0
  BY <1>2, <1>3, LoopBegins DEF load_user_data
<1>5. FilesAgree'
  BY <1>2, <1>3, SameFiles
<1>6. Loading'
  <2>1. 0 .. loop'.i - 1 = {} /\ DOMAIN user_table' = {}
    BY <1>2, <1>3, <1>4
  <2> QED
    BY <1>4, <1>5, <2>1 DEF Loading
<1> QED
  BY <1>1, <1>2, <1>6 DEF BookParts

\* A record is filled with the words of its line.
LEMMA LoadedLine ==
  ASSUME TypeInv, Loading, LoadUser
  PROVE  /\ loop'.n = loop.n /\ loop'.i = loop.i + 1 /\ loop'.place = Here(loop.i + 1, 6)
         /\ \E user : /\ InTable(user, member) /\ user.pk = loop.i + 1
                      /\ user_table' = Put(loop.i, user)
<1> DEFINE l    == loop.i + 1
           call == Number(Number(Word(Word(Number(Call(loop.place))))))
           user == [pk  |-> Stored(call, 1, 0),
                    id  |-> IF Len(call.got) < 2 THEN <<>> ELSE <<call.got[2]>>,
                    exp |-> Stored(call, 5, 0)]
<1>1. /\ loop.i < loop.n
      /\ user_table' = Put(loop.i, user)
      /\ loop' = Turned(call.place, loop.pk, loop.buf, loop.out)
  BY DEF LoadUser
<1>2. FilesAgree /\ Accounts(member) /\ LineByLine
  BY DEF Loading, FilesAgree
<1>3. l \in 1 .. Len(member) /\ loop.place = Here(l, 1)
  BY <1>1, <1>2, LoopPlace
<1>4. HasRead(call, l, 1, 5)
  BY <1>2, <1>3, ReadsAccount
<1>5. member[l][1] = l
  BY <1>2, <1>3, MemberWords
<1> HIDE DEF l
<1>6. PICK got : got = call.got
  OBVIOUS
<1>7. /\ Len(got) = 5 /\ \A j \in 1 .. 5 : got[j] = member[l][1 + j - 1]
      /\ call.place = Here(l, 6)
  BY <1>4, <1>6 DEF HasRead
<1>8. got[1] = l /\ got[2] = member[l][2] /\ got[5] = member[l][5]
  BY <1>5, <1>7
<1>9. user = [pk |-> got[1], id |-> <<got[2]>>, exp |-> got[5]]
  BY <1>6, <1>7 DEF Stored
<1>10. user.pk = l /\ user.id = <<member[l][2]>> /\ user.exp = member[l][5]
  BY <1>8, <1>9
<1>11. InTable(user, member)
  BY <1>3, <1>10 DEF InTable
<1>12. loop'.n = loop.n /\ loop'.i = l /\ loop'.place = Here(l, 6)
  BY <1>1, <1>7 DEF Turned, l
<1> HIDE DEF user
<1> QED
  BY <1>1, <1>10, <1>11, <1>12 DEF l

\* A turn of load_user_data adds the record of its line.
LEMMA LoadKeeps ==
  ASSUME TypeInv, BookParts, LoadUser
  PROVE  BookParts'
<1>1. /\ at = "load" /\ at' = "load" /\ loop.i < loop.n
      /\ UNCHANGED <<mem_n, member, tmp>>
  BY DEF LoadUser
<1>2. UNCHANGED <<mem_n, member, tmp>> /\ loop.i < loop.n
  BY <1>1
<1>3. Loading /\ (member = <<>> => tmp = <<>>)
  BY <1>1 DEF BookParts
<1>4. FilesAgree /\ LineByLine
  BY <1>3 DEF Loading
<1>5. PICK i \in Nat : i = loop.i
  BY DEF TypeInv, StoreTypeOK, Turn
<1>6. PICK user : /\ InTable(user, member) /\ user.pk = i + 1
                  /\ user_table' = Put(i, user)
  BY <1>3, <1>5, LoadedLine
<1>7. loop'.n = loop.n /\ loop'.i = loop.i + 1 /\ loop'.place = Here(loop.i + 1, 6)
  BY <1>3, LoadedLine
<1>8. LineByLine'
  BY <1>2, <1>4, <1>7, NextLine
<1>9. FilesAgree'
  BY <1>2, <1>4, SameFiles
<1>10. /\ DOMAIN user_table = 0 .. i - 1
       /\ \A k \in 0 .. i - 1 : InTable(user_table[k], member) /\ user_table[k].pk = k + 1
  BY <1>3, <1>5 DEF Loading
<1>11. /\ DOMAIN user_table' = 0 .. i
       /\ \A k \in 0 .. i - 1 : user_table'[k] = user_table[k]
       /\ user_table'[i] = user
  BY <1>6, <1>10 DEF Put
<1>12. \A k \in 0 .. i : InTable(user_table'[k], member) /\ user_table'[k].pk = k + 1
  <2>1. \A k \in 0 .. i : k \in 0 .. i - 1 \/ k = i
    OBVIOUS
  <2> QED
    BY <1>6, <1>10, <1>11, <2>1
<1>13. loop'.i - 1 = i
  BY <1>5, <1>7
<1>14. \A k \in 0 .. i : InTable(user_table[k], member)'
         /\ user_table'[k].pk = k + 1
  BY <1>2, <1>12 DEF InTable
<1>15. Loading'
  BY <1>8, <1>9, <1>11, <1>13, <1>14 DEF Loading
<1> QED
  BY <1>1, <1>2, <1>3, <1>15 DEF BookParts

\* With the last line the table is full.
LEMMA LoadEnds ==
  ASSUME TypeInv, BookParts, Loaded
  PROVE  BookParts'
<1>1. /\ at = "load" /\ at' = "loop" /\ loop.i >= loop.n
      /\ UNCHANGED <<user_table, mem_n, member, tmp>>
  BY DEF Loaded
<1>2. UNCHANGED <<user_table, mem_n, member, tmp>> /\ loop.i >= loop.n
  BY <1>1
<1>3. Loading /\ (member = <<>> => tmp = <<>>)
  BY <1>1 DEF BookParts
<1>4. FilesAgree /\ LineByLine
  BY <1>3 DEF Loading
<1>5. PICK n \in Nat : n = loop.i /\ n = Len(member)
  BY <1>2, <1>4, LoopPlace
<1>6. /\ DOMAIN user_table = 0 .. n - 1
      /\ \A k \in 0 .. n - 1 : InTable(user_table[k], member) /\ user_table[k].pk = k + 1
  BY <1>3, <1>5 DEF Loading
<1>7. TableIs(member)
  <2>1. \A k \in DOMAIN user_table : InTable(user_table[k], member) /\ k <= user_table[k].pk
    BY <1>6
  <2>2. \A i \in 1 .. n : \E k \in DOMAIN user_table : user_table[k].pk = i
    <3> SUFFICES ASSUME NEW i \in 1 .. n PROVE \E k \in DOMAIN user_table : user_table[k].pk = i
      OBVIOUS
    <3>1. i - 1 \in DOMAIN user_table /\ user_table[i - 1].pk = i
      BY <1>6
    <3> QED
      BY <3>1
  <2>3. \A j, k \in DOMAIN user_table : j # k => user_table[j].pk # user_table[k].pk
    BY <1>6
  <2> QED
    BY <1>5, <2>1, <2>2, <2>3 DEF TableIs
<1>8. FilesAgree' /\ TableIs(member)'
  BY <1>2, <1>4, <1>7, SameFiles, SameTable
<1> QED
  BY <1>1, <1>2, <1>3, <1>8 DEF BookParts

\* The first users are those of the first lines.
LEMMA FirstIs ==
  ASSUME NEW i \in 1 .. Len(Members)
  PROVE  /\ FirstUsers[i].pk = i /\ FirstUsers[i].id = <<Members[i]>> /\ FirstUsers[i].exp = 0
         /\ Members[i] \in Ids
         /\ FirstLines[i] = <<i, Members[i], Password, CharacterType, 0>>
<1>1. /\ Len(Members) \in Nat /\ DOMAIN Members = 1 .. Len(Members)
      /\ Members[i] \in Ids
  BY StoreAssumption, SeqPlaces
<1>2. FirstUsers[i] = [pk |-> i, id |-> <<Members[i]>>, exp |-> 0]
  BY <1>1 DEF FirstUsers
<1>3. FirstUsers[i].pk = i /\ FirstUsers[i].id = <<Members[i]>> /\ FirstUsers[i].exp = 0
  BY <1>2
<1>4. FirstLines[i] = AccountLine(FirstUsers[i])
  BY <1>1 DEF FirstLines
<1>5. i \in Nat /\ 0 \in Nat /\ Members[i] \in Tokens
  <2>1. Members[i] \in Tokens
    BY <1>1, ConstantTypes, Zenon
  <2> QED
    BY <1>1, <2>1
<1>6. AccountLine(FirstUsers[i]) = <<i, Members[i], Password, CharacterType, 0>>
  BY <1>3, <1>5, AccountLineIs
<1> QED
  BY <1>1, <1>3, <1>4, <1>6

\* The first lines are accounts, and the table has them.
LEMMA InitBook == Init => BookParts
<1> SUFFICES ASSUME Init PROVE BookParts
  OBVIOUS
<1>1. PICK n \in Nat : n = Len(Members)
  BY StoreAssumption, SeqPlaces
<1>2. DOMAIN Members = 1 .. n
  BY <1>1, StoreAssumption, SeqPlaces
<1>3. /\ at = "loop" /\ member = FirstLines /\ mem_n = n /\ tmp = <<>>
      /\ user_table = [k \in 0 .. n - 1 |-> FirstUsers[k + 1]]
  BY <1>1 DEF Init
<1>4. PICK lines : lines = FirstLines
  OBVIOUS
<1>5. lines \in Seq(Line)
  BY <1>3, <1>4, InitTypes DEF TypeInv, StoreTypeOK
<1>6. Len(lines) = n
  <2>1. DOMAIN lines = 1 .. n
    BY <1>2, <1>4 DEF FirstLines
  <2>2. DOMAIN lines = 1 .. Len(lines) /\ Len(lines) \in Nat
    BY <1>5, SeqPlaces
  <2> QED
    BY <1>1, <2>1, <2>2
<1>7. \A i \in 1 .. n : /\ Members[i] \in Ids
                        /\ lines[i] = <<i, Members[i], Password, CharacterType, 0>>
  BY <1>1, <1>4, FirstIs
<1>8. \A i \in 1 .. n : lines[i][2] = Members[i] /\ lines[i][5] = 0 /\ IsAccount(i, lines[i])
  BY <1>7 DEF IsAccount
<1>9. \A i, j \in 1 .. n : i # j => lines[i][2] # lines[j][2]
  <2>1. \A i, j \in 1 .. n : i # j => Members[i] # Members[j]
    BY <1>2, StoreAssumption
  <2> QED
    BY <1>8, <2>1
<1>10. Accounts(lines)
  BY <1>5, <1>6, <1>8, <1>9, Zenon DEF Accounts
<1>11. \A k \in 0 .. n - 1 :
         InTable(user_table[k], lines) /\ user_table[k].pk = k + 1
  <2> SUFFICES ASSUME NEW k \in 0 .. n - 1
               PROVE  InTable(user_table[k], lines) /\ user_table[k].pk = k + 1
    OBVIOUS
  <2>1. PICK i \in 1 .. n : i = k + 1
    BY <1>1
  <2>2. user_table[k] = FirstUsers[i]
    BY <1>3, <2>1
  <2>3. user_table[k].pk = i /\ user_table[k].id = <<Members[i]>> /\ user_table[k].exp = 0
    BY <1>1, <2>2, FirstIs
  <2> QED
    BY <1>6, <1>8, <2>1, <2>3 DEF InTable
<1>12. TableIs(lines)
  <2>1. DOMAIN user_table = 0 .. n - 1
    BY <1>3
  <2>2. \A k \in DOMAIN user_table : InTable(user_table[k], lines) /\ k <= user_table[k].pk
    BY <1>11, <2>1
  <2>3. \A i \in 1 .. n : \E k \in DOMAIN user_table : user_table[k].pk = i
    <3> SUFFICES ASSUME NEW i \in 1 .. n PROVE \E k \in DOMAIN user_table : user_table[k].pk = i
      OBVIOUS
    <3>1. i - 1 \in DOMAIN user_table /\ user_table[i - 1].pk = i
      BY <1>11, <2>1
    <3> QED
      BY <3>1
  <2>4. \A j, k \in DOMAIN user_table : j # k => user_table[j].pk # user_table[k].pk
    BY <1>11, <2>1
  <2> QED
    BY <1>6, <2>2, <2>3, <2>4 DEF TableIs
<1>13. FilesAgree /\ TableIs(member)
  BY <1>3, <1>4, <1>6, <1>10, <1>12 DEF FilesAgree
<1> QED
  BY <1>3, <1>13 DEF BookParts

\* No step out of Windows breaks what is said of the accounts.
LEMMA StepBook == TypeInv /\ at \in Places /\ BookInv /\ [Next]_vars => BookInv'
<1>0. SUFFICES ASSUME TypeInv, at \in Places, BookInv, [Next]_vars, torn' = {}
               PROVE  BookParts'
  BY DEF BookInv
<1>1. torn = {}
  BY <1>0 DEF Next, vars, RegMem, LookUp, CreateMem, CloseCount, CloseMember, GameOver, UpdateExp,
         Rewrite, CloseTmp, OpenMember, CopyBack, Crash, load_user_data, LoadUser, Loaded
<1>2. TypeInv /\ BookParts
  BY <1>0, <1>1 DEF BookInv
<1>3. CASE UNCHANGED vars
  <2>1. UNCHANGED <<user_table, mem_n, member, tmp, at, loop, entry, due>>
    BY <1>3 DEF vars
  <2>2. /\ FilesAgree => FilesAgree'
        /\ TableIs(member) => TableIs(member)'
        /\ Accounts(member) => Accounts(member)'
    BY <2>1, SameFiles, SameTable
  <2>3. /\ LineByLine => LineByLine'
        /\ DueIn(member) => DueIn(member)'
        /\ DueIn(tmp) => DueIn(tmp)'
    BY <2>1 DEF LineByLine, DueIn
  <2>4. DuePaid' = DuePaid
    BY <2>1 DEF DuePaid, Paid
  <2>5. /\ TableIs(DuePaid) => TableIs(DuePaid)'
        /\ TableIs(tmp) => TableIs(tmp)'
        /\ Accounts(tmp) => Accounts(tmp)'
    BY <2>1, <2>4 DEF TableIs, InTable, Accounts, IsAccount
  <2>6. /\ LookingUp => LookingUp'
        /\ Adding => Adding'
    BY <2>1, <2>2, <2>3 DEF LookingUp, Adding
  <2>7. Rewriting => Rewriting'
    BY <2>1, <2>2, <2>3, <2>4, <2>5 DEF Rewriting
  <2>8. Rewritten => Rewritten'
    BY <2>1, <2>2, <2>3, <2>4, <2>5 DEF Rewritten
  <2>9. CopyingBack => CopyingBack'
    BY <2>1, <2>3, <2>5 DEF CopyingBack
  <2>10. Loading => Loading'
    BY <2>1, <2>2, <2>3 DEF Loading, InTable
  <2> QED
    BY <1>2, <2>1, <2>2, <2>3, <2>6, <2>7, <2>8, <2>9, <2>10 DEF BookParts
<1>4. CASE Crash
  BY <1>0, <1>2, <1>4, CrashKeeps
<1>5. CASE Next /\ ~Crash
  BY <1>2, <1>5, RegMemKeeps, LookUpKeeps, CreateMemKeeps, CloseCountKeeps, CloseMemberKeeps,
     GameOverKeeps, UpdateExpKeeps, RewriteKeeps, CloseTmpKeeps, OpenMemberKeeps, CopyBackKeeps,
     LoadBegins, LoadKeeps, LoadEnds DEF Next
<1> QED
  BY <1>0, <1>3, <1>4, <1>5

\* It always holds.
LEMMA BooksHold == Spec => []BookInv
<1>1. Init => BookInv
  BY InitBook DEF BookInv
<1> QED
  BY <1>1, StepBook, TypesHold, PlacesHold, PTL DEF Spec

-----------------------------------------------------------------------------
\* Memory and files between handlers.

\* What the invariant says of the table at "loop".
LEMMA TableOnFile ==
  ASSUME FilesAgree, TableIs(member)
  PROVE  /\ mem_n = Len(member)
         /\ {AccountLine(user_table[k]) : k \in DOMAIN user_table}
              = {member[i] : i \in DOMAIN member}
         /\ Distinct(user_table)
<1>1. Accounts(member) /\ mem_n = Len(member)
  BY DEF FilesAgree
<1>2. DOMAIN member = 1 .. Len(member)
  BY <1>1, SeqPlaces DEF Accounts
<1>3. \A k \in DOMAIN user_table : /\ user_table[k].pk \in 1 .. Len(member)
                                   /\ AccountLine(user_table[k]) = member[user_table[k].pk]
                                   /\ user_table[k].id = <<member[user_table[k].pk][2]>>
  <2> SUFFICES ASSUME NEW k \in DOMAIN user_table
               PROVE  /\ user_table[k].pk \in 1 .. Len(member)
                      /\ AccountLine(user_table[k]) = member[user_table[k].pk]
                      /\ user_table[k].id = <<member[user_table[k].pk][2]>>
    OBVIOUS
  <2>1. PICK pk \in 1 .. Len(member) :
          /\ user_table[k].pk = pk
          /\ user_table[k].id = <<member[pk][2]>>
          /\ user_table[k].exp = member[pk][5]
    BY DEF TableIs, InTable
  <2>2. PICK id, exp : id = member[pk][2] /\ exp = member[pk][5]
    OBVIOUS
  <2>3. /\ member[pk] = <<pk, id, Password, CharacterType, exp>>
        /\ id \in Tokens /\ exp \in Nat /\ pk \in Nat
    BY <1>1, <2>2, MemberWords, ConstantTypes
  <2>4. AccountLine(user_table[k]) = <<pk, id, Password, CharacterType, exp>>
    BY <2>1, <2>2, <2>3, AccountLineIs
  <2> QED
    BY <2>1, <2>3, <2>4
<1>4. {AccountLine(user_table[k]) : k \in DOMAIN user_table} = {member[i] : i \in DOMAIN member}
  <2>1. \A i \in 1 .. Len(member) : \E k \in DOMAIN user_table : user_table[k].pk = i
    BY DEF TableIs
  <2> QED
    BY <1>2, <1>3, <2>1
<1>5. Distinct(user_table)
  <2> SUFFICES ASSUME NEW j \in DOMAIN user_table, NEW k \in DOMAIN user_table, j # k
               PROVE  /\ user_table[j].pk # user_table[k].pk
                      /\ user_table[j].id # user_table[k].id
    BY DEF Distinct
  <2>1. user_table[j].pk # user_table[k].pk
    BY DEF TableIs
  <2>2. PICK a \in 1 .. Len(member), b \in 1 .. Len(member) :
          /\ user_table[j].pk = a /\ user_table[j].id = <<member[a][2]>>
          /\ user_table[k].pk = b /\ user_table[k].id = <<member[b][2]>>
    BY <1>3
  <2>3. member[a][2] # member[b][2]
    BY <1>1, <2>1, <2>2 DEF Accounts
  <2> QED
    BY <2>1, <2>2, <2>3
<1> QED
  BY <1>1, <1>4, <1>5

\* Between two handlers memory has the accounts of Member.txt, each once and under its
\* pk, and MemN.txt counts them, through every crash that does not tear the files.
THEOREM MemoryIsOnFile == Spec => []TableIsOnFile
<1>1. BookInv => TableIsOnFile
  <2> SUFFICES ASSUME BookInv, at = "loop", torn = {}
               PROVE  /\ mem_n = Len(member)
                      /\ {AccountLine(user_table[k]) : k \in DOMAIN user_table}
                           = {member[i] : i \in DOMAIN member}
                      /\ Distinct(user_table)
    BY DEF TableIsOnFile
  <2>1. FilesAgree /\ TableIs(member)
    BY DEF BookInv, BookParts
  <2> QED
    BY <2>1, TableOnFile
<1> QED
  BY <1>1, BooksHold, PTL

-----------------------------------------------------------------------------
\* The files are the account book.

\* A sign-up enters the account whole.
LEMMA CloseMemberRegisters ==
  ASSUME TypeInv, BookParts, torn = {}, CloseMember
  PROVE  Book!BookNext
<1>1. PICK id \in Ids :
        /\ \A j \in 1 .. Len(member) : member[j][2] # id
        /\ member' = Append(member, <<Len(member) + 1, id, Password, CharacterType, 0>>)
  BY CloseMemberKeeps
<1>2. at = "count closed" /\ UNCHANGED <<tmp, torn>>
  BY DEF CloseMember
<1>3. member \in Seq(Line) /\ (member = <<>> => tmp = <<>>)
  BY <1>2 DEF BookParts, TypeInv, StoreTypeOK
<1>4. OnDisk = member
  BY <1>3 DEF OnDisk
<1>5. DOMAIN member = 1 .. Len(member)
  BY <1>3, SeqPlaces
<1>6. member' # <<>>
  <2>1. member' \in Seq(Line) /\ Len(member') = Len(member) + 1 /\ Len(member) \in Nat
    <3>1. AccountLine(entry) \in Line /\ member' = Append(member, AccountLine(entry))
      BY AccountLineType DEF CloseMember, TypeInv, StoreTypeOK
    <3> QED
      BY <1>3, <3>1, AppendProperties, LenProperties
  <2> QED
    BY <2>1, EmptySeq
<1>7. OnDisk' = member'
  BY <1>6 DEF OnDisk
<1>8. /\ \A i \in DOMAIN OnDisk : OnDisk[i][2] # id
      /\ OnDisk' = Append(OnDisk, <<Len(OnDisk) + 1, id, Password, CharacterType, 0>>)
  BY <1>1, <1>4, <1>5, <1>7
<1>9. Book!Register(id)
  BY <1>2, <1>8 DEF Book!Register
<1> QED
  BY <1>9 DEF Book!BookNext

\* The exp is there when Member.txt is emptied and tmp.txt takes its place.
LEMMA OpenMemberPays ==
  ASSUME TypeInv, BookParts, torn = {}, OpenMember
  PROVE  Book!BookNext
<1>1. /\ at = "tmp closed" /\ member' = <<>> /\ UNCHANGED <<tmp, torn>>
  BY DEF OpenMember
<1>2. Rewritten
  BY <1>1 DEF BookParts
<1> DEFINE p == Head(due)
<1>3. /\ Accounts(member) /\ member # <<>> /\ tmp = DuePaid /\ p \in 1 .. Len(member)
  BY <1>2, RewrittenIs
<1>4. OnDisk = member /\ OnDisk' = DuePaid
  BY <1>1, <1>3 DEF OnDisk
<1>5. DOMAIN member = 1 .. Len(member)
  BY <1>3, SeqPlaces DEF Accounts
<1>6. PICK line, exp : line = member[p] /\ exp = line[5] + GameExp
  OBVIOUS
<1>7. line = <<p, line[2], Password, CharacterType, line[5]>>
  BY <1>3, <1>6, MemberWords
<1>8. [line EXCEPT ![5] = exp] = <<p, line[2], Password, CharacterType, exp>>
  BY <1>7
<1>9. DuePaid = [i \in 1 .. Len(member) |->
                   IF i = p THEN <<p, member[i][2], Password, CharacterType, exp>>
                            ELSE member[i]]
  BY <1>6 DEF DuePaid, Paid
<1>10. DuePaid = [member EXCEPT ![p] = [line EXCEPT ![5] = exp]]
  BY <1>3, <1>5, <1>6, <1>8, <1>9
<1>11. OnDisk' = [OnDisk EXCEPT ![p][5] = @ + GameExp]
  BY <1>4, <1>6, <1>10
<1>12. Book!Pay(p) /\ p \in DOMAIN OnDisk
  BY <1>1, <1>3, <1>4, <1>5, <1>11 DEF Book!Pay
<1> QED
  BY <1>12 DEF Book!BookNext

\* All else leaves the accounts as they are.
LEMMA OthersStutter ==
  ASSUME TypeInv, BookParts, torn = {}, [Next]_vars, ~CloseMember, ~OpenMember, ~Crash
  PROVE  OnDisk' = OnDisk /\ torn' = torn
<1>1. CASE UpdateExp \/ CloseTmp
  <2>1. at \in {"pay", "tmp open"} /\ UNCHANGED <<member, torn>>
    BY <1>1 DEF UpdateExp, CloseTmp
  <2>2. Accounts(member) /\ DueIn(member)
    BY <2>1 DEF BookParts, Rewriting, FilesAgree
  <2>3. Head(due) \in 1 .. Len(member)
    BY <2>2, DuePaidIs
  <2>4. member # <<>>
    BY <2>3, EmptySeq
  <2> QED
    BY <2>1, <2>4 DEF OnDisk
<1>2. CASE CopyBack
  <2>1. at = "member open" /\ member' = tmp /\ UNCHANGED <<tmp, torn>>
    BY <1>2 DEF CopyBack
  <2>2. member = <<>> /\ tmp # <<>>
    BY <2>1 DEF BookParts, CopyingBack
  <2> QED
    BY <2>1, <2>2 DEF OnDisk
<1>3. CASE UNCHANGED <<member, tmp, torn>>
  BY <1>3 DEF OnDisk
<1>4. \/ UpdateExp \/ CloseTmp \/ CopyBack
      \/ UNCHANGED <<member, tmp, torn>>
  BY DEF Next, vars, RegMem, LookUp, CreateMem, CloseCount, GameOver, Rewrite, load_user_data,
     LoadUser, Loaded
<1> QED
  BY <1>1, <1>2, <1>3, <1>4

\* Every step is one of the book, or leaves it alone.
LEMMA StepImplements ==
  TypeInv /\ BookInv /\ [Next]_vars => [Book!BookNext]_<<OnDisk, torn # {}>>
<1>0. SUFFICES ASSUME TypeInv, BookInv, [Next]_vars
               PROVE  Book!BookNext \/ UNCHANGED <<OnDisk, torn # {}>>
  OBVIOUS
<1>1. CASE torn # {}
  <2>1. torn \subseteq torn'
    BY <1>0 DEF Next, vars, RegMem, LookUp, CreateMem, CloseCount, CloseMember, GameOver,
       UpdateExp, Rewrite, CloseTmp, OpenMember, CopyBack, Crash, load_user_data, LoadUser, Loaded
  <2>2. torn' # {}
    BY <1>1, <2>1
  <2> QED
    BY <1>1, <2>2 DEF Book!BookNext, Book!Decay
<1>2. CASE torn = {}
  <2>1. BookParts
    BY <1>0, <1>2 DEF BookInv
  <2>2. CASE Crash
    <3>1. OnDisk' = OnDisk
      BY <2>2 DEF Crash, OnDisk
    <3>2. CASE torn' = {}
      BY <1>2, <3>1, <3>2
    <3>3. CASE torn' # {}
      BY <1>2, <3>1, <3>3 DEF Book!BookNext, Book!Damage
    <3> QED
      BY <3>2, <3>3
  <2>3. CASE CloseMember
    BY <1>0, <1>2, <2>1, <2>3, CloseMemberRegisters
  <2>4. CASE OpenMember
    BY <1>0, <1>2, <2>1, <2>4, OpenMemberPays
  <2>5. CASE ~CloseMember /\ ~OpenMember /\ ~Crash
    <3>1. OnDisk' = OnDisk /\ torn' = torn
      BY <1>0, <1>2, <2>1, <2>5, OthersStutter
    <3> QED
      BY <3>1
  <2> QED
    BY <2>2, <2>3, <2>4, <2>5
<1> QED
  BY <1>1, <1>2

\* Until a crash tears them the files are the account book: they change at once and by
\* whole accounts, with each sign-up and each slot that is paid, and not otherwise.
THEOREM FilesImplementTheBook == Spec => FilesKeepTheBook
<1>1. Init => Book!BookInit
  <2> SUFFICES ASSUME Init PROVE OnDisk = FirstLines /\ (torn # {}) = FALSE
    BY DEF Book!BookInit
  <2> QED
    BY DEF Init, OnDisk
<1> QED
  BY <1>1, StepImplements, TypesHold, BooksHold, PTL DEF Spec, FilesKeepTheBook, Book!BookSpec
==============================================================================
