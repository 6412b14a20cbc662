----------------------------- MODULE MemberStore -----------------------------
(***************************************************************************)
(* The accounts of the main server in memory and on disk: RegMem and       *)
(* UpdateExp of MemLog.c and load_user_data, one file operation and one    *)
(* turn of a reading loop at a time.  The server may die between any two,  *)
(* and what it does after that it does with the files as it finds them.    *)
(*                                                                         *)
(* The files are smaller than a buffer of stdio, so what is printed to a   *)
(* file reaches it when the file is closed and is lost if the server dies  *)
(* before; fopen with "w" empties it at once.                              *)
(*                                                                         *)
(* A file is a sequence of lines and a line a sequence of words; fscanf    *)
(* knows words and numbers, but lines only where the code says [^\n].      *)
(***************************************************************************)
EXTENDS Integers, Sequences, FiniteSets

CONSTANTS
  Ids,            \* user ids
  Password,       \* the password of all of them
  CharacterType,  \* their character
  Junk,           \* a word left over on the stack
  Members,        \* ids of the users in Member.txt at first, in order
  GameExp,        \* exp of a finished game, game.c:122
  MaxSlots,       \* bound: slots of a room whose game ends
  MaxAccounts,    \* bound: lines with which nobody signs up any more
  MaxExp,         \* bound: no game ends once an account has this much exp
  MaxCrashes      \* bound: how often the server dies

Words == Ids \cup {Password, Junk}

ASSUME StoreAssumption ==
  /\ Words \cap Nat = {}
  /\ Ids \cap {Password, Junk} = {}
  /\ Members \in Seq(Ids)
  /\ \A i, j \in DOMAIN Members : i # j => Members[i] # Members[j]
  /\ CharacterType \in Nat
  /\ GameExp \in Nat \ {0}
  /\ MaxSlots \in Nat /\ MaxAccounts \in Nat /\ MaxExp \in Nat /\ MaxCrashes \in Nat

Empty == -1      \* MemN.txt holds no number
Unset == -1      \* curPK has not been written yet

VARIABLES
  user_table,    \* key -> struct user_data
  mem_n,         \* the number in MemN.txt
  member,        \* the lines of Member.txt
  tmp,           \* the lines of tmp.txt
  at,            \* where the main server is: the operation it comes to next
  loop,          \* the locals of the loop over Member.txt it is in
  entry,         \* the account RegMem is adding
  due,           \* member_pk_list of the game that ends, as far as not yet paid
  crashes,
  torn           \* history: the places of Windows at which the server has died

vars == <<user_table, mem_n, member, tmp, at, loop, entry, due, crashes, torn>>

Tokens == Nat \cup Words
Line   == Seq(Tokens) \ {<<>>}
Place  == [line : Nat \ {0}, col : Nat \ {0}]

\* An id is the empty string, <<>>, or one word; after a misread line the word may
\* be a number.
User  == [pk : Nat, id : Seq(Tokens), exp : Nat]
Blank == [pk |-> 0, id |-> <<>>, exp |-> 0]    \* a struct user_data after memset

\* The locals of a loop over Member.txt.
Turn == [n : Int, i : Nat, place : Place, pk : Nat \cup {Unset}, buf : Seq(Tokens),
         exp : Nat, out : Seq(Line)]

AccountLine(user) ==
  <<user.pk>> \o user.id \o <<Password, CharacterType, user.exp>>

FirstUsers == [i \in DOMAIN Members |-> [pk |-> i, id |-> <<Members[i]>>, exp |-> 0]]
FirstLines == [i \in DOMAIN Members |-> AccountLine(FirstUsers[i])]

Start == [line |-> 1, col |-> 1]

\* A loop of n turns before the first one, and before its next one.
Loop(n, exp) == [n |-> n, i |-> 0, place |-> Start, pk |-> Unset, buf |-> <<>>,
                 exp |-> exp, out |-> <<>>]
Turned(place, pk, buf, out) ==
  [n |-> loop.n, i |-> loop.i + 1, place |-> place, pk |-> pk, buf |-> buf,
   exp |-> loop.exp, out |-> out]
Idle == Loop(0, 0)

Init ==
  /\ user_table = [k \in 0 .. Len(Members) - 1 |-> FirstUsers[k + 1]]
  /\ mem_n = Len(Members)
  /\ member = FirstLines
  /\ tmp = <<>>
  /\ at = "loop"
  /\ loop = Idle
  /\ entry = Blank
  /\ due = <<>>
  /\ crashes = 0
  /\ torn = {}

-----------------------------------------------------------------------------
\* fscanf on Member.txt.

AtEnd(place) == place.line > Len(member)
TokenAt(place) == member[place.line][place.col]
Past(place) ==
  IF place.col < Len(member[place.line]) THEN [place EXCEPT !.col = @ + 1]
                                         ELSE [line |-> place.line + 1, col |-> 1]

\* A call of fscanf: where it is, what it has read, and whether it goes on.
Call(place) == [place |-> place, got |-> <<>>, ok |-> TRUE]
Took(call)  == [place |-> Past(call.place), got |-> Append(call.got, TokenAt(call.place)),
                ok |-> TRUE]
Failed(call) == [call EXCEPT !.ok = FALSE]

\* %s and %d (%ld): a conversion that fails leaves the place and ends the call.
Word(call)   == IF call.ok /\ ~AtEnd(call.place) THEN Took(call) ELSE Failed(call)
Number(call) == IF call.ok /\ ~AtEnd(call.place) /\ TokenAt(call.place) \in Nat
                THEN Took(call) ELSE Failed(call)

\* What a call has stored as its i-th value, if it came so far.
Stored(call, i, before) == IF i <= Len(call.got) THEN call.got[i] ELSE before

\* What is left of the line, for %[^\n].
RestOfLine(place) == SubSeq(member[place.line], place.col, Len(member[place.line]))

\* int n; fscanf(fr,"%d",&n): with MemN.txt empty, whatever n held before.
Counts == IF mem_n = Empty THEN -1 .. MaxAccounts + 1 ELSE {mem_n}

\* curPK and buf before anything has been read into them.
StalePks   == 0 .. MaxAccounts
StaleTexts == {<<>>, <<Junk>>}

-----------------------------------------------------------------------------
\* Sign-up.

\* RegMem, called by route_sign_up: myFileRetrieve has read the count and opens
\* Member.txt.
RegMem(id) ==
  /\ at = "loop"
  /\ Len(member) < MaxAccounts
  /\ \E n \in Counts : loop' = Loop(n, 0)
  /\ entry' = [Blank EXCEPT !.id = <<id>>]
  /\ at' = "look up"
  /\ UNCHANGED <<user_table, mem_n, member, tmp, due, crashes, torn>>

\* A turn of myFileRetrieve.  An id that is there only gets a reply.  As long as no
\* word has been read, buf may hold any.
LookUp ==
  /\ at = "look up" /\ loop.i < loop.n
  /\ LET head == Word(Number(Call(loop.place)))
         read == IF Len(head.got) = 2 THEN <<head.got[2]>> ELSE loop.buf
         tail == Number(Number(Word(Call(head.place))))
     IN  \/ /\ read = entry.id \/ read = <<>>
            /\ loop' = Idle /\ entry' = Blank
            /\ at' = "loop"
         \/ /\ read # entry.id
            /\ loop' = Turned(tail.place, loop.pk, read, loop.out)
            /\ UNCHANGED <<at, entry>>
  /\ UNCHANGED <<user_table, mem_n, member, tmp, due, crashes, torn>>

\* Not the code: the new account gets the pk of the last one.
WrongCreateMem ==
  /\ at = "look up" /\ loop.i >= loop.n
  /\ \E n \in Counts : entry' = [entry EXCEPT !.pk = n]
  /\ mem_n' = Empty
  /\ loop' = Idle
  /\ at' = "count open"
  /\ UNCHANGED <<user_table, member, tmp, due, crashes, torn>>

\* The id has not been found: myFileCreateMem reads the count once more and opens
\* MemN.txt for writing.
CreateMem ==
  /\ at = "look up" /\ loop.i >= loop.n
  /\ \E n \in Counts : entry' = [entry EXCEPT !.pk = n + 1]
  /\ mem_n' = Empty
  /\ loop' = Idle
  /\ at' = "count open"
  /\ UNCHANGED <<user_table, member, tmp, due, crashes, torn>>

\* Not the code: the count is written as it was read.
WrongCloseCount ==
  /\ at = "count open"
  /\ mem_n' = entry.pk - 1
  /\ at' = "count closed"
  /\ UNCHANGED <<user_table, member, tmp, loop, entry, due, crashes, torn>>

\* fclose(frw)
CloseCount ==
  /\ at = "count open"
  /\ mem_n' = entry.pk
  /\ at' = "count closed"
  /\ UNCHANGED <<user_table, member, tmp, loop, entry, due, crashes, torn>>

\* kh_put, which replaces what is there.
Put(k, user) == [x \in DOMAIN user_table \cup {k} |-> IF x = k THEN user ELSE user_table[x]]

\* fclose(fw); then route_sign_up enters the account into user_table, unless the pk
\* is 0, which it takes for RESULT_REGISTER_EXIST_ID.
CloseMember ==
  /\ at = "count closed"
  /\ member' = Append(member, AccountLine(entry))
  /\ user_table' = IF entry.pk = 0 THEN user_table ELSE Put(entry.pk, entry)
  /\ entry' = Blank
  /\ at' = "loop"
  /\ UNCHANGED <<mem_n, tmp, loop, due, crashes, torn>>

-----------------------------------------------------------------------------
\* The exp of a game.

KnownPks == {user_table[k].pk : k \in DOMAIN user_table}

\* A game ends in a room with these members: each slot is paid in turn.
GameOver(member_pk_list) ==
  /\ at = "loop"
  /\ \A k \in DOMAIN user_table : user_table[k].exp < MaxExp
  /\ due' = member_pk_list
  /\ at' = "pay"
  /\ UNCHANGED <<user_table, mem_n, member, tmp, loop, entry, crashes, torn>>

\* find_user_data_by_pk takes one of that pk; usr->exp += 500; myFileUpdate opens
\* tmp.txt for writing and reads the count.
UpdateExp ==
  /\ at = "pay"
  /\ \E k \in DOMAIN user_table, n \in Counts :
       /\ user_table[k].pk = Head(due)
       /\ user_table' = [user_table EXCEPT ![k].exp = @ + GameExp]
       /\ loop' = Loop(n, user_table[k].exp + GameExp)
  /\ tmp' = <<>>
  /\ at' = "tmp open"
  /\ UNCHANGED <<mem_n, member, entry, due, crashes, torn>>

\* A line without the account: as it was read, or as the one before it.
CopyLine(pk, place) ==
  \E text \in IF ~AtEnd(place) THEN {RestOfLine(place)}
              ELSE IF loop.buf # <<>> THEN {loop.buf} ELSE StaleTexts :
    loop' = Turned(IF AtEnd(place) THEN place ELSE [line |-> place.line + 1, col |-> 1],
                   pk, text, Append(loop.out, <<pk>> \o text))

\* Not the code: the line gets the exp of one game, not the sum.
WrongPayLine(pk, place) ==
  LET id       == Word(Call(place))
      password == Word(Call(id.place))
      type     == Number(Call(password.place))
      exp      == Number(Call(type.place))
      line     == <<pk>> \o id.got \o password.got \o <<Stored(type, 1, 0), GameExp>>
  IN  loop' = Turned(exp.place, pk, loop.buf, Append(loop.out, line))

\* The line of the account, field by field, with the new exp.
PayLine(pk, place) ==
  LET id       == Word(Call(place))
      password == Word(Call(id.place))
      type     == Number(Call(password.place))
      exp      == Number(Call(type.place))
      line     == <<pk>> \o id.got \o password.got \o <<Stored(type, 1, 0), loop.exp>>
  IN  loop' = Turned(exp.place, pk, loop.buf, Append(loop.out, line))

\* A turn of the loop of myFileUpdate.
Rewrite ==
  /\ at = "tmp open" /\ loop.i < loop.n
  /\ LET head == Number(Call(loop.place))
     IN  \E pk \in IF head.ok THEN {head.got[1]}
                   ELSE IF loop.pk # Unset THEN {loop.pk} ELSE StalePks :
           \/ pk # Head(due) /\ CopyLine(pk, head.place)
           \/ pk = Head(due) /\ PayLine(pk, head.place)
  /\ UNCHANGED <<user_table, mem_n, member, tmp, at, entry, due, crashes, torn>>

\* Not the code: tmp.txt is read again before it has been closed.
WrongCloseTmp ==
  /\ at = "tmp open" /\ loop.i >= loop.n
  /\ at' = "tmp closed"
  /\ loop' = Idle
  /\ UNCHANGED <<user_table, mem_n, member, tmp, entry, due, crashes, torn>>

\* fclose(tmpf)
CloseTmp ==
  /\ at = "tmp open" /\ loop.i >= loop.n
  /\ tmp' = loop.out
  /\ at' = "tmp closed"
  /\ loop' = Idle
  /\ UNCHANGED <<user_table, mem_n, member, entry, due, crashes, torn>>

\* fopen("Member.txt","w")
OpenMember ==
  /\ at = "tmp closed"
  /\ member' = <<>>
  /\ at' = "member open"
  /\ UNCHANGED <<user_table, mem_n, tmp, loop, entry, due, crashes, torn>>

\* tmp.txt has been copied; fclose(fwr) and on to the next slot.
CopyBack ==
  /\ at = "member open"
  /\ member' = tmp
  /\ due' = Tail(due)
  /\ at' = IF due' = <<>> THEN "loop" ELSE "pay"
  /\ UNCHANGED <<user_table, mem_n, tmp, loop, entry, crashes, torn>>

-----------------------------------------------------------------------------
\* The end of the server and its next start.

\* Where one file has been changed and the other not, or not all of it.
Windows == {"count open", "count closed", "member open"}

\* The server dies, with what it had in memory and in the buffers of files still
\* open.
Crash ==
  /\ at # "down" /\ crashes < MaxCrashes
  /\ crashes' = crashes + 1
  /\ torn' = torn \cup ({at} \cap Windows)
  /\ at' = "down"
  /\ user_table' = <<>> /\ loop' = Idle /\ entry' = Blank /\ due' = <<>>
  /\ UNCHANGED <<mem_n, member, tmp>>

\* load_user_data reads the count and opens Member.txt.
load_user_data ==
  /\ at = "down"
  /\ \E n \in Counts : loop' = Loop(n, 0)
  /\ at' = "load"
  /\ UNCHANGED <<user_table, mem_n, member, tmp, entry, due, crashes, torn>>

\* A turn of its loop: a record for every count, with or without a line to fill it.
LoadUser ==
  /\ at = "load" /\ loop.i < loop.n
  /\ LET call == Number(Number(Word(Word(Number(Call(loop.place))))))
         user == [pk  |-> Stored(call, 1, 0),
                  id  |-> IF Len(call.got) < 2 THEN <<>> ELSE <<call.got[2]>>,
                  exp |-> Stored(call, 5, 0)]
     IN  /\ user_table' = Put(loop.i, user)
         /\ loop' = Turned(call.place, loop.pk, loop.buf, loop.out)
  /\ UNCHANGED <<mem_n, member, tmp, at, entry, due, crashes, torn>>

Loaded ==
  /\ at = "load" /\ loop.i >= loop.n
  /\ loop' = Idle
  /\ at' = "loop"
  /\ UNCHANGED <<user_table, mem_n, member, tmp, entry, due, crashes, torn>>

Slots == UNION {[1 .. n -> KnownPks] : n \in 1 .. MaxSlots}

Next ==
  \/ \E id \in Ids : RegMem(id)
  \/ LookUp
  \/ CreateMem
  \/ CloseCount
  \/ CloseMember
  \/ \E list \in Slots : GameOver(list)
  \/ UpdateExp
  \/ Rewrite
  \/ CloseTmp
  \/ OpenMember
  \/ CopyBack
  \/ Crash
  \/ load_user_data
  \/ LoadUser
  \/ Loaded

Spec == Init /\ [][Next]_vars

-----------------------------------------------------------------------------
\* Type correctness of memory and files, whatever crashes have left.
StoreTypeOK ==
  /\ DOMAIN user_table \subseteq Nat
  /\ \A k \in DOMAIN user_table : user_table[k] \in User
  /\ mem_n \in Nat \cup {Empty}
  /\ member \in Seq(Line)
  /\ tmp \in Seq(Line)
  /\ loop \in Turn
  /\ entry \in User
  /\ due \in Seq(Nat)
  /\ crashes \in 0 .. MaxCrashes
  /\ torn \subseteq Windows

\* Two users are one only if they are in the same place.
Distinct(users) ==
  \A i, j \in DOMAIN users : i # j => users[i].pk # users[j].pk /\ users[i].id # users[j].id

\* Between two handlers the server has in memory what is on disk, each account once,
\* under its pk, and as many as MemN.txt counts: sign-up, which decides by the file,
\* and sign-in, which decides by the table, speak of the same accounts.  Crashes
\* do not change that, those in Windows excepted.
TableIsOnFile ==
  at = "loop" /\ torn = {} =>
    /\ mem_n = Len(member)
    /\ {AccountLine(user_table[k]) : k \in DOMAIN user_table} = {member[i] : i \in DOMAIN member}
    /\ Distinct(user_table)

\* As long as no crash has emptied MemN.txt, the count it leaves is not behind the
\* lines, however often the server dies and whatever it makes of the files after that:
\* no account is passed over by a loop over Member.txt and no pk is given out twice,
\* which is why MemN.txt is closed before the line is written.
CountNotBehind ==
  "count open" \notin torn => mem_n = Empty \/ Len(member) <= mem_n

\* Where the accounts are while Member.txt is being copied back.
OnDisk == IF member = <<>> THEN tmp ELSE member

IdsOn(lines) == {id \in Ids : \E i \in DOMAIN lines : \E k \in DOMAIN lines[i] : lines[i][k] = id}

\* A crash that leaves a count without its line costs no account its place in the file:
\* the lines too many that the server then reads and writes do not take the place of
\* others.
NobodyIsForgotten ==
  [][torn' \subseteq {"count closed"} => IdsOn(OnDisk) \subseteq IdsOn(OnDisk')]_vars

Book == INSTANCE AccountBook WITH
          First   <- FirstLines,
          Reward  <- GameExp,
          book    <- OnDisk,
          damaged <- torn # {}

\* Until the server dies in one of Windows the accounts are on disk at every moment, in
\* Member.txt or, while that is rewritten, in tmp.txt: there each sign-up and each
\* slot paid appears at once and nothing else ever changes; and what it dies over is
\* still whole then.
FilesKeepTheBook == Book!BookSpec
=============================================================================
