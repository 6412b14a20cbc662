------------------------------- MODULE KSort -------------------------------
(***************************************************************************)
(* The sorts and the selection of ksort.h, on arrays that grow by one      *)
(* element at a time.  Places count from 0 as in the source; elements are   *)
(* a key and the place they came from, and only keys are compared.          *)
(***************************************************************************)
EXTENDS Integers, SequencesExt, FiniteSetsExt

CONSTANTS
  SortKeys,     \* \subseteq Int
  MaxLength,    \* bound: elements
  SMALL         \* 16 in the source: parts introsort leaves to the insertion sort

VARIABLE array

SortInit == array = <<>>
Grow ==
  /\ Len(array) < MaxLength
  /\ \E key \in SortKeys : array' = Append(array, [key |-> key, from |-> Len(array)])

lt(x, y) == x.key < y.key
At(a, i) == a[i + 1]
With(a, i, x) == [a EXCEPT ![i + 1] = x]
Swapped(a, i, j) == [a EXCEPT ![i + 1] = a[j + 1], ![j + 1] = a[i + 1]]

\* The numbers from i to j, upwards or downwards.
Up(i, j) == [n \in 1..(IF j < i THEN 0 ELSE j - i + 1) |-> i + n - 1]
Down(i, j) == Reverse(Up(j, i))

-----------------------------------------------------------------------------
\* ks_mergesort: runs of a length are merged pairwise into the other array.

\* Not the code: of equal elements the second comes first.
RECURSIVE WrongMerge(_, _)
WrongMerge(u, v) ==
  IF u = <<>> \/ v = <<>> THEN u \o v
  ELSE IF lt(Head(u), Head(v)) THEN <<Head(u)>> \o WrongMerge(Tail(u), v)
  ELSE <<Head(v)>> \o WrongMerge(u, Tail(v))

RECURSIVE Merge(_, _)
Merge(u, v) ==
  IF u = <<>> \/ v = <<>> THEN u \o v
  ELSE IF lt(Head(v), Head(u)) THEN <<Head(v)>> \o Merge(u, Tail(v))
  ELSE <<Head(u)>> \o Merge(Tail(u), v)

Part(a, i, j) == SubSeq(a, i + 1, Min({j, Len(a)}))

RECURSIVE MergedBy(_, _, _)
MergedBy(a, step, i) ==
  IF i >= Len(a) THEN <<>>
  ELSE Merge(Part(a, i, i + step), Part(a, i + step, i + 2 * step))
       \o MergedBy(a, step, i + 2 * step)

RECURSIVE MergeSorted(_, _)
MergeSorted(a, step) ==
  IF step >= Len(a) THEN a ELSE MergeSorted(MergedBy(a, step, 0), 2 * step)
ks_mergesort(a) == MergeSorted(a, 1)

-----------------------------------------------------------------------------
\* Heaps, with the greatest element in front.

RECURSIVE Sift(_, _, _, _)
Sift(a, i, n, tmp) ==
  LET Larger(k) == IF k # n - 1 /\ lt(At(a, k), At(a, k + 1)) THEN k + 1 ELSE k
      Under(k) == IF lt(At(a, k), tmp) THEN With(a, i, tmp)
                  ELSE Sift(With(a, i, At(a, k)), k, n, tmp)
  IN  IF 2 * i + 1 >= n THEN With(a, i, tmp) ELSE Under(Larger(2 * i + 1))

ks_heapadjust(a, i, n) == Sift(a, i, n, At(a, i))

ks_heapmake(a) ==
  FoldLeft(LAMBDA b, i : ks_heapadjust(b, i, Len(a)), a, Down(Len(a) \div 2 - 1, 0))

\* Of a heap.
ks_heapsort(a) ==
  FoldLeft(LAMBDA b, i : ks_heapadjust(Swapped(b, 0, i), 0, i), a, Down(Len(a) - 1, 1))

-----------------------------------------------------------------------------
\* Insertion and comb sort of the elements from s to t.

RECURSIVE Sunk(_, _, _)
Sunk(a, s, j) ==
  IF j > s /\ lt(At(a, j), At(a, j - 1)) THEN Sunk(Swapped(a, j - 1, j), s, j - 1) ELSE a
insertsort(a, s, t) == FoldLeft(LAMBDA b, i : Sunk(b, s, i), a, Up(s + 1, t))

Shrunk(gap) ==
  LET less == (gap * 10000) \div 12473
  IN  IF gap <= 2 THEN gap ELSE IF less \in {9, 10} THEN 11 ELSE less

RECURSIVE Combed(_, _, _, _)
Combed(a, s, t, gap) ==
  LET Exchange(b, i) == IF lt(At(b, i + gap), At(b, i)) THEN Swapped(b, i, i + gap) ELSE b
      Passed(b) == IF b # a \/ gap > 2 THEN Combed(b, s, t, Shrunk(gap))
                   ELSE IF gap # 1 THEN insertsort(b, s, t) ELSE b
  IN  Passed(FoldLeft(Exchange, a, Up(s, t - gap)))
combsort(a, s, t) == Combed(a, s, t, Shrunk(t - s + 1))

-----------------------------------------------------------------------------
\* ks_introsort: quicksort with a stack, comb sort when it goes too deep, and
\* the insertion sort for what is left.

\* Where the two scans stop, from i upwards and from j downwards.
RECURSIVE FromLeft(_, _, _), FromRight(_, _, _, _)
FromLeft(a, i, rp) == IF lt(At(a, i + 1), rp) THEN FromLeft(a, i + 1, rp) ELSE i + 1
FromRight(a, i, j, rp) ==
  IF i <= j - 1 /\ lt(rp, At(a, j - 1)) THEN FromRight(a, i, j - 1, rp) ELSE j - 1

Split(a, i) == [a |-> a, i |-> i]

\* The pivot is at t.
RECURSIVE Parted(_, _, _, _)
Parted(a, i, j, t) ==
  LET Met(k, l) == IF l <= k THEN Split(Swapped(a, k, t), k)
                   ELSE Parted(Swapped(a, k, l), k, l, t)
      Left(k) == Met(k, FromRight(a, k, j, At(a, t)))
  IN  Left(FromLeft(a, i, At(a, t)))

\* The place of the pivot among the first, a middle and the last element: their median,
\* but for a middle one that is the least.
Pivot(a, i, k, j) ==
  IF lt(At(a, k), At(a, i)) THEN IF lt(At(a, k), At(a, j)) THEN j ELSE k
  ELSE IF lt(At(a, j), At(a, i)) THEN i ELSE j

Frame(s, t, d) == [s |-> s, t |-> t, d |-> d]

RECURSIVE Introsorted(_, _, _)
Introsorted(a, f, stack) ==
  LET s == f.s  t == f.t  d == f.d - 1
      Pushed(large, lo, hi) == IF large > SMALL THEN Append(stack, Frame(lo, hi, d)) ELSE stack
      Goes(b, i) ==
        IF i - s > t - i
        THEN Introsorted(b, Frame(IF t - i > SMALL THEN i + 1 ELSE t, t, d), Pushed(i - s, s, i - 1))
        ELSE Introsorted(b, Frame(s, IF i - s > SMALL THEN i - 1 ELSE s, d), Pushed(t - i, i + 1, t))
      Around(split) == Goes(split.a, split.i)
  IN  IF s >= t
      THEN IF stack = <<>> THEN insertsort(a, 0, Len(a) - 1)
           ELSE Introsorted(a, Last(stack), Front(stack))
      ELSE IF d = 0 THEN Introsorted(combsort(a, s, t), Frame(s, s, d), stack)
      ELSE Around(Parted(Swapped(a, Pivot(a, s, s + (t - s) \div 2 + 1, t), t), s, t, t))

Depth(n) == 2 * Min({d \in 2..30 : 2 ^ d >= n})

\* With as many levels before a comb sort as there are in d.
IntrosortedWithin(a, d) ==
  IF Len(a) < 1 THEN a
  ELSE IF Len(a) = 2 THEN IF lt(At(a, 1), At(a, 0)) THEN Swapped(a, 0, 1) ELSE a
  ELSE Introsorted(a, Frame(0, Len(a) - 1, d), <<>>)
ks_introsort(a) == IntrosortedWithin(a, Depth(Len(a)))

-----------------------------------------------------------------------------
\* ks_ksmall: only the part that holds the place kk is sorted further.

Ordered(a, i, j) == IF lt(At(a, j), At(a, i)) THEN Swapped(a, i, j) ELSE a

RECURSIVE Below(_, _, _)
Below(a, hh, low) == IF lt(At(a, low), At(a, hh - 1)) THEN Below(a, hh - 1, low) ELSE hh - 1

RECURSIVE Narrowed(_, _, _, _, _), Selected(_, _, _, _)
Narrowed(a, low, high, ll, hh) ==
  LET Met(l, h) == IF h < l THEN [a |-> Swapped(a, low, h), ll |-> l, hh |-> h]
                   ELSE Narrowed(Swapped(a, l, h), low, high, l, h)
  IN  Met(FromLeft(a, ll, At(a, low)), Below(a, hh, low))

\* The median of three is at low, the least of them behind it.
Selected(a, low, high, kk) ==
  LET mid == low + (high - low) \div 2
      Next(p) == Selected(p.a, IF p.hh <= kk THEN p.ll ELSE low,
                          IF p.hh >= kk THEN p.hh - 1 ELSE high, kk)
      Three == Ordered(Ordered(a, mid, high), low, high)
  IN  IF high <= low THEN At(a, kk)
      ELSE IF high = low + 1 THEN At(Ordered(a, low, high), kk)
      ELSE Next(Narrowed(Swapped(Ordered(Three, mid, low), mid, low + 1), low, high, low + 1, high))

ks_ksmall(a, kk) == Selected(a, 0, Len(a) - 1, kk)

\* ks_shuffle: the orders it can leave.
RECURSIVE ShuffledTo(_, _)
ShuffledTo(a, i) ==
  IF i <= 1 THEN {a} ELSE UNION {ShuffledTo(Swapped(a, j, i - 1), i - 1) : j \in 0..(i - 1)}
ks_shuffle(a) == ShuffledTo(a, Len(a))

-----------------------------------------------------------------------------
InOrder(b) == IsSorted(b, LAMBDA x, y : ~lt(y, x))
IsOrderOf(b, a) == Len(b) = Len(a) /\ Range(b) = Range(a)

\* The only stable order.
StableOrder ==
  SortSeq(array, LAMBDA x, y : x.key < y.key \/ (x.key = y.key /\ x.from < y.from))

\* All sorts leave the elements of the array in order, though they scan without
\* looking at its ends and stop at parts they leave to each other, on whatever level
\* quicksort gives up; the merge sort keeps equal elements as they were.  ks_heapsort
\* counts down from the size less one: there has to be an element.
SortsSort ==
  /\ ks_mergesort(array) = StableOrder
  /\ \A b \in {ks_introsort(array), combsort(array, 0, Len(array) - 1)}
             \cup {IntrosortedWithin(array, d) : d \in 1..3}
             \cup (IF array = <<>> THEN {} ELSE {ks_heapsort(ks_heapmake(array))}) :
       InOrder(b) /\ IsOrderOf(b, array)

\* A heap has nothing below that is greater, the selection finds what the sort would
\* have at the place, and every order may come of a shuffle.
PartsAreInOrder ==
  /\ LET heap == ks_heapmake(array)
     IN  \A i \in 1..(Len(array) - 1) : ~lt(At(heap, (i - 1) \div 2), At(heap, i))
  /\ \A kk \in 0..(Len(array) - 1) : ks_ksmall(array, kk).key = At(StableOrder, kk).key
  /\ Len(array) <= 4 =>
       ks_shuffle(array) = {b \in [DOMAIN array -> Range(array)] : IsOrderOf(b, array)}
=============================================================================
