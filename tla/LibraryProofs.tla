--------------------------- MODULE LibraryProofs ----------------------------
(***************************************************************************)
(* The vendored libraries.  Hash tables of any size, over any hash          *)
(* functions, through any sequence of calls and the rehashes they cause:    *)
(* every entry is found under its key, some bucket is always empty, so that *)
(* the loops of khash.h end, the table holds what was put, and it does not  *)
(* grow as entries come and go.  Lists of any length: queues, whose nodes   *)
(* have one owner each.  And UTF-8 for every code point: what parson writes *)
(* for an escape is what it accepts, and nothing else is.                   *)
(***************************************************************************)
EXTENDS KHash, KList, Utf8, SequenceLemmas, FiniteSetTheorems

-----------------------------------------------------------------------------
\* Remainders.

\* A number is a multiple and a remainder.
LEMMA Division ==
  ASSUME NEW n \in Nat \ {0}, NEW x \in Nat
  PROVE  x \div n \in Nat /\ x % n \in 0..(n - 1) /\ x = n * (x \div n) + (x % n)
<1>1. x \div n \in Nat
  BY Z3
<1>2. x % n \in 0..(n - 1)
  BY Z3
<1>3. x = n * (x \div n) + (x % n)
  BY Z3
<1> QED
  BY <1>1, <1>2, <1>3

\* A larger factor makes a product larger by the other factor at least.
LEMMA Larger ==
  ASSUME NEW n \in Nat, NEW p \in Nat, NEW q \in Nat, p < q
  PROVE  n * p + n <= n * q /\ n * p \in Nat /\ n * q \in Nat
<1>1. PICK d \in Nat : q = p + 1 + d
  <2>1. q - p - 1 \in Nat /\ q = p + 1 + (q - p - 1)
    OBVIOUS
  <2> QED
    BY <2>1
<1>2. n * q = n * p + n + n * d
  BY <1>1, Z3
<1>3. n * d \in Nat /\ n * p \in Nat /\ n * q \in Nat
  BY Z3
<1> QED
  BY <1>2, <1>3

\* Two numbers of one remainder are a multiple apart.
LEMMA SameRemainder ==
  ASSUME NEW n \in Nat \ {0}, NEW x \in Nat, NEW y \in Nat, x <= y, x % n = y % n
  PROVE  \E q \in Nat : y = x + n * q
<1> DEFINE a == x \div n
           b == y \div n
           r == x % n
<1>1. a \in Nat /\ r \in 0..(n - 1) /\ x = n * a + r
  BY Division
<1>2. b \in Nat /\ y = n * b + r
  BY Division
<1> HIDE DEF a, b, r
<1>3. n * a \in Nat /\ n * b \in Nat
  BY <1>1, <1>2, Z3
<1>4. a <= b
  <2> SUFFICES ASSUME b < a PROVE FALSE
    BY <1>1, <1>2
  <2>1. n * b + n <= n * a
    BY <1>1, <1>2, Larger
  <2> QED
    BY <2>1, <1>1, <1>2, <1>3
<1>5. b - a \in Nat /\ n * b = n * a + n * (b - a)
  BY <1>1, <1>2, <1>4, Z3
<1>6. n * (b - a) \in Nat
  BY <1>5, Z3
<1> QED
  BY <1>1, <1>2, <1>3, <1>5, <1>6

\* Multiples are the numbers without a remainder.
LEMMA Multiples ==
  ASSUME NEW n \in Nat \ {0}, NEW x \in Nat
  PROVE  x % n = 0 <=> \E q \in Nat : x = n * q
<1>1. ASSUME x % n = 0
      PROVE  \E q \in Nat : x = n * q
  <2> DEFINE a == x \div n
  <2>1. a \in Nat /\ x = n * a + (x % n)
    BY Division
  <2> HIDE DEF a
  <2>2. n * a \in Nat
    BY <2>1, Z3
  <2>3. x = n * a
    BY <2>1, <2>2, <1>1
  <2> QED
    BY <2>1, <2>3
<1>2. ASSUME NEW q \in Nat, x = n * q
      PROVE  x % n = 0
  <2> DEFINE a == x \div n
             r == x % n
  <2>1. a \in Nat /\ r \in 0..(n - 1) /\ x = n * a + r
    BY Division
  <2> SUFFICES r = 0
    OBVIOUS
  <2> HIDE DEF a, r
  <2>2. n * a \in Nat /\ n * q \in Nat
    BY <2>1, Z3
  <2>3. CASE q = a
    BY <2>3, <2>1, <2>2, <1>2
  <2>4. CASE q < a
    <3>1. n * q + n <= n * a
      BY <2>4, <2>1, Larger
    <3> QED
      BY <3>1, <2>1, <2>2, <1>2
  <2>5. CASE a < q
    <3>1. n * a + n <= n * q
      BY <2>5, <2>1, Larger
    <3> QED
      BY <3>1, <2>1, <2>2, <1>2
  <2> QED
    BY <2>1, <2>3, <2>4, <2>5
<1> QED
  BY <1>1, <1>2

\* A number is even or odd.
LEMMA EvenOrOdd ==
  ASSUME NEW x \in Nat
  PROVE  /\ x % 2 = 0 => \E a \in Nat : x = 2 * a
         /\ x % 2 # 0 => \E a \in Nat : x = 2 * a + 1
<1>1. x \div 2 \in Nat /\ x % 2 \in 0..1 /\ x = 2 * (x \div 2) + (x % 2)
  BY Division
<1> QED
  BY <1>1

\* An odd factor does not help to make a product even.
LEMMA OddTimes ==
  ASSUME NEW x \in Nat, x % 2 # 0, NEW y \in Nat, NEW z \in Nat, x * y = 2 * z
  PROVE  \E a \in Nat : y = 2 * a /\ x * a = z
<1>1. PICK b \in Nat : x = 2 * b + 1
  BY EvenOrOdd
<1>2. PICK p \in Nat : x * y = 2 * p + y
  <2>1. x * y = 2 * (b * y) + y /\ b * y \in Nat
    BY <1>1, Z3
  <2> QED
    BY <2>1
<1>3. y = 2 * (z - p) /\ z - p \in Nat
  BY <1>2
<1>4. PICK a \in Nat : y = 2 * a
  BY <1>3
<1>5. x * y = 2 * (x * a) /\ x * a \in Nat
  BY <1>4, Z3
<1> QED
  BY <1>4, <1>5
-----------------------------------------------------------------------------
\* Powers of two.

\* Half of a power of two is one, and so is its double.
LEMMA HalfPower ==
  ASSUME NEW n \in Nat, n > 1, IsPowerOfTwo(n)
  PROVE  \E m \in Nat : n = 2 * m /\ m >= 1 /\ IsPowerOfTwo(m)
<1>1. n % n = 0
  <2>1. n = n * 1
    OBVIOUS
  <2> QED
    BY <2>1, Multiples
<1>2. n % 2 = 0
  BY <1>1 DEF IsPowerOfTwo
<1>3. PICK m \in Nat : n = 2 * m
  BY <1>2, EvenOrOdd
<1>4. ASSUME NEW d \in 2..m, m % d = 0
      PROVE  d % 2 = 0
  <2>1. PICK q \in Nat : m = d * q
    BY <1>4, Multiples
  <2>2. n = d * (2 * q) /\ 2 * q \in Nat
    BY <1>3, <2>1, Z3
  <2>3. n % d = 0
    BY <2>2, Multiples
  <2> QED
    BY <2>3, <1>3 DEF IsPowerOfTwo
<1>5. IsPowerOfTwo(m)
  BY <1>4 DEF IsPowerOfTwo
<1>6. m >= 1
  BY <1>3
<1> QED
  BY <1>3, <1>5, <1>6

LEMMA DoublePower ==
  ASSUME NEW n \in Nat \ {0}, IsPowerOfTwo(n)
  PROVE  IsPowerOfTwo(2 * n)
<1> SUFFICES ASSUME NEW d \in 2..(2 * n), (2 * n) % d = 0, d % 2 # 0
             PROVE  FALSE
  BY DEF IsPowerOfTwo
<1>1. PICK q \in Nat : d * q = 2 * n
  BY Multiples, 2 * n \in Nat
<1>2. PICK r \in Nat : n = d * r
  <2>1. d \in Nat
    OBVIOUS
  <2>2. \E r \in Nat : q = 2 * r /\ d * r = n
    BY <1>1, <2>1, OddTimes
  <2> QED
    BY <2>2
<1>3. n % d = 0
  <2>1. d \in Nat \ {0}
    OBVIOUS
  <2> QED
    BY <2>1, <1>2, Multiples
<1>4. d <= n
  <2>1. r # 0
    BY <1>2
  <2>2. r = 1 \/ 1 < r
    BY <2>1
  <2>3. 1 < r => d * 1 + d <= d * r
    BY Larger
  <2> QED
    BY <2>2, <2>3, <1>2
<1> QED
  BY <1>3, <1>4 DEF IsPowerOfTwo

\* Between a power of two and its double there is none.
LEMMA PowersAreFar ==
  ASSUME NEW n \in Nat \ {0}, NEW m \in Nat, IsPowerOfTwo(n), IsPowerOfTwo(m), n < m
  PROVE  2 * n <= m
<1> DEFINE Bad == {k \in Nat \ {0} : IsPowerOfTwo(k) /\
                     \E l \in Nat : IsPowerOfTwo(l) /\ k < l /\ l < 2 * k}
<1> SUFFICES Bad = {}
  OBVIOUS
<1> SUFFICES ASSUME Bad # {} PROVE FALSE
  OBVIOUS
<1>1. PICK k \in Bad : \A j \in Bad : k <= j
  <2>1. Bad \subseteq Nat
    OBVIOUS
  <2> QED
    BY <2>1, MinOfNaturals
<1>2. PICK l \in Nat : IsPowerOfTwo(l) /\ k < l /\ l < 2 * k
  OBVIOUS
<1>3. k > 1
  BY <1>2
<1>4. PICK h \in Nat : k = 2 * h /\ h >= 1 /\ IsPowerOfTwo(h)
  BY <1>3, HalfPower
<1>5. PICK g \in Nat : l = 2 * g /\ g >= 1 /\ IsPowerOfTwo(g)
  BY <1>2, <1>3, HalfPower
<1>6. h < g /\ g < 2 * h /\ h # 0
  BY <1>2, <1>4, <1>5
<1>7. h \in Bad
  BY <1>4, <1>5, <1>6
<1> QED
  BY <1>1, <1>4, <1>7

\* If an even number divides a product with an odd factor, its half divides that
\* with half of the other.
LEMMA OddFactorHalved ==
  ASSUME NEW h \in Nat \ {0}, NEW x \in Nat, x % 2 # 0, NEW z \in Nat,
         (x * z) % (2 * h) = 0
  PROVE  \E a \in Nat : z = 2 * a /\ (x * a) % h = 0
<1>1. PICK q \in Nat : x * z = (2 * h) * q
  <2>1. x * z \in Nat /\ 2 * h \in Nat \ {0}
    BY Z3
  <2> QED
    BY <2>1, Multiples
<1>2. x * z = 2 * (h * q) /\ h * q \in Nat
  BY <1>1, Z3
<1>3. \E a \in Nat : z = 2 * a /\ x * a = h * q
  <2>1. \A p \in Nat : x * z = 2 * p => \E a \in Nat : z = 2 * a /\ x * a = p
    BY OddTimes
  <2> QED
    BY <1>2, <2>1, Zenon
<1>4. PICK a \in Nat : z = 2 * a /\ x * a = h * q
  BY <1>3
<1>5. (x * a) % h = 0
  BY <1>2, <1>4, Multiples
<1> QED
  BY <1>4, <1>5

\* A power of two that divides a product with an odd factor divides the other.
LEMMA OddFactor ==
  ASSUME NEW n \in Nat \ {0}, IsPowerOfTwo(n), NEW x \in Nat, x % 2 # 0,
         NEW y \in Nat, (x * y) % n = 0
  PROVE  y % n = 0
<1> DEFINE Bad == {k \in Nat \ {0} : IsPowerOfTwo(k) /\
                     \E z \in Nat : (x * z) % k = 0 /\ z % k # 0}
<1> SUFFICES Bad = {}
  OBVIOUS
<1> SUFFICES ASSUME Bad # {} PROVE FALSE
  OBVIOUS
<1>1. PICK k \in Bad : \A j \in Bad : k <= j
  <2>1. Bad \subseteq Nat
    OBVIOUS
  <2> QED
    BY <2>1, MinOfNaturals
<1>2. PICK z \in Nat : (x * z) % k = 0 /\ z % k # 0
  OBVIOUS
<1>3. k > 1
  <2>1. z = 1 * z
    OBVIOUS
  <2>2. z % 1 = 0
    BY <2>1, Multiples
  <2> QED
    BY <2>2, <1>2
<1>4. PICK h \in Nat : k = 2 * h /\ h >= 1 /\ IsPowerOfTwo(h)
  BY <1>3, HalfPower
<1>7. PICK a \in Nat : z = 2 * a /\ (x * a) % h = 0
  <2>1. h \in Nat \ {0} /\ (x * z) % (2 * h) = 0
    BY <1>2, <1>4
  <2> HIDE DEF Bad
  <2>2. \A w \in Nat : (x * w) % (2 * h) = 0 => \E a \in Nat : w = 2 * a /\ (x * a) % h = 0
    BY <2>1, OddFactorHalved
  <2> QED
    BY <2>1, <2>2
<1>9. a % h = 0
  <2> SUFFICES ASSUME a % h # 0 PROVE FALSE
    OBVIOUS
  <2>1. h \in Nat \ {0} /\ ~(k <= h)
    BY <1>3, <1>4
  <2>2. h \in Bad
    BY <2>1, <1>4, <1>7
  <2> HIDE DEF Bad
  <2> QED
    BY <2>1, <2>2, <1>1
<1>10. PICK r \in Nat : a = h * r
  <2>1. h \in Nat \ {0}
    BY <1>4
  <2> QED
    BY <2>1, <1>9, Multiples
<1>11. z = k * r
  BY <1>4, <1>7, <1>10, Z3
<1> QED
  BY <1>2, <1>11, Multiples

-----------------------------------------------------------------------------
\* Probing.

\* The step-th place of the probing is the sum of the steps so far.
LEMMA OffsetIsSum ==
  ASSUME NEW s \in Nat
  PROVE  Offset(s) \in Nat /\ 2 * Offset(s) = s * (s + 1)
<1>1. \E p \in Nat : s * (s + 1) = 2 * p
  <2>1. CASE s % 2 = 0
    <3>1. PICK a \in Nat : s = 2 * a
      BY <2>1, EvenOrOdd
    <3>2. s * (s + 1) = 2 * (a * (s + 1)) /\ a * (s + 1) \in Nat
      BY <3>1, Z3
    <3> QED
      BY <3>2
  <2>2. CASE s % 2 # 0
    <3>1. PICK a \in Nat : s = 2 * a + 1
      BY <2>2, EvenOrOdd
    <3>2. s + 1 = 2 * (a + 1) /\ a + 1 \in Nat
      BY <3>1
    <3>3. s * (s + 1) = 2 * (s * (a + 1)) /\ s * (a + 1) \in Nat
      BY <3>2, Z3
    <3> QED
      BY <3>3
  <2> QED
    BY <2>1, <2>2
<1>2. PICK p \in Nat : s * (s + 1) = 2 * p
  BY <1>1
<1>3. Offset(s) = p
  BY <1>2 DEF Offset
<1> QED
  BY <1>2, <1>3

\* In a table of n buckets the first n places are different.
LEMMA SitesDiffer ==
  ASSUME NEW n \in Nat \ {0}, IsPowerOfTwo(n), NEW h \in Nat,
         NEW a \in 0..(n - 1), NEW b \in 0..(n - 1), a < b,
         (h + Offset(a)) % n = (h + Offset(b)) % n
  PROVE  FALSE
<1> DEFINE A == Offset(a)
           B == Offset(b)
           u == b - a
           v == a + b + 1
<1>1. A \in Nat /\ 2 * A = a * (a + 1) /\ B \in Nat /\ 2 * B = b * (b + 1)
  BY OffsetIsSum
<1>2. u \in Nat /\ v \in Nat /\ 0 < u /\ u < 2 * n /\ 0 < v /\ v < 2 * n
  OBVIOUS
<1>3. u % 2 # 0 \/ v % 2 # 0
  OBVIOUS
<1>4. u * v = b * (b + 1) - a * (a + 1)
  <2>1. a \in Nat /\ b \in Nat
    OBVIOUS
  <2> QED
    BY <2>1, Z3
<1>5. (h + A) % n = (h + B) % n
  OBVIOUS
<1> HIDE DEF A, B, u, v
<1>6. u * v = 2 * B - 2 * A
  BY <1>1, <1>4
<1>7. u * v \in Nat
  BY <1>2, Z3
<1>8. A <= B
  BY <1>1, <1>6, <1>7
<1>9. PICK q \in Nat : h + B = h + A + n * q
  <2>1. h + A \in Nat /\ h + B \in Nat /\ h + A <= h + B
    BY <1>1, <1>8
  <2> QED
    BY <2>1, <1>5, SameRemainder
<1>10. u * v = (2 * n) * q
  <2>1. n * q \in Nat /\ (2 * n) * q = 2 * (n * q)
    BY Z3
  <2> QED
    BY <2>1, <1>1, <1>6, <1>9
<1>11. /\ 2 * n \in Nat \ {0} /\ IsPowerOfTwo(2 * n)
       /\ (u * v) % (2 * n) = 0 /\ (v * u) % (2 * n) = 0
  <2>1. 2 * n \in Nat \ {0} /\ IsPowerOfTwo(2 * n)
    BY DoublePower
  <2>2. v * u = u * v
    BY <1>2, Z3
  <2>3. (u * v) % (2 * n) = 0
    BY <2>1, <1>7, <1>10, Multiples
  <2> QED
    BY <2>1, <2>2, <2>3
<1>12. u % (2 * n) = 0 \/ v % (2 * n) = 0
  BY <1>2, <1>3, <1>11, OddFactor
<1>13. ASSUME NEW w \in Nat, 0 < w, w < 2 * n
       PROVE  w % (2 * n) # 0
  <2> DEFINE m == 2 * n
  <2>1. m \in Nat \ {0} /\ w < m
    BY <1>13
  <2> HIDE DEF m
  <2> SUFFICES ASSUME w % m = 0 PROVE FALSE
    BY DEF m
  <2>2. PICK d \in Nat : w = m * d
    BY <2>1, Multiples
  <2>3. CASE d = 0
    BY <2>2, <2>3, <2>1, <1>13
  <2>4. CASE 0 < d
    <3>1. m * 0 + m <= m * d
      BY <2>1, <2>4, Larger
    <3> QED
      BY <3>1, <2>1, <2>2
  <2> QED
    BY <2>3, <2>4
<1> QED
  BY <1>2, <1>12, <1>13

\* So they are all the places there are.
LEMMA AllSitesProbed ==
  ASSUME NEW n \in Nat \ {0}, IsPowerOfTwo(n), NEW h \in Nat, NEW i \in 0..(n - 1)
  PROVE  \E s \in 0..(n - 1) : (h + Offset(s)) % n = i
<1> DEFINE S == 0..(n - 1)
           f == [s \in S |-> (h + Offset(s)) % n]
<1>1. \A s \in S : f[s] \in S
  <2> TAKE s \in S
  <2>1. Offset(s) \in Nat
    BY OffsetIsSum
  <2>2. h + Offset(s) \in Nat
    BY <2>1
  <2> QED
    BY <2>2, Division
<1>2. \A a, b \in S : f[a] = f[b] => a = b
  <2> TAKE a, b \in S
  <2> HAVE f[a] = f[b]
  <2>1. (h + Offset(a)) % n = (h + Offset(b)) % n
    OBVIOUS
  <2>2. ~(a < b) /\ ~(b < a)
    BY <2>1, SitesDiffer
  <2> QED
    BY <2>2
<1>3. f \in Injection(S, S)
  BY <1>1, <1>2 DEF Injection, IsInjective
<1>4. IsFiniteSet(S)
  BY FS_Interval
<1>5. f \in Surjection(S, S)
  BY <1>3, <1>4, FS_Injection
<1> QED
  BY <1>5 DEF Surjection

\* The probing of kh_get and kh_put does not stop before it has been everywhere.
LEMMA StepsProperties ==
  ASSUME NEW n \in Nat \ {0}, IsPowerOfTwo(n)
  PROVE  /\ Steps(n) \subseteq Nat
         /\ IsFiniteSet(Steps(n))
         /\ 0..(n - 1) \subseteq Steps(n)
         /\ \A s \in Steps(n) : 0..s \subseteq Steps(n)
         /\ Max(Steps(n)) \in Steps(n)
<1> DEFINE Z == {s \in 1..(2 * n) : Offset(s) % n = 0}
           e == Min(Z)
<1>1. 2 * n \in Z
  <2>1. Offset(2 * n) \in Nat /\ 2 * Offset(2 * n) = (2 * n) * (2 * n + 1)
    BY OffsetIsSum, 2 * n \in Nat
  <2>2. (2 * n) * (2 * n + 1) = 2 * (n * (2 * n + 1)) /\ n * (2 * n + 1) \in Nat
    BY Z3
  <2>3. Offset(2 * n) = n * (2 * n + 1)
    BY <2>1, <2>2
  <2>4. Offset(2 * n) % n = 0
    <3>1. PICK q \in Nat : q = 2 * n + 1
      OBVIOUS
    <3>2. Offset(2 * n) = n * q
      BY <2>3, <3>1
    <3>3. (n * q) % n = 0
      BY Multiples
    <3> QED
      BY <3>2, <3>3
  <2> QED
    BY <2>4
<1>2. e \in Z
  <2>1. Z \subseteq Nat /\ Z # {}
    BY <1>1
  <2> QED
    BY <2>1, MinOfNaturals
<1>3. e \in Nat /\ e >= 1 /\ Offset(e) % n = 0
  BY <1>2
<1>4. Steps(n) = 0..(e - 1)
  BY DEF Steps
<1> HIDE DEF e
<1>5. n <= e
  <2> SUFFICES ASSUME e < n PROVE FALSE
    BY <1>3
  <2>1. Offset(0) = 0
    BY DEF Offset
  <2>2. Offset(e) \in Nat
    BY <1>3, OffsetIsSum
  <2>3. (0 + Offset(0)) % n = (0 + Offset(e)) % n
    <3>1. 0 % n = 0
      OBVIOUS
    <3> QED
      BY <2>1, <2>2, <3>1, <1>3
  <2>4. 0 \in 0..(n - 1) /\ e \in 0..(n - 1) /\ 0 < e
    BY <1>3
  <2> QED
    BY <2>3, <2>4, SitesDiffer
<1>6. Max(0..(e - 1)) \in 0..(e - 1)
  <2>1. e - 1 \in 0..(e - 1) /\ \A y \in 0..(e - 1) : e - 1 >= y
    BY <1>3
  <2> QED
    BY <2>1 DEF Max
<1>7. IsFiniteSet(0..(e - 1))
  BY <1>3, FS_Interval
<1>8. 0..(e - 1) \subseteq Nat /\ 0..(n - 1) \subseteq 0..(e - 1)
  BY <1>3, <1>5
<1>9. \A s \in 0..(e - 1) : 0..s \subseteq 0..(e - 1)
  BY <1>3
<1> QED
  BY <1>4, <1>6, <1>7, <1>8, <1>9

-----------------------------------------------------------------------------
\* Sizes.

\* A bounded set of natural numbers has a greatest element, so Max finds one.
LEMMA MaxOfBounded ==
  ASSUME NEW n \in Nat, NEW S, S \subseteq 0..n, S # {}
  PROVE  Max(S) \in S
<1> DEFINE T == {n - s : s \in S}
<1>1. T \subseteq Nat /\ T # {}
  <2>1. \A s \in S : n - s \in Nat
    OBVIOUS
  <2> QED
    BY <2>1
<1>2. Min(T) \in T /\ \A t \in T : Min(T) <= t
  BY <1>1, MinOfNaturals
<1>3. PICK m \in S : Min(T) = n - m
  BY <1>2
<1>4. \A s \in S : n - m <= n - s
  BY <1>2, <1>3
<1>5. \A s \in S : s \in Int /\ m \in Int
  OBVIOUS
<1>6. \A s \in S : m >= s
  BY <1>4, <1>5
<1> QED
  BY <1>3, <1>6 DEF Max

\* No table is smaller than this.
LEMMA FourIsPower == IsPowerOfTwo(4)
<1>1. \A d \in 2..4 : d = 2 \/ d = 3 \/ d = 4
  OBVIOUS
<1>2. 2 % 2 = 0 /\ 4 % 3 # 0 /\ 4 % 2 = 0
  OBVIOUS
<1> QED
  BY <1>1, <1>2 DEF IsPowerOfTwo

\* kroundup32 finds a power of two.
LEMMA RoundupProperties ==
  ASSUME NEW a \in Nat
  PROVE  /\ Roundup(a) \in Nat /\ Roundup(a) >= 4 /\ Roundup(a) >= a
         /\ IsPowerOfTwo(Roundup(a))
         /\ \A m \in Nat : m >= 4 /\ m >= a /\ m <= 2 * a + 4 /\ IsPowerOfTwo(m) => Roundup(a) <= m
<1> DEFINE P(n) == {m \in 4..(2 * n + 4) : m >= n /\ IsPowerOfTwo(m)}
           Bad == {n \in Nat : P(n) = {}}
<1>1. Bad = {}
  <2> SUFFICES ASSUME Bad # {} PROVE FALSE
    OBVIOUS
  <2>1. PICK n \in Bad : \A k \in Bad : n <= k
    <3>1. Bad \subseteq Nat
      OBVIOUS
    <3> HIDE DEF Bad
    <3> QED
      BY <3>1, MinOfNaturals
  <2>2. n \in Nat /\ P(n) = {}
    OBVIOUS
  <2>4. n > 4
    <3> SUFFICES ASSUME n <= 4 PROVE FALSE
      BY <2>2
    <3>1. 4 \in P(n)
      BY <2>2, FourIsPower
    <3> QED
      BY <3>1, <2>2
  <2>5. n - 1 \in Nat /\ n - 1 \notin Bad
    <3>1. n - 1 \in Nat /\ ~(n <= n - 1)
      BY <2>2, <2>4
    <3> HIDE DEF Bad
    <3> QED
      BY <3>1, <2>1
  <2>6. PICK m \in P(n - 1) : TRUE
    BY <2>5
  <2>7. m \in Nat /\ m >= 4 /\ m <= 2 * (n - 1) + 4 /\ m >= n - 1 /\ IsPowerOfTwo(m)
    BY <2>2, <2>4
  <2>8. CASE m >= n
    <3>1. m \in P(n)
      BY <2>2, <2>7, <2>8
    <3> QED
      BY <3>1, <2>2
  <2>9. CASE m = n - 1
    <3>1. IsPowerOfTwo(2 * m)
      BY <2>7, DoublePower
    <3>2. 2 * m \in 4..(2 * n + 4) /\ 2 * m >= n
      BY <2>2, <2>4, <2>7, <2>9
    <3>3. 2 * m \in P(n)
      BY <3>1, <3>2
    <3> QED
      BY <3>3, <2>2
  <2> QED
    BY <2>2, <2>7, <2>8, <2>9
<1>2. P(a) # {} /\ P(a) \subseteq Nat
  BY <1>1
<1>3. Roundup(a) = Min(P(a))
  BY DEF Roundup
<1>4. Roundup(a) \in P(a) /\ \A m \in P(a) : Roundup(a) <= m
  BY <1>2, <1>3, MinOfNaturals
<1> QED
  BY <1>4

\* What n_buckets may be.
BucketCount(n) == n \in Nat /\ (n = 0 \/ (n >= 4 /\ IsPowerOfTwo(n)))

\* kh_put asks for one bucket less to have as many as there are, and for one more to
\* have twice as many.
LEMMA RoundupOfNeighbours ==
  ASSUME NEW n, BucketCount(n)
  PROVE  /\ n # 0 => Roundup(n - 1) = n
         /\ n = 0 => Roundup(n + 1) = 4
         /\ n # 0 => Roundup(n + 1) = 2 * n
<1>1. CASE n = 0
  <2>2. Roundup(1) \in Nat /\ Roundup(1) >= 4 /\ Roundup(1) <= 4
    BY FourIsPower, RoundupProperties
  <2> QED
    BY <1>1, <2>2
<1>2. CASE n # 0
  <2>1. n \in Nat /\ n >= 4 /\ IsPowerOfTwo(n) /\ n \in Nat \ {0}
    BY <1>2 DEF BucketCount
  <2>2. n - 1 \in Nat /\ n + 1 \in Nat
    BY <2>1
  <2>3. Roundup(n - 1) = n
    <3> DEFINE m == Roundup(n - 1)
    <3>1. m \in Nat /\ m >= 4 /\ m >= n - 1 /\ IsPowerOfTwo(m) /\ m <= n
      BY <2>1, <2>2, RoundupProperties
    <3> HIDE DEF m
    <3>2. m < n => 2 * m <= n
      BY <2>1, <3>1, PowersAreFar
    <3> SUFFICES m = n
      BY DEF m
    <3> QED
      BY <2>1, <3>1, <3>2
  <2>4. Roundup(n + 1) = 2 * n
    <3> DEFINE m == Roundup(n + 1)
    <3>1. IsPowerOfTwo(2 * n) /\ 2 * n \in Nat
      BY <2>1, DoublePower
    <3>2. m \in Nat /\ m >= n + 1 /\ IsPowerOfTwo(m) /\ m <= 2 * n
      BY <2>1, <2>2, <3>1, RoundupProperties
    <3> HIDE DEF m
    <3>3. 2 * n <= m
      BY <2>1, <3>2, PowersAreFar
    <3> SUFFICES m = 2 * n
      BY DEF m
    <3> QED
      BY <2>1, <3>2, <3>3
  <2> QED
    BY <1>2, <2>3, <2>4
<1> QED
  BY <1>1, <1>2

\* A table that may not be fuller than upper_bound is not full, and twice the
\* buckets take more.
LEMMA UpperBounds ==
  ASSUME NEW n \in Nat
  PROVE  /\ upper_bound(n) \in Nat /\ upper_bound(0) = 0
         /\ n >= 4 => /\ upper_bound(n) < n
                      /\ upper_bound(n) < upper_bound(2 * n)
                      /\ n < 2 * upper_bound(n)
BY DEF upper_bound

-----------------------------------------------------------------------------
\* Sound tables.

Buckets == {Empty, Deleted} \cup {Entry(key, val) : key \in Keys, val \in Vals}

UsedIn(b)  == {i \in DOMAIN b : IsUsed(b[i])}
TakenIn(b) == {i \in DOMAIN b : b[i] # Empty}

\* Bucket i comes up when key is looked for, before any empty bucket.
Reached(b, key, n, i) ==
  \E s \in Steps(n) :
    /\ Site(key, n, s) = i
    /\ \A r \in 0..(s - 1) : b[Site(key, n, r)] # Empty

\* Every entry is reached, and no key is there twice.
Sound(b, n) ==
  /\ b \in [0..(n - 1) -> Buckets]
  /\ \A i \in 0..(n - 1) : \A key \in b[i].key : Reached(b, key, n, i)
  /\ \A i, j \in 0..(n - 1) : b[i].key \cap b[j].key # {} => i = j

\* A bucket is empty, deleted or used, and by one key.
LEMMA BucketKinds ==
  /\ ~IsUsed(Empty) /\ ~IsUsed(Deleted) /\ Empty # Deleted
  /\ Empty.key = {} /\ Deleted.key = {}
  /\ Empty \in Buckets /\ Deleted \in Buckets
  /\ \A key, val : /\ Entry(key, val).key = {key} /\ Entry(key, val).val = val
                   /\ IsUsed(Entry(key, val))
                   /\ Entry(key, val) # Empty /\ Entry(key, val) # Deleted
                   /\ key \in Keys /\ val \in Vals => Entry(key, val) \in Buckets
  /\ \A b \in Buckets : IsUsed(b) <=> b \notin {Empty, Deleted}
  /\ \A b \in Buckets : IsUsed(b) =>
       \E key \in Keys, val \in Vals : b = Entry(key, val)
<1>1. /\ ~IsUsed(Empty) /\ ~IsUsed(Deleted) /\ Empty # Deleted
      /\ Empty.key = {} /\ Deleted.key = {}
      /\ Empty \in Buckets /\ Deleted \in Buckets
  BY DEF IsUsed, Empty, Deleted, Buckets
<1>2. ASSUME NEW key, NEW val
      PROVE  /\ Entry(key, val).key = {key} /\ Entry(key, val).val = val
             /\ IsUsed(Entry(key, val))
  BY DEF IsUsed, Entry
<1>3. \A key, val : Entry(key, val) # Empty /\ Entry(key, val) # Deleted
  BY <1>1, <1>2
<1>4. \A key \in Keys, val \in Vals : Entry(key, val) \in Buckets
  BY DEF Buckets
<1>5. \A b \in Buckets : b \in {Empty, Deleted} \/ \E key \in Keys, val \in Vals : b = Entry(key, val)
  BY DEF Buckets
<1> QED
  BY <1>1, <1>2, <1>3, <1>4, <1>5

\* Every step of the probing is at some bucket.
LEMMA SiteInRange ==
  ASSUME hash \in [Keys -> Nat], NEW key \in Keys, NEW n \in Nat \ {0}, NEW s \in Nat
  PROVE  Site(key, n, s) \in 0..(n - 1)
<1>1. hash[key] + Offset(s) \in Nat
  BY OffsetIsSum
<1> QED
  BY <1>1, Division DEF Site

\* The places of a table can be counted.
LEMMA PlacesAreFinite ==
  ASSUME NEW n \in Nat, NEW S, NEW b \in [0..(n - 1) -> S]
  PROVE  /\ DOMAIN b = 0..(n - 1)
         /\ \A T \in SUBSET (0..(n - 1)) :
              /\ IsFiniteSet(T) /\ Cardinality(T) \in Nat /\ Cardinality(T) <= n
              /\ Cardinality(T) = n => T = 0..(n - 1)
         /\ UsedIn(b) \subseteq 0..(n - 1) /\ TakenIn(b) \subseteq 0..(n - 1)
<1>1. IsFiniteSet(0..(n - 1)) /\ Cardinality(0..(n - 1)) = n
  BY FS_Interval
<1>2. ASSUME NEW T \in SUBSET (0..(n - 1))
      PROVE  /\ IsFiniteSet(T) /\ Cardinality(T) \in Nat /\ Cardinality(T) <= n
             /\ Cardinality(T) = n => T = 0..(n - 1)
  <2>1. /\ IsFiniteSet(T) /\ Cardinality(T) <= Cardinality(0..(n - 1))
        /\ Cardinality(T) = Cardinality(0..(n - 1)) => 0..(n - 1) = T
    BY <1>1, FS_Subset
  <2>2. Cardinality(T) \in Nat
    BY <2>1, FS_CardinalityType
  <2> QED
    BY <1>1, <2>1, <2>2
<1> QED
  BY <1>2 DEF UsedIn, TakenIn

\* In a table that is not full an empty bucket comes up for every key.
LEMMA EmptyIsReached ==
  ASSUME hash \in [Keys -> Nat], NEW key \in Keys,
         NEW n \in Nat \ {0}, IsPowerOfTwo(n), NEW b \in [0..(n - 1) -> Buckets],
         Cardinality(TakenIn(b)) < n
  PROVE  \E s \in Steps(n) : b[Site(key, n, s)] = Empty
<1>1. PICK i \in 0..(n - 1) : b[i] = Empty
  <2>1. TakenIn(b) \subseteq 0..(n - 1) /\ TakenIn(b) # 0..(n - 1) /\ DOMAIN b = 0..(n - 1)
    <3>1. TakenIn(b) \subseteq 0..(n - 1) /\ DOMAIN b = 0..(n - 1)
      BY PlacesAreFinite
    <3>3. Cardinality(0..(n - 1)) = n
      BY FS_Interval
    <3>2. Cardinality(TakenIn(b)) # n
      OBVIOUS
    <3> QED
      BY <3>1, <3>2, <3>3
  <2> QED
    BY <2>1 DEF TakenIn
<1>2. PICK s \in 0..(n - 1) : (hash[key] + Offset(s)) % n = i
  BY AllSitesProbed, hash[key] \in Nat
<1>3. s \in Steps(n)
  BY StepsProperties
<1> QED
  BY <1>1, <1>2, <1>3 DEF Site

\* Where the probing for a key may stop first.
StopsIn(b, key, n) ==
  {s \in Steps(n) : b[Site(key, n, s)] = Empty \/ b[Site(key, n, s)].key = {key}}

\* If the key is in a sound table, that is at its bucket.
LEMMA FirstStopIsKey ==
  ASSUME hash \in [Keys -> Nat], NEW key \in Keys, NEW n \in Nat \ {0}, IsPowerOfTwo(n),
         NEW b, Sound(b, n), NEW i \in 0..(n - 1), key \in b[i].key
  PROVE  /\ StopsIn(b, key, n) # {}
         /\ Site(key, n, Min(StopsIn(b, key, n))) = i
         /\ b[i].key = {key} /\ IsUsed(b[i])
<1> DEFINE m == Min(StopsIn(b, key, n))
<1>1. b[i].key = {key} /\ IsUsed(b[i]) /\ b[i] # Empty
  <2>1. b[i] \in Buckets /\ IsUsed(b[i])
    BY DEF Sound, IsUsed
  <2> QED
    BY <2>1, BucketKinds
<1>2. PICK s \in Steps(n) : /\ Site(key, n, s) = i
                            /\ \A r \in 0..(s - 1) : b[Site(key, n, r)] # Empty
  BY DEF Sound, Reached
<1>3. Steps(n) \subseteq Nat
  BY StepsProperties
<1>4. s \in StopsIn(b, key, n) /\ StopsIn(b, key, n) \subseteq Nat
  BY <1>1, <1>2, <1>3 DEF StopsIn
<1>5. m \in StopsIn(b, key, n) /\ m <= s
  BY <1>4, MinOfNaturals
<1> HIDE DEF m
<1>6. m \in Nat /\ s \in Nat /\ Site(key, n, m) \in 0..(n - 1)
  BY <1>3, <1>4, <1>5, SiteInRange
<1>7. Site(key, n, m) = i
  <2>1. CASE m = s
    BY <2>1, <1>2
  <2>2. CASE m < s
    <3>1. m \in 0..(s - 1)
      BY <2>2, <1>6
    <3>2. b[Site(key, n, m)].key = {key}
      BY <3>1, <1>2, <1>5 DEF StopsIn
    <3> QED
      BY <3>2, <1>1, <1>6 DEF Sound
  <2> QED
    BY <2>1, <2>2, <1>5, <1>6
<1> QED
  BY <1>1, <1>4, <1>7 DEF m

\* So kh_get finds what is in a sound table.
LEMMA GetFinds ==
  ASSUME hash \in [Keys -> Nat], BucketCount(n_buckets), Sound(bucket, n_buckets),
         NEW i \in 0..(n_buckets - 1), NEW key \in bucket[i].key
  PROVE  kh_get(key) = i /\ key \in Keys
<1>1. n_buckets \in Nat \ {0} /\ IsPowerOfTwo(n_buckets)
  BY DEF BucketCount
<1>2. key \in Keys
  <2>1. bucket[i] \in Buckets /\ IsUsed(bucket[i])
    BY DEF Sound, IsUsed
  <2>2. PICK k \in Keys, v \in Vals : bucket[i] = Entry(k, v)
    BY <2>1, BucketKinds
  <2> QED
    BY <2>2, BucketKinds
<1>3. Stops(key) = StopsIn(bucket, key, n_buckets)
  BY DEF Stops, StopsIn
<1>4. /\ Stops(key) # {} /\ Site(key, n_buckets, Min(Stops(key))) = i
      /\ IsUsed(bucket[i])
  BY <1>1, <1>2, <1>3, FirstStopIsKey
<1> QED
  BY <1>1, <1>2, <1>4 DEF kh_get

\* Who is reached is reached still when no bucket has become empty.
LEMMA StillReached ==
  ASSUME hash \in [Keys -> Nat], NEW n \in Nat \ {0}, IsPowerOfTwo(n), NEW b, NEW c,
         \A i \in 0..(n - 1) : c[i] = Empty => b[i] = Empty,
         NEW key \in Keys, NEW i, Reached(b, key, n, i)
  PROVE  Reached(c, key, n, i)
<1>1. PICK s \in Steps(n) : /\ Site(key, n, s) = i
                            /\ \A r \in 0..(s - 1) : b[Site(key, n, r)] # Empty
  BY DEF Reached
<1>2. s \in Nat
  BY StepsProperties
<1>3. \A r \in 0..(s - 1) : Site(key, n, r) \in 0..(n - 1)
  BY <1>2, SiteInRange
<1>4. \A r \in 0..(s - 1) : c[Site(key, n, r)] # Empty
  BY <1>1, <1>3
<1> QED
  BY <1>1, <1>4 DEF Reached

\* What a sound table has for keys.
LEMMA KeysOfSound ==
  ASSUME NEW n \in Nat, NEW b, Sound(b, n), NEW i \in 0..(n - 1)
  PROVE  b[i] \in Buckets /\ b[i].key \subseteq Keys /\ (b[i].key # {} <=> IsUsed(b[i]))
<1>1. b[i] \in Buckets
  BY DEF Sound
<1>2. CASE IsUsed(b[i])
  <2>1. PICK k \in Keys, v \in Vals : b[i] = Entry(k, v)
    BY <1>1, <1>2, BucketKinds
  <2>2. b[i].key = {k}
    BY <2>1, BucketKinds
  <2> QED
    BY <2>1, <2>2, <1>1, <1>2
<1>3. CASE ~IsUsed(b[i])
  BY <1>1, <1>3 DEF IsUsed
<1> QED
  BY <1>2, <1>3

\* The entry of a key may be written where the key comes up and nowhere else is.
LEMMA WrittenIsSound ==
  ASSUME hash \in [Keys -> Nat], NEW n \in Nat \ {0}, IsPowerOfTwo(n),
         NEW b, Sound(b, n), NEW x \in 0..(n - 1), NEW key \in Keys, NEW val \in Vals,
         \A i \in 0..(n - 1) : key \in b[i].key => i = x,
         b[x].key \subseteq {key}, Reached(b, key, n, x),
         NEW c \in [0..(n - 1) -> Buckets], c[x] = Entry(key, val),
         \A i \in 0..(n - 1) : i # x => c[i] = b[i]
  PROVE  Sound(c, n) /\ UsedIn(c) = UsedIn(b) \cup {x} /\ TakenIn(c) = TakenIn(b) \cup {x}
<1>1. b \in [0..(n - 1) -> Buckets]
  BY DEF Sound
<1>2. \A i \in 0..(n - 1) : i # x => c[i] = b[i]
  OBVIOUS
<1>3. c[x].key = {key} /\ IsUsed(c[x]) /\ c[x] # Empty
  BY BucketKinds
<1>4. \A i \in 0..(n - 1) : c[i] = Empty => b[i] = Empty
  BY <1>2, <1>3
<1>5. ASSUME NEW i \in 0..(n - 1), NEW k \in c[i].key
      PROVE  Reached(c, k, n, i)
  <2>1. k \in Keys /\ Reached(b, k, n, i)
    <3>1. CASE i = x
      BY <3>1, <1>3
    <3>2. CASE i # x
      BY <3>2, <1>2, KeysOfSound DEF Sound
    <3> QED
      BY <3>1, <3>2
  <2> QED
    BY <2>1, <1>4, StillReached
<1>6. ASSUME NEW i \in 0..(n - 1), NEW j \in 0..(n - 1), c[i].key \cap c[j].key # {}
      PROVE  i = j
  <2>1. CASE i = x \/ j = x
    BY <2>1, <1>2, <1>3, <1>6
  <2>2. CASE i # x /\ j # x
    BY <2>2, <1>2, <1>6 DEF Sound
  <2> QED
    BY <2>1, <2>2
<1>7. Sound(c, n)
  BY <1>2, <1>5, <1>6 DEF Sound
<1>8. UsedIn(c) = UsedIn(b) \cup {x} /\ TakenIn(c) = TakenIn(b) \cup {x}
  BY <1>1, <1>2, <1>3 DEF UsedIn, TakenIn
<1> QED
  BY <1>7, <1>8

\* kh_put finds such a bucket: that of the key, or one that comes up before the
\* probing ends.
LEMMA PutSiteProperties ==
  ASSUME hash \in [Keys -> Nat], NEW t, t.n \in Nat \ {0}, IsPowerOfTwo(t.n),
         Sound(t.buckets, t.n), Cardinality(TakenIn(t.buckets)) < t.n, NEW key \in Keys
  PROVE  LET x == PutSite(t, key)
             b == t.buckets
         IN  /\ x \in 0..(t.n - 1)
             /\ \A i \in 0..(t.n - 1) : key \in b[i].key => i = x
             /\ b[x].key \subseteq {key}
             /\ Reached(b, key, t.n, x)
<1> DEFINE n == t.n
           b == t.buckets
           x == PutSite(t, key)
           Spot(s) == b[Site(key, n, s)]
           stops == StopsIn(b, key, n)
           end == Min(stops)
           free == {s \in 0..(end - 1) : Spot(s) = Deleted}
<1>1. n \in Nat \ {0} /\ IsPowerOfTwo(n) /\ Sound(b, n) /\ b \in [0..(n - 1) -> Buckets]
  BY DEF Sound
<1>2. stops # {}
  BY <1>1, EmptyIsReached DEF StopsIn
<1>3. x = IF free = {} \/ Spot(end) # Empty THEN Site(key, n, end)
          ELSE Site(key, n, Max(free))
  BY <1>2 DEF PutSite, StopsIn
<1>4. Steps(n) \subseteq Nat /\ \A s \in Steps(n) : 0..s \subseteq Steps(n)
  BY <1>1, StepsProperties
<1>5. end \in stops /\ end \in Nat /\ end \in Steps(n) /\ \A s \in stops : end <= s
  <2>1. stops \subseteq Nat /\ stops \subseteq Steps(n)
    BY <1>4 DEF StopsIn
  <2> HIDE DEF stops
  <2> QED
    BY <2>1, <1>2, MinOfNaturals
<1>6. \A s \in stops : Spot(s) = Empty \/ Spot(s).key = {key}
  BY DEF StopsIn
<1>7. \A s \in 0..(end - 1) : s \in Steps(n) /\ Spot(s) # Empty /\ Spot(s).key # {key}
  <2> SUFFICES ASSUME NEW s \in 0..(end - 1)
               PROVE  s \in Steps(n) /\ Spot(s) # Empty /\ Spot(s).key # {key}
    OBVIOUS
  <2>1. s \in 0..end /\ ~(end <= s)
    BY <1>5
  <2>2. s \in Steps(n) /\ s \notin stops
    BY <2>1, <1>4, <1>5
  <2> QED
    BY <2>2 DEF StopsIn
<1>8. \A s \in Steps(n) : Site(key, n, s) \in 0..(n - 1)
  BY <1>1, <1>4, SiteInRange
<1> HIDE DEF n, b, x, stops, end
<1>9. CASE Spot(end) # Empty
  <2>1. x = Site(key, n, end) /\ Spot(end).key = {key}
    BY <1>3, <1>5, <1>6, <1>9
  <2>2. x \in 0..(n - 1) /\ b[x].key = {key}
    BY <2>1, <1>5, <1>8
  <2>3. Reached(b, key, n, x) /\ \A i \in 0..(n - 1) : key \in b[i].key => i = x
    BY <2>2, <1>1 DEF Sound
  <2> QED
    BY <2>2, <2>3 DEF n, b, x
<1>10. CASE Spot(end) = Empty
  <2>1. \A i \in 0..(n - 1) : key \notin b[i].key
    <3> SUFFICES ASSUME NEW i \in 0..(n - 1), key \in b[i].key
                 PROVE  FALSE
      OBVIOUS
    <3>1. Site(key, n, end) = i /\ IsUsed(b[i])
      BY <1>1, FirstStopIsKey DEF end, stops
    <3> QED
      BY <3>1, <1>10, BucketKinds
  <2>2. PICK s \in Steps(n) : /\ x = Site(key, n, s) /\ Spot(s) \in {Empty, Deleted}
                              /\ \A r \in 0..(s - 1) : r \in 0..(end - 1)
    <3>1. CASE free = {}
      BY <3>1, <1>3, <1>5, <1>10
    <3>2. CASE free # {}
      <4>1. x = Site(key, n, Max(free))
        BY <3>2, <1>3, <1>10
      <4>2. free \subseteq 0..end
        BY <1>5
      <4>3. Max(free) \in free
        <5> HIDE DEF free
        <5> QED
          BY <3>2, <4>2, <1>5, MaxOfBounded
      <4>4. Max(free) \in 0..(end - 1) /\ Spot(Max(free)) = Deleted
        BY <4>3
      <4>5. \A r \in 0..(Max(free) - 1) : r \in 0..(end - 1)
        BY <4>4, <1>5
      <4> QED
        BY <4>1, <4>4, <4>5, <1>7
    <3> QED
      BY <3>1, <3>2
  <2>3. Reached(b, key, n, x)
    BY <2>2, <1>7 DEF Reached
  <2>4. x \in 0..(n - 1) /\ b[x].key \subseteq {key}
    BY <2>2, <1>8, BucketKinds
  <2> QED
    BY <2>1, <2>3, <2>4 DEF n, b, x
<1> QED
  BY <1>9, <1>10

-----------------------------------------------------------------------------
\* Rehashing.

Entries(b) == {b[i] : i \in UsedIn(b)}
InHand(hand) == IF IsUsed(hand) THEN {hand} ELSE {}
Count(hand) == IF IsUsed(hand) THEN 1 ELSE 0

NoKeyTwice(b) == \A i, j \in DOMAIN b : b[i].key \cap b[j].key # {} => i = j

RehashType(n) == [old : [0..(n_buckets - 1) -> Buckets], new : [0..(n - 1) -> Buckets],
                  hand : Buckets, j : Nat]

\* What is between the old and the new table, wherever the loop is: every entry is in
\* one of them or has just been taken out, and the new table is sound already.
Rehashing(t, n) ==
  /\ t \in RehashType(n)
  /\ Sound(t.new, n)
  /\ \A i \in 0..(n - 1) : t.new[i] # Deleted
  /\ \A i \in 0..(n_buckets - 1) : i < t.j => ~IsUsed(t.old[i])
  /\ t.j > n_buckets => ~IsUsed(t.hand)
  /\ NoKeyTwice(t.old)
  /\ \A i \in 0..(n_buckets - 1) : /\ t.old[i].key \cap t.hand.key = {}
                                   /\ \A x \in 0..(n - 1) : t.old[i].key \cap t.new[x].key = {}
  /\ \A x \in 0..(n - 1) : t.hand.key \cap t.new[x].key = {}
  /\ Entries(t.old) \cup Entries(t.new) \cup InHand(t.hand) = Entries(bucket)
  /\ Cardinality(UsedIn(t.old)) + Cardinality(UsedIn(t.new)) + Count(t.hand) = size

\* What was in bucket i of the old table is in the hand, if there was something.
Taken(t, u, n, i) ==
  /\ u \in RehashType(n) /\ u.new = t.new /\ u.j = t.j
  /\ \A x \in 0..(n_buckets - 1) : u.old[x].key \subseteq t.old[x].key
  /\ i \in 0..(n_buckets - 1) => ~IsUsed(u.old[i])
  /\ i \notin 0..(n_buckets - 1) => ~IsUsed(u.hand)
  /\ NoKeyTwice(u.old)
  /\ \A x \in 0..(n_buckets - 1) : u.old[x].key \cap u.hand.key = {}
  /\ u.hand.key # {} => \E x \in 0..(n_buckets - 1) : u.hand = t.old[x]
  /\ Entries(u.old) \cup InHand(u.hand) = Entries(t.old)
  /\ Cardinality(UsedIn(u.old)) + Count(u.hand) = Cardinality(UsedIn(t.old))

\* Taking something out of the old table.
LEMMA TakenOutProperties ==
  ASSUME n_buckets \in Nat, NEW n \in Nat, NEW t \in RehashType(n), NoKeyTwice(t.old),
         NEW i \in Nat
  PROVE  Taken(t, TakenOut(t, i), n, i)
<1> DEFINE u == TakenOut(t, i)
           D == 0..(n_buckets - 1)
<1>1. /\ t.old \in [D -> Buckets] /\ DOMAIN t.old = D /\ t.new \in [0..(n - 1) -> Buckets]
      /\ t.hand \in Buckets /\ t.j \in Nat
  BY DEF RehashType
<1>2. /\ IsFiniteSet(UsedIn(t.old)) /\ Cardinality(UsedIn(t.old)) \in Nat
      /\ UsedIn(t.old) \subseteq D
  <2>1. UsedIn(t.old) \subseteq D
    BY <1>1, PlacesAreFinite
  <2> QED
    BY <1>1, <2>1, PlacesAreFinite
<1>3. CASE i \in D /\ IsUsed(t.old[i])
  <2>1. /\ u.old = [t.old EXCEPT ![i] = Deleted] /\ u.hand = t.old[i]
        /\ u.new = t.new /\ u.j = t.j /\ u \in RehashType(n)
    BY <1>1, <1>3, BucketKinds DEF TakenOut, RehashType
  <2> HIDE DEF u
  <2>2. /\ DOMAIN u.old = D /\ u.old[i] = Deleted
        /\ \A x \in D : x # i => u.old[x] = t.old[x]
    BY <1>1, <1>3, <2>1
  <2>3. ~IsUsed(u.old[i]) /\ u.old[i].key = {}
    BY <2>2, BucketKinds
  <2>4. NoKeyTwice(u.old)
    BY <1>1, <2>2, <2>3 DEF NoKeyTwice
  <2>5. \A x \in D : u.old[x].key \subseteq t.old[x].key
    BY <2>2, <2>3
  <2>6. \A x \in D : u.old[x].key \cap u.hand.key = {}
    BY <1>1, <1>3, <2>1, <2>2, <2>3 DEF NoKeyTwice
  <2>7. UsedIn(u.old) = UsedIn(t.old) \ {i} /\ i \in UsedIn(t.old)
    BY <1>1, <1>3, <2>2, <2>3 DEF UsedIn
  <2>8. InHand(u.hand) = {t.old[i]} /\ Count(u.hand) = 1
    BY <1>3, <2>1 DEF InHand, Count
  <2>9. Entries(u.old) \cup {t.old[i]} = Entries(t.old)
    BY <1>2, <2>2, <2>7 DEF Entries
  <2>10. Cardinality(UsedIn(u.old)) = Cardinality(UsedIn(t.old)) - 1
    BY <1>2, <2>7, FS_RemoveElement, ZenonT(60)
  <2>11. \E x \in D : u.hand = t.old[x]
    BY <1>3, <2>1
  <2> QED
    BY <1>2, <1>3, <2>1, <2>3, <2>4, <2>5, <2>6, <2>8, <2>9, <2>10, <2>11 DEF u, Taken
<1>4. CASE ~(i \in D /\ IsUsed(t.old[i]))
  <2>1. /\ u.old = t.old /\ u.hand = Empty /\ u.new = t.new /\ u.j = t.j /\ u \in RehashType(n)
    BY <1>1, <1>4, BucketKinds DEF TakenOut, RehashType
  <2> HIDE DEF u
  <2>2. /\ ~IsUsed(u.hand) /\ u.hand.key = {} /\ InHand(u.hand) = {} /\ Count(u.hand) = 0
    BY <2>1, BucketKinds DEF InHand, Count
  <2> QED
    BY <1>2, <1>4, <2>1, <2>2 DEF u, Taken
<1> QED
  BY <1>3, <1>4

\* What has been taken out finds an empty bucket in the new table, and is reached there.
LEMMA FreeSiteProperties ==
  ASSUME hash \in [Keys -> Nat], NEW n \in Nat \ {0}, IsPowerOfTwo(n), NEW b, Sound(b, n),
         Cardinality(TakenIn(b)) < n, NEW key \in Keys, NEW val \in Vals
  PROVE  LET x == FreeSite(b, Entry(key, val), n)
         IN  x \in 0..(n - 1) /\ b[x] = Empty /\ Reached(b, key, n, x)
<1> DEFINE F == {s \in Steps(n) : b[Site(key, n, s)] = Empty}
           m == Min(F)
           x == FreeSite(b, Entry(key, val), n)
<1>1. Entry(key, val).key = {key}
  BY BucketKinds
<1>2. x = Site(key, n, m)
  <2>1. (CHOOSE k \in {key} : TRUE) = key
    OBVIOUS
  <2> QED
    BY <1>1, <2>1 DEF FreeSite
<1>3. F # {}
  BY EmptyIsReached DEF Sound
<1>4. Steps(n) \subseteq Nat /\ \A s \in Steps(n) : 0..s \subseteq Steps(n)
  BY StepsProperties
<1>5. m \in F /\ \A s \in F : m <= s
  BY <1>3, <1>4, MinOfNaturals
<1>6. m \in Steps(n) /\ m \in Nat /\ b[Site(key, n, m)] = Empty
  BY <1>4, <1>5
<1>7. \A r \in 0..(m - 1) : b[Site(key, n, r)] # Empty
  <2> SUFFICES ASSUME NEW r \in 0..(m - 1), b[Site(key, n, r)] = Empty
               PROVE  FALSE
    OBVIOUS
  <2>1. r \in 0..m /\ ~(m <= r)
    BY <1>6
  <2>2. r \in F
    BY <1>4, <1>6, <2>1
  <2> QED
    BY <1>5, <2>1, <2>2
<1> HIDE DEF m
<1>8. Site(key, n, m) \in 0..(n - 1)
  BY <1>6, SiteInRange
<1> QED
  BY <1>2, <1>6, <1>7, <1>8 DEF Reached

\* A move keeps all that, and it places an entry or is done with a bucket.
LEMMA MoveKeepsRehashing ==
  ASSUME hash \in [Keys -> Nat], n_buckets \in Nat, size \in Nat,
         NEW n \in Nat \ {0}, IsPowerOfTwo(n), size <= n,
         NEW t, Rehashing(t, n)
  PROVE  LET u == Moved(t, n)
         IN  /\ Rehashing(u, n)
             /\ u.j + Cardinality(UsedIn(u.new)) = t.j + Cardinality(UsedIn(t.new)) + 1
<1> DEFINE D == 0..(n_buckets - 1)
           E == 0..(n - 1)
           u == Moved(t, n)
<1>1. /\ t \in RehashType(n) /\ t.old \in [D -> Buckets] /\ DOMAIN t.old = D
      /\ t.new \in [E -> Buckets] /\ DOMAIN t.new = E /\ t.hand \in Buckets /\ t.j \in Nat
  BY DEF Rehashing, RehashType
<1>2. /\ IsFiniteSet(UsedIn(t.new)) /\ Cardinality(UsedIn(t.new)) \in Nat
      /\ UsedIn(t.new) \subseteq E /\ Cardinality(UsedIn(t.old)) \in Nat
  <2>1. UsedIn(t.new) \subseteq E /\ UsedIn(t.old) \subseteq D
    BY <1>1, PlacesAreFinite
  <2>2. IsFiniteSet(UsedIn(t.new)) /\ Cardinality(UsedIn(t.new)) \in Nat
    BY <1>1, <2>1, PlacesAreFinite
  <2>3. Cardinality(UsedIn(t.old)) \in Nat
    BY <1>1, <2>1, PlacesAreFinite
  <2> QED
    BY <2>1, <2>2, <2>3
<1>3. CASE IsUsed(t.hand)
  <2> DEFINE i == FreeSite(t.new, t.hand, n)
             v == TakenOut(t, i)
  <2>1. PICK key \in Keys, val \in Vals : t.hand = Entry(key, val)
    BY <1>1, <1>3, BucketKinds
  <2>2. t.hand.key = {key}
    BY <2>1, BucketKinds
  <2>3. Cardinality(TakenIn(t.new)) < n
    <3>1. TakenIn(t.new) = UsedIn(t.new)
      BY <1>1, BucketKinds DEF TakenIn, UsedIn, Rehashing
    <3>2. Count(t.hand) = 1
      BY <1>3 DEF Count
    <3>3. Cardinality(UsedIn(t.old)) + Cardinality(UsedIn(t.new)) + Count(t.hand) = size
      BY DEF Rehashing
    <3> QED
      BY <1>2, <3>1, <3>2, <3>3
  <2>4. i \in E /\ t.new[i] = Empty /\ Reached(t.new, key, n, i)
    BY <2>1, <2>3, FreeSiteProperties DEF Rehashing
  <2>5. u = [v EXCEPT !.new[i] = t.hand]
    BY <1>3 DEF Moved
  <2> HIDE DEF i
  <2>6. /\ v \in RehashType(n) /\ v.new = t.new /\ v.j = t.j
        /\ \A x \in D : v.old[x].key \subseteq t.old[x].key
        /\ NoKeyTwice(v.old)
        /\ \A x \in D : v.old[x].key \cap v.hand.key = {}
        /\ v.hand.key # {} => \E x \in D : v.hand = t.old[x]
        /\ Entries(v.old) \cup InHand(v.hand) = Entries(t.old)
        /\ Cardinality(UsedIn(v.old)) + Count(v.hand) = Cardinality(UsedIn(t.old))
    <3>1. i \in Nat /\ NoKeyTwice(t.old)
      BY <2>4 DEF Rehashing
    <3>2. Taken(t, v, n, i)
      BY <1>1, <3>1, TakenOutProperties
    <3> HIDE DEF v
    <3> QED
      BY <3>2 DEF Taken
  <2> HIDE DEF v, u
  <2>7. /\ u.old = v.old /\ u.hand = v.hand /\ u.j = t.j
        /\ u.new = [t.new EXCEPT ![i] = Entry(key, val)]
        /\ u \in RehashType(n)
    <3> DEFINE new == [t.new EXCEPT ![i] = Entry(key, val)]
    <3>1. /\ v = [old |-> v.old, new |-> t.new, hand |-> v.hand, j |-> t.j]
          /\ v.old \in [D -> Buckets] /\ v.hand \in Buckets
      BY <2>6 DEF RehashType
    <3>2. new \in [E -> Buckets]
      BY <1>1, <2>4, BucketKinds
    <3>3. u = [v EXCEPT !.new = new]
      BY <2>1, <2>5, <3>1
    <3> HIDE DEF new
    <3>4. u = [old |-> v.old, new |-> new, hand |-> v.hand, j |-> t.j]
      BY <3>1, <3>3
    <3>5. u \in RehashType(n)
      BY <1>1, <3>1, <3>2, <3>4 DEF RehashType
    <3> QED
      BY <3>4, <3>5 DEF new
  <2>8. /\ Sound(u.new, n)
        /\ UsedIn(u.new) = UsedIn(t.new) \cup {i}
    <3>1. \A x \in E : key \notin t.new[x].key
      BY <2>2 DEF Rehashing
    <3>2. t.new[i].key \subseteq {key}
      BY <2>4, BucketKinds
    <3>3. /\ t.new \in [E -> Buckets] /\ u.new \in [E -> Buckets]
          /\ u.new[i] = Entry(key, val) /\ \A x \in E : x # i => u.new[x] = t.new[x]
      BY <1>1, <2>4, <2>7, BucketKinds DEF RehashType
    <3>4. Sound(t.new, n) /\ hash \in [Keys -> Nat] /\ n \in Nat \ {0} /\ IsPowerOfTwo(n)
      BY DEF Rehashing
    <3>5. \A x \in 0..(n - 1) : key \in t.new[x].key => x = i
      BY <3>1
    <3>6. Reached(t.new, key, n, i) /\ i \in 0..(n - 1)
      BY <2>4
    <3> DEFINE old == t.new
               new == u.new
    <3>7. /\ Sound(old, n) /\ old[i].key \subseteq {key} /\ Reached(old, key, n, i)
          /\ \A x \in 0..(n - 1) : key \in old[x].key => x = i
          /\ new \in [0..(n - 1) -> Buckets] /\ new[i] = Entry(key, val)
          /\ \A x \in 0..(n - 1) : x # i => new[x] = old[x]
      BY <3>2, <3>3, <3>4, <3>5, <3>6
    <3> HIDE DEF old, new
    <3>8. Sound(new, n) /\ UsedIn(new) = UsedIn(old) \cup {i}
      BY <3>4, <3>6, <3>7, WrittenIsSound
    <3> QED
      BY <3>8 DEF old, new
  <2>9. /\ u.new[i] = t.hand /\ \A x \in E : x # i => u.new[x] = t.new[x]
        /\ DOMAIN u.new = E
    BY <1>1, <2>1, <2>4, <2>7
  <2>10. \A x \in E : u.new[x] # Deleted
    BY <2>1, <2>9, BucketKinds DEF Rehashing
  <2>11. t.j <= n_buckets
    BY <1>1, <1>3 DEF Rehashing
  <2>12. \A x \in D : x < u.j => ~IsUsed(u.old[x])
    <3> SUFFICES ASSUME NEW x \in D, x < u.j PROVE ~IsUsed(u.old[x])
      OBVIOUS
    <3>1. ~IsUsed(t.old[x]) /\ u.old[x].key \subseteq t.old[x].key
      BY <2>6, <2>7 DEF Rehashing
    <3> QED
      BY <3>1 DEF IsUsed
  <2>13. \A x \in D : t.old[x].key \cap t.hand.key = {}
                       /\ \A y \in E : t.old[x].key \cap t.new[y].key = {}
    BY DEF Rehashing
  <2>14. \A x \in D, y \in E : u.old[x].key \cap u.new[y].key = {}
    BY <2>6, <2>7, <2>9, <2>13
  <2>15. \A y \in E : u.hand.key \cap u.new[y].key = {}
    BY <2>6, <2>7, <2>9, <2>13
  <2>16. Entries(u.new) = Entries(t.new) \cup {t.hand}
    <3>1. i \notin UsedIn(t.new)
      BY <2>4, BucketKinds DEF UsedIn
    <3> QED
      BY <1>2, <2>8, <2>9, <3>1 DEF Entries
  <2>17. Entries(u.old) \cup Entries(u.new) \cup InHand(u.hand) = Entries(bucket)
    <3>1. Entries(t.old) \cup Entries(t.new) \cup {t.hand} = Entries(bucket)
      BY <1>3 DEF Rehashing, InHand
    <3> QED
      BY <2>6, <2>7, <2>16, <3>1
  <2>18. Cardinality(UsedIn(u.new)) = Cardinality(UsedIn(t.new)) + 1
    <3>1. i \notin UsedIn(t.new)
      BY <2>4, BucketKinds DEF UsedIn
    <3> QED
      BY <1>2, <2>8, <3>1, FS_AddElement
  <2>19. Cardinality(UsedIn(u.old)) + Cardinality(UsedIn(u.new)) + Count(u.hand) = size
    <3>1. Cardinality(UsedIn(t.old)) + Cardinality(UsedIn(t.new)) + 1 = size
      BY <1>3 DEF Rehashing, Count
    <3>2. Cardinality(UsedIn(u.old)) \in Nat /\ Count(u.hand) \in Nat
      <4>1. u.old \in [D -> Buckets]
        BY <2>7 DEF RehashType
      <4>2. UsedIn(u.old) \subseteq D
        BY <4>1, PlacesAreFinite
      <4> QED
        BY <4>1, <4>2, PlacesAreFinite DEF Count
    <3> QED
      BY <1>2, <2>6, <2>7, <2>18, <3>1, <3>2
  <2>20. Rehashing(u, n)
    <3>1. NoKeyTwice(u.old) /\ \A x \in D : u.old[x].key \cap u.hand.key = {}
      BY <2>6, <2>7
    <3>2. ~(u.j > n_buckets)
      BY <1>1, <2>7, <2>11
    <3> QED
      BY <2>7, <2>8, <2>10, <2>12, <2>14, <2>15, <2>17, <2>19, <3>1, <3>2 DEF Rehashing
  <2>21. u.j + Cardinality(UsedIn(u.new)) = t.j + Cardinality(UsedIn(t.new)) + 1
    <3>1. t.j \in Nat /\ Cardinality(UsedIn(t.new)) \in Nat /\ u.j = t.j
      BY <1>1, <1>2, <2>7
    <3> QED
      BY <3>1, <2>18
  <2> QED
    BY <2>20, <2>21 DEF u
<1>4. CASE ~IsUsed(t.hand)
  <2> DEFINE v == TakenOut(t, t.j)
  <2>1. u = [v EXCEPT !.j = t.j + 1]
    BY <1>4 DEF Moved
  <2>2. /\ v \in RehashType(n) /\ v.new = t.new /\ v.j = t.j
        /\ \A x \in D : v.old[x].key \subseteq t.old[x].key
        /\ t.j \in D => ~IsUsed(v.old[t.j])
        /\ t.j \notin D => ~IsUsed(v.hand)
        /\ NoKeyTwice(v.old)
        /\ \A x \in D : v.old[x].key \cap v.hand.key = {}
        /\ v.hand.key # {} => \E x \in D : v.hand = t.old[x]
        /\ Entries(v.old) \cup InHand(v.hand) = Entries(t.old)
        /\ Cardinality(UsedIn(v.old)) + Count(v.hand) = Cardinality(UsedIn(t.old))
    <3>1. NoKeyTwice(t.old)
      BY DEF Rehashing
    <3>2. Taken(t, v, n, t.j)
      BY <1>1, <3>1, TakenOutProperties
    <3> HIDE DEF v
    <3> QED
      BY <3>2 DEF Taken
  <2> HIDE DEF v, u
  <2>3. /\ u.old = v.old /\ u.hand = v.hand /\ u.j = t.j + 1 /\ u.new = t.new
        /\ u \in RehashType(n)
    <3>1. /\ v = [old |-> v.old, new |-> t.new, hand |-> v.hand, j |-> t.j]
          /\ v.old \in [D -> Buckets] /\ v.hand \in Buckets
      BY <2>2 DEF RehashType
    <3>2. u = [old |-> v.old, new |-> t.new, hand |-> v.hand, j |-> t.j + 1]
      BY <2>1, <3>1
    <3>3. u \in RehashType(n)
      BY <1>1, <3>1, <3>2 DEF RehashType
    <3> QED
      BY <3>2, <3>3
  <2>4. \A x \in D : x < u.j => ~IsUsed(u.old[x])
    <3> SUFFICES ASSUME NEW x \in D, x < u.j PROVE ~IsUsed(u.old[x])
      OBVIOUS
    <3>1. x = t.j \/ x < t.j
      BY <1>1, <2>3
    <3>2. x < t.j => ~IsUsed(t.old[x])
      BY DEF Rehashing
    <3>3. u.old[x].key \subseteq t.old[x].key
      BY <2>2, <2>3
    <3> QED
      BY <2>2, <2>3, <3>1, <3>2, <3>3 DEF IsUsed
  <2>5. u.j > n_buckets => ~IsUsed(u.hand)
    BY <1>1, <2>2, <2>3
  <2>6. \A x \in D, y \in E : u.old[x].key \cap u.new[y].key = {}
    BY <2>2, <2>3 DEF Rehashing
  <2>7. \A y \in E : u.hand.key \cap u.new[y].key = {}
    <3>1. \A x \in D, y \in E : t.old[x].key \cap t.new[y].key = {}
      BY DEF Rehashing
    <3> QED
      BY <2>2, <2>3, <3>1
  <2>8. Entries(u.old) \cup Entries(u.new) \cup InHand(u.hand) = Entries(bucket)
    BY <1>4, <2>2, <2>3 DEF Rehashing, InHand
  <2>9. Cardinality(UsedIn(u.old)) + Cardinality(UsedIn(u.new)) + Count(u.hand) = size
    <3>1. Cardinality(UsedIn(t.old)) + Cardinality(UsedIn(t.new)) = size
      BY <1>2, <1>4 DEF Rehashing, Count
    <3>2. Cardinality(UsedIn(u.old)) \in Nat /\ Count(u.hand) \in Nat
      <4>1. u.old \in [D -> Buckets]
        BY <2>3 DEF RehashType
      <4>2. UsedIn(u.old) \subseteq D
        BY <4>1, PlacesAreFinite
      <4> QED
        BY <4>1, <4>2, PlacesAreFinite DEF Count
    <3> QED
      BY <1>2, <2>2, <2>3, <3>1, <3>2
  <2>10. Rehashing(u, n)
    BY <2>2, <2>3, <2>4, <2>5, <2>6, <2>7, <2>8, <2>9 DEF Rehashing
  <2> QED
    BY <1>1, <1>2, <2>3, <2>10 DEF u
<1> QED
  BY <1>3, <1>4

\* The states of kh_resize, moved entry by moved entry.
RehashOf(start, n, m) ==
  LET rehash[k \in 0..m] == IF k = 0 THEN start ELSE Moved(rehash[k - 1], n)
  IN  rehash

\* The loop is a recursive function of the number of moves.
LEMMA RehashIsDefined ==
  ASSUME NEW start, NEW n, NEW m \in Nat
  PROVE  RehashOf(start, n, m)
           = [k \in 0..m |-> IF k = 0 THEN start ELSE Moved(RehashOf(start, n, m)[k - 1], n)]
<1> DEFINE Fits(f, k) == f = [l \in 0..k |-> IF l = 0 THEN start ELSE Moved(f[l - 1], n)]
           Bad == {k \in Nat : ~ \E f : Fits(f, k)}
<1>1. Bad = {}
  <2> SUFFICES ASSUME Bad # {} PROVE FALSE
    OBVIOUS
  <2>1. PICK k \in Bad : \A l \in Bad : k <= l
    <3>1. Bad \subseteq Nat
      OBVIOUS
    <3> HIDE DEF Bad
    <3> QED
      BY <3>1, MinOfNaturals
  <2>2. k \in Nat /\ ~ \E f : Fits(f, k)
    BY <2>1
  <2>3. k # 0
    <3> SUFFICES ASSUME k = 0 PROVE FALSE
      OBVIOUS
    <3>1. 0..0 = {0}
      OBVIOUS
    <3> DEFINE f == [l \in {0} |-> start]
    <3>2. f = [l \in {0} |-> IF l = 0 THEN start ELSE Moved(f[l - 1], n)]
      OBVIOUS
    <3>3. Fits(f, 0)
      BY <3>1, <3>2
    <3> QED
      BY <3>3, <2>2
  <2>4. k - 1 \in Nat /\ k - 1 \notin Bad
    <3>1. k - 1 \in Nat /\ ~(k <= k - 1)
      BY <2>2, <2>3
    <3> HIDE DEF Bad
    <3> QED
      BY <3>1, <2>1
  <2>5. PICK g : Fits(g, k - 1)
    BY <2>4
  <2> DEFINE f == [l \in 0..k |-> IF l = k THEN Moved(g[k - 1], n) ELSE g[l]]
  <2>6. \A l \in 0..(k - 1) : g[l] = IF l = 0 THEN start ELSE Moved(g[l - 1], n)
    BY <2>5
  <2>7. \A l \in 0..(k - 1) : f[l] = g[l]
    BY <2>2, <2>3
  <2>8. \A l \in 0..k : f[l] = IF l = 0 THEN start ELSE Moved(f[l - 1], n)
    <3> SUFFICES ASSUME NEW l \in 0..k
                 PROVE  f[l] = IF l = 0 THEN start ELSE Moved(f[l - 1], n)
      OBVIOUS
    <3>1. CASE l = k
      <4>1. f[k] = Moved(g[k - 1], n) /\ k - 1 \in 0..(k - 1)
        BY <2>2, <2>3
      <4>2. f[k - 1] = g[k - 1]
        BY <4>1, <2>7
      <4> HIDE DEF f
      <4> QED
        BY <4>1, <4>2, <3>1, <2>3
    <3>2. CASE l # k
      <4>1. l \in 0..(k - 1) /\ (l # 0 => l - 1 \in 0..(k - 1))
        BY <2>2, <3>2
      <4>2. f[l] = g[l] /\ (l # 0 => f[l - 1] = g[l - 1])
        BY <4>1, <2>7
      <4> HIDE DEF f
      <4> QED
        BY <4>1, <4>2, <2>6
    <3> QED
      BY <3>1, <3>2
  <2>9. Fits(f, k)
    <3>1. f = [l \in 0..k |-> f[l]]
      OBVIOUS
    <3> HIDE DEF f
    <3> QED
      BY <3>1, <2>8
  <2> QED
    BY <2>9, <2>2
<1>2. \E f : Fits(f, m)
  BY <1>1
<1>3. Fits(CHOOSE f : Fits(f, m), m)
  BY <1>2
<1>4. RehashOf(start, n, m) = CHOOSE f : Fits(f, m)
  BY Zenon DEF RehashOf
<1> QED
  BY <1>3, <1>4, Zenon

\* A table without entries is sound.
LEMMA NothingIsSound ==
  ASSUME NEW n \in Nat
  PROVE  LET b == [i \in 0..(n - 1) |-> Empty]
         IN  /\ Sound(b, n) /\ UsedIn(b) = {} /\ TakenIn(b) = {} /\ Entries(b) = {}
             /\ Cardinality({}) = 0
<1> DEFINE b == [i \in 0..(n - 1) |-> Empty]
<1>1. b \in [0..(n - 1) -> Buckets] /\ \A i \in 0..(n - 1) : b[i] = Empty
  BY BucketKinds
<1> HIDE DEF b
<1>2. DOMAIN b = 0..(n - 1)
  BY <1>1
<1>3. Sound(b, n)
  BY <1>1, BucketKinds DEF Sound
<1>4. UsedIn(b) = {} /\ TakenIn(b) = {}
  BY <1>1, <1>2, BucketKinds DEF UsedIn, TakenIn
<1>5. Entries(b) = {}
  BY <1>4 DEF Entries
<1> QED
  BY <1>3, <1>4, <1>5, FS_EmptySet DEF b

\* The loop begins like this.
LEMMA RehashBegins ==
  ASSUME n_buckets \in Nat, Sound(bucket, n_buckets), size = Cardinality(UsedIn(bucket)),
         NEW n \in Nat
  PROVE  LET t == Rehash(bucket, [i \in 0..(n - 1) |-> Empty], Empty, 0)
         IN  /\ Rehashing(t, n)
             /\ t.j + Cardinality(UsedIn(t.new)) = 0
<1> DEFINE new == [i \in 0..(n - 1) |-> Empty]
           t == Rehash(bucket, new, Empty, 0)
<1>1. t.old = bucket /\ t.new = new /\ t.hand = Empty /\ t.j = 0
  BY DEF Rehash
<1>2. /\ Sound(new, n) /\ Cardinality(UsedIn(new)) = 0 /\ Entries(new) = {}
      /\ \A i \in 0..(n - 1) : new[i] = Empty
  BY NothingIsSound
<1>3. bucket \in [0..(n_buckets - 1) -> Buckets] /\ DOMAIN bucket = 0..(n_buckets - 1)
  BY DEF Sound
<1>4. t \in RehashType(n)
  <2>1. new \in [0..(n - 1) -> Buckets]
    BY <1>2 DEF Sound
  <2> HIDE DEF new
  <2> QED
    BY <1>3, <2>1, BucketKinds DEF Rehash, RehashType
<1> HIDE DEF new, t
<1>5. Cardinality(UsedIn(bucket)) \in Nat
  <2>1. UsedIn(bucket) \subseteq 0..(n_buckets - 1)
    BY <1>3, PlacesAreFinite
  <2> QED
    BY <1>3, <2>1, PlacesAreFinite
<1>6. InHand(Empty) = {} /\ Count(Empty) = 0
  BY BucketKinds DEF InHand, Count
<1>7. NoKeyTwice(t.old)
  BY <1>1, <1>3 DEF NoKeyTwice, Sound
<1>8. Entries(t.old) \cup Entries(t.new) \cup InHand(t.hand) = Entries(bucket)
  BY <1>1, <1>2, <1>6
<1>9. Cardinality(UsedIn(t.old)) + Cardinality(UsedIn(t.new)) + Count(t.hand) = size
  BY <1>1, <1>2, <1>5, <1>6
<1>10. \A i \in 0..(n - 1) : t.new[i] = Empty
  BY <1>1, <1>2
<1>11. Sound(t.new, n)
  BY <1>1, <1>2
<1>12. Rehashing(t, n)
  BY <1>1, <1>4, <1>7, <1>8, <1>9, <1>10, <1>11, BucketKinds DEF Rehashing
<1> QED
  BY <1>1, <1>2, <1>12 DEF t, new

\* It ends with all entries in the new table, and nothing else in it.
LEMMA RehashedProperties ==
  ASSUME hash \in [Keys -> Nat], n_buckets \in Nat, Sound(bucket, n_buckets),
         size = Cardinality(UsedIn(bucket)),
         NEW n \in Nat \ {0}, IsPowerOfTwo(n), size <= n
  PROVE  LET b == Rehashed(n)
         IN  /\ Sound(b, n) /\ Entries(b) = Entries(bucket)
             /\ Cardinality(UsedIn(b)) = size
             /\ \A i \in 0..(n - 1) : b[i] # Deleted
<1> DEFINE start == Rehash(bucket, [i \in 0..(n - 1) |-> Empty], Empty, 0)
           m == n_buckets + size
           rehash == RehashOf(start, n, m)
           Well(k) == /\ Rehashing(rehash[k], n)
                      /\ rehash[k].j + Cardinality(UsedIn(rehash[k].new)) = k
<1>1. bucket \in [0..(n_buckets - 1) -> Buckets] /\ UsedIn(bucket) \subseteq 0..(n_buckets - 1)
  BY PlacesAreFinite DEF Sound
<1>2. size \in Nat
  BY <1>1, PlacesAreFinite
<1>3. m \in Nat
  BY <1>2
<1>4. Rehashed(n) = rehash[m].new
  BY Zenon DEF Rehashed, RehashOf
<1>5. rehash = [k \in 0..m |-> IF k = 0 THEN start ELSE Moved(rehash[k - 1], n)]
  <2> HIDE DEF start, m
  <2> QED
    BY <1>3, RehashIsDefined
<1> HIDE DEF rehash
<1>6. rehash[0] = start /\ \A k \in 1..m : rehash[k] = Moved(rehash[k - 1], n)
  <2> HIDE DEF start, m
  <2> QED
    BY <1>3, <1>5
<1>7. Well(0)
  BY <1>6, RehashBegins
<1> HIDE DEF start, m
<1>8. ASSUME NEW k \in 1..m, Well(k - 1)
      PROVE  Well(k)
  <2> DEFINE t == rehash[k - 1]
             u == rehash[k]
  <2>1. u = Moved(t, n) /\ Rehashing(t, n) /\ t.j + Cardinality(UsedIn(t.new)) = k - 1
    BY <1>6, <1>8
  <2> HIDE DEF t, u
  <2>2. /\ Rehashing(u, n)
        /\ u.j + Cardinality(UsedIn(u.new)) = t.j + Cardinality(UsedIn(t.new)) + 1
    BY <2>1, <1>2, MoveKeepsRehashing
  <2>3. u.j + Cardinality(UsedIn(u.new)) = k
    BY <2>1, <2>2, k \in Nat
  <2> QED
    BY <2>2, <2>3 DEF u
<1>9. Well(m)
  <2> DEFINE Bad == {k \in 0..m : ~Well(k)}
  <2> SUFFICES ASSUME Bad # {} PROVE FALSE
    BY <1>3
  <2>1. PICK k \in Bad : \A l \in Bad : k <= l
    <3>1. Bad \subseteq Nat
      OBVIOUS
    <3> HIDE DEF Bad
    <3> QED
      BY <3>1, MinOfNaturals
  <2>2. k \in 0..m /\ ~Well(k)
    BY <2>1
  <2> HIDE DEF Well
  <2>3. k \in 1..m /\ k - 1 \in 0..m /\ ~(k <= k - 1)
    BY <2>2, <1>3, <1>7
  <2>4. Well(k - 1)
    BY <2>1, <2>3
  <2> QED
    BY <2>2, <2>3, <2>4, <1>8
<1> DEFINE t == rehash[m]
<1>10. Rehashing(t, n) /\ t.j + Cardinality(UsedIn(t.new)) = n_buckets + size
  BY <1>9 DEF m
<1> HIDE DEF t
<1>11. /\ t.old \in [0..(n_buckets - 1) -> Buckets] /\ t.new \in [0..(n - 1) -> Buckets]
       /\ t.j \in Nat
  BY <1>10 DEF Rehashing, RehashType
<1>12. /\ Cardinality(UsedIn(t.old)) \in Nat /\ Cardinality(UsedIn(t.new)) \in Nat
       /\ DOMAIN t.old = 0..(n_buckets - 1)
  <2>1. UsedIn(t.old) \subseteq 0..(n_buckets - 1) /\ UsedIn(t.new) \subseteq 0..(n - 1)
    BY <1>11, PlacesAreFinite
  <2>2. Cardinality(UsedIn(t.old)) \in Nat
    BY <1>11, <2>1, PlacesAreFinite
  <2>3. Cardinality(UsedIn(t.new)) \in Nat
    BY <1>11, <2>1, PlacesAreFinite
  <2> QED
    BY <1>11, <2>2, <2>3
<1>13. Count(t.hand) \in {0, 1} /\ (IsUsed(t.hand) <=> Count(t.hand) = 1)
  BY DEF Count
<1>14. Cardinality(UsedIn(t.old)) + Cardinality(UsedIn(t.new)) + Count(t.hand) = size
  BY <1>10 DEF Rehashing
<1>15. t.j = n_buckets + Cardinality(UsedIn(t.old)) + Count(t.hand)
  <2>1. t.j \in Nat /\ Count(t.hand) \in Nat
    BY <1>11, <1>13
  <2>2. t.j + Cardinality(UsedIn(t.new)) = n_buckets + size
    BY <1>10
  <2>3. Cardinality(UsedIn(t.old)) \in Nat /\ Cardinality(UsedIn(t.new)) \in Nat
    BY <1>12
  <2> QED
    BY <2>1, <2>2, <2>3, <1>2, <1>14
<1>16. ~IsUsed(t.hand)
  <2> SUFFICES ASSUME IsUsed(t.hand) PROVE FALSE
    OBVIOUS
  <2>1. t.j > n_buckets
    BY <1>12, <1>13, <1>15
  <2> QED
    BY <2>1, <1>10 DEF Rehashing
<1>17. UsedIn(t.old) = {}
  <2>1. \A i \in 0..(n_buckets - 1) : i < t.j
    BY <1>12, <1>13, <1>15
  <2>2. \A i \in 0..(n_buckets - 1) : ~IsUsed(t.old[i])
    BY <2>1, <1>10 DEF Rehashing
  <2> QED
    BY <2>2, <1>12 DEF UsedIn
<1>18. Entries(t.new) = Entries(bucket)
  <2>1. Entries(t.old) = {}
    BY <1>17 DEF Entries
  <2>2. InHand(t.hand) = {}
    BY <1>16 DEF InHand
  <2> QED
    BY <2>1, <2>2, <1>10 DEF Rehashing
<1>19. Cardinality(UsedIn(t.new)) = size
  <2>1. Cardinality(UsedIn(t.old)) = 0
    BY <1>17, FS_EmptySet
  <2> QED
    BY <2>1, <1>12, <1>13, <1>14, <1>16
<1>20. Sound(t.new, n) /\ \A i \in 0..(n - 1) : t.new[i] # Deleted
  BY <1>10 DEF Rehashing
<1> QED
  BY <1>4, <1>18, <1>19, <1>20 DEF t

-----------------------------------------------------------------------------
\* Calls.

\* The inductive invariant: the table is sound, its counters are right, and it is
\* not fuller than it may be.
TableInv(t) ==
  /\ BucketCount(t.n)
  /\ Sound(t.buckets, t.n)
  /\ t.entries = Cardinality(UsedIn(t.buckets))
  /\ t.occupied = Cardinality(TakenIn(t.buckets))
  /\ t.occupied <= upper_bound(t.n)

HashInv == hash \in Hashes /\ TableInv(ThisTable)

\* The same, number by number.
LEMMA TableInvOf ==
  ASSUME NEW n, NEW b, NEW occupied, NEW entries,
         BucketCount(n), Sound(b, n), entries = Cardinality(UsedIn(b)),
         occupied = Cardinality(TakenIn(b)), occupied <= upper_bound(n)
  PROVE  TableInv(Table(n, b, occupied, entries))
<1> DEFINE t == Table(n, b, occupied, entries)
<1>1. t.n = n /\ t.buckets = b /\ t.occupied = occupied /\ t.entries = entries
  BY DEF Table
<1> HIDE DEF t
<1>2. TableInv(t)
  BY <1>1 DEF TableInv
<1> QED
  BY <1>2 DEF t

\* Counters are numbers, and there are at least as many taken buckets as used ones.
LEMMA CountersOf ==
  ASSUME NEW t, TableInv(t)
  PROVE  /\ t.n \in Nat /\ t.entries \in Nat /\ t.occupied \in Nat
         /\ t.entries <= t.occupied
         /\ IsFiniteSet(UsedIn(t.buckets)) /\ IsFiniteSet(TakenIn(t.buckets))
         /\ t.buckets \in [0..(t.n - 1) -> Buckets] /\ DOMAIN t.buckets = 0..(t.n - 1)
<1> DEFINE b == t.buckets
<1>1. t.n \in Nat /\ b \in [0..(t.n - 1) -> Buckets]
  BY DEF TableInv, BucketCount, Sound
<1>2. UsedIn(b) \subseteq 0..(t.n - 1) /\ TakenIn(b) \subseteq 0..(t.n - 1)
  BY <1>1, PlacesAreFinite
<1>3. /\ IsFiniteSet(UsedIn(b)) /\ Cardinality(UsedIn(b)) \in Nat
  BY <1>1, <1>2, PlacesAreFinite
<1>4. IsFiniteSet(TakenIn(b)) /\ Cardinality(TakenIn(b)) \in Nat
  BY <1>1, <1>2, PlacesAreFinite
<1>5. UsedIn(b) \subseteq TakenIn(b)
  BY BucketKinds DEF UsedIn, TakenIn
<1>6. Cardinality(UsedIn(b)) <= Cardinality(TakenIn(b))
  BY <1>4, <1>5, FS_Subset
<1> QED
  BY <1>1, <1>3, <1>4, <1>6 DEF TableInv

\* The fields of the table there is.
LEMMA ThisTableIs ==
  ASSUME KHashAssumption, HashInv
  PROVE  /\ hash \in [Keys -> Nat]
         /\ BucketCount(n_buckets) /\ n_buckets \in Nat /\ Sound(bucket, n_buckets)
         /\ size = Cardinality(UsedIn(bucket)) /\ n_occupied = Cardinality(TakenIn(bucket))
         /\ n_occupied <= upper_bound(n_buckets)
         /\ size \in Nat /\ n_occupied \in Nat /\ size <= n_occupied
         /\ ThisTable.n = n_buckets /\ ThisTable.buckets = bucket
         /\ ThisTable.occupied = n_occupied /\ ThisTable.entries = size
<1>1. /\ ThisTable.n = n_buckets /\ ThisTable.buckets = bucket
      /\ ThisTable.occupied = n_occupied /\ ThisTable.entries = size
  BY DEF ThisTable, Table
<1>2. hash \in [Keys -> Nat]
  BY DEF HashInv, KHashAssumption
<1>3. TableInv(ThisTable)
  BY DEF HashInv
<1> QED
  BY <1>1, <1>2, <1>3, CountersOf DEF TableInv

\* A table of another size has the same entries and nothing else.
LEMMA ResizedProperties ==
  ASSUME KHashAssumption, HashInv, NEW asked \in Nat
  PROVE  LET t == Resized(asked)
             n == Roundup(asked)
         IN  /\ TableInv(t) /\ t.entries = size /\ Entries(t.buckets) = Entries(bucket)
             /\ size < upper_bound(n) => t.n = n /\ t.occupied = size
             /\ ~(size < upper_bound(n)) => t = ThisTable
<1> DEFINE n == Roundup(asked)
           t == Resized(asked)
<1>1. /\ hash \in [Keys -> Nat] /\ n_buckets \in Nat /\ Sound(bucket, n_buckets)
      /\ size = Cardinality(UsedIn(bucket)) /\ size \in Nat
  BY ThisTableIs
<1>2. n \in Nat \ {0} /\ n >= 4 /\ IsPowerOfTwo(n)
  BY RoundupProperties
<1>3. upper_bound(n) \in Nat /\ upper_bound(n) < n
  BY <1>2, UpperBounds
<1>4. t = IF size >= upper_bound(n) THEN ThisTable ELSE Table(n, Rehashed(n), size, size)
  BY DEF Resized
<1> HIDE DEF n, t
<1>5. CASE size < upper_bound(n)
  <2> DEFINE b == Rehashed(n)
  <2>1. t.n = n /\ t.buckets = b /\ t.occupied = size /\ t.entries = size
    BY <1>1, <1>3, <1>4, <1>5 DEF Table
  <2>2. /\ Sound(b, n) /\ Entries(b) = Entries(bucket) /\ Cardinality(UsedIn(b)) = size
        /\ \A i \in 0..(n - 1) : b[i] # Deleted
    <3>1. size <= n
      BY <1>1, <1>2, <1>3, <1>5
    <3> QED
      BY <3>1, <1>1, <1>2, RehashedProperties
  <2>3. TakenIn(b) = UsedIn(b)
    BY <2>2, BucketKinds DEF TakenIn, UsedIn, Sound
  <2>4. TableInv(t)
    BY <1>1, <1>2, <1>3, <1>5, <2>1, <2>2, <2>3 DEF TableInv, BucketCount
  <2> QED
    BY <1>5, <2>1, <2>2, <2>4 DEF t, n
<1>6. CASE ~(size < upper_bound(n))
  <2>1. t = ThisTable
    BY <1>1, <1>3, <1>4, <1>6
  <2> QED
    BY <2>1, <1>6, ThisTableIs DEF HashInv, t, n
<1> QED
  BY <1>5, <1>6

\* kh_put has room: not as many buckets are taken as may be.
LEMMA RoomIsMade ==
  ASSUME KHashAssumption, HashInv
  PROVE  /\ TableInv(WithRoom) /\ WithRoom.entries = size
         /\ Entries(WithRoom.buckets) = Entries(bucket)
         /\ WithRoom.n >= 4 /\ WithRoom.occupied < upper_bound(WithRoom.n)
         /\ \/ WithRoom.n = n_buckets
            \/ WithRoom.n = 4
            \/ (WithRoom.n = 2 * n_buckets /\ n_buckets <= 2 * size)
<1>1. /\ n_buckets \in Nat /\ BucketCount(n_buckets)
      /\ n_occupied <= upper_bound(n_buckets)
      /\ size \in Nat /\ n_occupied \in Nat /\ size <= n_occupied
      /\ ThisTable.n = n_buckets /\ ThisTable.buckets = bucket
      /\ ThisTable.occupied = n_occupied /\ ThisTable.entries = size
  BY ThisTableIs
<1>2. upper_bound(n_buckets) \in Nat /\ upper_bound(0) = 0
  BY <1>1, UpperBounds
<1>3. n_buckets # 0 => n_buckets >= 4
  BY <1>1 DEF BucketCount
<1>4. CASE n_occupied < upper_bound(n_buckets)
  <2>1. WithRoom = ThisTable
    BY <1>1, <1>2, <1>4 DEF WithRoom
  <2>2. n_buckets # 0
    BY <1>1, <1>2, <1>4
  <2> QED
    BY <1>1, <1>3, <1>4, <2>1, <2>2 DEF HashInv
<1>5. CASE ~(n_occupied < upper_bound(n_buckets))
  <2> DEFINE asked == IF n_buckets > 2 * size THEN n_buckets - 1 ELSE n_buckets + 1
  <2>1. WithRoom = Resized(asked)
    BY <1>1, <1>2, <1>5 DEF WithRoom
  <2>2. asked \in Nat
    BY <1>1
  <2>3. /\ size < upper_bound(Roundup(asked)) /\ Roundup(asked) >= 4
        /\ \/ Roundup(asked) = n_buckets
           \/ Roundup(asked) = 4
           \/ Roundup(asked) = 2 * n_buckets /\ n_buckets <= 2 * size
    <3>1. CASE n_buckets > 2 * size
      <4>1. n_buckets # 0 /\ Roundup(asked) = n_buckets
        BY <3>1, <1>1, RoundupOfNeighbours
      <4>2. n_buckets < 2 * upper_bound(n_buckets) /\ n_buckets >= 4
        BY <4>1, <1>1, <1>3, UpperBounds
      <4> QED
        BY <3>1, <4>1, <4>2, <1>1, <1>2
    <3>2. CASE ~(n_buckets > 2 * size) /\ n_buckets # 0
      <4>1. Roundup(asked) = 2 * n_buckets /\ n_buckets >= 4
        BY <3>2, <1>1, <1>3, RoundupOfNeighbours
      <4>2. upper_bound(n_buckets) < upper_bound(2 * n_buckets) /\ upper_bound(2 * n_buckets) \in Nat
        BY <4>1, <1>1, UpperBounds
      <4> QED
        BY <3>2, <4>1, <4>2, <1>1, <1>2
    <3>3. CASE n_buckets = 0
      <4>1. asked = 1 /\ Roundup(1) = 4
        BY <3>3, <1>1, RoundupOfNeighbours
      <4>2. size = 0
        BY <3>3, <1>1, <1>2
      <4>3. upper_bound(4) = 3
        BY DEF upper_bound
      <4> QED
        BY <4>1, <4>2, <4>3
    <3> QED
      BY <3>1, <3>2, <3>3
  <2> HIDE DEF asked
  <2> QED
    BY <2>1, <2>2, <2>3, ResizedProperties
<1> QED
  BY <1>4, <1>5

\* Two entries of a sound table with a key in common are one.
LEMMA EntryOfKey ==
  ASSUME NEW n \in Nat, NEW b, Sound(b, n)
  PROVE  /\ Entries(b) = {b[i] : i \in UsedIn(b)} /\ UsedIn(b) \subseteq 0..(n - 1)
         /\ \A i \in UsedIn(b), j \in UsedIn(b) : b[i].key \cap b[j].key # {} => i = j
         /\ \A e \in Entries(b) : \E key \in Keys, val \in Vals : e = Entry(key, val)
<1>1. UsedIn(b) \subseteq 0..(n - 1)
  BY PlacesAreFinite DEF Sound
<1>2. ASSUME NEW i \in UsedIn(b)
      PROVE  \E key \in Keys, val \in Vals : b[i] = Entry(key, val)
  <2>1. IsUsed(b[i]) /\ b[i] \in Buckets
    BY <1>1, <1>2 DEF UsedIn, Sound
  <2> QED
    BY <2>1, BucketKinds
<1>3. \A e \in Entries(b) : \E key \in Keys, val \in Vals : e = Entry(key, val)
  BY <1>2 DEF Entries
<1>4. \A i \in UsedIn(b), j \in UsedIn(b) : b[i].key \cap b[j].key # {} => i = j
  BY <1>1 DEF Sound
<1> QED
  BY <1>1, <1>3, <1>4 DEF Entries

\* The entries but that of one key.
Others(b, key) == {e \in Entries(b) : key \notin e.key}

\* kh_put: the table is as it should be, with the entry of the key and no other
\* changed.
LEMMA PutProperties ==
  ASSUME KHashAssumption, HashInv, NEW key \in Keys, NEW val \in Vals
  PROVE  /\ TableInv(Put(key, val))
         /\ Entries(Put(key, val).buckets) = Others(bucket, key) \cup {Entry(key, val)}
         /\ Put(key, val).n = WithRoom.n
         /\ Put(key, val).entries <= size + 1
<1> DEFINE t == WithRoom
           n == t.n
           b == t.buckets
           x == PutSite(t, key)
           c == [b EXCEPT ![x] = Entry(key, val)]
           p == Put(key, val)
<1>1. /\ TableInv(t) /\ t.entries = size /\ Entries(b) = Entries(bucket)
      /\ n >= 4 /\ t.occupied < upper_bound(n)
  BY RoomIsMade
<1>2. /\ p.n = n /\ p.buckets = c
      /\ p.occupied = t.occupied + (IF b[x] = Empty THEN 1 ELSE 0)
      /\ p.entries = t.entries + (IF IsUsed(b[x]) THEN 0 ELSE 1)
  BY DEF Put, Table
<1> HIDE DEF t, p
<1>3. /\ n \in Nat /\ t.entries \in Nat /\ t.occupied \in Nat
      /\ IsFiniteSet(UsedIn(b)) /\ IsFiniteSet(TakenIn(b))
      /\ b \in [0..(n - 1) -> Buckets] /\ DOMAIN b = 0..(n - 1)
  BY <1>1, CountersOf
<1>4. /\ n \in Nat \ {0} /\ IsPowerOfTwo(n) /\ Sound(b, n) /\ BucketCount(n)
      /\ t.entries = Cardinality(UsedIn(b)) /\ t.occupied = Cardinality(TakenIn(b))
  BY <1>1, <1>3 DEF TableInv, BucketCount
<1>5. upper_bound(n) \in Nat /\ upper_bound(n) < n
  BY <1>1, <1>3, UpperBounds
<1>6. hash \in [Keys -> Nat]
  BY ThisTableIs
<1>7. /\ x \in 0..(n - 1)
      /\ \A i \in 0..(n - 1) : key \in b[i].key => i = x
      /\ b[x].key \subseteq {key}
      /\ Reached(b, key, n, x)
  <2>1. Cardinality(TakenIn(b)) < n
    BY <1>1, <1>3, <1>4, <1>5
  <2> HIDE DEF n, b
  <2> QED
    BY <2>1, <1>4, <1>6, PutSiteProperties DEF n, b
<1> HIDE DEF x
<1>8. /\ c \in [0..(n - 1) -> Buckets]
      /\ c[x] = Entry(key, val) /\ \A i \in 0..(n - 1) : i # x => c[i] = b[i]
  <2> HIDE DEF n, b
  <2> QED
    BY <1>3, <1>7, BucketKinds
<1>9. /\ Sound(c, n) /\ UsedIn(c) = UsedIn(b) \cup {x} /\ TakenIn(c) = TakenIn(b) \cup {x}
  <2> HIDE DEF n, b, c
  <2> QED
    BY <1>8, <1>4, <1>6, <1>7, WrittenIsSound
<1>10. /\ x \in UsedIn(b) <=> IsUsed(b[x])
       /\ x \in TakenIn(b) <=> b[x] # Empty
  BY <1>3, <1>7 DEF UsedIn, TakenIn
<1> HIDE DEF c
<1>11. p.entries = Cardinality(UsedIn(c)) /\ p.occupied = Cardinality(TakenIn(c))
  <2>1. \A S : IsFiniteSet(S) => Cardinality(S \cup {x}) = IF x \in S THEN Cardinality(S)
                                                          ELSE Cardinality(S) + 1
    BY FS_AddElement
  <2>2. Cardinality(UsedIn(c)) = IF x \in UsedIn(b) THEN t.entries ELSE t.entries + 1
    BY <1>3, <1>4, <1>9, <2>1
  <2>3. Cardinality(TakenIn(c)) = IF x \in TakenIn(b) THEN t.occupied ELSE t.occupied + 1
    BY <1>3, <1>4, <1>9, <2>1
  <2> QED
    BY <1>2, <1>3, <1>10, <2>2, <2>3
<1>12. p.occupied <= upper_bound(n) /\ p.entries <= size + 1
  BY <1>1, <1>2, <1>3, <1>5
<1>13. TableInv(p)
  BY <1>2, <1>4, <1>9, <1>11, <1>12 DEF TableInv
<1>14. Entries(c) = Others(b, key) \cup {Entry(key, val)}
  <2>1. UsedIn(b) \subseteq 0..(n - 1)
    BY <1>3, PlacesAreFinite
  <2>2. ASSUME NEW e \in Entries(c)
        PROVE  e \in Others(b, key) \cup {Entry(key, val)}
    <3>1. PICK i \in UsedIn(c) : e = c[i]
      BY DEF Entries
    <3>2. CASE i = x
      BY <3>1, <3>2, <1>8
    <3>3. CASE i # x
      <4>1. i \in UsedIn(b) /\ i \in 0..(n - 1) /\ e = b[i]
        BY <3>1, <3>3, <2>1, <1>9, <1>8
      <4>2. key \notin e.key
        BY <4>1, <3>3, <1>7
      <4> QED
        BY <4>1, <4>2 DEF Entries, Others
    <3> QED
      BY <3>2, <3>3
  <2>3. ASSUME NEW e \in Others(b, key)
        PROVE  e \in Entries(c)
    <3>1. PICK i \in UsedIn(b) : e = b[i]
      BY DEF Entries, Others
    <3>2. i # x
      <4> SUFFICES ASSUME i = x PROVE FALSE
        OBVIOUS
      <4>1. b[x].key # {} /\ key \notin b[x].key
        BY <3>1, <2>3 DEF Others, UsedIn, IsUsed
      <4> QED
        BY <4>1, <1>7
    <3>3. i \in UsedIn(c) /\ e = c[i]
      BY <3>1, <3>2, <2>1, <1>9, <1>8
    <3> QED
      BY <3>3 DEF Entries
  <2>4. Entry(key, val) \in Entries(c)
    <3>1. x \in UsedIn(c)
      BY <1>9
    <3> QED
      BY <3>1, <1>8 DEF Entries
  <2> QED
    BY <2>2, <2>3, <2>4
<1>15. Others(b, key) = Others(bucket, key)
  BY <1>1 DEF Others
<1> QED
  BY <1>2, <1>12, <1>13, <1>14, <1>15 DEF p, t

\* kh_get finds a bucket of the key if it finds one.
LEMMA GetIsUsed ==
  ASSUME KHashAssumption, HashInv, NEW key \in Keys, kh_get(key) # n_buckets
  PROVE  /\ kh_get(key) \in 0..(n_buckets - 1) /\ n_buckets \in Nat \ {0}
         /\ IsPowerOfTwo(n_buckets)
         /\ bucket[kh_get(key)].key = {key} /\ IsUsed(bucket[kh_get(key)])
<1> DEFINE m == Min(Stops(key))
           i == Site(key, n_buckets, m)
<1>1. /\ hash \in [Keys -> Nat] /\ BucketCount(n_buckets)
  BY ThisTableIs
<1>2. /\ n_buckets # 0 /\ Stops(key) # {} /\ kh_get(key) = i /\ IsUsed(bucket[i])
  BY DEF kh_get
<1>3. n_buckets \in Nat \ {0} /\ IsPowerOfTwo(n_buckets)
  BY <1>1, <1>2 DEF BucketCount
<1>4. Steps(n_buckets) \subseteq Nat /\ Stops(key) \subseteq Steps(n_buckets)
  BY <1>3, StepsProperties DEF Stops
<1>5. m \in Stops(key)
  BY <1>2, <1>4, MinOfNaturals
<1>6. i \in 0..(n_buckets - 1)
  BY <1>1, <1>3, <1>4, <1>5, SiteInRange
<1>7. bucket[i] = Empty \/ bucket[i].key = {key}
  BY <1>5 DEF Stops
<1> QED
  BY <1>2, <1>3, <1>6, <1>7, BucketKinds

\* kh_del: the same for a key that goes.
LEMMA DelProperties ==
  ASSUME KHashAssumption, HashInv, NEW key \in Keys, kh_del(key)
  PROVE  HashInv' /\ Entries(bucket)' = Others(bucket, key) /\ size' <= size
<1> DEFINE i == kh_get(key)
           n == n_buckets
           c == [bucket EXCEPT ![i] = Deleted]
<1>1. /\ i # n /\ bucket' = c /\ size' = size - 1
      /\ n_buckets' = n /\ n_occupied' = n_occupied /\ hash' = hash
  BY DEF kh_del
<1>2. /\ hash \in [Keys -> Nat] /\ BucketCount(n) /\ n \in Nat /\ Sound(bucket, n)
      /\ size = Cardinality(UsedIn(bucket)) /\ n_occupied = Cardinality(TakenIn(bucket))
      /\ n_occupied <= upper_bound(n) /\ size \in Nat
  BY ThisTableIs
<1>3. /\ i \in 0..(n - 1) /\ n \in Nat \ {0} /\ IsPowerOfTwo(n)
      /\ bucket[i].key = {key} /\ IsUsed(bucket[i])
  BY <1>1, GetIsUsed
<1> HIDE DEF i, n
<1>4. bucket \in [0..(n - 1) -> Buckets] /\ UsedIn(bucket) \subseteq 0..(n - 1)
  BY <1>2, PlacesAreFinite DEF Sound
<1>5. /\ c \in [0..(n - 1) -> Buckets] /\ c[i] = Deleted /\ DOMAIN bucket = 0..(n - 1)
      /\ DOMAIN c = 0..(n - 1)
      /\ \A j \in 0..(n - 1) : j # i => c[j] = bucket[j]
  BY <1>3, <1>4, BucketKinds
<1> HIDE DEF c
<1>6. c[i].key = {} /\ ~IsUsed(c[i]) /\ c[i] # Empty /\ bucket[i] # Empty
  BY <1>3, <1>5, BucketKinds
<1>7. Sound(c, n)
  <2>1. \A j \in 0..(n - 1) : c[j] = Empty => bucket[j] = Empty
    BY <1>5, <1>6
  <2>2. ASSUME NEW j \in 0..(n - 1), NEW k \in c[j].key
        PROVE  Reached(c, k, n, j)
    <3>1. j # i /\ k \in bucket[j].key
      BY <2>2, <1>5, <1>6
    <3>2. Reached(bucket, k, n, j) /\ k \in Keys
      BY <3>1, <1>2, KeysOfSound DEF Sound
    <3> QED
      BY <3>2, <2>1, <1>2, <1>3, StillReached
  <2>3. \A j, k \in 0..(n - 1) : c[j].key \cap c[k].key # {} => j = k
    BY <1>2, <1>5, <1>6 DEF Sound
  <2> QED
    BY <1>5, <2>2, <2>3 DEF Sound
<1>8. UsedIn(c) = UsedIn(bucket) \ {i} /\ i \in UsedIn(bucket)
  BY <1>3, <1>5, <1>6 DEF UsedIn
<1>9. TakenIn(c) = TakenIn(bucket)
  BY <1>3, <1>5, <1>6 DEF TakenIn
<1>10. Cardinality(UsedIn(c)) = size - 1
  <2>1. IsFiniteSet(UsedIn(bucket))
    BY <1>2, <1>4, PlacesAreFinite
  <2> QED
    BY <2>1, <1>2, <1>8, FS_RemoveElement
<1>11. ThisTable' = Table(n, c, n_occupied, size - 1)
  BY <1>1 DEF ThisTable, n
<1>12. TableInv(ThisTable)'
  <2>1. TableInv(Table(n, c, n_occupied, size - 1))
    BY <1>2, <1>7, <1>9, <1>10 DEF TableInv, Table
  <2> QED
    BY <2>1, <1>1, <1>11 DEF TableInv, Sound, Reached, Site, n
<1>13. Entries(c) = Others(bucket, key)
  <2>1. ASSUME NEW j \in UsedIn(bucket)
        PROVE  key \in bucket[j].key <=> j = i
    BY <2>1, <1>2, <1>3, <1>4 DEF Sound
  <2>2. \A j \in UsedIn(c) : c[j] = bucket[j]
    BY <1>4, <1>5, <1>8
  <2> QED
    BY <2>1, <2>2, <1>8 DEF Entries, Others
<1> QED
  BY <1>1, <1>2, <1>12, <1>13 DEF HashInv, Entries, UsedIn

\* What a call leaves is what Becomes says.
LEMMA BecomesTable ==
  ASSUME NEW t, TableInv(t), HashInv, Becomes(t)
  PROVE  HashInv' /\ Entries(bucket)' = Entries(t.buckets) /\ size' = t.entries /\ n_buckets' = t.n
<1>1. /\ n_buckets' = t.n /\ bucket' = t.buckets /\ n_occupied' = t.occupied
      /\ size' = t.entries /\ hash' = hash
  BY DEF Becomes
<1>2. ThisTable' = Table(t.n, t.buckets, t.occupied, t.entries)
  BY <1>1 DEF ThisTable
<1>3. /\ ThisTable'.n = t.n /\ ThisTable'.buckets = t.buckets
      /\ ThisTable'.occupied = t.occupied /\ ThisTable'.entries = t.entries
  BY <1>2 DEF Table
<1>4. TableInv(ThisTable)'
  <2>1. Sound(ThisTable.buckets, ThisTable.n)'
    <3>1. Sound(t.buckets, t.n)
      BY DEF TableInv
    <3> QED
      BY <1>1, <1>3, <3>1 DEF Sound, Reached, Site
  <2> QED
    BY <1>3, <2>1 DEF TableInv
<1> QED
  BY <1>1, <1>4 DEF HashInv, Entries, UsedIn

\* kh_clear: the buckets stay, emptied.
LEMMA ClearProperties ==
  ASSUME KHashAssumption, HashInv, kh_clear
  PROVE  HashInv' /\ Entries(bucket)' = {} /\ size' = 0
<1> DEFINE b == [i \in 0..(n_buckets - 1) |-> Empty]
           t == Table(n_buckets, b, 0, 0)
<1>1. BucketCount(n_buckets) /\ n_buckets \in Nat
  BY ThisTableIs
<1>2. /\ Sound(b, n_buckets) /\ UsedIn(b) = {} /\ TakenIn(b) = {} /\ Entries(b) = {}
      /\ Cardinality({}) = 0
  BY <1>1, NothingIsSound
<1>3. upper_bound(n_buckets) >= 0
  BY <1>1, UpperBounds
<1>4. TableInv(t)
  <2> HIDE DEF b
  <2> QED
    BY <1>1, <1>2, <1>3 DEF TableInv, Table
<1>5. /\ n_buckets' = n_buckets /\ bucket' = b /\ n_occupied' = 0 /\ size' = 0 /\ hash' = hash
  BY DEF kh_clear
<1>6. ThisTable' = t
  BY <1>5 DEF ThisTable
<1>7. TableInv(ThisTable)'
  <2> HIDE DEF b, t
  <2> QED
    BY <1>4, <1>5, <1>6 DEF TableInv, Sound, Reached, Site
<1> QED
  BY <1>2, <1>5, <1>7 DEF HashInv, Entries, UsedIn

-----------------------------------------------------------------------------
\* Every entry is found, and there is always room.

\* The invariant holds at the beginning and is kept by every call.
LEMMA HashInvInductive ==
  ASSUME KHashAssumption
  PROVE  /\ Init => HashInv
         /\ HashInv /\ [Next]_vars => HashInv'
<1>1. ASSUME Init
      PROVE  HashInv
  <2>1. n_buckets = 0 /\ size = 0 /\ n_occupied = 0 /\ bucket = << >> /\ hash \in Hashes
    BY <1>1 DEF Init
  <2>2. << >> = [i \in 0..(0 - 1) |-> Empty]
    <3>1. 0..(0 - 1) = {}
      OBVIOUS
    <3>2. << >> = [i \in {} |-> Empty]
      OBVIOUS
    <3> QED
      BY <3>1, <3>2
  <2>3. /\ Sound(<< >>, 0) /\ UsedIn(<< >>) = {} /\ TakenIn(<< >>) = {} /\ Cardinality({}) = 0
    BY <2>2, NothingIsSound
  <2>4. upper_bound(0) = 0
    BY DEF upper_bound
  <2>5. BucketCount(0)
    <3>1. 0 \in Nat /\ 0 = 0
      OBVIOUS
    <3> QED
      BY <3>1 DEF BucketCount
  <2>6. TableInv(Table(0, << >>, 0, 0))
    <3>1. 0 = Cardinality(UsedIn(<< >>)) /\ 0 = Cardinality(TakenIn(<< >>)) /\ 0 <= upper_bound(0)
      BY <2>3, <2>4, FS_EmptySet
    <3> QED
      BY <2>3, <2>5, <3>1, TableInvOf
  <2>7. ThisTable = Table(0, << >>, 0, 0)
    BY <2>1 DEF ThisTable
  <2> QED
    BY <2>1, <2>6, <2>7 DEF HashInv
<1>2. ASSUME HashInv, Next
      PROVE  HashInv'
  <2>1. ASSUME NEW key \in Keys, NEW val \in Vals, kh_put(key, val)
        PROVE  HashInv'
    BY <2>1, <1>2, PutProperties, BecomesTable DEF kh_put
  <2>2. ASSUME NEW key \in Keys, kh_del(key)
        PROVE  HashInv'
    BY <2>2, <1>2, DelProperties
  <2>3. ASSUME kh_clear
        PROVE  HashInv'
    BY <2>3, <1>2, ClearProperties
  <2>4. ASSUME NEW asked \in Sizes, kh_resize(asked)
        PROVE  HashInv'
    <3>1. asked \in Nat
      BY DEF KHashAssumption
    <3> QED
      BY <3>1, <2>4, <1>2, ResizedProperties, BecomesTable DEF kh_resize
  <2> QED
    BY <1>2, <2>1, <2>2, <2>3, <2>4 DEF Next
<1>3. ASSUME HashInv, UNCHANGED vars
      PROVE  HashInv'
  BY <1>3 DEF vars, HashInv, TableInv, ThisTable, Sound, Reached, Site
<1> QED
  BY <1>1, <1>2, <1>3

LEMMA HashInvHolds ==
  ASSUME KHashAssumption
  PROVE  Spec => []HashInv
BY HashInvInductive, PTL DEF Spec

\* Whatever is put, dropped, cleared and resized, and whatever the hash function, every
\* entry is found under its key, and no key is there twice.
THEOREM EveryKeyIsFound ==
  ASSUME KHashAssumption
  PROVE  Spec => []FindsEveryKey
<1>1. ASSUME HashInv
      PROVE  FindsEveryKey
  <2> SUFFICES ASSUME NEW i \in Used, NEW key \in bucket[i].key
               PROVE  kh_get(key) = i
    BY DEF FindsEveryKey
  <2>1. i \in 0..(n_buckets - 1)
    BY DEF Used
  <2> QED
    BY <2>1, <1>1, ThisTableIs, GetFinds
<1> QED
  BY <1>1, HashInvHolds, PTL

\* The counters are right and some bucket is always empty, so the look-up of a key
\* that is not there ends.
THEOREM ThereIsAlwaysRoom ==
  ASSUME KHashAssumption
  PROVE  Spec => []AlwaysRoom
<1>1. ASSUME HashInv
      PROVE  AlwaysRoom
  <2>1. /\ n_buckets \in Nat /\ BucketCount(n_buckets) /\ Sound(bucket, n_buckets)
        /\ size = Cardinality(UsedIn(bucket)) /\ n_occupied = Cardinality(TakenIn(bucket))
        /\ n_occupied <= upper_bound(n_buckets) /\ n_occupied \in Nat
    BY <1>1, ThisTableIs
  <2>2. DOMAIN bucket = 0..(n_buckets - 1)
    BY <2>1 DEF Sound
  <2>3. UsedIn(bucket) = Used /\ TakenIn(bucket) = {i \in 0..(n_buckets - 1) : bucket[i] # Empty}
    BY <2>2 DEF UsedIn, TakenIn, Used
  <2>4. n_buckets > 0 => n_occupied < n_buckets
    <3> SUFFICES ASSUME n_buckets > 0 PROVE n_occupied < n_buckets
      OBVIOUS
    <3>1. upper_bound(n_buckets) < n_buckets /\ upper_bound(n_buckets) \in Nat
      BY <2>1, UpperBounds DEF BucketCount
    <3> QED
      BY <2>1, <3>1
  <2> QED
    BY <2>1, <2>3, <2>4 DEF AlwaysRoom
<1> QED
  BY <1>1, HashInvHolds, PTL

-----------------------------------------------------------------------------
\* The table is a map, of which a call changes one key.

MapOf(E) == [key \in {k \in Keys : \E e \in E : e.key = {k}} |->
               (CHOOSE e \in E : e.key = {key}).val]

\* Entries of keys, one of each at most.
OneEach(E) ==
  /\ \A e \in E : \E key \in Keys : e.key = {key}
  /\ \A e, f \in E : e.key = f.key => e = f

\* The contents of a table are those of its entries, in whatever buckets they are.
LEMMA ContentsAreThoseOfEntries ==
  ASSUME NEW n \in Nat, NEW b, Sound(b, n)
  PROVE  ContentsOf(b) = MapOf(Entries(b)) /\ OneEach(Entries(b))
<1> DEFINE E == Entries(b)
           used == UsedIn(b)
<1>1. /\ b \in [0..(n - 1) -> Buckets] /\ DOMAIN b = 0..(n - 1) /\ used \subseteq 0..(n - 1)
      /\ \A i, j \in 0..(n - 1) : b[i].key \cap b[j].key # {} => i = j
  BY DEF Sound, UsedIn
<1>2. \A i \in used : \E key \in Keys : b[i].key = {key}
  <2> SUFFICES ASSUME NEW i \in used PROVE \E key \in Keys : b[i].key = {key}
    OBVIOUS
  <2>1. IsUsed(b[i]) /\ b[i] \in Buckets
    BY <1>1 DEF UsedIn
  <2> QED
    BY <2>1, BucketKinds DEF Buckets
<1>3. OneEach(E)
  <2>1. ASSUME NEW e \in E, NEW f \in E, e.key = f.key PROVE e = f
    <3>1. PICK i \in used : e = b[i]
      BY DEF Entries
    <3>2. PICK j \in used : f = b[j]
      BY DEF Entries
    <3>3. b[i].key \cap b[j].key # {}
      BY <1>2, <2>1, <3>1, <3>2
    <3> QED
      BY <1>1, <3>1, <3>2, <3>3
  <2>2. ASSUME NEW e \in E PROVE \E key \in Keys : e.key = {key}
    BY <1>2 DEF Entries
  <2> QED
    BY <2>1, <2>2 DEF OneEach
<1> DEFINE names == UNION {b[i].key : i \in used}
           keys == {k \in Keys : \E e \in E : e.key = {k}}
<1>4. names = keys
  <2>1. ASSUME NEW k \in names PROVE k \in keys
    <3>1. PICK i \in used : k \in b[i].key
      OBVIOUS
    <3>2. k \in Keys /\ b[i].key = {k}
      BY <1>2, <3>1
    <3>3. b[i] \in E
      BY DEF Entries
    <3> QED
      BY <3>2, <3>3
  <2>2. ASSUME NEW k \in keys PROVE k \in names
    <3>1. PICK e \in E : e.key = {k}
      OBVIOUS
    <3>2. PICK i \in used : e = b[i]
      BY DEF Entries
    <3> QED
      BY <3>1, <3>2
  <2> QED
    BY <2>1, <2>2
<1>5. ASSUME NEW k \in keys
      PROVE  b[CHOOSE i \in used : b[i].key = {k}].val = (CHOOSE e \in E : e.key = {k}).val
  <2> DEFINE j == CHOOSE i \in used : b[i].key = {k}
             f == CHOOSE e \in E : e.key = {k}
  <2>1. PICK e \in E : e.key = {k}
    OBVIOUS
  <2>2. f \in E /\ f.key = {k}
    BY <2>1
  <2>3. PICK i \in used : e = b[i]
    BY DEF Entries
  <2>4. j \in used /\ b[j].key = {k}
    BY <2>1, <2>3
  <2>5. b[j] \in E
    BY <2>4 DEF Entries
  <2>6. b[j] = f
    <3> HIDE DEF j, f
    <3> QED
      BY <1>3, <2>2, <2>4, <2>5 DEF OneEach
  <2> QED
    BY <2>6
<1>6. ContentsOf(b) = [k \in names |-> b[CHOOSE i \in used : b[i].key = {k}].val]
  BY DEF ContentsOf, UsedIn
<1>7. MapOf(E) = [k \in keys |-> (CHOOSE e \in E : e.key = {k}).val]
  BY DEF MapOf
<1>8. ContentsOf(b) = [k \in keys |-> b[CHOOSE i \in used : b[i].key = {k}].val]
  <2> HIDE DEF names, keys, used
  <2> QED
    BY <1>4, <1>6
<1> HIDE DEF keys, used, E
<1>9. [k \in keys |-> b[CHOOSE i \in used : b[i].key = {k}].val]
        = [k \in keys |-> (CHOOSE e \in E : e.key = {k}).val]
  BY <1>5
<1> QED
  BY <1>3, <1>7, <1>8, <1>9 DEF E

\* What is at a key of the map.
LEMMA MapOfOneEach ==
  ASSUME NEW E, OneEach(E)
  PROVE  /\ \A key : key \in DOMAIN MapOf(E) <=> \E e \in E : e.key = {key}
         /\ \A key : \A e \in E : e.key = {key} => MapOf(E)[key] = e.val
<1> DEFINE keys == {k \in Keys : \E e \in E : e.key = {k}}
<1>1. DOMAIN MapOf(E) = keys /\ \A k \in keys : MapOf(E)[k] = (CHOOSE e \in E : e.key = {k}).val
  BY DEF MapOf
<1>2. ASSUME NEW e \in E, NEW key, e.key = {key}
      PROVE  key \in keys /\ MapOf(E)[key] = e.val
  <2>1. key \in Keys
    BY <1>2 DEF OneEach
  <2>2. key \in keys
    BY <1>2, <2>1
  <2> DEFINE f == CHOOSE g \in E : g.key = {key}
  <2>3. f \in E /\ f.key = {key}
    BY <1>2
  <2>4. MapOf(E)[key] = f.val
    BY <1>1, <2>2
  <2> HIDE DEF f
  <2>5. f = e
    BY <1>2, <2>3 DEF OneEach
  <2> QED
    BY <2>2, <2>4, <2>5
<1> QED
  BY <1>1, <1>2

\* The map with an entry more, or with another one of that key.
LEMMA MapWithEntry ==
  ASSUME NEW E, OneEach(E), NEW key \in Keys, NEW val
  PROVE  LET F == {e \in E : key \notin e.key} \cup {Entry(key, val)}
         IN  MapOf(F) = [k \in DOMAIN MapOf(E) \cup {key} |->
                           IF k = key THEN val ELSE MapOf(E)[k]]
<1> DEFINE F == {e \in E : key \notin e.key} \cup {Entry(key, val)}
           new == Entry(key, val)
<1>1. new.key = {key} /\ new.val = val /\ new \in F
  BY BucketKinds
<1>2. \A e \in F : e = new \/ (e \in E /\ key \notin e.key)
  OBVIOUS
<1>3. \A e \in E : key \notin e.key => e \in F
  OBVIOUS
<1> HIDE DEF F, new
<1>4. OneEach(F)
  BY <1>1, <1>2 DEF OneEach
<1>5. \A k : k \in DOMAIN MapOf(F) <=> k \in DOMAIN MapOf(E) \cup {key}
  <2>1. ASSUME NEW k, k \in DOMAIN MapOf(F) PROVE k \in DOMAIN MapOf(E) \cup {key}
    <3>1. PICK e \in F : e.key = {k}
      BY <1>4, <2>1, MapOfOneEach
    <3> QED
      BY <1>1, <1>2, <3>1, MapOfOneEach
  <2>2. ASSUME NEW k, k \in DOMAIN MapOf(E), k # key PROVE k \in DOMAIN MapOf(F)
    <3>1. PICK e \in E : e.key = {k}
      BY <2>2, MapOfOneEach
    <3>2. e \in F
      BY <1>3, <2>2, <3>1
    <3> QED
      BY <1>4, <3>1, <3>2, MapOfOneEach
  <2>3. key \in DOMAIN MapOf(F)
    BY <1>1, <1>4, MapOfOneEach
  <2> QED
    BY <2>1, <2>2, <2>3
<1>6. ASSUME NEW k \in DOMAIN MapOf(F)
      PROVE  MapOf(F)[k] = IF k = key THEN val ELSE MapOf(E)[k]
  <2>1. CASE k = key
    BY <1>1, <1>4, <2>1, MapOfOneEach
  <2>2. CASE k # key
    <3>1. PICK e \in F : e.key = {k}
      BY <1>4, MapOfOneEach
    <3>2. e \in E
      BY <1>1, <1>2, <2>2, <3>1
    <3> QED
      BY <1>4, <2>2, <3>1, <3>2, MapOfOneEach
  <2> QED
    BY <2>1, <2>2
<1>7. DOMAIN MapOf(F) = DOMAIN MapOf(E) \cup {key}
  BY <1>5
<1>8. MapOf(F) = [k \in DOMAIN MapOf(F) |-> MapOf(F)[k]]
  BY DEF MapOf
<1>9. [k \in DOMAIN MapOf(F) |-> MapOf(F)[k]]
        = [k \in DOMAIN MapOf(F) |-> IF k = key THEN val ELSE MapOf(E)[k]]
  BY <1>6
<1> QED
  BY <1>7, <1>8, <1>9 DEF F, new

\* The map without a key.
LEMMA MapWithoutKey ==
  ASSUME NEW E, OneEach(E), NEW key
  PROVE  LET F == {e \in E : key \notin e.key}
         IN  /\ DOMAIN MapOf(F) = DOMAIN MapOf(E) \ {key}
             /\ \A k \in DOMAIN MapOf(F) : MapOf(F)[k] = MapOf(E)[k]
<1> DEFINE F == {e \in E : key \notin e.key}
<1>1. \A e : e \in F <=> e \in E /\ key \notin e.key
  OBVIOUS
<1> HIDE DEF F
<1>2. OneEach(F)
  BY <1>1 DEF OneEach
<1>3. ASSUME NEW k, k \in DOMAIN MapOf(F)
      PROVE  k \in DOMAIN MapOf(E) \ {key} /\ MapOf(F)[k] = MapOf(E)[k]
  <2>1. PICK e \in F : e.key = {k}
    BY <1>2, <1>3, MapOfOneEach
  <2>2. e \in E /\ k # key
    BY <1>1, <2>1
  <2> QED
    BY <1>2, <2>1, <2>2, MapOfOneEach
<1>4. ASSUME NEW k, k \in DOMAIN MapOf(E), k # key
      PROVE  k \in DOMAIN MapOf(F)
  <2>1. PICK e \in E : e.key = {k}
    BY <1>4, MapOfOneEach
  <2>2. e \in F
    BY <1>1, <1>4, <2>1
  <2> QED
    BY <1>2, <2>1, <2>2, MapOfOneEach
<1> QED
  BY <1>3, <1>4 DEF F

\* The contents are those of the entries, now and after the step.
OfEntries == Contents = MapOf(Entries(bucket))

LEMMA ContentsOfTable == KHashAssumption /\ HashInv => OfEntries
BY ThisTableIs, ContentsAreThoseOfEntries DEF Contents, OfEntries

LEMMA ContentsOfTableThen == KHashAssumption' /\ HashInv' => OfEntries'
BY ContentsOfTable, PTL

\* What the calls do to the contents of the table.
LEMMA CallsChangeContents ==
  ASSUME KHashAssumption, HashInv
  PROVE  /\ CallsChangeTheirKey
         /\ Contents = MapOf(Entries(bucket)) /\ OneEach(Entries(bucket))
<1>1. n_buckets \in Nat /\ Sound(bucket, n_buckets)
  BY ThisTableIs
<1>2. Contents = MapOf(Entries(bucket)) /\ OneEach(Entries(bucket))
  BY <1>1, ContentsAreThoseOfEntries DEF Contents
<1>3. ASSUME NEW t, TableInv(t)
      PROVE  ContentsOf(t.buckets) = MapOf(Entries(t.buckets))
  BY <1>3, ContentsAreThoseOfEntries DEF TableInv, BucketCount
<1>4. ASSUME NEW key \in Keys, NEW val \in Vals
      PROVE  ContentsOf(Put(key, val).buckets) = [k \in DOMAIN Contents \cup {key} |->
                                                   IF k = key THEN val ELSE Contents[k]]
  <2> DEFINE E == Entries(bucket)
             p == Put(key, val)
  <2>1. TableInv(p) /\ Entries(p.buckets) = {e \in E : key \notin e.key} \cup {Entry(key, val)}
    BY PutProperties DEF Others
  <2>2. ContentsOf(p.buckets) = MapOf(Entries(p.buckets))
    BY <1>3, <2>1
  <2> HIDE DEF E, p
  <2>3. MapOf({e \in E : key \notin e.key} \cup {Entry(key, val)})
          = [k \in DOMAIN MapOf(E) \cup {key} |-> IF k = key THEN val ELSE MapOf(E)[k]]
    BY <1>2, MapWithEntry DEF E
  <2> QED
    BY <1>2, <2>1, <2>2, <2>3 DEF E, p
<1>5. ASSUME NEW asked \in Sizes
      PROVE  ContentsOf(Resized(asked).buckets) = Contents
  <2>1. asked \in Nat
    BY DEF KHashAssumption
  <2>2. TableInv(Resized(asked)) /\ Entries(Resized(asked).buckets) = Entries(bucket)
    BY <2>1, ResizedProperties
  <2> QED
    BY <1>2, <1>3, <2>2
<1> QED
  BY <1>2, <1>4, <1>5 DEF CallsChangeTheirKey

\* kh_put sets its key and nothing else, whatever it has to move for that, and
\* kh_resize loses nothing and changes nothing.
THEOREM CallsKeepOtherKeys ==
  ASSUME KHashAssumption
  PROVE  Spec => []CallsChangeTheirKey
BY CallsChangeContents, HashInvHolds, PTL

\* A step of the table is one of the map.
LEMMA StepIsOfMap ==
  ASSUME KHashAssumption, HashInv, HashInv', Next
  PROVE  [Map!OneKey \/ Map!Clear]_Contents
<1> DEFINE E == Entries(bucket)
<1>1. CallsChangeTheirKey /\ Contents = MapOf(E) /\ OneEach(E)
  BY CallsChangeContents
<1>2. Contents' = MapOf(E')
  <2>1. KHashAssumption'
    BY DEF KHashAssumption
  <2> QED
    BY <2>1, ContentsOfTableThen DEF OfEntries, MapOf
<1>3. ASSUME NEW key \in Keys, NEW val \in Vals, kh_put(key, val)
      PROVE  Map!OneKey
  <2>1. Contents' = [k \in DOMAIN Contents \cup {key} |-> IF k = key THEN val ELSE Contents[k]]
    <3> DEFINE p == Put(key, val)
    <3>1. bucket' = p.buckets
      BY <1>3 DEF kh_put, Becomes
    <3>2. Contents' = ContentsOf(bucket')
      BY DEF Contents
    <3>3. Contents' = ContentsOf(p.buckets)
      <4> HIDE DEF p
      <4> QED
        BY <3>1, <3>2
    <3> QED
      BY <1>1, <3>3 DEF CallsChangeTheirKey
  <2>2. DOMAIN Contents' = DOMAIN Contents \cup {key}
        /\ \A k \in DOMAIN Contents' : k # key => Contents'[k] = Contents[k]
    BY <2>1
  <2> QED
    BY <2>2 DEF Map!OneKey, Map!Keeps
<1>4. ASSUME NEW key \in Keys, kh_del(key)
      PROVE  Map!OneKey
  <2>1. E' = {e \in E : key \notin e.key}
    BY <1>4, DelProperties DEF Others, Entries, UsedIn
  <2>2. /\ DOMAIN Contents' = DOMAIN Contents \ {key}
        /\ \A k \in DOMAIN Contents' : Contents'[k] = Contents[k]
    <3> HIDE DEF E
    <3>1. LET F == {e \in E : key \notin e.key}
          IN  /\ DOMAIN MapOf(F) = DOMAIN MapOf(E) \ {key}
              /\ \A k \in DOMAIN MapOf(F) : MapOf(F)[k] = MapOf(E)[k]
      BY <1>1, MapWithoutKey
    <3> QED
      BY <1>1, <1>2, <2>1, <3>1
  <2>3. key \in DOMAIN Contents
    <3>1. kh_get(key) # n_buckets
      BY <1>4 DEF kh_del
    <3>2. kh_get(key) \in 0..(n_buckets - 1) /\ bucket[kh_get(key)].key = {key}
          /\ IsUsed(bucket[kh_get(key)])
      BY <3>1, GetIsUsed
    <3>3. DOMAIN bucket = 0..(n_buckets - 1)
      BY ThisTableIs DEF Sound
    <3>4. bucket[kh_get(key)] \in E
      BY <3>2, <3>3 DEF Entries, UsedIn
    <3> QED
      BY <1>1, <3>2, <3>4, MapOfOneEach
  <2> QED
    BY <2>2, <2>3 DEF Map!OneKey, Map!Keeps
<1>5. ASSUME kh_clear
      PROVE  Map!Clear
  <2>1. E' = {}
    BY <1>5, ClearProperties DEF Entries, UsedIn
  <2>2. DOMAIN MapOf({}) = {}
    BY DEF MapOf
  <2> QED
    BY <1>2, <2>1, <2>2 DEF Map!Clear
<1>6. ASSUME NEW asked \in Sizes, kh_resize(asked)
      PROVE  Contents' = Contents
  <2> DEFINE t == Resized(asked)
  <2>1. bucket' = t.buckets
    BY <1>6 DEF kh_resize, Becomes
  <2>2. Contents' = ContentsOf(bucket')
    BY DEF Contents
  <2>3. Contents' = ContentsOf(t.buckets)
    <3> HIDE DEF t
    <3> QED
      BY <2>1, <2>2
  <2> QED
    BY <1>1, <2>3 DEF CallsChangeTheirKey
<1> QED
  BY <1>3, <1>4, <1>5, <1>6 DEF Next

\* The buckets, and all that is moved about in them, make a map: a call puts or drops
\* one key, whose value alone it changes, or drops them all.
THEOREM TablesAreMaps ==
  ASSUME KHashAssumption
  PROVE  Spec => TableIsAMap
<1>1. HashInv /\ HashInv' /\ [Next]_vars => [Map!OneKey \/ Map!Clear]_Contents
  <2>1. UNCHANGED vars => Contents' = Contents
    <3> SUFFICES ASSUME UNCHANGED vars PROVE Contents' = Contents
      OBVIOUS
    <3>1. bucket' = bucket
      BY DEF vars
    <3>2. Contents' = ContentsOf(bucket')
      BY DEF Contents
    <3> QED
      BY <3>1, <3>2 DEF Contents
  <2> QED
    BY <2>1, StepIsOfMap
<1> QED
  BY <1>1, HashInvHolds, PTL DEF Spec, TableIsAMap, Map!Spec

-----------------------------------------------------------------------------
\* What the tables grow to.

\* As many entries as there may be, in not too many buckets.
GrowthInv == size <= MaxEntries /\ ChurnIsBounded

\* A call that makes room doubles the buckets only if half of them are used.
LEMMA GrowthInvInductive ==
  ASSUME KHashAssumption
  PROVE  /\ Init => GrowthInv
         /\ HashInv /\ GrowthInv /\ [Next]_vars => GrowthInv'
<1>0. MaxEntries \in Nat
  BY DEF KHashAssumption
<1>1. Init => GrowthInv
  BY <1>0 DEF Init, GrowthInv, ChurnIsBounded
<1>2. ASSUME HashInv, GrowthInv, Next
      PROVE  GrowthInv'
  <2>1. n_buckets \in Nat /\ size \in Nat
    BY <1>2, ThisTableIs
  <2>2. ASSUME NEW key \in Keys, NEW val \in Vals, size < MaxEntries, kh_put(key, val)
        PROVE  GrowthInv'
    <3>1. /\ WithRoom.n = n_buckets \/ WithRoom.n = 4
             \/ (WithRoom.n = 2 * n_buckets /\ n_buckets <= 2 * size)
          /\ TableInv(Put(key, val))
          /\ Put(key, val).n = WithRoom.n /\ Put(key, val).entries <= size + 1
      BY <1>2, RoomIsMade, PutProperties
    <3>2. n_buckets' = WithRoom.n /\ size' <= size + 1 /\ size' \in Nat
      BY <2>2, <3>1, CountersOf DEF kh_put, Becomes
    <3>3. ChurnIsBounded'
      BY <1>0, <1>2, <2>1, <2>2, <3>1, <3>2 DEF GrowthInv, ChurnIsBounded
    <3> QED
      BY <1>0, <2>1, <2>2, <3>2, <3>3 DEF GrowthInv
  <2>3. ASSUME NEW key \in Keys, kh_del(key)
        PROVE  GrowthInv'
    BY <1>0, <1>2, <2>1, <2>3 DEF kh_del, GrowthInv, ChurnIsBounded
  <2>4. ASSUME kh_clear
        PROVE  GrowthInv'
    BY <1>0, <1>2, <2>4 DEF kh_clear, GrowthInv, ChurnIsBounded
  <2>5. ASSUME NEW asked \in Sizes, kh_resize(asked)
        PROVE  GrowthInv'
    <3>1. asked \in Nat
      BY DEF KHashAssumption
    <3> DEFINE t == Resized(asked)
    <3>2. /\ t.entries = size
          /\ size < upper_bound(Roundup(asked)) => t.n = Roundup(asked)
          /\ ~(size < upper_bound(Roundup(asked))) => t = ThisTable
      BY <1>2, <3>1, ResizedProperties
    <3>3. n_buckets' = t.n /\ size' = t.entries
      BY <2>5 DEF kh_resize, Becomes
    <3> HIDE DEF t
    <3>4. n_buckets' = n_buckets \/ n_buckets' = Roundup(asked)
      BY <1>2, <3>2, <3>3, ThisTableIs
    <3>5. Roundup(asked) \in Nat
      BY <3>1, RoundupProperties
    <3>6. ChurnIsBounded'
      BY <1>2, <3>4, <3>5 DEF GrowthInv, ChurnIsBounded
    <3> QED
      BY <1>2, <3>2, <3>3, <3>6 DEF GrowthInv
  <2> QED
    BY <1>2, <2>2, <2>3, <2>4, <2>5 DEF Next
<1>3. ASSUME GrowthInv, UNCHANGED vars
      PROVE  GrowthInv'
  BY <1>3 DEF vars, GrowthInv, ChurnIsBounded
<1> QED
  BY <1>1, <1>2, <1>3

\* Entries that come and go do not make the table grow, however many keys there have
\* been.
THEOREM ChurnDoesNotGrowTables ==
  ASSUME KHashAssumption
  PROVE  Spec => []ChurnIsBounded
<1>1. GrowthInv => ChurnIsBounded
  BY DEF GrowthInv
<1> QED
  BY <1>1, GrowthInvInductive, HashInvHolds, PTL DEF Spec

-----------------------------------------------------------------------------
\* Nodes.

\* The nodes of a list and those of the pool are the first n nodes, each once.
Owned(c, b, n) ==
  /\ c \in Seq(Nat) /\ b \in Seq(Nat) /\ n \in Nat
  /\ Len(c) + Len(b) = n
  /\ \A i \in 1..Len(c) : c[i] \in 1..n
  /\ \A i \in 1..Len(b) : b[i] \in 1..n
  /\ \A i, j \in 1..Len(c) : c[i] = c[j] => i = j
  /\ \A i, j \in 1..Len(b) : b[i] = b[j] => i = j
  /\ \A i \in 1..Len(c), j \in 1..Len(b) : c[i] # b[j]
  /\ \A p \in 1..n : \/ \E i \in 1..Len(c) : c[i] = p
                     \/ \E i \in 1..Len(b) : b[i] = p

\* They stay so when the node that was given back last goes to the list,
LEMMA FromPool ==
  ASSUME NEW c, NEW b, NEW n, Owned(c, b, n), b # <<>>
  PROVE  Owned(Append(c, b[Len(b)]), SubSeq(b, 1, Len(b) - 1), n)
<1> DEFINE m == Len(b)
           a == b[m]
           list == Append(c, a)
           rest == SubSeq(b, 1, m - 1)
<1>1. /\ c \in Seq(Nat) /\ b \in Seq(Nat) /\ n \in Nat
      /\ Len(c) \in Nat /\ m \in Nat \ {0} /\ Len(c) + m = n
  BY EmptySeq, LenProperties DEF Owned
<1>2. a \in 1..n /\ a \in Nat
  BY <1>1 DEF Owned
<1>3. /\ list \in Seq(Nat)
      /\ Len(list) = Len(c) + 1
      /\ \A i \in 1..Len(c) : list[i] = c[i]
      /\ list[Len(c) + 1] = a
  BY <1>1, <1>2, AppendProperties
<1>4. /\ rest \in Seq(Nat)
      /\ Len(rest) = m - 1
      /\ \A i \in 1..(m - 1) : rest[i] = b[i]
  <2>1. \A i \in 1..(m - 1) : b[i] \in Nat
    BY <1>1, ElementOfSeq
  <2> HIDE DEF m
  <2> QED
    BY <1>1, <2>1, SubSeqProperties
<1>5. \A i \in 1..(m - 1) : b[i] # a
  BY <1>1 DEF Owned
<1>a. /\ \A i, j \in 1..Len(c) : c[i] = c[j] => i = j
      /\ \A i, j \in 1..m : b[i] = b[j] => i = j
      /\ \A i \in 1..Len(c), j \in 1..m : c[i] # b[j]
      /\ m \in 1..m
  BY <1>1 DEF Owned
<1>12. \A i \in 1..Len(c) : c[i] # a
  BY <1>a
<1> HIDE DEF list, rest, a, m
<1>6. \A i \in 1..(Len(c) + 1) : i \in 1..Len(c) \/ i = Len(c) + 1
  BY <1>1
<1>7. \A i \in 1..m : i \in 1..(m - 1) \/ i = m
  BY <1>1
<1>8. \A i \in 1..(m - 1) : i \in 1..m
  BY <1>1
<1>9. Len(list) + Len(rest) = n
  <2>1. Len(c) \in Int /\ m \in Int /\ Len(c) + m = n
    BY <1>1
  <2>2. (Len(c) + 1) + (m - 1) = n
    BY <2>1
  <2>3. Len(list) = Len(c) + 1 /\ Len(rest) = m - 1
    BY <1>3, <1>4
  <2> QED
    BY <2>2, <2>3
<1>10. \A i \in 1..Len(list) : list[i] \in 1..n
  BY <1>2, <1>3, <1>6 DEF Owned
<1>11. \A i \in 1..Len(rest) : rest[i] \in 1..n
  BY <1>4, <1>8 DEF Owned, m
<1>13. \A i, j \in 1..Len(list) : list[i] = list[j] => i = j
  BY <1>3, <1>6, <1>12, <1>a
<1>14. \A i, j \in 1..Len(rest) : rest[i] = rest[j] => i = j
  BY <1>4, <1>8, <1>a
<1>15. \A i \in 1..Len(list), j \in 1..Len(rest) : list[i] # rest[j]
  BY <1>3, <1>4, <1>5, <1>6, <1>8, <1>a
<1>16. ASSUME NEW p \in 1..n
       PROVE  \/ \E i \in 1..Len(list) : list[i] = p
              \/ \E i \in 1..Len(rest) : rest[i] = p
  <2>1. CASE \E i \in 1..Len(c) : c[i] = p
    BY <1>1, <1>3, <2>1
  <2>2. ASSUME NEW i \in 1..m, b[i] = p
        PROVE  <1>16!2
    <3>1. CASE i = m
      BY <1>1, <1>3, <2>2, <3>1 DEF a
    <3>2. CASE i \in 1..(m - 1)
      BY <1>4, <2>2, <3>2
    <3> QED
      BY <1>7, <3>1, <3>2
  <2> QED
    BY <2>1, <2>2 DEF Owned, m
<1>17. Owned(list, rest, n)
  BY <1>1, <1>3, <1>4, <1>9, <1>10, <1>11, <1>13, <1>14, <1>15, <1>16 DEF Owned
<1> QED
  BY <1>17 DEF list, rest, a, m

\* when the pool is empty and a new node does,
LEMMA FromMemory ==
  ASSUME NEW c, NEW n, Owned(c, <<>>, n)
  PROVE  Owned(Append(c, n + 1), <<>>, n + 1)
<1> DEFINE list == Append(c, n + 1)
<1>1. /\ c \in Seq(Nat) /\ n \in Nat /\ <<>> \in Seq(Nat) /\ Len(<<>>) = 0
      /\ Len(c) = n
  BY EmptySeq, LenProperties DEF Owned
<1>2. /\ list \in Seq(Nat)
      /\ Len(list) = n + 1
      /\ \A i \in 1..n : list[i] = c[i]
      /\ list[n + 1] = n + 1
  BY <1>1, AppendProperties
<1>3. 1..0 = {} /\ \A i \in 1..(n + 1) : i \in 1..n \/ i = n + 1
  BY <1>1
<1>4. \A i \in 1..n : c[i] \in 1..n
  BY <1>1 DEF Owned
<1>5. \A i, j \in 1..n : c[i] = c[j] => i = j
  BY <1>1 DEF Owned
<1>6. \A p \in 1..n : \E i \in 1..n : c[i] = p
  BY <1>1, <1>3 DEF Owned
<1> HIDE DEF list
<1>7. \A i \in 1..(n + 1) : list[i] \in 1..(n + 1)
  BY <1>1, <1>2, <1>3, <1>4
<1>8. \A i, j \in 1..(n + 1) : list[i] = list[j] => i = j
  BY <1>1, <1>2, <1>3, <1>4, <1>5
<1>9. ASSUME NEW p \in 1..(n + 1)
      PROVE  \E i \in 1..(n + 1) : list[i] = p
  <2>1. CASE p = n + 1
    BY <1>1, <1>2, <2>1
  <2>2. CASE p \in 1..n
    <3>1. PICK i \in 1..n : c[i] = p
      BY <1>6, <2>2
    <3> QED
      BY <1>1, <1>2, <3>1
  <2> QED
    BY <1>3, <2>1, <2>2
<1>10. Owned(list, <<>>, n + 1)
  BY <1>1, <1>2, <1>3, <1>7, <1>8, <1>9 DEF Owned
<1> QED
  BY <1>10 DEF list

\* and when the first node of the list goes to the pool.
LEMMA ToPool ==
  ASSUME NEW c, NEW b, NEW n, Owned(c, b, n), c # <<>>
  PROVE  Owned(Tail(c), Append(b, c[1]), n)
<1> DEFINE m == Len(c)
           a == c[1]
           rest == Tail(c)
           pool == Append(b, a)
<1>1. /\ c \in Seq(Nat) /\ b \in Seq(Nat) /\ n \in Nat
      /\ Len(b) \in Nat /\ m \in Nat \ {0} /\ m + Len(b) = n
  BY EmptySeq, LenProperties DEF Owned
<1>2. a \in 1..n /\ a \in Nat
  BY <1>1 DEF Owned
<1>3. /\ pool \in Seq(Nat)
      /\ Len(pool) = Len(b) + 1
      /\ \A i \in 1..Len(b) : pool[i] = b[i]
      /\ pool[Len(b) + 1] = a
  BY <1>1, <1>2, AppendProperties
<1>4. /\ rest \in Seq(Nat)
      /\ Len(rest) = m - 1
      /\ \A i \in 1..(m - 1) : rest[i] = c[i + 1]
  BY <1>1, HeadTailProperties
<1>5. \A i \in 1..(m - 1) : c[i + 1] # a
  BY <1>1 DEF Owned
<1>a. /\ \A i, j \in 1..m : c[i] = c[j] => i = j
      /\ \A i, j \in 1..Len(b) : b[i] = b[j] => i = j
      /\ \A i \in 1..m, j \in 1..Len(b) : c[i] # b[j]
      /\ 1 \in 1..m
  BY <1>1 DEF Owned
<1>12. \A i \in 1..Len(b) : b[i] # a
  BY <1>a
<1> HIDE DEF pool, rest, a, m
<1>6. \A i \in 1..(Len(b) + 1) : i \in 1..Len(b) \/ i = Len(b) + 1
  BY <1>1
<1>7. \A i \in 1..m : i = 1 \/ (i - 1 \in 1..(m - 1) /\ i = (i - 1) + 1)
  BY <1>1
<1>8. \A i \in 1..(m - 1) : i + 1 \in 1..m
  BY <1>1
<1>9. Len(rest) + Len(pool) = n
  <2>1. m \in Int /\ Len(b) \in Int /\ m + Len(b) = n
    BY <1>1
  <2>2. (m - 1) + (Len(b) + 1) = n
    BY <2>1
  <2>3. Len(rest) = m - 1 /\ Len(pool) = Len(b) + 1
    BY <1>3, <1>4
  <2> QED
    BY <2>2, <2>3
<1>10. \A i \in 1..Len(pool) : pool[i] \in 1..n
  BY <1>2, <1>3, <1>6 DEF Owned
<1>11. \A i \in 1..Len(rest) : rest[i] \in 1..n
  BY <1>4, <1>8 DEF Owned, m
<1>13. \A i, j \in 1..Len(pool) : pool[i] = pool[j] => i = j
  BY <1>3, <1>6, <1>12, <1>a
<1>14. ASSUME NEW i \in 1..Len(rest), NEW j \in 1..Len(rest), rest[i] = rest[j]
       PROVE  i = j
  <2>1. i + 1 \in 1..m /\ j + 1 \in 1..m /\ c[i + 1] = c[j + 1]
    BY <1>4, <1>8, <1>14
  <2>2. i + 1 = j + 1
    BY <2>1 DEF Owned, m
  <2> QED
    BY <1>1, <1>4, <2>2
<1>15. ASSUME NEW i \in 1..Len(rest), NEW j \in 1..Len(pool)
       PROVE  rest[i] # pool[j]
  <2>1. i \in 1..(m - 1) /\ i + 1 \in 1..m /\ rest[i] = c[i + 1]
    BY <1>4, <1>8
  <2>2. CASE j \in 1..Len(b)
    BY <1>3, <1>a, <2>1, <2>2
  <2>3. CASE j = Len(b) + 1
    BY <1>3, <1>5, <2>1, <2>3
  <2> QED
    BY <1>3, <1>6, <2>2, <2>3
<1>16. ASSUME NEW p \in 1..n
       PROVE  \/ \E i \in 1..Len(rest) : rest[i] = p
              \/ \E i \in 1..Len(pool) : pool[i] = p
  <2>1. CASE \E i \in 1..Len(b) : b[i] = p
    BY <1>1, <1>3, <2>1
  <2>2. ASSUME NEW i \in 1..m, c[i] = p
        PROVE  <1>16!2
    <3>1. CASE i = 1
      BY <1>1, <1>3, <2>2, <3>1 DEF a
    <3>2. CASE i - 1 \in 1..(m - 1) /\ i = (i - 1) + 1
      BY <1>4, <2>2, <3>2
    <3> QED
      BY <1>7, <3>1, <3>2
  <2> QED
    BY <2>1, <2>2 DEF Owned, m
<1>17. Owned(rest, pool, n)
  BY <1>1, <1>3, <1>4, <1>9, <1>10, <1>11, <1>13, <1>14, <1>15, <1>16 DEF Owned
<1> QED
  BY <1>17 DEF rest, pool, a, m

-----------------------------------------------------------------------------
\* The chain.

\* Nodes each of which is the successor of the one before are the chain.
LEMMA ChainIsFollowed ==
  ASSUME NEW first, NEW succ, NEW n \in Nat, NEW c \in Seq(Nat),
         Len(c) = n + 1, c[1] = first, \A i \in 1..n : succ[c[i]] = c[i + 1]
  PROVE  ChainFrom(first, succ, n) = c
<1> DEFINE Fits(f) == f = [k \in 0..n |-> IF k = 0 THEN first ELSE succ[f[k - 1]]]
           g == [k \in 0..n |-> c[k + 1]]
           node == CHOOSE f : Fits(f)
<1>1. Fits(g)
  <2>1. \A k \in 0..n : k = 0 \/ (k \in 1..n /\ k - 1 \in 0..n /\ (k - 1) + 1 = k)
    OBVIOUS
  <2>2. \A k \in 0..n : g[k] = c[k + 1]
    OBVIOUS
  <2>3. 0 + 1 = 1 /\ 0 \in 0..n
    OBVIOUS
  <2>4. g = [k \in 0..n |-> g[k]]
    OBVIOUS
  <2> HIDE DEF g
  <2>5. \A k \in 0..n : g[k] = IF k = 0 THEN first ELSE succ[g[k - 1]]
    BY <2>1, <2>2, <2>3
  <2> QED
    BY <2>4, <2>5
<1>2. Fits(node)
  BY <1>1
<1>3. \A k \in 0..n : node[k] = IF k = 0 THEN first ELSE succ[node[k - 1]]
  <2> HIDE DEF node
  <2> QED
    BY <1>2
<1> HIDE DEF node
<1>4. \A k \in 0..n : node[k] = c[k + 1]
  <2> DEFINE Bad == {k \in 0..n : node[k] # c[k + 1]}
  <2> SUFFICES ASSUME Bad # {} PROVE FALSE
    OBVIOUS
  <2>1. PICK k \in Bad : \A l \in Bad : k <= l
    <3>1. Bad \subseteq Nat
      OBVIOUS
    <3> HIDE DEF Bad
    <3> QED
      BY <3>1, MinOfNaturals
  <2>2. k \in 0..n /\ node[k] # c[k + 1]
    BY <2>1
  <2>3. k # 0
    BY <1>3, <2>2
  <2>4. /\ k - 1 \in 0..n /\ ~(k <= k - 1) /\ k \in 1..n /\ (k - 1) + 1 = k
    BY <2>2, <2>3
  <2>5. node[k - 1] = c[k]
    BY <2>1, <2>4
  <2>6. node[k] = succ[c[k]]
    BY <1>3, <2>2, <2>3, <2>5
  <2> QED
    BY <2>2, <2>4, <2>6
<1>5. ChainFrom(first, succ, n) = [k \in 1..(n + 1) |-> node[k - 1]]
  BY DEF ChainFrom, node
<1>6. \A k \in 1..(n + 1) : node[k - 1] = c[k]
  <2>1. \A k \in 1..(n + 1) : k - 1 \in 0..n /\ (k - 1) + 1 = k
    OBVIOUS
  <2> QED
    BY <1>4, <2>1
<1>7. c = [k \in 1..(n + 1) |-> c[k]]
  BY LenProperties
<1> QED
  BY <1>5, <1>6, <1>7

-----------------------------------------------------------------------------
\* The inductive invariant: from head on every node but the last has a successor, and
\* the nodes one comes by are those the pool does not have.

Follows(c) ==
  /\ Owned(c, buf, made)
  /\ Len(c) = listSize + 1
  /\ c[1] = head /\ c[listSize + 1] = tail
  /\ next[tail] = NULL
  /\ \A i \in 1..listSize : next[c[i]] = c[i + 1]

ListTypes ==
  /\ listSize \in Nat /\ cnt = listSize + 1
  /\ made \in 1..MaxNodes
  /\ next \in [1..MaxNodes -> 0..MaxNodes]
  /\ data \in [1..MaxNodes -> ListData \cup {NoData}]

ListInv == ListTypes /\ Follows(Chain)

LEMMA InitIsSound ==
  ASSUME KListAssumption, ListInit
  PROVE  ListInv
<1>1. MaxNodes \in Nat /\ 1 \in 1..MaxNodes
  BY DEF KListAssumption
<1>2. ListTypes
  <2>1. /\ listSize = 0 /\ cnt = 1 /\ made = 1
        /\ next = [p \in 1..MaxNodes |-> 0]
        /\ data = [p \in 1..MaxNodes |-> NoData]
    BY DEF ListInit, NULL
  <2>2. 0 \in 0..MaxNodes
    BY <1>1
  <2> QED
    BY <1>1, <2>1, <2>2 DEF ListTypes
<1>3. Follows(<<1>>)
  <2>1. /\ listSize = 0 /\ made = 1 /\ buf = <<>> /\ head = 1 /\ tail = 1
        /\ next[1] = 0
    BY <1>1 DEF ListInit, NULL
  <2>2. /\ <<1>> \in Seq(Nat) /\ <<>> \in Seq(Nat) /\ Len(<<1>>) = 1 /\ Len(<<>>) = 0
        /\ <<1>>[1] = 1
    OBVIOUS
  <2>3. 1..0 = {} /\ 1..1 = {1}
    OBVIOUS
  <2>4. Owned(<<1>>, <<>>, 1)
    BY <2>2, <2>3 DEF Owned
  <2> QED
    BY <2>1, <2>2, <2>3, <2>4 DEF Follows, NULL
<1>4. Chain = <<1>>
  <2>1. <<1>> \in Seq(Nat) /\ Len(<<1>>) = listSize + 1 /\ listSize \in Nat
    BY <1>2, <1>3 DEF ListTypes, Follows, Owned
  <2>2. <<1>>[1] = head /\ \A i \in 1..listSize : next[<<1>>[i]] = <<1>>[i + 1]
    BY <1>3 DEF Follows
  <2> QED
    BY <2>1, <2>2, ChainIsFollowed DEF Chain
<1> QED
  BY <1>2, <1>3, <1>4 DEF ListInv

\* What is followed after a step is the chain after it.
LEMMA FollowedNext ==
  ASSUME ListTypes', NEW c, Follows(c)'
  PROVE  ListInv' /\ Chain' = c
<1>1. c \in Seq(Nat) /\ Len(c) = listSize' + 1 /\ listSize' \in Nat
  BY DEF ListTypes, Follows, Owned
<1>2. c[1] = head' /\ \A i \in 1..listSize' : next'[c[i]] = c[i + 1]
  BY DEF Follows
<1>3. ChainFrom(head', next', listSize') = c
  BY <1>1, <1>2, ChainIsFollowed
<1>4. Chain' = c
  BY <1>3 DEF Chain
<1>5. Follows(Chain)'
  BY <1>4 DEF Follows
<1> QED
  BY <1>4, <1>5 DEF ListInv

\* A push appends a node to the chain.
LEMMA PushKeeps ==
  ASSUME KListAssumption, NEW d \in ListData, ListInv, kl_pushp(d)
  PROVE  /\ ListInv'
         /\ \E a \in 1..MaxNodes : /\ Chain' = Append(Chain, a)
                                   /\ \A i \in 1..Len(Chain) : Chain[i] # a
<1> DEFINE c == Chain
           a == kmp_alloc
<1>1. /\ Follows(c) /\ ListTypes
      /\ c \in Seq(Nat) /\ buf \in Seq(Nat) /\ made \in Nat /\ listSize \in Nat
      /\ Len(c) = listSize + 1
  BY DEF ListInv, Follows, Owned, ListTypes
<1>2. /\ Owned(Append(c, a), buf', made')
      /\ a \in 1..MaxNodes /\ made' \in 1..MaxNodes
      /\ \A i \in 1..Len(c) : c[i] # a
  <2>1. Owned(c, buf, made) /\ made \in 1..MaxNodes /\ a <= MaxNodes
    BY <1>1 DEF Follows, ListTypes, kl_pushp
  <2> HIDE DEF c
  <2>2. CASE buf = <<>>
    <3>1. a = made + 1 /\ made' = made + 1 /\ buf' = <<>>
      BY <2>2 DEF kl_pushp, TakeNode, kmp_alloc
    <3>2. Owned(Append(c, made + 1), <<>>, made + 1)
      BY <2>1, <2>2, FromMemory
    <3>3. \A i \in 1..Len(c) : c[i] \in 1..made
      BY <2>1 DEF Owned
    <3> QED
      BY <2>1, <3>1, <3>2, <3>3
  <2>3. CASE buf # <<>>
    <3>1. a = buf[Len(buf)] /\ made' = made /\ buf' = SubSeq(buf, 1, Len(buf) - 1)
      BY <2>3 DEF kl_pushp, TakeNode, kmp_alloc
    <3>2. Owned(Append(c, buf[Len(buf)]), SubSeq(buf, 1, Len(buf) - 1), made)
      BY <2>1, <2>3, FromPool
    <3>3. Len(buf) \in 1..Len(buf)
      BY <1>1, <2>3, EmptySeq, LenProperties
    <3>4. buf[Len(buf)] \in 1..made /\ \A i \in 1..Len(c) : c[i] # buf[Len(buf)]
      BY <2>1, <3>3 DEF Owned
    <3> QED
      BY <2>1, <3>1, <3>2, <3>4
  <2> QED
    BY <2>2, <2>3
<1>3. /\ next' = [next EXCEPT ![a] = NULL, ![tail] = a]
      /\ tail' = a /\ head' = head
      /\ data' = [data EXCEPT ![tail] = d]
      /\ listSize' = listSize + 1 /\ cnt' = cnt + 1
  BY DEF kl_pushp, TakeNode
<1>4. /\ next \in [1..MaxNodes -> 0..MaxNodes] /\ MaxNodes \in Nat
      /\ c[listSize + 1] = tail /\ listSize + 1 \in 1..Len(c)
      /\ c[1] = head /\ 1 \in 1..Len(c)
      /\ \A i \in 1..listSize : next[c[i]] = c[i + 1]
      /\ \A i, j \in 1..Len(c) : c[i] = c[j] => i = j
      /\ \A i \in 1..Len(c) : c[i] \in 1..MaxNodes
  <2>1. next \in [1..MaxNodes -> 0..MaxNodes] /\ MaxNodes \in Nat /\ made \in 1..MaxNodes
    BY <1>1 DEF ListTypes, KListAssumption
  <2> HIDE DEF c
  <2>2. listSize + 1 \in 1..Len(c) /\ 1 \in 1..Len(c)
    BY <1>1
  <2>3. /\ c[listSize + 1] = tail /\ c[1] = head
        /\ \A i \in 1..listSize : next[c[i]] = c[i + 1]
    BY <1>1 DEF Follows
  <2>4. /\ \A i, j \in 1..Len(c) : c[i] = c[j] => i = j
        /\ \A i \in 1..Len(c) : c[i] \in 1..made
    BY <1>1 DEF Follows, Owned
  <2>5. \A p \in 1..made : p \in 1..MaxNodes
    BY <2>1
  <2> QED
    BY <2>1, <2>2, <2>3, <2>4, <2>5
<1> HIDE DEF c, a
<1>5. ListTypes'
  <2>1. next' \in [1..MaxNodes -> 0..MaxNodes]
    <3>1. 0 \in 0..MaxNodes /\ a \in 0..MaxNodes
      BY <1>2, <1>4
    <3>2. [next EXCEPT ![a] = 0] \in [1..MaxNodes -> 0..MaxNodes]
      BY <1>4, <3>1
    <3> QED
      BY <1>3, <3>1, <3>2 DEF NULL
  <2>2. data' \in [1..MaxNodes -> ListData \cup {NoData}]
    BY <1>1, <1>3 DEF ListTypes
  <2>3. listSize' \in Nat /\ cnt' = listSize' + 1
    BY <1>1, <1>3 DEF ListTypes
  <2> QED
    BY <1>2, <2>1, <2>2, <2>3 DEF ListTypes
<1>6. /\ Append(c, a) \in Seq(Nat)
      /\ Len(Append(c, a)) = Len(c) + 1
      /\ \A i \in 1..Len(c) : Append(c, a)[i] = c[i]
      /\ Append(c, a)[Len(c) + 1] = a
  <2>1. a \in Nat
    BY <1>2
  <2> QED
    BY <1>1, <2>1, AppendProperties
<1>7. tail # a /\ tail \in 1..MaxNodes
  BY <1>2, <1>4
<1>8. next'[a] = NULL
  BY <1>2, <1>3, <1>4, <1>7
<1>9. ASSUME NEW i \in 1..(listSize + 1)
      PROVE  next'[Append(c, a)[i]] = Append(c, a)[i + 1]
  <2>1. CASE i \in 1..listSize
    <3>1. /\ i \in 1..Len(c) /\ i + 1 \in 1..Len(c) /\ i # listSize + 1
      BY <1>1, <2>1
    <3>2. c[i] # a /\ c[i] # tail /\ c[i] \in 1..MaxNodes
      BY <1>2, <1>4, <3>1
    <3>3. next'[c[i]] = next[c[i]]
      BY <1>3, <1>4, <3>2
    <3> QED
      BY <1>4, <1>6, <2>1, <3>1, <3>3
  <2>2. CASE i = listSize + 1
    <3>1. Append(c, a)[i] = tail /\ Append(c, a)[i + 1] = a
      BY <1>1, <1>4, <1>6, <2>2
    <3>2. next'[tail] = a
      BY <1>3, <1>4, <1>7
    <3> QED
      BY <3>1, <3>2
  <2> QED
    BY <1>1, <2>1, <2>2
<1>10. PICK list : list = Append(c, a)
  OBVIOUS
<1>11. Follows(list)'
  BY <1>1, <1>2, <1>3, <1>4, <1>6, <1>8, <1>9, <1>10 DEF Follows
<1>12. ListInv' /\ Chain' = list
  BY <1>5, <1>11, FollowedNext
<1> QED
  BY <1>2, <1>10, <1>12 DEF c

\* A shift takes the first node off it.
LEMMA ShiftKeeps ==
  ASSUME ListInv, kl_shift
  PROVE  ListInv' /\ listSize # 0 /\ Chain' = Tail(Chain)
<1> DEFINE c == Chain
<1>1. /\ Follows(c) /\ ListTypes
      /\ c \in Seq(Nat) /\ listSize \in Nat /\ Len(c) = listSize + 1
  BY DEF ListInv, Follows, Owned, ListTypes
<1>2. /\ next[head] # NULL /\ head' = next[head] /\ listSize' = listSize - 1
      /\ buf' = Append(buf, head) /\ cnt' = cnt - 1
      /\ made' = made /\ tail' = tail /\ next' = next /\ data' = data
  BY DEF kl_shift, kmp_free
<1> HIDE DEF c
<1>3. /\ c[listSize + 1] = tail /\ c[1] = head /\ next[tail] = NULL
      /\ \A i \in 1..listSize : next[c[i]] = c[i + 1]
      /\ Owned(c, buf, made)
  BY <1>1 DEF Follows
<1>4. listSize # 0
  BY <1>2, <1>3
<1>5. c # <<>> /\ listSize - 1 \in Nat
  BY <1>1, <1>4, EmptySeq
<1>6. Owned(Tail(c), buf', made')
  BY <1>2, <1>3, <1>5, ToPool
<1>7. /\ Tail(c) \in Seq(Nat) /\ Len(Tail(c)) = listSize
      /\ \A i \in 1..listSize : Tail(c)[i] = c[i + 1]
  BY <1>1, <1>5, HeadTailProperties
<1>8. PICK list : list = Tail(c)
  OBVIOUS
<1>9. Follows(list)'
  <2>1. Owned(list, buf', made') /\ Len(list) = listSize' + 1
    BY <1>1, <1>2, <1>6, <1>7, <1>8
  <2>2. 1 \in 1..listSize /\ listSize \in 1..listSize
    BY <1>1, <1>4
  <2>3. list[1] = head' /\ list[listSize] = tail'
    <3>1. next[c[1]] = c[1 + 1] /\ list[1] = c[1 + 1]
      BY <1>3, <1>7, <1>8, <2>2
    <3> QED
      BY <1>2, <1>3, <1>7, <1>8, <2>2, <3>1
  <2>4. listSize' + 1 = listSize
    BY <1>1, <1>2
  <2>5. ASSUME NEW i \in 1..listSize'
        PROVE  next'[list[i]] = list[i + 1]
    <3>1. i \in 1..listSize /\ i + 1 \in 1..listSize
      BY <1>1, <1>2, <2>4
    <3>2. list[i] = c[i + 1] /\ list[i + 1] = c[i + 1 + 1]
      BY <1>7, <1>8, <3>1
    <3> QED
      BY <1>2, <1>3, <3>1, <3>2
  <2> QED
    BY <1>2, <1>3, <2>1, <2>3, <2>4, <2>5 DEF Follows
<1>10. ListTypes'
  BY <1>1, <1>2, <1>5 DEF ListTypes
<1>11. ListInv' /\ Chain' = list
  BY <1>9, <1>10, FollowedNext
<1> QED
  BY <1>4, <1>8, <1>11 DEF c

LEMMA StepKeepsList ==
  ASSUME KListAssumption, ListInv, [ListNext]_listVars
  PROVE  ListInv'
<1>1. CASE kl_shift
  BY <1>1, ShiftKeeps
<1>2. ASSUME NEW d \in ListData, kl_pushp(d)
      PROVE  ListInv'
  BY <1>2, PushKeeps
<1>3. CASE UNCHANGED listVars
  <2>1. ListTypes'
    BY <1>3 DEF listVars, ListInv, ListTypes
  <2>2. PICK list : list = Chain
    OBVIOUS
  <2>3. Follows(list)
    BY <2>2 DEF ListInv
  <2>4. Follows(list)'
    BY <1>3, <2>3 DEF listVars, Follows
  <2> QED
    BY <2>1, <2>4, FollowedNext
<1> QED
  BY <1>1, <1>2, <1>3 DEF ListNext

\* What holds of a list between two calls.
THEOREM ListInvariance ==
  ASSUME KListAssumption
  PROVE  ListSpec => []ListInv
<1>1. ListInit => ListInv
  BY InitIsSound
<1>2. ListInv /\ [ListNext]_listVars => ListInv'
  BY StepKeepsList
<1> QED
  BY <1>1, <1>2, PTL DEF ListSpec

\* The last node has no successor, and every node that has been allocated is in the list or
\* in the pool, once: for lists of any length, in any number of nodes, through any calls.
THEOREM EveryNodeHasOneOwner ==
  ASSUME KListAssumption
  PROVE  ListSpec => []NodesHaveOneOwner
<1>1. ListInv => NodesHaveOneOwner
  <2> SUFFICES ASSUME ListInv PROVE NodesHaveOneOwner
    OBVIOUS
  <2> DEFINE c == Chain
             owned == c \o buf
  <2>1. /\ Owned(c, buf, made) /\ Len(c) = listSize + 1
        /\ c[listSize + 1] = tail /\ next[tail] = NULL
        /\ cnt = listSize + 1
    BY DEF ListInv, Follows, ListTypes
  <2> HIDE DEF c
  <2>2. c \in Seq(Nat) /\ buf \in Seq(Nat) /\ Len(c) + Len(buf) = made
    BY <2>1 DEF Owned
  <2>3. /\ owned \in Seq(Nat) /\ Len(owned) = Len(c) + Len(buf)
        /\ \A i \in 1..Len(owned) :
             owned[i] = IF i <= Len(c) THEN c[i] ELSE buf[i - Len(c)]
    BY <2>2, ConcatProperties
  <2>4. DOMAIN owned = 1..Len(owned) /\ Len(c) \in Nat /\ Len(buf) \in Nat
    BY <2>2, <2>3, LenProperties
  <2> HIDE DEF owned
  <2>5. ASSUME NEW i \in 1..Len(owned)
        PROVE  owned[i] \in 1..made
    <3>1. CASE i <= Len(c)
      <4>1. i \in 1..Len(c) /\ owned[i] = c[i]
        BY <2>3, <2>4, <3>1
      <4> QED
        BY <2>1, <4>1 DEF Owned
    <3>2. CASE ~(i <= Len(c))
      <4>1. i - Len(c) \in 1..Len(buf) /\ owned[i] = buf[i - Len(c)]
        BY <2>3, <2>4, <3>2
      <4> QED
        BY <2>1, <4>1 DEF Owned
    <3> QED
      BY <3>1, <3>2
  <2>6. ASSUME NEW p \in 1..made
        PROVE  \E i \in 1..Len(owned) : owned[i] = p
    <3>1. ASSUME NEW i \in 1..Len(c), c[i] = p
          PROVE  <2>6!2
      <4>1. i \in 1..Len(owned) /\ i <= Len(c)
        BY <2>3, <2>4
      <4> QED
        BY <2>3, <3>1, <4>1
    <3>2. ASSUME NEW i \in 1..Len(buf), buf[i] = p
          PROVE  <2>6!2
      <4>1. /\ Len(c) + i \in 1..Len(owned) /\ ~(Len(c) + i <= Len(c))
            /\ (Len(c) + i) - Len(c) = i
        BY <2>3, <2>4
      <4> QED
        BY <2>3, <3>2, <4>1
    <3> QED
      BY <2>1, <3>1, <3>2 DEF Owned
  <2>7. {owned[n] : n \in DOMAIN owned} = 1..made /\ Len(owned) = made
    BY <2>2, <2>3, <2>4, <2>5, <2>6
  <2> QED
    BY <2>1, <2>7 DEF NodesHaveOneOwner, c, owned
<1> QED
  BY <1>1, ListInvariance, PTL

-----------------------------------------------------------------------------
\* The queue.

\* What is pushed comes after what was in the list, and what is shifted off was the first:
\* no datum is lost or changed while the nodes are used again, whoever had them before.
THEOREM ListsAreQueues ==
  ASSUME KListAssumption
  PROVE  ListSpec => ListIsAQueue
<1> DEFINE S == ListData \cup {NoData}
           Fifo == \/ \E d \in ListData : Queue' = Append(Queue, d)
                   \/ Queue # <<>> /\ Queue' = Tail(Queue)
<1>1. ASSUME ListInv
      PROVE  /\ Queue \in Seq(S) /\ Len(Queue) = listSize
             /\ \A i \in 1..listSize : Queue[i] = data[Chain[i]]
             /\ \A i \in 1..(listSize + 1) : Chain[i] \in 1..MaxNodes
             /\ Chain \in Seq(Nat) /\ Len(Chain) = listSize + 1 /\ listSize \in Nat
             /\ Chain[listSize + 1] = tail
             /\ \A i, j \in 1..(listSize + 1) : Chain[i] = Chain[j] => i = j
             /\ data \in [1..MaxNodes -> S]
  <2> DEFINE c == Chain
  <2>1. /\ Owned(c, buf, made) /\ Len(c) = listSize + 1 /\ listSize \in Nat
        /\ c[listSize + 1] = tail
        /\ made \in 1..MaxNodes /\ MaxNodes \in Nat /\ data \in [1..MaxNodes -> S]
    BY <1>1 DEF ListInv, Follows, ListTypes, KListAssumption
  <2>2. Queue = [n \in 1..listSize |-> data[c[n]]]
    BY DEF Queue
  <2> HIDE DEF c
  <2>3. /\ c \in Seq(Nat)
        /\ \A i \in 1..(listSize + 1) : c[i] \in 1..made
        /\ \A i, j \in 1..(listSize + 1) : c[i] = c[j] => i = j
    BY <2>1 DEF Owned
  <2>4. \A i \in 1..(listSize + 1) : c[i] \in 1..MaxNodes
    BY <2>1, <2>3
  <2>5. \A i \in 1..listSize : i \in 1..(listSize + 1)
    BY <2>1
  <2>6. Queue \in [1..listSize -> S]
    BY <2>1, <2>2, <2>4, <2>5
  <2>7. Queue \in Seq(S)
    BY <2>1, <2>6, FunctionIsSeq
  <2>8. Len(Queue) = listSize
    <3>1. DOMAIN Queue = 1..listSize /\ DOMAIN Queue = 1..Len(Queue) /\ Len(Queue) \in Nat
      BY <2>6, <2>7, LenProperties
    <3> QED
      BY <2>1, <3>1
  <2> QED
    BY <2>1, <2>2, <2>3, <2>4, <2>7, <2>8 DEF c
<1>2. ASSUME ListInv, ListInv', NEW d \in ListData, kl_pushp(d)
      PROVE  Queue' = Append(Queue, d)
  <2> DEFINE c == Chain
             q == Queue
  <2>1. PICK a \in 1..MaxNodes : Chain' = Append(c, a)
    BY <1>2, PushKeeps
  <2>2. /\ listSize' = listSize + 1 /\ data' = [data EXCEPT ![tail] = d]
    BY <1>2 DEF kl_pushp
  <2>3. /\ q \in Seq(S) /\ Len(q) = listSize
        /\ \A i \in 1..listSize : q[i] = data[c[i]]
        /\ \A i \in 1..(listSize + 1) : c[i] \in 1..MaxNodes
        /\ c \in Seq(Nat) /\ Len(c) = listSize + 1 /\ listSize \in Nat
        /\ c[listSize + 1] = tail
        /\ \A i, j \in 1..(listSize + 1) : c[i] = c[j] => i = j
        /\ data \in [1..MaxNodes -> S]
    BY <1>1, <1>2
  <2>4. Queue' = [n \in 1..listSize' |-> data'[Chain'[n]]]
    BY DEF Queue
  <2> HIDE DEF c, q
  <2>5. /\ Append(c, a) \in Seq(Nat)
        /\ \A i \in 1..(listSize + 1) : Append(c, a)[i] = c[i]
    <3>1. a \in Nat
      OBVIOUS
    <3> QED
      BY <2>3, <3>1, AppendProperties
  <2>6. /\ Append(q, d) \in Seq(S) /\ Len(Append(q, d)) = listSize + 1
        /\ \A i \in 1..listSize : Append(q, d)[i] = q[i]
        /\ Append(q, d)[listSize + 1] = d
    <3>1. d \in S
      OBVIOUS
    <3> HIDE DEF S
    <3> QED
      BY <2>3, <3>1, AppendProperties
  <2>7. ASSUME NEW i \in 1..(listSize + 1)
        PROVE  data'[Chain'[i]] = Append(q, d)[i]
    <3>1. Chain'[i] = c[i] /\ c[i] \in 1..MaxNodes
      BY <2>1, <2>3, <2>5
    <3>2. CASE i = listSize + 1
      BY <2>2, <2>3, <2>6, <3>1, <3>2
    <3>3. CASE i \in 1..listSize
      <4>1. i # listSize + 1 /\ listSize + 1 \in 1..(listSize + 1)
        BY <2>3, <3>3
      <4>2. c[i] # tail
        BY <2>3, <4>1
      <4> QED
        BY <2>2, <2>3, <2>6, <3>1, <3>3, <4>2
    <3> QED
      BY <2>3, <3>2, <3>3
  <2>8. Append(q, d) = [n \in 1..(listSize + 1) |-> Append(q, d)[n]]
    BY <2>6, LenProperties
  <2> QED
    BY <2>2, <2>4, <2>7, <2>8 DEF q
<1>3. ASSUME ListInv, ListInv', kl_shift
      PROVE  Queue # <<>> /\ Queue' = Tail(Queue)
  <2> DEFINE c == Chain
             q == Queue
  <2>1. listSize # 0 /\ Chain' = Tail(c)
    BY <1>3, ShiftKeeps
  <2>2. listSize' = listSize - 1 /\ data' = data
    BY <1>3 DEF kl_shift
  <2>3. /\ q \in Seq(S) /\ Len(q) = listSize
        /\ \A i \in 1..listSize : q[i] = data[c[i]]
        /\ c \in Seq(Nat) /\ Len(c) = listSize + 1 /\ listSize \in Nat
    BY <1>1, <1>3
  <2>4. Queue' = [n \in 1..listSize' |-> data'[Chain'[n]]]
    BY DEF Queue
  <2> HIDE DEF c, q, S
  <2>5. c # <<>> /\ q # <<>>
    BY <2>1, <2>3, EmptySeq
  <2>6. \A i \in 1..listSize : Tail(c)[i] = c[i + 1]
    BY <2>3, <2>5, HeadTailProperties
  <2>7. /\ Tail(q) \in Seq(S) /\ Len(Tail(q)) = listSize - 1
        /\ \A i \in 1..(listSize - 1) : Tail(q)[i] = q[i + 1]
    BY <2>3, <2>5, HeadTailProperties
  <2>8. ASSUME NEW i \in 1..(listSize - 1)
        PROVE  data'[Chain'[i]] = Tail(q)[i]
    <3>1. i \in 1..listSize /\ i + 1 \in 1..listSize
      BY <2>3
    <3> QED
      BY <2>1, <2>2, <2>3, <2>6, <2>7, <3>1
  <2>9. Tail(q) = [n \in 1..(listSize - 1) |-> Tail(q)[n]]
    BY <2>7, LenProperties
  <2> QED
    BY <2>2, <2>4, <2>5, <2>8, <2>9 DEF q
<1>4. ASSUME UNCHANGED listVars
      PROVE  Queue' = Queue
  <2>1. Chain' = Chain
    BY <1>4 DEF listVars, Chain, ChainFrom
  <2> QED
    BY <1>4, <2>1 DEF listVars, Queue
<1>5. ListInv /\ ListInv' /\ [ListNext]_listVars => [Fifo]_Queue
  BY <1>2, <1>3, <1>4 DEF ListNext
<1> QED
  BY <1>5, ListInvariance, PTL DEF ListSpec, ListIsAQueue

-----------------------------------------------------------------------------
\* UTF-8.

\* The bits above the last eighteen.
LEMMA HighBits ==
  ASSUME NEW x \in Nat, NEW q \in Nat, NEW r \in Nat, r < 262144, x = q * 262144 + r
  PROVE  x \div 262144 = q
<1> DEFINE d == x \div 262144
<1>1. d \in Nat /\ d * 262144 <= x /\ x < d * 262144 + 262144
  BY Z3
<1> HIDE DEF d
<1>2. d = q
  BY <1>1, SMT
<1> QED
  BY <1>2 DEF d

\* A byte that continues a sequence.
LEMMA ContinuationBytes ==
  ASSUME NEW b \in Nat
  PROVE  IS_CONT(b) <=> 128 <= b /\ b <= 191
BY Z3 DEF IS_CONT

\* The four lengths, by the first byte.
LEMMA LengthOf ==
  ASSUME NEW c \in Nat
  PROVE  /\ c <= 127             => num_bytes_in_utf8_sequence(c) = 1
         /\ 128 <= c /\ c <= 193 => num_bytes_in_utf8_sequence(c) = 0
         /\ 194 <= c /\ c <= 223 => num_bytes_in_utf8_sequence(c) = 2
         /\ 224 <= c /\ c <= 239 => num_bytes_in_utf8_sequence(c) = 3
         /\ 240 <= c /\ c <= 244 => num_bytes_in_utf8_sequence(c) = 4
         /\ 245 <= c             => num_bytes_in_utf8_sequence(c) = 0
<1>1. IS_CONT(c) <=> 128 <= c /\ c <= 191
  BY ContinuationBytes
<1> QED
  BY <1>1 DEF num_bytes_in_utf8_sequence

\* The code points there are.
CodePoints == {cp \in Nat : cp <= MAX_CODE_POINT /\ ~IsSurrogate(cp)}

\* What parse_utf_16 writes for two, three and four bytes.
LEMMA TwoBytes ==
  ASSUME NEW cp \in Nat, 128 <= cp, cp < 2048
  PROVE  \E h, l \in Nat : /\ 2 <= h /\ h < 32 /\ l < 64 /\ cp = h * 64 + l
                           /\ Utf8Bytes(cp) = <<192 + h, 128 + l>>
<1> DEFINE h == cp \div 64
           l == cp % 64
<1>1. h \in Nat /\ l \in Nat /\ l < 64 /\ cp = h * 64 + l
  BY Z3
<1> HIDE DEF h, l
<1>2. 2 <= h /\ h < 32
  BY <1>1, SMT
<1>3. cp \div 64 = h /\ cp % 64 = l /\ h % 32 = h
  BY <1>1, <1>2, Z3
<1>4. ~(cp < 128)
  OBVIOUS
<1>5. Utf8Bytes(cp) = <<192 + ((cp \div 64) % 32), 128 + (cp % 64)>>
  BY <1>4, Z3 DEF Utf8Bytes
<1>6. Utf8Bytes(cp) = <<192 + h, 128 + l>>
  BY <1>3, <1>5, SMT
<1> QED
  BY <1>1, <1>2, <1>6, SMT

LEMMA ThreeBytes ==
  ASSUME NEW cp \in Nat, 2048 <= cp, cp < 65536
  PROVE  \E h, m, l \in Nat : /\ h < 16 /\ m < 64 /\ l < 64 /\ cp = h * 4096 + m * 64 + l
                              /\ Utf8Bytes(cp) = <<224 + h, 128 + m, 128 + l>>
<1> DEFINE q == cp \div 64
           l == cp % 64
           h == q \div 64
           m == q % 64
<1>1. q \in Nat /\ l \in Nat /\ l < 64 /\ cp = q * 64 + l
  BY Z3
<1> HIDE DEF q, l
<1>2. h \in Nat /\ m \in Nat /\ m < 64 /\ q = h * 64 + m
  BY <1>1, Z3
<1> HIDE DEF h, m
<1>3. cp = h * 4096 + m * 64 + l /\ h < 16
  BY <1>1, <1>2, SMT
<1>4. cp \div 4096 = h /\ h % 16 = h
  BY <1>1, <1>2, <1>3, Z3
<1>5. cp % 64 = l /\ cp \div 64 = q
  BY <1>1, Z3
<1>6. q % 64 = m
  BY <1>2, Z3
<1>7. ~(cp < 128) /\ ~(cp < 2048)
  BY SMT
<1>8. Utf8Bytes(cp) = <<224 + ((cp \div 4096) % 16), 128 + ((cp \div 64) % 64), 128 + (cp % 64)>>
  BY <1>7, Z3 DEF Utf8Bytes
<1>9. Utf8Bytes(cp) = <<224 + h, 128 + m, 128 + l>>
  BY <1>4, <1>5, <1>6, <1>8, SMT
<1> QED
  BY <1>1, <1>2, <1>3, <1>9, SMT

LEMMA FourBytes ==
  ASSUME NEW cp \in Nat, 65536 <= cp, cp <= MAX_CODE_POINT
  PROVE  \E g, h, m, l \in Nat :
           /\ g < 5 /\ h < 64 /\ m < 64 /\ l < 64
           /\ cp = g * 262144 + h * 4096 + m * 64 + l
           /\ Utf8Bytes(cp) = <<240 + g, 128 + h, 128 + m, 128 + l>>
<1> DEFINE q == cp \div 64
           l == cp % 64
           p == q \div 64
           m == q % 64
           g == p \div 64
           h == p % 64
<1>1. q \in Nat /\ l \in Nat /\ l < 64 /\ cp = q * 64 + l
  BY Z3
<1> HIDE DEF q, l
<1>2. p \in Nat /\ m \in Nat /\ m < 64 /\ q = p * 64 + m
  BY <1>1, Z3
<1> HIDE DEF p, m
<1>3. g \in Nat /\ h \in Nat /\ h < 64 /\ p = g * 64 + h
  BY <1>2, Z3
<1> HIDE DEF g, h
<1>4. cp = g * 262144 + h * 4096 + m * 64 + l /\ g < 5
  BY <1>1, <1>2, <1>3, SMT DEF MAX_CODE_POINT
<1>5. cp \div 262144 = g /\ g % 8 = g
  <2>1. PICK r \in Nat : r < 262144 /\ cp = g * 262144 + r
    <3>1. /\ h * 4096 + m * 64 + l \in Nat /\ h * 4096 + m * 64 + l < 262144
          /\ cp = g * 262144 + (h * 4096 + m * 64 + l)
      BY <1>1, <1>2, <1>3, <1>4, SMT
    <3> QED
      BY <3>1, SMT
  <2>2. cp \div 262144 = g
    BY <1>3, <2>1, HighBits, SMT
  <2>3. g % 8 = g
    BY <1>3, <1>4, Z3
  <2> QED
    BY <2>2, <2>3
<1>6. cp \div 4096 = p
  BY <1>1, <1>2, Z3
<1>7. cp % 64 = l /\ cp \div 64 = q
  BY <1>1, Z3
<1>8. p % 64 = h /\ q % 64 = m
  BY <1>2, <1>3, Z3
<1>9. ~(cp < 128) /\ ~(cp < 2048) /\ ~(cp < 65536)
  BY SMT
<1>10. Utf8Bytes(cp) = <<240 + ((cp \div 262144) % 8), 128 + ((cp \div 4096) % 64),
                         128 + ((cp \div 64) % 64), 128 + (cp % 64)>>
  BY <1>9, Z3 DEF Utf8Bytes
<1>11. Utf8Bytes(cp) = <<240 + g, 128 + h, 128 + m, 128 + l>>
  BY <1>5, <1>6, <1>7, <1>8, <1>10, SMT
<1> QED
  BY <1>1, <1>2, <1>3, <1>4, <1>11, SMT

\* What a sequence that is allowed consists of.
LEMMA Verified ==
  ASSUME NEW s \in Seq(Nat), s # <<>>
  PROVE  verify_utf8_sequence(s)
           <=> LET len == num_bytes_in_utf8_sequence(s[1])
               IN  /\ len # 0
                   /\ \A i \in 2..len : i \in 1..Len(s) /\ IS_CONT(s[i])
                   /\ ~Overlong(CodePoint(s, len), len)
                   /\ CodePoint(s, len) <= MAX_CODE_POINT
                   /\ ~IsSurrogate(CodePoint(s, len))
<1> DEFINE len == num_bytes_in_utf8_sequence(s[1])
<1>1. 1 \in 1..Len(s) /\ At(s, 1) = s[1]
  BY EmptySeq, LenProperties DEF At
<1>2. ~IS_CONT(0)
  BY Z3 DEF IS_CONT
<1>3. \A i : IS_CONT(At(s, i)) <=> i \in 1..Len(s) /\ IS_CONT(s[i])
  BY <1>2 DEF At, NUL
<1>4. verify_utf8_sequence(s)
        <=> /\ len # 0
            /\ \A i \in 2..len : IS_CONT(At(s, i))
            /\ ~Overlong(CodePoint(s, len), len)
            /\ CodePoint(s, len) <= MAX_CODE_POINT
            /\ ~IsSurrogate(CodePoint(s, len))
  BY <1>1, Zenon DEF verify_utf8_sequence
<1> HIDE DEF len
<1>5. (\A i \in 2..len : IS_CONT(At(s, i)))
        <=> \A i \in 2..len : i \in 1..Len(s) /\ IS_CONT(s[i])
  BY <1>3, Zenon
<1>6. verify_utf8_sequence(s)
        <=> /\ len # 0
            /\ \A i \in 2..len : i \in 1..Len(s) /\ IS_CONT(s[i])
            /\ ~Overlong(CodePoint(s, len), len)
            /\ CodePoint(s, len) <= MAX_CODE_POINT
            /\ ~IsSurrogate(CodePoint(s, len))
  BY <1>4, <1>5, Zenon
<1> QED
  BY <1>6, Zenon DEF len

\* The code point that each kind of sequence stands for.
LEMMA CodePointOf1 ==
  ASSUME NEW a
  PROVE  CodePoint(<<a>>, 1) = a
<1>1. <<a>>[1] = a
  OBVIOUS
<1>2. CodePoint(<<a>>, 1) = <<a>>[1]
  BY Z3 DEF CodePoint
<1> QED
  BY <1>1, <1>2, Zenon

LEMMA CodePointOf2 ==
  ASSUME NEW h \in Nat, h < 32, NEW l \in Nat, l < 64
  PROVE  CodePoint(<<192 + h, 128 + l>>, 2) = h * 64 + l
<1>1. PICK s : s = <<192 + h, 128 + l>>
  OBVIOUS
<1>2. s[1] = 192 + h /\ s[2] = 128 + l
  BY <1>1
<1>3. s[1] % 32 = h /\ s[2] % 64 = l
  BY <1>2, Z3
<1>4. CodePoint(s, 2) = (s[1] % 32) * 64 + (s[2] % 64)
  BY Z3 DEF CodePoint
<1> QED
  BY <1>1, <1>3, <1>4, SMT

LEMMA CodePointOf3 ==
  ASSUME NEW h \in Nat, h < 16, NEW m \in Nat, m < 64, NEW l \in Nat, l < 64
  PROVE  CodePoint(<<224 + h, 128 + m, 128 + l>>, 3) = h * 4096 + m * 64 + l
<1>1. PICK s : s = <<224 + h, 128 + m, 128 + l>>
  OBVIOUS
<1>2. s[1] = 224 + h /\ s[2] = 128 + m /\ s[3] = 128 + l
  BY <1>1
<1>3. s[1] % 16 = h /\ s[2] % 64 = m /\ s[3] % 64 = l
  BY <1>2, Z3
<1>4. CodePoint(s, 3) = (s[1] % 16) * 4096 + (s[2] % 64) * 64 + (s[3] % 64)
  BY Z3 DEF CodePoint
<1> QED
  BY <1>1, <1>3, <1>4, SMT

LEMMA CodePointOf4 ==
  ASSUME NEW g \in Nat, g < 8, NEW h \in Nat, h < 64, NEW m \in Nat, m < 64, NEW l \in Nat, l < 64
  PROVE  CodePoint(<<240 + g, 128 + h, 128 + m, 128 + l>>, 4)
           = g * 262144 + h * 4096 + m * 64 + l
<1>1. PICK s : s = <<240 + g, 128 + h, 128 + m, 128 + l>>
  OBVIOUS
<1>2. s[1] = 240 + g /\ s[2] = 128 + h /\ s[3] = 128 + m /\ s[4] = 128 + l
  BY <1>1
<1>3. s[1] % 8 = g /\ s[2] % 64 = h /\ s[3] % 64 = m /\ s[4] % 64 = l
  BY <1>2, Z3
<1>4. CodePoint(s, 4)
        = (s[1] % 8) * 262144 + (s[2] % 64) * 4096 + (s[3] % 64) * 64 + (s[4] % 64)
  BY Z3 DEF CodePoint
<1> QED
  BY <1>1, <1>3, <1>4, SMT

\* A sequence whose parts fit is allowed.
LEMMA IsAllowed ==
  ASSUME NEW s \in Seq(Nat), NEW len \in {1, 2, 3, 4}, NEW cp \in CodePoints,
         Len(s) = len, num_bytes_in_utf8_sequence(s[1]) = len,
         \A i \in 2..len : IS_CONT(s[i]),
         CodePoint(s, len) = cp, ~Overlong(cp, len)
  PROVE  verify_utf8_sequence(s) /\ s # <<>>
<1>1. s # <<>> /\ len # 0
  BY EmptySeq
<1>2. \A i \in 2..len : i \in 1..Len(s)
  OBVIOUS
<1>3. cp <= MAX_CODE_POINT /\ ~IsSurrogate(cp)
  BY DEF CodePoints
<1> QED
  BY <1>1, <1>2, <1>3, Verified, Zenon

\* What parse_utf_16 writes for a code point is one sequence, which verify_utf8_sequence
\* allows, and which stands for that code point.
LEMMA Written ==
  ASSUME NEW cp \in CodePoints
  PROVE  LET s == Utf8Bytes(cp)
         IN  /\ s \in Seq(Nat) /\ s # <<>> /\ verify_utf8_sequence(s)
             /\ num_bytes_in_utf8_sequence(s[1]) = Len(s)
             /\ CodePoint(s, Len(s)) = cp
             /\ \A i \in 2..Len(s) : num_bytes_in_utf8_sequence(s[i]) = 0
<1>0. cp \in Nat /\ cp <= MAX_CODE_POINT
  BY DEF CodePoints
<1>1. CASE cp < 128
  <2>1. PICK s : s = Utf8Bytes(cp)
    OBVIOUS
  <2>2. s = <<cp>>
    BY <1>1, <2>1, SMT DEF Utf8Bytes
  <2>3. s \in Seq(Nat) /\ Len(s) = 1 /\ s[1] = cp
    BY <1>0, <2>2
  <2>4. num_bytes_in_utf8_sequence(s[1]) = 1
    BY <1>0, <1>1, <2>3, LengthOf
  <2>5. CodePoint(s, 1) = cp
    BY <2>2, CodePointOf1, Zenon
  <2>6. ~Overlong(cp, 1)
    BY Z3 DEF Overlong
  <2>7. \A i \in 2..1 : FALSE
    OBVIOUS
  <2>8. verify_utf8_sequence(s) /\ s # <<>>
    BY <2>3, <2>4, <2>5, <2>6, <2>7, IsAllowed
  <2> QED
    BY <2>1, <2>3, <2>4, <2>5, <2>7, <2>8
<1>2. CASE 128 <= cp /\ cp < 2048
  <2>1. PICK h \in Nat, l \in Nat : /\ 2 <= h /\ h < 32 /\ l < 64 /\ cp = h * 64 + l
                                    /\ Utf8Bytes(cp) = <<192 + h, 128 + l>>
    BY <1>0, <1>2, TwoBytes
  <2>2. PICK s : s = Utf8Bytes(cp)
    OBVIOUS
  <2>3. s \in Seq(Nat) /\ Len(s) = 2 /\ s[1] = 192 + h /\ s[2] = 128 + l
    BY <2>1, <2>2
  <2>4. num_bytes_in_utf8_sequence(s[1]) = 2
    BY <2>1, <2>3, LengthOf
  <2>5. CodePoint(s, 2) = cp
    BY <2>1, <2>2, CodePointOf2
  <2>6. ~Overlong(cp, 2)
    BY <1>0, <1>2, Z3 DEF Overlong
  <2>7. IS_CONT(s[2]) /\ num_bytes_in_utf8_sequence(s[2]) = 0
    BY <2>1, <2>3, ContinuationBytes, LengthOf
  <2>8. \A i \in 2..2 : i = 2
    OBVIOUS
  <2>9. verify_utf8_sequence(s) /\ s # <<>>
    BY <2>3, <2>4, <2>5, <2>6, <2>7, <2>8, IsAllowed
  <2> QED
    BY <2>2, <2>3, <2>4, <2>5, <2>7, <2>8, <2>9
<1>3. CASE 2048 <= cp /\ cp < 65536
  <2>1. PICK h \in Nat, m \in Nat, l \in Nat :
          /\ h < 16 /\ m < 64 /\ l < 64 /\ cp = h * 4096 + m * 64 + l
          /\ Utf8Bytes(cp) = <<224 + h, 128 + m, 128 + l>>
    BY <1>0, <1>3, ThreeBytes, SMT
  <2>2. PICK s : s = Utf8Bytes(cp)
    OBVIOUS
  <2>3. /\ s \in Seq(Nat) /\ Len(s) = 3
        /\ s[1] = 224 + h /\ s[2] = 128 + m /\ s[3] = 128 + l
    BY <2>1, <2>2
  <2>4. num_bytes_in_utf8_sequence(s[1]) = 3
    BY <2>1, <2>3, LengthOf
  <2>5. CodePoint(s, 3) = cp
    BY <2>1, <2>2, CodePointOf3, SMT
  <2>6. ~Overlong(cp, 3)
    BY <1>0, <1>3, Z3 DEF Overlong
  <2>7. /\ IS_CONT(s[2]) /\ num_bytes_in_utf8_sequence(s[2]) = 0
        /\ IS_CONT(s[3]) /\ num_bytes_in_utf8_sequence(s[3]) = 0
    BY <2>1, <2>3, ContinuationBytes, LengthOf
  <2>8. \A i \in 2..3 : i = 2 \/ i = 3
    OBVIOUS
  <2>9. verify_utf8_sequence(s) /\ s # <<>>
    BY <2>3, <2>4, <2>5, <2>6, <2>7, <2>8, IsAllowed
  <2> QED
    BY <2>2, <2>3, <2>4, <2>5, <2>7, <2>8, <2>9
<1>4. CASE 65536 <= cp
  <2>1. PICK g \in Nat, h \in Nat, m \in Nat, l \in Nat :
          /\ g < 5 /\ h < 64 /\ m < 64 /\ l < 64
          /\ cp = g * 262144 + h * 4096 + m * 64 + l
          /\ Utf8Bytes(cp) = <<240 + g, 128 + h, 128 + m, 128 + l>>
    BY <1>0, <1>4, FourBytes, SMT
  <2>2. PICK s : s = Utf8Bytes(cp)
    OBVIOUS
  <2>3. /\ s \in Seq(Nat) /\ Len(s) = 4
        /\ s[1] = 240 + g /\ s[2] = 128 + h /\ s[3] = 128 + m /\ s[4] = 128 + l
    BY <2>1, <2>2
  <2>4. num_bytes_in_utf8_sequence(s[1]) = 4
    BY <2>1, <2>3, LengthOf
  <2>5. CodePoint(s, 4) = cp
    <3>1. g < 8
      BY <2>1
    <3> QED
      BY <2>1, <2>2, <3>1, CodePointOf4, SMT
  <2>6. ~Overlong(cp, 4)
    BY <1>0, <1>4, Z3 DEF Overlong
  <2>7. /\ IS_CONT(s[2]) /\ num_bytes_in_utf8_sequence(s[2]) = 0
        /\ IS_CONT(s[3]) /\ num_bytes_in_utf8_sequence(s[3]) = 0
        /\ IS_CONT(s[4]) /\ num_bytes_in_utf8_sequence(s[4]) = 0
    BY <2>1, <2>3, ContinuationBytes, LengthOf
  <2>8. \A i \in 2..4 : i = 2 \/ i = 3 \/ i = 4
    OBVIOUS
  <2>9. verify_utf8_sequence(s) /\ s # <<>>
    BY <2>3, <2>4, <2>5, <2>6, <2>7, <2>8, IsAllowed
  <2> QED
    BY <2>2, <2>3, <2>4, <2>5, <2>7, <2>8, <2>9
<1> QED
  BY <1>0, <1>1, <1>2, <1>3, <1>4

\* The code point of two, three and four bytes.
Bits2(a, b) == (a % 32) * 64 + (b % 64)
Bits3(a, b, c) == (a % 16) * 4096 + (b % 64) * 64 + (c % 64)
Bits4(a, b, c, d) == (a % 8) * 262144 + (b % 64) * 4096 + (c % 64) * 64 + (d % 64)

\* The other way round, for two, three and four bytes: what parse_utf_16 writes for the
\* code point they stand for.
LEMMA TwoBytesBack ==
  ASSUME NEW a \in Nat, 194 <= a, a <= 223, NEW b \in Nat, 128 <= b, b <= 191,
         NEW cp, cp = Bits2(a, b)
  PROVE  cp \in Nat /\ cp < 2048 /\ Utf8Bytes(cp) = <<a, b>>
<1> DEFINE h == a - 192
           l == b - 128
<1>1. /\ h \in Nat /\ 2 <= h /\ h < 32 /\ l \in Nat /\ l < 64
      /\ a = 192 + h /\ b = 128 + l
  OBVIOUS
<1> HIDE DEF h, l
<1>2. a % 32 = h /\ b % 64 = l
  BY <1>1, Z3
<1>3. cp = h * 64 + l
  BY <1>2, Z3 DEF Bits2
<1>4. cp \in Nat /\ 128 <= cp /\ cp < 2048
  BY <1>1, <1>3, Z3
<1>5. cp \div 64 = h /\ cp % 64 = l /\ h % 32 = h
  BY <1>1, <1>3, <1>4, Z3
<1>6. Utf8Bytes(cp) = <<192 + ((cp \div 64) % 32), 128 + (cp % 64)>>
  <2>1. ~(cp < 128) /\ cp < 2048
    BY <1>4, Z3
  <2> QED
    BY <2>1, Z3 DEF Utf8Bytes
<1>7. Utf8Bytes(cp) = <<a, b>>
  BY <1>1, <1>5, <1>6, Z3
<1> QED
  BY <1>4, <1>7, Z3

LEMMA ThreeBytesBack ==
  ASSUME NEW a \in Nat, 224 <= a, a <= 239, NEW b \in Nat, 128 <= b, b <= 191,
         NEW c \in Nat, 128 <= c, c <= 191,
         NEW cp, cp = Bits3(a, b, c), ~Overlong(cp, 3)
  PROVE  cp \in Nat /\ cp < 65536 /\ Utf8Bytes(cp) = <<a, b, c>>
<1> DEFINE h == a - 224
           m == b - 128
           l == c - 128
<1>1. /\ h \in Nat /\ h < 16 /\ m \in Nat /\ m < 64 /\ l \in Nat /\ l < 64
      /\ a = 224 + h /\ b = 128 + m /\ c = 128 + l
  OBVIOUS
<1> HIDE DEF h, m, l
<1>2. a % 16 = h /\ b % 64 = m /\ c % 64 = l
  BY <1>1, Z3
<1>3. cp = h * 4096 + m * 64 + l
  BY <1>2, Z3 DEF Bits3
<1>4. cp \in Nat /\ cp < 65536
  BY <1>1, <1>3, Z3
<1>5. ~(cp < 128) /\ ~(cp < 2048)
  BY <1>4, Z3 DEF Overlong
<1>6. PICK q \in Nat : q = h * 64 + m
  BY <1>1, SMT
<1>7. cp = q * 64 + l
  BY <1>1, <1>3, <1>6, Z3
<1>8. cp \div 64 = q /\ cp % 64 = l
  BY <1>1, <1>4, <1>7, Z3
<1>9. cp \div 4096 = h
  BY <1>1, <1>3, <1>4, Z3
<1>10. q % 64 = m /\ h % 16 = h
  BY <1>1, <1>6, Z3
<1>11. Utf8Bytes(cp) = <<224 + ((cp \div 4096) % 16), 128 + ((cp \div 64) % 64),
                         128 + (cp % 64)>>
  BY <1>4, <1>5, Z3 DEF Utf8Bytes
<1>12. Utf8Bytes(cp) = <<a, b, c>>
  BY <1>1, <1>8, <1>9, <1>10, <1>11, Z3
<1> QED
  BY <1>4, <1>12, Z3

LEMMA FourBytesBack ==
  ASSUME NEW a \in Nat, 240 <= a, a <= 244, NEW b \in Nat, 128 <= b, b <= 191,
         NEW c \in Nat, 128 <= c, c <= 191, NEW d \in Nat, 128 <= d, d <= 191,
         NEW cp, cp = Bits4(a, b, c, d),
         ~Overlong(cp, 4), cp <= MAX_CODE_POINT
  PROVE  cp \in Nat /\ Utf8Bytes(cp) = <<a, b, c, d>>
<1> DEFINE g == a - 240
           h == b - 128
           m == c - 128
           l == d - 128
<1>1. /\ g \in Nat /\ g < 5 /\ h \in Nat /\ h < 64 /\ m \in Nat /\ m < 64 /\ l \in Nat /\ l < 64
      /\ a = 240 + g /\ b = 128 + h /\ c = 128 + m /\ d = 128 + l
  OBVIOUS
<1> HIDE DEF g, h, m, l
<1>2. a % 8 = g /\ b % 64 = h /\ c % 64 = m /\ d % 64 = l
  BY <1>1, Z3
<1>3. cp = g * 262144 + h * 4096 + m * 64 + l
  BY <1>2, Z3 DEF Bits4
<1>4. cp \in Nat
  BY <1>1, <1>3, Z3
<1>5. ~(cp < 128) /\ ~(cp < 2048) /\ ~(cp < 65536)
  BY <1>4, Z3 DEF Overlong
<1>6. PICK p \in Nat : p = g * 64 + h
  BY <1>1, SMT
<1>7. PICK q \in Nat : q = p * 64 + m
  BY <1>1, <1>6, SMT
<1>8. cp = q * 64 + l /\ cp = p * 4096 + (m * 64 + l)
  BY <1>1, <1>3, <1>6, <1>7, Z3
<1>9. cp \div 64 = q /\ cp % 64 = l
  BY <1>1, <1>4, <1>8, Z3
<1>10. cp \div 4096 = p
  BY <1>1, <1>4, <1>8, Z3
<1>11. cp \div 262144 = g
  <2>1. PICK r \in Nat : r = h * 4096 + m * 64 + l
    BY <1>1, SMT
  <2>2. r < 262144 /\ cp = g * 262144 + r
    BY <1>1, <1>3, <2>1, Z3
  <2> QED
    BY <1>1, <1>4, <2>1, <2>2, HighBits, SMT
<1>12. q % 64 = m /\ p % 64 = h /\ g % 8 = g
  BY <1>1, <1>6, <1>7, Z3
<1>13. Utf8Bytes(cp) = <<240 + ((cp \div 262144) % 8), 128 + ((cp \div 4096) % 64),
                         128 + ((cp \div 64) % 64), 128 + (cp % 64)>>
  BY <1>4, <1>5, Z3 DEF Utf8Bytes
<1>14. Utf8Bytes(cp) = <<a, b, c, d>>
  BY <1>1, <1>9, <1>10, <1>11, <1>12, <1>13, Z3
<1> QED
  BY <1>4, <1>14, Z3

\* Each byte of a short sequence.
LEMMA Places ==
  /\ \A i \in 1..1 : i = 1
  /\ \A i \in 1..2 : i = 1 \/ i = 2
  /\ \A i \in 1..3 : i = 1 \/ i = 2 \/ i = 3
  /\ \A i \in 1..4 : i = 1 \/ i = 2 \/ i = 3 \/ i = 4
OBVIOUS

\* A sequence that is allowed is what parse_utf_16 writes for the code point it stands for,
\* and no other sequence is.
LEMMA Read ==
  ASSUME NEW s \in Seq(Nat), s # <<>>, verify_utf8_sequence(s),
         NEW len, len = num_bytes_in_utf8_sequence(s[1]),
         NEW cp, cp = CodePoint(s, len)
  PROVE  /\ cp \in CodePoints
         /\ len \in 1..Len(s)
         /\ Len(Utf8Bytes(cp)) = len
         /\ \A i \in 1..len : s[i] = Utf8Bytes(cp)[i]
<1>1. /\ len # 0
      /\ \A i \in 2..len : i \in 1..Len(s) /\ IS_CONT(s[i])
      /\ ~Overlong(cp, len) /\ cp <= MAX_CODE_POINT /\ ~IsSurrogate(cp)
  BY Verified, Zenon
<1>2. Len(s) \in Nat /\ 1 \in 1..Len(s) /\ \A i \in 1..Len(s) : s[i] \in Nat
  BY EmptySeq, LenProperties, ElementOfSeq
<1>3. \/ s[1] <= 127 /\ len = 1
      \/ 194 <= s[1] /\ s[1] <= 223 /\ len = 2
      \/ 224 <= s[1] /\ s[1] <= 239 /\ len = 3
      \/ 240 <= s[1] /\ s[1] <= 244 /\ len = 4
  <2>1. PICK c \in Nat : c = s[1]
    BY <1>2
  <2>2. \/ c <= 127               \/ (128 <= c /\ c <= 193) \/ (194 <= c /\ c <= 223)
        \/ (224 <= c /\ c <= 239) \/ (240 <= c /\ c <= 244) \/ 245 <= c
    OBVIOUS
  <2>3. len = num_bytes_in_utf8_sequence(c)
    BY <2>1, Zenon
  <2> QED
    BY <1>1, <2>1, <2>2, <2>3, LengthOf
<1>4. ASSUME NEW i \in 2..len
      PROVE  i \in 1..Len(s) /\ s[i] \in Nat /\ 128 <= s[i] /\ s[i] <= 191
  <2>1. i \in 1..Len(s) /\ IS_CONT(s[i]) /\ s[i] \in Nat
    BY <1>1, <1>2
  <2> QED
    BY <2>1, ContinuationBytes
<1>5. CASE s[1] <= 127 /\ len = 1
  <2>1. cp = s[1]
    BY <1>5, Z3 DEF CodePoint
  <2>2. cp \in Nat /\ cp < 128
    BY <1>2, <1>5, <2>1
  <2>3. PICK t : t = Utf8Bytes(cp)
    OBVIOUS
  <2>4. t = <<cp>>
    BY <2>2, <2>3, SMT DEF Utf8Bytes
  <2>5. Len(t) = 1 /\ t[1] = s[1]
    BY <2>1, <2>4
  <2>6. cp \in CodePoints
    BY <1>1, <2>2 DEF CodePoints
  <2> QED
    BY <1>2, <1>5, <2>3, <2>5, <2>6, Places
<1>6. CASE 194 <= s[1] /\ s[1] <= 223 /\ len = 2
  <2>1. PICK a \in Nat, b \in Nat : a = s[1] /\ b = s[2]
    <3>1. 2 \in 2..len
      BY <1>6
    <3>2. s[1] \in Nat /\ s[2] \in Nat
      BY <1>2, <1>4, <3>1
    <3> QED
      BY <3>2, Zenon
  <2>2. 194 <= a /\ a <= 223 /\ 128 <= b /\ b <= 191 /\ 2 \in 1..Len(s)
    BY <1>4, <1>6, <2>1
  <2>3. cp = Bits2(a, b)
    BY <1>6, <2>1, Z3 DEF CodePoint, Bits2
  <2>4. cp \in Nat /\ Utf8Bytes(cp) = <<a, b>>
    BY <2>2, <2>3, TwoBytesBack, Z3
  <2>5. PICK t : t = Utf8Bytes(cp)
    OBVIOUS
  <2>6. Len(t) = 2 /\ t[1] = s[1] /\ t[2] = s[2]
    BY <2>1, <2>4, <2>5
  <2>7. cp \in CodePoints
    BY <1>1, <2>4 DEF CodePoints
  <2> QED
    BY <1>6, <2>2, <2>5, <2>6, <2>7, Places
<1>7. CASE 224 <= s[1] /\ s[1] <= 239 /\ len = 3
  <2>1. PICK a \in Nat, b \in Nat, c \in Nat : a = s[1] /\ b = s[2] /\ c = s[3]
    <3>1. 2 \in 2..len /\ 3 \in 2..len
      BY <1>7
    <3>2. s[1] \in Nat /\ s[2] \in Nat /\ s[3] \in Nat
      BY <1>2, <1>4, <3>1
    <3> QED
      BY <3>2, Zenon
  <2>2. /\ 224 <= a /\ a <= 239 /\ 128 <= b /\ b <= 191 /\ 128 <= c /\ c <= 191
        /\ 3 \in 1..Len(s)
    BY <1>4, <1>7, <2>1
  <2>3. cp = Bits3(a, b, c)
    BY <1>7, <2>1, Z3 DEF CodePoint, Bits3
  <2>4. ~Overlong(cp, 3)
    BY <1>1, <1>7
  <2>5. cp \in Nat /\ Utf8Bytes(cp) = <<a, b, c>>
    BY <2>2, <2>3, <2>4, ThreeBytesBack, Z3
  <2>6. PICK t : t = Utf8Bytes(cp)
    OBVIOUS
  <2>7. Len(t) = 3 /\ t[1] = s[1] /\ t[2] = s[2] /\ t[3] = s[3]
    BY <2>1, <2>5, <2>6
  <2>8. cp \in CodePoints
    BY <1>1, <2>5 DEF CodePoints
  <2> QED
    BY <1>7, <2>2, <2>6, <2>7, <2>8, Places
<1>8. CASE 240 <= s[1] /\ s[1] <= 244 /\ len = 4
  <2>1. PICK a \in Nat, b \in Nat, c \in Nat, d \in Nat :
          a = s[1] /\ b = s[2] /\ c = s[3] /\ d = s[4]
    <3>1. 2 \in 2..len /\ 3 \in 2..len /\ 4 \in 2..len
      BY <1>8
    <3>2. s[1] \in Nat /\ s[2] \in Nat /\ s[3] \in Nat /\ s[4] \in Nat
      BY <1>2, <1>4, <3>1
    <3> QED
      BY <3>2, Zenon
  <2>2. /\ 240 <= a /\ a <= 244 /\ 128 <= b /\ b <= 191 /\ 128 <= c /\ c <= 191
        /\ 128 <= d /\ d <= 191 /\ 4 \in 1..Len(s)
    BY <1>4, <1>8, <2>1
  <2>3. cp = Bits4(a, b, c, d)
    BY <1>8, <2>1, Z3 DEF CodePoint, Bits4
  <2>4. ~Overlong(cp, 4) /\ cp <= MAX_CODE_POINT
    BY <1>1, <1>8
  <2>5. cp \in Nat /\ Utf8Bytes(cp) = <<a, b, c, d>>
    BY <2>2, <2>3, <2>4, FourBytesBack, Z3
  <2>6. PICK t : t = Utf8Bytes(cp)
    OBVIOUS
  <2>7. Len(t) = 4 /\ t[1] = s[1] /\ t[2] = s[2] /\ t[3] = s[3] /\ t[4] = s[4]
    BY <2>1, <2>5, <2>6
  <2>8. cp \in CodePoints
    BY <1>1, <2>5 DEF CodePoints
  <2> QED
    BY <1>8, <2>2, <2>6, <2>7, <2>8, Places
<1> QED
  BY <1>3, <1>5, <1>6, <1>7, <1>8

\* Ten bits after others.
LEMMA TenBits ==
  ASSUME NEW a \in Nat, NEW b \in Nat, NEW c \in Nat, NEW d \in Nat, b < 1024, d < 1024,
         a * 1024 + b = c * 1024 + d
  PROVE  a = c /\ b = d
BY Z3

\* The first and the second half of a surrogate pair.
LeadSurrogate == {cp \in Nat : 55296 <= cp /\ cp <= 56319}
TrailSurrogate == {cp \in Nat : 56320 <= cp /\ cp <= 57343}

\* Every pair stands for a code point beyond the first 65536, and each of them for another one.
LEMMA Pairs ==
  ASSUME NEW lead \in LeadSurrogate, NEW trail \in TrailSurrogate
  PROVE  /\ Paired(lead, trail) \in CodePoints /\ Paired(lead, trail) >= 65536
         /\ \A l \in LeadSurrogate, t \in TrailSurrogate :
              Paired(l, t) = Paired(lead, trail) => l = lead /\ t = trail
<1>1. PICK a \in Nat, b \in Nat : a = lead - 55296 /\ b = trail - 56320 /\ a < 1024 /\ b < 1024
  BY SMT DEF LeadSurrogate, TrailSurrogate
<1>2. Paired(lead, trail) = a * 1024 + b + 65536
  BY <1>1, SMT DEF Paired
<1>3. Paired(lead, trail) \in CodePoints /\ Paired(lead, trail) >= 65536
  <2>1. PICK p \in Nat : p = a * 1024 + b + 65536
    BY <1>1, SMT
  <2>2. 65536 <= p /\ p <= MAX_CODE_POINT /\ ~IsSurrogate(p)
    BY <1>1, <2>1, SMT DEF MAX_CODE_POINT, IsSurrogate
  <2> QED
    BY <1>2, <2>1, <2>2, SMT DEF CodePoints
<1>4. ASSUME NEW l \in LeadSurrogate, NEW t \in TrailSurrogate, Paired(l, t) = Paired(lead, trail)
      PROVE  l = lead /\ t = trail
  <2>1. PICK c \in Nat, d \in Nat : c = l - 55296 /\ d = t - 56320 /\ c < 1024 /\ d < 1024
    BY SMT DEF LeadSurrogate, TrailSurrogate
  <2>2. Paired(l, t) = c * 1024 + d + 65536
    BY <2>1, SMT DEF Paired
  <2>3. a * 1024 + b = c * 1024 + d
    BY <1>1, <1>2, <1>4, <2>1, <2>2, Z3
  <2>4. c = a /\ d = b
    BY <1>1, <2>1, <2>3, TenBits, Z3
  <2>5. l \in Nat /\ t \in Nat /\ lead \in Nat /\ trail \in Nat
    BY DEF LeadSurrogate, TrailSurrogate
  <2> QED
    BY <1>1, <2>1, <2>4, <2>5, SMT
<1> QED
  BY <1>3, <1>4, SMT

\* The lengths there are.
LEMMA Lengths ==
  ASSUME NEW c \in Nat
  PROVE  num_bytes_in_utf8_sequence(c) \in 0..4
<1>1. \/ c <= 127               \/ (128 <= c /\ c <= 193) \/ (194 <= c /\ c <= 223)
      \/ (224 <= c /\ c <= 239) \/ (240 <= c /\ c <= 244) \/ 245 <= c
  OBVIOUS
<1> QED
  BY <1>1, LengthOf

\* is_valid_utf8 by its loop: the answer at a place, by the answer at the next one.
ValidPlaces(s) == 1..(Len(s) + 4)
ValidFrom(s, v, i) ==
  LET rest == SubSeq(s, i, Len(s))
  IN  \/ i > Len(s)
      \/ /\ verify_utf8_sequence(rest)
         /\ v[i + num_bytes_in_utf8_sequence(s[i])]
IsValidity(s, v) == v = [i \in ValidPlaces(s) |-> ValidFrom(s, v, i)]
Validity(s) == CHOOSE v : IsValidity(s, v)

\* Before the end the next place is another one.
LEMMA NextPlace ==
  ASSUME NEW s \in Seq(Nat), NEW i \in ValidPlaces(s), ~(i > Len(s))
  PROVE  LET following == i + num_bytes_in_utf8_sequence(s[i])
             rest == SubSeq(s, i, Len(s))
         IN  /\ following \in ValidPlaces(s) /\ i <= following
             /\ rest \in Seq(Nat) /\ rest # <<>> /\ rest[1] = s[i]
             /\ verify_utf8_sequence(rest) => i < following
<1> DEFINE following == i + num_bytes_in_utf8_sequence(s[i])
           rest == SubSeq(s, i, Len(s))
<1>1. /\ Len(s) \in Nat /\ i \in Nat /\ 1 <= i /\ i <= Len(s) /\ s[i] \in Nat
      /\ \A j \in i..Len(s) : s[j] \in Nat
  BY LenProperties, ElementOfSeq DEF ValidPlaces
<1>2. num_bytes_in_utf8_sequence(s[i]) \in 0..4
  BY <1>1, Lengths
<1>3. PICK r : r = rest
  OBVIOUS
<1>4. r \in Seq(Nat) /\ r # <<>> /\ r[1] = s[i]
  <2>1. i \in Int /\ Len(s) \in Int /\ 1 \in 1..(Len(s) - i + 1) /\ i + 1 - 1 = i
    BY <1>1
  <2>2. r \in Seq(Nat)
    BY <1>1, <1>3, <2>1, SubSeqProperties
  <2>3. Len(r) = Len(s) - i + 1
    BY <1>1, <1>3, <2>1, SubSeqProperties
  <2>4. r[1] = s[i + 1 - 1]
    BY <1>1, <1>3, <2>1, SubSeqProperties
  <2>5. r # <<>>
    BY <1>1, <2>3
  <2> QED
    BY <2>1, <2>2, <2>4, <2>5
<1>5. verify_utf8_sequence(r) => num_bytes_in_utf8_sequence(s[i]) # 0
  BY <1>4, Verified, Zenon
<1>6. following \in ValidPlaces(s) /\ i <= following /\ (verify_utf8_sequence(r) => i < following)
  BY <1>1, <1>2, <1>5 DEF ValidPlaces
<1> QED
  BY <1>3, <1>4, <1>6, Zenon

\* The loop has an answer at every place.
LEMMA ValidityExists ==
  ASSUME NEW s \in Seq(Nat)
  PROVE  IsValidity(s, Validity(s))
<1> DEFINE Ok(i) == verify_utf8_sequence(SubSeq(s, i, Len(s)))
           After(i) == i + num_bytes_in_utf8_sequence(s[i])
           Good(P) == \A i \in P : i > Len(s) \/ (Ok(i) /\ After(i) \in P)
           v == [i \in ValidPlaces(s) |->
                   \E P \in SUBSET ValidPlaces(s) : i \in P /\ Good(P)]
<1>1. \A i \in ValidPlaces(s) : ~(i > Len(s)) => After(i) \in ValidPlaces(s)
  BY NextPlace, Zenon
<1>2. \A i : ValidFrom(s, v, i) = (i > Len(s) \/ (Ok(i) /\ v[After(i)]))
  BY Zenon DEF ValidFrom
<1> HIDE DEF Ok, After
<1>3. ASSUME NEW i \in ValidPlaces(s)
      PROVE  v[i] <=> (i > Len(s) \/ (Ok(i) /\ v[After(i)]))
  <2>1. CASE i > Len(s)
    <3>1. {i} \in SUBSET ValidPlaces(s) /\ i \in {i} /\ Good({i})
      BY <2>1, Zenon
    <3> HIDE DEF Good
    <3> QED
      BY <2>1, <3>1, Zenon
  <2>2. CASE ~(i > Len(s))
    <3>1. After(i) \in ValidPlaces(s)
      BY <1>1, <2>2, Zenon
    <3>2. ASSUME NEW P \in SUBSET ValidPlaces(s), i \in P, Good(P)
          PROVE  Ok(i) /\ v[After(i)]
      <4>1. Ok(i) /\ After(i) \in P
        BY <2>2, <3>2, Zenon
      <4> HIDE DEF Good
      <4> QED
        BY <3>1, <3>2, <4>1, Zenon
    <3>3. ASSUME NEW P \in SUBSET ValidPlaces(s), Ok(i), After(i) \in P, Good(P)
          PROVE  v[i]
      <4>1. P \cup {i} \in SUBSET ValidPlaces(s) /\ i \in P \cup {i} /\ Good(P \cup {i})
        BY <3>3, Zenon
      <4> HIDE DEF Good
      <4> QED
        BY <4>1, Zenon
    <3> HIDE DEF Good
    <3>4. v[i] => Ok(i) /\ v[After(i)]
      BY <3>2, Zenon
    <3>5. Ok(i) /\ v[After(i)] => v[i]
      BY <3>1, <3>3, Zenon
    <3> QED
      BY <2>2, <3>4, <3>5, Zenon
  <2> QED
    BY <2>1, <2>2, Zenon
<1>4. \A i \in ValidPlaces(s) : v[i] = ValidFrom(s, v, i)
  <2> HIDE DEF Good
  <2>1. \A i \in ValidPlaces(s) : v[i] \in BOOLEAN /\ ValidFrom(s, v, i) \in BOOLEAN
    BY Zenon DEF ValidFrom
  <2> QED
    BY <1>2, <1>3, <2>1, Zenon
<1>5. IsValidity(s, v)
  <2>1. v = [i \in ValidPlaces(s) |-> v[i]]
    BY Zenon
  <2> HIDE DEF v
  <2> QED
    BY <1>4, <2>1, Zenon DEF IsValidity
<1> HIDE DEF v
<1> QED
  BY <1>5, Zenon DEF Validity

\* And only one.
LEMMA ValidityIsUnique ==
  ASSUME NEW s \in Seq(Nat), NEW v, NEW w, IsValidity(s, v), IsValidity(s, w)
  PROVE  v = w
<1>1. /\ v = [i \in ValidPlaces(s) |-> v[i]] /\ w = [i \in ValidPlaces(s) |-> w[i]]
      /\ \A i \in ValidPlaces(s) : v[i] = ValidFrom(s, v, i) /\ w[i] = ValidFrom(s, w, i)
  BY Zenon DEF IsValidity
<1> DEFINE last == Len(s) + 4
           Apart == {k \in Nat : \E i \in ValidPlaces(s) : v[i] # w[i] /\ k = last - i}
<1>2. Apart = {}
  <2> SUFFICES ASSUME Apart # {} PROVE FALSE
    OBVIOUS
  <2>1. Apart \subseteq Nat
    OBVIOUS
  <2>2. PICK k \in Apart : \A l \in Apart : k <= l
    <3> HIDE DEF Apart
    <3> QED
      BY <2>1, MinOfNaturals
  <2>3. PICK i \in ValidPlaces(s) : v[i] # w[i] /\ k = last - i
    BY <2>2
  <2> DEFINE following == i + num_bytes_in_utf8_sequence(s[i])
  <2>4. ~(i > Len(s)) /\ verify_utf8_sequence(SubSeq(s, i, Len(s))) /\ v[following] # w[following]
    <3>1. ValidFrom(s, v, i) # ValidFrom(s, w, i)
      BY <1>1, <2>3, Zenon
    <3> DEFINE ok == verify_utf8_sequence(SubSeq(s, i, Len(s)))
    <3>2. /\ ValidFrom(s, v, i) = (i > Len(s) \/ (ok /\ v[following]))
          /\ ValidFrom(s, w, i) = (i > Len(s) \/ (ok /\ w[following]))
      BY Zenon DEF ValidFrom
    <3> HIDE DEF ok, following
    <3>3. (i > Len(s) \/ (ok /\ v[following])) # (i > Len(s) \/ (ok /\ w[following]))
      BY <3>1, <3>2, Zenon
    <3>4. ~(i > Len(s)) /\ ok /\ v[following] # w[following]
      BY <3>3
    <3> QED
      BY <3>4 DEF ok
  <2>5. following \in ValidPlaces(s) /\ i < following
    BY <2>4, NextPlace, Zenon
  <2> HIDE DEF following
  <2>6. last - following \in Nat /\ last - following < last - i
    BY <2>5, LenProperties DEF ValidPlaces
  <2>7. last - following \in Apart
    BY <2>4, <2>5, <2>6
  <2>8. last - i <= last - following
    BY <2>2, <2>3, <2>7
  <2> QED
    BY <2>5, <2>6, <2>8, LenProperties DEF ValidPlaces
<1>3. \A i \in ValidPlaces(s) : v[i] = w[i]
  <2> SUFFICES ASSUME NEW i \in ValidPlaces(s), v[i] # w[i] PROVE FALSE
    OBVIOUS
  <2>1. last - i \in Nat
    BY LenProperties DEF ValidPlaces
  <2>2. last - i \in Apart
    BY <2>1
  <2> QED
    BY <1>2, <2>2
<1> QED
  BY <1>1, <1>3, Zenon

\* A sequence that is allowed stays so whatever follows it.
LEMMA VerifiedFirst ==
  ASSUME NEW u \in Seq(Nat), u # <<>>, verify_utf8_sequence(u),
         num_bytes_in_utf8_sequence(u[1]) = Len(u), NEW t \in Seq(Nat)
  PROVE  verify_utf8_sequence(u \o t) /\ u \o t # <<>> /\ (u \o t)[1] = u[1]
<1>1. PICK s : s = u \o t
  OBVIOUS
<1> DEFINE n == Len(u)
<1>2. n \in Nat /\ n >= 1 /\ Len(t) \in Nat /\ u[1] \in Nat /\ n \in 0..4
  <2>1. n \in Nat /\ n >= 1 /\ Len(t) \in Nat /\ u[1] \in Nat
    BY EmptySeq, LenProperties, ElementOfSeq
  <2> QED
    BY <2>1, Lengths
<1>3. /\ s \in Seq(Nat) /\ Len(s) = n + Len(t)
      /\ \A i \in 1..n : i \in 1..Len(s) /\ s[i] = u[i]
  BY <1>1, <1>2, ConcatProperties
<1>4. s # <<>> /\ s[1] = u[1]
  BY <1>2, <1>3
<1>5. CodePoint(s, n) = CodePoint(u, n)
  <2>1. n = 1 \/ n = 2 \/ n = 3 \/ n = 4
    BY <1>2
  <2>2. /\ s[1] = u[1]
        /\ n >= 2 => s[2] = u[2]
        /\ n >= 3 => s[3] = u[3]
        /\ n >= 4 => s[4] = u[4]
    BY <1>2, <1>3
  <2> HIDE DEF n
  <2>3. CASE n = 1
    BY <2>2, <2>3, Z3 DEF CodePoint
  <2>4. CASE n = 2
    <3>1. s[2] = u[2]
      BY <2>2, <2>4, Z3
    <3> QED
      BY <2>2, <2>4, <3>1, Z3 DEF CodePoint
  <2>5. CASE n = 3
    <3>1. s[2] = u[2] /\ s[3] = u[3]
      BY <2>2, <2>5, Z3
    <3> QED
      BY <2>2, <2>5, <3>1, Z3 DEF CodePoint
  <2>6. CASE n = 4
    <3>1. s[2] = u[2] /\ s[3] = u[3] /\ s[4] = u[4]
      BY <2>2, <2>6, Z3
    <3> QED
      BY <2>2, <2>6, <3>1, Z3 DEF CodePoint
  <2> QED
    BY <2>1, <2>3, <2>4, <2>5, <2>6, Zenon
<1>6. /\ n # 0 /\ \A i \in 2..n : i \in 1..Len(u) /\ IS_CONT(u[i])
      /\ ~Overlong(CodePoint(u, n), n) /\ CodePoint(u, n) <= MAX_CODE_POINT
      /\ ~IsSurrogate(CodePoint(u, n))
  BY Verified, Zenon
<1>7. num_bytes_in_utf8_sequence(s[1]) = n
  BY <1>4, Zenon
<1> HIDE DEF n
<1>8. \A i \in 2..n : i \in 1..Len(s) /\ IS_CONT(s[i])
  <2>1. \A i \in 2..n : i \in 1..n
    BY <1>2
  <2> QED
    BY <1>3, <1>6, <2>1, Zenon
<1>9. verify_utf8_sequence(s)
  BY <1>3, <1>4, <1>5, <1>6, <1>7, <1>8, Verified, Zenon
<1> QED
  BY <1>1, <1>4, <1>9, Zenon

\* The end of two strings in a row is the end of the second.
LEMMA RestOfConcat ==
  ASSUME NEW u \in Seq(Nat), NEW t \in Seq(Nat),
         NEW i \in Nat, 1 <= i, i <= Len(t), NEW m, m = i + Len(u)
  PROVE  SubSeq(u \o t, m, Len(u \o t)) = SubSeq(t, i, Len(t)) /\ (u \o t)[m] = t[i]
<1>1. Len(u) \in Nat /\ Len(t) \in Nat /\ Len(u \o t) = Len(u) + Len(t)
  BY LenProperties, ConcatProperties
<1>2. PICK k : k = Len(u \o t)
  OBVIOUS
<1>3. m \in (Len(u) + 1)..(Len(u) + Len(t)) /\ k \in (Len(u) + 1)..(Len(u) + Len(t))
  BY <1>1, <1>2
<1>4. SubSeq(u \o t, m, k) = SubSeq(t, m - Len(u), k - Len(u))
  BY <1>3, SubSeqOfConcat2, Zenon
<1>5. m - Len(u) = i /\ k - Len(u) = Len(t) /\ m \in 1..(Len(u) + Len(t)) /\ ~(m <= Len(u))
  BY <1>1, <1>2
<1>6. (u \o t)[m] = IF m <= Len(u) THEN u[m] ELSE t[m - Len(u)]
  BY <1>5, ConcatProperties, Zenon
<1> QED
  BY <1>2, <1>4, <1>5, <1>6, Zenon

\* And it makes a string neither valid nor invalid.
LEMMA ValidAfter ==
  ASSUME NEW u \in Seq(Nat), u # <<>>, verify_utf8_sequence(u),
         num_bytes_in_utf8_sequence(u[1]) = Len(u), NEW t \in Seq(Nat)
  PROVE  is_valid_utf8(u \o t) = is_valid_utf8(t)
<1>1. PICK s : s = u \o t
  OBVIOUS
<1>2. PICK n : n = Len(u)
  OBVIOUS
<1>3. n \in Nat /\ n >= 1 /\ Len(t) \in Nat
  BY <1>2, EmptySeq, LenProperties
<1>4. /\ s \in Seq(Nat) /\ Len(s) = n + Len(t)
      /\ \A i \in 1..(n + Len(t)) : s[i] = IF i <= n THEN u[i] ELSE t[i - n]
  BY <1>1, <1>2, ConcatProperties
<1>5. PICK v : v = Validity(s)
  OBVIOUS
<1>6. /\ IsValidity(s, v) /\ \A i \in ValidPlaces(s) : v[i] = ValidFrom(s, v, i)
  BY <1>4, <1>5, ValidityExists, Zenon DEF IsValidity
<1> DEFINE w == [i \in ValidPlaces(t) |-> v[i + n]]
<1>7. ASSUME NEW i \in ValidPlaces(t)
      PROVE  v[i + n] = ValidFrom(t, w, i)
  <2>1. i + n \in ValidPlaces(s) /\ i \in Nat /\ 1 <= i /\ (i + n > Len(s) <=> i > Len(t))
    BY <1>3, <1>4 DEF ValidPlaces
  <2>2. v[i + n] = ValidFrom(s, v, i + n)
    BY <1>6, <2>1, Zenon
  <2>3. CASE i > Len(t)
    BY <2>1, <2>2, <2>3, Zenon DEF ValidFrom
  <2>4. CASE ~(i > Len(t))
    <3>1. i <= Len(t) /\ i + n = i + Len(u)
      BY <1>2, <1>3, <2>1, <2>4
    <3>2. PICK m : m = i + n
      OBVIOUS
    <3>3. SubSeq(s, i + n, Len(s)) = SubSeq(t, i, Len(t)) /\ s[i + n] = t[i]
      BY <1>1, <2>1, <3>1, <3>2, RestOfConcat, Zenon
    <3>4. s[i + n] = t[i]
      BY <3>3
    <3> DEFINE more == num_bytes_in_utf8_sequence(t[i])
               ok == verify_utf8_sequence(SubSeq(t, i, Len(t)))
    <3>5. i + more \in ValidPlaces(t)
      BY <2>4, NextPlace, Zenon
    <3>6. w[i + more] = v[(i + more) + n]
      BY <3>5, Zenon
    <3>7. (i + more) + n = (i + n) + more
      <4>1. t[i] \in Nat
        BY <2>1, <2>4, <1>3, ElementOfSeq
      <4>2. more \in 0..4
        BY <4>1, Lengths, Zenon
      <4> HIDE DEF more
      <4> QED
        BY <1>3, <2>1, <4>2
    <3>8. ValidFrom(s, v, i + n) = (i + n > Len(s) \/ (ok /\ v[(i + n) + more]))
      BY <3>3, <3>4, Zenon DEF ValidFrom
    <3>9. ValidFrom(t, w, i) = (i > Len(t) \/ (ok /\ w[i + more]))
      BY Zenon DEF ValidFrom
    <3>10. w[i + more] = v[(i + n) + more]
      BY <3>6, <3>7, Zenon
    <3> HIDE DEF ok, more, w
    <3> QED
      BY <2>1, <2>2, <3>8, <3>9, <3>10, Zenon
  <2> QED
    BY <2>3, <2>4, Zenon
<1>8. w = Validity(t)
  <2>1. w = [i \in ValidPlaces(t) |-> ValidFrom(t, w, i)]
    BY <1>7, Zenon
  <2> HIDE DEF w
  <2>2. IsValidity(t, w)
    BY <2>1, Zenon DEF IsValidity
  <2> QED
    BY <2>2, ValidityExists, ValidityIsUnique, Zenon
<1>9. 1 \in ValidPlaces(t) /\ 1 \in ValidPlaces(s) /\ ~(1 > Len(s)) /\ 1 + n \in ValidPlaces(s)
  BY <1>3, <1>4 DEF ValidPlaces
<1>10. Validity(t)[1] = v[1 + n]
  BY <1>8, <1>9, Zenon
<1>11. v[1] = v[1 + n]
  <2>1. verify_utf8_sequence(s) /\ s[1] = u[1]
    BY <1>1, VerifiedFirst, Zenon
  <2>2. SubSeq(s, 1, Len(s)) = s /\ num_bytes_in_utf8_sequence(s[1]) = n
    BY <1>2, <1>4, <2>1, SubSeqFull, Zenon
  <2>3. v[1] = ValidFrom(s, v, 1)
    BY <1>6, <1>9, Zenon
  <2>4. v[1 + n] \in BOOLEAN
    <3>1. v[1 + n] = ValidFrom(s, v, 1 + n)
      BY <1>6, <1>9, Zenon
    <3>2. ValidFrom(s, v, 1 + n) \in BOOLEAN
      BY Zenon DEF ValidFrom
    <3> QED
      BY <3>1, <3>2, Zenon
  <2>5. ValidFrom(s, v, 1) = v[1 + n]
    BY <1>9, <2>1, <2>2, <2>4, Zenon DEF ValidFrom
  <2> QED
    BY <2>3, <2>5, Zenon
<1>12. is_valid_utf8(s) = v[1] /\ is_valid_utf8(t) = Validity(t)[1]
  BY <1>5, Zenon DEF is_valid_utf8, Validity, IsValidity, ValidPlaces, ValidFrom
<1> QED
  BY <1>1, <1>10, <1>11, <1>12, Zenon

\* What verify_utf8_sequence accepts is written for some code point: nothing it accepts is
\* overlong, a surrogate, beyond the last code point or cut off.
LEMMA OnlyWhatIsWrittenIsRead ==
  ASSUME NEW s \in Seq(Nat), s # <<>>, verify_utf8_sequence(s)
  PROVE  \E cp \in CodePoints, t \in Seq(Nat) : s = Utf8Bytes(cp) \o t
<1>1. PICK len : len = num_bytes_in_utf8_sequence(s[1])
  OBVIOUS
<1>2. PICK cp : cp = CodePoint(s, len)
  OBVIOUS
<1>3. /\ cp \in CodePoints /\ len \in 1..Len(s) /\ Len(Utf8Bytes(cp)) = len
      /\ \A i \in 1..len : s[i] = Utf8Bytes(cp)[i]
  BY <1>1, <1>2, Read
<1>4. PICK u : u = Utf8Bytes(cp)
  OBVIOUS
<1>5. u \in Seq(Nat) /\ Len(u) = len /\ \A i \in 1..len : s[i] = u[i]
  BY <1>3, <1>4, Written, Zenon
<1>6. PICK t : t = SubSeq(s, len + 1, Len(s))
  OBVIOUS
<1>7. Len(s) \in Nat /\ len \in Nat /\ 1 <= len /\ len <= Len(s) /\ \A i \in 1..Len(s) : s[i] \in Nat
  BY <1>3, LenProperties, ElementOfSeq
<1>8. /\ t \in Seq(Nat) /\ Len(t) = Len(s) - len
      /\ \A i \in 1..(Len(s) - len) : t[i] = s[len + i]
  <2>1. len + 1 \in Int /\ Len(s) \in Int /\ \A i \in (len + 1)..Len(s) : s[i] \in Nat
    BY <1>7
  <2>2. t \in Seq(Nat)
    BY <1>6, <2>1, SubSeqProperties
  <2>3. Len(t) = Len(s) - len
    BY <1>6, <1>7, <2>1, SubSeqProperties
  <2>4. \A i \in 1..(Len(s) - len) : t[i] = s[len + i]
    BY <1>6, <1>7, <2>1, SubSeqProperties
  <2> QED
    BY <2>2, <2>3, <2>4
<1>9. s = u \o t
  <2>1. PICK r : r = u \o t
    OBVIOUS
  <2>2. /\ r \in Seq(Nat) /\ Len(r) = Len(s)
        /\ \A i \in 1..Len(s) : r[i] = IF i <= len THEN u[i] ELSE t[i - len]
    <3>1. /\ r \in Seq(Nat) /\ Len(r) = Len(u) + Len(t)
          /\ \A i \in 1..(Len(u) + Len(t)) :
               r[i] = IF i <= Len(u) THEN u[i] ELSE t[i - Len(u)]
      BY <1>5, <1>8, <2>1, ConcatProperties, Zenon
    <3>2. Len(u) + Len(t) = Len(s)
      BY <1>5, <1>7, <1>8
    <3> QED
      BY <1>5, <3>1, <3>2, Zenon
  <2>3. ASSUME NEW i \in 1..Len(s)
        PROVE  r[i] = s[i]
    <3>1. r[i] = IF i <= len THEN u[i] ELSE t[i - len]
      BY <2>2, Zenon
    <3>2. CASE i <= len
      <4>1. i \in 1..len
        BY <1>7, <3>2
      <4> QED
        BY <1>5, <3>1, <3>2, <4>1, Zenon
    <3>3. CASE ~(i <= len)
      <4>1. i - len \in 1..(Len(s) - len) /\ len + (i - len) = i
        BY <1>7, <3>3
      <4> QED
        BY <1>8, <3>1, <3>3, <4>1, Zenon
    <3> QED
      BY <3>2, <3>3, Zenon
  <2> QED
    BY <2>1, <2>2, <2>3, SeqEqual
<1> QED
  BY <1>3, <1>4, <1>8, <1>9, Zenon

\* is_valid_utf8 accepts the empty string; it says the same of a string with one code point,
\* as parse_utf_16 writes it, put before it; and any other string it accepts is one such
\* code point before a valid string. Piece by piece, valid strings are rows of these.
THEOREM ValidStringsAreRows ==
  /\ is_valid_utf8(<<>>)
  /\ \A cp \in CodePoints, t \in Seq(Nat) :
       is_valid_utf8(Utf8Bytes(cp) \o t) = is_valid_utf8(t)
  /\ \A s \in Seq(Nat) \ {<<>>} :
       is_valid_utf8(s) => \E cp \in CodePoints, t \in Seq(Nat) :
                             s = Utf8Bytes(cp) \o t /\ is_valid_utf8(t)
<1>1. is_valid_utf8(<<>>)
  <2>1. PICK s \in Seq(Nat) : s = <<>>
    BY EmptySeq
  <2>2. 1 > Len(s) /\ 1 \in ValidPlaces(s)
    BY <2>1 DEF ValidPlaces
  <2>3. Validity(s)[1] = ValidFrom(s, Validity(s), 1)
    BY <2>2, ValidityExists, Zenon DEF IsValidity
  <2>4. Validity(s)[1]
    BY <2>2, <2>3, Zenon DEF ValidFrom
  <2>5. is_valid_utf8(s) = Validity(s)[1]
    BY Zenon DEF is_valid_utf8, Validity, IsValidity, ValidPlaces, ValidFrom
  <2> QED
    BY <2>1, <2>4, <2>5, Zenon
<1>2. ASSUME NEW cp \in CodePoints, NEW t \in Seq(Nat)
      PROVE  is_valid_utf8(Utf8Bytes(cp) \o t) = is_valid_utf8(t)
  BY Written, ValidAfter, Zenon
<1>3. ASSUME NEW s \in Seq(Nat), s # <<>>, is_valid_utf8(s)
      PROVE  \E cp \in CodePoints, t \in Seq(Nat) :
               s = Utf8Bytes(cp) \o t /\ is_valid_utf8(t)
  <2>1. ~(1 > Len(s)) /\ 1 \in ValidPlaces(s)
    BY <1>3, EmptySeq, LenProperties DEF ValidPlaces
  <2>2. Validity(s)[1] = ValidFrom(s, Validity(s), 1)
    BY <2>1, ValidityExists, Zenon DEF IsValidity
  <2>3. is_valid_utf8(s) = Validity(s)[1]
    BY Zenon DEF is_valid_utf8, Validity, IsValidity, ValidPlaces, ValidFrom
  <2>4. verify_utf8_sequence(SubSeq(s, 1, Len(s)))
    BY <1>3, <2>1, <2>2, <2>3, Zenon DEF ValidFrom
  <2>5. verify_utf8_sequence(s)
    BY <2>4, SubSeqFull, Zenon
  <2>6. PICK cp \in CodePoints, t \in Seq(Nat) : s = Utf8Bytes(cp) \o t
    BY <1>3, <2>5, OnlyWhatIsWrittenIsRead, Zenon
  <2> QED
    BY <1>2, <1>3, <2>6, Zenon
<1> QED
  BY <1>1, <1>2, <1>3, Zenon

\* What parse_utf_16 writes for a \u escape or a pair of them is a valid string, which
\* verify_utf8_sequence reads back as the same code point.
THEOREM EscapesAreWrittenValid ==
  /\ \A cp \in CodePoints : LET s == Utf8Bytes(cp)
                            IN  is_valid_utf8(s) /\ CodePoint(s, Len(s)) = cp
  /\ \A lead \in LeadSurrogate, trail \in TrailSurrogate :
       is_valid_utf8(Utf8Bytes(Paired(lead, trail)))
<1>1. ASSUME NEW cp \in CodePoints
      PROVE  is_valid_utf8(Utf8Bytes(cp)) /\ CodePoint(Utf8Bytes(cp), Len(Utf8Bytes(cp))) = cp
  <2>1. PICK s : s = Utf8Bytes(cp)
    OBVIOUS
  <2>2. /\ s \in Seq(Nat) /\ s # <<>> /\ verify_utf8_sequence(s)
        /\ num_bytes_in_utf8_sequence(s[1]) = Len(s) /\ CodePoint(s, Len(s)) = cp
        /\ \A i \in 2..Len(s) : num_bytes_in_utf8_sequence(s[i]) = 0
    BY <2>1, Written, Zenon
  <2>3. is_valid_utf8(s)
    <3>1. s \o <<>> = s /\ <<>> \in Seq(Nat)
      BY <2>2, ConcatEmptySeq, EmptySeq
    <3>2. is_valid_utf8(s \o <<>>) = is_valid_utf8(<<>>)
      BY <2>1, <3>1, ValidStringsAreRows, Zenon
    <3> QED
      BY <3>1, <3>2, ValidStringsAreRows, Zenon
  <2> QED
    BY <2>1, <2>2, <2>3, Zenon
<1>2. ASSUME NEW lead \in LeadSurrogate, NEW trail \in TrailSurrogate
      PROVE  Paired(lead, trail) \in CodePoints
  BY Pairs, SMT
<1> QED
  BY <1>1, <1>2, Zenon
=============================================================================
