--------------------------- MODULE KThreadProofs ---------------------------
(***************************************************************************)
(* For any number of threads, items, steps and batches: func is called     *)
(* once for everything.                                                    *)
(***************************************************************************)
EXTENDS KThread, TLAPS

-----------------------------------------------------------------------------
\* Counters and their residues.

\* An item is a round and a place in the round.
LEMMA Division == ASSUME NEW N \in Nat \ {0}, NEW x \in Nat
                  PROVE  /\ x \div N \in Nat /\ x % N \in 0..(N - 1)
                         /\ x = N * (x \div N) + (x % N)
  <1>1. x \div N \in Nat
    BY Z3
  <1>2. x % N \in 0..(N - 1)
    BY Z3
  <1>3. x = N * (x \div N) + (x % N)
    BY Z3
  <1> QED BY <1>1, <1>2, <1>3

\* A round has as many items as there are threads.
LEMMA Prod == ASSUME NEW N \in Nat \ {0}, NEW p \in Int, NEW q \in Int, p < q
              PROVE  N * p + N <= N * q
  <1>1. N * (p + 1) = N * p + N
    BY Z3
  <1>3. PICK d \in Nat : q = p + 1 + d
    <2>1. q - p - 1 \in Nat /\ q = p + 1 + (q - p - 1)
      OBVIOUS
    <2> QED BY <2>1
  <1>4. N * q = N * (p + 1) + N * d
    BY <1>3, Z3
  <1>5. N * d >= 0
    BY Z3
  <1> QED BY <1>1, <1>4, <1>5

\* Round and place are determined by the item.
LEMMA Unique == ASSUME NEW N \in Nat \ {0}, NEW p \in Int, NEW q \in Int, NEW r \in 0..(N-1), NEW s \in 0..(N-1),
                       N * p + r = N * q + s
              PROVE  p = q /\ r = s
  <1>1. ~(p < q)
    <2> SUFFICES ASSUME p < q PROVE FALSE
      OBVIOUS
    <2>1. N * p + N <= N * q
      BY Prod
    <2>2. N * p \in Int /\ N * q \in Int
      BY Z3
    <2> QED BY <2>1, <2>2
  <1>2. ~(q < p)
    <2> SUFFICES ASSUME q < p PROVE FALSE
      OBVIOUS
    <2>1. N * q + N <= N * p
      BY Prod
    <2>2. N * p \in Int /\ N * q \in Int
      BY Z3
    <2> QED BY <2>1, <2>2
  <1>3. p = q
    BY <1>1, <1>2
  <1>4. N * q \in Int
    BY Z3
  <1> QED BY <1>3, <1>4

\* A counter passes one item at a time: no other of its residue is within reach.
LEMMA Same == ASSUME NEW N \in Nat \ {0}, NEW x \in Nat, NEW k \in Nat,
                     x % N = k % N, x <= k, k < x + N
              PROVE  x = k
  <1> DEFINE p == x \div N
             q == k \div N
             r == x % N
  <1>1. p \in Nat /\ r \in 0..(N - 1) /\ x = N * p + r
    BY Division
  <1>2. q \in Nat /\ k = N * q + r
    BY Division
  <1> HIDE DEF p, q, r
  <1>3. p \in Int /\ q \in Int /\ N * p \in Int /\ N * q \in Int /\ r \in Int
    BY <1>1, <1>2, Z3
  <1>4. CASE p < q
    <2>1. N * p + N <= N * q
      BY <1>3, <1>4, Prod
    <2> QED BY <2>1, <1>1, <1>2, <1>3
  <1>5. CASE q < p
    <2>1. N * q + N <= N * p
      BY <1>3, <1>5, Prod
    <2> QED BY <2>1, <1>1, <1>2, <1>3
  <1>6. CASE p = q
    BY <1>6, <1>1, <1>2
  <1> QED BY <1>3, <1>4, <1>5, <1>6

\* A counter keeps its residue.
LEMMA Onward == ASSUME NEW N \in Nat \ {0}, NEW x \in Nat
              PROVE  (x + N) % N = x % N
  <1> DEFINE p == x \div N
             y == x + N
             q == y \div N
             r == x % N
             s == y % N
  <1>1. p \in Nat /\ r \in 0..(N - 1) /\ x = N * p + r
    BY Division
  <1>2. y \in Nat
    OBVIOUS
  <1>3. q \in Nat /\ s \in 0..(N - 1) /\ y = N * q + s
    <2> HIDE DEF y
    <2> QED BY <1>2, Division
  <1>4. y = x + N
    OBVIOUS
  <1> HIDE DEF p, q, r, s, y
  <1>5. N * (p + 1) = N * p + N /\ N * p \in Int
    BY <1>1, Z3
  <1>6. N * (p + 1) + r = N * q + s
    BY <1>1, <1>3, <1>4, <1>5
  <1>7. p + 1 \in Int /\ q \in Int
    BY <1>1, <1>3
  <1>8. r = s
    BY <1>1, <1>3, <1>6, <1>7, Unique
  <1> QED BY <1>8 DEF r, s, y

\* The first round, and what a residue cannot exceed.
LEMMA Small == ASSUME NEW N \in Nat \ {0}, NEW x \in 0..(N - 1) PROVE x % N = x
BY Z3

\* The step after the last one is the first.
LEMMA Whole == ASSUME NEW N \in Nat \ {0} PROVE N % N = 0
BY Z3

LEMMA Least == ASSUME NEW N \in Nat \ {0}, NEW x \in Nat PROVE x % N <= x
  <1> DEFINE q == x \div N
             r == x % N
  <1>1. q \in Nat /\ r \in 0..(N - 1) /\ x = N * q + r
    BY Division
  <1> HIDE DEF q, r
  <1>2. N * q >= 0 /\ N * q \in Int
    BY <1>1, Z3
  <1>3. r <= x
    BY <1>1, <1>2
  <1> QED BY <1>3 DEF r


-----------------------------------------------------------------------------
\* kt_for.  An item is taken once the counter of its residue has passed it; from
\* then on it is held by one thread until func has been called for it.

Calling == {"call own", "call stolen"}
Places == {"own", "call own", "look", "read", "call stolen", "exit"}
Taken(k) == k < i[k % n_threads]

Scans == [i : 0..n_threads, min : Nat, min_i : {-1} \cup Threads]

ForTypeOK ==
  /\ n \in Nat
  /\ i \in [Threads -> Nat]
  /\ at \in [Threads -> Places]
  /\ item \in [Threads -> Nat]
  /\ scan \in [Threads -> Scans]
  /\ times \in [0..(n - 1) -> Nat]

\* A counter is on the items of its thread, and beyond them when the thread looks for
\* work elsewhere.
Counters == \A w \in Threads : i[w] % n_threads = w
Beyond == \A w \in Threads : at[w] \notin {"own", "call own"} => i[w] >= n

\* A thread that has looked somewhere has found a counter; one it reads again is there.
Looked == \A w \in Threads :
            /\ scan[w].i > 0 => scan[w].min_i \in Threads
            /\ at[w] = "read" => scan[w].i < n_threads

Held == \A w \in Threads : at[w] \in Calling =>
          item[w] \in 0..(n - 1) /\ Taken(item[w]) /\ times[item[w]] = 0
Alone == \A v, w \in Threads :
           at[v] \in Calling /\ at[w] \in Calling /\ item[v] = item[w] => v = w
Counted == \A k \in 0..(n - 1) :
             /\ times[k] <= 1
             /\ times[k] = 1 => Taken(k)
             /\ Taken(k) => times[k] = 1 \/ \E w \in Threads : at[w] \in Calling /\ item[w] = k

ForInv == ForTypeOK /\ Counters /\ Beyond /\ Looked /\ Held /\ Alone /\ Counted

\* An item is counted by one of the threads.
LEMMA Residues == \A k \in Nat : k % n_threads \in Threads
BY Division, KtForAssumption DEF Threads

\* When the call begins, no item is taken.
LEMMA ForInitInv ==
  ASSUME NEW length \in Nat, NEW start \in {"own", "exit"}, ForWith(length, start),
         start = "exit" => length = 0
  PROVE  ForInv
  <1>1. n_threads \in Nat \ {0}
    BY KtForAssumption
  <1>2. ForTypeOK
    <2>1. n \in Nat /\ i \in [Threads -> Nat] /\ item \in [Threads -> Nat]
      BY <1>1 DEF ForWith, Threads
    <2>2. at \in [Threads -> Places]
      BY DEF ForWith, Places
    <2>3. times \in [0..(n - 1) -> Nat]
      BY DEF ForWith
    <2>4. NewScan \in Scans
      BY <1>1 DEF NewScan, Scans
    <2>5. scan = [w \in Threads |-> NewScan]
      BY DEF ForWith
    <2> QED BY <2>1, <2>2, <2>3, <2>4, <2>5 DEF ForTypeOK
  <1>3. Counters
    <2> SUFFICES ASSUME NEW w \in Threads PROVE w % n_threads = w
      BY DEF Counters, ForWith
    <2> QED BY <1>1, Small DEF Threads
  <1>4. Beyond /\ Looked /\ Held /\ Alone
    <2>1. ASSUME NEW w \in Threads
          PROVE  at[w] \notin Calling /\ (at[w] \notin {"own", "call own"} => i[w] >= n)
      <3>1. at[w] = start /\ i[w] = w /\ n = length
        BY <2>1 DEF ForWith
      <3>2. w >= 0
        BY <1>1, <2>1 DEF Threads
      <3>3. at[w] \notin Calling
        BY <3>1 DEF Calling
      <3>4. CASE start = "own"
        BY <3>1, <3>3, <3>4
      <3>5. CASE start = "exit"
        BY <3>1, <3>2, <3>3, <3>5
      <3> QED BY <3>4, <3>5
    <2>2. \A w \in Threads : scan[w].i = 0
      BY DEF ForWith, NewScan
    <2>3. Beyond /\ Held /\ Alone
      BY <2>1 DEF Beyond, Held, Alone
    <2>4. \A w \in Threads : at[w] # "read"
      BY DEF ForWith
    <2>5. Looked
      BY <2>2, <2>4 DEF Looked
    <2> QED BY <2>3, <2>5
  <1>5. ASSUME NEW k \in 0..(n - 1) PROVE times[k] = 0 /\ ~Taken(k)
    <2>1. k % n_threads \in Threads /\ i[k % n_threads] = k % n_threads
      BY <1>5, Residues DEF ForWith
    <2>2. k % n_threads <= k
      BY <1>1, <1>5, Least DEF ForWith
    <2> QED BY <2>1, <2>2, <1>5 DEF Taken, ForWith, Threads
  <1>6. Counted
    BY <1>5 DEF Counted
  <1> QED BY <1>2, <1>3, <1>4, <1>6 DEF ForInv

\* What is fetched from a counter was nobody's: the step after it holds it alone.
LEMMA FetchInv ==
  ASSUME ForInv, NEW w \in Threads, NEW v \in Threads, at[w] \notin Calling,
         NEW call \in Calling, NEW else \in {"look", "exit"},
         FetchAndAdd(w, v, call, else), n' = n, times' = times
  PROVE  Counters' /\ Held' /\ Alone' /\ Counted'
  <1>1. n_threads \in Nat \ {0} /\ Threads = 0..(n_threads - 1)
    BY KtForAssumption DEF Threads
  <1>a. /\ n \in Nat /\ i \in [Threads -> Nat] /\ item \in [Threads -> Nat]
        /\ times \in [0..(n - 1) -> Nat]
    BY DEF ForInv, ForTypeOK
  <1>b. Counters /\ Held /\ Alone /\ Counted
    BY DEF ForInv
  <1>c. at \in [Threads -> Places]
    BY DEF ForInv, ForTypeOK
  <1> USE <1>a, <1>b, <1>c, <1>1
  <1>2. i' = [i EXCEPT ![v] = i[v] + n_threads] /\ i' \in [Threads -> Nat]
    <2>1. i' = [i EXCEPT ![v] = i[v] + n_threads]
      BY DEF FetchAndAdd
    <2>2. i[v] + n_threads \in Nat
      OBVIOUS
    <2> QED BY <2>1, <2>2
  <1>3. i[v] % n_threads = v /\ (i[v] + n_threads) % n_threads = v
    BY <1>1, Onward DEF Counters
  <1>4. ~Taken(i[v])
    BY <1>3 DEF Taken
  <1>5. ASSUME NEW k \in Nat PROVE Taken(k)' <=> Taken(k) \/ k = i[v]
    <2>0. k % n_threads \in Threads
      BY Residues
    <2>1. CASE k % n_threads # v
      BY <2>0, <2>1, <1>2, <1>3 DEF Taken
    <2>2. CASE k % n_threads = v
      <3>1. Taken(k)' <=> k < i[v] + n_threads
        BY <2>2, <1>2 DEF Taken
      <3>2. Taken(k) <=> k < i[v]
        BY <2>2 DEF Taken
      <3>3. i[v] <= k /\ k < i[v] + n_threads => k = i[v]
        <4> SUFFICES ASSUME i[v] <= k, k < i[v] + n_threads PROVE i[v] = k
          OBVIOUS
        <4> QED BY <1>1, <1>3, <2>2, Same
      <3> QED BY <3>1, <3>2, <3>3, <1>1
    <2> QED BY <2>1, <2>2
  <1>6. Counters'
    BY <1>1, <1>2, <1>3 DEF Counters
  <1>7. \A k \in 0..(n - 1) : k \in Nat
    OBVIOUS
  <1>8. \A u \in Threads : at[u] \in Calling => item[u] # i[v] /\ u # w
    BY <1>4 DEF Held
  <1>9. \A u \in Threads \ {w} : at'[u] = at[u] /\ item'[u] = item[u]
    BY DEF FetchAndAdd
  <1>10. CASE i[v] < n
    <2>1. at'[w] \in Calling /\ item'[w] = i[v] /\ i[v] \in 0..(n - 1)
      BY <1>10 DEF FetchAndAdd
    <2>2. times[i[v]] = 0
      <3>1. times[i[v]] <= 1 /\ times[i[v]] # 1
        BY <2>1, <1>4 DEF Counted
      <3>2. times[i[v]] \in Nat
        BY <2>1
      <3>3. \A x \in Nat : x <= 1 /\ x # 1 => x = 0
        OBVIOUS
      <3> QED BY <3>1, <3>2, <3>3
    <2>3. Held'
      BY <2>1, <2>2, <1>5, <1>7, <1>9 DEF Held
    <2>4. Alone'
      <3> SUFFICES ASSUME NEW u \in Threads, NEW y \in Threads,
                          at'[u] \in Calling, at'[y] \in Calling, item'[u] = item'[y]
                   PROVE  u = y
        BY DEF Alone
      <3>1. CASE u = w \/ y = w
        BY <3>1, <2>1, <1>8, <1>9
      <3>2. CASE u # w /\ y # w
        BY <3>2, <1>9 DEF Alone
      <3> QED BY <3>1, <3>2
    <2>5. ASSUME NEW k \in 0..(n - 1)
          PROVE  /\ times'[k] <= 1
                 /\ times'[k] = 1 => Taken(k)'
                 /\ Taken(k)' => times'[k] = 1 \/ \E u \in Threads : at'[u] \in Calling /\ item'[u] = k
      <3>1. times[k] <= 1 /\ (times[k] = 1 => Taken(k)')
        BY <1>5, <1>7 DEF Counted
      <3>2. CASE k = i[v]
        BY <3>1, <3>2, <2>1
      <3>3. CASE k # i[v] /\ Taken(k) /\ times[k] # 1
        <4>1. PICK u \in Threads : at[u] \in Calling /\ item[u] = k
          BY <3>3 DEF Counted
        <4> QED BY <4>1, <3>1, <1>8, <1>9
      <3> QED BY <3>1, <3>2, <3>3, <1>5, <1>7
    <2>6. Counted'
      BY <2>5 DEF Counted
    <2> QED BY <1>6, <2>3, <2>4, <2>6
  <1>11. CASE ~(i[v] < n)
    <2>0. else \notin Calling
      BY DEF Calling
    <2>1. at'[w] \notin Calling /\ item' = item /\ \A k \in 0..(n - 1) : k # i[v]
      <3>1. at' = [at EXCEPT ![w] = else] /\ item' = item
        BY <1>11 DEF FetchAndAdd
      <3>2. \A k \in 0..(n - 1) : k # i[v]
        BY <1>11
      <3> QED BY <2>0, <3>1, <3>2
    <2>2. \A k \in 0..(n - 1) : Taken(k)' <=> Taken(k)
      BY <2>1, <1>5, <1>7
    <2>3. \A u \in Threads : at'[u] \in Calling <=> at[u] \in Calling
      BY <2>1, <1>8, <1>9
    <2>4. Held'
      BY <2>1, <2>2, <2>3 DEF Held
    <2>5. Alone'
      BY <2>1, <2>3 DEF Alone
    <2>6. Counted'
      BY <2>1, <2>2, <2>3 DEF Counted
    <2> QED BY <1>6, <2>4, <2>5, <2>6
  <1> QED BY <1>10, <1>11

\* What the steps that touch no counter and no item leave alone.
LEMMA LookInv ==
  ASSUME ForInv, NEW w \in Threads, at[w] \in {"look", "read"},
         NEW x \in {"look", "read"}, at' = [at EXCEPT ![w] = x],
         n' = n, i' = i, item' = item, times' = times
  PROVE  Counters' /\ Beyond' /\ Held' /\ Alone' /\ Counted'
  <1>1. Counters /\ Beyond /\ Held /\ Alone /\ Counted /\ at \in [Threads -> Places]
    BY DEF ForInv, ForTypeOK
  <1>2. \A u \in Threads : at'[u] \in Calling <=> at[u] \in Calling
    BY <1>1 DEF Calling
  <1>3. \A u \in Threads : at'[u] \in {"own", "call own"} <=> at[u] \in {"own", "call own"}
    BY <1>1
  <1>4. \A k \in 0..(n - 1) : Taken(k)' <=> Taken(k)
    BY DEF Taken
  <1> QED BY <1>1, <1>2, <1>3, <1>4 DEF Counters, Beyond, Held, Alone, Counted

\* A call counts the item its thread holds, and nobody else does.
LEMMA CallInv ==
  ASSUME ForInv, NEW w \in Threads, Call(w)
  PROVE  Counters' /\ Beyond' /\ Held' /\ Alone' /\ Counted'
  <1>a. /\ n \in Nat /\ item \in [Threads -> Nat] /\ times \in [0..(n - 1) -> Nat]
        /\ at \in [Threads -> Places]
    BY DEF ForInv, ForTypeOK
  <1>b. Counters /\ Beyond /\ Held /\ Alone /\ Counted
    BY DEF ForInv
  <1> DEFINE k == item[w]
  <1>1. at[w] \in Calling /\ k \in 0..(n - 1) /\ Taken(k) /\ times[k] = 0
    BY <1>b DEF Call, Calling, Held
  <1>2. /\ i' = i /\ n' = n /\ item' = item
        /\ times' = [times EXCEPT ![k] = times[k] + 1]
    BY DEF Call
  <1>3. times'[k] = 1 /\ \A j \in 0..(n - 1) : j # k => times'[j] = times[j]
    BY <1>1, <1>2, <1>a
  <1>4. /\ at'[w] = IF at[w] = "call own" THEN "own" ELSE "look"
        /\ \A u \in Threads \ {w} : at'[u] = at[u]
    BY <1>a DEF Call
  <1>5. \A u \in Threads : at'[u] \in Calling <=> at[u] \in Calling /\ u # w
    BY <1>4 DEF Calling
  <1>6. \A j \in 0..(n - 1) : Taken(j)' <=> Taken(j)
    BY <1>2 DEF Taken
  <1>7. \A u \in Threads : at[u] \in Calling /\ u # w => item[u] # k
    BY <1>1, <1>b DEF Alone
  <1> HIDE DEF k
  <1>8. Beyond'
    <2> SUFFICES ASSUME NEW u \in Threads, at'[u] \notin {"own", "call own"} PROVE i[u] >= n
      BY <1>2 DEF Beyond
    <2>1. at[u] \notin {"own", "call own"}
      BY <1>1, <1>4 DEF Calling
    <2> QED BY <2>1, <1>b DEF Beyond
  <1>9. Held'
    BY <1>2, <1>3, <1>5, <1>6, <1>7, <1>b DEF Held
  <1>10. Counted'
    <2> SUFFICES ASSUME NEW j \in 0..(n - 1)
                 PROVE  /\ times'[j] <= 1
                        /\ times'[j] = 1 => Taken(j)'
                        /\ Taken(j)' => times'[j] = 1 \/ \E u \in Threads : at'[u] \in Calling /\ item'[u] = j
      BY <1>2 DEF Counted
    <2>1. CASE j = k
      BY <2>1, <1>1, <1>3, <1>6
    <2>2. CASE j # k
      <3>1. times'[j] = times[j] /\ times[j] <= 1 /\ (times[j] = 1 => Taken(j))
        BY <2>2, <1>3, <1>b DEF Counted
      <3>2. CASE Taken(j) /\ times[j] # 1
        <4>1. PICK u \in Threads : at[u] \in Calling /\ item[u] = j
          BY <3>2, <1>b DEF Counted
        <4>2. u # w
          BY <4>1, <2>2 DEF k
        <4> QED BY <4>1, <4>2, <3>1, <3>2, <1>2, <1>5, <1>6
      <3> QED BY <3>1, <3>2, <1>6
    <2> QED BY <2>1, <2>2
  <1> QED BY <1>2, <1>5, <1>8, <1>9, <1>10, <1>b DEF Counters, Alone

\* A counter that is moved keeps its type, and no counter goes back.
LEMMA FetchTypes ==
  ASSUME ForInv, NEW w \in Threads, NEW v \in Threads,
         NEW call \in Places, NEW else \in Places \ {"read"},
         FetchAndAdd(w, v, call, else), n' = n, scan' = scan, times' = times,
         call # "read"
  PROVE  /\ ForTypeOK' /\ Looked'
         /\ \A u \in Threads : i'[u] >= i[u]
         /\ \A u \in Threads \ {w} : at'[u] = at[u]
         /\ at'[w] = IF i[v] < n THEN call ELSE else
  <1>a. /\ n \in Nat /\ i \in [Threads -> Nat] /\ at \in [Threads -> Places]
        /\ item \in [Threads -> Nat] /\ scan \in [Threads -> Scans]
        /\ times \in [0..(n - 1) -> Nat]
    BY DEF ForInv, ForTypeOK
  <1>b. n_threads \in Nat
    BY KtForAssumption
  <1>1. i' = [i EXCEPT ![v] = i[v] + n_threads]
    BY DEF FetchAndAdd
  <1>2. i[v] \in Nat /\ i[v] + n_threads \in Nat
    BY <1>a, <1>b
  <1>3. i' \in [Threads -> Nat]
    BY <1>a, <1>1, <1>2
  <1>4. \A u \in Threads : i'[u] >= i[u]
    <2> SUFFICES ASSUME NEW u \in Threads PROVE i'[u] >= i[u]
      OBVIOUS
    <2>1. CASE u = v
      BY <2>1, <1>a, <1>b, <1>1, <1>2
    <2>2. CASE u # v
      BY <2>2, <1>a, <1>1
    <2> QED BY <2>1, <2>2
  <1>5. at' = [at EXCEPT ![w] = IF i[v] < n THEN call ELSE else]
    BY DEF FetchAndAdd
  <1>6. at' \in [Threads -> Places]
    BY <1>a, <1>5
  <1>7. item' \in [Threads -> Nat]
    BY <1>a, <1>2 DEF FetchAndAdd
  <1>8. ForTypeOK'
    BY <1>a, <1>3, <1>6, <1>7 DEF ForTypeOK
  <1>9. /\ \A u \in Threads \ {w} : at'[u] = at[u]
        /\ at'[w] = IF i[v] < n THEN call ELSE else
    BY <1>a, <1>5
  <1>10. at'[w] # "read"
    BY <1>9
  <1>11. Looked'
    BY <1>9, <1>10 DEF Looked, ForInv
  <1> QED BY <1>4, <1>8, <1>9, <1>11

\* The order of numbers.
LEMMA Further == ASSUME NEW x \in Nat, NEW y \in Nat, NEW z \in Nat, y >= x, x >= z
                 PROVE  y >= z
OBVIOUS

LEMMA Total == ASSUME NEW x \in Nat, NEW y \in Nat, ~(x < y) PROVE x >= y
OBVIOUS

\* The first loop takes the items of the thread itself.
LEMMA OwnInv ==
  ASSUME ForInv, NEW w \in Threads, Own(w)
  PROVE  ForInv'
  <1>1. /\ at[w] = "own" /\ FetchAndAdd(w, w, "call own", "look")
        /\ n' = n /\ scan' = scan /\ times' = times
    BY DEF Own
  <1>2. Counters' /\ Held' /\ Alone' /\ Counted'
    BY <1>1, FetchInv DEF Calling
  <1>3. /\ ForTypeOK' /\ Looked'
        /\ \A u \in Threads : i'[u] >= i[u]
        /\ \A u \in Threads \ {w} : at'[u] = at[u]
        /\ at'[w] = IF i[w] < n THEN "call own" ELSE "look"
    <2>1. "call own" \in Places /\ "look" \in Places \ {"read"} /\ "call own" # "read"
      BY DEF Places
    <2> QED BY <1>1, <2>1, FetchTypes
  <1>4. \A u \in Threads : i[u] \in Nat /\ i'[u] \in Nat /\ n \in Nat
    BY <1>3 DEF ForInv, ForTypeOK
  <1>5. Beyond'
    <2> SUFFICES ASSUME NEW u \in Threads, at'[u] \notin {"own", "call own"} PROVE i'[u] >= n
      BY <1>1 DEF Beyond
    <2>1. i[u] \in Nat /\ i'[u] \in Nat /\ n \in Nat /\ i'[u] >= i[u]
      BY <1>3, <1>4
    <2>2. CASE u = w
      <3>1. ~(i[u] < n)
        BY <1>3, <2>2
      <3>2. i[u] >= n
        BY <2>1, <3>1, Total
      <3> QED BY <2>1, <3>2, Further
    <2>3. CASE u # w
      <3>1. at'[u] = at[u]
        BY <1>3, <2>3
      <3>2. i[u] >= n
        BY <3>1 DEF ForInv, Beyond
      <3> QED BY <2>1, <3>2, Further
    <2> QED BY <2>2, <2>3
  <1> QED BY <1>2, <1>3, <1>5 DEF ForInv

\* At the end of steal_work the counter it moves is one it has seen, and whoever
\* finds it run out is at the end of its own.
LEMMA StealInv ==
  ASSUME ForInv, NEW w \in Threads, Steal(w)
  PROVE  ForInv'
  <1>1. /\ at[w] = "look" /\ scan[w].i = n_threads
        /\ FetchAndAdd(w, scan[w].min_i, "call stolen", "exit")
        /\ n' = n /\ scan' = scan /\ times' = times
    BY DEF Steal
  <1>0. scan[w].min_i \in Threads
    <2>1. n_threads \in Nat \ {0}
      BY KtForAssumption
    <2>2. n_threads > 0
      BY <2>1
    <2>3. scan[w].i > 0
      BY <1>1, <2>2, Zenon
    <2> QED BY <2>3 DEF ForInv, Looked
  <1> DEFINE v == scan[w].min_i
  <1> HIDE DEF v
  <1>2. Counters' /\ Held' /\ Alone' /\ Counted'
    <2>1. "call stolen" \in Calling /\ at[w] \notin Calling
      BY <1>1 DEF Calling
    <2> QED BY <1>0, <1>1, <2>1, FetchInv DEF v
  <1>3. /\ ForTypeOK' /\ Looked'
        /\ \A u \in Threads : i'[u] >= i[u]
        /\ \A u \in Threads \ {w} : at'[u] = at[u]
        /\ at'[w] \in {"call stolen", "exit"}
    <2>1. "call stolen" \in Places /\ "exit" \in Places \ {"read"} /\ "call stolen" # "read"
      BY DEF Places
    <2> QED BY <1>0, <1>1, <2>1, FetchTypes
  <1>4. \A u \in Threads : i[u] \in Nat /\ i'[u] \in Nat /\ n \in Nat
    BY <1>3 DEF ForInv, ForTypeOK
  <1>5. Beyond'
    <2> SUFFICES ASSUME NEW u \in Threads, at'[u] \notin {"own", "call own"} PROVE i'[u] >= n
      BY <1>1 DEF Beyond
    <2>1. at[u] \notin {"own", "call own"}
      BY <1>1, <1>3
    <2>2. i[u] >= n
      BY <2>1 DEF ForInv, Beyond
    <2>3. i[u] \in Nat /\ i'[u] \in Nat /\ n \in Nat /\ i'[u] >= i[u]
      BY <1>3, <1>4
    <2> QED BY <2>2, <2>3, Further
  <1> QED BY <1>2, <1>3, <1>5 DEF ForInv

\* Looking at the counters only changes what the thread has seen.
LEMMA ScanInv ==
  ASSUME ForInv, NEW w \in Threads, Look(w) \/ ReadMin(w)
  PROVE  ForInv'
  <1>a. /\ n \in Nat /\ i \in [Threads -> Nat] /\ at \in [Threads -> Places]
        /\ item \in [Threads -> Nat] /\ scan \in [Threads -> Scans]
        /\ times \in [0..(n - 1) -> Nat]
    BY DEF ForInv, ForTypeOK
  <1>n. n_threads \in Nat \ {0} /\ Threads = 0..(n_threads - 1)
    BY KtForAssumption DEF Threads
  <1>b. scan[w].i \in 0..n_threads /\ scan[w].min \in Nat /\ scan[w].min_i \in {-1} \cup Threads
    BY <1>a DEF Scans
  <1>c. Looked
    BY DEF ForInv
  <1>1. CASE Look(w) /\ (scan[w].min_i = -1 \/ scan[w].min > i[scan[w].i])
    <2>1. /\ at[w] = "look" /\ at' = [at EXCEPT ![w] = "read"] /\ scan' = scan
          /\ scan[w].i < n_threads
          /\ n' = n /\ i' = i /\ item' = item /\ times' = times
      BY <1>1 DEF Look
    <2>2. Counters' /\ Beyond' /\ Held' /\ Alone' /\ Counted'
      BY <2>1, LookInv
    <2>3. at' \in [Threads -> Places]
      BY <1>a, <2>1 DEF Places
    <2>4. ForTypeOK'
      BY <1>a, <2>1, <2>3 DEF ForTypeOK
    <2>5. \A u \in Threads \ {w} : at'[u] = at[u]
      BY <1>a, <2>1
    <2>6. Looked'
      BY <1>c, <2>1, <2>5 DEF Looked
    <2> QED BY <2>2, <2>4, <2>6 DEF ForInv
  <1>2. CASE Look(w) /\ ~(scan[w].min_i = -1 \/ scan[w].min > i[scan[w].i])
    <2>1. /\ at[w] = "look" /\ at' = at /\ scan' = [scan EXCEPT ![w].i = scan[w].i + 1]
          /\ scan[w].i < n_threads /\ scan[w].min_i # -1
          /\ n' = n /\ i' = i /\ item' = item /\ times' = times
      BY <1>2 DEF Look
    <2>0. at' = [at EXCEPT ![w] = "look"]
      BY <1>a, <2>1
    <2>2. Counters' /\ Beyond' /\ Held' /\ Alone' /\ Counted'
      BY <2>0, <2>1, LookInv
    <2> DEFINE new == [scan[w] EXCEPT !.i = scan[w].i + 1]
    <2>3. new \in Scans /\ new.min_i = scan[w].min_i
      <3>1. scan[w].i + 1 \in 0..n_threads
        BY <1>b, <1>n, <2>1
      <3>2. scan[w] \in Scans
        BY <1>a
      <3> QED BY <3>1, <3>2 DEF Scans
    <2>4. scan' = [scan EXCEPT ![w] = new]
      BY <2>1
    <2> HIDE DEF new
    <2>5. /\ scan' \in [Threads -> Scans] /\ scan'[w] = new
          /\ \A u \in Threads \ {w} : scan'[u] = scan[u]
      BY <1>a, <2>3, <2>4
    <2>6. ForTypeOK'
      BY <1>a, <2>1, <2>5 DEF ForTypeOK
    <2>7. scan'[w].min_i \in Threads
      BY <1>b, <2>1, <2>3, <2>5
    <2>8. Looked'
      BY <1>c, <2>1, <2>5, <2>7 DEF Looked
    <2> QED BY <2>2, <2>6, <2>8 DEF ForInv
  <1>3. CASE ReadMin(w)
    <2> DEFINE new == [i |-> scan[w].i + 1, min |-> i[scan[w].i], min_i |-> scan[w].i]
    <2>1. /\ at[w] = "read" /\ at' = [at EXCEPT ![w] = "look"] /\ scan' = [scan EXCEPT ![w] = new]
          /\ n' = n /\ i' = i /\ item' = item /\ times' = times
      BY <1>3 DEF ReadMin
    <2>2. Counters' /\ Beyond' /\ Held' /\ Alone' /\ Counted'
      BY <2>1, LookInv
    <2>3. scan[w].i \in Threads /\ scan[w].i + 1 \in 0..n_threads
      BY <1>c, <1>b, <1>n, <2>1 DEF Looked
    <2>4. new \in Scans /\ new.min_i \in Threads
      <3>1. i[scan[w].i] \in Nat
        BY <1>a, <2>3
      <3> QED BY <3>1, <2>3 DEF Scans
    <2> HIDE DEF new
    <2>5. /\ scan' \in [Threads -> Scans] /\ scan'[w] = new
          /\ \A u \in Threads \ {w} : scan'[u] = scan[u]
      BY <1>a, <2>1, <2>4
    <2>6. /\ at' \in [Threads -> Places] /\ at'[w] = "look"
          /\ \A u \in Threads \ {w} : at'[u] = at[u]
      BY <1>a, <2>1 DEF Places
    <2>7. ForTypeOK'
      BY <1>a, <2>1, <2>5, <2>6 DEF ForTypeOK
    <2>8. Looked'
      BY <1>c, <2>4, <2>5, <2>6 DEF Looked
    <2> QED BY <2>2, <2>7, <2>8 DEF ForInv
  <1> QED BY <1>1, <1>2, <1>3 DEF Look

\* A call leaves the counters and starts another look at them.
LEMMA CallTypes ==
  ASSUME ForInv, NEW w \in Threads, Call(w)
  PROVE  ForTypeOK' /\ Looked'
  <1>a. /\ n \in Nat /\ i \in [Threads -> Nat] /\ at \in [Threads -> Places]
        /\ item \in [Threads -> Nat] /\ scan \in [Threads -> Scans]
        /\ times \in [0..(n - 1) -> Nat]
    BY DEF ForInv, ForTypeOK
  <1>1. /\ n' = n /\ i' = i /\ item' = item
        /\ times' = [times EXCEPT ![item[w]] = @ + 1]
        /\ scan' = [scan EXCEPT ![w] = NewScan]
        /\ at' = [at EXCEPT ![w] = IF @ = "call own" THEN "own" ELSE "look"]
    BY DEF Call
  <1>2. times' \in [0..(n - 1) -> Nat]
    <2>1. item[w] \in 0..(n - 1)
      BY DEF Call, Calling, ForInv, Held
    <2>2. times[item[w]] + 1 \in Nat
      BY <1>a, <2>1
    <2> QED BY <1>a, <1>1, <2>2
  <1>3. NewScan \in Scans /\ NewScan.i = 0
    BY KtForAssumption DEF NewScan, Scans
  <1>4. /\ scan' \in [Threads -> Scans] /\ scan'[w] = NewScan
        /\ \A u \in Threads \ {w} : scan'[u] = scan[u]
    BY <1>a, <1>1, <1>3
  <1>5. /\ at' \in [Threads -> Places] /\ at'[w] # "read"
        /\ \A u \in Threads \ {w} : at'[u] = at[u]
    BY <1>a, <1>1 DEF Places
  <1>6. ForTypeOK'
    BY <1>a, <1>1, <1>2, <1>4, <1>5 DEF ForTypeOK
  <1>7. Looked'
    <2>1. Looked
      BY DEF ForInv
    <2> QED BY <2>1, <1>3, <1>4, <1>5 DEF Looked
  <1> QED BY <1>6, <1>7

\* Every step of kt_for keeps the invariant.
LEMMA ForStep == ForInv /\ [ForNext]_forVars => ForInv'
  <1> SUFFICES ASSUME ForInv, [ForNext]_forVars PROVE ForInv'
    OBVIOUS
  <1>1. ASSUME NEW w \in Threads, ktf_worker(w) PROVE ForInv'
    <2>1. CASE Own(w)
      BY <2>1, OwnInv
    <2>2. CASE Look(w) \/ ReadMin(w)
      BY <2>2, ScanInv
    <2>3. CASE Steal(w)
      BY <2>3, StealInv
    <2>4. CASE Call(w)
      BY <2>4, CallInv, CallTypes DEF ForInv
    <2> QED BY <1>1, <2>1, <2>2, <2>3, <2>4 DEF ktf_worker
  <1>2. CASE UNCHANGED forVars
    BY <1>2 DEF forVars, ForInv, ForTypeOK, Counters, Beyond, Looked, Held, Alone, Counted, Taken
  <1> QED BY <1>1, <1>2 DEF ForNext

\* When every thread has ended, every counter is beyond the items, and nobody holds one.
LEMMA ForDone == ForInv => EveryItemOnce
  <1> SUFFICES ASSUME ForInv, NEW k \in 0..(n - 1)
               PROVE  times[k] <= 1 /\ (ForReturns => times[k] = 1)
    BY DEF EveryItemOnce
  <1>1. times[k] <= 1 /\ (Taken(k) => times[k] = 1 \/ \E w \in Threads : at[w] \in Calling /\ item[w] = k)
    BY DEF ForInv, Counted
  <1>2. ASSUME ForReturns PROVE times[k] = 1
    <2>1. n \in Nat /\ k \in Nat /\ k < n /\ i \in [Threads -> Nat]
      BY DEF ForInv, ForTypeOK
    <2>2. k % n_threads \in Threads
      BY <2>1, Residues
    <2>3. i[k % n_threads] >= n
      BY <1>2, <2>2 DEF ForReturns, ForInv, Beyond
    <2>4. Taken(k)
      BY <2>1, <2>2, <2>3 DEF Taken
    <2>5. \A w \in Threads : at[w] \notin Calling
      BY <1>2 DEF ForReturns, Calling
    <2> QED BY <1>1, <2>4, <2>5
  <1> QED BY <1>1, <1>2

-----------------------------------------------------------------------------
\* kt_pipeline.  A batch that has left the source is carried by one worker, dropped,
\* or through.

AtPlaces == {"test", "wait", "func", "exit"}
Counts == [0..(n_steps - 1) -> Nat]
Carries(w) == step[w] < n_steps /\ data[w] # 0 /\ (step[w] = 0 => place[w] = "func")

PipeTypeOK ==
  /\ n_steps \in Nat /\ batches \in Nat /\ left \in 0..batches
  /\ place \in [Workers -> AtPlaces]
  /\ step \in [Workers -> 0..n_steps]
  /\ data \in [Workers -> 0..batches]
  /\ passed \in [1..batches -> Counts]
  /\ dropped \subseteq 1..batches

Ended == \A w \in Workers : place[w] = "exit" <=> step[w] = n_steps

\* The first step holds the last batch of the source, the others one that has left it.
FromSource == \A w \in Workers :
                /\ place[w] = "func" /\ step[w] = 0 => data[w] = left
                /\ step[w] \in 1..(n_steps - 1) => data[w] > left

OneCarrier == \A v, w \in Workers : Carries(v) /\ Carries(w) /\ data[v] = data[w] => v = w

AtMostOnce == \A b \in 1..batches, s \in 0..(n_steps - 1) :
                passed[b][s] <= 1 /\ (b <= left => passed[b][s] = 0)
SoFar == \A w \in Workers, s \in 0..(n_steps - 1) :
           Carries(w) => passed[data[w]][s] = IF s < step[w] THEN 1 ELSE 0
Through == \A b \in (left + 1)..batches :
             \/ b \in dropped
             \/ \E w \in Workers : Carries(w) /\ data[w] = b
             \/ \A s \in 0..(n_steps - 1) : passed[b][s] = 1

\* A worker ends when the source is empty or a batch has been dropped.
Reason == n_steps # 0 => \A w \in Workers : place[w] = "exit" => left = 0 \/ dropped # {}

PipeInv == /\ PipeTypeOK /\ Ended /\ FromSource /\ OneWorkerPerStep /\ OneCarrier
           /\ AtMostOnce /\ SoFar /\ Through /\ Reason

\* When the call begins, every batch is in the source.
LEMMA PipeInitInv ==
  ASSUME NEW steps \in Nat, NEW source \in Nat, PipelineWith(steps, source)
  PROVE  PipeInv
  <1>1. /\ n_steps = steps /\ batches = source /\ left = source /\ dropped = {}
        /\ \A w \in Workers : step[w] = 0 /\ data[w] = 0 /\ place[w] = IF steps = 0 THEN "exit" ELSE "test"
        /\ \A b \in 1..source, s \in 0..(steps - 1) : passed[b][s] = 0
    BY DEF PipelineWith
  <1>2. PipeTypeOK
    BY DEF PipelineWith, PipeTypeOK, AtPlaces, Counts
  <1>3. \A w \in Workers : ~Carries(w) /\ place[w] # "func" /\ step[w] \notin 1..(n_steps - 1)
    BY <1>1 DEF Carries
  <1>4. Ended /\ FromSource /\ OneWorkerPerStep /\ OneCarrier /\ SoFar
    BY <1>1, <1>3 DEF Ended, FromSource, OneWorkerPerStep, OneCarrier, SoFar
  <1>5. AtMostOnce /\ Through
    BY <1>1 DEF AtMostOnce, Through
  <1>6. Reason
    BY <1>1 DEF Reason
  <1> QED BY <1>2, <1>4, <1>5, <1>6 DEF PipeInv

\* A batch that has left the source.
LEMMA Between == ASSUME NEW x \in Int, NEW y \in Nat, NEW z \in (x + 1)..y
                 PROVE  z \in Int /\ x + 1 <= z /\ z <= y
OBVIOUS

\* A worker that begins a step is alone at it; at the first one it takes the batch that
\* nobody has.
LEMMA StartInv ==
  ASSUME PipeInv, NEW w \in Workers, Start(w)
  PROVE  PipeInv'
  <1>a. /\ n_steps \in Nat /\ batches \in Nat /\ left \in 0..batches
        /\ place \in [Workers -> AtPlaces]
        /\ step \in [Workers -> 0..n_steps] /\ data \in [Workers -> 0..batches]
    BY DEF PipeInv, PipeTypeOK
  <1>b. /\ Ended /\ FromSource /\ OneWorkerPerStep /\ OneCarrier
        /\ AtMostOnce /\ SoFar /\ Through /\ Reason
    BY DEF PipeInv
  <1>1. /\ place[w] = "test" /\ n_steps' = n_steps /\ batches' = batches /\ left' = left
        /\ step' = step /\ passed' = passed /\ dropped' = dropped
    BY DEF Start
  <1>2. CASE Busy(w)
    <2>1. place' = [place EXCEPT ![w] = "wait"] /\ data' = data
      BY <1>2 DEF Start
    <2>2. \A v \in Workers : /\ place'[v] = "func" <=> place[v] = "func"
                             /\ place'[v] = "exit" <=> place[v] = "exit"
      BY <1>a, <1>1, <2>1
    <2>3. PipeTypeOK'
      <3>1. place' \in [Workers -> AtPlaces]
        BY <1>a, <2>1 DEF AtPlaces
      <3> QED BY <1>1, <2>1, <3>1 DEF PipeInv, PipeTypeOK, Counts
    <2>4. \A v \in Workers : Carries(v)' <=> Carries(v)
      BY <1>1, <2>1, <2>2 DEF Carries
    <2>5. Ended' /\ FromSource' /\ OneWorkerPerStep' /\ Reason'
      BY <1>1, <1>b, <2>1, <2>2 DEF Ended, FromSource, OneWorkerPerStep, Reason
    <2>6. OneCarrier' /\ AtMostOnce' /\ SoFar' /\ Through'
      BY <1>1, <1>b, <2>1, <2>4 DEF OneCarrier, AtMostOnce, SoFar, Through
    <2> QED BY <2>3, <2>5, <2>6 DEF PipeInv
  <1>3. CASE ~Busy(w)
    <2> DEFINE new == IF step[w] = 0 THEN left ELSE data[w]
    <2>1. place' = [place EXCEPT ![w] = "func"] /\ data' = [data EXCEPT ![w] = new]
      BY <1>3 DEF Start
    <2>2. new \in 0..batches
      BY <1>a
    <2> HIDE DEF new
    <2>3. /\ place'[w] = "func" /\ data'[w] = new
          /\ \A v \in Workers \ {w} : place'[v] = place[v] /\ data'[v] = data[v]
      BY <1>a, <2>1
    <2>4. PipeTypeOK'
      <3>1. place' \in [Workers -> AtPlaces]
        BY <1>a, <2>1 DEF AtPlaces
      <3>2. data' \in [Workers -> 0..batches]
        BY <1>a, <2>1, <2>2
      <3> QED BY <1>1, <3>1, <3>2 DEF PipeInv, PipeTypeOK, Counts
    <2>5. \A v \in Workers \ {w} : ~(place[v] = "func" /\ step[v] = step[w])
      BY <1>3 DEF Busy
    <2>6. OneWorkerPerStep'
      BY <1>1, <1>b, <2>3, <2>5 DEF OneWorkerPerStep
    <2>7. Ended' /\ Reason'
      BY <1>1, <1>b, <2>3 DEF Ended, Reason
    <2>8. FromSource'
      <3>1. place'[w] = "func" /\ step[w] = 0 => data'[w] = left
        BY <2>3 DEF new
      <3>2. step[w] \in 1..(n_steps - 1) => data'[w] = data[w]
        BY <2>3, <1>a DEF new
      <3> QED BY <1>1, <1>b, <2>3, <3>1, <3>2 DEF FromSource
    <2>9. \A v \in Workers \ {w} : Carries(v)' <=> Carries(v)
      BY <1>1, <2>3 DEF Carries
    <2>10. CASE step[w] = 0
      <3>1. new = left
        BY <2>10 DEF new
      <3>2. ASSUME NEW v \in Workers \ {w}, Carries(v) PROVE data[v] # left
        <4>1. step[v] # 0
          BY <2>5, <2>10, <3>2 DEF Carries
        <4>2. step[v] \in 1..(n_steps - 1)
          BY <1>a, <3>2, <4>1 DEF Carries
        <4>3. data[v] > left
          BY <1>b, <4>2 DEF FromSource
        <4>4. data[v] \in Int /\ left \in Int
          BY <1>a
        <4> QED BY <4>3, <4>4
      <3>3. OneCarrier'
        BY <1>b, <2>3, <2>9, <3>1, <3>2 DEF OneCarrier
      <3>4. SoFar'
        <4> SUFFICES ASSUME NEW v \in Workers, NEW s \in 0..(n_steps - 1), Carries(v)'
                     PROVE  passed[data'[v]][s] = IF s < step[v] THEN 1 ELSE 0
          BY <1>1 DEF SoFar
        <4>1. CASE v = w
          <5>1. data'[v] = left /\ left # 0
            BY <4>1, <2>3, <3>1 DEF Carries
          <5>2. left \in 1..batches /\ left <= left
            BY <1>a, <5>1
          <5>3. passed[left][s] = 0
            BY <1>b, <5>2 DEF AtMostOnce
          <5>4. ~(s < step[v])
            BY <2>10, <4>1, <1>a
          <5> QED BY <5>1, <5>3, <5>4
        <4>2. CASE v # w
          BY <4>2, <1>b, <2>3, <2>9 DEF SoFar
        <4> QED BY <4>1, <4>2
      <3>5. Through'
        <4> SUFFICES ASSUME NEW b \in (left + 1)..batches
                     PROVE  \/ b \in dropped
                            \/ \E v \in Workers : Carries(v)' /\ data'[v] = b
                            \/ \A s \in 0..(n_steps - 1) : passed[b][s] = 1
          BY <1>1 DEF Through
        <4>1. CASE \E v \in Workers : Carries(v) /\ data[v] = b
          <5>1. PICK v \in Workers : Carries(v) /\ data[v] = b
            BY <4>1
          <5>2. v # w
            BY <5>1, <1>1, <2>10 DEF Carries
          <5> QED BY <5>1, <5>2, <2>3, <2>9
        <4> QED BY <4>1, <1>b DEF Through
      <3>6. AtMostOnce'
        BY <1>1, <1>b DEF AtMostOnce
      <3> QED BY <2>4, <2>6, <2>7, <2>8, <3>3, <3>4, <3>5, <3>6 DEF PipeInv
    <2>11. CASE step[w] # 0
      <3>1. data' = data
        BY <1>a, <2>1, <2>11 DEF new
      <3>2. \A v \in Workers : Carries(v)' <=> Carries(v)
        BY <1>1, <2>9, <2>11, <3>1 DEF Carries
      <3>3. OneCarrier' /\ AtMostOnce' /\ SoFar' /\ Through'
        BY <1>1, <1>b, <3>1, <3>2 DEF OneCarrier, AtMostOnce, SoFar, Through
      <3> QED BY <2>4, <2>6, <2>7, <2>8, <3>3 DEF PipeInv
    <2> QED BY <2>10, <2>11
  <1> QED BY <1>2, <1>3

\* A worker that wakes without a reason tests again.
LEMMA SpuriousInv ==
  ASSUME PipeInv, NEW w \in Workers, Spurious(w)
  PROVE  PipeInv'
  <1>1. /\ place[w] = "wait" /\ place' = [place EXCEPT ![w] = "test"] /\ n_steps' = n_steps
        /\ batches' = batches /\ left' = left /\ step' = step /\ data' = data
        /\ passed' = passed /\ dropped' = dropped
    BY DEF Spurious
  <1>2. place \in [Workers -> AtPlaces] /\ place' \in [Workers -> AtPlaces]
    BY <1>1 DEF PipeInv, PipeTypeOK, AtPlaces
  <1>3. \A v \in Workers : /\ place'[v] = "func" <=> place[v] = "func"
                           /\ place'[v] = "exit" <=> place[v] = "exit"
    BY <1>1, <1>2
  <1>4. \A v \in Workers : Carries(v)' <=> Carries(v)
    BY <1>1, <1>3 DEF Carries
  <1>5. PipeTypeOK'
    BY <1>1, <1>2 DEF PipeInv, PipeTypeOK, Counts
  <1>6. Ended' /\ FromSource' /\ OneWorkerPerStep' /\ Reason'
    BY <1>1, <1>3 DEF PipeInv, Ended, FromSource, OneWorkerPerStep, Reason
  <1>7. OneCarrier' /\ AtMostOnce' /\ SoFar' /\ Through'
    BY <1>1, <1>4 DEF PipeInv, OneCarrier, AtMostOnce, SoFar, Through
  <1> QED BY <1>5, <1>6, <1>7 DEF PipeInv

\* What a worker leaves alone when it is done with a step: the others.
LEMMA DoneOthers ==
  ASSUME PipeInv, NEW w \in Workers, Done(w)
  PROVE  /\ n_steps' = n_steps /\ batches' = batches
         /\ step[w] \in 0..(n_steps - 1) /\ n_steps \in Nat \ {0} /\ batches \in Nat
         /\ data[w] \in 0..batches /\ left \in 0..batches
         /\ step' \in [Workers -> 0..n_steps] /\ data' \in [Workers -> {0} \cup 1..batches]
         /\ place' \in [Workers -> AtPlaces]
         /\ place'[w] # "func" /\ (place'[w] = "exit" <=> step'[w] = n_steps)
         /\ \A v \in Workers \ {w} :
              /\ step'[v] = step[v] /\ data'[v] = data[v] /\ (Carries(v)' <=> Carries(v))
              /\ place'[v] = "func" <=> place[v] = "func"
              /\ place'[v] = "exit" <=> place[v] = "exit"
  <1>a. /\ n_steps \in Nat /\ batches \in Nat /\ left \in 0..batches
        /\ place \in [Workers -> AtPlaces]
        /\ step \in [Workers -> 0..n_steps] /\ data \in [Workers -> 0..batches]
        /\ Ended
    BY DEF PipeInv, PipeTypeOK
  <1>1. place[w] = "func" /\ n_steps' = n_steps /\ batches' = batches
    BY DEF Done
  <1>2. step[w] \in 0..(n_steps - 1) /\ n_steps \in Nat \ {0}
    <2>1. step[w] # n_steps /\ step[w] \in 0..n_steps
      BY <1>a, <1>1 DEF Ended
    <2> QED BY <1>a, <2>1
  <1>3. PICK answer \in Answers(w) :
          LET next == IF step[w] = n_steps - 1 \/ answer # 0 THEN (step[w] + 1) % n_steps ELSE n_steps
          IN  /\ data' = [data EXCEPT ![w] = answer]
              /\ step' = [step EXCEPT ![w] = next]
              /\ place' = [Woken(w) EXCEPT ![w] = Loop(next)]
    BY DEF Done
  <1> DEFINE next == IF step[w] = n_steps - 1 \/ answer # 0 THEN (step[w] + 1) % n_steps ELSE n_steps
  <1>4. next \in 0..n_steps
    <2>1. step[w] + 1 \in Nat
      BY <1>2
    <2>2. (step[w] + 1) % n_steps \in 0..(n_steps - 1)
      BY <1>2, <2>1, Division
    <2> QED BY <1>2, <2>2
  <1>5. data' = [data EXCEPT ![w] = answer] /\ step' = [step EXCEPT ![w] = next]
        /\ place' = [Woken(w) EXCEPT ![w] = Loop(next)]
    BY <1>3
  <1> HIDE DEF next
  <1>6. answer \in 0..batches
    BY <1>a DEF Answers
  <1>7. step' \in [Workers -> 0..n_steps] /\ data' \in [Workers -> 0..batches]
    BY <1>a, <1>4, <1>5, <1>6
  <1>8. Loop(next) \in {"test", "exit"} /\ (Loop(next) = "exit" <=> next = n_steps)
    BY <1>2, <1>4 DEF Loop
  <1>9. Woken(w) \in [Workers -> AtPlaces]
    BY <1>a DEF Woken, AtPlaces
  <1>10. place' \in [Workers -> AtPlaces] /\ place'[w] = Loop(next) /\ step'[w] = next
    BY <1>a, <1>5, <1>8, <1>9 DEF AtPlaces
  <1>11. ASSUME NEW v \in Workers \ {w}
         PROVE  /\ step'[v] = step[v] /\ data'[v] = data[v] /\ (Carries(v)' <=> Carries(v))
                /\ place'[v] = "func" <=> place[v] = "func"
                /\ place'[v] = "exit" <=> place[v] = "exit"
    <2>1. step'[v] = step[v] /\ data'[v] = data[v]
      BY <1>a, <1>5
    <2>2. place'[v] = IF place[v] = "wait" THEN "test" ELSE place[v]
      <3>1. place'[v] = Woken(w)[v]
        BY <1>5, <1>9
      <3> QED BY <3>1 DEF Woken
    <2>3. /\ place'[v] = "func" <=> place[v] = "func"
          /\ place'[v] = "exit" <=> place[v] = "exit"
      BY <2>2
    <2> QED BY <1>1, <2>1, <2>3 DEF Carries
  <1> QED BY <1>a, <1>1, <1>2, <1>7, <1>8, <1>10, <1>11

\* Done with nothing: the source is empty.
LEMMA EmptyInv ==
  ASSUME PipeInv, NEW w \in Workers, Done(w), data[w] = 0
  PROVE  PipeInv'
  <1>0. /\ n_steps' = n_steps /\ batches' = batches
        /\ step[w] \in 0..(n_steps - 1) /\ n_steps \in Nat \ {0} /\ batches \in Nat
        /\ data[w] \in 0..batches /\ left \in 0..batches
        /\ step' \in [Workers -> 0..n_steps] /\ data' \in [Workers -> {0} \cup 1..batches]
        /\ place' \in [Workers -> AtPlaces]
        /\ place'[w] # "func" /\ (place'[w] = "exit" <=> step'[w] = n_steps)
        /\ \A v \in Workers \ {w} :
             /\ step'[v] = step[v] /\ data'[v] = data[v] /\ (Carries(v)' <=> Carries(v))
             /\ place'[v] = "func" <=> place[v] = "func"
             /\ place'[v] = "exit" <=> place[v] = "exit"
    BY DoneOthers
  <1>b. /\ Ended /\ FromSource /\ OneWorkerPerStep /\ OneCarrier
        /\ AtMostOnce /\ SoFar /\ Through /\ Reason
    BY DEF PipeInv
  <1>1. step[w] = 0 /\ left = 0
    <2>1. step[w] \in 1..(n_steps - 1) => data[w] > left
      BY <1>b DEF FromSource
    <2>2. step[w] = 0
      BY <1>0, <2>1
    <2>3. place[w] = "func"
      BY DEF Done
    <2> QED BY <2>2, <2>3, <1>b DEF FromSource
  <1>2. left' = left /\ passed' = passed /\ dropped' = dropped
    BY DEF Done
  <1>3. data'[w] = 0 /\ step'[w] \in {0, n_steps}
    <2>1. Answers(w) = {0}
      BY <1>1 DEF Answers
    <2>2. data' = [data EXCEPT ![w] = 0]
          /\ step' = [step EXCEPT ![w] = IF step[w] = n_steps - 1 THEN (step[w] + 1) % n_steps ELSE n_steps]
      BY <2>1 DEF Done
    <2>3. step'[w] = IF step[w] = n_steps - 1 THEN (step[w] + 1) % n_steps ELSE n_steps
      BY <2>2 DEF PipeInv, PipeTypeOK
    <2>4. CASE step[w] = n_steps - 1
      <3>1. n_steps = 1 /\ step[w] + 1 = 1
        BY <1>0, <1>1, <2>4
      <3>2. 1 % 1 = 0
        OBVIOUS
      <3>3. step'[w] = 0
        BY <2>3, <2>4, <3>1, <3>2
      <3> QED BY <2>2, <3>3 DEF PipeInv, PipeTypeOK
    <2> QED BY <2>2, <2>3, <2>4 DEF PipeInv, PipeTypeOK
  <1>4. ~Carries(w) /\ ~Carries(w)'
    BY <1>3 DEF Carries
  <1>5. PipeTypeOK'
    <2>1. data' \in [Workers -> 0..batches]
      BY <1>0
    <2> QED BY <1>0, <1>2, <2>1 DEF PipeInv, PipeTypeOK, Counts
  <1>6. Ended' /\ OneWorkerPerStep'
    BY <1>0, <1>b DEF Ended, OneWorkerPerStep
  <1>7. FromSource'
    <2>1. step'[w] \notin 1..(n_steps - 1)
      BY <1>0, <1>3
    <2> QED BY <1>0, <1>2, <1>b, <2>1 DEF FromSource
  <1>8. OneCarrier' /\ SoFar'
    BY <1>0, <1>2, <1>4, <1>b DEF OneCarrier, SoFar
  <1>9. Through'
    BY <1>0, <1>2, <1>4, <1>b DEF Through
  <1>10. AtMostOnce' /\ Reason'
    BY <1>0, <1>1, <1>2, <1>b DEF AtMostOnce, Reason
  <1> QED BY <1>5, <1>6, <1>7, <1>8, <1>9, <1>10 DEF PipeInv

\* Done with a batch: it is counted at the step, and goes on, is dropped or is through.
LEMMA BatchInv ==
  ASSUME PipeInv, NEW w \in Workers, Done(w), data[w] # 0
  PROVE  PipeInv'
  <1> DEFINE d == data[w]
             s0 == step[w]
  <1>0. /\ n_steps' = n_steps /\ batches' = batches
        /\ s0 \in 0..(n_steps - 1) /\ n_steps \in Nat \ {0} /\ batches \in Nat
        /\ d \in 0..batches /\ left \in 0..batches
        /\ step' \in [Workers -> 0..n_steps] /\ data' \in [Workers -> {0} \cup 1..batches]
        /\ place' \in [Workers -> AtPlaces]
        /\ place'[w] # "func" /\ (place'[w] = "exit" <=> step'[w] = n_steps)
        /\ \A v \in Workers \ {w} :
             /\ step'[v] = step[v] /\ data'[v] = data[v] /\ (Carries(v)' <=> Carries(v))
             /\ place'[v] = "func" <=> place[v] = "func"
             /\ place'[v] = "exit" <=> place[v] = "exit"
    BY DoneOthers
  <1>b. /\ Ended /\ FromSource /\ OneWorkerPerStep /\ OneCarrier
        /\ AtMostOnce /\ SoFar /\ Through /\ Reason
    BY DEF PipeInv
  <1>c. passed \in [1..batches -> Counts] /\ dropped \subseteq 1..batches
        /\ step \in [Workers -> 0..n_steps] /\ data \in [Workers -> 0..batches]
    BY DEF PipeInv, PipeTypeOK
  <1>1. place[w] = "func" /\ d # 0 /\ Carries(w)
    <2>1. s0 < n_steps
      BY <1>0
    <2> QED BY <2>1 DEF Done, Carries
  <1>2. d \in 1..batches
    BY <1>0, <1>1
  <1>3. left' = (IF s0 = 0 THEN d - 1 ELSE left) /\ (s0 = 0 => d = left) /\ (s0 # 0 => d > left)
    <2>1. left' = IF s0 = 0 THEN d - 1 ELSE left
      BY <1>1 DEF Done
    <2>2. s0 = 0 => d = left
      BY <1>1, <1>b DEF FromSource
    <2>3. s0 # 0 => s0 \in 1..(n_steps - 1)
      BY <1>0
    <2>4. s0 # 0 => d > left
      BY <2>3, <1>b DEF FromSource
    <2> QED BY <2>1, <2>2, <2>4
  <1>4. /\ passed' \in [1..batches -> Counts]
        /\ \A b \in 1..batches, s \in 0..(n_steps - 1) :
             passed'[b][s] = IF b = d /\ s = s0 THEN passed[b][s] + 1 ELSE passed[b][s]
    <2>1. passed' = [passed EXCEPT ![d] = [passed[d] EXCEPT ![s0] = passed[d][s0] + 1]]
      BY <1>1 DEF Done
    <2>2. passed[d] \in [0..(n_steps - 1) -> Nat] /\ passed[d][s0] + 1 \in Nat
      BY <1>0, <1>2, <1>c DEF Counts
    <2> DEFINE row == [passed[d] EXCEPT ![s0] = passed[d][s0] + 1]
    <2>3. row \in Counts /\ \A s \in 0..(n_steps - 1) : row[s] = IF s = s0 THEN passed[d][s] + 1 ELSE passed[d][s]
      BY <2>2, <1>0 DEF Counts
    <2> HIDE DEF row
    <2>4. passed' = [passed EXCEPT ![d] = row]
      BY <2>1 DEF row
    <2>5. passed' \in [1..batches -> Counts]
      BY <1>c, <2>3, <2>4
    <2>6. ASSUME NEW b \in 1..batches, NEW s \in 0..(n_steps - 1)
          PROVE  passed'[b][s] = IF b = d /\ s = s0 THEN passed[b][s] + 1 ELSE passed[b][s]
      <3>1. passed'[b] = IF b = d THEN row ELSE passed[b]
        BY <1>c, <2>4
      <3> QED BY <3>1, <2>3
    <2> QED BY <2>5, <2>6
  <1>5. /\ \A s \in 0..(n_steps - 1) : passed[d][s] = IF s < s0 THEN 1 ELSE 0
        /\ \A s \in 0..(n_steps - 1) : passed'[d][s] = IF s < s0 + 1 THEN 1 ELSE 0
        /\ \A b \in 1..batches, s \in 0..(n_steps - 1) : b # d => passed'[b][s] = passed[b][s]
    <2>1. \A s \in 0..(n_steps - 1) : passed[d][s] = IF s < s0 THEN 1 ELSE 0
      BY <1>1, <1>b DEF SoFar
    <2>2. ASSUME NEW s \in 0..(n_steps - 1) PROVE passed'[d][s] = IF s < s0 + 1 THEN 1 ELSE 0
      <3>1. passed'[d][s] = IF s = s0 THEN passed[d][s] + 1 ELSE passed[d][s]
        BY <1>2, <1>4
      <3>2. passed[d][s] = IF s < s0 THEN 1 ELSE 0
        BY <2>1
      <3>3. s \in Int /\ s0 \in Int
        BY <1>0
      <3>4. CASE s = s0
        BY <3>1, <3>2, <3>3, <3>4
      <3>5. CASE s # s0
        BY <3>1, <3>2, <3>3, <3>5
      <3> QED BY <3>4, <3>5
    <2>3. \A b \in 1..batches, s \in 0..(n_steps - 1) : b # d => passed'[b][s] = passed[b][s]
      BY <1>4
    <2> QED BY <2>1, <2>2, <2>3
  <1>6. PICK answer \in Answers(w) :
          LET last == s0 = n_steps - 1
              next == IF last \/ answer # 0 THEN (s0 + 1) % n_steps ELSE n_steps
          IN  /\ data' = [data EXCEPT ![w] = answer]
              /\ step' = [step EXCEPT ![w] = next]
              /\ dropped' = IF last \/ answer # 0 \/ d = 0 THEN dropped ELSE dropped \cup {d}
    BY DEF Done
  <1>7. /\ answer \in {0, d}
        /\ data'[w] = answer
        /\ step'[w] = IF s0 = n_steps - 1 THEN 0 ELSE IF answer # 0 THEN s0 + 1 ELSE n_steps
        /\ dropped' = IF s0 = n_steps - 1 \/ answer # 0 THEN dropped ELSE dropped \cup {d}
    <2>1. answer \in {0, d}
      BY DEF Answers
    <2>2. data'[w] = answer /\ step'[w] = IF s0 = n_steps - 1 \/ answer # 0 THEN (s0 + 1) % n_steps ELSE n_steps
      BY <1>6, <1>c
    <2>3. CASE s0 = n_steps - 1
      <3>1. s0 + 1 = n_steps
        BY <1>0, <2>3
      <3>2. n_steps % n_steps = 0
        BY <1>0, Whole
      <3> QED BY <1>1, <1>6, <2>1, <2>2, <2>3, <3>1, <3>2
    <2>4. CASE s0 # n_steps - 1
      <3>1. s0 + 1 \in 0..(n_steps - 1)
        BY <1>0, <2>4
      <3>2. (s0 + 1) % n_steps = s0 + 1
        BY <1>0, <3>1, Small
      <3> QED BY <1>1, <1>6, <2>1, <2>2, <2>4, <3>2
    <2> QED BY <2>3, <2>4
  <1>8. \A v \in Workers \ {w} : Carries(v) => data[v] # d
    BY <1>1, <1>b DEF OneCarrier
  <1>9. Carries(w)' <=> s0 # n_steps - 1 /\ answer # 0
    <2>1. Carries(w)' <=> step'[w] < n_steps /\ answer # 0 /\ (step'[w] = 0 => place'[w] = "func")
      BY <1>0, <1>7 DEF Carries
    <2>2. CASE s0 = n_steps - 1
      BY <1>0, <1>7, <2>1, <2>2
    <2>3. CASE s0 # n_steps - 1 /\ answer # 0
      <3>1. step'[w] = s0 + 1 /\ s0 + 1 < n_steps /\ s0 + 1 # 0
        BY <1>0, <1>7, <2>3
      <3> QED BY <2>1, <2>3, <3>1
    <2>4. CASE answer = 0
      BY <2>1, <2>4
    <2> QED BY <2>2, <2>3, <2>4
  <1> HIDE DEF d, s0
  <1>10. PipeTypeOK'
    <2>1. data' \in [Workers -> 0..batches]
      BY <1>0
    <2>2. left' \in 0..batches
      BY <1>0, <1>2, <1>3
    <2>3. dropped' \subseteq 1..batches
      BY <1>2, <1>7, <1>c
    <2> QED BY <1>0, <1>4, <2>1, <2>2, <2>3 DEF PipeTypeOK, Counts
  <1>11. Ended' /\ OneWorkerPerStep'
    BY <1>0, <1>b DEF Ended, OneWorkerPerStep
  <1>12. left' <= left /\ left' < d /\ left' \in Int /\ left \in Int /\ d \in Int
    BY <1>0, <1>2, <1>3
  <1>13. FromSource'
    <2>1. step'[w] \in 1..(n_steps - 1) => data'[w] = d
      BY <1>0, <1>7
    <2>2. ASSUME NEW v \in Workers \ {w}
          PROVE  /\ ~(place[v] = "func" /\ step[v] = 0 /\ s0 = 0)
                 /\ step[v] \in 1..(n_steps - 1) => data[v] > left'
      <3>1. ~(place[v] = "func" /\ step[v] = 0 /\ s0 = 0)
        BY <1>1, <1>b DEF OneWorkerPerStep, s0
      <3>2. ASSUME step[v] \in 1..(n_steps - 1) PROVE data[v] > left'
        <4>1. data[v] > left /\ data[v] \in Int
          BY <1>b, <1>c, <3>2 DEF FromSource
        <4> QED BY <4>1, <1>12
      <3> QED BY <3>1, <3>2
    <2>3. s0 # 0 => left' = left
      BY <1>3
    <2> QED BY <1>0, <1>b, <1>12, <2>1, <2>2, <2>3 DEF FromSource
  <1>14. OneCarrier'
    <2>1. Carries(w)' => data'[w] = d
      BY <1>7, <1>9
    <2> QED BY <1>0, <1>8, <1>b, <2>1 DEF OneCarrier
  <1>15. AtMostOnce'
    <2> SUFFICES ASSUME NEW b \in 1..batches, NEW s \in 0..(n_steps - 1)
                 PROVE  passed'[b][s] <= 1 /\ (b <= left' => passed'[b][s] = 0)
      BY <1>0 DEF AtMostOnce
    <2>1. CASE b = d
      <3>1. ~(b <= left')
        BY <2>1, <1>12
      <3> QED BY <2>1, <3>1, <1>5
    <2>2. CASE b # d
      <3>1. passed'[b][s] = passed[b][s] /\ passed[b][s] <= 1 /\ (b <= left => passed[b][s] = 0)
        BY <2>2, <1>5, <1>b DEF AtMostOnce
      <3>2. b <= left' => b <= left
        BY <1>12
      <3> QED BY <3>1, <3>2
    <2> QED BY <2>1, <2>2
  <1>16. SoFar'
    <2> SUFFICES ASSUME NEW v \in Workers, NEW s \in 0..(n_steps - 1), Carries(v)'
                 PROVE  passed'[data'[v]][s] = IF s < step'[v] THEN 1 ELSE 0
      BY <1>0 DEF SoFar
    <2>1. CASE v = w
      <3>1. data'[v] = d /\ step'[v] = s0 + 1
        BY <2>1, <1>7, <1>9
      <3> QED BY <3>1, <1>5
    <2>2. CASE v # w
      <3>1. data'[v] = data[v] /\ step'[v] = step[v] /\ Carries(v) /\ data[v] # d
        BY <2>2, <1>0, <1>8
      <3>2. data[v] \in 1..batches
        BY <3>1, <1>0, <1>c DEF Carries
      <3>3. passed[data[v]][s] = IF s < step[v] THEN 1 ELSE 0
        BY <3>1, <1>b DEF SoFar
      <3> QED BY <3>1, <3>2, <3>3, <1>5
    <2> QED BY <2>1, <2>2
  <1>17. Through'
    <2> SUFFICES ASSUME NEW b \in (left' + 1)..batches
                 PROVE  \/ b \in dropped'
                        \/ \E v \in Workers : Carries(v)' /\ data'[v] = b
                        \/ \A s \in 0..(n_steps - 1) : passed'[b][s] = 1
      BY <1>0 DEF Through
    <2>1. CASE b = d
      <3>1. CASE s0 = n_steps - 1
        <4>1. \A s \in 0..(n_steps - 1) : s < s0 + 1
          BY <1>0, <3>1
        <4> QED BY <2>1, <4>1, <1>5
      <3>2. CASE s0 # n_steps - 1 /\ answer # 0
        BY <2>1, <3>2, <1>7, <1>9
      <3>3. CASE s0 # n_steps - 1 /\ answer = 0
        BY <2>1, <3>3, <1>7
      <3> QED BY <3>1, <3>2, <3>3
    <2>2. CASE b # d
      <3>1. b \in (left + 1)..batches /\ b \in 1..batches
        <4>1. b \in Int /\ left' + 1 <= b /\ b <= batches
          BY <1>0, <1>12, Between
        <4>2. b # left \/ s0 # 0
          BY <2>2, <1>3
        <4>3. left < b
          BY <4>1, <4>2, <2>2, <1>3, <1>12
        <4> QED BY <4>1, <4>3, <1>0
      <3>2. CASE \E v \in Workers : Carries(v) /\ data[v] = b
        <4>1. PICK v \in Workers : Carries(v) /\ data[v] = b
          BY <3>2
        <4>2. v # w
          BY <4>1, <2>2 DEF d
        <4> QED BY <4>1, <4>2, <1>0
      <3>3. CASE b \in dropped
        BY <3>3, <1>7
      <3>4. CASE \A s \in 0..(n_steps - 1) : passed[b][s] = 1
        BY <3>1, <3>4, <2>2, <1>5
      <3> QED BY <3>1, <3>2, <3>3, <3>4, <1>b DEF Through
    <2> QED BY <2>1, <2>2
  <1>18. Reason'
    <2> SUFFICES ASSUME NEW v \in Workers, place'[v] = "exit" PROVE left' = 0 \/ dropped' # {}
      BY DEF Reason
    <2>1. CASE v = w
      <3>1. d \in dropped'
        BY <2>1, <1>0, <1>7
      <3> QED BY <3>1
    <2>2. CASE v # w
      <3>1. place[v] = "exit"
        BY <2>2, <1>0
      <3>2. left = 0 \/ dropped # {}
        BY <3>1, <1>0, <1>b DEF Reason
      <3>3. left = 0 => left' = 0
        BY <1>1, <1>2, <1>3
      <3>4. dropped # {} => dropped' # {}
        BY <1>7
      <3> QED BY <3>2, <3>3, <3>4
    <2> QED BY <2>1, <2>2
  <1> QED BY <1>10, <1>11, <1>13, <1>14, <1>15, <1>16, <1>17, <1>18 DEF PipeInv

\* Every step of kt_pipeline keeps the invariant.
LEMMA PipeStep == PipeInv /\ [PipelineNext]_pipelineVars => PipeInv'
  <1> SUFFICES ASSUME PipeInv, [PipelineNext]_pipelineVars PROVE PipeInv'
    OBVIOUS
  <1>1. ASSUME NEW w \in Workers, ktp_worker(w) \/ Spurious(w) PROVE PipeInv'
    <2>1. CASE Start(w)
      BY <2>1, StartInv
    <2>2. CASE Done(w)
      BY <2>2, EmptyInv, BatchInv
    <2>3. CASE Spurious(w)
      BY <2>3, SpuriousInv
    <2> QED BY <1>1, <2>1, <2>2, <2>3 DEF ktp_worker
  <1>2. CASE UNCHANGED pipelineVars
    BY <1>2 DEF pipelineVars, PipeInv, PipeTypeOK, Counts, Ended, FromSource, OneWorkerPerStep,
         OneCarrier, Carries, AtMostOnce, SoFar, Through, Reason
  <1> QED BY <1>1, <1>2 DEF PipelineNext

\* When every worker has ended, nobody carries anything.
LEMMA PipeDone == PipeInv => EveryBatchOnce
  <1> SUFFICES ASSUME PipeInv PROVE EveryBatchOnce
    OBVIOUS
  <1>1. \A b \in 1..batches, s \in 0..(n_steps - 1) : passed[b][s] <= 1
    BY DEF PipeInv, AtMostOnce
  <1>2. ASSUME PipelineReturns, n_steps # 0
        PROVE  /\ \A b \in ((left + 1)..batches) \ dropped, s \in 0..(n_steps - 1) : passed[b][s] = 1
               /\ dropped = {} => left = 0
    <2>1. n_steps \in Nat
      BY DEF PipeInv, PipeTypeOK
    <2>2. \A w \in Workers : place[w] = "exit" /\ step[w] = n_steps
      BY <1>2 DEF PipelineReturns, PipeInv, Ended
    <2>3. \A w \in Workers : ~Carries(w)
      BY <2>1, <2>2 DEF Carries
    <2>4. 1 \in Workers
      BY KtPipelineAssumption DEF Workers
    <2>5. left = 0 \/ dropped # {}
      BY <1>2, <2>2, <2>4 DEF PipeInv, Reason
    <2> QED BY <2>3, <2>5 DEF PipeInv, Through
  <1> QED BY <1>1, <1>2 DEF EveryBatchOnce

-----------------------------------------------------------------------------
\* The invariants hold of every call.
THEOREM Invariance == Spec => [](ForInv /\ PipeInv)
  <1> DEFINE Inv == ForInv /\ PipeInv
  <1>1. Init => Inv
    <2>0. Lengths \subseteq Nat /\ Steps \subseteq Nat /\ Batches \subseteq Nat
      BY KtForAssumption, KtPipelineAssumption
    <2>1. ForInit => ForInv
      BY <2>0, ForInitInv DEF ForInit
    <2>2. ForIdle => ForInv
      BY ForInitInv DEF ForIdle
    <2>3. PipelineInit => PipeInv
      BY <2>0, PipeInitInv DEF PipelineInit
    <2>4. PipelineIdle => PipeInv
      BY PipeInitInv DEF PipelineIdle
    <2> QED BY <2>1, <2>2, <2>3, <2>4 DEF Init
  <1>2. Inv /\ [Next]_vars => Inv'
    BY ForStep, PipeStep DEF Next, vars
  <1> QED BY <1>1, <1>2, PTL DEF Spec

\* Whichever of the two is called, its threads take every item or batch once.
THEOREM EachOnceHolds == Spec => []EachOnce
  <1>1. ForInv /\ PipeInv => EachOnce
    BY ForDone, PipeDone DEF EachOnce, PipeInv
  <1> QED BY <1>1, Invariance, PTL

-----------------------------------------------------------------------------
\* Waiting.

\* A worker that moves on wakes everyone that waits, and nobody else takes away what
\* somebody waits for.
LEMMA WaitStep == PipeInv /\ NobodyWaitsInVain /\ [PipelineNext]_pipelineVars => NobodyWaitsInVain'
  <1> SUFFICES ASSUME PipeInv, NobodyWaitsInVain, [PipelineNext]_pipelineVars,
                      NEW u \in Workers, place'[u] = "wait"
               PROVE  Busy(u)'
    BY DEF NobodyWaitsInVain
  <1>a. /\ place \in [Workers -> AtPlaces] /\ step \in [Workers -> 0..n_steps]
    BY DEF PipeInv, PipeTypeOK
  <1>1. ASSUME NEW w \in Workers, Start(w) PROVE Busy(u)'
    <2>1. place[w] = "test" /\ step' = step
      BY <1>1 DEF Start
    <2>2. \A v \in Workers : place[v] = "func" => place'[v] = "func"
      BY <1>a, <1>1, <2>1 DEF Start
    <2>3. Busy(u)
      <3>1. CASE u = w
        BY <1>a, <1>1, <3>1 DEF Start
      <3>2. CASE u # w
        <4>1. place[u] = "wait"
          BY <1>a, <1>1, <3>2 DEF Start
        <4> QED BY <4>1 DEF NobodyWaitsInVain
      <3> QED BY <3>1, <3>2
    <2> QED BY <2>1, <2>2, <2>3 DEF Busy
  <1>2. ASSUME NEW w \in Workers, Done(w) PROVE FALSE
    <2>1. PICK to \in {"test", "exit"} : place' = [Woken(w) EXCEPT ![w] = to]
      BY <1>2 DEF Done, Loop
    <2>2. CASE u = w
      BY <2>1, <2>2 DEF Woken
    <2>3. CASE u # w
      BY <2>1, <2>3 DEF Woken
    <2> QED BY <2>2, <2>3
  <1>3. ASSUME NEW w \in Workers, Spurious(w) PROVE Busy(u)'
    <2>1. place[w] = "wait" /\ place' = [place EXCEPT ![w] = "test"] /\ step' = step
      BY <1>3 DEF Spurious
    <2>2. place[u] = "wait" /\ \A v \in Workers : place[v] = "func" => place'[v] = "func"
      BY <1>a, <2>1
    <2>3. Busy(u)
      BY <2>2 DEF NobodyWaitsInVain
    <2> QED BY <2>1, <2>2, <2>3 DEF Busy
  <1>4. CASE UNCHANGED pipelineVars
    BY <1>4 DEF pipelineVars, NobodyWaitsInVain, Busy
  <1> QED BY <1>1, <1>2, <1>3, <1>4 DEF PipelineNext, ktp_worker

\* No broadcast is lost: whoever waits waits for a worker that is at work at his step,
\* and will wake him.
THEOREM NoBroadcastIsLost == Spec => []NobodyWaitsInVain
  <1>1. Init => NobodyWaitsInVain
    BY DEF Init, PipelineInit, PipelineIdle, PipelineWith, NobodyWaitsInVain
  <1>2. PipeInv /\ NobodyWaitsInVain /\ [Next]_vars => NobodyWaitsInVain'
    BY WaitStep DEF Next, vars
  <1> QED BY <1>1, <1>2, Invariance, PTL DEF Spec

\* As long as kt_pipeline has not returned there is a worker that can go on: the
\* threads never all wait for each other.
THEOREM NoDeadlock == Spec => []SomeoneGoesOn
  <1>1. PipeInv /\ NobodyWaitsInVain => SomeoneGoesOn
    BY DEF PipeInv, PipeTypeOK, AtPlaces, NobodyWaitsInVain, Busy, SomeoneGoesOn, PipelineReturns
  <1> QED BY <1>1, Invariance, NoBroadcastIsLost, PTL

\* Both together: what is done is done once, and there is always somebody to do the rest.
THEOREM CallsAreSoundAlways == Spec => []CallsAreSound
  <1> QED BY EachOnceHolds, NoBroadcastIsLost, NoDeadlock, PTL DEF CallsAreSound
=============================================================================
