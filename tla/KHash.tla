------------------------------- MODULE KHash -------------------------------
(***************************************************************************)
(* The hash tables of khash.h, in which the main server keeps users,       *)
(* sessions and rooms: open addressing over a power of two of buckets,     *)
(* deleted entries that stay in the way until the next rehash, and a rehash *)
(* in place, in which entries kick each other out.                         *)
(*                                                                         *)
(* A bucket that is not used keeps its old key and value in the source; the *)
(* flags hide them, and here they are gone.                                *)
(***************************************************************************)
EXTENDS Integers, FiniteSetsExt

CONSTANTS
  Keys,         \* of a hash table
  Vals,
  Hashes,       \* hash functions
  Sizes,        \* sizes somebody asks kh_resize for
  MaxEntries,   \* entries a table has at a time
  MaxBuckets    \* bound: buckets

KHashAssumption ==
  /\ Hashes \subseteq [Keys -> Nat]
  /\ Sizes \subseteq Nat
  /\ MaxEntries \in Nat /\ MaxBuckets \in Nat

VARIABLES
  n_buckets,
  size,
  n_occupied,
  bucket,       \* 0..n_buckets-1 -> Empty, Deleted or an entry
  hash          \* the hash function of the table

vars == <<n_buckets, size, n_occupied, bucket, hash>>

Empty == [key |-> {}, val |-> "empty"]
Deleted == [key |-> {}, val |-> "deleted"]
Entry(key, val) == [key |-> {key}, val |-> val]
IsUsed(b) == b.key # {}

\* kh_init
Init ==
  /\ n_buckets = 0 /\ size = 0 /\ n_occupied = 0
  /\ bucket = << >>
  /\ hash \in Hashes

-----------------------------------------------------------------------------
\* Probing.

\* Not the code: the table may become full.
Wrong_upper_bound(n) == n

\* (khint_t)(n * 0.77 + 0.5)
upper_bound(n) == (n * 77 + 50) \div 100

\* Where a key is looked for at the step-th time; the buckets are a power of two,
\* so the mask is a remainder.
Offset(step) == (step * (step + 1)) \div 2
Site(key, n, step) == (hash[key] + Offset(step)) % n

\* The steps before the probing is back where it began.
Steps(n) == 0..(Min({s \in 1..(2 * n) : Offset(s) % n = 0}) - 1)

\* The steps at which the loops of kh_get and kh_put may stop: nothing more can
\* come, or the key is found.
Stops(key) ==
  {s \in Steps(n_buckets) : bucket[Site(key, n_buckets, s)] = Empty
                                 \/ bucket[Site(key, n_buckets, s)].key = {key}}

\* The bucket of a key, n_buckets if there is none.
kh_get(key) ==
  IF n_buckets = 0 \/ Stops(key) = {} THEN n_buckets
  ELSE LET i == Site(key, n_buckets, Min(Stops(key)))
       IN  IF IsUsed(bucket[i]) THEN i ELSE n_buckets

-----------------------------------------------------------------------------
\* Rehashing.

\* kroundup32, and no table is smaller than 4.
IsPowerOfTwo(n) == \A d \in 2..n : n % d = 0 => d % 2 = 0
Roundup(n) == Min({m \in 4..(2 * n + 4) : m >= n /\ IsPowerOfTwo(m)})

\* The state of the loop: what is left in the old table and what is in the new one,
\* which share the memory, the entry that has to be placed next, and the bucket of
\* the old table the loop has come to.
Rehash(old, new, hand, j) == [old |-> old, new |-> new, hand |-> hand, j |-> j]

FreeSite(new, entry, n) ==
  LET key == CHOOSE k \in entry.key : TRUE
  IN  Site(key, n, Min({s \in Steps(n) : new[Site(key, n, s)] = Empty}))

\* What is in bucket i of the old table has to be placed next.
TakenOut(t, i) ==
  IF i \in DOMAIN t.old /\ IsUsed(t.old[i])
  THEN [t EXCEPT !.old[i] = Deleted, !.hand = t.old[i]]
  ELSE [t EXCEPT !.hand = Empty]

\* Not the code: what was kicked out is forgotten.
WrongMoved(t, n) ==
  LET i == FreeSite(t.new, t.hand, n)
  IN  IF IsUsed(t.hand)
      THEN [TakenOut(t, i) EXCEPT !.new[i] = t.hand, !.hand = Empty]
      ELSE [TakenOut(t, t.j) EXCEPT !.j = t.j + 1]

\* An entry goes to its new place and kicks out the one of the old table that is
\* there; if there was none, the loop goes on to the next bucket.
Moved(t, n) ==
  LET i == FreeSite(t.new, t.hand, n)
  IN  IF IsUsed(t.hand)
      THEN [TakenOut(t, i) EXCEPT !.new[i] = t.hand]
      ELSE [TakenOut(t, t.j) EXCEPT !.j = t.j + 1]

\* Every move places an entry or is done with a bucket: there are no more of them.
Rehashed(n) ==
  LET rehash[k \in 0..(n_buckets + size)] ==
        IF k = 0 THEN Rehash(bucket, [i \in 0..(n - 1) |-> Empty], Empty, 0)
                 ELSE Moved(rehash[k - 1], n)
  IN  rehash[n_buckets + size].new

\* What a call makes of n_buckets, the buckets, n_occupied and size.
Table(n, buckets, occupied, entries) ==
  [n |-> n, buckets |-> buckets, occupied |-> occupied, entries |-> entries]
ThisTable == Table(n_buckets, bucket, n_occupied, size)

\* A size that is too small for what is there changes nothing.
Resized(asked) ==
  LET n == Roundup(asked)
  IN  IF size >= upper_bound(n) THEN ThisTable ELSE Table(n, Rehashed(n), size, size)

\* Not the code: the table always grows.
WrongWithRoom ==
  IF n_occupied >= upper_bound(n_buckets) THEN Resized(n_buckets + 1)
  ELSE ThisTable

\* kh_put first makes room: by cleaning if half of the buckets would do.
WithRoom ==
  IF n_occupied >= upper_bound(n_buckets)
  THEN Resized(IF n_buckets > 2 * size THEN n_buckets - 1 ELSE n_buckets + 1)
  ELSE ThisTable

-----------------------------------------------------------------------------
\* Operations.

\* Not the code: the first deleted bucket is taken before the key is looked for.
WrongPutSite(t, key) ==
  LET steps == Steps(t.n)
  IN  Site(key, t.n, Min({s \in steps : t.buckets[Site(key, t.n, s)] \in {Empty, Deleted}
                                        \/ t.buckets[Site(key, t.n, s)].key = {key}}))

\* The bucket kh_put takes: that of the key; the last deleted one on the way to an
\* empty one; or the empty one.
PutSite(t, key) ==
  LET steps == Steps(t.n)
      At(s) == t.buckets[Site(key, t.n, s)]
      stops == {s \in steps : At(s) = Empty \/ At(s).key = {key}}
      end   == IF stops = {} THEN 1 + Max(steps) ELSE Min(stops)
      free  == {s \in 0..(end - 1) : At(s) = Deleted}
  IN  IF free = {} \/ (stops # {} /\ At(end) # Empty) THEN Site(key, t.n, end)
      ELSE Site(key, t.n, Max(free))

\* The caller writes the value into the bucket kh_put returns.
Put(key, val) ==
  LET t == WithRoom
      x == PutSite(t, key)
  IN  Table(t.n, [t.buckets EXCEPT ![x] = Entry(key, val)],
            t.occupied + (IF t.buckets[x] = Empty THEN 1 ELSE 0),
            t.entries + (IF IsUsed(t.buckets[x]) THEN 0 ELSE 1))

Becomes(t) ==
  /\ t.n <= MaxBuckets
  /\ n_buckets' = t.n /\ bucket' = t.buckets
  /\ n_occupied' = t.occupied /\ size' = t.entries
  /\ UNCHANGED hash

kh_put(key, val) == Becomes(Put(key, val))

\* Not the code: the bucket is given back as if it had never been used.
Wrong_kh_del(key) ==
  /\ kh_get(key) # n_buckets
  /\ bucket' = [bucket EXCEPT ![kh_get(key)] = Empty]
  /\ size' = size - 1
  /\ n_occupied' = n_occupied - 1
  /\ UNCHANGED <<n_buckets, hash>>

\* Of a key that has been looked up.
kh_del(key) ==
  /\ kh_get(key) # n_buckets
  /\ bucket' = [bucket EXCEPT ![kh_get(key)] = Deleted]
  /\ size' = size - 1
  /\ UNCHANGED <<n_buckets, n_occupied, hash>>

kh_clear ==
  /\ n_buckets > 0
  /\ bucket' = [i \in 0..(n_buckets - 1) |-> Empty]
  /\ size' = 0 /\ n_occupied' = 0
  /\ UNCHANGED <<n_buckets, hash>>

kh_resize(asked) == Becomes(Resized(asked))

Next ==
  \/ \E key \in Keys : \/ /\ size < MaxEntries
                          /\ \E val \in Vals : kh_put(key, val)
                       \/ kh_del(key)
  \/ kh_clear
  \/ \E asked \in Sizes : kh_resize(asked)

Spec == Init /\ [][Next]_vars

-----------------------------------------------------------------------------
\* What kh_begin, kh_end and kh_exist let a loop over the table see.
Used == {i \in 0..(n_buckets - 1) : IsUsed(bucket[i])}

\* Every entry is found under its key and no key is in the table twice: no entry
\* lies behind an empty bucket, though buckets are emptied, taken again and
\* rearranged in place.
FindsEveryKey == \A i \in Used : \A key \in bucket[i].key : kh_get(key) = i

\* The counters are those of the buckets, and some bucket is always empty: that
\* is what ends the look-up of a key that is not there and the loops of kh_resize,
\* which have no other end.
AlwaysRoom ==
  /\ size = Cardinality(Used)
  /\ n_occupied = Cardinality({i \in 0..(n_buckets - 1) : bucket[i] # Empty})
  /\ n_buckets > 0 => n_occupied < n_buckets

\* Entries that come and go do not make the table grow, however many keys there
\* have been: it has less than four times the buckets that there are entries at a
\* time, or what was asked for.
ChurnIsBounded ==
  \/ n_buckets < 4 * MaxEntries \/ n_buckets <= 4
  \/ \E s \in Sizes : n_buckets <= Roundup(s)

\* The table as a function.
ContentsOf(buckets) ==
  LET used == {i \in DOMAIN buckets : IsUsed(buckets[i])}
  IN  [key \in UNION {buckets[i].key : i \in used} |->
         buckets[CHOOSE i \in used : buckets[i].key = {key}].val]

Contents == ContentsOf(bucket)

Map == INSTANCE FiniteMap WITH table <- Contents

\* A call changes one key, or clears the table.
TableIsAMap == Map!Spec

\* kh_put sets its key and nothing else, whatever it has to move for that, and
\* kh_resize loses nothing and changes nothing.
CallsChangeTheirKey ==
  /\ \A key \in Keys, val \in Vals :
       ContentsOf(Put(key, val).buckets) = [k \in DOMAIN Contents \cup {key} |->
                                             IF k = key THEN val ELSE Contents[k]]
  /\ \A asked \in Sizes : ContentsOf(Resized(asked).buckets) = Contents
=============================================================================
