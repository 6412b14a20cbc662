------------------------------- MODULE KtFor -------------------------------
(***************************************************************************)
(* kt_for of kthread.c: the items 0..n-1 are dealt out to the threads by   *)
(* residue, and a thread that has done its own takes items from the        *)
(* counter that is furthest behind.  The counters are read without a lock  *)
(* and moved by __sync_fetch_and_add; nothing else is shared.              *)
(***************************************************************************)
EXTENDS Integers

CONSTANTS
  n_threads,
  Lengths       \* numbers of items kt_for is called with

ASSUME KtForAssumption == n_threads \in Nat \ {0} /\ Lengths \subseteq Nat

Threads == 0..(n_threads - 1)

VARIABLES
  n,
  i,            \* thread -> the next item that is counted as its own
  at,           \* thread -> where it is in ktf_worker
  item,         \* thread -> the item it has taken
  scan,         \* thread -> the variables i, min and min_i of its steal_work
  times         \* item -> how often func has been called for it

forVars == <<n, i, at, item, scan, times>>

\* min_i is -1 as long as min is LONG_MAX.
NewScan == [i |-> 0, min |-> 0, min_i |-> -1]

ForWith(length, place) ==
  /\ n = length
  /\ i = [w \in Threads |-> w]
  /\ at = [w \in Threads |-> place]
  /\ item = [w \in Threads |-> 0]
  /\ scan = [w \in Threads |-> NewScan]
  /\ times = [k \in 0..(length - 1) |-> 0]

ForInit == \E length \in Lengths : ForWith(length, "own")
ForIdle == ForWith(0, "exit")

\* An atomic addition, and what it finds decides between a call and another place.
FetchAndAdd(w, v, call, else) ==
  /\ i' = [i EXCEPT ![v] = @ + n_threads]
  /\ IF i[v] < n
     THEN item' = [item EXCEPT ![w] = i[v]] /\ at' = [at EXCEPT ![w] = call]
     ELSE item' = item /\ at' = [at EXCEPT ![w] = else]

\* The first loop of ktf_worker.
Own(w) ==
  /\ at[w] = "own"
  /\ FetchAndAdd(w, w, "call own", "look")
  /\ UNCHANGED <<n, scan, times>>

\* The counters are looked at one by one; the one that is smaller is read again, for
\* min.
Look(w) ==
  /\ at[w] = "look"
  /\ scan[w].i < n_threads
  /\ IF scan[w].min_i = -1 \/ scan[w].min > i[scan[w].i]
     THEN at' = [at EXCEPT ![w] = "read"] /\ scan' = scan
     ELSE at' = at /\ scan' = [scan EXCEPT ![w].i = @ + 1]
  /\ UNCHANGED <<n, i, item, times>>

ReadMin(w) ==
  /\ at[w] = "read"
  /\ scan' = [scan EXCEPT ![w] = [i |-> @.i + 1, min |-> i[@.i], min_i |-> @.i]]
  /\ at' = [at EXCEPT ![w] = "look"]
  /\ UNCHANGED <<n, i, item, times>>

\* Not the code: the item is the one that was read, not the one that was fetched.
WrongSteal(w) ==
  /\ at[w] = "look"
  /\ scan[w].i = n_threads
  /\ i' = [i EXCEPT ![scan[w].min_i] = @ + n_threads]
  /\ IF scan[w].min < n
     THEN item' = [item EXCEPT ![w] = scan[w].min] /\ at' = [at EXCEPT ![w] = "call stolen"]
     ELSE item' = item /\ at' = [at EXCEPT ![w] = "exit"]
  /\ UNCHANGED <<n, scan, times>>

\* The end of steal_work; when it finds nothing the thread ends.
Steal(w) ==
  /\ at[w] = "look"
  /\ scan[w].i = n_threads
  /\ FetchAndAdd(w, scan[w].min_i, "call stolen", "exit")
  /\ UNCHANGED <<n, scan, times>>

Call(w) ==
  /\ at[w] \in {"call own", "call stolen"}
  /\ times' = [times EXCEPT ![item[w]] = @ + 1]
  /\ at' = [at EXCEPT ![w] = IF @ = "call own" THEN "own" ELSE "look"]
  /\ scan' = [scan EXCEPT ![w] = NewScan]
  /\ UNCHANGED <<n, i, item>>

ktf_worker(w) == Own(w) \/ Look(w) \/ ReadMin(w) \/ Steal(w) \/ Call(w)
ForNext == \E w \in Threads : ktf_worker(w)

ForReturns == \A w \in Threads : at[w] = "exit"

\* func is called for no item twice, whoever has taken it from whom, and when
\* kt_for returns it has been called for every one, though a thread ends at the
\* first counter that has run out under its hands.
EveryItemOnce ==
  \A k \in 0..(n - 1) : times[k] <= 1 /\ (ForReturns => times[k] = 1)
=============================================================================
