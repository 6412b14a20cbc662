----------------------------- MODULE KtPipeline -----------------------------
(***************************************************************************)
(* kt_pipeline of kthread.c: threads carry batches through the steps of    *)
(* func, one thread at a step, under one mutex and one condition variable.  *)
(*                                                                         *)
(* func is external.  Its first step takes batches from a source: what is  *)
(* left of it is read when the call begins and written when it ends, with   *)
(* no lock of its own.  A batch is its number, 0 is NULL.                  *)
(***************************************************************************)
EXTENDS Integers

CONSTANTS
  n_workers,
  Steps,        \* numbers of steps kt_pipeline is called with
  Batches       \* numbers of batches a source has

ASSUME KtPipelineAssumption ==
  n_workers \in Nat \ {0} /\ Steps \subseteq Nat /\ Batches \subseteq Nat

Workers == 1..n_workers

VARIABLES
  n_steps,
  batches,      \* what the source had
  left,         \* what is left of it
  place,        \* worker -> test, wait, func or exit
  step,
  data,
  passed,       \* batch, step -> how often func has been called
  dropped       \* batches func has answered NULL for before the last step

pipelineVars == <<n_steps, batches, left, place, step, data, passed, dropped>>

\* while (w->step < p->n_steps)
Loop(s) == IF s < n_steps THEN "test" ELSE "exit"

PipelineWith(steps, source) ==
  /\ n_steps = steps
  /\ batches = source /\ left = source
  /\ step = [w \in Workers |-> 0]
  /\ place = [w \in Workers |-> IF steps = 0 THEN "exit" ELSE "test"]
  /\ data = [w \in Workers |-> 0]
  /\ passed = [b \in 1..source |-> [s \in 0..(steps - 1) |-> 0]]
  /\ dropped = {}

PipelineInit == \E steps \in Steps, source \in Batches : PipelineWith(steps, source)
PipelineIdle == PipelineWith(0, 0)

\* Not the code: the loop over the workers ends before the last of them.
WrongBusy(w) == \E v \in Workers \ {w, n_workers} : place[v] = "func" /\ step[v] = step[w]

\* w->running is set exactly from Start to Done.
Busy(w) == \E v \in Workers \ {w} : place[v] = "func" /\ step[v] = step[w]

\* The mutex is held from the test to running = 1, but for pthread_cond_wait.
Start(w) ==
  /\ place[w] = "test"
  /\ IF Busy(w)
     THEN place' = [place EXCEPT ![w] = "wait"] /\ data' = data
     ELSE /\ place' = [place EXCEPT ![w] = "func"]
          /\ data' = [data EXCEPT ![w] = IF step[w] = 0 THEN left ELSE @]
  /\ UNCHANGED <<n_steps, batches, left, step, passed, dropped>>

\* func may give up on a batch at any step but the first, which has one or none.
Answers(w) == IF step[w] = 0 THEN {data[w]} ELSE {data[w], 0}

\* Not the code: nobody is told.
WrongWoken(w) == [place EXCEPT ![w] = "func"]

\* pthread_cond_broadcast: every worker that waits tests again.
Woken(w) == [v \in Workers |-> IF place[v] = "wait" THEN "test" ELSE place[v]]

\* func has been called, and the worker moves on under the mutex.
Done(w) ==
  /\ place[w] = "func"
  /\ \E answer \in Answers(w) :
       LET last == step[w] = n_steps - 1
           next == IF last \/ answer # 0 THEN (step[w] + 1) % n_steps ELSE n_steps
       IN  /\ data' = [data EXCEPT ![w] = answer]
           /\ step' = [step EXCEPT ![w] = next]
           /\ place' = [Woken(w) EXCEPT ![w] = Loop(next)]
           /\ dropped' = IF last \/ answer # 0 \/ data[w] = 0 THEN dropped
                         ELSE dropped \cup {data[w]}
  /\ left' = IF step[w] = 0 /\ data[w] # 0 THEN data[w] - 1 ELSE left
  /\ passed' = IF data[w] = 0 THEN passed ELSE [passed EXCEPT ![data[w]][step[w]] = @ + 1]
  /\ UNCHANGED <<n_steps, batches>>

\* pthread_cond_wait may return without a reason.
Spurious(w) ==
  /\ place[w] = "wait"
  /\ place' = [place EXCEPT ![w] = "test"]
  /\ UNCHANGED <<n_steps, batches, left, step, data, passed, dropped>>

ktp_worker(w) == Start(w) \/ Done(w)
PipelineNext == \E w \in Workers : ktp_worker(w) \/ Spurious(w)

PipelineReturns == \A w \in Workers : place[w] = "exit"

\* No two workers are at the same step at a time, which is all that keeps func's
\* state of a step from a race.
OneWorkerPerStep ==
  \A v, w \in Workers : place[v] = "func" /\ place[w] = "func" /\ step[v] = step[w] => v = w

\* Nobody waits in vain: a worker that waits was, when it last looked, held up by one
\* that still is in func at its step, and whose broadcast is still to come.
NobodyWaitsInVain ==
  \A w \in Workers : place[w] = "wait" => Busy(w)

\* Unless all of them have ended, a worker is at work or about to test.
SomeoneGoesOn ==
  PipelineReturns \/ \E w \in Workers : place[w] \in {"test", "func"}

\* func sees a batch once at every step, and when kt_pipeline returns, every batch
\* that was taken has gone through, unless func has dropped it; the source
\* is empty, unless batches were dropped and workers with them.
EveryBatchOnce ==
  /\ \A b \in 1..batches, s \in 0..(n_steps - 1) : passed[b][s] <= 1
  /\ PipelineReturns /\ n_steps # 0 =>
       /\ \A b \in ((left + 1)..batches) \ dropped, s \in 0..(n_steps - 1) : passed[b][s] = 1
       /\ dropped = {} => left = 0
=============================================================================
