------------------------------ MODULE KThread ------------------------------
(***************************************************************************)
(* A program that calls kt_for or kt_pipeline and waits for its threads.   *)
(***************************************************************************)
EXTENDS KtFor, KtPipeline

vars == <<forVars, pipelineVars>>

Init == \/ ForInit /\ PipelineIdle
        \/ ForIdle /\ PipelineInit

Next == \/ ForNext /\ UNCHANGED pipelineVars
        \/ PipelineNext /\ UNCHANGED forVars

Spec == Init /\ [][Next]_vars

\* Every thread that can run does so some time.
FairSpec ==
  /\ Spec
  /\ \A w \in Threads : WF_vars(ktf_worker(w) /\ UNCHANGED pipelineVars)
  /\ \A w \in Workers : WF_vars(ktp_worker(w) /\ UNCHANGED forVars)

-----------------------------------------------------------------------------
\* func is called once for what there is to be done, by one worker at a step, and
\* all of it has been done when the call returns.
EachOnce == EveryItemOnce /\ OneWorkerPerStep /\ EveryBatchOnce

\* Nothing is done twice or left out, and no thread waits for what nobody will do: the
\* workers never all wait for each other.
CallsAreSound == EachOnce /\ NobodyWaitsInVain /\ SomeoneGoesOn

\* Every call returns: no thread is left waiting for another, however they take
\* work from each other or wait for a step.  Not with a single step: it is the last
\* one, after which the worker goes on whatever func has answered.
CallsReturn == n_steps # 1 => <>(ForReturns /\ PipelineReturns)
=============================================================================
