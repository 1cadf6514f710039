------------------------------- MODULE RunAll -------------------------------
(***************************************************************************)
(* What WorkerPool::run_all promises (host/encoder.h): "Runs               *)
(* fn(worker_index) on every worker plus the calling thread; returns when  *)
(* all have finished."  Nothing is said of threads, locks or wake-ups.     *)
(***************************************************************************)
EXTENDS Naturals

CONSTANT N                      \* threads in the pool besides the caller

WorkersAssumption == N \in Nat

VARIABLES
  phase,    \* "idle" between calls, "running" in one, "gone" once destroyed
  left      \* the indices whose fn has not returned yet

runVars == <<phase, left>>

Index == 0..N                   \* the caller is index 0

RunInit == phase = "idle" /\ left = {}

Start == phase = "idle" /\ phase' = "running" /\ left' = Index

\* fn(i) returns.
Do(i) == i \in left /\ left' = left \ {i} /\ UNCHANGED phase

Return == phase = "running" /\ left = {} /\ phase' = "idle" /\ UNCHANGED left

Stop == phase = "idle" /\ phase' = "gone" /\ UNCHANGED left

RunNext == Start \/ (\E i \in Index : Do(i)) \/ Return \/ Stop

\* fn is run exactly once per index, only during a call, and the call returns.
RunSpec ==
  /\ RunInit /\ [][RunNext]_runVars
  /\ \A i \in Index : WF_runVars(Do(i))
  /\ WF_runVars(Return)

\* The part of it that says what may happen.
RunSafe == RunInit /\ [][RunNext]_runVars
=============================================================================
