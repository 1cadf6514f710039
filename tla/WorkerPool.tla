----------------------------- MODULE WorkerPool -----------------------------
(***************************************************************************)
(* The thread pool of the screen encoder (host/encoder.cpp): a caller that *)
(* hands a job to N threads, takes part in it and waits for them, with one *)
(* mutex, two condition variables and a generation counter.                *)
(*                                                                         *)
(* Each critical section is one action, a wait that finds its predicate    *)
(* false puts the thread to sleep, and a sleeper may wake for no reason.   *)
(* The job is the closure on the caller's stack: it is identified by the   *)
(* generation it was posted under and dies when run_all returns.           *)
(***************************************************************************)
EXTENDS Integers

CONSTANTS
  N,          \* workers_.size()
  MaxCalls    \* bound: calls of run_all

PoolAssumption == N \in Nat /\ MaxCalls \in Nat

VARIABLES
  caller,     \* where the thread that owns the pool is
  pc,         \* where each worker is
  seen,       \* each worker's local "seen"
  myJob,      \* each worker's local "job"
  job,        \* job_
  generation, \* generation_
  pending,    \* pending_
  quit,       \* quit_
  runs        \* history: how many jobs each index has finished

vars == <<caller, pc, seen, myJob, job, generation, pending, quit, runs>>

Worker == 1..N
Index == 0..N

\* The caller is inside run_all, so that the closure is alive.
InCall == caller \in {"notify", "own", "check", "asleep"}

Init ==
  /\ caller = "outside"
  /\ pc = [w \in Worker |-> "check"]
  /\ seen = [w \in Worker |-> 0]
  /\ myJob = [w \in Worker |-> 0]
  /\ job = 0
  /\ generation = 0
  /\ pending = 0
  /\ quit = FALSE
  /\ runs = [i \in Index |-> 0]

-----------------------------------------------------------------------------
(* The thread that calls run_all and destroys the pool.                    *)

\* The operators whose comment says "mutant" are wrong on purpose: each is the
\* operator below it with a bug that some property rules out.

\* How many threads will count pending_ down.
Workers == N

\* run_all's first block.
Post ==
  /\ caller = "outside"
  /\ generation < MaxCalls
  /\ job' = generation + 1
  /\ pending' = Workers
  /\ generation' = generation + 1
  /\ caller' = "notify"
  /\ UNCHANGED <<pc, seen, myJob, quit, runs>>

\* notify_all: every thread that sleeps on cv_start_ will check again.
WokenOne ==                                                            \* mutant
  IF \E w \in Worker : pc[w] = "asleep"
  THEN [pc EXCEPT ![CHOOSE w \in Worker : pc[w] = "asleep"] = "check"] ELSE pc
Woken == [w \in Worker |-> IF pc[w] = "asleep" THEN "check" ELSE pc[w]]

\* cv_start_.notify_all() of run_all, after the mutex was released.
NotifyStart ==
  /\ caller = "notify"
  /\ pc' = Woken
  /\ caller' = "own"
  /\ UNCHANGED <<seen, myJob, job, generation, pending, quit, runs>>

\* fn(0)
OwnShare ==
  /\ caller = "own"
  /\ runs' = [runs EXCEPT ![0] = @ + 1]
  /\ caller' = "check"
  /\ UNCHANGED <<pc, seen, myJob, job, generation, pending, quit>>

\* cv_done_.wait: run_all returns when nobody is pending.
NoWait == TRUE                                                         \* mutant
AllDone == pending = 0

WaitDone ==
  /\ caller = "check"
  /\ caller' = IF AllDone THEN "outside" ELSE "asleep"
  /\ UNCHANGED <<pc, seen, myJob, job, generation, pending, quit, runs>>

\* ~WorkerPool: quit_ is set, ...
Quit ==
  /\ caller = "outside"
  /\ quit' = TRUE
  /\ caller' = "notifyQuit"
  /\ UNCHANGED <<pc, seen, myJob, job, generation, pending, runs>>

\* ... the sleepers are woken, ...
NotifyQuit ==
  /\ caller = "notifyQuit"
  /\ pc' = Woken
  /\ caller' = "join"
  /\ UNCHANGED <<seen, myJob, job, generation, pending, quit, runs>>

\* ... and all threads are joined.
Join ==
  /\ caller = "join"
  /\ \A w \in Worker : pc[w] = "exited"
  /\ caller' = "destroyed"
  /\ UNCHANGED <<pc, seen, myJob, job, generation, pending, quit, runs>>

-----------------------------------------------------------------------------
(* worker_main.                                                            *)

\* The generation a worker remembers when it takes the job.
SeenNow(w) == generation

\* The wait on cv_start_ and what follows it under the lock.
Take(w) ==
  /\ pc[w] = "check"
  /\ \/ /\ quit
        /\ pc' = [pc EXCEPT ![w] = "exited"]
        /\ UNCHANGED <<seen, myJob>>
     \/ /\ ~quit /\ generation # seen[w]
        /\ seen' = [seen EXCEPT ![w] = SeenNow(w)]
        /\ myJob' = [myJob EXCEPT ![w] = job]
        /\ pc' = [pc EXCEPT ![w] = "run"]
     \/ /\ ~quit /\ generation = seen[w]
        /\ pc' = [pc EXCEPT ![w] = "asleep"]
        /\ UNCHANGED <<seen, myJob>>
  /\ UNCHANGED <<caller, job, generation, pending, quit, runs>>

\* (*job)(index) returns.
Run(w) ==
  /\ pc[w] = "run"
  /\ runs' = [runs EXCEPT ![w] = @ + 1]
  /\ pc' = [pc EXCEPT ![w] = "done"]
  /\ UNCHANGED <<caller, seen, myJob, job, generation, pending, quit>>

\* The last worker to finish wakes a caller that sleeps on cv_done_.
CallerNotWoken == caller                                               \* mutant
CallerWoken == IF pending = 1 /\ caller = "asleep" THEN "check" ELSE caller

Finish(w) ==
  /\ pc[w] = "done"
  /\ pending' = pending - 1
  /\ caller' = CallerWoken
  /\ pc' = [pc EXCEPT ![w] = "check"]
  /\ UNCHANGED <<seen, myJob, job, generation, quit, runs>>

\* A condition variable may wake without a notification.
Spurious ==
  /\ \/ \E w \in Worker : /\ pc[w] = "asleep"
                          /\ pc' = [pc EXCEPT ![w] = "check"]
                          /\ UNCHANGED caller
     \/ /\ caller = "asleep"
        /\ caller' = "check"
        /\ UNCHANGED pc
  /\ UNCHANGED <<seen, myJob, job, generation, pending, quit, runs>>

Next ==
  \/ Post \/ NotifyStart \/ OwnShare \/ WaitDone
  \/ Quit \/ NotifyQuit \/ Join
  \/ \E w \in Worker : Take(w) \/ Run(w) \/ Finish(w)
  \/ Spurious

Spec == Init /\ [][Next]_vars

\* Threads that can run do (nothing is assumed of when the owner of the pool
\* calls run_all or destroys it, nor of spurious wake-ups).
FairSpec ==
  /\ Spec
  /\ WF_vars(NotifyStart) /\ WF_vars(OwnShare) /\ WF_vars(WaitDone)
  /\ WF_vars(NotifyQuit) /\ WF_vars(Join)
  /\ \A w \in Worker : WF_vars(Take(w)) /\ WF_vars(Run(w)) /\ WF_vars(Finish(w))

-----------------------------------------------------------------------------
(* Properties.                                                             *)

TypeOK ==
  /\ caller \in {"outside", "notify", "own", "check", "asleep",
                 "notifyQuit", "join", "destroyed"}
  /\ pc \in [Worker -> {"check", "asleep", "run", "done", "exited"}]
  /\ seen \in [Worker -> Nat]
  /\ myJob \in [Worker -> Nat]
  /\ job \in Nat
  /\ generation \in Nat
  /\ pending \in 0..N
  /\ quit \in BOOLEAN
  /\ runs \in [Index -> Nat]

\* A worker never runs a job whose closure is gone: run_all does not return,
\* and the next job is not posted, while any worker is still in the last one.
JobAlive ==
  \A w \in Worker : pc[w] = "run" => InCall /\ myJob[w] = generation

\* run_all as its callers see it.
Phase == CASE caller \in {"outside"} -> "idle"
           [] InCall -> "running"
           [] OTHER -> "gone"
Left == IF InCall THEN {i \in Index : runs[i] < generation} ELSE {}

RA == INSTANCE RunAll WITH phase <- Phase, left <- Left

\* The pool does what run_all promises, and every call returns: no wake-up is
\* lost between the predicate, the wait and the notification.
Promise == RA!RunSpec

\* The destructor returns: no worker sleeps through quit_.
Destroyed == (caller = "notifyQuit") ~> (caller = "destroyed")
=============================================================================
