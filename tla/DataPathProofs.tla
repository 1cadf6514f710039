--------------------------- MODULE DataPathProofs ---------------------------
(***************************************************************************)
(* Proofs about the layers a picture goes through (DataPath), layer by     *)
(* layer, each for any values of its constants.                            *)
(***************************************************************************)
EXTENDS DataPath, FiniteSetTheorems, WellFoundedInduction, TLAPS

-----------------------------------------------------------------------------
(* The thread pool (WorkerPool).  A worker owes a finish from the moment a *)
(* job is posted, whether it has seen it or not; pending_ counts those.    *)

Owing == {w \in Pool!Worker : pc[w] \in {"run", "done"} \/ seen[w] # generation}

\* Those who have fn still to run.
Unrun == {w \in Pool!Worker : pc[w] = "run" \/ seen[w] # generation}

PoolCounts ==
  /\ job = generation
  /\ pending = Cardinality(Owing)
  /\ ~Pool!InCall => pending = 0
  /\ quit => caller \in {"notifyQuit", "join", "destroyed"}

PoolJobs ==
  \A w \in Pool!Worker : pc[w] \in {"run", "done"} => seen[w] = generation /\ myJob[w] = generation

\* Every index has run every job, but the one posted last only if it is not
\* among those who still have to.
PoolRuns ==
  /\ Pool!InCall => generation > 0
  /\ runs[0] = IF caller \in {"notify", "own"} THEN generation - 1 ELSE generation
  /\ \A w \in Pool!Worker : runs[w] = IF w \in Unrun THEN generation - 1 ELSE generation

PoolInv == Pool!TypeOK /\ PoolCounts /\ PoolJobs /\ PoolRuns

\* What is owed is finite.
LEMMA OwingFinite ==
  /\ IsFiniteSet(Owing)
  /\ Cardinality(Owing) \in 0..Threads
  /\ Cardinality(Owing) = 0 <=> Owing = {}
<1>1. Threads \in Nat
  BY PoolAssumed DEF Pool!PoolAssumption
<1>2. Pool!Worker = 1..Threads
  BY DEF Pool!Worker
<1>3. IsFiniteSet(1..Threads) /\ Cardinality(1..Threads) = Threads
  BY <1>1, FS_Interval
<1>4. IsFiniteSet(Owing) /\ Cardinality(Owing) <= Cardinality(1..Threads)
  BY <1>2, <1>3, FS_Subset DEF Owing
<1>. QED
  BY <1>3, <1>4, FS_CardinalityType, FS_EmptySet

\* The pool starts with nothing owed.
LEMMA PoolStarts == Pool!Init => PoolInv
<1>. SUFFICES ASSUME Pool!Init PROVE PoolInv
  OBVIOUS
<1>1. Threads \in Nat
  BY PoolAssumed DEF Pool!PoolAssumption
<1>2. Owing = {} /\ Unrun = {}
  BY DEF Pool!Init, Owing, Unrun
<1>3. Cardinality(Owing) = 0
  BY <1>2, FS_EmptySet
<1>4. Pool!TypeOK
  <2>2. pc \in [Pool!Worker -> {"check", "asleep", "run", "done", "exited"}] /\ quit \in BOOLEAN
    BY DEF Pool!Init
  <2>3. /\ seen \in [Pool!Worker -> Nat] /\ myJob \in [Pool!Worker -> Nat]
        /\ runs \in [Pool!Index -> Nat]
        /\ job \in Nat /\ generation \in Nat /\ pending \in 0..Threads
    BY <1>1 DEF Pool!Init
  <2>. QED
    BY <2>2, <2>3 DEF Pool!TypeOK, Pool!Init
<1>5. PoolCounts /\ PoolJobs
  BY <1>3 DEF Pool!Init, PoolCounts, PoolJobs
<1>6. PoolRuns
  BY <1>1, <1>2 DEF Pool!Init, PoolRuns, Pool!InCall, Pool!Worker, Pool!Index
<1>. QED
  BY <1>4, <1>5, <1>6 DEF PoolInv


\* Types are kept.
LEMMA PoolTypes ==
  ASSUME PoolInv, [Pool!Next]_(Pool!vars)
  PROVE  Pool!TypeOK'
<1>1. Threads \in Nat
  BY PoolAssumed DEF Pool!PoolAssumption
<1>2. Pool!TypeOK /\ PoolCounts
  BY DEF PoolInv
<1>3. CASE Pool!Post
  BY <1>1, <1>2, <1>3 DEF Pool!TypeOK, Pool!Post, Pool!Workers
<1>4. CASE Pool!NotifyStart \/ Pool!NotifyQuit
  BY <1>2, <1>4 DEF Pool!TypeOK, Pool!NotifyStart, Pool!NotifyQuit, Pool!Woken
<1>5. CASE Pool!OwnShare
  BY <1>1, <1>2, <1>5 DEF Pool!TypeOK, Pool!OwnShare, Pool!Index
<1>6. CASE Pool!WaitDone
  BY <1>2, <1>6 DEF Pool!TypeOK, Pool!WaitDone
<1>7. CASE Pool!Quit
  BY <1>2, <1>7 DEF Pool!TypeOK, Pool!Quit
<1>8. CASE Pool!Join
  BY <1>2, <1>8 DEF Pool!TypeOK, Pool!Join
<1>9. ASSUME NEW w \in Pool!Worker, Pool!Take(w) PROVE Pool!TypeOK'
  BY <1>2, <1>9 DEF Pool!TypeOK, Pool!Take, Pool!SeenNow
<1>10. ASSUME NEW w \in Pool!Worker, Pool!Run(w) PROVE Pool!TypeOK'
  <2>1. w \in Pool!Index
    BY <1>1 DEF Pool!Worker, Pool!Index
  <2>2. runs[w] + 1 \in Nat
    BY <1>2, <2>1 DEF Pool!TypeOK
  <2>. QED
    BY <1>2, <1>10, <2>2 DEF Pool!TypeOK, Pool!Run
<1>11. ASSUME NEW w \in Pool!Worker, Pool!Finish(w) PROVE Pool!TypeOK'
  <2>1. w \in Owing
    BY <1>11 DEF Pool!Finish, Owing
  <2>2. pending > 0
    BY <1>1, <1>2, <2>1, OwingFinite DEF PoolCounts
  <2>. QED
    BY <1>1, <1>2, <1>11, <2>2 DEF Pool!TypeOK, Pool!Finish, Pool!CallerWoken
<1>12. CASE Pool!Spurious
  BY <1>2, <1>12 DEF Pool!TypeOK, Pool!Spurious
<1>13. CASE UNCHANGED Pool!vars
  BY <1>2, <1>13 DEF Pool!TypeOK, Pool!vars
<1>. QED
  BY <1>3, <1>4, <1>5, <1>6, <1>7, <1>8, <1>9, <1>10, <1>11, <1>12, <1>13 DEF Pool!Next

\* What a step adds to or takes from what is owed.
LEMMA PoolOwing ==
  ASSUME PoolInv, [Pool!Next]_(Pool!vars)
  PROVE  PoolCounts' /\ PoolJobs' /\ PoolRuns'
<1>1. Threads \in Nat /\ Pool!Worker = 1..Threads /\ Pool!Index = 0..Threads
  BY PoolAssumed DEF Pool!PoolAssumption, Pool!Worker, Pool!Index
<1>2. Pool!TypeOK /\ PoolCounts /\ PoolJobs /\ PoolRuns
  BY DEF PoolInv
<1>. DEFINE Same == Owing' = Owing /\ Unrun' = Unrun
<1>. USE <1>1, <1>2 DEF Pool!TypeOK
<1>3. CASE Pool!Post
  <2>1. Owing = {}
    BY <1>3, OwingFinite DEF Pool!Post, PoolCounts, Pool!InCall
  <2>2. Unrun = {}
    BY <2>1 DEF Owing, Unrun
  <2>3. \A w \in Pool!Worker : seen[w] = generation /\ pc[w] \notin {"run", "done"}
    BY <2>1 DEF Owing
  <2>4. Owing' = 1..Threads /\ Unrun' = 1..Threads
    BY <1>3, <2>3 DEF Pool!Post, Owing, Unrun
  <2>5. Cardinality(Owing') = Threads
    BY <2>4, FS_Interval
  <2>6. PoolCounts'
    BY <1>3, <2>5 DEF Pool!Post, Pool!Workers, PoolCounts, Pool!InCall
  <2>7. PoolJobs'
    BY <1>3, <2>3 DEF Pool!Post, PoolJobs
  <2>8. PoolRuns'
    BY <1>3, <2>2, <2>4 DEF Pool!Post, PoolRuns, Pool!InCall
  <2>. QED
    BY <2>6, <2>7, <2>8
<1>4. CASE Pool!NotifyStart \/ Pool!NotifyQuit
  <2>1. Same /\ \A w \in Pool!Worker : pc'[w] \in {"run", "done"} => pc[w] \in {"run", "done"}
    BY <1>4 DEF Pool!NotifyStart, Pool!NotifyQuit, Pool!Woken, Owing, Unrun
  <2>2. PoolCounts' /\ PoolJobs'
    BY <1>4, <2>1 DEF Pool!NotifyStart, Pool!NotifyQuit, PoolCounts, PoolJobs, Pool!InCall
  <2>3. PoolRuns'
    BY <1>4, <2>1 DEF Pool!NotifyStart, Pool!NotifyQuit, PoolRuns, Pool!InCall
  <2>. QED
    BY <2>2, <2>3
<1>5. CASE Pool!OwnShare
  <2>1. Same
    BY <1>5 DEF Pool!OwnShare, Owing, Unrun
  <2>2. PoolCounts' /\ PoolJobs'
    BY <1>5, <2>1 DEF Pool!OwnShare, PoolCounts, PoolJobs, Pool!InCall
  <2>3. PoolRuns'
    BY <1>5, <2>1 DEF Pool!OwnShare, PoolRuns, Pool!InCall
  <2>. QED
    BY <2>2, <2>3
<1>6. CASE Pool!WaitDone \/ Pool!Quit \/ Pool!Join
  <2>1. Same /\ UNCHANGED <<pc, seen, myJob, job, generation, pending, runs>>
    BY <1>6 DEF Pool!WaitDone, Pool!Quit, Pool!Join, Owing, Unrun
  <2>2. PoolCounts' /\ PoolJobs'
    BY <1>6, <2>1 DEF Pool!WaitDone, Pool!Quit, Pool!Join, Pool!AllDone, PoolCounts, PoolJobs, Pool!InCall
  <2>3. PoolRuns'
    BY <1>6, <2>1 DEF Pool!WaitDone, Pool!Quit, Pool!Join, PoolRuns, Pool!InCall
  <2>. QED
    BY <2>2, <2>3
<1>7. ASSUME NEW w \in Pool!Worker, Pool!Take(w) PROVE PoolCounts' /\ PoolJobs' /\ PoolRuns'
  <2>1. Same
    BY <1>7, ZenonT(40) DEF Pool!Take, Pool!SeenNow, Owing, Unrun
  <2>2. PoolCounts'
    BY <1>7, <2>1 DEF Pool!Take, PoolCounts, Pool!InCall
  <2>3. PoolJobs'
    BY <1>7 DEF Pool!Take, Pool!SeenNow, PoolCounts, PoolJobs
  <2>4. PoolRuns'
    BY <1>7, <2>1 DEF Pool!Take, PoolRuns, Pool!InCall
  <2>. QED
    BY <2>2, <2>3, <2>4
<1>8. ASSUME NEW w \in Pool!Worker, Pool!Run(w) PROVE PoolCounts' /\ PoolJobs' /\ PoolRuns'
  <2>1. seen[w] = generation
    BY <1>8 DEF Pool!Run, PoolJobs
  <2>2. Owing' = Owing /\ w \in Unrun /\ Unrun' = Unrun \ {w}
    BY <1>8, <2>1 DEF Pool!Run, Owing, Unrun
  <2>3. PoolCounts' /\ PoolJobs'
    BY <1>8, <2>2 DEF Pool!Run, PoolCounts, PoolJobs, Pool!InCall
  <2>4. PoolRuns'
    BY <1>8, <2>2, SMTT(40) DEF Pool!Run, PoolRuns, Pool!InCall
  <2>. QED
    BY <2>3, <2>4
<1>9. ASSUME NEW w \in Pool!Worker, Pool!Finish(w) PROVE PoolCounts' /\ PoolJobs' /\ PoolRuns'
  <2>1. seen[w] = generation
    BY <1>9 DEF Pool!Finish, PoolJobs
  <2>2. w \in Owing /\ Owing' = Owing \ {w} /\ Unrun' = Unrun
    BY <1>9, <2>1 DEF Pool!Finish, Owing, Unrun
  <2>3. Cardinality(Owing') = Cardinality(Owing) - 1
    BY <2>2, OwingFinite, FS_RemoveElement
  <2>4. Cardinality(Owing) > 0
    BY <2>2, OwingFinite
  <2>5. Pool!InCall /\ caller' \in {caller, "check"} /\ (caller' # caller => caller = "asleep")
    BY <1>9, <2>4 DEF Pool!Finish, Pool!CallerWoken, PoolCounts
  <2>6. PoolCounts'
    BY <1>9, <2>3, <2>5 DEF Pool!Finish, PoolCounts, Pool!InCall
  <2>7. PoolJobs'
    BY <1>9 DEF Pool!Finish, PoolJobs
  <2>8. PoolRuns'
    BY <1>9, <2>2, <2>5 DEF Pool!Finish, PoolRuns, Pool!InCall
  <2>. QED
    BY <2>6, <2>7, <2>8
<1>10. CASE Pool!Spurious
  <2>1. Same
    BY <1>10 DEF Pool!Spurious, Owing, Unrun
  <2>2. PoolCounts' /\ PoolJobs'
    BY <1>10, <2>1 DEF Pool!Spurious, PoolCounts, PoolJobs, Pool!InCall
  <2>3. PoolRuns'
    BY <1>10, <2>1 DEF Pool!Spurious, PoolRuns, Pool!InCall
  <2>. QED
    BY <2>2, <2>3
<1>11. CASE UNCHANGED Pool!vars
  <2>1. Same
    BY <1>11 DEF Pool!vars, Owing, Unrun
  <2>. QED
    BY <1>11, <2>1 DEF Pool!vars, PoolCounts, PoolJobs, PoolRuns, Pool!InCall
<1>. QED
  BY <1>3, <1>4, <1>5, <1>6, <1>7, <1>8, <1>9, <1>10, <1>11 DEF Pool!Next


\* A step of DataPath is a step of the pool or leaves it alone.
LEMMA PoolSteps == [Next]_vars => [Pool!Next]_(Pool!vars)
  BY DEF Next, vars, InPool, InTiles, InCodec, InLz, InSealing, InFraming, poolVars, Pool!vars

\* The invariant of the pool holds in every behaviour of the composition.
LEMMA PoolKept == Init /\ [][Next]_vars => []PoolInv
<1>1. Init => PoolInv
  BY PoolStarts DEF Init
<1>2. PoolInv /\ [Next]_vars => PoolInv'
  <2>1. PoolInv /\ [Next]_vars => Pool!TypeOK'
    BY PoolSteps, PoolTypes
  <2>2. PoolInv /\ [Next]_vars => PoolCounts' /\ PoolJobs' /\ PoolRuns'
    BY PoolSteps, PoolOwing
  <2>. QED
    BY <2>1, <2>2 DEF PoolInv
<1>. QED
  BY <1>1, <1>2, PTL

\* worker_main, run_all: no worker runs a job whose closure is gone.
THEOREM ClosureIsAlive == FairSpec => []JobAlive
<1>1. FairSpec => Init /\ [][Next]_vars
  BY PTL DEF FairSpec
<1>2. PoolInv => JobAlive
  <2>. SUFFICES ASSUME PoolInv, NEW w \in Pool!Worker, pc[w] = "run"
                PROVE  Pool!InCall /\ myJob[w] = generation
    BY DEF JobAlive, Pool!JobAlive
  <2>1. w \in Owing
    BY DEF Owing
  <2>2. pending # 0
    BY <2>1, OwingFinite DEF PoolInv, PoolCounts
  <2>. QED
    BY <2>2 DEF PoolInv, PoolCounts, PoolJobs
<1>. QED
  BY <1>1, <1>2, PoolKept, PTL

\* What is left of a call: the caller's own share and what workers have to run.
StillToRun == Unrun \cup (IF caller \in {"notify", "own"} THEN {0} ELSE {})

\* RunAll's view of a call, from what is owed.
LEMMA LeftIs == PoolInv => Pool!Left = IF Pool!InCall THEN StillToRun ELSE {}
<1>. SUFFICES ASSUME PoolInv, Pool!InCall PROVE Pool!Left = StillToRun
  BY DEF Pool!Left
<1>1. Threads \in Nat /\ Pool!Worker = 1..Threads /\ Pool!Index = 0..Threads
  BY PoolAssumed DEF Pool!PoolAssumption, Pool!Worker, Pool!Index
<1>2. Pool!TypeOK /\ PoolRuns
  BY DEF PoolInv
<1>3. \A i \in Pool!Index : runs[i] < generation <=> i \in Unrun \/ (i = 0 /\ caller \in {"notify", "own"})
  <2>. TAKE i \in Pool!Index
  <2>1. CASE i = 0
    BY <1>1, <1>2, <2>1 DEF PoolRuns, Unrun, Pool!TypeOK
  <2>2. CASE i # 0
    BY <1>1, <1>2, <2>2 DEF PoolRuns, Pool!TypeOK
  <2>. QED
    BY <2>1, <2>2
<1>4. 0 \in Pool!Index /\ Unrun \subseteq Pool!Index
  BY <1>1 DEF Unrun
<1>. QED
  BY <1>3, <1>4 DEF Pool!Left, StillToRun

\* The same of the next state.
LEMMA LeftIsNext == PoolInv' => Pool!Left' = IF Pool!InCall' THEN StillToRun' ELSE {}
<1>. DEFINE P == PoolInv => Pool!Left = IF Pool!InCall THEN StillToRun ELSE {}
<1>1. P
  BY LeftIs
<1>2. P'
  <2>. HIDE DEF P
  <2>. QED
    BY <1>1, PTL
<1>. QED
  BY <1>2

\* Every step of the pool is a step of what run_all promises, or none of it.
LEMMA PoolRefines ==
  ASSUME PoolInv, PoolInv', [Pool!Next]_(Pool!vars)
  PROVE  [Pool!RA!RunNext]_(Pool!RA!runVars)
<1>1. /\ Threads \in Nat /\ Pool!Worker = 1..Threads /\ Pool!Index = 0..Threads
      /\ Pool!RA!Index = 0..Threads
  BY PoolAssumed DEF Pool!PoolAssumption, Pool!Worker, Pool!Index, Pool!RA!Index
<1>2. Pool!TypeOK /\ PoolCounts /\ PoolJobs /\ PoolRuns
  BY DEF PoolInv
<1>3. Pool!Left = (IF Pool!InCall THEN StillToRun ELSE {})
  BY LeftIs
<1>4. Pool!Left' = (IF Pool!InCall' THEN StillToRun' ELSE {})
  BY LeftIsNext
<1>. DEFINE Stays == UNCHANGED <<Pool!Phase, Pool!Left>>
<1>5. Stays => UNCHANGED Pool!RA!runVars
  BY DEF Pool!RA!runVars
<1>6. CASE Pool!Post
  <2>1. Owing = {}
    BY <1>2, <1>6, OwingFinite DEF Pool!Post, PoolCounts, Pool!InCall
  <2>2. \A w \in Pool!Worker : seen[w] = generation
    BY <2>1 DEF Owing
  <2>3. Unrun' = 1..Threads
    BY <1>1, <1>2, <1>6, <2>2 DEF Pool!Post, Unrun, Pool!TypeOK
  <2>4. Pool!Left' = 0..Threads
    BY <1>1, <1>4, <1>6, <2>3 DEF Pool!Post, Pool!InCall, StillToRun
  <2>5. Pool!Phase = "idle" /\ Pool!Phase' = "running"
    BY <1>6 DEF Pool!Post, Pool!Phase, Pool!InCall
  <2>. QED
    BY <1>1, <2>4, <2>5 DEF Pool!RA!RunNext, Pool!RA!Start
<1>7. CASE Pool!NotifyStart \/ Pool!NotifyQuit
  <2>1. Unrun' = Unrun
    BY <1>2, <1>7 DEF Pool!NotifyStart, Pool!NotifyQuit, Pool!Woken, Unrun, Pool!TypeOK
  <2>2. Stays
    BY <1>3, <1>4, <1>7, <2>1 DEF Pool!NotifyStart, Pool!NotifyQuit, Pool!InCall, StillToRun, Pool!Phase
  <2>. QED
    BY <1>5, <2>2
<1>8. CASE Pool!OwnShare
  <2>1. Unrun' = Unrun /\ 0 \notin Unrun
    BY <1>1, <1>8 DEF Pool!OwnShare, Unrun
  <2>2. Pool!Left = Unrun \cup {0} /\ Pool!Left' = Unrun
    BY <1>3, <1>4, <1>8, <2>1 DEF Pool!OwnShare, Pool!InCall, StillToRun
  <2>3. UNCHANGED Pool!Phase
    BY <1>8 DEF Pool!OwnShare, Pool!Phase, Pool!InCall
  <2>4. Pool!RA!Do(0)
    BY <2>1, <2>2, <2>3 DEF Pool!RA!Do
  <2>. QED
    BY <1>1, <2>4 DEF Pool!RA!RunNext
<1>9. CASE Pool!WaitDone
  <2>1. Unrun' = Unrun
    BY <1>9 DEF Pool!WaitDone, Unrun
  <2>2. CASE pending = 0
    <3>1. Unrun = {}
      BY <1>2, <2>2, OwingFinite DEF PoolCounts, Owing, Unrun
    <3>2. Pool!Left = {} /\ Pool!Left' = {} /\ Pool!Phase = "running" /\ Pool!Phase' = "idle"
      BY <1>3, <1>4, <1>9, <2>2, <3>1
         DEF Pool!WaitDone, Pool!AllDone, Pool!InCall, StillToRun, Pool!Phase
    <3>. QED
      BY <3>2 DEF Pool!RA!RunNext, Pool!RA!Return
  <2>3. CASE pending # 0
    <3>1. Stays
      BY <1>3, <1>4, <1>9, <2>1, <2>3
         DEF Pool!WaitDone, Pool!AllDone, Pool!InCall, StillToRun, Pool!Phase
    <3>. QED
      BY <1>5, <3>1
  <2>. QED
    BY <2>2, <2>3
<1>10. CASE Pool!Quit
  <2>1. Pool!Left = {} /\ Pool!Left' = {} /\ Pool!Phase = "idle" /\ Pool!Phase' = "gone"
    BY <1>3, <1>4, <1>10 DEF Pool!Quit, Pool!InCall, Pool!Phase
  <2>. QED
    BY <2>1 DEF Pool!RA!RunNext, Pool!RA!Stop
<1>11. CASE Pool!Join
  <2>1. Stays
    BY <1>3, <1>4, <1>11 DEF Pool!Join, Pool!InCall, Pool!Phase
  <2>. QED
    BY <1>5, <2>1
<1>12. ASSUME NEW w \in Pool!Worker, Pool!Take(w) PROVE Stays
  <2>1. Unrun' = Unrun
    BY <1>2, <1>12 DEF Pool!Take, Pool!SeenNow, Unrun, Pool!TypeOK
  <2>. QED
    BY <1>3, <1>4, <1>12, <2>1 DEF Pool!Take, Pool!InCall, StillToRun, Pool!Phase
<1>13. ASSUME NEW w \in Pool!Worker, Pool!Run(w) PROVE Pool!RA!RunNext
  <2>1. seen[w] = generation /\ w \in Owing
    BY <1>2, <1>13 DEF Pool!Run, PoolJobs, Owing
  <2>2. w \in Unrun /\ Unrun' = Unrun \ {w} /\ w # 0
    BY <1>1, <1>2, <1>13, <2>1 DEF Pool!Run, Unrun, Pool!TypeOK
  <2>3. pending # 0
    BY <1>2, <2>1, OwingFinite DEF PoolCounts
  <2>4. Pool!InCall /\ Pool!InCall' /\ UNCHANGED <<Pool!Phase, caller>>
    BY <1>2, <1>13, <2>3 DEF Pool!Run, PoolCounts, Pool!InCall, Pool!Phase
  <2>5. w \in Pool!Left /\ Pool!Left' = Pool!Left \ {w}
    BY <1>3, <1>4, <2>2, <2>4 DEF StillToRun
  <2>. QED
    BY <1>1, <2>4, <2>5 DEF Pool!RA!RunNext, Pool!RA!Do
<1>14. ASSUME NEW w \in Pool!Worker, Pool!Finish(w) PROVE Stays
  <2>1. Unrun' = Unrun
    BY <1>2, <1>14 DEF Pool!Finish, Unrun, Pool!TypeOK
  <2>. QED
    BY <1>3, <1>4, <1>14, <2>1 DEF Pool!Finish, Pool!CallerWoken, Pool!InCall, StillToRun, Pool!Phase
<1>15. CASE Pool!Spurious
  <2>1. Unrun' = Unrun
    BY <1>2, <1>15 DEF Pool!Spurious, Unrun, Pool!TypeOK
  <2>2. Stays
    BY <1>3, <1>4, <1>15, <2>1 DEF Pool!Spurious, Pool!InCall, StillToRun, Pool!Phase
  <2>. QED
    BY <1>5, <2>2
<1>16. CASE UNCHANGED Pool!vars
  <2>1. Stays
    BY <1>3, <1>4, <1>16 DEF Pool!vars, Pool!InCall, StillToRun, Pool!Phase, Unrun
  <2>. QED
    BY <1>5, <2>1
<1>. QED
  BY <1>5, <1>6, <1>7, <1>8, <1>9, <1>10, <1>11, <1>12, <1>13, <1>14, <1>15, <1>16 DEF Pool!Next

\* run_all (encoder.h: "Runs fn(worker_index) on every worker plus the calling
\* thread; returns when all have finished"): the pool implements that promise,
\* but for its liveness.
THEOREM PoolImplementsRunAll == FairSpec => Pool!RA!RunSafe
<1>1. FairSpec => Init /\ [][Next]_vars
  BY PTL DEF FairSpec
<1>2. Init => Pool!RA!RunInit
  BY DEF Init, Pool!Init, Pool!RA!RunInit, Pool!Phase, Pool!Left, Pool!InCall
<1>3. PoolInv /\ PoolInv' /\ [Next]_vars => [Pool!RA!RunNext]_(Pool!RA!runVars)
  BY PoolSteps, PoolRefines
<1>. QED
  BY <1>1, <1>2, <1>3, PoolKept, PTL DEF Pool!RA!RunSafe


-----------------------------------------------------------------------------
(* The tiles (TileEncoder).                                                *)

\* Every set of numbers that is not empty has a least element.
LEMMA LeastElement ==
  ASSUME NEW S, S \subseteq Nat, S # {}
  PROVE  Tiles!Min(S) \in S /\ \A y \in S : Tiles!Min(S) <= y
<1>1. \E x \in S : \A y \in S : x <= y
  <2>1. PICK x \in S : \A y \in Nat : <<y, x>> \in OpToRel(<, Nat) => y \notin S
    BY NatLessThanWellFounded, WFMin
  <2>2. \A y \in S : ~(y < x)
    BY <2>1 DEF OpToRel
  <2>. QED
    BY <2>2
<1>. QED
  BY <1>1 DEF Tiles!Min

TileRecord == [tile : Tiles!Tile, color : Color, q : Nat]

TilesTypes ==
  /\ phase \in {"idle", "running", "gone"} /\ left \in SUBSET Tiles!Index
  /\ {frame, shadow} \subseteq [Tiles!Tile -> Color] /\ tileQ \in [Tiles!Tile -> Nat]
  /\ {next, refines, refined, quality, budget} \subseteq Nat /\ full \in BOOLEAN
  /\ span \in [Tiles!Index -> SUBSET Tiles!Tile]
  /\ scratch \in [Tiles!Index -> Seq(TileRecord)]

\* A tile was taken from the counter by one thread, and is in its hands until
\* that thread has handled it.
TilesTaken ==
  /\ phase # "running" => left = {}
  /\ \A i \in Tiles!Index : span[i] # {} => i \in left
  /\ \A i \in Tiles!Index : \A k \in span[i] : k < next
  /\ \A i \in Tiles!Index : \A n \in 1..Len(scratch[i]) : scratch[i][n].tile < next
  /\ \A i, j \in Tiles!Index : i # j => span[i] \cap span[j] = {}
  /\ \A i, j \in Tiles!Index : \A n \in 1..Len(scratch[i]) : scratch[i][n].tile \notin span[j]

\* The counter starts at the first tile, with nothing taken.
LEMMA TilesStart == Tiles!Init => TilesTypes /\ TilesTaken
<1>. SUFFICES ASSUME Tiles!Init PROVE TilesTypes /\ TilesTaken
  OBVIOUS
<1>1. phase = "idle" /\ left = {} /\ full \in BOOLEAN
  BY DEF Tiles!Init, Tiles!RunInit
<1>2. /\ {frame, shadow} \subseteq [Tiles!Tile -> Color] /\ tileQ \in [Tiles!Tile -> Nat]
      /\ {next, refines, refined, quality, budget} \subseteq Nat
  BY DEF Tiles!Init
<1>3. span = [i \in Tiles!Index |-> {}] /\ scratch = [i \in Tiles!Index |-> <<>>]
  BY DEF Tiles!Init
<1>4. <<>> \in Seq(TileRecord)
  OBVIOUS
<1>5. TilesTypes
  BY <1>1, <1>2, <1>3, <1>4 DEF TilesTypes
<1>6. TilesTaken
  BY <1>1, <1>3 DEF TilesTaken
<1>. QED
  BY <1>5, <1>6

\* Types are kept.
LEMMA TilesTyped ==
  ASSUME TilesTypes, [Tiles!Next]_(Tiles!vars)
  PROVE  TilesTypes'
<1>1. CASE Tiles!Begin
  <2>1. phase' \in {"idle", "running", "gone"} /\ left' \in SUBSET Tiles!Index /\ full' \in BOOLEAN
    BY <1>1 DEF TilesTypes, Tiles!Begin, Tiles!Start
  <2>2. /\ {frame', shadow'} \subseteq [Tiles!Tile -> Color] /\ tileQ' \in [Tiles!Tile -> Nat]
        /\ {next', refines', refined'} \subseteq Nat
    BY <1>1 DEF TilesTypes, Tiles!Begin
  <2>3. {quality', budget'} \subseteq Nat
    BY <1>1, TilesAssumed DEF Tiles!Begin, Tiles!EncoderAssumption
  <2>4. span' \in [Tiles!Index -> SUBSET Tiles!Tile]
    BY <1>1 DEF TilesTypes, Tiles!Begin
  <2>5. scratch' \in [Tiles!Index -> Seq(TileRecord)]
    BY <1>1 DEF Tiles!Begin
  <2>. QED
    BY <2>1, <2>2, <2>3, <2>4, <2>5 DEF TilesTypes
<1>2. ASSUME NEW i \in Tiles!Index, Tiles!Grab(i) PROVE TilesTypes'
  <2>1. Chunk \in Nat
    BY TilesAssumed DEF Tiles!EncoderAssumption
  <2>2. next' \in Nat
    BY <1>2, <2>1 DEF TilesTypes, Tiles!Grab, Tiles!Advance
  <2>3. span' \in [Tiles!Index -> SUBSET Tiles!Tile]
    BY <1>2 DEF TilesTypes, Tiles!Grab, Tiles!TakenFrom
  <2>4. phase' = phase /\ left' \in SUBSET Tiles!Index
    BY <1>2 DEF TilesTypes, Tiles!Grab, Tiles!Do
  <2>5. UNCHANGED <<frame, shadow, tileQ, refines, refined, quality, budget, full, scratch>>
    BY <1>2 DEF Tiles!Grab, Tiles!call
  <2>. QED
    BY <2>2, <2>3, <2>4, <2>5 DEF TilesTypes
<1>3. ASSUME NEW i \in Tiles!Index, Tiles!Handle(i) PROVE TilesTypes'
  <2>. DEFINE k == Tiles!Min(span[i])
  <2>1. k \in Tiles!Tile
    <3>1. span[i] \subseteq Tiles!Tile /\ span[i] # {} /\ span[i] \subseteq Nat
      BY <1>3 DEF Tiles!Handle, TilesTypes, Tiles!Tile
    <3>. QED
      BY <3>1, LeastElement
  <2>. HIDE DEF k
  <2>2. span' = [span EXCEPT ![i] = span[i] \ {k}]
    BY <1>3 DEF Tiles!Handle, k
  <2>3. UNCHANGED <<phase, left, frame, next, full, quality, budget>>
    BY <1>3 DEF Tiles!Handle, Tiles!call
  <2>4. span' \in [Tiles!Index -> SUBSET Tiles!Tile]
    BY <2>2 DEF TilesTypes
  <2>5. shadow' \in [Tiles!Tile -> Color]
    BY <1>3, <2>1 DEF TilesTypes, Tiles!Handle, k
  <2>6. {refines', refined'} \subseteq Nat
    BY <1>3 DEF TilesTypes, Tiles!Handle
  <2>7. \/ UNCHANGED <<tileQ, scratch>>
        \/ \E q \in Nat : Tiles!Emit(i, k, q)
    <3>1. quality \in Nat /\ 0 \in Nat
      BY DEF TilesTypes
    <3>. QED
      BY <1>3, <3>1 DEF Tiles!Handle, k
  <2>8. tileQ' \in [Tiles!Tile -> Nat] /\ scratch' \in [Tiles!Index -> Seq(TileRecord)]
    <3>1. CASE UNCHANGED <<tileQ, scratch>>
      BY <3>1 DEF TilesTypes
    <3>2. ASSUME NEW q \in Nat, Tiles!Emit(i, k, q)
          PROVE  tileQ' \in [Tiles!Tile -> Nat] /\ scratch' \in [Tiles!Index -> Seq(TileRecord)]
      <4>1. Tiles!Record(k, q) \in TileRecord
        BY <2>1 DEF Tiles!Record, TileRecord, TilesTypes
      <4>2. Append(scratch[i], Tiles!Record(k, q)) \in Seq(TileRecord)
        BY <4>1 DEF TilesTypes
      <4>3. scratch' \in [Tiles!Index -> Seq(TileRecord)]
        BY <3>2, <4>2 DEF Tiles!Emit, TilesTypes
      <4>4. tileQ' \in [Tiles!Tile -> Nat]
        BY <2>1, <3>2 DEF Tiles!Emit, Tiles!RememberQuality, TilesTypes
      <4>. QED
        BY <4>3, <4>4
    <3>. QED
      BY <2>7, <3>1, <3>2
  <2>. QED
    BY <2>3, <2>4, <2>5, <2>6, <2>8 DEF TilesTypes
<1>4. CASE Tiles!Merge
  BY <1>4 DEF TilesTypes, Tiles!Merge, Tiles!Return, Tiles!call
<1>5. CASE Tiles!Gone
  BY <1>5 DEF TilesTypes, Tiles!Gone, Tiles!Stop, Tiles!encVars
<1>6. CASE UNCHANGED Tiles!vars
  BY <1>6 DEF TilesTypes, Tiles!vars
<1>. QED
  BY <1>1, <1>2, <1>3, <1>4, <1>5, <1>6 DEF Tiles!Next

\* What a thread takes no other has, and what it handled is gone from its hands.
LEMMA TilesKeptApart ==
  ASSUME TilesTypes, TilesTaken, [Tiles!Next]_(Tiles!vars)
  PROVE  TilesTaken'
<1>1. CASE Tiles!Begin
  <2>1. phase' = "running" /\ \A i \in Tiles!Index : span'[i] = {} /\ scratch'[i] = <<>>
    BY <1>1 DEF TilesTaken, Tiles!Begin, Tiles!Start
  <2>. QED
    BY <2>1 DEF TilesTaken
<1>2. ASSUME NEW i \in Tiles!Index, Tiles!Grab(i) PROVE TilesTaken'
  <2>1. Chunk \in Nat /\ next \in Nat /\ next' = next + Chunk
    BY <1>2, TilesAssumed DEF Tiles!EncoderAssumption, Tiles!Grab, Tiles!Advance, TilesTypes
  <2>2. span[i] = {} /\ i \in left /\ UNCHANGED <<scratch, phase>>
    BY <1>2 DEF Tiles!Grab, Tiles!Do
  <2>3. CASE next < Total
    <3>1. left' = left /\ span' = [span EXCEPT ![i] = Tiles!TakenFrom(next)]
      BY <1>2, <2>3 DEF Tiles!Grab
    <3>2. \A k \in span'[i] : k \in Nat /\ next <= k /\ k < next'
      BY <2>1, <3>1 DEF Tiles!TakenFrom, Tiles!Tile, TilesTypes
    <3>3. \A j \in Tiles!Index : j # i => span'[j] = span[j]
      BY <3>1 DEF TilesTypes
    <3>4. \A j \in Tiles!Index : \A k \in span[j] : k \in Nat /\ k < next
      BY DEF TilesTypes, TilesTaken, Tiles!Tile
    <3>5. \A j \in Tiles!Index : \A n \in 1..Len(scratch[j]) :
            scratch[j][n].tile \in Nat /\ scratch[j][n].tile < next
      <4>1. \A j \in Tiles!Index : \A n \in 1..Len(scratch[j]) : scratch[j][n] \in TileRecord
        BY DEF TilesTypes
      <4>. QED
        BY <4>1 DEF TilesTaken, TileRecord, Tiles!Tile
    <3>6. phase' # "running" => left' = {}
      BY <2>2, <3>1 DEF TilesTaken
    <3>7. \A j \in Tiles!Index : span'[j] # {} => j \in left'
      BY <2>2, <3>1, <3>3 DEF TilesTaken
    <3>8. \A j \in Tiles!Index : \A k \in span'[j] : k < next'
      BY <2>1, <3>2, <3>3, <3>4
    <3>9. \A j \in Tiles!Index : \A n \in 1..Len(scratch'[j]) : scratch'[j][n].tile < next'
      BY <2>1, <2>2, <3>5
    <3>10. \A j, h \in Tiles!Index : j # h => span'[j] \cap span'[h] = {}
      <4>1. \A h \in Tiles!Index : h # i => span'[i] \cap span'[h] = {}
        BY <2>1, <3>2, <3>3, <3>4
      <4>2. \A j, h \in Tiles!Index : j # h => span[j] \cap span[h] = {}
        BY DEF TilesTaken
      <4>. QED
        BY <3>3, <4>1, <4>2
    <3>11. \A j, h \in Tiles!Index : \A n \in 1..Len(scratch'[j]) : scratch'[j][n].tile \notin span'[h]
      <4>1. \A j \in Tiles!Index : \A n \in 1..Len(scratch[j]) : scratch[j][n].tile \notin span'[i]
        BY <2>1, <3>2, <3>5
      <4>2. \A j, h \in Tiles!Index : \A n \in 1..Len(scratch[j]) : scratch[j][n].tile \notin span[h]
        BY DEF TilesTaken
      <4>. QED
        BY <2>2, <3>3, <4>1, <4>2
    <3>. QED
      BY <3>6, <3>7, <3>8, <3>9, <3>10, <3>11 DEF TilesTaken
  <2>4. CASE ~(next < Total)
    <3>1. left' = left \ {i} /\ span' = span
      BY <1>2, <2>4 DEF Tiles!Grab, Tiles!Do
    <3>2. \A j \in Tiles!Index : \A k \in span[j] : k \in Nat /\ k < next'
      BY <2>1 DEF TilesTypes, TilesTaken, Tiles!Tile
    <3>3. \A j \in Tiles!Index : \A n \in 1..Len(scratch[j]) : scratch[j][n].tile < next'
      <4>1. \A j \in Tiles!Index : \A n \in 1..Len(scratch[j]) : scratch[j][n] \in TileRecord
        BY DEF TilesTypes
      <4>. QED
        BY <2>1, <4>1 DEF TilesTaken, TileRecord, Tiles!Tile
    <3>. QED
      BY <2>2, <3>1, <3>2, <3>3 DEF TilesTaken
  <2>. QED
    BY <2>3, <2>4
<1>3. ASSUME NEW i \in Tiles!Index, Tiles!Handle(i) PROVE TilesTaken'
  <2>1. PICK k \in span[i] : k = Tiles!Min(span[i])
    <3>1. span[i] # {} /\ span[i] \subseteq Nat
      BY <1>3 DEF Tiles!Handle, TilesTypes, Tiles!Tile
    <3>. QED
      BY <3>1, LeastElement
  <2>2. span' = [span EXCEPT ![i] = span[i] \ {k}]
    BY <1>3, <2>1 DEF Tiles!Handle
  <2>3. UNCHANGED <<phase, left, next>>
    BY <1>3 DEF Tiles!Handle
  <2>4. scratch' = scratch \/ \E q : scratch' = [scratch EXCEPT ![i] = Append(scratch[i], Tiles!Record(k, q))]
    BY <1>3, <2>1 DEF Tiles!Handle, Tiles!Emit
  <2>5. \A j \in Tiles!Index : \A n \in 1..Len(scratch'[j]) :
          \/ n \in 1..Len(scratch[j]) /\ scratch'[j][n] = scratch[j][n]
          \/ j = i /\ scratch'[j][n].tile = k
    <3>1. CASE scratch' = scratch
      BY <3>1
    <3>2. ASSUME NEW q, scratch' = [scratch EXCEPT ![i] = Append(scratch[i], Tiles!Record(k, q))],
                 NEW j \in Tiles!Index, NEW n \in 1..Len(scratch'[j])
          PROVE  \/ n \in 1..Len(scratch[j]) /\ scratch'[j][n] = scratch[j][n]
                 \/ j = i /\ scratch'[j][n].tile = k
      <4>1. scratch[j] \in Seq(TileRecord)
        BY DEF TilesTypes
      <4>2. CASE j # i
        BY <3>2, <4>2
      <4>3. CASE j = i
        <5>1. scratch'[j] = Append(scratch[j], Tiles!Record(k, q))
          BY <3>2, <4>3 DEF TilesTypes
        <5>2. Tiles!Record(k, q).tile = k
          BY DEF Tiles!Record
        <5>. QED
          BY <4>1, <4>3, <5>1, <5>2
      <4>. QED
        BY <4>2, <4>3
    <3>. QED
      BY <2>4, <3>1, <3>2
  <2>6. \A j \in Tiles!Index : span'[j] \subseteq span[j] /\ (j = i => k \notin span'[j])
    BY <2>2 DEF TilesTypes
  <2>7. \A j \in Tiles!Index : k \in span[j] => j = i
    BY <2>1 DEF TilesTaken
  <2>8. k < next
    BY <2>1 DEF TilesTaken
  <2>9. \A j \in Tiles!Index : \A n \in 1..Len(scratch'[j]) : scratch'[j][n].tile < next'
    BY <2>3, <2>5, <2>8 DEF TilesTaken
  <2>10. \A j, h \in Tiles!Index : \A n \in 1..Len(scratch'[j]) : scratch'[j][n].tile \notin span'[h]
    BY <2>5, <2>6, <2>7 DEF TilesTaken
  <2>11. \A j, h \in Tiles!Index : j # h => span'[j] \cap span'[h] = {}
    BY <2>6 DEF TilesTaken
  <2>12. \A j \in Tiles!Index : span'[j] # {} => j \in left'
    BY <2>3, <2>6 DEF TilesTaken
  <2>13. \A j \in Tiles!Index : \A h \in span'[j] : h < next'
    BY <2>3, <2>6 DEF TilesTaken
  <2>14. phase' # "running" => left' = {}
    BY <2>3 DEF TilesTaken
  <2>. QED
    BY <2>9, <2>10, <2>11, <2>12, <2>13, <2>14 DEF TilesTaken
<1>4. CASE Tiles!Merge
  BY <1>4 DEF TilesTaken, Tiles!Merge, Tiles!Return
<1>5. CASE Tiles!Gone
  BY <1>5 DEF TilesTaken, Tiles!Gone, Tiles!Stop, Tiles!encVars
<1>6. CASE UNCHANGED Tiles!vars
  BY <1>6 DEF TilesTaken, Tiles!vars
<1>. QED
  BY <1>1, <1>2, <1>3, <1>4, <1>5, <1>6 DEF Tiles!Next

\* A step of DataPath is a step of the encoder or leaves it alone.
LEMMA TilesSteps == [Next]_vars => [Tiles!Next]_(Tiles!vars)
  BY DEF Next, vars, InPool, InTiles, InCodec, InLz, InSealing, InFraming, tilesVars, Tiles!vars

\* FrameEncoder::encode: the threads, which share shadow, tile_q and the frame
\* without a lock, never have a tile in common.
THEOREM TilesAreApart == FairSpec => []NoSharedTile
<1>1. FairSpec => Init /\ [][Next]_vars
  BY PTL DEF FairSpec
<1>2. Init => TilesTypes /\ TilesTaken
  BY TilesStart DEF Init
<1>3. TilesTypes /\ TilesTaken /\ [Next]_vars => TilesTypes' /\ TilesTaken'
  BY TilesSteps, TilesTyped, TilesKeptApart
<1>4. TilesTypes /\ TilesTaken => NoSharedTile
  <2>. SUFFICES ASSUME TilesTypes, TilesTaken PROVE NoSharedTile
    OBVIOUS
  <2>1. \A i \in Tiles!Index : DOMAIN scratch[i] = 1..Len(scratch[i])
    BY DEF TilesTypes
  <2>. QED
    BY <2>1 DEF TilesTaken, NoSharedTile, Tiles!NoSharedTile
<1>. QED
  BY <1>1, <1>2, <1>3, <1>4, PTL


\* The members of a sequence.
Among(w) == {w[n] : n \in 1..Len(w)}

\* FlattenSeq joins the parts one after another.
LEMMA Flattened ==
  ASSUME NEW T, NEW s \in Seq(Seq(T)), Len(s) > 0
  PROVE  \E c : /\ Tiles!FlattenSeq(s) = c[Len(s)]
                /\ \A n \in 1..Len(s) : c[n] = IF n = 1 THEN s[n] ELSE c[n - 1] \o s[n]
<1>. DEFINE M == Len(s)
            F(f, m) == f = [i \in 1..m |-> IF i = 1 THEN s[i] ELSE f[i - 1] \o s[i]]
            Bad == {m \in Nat : ~\E f : F(f, m)}
<1>0. M \in Nat /\ M # 0
  OBVIOUS
<1>1. Bad = {}
  <2>1. SUFFICES ASSUME Bad # {} PROVE FALSE
    OBVIOUS
  <2>2. PICK m \in Bad : \A i \in Bad : m <= i
    <3>1. Bad \subseteq Nat
      OBVIOUS
    <3>. HIDE DEF Bad
    <3>2. Tiles!Min(Bad) \in Bad /\ \A i \in Bad : Tiles!Min(Bad) <= i
      BY <2>1, <3>1, LeastElement
    <3>. QED
      BY <3>2
  <2>3. m \in Nat /\ ~\E f : F(f, m)
    <3>. HIDE DEF F
    <3>. QED
      OBVIOUS
  <2>4. CASE m = 0
    <3>1. PICK f : f = [i \in {} |-> s]
      OBVIOUS
    <3>2. 1..m = {}
      BY <2>4
    <3>3. F(f, m)
      BY <3>1, <3>2
    <3>. HIDE DEF F
    <3>. QED
      BY <2>3, <3>3
  <2>5. CASE m # 0
    <3>1. m - 1 \in Nat /\ ~(m <= m - 1)
      BY <2>3, <2>5
    <3>2. PICK g : F(g, m - 1)
      <4>1. m - 1 \notin Bad
        BY <2>2, <3>1
      <4>. HIDE DEF F
      <4>. QED
        BY <3>1, <4>1
    <3>3. \A i \in 1..(m - 1) : g[i] = IF i = 1 THEN s[i] ELSE g[i - 1] \o s[i]
      BY <3>2
    <3>4. PICK f : f = [i \in 1..m |-> IF i < m THEN g[i] ELSE IF i = 1 THEN s[i] ELSE g[i - 1] \o s[i]]
      OBVIOUS
    <3>5. ASSUME NEW i \in 1..m
          PROVE  f[i] = IF i = 1 THEN s[i] ELSE f[i - 1] \o s[i]
      <4>1. i # 1 => i - 1 \in 1..m /\ i - 1 < m
        BY <2>3
      <4>2. i # 1 => f[i - 1] = g[i - 1]
        BY <3>4, <4>1
      <4>3. CASE i < m
        <5>1. i \in 1..(m - 1)
          BY <2>3, <4>3
        <5>2. f[i] = g[i]
          BY <3>4, <4>3
        <5>. QED
          BY <3>3, <4>2, <5>1, <5>2
      <4>4. CASE ~(i < m)
        <5>1. f[i] = IF i = 1 THEN s[i] ELSE g[i - 1] \o s[i]
          BY <3>4, <4>4
        <5>. QED
          BY <4>2, <5>1
      <4>. QED
        BY <4>3, <4>4
    <3>6. f = [i \in 1..m |-> f[i]]
      BY <3>4
    <3>7. F(f, m)
      BY <3>5, <3>6
    <3>. HIDE DEF F
    <3>. QED
      BY <2>3, <3>7
  <2>. QED
    BY <2>4, <2>5
<1>2. PICK c : c = CHOOSE f : F(f, M)
  OBVIOUS
<1>3. F(c, M)
  <2>1. \E f : F(f, M)
    <3>. HIDE DEF F, M
    <3>. QED
      BY <1>0, <1>1
  <2>. HIDE DEF F
  <2>. QED
    BY <1>2, <2>1
<1>4. Tiles!FlattenSeq(s) = c[M]
  <2>1. Tiles!FlattenSeq(s) = (CHOOSE f : F(f, M))[M]
    BY <1>0 DEF Tiles!FlattenSeq
  <2>. HIDE DEF F
  <2>. QED
    BY <1>2, <2>1
<1>5. \A n \in 1..M : c[n] = IF n = 1 THEN s[n] ELSE c[n - 1] \o s[n]
  BY <1>3
<1>. QED
  BY <1>4, <1>5

\* No tile twice in a sequence of records.
Once(w) == \A m, n \in 1..Len(w) : w[m].tile = w[n].tile => m = n

\* The records of all threads, and the tiles they are of.
Records == UNION {Among(scratch[i]) : i \in Tiles!Index}
SentTiles == {r.tile : r \in Records}

TilesOnce ==
  /\ \A i \in Tiles!Index : Once(scratch[i])
  /\ \A i, j \in Tiles!Index : \A r \in Among(scratch[i]), t \in Among(scratch[j]) : r.tile = t.tile => i = j

\* Joining sequences that share no tile.
LEMMA JoinOnce ==
  ASSUME NEW T, NEW v \in Seq(T), NEW w \in Seq(T), Once(v), Once(w),
         \A r \in Among(v), t \in Among(w) : r.tile # t.tile
  PROVE  /\ v \o w \in Seq(T) /\ Among(v \o w) = Among(v) \cup Among(w)
         /\ Once(v \o w)
<1>. DEFINE x == v \o w
<1>1. /\ Len(v) \in Nat /\ Len(w) \in Nat /\ Len(x) = Len(v) + Len(w) /\ x \in Seq(T)
      /\ \A n \in 1..Len(x) : x[n] = IF n <= Len(v) THEN v[n] ELSE w[n - Len(v)]
  OBVIOUS
<1>. HIDE DEF x
<1>2. \A n \in 1..Len(x) : \/ n \in 1..Len(v) /\ x[n] = v[n]
                           \/ n - Len(v) \in 1..Len(w) /\ x[n] = w[n - Len(v)]
  BY <1>1
<1>3. Among(x) \subseteq Among(v) \cup Among(w)
  BY <1>2 DEF Among
<1>4. Among(v) \subseteq Among(x)
  BY <1>1 DEF Among
<1>5. Among(w) \subseteq Among(x)
  <2>. SUFFICES ASSUME NEW n \in 1..Len(w) PROVE w[n] \in Among(x)
    BY DEF Among
  <2>1. PICK m \in Nat : m = n + Len(v)
    BY <1>1
  <2>2. m \in 1..Len(x) /\ ~(m <= Len(v)) /\ m - Len(v) = n
    BY <1>1, <2>1
  <2>3. x[m] = w[n]
    BY <1>1, <2>2
  <2>. QED
    BY <2>2, <2>3 DEF Among
<1>6. Once(x)
  <2>. SUFFICES ASSUME NEW m \in 1..Len(x), NEW n \in 1..Len(x), x[m].tile = x[n].tile PROVE m = n
    BY DEF Once
  <2>1. m \in Nat /\ n \in Nat
    BY <1>1
  <2>2. CASE m \in 1..Len(v) /\ x[m] = v[m] /\ n \in 1..Len(v) /\ x[n] = v[n]
    BY <2>2 DEF Once
  <2>3. CASE m - Len(v) \in 1..Len(w) /\ x[m] = w[m - Len(v)] /\ n - Len(v) \in 1..Len(w) /\ x[n] = w[n - Len(v)]
    <3>1. m - Len(v) = n - Len(v)
      BY <2>3 DEF Once
    <3>. QED
      BY <1>1, <2>1, <3>1
  <2>4. CASE m \in 1..Len(v) /\ x[m] = v[m] /\ n - Len(v) \in 1..Len(w) /\ x[n] = w[n - Len(v)]
    BY <2>4 DEF Among
  <2>5. CASE m - Len(v) \in 1..Len(w) /\ x[m] = w[m - Len(v)] /\ n \in 1..Len(v) /\ x[n] = v[n]
    BY <2>5 DEF Among
  <2>. QED
    BY <1>2, <2>2, <2>3, <2>4, <2>5
<1>. QED
  BY <1>1, <1>3, <1>4, <1>5, <1>6 DEF x

\* The message is what the threads wrote, with no tile twice.
LEMMA MessageIs ==
  ASSUME TilesTypes, TilesOnce
  PROVE  /\ Tiles!Message \in Seq(TileRecord) /\ Among(Tiles!Message) = Records
         /\ Once(Tiles!Message)
<1>1. N \in Nat /\ Tiles!Index = 0..N
  BY TilesAssumed DEF Tiles!EncoderAssumption, Tiles!WorkersAssumption, Tiles!Index
<1>2. PICK s : s = [n \in 1..(N + 1) |-> scratch[n - 1]]
  OBVIOUS
<1>3. \A n \in 1..(N + 1) : n - 1 \in Tiles!Index /\ s[n] = scratch[n - 1] /\ s[n] \in Seq(TileRecord)
  <2>. SUFFICES ASSUME NEW n \in 1..(N + 1)
                PROVE  n - 1 \in Tiles!Index /\ s[n] = scratch[n - 1] /\ s[n] \in Seq(TileRecord)
    OBVIOUS
  <2>1. n - 1 \in Tiles!Index /\ s[n] = scratch[n - 1]
    BY <1>1, <1>2
  <2>. QED
    BY <2>1 DEF TilesTypes
<1>4. s \in Seq(Seq(TileRecord)) /\ Len(s) = N + 1 /\ Len(s) > 0
  <2>1. s \in [1..(N + 1) -> Seq(TileRecord)]
    BY <1>2, <1>3
  <2>. QED
    BY <1>1, <2>1
<1>5. PICK c : /\ Tiles!FlattenSeq(s) = c[N + 1]
               /\ \A n \in 1..(N + 1) : c[n] = IF n = 1 THEN s[n] ELSE c[n - 1] \o s[n]
  <2>1. PICK c : /\ Tiles!FlattenSeq(s) = c[Len(s)]
                 /\ \A n \in 1..Len(s) : c[n] = IF n = 1 THEN s[n] ELSE c[n - 1] \o s[n]
    <3>. HIDE DEF TileRecord
    <3>1. s \in Seq(Seq(TileRecord)) /\ Len(s) > 0
      BY <1>4
    <3>. QED
      BY <3>1, Flattened
  <2>. QED
    BY <1>4, <2>1
<1>6. Tiles!Message = c[N + 1]
  BY <1>2, <1>5 DEF Tiles!Message
<1>. DEFINE Good(n) == /\ c[n] \in Seq(TileRecord) /\ Once(c[n])
                       /\ \A r : r \in Among(c[n]) <=> \E m \in 1..n : r \in Among(s[m])
            Bad == {n \in 1..(N + 1) : ~Good(n)}
<1>7. Bad = {}
  <2>1. SUFFICES ASSUME Bad # {} PROVE FALSE
    OBVIOUS
  <2>2. PICK n \in 1..(N + 1) : ~Good(n) /\ \A m \in Bad : n <= m
    <3>1. Bad \subseteq Nat
      BY <1>1
    <3>2. Tiles!Min(Bad) \in Bad /\ \A m \in Bad : Tiles!Min(Bad) <= m
      <4>. HIDE DEF Bad
      <4>. QED
        BY <2>1, <3>1, LeastElement
    <3>. HIDE DEF Good
    <3>. QED
      BY <3>2
  <2>3. s[n] \in Seq(TileRecord) /\ Once(s[n])
    BY <1>3 DEF TilesOnce
  <2>4. CASE n = 1
    <3>1. c[n] = s[n] /\ 1..n = {n}
      BY <1>5, <2>4
    <3>2. Good(n)
      BY <2>3, <3>1
    <3>. HIDE DEF Good
    <3>. QED
      BY <2>2, <3>2
  <2>5. CASE n # 1
    <3>1. PICK p \in 1..(N + 1) : p = n - 1
      BY <1>1, <2>5
    <3>2. c[n] = c[p] \o s[n]
      BY <1>5, <2>5, <3>1
    <3>7. ~(n <= p) /\ 1..n = (1..p) \cup {n}
      BY <1>1, <3>1
    <3>3. Good(p)
      <4>. HIDE DEF Good
      <4>. QED
        BY <2>2, <3>7
    <3>4. \A r \in Among(c[p]), t \in Among(s[n]) : r.tile # t.tile
      <4>. SUFFICES ASSUME NEW m \in 1..p, NEW r \in Among(s[m]), NEW t \in Among(s[n]), r.tile = t.tile
                    PROVE  FALSE
        BY <3>3
      <4>1. m \in 1..(N + 1) /\ m - 1 # n - 1
        BY <1>1, <3>1
      <4>2. r \in Among(scratch[m - 1]) /\ t \in Among(scratch[n - 1]) /\ m - 1 \in Tiles!Index /\ n - 1 \in Tiles!Index
        BY <1>3, <4>1
      <4>. QED
        BY <4>1, <4>2 DEF TilesOnce
    <3>5. /\ c[p] \o s[n] \in Seq(TileRecord) /\ Once(c[p] \o s[n])
          /\ Among(c[p] \o s[n]) = Among(c[p]) \cup Among(s[n])
      <4>1. c[p] \in Seq(TileRecord) /\ Once(c[p])
        BY <3>3
      <4>. HIDE DEF Good
      <4>. QED
        BY <2>3, <3>4, <4>1, JoinOnce
    <3>6. \A r : r \in Among(c[n]) <=> \E m \in 1..n : r \in Among(s[m])
      <4>1. \A r : r \in Among(c[p]) <=> \E m \in 1..p : r \in Among(s[m])
        BY <3>3
      <4>2. \A m : m \in 1..n <=> m \in 1..p \/ m = n
        BY <3>7
      <4>. HIDE DEF Good
      <4>. QED
        BY <3>2, <3>5, <4>1, <4>2
    <3>8. Good(n)
      BY <3>2, <3>5, <3>6
    <3>. HIDE DEF Good
    <3>. QED
      BY <2>2, <3>8
  <2>. QED
    BY <2>4, <2>5
<1>8. Good(N + 1)
  <2>. HIDE DEF Good
  <2>. QED
    BY <1>1, <1>7
<1>9. Among(c[N + 1]) = Records
  <2>1. \A i \in Tiles!Index : i + 1 \in 1..(N + 1) /\ (i + 1) - 1 = i
    BY <1>1
  <2>2. \A i \in Tiles!Index : s[i + 1] = scratch[i]
    BY <1>3, <2>1
  <2>3. \A r : r \in Among(c[N + 1]) <=> \E m \in 1..(N + 1) : r \in Among(s[m])
    BY <1>8
  <2>4. \A r : r \in Records <=> \E i \in Tiles!Index : r \in Among(scratch[i])
    BY DEF Records
  <2>. HIDE DEF Good
  <2>. QED
    BY <1>3, <2>1, <2>2, <2>3, <2>4, ZenonT(40)
<1>. QED
  BY <1>6, <1>8, <1>9

\* Tiles that a thread took from the counter and handled.
Handled == {k \in Tiles!Tile : k < next /\ \A i \in Tiles!Index : k \notin span[i]}

\* What a call has done so far: what is changed, sent and counted is so for the
\* tiles handled, and a thread leaves when no tile is left to take.
TilesCall ==
  /\ \A k \in Tiles!Tile : screen[k] = [color |-> before.shadow[k], q |-> before.tileQ[k]]
  /\ \A i \in Tiles!Index : i \notin left => next >= Total
  /\ \A r \in Records :
       /\ r.tile \in Handled /\ r.tile \in Tiles!Changed \cup Tiles!Candidates
       /\ r.color = shadow[r.tile] /\ r.q = tileQ[r.tile]
       /\ r.q = IF r.tile \in Tiles!Changed THEN quality ELSE 0
  /\ \A k \in Tiles!Tile : k \notin SentTiles => shadow[k] = before.shadow[k] /\ tileQ[k] = before.tileQ[k]
  /\ Tiles!Changed \cap Handled \subseteq SentTiles
  /\ refines = Cardinality(Tiles!Candidates \cap Handled)
  /\ refined = Cardinality(SentTiles \ Tiles!Changed)
  /\ refined = IF refines <= budget THEN refines ELSE budget

TilesOwed ==
  /\ before \in [shadow : [Tiles!Tile -> Color], tileQ : [Tiles!Tile -> Nat]]
  /\ TilesOnce
  /\ phase = "idle" => \A k \in Tiles!Tile : screen[k] = [color |-> shadow[k], q |-> tileQ[k]]
  /\ phase = "running" => TilesCall

\* The records in a thread's scratch, from those of tiles.
LEMMA RecordsTyped ==
  ASSUME TilesTypes
  PROVE  Records \subseteq TileRecord /\ SentTiles \subseteq Tiles!Tile
<1>1. \A i \in Tiles!Index : \A r \in Among(scratch[i]) : r \in TileRecord
  BY DEF TilesTypes, Among
<1>2. Records \subseteq TileRecord
  BY <1>1 DEF Records
<1>3. \A r \in TileRecord : r.tile \in Tiles!Tile
  BY DEF TileRecord
<1>. QED
  BY <1>2, <1>3 DEF SentTiles

\* A thread writes a record of a tile of which there was none.
LEMMA OneMore ==
  ASSUME TilesTypes, TilesOnce, NEW i \in Tiles!Index, NEW r \in TileRecord,
         scratch' = [scratch EXCEPT ![i] = Append(scratch[i], r)], r.tile \notin SentTiles
  PROVE  /\ TilesOnce' /\ SentTiles' = SentTiles \cup {r.tile}
         /\ Records' = Records \cup {r}
<1>1. PICK w \in Seq(TileRecord) : w = scratch[i]
  BY DEF TilesTypes
<1>2. PICK x : x = Append(w, r)
  OBVIOUS
<1>3. /\ Len(w) \in Nat /\ Len(x) = Len(w) + 1 /\ x[Len(w) + 1] = r
      /\ \A n \in 1..Len(w) : x[n] = w[n]
  BY <1>2
<1>4. \A j \in Tiles!Index : scratch'[j] = IF j = i THEN x ELSE scratch[j]
  BY <1>1, <1>2 DEF TilesTypes
<1>5. Among(x) = Among(w) \cup {r}
  BY <1>3 DEF Among
<1>6. \A j \in Tiles!Index : \A t \in Among(scratch[j]) : t.tile # r.tile
  BY DEF SentTiles, Records
<1>7. Once(x)
  <2>1. \A n \in 1..Len(w) : w[n].tile # r.tile
    BY <1>1, <1>6 DEF Among
  <2>2. \A n \in 1..Len(x) : n \in 1..Len(w) \/ n = Len(w) + 1
    BY <1>3
  <2>3. Once(w)
    BY <1>1 DEF TilesOnce
  <2>. QED
    BY <1>3, <2>1, <2>2, <2>3 DEF Once
<1>8. \A j \in Tiles!Index : \A s : s \in Among(scratch'[j]) <=> s \in Among(scratch[j]) \/ (j = i /\ s = r)
  <2>. TAKE j \in Tiles!Index
  <2>1. CASE j = i
    <3>1. scratch'[j] = x /\ scratch[j] = w
      BY <1>1, <1>4, <2>1
    <3>. QED
      BY <1>5, <2>1, <3>1
  <2>2. CASE j # i
    <3>1. scratch'[j] = scratch[j]
      BY <1>4, <2>2
    <3>. QED
      BY <2>2, <3>1
  <2>. QED
    BY <2>1, <2>2
<1>9. TilesOnce'
  <2>1. \A j \in Tiles!Index : Once(scratch'[j])
    BY <1>4, <1>7 DEF TilesOnce
  <2>2. \A j, h \in Tiles!Index : \A s \in Among(scratch'[j]), t \in Among(scratch'[h]) : s.tile = t.tile => j = h
    <3>1. \A j, h \in Tiles!Index : \A s \in Among(scratch[j]), t \in Among(scratch[h]) : s.tile = t.tile => j = h
      BY DEF TilesOnce
    <3>. SUFFICES ASSUME NEW j \in Tiles!Index, NEW h \in Tiles!Index,
                         NEW s \in Among(scratch'[j]), NEW t \in Among(scratch'[h]), s.tile = t.tile
                  PROVE  j = h
      OBVIOUS
    <3>2. s \in Among(scratch[j]) \/ (j = i /\ s = r)
      BY <1>8
    <3>3. t \in Among(scratch[h]) \/ (h = i /\ t = r)
      BY <1>8
    <3>4. CASE s \in Among(scratch[j]) /\ t \in Among(scratch[h])
      BY <3>1, <3>4
    <3>5. CASE s \in Among(scratch[j]) /\ h = i /\ t = r
      BY <1>6, <3>5
    <3>6. CASE j = i /\ s = r /\ t \in Among(scratch[h])
      BY <1>6, <3>6
    <3>. QED
      BY <3>2, <3>3, <3>4, <3>5, <3>6
  <2>. QED
    BY <2>1, <2>2 DEF TilesOnce
<1>10. \A s : s \in Records' <=> \E j \in Tiles!Index : s \in Among(scratch'[j])
  BY DEF Records
<1>11. \A s : s \in Records <=> \E j \in Tiles!Index : s \in Among(scratch[j])
  BY DEF Records
<1>12. Records' = Records \cup {r}
  BY <1>8, <1>10, <1>11
<1>. QED
  BY <1>9, <1>12 DEF SentTiles

\* Sets of tiles are finite.
LEMMA TilesFinite ==
  ASSUME NEW S, S \subseteq Tiles!Tile
  PROVE  /\ IsFiniteSet(S) /\ Cardinality(S) \in Nat
         /\ \A k : k \notin S => Cardinality(S \cup {k}) = Cardinality(S) + 1
<1>1. Total \in Nat
  BY TilesAssumed DEF Tiles!EncoderAssumption
<1>2. IsFiniteSet(Tiles!Tile)
  BY <1>1, FS_Interval DEF Tiles!Tile
<1>3. IsFiniteSet(S)
  BY <1>2, FS_Subset
<1>. QED
  BY <1>3, FS_CardinalityType, FS_AddElement

\* A thread handles a tile.
LEMMA TilesHandled ==
  ASSUME TilesTypes, TilesTaken, TilesOwed, NEW i \in Tiles!Index, Tiles!Handle(i)
  PROVE  TilesOwed'
<1>1. PICK k \in span[i] : k = Tiles!Min(span[i])
  <2>1. span[i] # {} /\ span[i] \subseteq Nat
    BY DEF Tiles!Handle, TilesTypes, Tiles!Tile
  <2>. QED
    BY <2>1, LeastElement
<1>2. phase = "running"
  BY <1>1 DEF TilesTaken
<1>3. TilesCall /\ TilesOnce
  BY <1>2 DEF TilesOwed
<1>4. k \in Tiles!Tile /\ k < next /\ k \notin Handled
  BY <1>1 DEF TilesTypes, TilesTaken, Handled
<1>5. UNCHANGED <<phase, left, next, screen, frame, full, quality, budget, before>>
  BY DEF Tiles!Handle, Tiles!call
<1>6. Tiles!Changed' = Tiles!Changed /\ Tiles!Candidates' = Tiles!Candidates
  BY <1>5 DEF Tiles!Changed, Tiles!Candidates
<1>7. k \notin SentTiles
  BY <1>3, <1>4 DEF SentTiles, TilesCall
<1>8. shadow[k] = before.shadow[k] /\ tileQ[k] = before.tileQ[k]
  BY <1>3, <1>4, <1>7 DEF TilesCall
<1>9. /\ Tiles!Dirty(k) <=> k \in Tiles!Changed
      /\ ~Tiles!Dirty(k) /\ Tiles!Lossy(k) <=> k \in Tiles!Candidates
  BY <1>4, <1>8 DEF Tiles!Dirty, Tiles!Lossy, Tiles!Changed, Tiles!Candidates
<1>10. Handled' = Handled \cup {k}
  <2>1. span' = [span EXCEPT ![i] = span[i] \ {k}]
    BY <1>1 DEF Tiles!Handle
  <2>2. \A j \in Tiles!Index : j # i => k \notin span[j]
    BY <1>1 DEF TilesTaken
  <2>3. \A j \in Tiles!Index : span'[j] = span[j] \ {k}
    BY <2>1, <2>2 DEF TilesTypes
  <2>. QED
    BY <1>4, <1>5, <2>3 DEF Handled
<1>11. /\ {refines, refined, quality, budget} \subseteq Nat
       /\ shadow \in [Tiles!Tile -> Color] /\ tileQ \in [Tiles!Tile -> Nat] /\ frame \in [Tiles!Tile -> Color]
  BY DEF TilesTypes
<1>12. Records \subseteq TileRecord /\ SentTiles \subseteq Tiles!Tile /\ \A r \in Records : r.tile # k
  BY <1>7, RecordsTyped DEF SentTiles
<1>13. before' \in [shadow : [Tiles!Tile -> Color], tileQ : [Tiles!Tile -> Nat]]
  BY <1>5 DEF TilesOwed
<1>14. SUFFICES TilesOnce' /\ TilesCall'
  BY <1>2, <1>5, <1>13 DEF TilesOwed
<1>15. /\ \A h \in Tiles!Tile : screen'[h] = [color |-> before'.shadow[h], q |-> before'.tileQ[h]]
       /\ \A j \in Tiles!Index : j \notin left' => next' >= Total
  BY <1>3, <1>5 DEF TilesCall
\* The tile is sent at quality q.
<1>. DEFINE Sends(q) == /\ tileQ' = [tileQ EXCEPT ![k] = q]
                        /\ scratch' = [scratch EXCEPT ![i] = Append(scratch[i], Tiles!Record(k, q))]
<1>16. ASSUME NEW q \in Nat, Sends(q), k \in Tiles!Changed \cup Tiles!Candidates,
              q = IF k \in Tiles!Changed THEN quality ELSE 0,
              shadow' = [shadow EXCEPT ![k] = frame[k]]
       PROVE  /\ TilesOnce' /\ SentTiles' = SentTiles \cup {k}
              /\ \A r \in Records' :
                   /\ r.tile \in Handled' /\ r.tile \in Tiles!Changed' \cup Tiles!Candidates'
                   /\ r.color = shadow'[r.tile] /\ r.q = tileQ'[r.tile]
                   /\ r.q = IF r.tile \in Tiles!Changed' THEN quality' ELSE 0
              /\ \A h \in Tiles!Tile : h \notin SentTiles' =>
                   shadow'[h] = before'.shadow[h] /\ tileQ'[h] = before'.tileQ[h]
              /\ Tiles!Changed' \cap Handled' \subseteq SentTiles'
  <2>1. PICK x : x = Tiles!Record(k, q)
    OBVIOUS
  <2>2. x \in TileRecord /\ x.tile = k /\ x.q = q /\ x.color = frame[k]
    BY <1>4, <1>11, <2>1 DEF Tiles!Record, TileRecord
  <2>3. TilesOnce' /\ Records' = Records \cup {x} /\ SentTiles' = SentTiles \cup {x.tile}
    <3>1. scratch' = [scratch EXCEPT ![i] = Append(scratch[i], x)] /\ x.tile \notin SentTiles
      BY <1>7, <1>16, <2>1, <2>2
    <3>. QED
      BY <1>3, <2>2, <3>1, OneMore
  <2>4. \A h \in Tiles!Tile : /\ shadow'[h] = IF h = k THEN frame[k] ELSE shadow[h]
                             /\ tileQ'[h] = IF h = k THEN q ELSE tileQ[h]
    BY <1>11, <1>16
  <2>5. \A r \in Records :
          /\ r.tile \in Handled' /\ r.tile \in Tiles!Changed' \cup Tiles!Candidates'
          /\ r.color = shadow'[r.tile] /\ r.q = tileQ'[r.tile]
          /\ r.q = IF r.tile \in Tiles!Changed' THEN quality' ELSE 0
    <3>1. \A r \in Records : r.tile \in Tiles!Tile /\ r.tile # k
      BY <1>12 DEF TileRecord
    <3>. QED
      BY <1>3, <1>5, <1>6, <1>10, <2>4, <3>1 DEF TilesCall
  <2>6. /\ x.tile \in Handled' /\ x.tile \in Tiles!Changed' \cup Tiles!Candidates'
        /\ x.color = shadow'[x.tile] /\ x.q = tileQ'[x.tile]
        /\ x.q = IF x.tile \in Tiles!Changed' THEN quality' ELSE 0
    BY <1>4, <1>5, <1>6, <1>10, <1>16, <2>2, <2>4
  <2>7. \A h \in Tiles!Tile : h \notin SentTiles' =>
          shadow'[h] = before'.shadow[h] /\ tileQ'[h] = before'.tileQ[h]
    BY <1>3, <1>5, <2>2, <2>3, <2>4 DEF TilesCall
  <2>8. Tiles!Changed' \cap Handled' \subseteq SentTiles'
    BY <1>3, <1>6, <1>10, <2>2, <2>3 DEF TilesCall
  <2>. QED
    BY <2>2, <2>3, <2>5, <2>6, <2>7, <2>8
<1>17. Tiles!Changed \cap Tiles!Candidates = {}
  BY DEF Tiles!Changed, Tiles!Candidates
<1>18. CASE /\ Tiles!Dirty(k) /\ shadow' = [shadow EXCEPT ![k] = frame[k]]
            /\ Tiles!Emit(i, k, quality) /\ UNCHANGED <<refines, refined>>
  <2>1. Sends(quality) /\ k \in Tiles!Changed
    BY <1>9, <1>18 DEF Tiles!Emit, Tiles!RememberQuality
  <2>2. SentTiles' \ Tiles!Changed' = SentTiles \ Tiles!Changed
    BY <1>6, <1>11, <1>16, <1>18, <2>1
  <2>3. Tiles!Candidates' \cap Handled' = Tiles!Candidates \cap Handled
    BY <1>6, <1>10, <1>17, <2>1
  <2>4. /\ refines' = Cardinality(Tiles!Candidates' \cap Handled')
        /\ refined' = Cardinality(SentTiles' \ Tiles!Changed')
        /\ refined' = IF refines' <= budget' THEN refines' ELSE budget'
    BY <1>3, <1>5, <1>18, <2>2, <2>3 DEF TilesCall
  <2>. QED
    BY <1>11, <1>15, <1>16, <1>18, <2>1, <2>4 DEF TilesCall
<1>19. CASE /\ ~Tiles!Dirty(k) /\ Tiles!Lossy(k) /\ refines' = refines + 1 /\ UNCHANGED shadow
            /\ IF Tiles!WithinBudget THEN refined' = refined + 1 /\ Tiles!Emit(i, k, 0)
               ELSE UNCHANGED <<refined, tileQ, scratch>>
  <2>1. k \in Tiles!Candidates /\ k \notin Tiles!Changed
    BY <1>9, <1>19
  <2>2. Tiles!Candidates' \cap Handled' = (Tiles!Candidates \cap Handled) \cup {k}
    BY <1>6, <1>10, <2>1
  <2>3. refines' = Cardinality(Tiles!Candidates' \cap Handled')
    <3>1. Tiles!Candidates \cap Handled \subseteq Tiles!Tile /\ k \notin Tiles!Candidates \cap Handled
      BY <1>4 DEF Handled
    <3>2. Cardinality((Tiles!Candidates \cap Handled) \cup {k}) = Cardinality(Tiles!Candidates \cap Handled) + 1
      BY <3>1, TilesFinite
    <3>. QED
      BY <1>3, <1>19, <2>2, <3>2 DEF TilesCall
  <2>4. CASE Tiles!WithinBudget
    <3>1. Sends(0) /\ shadow' = [shadow EXCEPT ![k] = frame[k]]
      <4>1. frame[k] = shadow[k]
        BY <1>9, <2>1, <1>19 DEF Tiles!Dirty
      <4>. QED
        BY <1>4, <1>11, <1>19, <2>4, <4>1 DEF Tiles!Emit, Tiles!RememberQuality
    <3>2. SentTiles' = SentTiles \cup {k}
      BY <1>16, <2>1, <3>1
    <3>3. SentTiles' \ Tiles!Changed' = (SentTiles \ Tiles!Changed) \cup {k}
      BY <1>6, <2>1, <3>2
    <3>4. refined' = Cardinality(SentTiles' \ Tiles!Changed')
      <4>1. SentTiles \ Tiles!Changed \subseteq Tiles!Tile /\ k \notin SentTiles \ Tiles!Changed
        BY <1>7, <1>12
      <4>2. Cardinality((SentTiles \ Tiles!Changed) \cup {k}) = Cardinality(SentTiles \ Tiles!Changed) + 1
        BY <4>1, TilesFinite
      <4>. QED
        BY <1>3, <1>19, <2>4, <3>3, <4>2 DEF TilesCall
    <3>5. refined' = IF refines' <= budget' THEN refines' ELSE budget'
      BY <1>3, <1>5, <1>11, <1>19, <2>4 DEF TilesCall, Tiles!WithinBudget
    <3>. QED
      BY <1>15, <1>16, <2>1, <2>3, <3>1, <3>4, <3>5 DEF TilesCall
  <2>5. CASE ~Tiles!WithinBudget
    <3>1. UNCHANGED <<refined, tileQ, scratch, shadow>>
      BY <1>19, <2>5
    <3>2. TilesOnce' /\ Records' = Records /\ SentTiles' = SentTiles
      BY <1>3, <3>1 DEF TilesOnce, Records, SentTiles
    <3>3. refined' = IF refines' <= budget' THEN refines' ELSE budget'
      BY <1>3, <1>5, <1>11, <1>19, <2>5, <3>1 DEF TilesCall, Tiles!WithinBudget
    <3>4. Tiles!Changed' \cap Handled' \subseteq SentTiles'
      BY <1>3, <1>6, <1>10, <2>1, <3>2 DEF TilesCall
    <3>. QED
      BY <1>3, <1>5, <1>6, <1>10, <1>15, <2>3, <3>1, <3>2, <3>3, <3>4 DEF TilesCall
  <2>. QED
    BY <2>4, <2>5
<1>20. CASE ~Tiles!Dirty(k) /\ ~Tiles!Lossy(k) /\ UNCHANGED <<shadow, refines, refined, tileQ, scratch>>
  <2>1. k \notin Tiles!Changed /\ k \notin Tiles!Candidates
    BY <1>9, <1>20
  <2>2. TilesOnce' /\ Records' = Records /\ SentTiles' = SentTiles
    BY <1>3, <1>20 DEF TilesOnce, Records, SentTiles
  <2>3. Tiles!Candidates' \cap Handled' = Tiles!Candidates \cap Handled
    BY <1>6, <1>10, <2>1
  <2>4. Tiles!Changed' \cap Handled' \subseteq SentTiles'
    BY <1>3, <1>6, <1>10, <2>1, <2>2 DEF TilesCall
  <2>. QED
    BY <1>3, <1>5, <1>6, <1>10, <1>15, <1>20, <2>2, <2>3, <2>4 DEF TilesCall
<1>. QED
  BY <1>1, <1>18, <1>19, <1>20 DEF Tiles!Handle

\* A call of encode begins, with nothing handled.
LEMMA TilesBegun ==
  ASSUME TilesTypes, TilesTaken, TilesOwed, Tiles!Begin
  PROVE  TilesOwed'
<1>1. /\ phase = "idle" /\ phase' = "running" /\ left' = Tiles!Index /\ UNCHANGED <<shadow, tileQ, span, screen>>
      /\ before' = [shadow |-> shadow, tileQ |-> tileQ] /\ next' = 0 /\ refines' = 0 /\ refined' = 0
  BY DEF Tiles!Begin, Tiles!Start
<1>2. \A i \in Tiles!Index : scratch'[i] = <<>>
  BY DEF Tiles!Begin
<1>3. budget' \in Nat
  BY TilesAssumed DEF Tiles!Begin, Tiles!EncoderAssumption
<1>4. Records' = {} /\ SentTiles' = {} /\ TilesOnce'
  <2>1. \A i \in Tiles!Index : Len(scratch'[i]) = 0
    BY <1>2
  <2>2. \A i \in Tiles!Index : Among(scratch'[i]) = {}
    BY <2>1 DEF Among
  <2>3. Records' = {}
    BY <2>2 DEF Records
  <2>. QED
    BY <2>1, <2>2, <2>3 DEF SentTiles, TilesOnce, Once
<1>5. Handled' = {}
  BY <1>1 DEF Handled, Tiles!Tile
<1>6. Cardinality({}) = 0
  BY FS_EmptySet
<1>7. before' \in [shadow : [Tiles!Tile -> Color], tileQ : [Tiles!Tile -> Nat]]
  BY <1>1 DEF TilesTypes
<1>8. \A k \in Tiles!Tile : screen'[k] = [color |-> before'.shadow[k], q |-> before'.tileQ[k]]
  BY <1>1 DEF TilesOwed
<1>9. \A k \in Tiles!Tile : shadow'[k] = before'.shadow[k] /\ tileQ'[k] = before'.tileQ[k]
  BY <1>1
<1>10. /\ refines' = Cardinality(Tiles!Candidates' \cap Handled')
       /\ refined' = Cardinality(SentTiles' \ Tiles!Changed')
  <2>1. Tiles!Candidates' \cap Handled' = {} /\ SentTiles' \ Tiles!Changed' = {}
    BY <1>4, <1>5
  <2>. QED
    BY <1>1, <1>6, <2>1
<1>11. TilesCall'
  BY <1>1, <1>3, <1>4, <1>5, <1>8, <1>9, <1>10 DEF TilesCall
<1>. QED
  BY <1>1, <1>4, <1>7, <1>11 DEF TilesOwed

\* A thread takes its next tiles, or leaves: neither handles any.
LEMMA TilesGrabbed ==
  ASSUME TilesTypes, TilesTaken, TilesOwed, NEW i \in Tiles!Index, Tiles!Grab(i)
  PROVE  TilesOwed'
<1>1. /\ Chunk \in Nat /\ Chunk > 0 /\ Total \in Nat /\ next \in Nat /\ next' = next + Chunk
      /\ i \in left /\ span[i] = {} /\ phase = "running" /\ phase' = phase
      /\ UNCHANGED <<frame, full, quality, budget, before, shadow, tileQ, refines, scratch, refined, screen>>
  BY TilesAssumed
     DEF Tiles!EncoderAssumption, Tiles!Grab, Tiles!Do, Tiles!Advance, Tiles!call, TilesTypes, TilesTaken
<1>2. Handled' = Handled /\ \A j \in Tiles!Index : j \notin left' => next' >= Total
  <2>1. CASE next < Total
    <3>1. span' = [span EXCEPT ![i] = Tiles!TakenFrom(next)] /\ left' = left
      BY <2>1 DEF Tiles!Grab
    <3>2. \A j \in Tiles!Index : span'[j] = IF j = i THEN Tiles!TakenFrom(next) ELSE span[j]
      BY <3>1 DEF TilesTypes
    <3>3. ASSUME NEW k \in Tiles!Tile
          PROVE  k < next' <=> k < next \/ k \in Tiles!TakenFrom(next)
      BY <1>1 DEF Tiles!TakenFrom, Tiles!Tile
    <3>4. ASSUME NEW k \in Tiles!Tile PROVE k \in Tiles!TakenFrom(next) => ~(k < next)
      BY <1>1 DEF Tiles!TakenFrom, Tiles!Tile
    <3>5. Handled' = Handled
      BY <1>1, <3>2, <3>3, <3>4 DEF Handled
    <3>. QED
      BY <1>1, <2>1, <3>1, <3>5 DEF TilesOwed, TilesCall
  <2>2. CASE ~(next < Total)
    <3>1. span' = span
      BY <2>2 DEF Tiles!Grab
    <3>2. \A k \in Tiles!Tile : k < next /\ k < next'
      BY <1>1, <2>2 DEF Tiles!Tile
    <3>. QED
      BY <1>1, <2>2, <3>1, <3>2 DEF Handled
  <2>. QED
    BY <2>1, <2>2
<1>3. TilesOnce' /\ Records' = Records /\ SentTiles' = SentTiles
  BY <1>1 DEF TilesOwed, TilesOnce, Records, SentTiles
<1>4. Tiles!Changed' = Tiles!Changed /\ Tiles!Candidates' = Tiles!Candidates
  BY <1>1 DEF Tiles!Changed, Tiles!Candidates
<1>5. TilesCall'
  BY <1>1, <1>2, <1>3, <1>4 DEF TilesOwed, TilesCall
<1>. QED
  BY <1>1, <1>3, <1>5 DEF TilesOwed

\* What the viewer shows once it has decoded the message.
LEMMA PaintedIs ==
  ASSUME TilesTypes, TilesOnce, NEW k \in Tiles!Tile
  PROVE  /\ k \notin SentTiles => Tiles!Painted[k] = screen[k]
         /\ \A r \in Records : r.tile = k => Tiles!Painted[k] = [color |-> r.color, q |-> r.q]
<1>1. PICK w : w = Tiles!Message
  OBVIOUS
<1>2. w \in Seq(TileRecord) /\ Among(w) = Records /\ Once(w) /\ DOMAIN w = 1..Len(w)
  BY <1>1, MessageIs
<1>3. PICK hits : hits = {n \in DOMAIN w : w[n].tile = k}
  OBVIOUS
<1>4. Tiles!Painted[k] = IF hits = {} THEN screen[k]
                         ELSE [color |-> w[Tiles!Max(hits)].color, q |-> w[Tiles!Max(hits)].q]
  BY <1>1, <1>3 DEF Tiles!Painted
<1>5. ASSUME k \notin SentTiles PROVE Tiles!Painted[k] = screen[k]
  BY <1>2, <1>3, <1>4, <1>5 DEF SentTiles, Among
<1>6. ASSUME NEW r \in Records, r.tile = k
      PROVE  Tiles!Painted[k] = [color |-> r.color, q |-> r.q]
  <2>1. PICK n \in 1..Len(w) : w[n] = r
    BY <1>2 DEF Among
  <2>2. hits = {n}
    BY <1>2, <1>3, <1>6, <2>1 DEF Once
  <2>3. n \in Int
    OBVIOUS
  <2>4. Tiles!Max(hits) = n
    BY <2>2, <2>3 DEF Tiles!Max
  <2>. QED
    BY <1>4, <2>1, <2>2, <2>4
<1>. QED
  BY <1>5, <1>6

\* The message is sent, and the viewer shows what the host remembers.
LEMMA TilesMerged ==
  ASSUME TilesTypes, TilesOwed, Tiles!Merge
  PROVE  TilesOwed'
<1>1. /\ phase = "running" /\ phase' = "idle" /\ screen' = Tiles!Painted
      /\ UNCHANGED <<shadow, tileQ, before, scratch>>
  BY DEF Tiles!Merge, Tiles!Return, Tiles!call
<1>2. TilesCall /\ TilesOnce
  BY <1>1 DEF TilesOwed
<1>3. ASSUME NEW k \in Tiles!Tile PROVE screen'[k] = [color |-> shadow'[k], q |-> tileQ'[k]]
  <2>1. CASE k \notin SentTiles
    <3>1. Tiles!Painted[k] = screen[k]
      BY <1>2, <2>1, PaintedIs
    <3>. QED
      BY <1>1, <1>2, <2>1, <3>1 DEF TilesCall
  <2>2. CASE k \in SentTiles
    <3>1. PICK r \in Records : r.tile = k
      BY <2>2 DEF SentTiles
    <3>2. Tiles!Painted[k] = [color |-> r.color, q |-> r.q]
      BY <1>2, <3>1, PaintedIs
    <3>. QED
      BY <1>1, <1>2, <3>1, <3>2 DEF TilesCall
  <2>. QED
    BY <2>1, <2>2
<1>4. TilesOnce'
  BY <1>1, <1>2 DEF TilesOnce
<1>5. before' \in [shadow : [Tiles!Tile -> Color], tileQ : [Tiles!Tile -> Nat]]
  BY <1>1 DEF TilesOwed
<1>. QED
  BY <1>1, <1>3, <1>4, <1>5 DEF TilesOwed

\* Every step of the encoder keeps what it owes.
LEMMA TilesOwedStep ==
  ASSUME TilesTypes, TilesTaken, TilesOwed, [Tiles!Next]_(Tiles!vars)
  PROVE  TilesOwed'
<1>1. CASE Tiles!Begin
  BY <1>1, TilesBegun
<1>2. ASSUME NEW i \in Tiles!Index, Tiles!Grab(i) PROVE TilesOwed'
  BY <1>2, TilesGrabbed
<1>3. ASSUME NEW i \in Tiles!Index, Tiles!Handle(i) PROVE TilesOwed'
  BY <1>3, TilesHandled
<1>4. CASE Tiles!Merge
  BY <1>4, TilesMerged
<1>5. CASE Tiles!Gone
  <2>1. phase' = "gone" /\ UNCHANGED <<before, scratch>>
    BY <1>5 DEF Tiles!Gone, Tiles!Stop, Tiles!encVars
  <2>. QED
    BY <2>1 DEF TilesOwed, TilesOnce
<1>6. CASE UNCHANGED Tiles!vars
  <2>1. UNCHANGED <<phase, left, frame, shadow, tileQ, next, refines, span, scratch, full,
                    quality, budget, refined, screen, before>>
    BY <1>6 DEF Tiles!vars
  <2>2. TilesOnce' /\ Records' = Records /\ SentTiles' = SentTiles /\ Handled' = Handled
    BY <2>1 DEF TilesOwed, TilesOnce, Records, SentTiles, Handled
  <2>3. Tiles!Changed' = Tiles!Changed /\ Tiles!Candidates' = Tiles!Candidates
    BY <2>1 DEF Tiles!Changed, Tiles!Candidates
  <2>. QED
    BY <2>1, <2>2, <2>3 DEF TilesOwed, TilesCall
<1>. QED
  BY <1>1, <1>2, <1>3, <1>4, <1>5, <1>6 DEF Tiles!Next

\* A connection starts with a screen and a shadow that agree.
LEMMA TilesOwedStart == Tiles!Init => TilesOwed
<1>. SUFFICES ASSUME Tiles!Init PROVE TilesOwed
  OBVIOUS
<1>1. phase = "idle" /\ before = [shadow |-> shadow, tileQ |-> tileQ]
  BY DEF Tiles!Init, Tiles!RunInit
<1>2. shadow \in [Tiles!Tile -> Color] /\ tileQ \in [Tiles!Tile -> Nat]
  BY DEF Tiles!Init
<1>3. \A k \in Tiles!Tile : screen[k] = [color |-> shadow[k], q |-> tileQ[k]]
  BY DEF Tiles!Init
<1>4. TilesOnce
  <2>1. \A i \in Tiles!Index : Len(scratch[i]) = 0
    BY DEF Tiles!Init
  <2>. QED
    BY <2>1 DEF TilesOnce, Once, Among
<1>. QED
  BY <1>1, <1>2, <1>3, <1>4 DEF TilesOwed

\* What a call has sent once its threads have left.
LEMMA CallOwes ==
  ASSUME TilesTypes, TilesTaken, TilesOwed
  PROVE  Tiles!OwedIsSent
<1>. SUFFICES ASSUME phase = "running", left = {}
  PROVE  /\ Len(Tiles!Message) = Cardinality(Tiles!Sent)
         /\ Tiles!Changed \subseteq Tiles!Sent /\ Tiles!Sent \subseteq Tiles!Changed \cup Tiles!Candidates
         /\ \A n \in DOMAIN Tiles!Message :
              Tiles!Message[n].q = IF Tiles!Message[n].tile \in Tiles!Changed THEN quality ELSE 0
         /\ refined = Cardinality(Tiles!Sent \ Tiles!Changed)
         /\ refined = Tiles!Min({budget, Cardinality(Tiles!Candidates)})
  BY DEF Tiles!OwedIsSent, Tiles!Cardinality, Cardinality
<1>1. TilesCall /\ TilesOnce
  BY DEF TilesOwed
<1>2. PICK w : w = Tiles!Message
  OBVIOUS
<1>3. /\ w \in Seq(TileRecord) /\ Among(w) = Records /\ Once(w)
      /\ DOMAIN w = 1..Len(w) /\ Len(w) \in Nat
  BY <1>1, <1>2, MessageIs
<1>4. Tiles!Sent = SentTiles
  BY <1>2, <1>3 DEF Tiles!Sent, SentTiles, Among
<1>5. Handled = Tiles!Tile
  <2>1. Total \in Nat /\ N \in Nat /\ next \in Nat
    BY TilesAssumed DEF Tiles!EncoderAssumption, Tiles!WorkersAssumption, TilesTypes
  <2>2. 0 \in Tiles!Index
    BY <2>1 DEF Tiles!Index
  <2>3. next >= Total /\ \A i \in Tiles!Index : span[i] = {}
    BY <1>1, <2>2 DEF TilesCall, TilesTaken
  <2>. QED
    BY <2>1, <2>3 DEF Handled, Tiles!Tile
<1>6. Len(w) = Cardinality(SentTiles)
  <2>1. PICK f : f = [n \in 1..Len(w) |-> w[n].tile]
    OBVIOUS
  <2>2. f \in Bijection(1..Len(w), SentTiles)
    <3>1. \A n \in 1..Len(w) : f[n] \in SentTiles
      BY <1>3, <2>1 DEF Among, SentTiles
    <3>2. \A k \in SentTiles : \E n \in 1..Len(w) : f[n] = k
      BY <1>3, <2>1 DEF Among, SentTiles
    <3>3. \A m, n \in 1..Len(w) : f[m] = f[n] => m = n
      BY <1>3, <2>1 DEF Once
    <3>4. f \in [1..Len(w) -> SentTiles]
      BY <2>1, <3>1
    <3>. QED
      BY <3>2, <3>3, <3>4 DEF Bijection, Injection, Surjection, IsInjective
  <2>3. IsFiniteSet(1..Len(w)) /\ Cardinality(1..Len(w)) = Len(w)
    BY <1>3, FS_Interval
  <2>. QED
    BY <2>2, <2>3, FS_Bijection DEF ExistsBijection
<1>7. Tiles!Changed \subseteq Tiles!Tile /\ Tiles!Candidates \subseteq Tiles!Tile
  BY DEF Tiles!Changed, Tiles!Candidates
<1>8. Tiles!Changed \subseteq SentTiles /\ SentTiles \subseteq Tiles!Changed \cup Tiles!Candidates
  BY <1>1, <1>5, <1>7 DEF TilesCall, SentTiles
<1>9. \A n \in DOMAIN w : w[n].q = IF w[n].tile \in Tiles!Changed THEN quality ELSE 0
  BY <1>1, <1>3 DEF TilesCall, Among
<1>10. refined = Tiles!Min({budget, Cardinality(Tiles!Candidates)})
  <2>1. PICK c \in Nat : c = Cardinality(Tiles!Candidates)
    BY <1>7, TilesFinite
  <2>2. Tiles!Candidates \cap Handled = Tiles!Candidates
    BY <1>5, <1>7
  <2>3. refined = IF c <= budget THEN c ELSE budget
    BY <1>1, <2>1, <2>2 DEF TilesCall
  <2>4. budget \in Nat
    BY DEF TilesTypes
  <2>5. Tiles!Min({budget, c}) \in {budget, c} /\ \A y \in {budget, c} : Tiles!Min({budget, c}) <= y
    BY <2>1, <2>4, LeastElement
  <2>. QED
    BY <2>1, <2>3, <2>4, <2>5
<1>11. refined = Cardinality(Tiles!Sent \ Tiles!Changed)
  BY <1>1, <1>4 DEF TilesCall
<1>. QED
  BY <1>2, <1>4, <1>6, <1>8, <1>9, <1>10, <1>11

\* FrameEncoder::encode: however the threads interleave, a call sends each tile
\* that changed once, at the quality asked for, and refines as many of the others
\* as the budget allows; a viewer that has decoded it shows what the host
\* remembers to have sent.
THEOREM AllTilesAreSent == FairSpec => []TilesAreSent
<1>1. FairSpec => Init /\ [][Next]_vars
  BY PTL DEF FairSpec
<1>. DEFINE Inv == TilesTypes /\ TilesTaken /\ TilesOwed
<1>2. Init => Inv
  BY TilesStart, TilesOwedStart DEF Init
<1>3. Inv /\ [Next]_vars => Inv'
  BY TilesSteps, TilesTyped, TilesKeptApart, TilesOwedStep
<1>4. Inv => TilesAreSent
  <2>1. Inv => Tiles!ViewerMatchesShadow
    BY DEF Tiles!ViewerMatchesShadow, TilesOwed
  <2>2. Inv => Tiles!OwedIsSent
    BY CallOwes
  <2>. QED
    BY <2>1, <2>2 DEF TilesAreSent
<1>. QED
  BY <1>1, <1>2, <1>3, <1>4, PTL

-----------------------------------------------------------------------------
(* The sealed session (SecureChannel).                                     *)

Program == Sealing!Program
Direction == Sealing!Direction
Peer(p) == IF p = "viewer" THEN "host" ELSE "viewer"

EndState ==
  [phase : {"off", "hello", "auth", "active", "closed"}, th : [ce : Nat, se : Nat],
   sendCtr : Nat, recvCtr : Nat]
HelloFrame == [kind : {"hello"}, key : Nat]
SealedFrame ==
  [kind : {"sealed"}, th : [ce : Nat, se : Nat], dir : Direction, ctr : Nat,
   body : Sealing!Payload \cup {"altered"}]
AnyFrame == HelloFrame \cup SealedFrame

\* The keys of a transcript, the program's own ephemeral one and the other's.
OwnKey(p, th) == IF p = "viewer" THEN th.ce ELSE th.se
OtherKey(p, th) == IF p = "viewer" THEN th.se ELSE th.ce
Keyed(p) == end[p].phase \in {"auth", "active", "closed"}

SealTypes ==
  /\ end \in [Program -> EndState] /\ wire \in [Direction -> Seq(AnyFrame)] /\ conn \in Nat
  /\ sent \in [Direction -> Seq(Sealing!Payload)] /\ got \in [Direction -> Seq(Sealing!Payload)]
  /\ recorded \in SUBSET SealedFrame

SealKeys == \A p \in Program : Keyed(p) => OwnKey(p, end[p].th) = conn /\ OtherKey(p, end[p].th) <= conn

SealCounts ==
  \A p \in Program :
    /\ Len(sent[Sealing!Out(p)]) = end[p].sendCtr
    /\ Len(got[Sealing!In(p)]) = end[p].recvCtr
    /\ ~Keyed(p) => end[p].sendCtr = 0 /\ end[p].recvCtr = 0

\* A recorded message under the program's present key is one of this session.
OfSession(p, r) ==
  /\ Keyed(p) /\ r.th = end[p].th
  /\ r.ctr < Len(sent[Sealing!Out(p)]) /\ r.body = sent[Sealing!Out(p)][r.ctr + 1]

SealRecorded ==
  \A p \in Program : \A r \in recorded :
    r.dir = Sealing!Out(p) =>
      /\ OtherKey(p, r.th) <= OwnKey(p, r.th) /\ OwnKey(p, r.th) <= conn
      /\ OwnKey(p, r.th) = conn => OfSession(p, r)

SealWires ==
  \A d \in Direction : \A f \in Among(wire[d]) :
    /\ f.kind = "hello" => f.key <= conn
    /\ f.kind = "sealed" => f.body = "altered" \/ f \in recorded

\* Nothing is sealed for a program without keys, which only a host that has its
\* own gives the viewer.
SealOrder ==
  /\ \A p \in Program : ~Keyed(p) => \A f \in Among(wire[Sealing!In(p)]) : f.kind = "hello"
  /\ ~Keyed("host") => wire["down"] = <<>> /\ ~Keyed("viewer")
  /\ end["host"].phase = "active" => Keyed("viewer")

SealInv == SealTypes /\ SealKeys /\ SealCounts /\ SealRecorded /\ SealWires /\ SealOrder

\* The two programs and the two directions.
LEMMA Ends ==
  /\ Program = {"viewer", "host"} /\ Direction = {"up", "down"}
  /\ \A p \in Program :
       /\ Peer(p) \in Program /\ Peer(p) # p /\ Program = {p, Peer(p)}
       /\ Sealing!In(p) \in Direction /\ Sealing!Out(p) \in Direction
       /\ Sealing!In(p) # Sealing!Out(p) /\ Direction = {Sealing!In(p), Sealing!Out(p)}
       /\ Sealing!In(Peer(p)) = Sealing!Out(p) /\ Sealing!Out(Peer(p)) = Sealing!In(p)
  BY DEF Program, Direction, Sealing!Program, Sealing!Direction, Peer, Sealing!In, Sealing!Out

\* What is among the messages after a queue has changed.
LEMMA AmongTail ==
  ASSUME NEW w \in Seq(AnyFrame), w # <<>>
  PROVE  Tail(w) \in Seq(AnyFrame) /\ Among(Tail(w)) \subseteq Among(w) /\ Head(w) \in Among(w)
<1>1. Tail(w) \in Seq(AnyFrame) /\ Len(Tail(w)) = Len(w) - 1 /\ Len(w) \in Nat /\ Len(w) > 0
  OBVIOUS
<1>2. \A n \in 1..Len(Tail(w)) : Tail(w)[n] = w[n + 1] /\ n + 1 \in 1..Len(w)
  BY <1>1
<1>3. Head(w) = w[1] /\ 1 \in 1..Len(w)
  BY <1>1
<1>. QED
  BY <1>1, <1>2, <1>3 DEF Among

\* The frames on a wire with one more behind.
LEMMA AmongAppend ==
  ASSUME NEW w \in Seq(AnyFrame), NEW f \in AnyFrame
  PROVE  Append(w, f) \in Seq(AnyFrame) /\ Among(Append(w, f)) = Among(w) \cup {f}
<1>1. Len(Append(w, f)) = Len(w) + 1 /\ Len(w) \in Nat
  OBVIOUS
<1>2. \A n \in 1..Len(w) : Append(w, f)[n] = w[n]
  OBVIOUS
<1>3. Append(w, f)[Len(w) + 1] = f
  OBVIOUS
<1>. QED
  BY <1>1, <1>2, <1>3 DEF Among

\* The frames on a wire with one more in front.
LEMMA AmongFront ==
  ASSUME NEW w \in Seq(AnyFrame), NEW f \in AnyFrame
  PROVE  <<f>> \o w \in Seq(AnyFrame) /\ Among(<<f>> \o w) = Among(w) \cup {f}
<1>1. Len(<<f>> \o w) = Len(w) + 1 /\ Len(w) \in Nat
  OBVIOUS
<1>2. \A n \in 1..Len(w) : (<<f>> \o w)[n + 1] = w[n]
  OBVIOUS
<1>3. (<<f>> \o w)[1] = f
  OBVIOUS
<1>4. \A n \in 1..(Len(w) + 1) : n = 1 \/ (n - 1 \in 1..Len(w) /\ (<<f>> \o w)[n] = w[n - 1])
  <2>. TAKE n \in 1..(Len(w) + 1)
  <2>1. CASE n = 1
    BY <2>1
  <2>2. CASE n # 1
    <3>1. n - 1 \in 1..Len(w) /\ (n - 1) + 1 = n
      BY <1>1, <2>2
    <3>. QED
      BY <1>2, <3>1
  <2>. QED
    BY <2>1, <2>2
<1>5. Among(<<f>> \o w) \subseteq Among(w) \cup {f}
  BY <1>1, <1>3, <1>4 DEF Among
<1>6. Among(w) \subseteq Among(<<f>> \o w)
  <2>. SUFFICES ASSUME NEW n \in 1..Len(w) PROVE w[n] \in Among(<<f>> \o w)
    BY DEF Among
  <2>1. n + 1 \in 1..Len(<<f>> \o w)
    BY <1>1
  <2>. QED
    BY <1>2, <2>1 DEF Among
<1>7. f \in Among(<<f>> \o w)
  BY <1>1, <1>3 DEF Among
<1>. QED
  BY <1>5, <1>6, <1>7

\* The session starts with nothing said.
LEMMA SealStarts == Sealing!Init => SealInv
<1>. SUFFICES ASSUME Sealing!Init PROVE SealInv
  OBVIOUS
<1>1. \A p \in Program : end[p] = [phase |-> "off", th |-> [ce |-> 0, se |-> 0], sendCtr |-> 0, recvCtr |-> 0]
  BY DEF Sealing!Init, Sealing!End, Sealing!NoKeys, Program
<1>2. \A d \in Direction : wire[d] = <<>> /\ sent[d] = <<>> /\ got[d] = <<>>
  BY DEF Sealing!Init, Sealing!Nothing, Direction
<1>3. conn = 0 /\ recorded = {}
  BY DEF Sealing!Init
<1>4. \A p \in Program : ~Keyed(p) /\ end[p].sendCtr = 0 /\ end[p].recvCtr = 0 /\ end[p].phase = "off"
  BY <1>1 DEF Keyed
<1>5. SealTypes
  <2>1. end \in [Program -> EndState]
    BY DEF Sealing!Init, Sealing!End, Sealing!NoKeys, Program, EndState
  <2>2. /\ wire \in [Direction -> Seq(AnyFrame)]
        /\ sent \in [Direction -> Seq(Sealing!Payload)] /\ got \in [Direction -> Seq(Sealing!Payload)]
    BY DEF Sealing!Init, Sealing!Nothing, Direction
  <2>. QED
    BY <1>3, <2>1, <2>2 DEF SealTypes
<1>6. SealKeys /\ SealRecorded
  BY <1>3, <1>4 DEF SealKeys, SealRecorded
<1>7. SealCounts
  BY <1>2, <1>4, Ends DEF SealCounts
<1>8. SealWires
  BY <1>2 DEF SealWires, Among
<1>9. SealOrder
  BY <1>2, <1>4, Ends DEF SealOrder, Among
<1>. QED
  BY <1>5, <1>6, <1>7, <1>8, <1>9 DEF SealInv


\* What a program with keys may do: take a message off its queue, go on or
\* close, and say something.
Says(p, m) ==
  /\ Keyed(Peer(p)) /\ end'[p].sendCtr = end[p].sendCtr + 1
  /\ sent'[Sealing!Out(p)] = Append(sent[Sealing!Out(p)], m)
  /\ wire'[Sealing!Out(p)] = Append(wire[Sealing!Out(p)], Sealing!Sealed(p, end[p], m))
  /\ recorded' = recorded \cup {Sealing!Sealed(p, end[p], m)}

SaysNothing(p) ==
  /\ end'[p].sendCtr = end[p].sendCtr /\ recorded' = recorded
  /\ sent'[Sealing!Out(p)] = sent[Sealing!Out(p)] /\ wire'[Sealing!Out(p)] = wire[Sealing!Out(p)]

Running(p) ==
  /\ Keyed(p) /\ end'[p].phase \in {"auth", "active", "closed"} /\ end'[p].th = end[p].th
  /\ end'[p].phase = "active" => Keyed(Peer(p))
  /\ end'[Peer(p)] = end[Peer(p)] /\ conn' = conn
  /\ Among(wire'[Sealing!In(p)]) \subseteq Among(wire[Sealing!In(p)])
  /\ sent'[Sealing!In(p)] = sent[Sealing!In(p)] /\ got'[Sealing!Out(p)] = got[Sealing!Out(p)]
  /\ Len(got'[Sealing!In(p)]) = end'[p].recvCtr
  /\ SaysNothing(p) \/ \E m \in Sealing!Payload : Says(p, m)

\* ... one message, or none.
ReadsOne(p) ==
  /\ wire'[Sealing!In(p)] = Tail(wire[Sealing!In(p)])
  /\ end'[p].recvCtr = end[p].recvCtr + 1 /\ end'[p].phase = "active"

ReadsNone(p) ==
  /\ wire'[Sealing!In(p)] = wire[Sealing!In(p)]
  /\ end'[p].recvCtr = end[p].recvCtr /\ end'[p].phase = "active"

\* Such a step keeps the invariant.
LEMMA SealRuns ==
  ASSUME SealInv, SealTypes', NEW p \in Program, Running(p)
  PROVE  SealInv'
<1>1. PICK q \in Program : q = Peer(p)
  BY Ends
<1>2. PICK i \in Direction, o \in Direction :
        i = Sealing!In(p) /\ o = Sealing!Out(p) /\ i = Sealing!Out(q) /\ o = Sealing!In(q) /\ i # o
  BY <1>1, Ends
<1>3. Program = {p, q} /\ Direction = {i, o} /\ p # q
  BY <1>1, <1>2, Ends
<1>4. Keyed(p) /\ Keyed(p)' /\ (Keyed(q)' <=> Keyed(q)) /\ end'[q] = end[q] /\ end'[p].th = end[p].th
  BY <1>1 DEF Running, Keyed
<1>5. conn' = conn /\ Among(wire'[i]) \subseteq Among(wire[i])
  BY <1>2 DEF Running
<1>6. SealKeys'
  BY <1>3, <1>4, <1>5 DEF SealInv, SealKeys
<1>7. /\ sent'[i] = sent[i] /\ got'[o] = got[o] /\ Len(got'[i]) = end'[p].recvCtr
      /\ SaysNothing(p) \/ \E m \in Sealing!Payload : Says(p, m)
  BY <1>2 DEF Running
<1>8. sent[o] \in Seq(Sealing!Payload) /\ wire[o] \in Seq(AnyFrame)
  BY DEF SealInv, SealTypes
<1>9. CASE SaysNothing(p)
  <2>1. /\ end'[p].sendCtr = end[p].sendCtr /\ recorded' = recorded
        /\ sent'[o] = sent[o] /\ wire'[o] = wire[o]
    BY <1>2, <1>9 DEF SaysNothing
  <2>2. SealCounts'
    <3>1. /\ Len(sent[o]) = end[p].sendCtr /\ Len(sent[i]) = end[q].sendCtr /\ Len(got[o]) = end[q].recvCtr
          /\ ~Keyed(q) => end[q].sendCtr = 0 /\ end[q].recvCtr = 0
      BY <1>2, <1>3 DEF SealInv, SealCounts
    <3>2. Len(sent'[o]) = end'[p].sendCtr /\ Len(got'[i]) = end'[p].recvCtr
      BY <1>7, <2>1, <3>1
    <3>3. Len(sent'[i]) = end'[q].sendCtr /\ Len(got'[o]) = end'[q].recvCtr
      BY <1>4, <1>7, <3>1
    <3>. QED
      BY <1>2, <1>3, <1>4, <3>1, <3>2, <3>3 DEF SealCounts
  <2>3. \A h \in Program : \A r \in recorded : OfSession(h, r) => OfSession(h, r)'
    BY <1>2, <1>3, <1>4, <1>7, <2>1, ZenonT(40) DEF OfSession
  <2>4. SealRecorded'
    BY <1>3, <1>5, <2>1, <2>3 DEF SealInv, SealRecorded
  <2>5. SealWires'
    BY <1>3, <1>5, <2>1 DEF SealInv, SealWires
  <2>6. \A h \in Program : ~Keyed(h)' => \A f \in Among(wire'[Sealing!In(h)]) : f.kind = "hello"
    BY <1>2, <1>3, <1>4, <1>5, <2>1 DEF SealInv, SealOrder
  <2>7. wire["down"] = <<>> => wire'["down"] = <<>>
    <3>1. CASE o = "down"
      BY <2>1, <3>1
    <3>2. CASE i = "down"
      <4>1. wire[i] = <<>> => Among(wire[i]) = {}
        BY DEF Among
      <4>2. Among(wire'[i]) = {} => wire'[i] = <<>>
        <5>1. wire'[i] \in Seq(AnyFrame)
          BY DEF SealTypes
        <5>2. wire'[i] # <<>> => 1 \in 1..Len(wire'[i])
          BY <5>1
        <5>. QED
          BY <5>2 DEF Among
      <4>. QED
        BY <1>5, <3>2, <4>1, <4>2
    <3>. QED
      BY <1>3, <3>1, <3>2, Ends
  <2>8. SealOrder'
    BY <1>1, <1>3, <1>4, <2>6, <2>7, Ends DEF SealInv, SealOrder, Running, Peer
  <2>. QED
    BY <1>6, <2>2, <2>4, <2>5, <2>8 DEF SealInv
<1>10. ASSUME NEW m \in Sealing!Payload, Says(p, m) PROVE SealInv'
  <2>1. PICK r \in SealedFrame :
          /\ r.kind = "sealed" /\ r.th = end[p].th /\ r.dir = o /\ r.ctr = end[p].sendCtr /\ r.body = m
          /\ r = Sealing!Sealed(p, end[p], m)
    <3>1. end[p] \in EndState
      BY DEF SealInv, SealTypes
    <3>. QED
      BY <1>2, <3>1 DEF Sealing!Sealed, SealedFrame, EndState
  <2>2. /\ Keyed(q) /\ end'[p].sendCtr = end[p].sendCtr + 1 /\ recorded' = recorded \cup {r}
        /\ sent'[o] = Append(sent[o], m) /\ wire'[o] = Append(wire[o], r)
    BY <1>1, <1>2, <1>10, <2>1 DEF Says
  <2>3. Len(sent[o]) = end[p].sendCtr /\ Len(sent'[o]) = Len(sent[o]) + 1
    <3>1. Len(sent[o]) = end[p].sendCtr
      BY <1>2 DEF SealInv, SealCounts
    <3>2. Len(sent'[o]) = Len(sent[o]) + 1
      BY <1>8, <2>2
    <3>. QED
      BY <3>1, <3>2
  <2>4. Among(wire'[o]) = Among(wire[o]) \cup {r}
    <3>1. r \in AnyFrame
      BY DEF AnyFrame
    <3>. QED
      BY <1>8, <2>2, <3>1, AmongAppend
  <2>5. SealCounts'
    <3>1. /\ Len(sent[i]) = end[q].sendCtr /\ Len(got[o]) = end[q].recvCtr
          /\ ~Keyed(q) => end[q].sendCtr = 0 /\ end[q].recvCtr = 0
      BY <1>2, <1>3 DEF SealInv, SealCounts
    <3>2. Len(sent'[o]) = end'[p].sendCtr /\ Len(got'[i]) = end'[p].recvCtr
      BY <1>7, <2>2, <2>3
    <3>3. Len(sent'[i]) = end'[q].sendCtr /\ Len(got'[o]) = end'[q].recvCtr
      BY <1>4, <1>7, <3>1
    <3>. QED
      BY <1>2, <1>3, <1>4, <3>1, <3>2, <3>3 DEF SealCounts
  <2>6. \A h \in Program : \A s \in recorded : OfSession(h, s) => OfSession(h, s)'
    <3>1. ASSUME NEW s \in recorded, OfSession(p, s) PROVE OfSession(p, s)'
      <4>1. s.ctr \in Nat /\ s.ctr < Len(sent[o]) /\ s.body = sent[o][s.ctr + 1]
        BY <1>2, <3>1 DEF OfSession, SealInv, SealTypes, SealedFrame
      <4>2. s.ctr < Len(sent'[o]) /\ sent'[o][s.ctr + 1] = sent[o][s.ctr + 1]
        BY <1>8, <2>2, <2>3, <4>1
      <4>. QED
        BY <1>2, <1>4, <3>1, <4>1, <4>2 DEF OfSession
    <3>2. ASSUME NEW s \in recorded, OfSession(q, s) PROVE OfSession(q, s)'
      BY <1>2, <1>4, <1>7, <3>2 DEF OfSession
    <3>. QED
      BY <1>3, <3>1, <3>2
  <2>7. OfSession(p, r)'
    <3>1. Len(sent[o]) \in Nat /\ sent'[o][Len(sent[o]) + 1] = m
      BY <1>8, <2>2
    <3>2. r.ctr < Len(sent'[o]) /\ r.body = sent'[o][r.ctr + 1]
      BY <2>1, <2>3, <3>1
    <3>. QED
      BY <1>2, <1>4, <2>1, <3>2 DEF OfSession
  <2>8. OwnKey(p, r.th) = conn /\ OtherKey(p, r.th) <= conn
    BY <1>4, <2>1 DEF SealInv, SealKeys
  <2>9. SealRecorded'
    <3>1. ASSUME NEW h \in Program, NEW s \in recorded', s.dir = Sealing!Out(h)
          PROVE  /\ OtherKey(h, s.th) <= OwnKey(h, s.th) /\ OwnKey(h, s.th) <= conn
                 /\ OwnKey(h, s.th) = conn => OfSession(h, s)'
      <4>1. CASE s \in recorded
        BY <2>6, <3>1, <4>1 DEF SealInv, SealRecorded
      <4>2. CASE s = r
        <5>1. h = p
          BY <1>2, <1>3, <2>1, <3>1, <4>2
        <5>2. conn \in Nat
          BY DEF SealInv, SealTypes
        <5>. QED
          BY <2>7, <2>8, <4>2, <5>1, <5>2
      <4>. QED
        BY <2>2, <4>1, <4>2
    <3>. QED
      BY <1>5, <3>1 DEF SealRecorded
  <2>10. SealWires'
    <3>1. ASSUME NEW d \in Direction, NEW f \in Among(wire'[d])
          PROVE  /\ f.kind = "hello" => f.key <= conn
                 /\ f.kind = "sealed" => f.body = "altered" \/ f \in recorded'
      <4>1. f = r \/ f \in Among(wire[d])
        BY <1>3, <1>5, <2>4
      <4>. QED
        BY <2>1, <2>2, <4>1 DEF SealInv, SealWires
    <3>. QED
      BY <1>5, <3>1 DEF SealWires
  <2>11. SealOrder'
    <3>1. Keyed(p)' /\ Keyed(q)'
      BY <1>4, <2>2
    <3>2. \A h \in Program : Keyed(h)'
      BY <1>3, <3>1
    <3>. QED
      BY <3>2, Ends DEF SealOrder
  <2>. QED
    BY <1>6, <2>5, <2>9, <2>10, <2>11 DEF SealInv
<1>. QED
  BY <1>7, <1>9, <1>10


\* What a program opens was sealed by the other one, in this session, and is
\* the next it has not read.
LEMMA OpensTrue ==
  ASSUME SealInv, NEW p \in Program, Keyed(p), NEW f \in Among(wire[Sealing!In(p)]), Sealing!Opens(p, f)
  PROVE  f \in recorded /\ OfSession(Peer(p), f) /\ f.ctr = Len(got[Sealing!In(p)])
<1>1. PICK q \in Program : q = Peer(p)
  BY Ends
<1>2. f.kind = "sealed" /\ f.body # "altered" /\ f.th = end[p].th /\ f.dir = Sealing!In(p)
      /\ f.ctr = end[p].recvCtr
  BY DEF Sealing!Opens
<1>3. Sealing!In(p) \in Direction /\ Sealing!In(p) = Sealing!Out(q)
  BY <1>1, Ends
<1>4. f \in recorded
  BY <1>2, <1>3 DEF SealInv, SealWires
<1>5. /\ OtherKey(q, f.th) <= OwnKey(q, f.th) /\ OwnKey(q, f.th) <= conn
      /\ OwnKey(q, f.th) = conn => OfSession(q, f)
  BY <1>2, <1>3, <1>4 DEF SealInv, SealRecorded
<1>6. OtherKey(q, f.th) = conn
  BY <1>1, <1>2, Ends DEF SealInv, SealKeys, OwnKey, OtherKey, Peer
<1>7. OwnKey(q, f.th) \in Nat /\ conn \in Nat
  BY <1>4 DEF SealInv, SealTypes, SealedFrame, OwnKey
<1>8. OwnKey(q, f.th) = conn
  BY <1>5, <1>6, <1>7
<1>9. f.ctr = Len(got[Sealing!In(p)])
  BY <1>2 DEF SealInv, SealCounts
<1>. QED
  BY <1>1, <1>4, <1>5, <1>8, <1>9

\* The counters of an end and its phase, changed one at a time.
LEMMA EndUpdates ==
  ASSUME NEW e \in EndState
  PROVE  /\ \E d \in EndState : /\ d = [e EXCEPT !.sendCtr = @ + 1]
                                /\ d.th = e.th /\ d.sendCtr = e.sendCtr + 1 /\ d.recvCtr = e.recvCtr
                                /\ d.phase = e.phase
         /\ \E d \in EndState : /\ d = [e EXCEPT !.recvCtr = @ + 1, !.phase = "active"]
                                /\ d.th = e.th /\ d.sendCtr = e.sendCtr /\ d.recvCtr = e.recvCtr + 1
                                /\ d.phase = "active"
         /\ \E d \in EndState : /\ d = [e EXCEPT !.phase = "closed"]
                                /\ d.th = e.th /\ d.sendCtr = e.sendCtr /\ d.recvCtr = e.recvCtr
                                /\ d.phase = "closed"
<1>1. e.sendCtr + 1 \in Nat /\ e.recvCtr + 1 \in Nat
  BY DEF EndState
<1>2. [e EXCEPT !.sendCtr = @ + 1] =
        [phase |-> e.phase, th |-> e.th, sendCtr |-> e.sendCtr + 1, recvCtr |-> e.recvCtr]
  BY DEF EndState
<1>3. [e EXCEPT !.recvCtr = @ + 1, !.phase = "active"] =
        [phase |-> "active", th |-> e.th, sendCtr |-> e.sendCtr, recvCtr |-> e.recvCtr + 1]
  <2>1. PICK d \in EndState :
          d = [phase |-> e.phase, th |-> e.th, sendCtr |-> e.sendCtr, recvCtr |-> e.recvCtr + 1]
    BY <1>1 DEF EndState
  <2>2. d = [e EXCEPT !.recvCtr = @ + 1]
    BY <2>1 DEF EndState
  <2>3. [d EXCEPT !.phase = "active"] = [e EXCEPT !.recvCtr = @ + 1, !.phase = "active"]
    BY <2>2
  <2>4. [d EXCEPT !.phase = "active"] =
          [phase |-> "active", th |-> d.th, sendCtr |-> d.sendCtr, recvCtr |-> d.recvCtr]
    BY DEF EndState
  <2>. QED
    BY <2>1, <2>3, <2>4
<1>4. [e EXCEPT !.phase = "closed"] =
        [phase |-> "closed", th |-> e.th, sendCtr |-> e.sendCtr, recvCtr |-> e.recvCtr]
  BY DEF EndState
<1>. QED
  BY <1>1, <1>2, <1>3, <1>4 DEF EndState

\* A program that has keys and reads a message that opens, ...
LEMMA AcceptRuns ==
  ASSUME SealInv, NEW p \in Program, Keyed(p), end[p].phase \in {"auth", "active"},
         wire[Sealing!In(p)] # <<>>, NEW f, f = Head(wire[Sealing!In(p)]), Sealing!Opens(p, f),
         NEW w, w = [wire EXCEPT ![Sealing!In(p)] = Tail(wire[Sealing!In(p)])],
         Sealing!Accept(p, f, w), conn' = conn
  PROVE  /\ Running(p) /\ SealTypes' /\ ReadsOne(p)
         /\ got'[Sealing!In(p)] = Append(got[Sealing!In(p)], f.body)
<1>1. PICK q \in Program : q = Peer(p)
  BY Ends
<1>2. PICK i \in Direction, o \in Direction :
        i = Sealing!In(p) /\ o = Sealing!Out(p) /\ i = Sealing!Out(q) /\ o = Sealing!In(q) /\ i # o
  BY <1>1, Ends
<1>3. Program = {p, q} /\ Direction = {i, o} /\ p # q
  BY <1>1, <1>2, Ends
<1>4. /\ end \in [Program -> EndState] /\ wire \in [Direction -> Seq(AnyFrame)] /\ conn \in Nat
      /\ sent \in [Direction -> Seq(Sealing!Payload)] /\ got \in [Direction -> Seq(Sealing!Payload)]
      /\ recorded \in SUBSET SealedFrame
  BY DEF SealInv, SealTypes
<1>5. f \in Among(wire[i]) /\ Tail(wire[i]) \in Seq(AnyFrame) /\ Among(Tail(wire[i])) \subseteq Among(wire[i])
  BY <1>2, <1>4, AmongTail
<1>6. f \in recorded /\ OfSession(q, f)
  BY <1>1, <1>2, <1>5, OpensTrue
<1>7. f.body \in Sealing!Payload
  BY <1>4, <1>6 DEF SealedFrame, Sealing!Opens
<1>8. PICK e \in EndState :
        /\ e = [end[p] EXCEPT !.recvCtr = @ + 1, !.phase = "active"]
        /\ e.th = end[p].th /\ e.sendCtr = end[p].sendCtr /\ e.recvCtr = end[p].recvCtr + 1
        /\ e.phase = "active"
  <2>1. end[p] \in EndState
    BY <1>4
  <2>. QED
    BY <2>1, EndUpdates
<1>9. got' = [got EXCEPT ![i] = Append(got[i], f.body)]
  BY <1>2 DEF Sealing!Accept
<1>10. got'[i] = Append(got[i], f.body) /\ got'[o] = got[o] /\ got' \in [Direction -> Seq(Sealing!Payload)]
  <2>1. Append(got[i], f.body) \in Seq(Sealing!Payload)
    BY <1>4, <1>7
  <2>. QED
    BY <1>2, <1>4, <1>9, <2>1
<1>11. Len(got'[i]) = e.recvCtr
  <2>1. Len(got[i]) = end[p].recvCtr
    BY <1>2 DEF SealInv, SealCounts
  <2>. QED
    BY <1>4, <1>8, <1>10, <2>1, SMTT(40)
<1>12. w[i] = Tail(wire[i]) /\ w[o] = wire[o] /\ w \in [Direction -> Seq(AnyFrame)]
  BY <1>2, <1>3, <1>4, <1>5
<1>13. Keyed(q)
  BY <1>6 DEF OfSession
<1>14. CASE Sealing!Quietly(p, e, w)
  <2>1. end' = [end EXCEPT ![p] = e] /\ wire' = w /\ sent' = sent /\ recorded' = recorded
    BY <1>14 DEF Sealing!Quietly
  <2>2. end'[p] = e /\ end'[q] = end[q] /\ end' \in [Program -> EndState]
    BY <1>3, <1>4, <1>8, <2>1
  <2>3. SealTypes'
    BY <1>4, <1>10, <1>12, <2>1, <2>2 DEF SealTypes
  <2>4. SaysNothing(p)
    BY <1>2, <1>8, <1>12, <2>1, <2>2 DEF SaysNothing
  <2>5. Running(p)
    BY <1>1, <1>2, <1>5, <1>8, <1>10, <1>11, <1>12, <1>13, <2>1, <2>2, <2>4 DEF Running
  <2>6. ReadsOne(p)
    BY <1>2, <1>8, <1>12, <2>1, <2>2 DEF ReadsOne
  <2>. QED
    BY <1>2, <1>10, <2>3, <2>5, <2>6
<1>15. ASSUME NEW m \in Sealing!Payload, Sealing!Transmit(p, e, m, w)
       PROVE  Running(p) /\ SealTypes' /\ ReadsOne(p)
  <2>1. PICK r \in SealedFrame : r = Sealing!Sealed(p, e, m) /\ r = Sealing!Sealed(p, end[p], m)
    <3>1. Sealing!Sealed(p, e, m) = Sealing!Sealed(p, end[p], m)
      BY <1>8 DEF Sealing!Sealed
    <3>2. Sealing!Sealed(p, e, m) \in SealedFrame
      BY <1>2, <1>8 DEF Sealing!Sealed, SealedFrame, EndState
    <3>. QED
      BY <3>1, <3>2
  <2>2. PICK d \in EndState :
          /\ d = [e EXCEPT !.sendCtr = @ + 1]
          /\ d.th = end[p].th /\ d.sendCtr = end[p].sendCtr + 1 /\ d.recvCtr = e.recvCtr /\ d.phase = "active"
    <3>1. \E d \in EndState :
            /\ d = [e EXCEPT !.sendCtr = @ + 1]
            /\ d.th = e.th /\ d.sendCtr = e.sendCtr + 1 /\ d.recvCtr = e.recvCtr /\ d.phase = e.phase
      BY EndUpdates
    <3>. QED
      BY <1>8, <3>1
  <2>3. /\ end' = [end EXCEPT ![p] = d] /\ wire' = [w EXCEPT ![o] = Append(w[o], r)]
        /\ sent' = [sent EXCEPT ![o] = Append(sent[o], m)] /\ recorded' = recorded \cup {r}
    BY <1>2, <1>15, <2>1, <2>2 DEF Sealing!Transmit
  <2>4. end'[p] = d /\ end'[q] = end[q] /\ end' \in [Program -> EndState]
    BY <1>3, <1>4, <2>2, <2>3
  <2>5. Append(wire[o], r) \in Seq(AnyFrame)
    <3>1. r \in AnyFrame
      BY DEF AnyFrame
    <3>. QED
      BY <1>4, <3>1, AmongAppend
  <2>6. wire'[o] = Append(wire[o], r) /\ wire'[i] = Tail(wire[i]) /\ wire' \in [Direction -> Seq(AnyFrame)]
    BY <1>2, <1>12, <2>3, <2>5
  <2>7. sent'[o] = Append(sent[o], m) /\ sent'[i] = sent[i] /\ sent' \in [Direction -> Seq(Sealing!Payload)]
    BY <1>2, <1>4, <2>3
  <2>8. SealTypes'
    BY <1>4, <1>10, <2>3, <2>4, <2>6, <2>7 DEF SealTypes
  <2>9. Says(p, m)
    BY <1>1, <1>2, <1>13, <2>1, <2>2, <2>3, <2>4, <2>6, <2>7 DEF Says
  <2>10. Running(p)
    BY <1>1, <1>2, <1>5, <1>10, <1>11, <1>13, <2>2, <2>4, <2>6, <2>7, <2>9 DEF Running
  <2>11. ReadsOne(p)
    BY <1>2, <1>8, <2>2, <2>4, <2>6 DEF ReadsOne
  <2>. QED
    BY <2>8, <2>10, <2>11
<1>16. Sealing!Quietly(p, e, w) \/ Sealing!Transmit(p, e, "accepted", w)
  BY <1>8 DEF Sealing!Accept
<1>17. "accepted" \in Sealing!Payload
  BY DEF Sealing!Payload
<1>. QED
  BY <1>2, <1>10, <1>14, <1>15, <1>16, <1>17


\* ... or one that does not, ...
LEMMA CloseRuns ==
  ASSUME SealInv, NEW p \in Program, Keyed(p), wire[Sealing!In(p)] # <<>>,
         NEW w, w = [wire EXCEPT ![Sealing!In(p)] = Tail(wire[Sealing!In(p)])],
         Sealing!Quietly(p, [end[p] EXCEPT !.phase = "closed"], w), got' = got, conn' = conn
  PROVE  Running(p) /\ SealTypes'
<1>1. PICK q \in Program : q = Peer(p)
  BY Ends
<1>2. PICK i \in Direction, o \in Direction :
        i = Sealing!In(p) /\ o = Sealing!Out(p) /\ i = Sealing!Out(q) /\ o = Sealing!In(q) /\ i # o
  BY <1>1, Ends
<1>3. Program = {p, q} /\ Direction = {i, o} /\ p # q
  BY <1>1, <1>2, Ends
<1>4. /\ end \in [Program -> EndState] /\ wire \in [Direction -> Seq(AnyFrame)] /\ conn \in Nat
      /\ sent \in [Direction -> Seq(Sealing!Payload)] /\ got \in [Direction -> Seq(Sealing!Payload)]
      /\ recorded \in SUBSET SealedFrame
  BY DEF SealInv, SealTypes
<1>5. Tail(wire[i]) \in Seq(AnyFrame) /\ Among(Tail(wire[i])) \subseteq Among(wire[i])
  BY <1>2, <1>4, AmongTail
<1>6. w[i] = Tail(wire[i]) /\ w[o] = wire[o] /\ w \in [Direction -> Seq(AnyFrame)]
  BY <1>2, <1>3, <1>4, <1>5
<1>7. PICK e \in EndState :
        /\ e = [end[p] EXCEPT !.phase = "closed"]
        /\ e.th = end[p].th /\ e.sendCtr = end[p].sendCtr /\ e.recvCtr = end[p].recvCtr /\ e.phase = "closed"
  <2>1. end[p] \in EndState
    BY <1>4
  <2>. QED
    BY <2>1, EndUpdates
<1>8. end' = [end EXCEPT ![p] = e] /\ wire' = w /\ sent' = sent /\ recorded' = recorded
  BY <1>7 DEF Sealing!Quietly
<1>9. end'[p] = e /\ end'[q] = end[q] /\ end' \in [Program -> EndState]
  BY <1>3, <1>4, <1>8
<1>10. SealTypes'
  BY <1>4, <1>6, <1>8, <1>9 DEF SealTypes
<1>11. SaysNothing(p)
  BY <1>2, <1>6, <1>7, <1>8, <1>9 DEF SaysNothing
<1>12. Len(got[i]) = end[p].recvCtr
  BY <1>2 DEF SealInv, SealCounts
<1>13. Running(p)
  BY <1>1, <1>2, <1>5, <1>6, <1>7, <1>8, <1>9, <1>11, <1>12 DEF Running
<1>. QED
  BY <1>10, <1>13

\* ... or says something.
LEMMA SayRuns ==
  ASSUME SealInv, NEW p \in Program, NEW m \in Sealing!Payload, end[p].phase = "active",
         Sealing!Transmit(p, end[p], m, wire), got' = got, conn' = conn
  PROVE  Running(p) /\ SealTypes' /\ ReadsNone(p)
<1>1. PICK q \in Program : q = Peer(p)
  BY Ends
<1>2. PICK i \in Direction, o \in Direction :
        i = Sealing!In(p) /\ o = Sealing!Out(p) /\ i = Sealing!Out(q) /\ o = Sealing!In(q) /\ i # o
  BY <1>1, Ends
<1>3. Program = {p, q} /\ Direction = {i, o} /\ p # q
  BY <1>1, <1>2, Ends
<1>4. /\ end \in [Program -> EndState] /\ wire \in [Direction -> Seq(AnyFrame)] /\ conn \in Nat
      /\ sent \in [Direction -> Seq(Sealing!Payload)] /\ got \in [Direction -> Seq(Sealing!Payload)]
      /\ recorded \in SUBSET SealedFrame
  BY DEF SealInv, SealTypes
<1>5. PICK e \in EndState : e = end[p]
  BY <1>4
<1>6. PICK d \in EndState :
        /\ d = [e EXCEPT !.sendCtr = @ + 1]
        /\ d.th = end[p].th /\ d.sendCtr = end[p].sendCtr + 1 /\ d.recvCtr = end[p].recvCtr /\ d.phase = "active"
  <2>1. \E d \in EndState :
          /\ d = [e EXCEPT !.sendCtr = @ + 1]
          /\ d.th = e.th /\ d.sendCtr = e.sendCtr + 1 /\ d.recvCtr = e.recvCtr /\ d.phase = e.phase
    BY EndUpdates
  <2>. QED
    BY <1>5, <2>1
<1>7. PICK r \in SealedFrame : r = Sealing!Sealed(p, end[p], m)
  BY <1>2, <1>5 DEF Sealing!Sealed, SealedFrame, EndState
<1>8. /\ end' = [end EXCEPT ![p] = d] /\ wire' = [wire EXCEPT ![o] = Append(wire[o], r)]
      /\ sent' = [sent EXCEPT ![o] = Append(sent[o], m)] /\ recorded' = recorded \cup {r}
  BY <1>2, <1>5, <1>6, <1>7 DEF Sealing!Transmit
<1>9. end'[p] = d /\ end'[q] = end[q] /\ end' \in [Program -> EndState]
  BY <1>3, <1>4, <1>8
<1>10. Append(wire[o], r) \in Seq(AnyFrame)
  <2>1. r \in AnyFrame
    BY DEF AnyFrame
  <2>. QED
    BY <1>4, <2>1, AmongAppend
<1>11. wire'[o] = Append(wire[o], r) /\ wire'[i] = wire[i] /\ wire' \in [Direction -> Seq(AnyFrame)]
  BY <1>2, <1>4, <1>8, <1>10
<1>12. sent'[o] = Append(sent[o], m) /\ sent'[i] = sent[i] /\ sent' \in [Direction -> Seq(Sealing!Payload)]
  BY <1>2, <1>4, <1>8
<1>13. SealTypes'
  BY <1>4, <1>8, <1>9, <1>11, <1>12 DEF SealTypes
<1>14. Keyed(p) /\ Keyed(q)
  <2>1. Keyed(p)
    BY DEF Keyed
  <2>2. Keyed("viewer") => Keyed("host")
    BY DEF SealInv, SealOrder
  <2>3. end["host"].phase = "active" => Keyed("viewer")
    BY DEF SealInv, SealOrder
  <2>. QED
    BY <1>1, <2>1, <2>2, <2>3, Ends DEF Peer
<1>15. Says(p, m)
  BY <1>1, <1>2, <1>6, <1>7, <1>8, <1>9, <1>11, <1>12, <1>14 DEF Says
<1>16. Len(got[i]) = end[p].recvCtr
  BY <1>2 DEF SealInv, SealCounts
<1>17. Running(p)
  BY <1>1, <1>2, <1>6, <1>9, <1>11, <1>12, <1>14, <1>15, <1>16 DEF Running
<1>18. ReadsNone(p)
  BY <1>2, <1>6, <1>9, <1>11 DEF ReadsNone
<1>. QED
  BY <1>13, <1>17, <1>18

\* Connecting forgets the keys, and makes one that was never used.
LEMMA ConnectSeals ==
  ASSUME SealInv, Sealing!Connect
  PROVE  SealInv'
<1>1. /\ end \in [Program -> EndState] /\ conn \in Nat /\ conn' = conn + 1
      /\ recorded \in SUBSET SealedFrame /\ recorded' = recorded
  BY DEF SealInv, SealTypes, Sealing!Connect
<1>2. \A p \in Program : end'[p] = [phase |-> "hello", th |-> [ce |-> 0, se |-> 0], sendCtr |-> 0, recvCtr |-> 0]
  BY DEF Sealing!Connect, Sealing!End, Sealing!NoKeys, Program
<1>3. end' \in [Program -> EndState]
  <2>1. [phase |-> "hello", th |-> [ce |-> 0, se |-> 0], sendCtr |-> 0, recvCtr |-> 0] \in EndState
    BY DEF EndState
  <2>. QED
    BY <2>1 DEF Sealing!Connect, Sealing!End, Sealing!NoKeys, Program
<1>4. PICK f \in HelloFrame : f = Sealing!Hello(conn') /\ f.kind = "hello" /\ f.key = conn'
  <2>1. conn' \in Nat
    BY <1>1
  <2>2. [kind |-> "hello", key |-> conn'] \in HelloFrame
    BY <2>1 DEF HelloFrame
  <2>. QED
    BY <2>2 DEF Sealing!Hello
<1>5. wire'["up"] = <<f>> /\ wire'["down"] = <<>>
  BY <1>4, Ends DEF Sealing!Connect, Sealing!Nothing, Direction
<1>6. \A d \in Direction : sent'[d] = <<>> /\ got'[d] = <<>>
  BY DEF Sealing!Connect, Sealing!Nothing, Direction
<1>7. SealTypes'
  <2>1. <<f>> \in Seq(AnyFrame) /\ <<>> \in Seq(AnyFrame)
    <3>1. f \in AnyFrame
      BY DEF AnyFrame
    <3>. QED
      BY <3>1
  <2>2. wire' \in [Direction -> Seq(AnyFrame)]
    BY <1>4, <2>1 DEF Sealing!Connect, Sealing!Nothing, Direction
  <2>3. sent' \in [Direction -> Seq(Sealing!Payload)] /\ got' \in [Direction -> Seq(Sealing!Payload)]
    BY DEF Sealing!Connect, Sealing!Nothing, Direction
  <2>. QED
    BY <1>1, <1>3, <2>2, <2>3 DEF SealTypes
<1>8. \A p \in Program : ~Keyed(p)' /\ end'[p].sendCtr = 0 /\ end'[p].recvCtr = 0
  BY <1>2 DEF Keyed
<1>9. SealKeys' /\ SealCounts'
  BY <1>6, <1>8, Ends DEF SealKeys, SealCounts
<1>10. SealRecorded'
  <2>. SUFFICES ASSUME NEW p \in Program, NEW r \in recorded, r.dir = Sealing!Out(p)
                PROVE  /\ OtherKey(p, r.th) <= OwnKey(p, r.th) /\ OwnKey(p, r.th) <= conn'
                       /\ OwnKey(p, r.th) # conn'
    BY <1>1 DEF SealRecorded
  <2>1. OtherKey(p, r.th) <= OwnKey(p, r.th) /\ OwnKey(p, r.th) <= conn
    BY DEF SealInv, SealRecorded
  <2>2. OwnKey(p, r.th) \in Nat
    BY <1>1 DEF SealedFrame, OwnKey
  <2>. QED
    BY <1>1, <2>1, <2>2
<1>11. Among(wire'["up"]) = {f} /\ Among(wire'["down"]) = {}
  BY <1>5 DEF Among
<1>12. SealWires' /\ SealOrder'
  <2>1. \A d \in Direction : \A g \in Among(wire'[d]) : g = f
    BY <1>11, Ends
  <2>2. SealWires'
    BY <1>1, <1>4, <2>1 DEF SealWires
  <2>3. SealOrder'
    BY <1>2, <1>4, <1>5, <1>8, <2>1, Ends DEF SealOrder
  <2>. QED
    BY <2>2, <2>3
<1>. QED
  BY <1>7, <1>9, <1>10, <1>12 DEF SealInv


\* A program without keys finds a HELLO first.
LEMMA HelloFirst ==
  ASSUME SealInv, NEW p \in Program, ~Keyed(p), wire[Sealing!In(p)] # <<>>
  PROVE  \E f \in HelloFrame : f = Head(wire[Sealing!In(p)]) /\ f.key \in 0..conn
<1>1. PICK i \in Direction : i = Sealing!In(p)
  BY Ends
<1>2. wire[i] \in Seq(AnyFrame) /\ conn \in Nat
  BY DEF SealInv, SealTypes
<1>3. PICK f : f = Head(wire[i])
  OBVIOUS
<1>4. f \in Among(wire[i]) /\ f \in AnyFrame
  BY <1>1, <1>2, <1>3, AmongTail
<1>5. f.kind = "hello" /\ f.key <= conn
  BY <1>1, <1>4 DEF SealInv, SealOrder, SealWires
<1>6. f \in HelloFrame
  BY <1>4, <1>5 DEF AnyFrame, SealedFrame
<1>. QED
  BY <1>1, <1>2, <1>3, <1>5, <1>6 DEF HelloFrame

\* The host's keys are of its own new one and what the HELLO said.
LEMMA HostGreets ==
  ASSUME SealInv, ~Keyed("host"), wire["up"] # <<>>, NEW k, k = Head(wire["up"]).key,
         NEW w, w = [wire EXCEPT !["up"] = Tail(wire["up"])],
         Sealing!Greet("host", k, w), conn' = conn
  PROVE  /\ SealInv' /\ sent' = sent /\ end'["viewer"] = end["viewer"] /\ ~Keyed("viewer")
         /\ end'["host"].phase = "auth" /\ end'["host"].th = [ce |-> k, se |-> conn] /\ end'["host"].recvCtr = 0
         /\ wire'["up"] = Tail(wire["up"]) /\ wire'["down"] = Append(<<>>, Sealing!Hello(conn))
<1>1. /\ end \in [Program -> EndState] /\ wire \in [Direction -> Seq(AnyFrame)] /\ conn \in Nat
      /\ sent \in [Direction -> Seq(Sealing!Payload)] /\ got \in [Direction -> Seq(Sealing!Payload)]
      /\ recorded \in SUBSET SealedFrame
  BY DEF SealInv, SealTypes
<1>2. /\ Sealing!In("host") = "up" /\ Sealing!Out("host") = "down"
      /\ Sealing!In("viewer") = "down" /\ Sealing!Out("viewer") = "up"
  BY DEF Sealing!In, Sealing!Out
<1>3. k \in 0..conn
  BY <1>2, Ends, HelloFirst
<1>4. PICK e \in EndState :
        /\ e = Sealing!End("auth", [ce |-> k, se |-> conn])
        /\ e.th = [ce |-> k, se |-> conn] /\ e.phase = "auth" /\ e.sendCtr = 0 /\ e.recvCtr = 0
  <2>1. [ce |-> k, se |-> conn] \in [ce : Nat, se : Nat]
    BY <1>1, <1>3
  <2>2. [phase |-> "auth", th |-> [ce |-> k, se |-> conn], sendCtr |-> 0, recvCtr |-> 0] \in EndState
    BY <2>1 DEF EndState
  <2>. QED
    BY <2>2 DEF Sealing!End
<1>5. PICK f \in HelloFrame : f = Sealing!Hello(conn) /\ f.kind = "hello" /\ f.key = conn
  <2>1. [kind |-> "hello", key |-> conn] \in HelloFrame
    BY <1>1 DEF HelloFrame
  <2>. QED
    BY <2>1 DEF Sealing!Hello
<1>6. /\ end' = [end EXCEPT !["host"] = e] /\ wire' = [w EXCEPT !["down"] = Append(w["down"], f)]
      /\ sent' = sent /\ recorded' = recorded /\ got' = got
  BY <1>4, <1>5 DEF Sealing!Greet, Sealing!Quietly
<1>7. end'["host"] = e /\ end'["viewer"] = end["viewer"] /\ end' \in [Program -> EndState]
  BY <1>1, <1>6, Ends
<1>8. wire["down"] = <<>> /\ ~Keyed("viewer")
  BY DEF SealInv, SealOrder
<1>9. Tail(wire["up"]) \in Seq(AnyFrame) /\ Among(Tail(wire["up"])) \subseteq Among(wire["up"])
  BY <1>1, Ends, AmongTail
<1>10. Append(<<>>, f) \in Seq(AnyFrame) /\ Among(Append(<<>>, f)) = {f}
  <2>1. f \in AnyFrame /\ <<>> \in Seq(AnyFrame) /\ Among(<<>>) = {}
    BY DEF AnyFrame, Among
  <2>. QED
    BY <2>1, AmongAppend
<1>11. wire'["up"] = Tail(wire["up"]) /\ wire'["down"] = Append(<<>>, f) /\ wire' \in [Direction -> Seq(AnyFrame)]
  BY <1>1, <1>6, <1>8, <1>9, <1>10, Ends
<1>12. SealTypes'
  BY <1>1, <1>6, <1>7, <1>11 DEF SealTypes, Sealing!Greet
<1>13. Keyed("host")' /\ ~Keyed("viewer")'
  BY <1>4, <1>7, <1>8 DEF Keyed
<1>14. SealKeys'
  BY <1>3, <1>4, <1>7, <1>13, Ends DEF SealKeys, OwnKey, OtherKey
<1>15. SealCounts'
  <2>1. Len(sent["down"]) = 0 /\ Len(got["up"]) = 0
    BY <1>2, Ends DEF SealInv, SealCounts
  <2>2. /\ Len(sent["up"]) = end["viewer"].sendCtr /\ Len(got["down"]) = end["viewer"].recvCtr
        /\ ~Keyed("viewer") => end["viewer"].sendCtr = 0 /\ end["viewer"].recvCtr = 0
    BY <1>2, Ends DEF SealInv, SealCounts
  <2>. QED
    BY <1>2, <1>4, <1>6, <1>7, <1>8, <1>13, <2>1, <2>2, Ends DEF SealCounts
<1>16. SealRecorded'
  <2>. SUFFICES ASSUME NEW p \in Program, NEW r \in recorded, r.dir = Sealing!Out(p)
                PROVE  /\ OtherKey(p, r.th) <= OwnKey(p, r.th) /\ OwnKey(p, r.th) <= conn
                       /\ OwnKey(p, r.th) # conn
    BY <1>6 DEF SealRecorded
  <2>1. ~Keyed(p)
    BY <1>8, Ends
  <2>. QED
    BY <2>1 DEF SealInv, SealRecorded, OfSession
<1>17. SealWires'
  <2>1. \A d \in Direction : \A g \in Among(wire'[d]) : g = f \/ g \in Among(wire[d])
    <3>1. Among(wire'["up"]) \subseteq Among(wire["up"])
      BY <1>9, <1>11
    <3>2. Among(wire'["down"]) = {f}
      BY <1>10, <1>11
    <3>. QED
      BY <3>1, <3>2, Ends, SMTT(40)
  <2>2. \A d \in Direction : \A g \in Among(wire[d]) :
          /\ g.kind = "hello" => g.key <= conn
          /\ g.kind = "sealed" => g.body = "altered" \/ g \in recorded
    BY DEF SealInv, SealWires
  <2>3. f.kind = "hello" /\ f.key <= conn
    BY <1>1, <1>5
  <2>4. \A d \in Direction : \A g \in Among(wire'[d]) :
          /\ g.kind = "hello" => g.key <= conn
          /\ g.kind = "sealed" => g.body = "altered" \/ g \in recorded
    BY <2>1, <2>2, <2>3
  <2>. QED
    BY <1>6, <2>4 DEF SealWires
<1>18. SealOrder'
  BY <1>2, <1>4, <1>5, <1>7, <1>10, <1>11, <1>13, Ends DEF SealOrder
<1>19. SealInv'
  BY <1>12, <1>14, <1>15, <1>16, <1>17, <1>18 DEF SealInv
<1>. QED
  BY <1>4, <1>5, <1>6, <1>7, <1>8, <1>11, <1>19

\* The viewer's likewise, and it says the password's proof at once.
SaysAuth(k) ==
  \E r \in SealedFrame :
    /\ wire'["up"] = Append(wire["up"], r) /\ r.kind = "sealed" /\ r.dir = "up" /\ r.ctr = 0
    /\ r.th = [ce |-> conn, se |-> k] /\ r.body = "auth"

\* The viewer reads the host's HELLO and has the keys of this connection.
LEMMA ViewerGreets ==
  ASSUME SealInv, ~Keyed("viewer"), wire["down"] # <<>>, NEW k, k = Head(wire["down"]).key,
         NEW w, w = [wire EXCEPT !["down"] = Tail(wire["down"])],
         Sealing!Greet("viewer", k, w), conn' = conn
  PROVE  /\ SealInv' /\ end'["host"] = end["host"] /\ Keyed("host")
         /\ sent["up"] = <<>> /\ sent'["up"] = Append(sent["up"], "auth") /\ sent'["down"] = sent["down"]
         /\ end'["viewer"].phase = "auth" /\ end'["viewer"].th = [ce |-> conn, se |-> k]
         /\ end'["viewer"].recvCtr = 0
         /\ wire'["down"] = Tail(wire["down"]) /\ SaysAuth(k)
<1>1. /\ end \in [Program -> EndState] /\ wire \in [Direction -> Seq(AnyFrame)] /\ conn \in Nat
      /\ sent \in [Direction -> Seq(Sealing!Payload)] /\ got \in [Direction -> Seq(Sealing!Payload)]
      /\ recorded \in SUBSET SealedFrame
  BY DEF SealInv, SealTypes
<1>2. /\ Sealing!In("host") = "up" /\ Sealing!Out("host") = "down"
      /\ Sealing!In("viewer") = "down" /\ Sealing!Out("viewer") = "up"
  BY DEF Sealing!In, Sealing!Out
<1>3. k \in 0..conn
  BY <1>2, Ends, HelloFirst
<1>4. PICK e \in EndState :
        /\ e = Sealing!End("auth", [ce |-> conn, se |-> k])
        /\ e.th = [ce |-> conn, se |-> k] /\ e.phase = "auth" /\ e.sendCtr = 0 /\ e.recvCtr = 0
  <2>1. [ce |-> conn, se |-> k] \in [ce : Nat, se : Nat]
    BY <1>1, <1>3
  <2>2. [phase |-> "auth", th |-> [ce |-> conn, se |-> k], sendCtr |-> 0, recvCtr |-> 0] \in EndState
    BY <2>1 DEF EndState
  <2>. QED
    BY <2>2 DEF Sealing!End
<1>5. PICK d \in EndState :
        /\ d = [e EXCEPT !.sendCtr = @ + 1]
        /\ d.th = e.th /\ d.sendCtr = 1 /\ d.recvCtr = 0 /\ d.phase = "auth"
  <2>1. \E d \in EndState :
          /\ d = [e EXCEPT !.sendCtr = @ + 1]
          /\ d.th = e.th /\ d.sendCtr = e.sendCtr + 1 /\ d.recvCtr = e.recvCtr /\ d.phase = e.phase
    BY EndUpdates
  <2>2. e.sendCtr + 1 = 1 /\ e.recvCtr = 0 /\ e.phase = "auth"
    BY <1>4
  <2>. QED
    BY <2>1, <2>2
<1>6. "auth" \in Sealing!Payload
  BY DEF Sealing!Payload
<1>7. PICK r \in SealedFrame :
        /\ r = Sealing!Sealed("viewer", e, "auth") /\ r.kind = "sealed" /\ r.th = e.th
        /\ r.dir = "up" /\ r.ctr = 0 /\ r.body = "auth"
  <2>1. e.th \in [ce : Nat, se : Nat] /\ "up" \in Direction /\ e.sendCtr = 0
    BY <1>4, Ends DEF EndState
  <2>2. [kind |-> "sealed", th |-> e.th, dir |-> "up", ctr |-> 0, body |-> "auth"] \in SealedFrame
    BY <1>6, <2>1 DEF SealedFrame
  <2>3. Sealing!Sealed("viewer", e, "auth")
          = [kind |-> "sealed", th |-> e.th, dir |-> "up", ctr |-> 0, body |-> "auth"]
    BY <1>2, <2>1 DEF Sealing!Sealed
  <2>. QED
    BY <2>2, <2>3
<1>8. /\ end' = [end EXCEPT !["viewer"] = d] /\ wire' = [w EXCEPT !["up"] = Append(w["up"], r)]
      /\ sent' = [sent EXCEPT !["up"] = Append(sent["up"], "auth")]
      /\ recorded' = recorded \cup {r} /\ got' = got
  BY <1>2, <1>4, <1>5, <1>7 DEF Sealing!Greet, Sealing!Transmit
<1>9. end'["viewer"] = d /\ end'["host"] = end["host"] /\ end' \in [Program -> EndState]
  BY <1>1, <1>8, Ends
<1>10. Keyed("host") /\ Keyed("host")' /\ Keyed("viewer")'
  BY <1>4, <1>5, <1>9 DEF SealInv, SealOrder, Keyed
<1>11. Tail(wire["down"]) \in Seq(AnyFrame) /\ Among(Tail(wire["down"])) \subseteq Among(wire["down"])
  BY <1>1, Ends, AmongTail
<1>12. Append(wire["up"], r) \in Seq(AnyFrame) /\ Among(Append(wire["up"], r)) = Among(wire["up"]) \cup {r}
  <2>1. r \in AnyFrame /\ wire["up"] \in Seq(AnyFrame)
    BY <1>1, Ends DEF AnyFrame
  <2>. QED
    BY <2>1, AmongAppend
<1>13. /\ wire'["up"] = Append(wire["up"], r) /\ wire'["down"] = Tail(wire["down"])
       /\ wire' \in [Direction -> Seq(AnyFrame)]
  BY <1>1, <1>8, <1>11, <1>12, Ends
<1>14. /\ sent'["up"] = Append(sent["up"], "auth") /\ sent'["down"] = sent["down"]
       /\ sent' \in [Direction -> Seq(Sealing!Payload)]
  <2>1. Append(sent["up"], "auth") \in Seq(Sealing!Payload)
    BY <1>1, <1>6, Ends
  <2>. QED
    BY <1>1, <1>8, <2>1, Ends
<1>15. SealTypes'
  BY <1>1, <1>8, <1>9, <1>13, <1>14 DEF SealTypes
<1>16. SealKeys'
  <2>1. OwnKey("host", end["host"].th) = conn /\ OtherKey("host", end["host"].th) <= conn
    BY <1>10, Ends DEF SealInv, SealKeys
  <2>2. OwnKey("viewer", d.th) = conn /\ OtherKey("viewer", d.th) <= conn
    BY <1>3, <1>4, <1>5 DEF OwnKey, OtherKey
  <2>. QED
    BY <1>9, <2>1, <2>2, Ends DEF SealKeys
<1>17. sent["up"] = <<>> /\ sent'["up"] = <<"auth">>
  <2>1. Len(sent["up"]) = 0
    BY <1>2, Ends DEF SealInv, SealCounts
  <2>2. sent["up"] \in Seq(Sealing!Payload)
    BY <1>1, Ends
  <2>3. sent["up"] = <<>>
    BY <2>1, <2>2
  <2>. QED
    BY <1>14, <2>3
<1>18. SealCounts'
  <2>1. Len(sent["down"]) = end["host"].sendCtr /\ Len(got["up"]) = end["host"].recvCtr
    BY <1>2, Ends DEF SealInv, SealCounts
  <2>2. Len(got["down"]) = 0
    BY <1>2, Ends DEF SealInv, SealCounts
  <2>3. Len(<<"auth">>) = 1
    OBVIOUS
  <2>. QED
    BY <1>2, <1>5, <1>8, <1>9, <1>10, <1>14, <1>17, <2>1, <2>2, <2>3, Ends DEF SealCounts
<1>19. SealRecorded'
  <2>1. ASSUME NEW p \in Program, NEW s \in recorded', s.dir = Sealing!Out(p)
        PROVE  /\ OtherKey(p, s.th) <= OwnKey(p, s.th) /\ OwnKey(p, s.th) <= conn
               /\ OwnKey(p, s.th) = conn => OfSession(p, s)'
    <3>1. CASE s = r
      <4>1. p = "viewer"
        BY <1>2, <1>7, <2>1, <3>1, Ends
      <4>2. OwnKey("viewer", r.th) = conn /\ OtherKey("viewer", r.th) <= conn
        BY <1>3, <1>4, <1>7 DEF OwnKey, OtherKey
      <4>3. OfSession("viewer", r)'
        <5>1. r.ctr < Len(<<"auth">>) /\ r.body = <<"auth">>[r.ctr + 1]
          BY <1>7
        <5>. QED
          BY <1>2, <1>5, <1>7, <1>9, <1>10, <1>17, <5>1 DEF OfSession
      <4>. QED
        BY <1>1, <3>1, <4>1, <4>2, <4>3
    <3>2. CASE s \in recorded /\ p = "viewer"
      BY <1>1, <2>1, <3>2 DEF SealInv, SealRecorded, OfSession
    <3>3. CASE s \in recorded /\ p = "host"
      <4>1. OfSession("host", s) => OfSession("host", s)'
        BY <1>2, <1>9, <1>10, <1>14 DEF OfSession
      <4>. QED
        BY <2>1, <3>3, <4>1 DEF SealInv, SealRecorded
    <3>. QED
      BY <1>8, <3>1, <3>2, <3>3, Ends
  <2>. QED
    BY <2>1 DEF SealRecorded
<1>20. SealWires'
  <2>1. \A g \in Direction : \A f \in Among(wire'[g]) : f = r \/ f \in Among(wire[g])
    <3>1. Among(wire'["down"]) \subseteq Among(wire["down"])
      BY <1>11, <1>13
    <3>2. Among(wire'["up"]) = Among(wire["up"]) \cup {r}
      BY <1>12, <1>13
    <3>. QED
      BY <3>1, <3>2, Ends, ZenonT(40)
  <2>. QED
    BY <1>7, <1>8, <2>1 DEF SealInv, SealWires
<1>21. SealOrder'
  BY <1>10, Ends DEF SealOrder
<1>22. SealInv'
  BY <1>15, <1>16, <1>18, <1>19, <1>20, <1>21 DEF SealInv
<1>23. SaysAuth(k)
  BY <1>4, <1>7, <1>13 DEF SaysAuth
<1>. QED
  BY <1>4, <1>5, <1>9, <1>10, <1>13, <1>14, <1>17, <1>22, <1>23


\* What the path may make of a message.
Altered(f, g) ==
  \/ f.kind = "hello" /\ g \in HelloFrame /\ g.key <= conn
  \/ f.kind = "sealed" /\ g \in SealedFrame /\ g.body = "altered"

\* An altered frame is a HELLO with some key of this session or an earlier one, or a sealed message that opens nowhere.
LEMMA AlteredFrame ==
  ASSUME SealInv, NEW f \in AnyFrame, NEW g \in Sealing!AlteredForms(f)
  PROVE  g \in AnyFrame /\ Altered(f, g)
<1>1. conn \in Nat
  BY DEF SealInv, SealTypes
<1>2. CASE f.kind = "hello"
  <2>1. PICK k \in 0..conn : g = Sealing!Hello(k)
    BY <1>2 DEF Sealing!AlteredForms
  <2>2. [kind |-> "hello", key |-> k] \in HelloFrame
    BY <1>1, <2>1 DEF HelloFrame
  <2>. QED
    BY <1>1, <1>2, <2>1, <2>2 DEF Sealing!Hello, Altered, AnyFrame
<1>3. CASE f.kind # "hello"
  <2>1. f \in SealedFrame
    BY <1>3 DEF AnyFrame, HelloFrame
  <2>2. g = [f EXCEPT !.body = "altered"]
    BY <1>3 DEF Sealing!AlteredForms
  <2>3. f.kind = "sealed" /\ g = [kind |-> f.kind, th |-> f.th, dir |-> f.dir, ctr |-> f.ctr, body |-> "altered"]
    BY <2>1, <2>2 DEF SealedFrame
  <2>4. g \in SealedFrame /\ g.body = "altered"
    BY <2>1, <2>3 DEF SealedFrame
  <2>. QED
    BY <2>3, <2>4 DEF Altered, AnyFrame
<1>. QED
  BY <1>2, <1>3

\* Whatever the path does to a queue, a message in it was there, or is one of
\* those with something else in it.
LEMMA DisturbedFrames ==
  ASSUME SealInv, NEW d \in Direction, NEW w \in Sealing!Disturbances(d)
  PROVE  /\ w \in Seq(AnyFrame) /\ wire[d] # <<>>
         /\ \A g \in Among(w) : g \in Among(wire[d]) \/ \E f \in Among(wire[d]) : Altered(f, g)
<1>1. PICK u \in Seq(AnyFrame) : u = wire[d]
  BY DEF SealInv, SealTypes
<1>2. u # <<>>
  BY <1>1 DEF Sealing!Disturbances
<1>3. Head(u) \in Among(u) /\ Head(u) \in AnyFrame /\ Tail(u) \in Seq(AnyFrame) /\ Among(Tail(u)) \subseteq Among(u)
  BY <1>2, AmongTail
<1>4. \/ w = Tail(u)
      \/ w = <<Head(u)>> \o u
      \/ \E g \in Sealing!AlteredForms(Head(u)) : w = <<g>> \o Tail(u)
      \/ Len(u) > 1 /\ w = <<u[2], u[1]>> \o SubSeq(u, 3, Len(u))
  BY <1>1, <1>2 DEF Sealing!Disturbances
<1>5. CASE w = Tail(u)
  BY <1>1, <1>2, <1>3, <1>5
<1>6. CASE w = <<Head(u)>> \o u
  <2>1. w \in Seq(AnyFrame) /\ Among(w) = Among(u) \cup {Head(u)}
    BY <1>3, <1>6, AmongFront
  <2>. QED
    BY <1>1, <1>2, <1>3, <2>1
<1>7. ASSUME NEW h \in Sealing!AlteredForms(Head(u)), w = <<h>> \o Tail(u)
      PROVE  /\ w \in Seq(AnyFrame)
             /\ \A g \in Among(w) : g \in Among(wire[d]) \/ \E f \in Among(wire[d]) : Altered(f, g)
  <2>1. h \in AnyFrame /\ Altered(Head(u), h)
    BY <1>3, <1>7, AlteredFrame
  <2>2. w \in Seq(AnyFrame) /\ Among(w) = Among(Tail(u)) \cup {h}
    BY <1>3, <1>7, <2>1, AmongFront
  <2>. QED
    BY <1>1, <1>3, <2>1, <2>2
<1>8. ASSUME Len(u) > 1, w = <<u[2], u[1]>> \o SubSeq(u, 3, Len(u))
      PROVE  w \in Seq(AnyFrame) /\ Among(w) \subseteq Among(u)
  <2>1. u[1] \in AnyFrame /\ u[2] \in AnyFrame /\ Len(u) \in Nat /\ SubSeq(u, 3, Len(u)) \in Seq(AnyFrame)
    BY <1>8
  <2>2. Len(SubSeq(u, 3, Len(u))) = Len(u) - 2
    BY <1>8, <2>1
  <2>3. w \in Seq(AnyFrame) /\ Len(w) = Len(u) /\ w[1] = u[2] /\ w[2] = u[1]
    BY <1>8, <2>1, <2>2
  <2>4. \A n \in 3..Len(u) : w[n] = u[n]
    <3>1. \A n \in 3..Len(u) : w[n] = SubSeq(u, 3, Len(u))[n - 2]
      BY <1>8, <2>1, <2>2
    <3>2. \A n \in 3..Len(u) : SubSeq(u, 3, Len(u))[n - 2] = u[n]
      BY <1>8, <2>1, <2>2
    <3>. QED
      BY <3>1, <3>2
  <2>5. \A n \in 1..Len(w) : \E m \in 1..Len(u) : w[n] = u[m]
    <3>. TAKE n \in 1..Len(w)
    <3>1. CASE n = 1
      BY <1>8, <2>1, <2>3, <3>1
    <3>2. CASE n = 2
      BY <1>8, <2>1, <2>3, <3>2
    <3>3. CASE n \in 3..Len(u)
      BY <2>3, <2>4, <3>3
    <3>. QED
      BY <2>1, <2>3, <3>1, <3>2, <3>3
  <2>. QED
    BY <2>3, <2>5, ZenonT(40) DEF Among
<1>. QED
  BY <1>1, <1>2, <1>4, <1>5, <1>6, <1>7, <1>8

\* The path invents nothing that would open, and nothing without keys to read it.
LEMMA DisturbSeals ==
  ASSUME SealInv, NEW d \in Direction, Sealing!Disturb(d)
  PROVE  SealInv' /\ UNCHANGED <<end, sent, got>>
<1>1. PICK w \in Sealing!Disturbances(d) \cup Sealing!Replays(d) : wire' = [wire EXCEPT ![d] = w]
  BY DEF Sealing!Disturb
<1>2. UNCHANGED <<end, conn, sent, got, recorded>>
  BY DEF Sealing!Disturb
<1>3. wire \in [Direction -> Seq(AnyFrame)] /\ recorded \in SUBSET SealedFrame /\ conn \in Nat
  BY DEF SealInv, SealTypes
<1>. DEFINE Replayed == \E p \in Program : Sealing!In(p) = d /\ Keyed(p)
            Fine(g) == \/ g \in Among(wire[d])
                       \/ \E f \in Among(wire[d]) : Altered(f, g)
                       \/ g \in recorded /\ Replayed
<1>4. w \in Seq(AnyFrame) /\ (\A g \in Among(w) : Fine(g)) /\ (wire[d] # <<>> \/ Replayed)
  <2>1. CASE w \in Sealing!Disturbances(d)
    BY <2>1, DisturbedFrames
  <2>2. CASE w \in Sealing!Replays(d)
    <3>1. PICK f \in recorded : w = <<f>> \o wire[d]
      BY <2>2 DEF Sealing!Replays
    <3>2. Replayed
      BY <2>2 DEF Sealing!Replays, Keyed, Program
    <3>3. f \in AnyFrame /\ wire[d] \in Seq(AnyFrame)
      BY <1>3 DEF AnyFrame
    <3>4. w \in Seq(AnyFrame) /\ Among(w) = Among(wire[d]) \cup {f}
      BY <3>1, <3>3, AmongFront
    <3>. QED
      BY <3>1, <3>2, <3>4
  <2>. QED
    BY <2>1, <2>2
<1>5. wire' \in [Direction -> Seq(AnyFrame)] /\ wire'[d] = w /\ \A g \in Direction : g # d => wire'[g] = wire[g]
  BY <1>1, <1>3, <1>4
<1>6. SealTypes'
  BY <1>2, <1>5 DEF SealInv, SealTypes
<1>7. \A p \in Program : Keyed(p)' <=> Keyed(p)
  BY <1>2 DEF Keyed
<1>8. SealKeys' /\ SealCounts' /\ SealRecorded'
  BY <1>2 DEF SealInv, SealKeys, SealCounts, SealRecorded, OfSession, Keyed
<1>9. SealWires'
  <2>1. \A c \in Direction : \A f \in Among(wire[c]) :
          /\ f.kind = "hello" => f.key <= conn
          /\ f.kind = "sealed" => f.body = "altered" \/ f \in recorded
    BY DEF SealInv, SealWires
  <2>2. ASSUME NEW g \in Among(w)
        PROVE  /\ g.kind = "hello" => g.key <= conn
               /\ g.kind = "sealed" => g.body = "altered" \/ g \in recorded
    <3>1. CASE g \in Among(wire[d])
      BY <2>1, <3>1
    <3>2. CASE \E f \in Among(wire[d]) : Altered(f, g)
      BY <3>2 DEF Altered, HelloFrame, SealedFrame
    <3>3. CASE g \in recorded
      BY <1>3, <3>3 DEF SealedFrame
    <3>. QED
      BY <1>4, <2>2, <3>1, <3>2, <3>3
  <2>3. \A c \in Direction : \A f \in Among(wire'[c]) :
          /\ f.kind = "hello" => f.key <= conn
          /\ f.kind = "sealed" => f.body = "altered" \/ f \in recorded
    BY <1>5, <2>1, <2>2
  <2>. QED
    BY <1>2, <2>3 DEF SealWires
<1>10. \A p \in Program : ~Keyed(p) => \A g \in Among(wire'[Sealing!In(p)]) : g.kind = "hello"
  <2>. SUFFICES ASSUME NEW p \in Program, ~Keyed(p), NEW g \in Among(wire'[Sealing!In(p)])
                PROVE  g.kind = "hello"
    OBVIOUS
  <2>1. \A f \in Among(wire[Sealing!In(p)]) : f.kind = "hello"
    BY DEF SealInv, SealOrder
  <2>2. CASE Sealing!In(p) # d
    BY <1>5, <2>1, <2>2, Ends
  <2>3. CASE Sealing!In(p) = d
    <3>1. ~Replayed
      BY <2>3 DEF Program, Sealing!Program, Sealing!In
    <3>2. CASE g \in Among(wire[d])
      BY <2>1, <2>3, <3>2
    <3>3. CASE \E f \in Among(wire[d]) : Altered(f, g)
      BY <2>1, <2>3, <3>3 DEF Altered, HelloFrame
    <3>. QED
      BY <1>4, <1>5, <2>3, <3>1, <3>2, <3>3
  <2>. QED
    BY <2>2, <2>3
<1>11. ~Keyed("host") => wire'["down"] = <<>> /\ ~Keyed("viewer")
  <2>. HAVE ~Keyed("host")
  <2>1. wire["down"] = <<>> /\ ~Keyed("viewer")
    BY DEF SealInv, SealOrder
  <2>2. ~Replayed
    BY <2>1, Ends
  <2>3. d # "down"
    BY <1>4, <2>1, <2>2
  <2>. QED
    BY <1>5, <2>1, <2>3, Ends
<1>12. SealOrder'
  <2>1. end["host"].phase = "active" => Keyed("viewer")
    BY DEF SealInv, SealOrder
  <2>. QED
    BY <1>2, <1>7, <1>10, <1>11, <2>1, Ends DEF SealOrder
<1>. QED
  BY <1>2, <1>6, <1>8, <1>9, <1>12 DEF SealInv


\* What a step means to the direction that p reads, as Channel has it.
Closed(p) == end[p].phase = "closed"

Passes(p, d) ==
  \/ UNCHANGED <<sent[d], got[d]>> /\ (Closed(p)' <=> Closed(p))
  \/ \E m \in Sealing!Payload :
       sent'[d] = Append(sent[d], m) /\ got'[d] = got[d] /\ (Closed(p)' <=> Closed(p))
  \/ /\ ~Closed(p) /\ ~Closed(p)' /\ Len(got[d]) < Len(sent[d])
     /\ got'[d] = Append(got[d], sent[d][Len(got[d]) + 1]) /\ sent'[d] = sent[d]
  \/ ~Closed(p) /\ Closed(p)' /\ UNCHANGED <<sent[d], got[d]>>
  \/ sent'[d] = <<>> /\ got'[d] = <<>> /\ ~Closed(p)'

\* To the other program's reader, one with keys says something or nothing.
LEMMA OthersPass ==
  ASSUME NEW p \in Program, Running(p)
  PROVE  Passes(Peer(p), Sealing!In(Peer(p)))
<1>1. PICK q \in Program : q = Peer(p) /\ Sealing!In(q) = Sealing!Out(p)
  BY Ends
<1>2. PICK o : o = Sealing!Out(p)
  OBVIOUS
<1>3. got'[o] = got[o] /\ end'[q] = end[q]
  BY <1>1, <1>2 DEF Running
<1>4. Closed(q)' <=> Closed(q)
  BY <1>3 DEF Closed
<1>5. CASE SaysNothing(p)
  <2>1. sent'[o] = sent[o]
    BY <1>2, <1>5 DEF SaysNothing
  <2>. QED
    BY <1>1, <1>2, <1>3, <1>4, <2>1 DEF Passes
<1>6. ASSUME NEW m \in Sealing!Payload, Says(p, m) PROVE Passes(q, o)
  <2>1. sent'[o] = Append(sent[o], m)
    BY <1>2, <1>6 DEF Says
  <2>. QED
    BY <1>3, <1>4, <2>1 DEF Passes
<1>7. SaysNothing(p) \/ \E m \in Sealing!Payload : Says(p, m)
  BY DEF Running
<1>. QED
  BY <1>1, <1>2, <1>5, <1>6, <1>7

\* Every step of a session keeps the invariant and passes to both readers.
LEMMA ReadPasses ==
  ASSUME SealInv, NEW p \in Program, Sealing!Read(p)
  PROVE  SealInv' /\ \A r \in Program : Passes(r, Sealing!In(r))
<1>1. PICK q \in Program : q = Peer(p)
  BY Ends
<1>2. PICK i \in Direction : i = Sealing!In(p)
  BY Ends
<1>3. Program = {p, q} /\ p # q
  BY <1>1, Ends
<1>4. end[p].phase \in {"hello", "auth", "active"} /\ wire[i] # <<>> /\ conn' = conn
  BY <1>2 DEF Sealing!Read
<1>5. PICK f : f = Head(wire[i])
  OBVIOUS
<1>6. PICK w : w = [wire EXCEPT ![i] = Tail(wire[i])]
  OBVIOUS
<1>7. \/ end[p].phase = "hello" /\ Sealing!Greet(p, f.key, w)
      \/ end[p].phase # "hello" /\ Sealing!Opens(p, f) /\ Sealing!Accept(p, f, w)
      \/ /\ end[p].phase # "hello" /\ ~Sealing!Opens(p, f)
         /\ Sealing!Quietly(p, [end[p] EXCEPT !.phase = "closed"], w) /\ got' = got
  BY <1>2, <1>5, <1>6 DEF Sealing!Read
<1>8. CASE end[p].phase = "hello" /\ Sealing!Greet(p, f.key, w) /\ p = "host"
  <2>1. i = "up" /\ ~Keyed("host")
    BY <1>2, <1>8 DEF Sealing!In, Keyed
  <2>2. SealInv'
    BY <1>4, <1>5, <1>6, <1>8, <2>1, HostGreets
  <2>3. sent' = sent /\ got' = got /\ \A r \in Program : r # "host" => end'[r] = end[r]
    BY <1>8 DEF Sealing!Greet, Sealing!Quietly, SealInv, SealTypes
  <2>4. ~Closed("host") /\ Keyed("host")'
    <3>1. ~Closed("host")
      BY <1>8 DEF Closed
    <3>2. end'["host"].phase = "auth"
      BY <1>8, Ends DEF Sealing!Greet, Sealing!Quietly, Sealing!End, SealInv, SealTypes
    <3>. QED
      BY <3>1, <3>2 DEF Keyed
  <2>5. ~Closed("host")'
    BY <1>8, Ends DEF Sealing!Greet, Sealing!Quietly, Sealing!End, SealInv, SealTypes, Closed
  <2>6. \A r \in Program : Closed(r)' <=> Closed(r)
    BY <2>3, <2>4, <2>5, Ends DEF Closed
  <2>. QED
    BY <2>2, <2>3, <2>6 DEF Passes
<1>9. CASE end[p].phase = "hello" /\ Sealing!Greet(p, f.key, w) /\ p = "viewer"
  <2>1. i = "down" /\ ~Keyed("viewer")
    BY <1>2, <1>9 DEF Sealing!In, Keyed
  <2>2. SealInv' /\ sent'["up"] = Append(sent["up"], "auth") /\ sent'["down"] = sent["down"]
    BY <1>4, <1>5, <1>6, <1>9, <2>1, ViewerGreets
  <2>3. got' = got /\ end'["host"] = end["host"]
    BY <1>9, Ends DEF Sealing!Greet, Sealing!Transmit, SealInv, SealTypes
  <2>4. ~Closed("viewer")
    BY <1>9 DEF Closed
  <2>5. ~Closed("viewer")'
    <3>1. end'["viewer"] = [Sealing!End("auth", [ce |-> conn, se |-> f.key]) EXCEPT !.sendCtr = @ + 1]
      BY <1>9, Ends, SMTT(40) DEF Sealing!Greet, Sealing!Transmit, SealInv, SealTypes
    <3>2. end'["viewer"].phase = "auth"
      BY <3>1 DEF Sealing!End
    <3>. QED
      BY <3>2 DEF Closed
  <2>6. "auth" \in Sealing!Payload
    BY DEF Sealing!Payload
  <2>7. Passes("host", "up")
    BY <2>2, <2>3, <2>6 DEF Passes, Closed
  <2>8. Passes("viewer", "down")
    BY <2>2, <2>3, <2>4, <2>5 DEF Passes
  <2>. QED
    BY <2>2, <2>7, <2>8, Ends DEF Sealing!In
<1>10. CASE end[p].phase # "hello" /\ Sealing!Opens(p, f) /\ Sealing!Accept(p, f, w)
  <2>1. Keyed(p) /\ end[p].phase \in {"auth", "active"}
    BY <1>4, <1>10 DEF Keyed
  <2>2. Running(p) /\ SealTypes' /\ got'[i] = Append(got[i], f.body)
    BY <1>2, <1>4, <1>5, <1>6, <1>10, <2>1, AcceptRuns
  <2>3. SealInv'
    BY <2>2, SealRuns
  <2>4. f \in Among(wire[i])
    <3>1. wire[i] \in Seq(AnyFrame)
      BY DEF SealInv, SealTypes
    <3>. QED
      BY <1>4, <1>5, <3>1, AmongTail
  <2>5. f \in recorded /\ OfSession(q, f) /\ f.ctr = Len(got[i])
    BY <1>1, <1>2, <1>10, <2>1, <2>4, OpensTrue
  <2>6. Sealing!Out(q) = i
    BY <1>1, <1>2, Ends
  <2>7. Len(got[i]) < Len(sent[i]) /\ f.body = sent[i][Len(got[i]) + 1]
    BY <2>5, <2>6 DEF OfSession
  <2>8. sent'[i] = sent[i]
    BY <1>2, <2>2 DEF Running
  <2>9. ~Closed(p)
    BY <2>1 DEF Closed
  <2>10. ~Closed(p)'
    <3>1. PICK e \in EndState : e = end[p]
      BY DEF SealInv, SealTypes
    <3>2. \E d \in EndState : d = [e EXCEPT !.recvCtr = @ + 1, !.phase = "active"] /\ d.phase = "active"
      BY EndUpdates
    <3>3. PICK d \in EndState : d = [end[p] EXCEPT !.recvCtr = @ + 1, !.phase = "active"] /\ d.phase = "active"
      BY <3>1, <3>2
    <3>4. end'[p] = d \/ end'[p] = [d EXCEPT !.sendCtr = @ + 1]
      <4>1. end \in [Program -> EndState]
        BY DEF SealInv, SealTypes
      <4>. QED
        BY <1>10, <3>3, <4>1 DEF Sealing!Accept, Sealing!Quietly, Sealing!Transmit
    <3>5. [d EXCEPT !.sendCtr = @ + 1].phase = "active"
      BY <3>3 DEF EndState
    <3>. QED
      BY <3>3, <3>4, <3>5 DEF Closed
  <2>11. Passes(p, i)
    BY <2>2, <2>7, <2>8, <2>9, <2>10 DEF Passes
  <2>. QED
    BY <1>1, <1>2, <1>3, <2>2, <2>3, <2>11, OthersPass
<1>11. CASE /\ end[p].phase # "hello"
            /\ Sealing!Quietly(p, [end[p] EXCEPT !.phase = "closed"], w) /\ got' = got
  <2>1. Keyed(p)
    BY <1>4, <1>11 DEF Keyed
  <2>2. Running(p) /\ SealTypes'
    BY <1>2, <1>4, <1>6, <1>11, <2>1, CloseRuns
  <2>3. SealInv'
    BY <2>2, SealRuns
  <2>4. sent'[i] = sent[i] /\ got'[i] = got[i]
    BY <1>2, <1>11, <2>2 DEF Running
  <2>5. ~Closed(p)
    BY <1>4 DEF Closed
  <2>6. Passes(p, i)
    BY <2>4, <2>5 DEF Passes
  <2>. QED
    BY <1>1, <1>2, <1>3, <2>2, <2>3, <2>6, OthersPass
<1>12. p = "host" \/ p = "viewer"
  BY Ends
<1>. QED
  BY <1>7, <1>8, <1>9, <1>10, <1>11, <1>12

\* Every step keeps the invariant, and is one of Channel in each direction.
LEMMA SealStep ==
  ASSUME SealInv, [Sealing!Next]_(Sealing!vars)
  PROVE  SealInv' /\ \A r \in Program : Passes(r, Sealing!In(r))
<1>1. CASE Sealing!Connect
  <2>1. SealInv'
    BY <1>1, ConnectSeals
  <2>2. \A d \in Direction : sent'[d] = <<>> /\ got'[d] = <<>>
    BY <1>1 DEF Sealing!Connect, Sealing!Nothing, Direction
  <2>3. \A r \in Program : ~Closed(r)'
    BY <1>1 DEF Sealing!Connect, Sealing!End, Closed, Program
  <2>. QED
    BY <2>1, <2>2, <2>3, Ends DEF Passes
<1>2. ASSUME NEW p \in Program, Sealing!Read(p)
      PROVE  SealInv' /\ \A r \in Program : Passes(r, Sealing!In(r))
  BY <1>2, ReadPasses
<1>3. ASSUME NEW p \in Program, Sealing!Say(p)
      PROVE  SealInv' /\ \A r \in Program : Passes(r, Sealing!In(r))
  <2>1. PICK m \in Msg : Sealing!Transmit(p, end[p], m, wire)
    BY <1>3 DEF Sealing!Say
  <2>2. m \in Sealing!Payload
    BY DEF Sealing!Payload
  <2>3. end[p].phase = "active" /\ got' = got /\ conn' = conn
    BY <1>3 DEF Sealing!Say
  <2>4. Running(p) /\ SealTypes'
    BY <2>1, <2>2, <2>3, SayRuns
  <2>5. SealInv'
    BY <2>4, SealRuns
  <2>6. ~Closed(p)
    BY <2>3 DEF Closed
  <2>7. sent'[Sealing!In(p)] = sent[Sealing!In(p)]
    BY <2>4 DEF Running
  <2>8. Passes(p, Sealing!In(p))
    BY <2>3, <2>6, <2>7 DEF Passes
  <2>. QED
    BY <2>4, <2>5, <2>8, OthersPass, Ends
<1>4. ASSUME NEW d \in Direction, Sealing!Disturb(d)
      PROVE  SealInv' /\ \A r \in Program : Passes(r, Sealing!In(r))
  <2>1. SealInv' /\ UNCHANGED <<end, sent, got>>
    BY <1>4, DisturbSeals
  <2>. QED
    BY <2>1 DEF Passes, Closed
<1>5. CASE UNCHANGED Sealing!vars
  <2>1. SealInv'
    BY <1>5 DEF Sealing!vars, SealInv, SealTypes, SealKeys, SealCounts, SealRecorded, SealWires, SealOrder,
         OfSession, Keyed
  <2>. QED
    BY <1>5, <2>1 DEF Sealing!vars, Passes, Closed
<1>. QED
  BY <1>1, <1>2, <1>3, <1>4, <1>5 DEF Sealing!Next, Program, Direction

\* In a session that nothing has disturbed both ends hold the same keys, and
\* what is under way to an end is what it will open next, message by message.
OpensAt(p, f, n) ==
  /\ f.kind = "sealed" /\ f.body # "altered"
  /\ f.th = [ce |-> conn, se |-> conn] /\ f.dir = Sealing!In(p) /\ f.ctr = n

CalmAt(p) ==
  /\ ~Closed(p)
  /\ Keyed(p) =>
       /\ end[p].th = [ce |-> conn, se |-> conn]
       /\ Len(sent[Sealing!In(p)]) = end[p].recvCtr + Len(wire[Sealing!In(p)])
       /\ \A n \in 1..Len(wire[Sealing!In(p)]) : OpensAt(p, wire[Sealing!In(p)][n], end[p].recvCtr + n - 1)
  /\ ~Keyed(p) =>
       /\ sent[Sealing!In(p)] = <<>>
       /\ wire[Sealing!In(p)] # <<>> => wire[Sealing!In(p)] = <<Sealing!Hello(conn)>>

Calm == \A p \in Program : CalmAt(p)

\* The reader's half of a step: it takes the message it was to open next, or none.
LEMMA CalmReader ==
  ASSUME SealInv, SealTypes', NEW p \in Program, Running(p), CalmAt(p),
         (ReadsOne(p) /\ wire[Sealing!In(p)] # <<>>) \/ ReadsNone(p)
  PROVE  CalmAt(p)'
<1>1. PICK i \in Direction : i = Sealing!In(p)
  BY Ends
<1>2. Keyed(p) /\ Keyed(p)' /\ end'[p].th = end[p].th /\ conn' = conn /\ sent'[i] = sent[i]
  BY <1>1 DEF Running, Keyed
<1>3. end'[p].phase = "active"
  BY DEF ReadsOne, ReadsNone
<1>4. ~Closed(p)'
  BY <1>3 DEF Closed
<1>5. /\ end[p].th = [ce |-> conn, se |-> conn] /\ Len(sent[i]) = end[p].recvCtr + Len(wire[i])
      /\ \A n \in 1..Len(wire[i]) : OpensAt(p, wire[i][n], end[p].recvCtr + n - 1)
  BY <1>1, <1>2 DEF CalmAt
<1>6. PICK a \in Nat : a = end[p].recvCtr
  BY DEF SealInv, SealTypes, EndState
<1>7. PICK w \in Seq(AnyFrame) : w = wire[i]
  BY DEF SealInv, SealTypes
<1>8. \A f, n : OpensAt(p, f, n)' <=> OpensAt(p, f, n)
  BY <1>2 DEF OpensAt
<1>9. CASE ReadsNone(p)
  <2>1. wire'[i] = wire[i] /\ end'[p].recvCtr = end[p].recvCtr
    BY <1>1, <1>9 DEF ReadsNone
  <2>. QED
    BY <1>1, <1>2, <1>4, <1>5, <1>8, <2>1 DEF CalmAt
<1>10. CASE ReadsOne(p) /\ w # <<>>
  <2>1. wire'[i] = Tail(w) /\ end'[p].recvCtr = a + 1
    BY <1>1, <1>6, <1>7, <1>10 DEF ReadsOne
  <2>2. Len(Tail(w)) = Len(w) - 1 /\ Len(w) \in Nat
    BY <1>10
  <2>3. Len(sent[i]) = (a + 1) + Len(Tail(w))
    BY <1>5, <1>6, <1>7, <2>2
  <2>4. ASSUME NEW n \in 1..Len(Tail(w)) PROVE OpensAt(p, Tail(w)[n], (a + 1) + n - 1)
    <3>1. Tail(w)[n] = w[n + 1] /\ n + 1 \in 1..Len(w)
      BY <1>10, <2>2
    <3>2. OpensAt(p, w[n + 1], a + (n + 1) - 1)
      BY <1>5, <1>6, <1>7, <3>1
    <3>3. a + (n + 1) - 1 = (a + 1) + n - 1
      BY <2>2
    <3>. QED
      BY <3>1, <3>2, <3>3
  <2>. QED
    BY <1>1, <1>2, <1>4, <1>5, <1>8, <2>1, <2>3, <2>4 DEF CalmAt
<1>. QED
  BY <1>1, <1>7, <1>9, <1>10

\* The other end's: what is said to it comes after what is under way.
LEMMA CalmOther ==
  ASSUME SealInv, SealTypes', NEW p \in Program, Running(p), CalmAt(p), CalmAt(Peer(p))
  PROVE  CalmAt(Peer(p))'
<1>1. PICK q \in Program, o \in Direction :
        q = Peer(p) /\ o = Sealing!Out(p) /\ o = Sealing!In(q) /\ Sealing!Out(p) = Sealing!In(q)
  BY Ends
<1>2. end'[q] = end[q] /\ conn' = conn /\ (Keyed(q)' <=> Keyed(q)) /\ (Closed(q)' <=> Closed(q))
  BY <1>1 DEF Running, Keyed, Closed
<1>3. \A f, n : OpensAt(q, f, n)' <=> OpensAt(q, f, n)
  BY <1>2 DEF OpensAt
<1>4. CASE SaysNothing(p)
  <2>1. sent'[o] = sent[o] /\ wire'[o] = wire[o]
    BY <1>1, <1>4 DEF SaysNothing
  <2>. QED
    BY <1>1, <1>2, <1>3, <2>1 DEF CalmAt
<1>5. ASSUME NEW m \in Sealing!Payload, Says(p, m) PROVE CalmAt(q)'
  <2>1. /\ Keyed(q) /\ sent'[o] = Append(sent[o], m)
        /\ wire'[o] = Append(wire[o], Sealing!Sealed(p, end[p], m))
    BY <1>1, <1>5 DEF Says
  <2>2. PICK a \in Nat : a = end[q].recvCtr
    BY DEF SealInv, SealTypes, EndState
  <2>3. PICK w \in Seq(AnyFrame) : w = wire[o]
    BY DEF SealInv, SealTypes
  <2>4. PICK s \in Seq(Sealing!Payload) : s = sent[o]
    BY DEF SealInv, SealTypes
  <2>5. /\ end[q].th = [ce |-> conn, se |-> conn] /\ Len(s) = a + Len(w)
        /\ \A n \in 1..Len(w) : OpensAt(q, w[n], a + n - 1)
    BY <1>1, <2>1, <2>2, <2>3, <2>4 DEF CalmAt
  <2>6. end[p].th = [ce |-> conn, se |-> conn] /\ end[p].sendCtr = Len(s)
    BY <1>1, <2>4 DEF Running, CalmAt, SealInv, SealCounts
  <2>7. m # "altered"
    BY SealingAssumed DEF Sealing!ChannelAssumption, Sealing!Payload
  <2>8. PICK f : f = Sealing!Sealed(p, end[p], m)
    OBVIOUS
  <2>9. OpensAt(q, f, Len(s))
    BY <1>1, <2>6, <2>7, <2>8 DEF OpensAt, Sealing!Sealed
  <2>10. Len(Append(s, m)) = Len(s) + 1 /\ Len(s) \in Nat /\ Len(w) \in Nat
    BY <2>4
  <2>11. Append(w, f) \in Seq(AnyFrame)
    BY <1>1, <2>1, <2>3, <2>8 DEF SealTypes
  <2>12. Len(Append(w, f)) = Len(w) + 1 /\ Append(w, f)[Len(w) + 1] = f
         /\ \A n \in 1..Len(w) : Append(w, f)[n] = w[n]
    BY <2>3
  <2>13. ASSUME NEW n \in 1..Len(Append(w, f)) PROVE OpensAt(q, Append(w, f)[n], a + n - 1)
    <3>1. CASE n \in 1..Len(w)
      BY <2>5, <2>12, <3>1
    <3>2. CASE n = Len(w) + 1
      <4>1. a + n - 1 = Len(s)
        BY <2>5, <2>10, <3>2
      <4>. QED
        BY <2>9, <2>12, <3>2, <4>1
    <3>. QED
      BY <2>10, <2>12, <3>1, <3>2
  <2>14. Len(Append(s, m)) = a + Len(Append(w, f))
    BY <2>5, <2>10, <2>12
  <2>15. ~Closed(q)
    BY <1>1 DEF CalmAt
  <2>16. /\ end'[q].th = [ce |-> conn, se |-> conn] /\ end'[q].recvCtr = a
         /\ sent'[o] = Append(s, m) /\ wire'[o] = Append(w, f)
    BY <1>2, <2>1, <2>2, <2>3, <2>4, <2>5, <2>8
  <2>. QED
    BY <1>1, <1>2, <1>3, <2>1, <2>13, <2>14, <2>15, <2>16 DEF CalmAt
<1>6. SaysNothing(p) \/ \E m \in Sealing!Payload : Says(p, m)
  BY DEF Running
<1>. QED
  BY <1>1, <1>4, <1>5, <1>6

\* An end that runs on with what it reads keeps the calm.
LEMMA CalmRuns ==
  ASSUME SealInv, SealTypes', NEW p \in Program, Running(p), Calm,
         (ReadsOne(p) /\ wire[Sealing!In(p)] # <<>>) \/ ReadsNone(p)
  PROVE  Calm'
<1>1. PICK q \in Program : q = Peer(p) /\ Program = {p, q}
  BY Ends
<1>2. CalmAt(p) /\ CalmAt(q)
  BY DEF Calm
<1>3. CalmAt(p)'
  BY <1>2, CalmReader
<1>4. CalmAt(Peer(p))
  BY <1>1, <1>2
<1>5. CalmAt(Peer(p))'
  BY <1>2, <1>4, CalmOther
<1>6. CalmAt(q)'
  BY <1>1, <1>5
<1>. QED
  BY <1>1, <1>3, <1>6 DEF Calm

\* Connecting leaves the first HELLO under way, and the greetings agree on keys.
LEMMA CalmConnects ==
  ASSUME Sealing!Connect
  PROVE  Calm'
<1>1. \A p \in Program : ~Keyed(p)' /\ ~Closed(p)'
  BY DEF Sealing!Connect, Sealing!End, Keyed, Closed, Program
<1>2. \A d \in Direction : sent'[d] = <<>>
  BY DEF Sealing!Connect, Sealing!Nothing, Direction
<1>3. wire'["up"] = <<Sealing!Hello(conn')>> /\ wire'["down"] = <<>>
  BY Ends DEF Sealing!Connect, Sealing!Nothing, Direction
<1>4. Sealing!In("host") = "up" /\ Sealing!In("viewer") = "down"
  BY DEF Sealing!In
<1>. QED
  BY <1>1, <1>2, <1>3, <1>4, Ends DEF Calm, CalmAt

\* A host that reads an untouched HELLO keeps the calm.
LEMMA CalmHostGreets ==
  ASSUME SealInv, Calm, ~Keyed("host"), wire["up"] # <<>>, NEW k, k = Head(wire["up"]).key,
         NEW w, w = [wire EXCEPT !["up"] = Tail(wire["up"])],
         Sealing!Greet("host", k, w), conn' = conn
  PROVE  Calm'
<1>1. /\ sent' = sent /\ end'["viewer"] = end["viewer"] /\ ~Keyed("viewer")
      /\ end'["host"].phase = "auth" /\ end'["host"].th = [ce |-> k, se |-> conn] /\ end'["host"].recvCtr = 0
      /\ wire'["up"] = Tail(wire["up"]) /\ wire'["down"] = Append(<<>>, Sealing!Hello(conn))
  BY HostGreets
<1>2. Sealing!In("host") = "up" /\ Sealing!In("viewer") = "down"
  BY DEF Sealing!In
<1>3. sent["up"] = <<>> /\ wire["up"] = <<Sealing!Hello(conn)>>
  BY <1>2, Ends DEF Calm, CalmAt
<1>4. k = conn /\ wire'["up"] = <<>>
  <2>1. Head(wire["up"]) = Sealing!Hello(conn) /\ Tail(wire["up"]) = <<>>
    BY <1>3
  <2>. QED
    BY <1>1, <2>1 DEF Sealing!Hello
<1>5. CalmAt("host")'
  <2>1. Keyed("host")' /\ ~Closed("host")'
    BY <1>1 DEF Keyed, Closed
  <2>2. Len(sent'["up"]) = 0 /\ Len(wire'["up"]) = 0
    BY <1>1, <1>3, <1>4
  <2>. QED
    BY <1>1, <1>2, <1>4, <2>1, <2>2 DEF CalmAt
<1>6. CalmAt("viewer")'
  <2>1. ~Keyed("viewer")' /\ ~Closed("viewer")'
    BY <1>1 DEF Keyed, Closed
  <2>2. sent["down"] = <<>>
    BY <1>1, <1>2, Ends DEF Calm, CalmAt
  <2>3. wire'["down"] = <<Sealing!Hello(conn)>>
    BY <1>1
  <2>. QED
    BY <1>1, <1>2, <2>1, <2>2, <2>3 DEF CalmAt
<1>. QED
  BY <1>5, <1>6, Ends DEF Calm

\* A viewer that reads an untouched HELLO keeps the calm.
LEMMA CalmViewerGreets ==
  ASSUME SealInv, Calm, ~Keyed("viewer"), wire["down"] # <<>>, NEW k, k = Head(wire["down"]).key,
         NEW w, w = [wire EXCEPT !["down"] = Tail(wire["down"])],
         Sealing!Greet("viewer", k, w), conn' = conn
  PROVE  Calm'
<1>1. /\ SealInv' /\ end'["host"] = end["host"] /\ Keyed("host")
      /\ sent["up"] = <<>> /\ sent'["up"] = Append(sent["up"], "auth") /\ sent'["down"] = sent["down"]
      /\ end'["viewer"].phase = "auth" /\ end'["viewer"].th = [ce |-> conn, se |-> k]
      /\ end'["viewer"].recvCtr = 0
      /\ wire'["down"] = Tail(wire["down"]) /\ SaysAuth(k)
  BY ViewerGreets
<1>2. PICK r \in SealedFrame :
        /\ wire'["up"] = Append(wire["up"], r) /\ r.kind = "sealed" /\ r.dir = "up" /\ r.ctr = 0
        /\ r.th = [ce |-> conn, se |-> k] /\ r.body = "auth"
  BY <1>1 DEF SaysAuth
<1>3. Sealing!In("host") = "up" /\ Sealing!In("viewer") = "down"
  BY DEF Sealing!In
<1>4. sent["down"] = <<>> /\ wire["down"] = <<Sealing!Hello(conn)>>
  BY <1>3, Ends DEF Calm, CalmAt
<1>5. k = conn /\ wire'["down"] = <<>>
  <2>1. Head(wire["down"]) = Sealing!Hello(conn) /\ Tail(wire["down"]) = <<>>
    BY <1>4
  <2>. QED
    BY <1>1, <2>1 DEF Sealing!Hello
<1>6. CalmAt("viewer")'
  <2>1. Keyed("viewer")' /\ ~Closed("viewer")'
    BY <1>1 DEF Keyed, Closed
  <2>2. Len(sent'["down"]) = 0 /\ Len(wire'["down"]) = 0
    BY <1>1, <1>4, <1>5
  <2>. QED
    BY <1>1, <1>3, <1>5, <2>1, <2>2 DEF CalmAt
<1>7. CalmAt("host")'
  <2>1. Keyed("host")' /\ ~Closed("host")'
    BY <1>1, <1>3, Ends DEF Keyed, Closed, Calm, CalmAt
  <2>2. PICK a \in Nat : a = end["host"].recvCtr
    BY Ends DEF SealInv, SealTypes, EndState
  <2>3. PICK v \in Seq(AnyFrame) : v = wire["up"]
    BY Ends DEF SealInv, SealTypes
  <2>4. end["host"].th = [ce |-> conn, se |-> conn] /\ Len(sent["up"]) = a + Len(v)
    BY <1>1, <1>3, <2>2, <2>3, Ends DEF Calm, CalmAt
  <2>5. a = 0 /\ Len(v) = 0
    BY <1>1, <2>4
  <2>6. wire'["up"] = <<r>> /\ sent'["up"] = <<"auth">>
    <3>1. v = <<>>
      BY <2>5
    <3>. QED
      BY <1>1, <1>2, <2>3, <3>1
  <2>7. OpensAt("host", r, 0)'
    <3>1. "auth" # "altered"
      OBVIOUS
    <3>. QED
      BY <1>2, <1>3, <1>5, <3>1 DEF OpensAt
  <2>8. Len(<<r>>) = 1 /\ Len(<<"auth">>) = 1 /\ \A n \in 1..1 : <<r>>[n] = r /\ 0 + n - 1 = 0
    OBVIOUS
  <2>9. end'["host"].recvCtr = 0
    BY <1>1, <2>2, <2>5
  <2>10. /\ Len(sent'["up"]) = 0 + Len(wire'["up"])
         /\ \A n \in 1..Len(wire'["up"]) : OpensAt("host", wire["up"][n], 0 + n - 1)'
    BY <2>6, <2>7, <2>8
  <2>. QED
    BY <1>1, <1>3, <2>1, <2>4, <2>9, <2>10 DEF CalmAt
<1>. QED
  BY <1>6, <1>7, Ends DEF Calm

\* What is under way in a session that nothing has disturbed opens.
LEMMA CalmOpens ==
  ASSUME SealInv, Calm, NEW p \in Program, Keyed(p), wire[Sealing!In(p)] # <<>>
  PROVE  Sealing!Opens(p, Head(wire[Sealing!In(p)]))
<1>1. PICK i \in Direction : i = Sealing!In(p)
  BY Ends
<1>2. PICK w \in Seq(AnyFrame) : w = wire[i]
  BY DEF SealInv, SealTypes
<1>3. Head(w) = w[1] /\ 1 \in 1..Len(w)
  BY <1>1, <1>2
<1>4. PICK a \in Nat : a = end[p].recvCtr
  BY DEF SealInv, SealTypes, EndState
<1>5. end[p].th = [ce |-> conn, se |-> conn] /\ OpensAt(p, w[1], a + 1 - 1)
  BY <1>1, <1>2, <1>3, <1>4 DEF Calm, CalmAt
<1>6. a + 1 - 1 = a
  OBVIOUS
<1>. QED
  BY <1>1, <1>2, <1>3, <1>4, <1>5, <1>6 DEF OpensAt, Sealing!Opens

\* An end that reads keeps the calm.
LEMMA CalmReads ==
  ASSUME SealInv, Calm, NEW p \in Program, Sealing!Read(p)
  PROVE  Calm'
<1>1. PICK i \in Direction : i = Sealing!In(p)
  BY Ends
<1>2. end[p].phase \in {"hello", "auth", "active"} /\ wire[i] # <<>> /\ conn' = conn
  BY <1>1 DEF Sealing!Read
<1>3. PICK f : f = Head(wire[i])
  OBVIOUS
<1>4. PICK w : w = [wire EXCEPT ![i] = Tail(wire[i])]
  OBVIOUS
<1>5. \/ end[p].phase = "hello" /\ Sealing!Greet(p, f.key, w)
      \/ end[p].phase # "hello" /\ Sealing!Opens(p, f) /\ Sealing!Accept(p, f, w)
      \/ end[p].phase # "hello" /\ ~Sealing!Opens(p, f)
  BY <1>1, <1>3, <1>4 DEF Sealing!Read
<1>6. CASE end[p].phase = "hello" /\ Sealing!Greet(p, f.key, w) /\ p = "host"
  <2>1. i = "up" /\ ~Keyed("host")
    BY <1>1, <1>6 DEF Sealing!In, Keyed
  <2>. QED
    BY <1>2, <1>3, <1>4, <1>6, <2>1, CalmHostGreets
<1>7. CASE end[p].phase = "hello" /\ Sealing!Greet(p, f.key, w) /\ p = "viewer"
  <2>1. i = "down" /\ ~Keyed("viewer")
    BY <1>1, <1>7 DEF Sealing!In, Keyed
  <2>. QED
    BY <1>2, <1>3, <1>4, <1>7, <2>1, CalmViewerGreets
<1>8. CASE end[p].phase # "hello"
  <2>1. Keyed(p) /\ end[p].phase \in {"auth", "active"}
    BY <1>2, <1>8 DEF Keyed
  <2>2. Sealing!Opens(p, f)
    BY <1>1, <1>2, <1>3, <2>1, CalmOpens
  <2>3. Sealing!Accept(p, f, w)
    BY <1>5, <1>8, <2>2
  <2>4. Running(p) /\ SealTypes' /\ ReadsOne(p)
    BY <1>1, <1>2, <1>3, <1>4, <2>1, <2>2, <2>3, AcceptRuns
  <2>. QED
    BY <1>1, <1>2, <2>4, CalmRuns
<1>9. p = "host" \/ p = "viewer"
  BY Ends
<1>. QED
  BY <1>5, <1>6, <1>7, <1>8, <1>9

Undisturbed == ~disturbed => Calm

\* Without a disturbance the calm stays.
LEMMA CalmStep ==
  ASSUME SealInv, Undisturbed, [Sealing!Next]_(Sealing!vars)
  PROVE  Undisturbed'
<1>1. CASE Sealing!Connect
  BY <1>1, CalmConnects DEF Undisturbed
<1>2. ASSUME NEW p \in Program, Sealing!Read(p) PROVE Undisturbed'
  <2>1. disturbed' = disturbed
    BY <1>2 DEF Sealing!Read
  <2>. QED
    BY <1>2, <2>1, CalmReads DEF Undisturbed
<1>3. ASSUME NEW p \in Program, Sealing!Say(p) PROVE Undisturbed'
  <2>1. PICK m \in Msg : Sealing!Transmit(p, end[p], m, wire)
    BY <1>3 DEF Sealing!Say
  <2>2. m \in Sealing!Payload
    BY DEF Sealing!Payload
  <2>3. end[p].phase = "active" /\ got' = got /\ conn' = conn /\ disturbed' = disturbed
    BY <1>3 DEF Sealing!Say
  <2>4. Running(p) /\ SealTypes' /\ ReadsNone(p)
    BY <2>1, <2>2, <2>3, SayRuns
  <2>. QED
    BY <2>3, <2>4, CalmRuns DEF Undisturbed
<1>4. ASSUME NEW d \in Direction, Sealing!Disturb(d) PROVE Undisturbed'
  BY <1>4 DEF Undisturbed, Sealing!Disturb
<1>5. CASE UNCHANGED Sealing!vars
  BY <1>5 DEF Undisturbed, Sealing!vars, Calm, CalmAt, OpensAt, Keyed, Closed
<1>. QED
  BY <1>1, <1>2, <1>3, <1>4, <1>5 DEF Sealing!Next, Program, Direction

\* A step of DataPath is a step of the session or leaves it alone.
LEMMA SealSteps == [Next]_vars => [Sealing!Next]_(Sealing!vars)
  BY DEF Next, vars, InPool, InTiles, InCodec, InLz, InSealing, InFraming, sealVars, Sealing!vars

\* The invariant of the session holds in every behaviour of the composition.
LEMMA SealKept == Init /\ [][Next]_vars => [](SealInv /\ Undisturbed)
<1>1. Init => SealInv /\ Undisturbed
  <2>. SUFFICES ASSUME Init PROVE SealInv /\ Undisturbed
    OBVIOUS
  <2>1. Sealing!Init
    BY DEF Init
  <2>2. \A p \in Program : ~Keyed(p) /\ ~Closed(p)
    BY <2>1 DEF Sealing!Init, Sealing!End, Keyed, Closed, Program
  <2>3. \A d \in Direction : sent[d] = <<>> /\ wire[d] = <<>>
    BY <2>1 DEF Sealing!Init, Sealing!Nothing, Direction
  <2>4. Calm
    BY <2>2, <2>3, Ends DEF Calm, CalmAt
  <2>. QED
    BY <2>1, <2>4, SealStarts DEF Undisturbed
<1>2. SealInv /\ Undisturbed /\ [Next]_vars => (SealInv /\ Undisturbed)'
  BY SealSteps, SealStep, CalmStep
<1>. QED
  BY <1>1, <1>2, PTL

\* rd_channel_seal, rd_channel_open and their callers: whatever the path loses,
\* repeats, swaps, alters or brings up again, each end accepts what the other
\* end of this session said, in order and from the start (each direction
\* implements Channel), and a path that does none of it never costs a session.
THEOREM SessionIsKept == FairSpec => ChannelsKept
<1>1. FairSpec => Init /\ [][Next]_vars
  BY PTL DEF FairSpec
<1>2. Init => Sealing!Up!Init /\ Sealing!Down!Init
  BY DEF Init, Sealing!Init, Sealing!Up!Init, Sealing!Down!Init, Sealing!End, Sealing!Nothing, Sealing!Program,
     Sealing!Direction
<1>3. SealInv /\ [Next]_vars => Passes("host", "up") /\ Passes("viewer", "down")
  <2>. SUFFICES ASSUME SealInv, [Next]_vars PROVE Passes("host", "up") /\ Passes("viewer", "down")
    OBVIOUS
  <2>1. \A r \in Program : Passes(r, Sealing!In(r))
    BY SealSteps, SealStep
  <2>2. Sealing!In("host") = "up" /\ Sealing!In("viewer") = "down"
    BY DEF Sealing!In
  <2>. QED
    BY <2>1, <2>2, Ends
<1>4. Passes("host", "up")
        => [Sealing!Up!Next]_<<sent["up"], got["up"], end["host"].phase = "closed">>
  BY DEF Passes, Closed, Sealing!Up!Next, Sealing!Up!Send, Sealing!Up!Deliver, Sealing!Up!Stop, Sealing!Up!NewSession
<1>5. Passes("viewer", "down")
        => [Sealing!Down!Next]_<<sent["down"], got["down"], end["viewer"].phase = "closed">>
  BY DEF Passes, Closed, Sealing!Down!Next, Sealing!Down!Send, Sealing!Down!Deliver, Sealing!Down!Stop,
     Sealing!Down!NewSession
<1>6. Undisturbed => Sealing!NoFalseAlarm
  BY DEF Undisturbed, Calm, CalmAt, Closed, Sealing!NoFalseAlarm, Program
<1>. QED
  BY <1>1, <1>2, <1>3, <1>4, <1>5, <1>6, SealKept, PTL
     DEF ChannelsKept, Sealing!ChannelsKept, Sealing!Up!Spec, Sealing!Down!Spec

-----------------------------------------------------------------------------
(* The framing (WsReader).  What a stream of frames means grows frame by   *)
(* frame, and rd_ws_next keeps the frames of a message under way in        *)
(* assembly; sums over frames are reasoned about as recursive functions.   *)

\* A function on 1..m is a sequence.
LEMMA SeqOf ==
  ASSUME NEW m \in Nat, NEW s, NEW T, s = [k \in 1..m |-> s[k]], \A k \in 1..m : s[k] \in T
  PROVE  s \in Seq(T) /\ Len(s) = m
<1>1. s \in [1..m -> T]
  OBVIOUS
<1>. QED
  BY <1>1

\* A sum that grows by each number of a sequence.
LEMMA TotalsIs ==
  ASSUME NEW s \in Seq(Nat)
  PROVE  /\ Framing!Totals(s)[0] = 0
         /\ \A n \in 0..Len(s) : Framing!Totals(s)[n] \in Nat
         /\ \A n \in 1..Len(s) : Framing!Totals(s)[n] = Framing!Totals(s)[n - 1] + s[n]
<1>. DEFINE L == Len(s)
            F(f, m) == f = [n \in 0..m |-> IF n = 0 THEN 0 ELSE f[n - 1] + s[n]]
            Bad == {m \in Nat : ~\E f : F(f, m)}
<1>0. L \in Nat /\ \A n \in 1..L : s[n] \in Nat
  OBVIOUS
<1>. HIDE DEF L
<1>1. Bad = {}
  <2>1. SUFFICES ASSUME Bad # {} PROVE FALSE
    OBVIOUS
  <2>2. PICK m \in Bad : \A i \in Bad : m <= i
    <3>1. Bad \subseteq Nat
      OBVIOUS
    <3>. HIDE DEF Bad
    <3>2. Tiles!Min(Bad) \in Bad /\ \A i \in Bad : Tiles!Min(Bad) <= i
      BY <2>1, <3>1, LeastElement
    <3>. QED
      BY <3>2
  <2>3. m \in Nat /\ ~\E f : F(f, m)
    <3>. HIDE DEF F
    <3>. QED
      OBVIOUS
  <2>4. CASE m = 0
    <3>1. PICK f : f = [n \in 0..m |-> 0]
      OBVIOUS
    <3>2. F(f, m)
      BY <2>4, <3>1
    <3>. HIDE DEF F
    <3>. QED
      BY <2>3, <3>2
  <2>5. CASE m # 0
    <3>1. m - 1 \in Nat /\ ~(m <= m - 1)
      BY <2>3, <2>5
    <3>2. PICK g : F(g, m - 1)
      <4>1. m - 1 \notin Bad
        BY <2>2, <3>1
      <4>. HIDE DEF F
      <4>. QED
        BY <3>1, <4>1
    <3>3. \A n \in 0..(m - 1) : g[n] = IF n = 0 THEN 0 ELSE g[n - 1] + s[n]
      BY <3>2
    <3>4. PICK f : f = [n \in 0..m |-> IF n < m THEN g[n] ELSE g[m - 1] + s[m]]
      OBVIOUS
    <3>5. ASSUME NEW n \in 0..m
          PROVE  f[n] = IF n = 0 THEN 0 ELSE f[n - 1] + s[n]
      <4>1. n # 0 => n - 1 \in 0..m /\ n - 1 < m
        BY <2>3
      <4>2. n # 0 => f[n - 1] = g[n - 1]
        BY <3>4, <4>1
      <4>3. CASE n < m
        <5>1. n \in 0..(m - 1)
          BY <2>3, <4>3
        <5>2. f[n] = g[n]
          BY <3>4, <4>3
        <5>. QED
          BY <3>3, <4>2, <5>1, <5>2
      <4>4. CASE ~(n < m)
        <5>1. n = m
          BY <2>3, <4>4
        <5>2. f[n] = g[m - 1] + s[m]
          BY <3>4, <4>4
        <5>. QED
          BY <2>5, <4>2, <5>1, <5>2
      <4>. QED
        BY <4>3, <4>4
    <3>6. f = [n \in 0..m |-> f[n]]
      BY <3>4
    <3>7. F(f, m)
      BY <3>5, <3>6
    <3>. HIDE DEF F
    <3>. QED
      BY <2>3, <3>7
  <2>. QED
    BY <2>4, <2>5
<1>2. PICK c : c = CHOOSE f : F(f, L)
  OBVIOUS
<1>3. F(c, L)
  <2>1. \E f : F(f, L)
    <3>. HIDE DEF F
    <3>. QED
      BY <1>0, <1>1
  <2>. HIDE DEF F
  <2>. QED
    BY <1>2, <2>1
<1>4. Framing!Totals(s) = c
  <2>1. Framing!Totals(s) = CHOOSE f : F(f, L)
    BY DEF Framing!Totals, L
  <2>. HIDE DEF F
  <2>. QED
    BY <1>2, <2>1
<1>5. \A n \in 0..L : c[n] = IF n = 0 THEN 0 ELSE c[n - 1] + s[n]
  BY <1>3
<1>. HIDE DEF F, Bad
<1>. DEFINE Wrong == {n \in 0..L : c[n] \notin Nat}
<1>6. Wrong = {}
  <2>1. SUFFICES ASSUME Wrong # {} PROVE FALSE
    OBVIOUS
  <2>2. PICK m \in 0..L : c[m] \notin Nat /\ \A i \in Wrong : m <= i
    <3>1. Wrong \subseteq Nat
      BY <1>0
    <3>2. Tiles!Min(Wrong) \in Wrong /\ \A i \in Wrong : Tiles!Min(Wrong) <= i
      <4>. HIDE DEF Wrong
      <4>. QED
        BY <2>1, <3>1, LeastElement
    <3>. QED
      BY <3>2
  <2>3. CASE m = 0
    BY <1>5, <2>2, <2>3
  <2>4. CASE m # 0
    <3>1. m - 1 \in 0..L /\ ~(m <= m - 1) /\ m \in 1..L
      BY <1>0, <2>4
    <3>2. c[m - 1] \in Nat
      BY <2>2, <3>1
    <3>3. c[m] = c[m - 1] + s[m]
      BY <1>5, <2>4
    <3>. QED
      BY <1>0, <2>2, <3>1, <3>2, <3>3
  <2>. QED
    BY <2>3, <2>4
<1>7. c[0] = 0 /\ \A n \in 0..L : c[n] \in Nat
  <2>1. 0 \in 0..L
    BY <1>0
  <2>2. c[0] = 0
    BY <1>5, <2>1
  <2>. QED
    BY <1>6, <2>2
<1>8. \A n \in 1..L : c[n] = c[n - 1] + s[n]
  BY <1>0, <1>5
<1>. QED
  BY <1>4, <1>7, <1>8 DEF L

\* Sums of sequences that begin alike.
LEMMA TotalsSame ==
  ASSUME NEW r \in Seq(Nat), NEW s \in Seq(Nat), NEW k \in Nat, k <= Len(r), k <= Len(s),
         \A n \in 1..k : r[n] = s[n]
  PROVE  \A n \in 0..k : Framing!Totals(r)[n] = Framing!Totals(s)[n]
<1>1. PICK a : a = Framing!Totals(r)
  OBVIOUS
<1>2. PICK b : b = Framing!Totals(s)
  OBVIOUS
<1>3. Len(r) \in Nat /\ Len(s) \in Nat
  OBVIOUS
<1>4. a[0] = 0 /\ b[0] = 0
  BY <1>1, <1>2, TotalsIs
<1>5. \A n \in 1..k : a[n] = a[n - 1] + r[n] /\ b[n] = b[n - 1] + s[n]
  <2>1. \A n \in 1..Len(r) : a[n] = a[n - 1] + r[n]
    BY <1>1, TotalsIs
  <2>2. \A n \in 1..Len(s) : b[n] = b[n - 1] + s[n]
    BY <1>2, TotalsIs
  <2>. QED
    BY <1>3, <2>1, <2>2
<1>. DEFINE Wrong == {n \in 0..k : a[n] # b[n]}
<1>6. Wrong = {}
  <2>1. SUFFICES ASSUME Wrong # {} PROVE FALSE
    OBVIOUS
  <2>2. PICK m \in 0..k : a[m] # b[m] /\ \A i \in Wrong : m <= i
    <3>1. Wrong \subseteq Nat
      OBVIOUS
    <3>2. Tiles!Min(Wrong) \in Wrong /\ \A i \in Wrong : Tiles!Min(Wrong) <= i
      <4>. HIDE DEF Wrong
      <4>. QED
        BY <2>1, <3>1, LeastElement
    <3>. QED
      BY <3>2
  <2>3. m # 0
    BY <1>4, <2>2
  <2>4. m - 1 \in 0..k /\ ~(m <= m - 1) /\ m \in 1..k
    BY <2>3
  <2>5. a[m - 1] = b[m - 1]
    BY <2>2, <2>4
  <2>. QED
    BY <1>5, <2>2, <2>4, <2>5
<1>. QED
  BY <1>1, <1>2, <1>6

\* Cardinality is the same operator in the instance.
LEMMA FramingCardinality == ASSUME NEW S PROVE Framing!Cardinality(S) = Cardinality(S)
  BY DEF Framing!Cardinality, Cardinality

\* A larger number comes last.
LEMMA OrderGrows ==
  ASSUME NEW S, S \subseteq Nat, IsFiniteSet(S), NEW k \in Nat, \A j \in S : j < k
  PROVE  /\ Cardinality(S) \in Nat /\ Framing!Cardinality(S) = Cardinality(S)
         /\ Framing!Cardinality(S \cup {k}) = Cardinality(S) + 1 /\ IsFiniteSet(S \cup {k})
         /\ \A n \in 1..Cardinality(S) : Framing!InOrder(S \cup {k})[n] = Framing!InOrder(S)[n]
         /\ Framing!InOrder(S \cup {k})[Cardinality(S) + 1] = k
<1>. DEFINE T == S \cup {k}
            Rank(R, x) == Cardinality({j \in R : j <= x})
            At(R, n) == {x \in R : Rank(R, x) = n}
<1>1. k \notin S /\ Cardinality(S) \in Nat /\ Cardinality(T) = Cardinality(S) + 1 /\ IsFiniteSet(T)
  BY FS_CardinalityType, FS_AddElement
<1>2. /\ \A x \in S : \A j \in T : j <= x => j \in S
      /\ \A j \in T : j <= k
  OBVIOUS
<1>3. {j \in T : j <= k} = T /\ \A x \in S : {j \in T : j <= x} = {j \in S : j <= x}
  BY <1>2
<1>4. ASSUME NEW x \in S PROVE Rank(T, x) = Rank(S, x) /\ Rank(S, x) <= Cardinality(S) /\ Rank(S, x) \in Nat
  <2>1. {j \in S : j <= x} \subseteq S
    OBVIOUS
  <2>. QED
    BY <1>3, <2>1, FS_Subset, FS_CardinalityType
<1>5. Rank(T, k) = Cardinality(S) + 1
  BY <1>1, <1>3
<1>. HIDE DEF Rank, T
<1>6. T = S \cup {k}
  BY DEF T
<1>7. \A n \in 1..Cardinality(S) : At(T, n) = At(S, n)
  <2>. SUFFICES ASSUME NEW n \in 1..Cardinality(S), NEW x PROVE x \in At(T, n) <=> x \in At(S, n)
    BY Zenon
  <2>1. Rank(T, k) # n
    BY <1>1, <1>5
  <2>. QED
    BY <1>4, <1>6, <2>1
<1>8. At(T, Cardinality(S) + 1) = {k}
  <2>1. \A x \in S : Rank(T, x) # Cardinality(S) + 1
    BY <1>1, <1>4
  <2>. QED
    BY <1>5, <1>6, <2>1
<1>9. \A R : \A n \in 1..Cardinality(R) : Framing!InOrder(R)[n] = CHOOSE x : x \in At(R, n)
  <2>. SUFFICES ASSUME NEW R, NEW n \in 1..Cardinality(R)
                PROVE  Framing!InOrder(R)[n] = CHOOSE x : x \in At(R, n)
    OBVIOUS
  <2>1. Framing!InOrder(R) = [m \in 1..Cardinality(R) |-> CHOOSE x \in R : Cardinality({j \in R : j <= x}) = m]
    BY DEF Framing!InOrder, Framing!Cardinality, Cardinality
  <2>2. Framing!InOrder(R)[n] = CHOOSE x \in R : Rank(R, x) = n
    BY <2>1 DEF Rank
  <2>. QED
    BY <2>2
<1>. HIDE DEF At
<1>10. \A n \in 1..Cardinality(S) : Framing!InOrder(T)[n] = Framing!InOrder(S)[n]
  <2>. SUFFICES ASSUME NEW n \in 1..Cardinality(S) PROVE Framing!InOrder(T)[n] = Framing!InOrder(S)[n]
    OBVIOUS
  <2>1. n \in 1..Cardinality(T)
    BY <1>1
  <2>. QED
    BY <1>7, <1>9, <2>1
<1>11. Framing!InOrder(T)[Cardinality(S) + 1] = k
  <2>1. Cardinality(S) + 1 \in 1..Cardinality(T)
    BY <1>1
  <2>. QED
    BY <1>8, <1>9, <2>1
<1>. QED
  BY <1>1, <1>10, <1>11, FramingCardinality DEF T

StreamFrame ==
  [opcode : {"binary", "cont", "control", "reserved"}, fin : BOOLEAN, masked : BOOLEAN, rsv : BOOLEAN, len : Nat]

FramesTypes ==
  /\ frames \in Seq(StreamFrame) /\ taken \in 0..Len(frames) /\ inLen \in Nat
  /\ awaiting \in BOOLEAN /\ failed \in BOOLEAN /\ flipped = FALSE

\* The buffer holds bytes that were written, and rd_ws_next waits for bytes only
\* when the next frame is not there.
FramesBuffered ==
  /\ Framing!Offset[taken] + inLen <= Framing!Offset[Len(frames)]
  /\ ~awaiting => taken < Len(frames)
  /\ failed => ~awaiting
  /\ awaiting /\ taken < Len(frames) => inLen < Framing!Size(Framing!First)

\* The frames of the message that is being put together.
Begun == {j \in Framing!Data : j <= taken /\ ~\E e \in Framing!Ends : j <= e /\ e <= taken}
Parts(ks) == [i \in 1..Framing!Cardinality(ks) |-> Framing!Payload(Framing!InOrder(ks)[i], TRUE)]

FramesRead ==
  /\ messages = Framing!Meaning(taken)
  /\ \A i \in 1..Cardinality(Framing!Closing(taken)) : Framing!InOrder(Framing!Closing(taken))[i] \in 1..taken
  /\ Begun = {} => assembly = Framing!NoAssembly
  /\ Begun # {} =>
       assembly = [opcode |-> frames[Framing!Min(Begun)].opcode, parts |-> Parts(Begun),
                   len |-> Framing!DataOffset[taken] - Framing!DataOffset[Framing!Min(Begun) - 1]]
  /\ assembly.opcode \in {"none", "binary"} /\ (assembly.opcode = "none" => Begun = {})
  /\ \A k \in 1..taken : Framing!Allowed(k)
  /\ failed => ~Framing!Allowed(taken + 1)

FramesInv == FramesTypes /\ FramesBuffered /\ FramesRead

\* A frame has a header and a size.
LEMMA FrameSize ==
  ASSUME NEW f \in StreamFrame
  PROVE  /\ f.len \in Nat /\ Framing!LengthSize(f.len) \in {2, 4, 10}
         /\ Framing!HeaderSize(f) = Framing!LengthSize(f.len) + 4
         /\ Framing!Size(f) = Framing!LengthSize(f.len) + 4 + f.len /\ Framing!Size(f) \in Nat
<1>1. f.len \in Nat
  BY DEF StreamFrame
<1>2. Framing!LengthSize(f.len) \in {2, 4, 10}
  BY <1>1 DEF Framing!LengthSize
<1>. QED
  BY <1>1, <1>2 DEF Framing!Size, Framing!HeaderSize

\* Frames have a size, and their places on the stream add up.
LEMMA OffsetsAre ==
  ASSUME frames \in Seq(StreamFrame)
  PROVE  /\ \A n \in 1..Len(frames) :
              /\ frames[n] \in StreamFrame
              /\ Framing!LengthSize(frames[n].len) \in {2, 4, 10}
              /\ Framing!Size(frames[n]) = Framing!LengthSize(frames[n].len) + 4 + frames[n].len
              /\ Framing!Offset[n] = Framing!Offset[n - 1] + Framing!Size(frames[n])
              /\ Framing!DataOffset[n] =
                   Framing!DataOffset[n - 1] + IF n \in Framing!Data THEN frames[n].len ELSE 0
         /\ \A n \in 0..Len(frames) : Framing!Offset[n] \in Nat /\ Framing!DataOffset[n] \in Nat
<1>1. PICK L \in Nat : L = Len(frames) /\ DOMAIN frames = 1..L
  OBVIOUS
<1>0. \A n \in 1..L : frames[n] \in StreamFrame
  BY <1>1
<1>2. \A n \in 1..L : /\ frames[n] \in StreamFrame /\ frames[n].len \in Nat
                     /\ Framing!LengthSize(frames[n].len) \in {2, 4, 10}
  BY <1>0, FrameSize
<1>3. \A n \in 1..L : /\ Framing!Size(frames[n]) = Framing!LengthSize(frames[n].len) + 4 + frames[n].len
                     /\ Framing!Size(frames[n]) \in Nat
  BY <1>0, FrameSize
<1>4. PICK s : s = [k \in 1..L |-> Framing!Size(frames[k])]
  OBVIOUS
<1>5. s \in Seq(Nat) /\ Len(s) = L /\ \A n \in 1..L : s[n] = Framing!Size(frames[n])
  BY <1>1, <1>3, <1>4
<1>6. Framing!Offset = Framing!Totals(s)
  BY <1>1, <1>4 DEF Framing!Offset
<1>7. PICK d : d = [k \in 1..L |-> IF k \in Framing!Data THEN frames[k].len ELSE 0]
  OBVIOUS
<1>8. d \in Seq(Nat) /\ Len(d) = L /\ \A n \in 1..L : d[n] = IF n \in Framing!Data THEN frames[n].len ELSE 0
  BY <1>1, <1>2, <1>7
<1>9. Framing!DataOffset = Framing!Totals(d)
  BY <1>1, <1>7 DEF Framing!DataOffset
<1>10. /\ \A n \in 0..L : Framing!Offset[n] \in Nat
       /\ \A n \in 1..L : Framing!Offset[n] = Framing!Offset[n - 1] + s[n]
  BY <1>5, <1>6, TotalsIs
<1>11. /\ \A n \in 0..L : Framing!DataOffset[n] \in Nat
       /\ \A n \in 1..L : Framing!DataOffset[n] = Framing!DataOffset[n - 1] + d[n]
  BY <1>8, <1>9, TotalsIs
<1>. QED
  BY <1>1, <1>2, <1>3, <1>5, <1>8, <1>10, <1>11

\* The same of the next state.
LEMMA OffsetsPrimed ==
  ASSUME frames' \in Seq(StreamFrame)
  PROVE  /\ \A n \in 1..Len(frames') :
              /\ frames'[n] \in StreamFrame
              /\ Framing!Offset'[n] = Framing!Offset'[n - 1] + Framing!Size(frames'[n])
         /\ \A n \in 0..Len(frames') : Framing!Offset'[n] \in Nat
<1>1. PICK L \in Nat : L = Len(frames') /\ DOMAIN frames' = 1..L
  OBVIOUS
<1>2. \A n \in 1..L : frames'[n] \in StreamFrame
  BY <1>1
<1>3. \A n \in 1..L : Framing!Size(frames'[n]) \in Nat
  BY <1>2, FrameSize
<1>4. PICK s : s = [k \in 1..L |-> Framing!Size(frames'[k])]
  OBVIOUS
<1>5. s \in Seq(Nat) /\ Len(s) = L /\ \A n \in 1..L : s[n] = Framing!Size(frames'[n])
  BY <1>3, <1>4
<1>6. Framing!Offset' = Framing!Totals(s)
  BY <1>1, <1>4 DEF Framing!Offset
<1>7. /\ \A n \in 0..L : Framing!Offset'[n] \in Nat
      /\ \A n \in 1..L : Framing!Offset'[n] = Framing!Offset'[n - 1] + s[n]
  BY <1>5, <1>6, TotalsIs
<1>. QED
  BY <1>1, <1>2, <1>5, <1>7

\* What frames mean does not depend on those written later.
LEMMA FrameWritten ==
  ASSUME frames \in Seq(StreamFrame), NEW f \in StreamFrame, frames' = Append(frames, f)
  PROVE  /\ frames' \in Seq(StreamFrame) /\ Len(frames') = Len(frames) + 1
         /\ \A n \in 0..Len(frames) :
              /\ Framing!Offset'[n] = Framing!Offset[n] /\ Framing!DataOffset'[n] = Framing!DataOffset[n]
              /\ Framing!Closing(n)' = Framing!Closing(n)
         /\ \A n \in 1..Len(frames) :
              /\ frames'[n] = frames[n] /\ Framing!Group(n)' = Framing!Group(n)
              /\ (n \in Framing!Data' <=> n \in Framing!Data) /\ (n \in Framing!Ends' <=> n \in Framing!Ends)
<1>1. PICK L \in Nat : L = Len(frames) /\ DOMAIN frames = 1..L
  OBVIOUS
<1>2. /\ frames' \in Seq(StreamFrame) /\ Len(frames') = L + 1 /\ DOMAIN frames' = 1..(L + 1)
      /\ \A n \in 1..L : frames'[n] = frames[n] /\ n \in 1..(L + 1)
  BY <1>1
<1>3. \A n \in 1..L : (n \in Framing!Data' <=> n \in Framing!Data) /\ (n \in Framing!Ends' <=> n \in Framing!Ends)
  BY <1>1, <1>2 DEF Framing!Data, Framing!Ends
<1>4. /\ Framing!Data \subseteq 1..L /\ Framing!Ends \subseteq 1..L
      /\ Framing!Data' \subseteq 1..(L + 1) /\ Framing!Ends' \subseteq 1..(L + 1)
  BY <1>1, <1>2 DEF Framing!Data, Framing!Ends
<1>5. ASSUME NEW n \in 1..L PROVE Framing!Group(n)' = Framing!Group(n)
  <2>1. ASSUME NEW j, j <= n PROVE j \in Framing!Data' <=> j \in Framing!Data
    <3>1. j \in 1..(L + 1) => j \in 1..L
      BY <2>1
    <3>. QED
      BY <1>3, <1>4, <3>1
  <2>2. ASSUME NEW e, e < n PROVE e \in Framing!Ends' <=> e \in Framing!Ends
    <3>1. e \in 1..(L + 1) => e \in 1..L
      BY <2>2
    <3>. QED
      BY <1>3, <1>4, <3>1
  <2>. QED
    BY <2>1, <2>2 DEF Framing!Group
<1>6. ASSUME NEW n \in 0..L PROVE Framing!Closing(n)' = Framing!Closing(n)
  <2>1. \A k \in 1..n : k \in 1..L
    OBVIOUS
  <2>2. \A k \in 1..n : (k \in Framing!Data' <=> k \in Framing!Data) /\ (k \in Framing!Ends' <=> k \in Framing!Ends)
    BY <1>3, <2>1
  <2>. QED
    BY <2>2 DEF Framing!Closing
<1>7. ASSUME NEW n \in 0..L
      PROVE  Framing!Offset'[n] = Framing!Offset[n] /\ Framing!DataOffset'[n] = Framing!DataOffset[n]
  <2>1. PICK s : s = [k \in 1..L |-> Framing!Size(frames[k])]
    OBVIOUS
  <2>2. PICK r : r = [k \in 1..(L + 1) |-> Framing!Size(frames'[k])]
    OBVIOUS
  <2>3. \A k \in 1..L : frames[k].len \in Nat /\ Framing!Size(frames[k]) \in Nat
    <3>1. \A k \in 1..L : frames[k] \in StreamFrame
      BY <1>1
    <3>. QED
      BY <3>1, FrameSize
  <2>4. \A k \in 1..(L + 1) : frames'[k].len \in Nat /\ Framing!Size(frames'[k]) \in Nat
    <3>1. \A k \in 1..(L + 1) : frames'[k] \in StreamFrame
      BY <1>2
    <3>. QED
      BY <3>1, FrameSize
  <2>5. s \in Seq(Nat) /\ Len(s) = L /\ \A k \in 1..L : s[k] = Framing!Size(frames[k])
    BY <2>1, <2>3
  <2>6. r \in Seq(Nat) /\ Len(r) = L + 1 /\ \A k \in 1..(L + 1) : r[k] = Framing!Size(frames'[k])
    <3>1. PICK m \in Nat : m = L + 1
      OBVIOUS
    <3>2. r = [k \in 1..m |-> Framing!Size(frames'[k])] /\ \A k \in 1..m : Framing!Size(frames'[k]) \in Nat
      BY <2>2, <2>4, <3>1
    <3>3. r \in Seq(Nat) /\ Len(r) = m /\ \A k \in 1..m : r[k] = Framing!Size(frames'[k])
      <4>1. \A k \in 1..m : r[k] = Framing!Size(frames'[k])
        BY <3>2
      <4>2. r = [k \in 1..m |-> r[k]] /\ \A k \in 1..m : r[k] \in Nat
        BY <3>2
      <4>. QED
        BY <4>1, <4>2, SeqOf
    <3>. QED
      BY <3>1, <3>3
  <2>7. \A k \in 1..L : r[k] = s[k]
    BY <1>2, <2>5, <2>6
  <2>8. \A m \in 0..L : Framing!Totals(r)[m] = Framing!Totals(s)[m]
    <3>1. L <= Len(r) /\ L <= Len(s) /\ r \in Seq(Nat) /\ s \in Seq(Nat)
      BY <2>5, <2>6
    <3>. QED
      BY <2>7, <3>1, TotalsSame
  <2>9. Framing!Offset = Framing!Totals(s)
    BY <1>1, <2>1 DEF Framing!Offset
  <2>10. Framing!Offset' = Framing!Totals(r)
    BY <1>2, <2>2 DEF Framing!Offset
  <2>11. PICK d : d = [k \in 1..L |-> IF k \in Framing!Data THEN frames[k].len ELSE 0]
    OBVIOUS
  <2>12. PICK e : e = [k \in 1..(L + 1) |-> IF k \in Framing!Data' THEN frames'[k].len ELSE 0]
    OBVIOUS
  <2>13. d \in Seq(Nat) /\ Len(d) = L /\ \A k \in 1..L : d[k] = IF k \in Framing!Data THEN frames[k].len ELSE 0
    BY <2>3, <2>11
  <2>14. /\ e \in Seq(Nat) /\ Len(e) = L + 1
         /\ \A k \in 1..(L + 1) : e[k] = IF k \in Framing!Data' THEN frames'[k].len ELSE 0
    <3>1. \A k \in 1..(L + 1) : (IF k \in Framing!Data' THEN frames'[k].len ELSE 0) \in Nat
      BY <2>4
    <3>2. PICK m \in Nat : m = L + 1
      OBVIOUS
    <3>3. /\ e = [k \in 1..m |-> IF k \in Framing!Data' THEN frames'[k].len ELSE 0]
          /\ \A k \in 1..m : (IF k \in Framing!Data' THEN frames'[k].len ELSE 0) \in Nat
      BY <2>12, <3>1, <3>2
    <3>4. /\ e \in Seq(Nat) /\ Len(e) = m
          /\ \A k \in 1..m : e[k] = IF k \in Framing!Data' THEN frames'[k].len ELSE 0
      <4>1. \A k \in 1..m : e[k] = IF k \in Framing!Data' THEN frames'[k].len ELSE 0
        BY <3>3
      <4>2. e = [k \in 1..m |-> e[k]] /\ \A k \in 1..m : e[k] \in Nat
        BY <3>3
      <4>. QED
        BY <4>1, <4>2, SeqOf
    <3>. QED
      BY <3>2, <3>4
  <2>15. \A k \in 1..L : e[k] = d[k]
    <3>. SUFFICES ASSUME NEW k \in 1..L PROVE e[k] = d[k]
      OBVIOUS
    <3>1. frames'[k] = frames[k] /\ (k \in Framing!Data' <=> k \in Framing!Data) /\ k \in 1..(L + 1)
      BY <1>2, <1>3
    <3>. QED
      BY <2>13, <2>14, <3>1
  <2>16. \A m \in 0..L : Framing!Totals(e)[m] = Framing!Totals(d)[m]
    <3>1. L <= Len(e) /\ L <= Len(d) /\ e \in Seq(Nat) /\ d \in Seq(Nat)
      BY <2>13, <2>14
    <3>. QED
      BY <2>15, <3>1, TotalsSame
  <2>17. Framing!DataOffset = Framing!Totals(d)
    BY <1>1, <2>11 DEF Framing!DataOffset
  <2>18. Framing!DataOffset' = Framing!Totals(e)
    BY <1>2, <2>12 DEF Framing!DataOffset
  <2>. QED
    BY <2>8, <2>9, <2>10, <2>16, <2>17, <2>18
<1>. QED
  BY <1>1, <1>2, <1>3, <1>5, <1>6, <1>7

\* The least of a set of numbers.
LEMMA FramingMin ==
  ASSUME NEW S, S \subseteq Nat, S # {}
  PROVE  Framing!Min(S) \in S /\ \A y \in S : Framing!Min(S) <= y
<1>1. Framing!Min(S) = Tiles!Min(S)
  BY DEF Framing!Min, Tiles!Min
<1>. QED
  BY <1>1, LeastElement

\* Where the message of a frame begins.
LEMMA GroupStarts ==
  ASSUME NEW k \in Framing!Data
  PROVE  /\ Framing!Group(k) \subseteq Framing!Data /\ k \in Framing!Group(k)
         /\ Framing!Min(Framing!Group(k)) \in 1..k
<1>1. Framing!Data \subseteq Nat \ {0} /\ k \in Nat
  BY DEF Framing!Data
<1>2. \A e \in Framing!Ends : e \in Nat
  BY <1>1 DEF Framing!Ends
<1>3. Framing!Group(k) \subseteq Framing!Data /\ k \in Framing!Group(k) /\ \A j \in Framing!Group(k) : j <= k
  BY <1>1, <1>2 DEF Framing!Group
<1>4. Framing!Group(k) \subseteq Nat
  BY <1>1, <1>3
<1>5. Framing!Min(Framing!Group(k)) \in Framing!Group(k)
  BY <1>3, <1>4, FramingMin
<1>6. PICK m : m = Framing!Min(Framing!Group(k))
  OBVIOUS
<1>7. m \in Nat \ {0} /\ m <= k
  BY <1>1, <1>3, <1>5, <1>6
<1>8. m \in 1..k
  BY <1>1, <1>7
<1>. QED
  BY <1>3, <1>6, <1>8

\* The next frame, with those before it that belong to the same message: rd_ws_next
\* refuses it where it is not allowed.
LEMMA NextFrame ==
  ASSUME FramesInv, taken < Len(frames), NEW k, k = taken + 1
  PROVE  /\ k \in 1..Len(frames) /\ taken \in Nat /\ Framing!First = frames[k] /\ frames[k] \in StreamFrame
         /\ Begun \subseteq 1..taken /\ IsFiniteSet(Begun)
         /\ (k \in Framing!Data <=> frames[k].opcode # "control")
         /\ (k \in Framing!Ends <=> frames[k].opcode # "control" /\ frames[k].fin)
         /\ (k \in Framing!Data => Framing!Group(k) = Begun \cup {k})
         /\ (Begun # {} => Framing!Min(Begun \cup {k}) = Framing!Min(Begun) /\ Framing!Min(Begun) \in 1..taken)
         /\ Framing!Min({k}) = k
         /\ (k \in Framing!Data => Framing!GroupLen(k) = assembly.len + frames[k].len)
         /\ (assembly = Framing!NoAssembly <=> Begun = {})
<1>1. PICK L \in Nat : L = Len(frames) /\ DOMAIN frames = 1..L
  BY DEF FramesInv, FramesTypes
<1>2. taken \in Nat /\ taken < L /\ k \in 1..L /\ k \in Nat /\ k - 1 = taken
  BY <1>1 DEF FramesInv, FramesTypes
<1>3. Framing!First = frames[k] /\ frames[k] \in StreamFrame
  BY <1>1, <1>2 DEF Framing!First, FramesInv, FramesTypes
<1>4. Framing!Data \subseteq 1..L /\ Framing!Ends \subseteq 1..L
  BY <1>1 DEF Framing!Data, Framing!Ends
<1>5. Begun \subseteq 1..taken /\ IsFiniteSet(Begun)
  <2>1. Begun \subseteq 1..taken
    <3>1. \A j \in Begun : j \in 1..L /\ j <= taken
      BY <1>4 DEF Begun
    <3>. QED
      BY <1>2, <3>1
  <2>2. IsFiniteSet(1..taken)
    BY <1>2, FS_Interval
  <2>. QED
    BY <2>1, <2>2, FS_Subset
<1>6. /\ (k \in Framing!Data <=> frames[k].opcode # "control")
      /\ (k \in Framing!Ends <=> frames[k].opcode # "control" /\ frames[k].fin)
  BY <1>1, <1>2 DEF Framing!Data, Framing!Ends
<1>7. ASSUME k \in Framing!Data PROVE Framing!Group(k) = Begun \cup {k}
  <2>1. ASSUME NEW j \in 1..L PROVE j <= k <=> j <= taken \/ j = k
    BY <1>2
  <2>2. ASSUME NEW e \in 1..L PROVE e < k <=> e <= taken
    BY <1>2
  <2>3. \A e \in 1..L : ~(k <= e /\ e < k)
    BY <1>2
  <2>. QED
    BY <1>4, <1>7, <2>1, <2>2, <2>3 DEF Framing!Group, Begun
<1>8. ASSUME Begun # {}
      PROVE  Framing!Min(Begun \cup {k}) = Framing!Min(Begun) /\ Framing!Min(Begun) \in 1..taken
  <2>1. Begun \subseteq Nat /\ Begun \cup {k} \subseteq Nat /\ \A j \in Begun : j < k
    BY <1>2, <1>5
  <2>2. PICK a \in Begun : a = Framing!Min(Begun) /\ \A y \in Begun : a <= y
    BY <1>8, <2>1, FramingMin
  <2>3. PICK b \in Begun \cup {k} : b = Framing!Min(Begun \cup {k}) /\ \A y \in Begun \cup {k} : b <= y
    BY <2>1, FramingMin
  <2>4. a <= b /\ b <= a /\ a \in Nat /\ b \in Nat
    <3>1. a \in Nat /\ b \in Nat /\ a < k
      BY <2>1
    <3>2. b <= a
      BY <2>3
    <3>3. a <= b
      <4>1. CASE b \in Begun
        BY <2>2, <4>1
      <4>2. CASE b = k
        BY <1>2, <3>1, <4>2
      <4>. QED
        BY <4>1, <4>2
    <3>. QED
      BY <3>1, <3>2, <3>3
  <2>. QED
    BY <1>5, <2>2, <2>3, <2>4
<1>9. Framing!Min({k}) = k
  BY <1>2, FramingMin
<1>10. (assembly = Framing!NoAssembly <=> Begun = {})
  <2>1. Framing!NoAssembly.opcode = "none"
    BY DEF Framing!NoAssembly
  <2>. QED
    BY <2>1 DEF FramesInv, FramesRead
<1>11. ASSUME k \in Framing!Data PROVE Framing!GroupLen(k) = assembly.len + frames[k].len
  <2>1. frames \in Seq(StreamFrame)
    BY DEF FramesInv, FramesTypes
  <2>2. /\ Framing!DataOffset[k] = Framing!DataOffset[taken] + frames[k].len
        /\ Framing!DataOffset[taken] \in Nat /\ frames[k].len \in Nat
    <3>1. frames[k].len \in Nat
      BY <1>3, FrameSize
    <3>2. /\ k \in 1..Len(frames) /\ taken \in 0..Len(frames)
      BY <1>1, <1>2
    <3>. QED
      BY <1>2, <1>11, <2>1, <3>1, <3>2, OffsetsAre
  <2>3. Framing!GroupLen(k) = Framing!DataOffset[k] - Framing!DataOffset[Framing!Min(Begun \cup {k}) - 1]
    BY <1>7, <1>11 DEF Framing!GroupLen
  <2>4. CASE Begun = {}
    <3>1. assembly.len = 0
      BY <2>4 DEF FramesInv, FramesRead, Framing!NoAssembly
    <3>2. Framing!Min(Begun \cup {k}) = k
      BY <1>9, <2>4
    <3>. QED
      BY <1>2, <2>2, <2>3, <3>1, <3>2
  <2>5. CASE Begun # {}
    <3>1. PICK a : a = Framing!DataOffset[Framing!Min(Begun) - 1]
      OBVIOUS
    <3>2. assembly.len = Framing!DataOffset[taken] - a
      BY <2>5, <3>1 DEF FramesInv, FramesRead
    <3>3. a \in Nat
      <4>1. Framing!Min(Begun) - 1 \in 0..Len(frames)
        BY <1>1, <1>2, <1>8, <2>5
      <4>. QED
        BY <2>1, <3>1, <4>1, OffsetsAre
    <3>. QED
      BY <1>8, <2>2, <2>3, <2>5, <3>1, <3>2, <3>3
  <2>. QED
    BY <2>4, <2>5
<1>. QED
  BY <1>1, <1>2, <1>3, <1>5, <1>6, <1>7, <1>8, <1>9, <1>10, <1>11

\* A frame that is not allowed is one rd_ws_next fails at.
LEMMA RefusedFrames ==
  ASSUME FramesInv, taken < Len(frames)
  PROVE  Framing!Allowed(taken + 1) <=>
           /\ ~Framing!First.rsv /\ Framing!First.masked /\ Framing!First.len <= MaxMessage
           /\ ~Framing!BadFrame
<1>1. PICK k : k = taken + 1
  OBVIOUS
<1>2. /\ Framing!First = frames[k] /\ frames[k] \in StreamFrame
      /\ (k \in Framing!Data <=> frames[k].opcode # "control")
      /\ (k \in Framing!Data => Framing!Group(k) = Begun \cup {k} /\ Framing!GroupLen(k) = assembly.len + frames[k].len)
      /\ (assembly = Framing!NoAssembly <=> Begun = {}) /\ k \notin Begun
  <2>1. taken \in Nat /\ Begun \subseteq 1..taken
    BY <1>1, NextFrame
  <2>2. k \notin Begun
    BY <1>1, <2>1
  <2>. QED
    BY <1>1, <2>2, NextFrame
<1>3. PICK f \in StreamFrame : f = frames[k]
  BY <1>2
<1>4. f.opcode \in {"binary", "cont", "control", "reserved"} /\ f.len \in Nat
  BY DEF StreamFrame
<1>5. (Begun \cup {k} = {k} <=> Begun = {})
  BY <1>2
<1>6. MaxMessage \in Nat
  BY FramingAssumed DEF Framing!FramingAssumption
<1>7. Framing!Allowed(k) <=>
        /\ f.masked /\ ~f.rsv /\ f.len <= MaxMessage
        /\ \/ f.opcode = "control" /\ f.fin /\ f.len <= 125
           \/ f.opcode = "cont" /\ Framing!Group(k) # {k} /\ Framing!GroupLen(k) <= MaxMessage
           \/ f.opcode = "binary" /\ Framing!Group(k) = {k}
  BY <1>3, <1>4 DEF Framing!Allowed
<1>8. Framing!BadFrame <=>
        \/ f.opcode = "control" /\ (~f.fin \/ f.len > 125)
        \/ f.opcode = "cont" /\ (assembly = Framing!NoAssembly \/ assembly.len + f.len > MaxMessage)
        \/ f.opcode = "binary" /\ assembly # Framing!NoAssembly
        \/ f.opcode = "reserved"
  BY <1>2, <1>3, <1>4 DEF Framing!BadFrame
<1>9. f.opcode = "cont" /\ Begun # {} => assembly.len + f.len \in Int
  <2>1. ASSUME Begun # {} PROVE assembly.len \in Int
    <3>1. k \in 1..Len(frames) /\ taken \in 0..Len(frames) /\ Framing!Min(Begun) - 1 \in 0..Len(frames)
      <4>1. Framing!Min(Begun) \in 1..taken /\ taken \in Nat /\ k \in 1..Len(frames)
        BY <1>1, <2>1, NextFrame
      <4>. QED
        BY <1>1, <4>1 DEF FramesInv, FramesTypes
    <3>2. frames \in Seq(StreamFrame)
      BY DEF FramesInv, FramesTypes
    <3>3. Framing!DataOffset[taken] \in Nat /\ Framing!DataOffset[Framing!Min(Begun) - 1] \in Nat
      BY <3>1, <3>2, OffsetsAre
    <3>4. assembly.len = Framing!DataOffset[taken] - Framing!DataOffset[Framing!Min(Begun) - 1]
      BY <2>1 DEF FramesInv, FramesRead
    <3>. QED
      BY <3>3, <3>4
  <2>. QED
    BY <1>4, <2>1
<1>10. ASSUME f.masked, ~f.rsv, f.len <= MaxMessage
       PROVE  Framing!Allowed(k) <=> ~Framing!BadFrame
  <2>1. CASE f.opcode = "control"
    BY <1>4, <1>7, <1>8, <1>10, <2>1
  <2>2. CASE f.opcode = "cont"
    BY <1>2, <1>3, <1>5, <1>6, <1>7, <1>8, <1>9, <1>10, <2>2
  <2>3. CASE f.opcode = "binary"
    BY <1>2, <1>3, <1>5, <1>7, <1>8, <1>10, <2>3
  <2>4. CASE f.opcode = "reserved"
    BY <1>7, <1>8, <2>4
  <2>. QED
    BY <1>4, <2>1, <2>2, <2>3, <2>4
<1>. QED
  BY <1>1, <1>2, <1>3, <1>7, <1>10

\* s is a function on the first c numbers.
Spans(s, c) == s = [i \in 1..c |-> s[i]]

\* A sequence and one member more.
LEMMA AppendIs ==
  ASSUME NEW c \in Nat, NEW s, Spans(s, c), NEW t, Spans(t, c + 1), \A i \in 1..c : t[i] = s[i]
  PROVE  t = Append(s, t[c + 1])
<1>1. PICK T : T = {t[i] : i \in 1..(c + 1)}
  OBVIOUS
<1>2. PICK m \in Nat : m = c + 1
  OBVIOUS
<1>3. \A i \in 1..m : t[i] \in T
  BY <1>1, <1>2
<1>4. \A i \in 1..c : s[i] \in T
  <2>1. \A i \in 1..c : i \in 1..m
    BY <1>2
  <2>. QED
    BY <1>3, <2>1
<1>5. s \in Seq(T) /\ Len(s) = c
  <2>1. s = [i \in 1..c |-> s[i]]
    BY DEF Spans
  <2>. QED
    BY <1>4, <2>1, SeqOf
<1>6. t \in Seq(T) /\ Len(t) = m
  <2>1. t = [i \in 1..m |-> t[i]]
    BY <1>2 DEF Spans
  <2>. QED
    BY <1>3, <2>1, SeqOf
<1>7. t[m] \in T
  BY <1>2, <1>3
<1>8. PICK a : a = Append(s, t[m])
  OBVIOUS
<1>9. /\ a \in Seq(T) /\ Len(a) = m
      /\ \A i \in 1..m : a[i] = IF i = m THEN t[m] ELSE s[i]
  BY <1>2, <1>5, <1>7, <1>8
<1>10. \A i \in 1..m : a[i] = t[i]
  <2>1. ASSUME NEW i \in 1..m, i # m PROVE i \in 1..c
    BY <1>2, <2>1
  <2>. QED
    BY <1>9, <2>1
<1>11. t = a
  <2>1. a = [i \in 1..m |-> a[i]]
    BY <1>9
  <2>2. t = [i \in 1..m |-> t[i]]
    BY <1>2 DEF Spans
  <2>. QED
    BY <1>10, <2>1, <2>2
<1>. QED
  BY <1>2, <1>8, <1>11

\* The payloads of a message that one frame more joins.
LEMMA PartsGrow ==
  ASSUME NEW S, S \subseteq Nat, IsFiniteSet(S), NEW k \in Nat, \A j \in S : j < k
  PROVE  Parts(S \cup {k}) = Append(Parts(S), Framing!Payload(k, TRUE)) /\ Parts({}) = <<>>
<1>1. PICK c \in Nat : c = Cardinality(S) /\ Framing!Cardinality(S) = c
  <2>1. Cardinality(S) \in Nat /\ Framing!Cardinality(S) = Cardinality(S)
    BY OrderGrows
  <2>. QED
    BY <2>1
<1>2. /\ Framing!Cardinality(S \cup {k}) = c + 1
      /\ \A n \in 1..c : Framing!InOrder(S \cup {k})[n] = Framing!InOrder(S)[n]
      /\ Framing!InOrder(S \cup {k})[c + 1] = k
  <2>1. /\ Framing!Cardinality(S \cup {k}) = Cardinality(S) + 1
        /\ \A n \in 1..Cardinality(S) : Framing!InOrder(S \cup {k})[n] = Framing!InOrder(S)[n]
        /\ Framing!InOrder(S \cup {k})[Cardinality(S) + 1] = k
    BY OrderGrows
  <2>. QED
    BY <1>1, <2>1
<1>3. PICK s : s = [i \in 1..c |-> Framing!Payload(Framing!InOrder(S)[i], TRUE)]
  OBVIOUS
<1>4. PICK t : t = [i \in 1..(c + 1) |-> Framing!Payload(Framing!InOrder(S \cup {k})[i], TRUE)]
  OBVIOUS
<1>5. Parts(S) = s /\ Parts(S \cup {k}) = t
  BY <1>1, <1>2, <1>3, <1>4 DEF Parts
<1>6. t[c + 1] = Framing!Payload(k, TRUE)
  <2>1. c + 1 \in 1..(c + 1)
    OBVIOUS
  <2>. QED
    BY <1>2, <1>4, <2>1
<1>7. \A i \in 1..c : t[i] = s[i]
  <2>1. \A i \in 1..c : i \in 1..(c + 1)
    OBVIOUS
  <2>. QED
    BY <1>2, <1>3, <1>4, <2>1
<1>8. Spans(s, c) /\ Spans(t, c + 1)
  BY <1>3, <1>4 DEF Spans
<1>9. t = Append(s, t[c + 1])
  BY <1>1, <1>7, <1>8, AppendIs
<1>10. Parts({}) = <<>>
  <2>1. Framing!Cardinality({}) = 0
    BY FramingCardinality, FS_EmptySet
  <2>2. PICK r : r = [i \in 1..0 |-> Framing!Payload(Framing!InOrder({})[i], TRUE)]
    OBVIOUS
  <2>3. r \in Seq({}) /\ Len(r) = 0
    <3>1. r = [i \in 1..0 |-> r[i]] /\ \A i \in 1..0 : r[i] \in {}
      BY <2>2
    <3>. QED
      BY <3>1, SeqOf
  <2>4. Parts({}) = r
    BY <2>1, <2>2 DEF Parts
  <2>. QED
    BY <2>3, <2>4
<1>. QED
  BY <1>5, <1>6, <1>9, <1>10

\* What the stream means up to the next frame.
LEMMA MeaningNext ==
  ASSUME FramesInv, taken < Len(frames), NEW k, k = taken + 1
  PROVE  /\ k \in Framing!Data /\ k \notin Framing!Ends => Framing!Meaning(k) = Framing!Meaning(taken)
         /\ (k \in Framing!Data => k \in Framing!Ends) =>
              Framing!Meaning(k) = Append(Framing!Meaning(taken), Framing!Meant(k))
         /\ \A i \in 1..Cardinality(Framing!Closing(k)) : Framing!InOrder(Framing!Closing(k))[i] \in 1..k
<1>1. taken \in Nat /\ k \in Nat
  BY DEF FramesInv, FramesTypes
<1>2. PICK S : S = Framing!Closing(taken)
  OBVIOUS
<1>3. S \subseteq 1..taken /\ IsFiniteSet(S) /\ S \subseteq Nat /\ \A j \in S : j < k
  <2>1. S \subseteq 1..taken
    BY <1>2 DEF Framing!Closing
  <2>2. IsFiniteSet(1..taken)
    BY <1>1, FS_Interval
  <2>3. IsFiniteSet(S)
    BY <2>1, <2>2, FS_Subset
  <2>4. \A j \in 1..taken : j \in Nat /\ j < k
    BY <1>1
  <2>. QED
    BY <2>1, <2>3, <2>4
<1>4. \A j : j \in 1..k <=> j \in 1..taken \/ j = k
  BY <1>1
<1>5. ASSUME k \in Framing!Data, k \notin Framing!Ends PROVE Framing!Closing(k) = S
  BY <1>2, <1>4, <1>5 DEF Framing!Closing
<1>6. ASSUME k \in Framing!Data => k \in Framing!Ends PROVE Framing!Closing(k) = S \cup {k}
  BY <1>2, <1>4, <1>6 DEF Framing!Closing
<1>7. \A i \in 1..Cardinality(S) : Framing!InOrder(S)[i] \in 1..taken
  BY <1>2 DEF FramesInv, FramesRead
<1>8. PICK c \in Nat : c = Cardinality(S) /\ Framing!Cardinality(S) = c
  BY <1>1, <1>3, OrderGrows
<1>9. /\ Framing!Cardinality(S \cup {k}) = c + 1 /\ Cardinality(S \cup {k}) = c + 1
      /\ \A n \in 1..c : Framing!InOrder(S \cup {k})[n] = Framing!InOrder(S)[n]
      /\ Framing!InOrder(S \cup {k})[c + 1] = k
  <2>1. /\ Framing!Cardinality(S \cup {k}) = Cardinality(S) + 1
        /\ \A n \in 1..Cardinality(S) : Framing!InOrder(S \cup {k})[n] = Framing!InOrder(S)[n]
        /\ Framing!InOrder(S \cup {k})[Cardinality(S) + 1] = k
    BY <1>1, <1>3, OrderGrows
  <2>2. Cardinality(S \cup {k}) = Framing!Cardinality(S \cup {k})
    BY FramingCardinality
  <2>. QED
    BY <1>8, <2>1, <2>2
<1>10. ASSUME k \in Framing!Data, k \notin Framing!Ends
       PROVE  /\ Framing!Meaning(k) = Framing!Meaning(taken)
              /\ \A i \in 1..Cardinality(Framing!Closing(k)) : Framing!InOrder(Framing!Closing(k))[i] \in 1..k
  <2>1. Framing!Closing(k) = S
    BY <1>5, <1>10
  <2>2. Framing!Meaning(k) = Framing!Meaning(taken)
    BY <1>2, <2>1 DEF Framing!Meaning
  <2>. QED
    BY <1>4, <1>7, <2>1, <2>2
<1>11. ASSUME k \in Framing!Data => k \in Framing!Ends
       PROVE  /\ Framing!Meaning(k) = Append(Framing!Meaning(taken), Framing!Meant(k))
              /\ \A i \in 1..Cardinality(Framing!Closing(k)) : Framing!InOrder(Framing!Closing(k))[i] \in 1..k
  <2>1. Framing!Closing(k) = S \cup {k}
    BY <1>6, <1>11
  <2>2. PICK s : s = [i \in 1..c |-> Framing!Meant(Framing!InOrder(S)[i])]
    OBVIOUS
  <2>3. PICK t : t = [i \in 1..(c + 1) |-> Framing!Meant(Framing!InOrder(S \cup {k})[i])]
    OBVIOUS
  <2>4. Framing!Meaning(taken) = s /\ Framing!Meaning(k) = t
    BY <1>2, <1>8, <1>9, <2>1, <2>2, <2>3 DEF Framing!Meaning
  <2>5. c + 1 \in 1..(c + 1) /\ \A i \in 1..c : i \in 1..(c + 1)
    OBVIOUS
  <2>6. t[c + 1] = Framing!Meant(k)
    BY <1>9, <2>3, <2>5
  <2>7. \A i \in 1..c : t[i] = s[i]
    BY <1>9, <2>2, <2>3, <2>5
  <2>8. Spans(s, c) /\ Spans(t, c + 1)
    BY <2>2, <2>3 DEF Spans
  <2>9. t = Append(s, t[c + 1])
    BY <1>8, <2>7, <2>8, AppendIs
  <2>10. ASSUME NEW i \in 1..(c + 1) PROVE Framing!InOrder(S \cup {k})[i] \in 1..k
    <3>1. i \in 1..c \/ i = c + 1
      OBVIOUS
    <3>2. k \in 1..k
      BY <1>1, <1>4
    <3>. QED
      BY <1>4, <1>7, <1>8, <1>9, <3>1, <3>2
  <2>. QED
    BY <1>9, <2>1, <2>4, <2>6, <2>9, <2>10
<1>. QED
  BY <1>10, <1>11

\* What rd_ws_next puts together with frame k.
OpcodeWith(k) == IF frames[k].opcode = "cont" THEN assembly.opcode ELSE frames[k].opcode
PartsWith(k) ==
  IF frames[k].opcode = "cont" THEN Append(assembly.parts, Framing!Payload(k, TRUE))
  ELSE <<Framing!Payload(k, TRUE)>>

\* What rd_ws_next makes of an allowed data frame is what the stream means by it.
LEMMA NextMeant ==
  ASSUME FramesInv, taken < Len(frames), NEW k, k = taken + 1, ~Framing!BadFrame
  PROVE  /\ frames[k].opcode = "control" =>
              Framing!Meant(k) = Framing!Message("control", <<Framing!Payload(k, TRUE)>>)
         /\ frames[k].opcode # "control" =>
              /\ Framing!Meant(k) = Framing!Message(OpcodeWith(k), PartsWith(k))
              /\ OpcodeWith(k) = frames[Framing!Min(Begun \cup {k})].opcode /\ OpcodeWith(k) = "binary"
              /\ PartsWith(k) = Parts(Begun \cup {k})
              /\ assembly.len + frames[k].len =
                   Framing!DataOffset[k] - Framing!DataOffset[Framing!Min(Begun \cup {k}) - 1]
<1>01. PICK f, part, opcode, parts :
         /\ f = frames[k] /\ part = Framing!Payload(k, TRUE)
         /\ opcode = IF f.opcode = "cont" THEN assembly.opcode ELSE f.opcode
         /\ parts = IF f.opcode = "cont" THEN Append(assembly.parts, part) ELSE <<part>>
  OBVIOUS
<1>02. opcode = OpcodeWith(k) /\ parts = PartsWith(k)
  BY <1>01 DEF OpcodeWith, PartsWith
<1>1. /\ taken \in Nat /\ k \in Nat /\ Framing!First = f /\ f \in StreamFrame
      /\ Begun \subseteq 1..taken /\ IsFiniteSet(Begun)
      /\ (k \in Framing!Data <=> f.opcode # "control")
      /\ (k \in Framing!Data => Framing!Group(k) = Begun \cup {k})
      /\ (Begun # {} => Framing!Min(Begun \cup {k}) = Framing!Min(Begun))
      /\ Framing!Min({k}) = k
      /\ (k \in Framing!Data => Framing!GroupLen(k) = assembly.len + f.len)
      /\ (assembly = Framing!NoAssembly <=> Begun = {})
  <2>1. /\ taken \in Nat /\ Framing!First = frames[k] /\ frames[k] \in StreamFrame
        /\ Begun \subseteq 1..taken /\ IsFiniteSet(Begun)
        /\ (k \in Framing!Data <=> frames[k].opcode # "control")
    BY NextFrame
  <2>2. /\ (k \in Framing!Data => Framing!Group(k) = Begun \cup {k})
        /\ (Begun # {} => Framing!Min(Begun \cup {k}) = Framing!Min(Begun))
        /\ Framing!Min({k}) = k
    BY NextFrame
  <2>3. (k \in Framing!Data => Framing!GroupLen(k) = assembly.len + frames[k].len)
    BY NextFrame
  <2>4. (assembly = Framing!NoAssembly <=> Begun = {})
    BY NextFrame
  <2>5. k \in Nat
    BY <2>1
  <2>. QED
    BY <1>01, <2>1, <2>2, <2>3, <2>4, <2>5
<1>2. f.opcode \in {"binary", "cont", "control", "reserved"}
  BY <1>1 DEF StreamFrame
<1>3. /\ Begun \subseteq Nat /\ (\A j \in Begun : j < k)
      /\ {} \subseteq Nat /\ IsFiniteSet({}) /\ (\A j \in {} : j < k)
  BY <1>1, FS_EmptySet
<1>4. /\ Parts(Begun \cup {k}) = Append(Parts(Begun), part)
      /\ Parts({} \cup {k}) = Append(Parts({}), part) /\ Parts({}) = <<>>
  BY <1>01, <1>1, <1>3, PartsGrow
<1>5. Parts({k}) = <<part>>
  <2>1. {} \cup {k} = {k} /\ Append(<<>>, part) = <<part>>
    OBVIOUS
  <2>. QED
    BY <1>4, <2>1
<1>6. \A ks : [i \in 1..Framing!Cardinality(ks) |-> Framing!Payload(Framing!InOrder(ks)[i], TRUE)] = Parts(ks)
  BY DEF Parts
<1>7. Framing!Meant(k) =
        IF k \in Framing!Data THEN Framing!Message(frames[Framing!Min(Framing!Group(k))].opcode, Parts(Framing!Group(k)))
        ELSE Framing!Message(frames[Framing!Min({k})].opcode, Parts({k}))
  BY <1>6 DEF Framing!Meant
<1>8. ASSUME f.opcode = "control" PROVE Framing!Meant(k) = Framing!Message("control", <<part>>)
  BY <1>01, <1>1, <1>5, <1>7, <1>8
<1>9. ASSUME f.opcode # "control"
      PROVE  /\ opcode = frames[Framing!Min(Begun \cup {k})].opcode /\ opcode = "binary"
             /\ parts = Parts(Begun \cup {k})
  <2>1. CASE f.opcode = "cont"
    <3>1. assembly # Framing!NoAssembly
      BY <1>1, <2>1 DEF Framing!BadFrame
    <3>2. Begun # {}
      BY <1>1, <3>1
    <3>3. assembly.opcode = frames[Framing!Min(Begun)].opcode /\ assembly.parts = Parts(Begun)
      BY <3>2 DEF FramesInv, FramesRead
    <3>4. assembly.opcode = "binary"
      BY <3>2 DEF FramesInv, FramesRead
    <3>. QED
      BY <1>01, <1>1, <1>4, <2>1, <3>2, <3>3, <3>4
  <2>2. CASE f.opcode = "binary"
    <3>1. assembly = Framing!NoAssembly
      BY <1>1, <2>2 DEF Framing!BadFrame
    <3>2. Begun \cup {k} = {k}
      BY <1>1, <3>1
    <3>3. Framing!Min(Begun \cup {k}) = k /\ Parts(Begun \cup {k}) = <<part>>
      BY <1>1, <1>5, <3>2
    <3>. QED
      BY <1>01, <2>2, <3>3
  <2>3. f.opcode # "reserved"
    BY <1>1 DEF Framing!BadFrame
  <2>. QED
    BY <1>2, <1>9, <2>1, <2>2, <2>3
<1>10. ASSUME f.opcode # "control"
       PROVE  /\ Framing!Meant(k) = Framing!Message(opcode, parts)
              /\ assembly.len + f.len = Framing!DataOffset[k] - Framing!DataOffset[Framing!Min(Begun \cup {k}) - 1]
  <2>1. k \in Framing!Data /\ Framing!Group(k) = Begun \cup {k} /\ Framing!GroupLen(k) = assembly.len + f.len
    BY <1>1, <1>10
  <2>2. Framing!GroupLen(k) = Framing!DataOffset[k] - Framing!DataOffset[Framing!Min(Begun \cup {k}) - 1]
    BY <2>1 DEF Framing!GroupLen
  <2>. QED
    BY <1>7, <1>9, <1>10, <2>1, <2>2
<1>. QED
  BY <1>01, <1>02, <1>8, <1>9, <1>10

\* Nothing is read yet.
LEMMA FramesAtFirst == Framing!Init => FramesInv
<1>. SUFFICES ASSUME Framing!Init PROVE FramesInv
  OBVIOUS
<1>1. /\ frames = <<>> /\ taken = 0 /\ inLen = 0 /\ flipped = FALSE /\ assembly = Framing!NoAssembly
      /\ messages = <<>> /\ awaiting = TRUE /\ failed = FALSE /\ Len(frames) = 0
  BY DEF Framing!Init
<1>2. FramesTypes
  <2>1. frames \in Seq(StreamFrame)
    BY <1>1
  <2>2. taken \in 0..Len(frames) /\ inLen \in Nat
    BY <1>1
  <2>3. awaiting \in BOOLEAN /\ failed \in BOOLEAN
    BY <1>1
  <2>. QED
    BY <1>1, <2>1, <2>2, <2>3, Zenon DEF FramesTypes
<1>3. FramesBuffered
  <2>1. Framing!Offset[0] \in Nat
    BY <1>1, <1>2, OffsetsAre DEF FramesTypes
  <2>. QED
    BY <1>1, <2>1 DEF FramesBuffered
<1>4. Begun = {} /\ Framing!Closing(taken) = {}
  BY <1>1 DEF Begun, Framing!Data, Framing!Closing
<1>5. Framing!Meaning(taken) = <<>> /\ Cardinality(Framing!Closing(taken)) = 0
  <2>1. Framing!Cardinality({}) = 0 /\ Cardinality({}) = 0
    BY FramingCardinality, FS_EmptySet
  <2>2. PICK r : r = [i \in 1..0 |-> Framing!Meant(Framing!InOrder({})[i])]
    OBVIOUS
  <2>3. r \in Seq({}) /\ Len(r) = 0
    <3>1. r = [i \in 1..0 |-> r[i]] /\ \A i \in 1..0 : r[i] \in {}
      BY <2>2
    <3>. QED
      BY <3>1, SeqOf
  <2>4. Framing!Meaning(taken) = r
    BY <1>4, <2>1, <2>2 DEF Framing!Meaning
  <2>. QED
    BY <1>4, <2>1, <2>3, <2>4
<1>6. assembly.opcode = "none"
  BY <1>1 DEF Framing!NoAssembly
<1>7. \A k \in 1..taken : FALSE
  BY <1>1
<1>8. FramesRead
  BY <1>1, <1>4, <1>5, <1>6, <1>7 DEF FramesRead
<1>. QED
  BY <1>2, <1>3, <1>8 DEF FramesInv

\* What frames mean depends on the frames alone.
LEMMA SameFrames ==
  ASSUME frames' = frames
  PROVE  /\ Framing!Offset' = Framing!Offset /\ Framing!DataOffset' = Framing!DataOffset
         /\ Framing!Data' = Framing!Data /\ Framing!Ends' = Framing!Ends
         /\ \A n : /\ Framing!Closing(n)' = Framing!Closing(n) /\ Framing!Meaning(n)' = Framing!Meaning(n)
                   /\ (Framing!Allowed(n)' <=> Framing!Allowed(n))
<1>1. Framing!Offset' = Framing!Offset
  BY DEF Framing!Offset
<1>2. Framing!Data' = Framing!Data
  BY DEF Framing!Data
<1>3. Framing!Ends' = Framing!Ends
  BY <1>2 DEF Framing!Ends
<1>4. Framing!DataOffset' = Framing!DataOffset
  BY <1>2 DEF Framing!DataOffset
<1>5. \A n : Framing!Group(n)' = Framing!Group(n)
  BY <1>2, <1>3 DEF Framing!Group
<1>6. \A n : Framing!Closing(n)' = Framing!Closing(n)
  BY <1>2, <1>3 DEF Framing!Closing
<1>7. \A n : Framing!Meant(n)' = Framing!Meant(n)
  BY <1>2, <1>5 DEF Framing!Meant
<1>8. \A n : Framing!Meaning(n)' = Framing!Meaning(n)
  BY <1>2, <1>3 DEF Framing!Meaning, Framing!Closing, Framing!Meant, Framing!Group
<1>9. \A n : Framing!GroupLen(n)' = Framing!GroupLen(n)
  BY <1>4, <1>5 DEF Framing!GroupLen
<1>10. \A n : Framing!Allowed(n)' <=> Framing!Allowed(n)
  BY <1>5, <1>9 DEF Framing!Allowed
<1>. QED
  BY <1>1, <1>2, <1>3, <1>4, <1>6, <1>8, <1>10

\* Written frames are frames.
LEMMA FramesAreSo == Framing!WriterFrames \cup Framing!OtherFrames \subseteq StreamFrame
<1>1. Lengths \subseteq Nat /\ MaxMessage \in Nat
  BY FramingAssumed DEF Framing!FramingAssumption
<1>2. Framing!WriterFrames \subseteq StreamFrame
  <2>. SUFFICES ASSUME NEW f \in Framing!WriterFrames PROVE f \in StreamFrame
    OBVIOUS
  <2>1. PICK op \in {"binary", "control"}, n \in Lengths :
          f = [opcode |-> op, fin |-> TRUE, masked |-> TRUE, rsv |-> FALSE, len |-> n]
    BY DEF Framing!WriterFrames
  <2>2. n \in Nat /\ op \in {"binary", "cont", "control", "reserved"}
    BY <1>1
  <2>. QED
    BY <2>1, <2>2 DEF StreamFrame
<1>3. Framing!OtherFrames \subseteq StreamFrame
  <2>1. MaxMessage + 1 \in Nat
    BY <1>1
  <2>. SUFFICES ASSUME NEW f \in Framing!OtherFrames PROVE f \in StreamFrame
    OBVIOUS
  <2>2. CASE f \in [opcode : {"binary", "cont", "control"}, fin : BOOLEAN, masked : {TRUE}, rsv : {FALSE}, len : Lengths]
    <3>1. f.len \in Nat
      BY <1>1, <2>2
    <3>. QED
      BY <2>2, <3>1 DEF StreamFrame
  <2>3. CASE f \in {[opcode |-> "reserved", fin |-> TRUE, masked |-> TRUE, rsv |-> FALSE, len |-> 1],
                   [opcode |-> "binary", fin |-> TRUE, masked |-> FALSE, rsv |-> FALSE, len |-> 1],
                   [opcode |-> "binary", fin |-> TRUE, masked |-> TRUE, rsv |-> TRUE, len |-> 1],
                   [opcode |-> "binary", fin |-> TRUE, masked |-> TRUE, rsv |-> FALSE, len |-> MaxMessage + 1]}
    <3>1. PICK op \in {"binary", "reserved"}, m \in BOOLEAN, v \in BOOLEAN, n \in Nat :
            f = [opcode |-> op, fin |-> TRUE, masked |-> m, rsv |-> v, len |-> n]
      <4>1. 1 \in Nat
        OBVIOUS
      <4>. QED
        BY <2>1, <2>3, <4>1, Zenon
    <3>2. op \in {"binary", "cont", "control", "reserved"} /\ TRUE \in BOOLEAN
      OBVIOUS
    <3>. QED
      BY <3>1, <3>2 DEF StreamFrame
  <2>. QED
    BY <2>2, <2>3 DEF Framing!OtherFrames
<1>. QED
  BY <1>2, <1>3

\* A frame that is written changes nothing of what was read.
LEMMA FrameWriteStep == FramesInv /\ Framing!Write => FramesInv'
<1>. SUFFICES ASSUME FramesInv, Framing!Write PROVE FramesInv'
  OBVIOUS
<1>1. PICK f \in StreamFrame : frames' = Append(frames, f)
  BY FramesAreSo DEF Framing!Write
<1>2. /\ ~failed /\ taken' = taken /\ inLen' = inLen /\ flipped' = flipped /\ assembly' = assembly
      /\ awaiting' = awaiting /\ failed' = failed /\ messages' = messages
  BY DEF Framing!Write
<1>3. PICK L \in Nat : L = Len(frames)
  BY DEF FramesInv, FramesTypes
<1>4. frames \in Seq(StreamFrame) /\ taken \in 0..L /\ inLen \in Nat /\ taken \in Nat
  BY <1>3 DEF FramesInv, FramesTypes
<1>5. /\ frames' \in Seq(StreamFrame) /\ Len(frames') = L + 1
      /\ \A n \in 0..L :
           /\ Framing!Offset'[n] = Framing!Offset[n] /\ Framing!DataOffset'[n] = Framing!DataOffset[n]
           /\ Framing!Closing(n)' = Framing!Closing(n)
      /\ \A n \in 1..L :
           /\ frames'[n] = frames[n] /\ Framing!Group(n)' = Framing!Group(n)
           /\ (n \in Framing!Data' <=> n \in Framing!Data) /\ (n \in Framing!Ends' <=> n \in Framing!Ends)
  BY <1>1, <1>3, <1>4, FrameWritten
<1>6. FramesTypes'
  <2>1. taken' \in 0..Len(frames')
    BY <1>2, <1>4, <1>5
  <2>. QED
    BY <1>2, <1>5, <2>1 DEF FramesInv, FramesTypes
<1>7. FramesBuffered'
  <2>1. /\ Framing!Offset'[L + 1] = Framing!Offset'[L] + Framing!Size(frames'[L + 1])
        /\ frames'[L + 1] \in StreamFrame
    <3>1. L + 1 \in 1..Len(frames') /\ L + 1 - 1 = L
      BY <1>5
    <3>2. \A n \in 1..Len(frames') :
            /\ frames'[n] \in StreamFrame
            /\ Framing!Offset'[n] = Framing!Offset'[n - 1] + Framing!Size(frames'[n])
      BY <1>5, OffsetsPrimed
    <3>. QED
      BY <3>1, <3>2
  <2>2. Framing!Size(frames'[L + 1]) \in Nat /\ Framing!Size(frames'[L + 1]) > 0
    BY <2>1, FrameSize
  <2>3. /\ Framing!Offset[taken] \in Nat /\ Framing!Offset[L] \in Nat
        /\ Framing!Offset'[taken] = Framing!Offset[taken] /\ Framing!Offset'[L] = Framing!Offset[L]
    <3>1. L \in 0..L
      BY <1>3
    <3>. QED
      BY <1>3, <1>4, <1>5, <3>1, OffsetsAre
  <2>4. Framing!Offset[taken] + inLen <= Framing!Offset[L]
    BY <1>3 DEF FramesInv, FramesBuffered
  <2>5. Framing!Offset'[taken] + inLen <= Framing!Offset'[L + 1]
    BY <1>4, <2>1, <2>2, <2>3, <2>4
  <2>6. (~awaiting' => taken' < Len(frames')) /\ (failed' => ~awaiting')
    <3>1. ~awaiting => taken < L
      BY <1>3 DEF FramesInv, FramesBuffered
    <3>. QED
      BY <1>2, <1>3, <1>4, <1>5, <3>1
  <2>7. ASSUME awaiting', taken' < Len(frames') PROVE inLen' < Framing!Size(frames'[taken + 1])
    <3>1. CASE taken < L
      <4>1. inLen < Framing!Size(frames[taken + 1])
        BY <1>2, <1>3, <2>7, <3>1 DEF FramesInv, FramesBuffered, Framing!First
      <4>2. taken + 1 \in 1..L
        BY <1>3, <1>4, <3>1
      <4>. QED
        BY <1>2, <1>5, <4>1, <4>2
    <3>2. CASE taken = L
      <4>1. inLen = 0
        BY <1>4, <2>3, <2>4, <3>2
      <4>. QED
        BY <1>2, <2>2, <3>2, <4>1
    <3>. QED
      BY <1>3, <1>4, <3>1, <3>2
  <2>8. Framing!Size(Framing!First)' = Framing!Size(frames'[taken + 1])
    BY <1>2 DEF Framing!First, Framing!Size, Framing!HeaderSize
  <2>. QED
    BY <1>2, <1>5, <2>5, <2>6, <2>7, <2>8 DEF FramesBuffered
<1>8. FramesRead'
  <2>1. \A n \in 1..taken : n \in 1..L
    BY <1>3, <1>4
  <2>2. ASSUME NEW n \in 1..L
        PROVE  /\ Framing!Meant(n)' = Framing!Meant(n) /\ (Framing!Allowed(n)' <=> Framing!Allowed(n))
    <3>1. /\ frames'[n] = frames[n] /\ Framing!Group(n)' = Framing!Group(n)
          /\ (n \in Framing!Data' <=> n \in Framing!Data)
      BY <1>5, <2>2
    <3>2. n \in Framing!Data => Framing!Min(Framing!Group(n)) \in 1..n
      BY GroupStarts
    <3>3. Framing!Min({n}) = n
      BY <2>2, FramingMin
    <3>4. n \in Framing!Data => Framing!Min(Framing!Group(n)) \in 1..L /\ Framing!Min(Framing!Group(n)) - 1 \in 0..L
      BY <1>3, <3>2
    <3>5. Framing!Meant(n)' = Framing!Meant(n)
      <4>1. CASE n \in Framing!Data
        <5>1. frames'[Framing!Min(Framing!Group(n))] = frames[Framing!Min(Framing!Group(n))]
          BY <1>5, <3>4, <4>1
        <5>. QED
          BY <3>1, <4>1, <5>1 DEF Framing!Meant
      <4>2. CASE n \notin Framing!Data
        BY <3>1, <3>3, <4>2 DEF Framing!Meant
      <4>. QED
        BY <4>1, <4>2
    <3>6. n \in Framing!Data => Framing!GroupLen(n)' = Framing!GroupLen(n)
      <4>. SUFFICES ASSUME n \in Framing!Data PROVE Framing!GroupLen(n)' = Framing!GroupLen(n)
        OBVIOUS
      <4>1. n \in 0..L
        BY <1>3
      <4>2. /\ Framing!DataOffset'[n] = Framing!DataOffset[n]
            /\ Framing!DataOffset'[Framing!Min(Framing!Group(n)) - 1] = Framing!DataOffset[Framing!Min(Framing!Group(n)) - 1]
        BY <1>5, <3>4, <4>1
      <4>. QED
        BY <3>1, <4>2 DEF Framing!GroupLen
    <3>7. n \in Framing!Data <=> frames[n].opcode # "control"
      BY <1>3 DEF Framing!Data
    <3>8. Framing!Allowed(n)' <=> Framing!Allowed(n)
      BY <3>1, <3>6, <3>7 DEF Framing!Allowed
    <3>. QED
      BY <3>5, <3>8
  <2>3. Begun' = Begun
    <3>1. ASSUME NEW j, j <= taken
          PROVE  (j \in Framing!Data' <=> j \in Framing!Data) /\ (j \in Framing!Ends' <=> j \in Framing!Ends)
      <4>1. /\ Framing!Data' \subseteq 1..(L + 1) /\ Framing!Ends' \subseteq 1..(L + 1)
            /\ Framing!Data \subseteq 1..L /\ Framing!Ends \subseteq 1..L
        BY <1>3, <1>5 DEF Framing!Data, Framing!Ends
      <4>2. j \in 1..(L + 1) => j \in 1..L
        BY <1>4, <3>1
      <4>. QED
        BY <1>5, <4>1, <4>2
    <3>. QED
      BY <1>2, <3>1 DEF Begun
  <2>4. ASSUME Begun # {} PROVE Framing!Min(Begun) \in 1..L /\ Framing!Min(Begun) - 1 \in 0..L
    <3>1. Begun \subseteq 1..L
      BY <1>3 DEF Begun, Framing!Data
    <3>2. Framing!Min(Begun) \in Begun
      <4>1. Begun \subseteq Nat
        BY <3>1
      <4>. QED
        BY <2>4, <4>1, FramingMin
    <3>3. PICK m \in 1..L : m = Framing!Min(Begun)
      BY <3>1, <3>2
    <3>4. m \in 1..L /\ m - 1 \in 0..L
      BY <1>3
    <3>. QED
      BY <3>3, <3>4
  <2>5. Framing!Closing(taken)' = Framing!Closing(taken)
    <3>1. Framing!Closing(taken)' = {k \in 1..taken : k \in Framing!Data' => k \in Framing!Ends'}
      BY <1>2 DEF Framing!Closing
    <3>2. \A k \in 1..taken : (k \in Framing!Data' => k \in Framing!Ends') <=> (k \in Framing!Data => k \in Framing!Ends)
      BY <1>5, <2>1
    <3>3. Framing!Closing(taken) = {k \in 1..taken : k \in Framing!Data => k \in Framing!Ends}
      BY DEF Framing!Closing
    <3>. QED
      BY <3>1, <3>2, <3>3, Zenon
  <2>6. PICK S : S = Framing!Closing(taken)
    OBVIOUS
  <2>7. \A i \in 1..Cardinality(S) : Framing!InOrder(S)[i] \in 1..taken
    BY <2>6 DEF FramesInv, FramesRead
  <2>8. Framing!Meaning(taken)' = Framing!Meaning(taken)
    <3>1. PICK c : c = Framing!Cardinality(S)
      OBVIOUS
    <3>2. c = Cardinality(S)
      BY <3>1, FramingCardinality
    <3>3. ASSUME NEW i \in 1..c PROVE Framing!Meant(Framing!InOrder(S)[i])' = Framing!Meant(Framing!InOrder(S)[i])
      <4>1. PICK n \in 1..L : n = Framing!InOrder(S)[i]
        BY <2>1, <2>7, <3>2, <3>3
      <4>2. Framing!Meant(n)' = Framing!Meant(n)
        BY <2>2
      <4>. QED
        BY <2>6, <4>1, <4>2 DEF Framing!Meant
    <3>4. Framing!Meaning(taken) = [i \in 1..c |-> Framing!Meant(Framing!InOrder(S)[i])]
      BY <2>6, <3>1 DEF Framing!Meaning
    <3>5. Framing!Meaning(taken)' = [i \in 1..c |-> Framing!Meant(Framing!InOrder(S)[i])']
      BY <2>5, <2>6, <3>1 DEF Framing!Meaning, Framing!Meant
    <3>. QED
      BY <3>3, <3>4, <3>5
  <2>9. Begun' # {} =>
          assembly' = [opcode |-> frames'[Framing!Min(Begun')].opcode, parts |-> Parts(Begun'),
                       len |-> Framing!DataOffset'[taken] - Framing!DataOffset'[Framing!Min(Begun') - 1]]
    <3>. SUFFICES ASSUME Begun # {}
                  PROVE  assembly = [opcode |-> frames'[Framing!Min(Begun)].opcode, parts |-> Parts(Begun),
                                     len |-> Framing!DataOffset'[taken] - Framing!DataOffset'[Framing!Min(Begun) - 1]]
      BY <1>2, <2>3
    <3>1. /\ frames'[Framing!Min(Begun)] = frames[Framing!Min(Begun)]
          /\ Framing!DataOffset'[taken] = Framing!DataOffset[taken]
          /\ Framing!DataOffset'[Framing!Min(Begun) - 1] = Framing!DataOffset[Framing!Min(Begun) - 1]
      BY <1>4, <1>5, <2>4
    <3>. QED
      BY <3>1 DEF FramesInv, FramesRead
  <2>10. \A n \in 1..taken' : Framing!Allowed(n)'
    <3>1. \A n \in 1..taken : Framing!Allowed(n)
      BY DEF FramesInv, FramesRead
    <3>. QED
      BY <1>2, <2>1, <2>2, <3>1
  <2>11. messages' = Framing!Meaning(taken)'
    BY <1>2, <2>8 DEF FramesInv, FramesRead
  <2>12. \A i \in 1..Cardinality(Framing!Closing(taken)') : Framing!InOrder(Framing!Closing(taken)')[i] \in 1..taken'
    BY <1>2, <2>5, <2>6, <2>7
  <2>13. /\ Begun' = {} => assembly' = Framing!NoAssembly
         /\ assembly'.opcode \in {"none", "binary"} /\ (assembly'.opcode = "none" => Begun' = {})
    BY <1>2, <2>3 DEF FramesInv, FramesRead
  <2>14. ~failed'
    BY <1>2
  <2>15. Begun' # {} =>
           assembly' = [opcode |-> frames'[Framing!Min(Begun')].opcode, parts |-> Parts(Begun'),
                        len |-> Framing!DataOffset'[taken'] - Framing!DataOffset'[Framing!Min(Begun') - 1]]
    BY <1>2, <2>9
  <2>. QED
    BY <2>10, <2>11, <2>12, <2>13, <2>14, <2>15 DEF FramesRead
<1>. QED
  BY <1>6, <1>7, <1>8 DEF FramesInv

\* What was read stays so while no frame is written or taken.
LEMMA FramesReadStays ==
  ASSUME FramesRead, frames' = frames, taken' = taken, assembly' = assembly, messages' = messages,
         failed' => failed \/ ~Framing!Allowed(taken + 1)
  PROVE  FramesRead'
<1>1. /\ Framing!DataOffset' = Framing!DataOffset
      /\ Framing!Data' = Framing!Data /\ Framing!Ends' = Framing!Ends
      /\ \A n : /\ Framing!Closing(n)' = Framing!Closing(n) /\ Framing!Meaning(n)' = Framing!Meaning(n)
                /\ (Framing!Allowed(n)' <=> Framing!Allowed(n))
  BY SameFrames
<1>2. Begun' = Begun
  BY <1>1 DEF Begun
<1>3. Framing!Meaning(taken)' = Framing!Meaning(taken)
  BY <1>1 DEF Framing!Meaning, Framing!Closing, Framing!Meant, Framing!Group
<1>4. Framing!Closing(taken)' = Framing!Closing(taken)
  BY <1>1 DEF Framing!Closing
<1>5. \A k \in 1..taken' : Framing!Allowed(k)'
  BY <1>1 DEF FramesRead
<1>6. ~Framing!Allowed(taken + 1) => ~Framing!Allowed(taken + 1)'
  BY <1>1 DEF Framing!Allowed, Framing!GroupLen, Framing!Group
<1>7. /\ messages' = Framing!Meaning(taken)'
      /\ \A i \in 1..Cardinality(Framing!Closing(taken)') : Framing!InOrder(Framing!Closing(taken)')[i] \in 1..taken'
  BY <1>3, <1>4 DEF FramesRead
<1>8. /\ Begun' = {} => assembly' = Framing!NoAssembly
      /\ Begun' # {} =>
           assembly' = [opcode |-> frames'[Framing!Min(Begun')].opcode, parts |-> Parts(Begun'),
                        len |-> Framing!DataOffset'[taken'] - Framing!DataOffset'[Framing!Min(Begun') - 1]]
      /\ assembly'.opcode \in {"none", "binary"} /\ (assembly'.opcode = "none" => Begun' = {})
  BY <1>1, <1>2 DEF FramesRead
<1>9. failed' => ~Framing!Allowed(taken + 1)'
  BY <1>6 DEF FramesRead
<1>. QED
  BY <1>5, <1>7, <1>8, <1>9 DEF FramesRead

\* Bytes that arrive are bytes that were written.
LEMMA FramesArriveStep == FramesInv /\ Framing!Arrive => FramesInv'
<1>. SUFFICES ASSUME FramesInv, Framing!Arrive PROVE FramesInv'
  OBVIOUS
<1>1. /\ frames' = frames /\ taken' = taken /\ flipped' = flipped /\ assembly' = assembly
      /\ awaiting /\ ~awaiting' /\ awaiting' \in BOOLEAN /\ ~failed /\ failed' = failed /\ messages' = messages
  BY DEF Framing!Arrive
<1>2. PICK L \in Nat : L = Len(frames)
  BY DEF FramesInv, FramesTypes
<1>3. frames \in Seq(StreamFrame) /\ taken \in 0..L /\ inLen \in Nat /\ taken \in Nat
  BY <1>2 DEF FramesInv, FramesTypes
<1>4. PICK a \in Nat, b \in Nat : a = Framing!Offset[taken] /\ b = Framing!Offset[L]
  <2>1. L \in 0..L
    BY <1>2
  <2>. QED
    BY <1>2, <1>3, <2>1, OffsetsAre
<1>5. b - a - inLen > 0 /\ inLen' <= inLen + (b - a - inLen) /\ inLen' \in Framing!Places /\ inLen < inLen'
  <2>1. Framing!Unread = b - a - inLen
    BY <1>2, <1>4 DEF Framing!Unread
  <2>. QED
    BY <2>1 DEF Framing!Arrive
<1>6. taken < L
  <2>1. taken # L
    BY <1>3, <1>4, <1>5
  <2>. QED
    BY <1>2, <1>3, <2>1
<1>7. inLen' \in Nat
  <2>1. PICK f \in StreamFrame : f = Framing!First
    <3>1. taken + 1 \in 1..L
      BY <1>2, <1>3, <1>6
    <3>. QED
      BY <1>2, <1>3, <3>1 DEF Framing!First
  <2>2. Framing!LengthSize(f.len) \in Int /\ Framing!HeaderSize(f) \in Int /\ Framing!Size(f) \in Int
    BY FrameSize
  <2>3. Framing!Unread \in Int
    BY <1>2, <1>3, <1>4 DEF Framing!Unread
  <2>4. inLen' \in Int
    BY <1>3, <1>5, <2>1, <2>2, <2>3 DEF Framing!Places
  <2>. QED
    BY <1>3, <1>5, <2>4
<1>8. FramesTypes'
  BY <1>1, <1>2, <1>3, <1>7 DEF FramesInv, FramesTypes
<1>9. /\ Framing!Offset' = Framing!Offset /\ Framing!DataOffset' = Framing!DataOffset
      /\ Framing!Data' = Framing!Data /\ Framing!Ends' = Framing!Ends
      /\ \A n : /\ Framing!Closing(n)' = Framing!Closing(n) /\ Framing!Meaning(n)' = Framing!Meaning(n)
                /\ (Framing!Allowed(n)' <=> Framing!Allowed(n))
  BY <1>1, SameFrames
<1>10. FramesBuffered'
  <2>1. a + inLen' <= b
    BY <1>3, <1>4, <1>5, <1>7
  <2>. QED
    BY <1>1, <1>2, <1>4, <1>6, <1>9, <2>1 DEF FramesBuffered
<1>11. FramesRead'
  BY <1>1, FramesReadStays DEF FramesInv
<1>. QED
  BY <1>8, <1>10, <1>11 DEF FramesInv

\* rd_ws_next fails only at a frame that is not allowed.
LEMMA FramesFailStep == FramesInv /\ ~awaiting /\ ~failed /\ Framing!Fail => FramesInv'
<1>. SUFFICES ASSUME FramesInv, ~awaiting, ~failed, Framing!Fail PROVE FramesInv'
  OBVIOUS
<1>1. /\ frames' = frames /\ taken' = taken /\ inLen' = inLen /\ flipped' = flipped /\ assembly' = assembly
      /\ awaiting' = awaiting /\ failed' = TRUE /\ messages' = messages
  BY DEF Framing!Fail
<1>2. taken < Len(frames)
  BY DEF FramesInv, FramesBuffered
<1>3. ~Framing!Allowed(taken + 1)
  <2>1. /\ (Framing!Allowed(taken + 1) <=>
           /\ ~Framing!First.rsv /\ Framing!First.masked /\ Framing!First.len <= MaxMessage
           /\ ~Framing!BadFrame)
    BY <1>2, RefusedFrames
  <2>2. Framing!First.len \in Nat
    <3>1. Framing!First \in StreamFrame
      BY <1>2, NextFrame
    <3>. QED
      BY <3>1, FrameSize
  <2>3. MaxMessage \in Nat
    BY FramingAssumed DEF Framing!FramingAssumption
  <2>. QED
    BY <2>1, <2>2, <2>3 DEF Framing!Fail, Framing!BadStart, Framing!BadLength
<1>4. FramesTypes'
  BY <1>1 DEF FramesInv, FramesTypes
<1>5. FramesBuffered'
  <2>1. Framing!Offset' = Framing!Offset
    BY <1>1, SameFrames
  <2>. QED
    BY <1>1, <1>2, <2>1 DEF FramesInv, FramesBuffered
<1>6. FramesRead'
  BY <1>1, <1>3, FramesReadStays DEF FramesInv
<1>. QED
  BY <1>4, <1>5, <1>6 DEF FramesInv

\* Nothing is touched of a frame that is not there yet.
LEMMA FramesMoreStep == FramesInv /\ ~awaiting /\ ~failed /\ Framing!More => FramesInv'
<1>. SUFFICES ASSUME FramesInv, ~awaiting, ~failed, Framing!More PROVE FramesInv'
  OBVIOUS
<1>1. /\ frames' = frames /\ taken' = taken /\ inLen' = inLen /\ assembly' = assembly
      /\ awaiting' = TRUE /\ failed' = failed /\ messages' = messages
      /\ inLen < Framing!Size(Framing!First) /\ flipped' = Framing!FlippedNow
  BY DEF Framing!More
<1>2. taken < Len(frames)
  BY DEF FramesInv, FramesBuffered
<1>3. flipped' = FALSE
  <2>1. Framing!Size(Framing!First) \in Nat
    <3>1. Framing!First \in StreamFrame
      BY <1>2, NextFrame
    <3>. QED
      BY <3>1, FrameSize
  <2>2. inLen \in Nat /\ flipped = FALSE
    BY DEF FramesInv, FramesTypes
  <2>. QED
    BY <1>1, <2>1, <2>2 DEF Framing!FlippedNow
<1>4. FramesTypes'
  BY <1>1, <1>3 DEF FramesInv, FramesTypes
<1>5. FramesBuffered'
  <2>1. Framing!Offset' = Framing!Offset
    BY <1>1, SameFrames
  <2>2. Framing!Size(Framing!First)' = Framing!Size(Framing!First)
    BY <1>1 DEF Framing!First, Framing!Size, Framing!HeaderSize
  <2>. QED
    BY <1>1, <1>2, <2>1, <2>2 DEF FramesInv, FramesBuffered
<1>6. FramesRead'
  BY <1>1, FramesReadStays DEF FramesInv
<1>. QED
  BY <1>4, <1>5, <1>6 DEF FramesInv

\* A frame that is taken gives its message, or joins the one it continues.
LEMMA FrameTakenStep == FramesInv /\ ~awaiting /\ ~failed /\ Framing!TakeFrame => FramesInv'
<1>. SUFFICES ASSUME FramesInv, ~awaiting, ~failed, Framing!TakeFrame PROVE FramesInv'
  OBVIOUS
<1>1. PICK k : k = taken + 1
  OBVIOUS
<1>2. taken < Len(frames)
  BY DEF FramesInv, FramesBuffered
<1>3. PICK L \in Nat : L = Len(frames)
  BY DEF FramesInv, FramesTypes
<1>4. PICK f : f = frames[k]
  OBVIOUS
<1>5. /\ k \in 1..L /\ taken \in Nat /\ Framing!First = f /\ f \in StreamFrame
      /\ Begun \subseteq 1..taken /\ IsFiniteSet(Begun)
      /\ (k \in Framing!Data <=> f.opcode # "control")
      /\ (k \in Framing!Ends <=> f.opcode # "control" /\ f.fin)
  BY <1>1, <1>2, <1>3, <1>4, NextFrame
<1>6. PICK z \in Nat : z = Framing!Size(f)
  BY <1>5, FrameSize
<1>7. /\ frames' = frames /\ failed' = failed /\ taken' = k /\ inLen' = inLen - z /\ inLen >= z
      /\ flipped' = FALSE /\ awaiting' = (inLen' = 0) /\ ~Framing!BadFrame
  BY <1>1, <1>5, <1>6 DEF Framing!TakeFrame
<1>8. inLen \in Nat /\ flipped = FALSE /\ frames \in Seq(StreamFrame)
  BY DEF FramesInv, FramesTypes
<1>9. PICK part : part = Framing!Payload(k, Framing!FlippedNow)
  OBVIOUS
<1>10. part = Framing!Payload(k, TRUE)
  BY <1>5, <1>6, <1>7, <1>8, <1>9 DEF Framing!FlippedNow
<1>11. PICK parts : parts = IF f.opcode = "cont" THEN Append(assembly.parts, part) ELSE <<part>>
  OBVIOUS
<1>12. PICK opcode : opcode = IF f.opcode = "cont" THEN assembly.opcode ELSE f.opcode
  OBVIOUS
<1>13. \/ /\ f.opcode = "control"
          /\ messages' = Append(messages, Framing!Message("control", <<part>>)) /\ assembly' = assembly
       \/ /\ f.opcode # "control" /\ f.fin
          /\ messages' = Append(messages, Framing!Message(opcode, parts)) /\ assembly' = Framing!NoAssembly
       \/ /\ f.opcode # "control" /\ ~f.fin /\ messages' = messages
          /\ assembly' = [opcode |-> opcode, parts |-> parts, len |-> assembly.len + f.len]
  BY <1>1, <1>5, <1>9, <1>11, <1>12 DEF Framing!TakeFrame
<1>14. /\ f.opcode = "control" => Framing!Meant(k) = Framing!Message("control", <<part>>)
       /\ f.opcode # "control" =>
            /\ Framing!Meant(k) = Framing!Message(opcode, parts)
            /\ opcode = frames[Framing!Min(Begun \cup {k})].opcode /\ opcode = "binary"
            /\ parts = Parts(Begun \cup {k})
            /\ assembly.len + f.len = Framing!DataOffset[k] - Framing!DataOffset[Framing!Min(Begun \cup {k}) - 1]
  <2>1. ~Framing!BadFrame
    BY <1>7
  <2>2. opcode = OpcodeWith(k) /\ parts = PartsWith(k)
    BY <1>4, <1>10, <1>11, <1>12 DEF OpcodeWith, PartsWith
  <2>. QED
    BY <1>1, <1>2, <1>4, <1>10, <2>1, <2>2, NextMeant
<1>15. FramesTypes'
  <2>1. taken' \in 0..Len(frames') /\ inLen' \in Nat
    BY <1>3, <1>5, <1>6, <1>7, <1>8
  <2>2. awaiting' \in BOOLEAN /\ failed' \in BOOLEAN /\ flipped' = FALSE
    BY <1>7 DEF FramesInv, FramesTypes
  <2>. QED
    BY <1>7, <1>8, <2>1, <2>2 DEF FramesTypes
<1>16. FramesBuffered'
  <2>1. PICK a \in Nat, b \in Nat, c \in Nat :
          a = Framing!Offset[taken] /\ b = Framing!Offset[L] /\ c = Framing!Offset[k] /\ c = a + z
    <3>1. taken \in 0..L /\ L \in 0..L /\ k \in 0..L /\ k - 1 = taken
      BY <1>1, <1>3, <1>5
    <3>. QED
      BY <1>3, <1>4, <1>5, <1>6, <1>8, <3>1, OffsetsAre
  <2>2. a + inLen <= b
    BY <1>3, <2>1 DEF FramesInv, FramesBuffered
  <2>3. c + inLen' <= b
    BY <1>6, <1>7, <1>8, <2>1, <2>2
  <2>4. Framing!Offset' = Framing!Offset
    BY <1>7, SameFrames
  <2>5. ~awaiting' => taken' < Len(frames')
    <3>1. ASSUME inLen' # 0 PROVE k # L
      <4>1. inLen' > 0
        BY <1>15, <3>1 DEF FramesTypes
      <4>2. inLen' \in Nat /\ c + inLen' <= b
        BY <1>15, <2>3 DEF FramesTypes
      <4>3. c # b
        BY <2>1, <4>1, <4>2
      <4>. QED
        BY <2>1, <4>3
    <3>2. ~awaiting' => inLen' # 0
      BY <1>7
    <3>3. k # L => k < Len(frames)
      BY <1>3, <1>5
    <3>. QED
      BY <1>7, <3>1, <3>2, <3>3
  <2>6. awaiting' /\ taken' < Len(frames') => inLen' < Framing!Size(Framing!First)'
    <3>. SUFFICES ASSUME awaiting', taken' < Len(frames') PROVE inLen' < Framing!Size(Framing!First)'
      OBVIOUS
    <3>1. k + 1 \in 1..Len(frames)
      BY <1>3, <1>5, <1>7
    <3>2. PICK g \in StreamFrame : g = frames[k + 1]
      BY <1>8, <3>1
    <3>3. Framing!Size(Framing!First)' = Framing!Size(g)
      BY <1>7, <3>2 DEF Framing!First, Framing!Size, Framing!HeaderSize
    <3>4. Framing!Size(g) > 0
      BY FrameSize
    <3>. QED
      BY <1>7, <3>3, <3>4
  <2>. QED
    BY <1>3, <1>7, <2>1, <2>3, <2>4, <2>5, <2>6 DEF FramesBuffered
<1>17. /\ Framing!DataOffset' = Framing!DataOffset
       /\ Framing!Data' = Framing!Data /\ Framing!Ends' = Framing!Ends
       /\ \A n : /\ Framing!Closing(n)' = Framing!Closing(n) /\ Framing!Meaning(n)' = Framing!Meaning(n)
                 /\ (Framing!Allowed(n)' <=> Framing!Allowed(n))
  BY <1>7, SameFrames
<1>18. Framing!Meaning(taken)' = Framing!Meaning(k) /\ Framing!Closing(taken)' = Framing!Closing(k)
  BY <1>7 DEF Framing!Meaning, Framing!Closing, Framing!Meant, Framing!Data, Framing!Ends, Framing!Group
<1>19. /\ k \in Framing!Data /\ k \notin Framing!Ends => Framing!Meaning(k) = Framing!Meaning(taken)
       /\ (k \in Framing!Data => k \in Framing!Ends) =>
            Framing!Meaning(k) = Append(Framing!Meaning(taken), Framing!Meant(k))
       /\ \A i \in 1..Cardinality(Framing!Closing(k)) : Framing!InOrder(Framing!Closing(k))[i] \in 1..k
  BY <1>1, <1>2, MeaningNext
<1>20. messages' = Framing!Meaning(taken)'
  <2>1. messages = Framing!Meaning(taken)
    BY DEF FramesInv, FramesRead
  <2>. QED
    BY <1>5, <1>13, <1>14, <1>18, <1>19, <2>1
<1>21. \A n \in 1..taken' : Framing!Allowed(n)'
  <2>1. Framing!Allowed(k)
    <3>1. f.len \in Nat /\ Framing!LengthSize(f.len) \in {2, 4, 10} /\ z = Framing!LengthSize(f.len) + 4 + f.len
      BY <1>5, <1>6, FrameSize
    <3>2. MaxMessage \in Nat
      BY FramingAssumed DEF Framing!FramingAssumption
    <3>3. inLen >= 2 /\ inLen >= Framing!LengthSize(f.len)
      BY <1>6, <1>7, <1>8, <3>1
    <3>4. ~f.rsv /\ f.masked /\ f.len <= MaxMessage
      BY <1>5, <3>1, <3>2, <3>3 DEF Framing!TakeFrame, Framing!BadStart, Framing!BadLength
    <3>. QED
      BY <1>1, <1>2, <1>5, <1>7, <3>4, RefusedFrames
  <2>2. \A n \in 1..k : n \in 1..taken \/ n = k
    BY <1>1, <1>5
  <2>3. \A n \in 1..taken : Framing!Allowed(n)
    BY DEF FramesInv, FramesRead
  <2>. QED
    BY <1>7, <1>17, <2>1, <2>2, <2>3
<1>22. /\ f.opcode = "control" => Begun' = Begun
       /\ f.opcode # "control" /\ f.fin => Begun' = {}
       /\ f.opcode # "control" /\ ~f.fin => Begun' = Begun \cup {k}
  <2>1. Begun' = {j \in Framing!Data : j <= k /\ ~\E e \in Framing!Ends : j <= e /\ e <= k}
    BY <1>7, <1>17 DEF Begun
  <2>2. Framing!Data \subseteq 1..L /\ Framing!Ends \subseteq Framing!Data
    BY <1>3 DEF Framing!Data, Framing!Ends
  <2>3. ASSUME NEW j \in 1..L PROVE j <= k <=> j <= taken \/ j = k
    BY <1>1, <1>5
  <2>4. k <= k /\ ~(k <= taken)
    BY <1>1, <1>5
  <2>5. ASSUME f.opcode = "control" PROVE Begun' = Begun
    <3>1. k \notin Framing!Data /\ k \notin Framing!Ends
      BY <1>5, <2>5
    <3>2. \A j \in Framing!Data : j <= k <=> j <= taken
      BY <2>2, <2>3, <3>1
    <3>3. \A e \in Framing!Ends : e <= k <=> e <= taken
      BY <2>2, <3>2
    <3>. QED
      BY <2>1, <3>2, <3>3, Zenon DEF Begun
  <2>6. ASSUME f.opcode # "control", f.fin PROVE Begun' = {}
    <3>1. k \in Framing!Ends
      BY <1>5, <2>6
    <3>. QED
      BY <2>1, <2>4, <3>1
  <2>7. ASSUME f.opcode # "control", ~f.fin PROVE Begun' = Begun \cup {k}
    <3>1. k \in Framing!Data /\ k \notin Framing!Ends
      BY <1>5, <2>7
    <3>2. \A e \in Framing!Ends : e <= k <=> e <= taken
      BY <2>2, <2>3, <3>1
    <3>3. \A j \in Framing!Data : j <= k <=> j <= taken \/ j = k
      BY <2>2, <2>3
    <3>4. \A e \in Framing!Ends : ~(k <= e /\ e <= taken)
      BY <1>1, <1>5, <2>2
    <3>. QED
      BY <2>1, <3>1, <3>2, <3>3, <3>4 DEF Begun
  <2>. QED
    BY <2>5, <2>6, <2>7
<1>23. /\ Begun' = {} => assembly' = Framing!NoAssembly
       /\ Begun' # {} =>
            assembly' = [opcode |-> frames'[Framing!Min(Begun')].opcode, parts |-> Parts(Begun'),
                         len |-> Framing!DataOffset'[taken'] - Framing!DataOffset'[Framing!Min(Begun') - 1]]
       /\ assembly'.opcode \in {"none", "binary"} /\ (assembly'.opcode = "none" => Begun' = {})
  <2>1. CASE f.opcode = "control"
    <3>1. Begun' = Begun /\ assembly' = assembly
      BY <1>13, <1>22, <2>1
    <3>2. Framing!DataOffset[k] = Framing!DataOffset[taken]
      <4>1. k - 1 = taken /\ taken \in 0..L /\ k \notin Framing!Data
        BY <1>1, <1>5, <2>1
      <4>2. /\ Framing!DataOffset[k] = Framing!DataOffset[taken] + 0
            /\ Framing!DataOffset[taken] \in Nat
        BY <1>3, <1>5, <1>8, <4>1, OffsetsAre
      <4>. QED
        BY <4>2
    <3>. QED
      BY <1>7, <1>17, <3>1, <3>2 DEF FramesInv, FramesRead
  <2>2. CASE f.opcode # "control" /\ f.fin
    BY <1>13, <1>22, <2>2 DEF Framing!NoAssembly
  <2>3. CASE f.opcode # "control" /\ ~f.fin
    <3>1. Begun' = Begun \cup {k}
      BY <1>22, <2>3
    <3>2. assembly' = [opcode |-> opcode, parts |-> parts, len |-> assembly.len + f.len] /\ opcode = "binary"
      BY <1>13, <1>14, <2>3
    <3>. QED
      BY <1>7, <1>14, <1>17, <2>3, <3>1, <3>2
  <2>. QED
    BY <2>1, <2>2, <2>3
<1>24. ~failed'
  BY <1>7
<1>25. \A i \in 1..Cardinality(Framing!Closing(taken)') : Framing!InOrder(Framing!Closing(taken)')[i] \in 1..taken'
  BY <1>7, <1>18, <1>19
<1>26. FramesRead'
  BY <1>20, <1>21, <1>23, <1>24, <1>25 DEF FramesRead
<1>. QED
  BY <1>15, <1>16, <1>26 DEF FramesInv

\* A step of the stream or of its reader keeps all of it.
LEMMA FramesStep == FramesInv /\ [Framing!Next]_(Framing!vars) => FramesInv'
<1>. SUFFICES ASSUME FramesInv, [Framing!Next]_(Framing!vars) PROVE FramesInv'
  OBVIOUS
<1>1. CASE Framing!Next
  BY <1>1, FrameWriteStep, FramesArriveStep, FramesFailStep, FramesMoreStep, FrameTakenStep DEF Framing!Next
<1>2. CASE UNCHANGED Framing!vars
  <2>1. /\ frames' = frames /\ taken' = taken /\ inLen' = inLen /\ flipped' = flipped /\ assembly' = assembly
        /\ awaiting' = awaiting /\ failed' = failed /\ messages' = messages
    BY <1>2 DEF Framing!vars
  <2>2. FramesTypes'
    BY <2>1 DEF FramesInv, FramesTypes
  <2>3. FramesBuffered'
    <3>1. Framing!Offset' = Framing!Offset
      BY <2>1, SameFrames
    <3>2. Framing!Size(Framing!First)' = Framing!Size(Framing!First)
      BY <2>1 DEF Framing!First, Framing!Size, Framing!HeaderSize
    <3>. QED
      BY <2>1, <3>1, <3>2 DEF FramesInv, FramesBuffered
  <2>4. FramesRead'
    BY <2>1, FramesReadStays DEF FramesInv
  <2>. QED
    BY <2>2, <2>3, <2>4 DEF FramesInv
<1>. QED
  BY <1>1, <1>2

\* A step of the composition is one of the stream's, or leaves it alone.
LEMMA FramingSteps == [Next]_vars => [Framing!Next]_(Framing!vars)
  BY DEF Next, vars, InPool, InTiles, InCodec, InLz, InSealing, InFraming, frameVars, Framing!vars

\* However the stream is cut into reads, rd_ws_next gives the messages it carries,
\* whole, in order and unmasked, and fails only at a frame that is not allowed.
THEOREM EveryFrameIsRead == FairSpec => []FramesExact
<1>1. Init => FramesInv
  BY FramesAtFirst DEF Init
<1>2. FramesInv /\ [Next]_vars => FramesInv'
  BY FramesStep, FramingSteps
<1>3. FramesInv => FramesExact
  BY DEF FramesInv, FramesRead, FramesBuffered, FramesExact, Framing!FramesExact
<1>. QED
  BY <1>1, <1>2, <1>3, PTL DEF FairSpec
=============================================================================
