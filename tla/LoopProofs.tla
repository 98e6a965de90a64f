------------------------------ MODULE LoopProofs ------------------------------
(***************************************************************************)
(* The safety of EventLoops, for any pool, timeout and bounds.             *)
(***************************************************************************)
EXTENDS EventLoops, TLAPS

LEMMA LoopInit == Init => LoopInv
BY LoopAssumption DEF Init, LoopInv, TypeOK, Threads, Synchronous, Asynchronous

(* A step of a thread that neither joins nor leaves the loop.              *)
LEMMA StaysOff ==
    ASSUME LoopInv, NEW t \in Threads, NEW from, NEW to, Goes(t, from, to),
           UNCHANGED loop, UNCHANGED injected, goal' \in {"resolve", "download"},
           queued' \in 0..MaxQueue, patience' \in 0..Timeout, late' \in 0..MaxLate,
           from \notin {"waiting", "driving"},
           to \in {"free", "look", "submit", "drive", "alone", "building"}
                  \cup Synchronous \cup Asynchronous,
           to \in {"look", "submit"} => injected,
           to = "drive" /\ t \in Workers => injected,
           t = Engine /\ to \in {"look", "submit"} => goal' = "download",
           t # Engine => goal' = goal
    PROVE  LoopInv'
BY LoopAssumption DEF Goes, LoopInv, TypeOK, Threads, Synchronous, Asynchronous, loop

(* The actions of one thread, be it the engine or a worker.                *)
LEMMA LookStep ==
    ASSUME LoopInv, NEW t \in Threads, Look(t)
    PROVE  LoopInv'
<1> DEFINE to == IF driver = NoOne THEN "drive" ELSE "submit"
<1>1. Goes(t, "look", to)
  BY DEF Look
<1>2. injected /\ (t = Engine => goal = "download")
  BY DEF Look, Goes, LoopInv
<1>3. /\ UNCHANGED <<injected, loop, goal, queued, executor>>
      /\ goal \in {"resolve", "download"} /\ queued \in 0..MaxQueue
      /\ patience \in 0..Timeout /\ late \in 0..MaxLate
  BY DEF Look, LoopInv, TypeOK
<1>4. to \in {"drive", "submit"}
  OBVIOUS
<1> HIDE DEF to
<1> QED
  BY <1>1, <1>2, <1>3, <1>4, StaysOff DEF executor

LEMMA SubmitStep ==
    ASSUME LoopInv, NEW t \in Threads, Submit(t)
    PROVE  LoopInv'
BY LoopAssumption DEF Submit, Goes, LoopInv, TypeOK, Threads, executor

LEMMA ResumeStep ==
    ASSUME LoopInv, NEW t \in Threads, Resume(t)
    PROVE  LoopInv'
BY LoopAssumption DEF Resume, Goes, GoesOn, LoopInv, TypeOK, Threads, executor

LEMMA FinishStep ==
    ASSUME LoopInv, NEW t \in Threads, Finish(t)
    PROVE  LoopInv'
BY LoopAssumption DEF Finish, LoopInv, TypeOK, Threads, executor

LEMMA StopStep ==
    ASSUME LoopInv, NEW t \in Threads, Stop(t)
    PROVE  LoopInv'
BY LoopAssumption DEF Stop, Goes, GoesOn, LoopInv, TypeOK, Threads, executor

LEMMA DriveStep ==
    ASSUME LoopInv, NEW t \in Threads, Drive(t)
    PROVE  LoopInv'
<1>1. CASE driver = NoOne
  BY <1>1, LoopAssumption DEF Drive, Goes, LoopInv, TypeOK, Threads, executor
<1>2. CASE driver # NoOne
  BY <1>2, LoopAssumption
  DEF Drive, Goes, GoesOn, LoopInv, TypeOK, Threads, loop, executor
<1> QED
  BY <1>1, <1>2

LEMMA UseLoopStep ==
    ASSUME LoopInv, NEW t \in Threads, UseLoop(t)
    PROVE  LoopInv'
BY LookStep, SubmitStep, ResumeStep, DriveStep, StopStep DEF UseLoop

-----------------------------------------------------------------------------
(* The actions of the engine alone, and of the workers.                    *)
LEMMA EngineStep ==
    ASSUME LoopInv,
           Resolve \/ Build \/ Download \/ SubmitJob \/ Execute
             \/ EndFunction \/ EndGenerator \/ EndAsync \/ TimeOutAsync
    PROVE  LoopInv'
<1>1. Engine \in Threads /\ Engine \notin Workers
  BY LoopAssumption DEF Threads
<1>2. /\ injected \in BOOLEAN
      /\ goal \in {"resolve", "download"} /\ queued \in 0..MaxQueue
      /\ patience \in 0..Timeout /\ late \in 0..MaxLate
      /\ Timeout \in Nat /\ MaxQueue \in Nat /\ MaxLate \in Nat
  BY LoopAssumption DEF LoopInv, TypeOK
<1>3. CASE Resolve
  BY <1>1, <1>3, LoopAssumption
  DEF Resolve, Goes, LoopInv, TypeOK, Threads, loop, executor
<1>4. CASE Build
  BY <1>1, <1>2, <1>4, StaysOff DEF Build, executor
<1>5. CASE Download
  BY <1>1, <1>2, <1>5, StaysOff DEF Download, executor
<1>6. CASE SubmitJob
  BY <1>1, <1>2, <1>6, StaysOff DEF SubmitJob, executor
<1>7. CASE Execute
  BY <1>1, <1>2, <1>7, StaysOff DEF Execute, Synchronous, Asynchronous
<1>8. CASE EndFunction
  BY <1>1, <1>2, <1>8, StaysOff DEF EndFunction, executor
<1>9. CASE EndGenerator
  BY <1>1, <1>2, <1>9, StaysOff DEF EndGenerator, executor
<1>10. CASE EndAsync
  BY <1>1, <1>2, <1>10, StaysOff DEF EndAsync, Asynchronous, executor
<1>11. CASE TimeOutAsync
  BY <1>1, <1>2, <1>11, StaysOff DEF TimeOutAsync, Asynchronous
<1> QED
  BY <1>3, <1>4, <1>5, <1>6, <1>7, <1>8, <1>9, <1>10, <1>11

LEMMA WorkerStep ==
    ASSUME LoopInv, NEW w \in Workers, TakeJob(w) \/ EndAlone(w)
    PROVE  LoopInv'
<1>1. w \in Threads /\ w # Engine
  BY LoopAssumption DEF Threads
<1>2. /\ goal \in {"resolve", "download"} /\ queued \in 0..MaxQueue
      /\ patience \in 0..Timeout /\ late \in 0..MaxLate /\ MaxQueue \in Nat
  BY LoopAssumption DEF LoopInv, TypeOK
<1>3. CASE TakeJob(w)
  BY <1>1, <1>2, <1>3, StaysOff DEF TakeJob, executor
<1>4. CASE EndAlone(w)
  BY <1>1, <1>2, <1>4, StaysOff DEF EndAlone, executor
<1> QED
  BY <1>3, <1>4

(* The clock, and coroutines that nobody waits for any more.               *)
LEMMA OffThreadStep ==
    ASSUME LoopInv, EndLate \/ Tick \/ UNCHANGED vars
    PROVE  LoopInv'
<1>1. /\ UNCHANGED <<injected, loop, at, goal, queued>>
      /\ patience' \in 0..Timeout /\ late' \in 0..MaxLate
  BY LoopAssumption DEF EndLate, Tick, vars, executor, LoopInv, TypeOK
<1> QED
  BY <1>1 DEF LoopInv, TypeOK, loop

-----------------------------------------------------------------------------
(* One thread at a time drives the event loop of a backend, it holds the   *)
(* coroutines of exactly the threads that wait for them, and only agents   *)
(* that know the backend get near it.                                      *)
THEOREM LoopIsSound == Spec => []LoopInv
<1>1. LoopInv /\ [Next]_vars => LoopInv'
  <2> SUFFICES ASSUME LoopInv, [Next]_vars PROVE LoopInv'
    OBVIOUS
  <2>1. CASE Resolve \/ Build \/ Download \/ SubmitJob \/ Execute
               \/ EndFunction \/ EndGenerator \/ EndAsync \/ TimeOutAsync
    BY <2>1, EngineStep
  <2>2. CASE EndLate \/ Tick \/ UNCHANGED vars
    BY <2>2, OffThreadStep
  <2>3. CASE \E w \in Workers : TakeJob(w) \/ EndAlone(w)
    BY <2>3, WorkerStep
  <2>4. CASE \E t \in Threads : UseLoop(t) \/ Finish(t)
    BY <2>4, UseLoopStep, FinishStep
  <2> QED
    BY <2>1, <2>2, <2>3, <2>4 DEF Next
<1> QED
  BY <1>1, LoopInit, PTL DEF Spec
==============================================================================
