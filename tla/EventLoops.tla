------------------------------- MODULE EventLoops -------------------------------
(***************************************************************************)
(* Where the threads of the bot wait.  The engine thread and the pool of   *)
(* commands/agent.py share the event loop of a connected backend: whoever  *)
(* finds it idle drives it with run_until_complete, whoever finds it       *)
(* running submits a coroutine to it and waits, and the engine resolves    *)
(* channels on it without a look.  The engine also waits for commands      *)
(* that commands/executor.py runs, of which the asynchronous ones have a   *)
(* loop that always runs, and a timeout.                                   *)
(*                                                                         *)
(* One backend; other backends have loops of their own.  Definitions       *)
(* marked "Faulty" are broken versions of the definition that follows      *)
(* them: no action uses them.                                              *)
(***************************************************************************)
EXTENDS Integers

CONSTANTS
    Engine,     \* the csp engine thread
    Workers,    \* the threads of the pool
    NoOne,      \* the loop is not running
    Timeout,    \* timeout of execute_command_func
    MaxQueue,   \* bound on the jobs that wait for a worker
    MaxLate     \* bound on the coroutines that outlive their timeout

ASSUME LoopAssumption ==
    /\ Engine \notin Workers
    /\ NoOne \notin Workers \cup {Engine}
    /\ Timeout \in Nat
    /\ MaxQueue \in Nat
    /\ MaxLate \in Nat

Threads == Workers \cup {Engine}

VARIABLES
    injected,   \* the backend was connected when set_backends was called
    driver,     \* the thread in run_until_complete
    task,       \* the coroutine of each thread on the loop
    at,         \* where each thread is
    goal,       \* what the engine uses the loop for
    queued,     \* jobs that wait for a worker
    patience,   \* what is left of the timeout of the engine
    late        \* coroutines whose timeout has passed

loop     == <<driver, task>>
executor == <<patience, late>>
vars     == <<injected, loop, at, goal, queued, executor>>

Synchronous  == {"function", "generator"}
Asynchronous == {"coroutine", "asyncgen"}

TypeOK ==
    /\ injected \in BOOLEAN
    /\ driver \in Threads \cup {NoOne}
    /\ task \in [Threads -> {"none", "pending", "done"}]
    /\ at \in [Threads -> {"free", "look", "submit", "waiting", "drive", "driving", "alone",
                           "building"} \cup Synchronous \cup Asynchronous]
    /\ goal \in {"resolve", "download"}
    /\ queued \in 0..MaxQueue
    /\ patience \in 0..Timeout
    /\ late \in 0..MaxLate

(* _inject_backends_into_agent_commands in connect: a backend that could   *)
(* not be connected then is never given to the agents.                     *)
Init ==
    /\ injected \in BOOLEAN
    /\ driver = NoOne
    /\ task = [t \in Threads |-> "none"]
    /\ at = [t \in Threads |-> "free"]
    /\ goal = "resolve"
    /\ queued = 0
    /\ patience = 0
    /\ late = 0

Goes(t, from, to) == at[t] = from /\ at' = [at EXCEPT ![t] = to]

(* Where a thread goes on when its use of the loop is over, or has failed: *)
(* a channel keeps its name, an image is left out, a job has an error.     *)
GoesOn(t) == IF t = Engine /\ goal = "download" THEN "building" ELSE "free"
-----------------------------------------------------------------------------
(* _resolve_channel and _fetch_bot_info, which connect the backend if it   *)
(* is not yet (the agents do not hear of it); if that fails nothing comes  *)
(* of them.                                                                *)
Resolve ==
    /\ Goes(Engine, "free", "drive")
    /\ goal' = "resolve"
    /\ UNCHANGED <<injected, loop, queued, executor>>

(* preexecute of an agent command: images are downloaded one by one...     *)
Build ==
    /\ Goes(Engine, "free", "building")
    /\ UNCHANGED <<injected, loop, goal, queued, executor>>

Download ==
    /\ injected
    /\ Goes(Engine, "building", "look")
    /\ goal' = "download"
    /\ UNCHANGED <<injected, loop, queued, executor>>

(* ... and then the agent is submitted to the pool.                        *)
SubmitJob ==
    /\ Goes(Engine, "building", "free")
    /\ queued < MaxQueue
    /\ queued' = queued + 1
    /\ UNCHANGED <<injected, loop, goal, executor>>

(* _run_agent: without a loop of the backend a fresh one is made.          *)
TakeJob(w) ==
    /\ queued > 0
    /\ queued' = queued - 1
    /\ Goes(w, "free", IF injected THEN "look" ELSE "alone")
    /\ UNCHANGED <<injected, loop, goal, executor>>

EndAlone(w) ==
    /\ Goes(w, "alone", "free")
    /\ UNCHANGED <<injected, loop, goal, queued, executor>>

(* loop.is_running()                                                       *)
Look(t) ==
    /\ Goes(t, "look", IF driver = NoOne THEN "drive" ELSE "submit")
    /\ UNCHANGED <<injected, loop, goal, queued, executor>>

(* run_coroutine_threadsafe(...).result(), on a loop that may have stopped *)
(* since: the coroutine is scheduled all the same.                         *)
Submit(t) ==
    /\ Goes(t, "submit", "waiting")
    /\ task' = [task EXCEPT ![t] = "pending"]
    /\ UNCHANGED <<injected, driver, goal, queued, executor>>

Resume(t) ==
    /\ task[t] = "done"
    /\ Goes(t, "waiting", GoesOn(t))
    /\ task' = [task EXCEPT ![t] = "none"]
    /\ UNCHANGED <<injected, driver, goal, queued, executor>>

(* Faulty: a loop that is running already is driven by a second thread.    *)
DriveAnyway(t) ==
    /\ Goes(t, "drive", "driving")
    /\ driver' = t
    /\ task' = [task EXCEPT ![t] = "pending"]
    /\ UNCHANGED <<injected, goal, queued, executor>>

(* run_until_complete, which raises when the loop is running.              *)
Drive(t) ==
    /\ \/ /\ driver = NoOne
          /\ Goes(t, "drive", "driving")
          /\ driver' = t
          /\ task' = [task EXCEPT ![t] = "pending"]
       \/ /\ driver # NoOne
          /\ Goes(t, "drive", GoesOn(t))
          /\ UNCHANGED loop
    /\ UNCHANGED <<injected, goal, queued, executor>>

(* A loop that is driven runs the coroutines of all threads.               *)
Finish(t) ==
    /\ driver # NoOne
    /\ task[t] = "pending"
    /\ task' = [task EXCEPT ![t] = "done"]
    /\ UNCHANGED <<injected, driver, at, goal, queued, executor>>

(* Faulty: the loop is closed when its driver is done, as a fresh one is.  *)
StopAndClose(t) ==
    /\ driver = t
    /\ task[t] = "done"
    /\ Goes(t, "driving", GoesOn(t))
    /\ driver' = NoOne
    /\ task' = [u \in Threads |-> IF u = t \/ task[u] = "pending" THEN "none" ELSE task[u]]
    /\ UNCHANGED <<injected, goal, queued, executor>>

(* It stops as soon as the coroutine of its driver is done; those of other *)
(* threads stay as they are.                                               *)
Stop(t) ==
    /\ driver = t
    /\ task[t] = "done"
    /\ Goes(t, "driving", GoesOn(t))
    /\ driver' = NoOne
    /\ task' = [task EXCEPT ![t] = "none"]
    /\ UNCHANGED <<injected, goal, queued, executor>>
-----------------------------------------------------------------------------
(* execute_command_func, by the four kinds of functions.                   *)
Execute ==
    /\ \E kind \in Synchronous \cup Asynchronous : Goes(Engine, "free", kind)
    /\ patience' = Timeout
    /\ UNCHANGED <<injected, loop, goal, queued, late>>

(* _run_sync_function: it returns or raises.                               *)
EndFunction ==
    /\ Goes(Engine, "function", "free")
    /\ UNCHANGED <<injected, loop, goal, queued, executor>>

(* _run_sync_generator: drained up to its end or to None, without a look   *)
(* at the timeout.                                                         *)
EndGenerator ==
    /\ Goes(Engine, "generator", "free")
    /\ UNCHANGED <<injected, loop, goal, queued, executor>>

(* _run_async_function and _run_async_generator: the loop of               *)
(* _get_event_loop runs in a thread of its own.                            *)
EndAsync ==
    /\ \E kind \in Asynchronous : Goes(Engine, kind, "free")
    /\ UNCHANGED <<injected, loop, goal, queued, executor>>

(* Faulty: result() is called without the timeout.                         *)
NoTimeOut ==
    /\ patience < 0
    /\ UNCHANGED vars

(* The engine gives up; nothing cancels the coroutine.                     *)
TimeOutAsync ==
    /\ patience = 0
    /\ \E kind \in Asynchronous : Goes(Engine, kind, "free")
    /\ late' = IF late < MaxLate THEN late + 1 ELSE late
    /\ UNCHANGED <<injected, loop, goal, queued, patience>>

(* What a late coroutine returns is dropped.                               *)
EndLate ==
    /\ late > 0
    /\ late' = late - 1
    /\ UNCHANGED <<injected, loop, at, goal, queued, patience>>

Tick ==
    /\ patience > 0
    /\ at[Engine] \in Asynchronous
    /\ patience' = patience - 1
    /\ UNCHANGED <<injected, loop, at, goal, queued, late>>
-----------------------------------------------------------------------------
UseLoop(t) == Look(t) \/ Submit(t) \/ Resume(t) \/ Drive(t) \/ Stop(t)

Next ==
    \/ Resolve \/ Build \/ Download \/ SubmitJob
    \/ Execute \/ EndFunction \/ EndGenerator \/ EndAsync \/ TimeOutAsync
    \/ EndLate \/ Tick
    \/ \E w \in Workers : TakeJob(w) \/ EndAlone(w)
    \/ \E t \in Threads : UseLoop(t) \/ Finish(t)

Spec == Init /\ [][Next]_vars

(* Threads go on, and time passes.  A coroutine ends after finitely many   *)
(* steps, and a loop takes its coroutines in turn whenever it is driven,   *)
(* however often it was stopped in between.  Nothing is assumed of what    *)
(* commands do, nor that anybody asks the bot for anything.                *)
Fairness ==
    /\ \A t \in Threads : WF_vars(UseLoop(t)) /\ SF_vars(Finish(t))
    /\ \A w \in Workers : WF_vars(TakeJob(w)) /\ WF_vars(EndAlone(w))
    /\ WF_vars(SubmitJob)
    /\ WF_vars(Tick)
    /\ WF_vars(TimeOutAsync)

FairSpec == Spec /\ Fairness
-----------------------------------------------------------------------------
(* One thread at a time drives the loop, the loop holds coroutines of      *)
(* threads that wait for them and of no other, one each, and as long as no *)
(* agent knows the backend it has the loop to itself.                      *)
LoopInv ==
    /\ TypeOK
    /\ \A t \in Threads :
          /\ at[t] = "driving" <=> driver = t
          /\ task[t] # "none" <=> at[t] \in {"waiting", "driving"}
          /\ at[t] \in {"look", "submit", "waiting"} => injected
    /\ \A w \in Workers : at[w] \in {"drive", "driving"} => injected
    /\ at[Engine] \in {"look", "submit", "waiting"} => goal = "download"

(* Whoever waits for a coroutine on the loop of the backend gets its       *)
(* result, if only the loop is driven again and again, by whichever thread *)
(* and for however short a time.                                           *)
DrivenCallsEnd ==
    \A t \in Threads :
        []<>(driver # NoOne) => (at[t] = "waiting" ~> at[t] # "waiting")

(* execute_command_func has a "timeout in seconds for async operations and *)
(* generators".  Asynchronous functions and asynchronous generators keep   *)
(* to it: such a command holds the engine up no longer, whatever it does.  *)
(* A synchronous generator does not: _run_sync_generator is given the      *)
(* timeout and drops it, so that EndGenerator may never come.              *)
AsyncCallsEnd == at[Engine] \in Asynchronous ~> at[Engine] = "free"

(* agent.py says of the download of an image that the loop is usually idle *)
(* and that only a running loop needs a threadsafe submit: the engine,     *)
(* which waits for the result without a timeout, gets it, given that       *)
(* coroutines end.                                                         *)
EngineComesBack == at[Engine] = "waiting" ~> at[Engine] # "waiting"
=============================================================================
