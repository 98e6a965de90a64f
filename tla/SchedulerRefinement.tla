------------------------- MODULE SchedulerRefinement -------------------------
(***************************************************************************)
(* Scheduler implements OneShots for its commands that are neither         *)
(* recurring nor polls.                                                    *)
(***************************************************************************)
EXTENDS Scheduler

(* Where a command is, read off the channel, s_to_process and the store.   *)
StageOf(c) ==
    IF c \notin sent THEN "new"
    ELSE IF c \in Range(toProcess) THEN "claimed"
    ELSE IF ran[c] # <<>> THEN "done"
    ELSE IF c \in Range(inbox) \/ records[c] # NoTime THEN "held"
    ELSE IF c \in removed THEN "cancelled"
    ELSE "lost"

DueOf(c) == IF delay[c] = NoTime THEN 0 ELSE delay[c]

Promise == INSTANCE OneShots WITH
    Jobs  <- OneShot,
    Dates <- 0..(MaxTime + PollInterval),
    clock <- now,
    due   <- [c \in OneShot |-> DueOf(c)],
    stage <- [c \in OneShot |-> StageOf(c)]

(* Every behaviour of the scheduler, crashes and restarts included, is one *)
(* the promise allows: one claim and one run per delayed command, none     *)
(* before its date, none after a removal.                                  *)
KeepsPromise == Promise!Spec
=============================================================================
