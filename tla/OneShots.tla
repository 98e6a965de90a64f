------------------------------- MODULE OneShots -------------------------------
(***************************************************************************)
(* What the bot promises of a command that is to run once: the user gives  *)
(* it a date, it is taken once, not before that date, and then runs at     *)
(* most once.  A cancelled command never runs.  A crash may lose a command *)
(* but never brings back one that was claimed, ran or was cancelled.       *)
(* How alarms, records and restarts achieve this is module Scheduler.      *)
(***************************************************************************)
EXTENDS Integers

CONSTANTS
    Jobs,   \* the commands that run once
    Dates   \* the dates users ask for; 0 is "now"

VARIABLES
    clock,
    due,    \* the date each job asks for
    stage   \* how far each job has come

vars == <<clock, due, stage>>

Stages == {"new", "held", "claimed", "done", "cancelled", "lost"}

Init ==
    /\ clock = 0
    /\ due = [j \in Jobs |-> 0]
    /\ stage = [j \in Jobs |-> "new"]

Accept(j, d) ==
    /\ stage[j] = "new"
    /\ stage' = [stage EXCEPT ![j] = "held"]
    /\ due' = [due EXCEPT ![j] = d]
    /\ UNCHANGED clock

Claim(j) ==
    /\ stage[j] = "held"
    /\ due[j] <= clock
    /\ stage' = [stage EXCEPT ![j] = "claimed"]
    /\ UNCHANGED <<clock, due>>

Run(j) ==
    /\ stage[j] = "claimed"
    /\ stage' = [stage EXCEPT ![j] = "done"]
    /\ UNCHANGED <<clock, due>>

Cancel(j) ==
    /\ stage[j] = "held"
    /\ stage' = [stage EXCEPT ![j] = "cancelled"]
    /\ UNCHANGED <<clock, due>>

(* A crash: any jobs that were held or claimed are gone, the others stay.  *)
Lose ==
    /\ stage' \in [Jobs -> Stages]
    /\ \A j \in Jobs : \/ stage'[j] = stage[j]
                       \/ stage[j] \in {"held", "claimed"} /\ stage'[j] = "lost"
    /\ UNCHANGED <<clock, due>>

Advance ==
    /\ clock' > clock
    /\ UNCHANGED <<due, stage>>

Next ==
    \/ \E j \in Jobs :
          \/ \E d \in Dates : Accept(j, d)
          \/ Claim(j)
          \/ Run(j)
          \/ Cancel(j)
    \/ Lose
    \/ Advance

Spec == Init /\ [][Next]_vars
=============================================================================
