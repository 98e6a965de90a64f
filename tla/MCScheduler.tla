----------------------------- MODULE MCScheduler -----------------------------
(* Small instances of Scheduler for TLC.                                   *)
EXTENDS SchedulerRefinement

(* A cron that matches the instant 1 and no later date.                    *)
EveryInstant(c, t) == IF t >= 2 THEN NoTime ELSE t + 1

(* A cron that matches the even instants.                                  *)
EvenInstants(c, t) == 2 * (t \div 2 + 1)
=============================================================================
