\* A durable store, a crash at any step and a restart, under the fairness of the
\* engine thread and of time.
SPECIFICATION FairSpec
CONSTANTS
    Cmds = {once, cron, poll}
    Recurring = {cron}
    Polls = {poll}
    NextRun <- EveryInstant
    NoTime = NoTime
    MaxTime = 2
    PollInterval = 1
    Durable = TRUE
    MaxBoots = 2
INVARIANTS
    TypeOK
    AtMostOnce
    NeverEarly
    SingleAlarm
    ArmedUnlessMissed
    TInv
PROPERTIES
    RemovedStaysSilent
    NothingVanishes
    KeepsPromise
    DueCommandsRun
\* At the bound on the clock, or after the last crash, nothing is left to do.
CHECK_DEADLOCK FALSE
