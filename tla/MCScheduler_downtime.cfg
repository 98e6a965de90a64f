\* A recurring command whose next run falls into a downtime of the bot.
SPECIFICATION Spec
CONSTANTS
    Cmds = {cron}
    Recurring = {cron}
    Polls = {}
    NextRun <- EvenInstants
    NoTime = NoTime
    MaxTime = 4
    PollInterval = 1
    Durable = TRUE
    MaxBoots = 2
INVARIANT
    ListedCronsStayArmed
CHECK_DEADLOCK FALSE
