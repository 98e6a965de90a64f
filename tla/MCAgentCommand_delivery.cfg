\* One message, delivered up to three times, with timeouts and a restart.
SPECIFICATION FairSpec
CONSTANTS
    Messages = {m1}
    Commands = {ask}
    People = {p1}
    Texts = {"plain", "error"}
    NoMessage = NoMessage
    NoKey = NoKey
    NoSession = NoSession
    NoJob = NoJob
    NoChain = NoChain
    NoCommand = NoCommand
    MaxDeliveries = 3
    TTL = 0
    TimeoutPolls = 2
    Workers = 1
    Durable = TRUE
    MaxTime = 1
    MaxRestarts = 1
INVARIANTS
    AnswerPerRun
    FuturesPolled
    RunInv
PROPERTY
    EveryCommandEnds
CHECK_DEADLOCK FALSE
