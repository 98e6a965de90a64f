\* Two questions of one user that are in flight at the same time.
SPECIFICATION Spec
CONSTANTS
    Messages = {m1, m2}
    Commands = {ask}
    People = {p1}
    Texts = {"plain"}
    NoMessage = NoMessage
    NoKey = NoKey
    NoSession = NoSession
    NoJob = NoJob
    NoChain = NoChain
    NoCommand = NoCommand
    MaxDeliveries = 1
    TTL = 0
    TimeoutPolls = 0
    Workers = 1
    Durable = TRUE
    MaxTime = 1
    MaxRestarts = 0
PROPERTY
    TurnsKept
CHECK_DEADLOCK FALSE
