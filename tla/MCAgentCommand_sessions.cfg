\* Two conversations, replies between them, and expiry.
SPECIFICATION Spec
CONSTANTS
    Messages = {m1, m2, m3}
    Commands = {ask}
    People = {p1, p2}
    Texts = {"plain"}
    NoMessage = NoMessage
    NoKey = NoKey
    NoSession = NoSession
    NoJob = NoJob
    NoChain = NoChain
    NoCommand = NoCommand
    MaxDeliveries = 1
    TTL = 0
    TimeoutPolls = 0
    Workers = 1
    Durable = TRUE
    MaxTime = 1
    MaxRestarts = 0
SYMMETRY Symmetry
INVARIANTS
    TypeOK
    IndexAgrees
    Isolation
    AInv
CHECK_DEADLOCK FALSE
