\* Two adapters, four messages of which two are refused, three answers.
SPECIFICATION FairSpec
CONSTANTS
    a1 = a1
    a2 = a2
    b1 = b1
    b2 = b2
    Adapters = 2
    Requests = {a1, b1, b2, a2}
    From <- TwoAdapters
    Outsiders = {a2, b2}
    Ids = {i}
    NoId = NoId
    Nobody = Nobody
    RateLimit = 1
    MaxAnswers = 3
INVARIANTS
    NothingLost
    InOrder
    FirstAdapterHeard
    FlowInv
    RefusalsYieldToAnswers
PROPERTIES
    AnswersGoOut
