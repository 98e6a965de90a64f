\* The instance of the run loops: the engine may wait for a loop that nobody
\* drives any more.
SPECIFICATION FairSpec
CONSTANTS
    w1 = w1
    w2 = w2
    Engine = Engine
    Workers <- TwoWorkers
    NoOne = NoOne
    Timeout = 2
    MaxQueue = 2
    MaxLate = 1
PROPERTY
    EngineComesBack
CHECK_DEADLOCK FALSE
