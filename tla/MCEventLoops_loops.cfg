\* Two workers beside the engine, and a job that waits for one of them.
SPECIFICATION FairSpec
CONSTANTS
    w1 = w1
    w2 = w2
    Engine = Engine
    Workers <- TwoWorkers
    NoOne = NoOne
    Timeout = 2
    MaxQueue = 2
    MaxLate = 1
INVARIANT
    LoopInv
PROPERTIES
    DrivenCallsEnd
    AsyncCallsEnd
\* The engine may be left waiting with nothing else to do, see the run stuck.
CHECK_DEADLOCK FALSE
