\* Two threads, two clients, four calls of any kind.
SPECIFICATION Spec
CONSTANTS
    Threads = {t1, t2}
    MaxClients = 2
    MaxCalls = 4
INVARIANTS NoClientForgotten NoSurpriseInSequence ExitAsksEveryWorker SequentialUseFlushes
PROPERTIES ReadAnsweredUnlessEnded
\* The process ends; a read whose loop ended waits for ever.
CHECK_DEADLOCK FALSE
