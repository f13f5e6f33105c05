\* Two workers on one server, three events of two ids, batches of 2, 2 attempts.
SPECIFICATION Spec
CONSTANTS
    w1 = w1
    w2 = w2
    NoUrl = NoUrl
    Workers <- MCWorkers
    Target <- MCTarget
    Events <- MCEvents
    WorkerOf <- MCWorkerOf
    IdOf <- MCIdOf
    Attempts = 2
    BatchSize = 2
INVARIANTS SavedWasAnswered AtMostAttempts
PROPERTIES PostgresImplementsEventStore HandedSettles
\* The workers end.
CHECK_DEADLOCK FALSE
