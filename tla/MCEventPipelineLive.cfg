\* Liveness and refinement under the fairness of the worker's thread.
SPECIFICATION FairSpec
CONSTANTS
    MaxSize = 1
    BatchSize = 2
    MaxRetries = 2
    MaxEvents = 3
    MaxStops = 2
PROPERTIES AcceptedSettles PostedStopEnds ImplementsDelivery
\* The process may end at any point, and then nothing runs.
CHECK_DEADLOCK FALSE
