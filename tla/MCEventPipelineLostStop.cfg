\* A stop() between _loop_ready.set() and the creation of the stop event.
SPECIFICATION FairSpec
CONSTANTS
    MaxSize = 1
    BatchSize = 1
    MaxRetries = 1
    MaxEvents = 1
    MaxStops = 1
PROPERTIES StopEndsWorker
\* The process may end at any point, and then nothing runs.
CHECK_DEADLOCK FALSE
