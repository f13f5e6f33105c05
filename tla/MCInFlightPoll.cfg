\* Safety: queue of 2, batches of 2, 2 attempts, 4 events, stop() called twice,
\* events_in_flight polled at any time.
SPECIFICATION PollSpec
CONSTANTS
    MaxSize = 2
    BatchSize = 2
    MaxRetries = 2
    MaxEvents = 4
    MaxStops = 2
INVARIANTS
    TypeOK FIFODelivery EveryEventAccounted GracefulStopFlushes BoundedBacklog
    PollOffByOneBatch
PROPERTIES DeliverySafety
\* The process may end at any point, and then nothing runs.
CHECK_DEADLOCK FALSE
