\* Backoff 5, 10 (with jitter 4..6, 8..12) against a budget of 17; the log
\* window is 20, the clock starts at boot or a window later.
SPECIFICATION Spec
CONSTANTS
    MaxRetries = 3
    InitialBackoff = 5
    TotalBudget = 17
    Window = 20
    BatchSizes = {1, 2}
    SaveTimes = {0, 5}
    IdleTimes = {10}
    BootTimes = {0, 20}
    MaxTime = 48
INVARIANTS BackoffBudget DropsReported LogRate
PROPERTIES DropsAreJustified
\* No flush begins after MaxTime.
CHECK_DEADLOCK FALSE
