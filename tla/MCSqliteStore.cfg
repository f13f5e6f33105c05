\* Four events, batches of 2, 2 attempts, 2 processes on one file.
SPECIFICATION Spec
CONSTANTS
    Events <- MCEvents
    IdOf <- MCIdOf
    Attempts = 2
    BatchSize = 2
    MaxSessions = 2
    Unreadable <- MCUnreadable
INVARIANTS SavedIsStored ReadsFindSaved
PROPERTIES RowsNeverChange ImplementsEventStore
\* The worker ends when it is stopped.
CHECK_DEADLOCK FALSE
