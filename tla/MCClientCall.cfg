\* Two calls; two tasks with one trace() scope, or one task with two.
SPECIFICATION Spec
CONSTANTS
    Tasks = {1, 2}
    AutoChain = TRUE
    MaxCalls = 2
    MaxContexts = 3
INVARIANTS OneEventPerCall OneHookPerCall ChainStaysInTask ChainStaysInTrace
\* The application may stop calling.
CHECK_DEADLOCK FALSE
