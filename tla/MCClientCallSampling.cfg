\* A stream whose call was sampled out.
SPECIFICATION Spec
CONSTANTS
    Tasks = {1}
    AutoChain = TRUE
    MaxCalls = 1
    MaxContexts = 2
INVARIANTS SampledOutEmitsNothing
\* The application may stop calling.
CHECK_DEADLOCK FALSE
