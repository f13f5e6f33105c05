\* Two ids of eleven kinds of originals, or not found; two threads.
SPECIFICATION Spec
CONSTANTS
    None = None
    Raised = Raised
    Parts = Parts
    AutoNormalize = TRUE
    Prices <- MCPrices
    Threads = {t1, t2}
    Count = 2
    Originals <- MCOriginals
    Overrides <- MCOverrides
    Modes = {"full", "metadata"}
    Others <- MCOthers
INVARIANTS ResultsInOrder OneEventPerReplay SameCallSameResult StreamAsWhole
PROPERTIES BatchEnds
\* The batch ends.
CHECK_DEADLOCK FALSE
