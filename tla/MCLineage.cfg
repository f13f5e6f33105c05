\* Three calls, two hours, pages of two rows, one row of an earlier process.
SPECIFICATION Spec
CONSTANTS
    Never = Never
    Naive = Naive
    Calls = {1, 2, 3}
    Corrs <- MCCorrs
    Times = {1, 2}
    Foreign <- MCForeign
    Filters <- MCFilters
    PageSize = 2
INVARIANTS ParentPrecedes SequentialIsAChain LogsShowWindow GraphHoldsAll
\* The calls end and the reader is done.
CHECK_DEADLOCK FALSE
