\* A --since with a zone of its own.
SPECIFICATION Spec
CONSTANTS
    Never = Never
    Naive = Naive
    Calls = {1, 2, 3}
    Corrs <- MCCorrs
    Times = {1, 2}
    Foreign <- MCForeign
    Filters <- ZonedFilters
    PageSize = 2
INVARIANTS LogsShowWindow
\* The calls end and the reader is done.
CHECK_DEADLOCK FALSE
