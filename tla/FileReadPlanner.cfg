\* Up to three requests: ranges around each other, and deadlines around each other.
CONSTANTS
    RequestLists <- RequestListsChecked
    Configs <- ConfigsChecked
    Ticks <- TicksChecked
SPECIFICATION Spec
INVARIANTS
    TypeOK
    ExactCoverage
    TasksSpanTheirSegments
    MergedWithinMax
    SortIsStrictWeakOrder
    DueFirst
    NothingLeftToMerge
CHECK_DEADLOCK FALSE
