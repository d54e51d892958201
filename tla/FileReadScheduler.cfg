\* Three requests in all lanes, two workers or none, a file that cannot be read.
CONSTANTS
    RequestLists <- RequestListsChecked
    Configs <- ConfigsChecked
    Ticks <- TicksChecked
    Faults <- FaultsChecked
    Builds <- Both
    Platforms <- Both
    Workers = 2
SPECIFICATION Spec
INVARIANTS
    TypeOK
    LanesInOrder
    FailureEndsLaterLanes
    AgreesWithSequential
    ViewsCalledBack
    SuccessServesDestinations
PROPERTY RunReturns
CHECK_DEADLOCK FALSE
