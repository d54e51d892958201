\* Two views of medium size side by side.
CONSTANTS
    RequestLists <- MediumViews
    Configs <- ConfigsChecked
    Ticks <- TicksChecked
    Faults <- FaultsChecked
    Builds <- Both
    Platforms <- Windows
    Workers = 2
SPECIFICATION Spec
INVARIANT SuccessServesViews
CHECK_DEADLOCK FALSE
