\* Each client of the file layer beside a writer, and the scheduler in both builds.
CONSTANTS
    Handles = {1, 2, 3, 4, 5, 6}
    Clients <- ClientsChecked
    Disks <- DisksChecked
    WriterOpens <- WriterOpensChecked
    Writes <- WritesChecked
    Sizes = {2}
    Sharing = {TRUE, FALSE}
    max_io_chunk_bytes = 2
    StreamCalls <- StreamCallsChecked
    SpanSizes = {1, 3}
    SpanCalls <- SpanCallsChecked
    ViewTasks <- ViewTasksChecked
    granularity = 2
    Paths <- PathsChecked
    PoolThreads <- PoolThreadsChecked
    Users <- UsersChecked
    Workers <- WorkersChecked
    Capacities = {1, 2}
    DefaultCapacity = 2
    TaskSizes = {3}
    Programs <- ProgramsChecked
SPECIFICATION Spec
INVARIANTS
    TypeOK
    HandlesOwnedOnce
    ReadersSeeOneVersion
    WritesLand
    ViewsWithinMapping
    PoolKeepsMostRecent
PROPERTIES
    ImplementsOrderedStream
    ShutdownReturns
