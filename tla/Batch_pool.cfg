\* Three images, one or two workers, two processes; both evaluation modes.
SPECIFICATION FairSpec
CONSTANTS
    None = None
    JobCount = 3
    WorkerCounts = {1, 2}
    Verdicts = {accepted, rejected}
    SummaryInterval = 2
    MaxStarts = 2
CHECK_DEADLOCK FALSE
INVARIANTS
    RowsStable
    WindowBound
    StoreOutlivesWorkers
    SummaryOnExit
    SuccessIsComplete
PROPERTIES
    ImplementsReport
    BatchEnds
