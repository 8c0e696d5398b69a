SPECIFICATION Spec
CONSTANTS
    Observer = {watcher, fresh}
    MissingGrace = 1
    UnrecognizedGrace = 3
    IdleGrace = 3
    HardTimeout = 4
    Quiet = 2
    Ceiling = 3
    MaxFlush = 1
    MaxPending = 2
    MaxFaults = 1
INVARIANTS
    TypeOK
    ReportKept
    ReapKeepsReport
    SuccessEarned
PROPERTIES
    SilentJobEnds
CHECK_DEADLOCK FALSE
