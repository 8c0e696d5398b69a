SPECIFICATION Spec
CONSTANTS
    Job = {j1}
    Client = {c1, c2}
    NoJob = NoJob
    MaxFaults = 2
INVARIANTS
    TypeOK
    OnlyRunnersSignalled
    NoUnrecordedCodex
    EndedMeansStopped
PROPERTIES
    OutcomeFinal
    InterruptSticks
    InterruptAnswered
CHECK_DEADLOCK FALSE
