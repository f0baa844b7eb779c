SPECIFICATION Spec
CONSTANTS
    Task <- Overlap
    Extract <- MCExtract
    Retries <- OneRetry
    MaxFaults = 1
    None = None
INVARIANTS
    TypeOK
    NoDanglingRows
PROPERTIES
    RowsPermanent
    EveryTaskEnds
