SPECIFICATION Spec
CONSTANTS
    Task <- Overlap
    Extract <- MCExtract
    Retries <- OneRetry
    MaxFaults = 0
    None = None
INVARIANT LayersComparable
