SPECIFICATION Spec
CONSTANTS
    Task <- ReingestBeforePublish
    Extract <- MCExtract
    Retries <- OneRetry
    MaxFaults = 0
    None = None
INVARIANT NoNullGeometry
