SPECIFICATION Spec
CONSTANTS
    Task <- PublishTwice
    Extract <- MCExtract
    Retries <- OneRetry
    MaxFaults = 0
    None = None
INVARIANT OneLoadPerChangeset
