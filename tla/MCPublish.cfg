SPECIFICATION Spec
CONSTANTS
    Task <- Republish
    Extract <- MCExtract
    Retries <- PublishRetries
    MaxFaults = 1
    None = None
INVARIANTS
    ServingIsDerived
    SuccessIsDurable
PROPERTIES
    NeverUnpublished
    ImplementsPublication
