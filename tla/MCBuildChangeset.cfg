SPECIFICATION Spec
CONSTANTS
    FeaturesA <- MCFeaturesA
    FeaturesB <- MCFeaturesB
    MayRetag <- MCMayRetag
    IouValues = {0, 49, 50, 99}
    T_UNCHANGED_IOU = 99
    T_CROSS_ID_MATCH = 50
INVARIANTS
    TypeOK
    NoFeatureTwice
    NoFeatureLost
    NoCandidateLost
    MatchesUnrivalled
    DeterministicOutput
    ChangedCountIsRowCount
    ExportDeterministic
    RowsPublishable
    GroupsLocated
CHECK_DEADLOCK FALSE
