SPECIFICATION Spec
CONSTANTS
    Requests = {1, 2}
    PoolSize = 1
    VALID_CLASSIFICATIONS = {"modified_geometry", "removed", "ambiguous"}
    DEFAULT_SOURCE_QUERY_VERSION = v2
    SourceQueryVersions = {v1, v2}
    None = None
    Changesets <- MCChangesets
    LayerContents <- MCLayerContents
    MaxClicks = 2
    MaxSwitches = 1
    MaxPublishes = 1
    MaxFailures = 1
    MaxDisturbances = 2
INVARIANTS
    TypeOK
    PoolsAccounted
    DetailFollowsClick
PROPERTIES
    EveryClickSettles
    TilesConverge
CHECK_DEADLOCK FALSE
