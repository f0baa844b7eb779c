SPECIFICATION Spec
CONSTANTS
    Modes = {"light", "dark"}
    Basemaps = {"map", "satellite"}
    Classifications = {"added", "removed"}
    SnapshotB <- MCSnapshotB
    Details = {d1, d2}
    None = None
    MaxEvents = 5
INVARIANTS
    TypeOK
    MapShowsSelection
PROPERTIES
    LayersComeBack
CHECK_DEADLOCK FALSE
