SPECIFICATION Spec
CONSTANTS
    Elements = {"way/1", "way/2"}
    Absent = Absent
    requested_time = 1
    RANGE_WIDTH = 1
    ValidShapes = {"house"}
    Repaired <- MCRepaired
    Histories <- MCHistoryFunctions
INVARIANTS
    TypeOK
    SnapshotIsStateAtInstant
    RepairRecorded
    UsableUnlessDegenerate
CHECK_DEADLOCK FALSE
