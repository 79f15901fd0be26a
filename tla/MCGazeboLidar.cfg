SPECIFICATION Spec
CONSTANTS
    NUM_MOTORS = 1
    FULL = 2
    NaN = NaN
    Controls <- MCControls
    LaserScans <- MCNearScans
    NotFinite = NotFinite
    EpochTimes <- MCPresentTimes
    Nothing = Nothing
    MaxMessages = 4
    MaxArrivals = 3
    MaxInbox = 2
INVARIANTS
    ScansForwarded
CHECK_DEADLOCK FALSE
