SPECIFICATION Spec
CONSTANTS
    NUM_MOTORS = 1
    FULL = 2
    NaN = NaN
    Controls <- MCControls
    LaserScans <- MCLaserScans
    NotFinite = NotFinite
    EpochTimes <- MCEpochTimes
    Nothing = Nothing
    MaxMessages = 4
    MaxArrivals = 3
    MaxInbox = 2
INVARIANTS
    TypeOK
    MotorsWithinLimits
    EverythingAddressed
    StopsWithinOneMessage
PROPERTIES
    HilSensorStreamSpec
    HeartbeatsAnswered
CHECK_DEADLOCK FALSE
