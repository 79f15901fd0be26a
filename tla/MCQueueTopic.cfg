INIT MCInit
NEXT MCNext
CONSTANTS
    Data = {d1, d2}
    ItemData = d1
    NoData = none
    QUEUE_LEN = 3
    Subs = {s1, s2}
    WorkItems = {w1, w2}
    NoItem = noItem
    MAX_WORK_ITEM = 2
    Required = {0, 1, 4}
    MaxGeneration = 7
INVARIANTS
    TypeOK
    RingHoldsNewest
    HoldsWhatItRecorded
    NotifiedInTime
PROPERTIES
    LogSpec
