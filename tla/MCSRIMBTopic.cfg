SPECIFICATION MCSpec
CONSTANTS
    Data <- MCData
    NoData <- MCNoData
    Publishers <- MCPublishers
    Tasks = {t1}
    Queues = {systemWq, fastWq}
    Items = {w1, w2}
    QueueOf <- MCQueueOf
    MAX_WORK_ITEM = 2
    NoThread = noThread
    NoSub = noSub
    MaxGeneration = 2
INVARIANTS
    TypeOK
    NoLostWakeUp
PROPERTIES
    LatestSpec
    Delivered
