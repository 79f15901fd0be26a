SPECIFICATION Spec
CONSTANTS
    d0 = d0
    d1 = d1
    d2 = d2
    IDs = {rollP, pitchP}
    Data = {d0, d1, d2}
    Default <- MCDefault
    Torn = torn
    NoValue = noValue
    NoRecord = noRecord
    ShortRecord = shortRecord
    NoId = noId
    Threads = {t1, t2}
SYMMETRY MCSymmetry
INVARIANTS
    LoadRereads
