INIT MCInit
NEXT MCNext
CONSTANTS
    Elem = {a, b}
    Zero = z
    Sizes <- MCSizes
    MaxLen = 3
    Values = {a, b}
    None = none
    Size = 2
    MaxPushes = 6
PROPERTIES
    DrainAllTellsTruncation
