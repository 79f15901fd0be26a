INIT MCInit
NEXT MCNext
CONSTANTS
    TopicNames = {"a", "b"}
    HeaderNames = {"a", "b", "c"}
    TopicContents <- MCTopicContents
    Beginning <- MCBeginning
    MaxTopicEdits = 1
    Missing = Missing
    Empty = Empty
    None = None
    YamlPaths = {1, 2}
    YamlContents <- MCYamlContents
    Upper <- MCUpper
    MaxYamlEdits = 2
    MaxInstalls = 2
    NoFile = NoFile
    NoText = NoText
    Prime = 10007
    Seeds = {1, 2, 3, 4, 5, 6, 7, 8, 9, 10, 11, 12}
    EkfArguments <- MCEkfArguments
INVARIANTS
    TopicHeadersAgree
    IncludedHeadersExist
    
    PredictionIsLinearised
    OneErrorState
    MeasurementsAreDerived
