INIT MCInit
NEXT MCNext
CONSTANTS
    TopicNames = {}
    HeaderNames = {}
    TopicContents = {}
    Beginning <- MCBeginning
    MaxTopicEdits = 0
    Missing = Missing
    Empty = Empty
    None = None
    YamlPaths = {1}
    YamlContents <- MCYamlContents
    Upper <- MCUpper
    MaxYamlEdits = 1
    MaxInstalls = 2
    NoFile = NoFile
    NoText = NoText
    Prime = 10007
    Seeds = {1}
    EkfArguments <- MCEkfArguments
INVARIANTS
    SavedValuesKeepTheirOwner
