INIT MCInit
NEXT MCNext
CONSTANTS
    TopicNames = {}
    HeaderNames = {}
    TopicContents = {}
    Beginning <- MCBeginning
    MaxTopicEdits = 0
    Missing = Missing
    Empty = Empty
    None = None
    YamlPaths = {}
    YamlContents = {}
    Upper <- MCUpper
    MaxYamlEdits = 0
    MaxInstalls = 0
    NoFile = NoFile
    NoText = NoText
    Prime = 10007
    Seeds = {1}
    EkfArguments <- MCEkfArguments
INVARIANTS
    FunctionsReadWhatDataWrites
