SPECIFICATION Spec
SYMMETRY MessageSymmetry
CONSTANTS
    m1 = m1
    m2 = m2
    d1 = d1
    f1 = f1
    NoMessage = NoMessage
    NoName = NoName
    Messages <- MCMessages
    Dirs <- MCDirs
    Names <- MCNames
    DefaultConf <- MCDefaultConf
    OptionMaps <- MCOptionMaps
    Environments <- MCEnvironments
    MaxRecords = 3
INVARIANTS
    TypeOK
    StreamOpenIffRunning
    SettledOnDisk
PROPERTIES
    FailureIsPermanent
    EarlierRecordsKept
    ImplementsApi
