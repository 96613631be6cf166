SPECIFICATION FairSpec
VIEW WithoutReturnCodes
CONSTANTS
    p1 = p1
    p2 = p2
    m1 = m1
    m2 = m2
    n1 = n1
    n2 = n2
    NoMessage = NoMessage
    NoName = NoName
    Procs = {p1, p2}
    Kind <- CurlAndScript
    Messages = {m1}
    Names = {n1, n2}
    MaxPublish = 1
INVARIANTS
    TypeOK
    ShellsReadTheirMessage
    FilesExclusive
    LeftOnlyByFaults
PROPERTIES
    RemovedAfterProgram
    ImplementsApi
