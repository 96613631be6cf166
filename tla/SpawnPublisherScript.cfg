SPECIFICATION FairSpec
CONSTANTS
    p1 = p1
    p2 = p2
    m1 = m1
    m2 = m2
    n1 = n1
    n2 = n2
    NoMessage = NoMessage
    NoName = NoName
    Procs = {p1}
    Kind <- ScriptOnly
    Messages = {m1, m2}
    Names = {n1, n2}
    MaxPublish = 1
PROPERTY SentFilesRemoved
