SPECIFICATION Spec
CONSTANTS
    p1 = p1
    p2 = p2
    m0 = m0
    m1 = m1
    m2 = m2
    a1 = a1
    a2 = a2
    NoMessage = NoMessage
    NoApp = NoApp
    Procs = {p1, p2}
    Messages = {m1}
    Apps = {a1}
    AppOf <- OneApp
    MaxPublish = 1
INVARIANTS
    NotADirectoryMeansAFile
