SPECIFICATION Spec
SYMMETRY DestsSymmetry
CONSTANTS
    j1 = j1
    j2 = j2
    f1 = f1
    f2 = f2
    d1 = d1
    d2 = d2
    NoDest = NoDest
    NoJob = NoJob
    Jobs = {j1, j2}
    Files = {f1, f2}
    JobOf <- TwoJobs
    Dests = {d1, d2}
    MaxRecords <- TwoAndOne
INVARIANTS
    TypeOK
    ResultsAreWhole
    ConservedUnlessMisused
