SPECIFICATION Spec
SYMMETRY ObjectsAndMultis
CONSTANTS
    o1 = o1
    o2 = o2
    o3 = o3
    x1 = x1
    x2 = x2
    NoMulti = NoMulti
    Objects = {o1, o2}
    Multis = {x1, x2}
    Kinds = {"session", "syslog"}
    NameLists <- MCNameLists
    MaxEntries = 2
INVARIANTS
    TypeOK
    FactoryMembersRun
    PauseHolds
    NamedUntilDestroyed
PROPERTIES
    PublishCounted
