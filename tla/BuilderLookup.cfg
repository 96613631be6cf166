SPECIFICATION Spec
CONSTANTS
    b1 = b1
    b2 = b2
    b3 = b3
    Null = Null
    Data = {"x"}
    Builders = {b1, b2, b3}
    Names = {"a", "header"}
    Fields <- SomeFields
    Apps = {"x"}
    EnvChildren <- ChildrenOfEnv
    ChildLists <- SomeChildLists
    Paths <- SomePaths
    MaxCalls = 3
INVARIANTS
    AddedIsFound
CHECK_DEADLOCK FALSE
