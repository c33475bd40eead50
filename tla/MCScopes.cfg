SPECIFICATION Spec
CONSTANTS
    None = None
    Id = {1, 2, 3, 4, 5, 6}
    First = 10
    Sources <- MCSources
    Versions <- MCVersions
    Typed <- MCTyped
    CopyIds = {3}
    MaxSteps = 4
PROPERTIES TimersStayHome
CHECK_DEADLOCK FALSE
