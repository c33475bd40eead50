SPECIFICATION LiveSpec
CONSTANTS
    None = None
    Unstamped = Unstamped
    inv = inv
    pv = pv
    MinPower <- MinusOne
    MaxPower <- Three
    Value <- FivePowers
    Delay = 1
    Back = 0
    Id = {inv}
    Key <- OneAxis
    Reactive = {}
    Keeps <- OneAxis
    Follows = {}
    IdleValue <- Holding
    Initial <- Charging
    Rate = 2
    Base <- Five
    Physical <- RoomOrNone
    Share <- RoomOrOne
    Narrowing = {}
    Children <- NoChildren
    Life <- AtOnceOrOneTick
    MaxLife = 1
    MaxAugs = 0
PROPERTIES
    HeldInside
    AbandonedAxisIdles
    OutputSettles
CHECK_DEADLOCK FALSE
