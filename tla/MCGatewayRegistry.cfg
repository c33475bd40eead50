SPECIFICATION Spec
CONSTANTS
    None = None
    Unstamped = Unstamped
    inv = inv
    pv = pv
    MinPower <- Zero
    MaxPower <- One
    Value <- ZeroOne
    Delay = 0
    Back = 0
    Id = {inv, pv}
    Key <- ThreeAxes
    Reactive <- OnlyReactive
    Keeps <- OnlyPv
    Follows = {}
    IdleValue <- AllZero
    Initial <- AllZero
    Rate = 4
    Base <- JustOne
    Physical <- JustOne
    Share <- JustOne
    Narrowing <- JustZero
    Children <- NoChildren
    Life <- OneTick
    MaxLife = 1
    MaxAugs = 1
INVARIANTS
    FoundWithItsAxes
    NothingLeftBehind
PROPERTIES
    OnlyOwnCauseEndsCommand
CHECK_DEADLOCK FALSE
