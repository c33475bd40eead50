SPECIFICATION PartsSpec
CONSTANTS
    None = None
    Unstamped = Unstamped
    inv = inv
    pv = pv
    MinPower <- MCMinPower
    MaxPower <- MCMaxPower
    Value <- MCPower
    Delay = 0
    Back = 0
    Id = {inv}
    Key <- OneAxis
    Reactive = {}
    Keeps <- OneAxis
    Follows <- OneAxis
    IdleValue <- AllZero
    Initial <- AllZero
    Rate = 4
    Base <- Full
    Physical <- Bands
    Share <- Sides
    Narrowing <- TwoBands
    Children <- SomeChildren
    Life <- ShortAndLong
    MaxLife = 2
    MaxAugs = 2
    Odd = Odd
    Absent = Absent
    Configs <- MCConfigs
    Usual <- MCUsual
    Spans = {1, 2}
    Demands = {0, 3, Odd}
    Pressures = {4, Odd}
    Commands = {1, 6}
    Astray = Astray
    Hz = {1, 2, 3}
    Nominal = 3
    Gentle = Gentle
    Harsh = Harsh
    Stepping = TRUE
    Calls <- MCCalls
    Mgs = {1, 2}
    AtFirst = {{2}}
    Definitions <- MCDefinitions
    Clocks = {1, 2}
    Untils <- MCUntils
    MgArgs <- MCMgArgs
    Grace = 1
    MaxTime = 3
    MaxMoves = 2
INVARIANTS
    CommandHasLifetime
    NeverBoxedIn
    TopologyAddsUp
    RunsAreWhole
    PastIsKept
PROPERTIES
    ShareOnlyNarrows
    FilesActAtHome
    BoilerIsSound
    FrequencyIsSound
CHECK_DEADLOCK FALSE
