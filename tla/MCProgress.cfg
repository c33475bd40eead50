SPECIFICATION PartsSpec
CONSTANTS
    None = None
    Unstamped = Unstamped
    inv1 = inv1
    inv2 = inv2
    bat1 = bat1
    bat2 = bat2
    Gone = Gone
    Nothing = Nothing
    DataLoss = DataLoss
    stream1 = stream1
    Microgrids = {"here", "there"}
    Registered = {"here", "there"}
    Watched <- MCWatched
    Streams = {stream1}
    NewData <- MCNewData
    Updates <- MCUpdates
    Ring = 2
    Channel = 1
    MaxId = 2
    MaxChanges = 3
    Delay = 4
    Back = 1
    MinPower <- MCMinPower
    MaxPower = 4
    Value <- MCValue
    Nil = Nil
    one = one
    two = two
    tele = tele
    Client <- MCClient
    Stream <- MCStream
    MaxRuns = 2
    MaxCancels = 1
INVARIANTS
    CommandsOfThisRun
    StrayOnlyFromMidReset
    ViewConverges
    NoLostUpdate
PROPERTIES
    OutrunStreamsEnd
    LinesDeliver
    PushesFitAndSettle
    ClientsAreServed
CHECK_DEADLOCK FALSE
