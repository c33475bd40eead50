SPECIFICATION PartsSpec
CONSTANTS
    None = None
    Nothing = Nothing
    Values <- MCNumbers
    Top = 1
    Hour = 1
    Lengths = {2}
    Patches <- MCPatches
    MaxTime = 4
    MaxTurns = 3
    Lisp = Lisp
    Empty = Empty
    Ids = {1}
    DriveRequests = {}
    KnobValues = {0}
    AsBuilt = 0
    Rings = TRUE
    MaxTicks = 3
    MaxBuilds = 3
    MaxLisp = 0
    ui = ui
    drive1 = drive1
    Client <- MCClient
    Requests <- MCRequests
INVARIANTS
    ErroredIsShut
    NoGhosts
    WholeOrDisturbed
    TablesAreSound
    SavesRoundTrip
    JournalIsTold
PROPERTIES
    OnlyStaleReadsGrant
    ClientsAreTold
    SitesComeBack
    WeatherIsSound
CHECK_DEADLOCK FALSE
