SPECIFICATION PartsSpec
CONSTANTS
    None = None
    Never = Never
    Streams = {"pv"}
    Capacity = 1
    MaxEdits = 2
    MaxPokes = 1
    MaxFails = 1
    Id = {1, 2}
    Port = {1, 2, 3}
    Asks <- MCAsks
    Reserved = {}
    Requests = {request1, request2}
    Scripts = {script1}
    Ring = 1
    MaxMakes = 3
    MaxEnds = 1
    MgIds = {1, 2}
    EventRing = 1
    Announcements = 1
    Channel = 1
    MaxSites = 3
    MaxEvents = 1
    Comp = {comp1, comp2}
    Edited = {comp1}
    Files <- MCFiles
    Texts <- MCTexts
    Cap = 2
    MaxHandEdits = 1
    MaxSaves = 3
    Unset = Unset
    Mangled = Mangled
    Unmarked = Unmarked
    Broken = Broken
    Library = Library
    Enterprise = Enterprise
    Open = Open
    request1 = request1
    request2 = request2
    script1 = script1
    file1 = file1
    comp1 = comp1
    comp2 = comp2
SYMMETRY Symmetry
INVARIANTS
    ListsMeanSets
    LoopbackMirrors
    PortsAreTrue
    AnnouncedAreReal
    BrowserHears
PROPERTIES
    StatusIsOfItsServer
    NothingOfAFileIsLost
CHECK_DEADLOCK FALSE
