SPECIFICATION FileSpec
CONSTANTS
    Unset = Unset
    Mangled = Mangled
    Unmarked = Unmarked
    Broken = Broken
    Library = Library
    Enterprise = Enterprise
    a = a
    b = b
    f = f
    Comp = {a, b}
    Edited = {a}
    Files <- MCFiles
    Texts <- MCTexts
    Cap = 2
    MaxHandEdits = 2
    MaxSaves = 1
PROPERTIES SkippedIsLive
CHECK_DEADLOCK FALSE
