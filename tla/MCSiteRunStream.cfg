SPECIFICATION Spec
CONSTANTS
    Nil = Nil
    one = one
    two = two
    tele = tele
    Client <- MCClient
    Stream <- MCStream
    MaxRuns = 2
    MaxCancels = 1
INVARIANT NoStreamOfAnEarlierRun
