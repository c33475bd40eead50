SPECIFICATION Spec
CONSTANTS
    MaxArgs = 1
    MaxEdits = 0
INVARIANT InvertersRebuild
CHECK_DEADLOCK FALSE
