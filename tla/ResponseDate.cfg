SPECIFICATION DateSpec
CONSTANTS
    Threads = {w1, w2, w3}
    Zones = {0, 3}
    MaxTime = 3
    MaxDates = 3
INVARIANT WrongOnlyByOthers
CHECK_DEADLOCK FALSE
