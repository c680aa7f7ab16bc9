SPECIFICATION LoggerSpec
CONSTANTS
    Loggers = {t1, t2}
    MaxMessages = 3
    MaxIntervals = 1
    MaxFaults = 0
INVARIANT OutputReachesFile
CHECK_DEADLOCK FALSE
