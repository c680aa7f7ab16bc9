SPECIFICATION FairLoggerSpec
CONSTANTS
    Loggers = {t1, t2, t3}
    MaxMessages = 4
    MaxIntervals = 2
    MaxFaults = 2
INVARIANTS TestedIsWritten ClosedForCause OncePerInterval
PROPERTY LogReturns
CHECK_DEADLOCK FALSE
