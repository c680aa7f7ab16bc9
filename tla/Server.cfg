SPECIFICATION FairSpec
CONSTANTS
    Threads = {t1, t2}
    Masters = 1
    Replicas = 0
    PoolSize = 2
    Endpoints = {"register"}
    MaxRequests = 2
    Users = {1}
    Payloads = {"malformed", "valid"}
    MaxFailures = 1
    Capacity = 1
    MaxConnections = 3
    KeepAliveMax = 2
INVARIANTS Conserved Exclusive NeverExhausted ServesWithinPool QuietAfterShutdown
PROPERTIES QueuedIsClosed ShutdownDrains
CHECK_DEADLOCK FALSE
