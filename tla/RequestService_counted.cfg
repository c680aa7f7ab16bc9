SPECIFICATION ServiceSpec
CONSTANTS
    Threads = {t1}
    Masters = 1
    Replicas = 1
    PoolSize = 1
    Endpoints = {"login", "register", "get"}
    MaxRequests = 2
    Users = {1}
    Payloads = {"malformed", "invalid", "dbRejects", "valid"}
    MaxFailures = 1
INVARIANT EveryRequestCounted
CHECK_DEADLOCK FALSE
