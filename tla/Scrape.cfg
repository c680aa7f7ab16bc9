SPECIFICATION FairScrapeSpec
CONSTANTS
    Threads = {t1, t2}
    Masters = 1
    Replicas = 2
    PoolSize = 1
    Endpoints = {"login", "register", "search", "livez", "unrouted", "other"}
    MaxRequests = 2
    Users = {1}
    Payloads = {"malformed", "invalid", "dbRejects", "valid"}
    MaxFailures = 1
    Observed = {"login"}
INVARIANTS ServiceTypeOK RoutedByRole SampleFits FailedFitsAnswers HeldOnlyInTry AckedIsCommitted ReadsWithoutMaster HostsEven
PROPERTY Answered
CHECK_DEADLOCK FALSE
