SPECIFICATION StartSpec
CONSTANTS
    Environments <- AllEnvironments
    CommandLines <- AllCommandLines
INVARIANTS WholeClusterOrNothing CredentialsIfResolved OneConnectionPerWorker
