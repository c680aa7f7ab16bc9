SPECIFICATION FairSpec
CONSTANTS
    Workers = {w1, w2, w3}
    Capacity = 2
    MaxTasks = 4
    Callbacks = {TRUE, FALSE}
INVARIANTS TypeOK Accounting FirstInFirstOut NoTaskForgotten DrainedBeforeStop
PROPERTIES ImplementsTaskService LostOnlyInTheGap ShutdownEnds
