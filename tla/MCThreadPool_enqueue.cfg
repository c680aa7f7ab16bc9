SPECIFICATION Spec
CONSTANTS
    Workers = {w1, w2}
    Capacity = 1
    MaxTasks = 3
    Callbacks = {FALSE}
INVARIANT EnqueueTellsTheTruth
