CONSTANTS
    j1 = j1
    j2 = j2
    a1 = a1
    a2 = a2
    a3 = a3
    a4 = a4
    b1 = b1
    b2 = b2
    w1 = w1
    w2 = w2
    NoTask = NoTask
    Job <- MCOneJob
    Task <- MCOneTask
    Owner <- MCOneOwner
    Worker <- MCWorker
    Faults <- SafeFaults

SPECIFICATION Spec
CHECK_DEADLOCK FALSE
INVARIANTS
    TypeOK
    CompletedMeansDone
    CompletedOnce
    CounterCoversLive
PROPERTIES
    CompletionSpec
