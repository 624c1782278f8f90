CONSTANTS
    j1 = j1
    j2 = j2
    w1 = w1
    w2 = w2
    R = R
    A = A
    B = B
    C = C
    D = D
    altR = altR
    NoTask = NoTask
    Job <- MCTwoJobs
    Task <- MCMetTask
    Owner <- MCMetOwner
    Root <- MCMetRoot
    Depth <- MCMetDepth
    Worker = {w1}
    Page <- MCPage
    Href <- MCHref
    Norm <- MCNorm
    Web <- MCSmallWeb
    Delayed = {}
    LinkSourceKnown = FALSE
    Ordered = TRUE
    Overlap = FALSE
    Faults = {"noSubscriber", "pushFails", "badJob", "sendFails", "decFails", "crash", "lateCrash"}
    CrawlFaults = {"fetchFails", "insertFails", "lookupFails", "raises"}

SPECIFICATION Spec
CHECK_DEADLOCK FALSE
INVARIANTS
    TypeOK
    SubJobAtHop
PROPERTIES
    CountSpec
