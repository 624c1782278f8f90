CONSTANTS
    j1 = j1
    j2 = j2
    w1 = w1
    w2 = w2
    R = R
    A = A
    B = B
    C = C
    D = D
    altR = altR
    NoTask = NoTask
    Job <- MCTwoJobs
    Task <- MCPairTask
    Owner <- MCPairOwner
    Root <- MCSpeltRoot
    Depth <- MCTwoDepth
    Worker = {w1, w2}
    Page <- MCPage
    Href <- MCHref
    Norm <- MCNorm
    Web <- MCDiamondWeb
    Delayed = {C}
    LinkSourceKnown = FALSE
    Ordered = FALSE
    Overlap = FALSE
    Faults = {}
    CrawlFaults = {"lookupFails"}

SPECIFICATION FairSpec
CHECK_DEADLOCK FALSE
INVARIANTS
    LoggedAtHop
    LockMeansScraping
PROPERTY
    CrawlEnds
