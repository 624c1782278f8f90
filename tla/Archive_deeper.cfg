CONSTANTS
    j1 = j1
    j2 = j2
    j3 = j3
    j4 = j4
    w1 = w1
    w2 = w2
    R = R
    A = A
    B = B
    C = C
    D = D
    altR = altR
    NoTask = NoTask
    Job <- MCTwoJobs
    Task <- MCTwoTask
    Owner <- MCTwoOwner
    Root <- MCTwoRoot
    Depth <- MCTwoDepth
    Worker = {w1}
    Page <- MCPage
    Href <- MCHref
    Norm <- MCNorm
    Web <- MCPlainWeb
    Delayed = {}
    LinkSourceKnown = FALSE
    Ordered = FALSE
    Overlap = FALSE
    Faults = {}
    CrawlFaults = {}

SPECIFICATION ArchiveSpec
CHECK_DEADLOCK FALSE
INVARIANTS
    ArchiveWhole
