CONSTANTS
    j1 = j1
    j2 = j2
    w1 = w1
    w2 = w2
    R = R
    A = A
    B = B
    C = C
    D = D
    altR = altR
    NoTask = NoTask
    Job <- MCOneJob
    Task <- MCOneTask
    Owner <- MCOneOwner
    Root <- MCOneRoot
    Depth <- MCOneDepth
    Worker = {w1, w2}
    Page <- MCPage
    Href <- MCHref
    Norm <- MCNorm
    Web <- MCShortcutWeb
    Delayed = {}
    LinkSourceKnown = FALSE
    Ordered = TRUE
    Overlap = FALSE
    Faults = {}
    CrawlFaults = {}

CHECK_DEADLOCK FALSE
SPECIFICATION Spec
INVARIANTS
    CompleteCrawl
