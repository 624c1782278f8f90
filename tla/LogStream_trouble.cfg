CONSTANTS
    c1 = c1
    j1 = j1
    j2 = j2
    NoConn = NoConn
    NoJob = NoJob
    Conn = {c1}
    Job = {j1, j2}
    Client <- MCBoth
    Logs = 2
    Frames = 1
    Buffer = 1
    Trouble = {"leaves", "slow", "drops", "pushFails", "buildFails"}

SPECIFICATION FairSpec
CHECK_DEADLOCK FALSE
INVARIANTS
    TypeOK
    OneEntry
    Unsubscribed
PROPERTIES
    DeliverySpec
    GoroutinesEnd
