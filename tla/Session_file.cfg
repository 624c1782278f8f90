CONSTANTS
    c1 = c1
    j1 = j1
    NoConn = NoConn
    NoJob = NoJob
    Conn = {c1}
    Job = {j1}
    Client <- MCOwn
    Logs = 2
    ChunkSize = 2
    ZipSize <- MCZipSize
    Frames = 5
    Buffer = 2
    Trouble = {"leaves", "drops", "pushFails", "buildFails"}
    WriteFails = FALSE

SPECIFICATION FairSession
CHECK_DEADLOCK FALSE
INVARIANTS
    SuccessIsWhole
PROPERTIES
    ExportSpec
    FileArrives
