CONSTANTS
    NoSubmission = NoSubmission
    Submission = {s1, s2}
    Capacity = 2
    Events = 4

CHECK_DEADLOCK FALSE
SPECIFICATION FairSpec
INVARIANTS
    TypeOK
PROPERTIES
    LoopsEnd
    EventsHandled
