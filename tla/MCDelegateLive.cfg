SPECIFICATION FairSpec
CONSTANTS
    Steers = {s1, s2}
    Start = Start
    Closer = Closer
    Nobody = Nobody
INVARIANTS
    TapeComplete
    ChildOwned
    ResumeIdKept
PROPERTIES
    CloseEndsJob
CHECK_DEADLOCK FALSE
