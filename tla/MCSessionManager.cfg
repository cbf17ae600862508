SPECIFICATION FairSpec
CONSTANTS
    Turns = {t1, t2, t3}
    Resumes = {r1, r2}
    Modes = {yolo, ask}
    DefaultMode = yolo
    NoTurn = NoTurn
    NoSession = NoSession
    NotStored = NotStored
    Torn = Torn
INVARIANTS
    InterruptReaches
    TurnsKept
PROPERTIES
    RunningEnds
CHECK_DEADLOCK FALSE
