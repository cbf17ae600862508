SPECIFICATION Spec
CONSTANTS
    Appenders = {a1, a2, a3}
    Absent = Absent
    Empty = Empty
    Newline = Newline
INVARIANTS
    LedgerSound
    HeadNotAhead
CHECK_DEADLOCK FALSE
