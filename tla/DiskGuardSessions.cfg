SPECIFICATION GuardedSpec
CONSTANTS
    None = None
    u1 = u1
    u2 = u2
    Update = {u1, u2}
    Removal = {u2}
    MaxSessions = 3
    MaxPauses = 1
    MaxEdits = 1
    MaxFills = 1
INVARIANTS
    GuardTypeOK
    SessionsConsistent
PROPERTIES
    Reconnects
    EditsArrive
    HeldBackArrives
\* the last session may stay up with nothing left to do
CHECK_DEADLOCK FALSE
