SPECIFICATION Spec
CONSTANTS
    Left = Left
    Right = Right
    u1 = u1
    u2 = u2
    u3 = u3
    u4 = u4
    NoChannel = NoChannel
    Update = {u1, u2}
    Author <- AuthorOf
    Large <- Pairs
    FirstChunk = {u2}
    CalmTransfers = TRUE
    MaxConnects = 2
    MaxPauses = 1
INVARIANTS
    TypeOK
    NothingForgotten
PROPERTY
    Converges
\* the devices may have met, settled and been left paused
CHECK_DEADLOCK FALSE
