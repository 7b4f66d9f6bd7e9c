SPECIFICATION Spec
CONSTANTS
    d1 = d1
    NoEntry = NoEntry
    NoFile = NoFile
    NoPending = NoPending
    NoClaim = NoClaim
    Device = {d1, d2}
    Path = {p}
    Link <- AllLinks
    Writer = {d2}
    Deleter = {}
    EarlyEdits = FALSE
    Policy <- KeepBoth
    Mtime <- Exact
    ReceiveOnly = {d2}
    Existing = {d1}
    Slow = {}
    MaxContent = 4
    MaxConnects = 2
PROPERTIES
    MirrorNeverPushes
\* every user may have stopped and every message been handled
CHECK_DEADLOCK FALSE
