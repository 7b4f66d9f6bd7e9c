SPECIFICATION Spec
CONSTANTS
    d1 = d1
    NoEntry = NoEntry
    NoFile = NoFile
    NoPending = NoPending
    NoClaim = NoClaim
    Device = {d1, d2}
    Path = {p, q}
    Link <- AllLinks
    Writer = {d1, d2}
    Deleter = {}
    EarlyEdits = TRUE
    Policy <- MixedPolicies
    Mtime <- Coarse
    ReceiveOnly = {}
    Existing = {}
    Slow = {}
    MaxContent = 4
    MaxConnects = 1
PROPERTIES
    SyncNeverDestroys
    IndexStaysHonest
    EventuallyQuiet
\* every user may have stopped and every message been handled
CHECK_DEADLOCK FALSE
