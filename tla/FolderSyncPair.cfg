SPECIFICATION Spec
CONSTANTS
    d1 = d1
    NoEntry = NoEntry
    NoFile = NoFile
    NoPending = NoPending
    NoClaim = NoClaim
    Device = {d1, d2}
    Path = {p}
    Link <- AllLinks
    Writer = {d1}
    Deleter = {d1}
    EarlyEdits = TRUE
    Policy <- KeepBoth
    Mtime <- Exact
    ReceiveOnly = {}
    Existing = {d1}
    Slow = {}
    MaxContent = 4
    MaxConnects = 2
    Author = d1
    Upstream <- FromAuthor
INVARIANTS
    TypeOK
    VersionIdentifiesContent
PROPERTIES
    IndexNeverGoesBack
    
    ImplementsReplication
\* every user may have stopped and every message been handled
CHECK_DEADLOCK FALSE
