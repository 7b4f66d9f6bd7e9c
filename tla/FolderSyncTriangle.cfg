SPECIFICATION Spec
CONSTANTS
    d1 = d1
    NoEntry = NoEntry
    NoFile = NoFile
    NoPending = NoPending
    NoClaim = NoClaim
    Device = {d1, d2, d3}
    Path = {p}
    Link <- AllLinks
    Writer = {d1}
    Deleter = {}
    EarlyEdits = TRUE
    Policy <- KeepBoth
    Mtime <- Exact
    ReceiveOnly = {}
    Existing = {}
    Slow = {d3}
    MaxContent = 2
    MaxConnects = 3
INVARIANTS
    SingleFlight
PROPERTIES
    EventuallyQuiet
    ConvergesUnlessGivenUp
\* every user may have stopped and every message been handled
CHECK_DEADLOCK FALSE
