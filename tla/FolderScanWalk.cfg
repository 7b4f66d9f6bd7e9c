SPECIFICATION Spec
CONSTANTS
    p1 = p1
    p2 = p2
    top = top
    sub = sub
    Path = {p1, p2}
    Dir = {top, sub}
    DirOf <- TwoDirs
    NoFile = NoFile
    NoEntry = NoEntry
    NoStat = NoStat
    MaxClock = 3
INVARIANTS
    UnchangedMeansSame
PROPERTIES
    IndexedFilesStay
    IndexNeverGoesBack
    OnlyEditsCount
    ScanNeverDestroys
    CatchesUp
