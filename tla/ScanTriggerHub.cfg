SPECIFICATION Spec
CONSTANTS
    f1 = f1
    f2 = f2
    f3 = f3
    Folder = {f1, f2, f3}
    Watchable = {f1, f2}
    Flaky = {f1}
    All = All
    Supported = TRUE
    MaxEvents = 2
INVARIANTS
    TypeOK
    DirtyNotForgotten
    
PROPERTIES
    ChangesScanned
    CreationGivenUp
\* nothing is left to do once every change has been scanned
CHECK_DEADLOCK FALSE
