SPECIFICATION Spec
CONSTANTS
    v1 = v1
    v2 = v2
    v3 = v3
    Installed = Installed
    Update = {v1, v2, v3}
    Bad = {v1}
    Faults <- BeforeTidying
    Meddling = FALSE
    MaxFaults = 2
    MaxCrashes = 2
    MaxStarts = 2
INVARIANTS
    PackageKept
PROPERTIES
    ReportsTruth
    ComesBack
\* the updates may all have been made
CHECK_DEADLOCK FALSE
