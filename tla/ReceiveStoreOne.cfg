SPECIFICATION Spec
CONSTANTS
    n1 = n1
    n2 = n2
    n3 = n3
    n4 = n4
    Slot = {1, 2, 3}
    Value = {1, 2, 3}
    Hole = 0
    Entries <- ThreeContents
    Connection = {h1}
    Inode = {n1, n2}
    NoFile = NoFile
    NoManifest = NoManifest
    NoHandle = NoHandle
    NoLanding = NoLanding
    Tombstone = Tombstone
    CommitSlots = 2
    MaxAnnounced = 2
    MaxFaults = 2
INVARIANTS
    TypeOK
    LandedIsWhole
    BitmapTruth
PROPERTIES
    VersionKept
    CatchesUp
\* the last content announced is landed and nothing happens any more
CHECK_DEADLOCK FALSE
