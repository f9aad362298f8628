CONSTANTS
    Procs = {p, q}
    Exclusive = TRUE
    Inodes = {i1, i2, i3, i4}
    NoInode = NoInode
    MaxUpdates = 4
SPECIFICATION Spec
INVARIANTS
    TypeOK
    FileAlwaysLoads
    ReportedIsSaved
PROPERTIES
    FileOnlyGrows
