CONSTANTS
    Procs = {p, q}
    Exclusive = FALSE
    Inodes = {i1, i2, i3, i4}
    NoInode = NoInode
    MaxUpdates = 2
SPECIFICATION Spec
INVARIANTS
    FileAlwaysLoads
