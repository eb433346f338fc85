\* Every action, the irregular callers included.  Their steps are counted in lapses.
SPECIFICATION Spec
CONSTANTS
    rootInode = rootInode
    inodeA = inodeA
    inodeB = inodeB
    old = old
    new = new
    parentMInode = parentMInode
    childMInode = childMInode
    NoKey = NoKey
    NULL = NULL
    Keys <- MCKeys
    RootKey <- rootInode
    Values <- MCValues
    Locals <- MCLocals
    NMINODE = 2
    NPROC = 3
    MaxRef = 2
    MaxLapses = 2
INVARIANT UniqueSlots
INVARIANT RefCountsCoverPointers
