\* RootIsRoot
SPECIFICATION Spec
CONSTANTS
    rootInode = rootInode
    inodeA = inodeA
    inodeB = inodeB
    old = old
    new = new
    parentMInode = parentMInode
    childMInode = childMInode
    NoKey = NoKey
    NULL = NULL
    Keys <- MCKeys
    RootKey <- rootInode
    Values <- MCValues
    Locals <- MCLocals
    NMINODE = 2
    NPROC = 2
    MaxRef = 2
    MaxLapses = 0
INVARIANT RootIsRoot
