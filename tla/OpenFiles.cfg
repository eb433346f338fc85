SPECIFICATION Spec
CONSTANTS
    Files <- MCFiles
    Absent <- MCAbsent
    NFD = 2
    NPROC = 2
    Groups = {0, 1}
    MaxSize = 1
    MaxOpen = 2
    MaxRef = 2
INVARIANTS
    TypeOK
    RefCounts
    ModesAgree
    MinodesHeld
    OffsetsWithin
