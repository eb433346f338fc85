\* Every sequence of entering and removing five names, up to the first damage.
SPECIFICATION Spec
CONSTANTS
    dot = dot
    dotdot = dotdot
    hidden = hidden
    a = a
    ab = ab
    longer = longer
    longest = longest
    Dot <- dot
    DotDot <- dotdot
    Filler = Filler
    Names <- MCNames
    NameLen <- MCNameLen
    Prefix <- MCPrefix
    BLKSIZE = 16
    MaxBlocks = 2
INVARIANT TypeOK
INVARIANT FirstBlockUnique
PROPERTY EnterPreserves
PROPERTY ExactIffSafe
\* The model stops at a directory that a removal has damaged.
CHECK_DEADLOCK FALSE
