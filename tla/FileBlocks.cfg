\* write, append, cp and unlink on two files, until two files share a block.
SPECIFICATION Spec
SYMMETRY MCSymmetry
CONSTANTS
    fileA = fileA
    fileB = fileB
    Files <- MCFiles
    Zero = Zero
    NDIRECT = 1
    PER = 2
    BLKSIZE = 2
    NBLOCKS = 7
    WriteSizes = {3}
    MaxSize = 12
INVARIANT TypeOK
INVARIANT CountersAgree
INVARIANT ReadBack
INVARIANT NothingLeaks
PROPERTY OnlyRewritesUnmark
\* The model stops when two files share a block.
CHECK_DEADLOCK FALSE
