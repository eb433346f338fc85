SPECIFICATION Spec
CONSTANTS
    RootDisk = "root"
    Images = {"one", "two", "three", "noext2"}
    NoDisk = "none"
    Ext2 = {"root", "one", "two", "three"}
    Tree <- MCTreeApart
    Paths <- MCPaths
    NMINODE = 4
    NMTABLE = 3
    NHOST = 4
INVARIANTS
    MountsAgree
    RefsBalanced
    UpLeadsToRoot
    InodesOfTheirDisk
