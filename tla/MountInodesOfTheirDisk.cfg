SPECIFICATION Spec
CONSTANTS
    RootDisk = "root"
    Images = {"one", "two", "noext2"}
    NoDisk = "none"
    Ext2 = {"root", "one", "two"}
    Tree <- MCTreeAlike
    Paths <- MCPaths
    NMINODE = 5
    NMTABLE = 2
    NHOST = 4
INVARIANTS
    InodesOfTheirDisk
