SPECIFICATION Spec
CONSTANTS
    Names = {"a", "b"}
    Hidden = {}
    Paths <- MCPaths
    NINODES = 4
    NPROC = 2
    Groups = {1}
    MaxDrift = 1
    MaxLinks = 3
INVARIANTS
    CwdStays
