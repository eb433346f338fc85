\* Two clients, every lapse.
SPECIFICATION Spec
CONSTANTS
    first = first
    second = second
    NoInode = NoInode
    Clients <- MCClients
    Commands <- MCCommands
    Fragile <- MCFirst
    LINEMAX = 2
    HEADER = 1
    Size <- MCSize
    MaxSize = 4
    MaxLines = 1
    Capacity = 10
INVARIANT TypeOK
INVARIANT InStep
INVARIANT DataInPlace
PROPERTY CommandsEnd
PROPERTY ChildrenEnd
\* A system whose clients are gone stops.
CHECK_DEADLOCK FALSE
