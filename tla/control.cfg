SPECIFICATION FairSpec
CONSTANTS
    old = old
    new = new
    other = other
    first = first
    second = second
    here = here
    there = there
    Servers = {old, other}
    Clients = {first, second}
    Workspaces = {here, there}
    Home <- MCHome
    Target <- MCTarget
    Dirs = {"runtime", "temp"}
    Writes <- MCWrites
    Reads <- MCReads
    Ports = {1, 2}
    Asks <- MCAsks
    Capacity = 1
    Shared = TRUE
    MaxEdits = 1
    None = None
INVARIANTS
    TypeOK
    RightServer
    RefusalIsRight
PROPERTIES
    ClientEnds
    CommandsTakeTurns
CHECK_DEADLOCK FALSE
