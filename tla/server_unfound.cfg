SPECIFICATION Spec
CONSTANTS
    old = old
    new = new
    other = other
    first = first
    second = second
    here = here
    there = there
    Servers = {old, new}
    Clients = {first}
    Workspaces = {here, there}
    Home <- MCHome
    Target <- MCTarget
    Dirs = {"runtime", "temp"}
    Writes <- MCWrites
    Reads <- MCReads
    Ports = {1, 2}
    Asks <- MCAsks
    Capacity = 1
    Shared = FALSE
    MaxEdits = 0
    None = None
INVARIANT ServerIsFound
CHECK_DEADLOCK FALSE
