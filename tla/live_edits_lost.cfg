SPECIFICATION FairSpec
CONSTANTS
    d1 = d1
    s1 = s1
    s2 = s2
    Docs = {d1}
    Servers = {s1, s2}
    Home <- MCOneHome
    MaxStamps = 2
    MaxToggles = 0
    MaxEdits = 1
    MaxInFlight = 2
    Nothing = Nothing
    Garbled = Garbled
INVARIANT BufferIsServed
CHECK_DEADLOCK FALSE
