SPECIFICATION FairSpec
CONSTANTS
    d1 = d1
    s1 = s1
    s2 = s2
    Docs = {d1}
    Servers = {s1}
    Home <- MCOneHome
    MaxStamps = 3
    MaxToggles = 0
    MaxEdits = 2
    MaxInFlight = 2
    Nothing = Nothing
    Garbled = Garbled
INVARIANT HeldIsABuffer
CHECK_DEADLOCK FALSE
