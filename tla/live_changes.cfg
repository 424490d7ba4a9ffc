SPECIFICATION FairSpec
CONSTANTS
    d1 = d1
    s1 = s1
    s2 = s2
    Docs = {d1}
    Servers = {s1}
    Home <- MCOneHome
    MaxStamps = 3
    MaxToggles = 2
    MaxEdits = 2
    MaxInFlight = 2
    Nothing = Nothing
    Garbled = Garbled
INVARIANTS
    TypeOK
    HeldFollowsBuffer
    DiskIsNotMasked
    LostNotWrong
PROPERTIES
    ReloadsInOrder
    PauseReloads
CHECK_DEADLOCK FALSE
