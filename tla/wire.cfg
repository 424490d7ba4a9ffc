SPECIFICATION FairSpec
CONSTANTS
    Names <- MCNames
    Bad <- MCBad
    Pieces <- MCPieces
    Reads <- MCReads
    Cut <- MCCut
    Unread <- MCUnread
    Encoded <- MCEncoded
    Raw <- MCRaw
    Root <- MCRoot
    Mounts <- MCMounts
    None = None
    Dirs <- MCDirs
    Files <- MCFiles
    Pages <- MCPages
    Restless <- MCRestless
    Sizes = {0, 1, 3}
    Chunk = 2
    Reserved = "live"
    Client = "client"
    Index = "index"
    Configs <- MCConfigs
    Asked <- MCAsked
    ClientFrames <- MCClientFrames
    MaxSent = 2
    MaxFrame = 65536
INVARIANTS
    TypeOK
    TargetIsUnderstood
    LinksLead
    BodyIsRight
    PingsAnswered
PROPERTIES
    TabIsNoticed
CHECK_DEADLOCK FALSE
