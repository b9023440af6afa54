CONSTANTS
    NBlocks = 2
    PacketLen = 3
    NumMod = 256
    IndexMod = 5
    MaxRetries = 3
    Prompt = TRUE
    GivesUp = FALSE
    MaxFaults = 1
    MaxReplies = 2
    Behind = {"else"}
    NoHeader = NoHeader
SPECIFICATION FairSpec
PROPERTY FileArrives
CHECK_DEADLOCK FALSE
