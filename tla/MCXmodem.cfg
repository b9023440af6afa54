CONSTANTS
    NBlocks = 5
    PacketLen = 3
    NumMod = 3
    IndexMod = 5
    MaxRetries = 3
    Prompt = FALSE
    GivesUp = TRUE
    MaxFaults = 2
    MaxReplies = 2
    Behind = {"else", "buf_index"}
    NoHeader = NoHeader
SPECIFICATION Spec
INVARIANTS TypeOK BlocksInPlace  HeaderAfterLastBlock
CHECK_DEADLOCK FALSE
