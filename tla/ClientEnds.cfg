CONSTANTS
    PageSize = 1
    ProgSize = 1
    BankSize = 2
    MaxData = 1
    v1 = v1
    v2 = v2
    Versions = {v1}
    FileSize = 2
    Tagged = TRUE
    MaxRetries = 3
    Erased = Erased
    Junk = Junk
    NoVersion = NoVersion
    Factory = Factory
    NoHeader = NoHeader
    NoBlock = NoBlock
    MaxFlight = 2
    MaxAcks = 1
    MaxResets = 0
    Environments = {{"late_end"}}
SPECIFICATION FairSpec
PROPERTY DownloadEnds
