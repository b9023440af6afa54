CONSTANTS
    PageSize = 2
    ProgSize = 1
    BankSize = 4
    MaxData = 2
    v1 = v1
    v2 = v2
    Versions = {v1, v2}
    FileSize = 3
    Tagged = TRUE
    MaxRetries = 2
    Erased = Erased
    Junk = Junk
    NoVersion = NoVersion
    Factory = Factory
    NoHeader = NoHeader
    NoBlock = NoBlock
    MaxFlight = 2
    MaxAcks = 1
    MaxResets = 2
    Environments = {{"aborts", "notify", "versions"}, {"dups", "waits", "small"}}
SPECIFICATION Spec
INVARIANTS TypeOK ReadyMeansGood NeverBroken ClientNeverSilent DownloadedIsFlashed
PROPERTY StoresTheFile
SYMMETRY VersionSymmetry
