CONSTANTS
    PageSize = 2
    ProgSize = 1
    BankSize = 4
    MaxData = 2
    v1 = v1
    v2 = v2
    Versions = {v1, v2}
    FileSize = 3
    Tagged = FALSE
    MaxRetries = 2
    Erased = Erased
    Junk = Junk
    NoVersion = NoVersion
    Factory = Factory
    NoHeader = NoHeader
    NoBlock = NoBlock
    MaxFlight = 1
    MaxAcks = 1
    MaxResets = 0
    Environments = {{"versions"}}
SPECIFICATION Spec
INVARIANT ReadyMeansGood
