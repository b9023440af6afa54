CONSTANTS
    PageSize = 2
    Sector = 2
    Half = 4
    Full = 8
    Stride = 256
    FlashSize = 20
    AppStart = 2
    BankStart = 10
    BankSize = 8
    old = old
    new = new
    forged = forged
    Images = {old, new, forged}
    Length <- ImageLengths
    Factory = old
    Signed = {old, new}
    Erased = Erased
    Torn = Torn
    NoImage = NoImage
    NoHeader = NoHeader
    MaxResets = 3
SPECIFICATION FairSpec
INVARIANTS TypeOK NeverHangs
PROPERTIES InstallsAtomically InstallKeepsTheRest UpdateCompletes AlwaysComesUp
