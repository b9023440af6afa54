CONSTANTS
    PageSize = 4
    ProgSize = 2
    BankSize = 12
    MaxBlock = 4
    Versions = {v1}
    v1 = v1
    Erased = Erased
    Junk = Junk
    NoVersion = NoVersion
SPECIFICATION Spec
INVARIANTS TypeOK BufferNeverOverruns NoByteLost RoundedOffsetIsFlashed FinishedIsComplete IInv
PROPERTY FlashedBytesAreKept
