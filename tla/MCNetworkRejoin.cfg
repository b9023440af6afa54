CONSTANTS
    InitialDelay = 1
    Multiplier = 2
    MaxDelay = 5
    MaxQueued = 2
    MaxAlarms = 3
    MaxSignals = 2
    Users = {"nobody", "button", "leaver"}
SPECIFICATION FairSpec
INVARIANTS TypeOK NeverForgottenAlone OneAtATime OutagesAlike
PROPERTIES StopMeansStop EveryKindTried
