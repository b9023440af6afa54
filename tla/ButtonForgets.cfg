CONSTANTS
    InitialDelay = 1
    Multiplier = 2
    MaxDelay = 5
    MaxQueued = 2
    MaxAlarms = 3
    MaxSignals = 2
    Users = {"button"}
SPECIFICATION OutagesSpec
INVARIANT NeverForgotten
