CONSTANTS
    Steps <- BRINGUP_STEPS
    Options <- AllOptions
    FaultySteps <- Fallible
    MaxFaults = 2
    Brings <- AllAtOnce
    MayDecline = TRUE
    MayReflash = TRUE
SPECIFICATION Spec
INVARIANTS CompleteIsSatisfied CleanRunCompletes
