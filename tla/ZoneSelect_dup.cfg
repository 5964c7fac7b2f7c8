CONSTANTS
    OldZone = A
    NewZone = B
    ItemCount <- MCItemCount
    InPlace <- MCInPlace
    LinkCapacity = 2
    LinkDuplicates = TRUE
    Options <- OneOption
    MayArm = TRUE
SPECIFICATION Spec
INVARIANTS ClearedMeansEmpty VerifiedMeansStored
