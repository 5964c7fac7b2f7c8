CONSTANTS
    OldZone = A
    NewZone = B
    ItemCount <- MCItemCount
    InPlace <- MCInPlace
    LinkCapacity = 2
    LinkDuplicates = TRUE
    Options <- OneOption
    MayArm = FALSE
SPECIFICATION Spec
INVARIANTS SelectedMeansStored
