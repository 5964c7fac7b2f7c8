CONSTANTS
    OldZone = A
    NewZone = B
    ItemCount <- MCItemCount
    InPlace <- MCInPlace
    LinkCapacity = 3
    LinkDuplicates = FALSE
    Options <- MCOptions
    MayArm = FALSE
SPECIFICATION FairSpec
INVARIANTS TypeOK SelectedMeansStored MismatchOnlyAfterFailedClear
PROPERTIES SelectTerminates ImplementsTransaction
