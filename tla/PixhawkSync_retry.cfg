CONSTANTS
    Profile = {p1, p2, p3}
    ReadOnly = {p3}
    MaxRetries = 2
    MaxLosses = 2
    MaxBoots = 1
SPECIFICATION SyncSpec
INVARIANTS SyncTypeOK AppliedWasStored OkMeansSeenAreNew ExitedMeansDeployed
PROPERTIES SyncSettles
