CONSTANTS
    Default = default
    ZoneDbs = {z1, z2}
    MaxFaults = 2
SPECIFICATION Spec
INVARIANTS UnusableIsMoved
