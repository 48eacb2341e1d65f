\* Every legacy field of up to 2 entries and every TRES field of up to 3 pairs.
CONSTANTS
    MaxItems = 2
    MaxPairs = 3
SPECIFICATION Spec
INVARIANTS
    LegacyCountsGpus
    TresIgnoresOtherKeys
