\* Three events of two persons; page, queue and batch of two; one crash; fair.
CONSTANTS
    p1 = p1
    p2 = p2
    Persons <- MCPersons
    Face <- MCFace
    Lookback = 1
    MaxResults = 2
    Debounce = 1
    MaxOutbox = 2
    BatchSize = 2
    MaxTime = 2
    MaxFaces = 3
    MaxCrashes = 1
SPECIFICATION StampFairSpec
INVARIANTS ReadOnce
PROPERTIES Custody Emptied
