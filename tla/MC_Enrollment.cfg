\* Two drivers on one device with one Person ID of its own, two requests at a
\* time, three in all; deadlock is the end of the bounded number of requests.
SPECIFICATION Spec
CONSTANTS
    d1 = d1  d2 = d2  v1 = v1  n1 = n1  p1 = p1  p2 = p2  r1 = r1  r2 = r2
    Drivers = {d1, d2}
    Devices = {v1}
    Phones = {p1, p2}
    Requests = {r1, r2}
    Numbers = {n1}
    Direct = {v1}
    Window = 1
    Grace = 1
    Operations <- AllOperations
    MaxTime = 1
    MaxCalls = 3
    MaxPhoto = 2
    NoFace = NoFace  NoRow = NoRow  Nothing = Nothing  Freed = Freed
SYMMETRY Symmetry
CHECK_DEADLOCK FALSE
INVARIANTS OnePairing LinkedOnce GoneIsGone SyncedIsCurrent
PROPERTIES BlockHolds
CONSTRAINT OnlyRelated
ACTION_CONSTRAINT UsedForReset
