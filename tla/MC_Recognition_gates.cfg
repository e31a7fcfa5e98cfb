\* A driver at two terminals; another one has his Person ID at the second.
CONSTANTS
    r1 = r1
    r2 = r2
    d1 = d1
    d2 = d2
    v1 = v1
    v2 = v2
    g1 = g1
    g2 = g2
    g3 = g3
    id7 = id7
    id8 = id8
    Nobody = nobody
    NoId = noId
    NoRequest = none
    NameOf <- NamedByIds
    Requests = {r1, r2}
    Drivers = {d1, d2}
    Devices = {v1, v2}
    PersonIds = {id7, id8, d1, d2}
    Glances = {g1, g3}
    Gate <- GateOf
    Face <- FaceOf
    Reported <- LocalIds
    InitialStatus <- AllActive
    InitialFaceId <- BothLinked
    Burst = 1
    Cooldown = 0
    Window = 0
    Grace = 0
    Life = 1
    Operations = {"traffic", "queue"}
    MaxTime = 2
    MaxFaults = 1
    MaxWebhooks = 1
CONSTRAINT OneDisturbance
SPECIFICATION Spec
SYMMETRY SymmetricRequests
INVARIANTS MinGap StampedOncePerKey RightDriver
\* The clock and the reports are bounded: at the bounds nothing is left to do.
CHECK_DEADLOCK FALSE
