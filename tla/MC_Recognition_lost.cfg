\* A report fails and is posted again.
CONSTANTS
    r1 = r1
    r2 = r2
    d1 = d1
    d2 = d2
    v1 = v1
    v2 = v2
    g1 = g1
    g2 = g2
    g3 = g3
    id7 = id7
    id8 = id8
    Nobody = nobody
    NoId = noId
    NoRequest = none
    NameOf <- NamedByIds
    Requests = {r1, r2}
    Drivers = {d1}
    Devices = {v1}
    PersonIds = {id7, d1}
    Glances = {g1}
    Gate <- OneGate
    Face <- OneFace
    Reported <- OwnIds
    InitialStatus <- AllActive
    InitialFaceId <- NoLinks
    Burst = 1
    Cooldown = 0
    Window = 0
    Grace = 0
    Life = 1
    Operations = {}
    MaxTime = 3
    MaxFaults = 1
    MaxWebhooks = 1
SPECIFICATION Spec
INVARIANTS NoneLost
\* The clock and the reports are bounded: at the bounds nothing is left to do.
CHECK_DEADLOCK FALSE
