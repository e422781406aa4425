CONSTANTS
    r1 = r1  r2 = r2  r3 = r3  n1 = n1  n2 = n2  n3 = n3  m1 = m1  m2 = m2
    Requests = {r1, r2, r3}
    Names = {n1, n2}
    Models = {m1}
    ModelOf <- Routing
    Settings <- EverySetting
    ServerBurst = 2
    ModelBurst = 1
    ModelMax = 1
    MaxArrivals = 4
    MaxRefills = 2
SPECIFICATION FairSpec
INVARIANTS PermitsConserved HardGate RateBound
PROPERTIES Drains
CHECK_DEADLOCK FALSE
