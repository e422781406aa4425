CONSTANTS
    gateway = gateway  cli = cli  cli2 = cli2
    g1 = g1  g2 = g2  c1 = c1  d1 = d1
    Procs = {gateway, cli}
    Threads = {g1, g2, c1}
    ProcOf <- ThreadedGateway
    MaxInodes = 2
    MaxCrashes = 1
    CanReset = TRUE
SPECIFICATION Spec
INVARIANTS HeldIsLocked
CHECK_DEADLOCK FALSE

