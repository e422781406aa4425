CONSTANTS
    gateway = gateway  cli = cli  cli2 = cli2
    g1 = g1  g2 = g2  c1 = c1  d1 = d1
    Procs = {gateway, cli, cli2}
    Threads = {g1, c1, d1}
    ProcOf <- OnePerProcess
    MaxInodes = 1
    MaxCrashes = 2
    CanReset = FALSE
SPECIFICATION FairSpec
INVARIANTS NoLeakedLock ProcessExclusion
PROPERTIES ImplementsMutex LockReturned

