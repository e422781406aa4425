CONSTANTS
    x1 = x1  x2 = x2  s1 = s1  s2 = s2  n1 = n1
    gateway = gateway  cli = cli  w1 = w1  w2 = w2  w3 = w3  hm = hm
    None = None  Dead = Dead
    Models = {x1, x2}
    RoleOf <- RoleOfModels
    Early = {x1, x2}
    Procs = {gateway}
    Gateway = gateway
    Workers = {w1, w2}
    Monitors = {hm}
    ProcOf <- ProcOfThreads
    Jobs <- OnlySwitches
    MaxRequests = 2
    MaxFaults = 0
    MaxMisses = 0
    MaxDeaths = 0
SPECIFICATION Spec
INVARIANTS OneTenant
