CONSTANTS
    x1 = x1  x2 = x2  s1 = s1  s2 = s2  n1 = n1
    gateway = gateway  cli = cli  w1 = w1  w2 = w2  w3 = w3  hm = hm
    None = None  Dead = Dead
    Models = {x1, x2, s1, s2, n1}
    RoleOf <- RoleOfModels
    Early = {x1, x2, s1, s2, n1}
    Procs = {gateway}
    Gateway = gateway
    Workers = {w1}
    Monitors = {}
    ProcOf <- ProcOfThreads
    Jobs <- EveryJob
    MaxRequests = 5
    MaxFaults = 2
    MaxMisses = 2
    MaxDeaths = 0
SPECIFICATION Spec
INVARIANTS OneTenant GpuAccounted GateReopens
PROPERTIES NoneUndisturbed NonePreserved
CHECK_DEADLOCK FALSE
