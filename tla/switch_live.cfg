CONSTANTS
    x1 = x1  x2 = x2  s1 = s1  s2 = s2  n1 = n1
    gateway = gateway  cli = cli  w1 = w1  w2 = w2  w3 = w3  hm = hm
    None = None  Dead = Dead
    Models = {x1, s1}
    RoleOf <- RoleOfModels
    Early = {}
    Procs = {gateway, cli}
    Gateway = gateway
    Workers = {w1, w3}
    Monitors = {hm}
    ProcOf <- ProcOfThreads
    Jobs <- SwitchStop
    MaxRequests = 2
    MaxFaults = 1
    MaxMisses = 0
    MaxDeaths = 1
SPECIFICATION FairSpec
INVARIANTS LockBalanced OneProcessSwitches
PROPERTIES Settles Answered
