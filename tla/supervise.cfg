CONSTANTS
    a = a  b = b  c1 = c1  c2 = c2  r1 = r1  r2 = r2
    None = None
    Models = {a, b}
    Callers = {c1, c2}
    Restarters = {r1}
    Jobs <- EveryJob
    Roles <- EveryRole
    AlertAt = 1
    RestartAt = 2
    MaxRestarts = 1
    Budgets <- EveryBudget
SPECIFICATION FairSpec
PROPERTIES NoStorm Answered Settles
