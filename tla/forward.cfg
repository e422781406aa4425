CONSTANTS
    r1 = r1  r2 = r2  p1 = p1  p2 = p2  own = own
    Requests = {r1, r2}
    Replicas = {p1, p2}
    Own = own
    Tries = 3
    MaxPermits = 1
    NamesAgree = TRUE
SPECIFICATION FairSpec
INVARIANTS  ServedIsLogged
PROPERTIES Answered
CHECK_DEADLOCK FALSE
