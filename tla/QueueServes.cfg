CONSTANTS
    r1 = r1  r2 = r2  r3 = r3
    d1 = d1  d2 = d2
    Requests = {r1, r2, r3}
    Delegates = {d1, d2}
    Owner <- TwoOwners
    Policy <- NoPolicies
    Limit = 1
SPECIFICATION FairSpec
INVARIANT CountIsExact
PROPERTY EventuallyServed
