CONSTANTS
    l1 = l1  l2 = l2  l3 = l3
    Loaders = {l1, l2}
    Managed = {}
    Limit = 2
    CountModulus = 6
SPECIFICATION Spec
INVARIANT NotBelowZero
CHECK_DEADLOCK FALSE
