CONSTANTS
    l1 = l1  l2 = l2  l3 = l3
    Loaders = {l1, l2, l3}
    Managed = {l1}
    Limit = 2
    CountModulus = 6
SPECIFICATION FairSpec
INVARIANT TypeOK
INVARIANT CountExact
INVARIANT LoadingIsWorkedOn
INVARIANT LoadedIsCommitted
PROPERTY DetachedHearsOnlyFailure
PROPERTY EndsOnce
PROPERTY RefinesLoadService
PROPERTY EventuallyFinalized
CONSTRAINT RaceBound
CHECK_DEADLOCK FALSE
