CONSTANTS
    r1 = r1  r2 = r2  r3 = r3  url = url
    Requests <- MCRequests
    Keys = {url}
    Key <- MCKey
    Policy <- MCPolicy
    Deletes = {}
    Tagged = {url}
    MaxVersion = 3
SPECIFICATION Spec
INVARIANT TypeOK
INVARIANT EntryWhole
INVARIANT DateIsHonest
INVARIANT HollowOnlyAfterFault
PROPERTY MonotoneReads
PROPERTY RevalidatedIsCurrent
CHECK_DEADLOCK FALSE
