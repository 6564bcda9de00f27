SPECIFICATION Spec
CONSTANTS
    k1 = k1  k2 = k2  NoKey = NoKey
    g1 = g1  g2 = g2  p1 = p1  p2 = p2  d1 = d1
    r1 = r1  r2 = r2  r3 = r3  r4 = r4  NoRow = NoRow
    Keys = {k1}
    Rows = {r1, r2, r3}
    Loads = {g1, g2, p1, p2, d1}
    Method <- MCMethod
    Filter <- MCFilter
SYMMETRY Symmetric
INVARIANT TypeOK
INVARIANT UniqueKeys
INVARIANT QuietGetMirrorsServer
INVARIANT RefusedPostLeavesNothing
PROPERTY ErrorsSpareKnownRows
CHECK_DEADLOCK FALSE
