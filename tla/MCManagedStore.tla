--------------------------- MODULE MCManagedStore ---------------------------
\* Instances of ManagedStore for TLC.
EXTENDS ManagedStore, TLC

CONSTANTS k1, k2, g1, g2, p1, p2, d1, r1, r2, r3, r4

MCMethod == [l \in Loads |-> CASE l \in {g1, g2} -> "GET"
                               [] l \in {p1, p2} -> "POST"
                               [] l = d1         -> "DELETE"]

\* Every path asks for everything,
MCFilter == [l \in Loads |-> Keys]

\* or g2's path asks for one resource of the two.
MCPartial == [l \in Loads |-> IF l = g2 THEN {k1} ELSE Keys]

\* Rows, and loads of a kind, are interchangeable.
Symmetric == Permutations(Rows) \cup Permutations({g1, g2})
                                \cup Permutations({p1, p2})
=============================================================================
