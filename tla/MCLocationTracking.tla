------------------------- MODULE MCLocationTracking -------------------------
\* An instance of LocationTracking for TLC.
EXTENDS LocationTracking, TLC

\* Locations, and trips, are interchangeable.
Symmetric == Permutations(Locations) \cup Permutations(Trips)
=============================================================================
