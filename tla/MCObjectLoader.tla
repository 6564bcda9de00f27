--------------------------- MODULE MCObjectLoader ---------------------------
(* Values of ObjectLoader's constants for TLC.                             *)
EXTENDS ObjectLoader
CONSTANTS l1, l2, l3

\* A third loader matters to what is promised of every load.  Once a load has
\* ended on a background thread little is promised, and two show the races.
RaceBound == raced => Cardinality(submitted) <= 2
=============================================================================
